--------------------------- MODULE ChangelogSync ---------------------------
(***************************************************************************)
(* How changelogs get from an asworker to the csworkers that listen to it  *)
(* (src/asworker.js, src/session_manager.js, src/csworker.js), and how a   *)
(* csworker that joins a shared model is cloned from another one.          *)
(*                                                                         *)
(* The asworker numbers its changelogs.  They leave it last made, first    *)
(* sent, because __postMessage answers queued requests before it sends its *)
(* own message (see WorkerLocks, BurstsComplete); from then on each socket *)
(* is a FIFO.  A csworker keeps the changelogs that come too early, and    *)
(* applies one in two parts: what it does at once, and what it does when   *)
(* the asworker has evaluated the mappings of the icons it redraws.        *)
(***************************************************************************)
EXTENDS Naturals, Sequences, FiniteSets, SequencesExt

CONSTANTS
    Founder,  \* csworkers subscribed from the start
    Joiner,   \* csworkers that join a shared model
    MaxMade   \* bound: changelogs the asworker makes

CSWorker == Founder \cup Joiner

ASSUME ChangelogSyncAssumption ==
    /\ MaxMade \in Nat
    /\ Founder \cap Joiner = {}
    /\ IsFiniteSet(CSWorker)

VARIABLES
    made,      \* asworker: __nextSequenceNumber
    unsent,    \* asworker: messages of the current turn that process.send waits for
    chan,      \* [CSWorker -> Seq(Nat)] the csworker's socket
    mode,      \* [CSWorker -> Mode]
    next,      \* __nextASWSequenceNumber
    pending,   \* __pendingChangelogs
    applying,  \* number of the changelog being applied, 0 if none
    content,   \* the parts of changelogs that its _mmmk holds, in order
    snapshot   \* [CSWorker -> answers to GET /internal.state on their way]

asw  == <<made, unsent>>
csw  == <<next, pending, applying, content>>
vars == <<asw, chan, mode, csw, snapshot>>

Mode == {"away",    \* not subscribed
         "cloning", \* registered with the asworker, waiting for internal.state
         "live",    \* applies changelogs
         "crashed"} \* threw 'invalid changelog sequence#'

SN   == 1 .. MaxMade
Part == SN \X {"begin", "end"}

\* mutant: a csworker expects number 0 first
FirstSequenceNumber_Zero == 0

\* '/asworker#1', the first number that __nextSequenceNumber gives
FirstSequenceNumber == 1

Init ==
    /\ made = 0 /\ unsent = <<>>
    /\ chan = [c \in CSWorker |-> <<>>]
    /\ mode = [c \in CSWorker |-> IF c \in Founder THEN "live" ELSE "away"]
    /\ next = [c \in CSWorker |-> FirstSequenceNumber]
    /\ pending = [c \in CSWorker |-> <<>>]
    /\ applying = [c \in CSWorker |-> 0]
    /\ content = [c \in CSWorker |-> <<>>]
    /\ snapshot = [c \in CSWorker |-> {}]

-----------------------------------------------------------------------------
(* The asworker and the session manager.                                   *)

Make ==
    /\ made < MaxMade
    /\ made' = made + 1
    /\ unsent' = Append(unsent, made + 1)
    /\ UNCHANGED <<chan, mode, csw, snapshot>>

\* mutant: a changelog is pushed to one registered socket only
Send_FirstSocket ==
    /\ unsent # <<>>
    /\ \E d \in CSWorker : mode[d] # "away" /\ chan' = [chan EXCEPT ![d] = Append(@, unsent[Len(unsent)])]
    /\ unsent' = SubSeq(unsent, 1, Len(unsent) - 1)
    /\ UNCHANGED <<made, mode, csw, snapshot>>

\* mutant: a csworker is registered twice as a listener
Send_RegisteredTwice ==
    /\ unsent # <<>>
    /\ chan' = [c \in CSWorker |-> IF mode[c] = "away" THEN chan[c]
                                   ELSE chan[c] \o <<unsent[Len(unsent)], unsent[Len(unsent)]>>]
    /\ unsent' = SubSeq(unsent, 1, Len(unsent) - 1)
    /\ UNCHANGED <<made, mode, csw, snapshot>>

\* send_to_all: every registered socket gets the changelog
Send ==
    /\ unsent # <<>>
    /\ chan' = [c \in CSWorker |-> IF mode[c] = "away" THEN chan[c]
                                   ELSE Append(chan[c], unsent[Len(unsent)])]
    /\ unsent' = SubSeq(unsent, 1, Len(unsent) - 1)
    /\ UNCHANGED <<made, mode, csw, snapshot>>

-----------------------------------------------------------------------------
(* __applyASWChanges and __applyPendingASWChanges.                         *)

\* __pendingChangelogs.push, then sort: it comes after the smaller ones
Later(p, sn) == InsertAt(p, Cardinality({i \in DOMAIN p : p[i] < sn}) + 1, sn)

\* mutant: early changelogs are kept in the order they came
Receive_Unsorted(c) ==
    /\ mode[c] \in {"cloning", "live"} /\ chan[c] # <<>>
    /\ chan' = [chan EXCEPT ![c] = Tail(@)]
    /\ LET sn == Head(chan[c]) IN
       \/ /\ sn > next[c]
          /\ pending' = [pending EXCEPT ![c] = Append(@, sn)]
          /\ UNCHANGED <<mode, applying, content>>
       \/ /\ sn < next[c]
          /\ mode' = [mode EXCEPT ![c] = "crashed"]
          /\ UNCHANGED <<pending, applying, content>>
       \/ /\ sn = next[c]
          /\ applying' = [applying EXCEPT ![c] = sn]
          /\ content' = [content EXCEPT ![c] = Append(@, <<sn, "begin">>)]
          /\ UNCHANGED <<mode, pending>>
    /\ UNCHANGED <<asw, next, snapshot>>

Receive(c) ==
    /\ mode[c] \in {"cloning", "live"} /\ chan[c] # <<>>
    /\ chan' = [chan EXCEPT ![c] = Tail(@)]
    /\ LET sn == Head(chan[c]) IN
       \/ /\ sn > next[c]
          /\ pending' = [pending EXCEPT ![c] = Later(@, sn)]
          /\ UNCHANGED <<mode, applying, content>>
       \/ /\ sn < next[c]
          /\ mode' = [mode EXCEPT ![c] = "crashed"]
          /\ UNCHANGED <<pending, applying, content>>
       \/ /\ sn = next[c]
          /\ applying' = [applying EXCEPT ![c] = sn]
          /\ content' = [content EXCEPT ![c] = Append(@, <<sn, "begin">>)]
          /\ UNCHANGED <<mode, pending>>
    /\ UNCHANGED <<asw, next, snapshot>>

\* mutant: the pending changelogs are not looked at
Finish_LeavesPending(c) ==
    /\ mode[c] # "crashed" /\ applying[c] # 0
    /\ next' = [next EXCEPT ![c] = @ + 1]
    /\ applying' = [applying EXCEPT ![c] = 0]
    /\ content' = [content EXCEPT ![c] = Append(@, <<applying[c], "end">>)]
    /\ UNCHANGED <<asw, chan, mode, pending, snapshot>>

\* the end of the chain: post the changelog, count it, begin the next one if it is
\* the first pending one
Finish(c) ==
    /\ mode[c] # "crashed" /\ applying[c] # 0
    /\ next' = [next EXCEPT ![c] = @ + 1]
    /\ LET done == Append(content[c], <<applying[c], "end">>)
       IN  IF pending[c] # <<>> /\ Head(pending[c]) = next[c] + 1
           THEN /\ pending' = [pending EXCEPT ![c] = Tail(@)]
                /\ applying' = [applying EXCEPT ![c] = next[c] + 1]
                /\ content' = [content EXCEPT ![c] = Append(done, <<next[c] + 1, "begin">>)]
           ELSE /\ applying' = [applying EXCEPT ![c] = 0]
                /\ content' = [content EXCEPT ![c] = done]
                /\ UNCHANGED pending
    /\ UNCHANGED <<asw, chan, mode, snapshot>>

-----------------------------------------------------------------------------
(* __aswSubscribe with a csworker to clone.                                *)

\* registered as a listener; the 201 makes it ask for internal.state
Join(c) ==
    /\ mode[c] = "away"
    /\ mode' = [mode EXCEPT ![c] = "cloning"]
    /\ UNCHANGED <<asw, chan, csw, snapshot>>

\* GET /internal.state is a read: it waits for no changelog in progress
InternalState(a, c) ==
    /\ mode[c] = "cloning" /\ mode[a] = "live" /\ snapshot[c] = {}
    /\ snapshot' = [snapshot EXCEPT ![c] = {[next |-> next[a], pending |-> pending[a],
                                             content |-> content[a]]}]
    /\ UNCHANGED <<asw, chan, mode, csw>>

\* __pendingChangelogs.filter, a function of k so that it can be reasoned about
After(p, sn) ==
    LET kept[k \in 0 .. Len(p)] ==
          IF k = 0 THEN <<>>
          ELSE IF p[k] > sn THEN Append(kept[k - 1], p[k]) ELSE kept[k - 1]
    IN  kept[Len(p)]

\* __clone replaces the pending changelogs by the cloned csworker's, and keeps those
\* after the next one
Clone(c) ==
    /\ mode[c] = "cloning"
    /\ \E s \in snapshot[c] :
         /\ next' = [next EXCEPT ![c] = s.next]
         /\ content' = [content EXCEPT ![c] = s.content]
         /\ pending' = [pending EXCEPT ![c] = After(s.pending, s.next)]
    /\ mode' = [mode EXCEPT ![c] = "live"]
    /\ snapshot' = [snapshot EXCEPT ![c] = {}]
    /\ UNCHANGED <<asw, chan, applying>>

Next ==
    \/ Make \/ Send
    \/ \E c \in CSWorker : Receive(c) \/ Finish(c) \/ Join(c) \/ Clone(c)
    \/ \E a, c \in CSWorker : InternalState(a, c)

Spec == Init /\ [][Next]_vars

(* Messages that were made are sent, sockets deliver, the asworker answers *)
(* the requests for mappings (the csworker asks again until it does), and  *)
(* a GET /internal.state is answered.                                      *)
Fairness ==
    /\ WF_vars(Send)
    /\ \A c \in CSWorker :
         WF_vars(Receive(c)) /\ WF_vars(Finish(c)) /\ WF_vars(Clone(c))
    /\ \A c \in CSWorker : WF_vars(\E a \in CSWorker : InternalState(a, c))

FairSpec == Spec /\ Fairness

-----------------------------------------------------------------------------
(* Properties.                                                             *)

\* Every variable has its type.
TypeOK ==
    /\ made \in 0 .. MaxMade /\ unsent \in Seq(SN)
    /\ chan \in [CSWorker -> Seq(SN)]
    /\ mode \in [CSWorker -> Mode]
    /\ next \in [CSWorker -> Nat \ {0}]
    /\ pending \in [CSWorker -> Seq(SN)]
    /\ applying \in [CSWorker -> 0 .. MaxMade]
    /\ content \in [CSWorker -> Seq(Part)]
    /\ DOMAIN snapshot = CSWorker
    /\ \A c \in CSWorker : \A s \in snapshot[c] :
          s.next \in Nat \ {0} /\ s.pending \in Seq(SN) /\ s.content \in Seq(Part)

\* what 1 .. n applied in order leave in a csworker
InOrder(n) == [ i \in 1 .. 2 * n |-> <<(i + 1) \div 2, IF i % 2 = 1 THEN "begin" ELSE "end">> ]

\* A csworker that was there from the start holds exactly the changelogs before the
\* next one, in order, each once, and perhaps the first part of the next one,
\* whatever order they were sent in and however slowly each was applied.
AppliedInOrder ==
    \A c \in Founder :
        content[c] = IF applying[c] = 0 THEN InOrder(next[c] - 1)
                     ELSE Append(InOrder(next[c] - 1), <<next[c], "begin">>)

SNsIn(s) == { s[i] : i \in DOMAIN s }

\* Nothing is lost on the way: each changelog made is applied, being applied, pending,
\* in the socket or about to be sent, and one that is applied is nowhere else (a
\* second copy would make the csworker throw 'invalid changelog sequence#').  It
\* waits in __pendingChangelogs only while an earlier one is missing: the list is
\* sorted and its head is not the one the csworker would apply now.
NothingLost ==
    \A c \in Founder :
        LET coming  == SNsIn(chan[c]) \cup SNsIn(unsent)
            waiting == SNsIn(pending[c])
        IN  /\ \A n \in 1 .. made :
                 \/ n < next[c] /\ n \notin waiting \cup coming
                 \/ n = applying[c]
                 \/ n \in waiting \cup coming
            /\ \A i, j \in DOMAIN pending[c] : i < j => pending[c][i] < pending[c][j]
            /\ waiting # {} /\ applying[c] = 0 => Head(pending[c]) > next[c]

\* Propagation implements the abstract log, liveness included.
Log == INSTANCE ReplicaLog WITH
         Replica <- Founder, MaxIssued <- MaxMade, issued <- made,
         applied <- [c \in Founder |-> next[c] - 1]
ImplementsReplicaLog == Log!Spec

\* A csworker that joined a shared model catches up with the asworker: cloning removes
\* "any obsolete changelogs received since" (__aswSubscribe, iv) and no others.
JoinerCatchesUp ==
    \A c \in Joiner : \A n \in SN :
        (mode[c] = "live" /\ made >= n) ~> next[c] > n
=============================================================================
