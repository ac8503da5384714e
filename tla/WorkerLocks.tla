---------------------------- MODULE WorkerLocks ----------------------------
(***************************************************************************)
(* Concurrency control of one *worker process (src/__worker.js): the       *)
(* readers/writers counters, the request queue, the backstage passes of    *)
(* batchEdits, and the order in which responses leave the process.         *)
(*                                                                         *)
(* A worker is one JavaScript thread.  Everything it does between two      *)
(* events runs to completion, so `stack` holds the calls of the current    *)
(* turn, innermost last; events (a message from the session manager, the   *)
(* HTTP answer to a request the worker sent) happen only when it is empty. *)
(* The calls that matter are kept apart because __onRequestResponse runs   *)
(* queued requests before its caller goes on to process.send.              *)
(***************************************************************************)
EXTENDS Naturals, Sequences, FiniteSets

CONSTANTS
    Req,    \* every HTTP request that reaches the worker
    Kind,   \* [Req -> RequestKind]
    Subs,   \* [Req -> Seq(Req)] the requests a handler sends to its own worker,
            \* one after the other's answer (a batchEdit's begin and end with
            \* its two POST /batchCheckpoint)
    Undo,   \* [Req -> Req \cup {NoReq}] the POST /undo of a failing batchEdit
    NoReq   \* "no request"

RequestKind ==
    { "read",        \* GET ..., or any method on /GET/...
      "write",       \* any other request with a handler that calls _mmmk
      "batchRead",   \* POST /GET/batchRead
      "batchEdit",   \* POST /batchEdit
      "mtwRequest" } \* /__mt/...: a write that calls PUT /GET/console here

SubsOf(b)  == { Subs[b][i] : i \in DOMAIN Subs[b] }
Parents    == [r \in Req |-> { b \in Req : r \in SubsOf(b) \/ r = Undo[b] }]

ASSUME ConstantsAssumption ==
    /\ IsFiniteSet(Req)
    /\ NoReq \notin Req
    /\ Kind \in [Req -> RequestKind]
    /\ Subs \in [Req -> Seq(Req)]
    /\ Undo \in [Req -> Req \cup {NoReq}]
    /\ \A b \in Req : Kind[b] \in {"read", "write"} <=> Subs[b] = <<>>
    /\ \A b \in Req : Kind[b] = "batchEdit" <=> Undo[b] # NoReq
    /\ \A b \in Req : b \notin Parents[b]
    /\ \A b, c \in Req : \A i \in DOMAIN Subs[b], j \in DOMAIN Subs[c] :
            Subs[b][i] = Subs[c][j] => b = c /\ i = j
    /\ \A b \in Req : Undo[b] # NoReq => /\ Parents[Undo[b]] = {b}
                                        /\ Undo[b] \notin SubsOf(b)
                                        /\ Kind[Undo[b]] = "write"

VARIABLES
    phase,          \* where each request is
    lockInfo,       \* __reqs2lockInfo: how each request was counted
    reqQueue,       \* __reqQueue
    numReaders,     \* __numReaders
    numWriters,     \* __numWriters
    rLocks,         \* __rLocks
    backstagePass,  \* __backstagePass, named by the request it was minted for
    passOf,         \* the pass in the uri of each request
    at,             \* index of the last request each batch sent
    failed,         \* has the batch met an error (and sent its POST /undo)
    ok,             \* did the request succeed
    seqNo,          \* the sequence number its message carries, 0 if none
    stack,          \* the calls of the current turn
    wire            \* sequence numbers in the order process.send emitted them

locks == <<lockInfo, reqQueue, numReaders, numWriters, rLocks>>
batch == <<backstagePass, passOf, at, failed>>
vars  == <<phase, locks, batch, ok, seqNo, stack, wire>>

Phase == {"idle",     \* not sent
          "transit",  \* sent to the worker
          "queued",   \* in __reqQueue
          "running",  \* given to its handler, not answered
          "replying", \* __postMessage has released it, process.send has not run
          "answered", \* process.send has run
          "lost"}     \* its handler returned and will never answer it

Frame == [fn : {"handle", "send"}, req : Req] \cup [fn : {"run"}, req : {NoReq}]

Top    == stack[Len(stack)]
Popped == SubSeq(stack, 1, Len(stack) - 1)
Call(fn, r) == [fn |-> fn, req |-> r]

-----------------------------------------------------------------------------
(* Classification of requests: __isRead, __needsLock, backstage passes.    *)

IsRead(r) == Kind[r] \in {"read", "batchRead"}

\* uris begin with "/": the regular expression /^batch/ matches none of them
UriStartsWithBatch(r) == FALSE
\* mutant: the lock NOTES 3 describes is granted
NeedsRLock_AsDocumented(r) == Kind[r] = "batchRead"
NeedsRLock(r) == Kind[r] \in {"batchRead", "batchEdit"} /\ UriStartsWithBatch(r)

\* only a batchEdit puts a pass in the uris of the requests it sends
HasPass(r) == \E b \in Parents[r] : Kind[b] = "batchEdit"

IsNested(b) == Kind[b] = "batchEdit" /\ \E s \in SubsOf(b) : Kind[s] = "batchEdit"

-----------------------------------------------------------------------------
(* __canProceed and the counters it moves.  No request write-locks, so     *)
(* __wLocked is always false and is left out.                              *)

\* mutant: a write does not wait for the writer
CanProceed_IgnoresWriters(r, ignoreQueue) == ignoreQueue \/ reqQueue = <<>>

CanProceed(r, ignoreQueue) ==
    /\ IsRead(r) \/ numWriters = 0
    /\ ignoreQueue \/ reqQueue = <<>>
    /\ rLocks = 0 \/ IsRead(r)
    /\ NeedsRLock(r) => numReaders = 0 /\ numWriters = 0

\* mutant: a reader is remembered as a writer
Grant_WrongClass(r) ==
    /\ rLocks' = rLocks
    /\ numReaders' = IF IsRead(r) THEN numReaders + 1 ELSE numReaders
    /\ numWriters' = IF IsRead(r) THEN numWriters ELSE numWriters + 1
    /\ lockInfo' = [lockInfo EXCEPT ![r] = "writer"]

Grant(r) ==
    /\ rLocks' = IF NeedsRLock(r) THEN rLocks + 1 ELSE rLocks
    /\ numReaders' = IF IsRead(r) THEN numReaders + 1 ELSE numReaders
    /\ numWriters' = IF IsRead(r) THEN numWriters ELSE numWriters + 1
    /\ lockInfo' = [lockInfo EXCEPT ![r] = IF IsRead(r) THEN "reader" ELSE "writer"]

\* Math.max(--n, 0)
Less(n) == IF n = 0 THEN 0 ELSE n - 1

\* mutant: a request that was let in by a pass gives back a writer's place
Release_NoInfoCheck(r) ==
    /\ numWriters' = IF lockInfo[r] = "reader" THEN numWriters ELSE numWriters - 1
    /\ numReaders' = IF lockInfo[r] = "reader" THEN numReaders - 1 ELSE numReaders
    /\ UNCHANGED <<rLocks, lockInfo, reqQueue>>

\* __onRequestResponse, up to its call of __runQueuedRequests
Release(r) ==
    /\ rLocks' = IF lockInfo[r] # "none" /\ NeedsRLock(r) THEN Less(rLocks) ELSE rLocks
    /\ numReaders' = IF lockInfo[r] = "reader" THEN Less(numReaders) ELSE numReaders
    /\ numWriters' = IF lockInfo[r] = "writer" THEN Less(numWriters) ELSE numWriters
    /\ UNCHANGED <<lockInfo, reqQueue>>

\* mutant: a response does not run the queue
RunFrames_Forgotten(r) == <<>>
RunFrames(r) == IF lockInfo[r] = "none" THEN <<>> ELSE <<Call("run", NoReq)>>

\* mutant: a number is taken when the message is sent
Numbered_WhenSent == { r \in Req : seqNo[r] # 0 /\ phase[r] = "answered" }
Numbered == { r \in Req : seqNo[r] # 0 }

\* __postMessage(r) called from a turn whose other calls are `below`
PostMessage(r, success, below) ==
    /\ Release(r)
    /\ ok' = [ok EXCEPT ![r] = success]
    /\ seqNo' = [seqNo EXCEPT ![r] = IF success /\ Kind[r] = "write"
                                     THEN Cardinality(Numbered) + 1 ELSE 0]
    /\ phase' = [phase EXCEPT ![r] = "replying"]
    /\ stack' = below \o <<Call("send", r)>> \o RunFrames(r)
    /\ UNCHANGED wire

-----------------------------------------------------------------------------
\* the requests that no handler of this worker sends
OfClients == { r \in Req : Parents[r] = {} }

\* Clients send some of their requests: how long each is on its way is open,
\* and those they do not send never come.
Init ==
    /\ \E sent \in SUBSET OfClients :
          phase = [r \in Req |-> IF r \in sent THEN "transit" ELSE "idle"]
    /\ lockInfo = [r \in Req |-> "none"]
    /\ reqQueue = <<>>
    /\ numReaders = 0 /\ numWriters = 0 /\ rLocks = 0
    /\ backstagePass = NoReq
    /\ passOf = [r \in Req |-> NoReq]
    /\ at = [r \in Req |-> 0]
    /\ failed = [r \in Req |-> FALSE]
    /\ ok = [r \in Req |-> FALSE]
    /\ seqNo = [r \in Req |-> 0]
    /\ stack = <<>>
    /\ wire = <<>>

(* process.on('message'): a request reaches the worker.                    *)
\* a pass that is not the current one is answered 401 and touches no counter
ArriveWithPass(r) ==
    /\ stack = <<>> /\ phase[r] = "transit" /\ HasPass(r)
    /\ IF backstagePass # NoReq /\ passOf[r] = backstagePass
       THEN /\ phase' = [phase EXCEPT ![r] = "running"]
            /\ stack' = <<Call("handle", r)>>
            /\ UNCHANGED <<locks, ok, seqNo, wire>>
       ELSE PostMessage(r, FALSE, <<>>)
    /\ UNCHANGED batch

ArriveAndProceed(r) ==
    /\ stack = <<>> /\ phase[r] = "transit"
    /\ ~HasPass(r) /\ CanProceed(r, FALSE)
    /\ Grant(r)
    /\ phase' = [phase EXCEPT ![r] = "running"]
    /\ stack' = <<Call("handle", r)>>
    /\ UNCHANGED <<reqQueue, batch, ok, seqNo, wire>>

ArriveAndQueue(r) ==
    /\ stack = <<>> /\ phase[r] = "transit"
    /\ ~HasPass(r) /\ ~CanProceed(r, FALSE)
    /\ reqQueue' = Append(reqQueue, r)
    /\ phase' = [phase EXCEPT ![r] = "queued"]
    /\ UNCHANGED <<lockInfo, numReaders, numWriters, rLocks, batch, ok, seqNo, stack, wire>>

(* __runQueuedRequests: start the head if it may proceed, and recurse.     *)
HeadMayRun == reqQueue # <<>> /\ CanProceed(Head(reqQueue), TRUE)

RunHead ==
    /\ stack # <<>> /\ Top.fn = "run"
    /\ HeadMayRun
    /\ Grant(Head(reqQueue))
    /\ reqQueue' = Tail(reqQueue)
    /\ phase' = [phase EXCEPT ![Head(reqQueue)] = "running"]
    /\ stack' = Append(stack, Call("handle", Head(reqQueue)))
    /\ UNCHANGED <<batch, ok, seqNo, wire>>

RunStops ==
    /\ stack # <<>> /\ Top.fn = "run"
    /\ ~HeadMayRun
    /\ stack' = Popped
    /\ UNCHANGED <<phase, locks, batch, ok, seqNo, wire>>

(* process.send, the rest of __postMessage.                                *)
Send ==
    /\ stack # <<>> /\ Top.fn = "send"
    /\ phase' = [phase EXCEPT ![Top.req] = "answered"]
    /\ wire' = IF seqNo[Top.req] = 0 THEN wire ELSE Append(wire, seqNo[Top.req])
    /\ stack' = Popped
    /\ UNCHANGED <<locks, batch, ok, seqNo>>

-----------------------------------------------------------------------------
(* Handlers.  A plain one answers before it returns (asworker's do) or     *)
(* waits for HTTP or disk and answers in a later turn (csworker's do).     *)

IsPlain(r) == Kind[r] \in {"read", "write"}

HandleNow(r) ==
    /\ stack # <<>> /\ Top = Call("handle", r) /\ IsPlain(r)
    /\ \E success \in BOOLEAN : PostMessage(r, success, Popped)
    /\ UNCHANGED batch

HandleLater(r) ==
    /\ stack # <<>> /\ Top = Call("handle", r) /\ IsPlain(r)
    /\ stack' = Popped
    /\ UNCHANGED <<phase, locks, batch, ok, seqNo, wire>>

Respond(r) ==
    /\ stack = <<>> /\ phase[r] = "running" /\ IsPlain(r)
    /\ \E success \in BOOLEAN : PostMessage(r, success, <<>>)
    /\ UNCHANGED batch

\* a batchEdit mints a pass for every request it sends, and sends it along
Issue(b, i) ==
    LET s == Subs[b][i] IN
    /\ at' = [at EXCEPT ![b] = i]
    /\ phase' = [phase EXCEPT ![s] = "transit"]
    /\ IF Kind[b] = "batchEdit"
       THEN /\ backstagePass' = s
            /\ passOf' = [passOf EXCEPT ![s] = s]
       ELSE UNCHANGED <<backstagePass, passOf>>

HandleBatch(b) ==
    /\ stack # <<>> /\ Top = Call("handle", b)
    /\ ~IsPlain(b) /\ ~IsNested(b)
    /\ Issue(b, 1)
    /\ stack' = Popped
    /\ UNCHANGED <<locks, failed, ok, seqNo, wire>>

\* the 400 of a nested batchEdit is posted without the request's respIndex
HandleNestedBatch(b) ==
    /\ stack # <<>> /\ Top = Call("handle", b) /\ IsNested(b)
    /\ phase' = [phase EXCEPT ![b] = "lost"]
    /\ stack' = Popped
    /\ UNCHANGED <<locks, batch, ok, seqNo, wire>>

\* the answer to the last request that b sent reaches b
Outstanding(b) == IF failed[b] THEN Undo[b] ELSE Subs[b][at[b]]

Answered(b) ==
    /\ stack = <<>> /\ phase[b] = "running"
    /\ ~IsPlain(b) /\ at[b] > 0
    /\ phase[Outstanding(b)] = "answered"

ForgetPass(b) ==
    /\ backstagePass' = IF Kind[b] = "batchEdit" THEN NoReq ELSE backstagePass
    /\ UNCHANGED <<passOf, at, failed>>

BatchGoesOn(b) ==
    /\ Answered(b) /\ ~failed[b] /\ ok[Outstanding(b)] /\ at[b] < Len(Subs[b])
    /\ Issue(b, at[b] + 1)
    /\ UNCHANGED <<locks, failed, ok, seqNo, stack, wire>>

BatchSucceeds(b) ==
    /\ Answered(b) /\ ~failed[b] /\ ok[Outstanding(b)] /\ at[b] = Len(Subs[b])
    /\ PostMessage(b, TRUE, <<>>)
    /\ ForgetPass(b)

\* results.length > 0: one edit after the start checkpoint has succeeded
MustUndo(b) == Kind[b] = "batchEdit" /\ at[b] > 2

\* mutant: the pass is forgotten before the rollback is sent
BatchUndoes_WithoutPass(b) ==
    /\ Answered(b) /\ ~failed[b] /\ ~ok[Outstanding(b)] /\ MustUndo(b)
    /\ failed' = [failed EXCEPT ![b] = TRUE]
    /\ phase' = [phase EXCEPT ![Undo[b]] = "transit"]
    /\ backstagePass' = NoReq
    /\ passOf' = [passOf EXCEPT ![Undo[b]] = NoReq]
    /\ UNCHANGED <<locks, at, ok, seqNo, stack, wire>>

\* the POST /undo carries the pass of the request that failed
BatchUndoes(b) ==
    /\ Answered(b) /\ ~failed[b] /\ ~ok[Outstanding(b)] /\ MustUndo(b)
    /\ failed' = [failed EXCEPT ![b] = TRUE]
    /\ phase' = [phase EXCEPT ![Undo[b]] = "transit"]
    /\ passOf' = [passOf EXCEPT ![Undo[b]] = backstagePass]
    /\ UNCHANGED <<locks, backstagePass, at, ok, seqNo, stack, wire>>

BatchFails(b) ==
    /\ Answered(b)
    /\ failed[b] \/ (~ok[Outstanding(b)] /\ ~MustUndo(b))
    /\ PostMessage(b, FALSE, <<>>)
    /\ ForgetPass(b)

-----------------------------------------------------------------------------
Arrive(r) == ArriveWithPass(r) \/ ArriveAndProceed(r) \/ ArriveAndQueue(r)
Handle(r) == HandleNow(r) \/ HandleLater(r) \/ HandleBatch(r) \/ HandleNestedBatch(r)
Turn      == RunHead \/ RunStops \/ Send \/ \E r \in Req : Handle(r)
Collect(b) == BatchGoesOn(b) \/ BatchSucceeds(b) \/ BatchUndoes(b) \/ BatchFails(b)

Next == Turn \/ \E r \in Req : Arrive(r) \/ Respond(r) \/ Collect(r)

Spec == Init /\ [][Next]_vars

(* A turn runs to completion, a request that was sent arrives, a handler   *)
(* that waits for HTTP or disk is called back.  No request takes the same  *)
(* step twice, so asking only that the worker does not stop while any of   *)
(* this can happen is as much as asking for each.                          *)
Fairness == WF_vars(Next)

FairSpec == Spec /\ Fairness

-----------------------------------------------------------------------------
(* Properties.                                                             *)

\* Every variable has its type.
TypeOK ==
    /\ phase \in [Req -> Phase]
    /\ lockInfo \in [Req -> {"none", "reader", "writer"}]
    /\ reqQueue \in Seq(Req)
    /\ numReaders \in Nat /\ numWriters \in Nat /\ rLocks \in Nat
    /\ backstagePass \in Req \cup {NoReq}
    /\ passOf \in [Req -> Req \cup {NoReq}]
    /\ at \in [Req -> Nat]
    /\ failed \in [Req -> BOOLEAN]
    /\ ok \in [Req -> BOOLEAN]
    /\ seqNo \in [Req -> Nat]
    /\ stack \in Seq(Frame)
    /\ wire \in Seq(Nat)

\* Requests that hold a place in the counters: granted and not released.
Counted(class) == { r \in Req : lockInfo[r] = class /\ phase[r] \in {"running", "lost"} }

\* At most one request that was counted as a writer is between its grant and
\* its response ("disallow concurrent writes", __canProceed).
WriterExclusion == \A r, s \in Counted("writer") : r = s

\* The counters say how many granted requests have not been answered: no path
\* through the queue, the passes and the recursion of __runQueuedRequests
\* counts a request twice or forgets to give its place back.
CountersExact ==
    /\ numWriters = Cardinality(Counted("writer"))
    /\ numReaders = Cardinality(Counted("reader"))

\* Edits of _mmmk never overlap, whether they hold the writer's place or get in
\* with a backstage pass: two of them in progress would interleave their
\* journal entries.
EditsSerialized ==
    \A r, s \in Req :
        /\ Kind[r] = "write" /\ phase[r] = "running"
        /\ Kind[s] = "write" /\ phase[s] = "running"
        => r = s

\* A batchEdit's own requests always carry the current pass when they arrive,
\* so none of them, nor its rollback, is refused with a 401.
PassIsCurrent ==
    \A r \in Req : HasPass(r) /\ phase[r] = "transit"
                        => backstagePass # NoReq /\ passOf[r] = backstagePass

\* No lost wakeup: between two turns the head of the queue is there because it
\* may not run now, never because nobody looked at it again.
NoLostWakeup == stack = <<>> => ~HeadMayRun

\* Whichever requests clients send, each of them is answered: the queue only delays
\* requests (NOTES 5 and 7 of __worker.js), a batch is not kept waiting by what is
\* queued behind it, and its own requests reach it.  Where a nested batchEdit is sent
\* and forgotten by its handler the writer's place is never given back, and nothing
\* is claimed from then on: see WritersNotStarved.
EventuallyAnswered ==
    \A r \in OfClients : phase[r] = "transit"
                     ~> (phase[r] = "answered" \/ \E b \in Req : phase[b] = "lost")

\* The refusal of one request does not cost the others their turn: every write a
\* client sends is answered.
WritersNotStarved ==
    \A w \in OfClients : Kind[w] = "write"
                        => (phase[w] = "transit" ~> phase[w] = "answered")

\* NOTES 3 of __worker.js: a batchRead read-locks the worker, so no write starts
\* while one is in progress.
BatchReadIsolated ==
    [][ \A r, w \in Req :
          /\ Kind[r] = "batchRead" /\ phase[r] = "running"
          /\ ~IsRead(w) /\ phase[w] # "running"
          => phase'[w] # "running" ]_phase

\* Numbers leave the worker in bursts without gaps: between two turns those emitted
\* are 1 .. n, each once, though within a burst they may be out of order, because a
\* response wakes queued requests before it is sent.
BurstsComplete ==
    stack = <<>> => { wire[i] : i \in DOMAIN wire } = 1 .. Len(wire)
=============================================================================
