------------------------------ MODULE ClientSync ------------------------------
(***************************************************************************)
(* How the changelogs of one csworker get to the browsers that show it     *)
(* (src/csworker.js, src/session_manager.js, src/client/init.js,           *)
(* mmm_utils.js, query_response.js), and how a browser that joins gets the *)
(* state it starts from.                                                   *)
(*                                                                         *)
(* A client orders two streams: changelogs that carry on one of the        *)
(* asworker have its number, those of the csworker's own writes have the   *)
(* csworker's.  The state of a guest comes by HTTP, changelogs by its      *)
(* socket, so either may overtake the other.                               *)
(*                                                                         *)
(* The first changelog loads a metamodel: before it there is nothing to    *)
(* change, and a state without metamodels is not handled at all.           *)
(* Left out: CS switches (IconSync), what a changelog does to the canvas   *)
(* (Canvas), clients that leave (Sessions).                                *)
(***************************************************************************)
EXTENDS Naturals, Sequences, SequencesExt, FiniteSetsExt

CONSTANTS
    Owner,   \* clients listening since the csworker was made
    Guest,   \* clients that join while others work
    Cloned,  \* the csworker is a modelshare guest's: its state was another's
    MaxAsw,  \* bound: changelogs of the asworker
    MaxCsw   \* bound: the csworker's own writes

Client == Owner \cup Guest

ASSUME ClientSyncAssumption ==
    /\ Owner \cap Guest = {}
    /\ Cloned \in BOOLEAN /\ MaxAsw \in Nat /\ MaxCsw \in Nat

VARIABLES
    log,       \* csworker: the changelogs whose effect its model has, in order
    applying,  \* number of the asworker changelog it is in the middle of, or 0
    turn,      \* messages of the current turn that process.send waits for
    ipc,       \* messages the session manager has not read
    mode,      \* of each client: "out", "asking", "answered", "in"
    socket,    \* pushed to each client and not handled
    answer,    \* of each guest: the state it asked for, on its way
    next,      \* __nextASWSequenceNumber, __nextCSWSequenceNumber
    pending,   \* __pendingASWChangelogs, __pendingCSWChangelogs
    shows,     \* the changelogs whose effect the canvas has, in order
    lost,      \* changelogs whose handler threw
    upset      \* what went wrong when a guest joined, or "no"

csworker == <<log, applying, turn>>
view     == <<next, pending, shows, lost>>
vars == <<csworker, ipc, mode, socket, answer, view, upset>>

Stream == {"asw", "csw"}
Changelog == ({"asw"} \X (1 .. MaxAsw)) \cup ({"csw"} \X (1 .. MaxCsw))

\* how many changelogs of a stream a log has: the last number of the stream
Count(s, l) == Cardinality({i \in DOMAIN l : l[i][1] = s})

Init ==
    /\ log = <<>> /\ applying = 0 /\ turn = <<>> /\ ipc = <<>>
    /\ mode = [c \in Client |-> IF c \in Owner THEN "in" ELSE "out"]
    /\ socket = [c \in Client |-> <<>>]
    /\ answer = [c \in Client |-> {}]
    /\ next = [c \in Client |-> [s \in Stream |-> 1]]
    /\ pending = [c \in Client |-> [s \in Stream |-> <<>>]]
    /\ shows = [c \in Client |-> <<>>]
    /\ lost = [c \in Client |-> {}]
    /\ upset = [c \in Client |-> "no"]

-----------------------------------------------------------------------------
(* The csworker.  Messages of a turn leave last posted, first sent: a      *)
(* response starts queued requests before it is sent (WorkerLocks).        *)

Push(changelog) == [kind |-> "push", changelog |-> changelog]

\* __applyASWChanges begins: some steps are done, others wait for mappers
BeginAsw ==
    /\ turn = <<>> /\ applying = 0 /\ Count("asw", log) < MaxAsw
    /\ applying' = Count("asw", log) + 1
    /\ UNCHANGED <<log, turn, ipc, mode, socket, answer, view, upset>>

\* mutant: does not wait for the next one to come
EndAsw_GoesOn ==
    /\ turn = <<>> /\ applying # 0
    /\ log' = Append(log, <<"asw", applying>>)
    /\ ipc' = Append(ipc, Push(<<"asw", applying>>))
    /\ applying' = applying + 1
    /\ UNCHANGED <<turn, mode, socket, answer, view, upset>>

\* the end of its chain posts a changelog with the number of the asworker's
EndAsw ==
    /\ turn = <<>> /\ applying # 0
    /\ log' = Append(log, <<"asw", applying>>)
    /\ ipc' = Append(ipc, Push(<<"asw", applying>>))
    /\ applying' = 0
    /\ UNCHANGED <<turn, mode, socket, answer, view, upset>>

\* a write to an icon with no effect on the asworker's model (PUT *.cs, PUT *.vobject)
OwnWrite ==
    /\ Count("asw", log) > 0 /\ Count("csw", log) < MaxCsw
    /\ LET c == <<"csw", Count("csw", log) + 1>> IN
       /\ log' = Append(log, c)
       /\ turn' = Append(turn, Push(c))
    /\ UNCHANGED <<applying, ipc, mode, socket, answer, view, upset>>

\* GET /current.state, which nothing but the queue keeps waiting
ReadState(g) ==
    /\ mode[g] = "asking"
    /\ mode' = [mode EXCEPT ![g] = "answered"]
    /\ turn' = Append(turn, [kind |-> "state", to |-> g, log |-> log, half |-> applying])
    /\ UNCHANGED <<log, applying, ipc, socket, answer, view, upset>>

EndTurn ==
    /\ turn # <<>>
    /\ ipc' = ipc \o Reverse(turn)
    /\ turn' = <<>>
    /\ UNCHANGED <<log, applying, mode, socket, answer, view, upset>>

-----------------------------------------------------------------------------
(* The session manager.                                                    *)

\* joinSession registers the guest's socket; told so, it asks for the state
Join(g) ==
    /\ mode[g] = "out"
    /\ mode' = [mode EXCEPT ![g] = "asking"]
    /\ UNCHANGED <<csworker, ipc, socket, answer, view, upset>>

Relay ==
    /\ ipc # <<>>
    /\ LET m == Head(ipc) IN
       IF m.kind = "push"
       THEN /\ socket' = [c \in Client |-> IF mode[c] = "out" THEN socket[c]
                                           ELSE Append(socket[c], m.changelog)]
            /\ UNCHANGED answer
       ELSE /\ answer' = [answer EXCEPT ![m.to] = {m}]
            /\ UNCHANGED socket
    /\ ipc' = Tail(ipc)
    /\ UNCHANGED <<csworker, mode, view, upset>>

-----------------------------------------------------------------------------
(* The browser.                                                            *)

\* sn2int: a cloned csworker has the number NaN, which compares as equal
IsNumbered(s) == s = "asw" \/ ~Cloned

Arrives(c, s) == socket[c] # <<>> /\ Head(socket[c])[1] = s /\ socket' = [socket EXCEPT ![c] = Tail(@)]

\* pendingChangelogs.push, then sort
Later(p, n) == InsertAt(p, Cardinality({i \in DOMAIN p : p[i] < n}) + 1, n)

Postpone(c, s) ==
    /\ Arrives(c, s) /\ IsNumbered(s)
    /\ LET n == Head(socket[c])[2] IN
       /\ n > next[c][s]
       /\ pending' = [pending EXCEPT ![c][s] = Later(@, n)]
    /\ UNCHANGED <<csworker, ipc, mode, answer, next, shows, lost, upset>>

\* 'invalid changelog sequence#': an error is shown, nothing else is done
Refuse(c, s) ==
    /\ Arrives(c, s) /\ IsNumbered(s)
    /\ Head(socket[c])[2] < next[c][s]
    /\ UNCHANGED <<csworker, ipc, mode, answer, view, upset>>

\* mutant: one number too early
IsNext_OffByOne(c, s) == Head(socket[c])[2] \in {next[c][s], next[c][s] + 1} \/ ~IsNumbered(s)

IsNext(c, s) == Head(socket[c])[2] = next[c][s] \/ ~IsNumbered(s)

\* the icon it changes is not there: the handler throws, and the number is not counted
Throws(c, s) == s = "csw" /\ shows[c] = <<>>

HandleThrows(c, s) ==
    /\ Arrives(c, s) /\ IsNext(c, s) /\ Throws(c, s)
    /\ lost' = [lost EXCEPT ![c] = @ \cup {Head(socket[c])}]
    /\ UNCHANGED <<csworker, ipc, mode, answer, next, pending, shows, upset>>

\* how many pending changelogs follow n without a gap
Ready(p, n) == Max({k \in 0 .. Len(p) : \A i \in 1 .. k : p[i] = n + i})

\* __handleChangelog, which calls itself for the pending ones whose turn has come
Handle(c, s) ==
    /\ Arrives(c, s) /\ IsNext(c, s) /\ ~Throws(c, s)
    /\ LET n == Head(socket[c])[2]
           k == IF IsNumbered(s) THEN Ready(pending[c][s], n) ELSE 0
       IN  /\ shows' = [shows EXCEPT ![c] = @ \o [i \in 1 .. (k + 1) |-> <<s, n + i - 1>>]]
           /\ pending' = [pending EXCEPT ![c][s] = SubSeq(@, k + 1, Len(@))]
           /\ next' = [next EXCEPT ![c][s] = IF IsNumbered(s) THEN n + k + 1 ELSE @]
    /\ UNCHANGED <<csworker, ipc, mode, answer, lost, upset>>

\* __handleState with nothing to load: no metamodel, and nothing is done at all
HandleNothing(g) ==
    /\ \E a \in answer[g] : a.log = <<>> /\ a.half = 0
    /\ answer' = [answer EXCEPT ![g] = {}]
    /\ mode' = [mode EXCEPT ![g] = "in"]
    /\ UNCHANGED <<csworker, ipc, socket, view, upset>>

\* What a guest will miss for ever: a changelog that came before a state without it.
Overtaken(g, l) == (ToSet(shows[g]) \cup lost[g]) \ ToSet(l) # {}

\* mutant: the state is shown without being counted as changelog csn
HandleState_Uncounted(g) ==
    /\ \A s \in Stream : pending[g][s] = <<>>
    /\ \E a \in answer[g] :
         /\ a.log # <<>> \/ a.half # 0
         /\ next' = [next EXCEPT ![g] =
              [s \in Stream |-> IF s = "asw" THEN Count(s, a.log) + 1 ELSE Count(s, a.log)]]
         /\ shows' = [shows EXCEPT ![g] = a.log]
         /\ upset' = [upset EXCEPT ![g] = IF Overtaken(g, a.log) THEN "overtaken"
                                          ELSE IF a.half # 0 THEN "half" ELSE "no"]
    /\ answer' = [answer EXCEPT ![g] = {}]
    /\ mode' = [mode EXCEPT ![g] = "in"]
    /\ UNCHANGED <<csworker, ipc, socket, pending, lost>>

\* __handleState: the numbers are set, and the model replaced by changelog csn
HandleState(g) ==
    /\ \A s \in Stream : pending[g][s] = <<>>
    /\ \E a \in answer[g] :
         /\ a.log # <<>> \/ a.half # 0
         /\ next' = [next EXCEPT ![g] = [s \in Stream |-> Count(s, a.log) + 1]]
         /\ shows' = [shows EXCEPT ![g] = a.log]
         /\ upset' = [upset EXCEPT ![g] = IF Overtaken(g, a.log) THEN "overtaken"
                                          ELSE IF a.half # 0 THEN "half" ELSE "no"]
    /\ answer' = [answer EXCEPT ![g] = {}]
    /\ mode' = [mode EXCEPT ![g] = "in"]
    /\ UNCHANGED <<csworker, ipc, socket, pending, lost>>

\* __clearObsoleteChangelogs throws at the first pending changelog: no model is shown
HandleStateThrows(g) ==
    /\ \E s \in Stream : pending[g][s] # <<>>
    /\ \E a \in answer[g] :
         /\ a.log # <<>> \/ a.half # 0
         /\ next' = [next EXCEPT ![g] =
              [s \in Stream |-> IF s = "csw" THEN Count(s, a.log)
                                ELSE IF pending[g]["csw"] # <<>> THEN next[g][s]
                                ELSE Count(s, a.log) + 1]]
    /\ answer' = [answer EXCEPT ![g] = {}]
    /\ mode' = [mode EXCEPT ![g] = "in"]
    /\ upset' = [upset EXCEPT ![g] = "threw"]
    /\ UNCHANGED <<csworker, ipc, socket, pending, shows, lost>>

HandleChangelog(c) ==
    \E s \in Stream : Postpone(c, s) \/ Refuse(c, s) \/ HandleThrows(c, s) \/ Handle(c, s)

HandleAnswer(g) == HandleNothing(g) \/ HandleState(g) \/ HandleStateThrows(g)

Next ==
    \/ BeginAsw \/ EndAsw \/ OwnWrite \/ EndTurn \/ Relay
    \/ \E g \in Guest : Join(g) \/ ReadState(g) \/ HandleAnswer(g)
    \/ \E c \in Client : HandleChangelog(c)

\* Turns end, mappers are evaluated, what is sent arrives, and a read that was asked for is
\* done; nobody has to write or to join.
Fairness ==
    /\ WF_vars(EndAsw) /\ WF_vars(EndTurn) /\ WF_vars(Relay)
    /\ \A g \in Guest : WF_vars(ReadState(g)) /\ WF_vars(HandleAnswer(g))
    /\ \A c \in Client : WF_vars(HandleChangelog(c))

Spec == Init /\ [][Next]_vars /\ Fairness

-----------------------------------------------------------------------------
(* Properties.                                                             *)

TypeOK ==
    /\ log \in Seq(Changelog) /\ applying \in 0 .. MaxAsw
    /\ mode \in [Client -> {"out", "asking", "answered", "in"}]
    /\ \A c \in Client :
         /\ socket[c] \in Seq(Changelog) /\ shows[c] \in Seq(Changelog)
         /\ \A s \in Stream : pending[c][s] \in Seq(1 .. (MaxAsw + MaxCsw))
    /\ next \in [Client -> [Stream -> Nat]]
    /\ lost \in [Client -> SUBSET Changelog]
    /\ upset \in [Client -> {"no", "overtaken", "half", "threw"}]

\* "check the changelog's sequence number to know if we should handle it now or later"
\* (query_response.js:40): a canvas shows a beginning of what the csworker did, each changelog
\* once and those of both streams in the csworker's order, whatever order they were sent in.
ShowsABeginning == \A c \in Client : upset[c] = "no" => IsPrefix(shows[c], log)

\* Every canvas comes to show all that the csworker did, however a guest's state and the first
\* changelogs it is pushed overtake each other, but for the three ways to be upset.
ShowsEverything ==
    \A c \in Client : <>[](mode[c] # "out" => mode[c] = "in" /\ (upset[c] = "no" => shows[c] = log))

\* Nothing goes wrong when somebody joins: "delete pending changelogs older than the specified
\* sequence number" (query_response.js:12), and keep the others.
GuestsAreSafe == \A c \in Client : upset[c] = "no"
===============================================================================
