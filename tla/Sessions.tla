------------------------------ MODULE Sessions ------------------------------
(***************************************************************************)
(* The session manager (src/session_manager.js): which worker processes    *)
(* run, which sockets listen to them, and where requests and changelogs    *)
(* go, from the first client of a session to the last one that leaves.     *)
(*                                                                         *)
(* A client's socket listens to its csworker; a csworker's own socket      *)
(* listens to its asworker.  A worker is killed when its last socket       *)
(* leaves, which closes the socket of a killed csworker, and so on.  What  *)
(* was already sent still arrives: messages of a socket in order, those of *)
(* a worker's IPC channel in order, HTTP requests in any order.            *)
(*                                                                         *)
(* Left out: DELETE /changeListener and POST /csworker, which no client    *)
(* uses; a dropped socket that connects again; the transformation engine's *)
(* socket.  An answer reaches the one who asked when the server has it.    *)
(***************************************************************************)
EXTENDS Naturals, Sequences, FiniteSets, FiniteSetsExt, Functions, TLC

CONSTANTS
    Client,      \* browsers: a client id and a socket each
    MaxWorkers,  \* bound: workers forked
    MaxAsk       \* bound: edits and saves asked for

ASSUME SessionsAssumption ==
    MaxWorkers \in Nat /\ MaxAsk \in Nat /\ Client \cap (0 .. MaxWorkers) = {}

VARIABLES
    up,         \* no handler of the server threw (nothing would catch it)
    workers,    \* workers[], in order of wid: [kind, live]; not live is undefined
    listeners,  \* workerIds2socketIds
    csid, asid, \* clientIDs2csids, clientIDs2asids; 0 is undefined
    wire,       \* what each socket sent and the server has not read
    http,       \* HTTP requests on their way to the server
    client,     \* progress of each client
    link,       \* what its URL asks for: [cs, as], 0 where it says nothing
    asked,      \* bound: requests made
    inbox,      \* of a worker: requests of the server, __reqQueue included
    outbox,     \* of a worker: messages the server has not read
    sub,        \* a csworker's subscription; __aswid is goal.as when it is "in"
    goal,       \* [as, cs] of its PUT /aswSubscription
    busy,       \* the writer a csworker is handling, or "no"
    down,       \* what the server sent to the csworker's socket
    joinedDead, \* killed workers that a client joined, or whose state it was to clone
    early,      \* a csworker needed its asworker before it had one
    rough       \* a departure met something else under way

server   == <<up, workers, listeners, csid, asid, joinedDead>>
history  == <<early, rough>>
browsers == <<client, link, asked>>
process  == <<inbox, outbox, sub, goal, busy, down>>
vars == <<server, browsers, process, wire, http, history>>

Wid    == 1 .. MaxWorkers
Socket == Client \cup Wid
NoLink == [cs |-> 0, as |-> 0]

Init ==
    /\ up = TRUE /\ workers = <<>> /\ listeners = <<>> /\ joinedDead = {}
    /\ csid = [c \in Client |-> 0] /\ asid = [c \in Client |-> 0]
    /\ wire = [s \in Socket |-> <<>>] /\ http = {}
    /\ client = [c \in Client |-> "out"] /\ link = [c \in Client |-> NoLink] /\ asked = 0
    /\ inbox = [w \in Wid |-> <<>>] /\ outbox = [w \in Wid |-> <<>>]
    /\ sub = [w \in Wid |-> "no"] /\ goal = [w \in Wid |-> NoLink]
    /\ busy = [w \in Wid |-> "no"] /\ down = [w \in Wid |-> <<>>]
    /\ early = FALSE /\ rough = FALSE

Live(w) == w \in DOMAIN workers /\ workers[w].live
Send(s, message) == wire' = [wire EXCEPT ![s] = Append(@, message)]
Ask(request) == http' = http \cup {request}

-----------------------------------------------------------------------------
(* Browsers (src/client/init.js).  Here and below, once the server is down *)
(* nothing more is asked of the rest.                                      *)

\* someone left, and their workers are still to be told
Departing == \E s \in Socket : \E i \in DOMAIN wire[s] : wire[s][i].op = "disconnect"

\* 'connect': askForSession, with the parameters of the window's URL
Open(c, url) ==
    /\ up /\ client[c] = "out"
    /\ client' = [client EXCEPT ![c] = "asked"]
    /\ link' = [link EXCEPT ![c] = url]
    /\ Send(c, [op |-> IF url.cs = 0 THEN "createSession" ELSE "joinSession"])
    /\ rough' = (rough \/ Departing)
    /\ UNCHANGED <<server, process, http, asked, early>>

OpenNew(c) == Open(c, NoLink)

\* with the link for a screenshare, or a modelshare, that h gave out
Follow(c, h, model) ==
    /\ client[h] \in {"joined", "in", "left"} /\ csid[h] # 0
    /\ model => asid[h] # 0
    /\ Open(c, [cs |-> csid[h], as |-> IF model THEN asid[h] ELSE 0])

\* 201: a guest asks for its csworker's state, or has its csworker subscribe and clone
SetUp(c) ==
    /\ up /\ client[c] = "joined"
    /\ client' = [client EXCEPT ![c] = "in"]
    /\ IF link[c].cs = 0
       THEN UNCHANGED http
       ELSE Ask([kind |-> IF link[c].as = 0 THEN "state" ELSE "subscribe",
                 by |-> c, to |-> csid[c], goal |-> link[c], n |-> 0])
    /\ UNCHANGED <<server, process, wire, link, asked, history>>

\* the user edits the model, or saves it
Use(c, kind) ==
    /\ up /\ client[c] = "in" /\ asked < MaxAsk
    /\ asked' = asked + 1
    /\ Ask([kind |-> kind, by |-> c, to |-> csid[c], goal |-> NoLink, n |-> asked])
    /\ rough' = (rough \/ Departing)
    /\ UNCHANGED <<server, process, wire, client, link, early>>

\* nothing is on its way, and no client or worker waits for an answer
Quiet ==
    /\ http = {} /\ \A c \in Client : client[c] \notin {"asked", "joined"}
    /\ \A s \in Socket : wire[s] = <<>>
    /\ \A w \in Wid : inbox[w] = <<>> /\ outbox[w] = <<>> /\ down[w] = <<>> /\ busy[w] = "no"

Leave(c) ==
    /\ up /\ client[c] \in {"asked", "joined", "in"}
    /\ rough' = (rough \/ ~Quiet)
    /\ client' = [client EXCEPT ![c] = "left"]
    /\ Send(c, [op |-> "disconnect"])
    /\ UNCHANGED <<server, process, http, link, asked, early>>

-----------------------------------------------------------------------------
(* The server: messages of sockets.                                        *)

Reads(s, op) == up /\ wire[s] # <<>> /\ Head(wire[s]).op = op
Rest(s) == [wire EXCEPT ![s] = Tail(@)]

\* the client is told its csworker, if it is still there
Told(c) == client' = [client EXCEPT ![c] = IF @ = "asked" THEN "joined" ELSE @]

\* the server's process ends: what it was doing is of no consequence
Dies == up' = FALSE /\ UNCHANGED <<workers, listeners, csid, asid, joinedDead, browsers, process, history>>

\* workerIds2socketIds[w] = list
With(lists, w, list) ==
    [v \in DOMAIN lists \cup {w} |-> IF v = w THEN list ELSE lists[v]]

CreateSession(c) ==
    LET cw == Len(workers) + 1
        aw == Len(workers) + 2
    IN /\ Reads(c, "createSession") /\ aw \in Wid
       /\ wire' = Rest(c)
       /\ workers' = workers \o << [kind |-> "cs", live |-> TRUE], [kind |-> "as", live |-> TRUE] >>
       /\ listeners' = With(With(listeners, cw, {c}), aw, {})
       /\ csid' = [csid EXCEPT ![c] = cw] /\ asid' = [asid EXCEPT ![c] = aw]
       /\ inbox' = [inbox EXCEPT ![cw] =
             << [kind |-> "subscribe", by |-> c, to |-> cw, goal |-> [cs |-> 0, as |-> aw], n |-> 0] >>]
       /\ Told(c)
       /\ UNCHANGED <<up, joinedDead, link, asked, outbox, sub, goal, busy, down, http, history>>

\* __registerListener: the list is made anew where there is none
Register(w, s) ==
    listeners' = With(listeners, w, (IF w \in DOMAIN listeners THEN listeners[w] ELSE {}) \cup {s})

\* nothing checks that the workers of the link are still there
Trusts(wids) == joinedDead' = joinedDead \cup {w \in wids : ~Live(w)}

JoinScreen(c) ==
    LET cw == link[c].cs IN
    /\ Reads(c, "joinSession") /\ link[c].as = 0
    /\ wire' = Rest(c)
    /\ Register(cw, c)
    /\ Trusts({cw})
    /\ csid' = [csid EXCEPT ![c] = cw] /\ asid' = [asid EXCEPT ![c] = 0]
    /\ Told(c)
    /\ UNCHANGED <<up, workers, link, asked, process, http, history>>

\* with a csworker of its own, which the client will have subscribe
JoinModel(c) ==
    LET cw == Len(workers) + 1 IN
    /\ Reads(c, "joinSession") /\ link[c].as # 0 /\ cw \in Wid
    /\ wire' = Rest(c)
    /\ workers' = Append(workers, [kind |-> "cs", live |-> TRUE])
    /\ Register(cw, c)
    /\ csid' = [csid EXCEPT ![c] = cw] /\ asid' = [asid EXCEPT ![c] = link[c].as]
    /\ Trusts({link[c].cs, link[c].as})
    /\ Told(c)
    /\ UNCHANGED <<up, link, asked, process, http, history>>

\* POST /changeListener of a csworker
Listen(w) ==
    LET aw == goal[w].as IN
    /\ Reads(w, "changeListener")
    /\ wire' = Rest(w)
    /\ IF Live(aw) THEN Register(aw, w) ELSE UNCHANGED listeners
    /\ down' = IF Live(w) THEN [down EXCEPT ![w] = Append(@, IF Live(aw) THEN "201" ELSE "400")]
               ELSE down
    /\ UNCHANGED <<up, workers, csid, asid, joinedDead, browsers, inbox, outbox, sub, goal, busy, http, history>>

\* mutant: looks only at the first socket of a list
HeardBy_First(s) == {w \in DOMAIN listeners : listeners[w] # {} /\ s = CHOOSE x \in listeners[w] : TRUE}

HeardBy(s) == {w \in DOMAIN listeners : s \in listeners[w]}

\* mutant: off by one
LastOne_Off(w, s) == Cardinality(listeners[w]) <= 2

\* mutant: a worker outlives its listeners
LastOne_Never(w, s) == FALSE

\* nobody else listens
LastOne(w, s) == listeners[w] \ {s} = {}

\* mutant: the list of a killed worker is not deleted
Kill_KeepsList(w) ==
    /\ workers' = [workers EXCEPT ![w].live = FALSE]
    /\ listeners' = [listeners EXCEPT ![w] = {}]
    /\ inbox' = [inbox EXCEPT ![w] = <<>>]
    /\ down' = [down EXCEPT ![w] = <<>>]
    /\ busy' = [busy EXCEPT ![w] = "no"]

\* the processes after w is killed: its socket closes, what it was to do is lost
Kill(w) ==
    /\ workers' = [workers EXCEPT ![w].live = FALSE]
    /\ listeners' = Restrict(listeners, DOMAIN listeners \ {w})
    /\ inbox' = [inbox EXCEPT ![w] = <<>>]
    /\ down' = [down EXCEPT ![w] = <<>>]
    /\ busy' = [busy EXCEPT ![w] = "no"]

\* 'disconnect' of a socket that listens to a worker: unregister, from the first such worker
Disconnect(s) ==
    /\ Reads(s, "disconnect") /\ HeardBy(s) # {}
    /\ LET w    == Min(HeardBy(s))
           ends == LastOne(w, s)
       IN IF ends /\ ~workers[w].live
          THEN Dies /\ wire' = Rest(s) /\ UNCHANGED http    \* workers[wid] is undefined
          ELSE /\ IF ends
                  THEN Kill(w)
                  ELSE /\ listeners' = [listeners EXCEPT ![w] = @ \ {s}]
                       /\ UNCHANGED <<workers, inbox, down, busy>>
               /\ wire' = IF ends /\ sub[w] # "no"
                          THEN [Rest(s) EXCEPT ![w] = Append(@, [op |-> "disconnect"])]
                          ELSE Rest(s)
               /\ UNCHANGED <<up, csid, asid, joinedDead, browsers, outbox, sub, goal, http, history>>

\* of one that listens to none
DisconnectOther(s) ==
    /\ Reads(s, "disconnect") /\ HeardBy(s) = {}
    /\ wire' = Rest(s)
    /\ UNCHANGED <<server, browsers, process, http, history>>

-----------------------------------------------------------------------------
(* The server: HTTP requests and messages of workers.                      *)

\* handle_http_message: 400 if there is no such worker, and then the request is sent to it
Forward(r) ==
    /\ up /\ r \in http
    /\ http' = http \ {r}
    /\ IF Live(r.to)
       THEN /\ inbox' = [inbox EXCEPT ![r.to] = Append(@, r)]
            /\ UNCHANGED <<server, browsers, outbox, sub, goal, busy, down, history>>
       ELSE Dies
    /\ UNCHANGED wire

\* worker.on('message'): the changelog goes to every listener, the answer to who asked
Relay(w) ==
    /\ up /\ outbox[w] # <<>>
    /\ LET m == Head(outbox[w]) IN
       IF m.changelog /\ w \notin DOMAIN listeners
       THEN Dies                                   \* workerIds2socketIds[wid] is undefined
       ELSE /\ outbox' = [outbox EXCEPT ![w] = Tail(@)]
            /\ down' = [v \in Wid |->
                  IF m.changelog /\ v \in listeners[w] /\ Live(v)
                  THEN Append(down[v], "changelog") ELSE down[v]]
            /\ busy' = [v \in Wid |-> IF m.answers = v THEN "no" ELSE busy[v]]
            /\ UNCHANGED <<server, browsers, inbox, sub, goal, history>>
    /\ UNCHANGED <<wire, http>>

-----------------------------------------------------------------------------
(* Workers.                                                                *)

Posts(w, changelog, to) ==
    outbox' = [outbox EXCEPT ![w] = Append(@, [changelog |-> changelog, answers |-> to])]

\* mutant: every request is a write
IsWrite_All(r) == TRUE

IsWrite(r) == r.kind \in {"subscribe", "edit"}

\* the next request that the worker may start: a read, or a write when no other is under way
Takes(w, kind, kinds) ==
    /\ up /\ Live(w) /\ workers[w].kind = kind
    /\ inbox[w] # <<>> /\ Head(inbox[w]).kind \in kinds
    /\ IsWrite(Head(inbox[w])) => busy[w] = "no"
    /\ inbox' = [inbox EXCEPT ![w] = Tail(@)]

\* PUT /aswSubscription: a socket of its own, which asks to listen
Subscribe(w) ==
    /\ Takes(w, "cs", {"subscribe"})
    /\ sub' = [sub EXCEPT ![w] = "asked"]
    /\ goal' = [goal EXCEPT ![w] = Head(inbox[w]).goal]
    /\ busy' = [busy EXCEPT ![w] = "subscribe"]
    /\ Send(w, [op |-> "changeListener"])
    /\ UNCHANGED <<server, browsers, outbox, down, http, history>>

\* __aswid, or undefined, which the server reads as NaN
Asw(w) == IF sub[w] = "in" THEN goal[w].as ELSE 0

\* an edit is a write, PUT /GET/*.model a read; both ask the asworker
AskAsworker(w) ==
    LET r == Head(inbox[w]) IN
    /\ Takes(w, "cs", {"edit", "save"})
    /\ busy' = IF IsWrite(r) THEN [busy EXCEPT ![w] = r.kind] ELSE busy
    /\ Ask([r EXCEPT !.by = w, !.to = Asw(w)])
    /\ early' = (early \/ sub[w] # "in")
    /\ UNCHANGED <<server, browsers, wire, outbox, sub, goal, down, rough>>

\* GET /current.state of a client, GET /internal.state of another csworker
TellState(w) ==
    /\ Takes(w, "cs", {"state"})
    /\ Posts(w, FALSE, Head(inbox[w]).by)
    /\ UNCHANGED <<server, browsers, wire, http, sub, goal, busy, down, history>>

AsworkerDoes(w) ==
    /\ Takes(w, "as", {"edit", "save"})
    /\ Posts(w, Head(inbox[w]).kind = "edit",
                IF Head(inbox[w]).kind = "edit" THEN Head(inbox[w]).by ELSE 0)
    /\ UNCHANGED <<server, browsers, wire, http, sub, goal, busy, down, history>>

Hears(w, what) ==
    /\ up /\ Live(w) /\ down[w] # <<>> /\ Head(down[w]) = what
    /\ down' = [down EXCEPT ![w] = Tail(@)]

\* subscribed; a modelshare guest's csworker then clones the other one
Subscribed(w) ==
    /\ Hears(w, "201")
    /\ sub' = [sub EXCEPT ![w] = "in"]
    /\ IF goal[w].cs = 0
       THEN busy' = [busy EXCEPT ![w] = "no"] /\ UNCHANGED http
       ELSE /\ Ask([kind |-> "state", by |-> w, to |-> goal[w].cs, goal |-> NoLink, n |-> 0])
            /\ UNCHANGED busy
    /\ UNCHANGED <<server, browsers, wire, inbox, outbox, goal, history>>

\* mutant: the error of a subscription is not answered
Refused_Unanswered(w) ==
    /\ Hears(w, "400")
    /\ sub' = [sub EXCEPT ![w] = "failed"]
    /\ UNCHANGED <<server, browsers, wire, http, inbox, outbox, goal, busy, history>>

Refused(w) ==
    /\ Hears(w, "400")
    /\ sub' = [sub EXCEPT ![w] = "failed"]
    /\ busy' = [busy EXCEPT ![w] = "no"]
    /\ UNCHANGED <<server, browsers, wire, http, inbox, outbox, goal, history>>

\* __applyASWChanges, and the csworker's own changelog
Apply(w) ==
    /\ Hears(w, "changelog")
    /\ IF sub[w] = "in" THEN Posts(w, TRUE, 0) ELSE UNCHANGED outbox
    /\ UNCHANGED <<server, browsers, wire, http, inbox, sub, goal, busy, history>>

-----------------------------------------------------------------------------
ServerSteps ==
    \/ \E c \in Client : CreateSession(c) \/ JoinScreen(c) \/ JoinModel(c)
    \/ \E w \in Wid : Listen(w) \/ Relay(w)
    \/ \E s \in Socket : Disconnect(s) \/ DisconnectOther(s)
    \/ \E r \in http : Forward(r)

WorkerSteps(w) ==
    \/ Subscribe(w) \/ AskAsworker(w) \/ TellState(w) \/ AsworkerDoes(w)
    \/ Subscribed(w) \/ Refused(w) \/ Apply(w)

Next ==
    \/ \E c \in Client : OpenNew(c) \/ SetUp(c) \/ Leave(c)
    \/ \E c, h \in Client, model \in BOOLEAN : Follow(c, h, model)
    \/ \E c \in Client, kind \in {"edit", "save"} : Use(c, kind)
    \/ ServerSteps
    \/ \E w \in Wid : WorkerSteps(w)

\* What was sent is delivered, one by one, and a running worker handles what it got.
Fairness ==
    /\ \A c \in Client : WF_vars(CreateSession(c) \/ JoinScreen(c) \/ JoinModel(c))
    /\ \A w \in Wid : WF_vars(Listen(w)) /\ WF_vars(Relay(w)) /\ WF_vars(WorkerSteps(w))
    /\ \A s \in Socket : WF_vars(Disconnect(s) \/ DisconnectOther(s))
    /\ WF_vars(\E r \in http : Forward(r))

Spec == Init /\ [][Next]_vars /\ Fairness
-----------------------------------------------------------------------------
(* Properties.                                                             *)

Link    == [cs : 0 .. MaxWorkers, as : 0 .. MaxWorkers]
Request == [kind : {"state", "subscribe", "edit", "save"}, by : Socket, to : 0 .. MaxWorkers,
            goal : Link, n : 0 .. MaxAsk]
Message == [op : {"createSession", "joinSession", "changeListener", "disconnect"}]
Post    == [changelog : BOOLEAN, answers : Socket \cup {0}]

TypeOK ==
    /\ {up, early, rough} \subseteq BOOLEAN /\ joinedDead \subseteq Wid /\ asked \in 0 .. MaxAsk
    /\ workers \in Seq([kind : {"cs", "as"}, live : BOOLEAN]) /\ Len(workers) <= MaxWorkers
    /\ DOMAIN listeners \subseteq Wid /\ listeners \in [DOMAIN listeners -> SUBSET Socket]
    /\ csid \in [Client -> 0 .. MaxWorkers] /\ asid \in [Client -> 0 .. MaxWorkers]
    /\ wire \in [Socket -> Seq(Message)] /\ http \subseteq Request
    /\ client \in [Client -> {"out", "asked", "joined", "in", "left"}] /\ link \in [Client -> Link]
    /\ inbox \in [Wid -> Seq(Request)] /\ outbox \in [Wid -> Seq(Post)]
    /\ sub \in [Wid -> {"no", "asked", "in", "failed"}] /\ goal \in [Wid -> Link]
    /\ busy \in [Wid -> {"no", "subscribe", "edit"}]
    /\ down \in [Wid -> Seq({"201", "400", "changelog"})]

\* The server's own handlers never throw in sessions that are used with care: nobody saves or edits
\* before a csworker has its asworker, nobody follows a link into a session that has ended, and a
\* client that leaves, with the workers that end for it, meets nothing else under way.  Each
\* exemption is needed: what is sent to or by a worker that is not there is not kept from
\* workers[wid] and workerIds2socketIds[wid] (session_manager.js:97, 407-423, 467).
StaysUp == up \/ early \/ rough \/ joinedDead # {}

\* Whoever is registered to a worker can be sent to, and keeps the worker running: no list holds
\* a socket that has gone, and only a list that a client's late joining has made is a dead worker's.
Gone(s) ==
    /\ wire[s] = <<>>
    /\ IF s \in Client THEN client[s] = "left" ELSE ~Live(s)

ListenersAreServed ==
    up => \A w \in DOMAIN listeners :
        /\ \A s \in listeners[w] : ~Gone(s)
        /\ Live(w) \/ w \in joinedDead

\* A csworker runs only for its clients, and an asworker only for csworkers that listen to it or
\* are about to, save one whose csworker was killed before it could subscribe.
Forsaken(w) == workers[w].kind = "as" /\ ~Live(w - 1) /\ sub[w - 1] = "no"

WorkersAreWanted ==
    up => \A w \in DOMAIN workers : Live(w) =>
        \/ listeners[w] # {}
        \/ workers[w].kind = "as" /\ sub[w - 1] \in {"no", "asked"} /\ (Live(w - 1) \/ wire[w - 1] # <<>>)
        \/ Forsaken(w)

\* The lists of sockets and the processes that run match, whoever left or was killed and in what
\* order: nothing is pushed to a socket that has gone, and no process runs that nobody needs.
ListsMatchProcesses == ListenersAreServed /\ WorkersAreWanted

\* When the last client has left, its workers end one after the other, down to the asworkers.
AllLeft == \A c \in Client : client[c] = "left"

SessionsEnd == AllLeft ~> (~up \/ \A w \in DOMAIN workers : Live(w) => Forsaken(w))

\* A csworker's subscription is answered, so that its clients' edits are not queued for ever,
\* unless the csworker that it was to clone was killed before it answered.
SubscriptionsAnswered ==
    \A w \in Wid : (busy[w] = "subscribe") ~>
        (busy[w] # "subscribe" \/ ~up \/ (goal[w].cs # 0 /\ ~Live(goal[w].cs)))

\* Against the comment on unregister (session_manager.js:84-85), "when a worker has no more
\* registered sockets, terminate it": see README.
NoWorkerIsLeft == AllLeft ~> (~up \/ \A w \in DOMAIN workers : ~Live(w))
=============================================================================
