--------------------------- MODULE SessionsProofs ---------------------------
(***************************************************************************)
(* Proofs about the session manager, for any clients and any number of     *)
(* workers and requests: the lists of sockets match the processes that     *)
(* run, and the server survives sessions that are used with care.          *)
(***************************************************************************)
EXTENDS Sessions, SequenceTheorems, TLAPS

-----------------------------------------------------------------------------
(* The invariant.                                                          *)

Hello(c) == [op |-> IF link[c].cs = 0 THEN "createSession" ELSE "joinSession"]
Change   == [op |-> "changeListener"]
Bye      == [op |-> "disconnect"]
Change1  == {<<Change>>, <<Change, Bye>>}

\* w is a worker of the kind, alive or not
IsA(w, kind) == w \in DOMAIN workers /\ workers[w].kind = kind

\* A client's socket says hello, and later that it has gone; hello is what gives it a csworker.
ClientWire(c) ==
    /\ client[c] \in {"out", "joined", "in"} => wire[c] = <<>>
    /\ client[c] = "asked" => wire[c] = <<Hello(c)>>
    /\ client[c] = "left" => wire[c] \in {<<>>, <<Bye>>, <<Hello(c), Bye>>}
    /\ csid[c] = 0 <=> client[c] \in {"out", "asked"} \/ wire[c] = <<Hello(c), Bye>>

\* What a client takes for a csworker or an asworker is one, and so is what a csworker does;
\* an asworker is made right after its first csworker.
ClientNames(c) ==
    /\ csid[c] # 0 => IsA(csid[c], "cs")
    /\ asid[c] # 0 => IsA(asid[c], "as")
    /\ link[c].cs # 0 => IsA(link[c].cs, "cs")
    /\ link[c].as # 0 => IsA(link[c].as, "as") /\ link[c].cs # 0

WorkerNames(w) ==
    /\ sub[w] # "no" => /\ IsA(w, "cs") /\ IsA(goal[w].as, "as")
                        /\ goal[w].cs # 0 => IsA(goal[w].cs, "cs")
    /\ IsA(w, "as") => IsA(w - 1, "cs")
    /\ inbox[w] # <<>> => Live(w)

\* A client is registered to its csworker from its hello to its disconnect.
ClientListed(c) ==
    /\ \A w \in HeardBy(c) : w = csid[c] /\ (client[c] \in {"joined", "in"} \/ wire[c] = <<Bye>>)
    /\ client[c] \in {"joined", "in"} => csid[c] \in HeardBy(c)

\* A csworker's socket is registered once, to the asworker of its subscription, and goes when
\* the csworker is killed.
SocketListed(w) ==
    /\ sub[w] = "no" => wire[w] = <<>> /\ down[w] = <<>>
    /\ wire[w] \in {<<>>, <<Bye>>} \cup Change1
    /\ Live(w) => wire[w] \in {<<>>, <<Change>>}
    /\ wire[w] = <<Change>> => Live(w)
    /\ wire[w] \in Change1 => sub[w] = "asked" /\ down[w] = <<>> /\ HeardBy(w) = {}
    /\ \A a \in HeardBy(w) : a = goal[w].as /\ sub[w] # "no" /\ (Live(w) \/ wire[w] = <<Bye>>)
    /\ Live(w) /\ (sub[w] = "in" \/ "201" \in Range(down[w])) => goal[w].as \in HeardBy(w)

Subscription(r) == r.kind = "subscribe"

\* A modelshare guest, which has a csworker of its own.
Own(c) == link[c].as # 0 /\ csid[c] # 0

\* Its csworker was made alone, and is not asked to subscribe before the client has joined.
GuestOnce(c) == Own(c) => /\ ~IsA(csid[c] + 1, "as")
                          /\ client[c] = "joined" => sub[csid[c]] = "no"

\* On its way, a subscription is that of the guest who asks for it.
SentOnce(r) == Subscription(r) =>
    /\ r.by \in Client /\ Own(r.by) /\ client[r.by] # "joined" /\ sub[r.to] = "no"
    /\ r = [kind |-> "subscribe", by |-> r.by, to |-> csid[r.by], goal |-> link[r.by], n |-> 0]

\* One that has come in is the last to come.
QueuedOnce(w, i) == Subscription(inbox[w][i]) =>
    /\ sub[w] = "no" /\ IsA(w, "cs") /\ IsA(inbox[w][i].goal.as, "as")
    /\ inbox[w][i].goal.cs # 0 => IsA(inbox[w][i].goal.cs, "cs")
    /\ IsA(w + 1, "as") => inbox[w][i].goal.as = w + 1
    /\ \A r \in http : Subscription(r) => r.to # w
    /\ \A c \in Client : Own(c) /\ client[c] = "joined" => csid[c] # w
    /\ \A j \in DOMAIN inbox[w] : Subscription(inbox[w][j]) => i = j

\* A csworker is asked to subscribe once: by the server that made it with its asworker, or by
\* the guest whose it is.
SubscribesOnce ==
    /\ \A c \in Client : GuestOnce(c)
    /\ \A c, d \in Client : Own(c) /\ Own(d) /\ csid[c] = csid[d] => c = d
    /\ \A r \in http : SentOnce(r)
    /\ \A w \in Wid : \A i \in DOMAIN inbox[w] : QueuedOnce(w, i)

\* A list is that of a running worker, unless a client has joined a dead one; a worker that runs
\* has one, and a csworker that runs has clients.
ListsAlive == \A w \in DOMAIN listeners : w \in DOMAIN workers /\ (Live(w) \/ w \in joinedDead)

RunnersListed == \A w \in DOMAIN workers : Live(w) =>
            w \in DOMAIN listeners /\ (workers[w].kind = "cs" => listeners[w] # {})

\* An asworker runs with listeners as soon as its first csworker's subscription has been read.
FoundedBy(w) ==
    IsA(w, "as") /\ sub[w - 1] # "no" =>
        /\ goal[w - 1].as = w
        /\ Live(w) => listeners[w] # {} \/ wire[w - 1] \in Change1

Clients == \A c \in Client : ClientWire(c) /\ ClientNames(c) /\ ClientListed(c)
Workers == \A w \in Wid : WorkerNames(w) /\ SocketListed(w) /\ FoundedBy(w)

Structure == Clients /\ Workers /\ SubscribesOnce /\ ListsAlive /\ RunnersListed

\* Sessions used with care: while someone leaves nothing else is under way, and what is sent goes
\* to workers that run.
Careful == ~early /\ ~rough /\ joinedDead = {}

OnlyByes ==
    /\ http = {} /\ \A c \in Client : client[c] \notin {"asked", "joined"}
    /\ \A s \in Socket : wire[s] \in {<<>>, <<Bye>>}
    /\ \A w \in Wid : inbox[w] = <<>> /\ outbox[w] = <<>> /\ down[w] = <<>>

Cloned(link_) == link_.cs # 0 => Live(link_.cs)

\* What is asked of a worker, and what it answers, concerns workers that run.
SentTo(r) == Live(r.to) /\ (Subscription(r) => Cloned(r.goal))

JoinedTo(c) == client[c] = "joined" => Cloned(link[c])

WorksFor(w) ==
    /\ outbox[w] # <<>> => Live(w)
    /\ \A i \in DOMAIN inbox[w] : Subscription(inbox[w][i]) => Cloned(inbox[w][i].goal)
    /\ wire[w] \in Change1 \/ "201" \in Range(down[w]) => Cloned(goal[w])

Addressed ==
    /\ \A r \in http : SentTo(r)
    /\ \A c \in Client : JoinedTo(c)
    /\ \A w \in Wid : WorksFor(w)

Calm == Careful => (Departing => OnlyByes) /\ Addressed

IInv == TypeOK /\ StaysUp /\ (up => Structure /\ Calm)

-----------------------------------------------------------------------------
(* What is on the wire of a socket: at most two messages.                  *)

LEMMA OneMessage ==
    ASSUME NEW m
    PROVE  /\ <<m>> # <<>> /\ Head(<<m>>) = m /\ Tail(<<m>>) = <<>> /\ Append(<<>>, m) = <<m>>
           /\ DOMAIN <<m>> = {1} /\ <<m>>[1] = m
OBVIOUS

LEMMA TwoMessages ==
    ASSUME NEW m, NEW n
    PROVE  /\ <<m, n>> # <<>> /\ Head(<<m, n>>) = m /\ Tail(<<m, n>>) = <<n>>
           /\ Append(<<m>>, n) = <<m, n>> /\ DOMAIN <<m, n>> = {1, 2}
           /\ <<m, n>>[1] = m /\ <<m, n>>[2] = n
           /\ \A k : <<m, n>> # <<k>>
<1>1. <<m, n>> # <<>> /\ Head(<<m, n>>) = m
  OBVIOUS
<1>2. Tail(<<m, n>>) = <<n>>
  OBVIOUS
<1>3. Append(<<m>>, n) = <<m, n>>
  <2>1. <<m>> \in Seq({m, n}) /\ <<m, n>> \in Seq({m, n}) /\ n \in {m, n}
    OBVIOUS
  <2>2. Append(<<m>>, n) \in Seq({m, n}) /\ Len(Append(<<m>>, n)) = 2
    BY <2>1
  <2>3. Append(<<m>>, n)[1] = m /\ Append(<<m>>, n)[2] = n
    BY <2>1
  <2>4. Len(<<m, n>>) = 2 /\ <<m, n>>[1] = m /\ <<m, n>>[2] = n
    OBVIOUS
  <2>5. \A i \in 1 .. Len(Append(<<m>>, n)) : Append(<<m>>, n)[i] = <<m, n>>[i]
    <3>1. \A i \in 1 .. 2 : i = 1 \/ i = 2
      OBVIOUS
    <3>. QED BY <2>2, <2>3, <2>4, <3>1
  <2>6. Len(Append(<<m>>, n)) = Len(<<m, n>>)
    BY <2>2, <2>4
  <2>. QED BY ONLY <2>1, <2>2, <2>5, <2>6, SeqEqual, Zenon
<1>4. DOMAIN <<m, n>> = {1, 2} /\ <<m, n>>[1] = m /\ <<m, n>>[2] = n
  OBVIOUS
<1>5. \A k : <<m, n>> # <<k>>
  OBVIOUS
<1>. QED BY <1>1, <1>2, <1>3, <1>4, <1>5

LEMMA ReadMessage ==
    ASSUME TypeOK, NEW s \in Socket, NEW op, Reads(s, op)
    PROVE  /\ wire[s] \in Seq(Message) /\ wire[s] # <<>>
           /\ Head(wire[s]) = [op |-> op]
           /\ Tail(wire[s]) \in Seq(Message)
           /\ Rest(s) \in [Socket -> Seq(Message)]
           /\ Rest(s)[s] = Tail(wire[s])
           /\ \A t \in Socket : t # s => Rest(s)[t] = wire[t]
<1>1. wire[s] \in Seq(Message) /\ wire[s] # <<>> /\ wire \in [Socket -> Seq(Message)]
  BY DEF TypeOK, Reads
<1>2. Tail(wire[s]) \in Seq(Message) /\ Head(wire[s]) \in Message
  BY <1>1
<1>3. Head(wire[s]).op = op
  BY DEF Reads
<1>4. \A m \in Message : m.op = op => m = [op |-> op]
  BY DEF Message
<1>. QED BY <1>1, <1>2, <1>3, <1>4 DEF Rest

LEMMA SentMessage ==
    ASSUME TypeOK, NEW s \in Socket, NEW m \in Message, Send(s, m)
    PROVE  /\ wire' \in [Socket -> Seq(Message)]
           /\ wire'[s] = Append(wire[s], m)
           /\ \A t \in Socket : t # s => wire'[t] = wire[t]
BY DEF TypeOK, Send

LEMMA Registered ==
    ASSUME TypeOK, NEW w \in Wid, NEW s \in Socket, Register(w, s)
    PROVE  /\ DOMAIN listeners' = DOMAIN listeners \cup {w}
           /\ listeners' \in [DOMAIN listeners' -> SUBSET Socket]
           /\ listeners'[w] = (IF w \in DOMAIN listeners THEN listeners[w] ELSE {}) \cup {s}
           /\ \A v \in DOMAIN listeners : v # w => listeners'[v] = listeners[v]
           /\ HeardBy(s)' = HeardBy(s) \cup {w}
           /\ \A t \in Socket : t # s => HeardBy(t)' = HeardBy(t)
<1>1. listeners' = With(listeners, w, (IF w \in DOMAIN listeners THEN listeners[w] ELSE {}) \cup {s})
  BY DEF Register
<1>2. /\ DOMAIN listeners' = DOMAIN listeners \cup {w}
      /\ listeners'[w] = (IF w \in DOMAIN listeners THEN listeners[w] ELSE {}) \cup {s}
      /\ \A v \in DOMAIN listeners : v # w => listeners'[v] = listeners[v]
      /\ listeners' = [v \in DOMAIN listeners' |-> listeners'[v]]
  BY <1>1 DEF With
<1>3. listeners' \in [DOMAIN listeners' -> SUBSET Socket]
  BY <1>2 DEF TypeOK
<1>. QED BY <1>2, <1>3 DEF HeardBy

LEMMA RegisteredTypes ==
    ASSUME TypeOK, NEW w \in Wid, NEW s \in Socket, Register(w, s)
    PROVE  DOMAIN listeners' \subseteq Wid /\ listeners' \in [DOMAIN listeners' -> SUBSET Socket]
<1>1. DOMAIN listeners' = DOMAIN listeners \cup {w} /\ listeners' \in [DOMAIN listeners' -> SUBSET Socket]
  BY Registered
<1>2. DOMAIN listeners \subseteq Wid
  BY DEF TypeOK
<1>. QED BY <1>1, <1>2

LEMMA Killed ==
    ASSUME TypeOK, NEW w \in DOMAIN listeners, w \in DOMAIN workers, Kill(w)
    PROVE  /\ DOMAIN listeners' = DOMAIN listeners \ {w}
           /\ listeners' \in [DOMAIN listeners' -> SUBSET Socket]
           /\ \A v \in DOMAIN listeners : v # w => listeners'[v] = listeners[v]
           /\ workers' \in Seq([kind : {"cs", "as"}, live : BOOLEAN])
           /\ \A t : HeardBy(t)' = HeardBy(t) \ {w}
           /\ DOMAIN workers' = DOMAIN workers /\ Len(workers') = Len(workers)
           /\ workers'[w].kind = workers[w].kind /\ ~workers'[w].live
           /\ \A v \in DOMAIN workers : v # w => workers'[v] = workers[v]
<1>1. listeners' = [v \in DOMAIN listeners \ {w} |-> listeners[v]]
  BY DEF Kill, Restrict
<1>2. workers \in Seq([kind : {"cs", "as"}, live : BOOLEAN]) /\ workers' = [workers EXCEPT ![w].live = FALSE]
  BY DEF TypeOK, Kill
<1>3. workers[w] \in [kind : {"cs", "as"}, live : BOOLEAN]
  <2>1. \A S : \A q \in Seq(S) : \A i \in DOMAIN q : q[i] \in S
    OBVIOUS
  <2>. QED BY <1>2, <2>1, Zenon
<1>4. workers' = [workers EXCEPT ![w] = [workers[w] EXCEPT !.live = FALSE]]
  BY <1>2
<1>5. [workers[w] EXCEPT !.live = FALSE] \in [kind : {"cs", "as"}, live : BOOLEAN]
  BY <1>3
<1>6. workers' \in Seq([kind : {"cs", "as"}, live : BOOLEAN]) /\ Len(workers') = Len(workers)
      /\ DOMAIN workers' = DOMAIN workers
  BY <1>2, <1>4, <1>5
<1>7. workers'[w].kind = workers[w].kind /\ ~workers'[w].live
  BY <1>2, <1>3, <1>4
<1>8. \A t : HeardBy(t)' = HeardBy(t) \ {w}
  BY <1>1 DEF HeardBy
<1>9. \A v \in DOMAIN workers : v # w => workers'[v] = workers[v]
  BY <1>2, <1>4
<1>10. listeners' \in [DOMAIN listeners' -> SUBSET Socket]
  BY <1>1 DEF TypeOK
<1>. QED BY <1>1, <1>6, <1>7, <1>8, <1>9, <1>10

\* A socket that listens to one worker leaves that one.
LEMMA TheList ==
    ASSUME NEW s, NEW w \in HeardBy(s), HeardBy(s) \subseteq Wid, \A v \in HeardBy(s) : v = w
    PROVE  Min(HeardBy(s)) = w
<1>1. HeardBy(s) = {w}
  OBVIOUS
<1>2. w <= w
  BY DEF Wid
<1>. QED BY <1>1, <1>2 DEF Min

-----------------------------------------------------------------------------
(* Types.                                                                  *)

\* Workers are numbered from 1.
LEMMA WorkerIds ==
    ASSUME TypeOK
    PROVE  /\ Len(workers) \in Nat /\ DOMAIN workers = 1 .. Len(workers) /\ DOMAIN workers \subseteq Wid
           /\ \A w \in DOMAIN workers : workers[w] \in [kind : {"cs", "as"}, live : BOOLEAN]
           /\ \A w : Live(w) => w \in DOMAIN workers /\ w \in Wid
           /\ \A w, kind : IsA(w, kind) => w \in DOMAIN workers /\ w \in Wid
<1>. DEFINE S == [kind : {"cs", "as"}, live : BOOLEAN]
<1>1. workers \in Seq(S) /\ Len(workers) <= MaxWorkers
  BY DEF TypeOK
<1>. HIDE DEF S
<1>2. Len(workers) \in Nat /\ DOMAIN workers = 1 .. Len(workers) /\ \A w \in DOMAIN workers : workers[w] \in S
  BY <1>1
<1>3. DOMAIN workers \subseteq Wid
  BY <1>1, <1>2, SessionsAssumption DEF Wid
<1>. QED BY <1>2, <1>3 DEF Live, IsA, S

\* What a request is made of.
LEMMA RequestType ==
    ASSUME NEW kind \in {"state", "subscribe", "edit", "save"}, NEW by \in Socket,
           NEW to \in 0 .. MaxWorkers, NEW g \in Link, NEW n \in 0 .. MaxAsk
    PROVE  [kind |-> kind, by |-> by, to |-> to, goal |-> g, n |-> n] \in Request
BY DEF Request

LEMMA Sockets == /\ \A c \in Client : c \in Socket /\ c \notin Wid
                 /\ \A w \in Wid : w \in Socket /\ w \in 0 .. MaxWorkers /\ w \in Nat
                 /\ NoLink \in Link /\ 0 \in 0 .. MaxAsk /\ 0 \in 0 .. MaxWorkers
                 /\ \A op \in {"createSession", "joinSession", "changeListener", "disconnect"} :
                       [op |-> op] \in Message
BY SessionsAssumption DEF Socket, Wid, NoLink, Link, Message

\* The first request of a worker, and those after it.
LEMMA TakenRequest ==
    ASSUME TypeOK, NEW w \in Wid, NEW kind, NEW kinds, Takes(w, kind, kinds)
    PROVE  /\ inbox[w] \in Seq(Request) /\ inbox[w] # <<>>
           /\ Head(inbox[w]) \in Request /\ Head(inbox[w]).kind \in kinds
           /\ Head(inbox[w]).by \in Socket /\ Head(inbox[w]).goal \in Link
           /\ Head(inbox[w]).n \in 0 .. MaxAsk
           /\ inbox' \in [Wid -> Seq(Request)] /\ inbox'[w] = Tail(inbox[w])
           /\ \A v \in Wid : v # w => inbox'[v] = inbox[v]
           /\ Live(w) /\ workers[w].kind = kind /\ up
<1>1. inbox \in [Wid -> Seq(Request)] /\ inbox[w] \in Seq(Request) /\ inbox[w] # <<>>
  BY DEF TypeOK, Takes
<1>2. Head(inbox[w]) \in Request /\ Tail(inbox[w]) \in Seq(Request)
  BY <1>1
<1>3. \A r \in Request : r.by \in Socket /\ r.goal \in Link /\ r.n \in 0 .. MaxAsk
  BY DEF Request
<1>4. inbox' = [inbox EXCEPT ![w] = Tail(inbox[w])]
  BY DEF Takes
<1>. QED BY <1>1, <1>2, <1>3, <1>4 DEF Takes

LEMMA PostedMessage ==
    ASSUME TypeOK, NEW w \in Wid, NEW changelog \in BOOLEAN, NEW to \in Socket \cup {0},
           Posts(w, changelog, to)
    PROVE  /\ outbox' \in [Wid -> Seq(Post)]
           /\ \A v \in Wid : v # w => outbox'[v] = outbox[v]
<1>1. [changelog |-> changelog, answers |-> to] \in Post
  BY DEF Post
<1>2. outbox \in [Wid -> Seq(Post)]
  BY DEF TypeOK
<1>. QED BY <1>1, <1>2 DEF Posts

LEMMA HeardMessage ==
    ASSUME TypeOK, NEW w \in Wid, NEW what, Hears(w, what)
    PROVE  /\ down' \in [Wid -> Seq({"201", "400", "changelog"})]
           /\ down[w] # <<>> /\ Live(w) /\ what \in Range(down[w]) /\ up
           /\ Range(down'[w]) \subseteq Range(down[w])
           /\ \A v \in Wid : v # w => down'[v] = down[v]
<1>1. down \in [Wid -> Seq({"201", "400", "changelog"})] /\ down[w] # <<>>
      /\ down' = [down EXCEPT ![w] = Tail(down[w])] /\ Head(down[w]) = what
  BY DEF TypeOK, Hears
<1>2. down[w] \in Seq({"201", "400", "changelog"}) /\ down'[w] = Tail(down[w])
  BY <1>1
<1>3. /\ 1 \in DOMAIN down[w] /\ down[w][1] = Head(down[w])
      /\ \A i \in DOMAIN Tail(down[w]) : i + 1 \in DOMAIN down[w] /\ Tail(down[w])[i] = down[w][i + 1]
      /\ Tail(down[w]) \in Seq({"201", "400", "changelog"})
  BY <1>1, <1>2
<1>4. what \in Range(down[w]) /\ Range(down'[w]) \subseteq Range(down[w])
  BY <1>1, <1>2, <1>3 DEF Range
<1>. QED BY <1>1, <1>2, <1>3, <1>4 DEF Hears

\* A hello that is read is its client's first message; it has no csworker yet.
LEMMA ReadHello ==
    ASSUME TypeOK, up => Structure, NEW c \in Client, NEW op \in {"createSession", "joinSession"}, Reads(c, op)
    PROVE  /\ up /\ client[c] \in {"asked", "left"} /\ csid[c] = 0 /\ Hello(c) = [op |-> op]
           /\ client[c] = "asked" => wire[c] = <<Hello(c)>> /\ Tail(wire[c]) = <<>>
           /\ client[c] = "left" => wire[c] = <<Hello(c), Bye>> /\ Tail(wire[c]) = <<Bye>>
           /\ op = "createSession" => link[c].cs = 0 /\ link[c].as = 0
           /\ op = "joinSession" => /\ IsA(link[c].cs, "cs") /\ link[c].cs \in Wid
                                    /\ link[c].as # 0 => IsA(link[c].as, "as") /\ link[c].as \in Wid
<1>1. up /\ Structure /\ c \in Socket
  BY DEF Reads, Socket
<1>2. wire[c] # <<>> /\ Head(wire[c]) = [op |-> op]
  BY <1>1, ReadMessage
<1>3. client[c] \in {"out", "asked", "joined", "in", "left"}
  BY DEF TypeOK
<1>4. Bye # [op |-> op]
  BY DEF Bye
<1>5. client[c] \in {"asked", "left"}
  BY <1>1, <1>2, <1>3 DEF Structure, Clients, ClientWire
<1>6. client[c] = "asked" => wire[c] = <<Hello(c)>> /\ Tail(wire[c]) = <<>> /\ Head(wire[c]) = Hello(c)
  BY <1>1, OneMessage DEF Structure, Clients, ClientWire
<1>7. client[c] = "left" => /\ wire[c] = <<Hello(c), Bye>> /\ Tail(wire[c]) = <<Bye>>
                            /\ Head(wire[c]) = Hello(c)
  <2>1. client[c] = "left" => wire[c] = <<Hello(c), Bye>>
    BY <1>1, <1>2, <1>4, OneMessage DEF Structure, Clients, ClientWire
  <2>2. Tail(<<Hello(c), Bye>>) = <<Bye>> /\ Head(<<Hello(c), Bye>>) = Hello(c)
    BY TwoMessages
  <2>. QED BY <2>1, <2>2
<1>8. client[c] \in {"asked", "left"} /\ csid[c] = 0 /\ Hello(c) = [op |-> op]
  BY <1>1, <1>2, <1>5, <1>6, <1>7 DEF Structure, Clients, ClientWire
<1>9. op = "createSession" <=> link[c].cs = 0
  BY <1>8 DEF Hello
<1>. QED
  BY <1>1, <1>6, <1>7, <1>8, <1>9, WorkerIds DEF Structure, Clients, ClientNames

\* A socket listens to one worker at most.
LEMMA HeardByOne ==
    ASSUME TypeOK, Structure, NEW s \in Socket, HeardBy(s) # {}
    PROVE  LET w == Min(HeardBy(s)) IN
           /\ w \in HeardBy(s) /\ HeardBy(s) = {w}
           /\ w \in DOMAIN listeners /\ w \in DOMAIN workers /\ w \in Wid
           /\ s \in Client => csid[s] = w
           /\ s \in Wid => goal[s].as = w
<1>1. PICK w \in HeardBy(s) : TRUE
  OBVIOUS
<1>2. HeardBy(s) \subseteq DOMAIN listeners /\ HeardBy(s) \subseteq Wid /\ DOMAIN listeners \subseteq DOMAIN workers
  BY DEF HeardBy, TypeOK, Structure, ListsAlive
<1>3. CASE s \in Client
  <2>1. \A v \in HeardBy(s) : v = csid[s]
    BY <1>3 DEF Structure, Clients, ClientListed
  <2>. QED BY <1>1, <1>2, <1>3, <2>1, TheList, Sockets
<1>4. CASE s \in Wid
  <2>1. \A v \in HeardBy(s) : v = goal[s].as
    BY <1>4 DEF Structure, Workers, SocketListed
  <2>. QED BY <1>1, <1>2, <1>4, <2>1, TheList, Sockets
<1>. QED BY <1>3, <1>4 DEF Socket

\* Every variable keeps its type.
LEMMA NextTypes == IInv /\ [Next]_vars => TypeOK'
<1>. SUFFICES ASSUME TypeOK, up => Structure, [Next]_vars
              PROVE  TypeOK'
  BY DEF IInv
<1>. USE Sockets
<1>1. CASE UNCHANGED vars
  BY <1>1 DEF vars, server, history, browsers, process, TypeOK
<1>2. ASSUME NEW c \in Client, NEW url \in Link, Open(c, url) PROVE TypeOK'
  <2>1. wire' \in [Socket -> Seq(Message)]
    BY <1>2, SentMessage DEF Open
  <2>. QED BY <1>2, <2>1 DEF TypeOK, Open, server, process
<1>3. ASSUME NEW c \in Client, NEW h \in Client, NEW model \in BOOLEAN, Follow(c, h, model) PROVE TypeOK'
  <2>1. [cs |-> csid[h], as |-> IF model THEN asid[h] ELSE 0] \in Link
    BY DEF TypeOK, Link
  <2>. QED BY <1>2, <1>3, <2>1 DEF Follow
<1>4. ASSUME NEW c \in Client, SetUp(c) PROVE TypeOK'
  <2>1. csid[c] \in 0 .. MaxWorkers /\ link[c] \in Link
    BY DEF TypeOK
  <2>2. \A kind \in {"state", "subscribe"} :
          [kind |-> kind, by |-> c, to |-> csid[c], goal |-> link[c], n |-> 0] \in Request
    BY <2>1, RequestType
  <2>3. http' \subseteq Request
    BY <1>4, <2>2 DEF SetUp, Ask, TypeOK
  <2>. QED BY <1>4, <2>3 DEF SetUp, TypeOK, server, process, history
<1>5. ASSUME NEW c \in Client, NEW kind \in {"edit", "save"}, Use(c, kind) PROVE TypeOK'
  <2>1. csid[c] \in 0 .. MaxWorkers /\ asked \in 0 .. MaxAsk
    BY DEF TypeOK
  <2>2. [kind |-> kind, by |-> c, to |-> csid[c], goal |-> NoLink, n |-> asked] \in Request
    BY <2>1, RequestType
  <2>3. http' \subseteq Request
    BY <1>5, <2>2 DEF Use, Ask, TypeOK
  <2>4. asked' \in 0 .. MaxAsk
    BY <1>5, <2>1, SessionsAssumption DEF Use
  <2>. QED BY <1>5, <2>3, <2>4 DEF Use, TypeOK, server, process
<1>6. ASSUME NEW c \in Client, Leave(c) PROVE TypeOK'
  <2>1. wire' \in [Socket -> Seq(Message)]
    BY <1>6, SentMessage DEF Leave
  <2>. QED BY <1>6, <2>1 DEF TypeOK, Leave, server, process
<1>7. ASSUME NEW c \in Client, CreateSession(c) PROVE TypeOK'
  <2>. DEFINE cw == Len(workers) + 1
              aw == Len(workers) + 2
              kinds == [kind : {"cs", "as"}, live : BOOLEAN]
              r == [kind |-> "subscribe", by |-> c, to |-> cw, goal |-> [cs |-> 0, as |-> aw], n |-> 0]
  <2>1. /\ Len(workers) \in Nat /\ workers \in Seq(kinds) /\ cw \in Wid /\ aw \in Wid
        /\ [kind |-> "cs", live |-> TRUE] \in kinds /\ [kind |-> "as", live |-> TRUE] \in kinds
    BY <1>7, SessionsAssumption DEF TypeOK, CreateSession, Wid
  <2>2. workers' \in Seq(kinds) /\ Len(workers') <= MaxWorkers
    BY <1>7, <2>1 DEF CreateSession, Wid
  <2>3. wire' \in [Socket -> Seq(Message)]
    BY <1>7, ReadMessage DEF CreateSession
  <2>4. /\ listeners' \in [DOMAIN listeners' -> SUBSET Socket]
        /\ DOMAIN listeners' \subseteq Wid
    BY <1>7, <2>1 DEF CreateSession, With, TypeOK
  <2>5. r \in Request
    BY <2>1, RequestType DEF Link
  <2>6. inbox' \in [Wid -> Seq(Request)]
    BY <1>7, <2>1, <2>5 DEF CreateSession, TypeOK
  <2>7. csid' \in [Client -> 0 .. MaxWorkers] /\ asid' \in [Client -> 0 .. MaxWorkers]
    BY <1>7, <2>1 DEF CreateSession, TypeOK
  <2>. QED BY <1>7, <2>2, <2>3, <2>4, <2>6, <2>7 DEF CreateSession, Told, TypeOK, history
<1>8. ASSUME NEW c \in Client, JoinScreen(c) PROVE TypeOK'
  <2>1. link[c].cs \in Wid /\ link[c].cs \in 0 .. MaxWorkers
    BY <1>8, ReadHello DEF JoinScreen
  <2>2. wire' \in [Socket -> Seq(Message)]
    BY <1>8, ReadMessage DEF JoinScreen
  <2>3. listeners' \in [DOMAIN listeners' -> SUBSET Socket] /\ DOMAIN listeners' \subseteq Wid
    <3>1. PICK w \in Wid : w = link[c].cs
      BY <2>1
    <3>2. Register(w, c)
      BY <1>8, <3>1 DEF JoinScreen
    <3>. QED BY ONLY TypeOK, Sockets, <3>2, RegisteredTypes
  <2>4. joinedDead' \subseteq Wid
    BY <1>8, <2>1 DEF JoinScreen, Trusts, TypeOK
  <2>5. csid' \in [Client -> 0 .. MaxWorkers] /\ asid' \in [Client -> 0 .. MaxWorkers]
    BY <1>8, <2>1 DEF JoinScreen, TypeOK
  <2>. QED BY <1>8, <2>2, <2>3, <2>4, <2>5 DEF JoinScreen, Told, TypeOK, process, history
<1>9. ASSUME NEW c \in Client, JoinModel(c) PROVE TypeOK'
  <2>. DEFINE kinds == [kind : {"cs", "as"}, live : BOOLEAN]
  <2>1. link[c].cs \in Wid /\ link[c].as \in Wid
    BY <1>9, ReadHello DEF JoinModel
  <2>2. wire' \in [Socket -> Seq(Message)]
    BY <1>9, ReadMessage DEF JoinModel
  <2>3. /\ Len(workers) + 1 \in Wid /\ workers \in Seq(kinds) /\ [kind |-> "cs", live |-> TRUE] \in kinds
        /\ Len(workers) \in Nat
    BY <1>9 DEF JoinModel, TypeOK
  <2>4. workers' \in Seq(kinds) /\ Len(workers') <= MaxWorkers
    BY <1>9, <2>3 DEF JoinModel, Wid
  <2>5. listeners' \in [DOMAIN listeners' -> SUBSET Socket] /\ DOMAIN listeners' \subseteq Wid
    <3>1. Register(Len(workers) + 1, c)
      BY <1>9 DEF JoinModel
    <3>. QED BY <2>3, <3>1, RegisteredTypes
  <2>6. joinedDead' \subseteq Wid
    BY <1>9, <2>1 DEF JoinModel, Trusts, TypeOK
  <2>7. csid' \in [Client -> 0 .. MaxWorkers] /\ asid' \in [Client -> 0 .. MaxWorkers]
    BY <1>9, <2>1, <2>3 DEF JoinModel, TypeOK
  <2>. QED BY <1>9, <2>2, <2>4, <2>5, <2>6, <2>7 DEF JoinModel, Told, TypeOK, process, history
<1>10. ASSUME NEW w \in Wid, Listen(w) PROVE TypeOK'
  <2>1. wire' \in [Socket -> Seq(Message)]
    BY <1>10, ReadMessage DEF Listen
  <2>2. listeners' \in [DOMAIN listeners' -> SUBSET Socket] /\ DOMAIN listeners' \subseteq Wid
    <3>1. CASE Live(goal[w].as)
      <4>1. goal[w].as \in Wid
        BY <3>1, WorkerIds
      <4>2. Register(goal[w].as, w)
        BY <1>10, <3>1 DEF Listen
      <4>3. PICK a \in Wid : a = goal[w].as
        BY <4>1
      <4>4. Register(a, w)
        BY <4>2, <4>3
      <4>. QED BY ONLY TypeOK, Sockets, <4>4, RegisteredTypes
    <3>2. CASE ~Live(goal[w].as)
      BY <1>10, <3>2 DEF Listen, TypeOK
    <3>. QED BY <3>1, <3>2
  <2>3. down' \in [Wid -> Seq({"201", "400", "changelog"})]
    <3>1. down[w] \in Seq({"201", "400", "changelog"})
      BY DEF TypeOK
    <3>2. Append(down[w], "201") \in Seq({"201", "400", "changelog"})
          /\ Append(down[w], "400") \in Seq({"201", "400", "changelog"})
      BY <3>1
    <3>. QED BY <1>10, <3>2 DEF Listen, TypeOK
  <2>. QED BY <1>10, <2>1, <2>2, <2>3 DEF Listen, TypeOK, browsers, history
<1>11. ASSUME Dies, wire' \in [Socket -> Seq(Message)], http' \subseteq http PROVE TypeOK'
  BY <1>11 DEF Dies, TypeOK, browsers, process, history
<1>12. ASSUME NEW s \in Socket, Disconnect(s) PROVE TypeOK'
  <2>. DEFINE w == Min(HeardBy(s))
  <2>1. Rest(s) \in [Socket -> Seq(Message)]
    BY <1>12, ReadMessage DEF Disconnect
  <2>2. CASE LastOne(w, s) /\ ~workers[w].live
    BY <1>11, <1>12, <2>1, <2>2 DEF Disconnect
  <2>3. CASE ~(LastOne(w, s) /\ ~workers[w].live)
    <3>1. w \in DOMAIN listeners /\ w \in DOMAIN workers /\ w \in Wid
      <4>1. HeardBy(s) # {} /\ Structure
        BY <1>12 DEF Disconnect, Reads
      <4>. QED BY <4>1, HeardByOne
    <3>2. wire' \in [Socket -> Seq(Message)]
      <4>1. Append(Rest(s)[w], [op |-> "disconnect"]) \in Seq(Message)
        BY <2>1, <3>1
      <4>2. \/ wire' = Rest(s)
            \/ wire' = [Rest(s) EXCEPT ![w] = Append(Rest(s)[w], [op |-> "disconnect"])]
        BY <1>12, <2>3 DEF Disconnect
      <4>. QED BY <2>1, <4>1, <4>2
    <3>3. /\ listeners' \in [DOMAIN listeners' -> SUBSET Socket] /\ DOMAIN listeners' \subseteq Wid
          /\ workers' \in Seq([kind : {"cs", "as"}, live : BOOLEAN]) /\ Len(workers') <= MaxWorkers
          /\ inbox' \in [Wid -> Seq(Request)] /\ busy' \in [Wid -> {"no", "subscribe", "edit"}]
          /\ down' \in [Wid -> Seq({"201", "400", "changelog"})]
      <4>1. CASE LastOne(w, s)
        <5>1. Kill(w)
          BY <1>12, <2>3, <4>1 DEF Disconnect
        <5>. HIDE DEF w
        <5>2. /\ inbox' \in [Wid -> Seq(Request)] /\ busy' \in [Wid -> {"no", "subscribe", "edit"}]
              /\ down' \in [Wid -> Seq({"201", "400", "changelog"})]
          BY <3>1, <5>1 DEF Kill, TypeOK
        <5>3. /\ listeners' \in [DOMAIN listeners' -> SUBSET Socket]
              /\ DOMAIN listeners' = DOMAIN listeners \ {w}
              /\ workers' \in Seq([kind : {"cs", "as"}, live : BOOLEAN]) /\ Len(workers') = Len(workers)
          BY <3>1, <5>1, Killed
        <5>4. DOMAIN listeners \subseteq Wid /\ Len(workers) <= MaxWorkers
          BY DEF TypeOK
        <5>. QED BY <5>2, <5>3, <5>4
      <4>2. CASE ~LastOne(w, s)
        <5>1. /\ listeners' = [listeners EXCEPT ![w] = listeners[w] \ {s}]
              /\ UNCHANGED <<workers, inbox, down, busy>>
          BY <1>12, <4>2 DEF Disconnect
        <5>. HIDE DEF w
        <5>. QED BY <3>1, <5>1 DEF TypeOK
      <4>. QED BY <4>1, <4>2
    <3>. QED BY <1>12, <2>3, <3>2, <3>3 DEF Disconnect, TypeOK, browsers, history
  <2>. QED BY <2>2, <2>3
<1>13. ASSUME NEW s \in Socket, DisconnectOther(s) PROVE TypeOK'
  BY <1>13, ReadMessage DEF DisconnectOther, TypeOK, server, browsers, process, history
<1>14. ASSUME NEW r \in http, Forward(r) PROVE TypeOK'
  <2>1. CASE Live(r.to)
    <3>1. r.to \in Wid /\ r \in Request
      BY <2>1, WorkerIds DEF TypeOK
    <3>2. inbox' \in [Wid -> Seq(Request)]
      <4>1. inbox \in [Wid -> Seq(Request)]
        BY DEF TypeOK
      <4>2. Append(inbox[r.to], r) \in Seq(Request)
        BY <3>1, <4>1
      <4>. QED BY <1>14, <2>1, <3>1, <4>1, <4>2 DEF Forward
    <3>. QED BY <1>14, <2>1, <3>2 DEF Forward, TypeOK, server, browsers, history
  <2>2. CASE ~Live(r.to)
    BY <1>11, <1>14, <2>2 DEF Forward, TypeOK
  <2>. QED BY <2>1, <2>2
<1>15. ASSUME NEW w \in Wid, Relay(w) PROVE TypeOK'
  <2>1. CASE Head(outbox[w]).changelog /\ w \notin DOMAIN listeners
    BY <1>11, <1>15, <2>1 DEF Relay, TypeOK
  <2>2. CASE ~(Head(outbox[w]).changelog /\ w \notin DOMAIN listeners)
    <3>1. outbox' \in [Wid -> Seq(Post)]
      <4>1. outbox[w] \in Seq(Post) /\ outbox[w] # <<>> /\ outbox \in [Wid -> Seq(Post)]
        BY <1>15 DEF Relay, TypeOK
      <4>2. Tail(outbox[w]) \in Seq(Post)
        BY <4>1
      <4>. QED BY <1>15, <2>2, <4>1, <4>2 DEF Relay
    <3>2. down' \in [Wid -> Seq({"201", "400", "changelog"})]
      <4>1. \A v \in Wid : /\ down[v] \in Seq({"201", "400", "changelog"})
                            /\ Append(down[v], "changelog") \in Seq({"201", "400", "changelog"})
        BY DEF TypeOK
      <4>. QED BY <1>15, <2>2, <4>1 DEF Relay
    <3>3. busy' \in [Wid -> {"no", "subscribe", "edit"}]
      BY <1>15, <2>2 DEF Relay, TypeOK
    <3>. QED BY <1>15, <2>2, <3>1, <3>2, <3>3 DEF Relay, TypeOK, server, browsers, history
  <2>. QED BY <2>1, <2>2
<1>16. ASSUME NEW w \in Wid, Subscribe(w) PROVE TypeOK'
  <2>1. inbox' \in [Wid -> Seq(Request)] /\ Head(inbox[w]).goal \in Link
    BY <1>16, TakenRequest DEF Subscribe
  <2>2. wire' \in [Socket -> Seq(Message)]
    BY <1>16, SentMessage DEF Subscribe
  <2>. QED BY <1>16, <2>1, <2>2 DEF Subscribe, TypeOK, server, browsers, history
<1>17. ASSUME NEW w \in Wid, AskAsworker(w) PROVE TypeOK'
  <2>. DEFINE r == Head(inbox[w])
  <2>1. inbox' \in [Wid -> Seq(Request)] /\ r \in Request /\ r.kind \in {"edit", "save"}
    BY <1>17, TakenRequest DEF AskAsworker
  <2>2. Asw(w) \in 0 .. MaxWorkers
    BY DEF Asw, TypeOK, Link
  <2>. HIDE DEF r
  <2>3. [r EXCEPT !.by = w, !.to = Asw(w)] \in Request
    BY <2>1, <2>2 DEF Request
  <2>4. busy' \in [Wid -> {"no", "subscribe", "edit"}]
    BY <1>17, <2>1 DEF AskAsworker, TypeOK, IsWrite, r
  <2>5. http' \subseteq Request
    BY <1>17, <2>3 DEF AskAsworker, Ask, TypeOK, r
  <2>6. early' \in BOOLEAN
    BY <1>17 DEF AskAsworker, TypeOK
  <2>. QED BY <1>17, <2>1, <2>4, <2>5, <2>6 DEF AskAsworker, TypeOK, server, browsers
<1>18. ASSUME NEW w \in Wid, TellState(w) PROVE TypeOK'
  <2>1. inbox' \in [Wid -> Seq(Request)] /\ Head(inbox[w]).by \in Socket
    BY <1>18, TakenRequest DEF TellState
  <2>2. outbox' \in [Wid -> Seq(Post)]
    BY <1>18, <2>1, PostedMessage DEF TellState
  <2>. QED BY <1>18, <2>1, <2>2 DEF TellState, TypeOK, server, browsers, history
<1>19. ASSUME NEW w \in Wid, AsworkerDoes(w) PROVE TypeOK'
  <2>1. inbox' \in [Wid -> Seq(Request)] /\ Head(inbox[w]).by \in Socket
    BY <1>19, TakenRequest DEF AsworkerDoes
  <2>2. outbox' \in [Wid -> Seq(Post)]
    BY <1>19, <2>1, PostedMessage DEF AsworkerDoes
  <2>. QED BY <1>19, <2>1, <2>2 DEF AsworkerDoes, TypeOK, server, browsers, history
<1>20. ASSUME NEW w \in Wid, Subscribed(w) PROVE TypeOK'
  <2>1. down' \in [Wid -> Seq({"201", "400", "changelog"})]
    BY <1>20, HeardMessage DEF Subscribed
  <2>2. goal[w].cs \in 0 .. MaxWorkers
    BY DEF TypeOK, Link
  <2>3. [kind |-> "state", by |-> w, to |-> goal[w].cs, goal |-> NoLink, n |-> 0] \in Request
    BY <2>2, RequestType
  <2>4. http' \subseteq Request /\ busy' \in [Wid -> {"no", "subscribe", "edit"}]
    BY <1>20, <2>3 DEF Subscribed, Ask, TypeOK
  <2>. QED BY <1>20, <2>1, <2>4 DEF Subscribed, TypeOK, server, browsers, history
<1>21. ASSUME NEW w \in Wid, Refused(w) PROVE TypeOK'
  <2>1. down' \in [Wid -> Seq({"201", "400", "changelog"})]
    BY <1>21, HeardMessage DEF Refused
  <2>. QED BY <1>21, <2>1 DEF Refused, TypeOK, server, browsers, history
<1>22. ASSUME NEW w \in Wid, Apply(w) PROVE TypeOK'
  <2>1. down' \in [Wid -> Seq({"201", "400", "changelog"})]
    BY <1>22, HeardMessage DEF Apply
  <2>2. outbox' \in [Wid -> Seq(Post)]
    BY <1>22, PostedMessage DEF Apply, TypeOK
  <2>. QED BY <1>22, <2>1, <2>2 DEF Apply, TypeOK, server, browsers, history
<1>. QED
  BY <1>1, <1>2, <1>3, <1>4, <1>5, <1>6, <1>7, <1>8, <1>9, <1>10, <1>12, <1>13, <1>14, <1>15,
     <1>16, <1>17, <1>18, <1>19, <1>20, <1>21, <1>22
     DEF Next, ServerSteps, WorkerSteps, OpenNew

-----------------------------------------------------------------------------
(* What a step leaves alone keeps its part of the structure.               *)

LEMMA ClientKept ==
    ASSUME NEW c \in Client, ClientWire(c), ClientNames(c), ClientListed(c),
           client'[c] = client[c], csid'[c] = csid[c], asid'[c] = asid[c], link'[c] = link[c],
           wire'[c] = wire[c], HeardBy(c)' = HeardBy(c),
           \A w, kind : IsA(w, kind) => IsA(w, kind)'
    PROVE  ClientWire(c)' /\ ClientNames(c)' /\ ClientListed(c)'
<1>1. ClientWire(c)'
  BY DEF ClientWire, Hello, Bye
<1>2. ClientNames(c)'
  BY DEF ClientNames
<1>3. ClientListed(c)'
  BY DEF ClientListed, Bye
<1>. QED BY <1>1, <1>2, <1>3

LEMMA WorkerNamesKept ==
    ASSUME NEW w \in Wid, WorkerNames(w), goal'[w] = goal[w],
           \A v, kind : IsA(v, kind) => IsA(v, kind)',
           IsA(w, "as")' => IsA(w, "as"),
           sub'[w] # "no" => sub[w] # "no",
           inbox'[w] # <<>> => Live(w)'
    PROVE  WorkerNames(w)'
BY DEF WorkerNames

LEMMA SocketListedKept ==
    ASSUME NEW w \in Wid, SocketListed(w), sub'[w] = sub[w], goal'[w] = goal[w],
           wire'[w] = wire[w], HeardBy(w)' = HeardBy(w),
           Live(w)' <=> Live(w),
           down[w] = <<>> /\ HeardBy(w) = {} => down'[w] = <<>>,
           "201" \in Range(down'[w]) => "201" \in Range(down[w])
    PROVE  SocketListed(w)'
<1>1. sub[w] = "no" => HeardBy(w) = {}
  BY DEF SocketListed
<1>2. Change1' = Change1 /\ Bye' = Bye /\ Change' = Change
  BY DEF Change1, Bye, Change
<1>3. "201" \in Range(down[w])' => "201" \in Range(down[w])
  BY DEF Range
<1>. QED BY <1>1, <1>2, <1>3 DEF SocketListed

LEMMA FoundedKept ==
    ASSUME NEW w \in Wid, FoundedBy(w),
           IsA(w, "as")' /\ sub'[w - 1] # "no" =>
               /\ IsA(w, "as") /\ sub[w - 1] # "no"
               /\ goal'[w - 1] = goal[w - 1] /\ wire'[w - 1] = wire[w - 1]
               /\ Live(w)' => Live(w) /\ (listeners[w] # {} => listeners'[w] # {})
    PROVE  FoundedBy(w)'
BY DEF FoundedBy, Change1, Change, Bye

LEMMA ListsKept ==
    ASSUME ListsAlive, RunnersListed, listeners' = listeners, workers' = workers, joinedDead' = joinedDead
    PROVE  ListsAlive' /\ RunnersListed'
BY DEF ListsAlive, RunnersListed, Live

LEMMA SubscribesOnceKept ==
    ASSUME TypeOK, Structure,
           \A c \in Client : Own(c)' <=> Own(c),
           \A c \in Client : Own(c) => /\ csid'[c] = csid[c] /\ link'[c] = link[c]
                                       /\ client'[c] = "joined" => client[c] = "joined",
           \A w, kind : IsA(w, kind)' <=> IsA(w, kind),
           \A w \in Wid : sub'[w] = "no" <=> sub[w] = "no",
           \A r \in http' : Subscription(r) => r \in http,
           \A w \in Wid : \/ inbox'[w] = inbox[w]
                          \/ inbox[w] # <<>> /\ inbox'[w] = Tail(inbox[w])
                          \/ inbox'[w] = <<>>
    PROVE  SubscribesOnce'
<1>1. /\ \A c \in Client : Own(c)' <=> Own(c)
      /\ \A c \in Client : Own(c) => csid[c] \in Wid
      /\ SubscribesOnce
  BY WorkerIds DEF Own, Structure, Clients, ClientNames
<1>2. ASSUME NEW c \in Client PROVE GuestOnce(c)'
  <2>1. GuestOnce(c) /\ (Own(c)' <=> Own(c)) /\ (Own(c) => csid[c] \in Wid)
    BY <1>1 DEF SubscribesOnce
  <2>2. CASE Own(c)
    <3>1. csid'[c] = csid[c] /\ (client'[c] = "joined" => client[c] = "joined")
      BY <2>2
    <3>2. IsA(csid[c] + 1, "as")' <=> IsA(csid[c] + 1, "as")
      BY <3>1, SMTT(20), ZenonT(20) DEF IsA
    <3>. QED BY <2>1, <2>2, <3>1, <3>2 DEF GuestOnce
  <2>. QED BY <2>1, <2>2 DEF GuestOnce
<1>3. ASSUME NEW c \in Client, NEW d \in Client, Own(c)', Own(d)', csid'[c] = csid'[d]
      PROVE  c = d
  <2>1. Own(c) /\ Own(d) /\ csid[c] = csid[d]
    BY <1>1, <1>3
  <2>. QED BY <1>1, <2>1 DEF SubscribesOnce
<1>4. ASSUME NEW r \in http', Subscription(r) PROVE SentOnce(r)'
  <2>1. /\ r.by \in Client /\ Own(r.by) /\ client[r.by] # "joined" /\ sub[r.to] = "no"
        /\ r = [kind |-> "subscribe", by |-> r.by, to |-> csid[r.by], goal |-> link[r.by], n |-> 0]
    BY <1>1, <1>4 DEF SubscribesOnce, SentOnce
  <2>2. r.to = csid[r.by]
    BY <2>1
  <2>3. Own(r.by)' /\ client'[r.by] # "joined" /\ csid'[r.by] = csid[r.by] /\ link'[r.by] = link[r.by]
    BY <1>1, <2>1
  <2>4. sub'[r.to] = "no"
    BY <1>1, <2>1, <2>2
  <2>. QED BY <2>1, <2>3, <2>4 DEF SentOnce
<1>5. ASSUME NEW w \in Wid, NEW i \in DOMAIN inbox'[w], Subscription(inbox'[w][i])
      PROVE  \E k \in DOMAIN inbox[w] :
                /\ inbox'[w][i] = inbox[w][k] /\ QueuedOnce(w, k)
                /\ \A j \in DOMAIN inbox'[w] : Subscription(inbox'[w][j]) => i = j
  <2>1. \A k \in DOMAIN inbox[w] : QueuedOnce(w, k)
    BY <1>1 DEF SubscribesOnce
  <2>2. CASE inbox'[w] = inbox[w]
    <3>1. \A j \in DOMAIN inbox[w] : Subscription(inbox[w][j]) => i = j
      BY <1>5, <2>1, <2>2 DEF QueuedOnce
    <3>. QED BY <1>5, <2>1, <2>2, <3>1
  <2>3. CASE inbox[w] # <<>> /\ inbox'[w] = Tail(inbox[w])
    <3>1. inbox[w] \in Seq(Request)
      BY DEF TypeOK
    <3>2. \A j \in DOMAIN inbox'[w] : j + 1 \in DOMAIN inbox[w] /\ inbox'[w][j] = inbox[w][j + 1] /\ j \in Nat
      BY <2>3, <3>1
    <3>3. \A j \in DOMAIN inbox[w] : Subscription(inbox[w][j]) => i + 1 = j
      BY <1>5, <2>1, <3>2 DEF QueuedOnce
    <3>4. \A j \in DOMAIN inbox'[w] : Subscription(inbox'[w][j]) => i = j
      BY <3>2, <3>3
    <3>. QED BY <2>1, <3>2, <3>4
  <2>4. CASE inbox'[w] = <<>>
    BY <1>5, <2>4
  <2>. QED BY <2>2, <2>3, <2>4
<1>6. ASSUME NEW w \in Wid, NEW i \in DOMAIN inbox'[w], Subscription(inbox'[w][i])
      PROVE  QueuedOnce(w, i)'
  <2>1. PICK k \in DOMAIN inbox[w] :
                /\ inbox'[w][i] = inbox[w][k] /\ QueuedOnce(w, k)
                /\ \A j \in DOMAIN inbox'[w] : Subscription(inbox'[w][j]) => i = j
    BY <1>5, <1>6
  <2>2. PICK m : m = inbox[w][k]
    OBVIOUS
  <2>3. /\ Subscription(m) /\ inbox'[w][i] = m
        /\ sub[w] = "no" /\ IsA(w, "cs") /\ IsA(m.goal.as, "as")
        /\ m.goal.cs # 0 => IsA(m.goal.cs, "cs")
        /\ IsA(w + 1, "as") => m.goal.as = w + 1
        /\ \A r \in http : Subscription(r) => r.to # w
        /\ \A c \in Client : Own(c) /\ client[c] = "joined" => csid[c] # w
    BY <1>6, <2>1, <2>2 DEF QueuedOnce
  <2>5. sub'[w] = "no"
    BY <2>3
  <2>6. IsA(w, "cs")' /\ (IsA(w + 1, "as")' <=> IsA(w + 1, "as"))
    BY <2>3
  <2>7. IsA(inbox[w][i].goal.as, "as")' /\ (inbox'[w][i].goal.cs # 0 => IsA(inbox[w][i].goal.cs, "cs")')
    <3>1. IsA(m.goal.as, "as")' /\ (m.goal.cs # 0 => IsA(m.goal.cs, "cs")')
      BY <2>3
    <3>. QED BY <2>3, <3>1 DEF IsA
  <2>8. /\ \A r \in http' : Subscription(r) => r.to # w
        /\ \A c \in Client : Own(c)' /\ client'[c] = "joined" => csid'[c] # w
    BY <1>1, <2>3
  <2>. QED BY <2>1, <2>3, <2>5, <2>6, <2>7, <2>8 DEF QueuedOnce
<1>7. \A r \in http' : SentOnce(r)'
  BY <1>4 DEF SentOnce, Subscription
<1>8. \A w \in Wid : \A i \in DOMAIN inbox'[w] : QueuedOnce(w, i)'
  BY <1>6 DEF QueuedOnce, Subscription
<1>. QED BY <1>2, <1>3, <1>7, <1>8 DEF SubscribesOnce


\* A step that changes none of the lists, workers and sockets.
LEMMA StructureKept ==
    ASSUME TypeOK, Structure,
           UNCHANGED <<client, csid, asid, link, wire, workers, listeners, joinedDead, sub, goal>>,
           \A w \in Wid : \/ inbox'[w] = inbox[w]
                          \/ inbox[w] # <<>> /\ inbox'[w] = Tail(inbox[w])
                          \/ inbox'[w] = <<>>,
           \A r \in http' : Subscription(r) => r \in http,
           \A w \in Wid : /\ down[w] = <<>> /\ HeardBy(w) = {} => down'[w] = <<>>
                          /\ "201" \in Range(down'[w]) => "201" \in Range(down[w])
    PROVE  Structure'
<1>1. /\ \A w, kind : IsA(w, kind)' <=> IsA(w, kind)
      /\ \A w : Live(w)' <=> Live(w)
      /\ \A s : HeardBy(s)' = HeardBy(s)
      /\ \A c \in Client : Own(c)' <=> Own(c)
  BY DEF IsA, Live, HeardBy, Own
<1>2. Clients'
  BY <1>1, ClientKept DEF Structure, Clients
<1>3. Workers'
  <2>1. ASSUME NEW w \in Wid PROVE WorkerNames(w)'
    <3>1. inbox'[w] # <<>> => Live(w)'
      BY <1>1 DEF Structure, Workers, WorkerNames
    <3>. QED BY <1>1, <3>1, WorkerNamesKept DEF Structure, Workers
  <2>2. ASSUME NEW w \in Wid PROVE SocketListed(w)'
    BY <1>1, SocketListedKept DEF Structure, Workers
  <2>3. ASSUME NEW w \in Wid PROVE FoundedBy(w)'
    BY <1>1, FoundedKept DEF Structure, Workers
  <2>. QED BY <2>1, <2>2, <2>3 DEF Workers
<1>4. SubscribesOnce'
  BY <1>1, SubscribesOnceKept
<1>5. ListsAlive' /\ RunnersListed'
  BY ListsKept DEF Structure
<1>. QED BY <1>2, <1>3, <1>4, <1>5 DEF Structure

-----------------------------------------------------------------------------
(* The browsers' steps keep the structure.                                 *)

\* A step that changes only what one client does and what is on its socket.
LEMMA BrowserStep ==
    ASSUME TypeOK, Structure, NEW c \in Client,
           UNCHANGED <<workers, listeners, joinedDead, csid, asid, sub, goal, inbox, down>>,
           \A t \in Socket : t # c => wire'[t] = wire[t],
           \A d \in Client : d # c => client'[d] = client[d] /\ link'[d] = link[d],
           ClientWire(c)', ClientNames(c)', ClientListed(c)', SubscribesOnce'
    PROVE  Structure'
<1>1. /\ \A w, kind : IsA(w, kind)' <=> IsA(w, kind)
      /\ \A w : Live(w)' <=> Live(w)
      /\ \A s : HeardBy(s)' = HeardBy(s)
  BY DEF IsA, Live, HeardBy
<1>2. \A w \in Wid : wire'[w] = wire[w]
  BY Sockets
<1>3. Clients'
  <2>1. ASSUME NEW d \in Client, d # c PROVE ClientWire(d)' /\ ClientNames(d)' /\ ClientListed(d)'
    <3>1. wire'[d] = wire[d] /\ client'[d] = client[d] /\ link'[d] = link[d]
      BY <2>1, Sockets
    <3>. QED BY <1>1, <3>1, ClientKept DEF Structure, Clients
  <2>. QED BY <2>1 DEF Clients
<1>4. Workers'
  <2>1. ASSUME NEW w \in Wid PROVE WorkerNames(w)'
    <3>1. inbox'[w] # <<>> => Live(w)'
      BY <1>1 DEF Structure, Workers, WorkerNames
    <3>. QED BY <1>1, <3>1, WorkerNamesKept DEF Structure, Workers
  <2>2. ASSUME NEW w \in Wid PROVE SocketListed(w)'
    BY <1>1, <1>2, SocketListedKept DEF Structure, Workers
  <2>3. ASSUME NEW w \in Wid PROVE FoundedBy(w)'
    <3>1. IsA(w, "as") => w - 1 \in Wid
      BY WorkerIds DEF Structure, Workers, WorkerNames
    <3>. QED BY <1>1, <1>2, <3>1, FoundedKept DEF Structure, Workers
  <2>. QED BY <2>1, <2>2, <2>3 DEF Workers
<1>5. ListsAlive' /\ RunnersListed'
  BY ListsKept DEF Structure
<1>. QED BY <1>3, <1>4, <1>5 DEF Structure

\* One that asks for nothing besides.
LEMMA QuietBrowserStep ==
    ASSUME TypeOK, Structure, NEW c \in Client,
           UNCHANGED <<workers, listeners, joinedDead, csid, asid, sub, goal, inbox, down, http>>,
           \A t \in Socket : t # c => wire'[t] = wire[t],
           \A d \in Client : d # c => client'[d] = client[d] /\ link'[d] = link[d],
           ClientWire(c)', ClientNames(c)', ClientListed(c)',
           csid[c] # 0 => link'[c] = link[c] /\ client'[c] # "joined"
    PROVE  Structure'
<1>1. \A w, kind : IsA(w, kind)' <=> IsA(w, kind)
  BY DEF IsA
<1>2. /\ \A d \in Client : Own(d)' <=> Own(d)
      /\ \A d \in Client : Own(d) => /\ csid'[d] = csid[d] /\ link'[d] = link[d]
                                     /\ client'[d] = "joined" => client[d] = "joined"
  BY DEF Own
<1>3. SubscribesOnce'
  BY <1>1, <1>2, SubscribesOnceKept
<1>. QED BY <1>3, BrowserStep

LEMMA OpenStructure ==
    ASSUME TypeOK, Structure, NEW c \in Client, NEW url \in Link, Open(c, url),
           url.cs # 0 => IsA(url.cs, "cs"),
           url.as # 0 => IsA(url.as, "as") /\ url.cs # 0
    PROVE  Structure'
<1>. DEFINE hello == [op |-> IF url.cs = 0 THEN "createSession" ELSE "joinSession"]
<1>1. /\ client[c] = "out" /\ client'[c] = "asked" /\ link'[c] = url
      /\ \A d \in Client : d # c => client'[d] = client[d] /\ link'[d] = link[d]
  BY DEF Open, TypeOK
<1>2. wire[c] = <<>> /\ csid[c] = 0
  BY <1>1 DEF Structure, Clients, ClientWire
<1>3. hello \in Message /\ Send(c, hello) /\ c \in Socket
  BY Sockets DEF Open
<1>4. wire'[c] = <<hello>> /\ \A t \in Socket : t # c => wire'[t] = wire[t]
  <2>. HIDE DEF hello
  <2>. QED BY <1>2, <1>3, SentMessage, OneMessage
<1>5. UNCHANGED <<workers, listeners, joinedDead, csid, asid, sub, goal, inbox, down, http>>
  BY DEF Open, server, process
<1>6. ClientWire(c)'
  <2>1. hello = Hello(c)'
    BY <1>1 DEF Hello
  <2>. HIDE DEF hello
  <2>. QED BY <1>1, <1>2, <1>4, <1>5, <2>1 DEF ClientWire
<1>7. ClientNames(c)'
  BY <1>1, <1>2, <1>5 DEF ClientNames, Structure, Clients, IsA
<1>8. ClientListed(c)'
  <2>1. HeardBy(c) = {}
    BY <1>1, <1>2, OneMessage DEF ClientListed, Structure, Clients
  <2>2. HeardBy(c)' = {}
    BY <1>5, <2>1 DEF HeardBy
  <2>. QED BY <1>1, <2>2 DEF ClientListed
<1>. QED BY <1>1, <1>2, <1>4, <1>5, <1>6, <1>7, <1>8, QuietBrowserStep

LEMMA FollowStructure ==
    ASSUME TypeOK, Structure, NEW c \in Client, NEW h \in Client, NEW model \in BOOLEAN, Follow(c, h, model)
    PROVE  Structure'
<1>. DEFINE url == [cs |-> csid[h], as |-> IF model THEN asid[h] ELSE 0]
<1>1. url \in Link
  BY Sockets DEF TypeOK, Link
<1>2. IsA(csid[h], "cs") /\ csid[h] # 0 /\ (model => IsA(asid[h], "as"))
  BY DEF Follow, Structure, Clients, ClientNames
<1>3. /\ url.cs # 0 => IsA(url.cs, "cs")
      /\ url.as # 0 => IsA(url.as, "as") /\ url.cs # 0
  BY <1>2
<1>4. Open(c, url)
  BY DEF Follow
<1>. HIDE DEF url
<1>. QED BY <1>1, <1>3, <1>4, OpenStructure

LEMMA LeaveStructure ==
    ASSUME TypeOK, Structure, NEW c \in Client, Leave(c)
    PROVE  Structure'
<1>1. /\ client[c] \in {"asked", "joined", "in"} /\ client'[c] = "left" /\ link' = link
      /\ \A d \in Client : d # c => client'[d] = client[d]
  BY DEF Leave, TypeOK
<1>2. Bye \in Message /\ Send(c, Bye) /\ c \in Socket
  BY Sockets DEF Leave, Bye
<1>3. wire'[c] = Append(wire[c], Bye) /\ \A t \in Socket : t # c => wire'[t] = wire[t]
  BY <1>2, SentMessage
<1>4. UNCHANGED <<workers, listeners, joinedDead, csid, asid, sub, goal, inbox, down, http>>
  BY DEF Leave, server, process
<1>5. /\ client[c] = "asked" => wire[c] = <<Hello(c)>> /\ wire'[c] = <<Hello(c), Bye>> /\ csid[c] = 0
      /\ client[c] \in {"joined", "in"} => wire[c] = <<>> /\ wire'[c] = <<Bye>> /\ csid[c] # 0
  <2>1. client[c] = "asked" => wire[c] = <<Hello(c)>> /\ csid[c] = 0
    BY DEF Structure, Clients, ClientWire
  <2>2. client[c] \in {"joined", "in"} => wire[c] = <<>> /\ csid[c] # 0
    BY TwoMessages DEF Structure, Clients, ClientWire
  <2>3. Append(<<Hello(c)>>, Bye) = <<Hello(c), Bye>> /\ Append(<<>>, Bye) = <<Bye>>
    BY TwoMessages, OneMessage
  <2>. QED BY <1>3, <2>1, <2>2, <2>3
<1>6. Hello(c)' = Hello(c) /\ Bye' = Bye /\ <<Hello(c), Bye>> # <<Bye>> /\ Hello(c) # Bye
  BY <1>1, TwoMessages DEF Hello, Bye
<1>7. ClientWire(c)'
  <2>1. wire'[c] \in {<<Bye>>, <<Hello(c), Bye>>} /\ (wire'[c] = <<Hello(c), Bye>> <=> csid[c] = 0)
    BY <1>1, <1>5, <1>6
  <2>. QED BY <1>1, <1>4, <1>6, <2>1 DEF ClientWire
<1>8. ClientNames(c)'
  BY <1>1, <1>4 DEF ClientNames, Structure, Clients, IsA
<1>9. ClientListed(c)'
  <2>1. HeardBy(c)' = HeardBy(c) /\ csid'[c] = csid[c]
    BY <1>4 DEF HeardBy
  <2>2. \A w \in HeardBy(c) : w = csid[c] /\ (client[c] \in {"joined", "in"} \/ wire[c] = <<Bye>>)
    BY DEF ClientListed, Structure, Clients
  <2>3. client[c] = "asked" => wire[c] # <<Bye>>
    <3>1. <<Hello(c)>>[1] = Hello(c) /\ <<Bye>>[1] = Bye
      BY OneMessage
    <3>. QED BY <1>5, <1>6, <3>1
  <2>4. \A w \in HeardBy(c) : w = csid[c] /\ wire'[c] = <<Bye>>
    BY <1>1, <1>5, <2>2, <2>3
  <2>. QED BY <1>1, <1>6, <2>1, <2>4 DEF ClientListed
<1>. QED BY <1>1, <1>3, <1>4, <1>7, <1>8, <1>9, QuietBrowserStep

LEMMA SetUpStructure ==
    ASSUME TypeOK, Structure, NEW c \in Client, SetUp(c)
    PROVE  Structure'
<1>0. PICK q : q = [kind |-> IF link[c].as = 0 THEN "state" ELSE "subscribe",
                    by |-> c, to |-> csid[c], goal |-> link[c], n |-> 0]
  OBVIOUS
<1>1. /\ client[c] = "joined" /\ client'[c] = "in" /\ link' = link
      /\ \A d \in Client : d # c => client'[d] = client[d]
  BY DEF SetUp, TypeOK
<1>2. UNCHANGED <<workers, listeners, joinedDead, csid, asid, sub, goal, inbox, down, wire>>
  BY DEF SetUp, server, process
<1>3. ClientWire(c)'
  BY <1>1, <1>2 DEF ClientWire, Structure, Clients, Hello, Bye
<1>4. ClientNames(c)'
  BY <1>1, <1>2 DEF ClientNames, Structure, Clients, IsA
<1>5. ClientListed(c)'
  <2>1. HeardBy(c)' = HeardBy(c)
    BY <1>2 DEF HeardBy
  <2>. QED BY <1>1, <1>2, <2>1 DEF ClientListed, Structure, Clients
<1>6. \A d \in Client : Own(d)' <=> Own(d)
  BY <1>1, <1>2 DEF Own
<1>7. \A w, kind : IsA(w, kind)' <=> IsA(w, kind)
  BY <1>2 DEF IsA
<1>8. csid[c] # 0 /\ csid[c] \in Wid
  <2>1. csid[c] # 0
    BY <1>1, TwoMessages, OneMessage DEF Structure, Clients, ClientWire
  <2>. QED BY <2>1 DEF TypeOK, Wid
<1>9. http' \subseteq http \cup {q} /\ (Subscription(q) => Own(c))
  BY <1>0, <1>1, <1>8 DEF SetUp, Ask, Subscription, Own
<1>10. SubscribesOnce'
  <2>1. \A d \in Client : GuestOnce(d)'
    BY <1>1, <1>2, <1>6, <1>7 DEF Structure, SubscribesOnce, GuestOnce, IsA
  <2>2. \A d, e \in Client : Own(d)' /\ Own(e)' /\ csid'[d] = csid'[e] => d = e
    BY <1>2, <1>6 DEF Structure, SubscribesOnce
  <2>3. \A r \in http' : SentOnce(r)'
    <3>1. ASSUME NEW r \in http PROVE SentOnce(r)'
      <4>1. SentOnce(r)
        BY DEF Structure, SubscribesOnce
      <4>2. r.by \in Client => (Own(r.by)' <=> Own(r.by)) /\ (client'[r.by] = "joined" => client[r.by] = "joined")
        BY <1>1, <1>6
      <4>. QED BY <1>1, <1>2, <4>1, <4>2 DEF SentOnce, Subscription
    <3>2. SentOnce(q)'
      <4>1. Own(c) => sub[csid[c]] = "no"
        BY <1>1 DEF Structure, SubscribesOnce, GuestOnce
      <4>2. SUFFICES ASSUME Subscription(q)
                     PROVE  /\ q.by \in Client /\ Own(q.by)' /\ client'[q.by] # "joined" /\ sub'[q.to] = "no"
                            /\ q = [kind |-> "subscribe", by |-> q.by, to |-> csid'[q.by], goal |-> link'[q.by], n |-> 0]
        BY DEF SentOnce, Subscription
      <4>3. q.kind = "subscribe" /\ q.by = c /\ q.to = csid[c]
        BY <1>0, <4>2 DEF Subscription
      <4>. QED BY <1>0, <1>1, <1>2, <1>6, <1>9, <4>1, <4>2, <4>3
    <3>. QED BY <1>9, <3>1, <3>2
  <2>4. ASSUME NEW w \in Wid, NEW i \in DOMAIN inbox[w], Subscription(inbox[w][i])
        PROVE  QueuedOnce(w, i)'
    <3>1. QueuedOnce(w, i)
      BY DEF Structure, SubscribesOnce
    <3>2. Own(c) => csid[c] # w
      BY <1>1, <2>4, <3>1 DEF QueuedOnce
    <3>3. Subscription(q) => q.to # w
      BY <1>0, <1>9, <3>2
    <3>4. \A r \in http' : Subscription(r) => r.to # w
      BY <1>9, <2>4, <3>1, <3>3 DEF QueuedOnce
    <3>5. \A d \in Client : Own(d)' /\ client'[d] = "joined" => csid'[d] # w
      BY <1>1, <1>2, <1>6, <2>4, <3>1 DEF QueuedOnce
    <3>6. /\ sub[w] = "no" /\ IsA(w, "cs") /\ IsA(inbox[w][i].goal.as, "as")
          /\ inbox[w][i].goal.cs # 0 => IsA(inbox[w][i].goal.cs, "cs")
          /\ IsA(w + 1, "as") => inbox[w][i].goal.as = w + 1
          /\ \A j \in DOMAIN inbox[w] : Subscription(inbox[w][j]) => i = j
      BY <2>4, <3>1 DEF QueuedOnce
    <3>. QED BY <1>2, <3>4, <3>5, <3>6 DEF QueuedOnce, Subscription, IsA
  <2>5. \A w \in Wid : \A i \in DOMAIN inbox'[w] : QueuedOnce(w, i)'
    BY <1>2, <2>4 DEF QueuedOnce, Subscription
  <2>. QED BY <2>1, <2>2, <2>3, <2>5 DEF SubscribesOnce
<1>. QED BY <1>1, <1>2, <1>3, <1>4, <1>5, <1>10, BrowserStep

LEMMA UseStructure ==
    ASSUME TypeOK, Structure, NEW c \in Client, NEW kind \in {"edit", "save"}, Use(c, kind)
    PROVE  Structure'
<1>1. UNCHANGED <<client, csid, asid, link, wire, workers, listeners, joinedDead, sub, goal, inbox, down>>
  BY DEF Use, server, process
<1>2. \A r \in http' : Subscription(r) => r \in http
  BY DEF Use, Ask, Subscription
<1>3. \A w : Range(down'[w]) = Range(down[w])
  BY <1>1
<1>. QED BY <1>1, <1>2, <1>3, StructureKept

-----------------------------------------------------------------------------
(* The workers' steps keep the structure, and so do the server's that     *)
(* change no list and no worker.                                           *)

\* A step that changes only what one csworker does and what is on its socket.
LEMMA WorkerStep ==
    ASSUME TypeOK, Structure, NEW w \in Wid,
           UNCHANGED <<workers, listeners, joinedDead, client, link, csid, asid>>,
           \A t \in Socket : t # w => wire'[t] = wire[t],
           \A v \in Wid : v # w => sub'[v] = sub[v] /\ goal'[v] = goal[v] /\ down'[v] = down[v],
           \A v \in Wid : inbox'[v] # <<>> => Live(v),
           WorkerNames(w)', SocketListed(w)', IsA(w + 1, "as") => FoundedBy(w + 1)',
           SubscribesOnce'
    PROVE  Structure'
<1>1. /\ \A v, kind : IsA(v, kind)' <=> IsA(v, kind)
      /\ \A v : Live(v)' <=> Live(v)
      /\ \A s : HeardBy(s)' = HeardBy(s)
  BY DEF IsA, Live, HeardBy
<1>2. Clients'
  <2>1. ASSUME NEW d \in Client PROVE ClientWire(d)' /\ ClientNames(d)' /\ ClientListed(d)'
    <3>1. wire'[d] = wire[d]
      BY Sockets
    <3>. QED BY <1>1, <3>1, ClientKept DEF Structure, Clients
  <2>. QED BY <2>1 DEF Clients
<1>3. Workers'
  <2>1. ASSUME NEW v \in Wid, v # w PROVE WorkerNames(v)'
    <3>1. inbox'[v] # <<>> => Live(v)'
      BY <1>1
    <3>. QED BY <1>1, <2>1, <3>1, WorkerNamesKept DEF Structure, Workers
  <2>2. ASSUME NEW v \in Wid, v # w PROVE SocketListed(v)'
    BY <1>1, <2>2, SocketListedKept, Sockets DEF Structure, Workers
  <2>3. ASSUME NEW v \in Wid PROVE FoundedBy(v)'
    <3>1. IsA(v, "as") => v - 1 \in Wid
      BY WorkerIds DEF Structure, Workers, WorkerNames
    <3>2. CASE v - 1 # w
      <4>1. IsA(v, "as") => sub'[v - 1] = sub[v - 1] /\ goal'[v - 1] = goal[v - 1] /\ wire'[v - 1] = wire[v - 1]
        BY <3>1, <3>2, Sockets
      <4>. QED BY <1>1, <4>1, FoundedKept DEF Structure, Workers
    <3>3. CASE v - 1 = w
      <4>1. v = w + 1
        BY <3>3 DEF Wid
      <4>2. CASE IsA(v, "as")
        BY <4>1, <4>2
      <4>3. CASE ~IsA(v, "as")
        BY <1>1, <4>3 DEF FoundedBy
      <4>. QED BY <4>2, <4>3
    <3>. QED BY <3>2, <3>3
  <2>. QED BY <2>1, <2>2, <2>3 DEF Workers
<1>4. ListsAlive' /\ RunnersListed'
  BY ListsKept DEF Structure
<1>. QED BY <1>2, <1>3, <1>4 DEF Structure

LEMMA SubscribeStructure ==
    ASSUME TypeOK, Structure, NEW w \in Wid, Subscribe(w)
    PROVE  Structure'
<1>1. PICK r : r = Head(inbox[w])
  OBVIOUS
<1>2. /\ inbox[w] \in Seq(Request) /\ inbox[w] # <<>> /\ r \in Request /\ r.kind = "subscribe"
      /\ inbox'[w] = Tail(inbox[w]) /\ \A v \in Wid : v # w => inbox'[v] = inbox[v]
      /\ Live(w) /\ workers[w].kind = "cs"
  BY <1>1, TakenRequest DEF Subscribe
<1>3. 1 \in DOMAIN inbox[w] /\ inbox[w][1] = r
  BY <1>1, <1>2
<1>4. QueuedOnce(w, 1) /\ Subscription(inbox[w][1])
  BY <1>2, <1>3 DEF Structure, SubscribesOnce, Subscription
<1>5. /\ sub[w] = "no" /\ IsA(w, "cs") /\ IsA(r.goal.as, "as")
      /\ r.goal.cs # 0 => IsA(r.goal.cs, "cs")
      /\ IsA(w + 1, "as") => r.goal.as = w + 1
      /\ \A q \in http : Subscription(q) => q.to # w
      /\ \A c \in Client : Own(c) /\ client[c] = "joined" => csid[c] # w
      /\ \A j \in DOMAIN inbox[w] : Subscription(inbox[w][j]) => 1 = j
  BY <1>3, <1>4 DEF QueuedOnce
<1>6. wire[w] = <<>> /\ down[w] = <<>> /\ HeardBy(w) = {}
  BY <1>5 DEF Structure, Workers, SocketListed
<1>7. UNCHANGED <<workers, listeners, joinedDead, client, link, csid, asid, down, http>>
  BY DEF Subscribe, server, browsers
<1>8. /\ sub'[w] = "asked" /\ goal'[w] = r.goal
      /\ \A v \in Wid : v # w => sub'[v] = sub[v] /\ goal'[v] = goal[v]
  BY <1>1 DEF Subscribe, TypeOK
<1>9. wire'[w] = <<Change>> /\ \A t \in Socket : t # w => wire'[t] = wire[t]
  <2>1. Change \in Message /\ Send(w, Change) /\ w \in Socket
    BY Sockets DEF Subscribe, Change
  <2>. QED BY <1>6, <2>1, SentMessage, OneMessage
<1>10. /\ \A v, kind : IsA(v, kind)' <=> IsA(v, kind)
       /\ \A v : Live(v)' <=> Live(v)
       /\ \A s : HeardBy(s)' = HeardBy(s)
       /\ Change' = Change /\ Change1' = Change1
  BY <1>7 DEF IsA, Live, HeardBy, Change, Change1, Bye
<1>11. \A v \in Wid : inbox'[v] # <<>> => Live(v)
  BY <1>2 DEF Structure, Workers, WorkerNames
<1>12. WorkerNames(w)'
  <2>1. IsA(r.goal.as, "as")' /\ (r.goal.cs # 0 => IsA(r.goal.cs, "cs")')
    BY <1>5, <1>10
  <2>2. IsA(goal[w].as, "as")' /\ (goal'[w].cs # 0 => IsA(goal[w].cs, "cs")')
    BY <1>8, <2>1 DEF IsA
  <2>3. IsA(w, "cs")' /\ ~IsA(w, "as")'
    BY <1>2, <1>5, <1>10 DEF IsA
  <2>. QED BY <1>2, <1>10, <2>2, <2>3 DEF WorkerNames
<1>13. SocketListed(w)'
  <2>1. down'[w] = <<>> /\ HeardBy(w)' = {} /\ Range(down'[w]) = {}
    BY <1>6, <1>7, <1>10 DEF Range
  <2>2. "201" \notin Range(down[w])'
    BY <2>1 DEF Range
  <2>3. wire'[w] \in Change1' /\ wire'[w] # <<>>
    BY <1>9, OneMessage DEF Change1, Change
  <2>. QED BY <1>2, <1>8, <1>9, <1>10, <2>1, <2>2, <2>3 DEF SocketListed
<1>14. IsA(w + 1, "as") => FoundedBy(w + 1)'
  <2>1. w + 1 - 1 = w
    BY DEF Wid
  <2>2. wire'[w] \in Change1'
    BY <1>9 DEF Change1, Change
  <2>3. IsA(w + 1, "as") => goal'[w].as = w + 1
    BY <1>5, <1>8
  <2>4. PICK v : v = w + 1
    OBVIOUS
  <2>5. v - 1 = w
    BY <2>4 DEF Wid
  <2>6. IsA(v, "as") => FoundedBy(v)'
    BY <2>2, <2>3, <2>4, <2>5 DEF FoundedBy
  <2>. QED BY <2>4, <2>6
<1>15. SubscribesOnce'
  <2>1. \A c \in Client : Own(c)' <=> Own(c)
    BY <1>7 DEF Own
  <2>2. ASSUME NEW c \in Client PROVE GuestOnce(c)'
    <3>1. GuestOnce(c)
      BY DEF Structure, SubscribesOnce
    <3>2. Own(c) => csid[c] \in Wid
      BY WorkerIds DEF Own, Structure, Clients, ClientNames
    <3>3. Own(c) /\ client[c] = "joined" => sub'[csid[c]] = "no"
      BY <1>5, <1>8, <3>1, <3>2 DEF GuestOnce
    <3>. QED BY <1>7, <2>1, <3>1, <3>3 DEF GuestOnce, IsA
  <2>3. \A c, d \in Client : Own(c)' /\ Own(d)' /\ csid'[c] = csid'[d] => c = d
    BY <1>7, <2>1 DEF Structure, SubscribesOnce
  <2>4. ASSUME NEW q \in http, Subscription(q) PROVE SentOnce(q)'
    <3>1. /\ q.by \in Client /\ Own(q.by) /\ client[q.by] # "joined" /\ sub[q.to] = "no"
          /\ q = [kind |-> "subscribe", by |-> q.by, to |-> csid[q.by], goal |-> link[q.by], n |-> 0]
          /\ q.to # w
      BY <1>5, <2>4 DEF Structure, SubscribesOnce, SentOnce
    <3>2. q.to \in Wid
      <4>1. q.to = csid[q.by] /\ csid[q.by] # 0
        BY <3>1 DEF Own
      <4>. QED BY <3>1, <4>1, WorkerIds DEF Structure, Clients, ClientNames
    <3>3. sub'[q.to] = "no"
      BY <1>8, <3>1, <3>2
    <3>. QED BY <1>7, <2>1, <3>1, <3>3 DEF SentOnce
  <2>5. \A q \in http' : SentOnce(q)'
    BY <1>7, <2>4 DEF SentOnce, Subscription
  <2>6. ASSUME NEW v \in Wid, NEW i \in DOMAIN inbox'[v] PROVE QueuedOnce(v, i)'
    <3>1. CASE v = w
      <4>1. i \in DOMAIN Tail(inbox[w])
        BY <1>2, <2>6, <3>1
      <4>2. i + 1 \in DOMAIN inbox[w] /\ inbox'[w][i] = inbox[w][i + 1] /\ i + 1 # 1
        BY <1>2, <4>1
      <4>3. ~Subscription(inbox'[w][i])
        BY <1>5, <4>2
      <4>. QED BY <3>1, <4>3 DEF QueuedOnce, Subscription
    <3>2. CASE v # w
      <4>1. inbox'[v] = inbox[v] /\ sub'[v] = sub[v]
        BY <1>2, <1>8, <3>2
      <4>2. QueuedOnce(v, i)
        BY <2>6, <4>1 DEF Structure, SubscribesOnce
      <4>. QED BY <1>7, <2>1, <4>1, <4>2 DEF QueuedOnce, Subscription, IsA, Own
    <3>. QED BY <3>1, <3>2
  <2>. QED BY <2>2, <2>3, <2>5, <2>6 DEF SubscribesOnce
<1>. QED BY <1>7, <1>8, <1>9, <1>11, <1>12, <1>13, <1>14, <1>15, WorkerStep

\* A csworker that has an answer had asked, and has nothing on its socket.
LEMMA AnsweredStructure ==
    ASSUME TypeOK, Structure, NEW w \in Wid, NEW what \in {"201", "400"}, NEW answer \in {"in", "failed"},
           Hears(w, what), what = "201" <=> answer = "in",
           sub' = [sub EXCEPT ![w] = answer],
           UNCHANGED <<server, browsers, wire, inbox, goal>>,
           \A r \in http' : Subscription(r) => r \in http
    PROVE  Structure'
<1>1. /\ down[w] # <<>> /\ Live(w) /\ what \in Range(down[w])
      /\ Range(down'[w]) \subseteq Range(down[w])
      /\ \A v \in Wid : v # w => down'[v] = down[v]
  BY HeardMessage
<1>2. UNCHANGED <<workers, listeners, joinedDead, client, link, csid, asid, wire, inbox, goal>>
  BY DEF server, browsers
<1>3. /\ \A v, kind : IsA(v, kind)' <=> IsA(v, kind)
      /\ \A v : Live(v)' <=> Live(v)
      /\ \A s : HeardBy(s)' = HeardBy(s)
      /\ \A c \in Client : Own(c)' <=> Own(c)
      /\ Change' = Change /\ Change1' = Change1 /\ Bye' = Bye
  BY <1>2 DEF IsA, Live, HeardBy, Own, Change, Change1, Bye
<1>4. sub'[w] = answer /\ sub[w] # "no" /\ \A v \in Wid : v # w => sub'[v] = sub[v]
  BY <1>1 DEF TypeOK, Structure, Workers, SocketListed
<1>5. wire[w] \notin Change1
  BY <1>1 DEF Structure, Workers, SocketListed
<1>6. WorkerNames(w)'
  <2>1. inbox'[w] # <<>> => Live(w)'
    BY <1>2, <1>3 DEF Structure, Workers, WorkerNames
  <2>. QED BY <1>2, <1>3, <1>4, <2>1, WorkerNamesKept DEF Structure, Workers
<1>7. SocketListed(w)'
  <2>1. Live(w) /\ (sub'[w] = "in" \/ "201" \in Range(down'[w])) => goal[w].as \in HeardBy(w)
    BY <1>1, <1>4 DEF Structure, Workers, SocketListed
  <2>2. Range(down[w])' = Range(down'[w])
    BY DEF Range
  <2>. QED BY <1>2, <1>3, <1>4, <1>5, <2>1, <2>2 DEF SocketListed, Structure, Workers
<1>8. IsA(w + 1, "as") => FoundedBy(w + 1)'
  <2>1. w + 1 - 1 = w
    BY DEF Wid
  <2>2. IsA(w + 1, "as") => FoundedBy(w + 1)
    BY WorkerIds DEF Structure, Workers
  <2>. QED BY <1>2, <1>3, <1>4, <2>1, <2>2 DEF FoundedBy
<1>9. SubscribesOnce'
  <2>1. \A v \in Wid : sub'[v] = "no" <=> sub[v] = "no"
    BY <1>4
  <2>. QED BY <1>2, <1>3, <2>1, SubscribesOnceKept
<1>10. \A v \in Wid : inbox'[v] # <<>> => Live(v)
  BY <1>2 DEF Structure, Workers, WorkerNames
<1>11. /\ \A t \in Socket : t # w => wire'[t] = wire[t]
       /\ \A v \in Wid : v # w => sub'[v] = sub[v] /\ goal'[v] = goal[v] /\ down'[v] = down[v]
  BY <1>1, <1>2, <1>4
<1>. QED BY <1>2, <1>6, <1>7, <1>8, <1>9, <1>10, <1>11, WorkerStep

LEMMA SubscribedStructure ==
    ASSUME TypeOK, Structure, NEW w \in Wid, Subscribed(w)
    PROVE  Structure'
<1>1. Hears(w, "201") /\ sub' = [sub EXCEPT ![w] = "in"] /\ UNCHANGED <<server, browsers, wire, inbox, goal>>
  BY DEF Subscribed
<1>2. \A r \in http' : Subscription(r) => r \in http
  BY DEF Subscribed, Ask, Subscription
<1>. QED BY <1>1, <1>2, AnsweredStructure

LEMMA RefusedStructure ==
    ASSUME TypeOK, Structure, NEW w \in Wid, Refused(w)
    PROVE  Structure'
<1>1. Hears(w, "400") /\ sub' = [sub EXCEPT ![w] = "failed"] /\ UNCHANGED <<server, browsers, wire, inbox, goal, http>>
  BY DEF Refused
<1>. QED BY <1>1, AnsweredStructure

\* The other steps of workers change only what they have to do and what they send.
LEMMA WorkStructure ==
    ASSUME TypeOK, Structure, NEW w \in Wid,
           AskAsworker(w) \/ TellState(w) \/ AsworkerDoes(w) \/ Apply(w)
    PROVE  Structure'
<1>1. UNCHANGED <<client, csid, asid, link, wire, workers, listeners, joinedDead, sub, goal>>
  BY DEF AskAsworker, TellState, AsworkerDoes, Apply, server, browsers
<1>2. \A v \in Wid : \/ inbox'[v] = inbox[v]
                     \/ inbox[v] # <<>> /\ inbox'[v] = Tail(inbox[v])
                     \/ inbox'[v] = <<>>
  BY DEF AskAsworker, TellState, AsworkerDoes, Apply, Takes, TypeOK
<1>3. \A r \in http' : Subscription(r) => r \in http
  <2>1. CASE AskAsworker(w)
    <3>1. Head(inbox[w]) \in Request /\ Head(inbox[w]).kind \in {"edit", "save"}
      BY <2>1, TakenRequest DEF AskAsworker
    <3>2. http' = http \cup {[Head(inbox[w]) EXCEPT !.by = w, !.to = Asw(w)]}
      BY <2>1 DEF AskAsworker, Ask
    <3>3. [Head(inbox[w]) EXCEPT !.by = w, !.to = Asw(w)].kind = Head(inbox[w]).kind
      BY <3>1 DEF Request
    <3>. QED BY <3>1, <3>2, <3>3 DEF Subscription
  <2>2. CASE ~AskAsworker(w)
    BY <2>2 DEF TellState, AsworkerDoes, Apply
  <2>. QED BY <2>1, <2>2
<1>4. \A v \in Wid : /\ down[v] = <<>> /\ HeardBy(v) = {} => down'[v] = <<>>
                     /\ "201" \in Range(down'[v]) => "201" \in Range(down[v])
  <2>1. CASE Apply(w)
    <3>1. /\ down[w] # <<>> /\ Range(down'[w]) \subseteq Range(down[w])
          /\ \A v \in Wid : v # w => down'[v] = down[v]
      BY <2>1, HeardMessage DEF Apply
    <3>. QED BY <3>1
  <2>2. CASE ~Apply(w)
    BY <2>2 DEF AskAsworker, TellState, AsworkerDoes
  <2>. QED BY <2>1, <2>2
<1>. QED BY <1>1, <1>2, <1>3, <1>4, StructureKept

LEMMA RelayStructure ==
    ASSUME TypeOK, Structure, NEW w \in Wid, Relay(w), up'
    PROVE  Structure'
<1>. DEFINE changelog == Head(outbox[w]).changelog
<1>1. /\ UNCHANGED <<client, csid, asid, link, wire, workers, listeners, joinedDead, sub, goal, inbox, http>>
      /\ changelog => w \in DOMAIN listeners
      /\ down' = [v \in Wid |-> IF changelog /\ v \in listeners[w] /\ Live(v)
                                THEN Append(down[v], "changelog") ELSE down[v]]
  BY DEF Relay, Dies, server, browsers
<1>. HIDE DEF changelog
<1>2. ASSUME NEW v \in Wid
      PROVE  /\ down[v] = <<>> /\ HeardBy(v) = {} => down'[v] = <<>>
             /\ "201" \in Range(down'[v]) => "201" \in Range(down[v])
  <2>1. CASE down'[v] = down[v]
    BY <2>1
  <2>2. CASE down'[v] # down[v]
    <3>1. w \in HeardBy(v) /\ down'[v] = Append(down[v], "changelog")
      BY <1>1, <2>2 DEF HeardBy
    <3>2. down[v] \in Seq({"201", "400", "changelog"})
      BY DEF TypeOK
    <3>3. \A i \in DOMAIN Append(down[v], "changelog") :
             \/ Append(down[v], "changelog")[i] = "changelog"
             \/ i \in DOMAIN down[v] /\ Append(down[v], "changelog")[i] = down[v][i]
      BY <3>2
    <3>. QED BY <3>1, <3>3 DEF Range
  <2>. QED BY <2>1, <2>2
<1>. QED BY <1>1, <1>2, StructureKept

-----------------------------------------------------------------------------
(* The server's other steps keep the structure.                            *)

LEMMA ForwardStructure ==
    ASSUME TypeOK, Structure, NEW r \in http, Forward(r), up'
    PROVE  Structure'
<1>1. Live(r.to) /\ r \in Request /\ r.to \in Wid
  BY WorkerIds DEF Forward, Dies, TypeOK
<1>2. PICK w \in Wid : w = r.to
  BY <1>1
<1>3. /\ UNCHANGED <<client, csid, asid, link, wire, workers, listeners, joinedDead, sub, goal, down>>
      /\ http' = http \ {r} /\ inbox' = [inbox EXCEPT ![w] = Append(inbox[w], r)]
  BY <1>1, <1>2 DEF Forward, server, browsers
<1>4. /\ inbox[w] \in Seq(Request) /\ inbox'[w] = Append(inbox[w], r)
      /\ \A v \in Wid : v # w => inbox'[v] = inbox[v]
  BY <1>3 DEF TypeOK
<1>5. /\ \A v, kind : IsA(v, kind)' <=> IsA(v, kind)
      /\ \A v : Live(v)' <=> Live(v)
      /\ \A s : HeardBy(s)' = HeardBy(s)
      /\ \A c \in Client : Own(c)' <=> Own(c)
      /\ \A v : Range(down[v])' = Range(down[v])
  BY <1>3 DEF IsA, Live, HeardBy, Own, Range
<1>6. \A v \in Wid : inbox'[v] # <<>> => Live(v)
  BY <1>1, <1>2, <1>4 DEF Structure, Workers, WorkerNames
<1>7. WorkerNames(w)'
  BY <1>3, <1>5, <1>6, WorkerNamesKept DEF Structure, Workers
<1>8. SocketListed(w)'
  BY <1>2, <1>3, <1>5, Sockets, SocketListedKept DEF Structure, Workers
<1>9. IsA(w + 1, "as") => FoundedBy(w + 1)'
  <2>1. IsA(w + 1, "as") => FoundedBy(w + 1)
    BY WorkerIds DEF Structure, Workers
  <2>. QED BY <1>3, <1>5, <2>1 DEF FoundedBy, Change1, Change, Bye
<1>10. SubscribesOnce'
  <2>1. ASSUME NEW c \in Client PROVE GuestOnce(c)'
    BY <1>3, <1>5 DEF Structure, SubscribesOnce, GuestOnce, IsA
  <2>2. \A c, d \in Client : Own(c)' /\ Own(d)' /\ csid'[c] = csid'[d] => c = d
    BY <1>3, <1>5 DEF Structure, SubscribesOnce
  <2>3. ASSUME NEW q \in http PROVE SentOnce(q)'
    BY <1>3, <1>5 DEF Structure, SubscribesOnce, SentOnce, Subscription
  <2>4. ASSUME NEW q \in http', Subscription(q), Subscription(r) PROVE q.to # w
    <3>1. q \in http /\ q # r
      BY <1>3, <2>4
    <3>2. SentOnce(q) /\ SentOnce(r)
      BY <3>1 DEF Structure, SubscribesOnce
    <3>3. /\ q = [kind |-> "subscribe", by |-> q.by, to |-> csid[q.by], goal |-> link[q.by], n |-> 0]
          /\ r = [kind |-> "subscribe", by |-> r.by, to |-> csid[r.by], goal |-> link[r.by], n |-> 0]
          /\ q.by \in Client /\ r.by \in Client /\ Own(q.by) /\ Own(r.by)
      BY <2>4, <3>2 DEF SentOnce
    <3>4. q.to = csid[q.by] /\ r.to = csid[r.by]
      BY <3>3
    <3>5. q.by # r.by
      BY <3>1, <3>3
    <3>. QED BY <1>2, <3>3, <3>4, <3>5 DEF Structure, SubscribesOnce
  <2>5. ASSUME Subscription(r)
        PROVE  /\ \A i \in DOMAIN inbox[w] : ~Subscription(inbox[w][i])
               /\ sub[w] = "no" /\ IsA(w, "cs") /\ IsA(r.goal.as, "as")
               /\ r.goal.cs # 0 => IsA(r.goal.cs, "cs")
               /\ ~IsA(w + 1, "as")
               /\ \A c \in Client : Own(c) /\ client[c] = "joined" => csid[c] # w
    <3>1. SentOnce(r)
      BY DEF Structure, SubscribesOnce
    <3>2. /\ r = [kind |-> "subscribe", by |-> r.by, to |-> csid[r.by], goal |-> link[r.by], n |-> 0]
          /\ r.by \in Client /\ Own(r.by) /\ client[r.by] # "joined" /\ sub[r.to] = "no"
      BY <2>5, <3>1 DEF SentOnce
    <3>3. r.to = csid[r.by] /\ r.goal = link[r.by]
      BY <3>2
    <3>4. IsA(w, "cs") /\ IsA(r.goal.as, "as") /\ (r.goal.cs # 0 => IsA(r.goal.cs, "cs"))
      BY <1>2, <3>2, <3>3 DEF Structure, Clients, ClientNames, Own
    <3>5. ~IsA(w + 1, "as")
      BY <1>2, <3>2, <3>3 DEF Structure, SubscribesOnce, GuestOnce
    <3>6. \A c \in Client : Own(c) /\ client[c] = "joined" => csid[c] # w
      BY <1>2, <3>2, <3>3 DEF Structure, SubscribesOnce
    <3>7. \A i \in DOMAIN inbox[w] : ~Subscription(inbox[w][i])
      BY <1>2, <2>5 DEF Structure, SubscribesOnce, QueuedOnce
    <3>. QED BY <1>2, <3>2, <3>4, <3>5, <3>6, <3>7
  <2>6. ASSUME NEW v \in Wid, NEW i \in DOMAIN inbox'[v], Subscription(inbox'[v][i]), v # w
        PROVE  QueuedOnce(v, i)'
    <3>1. inbox'[v] = inbox[v] /\ i \in DOMAIN inbox[v]
      BY <1>4, <2>6
    <3>2. QueuedOnce(v, i)
      BY <3>1 DEF Structure, SubscribesOnce
    <3>. QED BY <1>3, <1>5, <3>1, <3>2 DEF QueuedOnce, Subscription, IsA
  <2>7. ASSUME NEW i \in DOMAIN inbox'[w], Subscription(inbox'[w][i])
        PROVE  QueuedOnce(w, i)'
    <3>1. /\ DOMAIN inbox'[w] = DOMAIN inbox[w] \cup {Len(inbox[w]) + 1}
          /\ Len(inbox[w]) + 1 \notin DOMAIN inbox[w]
          /\ inbox'[w][Len(inbox[w]) + 1] = r
          /\ \A j \in DOMAIN inbox[w] : inbox'[w][j] = inbox[w][j]
      BY <1>4
    <3>2. CASE i \in DOMAIN inbox[w]
      <4>1. QueuedOnce(w, i) /\ Subscription(inbox[w][i]) /\ inbox'[w][i] = inbox[w][i]
        BY <2>7, <3>1, <3>2 DEF Structure, SubscribesOnce
      <4>2. ~Subscription(r)
        BY <2>5, <3>2, <4>1
      <4>3. \A j \in DOMAIN inbox'[w] : Subscription(inbox'[w][j]) => i = j
        BY <3>1, <4>1, <4>2 DEF QueuedOnce
      <4>. QED BY <1>3, <1>5, <4>1, <4>3 DEF QueuedOnce, Subscription, IsA
    <3>3. CASE i = Len(inbox[w]) + 1
      <4>1. inbox'[w][i] = r /\ Subscription(r)
        BY <2>7, <3>1, <3>3
      <4>2. \A j \in DOMAIN inbox'[w] : Subscription(inbox'[w][j]) => i = j
        BY <2>5, <3>1, <3>3, <4>1
      <4>3. \A q \in http' : Subscription(q) => q.to # w
        BY <2>4, <4>1
      <4>4. /\ sub'[w] = "no" /\ IsA(w, "cs")' /\ ~IsA(w + 1, "as")'
            /\ \A c \in Client : Own(c)' /\ client'[c] = "joined" => csid'[c] # w
        BY <1>3, <1>5, <2>5, <4>1
      <4>5. IsA(r.goal.as, "as") /\ (r.goal.cs # 0 => IsA(r.goal.cs, "cs"))
        BY <2>5, <4>1
      <4>6. IsA(inbox[w][i].goal.as, "as")' /\ (inbox'[w][i].goal.cs # 0 => IsA(inbox[w][i].goal.cs, "cs")')
        BY <1>3, <4>1, <4>5 DEF IsA
      <4>. QED BY <4>2, <4>3, <4>4, <4>6 DEF QueuedOnce, Subscription
    <3>. QED BY <3>1, <3>2, <3>3
  <2>8. \A v \in Wid : \A i \in DOMAIN inbox'[v] : QueuedOnce(v, i)'
    BY <2>6, <2>7 DEF QueuedOnce, Subscription
  <2>. QED BY <1>3, <2>1, <2>2, <2>3, <2>8 DEF SubscribesOnce
<1>. QED BY <1>3, <1>6, <1>7, <1>8, <1>9, <1>10, WorkerStep

\* A socket that says it has gone has nothing else to say.
LEMMA ByeRead ==
    ASSUME TypeOK, Structure, NEW s \in Socket, Reads(s, "disconnect")
    PROVE  /\ wire[s] = <<Bye>> /\ Rest(s)[s] = <<>>
           /\ \A t \in Socket : t # s => Rest(s)[t] = wire[t]
           /\ s \in Client => client[s] = "left" /\ csid[s] # 0
           /\ s \in Wid => ~Live(s)
<1>1. /\ wire[s] # <<>> /\ Head(wire[s]) = Bye /\ Rest(s)[s] = Tail(wire[s])
      /\ \A t \in Socket : t # s => Rest(s)[t] = wire[t]
  BY ReadMessage DEF Bye
<1>2. Tail(<<Bye>>) = <<>>
  BY OneMessage
<1>3. CASE s \in Client
  <2>1. Hello(s) # Bye /\ Head(<<Hello(s)>>) = Hello(s) /\ Head(<<Hello(s), Bye>>) = Hello(s)
    BY OneMessage, TwoMessages DEF Hello, Bye
  <2>2. ClientWire(s) /\ client[s] \in {"out", "asked", "joined", "in", "left"}
    BY <1>3 DEF Structure, Clients, TypeOK
  <2>3. wire[s] = <<Bye>> /\ client[s] = "left"
    BY <1>1, <2>1, <2>2 DEF ClientWire
  <2>4. csid[s] # 0
    BY <1>1, <2>1, <2>2, <2>3 DEF ClientWire
  <2>. QED BY <1>1, <1>2, <1>3, <2>3, <2>4, Sockets
<1>4. CASE s \in Wid
  <2>1. Change # Bye /\ Head(<<Change>>) = Change /\ Head(<<Change, Bye>>) = Change
    BY OneMessage, TwoMessages DEF Change, Bye
  <2>2. SocketListed(s)
    BY <1>4 DEF Structure, Workers
  <2>3. wire[s] = <<Bye>> /\ wire[s] # <<Change>>
    BY <1>1, <2>1, <2>2 DEF SocketListed, Change1
  <2>4. ~Live(s)
    BY <1>1, <2>2, <2>3 DEF SocketListed
  <2>. QED BY <1>1, <1>2, <1>4, <2>3, <2>4, Sockets
<1>. QED BY <1>3, <1>4 DEF Socket

LEMMA DisconnectOtherStructure ==
    ASSUME TypeOK, Structure, NEW s \in Socket, DisconnectOther(s)
    PROVE  Structure'
<1>1. Reads(s, "disconnect") /\ HeardBy(s) = {} /\ wire' = Rest(s)
  BY DEF DisconnectOther
<1>2. UNCHANGED <<client, csid, asid, link, workers, listeners, joinedDead, sub, goal, down, inbox, http>>
  BY DEF DisconnectOther, server, browsers, process
<1>3. wire[s] = <<Bye>> /\ wire'[s] = <<>> /\ \A t \in Socket : t # s => wire'[t] = wire[t]
  BY <1>1, ByeRead
<1>4. /\ \A v, kind : IsA(v, kind)' <=> IsA(v, kind)
      /\ \A v : Live(v)' <=> Live(v)
      /\ HeardBy(s)' = {}
      /\ \A v : Range(down[v])' = Range(down[v])
  BY <1>1, <1>2 DEF IsA, Live, HeardBy, Range
<1>5. CASE s \in Client
  <2>1. client[s] = "left" /\ csid[s] # 0
    BY <1>1, <1>5, ByeRead
  <2>2. ClientWire(s)'
    BY <1>2, <1>3, <2>1, TwoMessages DEF ClientWire
  <2>3. ClientNames(s)'
    BY <1>2, <1>4, <1>5 DEF ClientNames, Structure, Clients, IsA
  <2>4. ClientListed(s)'
    BY <1>2, <1>4, <2>1 DEF ClientListed
  <2>. QED BY <1>2, <1>3, <1>5, <2>1, <2>2, <2>3, <2>4, QuietBrowserStep
<1>6. CASE s \in Wid
  <2>1. ~Live(s) /\ SocketListed(s)
    BY <1>1, <1>6, ByeRead DEF Structure, Workers
  <2>2. \A v \in Wid : inbox'[v] # <<>> => Live(v)
    BY <1>2 DEF Structure, Workers, WorkerNames
  <2>3. WorkerNames(s)'
    BY <1>2, <1>4, <1>6, <2>2, WorkerNamesKept DEF Structure, Workers
  <2>4. SocketListed(s)'
    BY <1>2, <1>3, <1>4, <2>1, OneMessage, TwoMessages DEF SocketListed, Change1
  <2>5. IsA(s + 1, "as") => FoundedBy(s + 1)'
    <3>1. PICK v : v = s + 1
      OBVIOUS
    <3>2. v - 1 = s
      BY <1>6, <3>1 DEF Wid
    <3>3. <<Bye>> \notin Change1
      <4>1. <<Change>>[1] = Change /\ <<Bye>>[1] = Bye /\ <<Change, Bye>>[1] = Change /\ Change # Bye
        BY OneMessage, TwoMessages DEF Change, Bye
      <4>. QED BY <4>1 DEF Change1
    <3>4. IsA(v, "as") => FoundedBy(v)'
      <4>1. IsA(v, "as") => FoundedBy(v)
        BY WorkerIds DEF Structure, Workers
      <4>. QED BY <1>2, <1>3, <1>4, <3>2, <3>3, <4>1 DEF FoundedBy
    <3>. QED BY <3>1, <3>4
  <2>6. SubscribesOnce'
    <3>1. \A c \in Client : Own(c)' <=> Own(c)
      BY <1>2 DEF Own
    <3>. QED BY <1>2, <1>4, <3>1, SubscribesOnceKept
  <2>. QED BY <1>2, <1>3, <1>6, <2>2, <2>3, <2>4, <2>5, <2>6, WorkerStep
<1>. QED BY <1>5, <1>6 DEF Socket

\* The client whose disconnect has been read is nowhere registered.
LEMMA ByeClient ==
    ASSUME TypeOK, Structure, NEW c \in Client, Reads(c, "disconnect"),
           client'[c] = client[c], csid'[c] = csid[c], asid'[c] = asid[c], link'[c] = link[c],
           wire'[c] = <<>>, HeardBy(c)' = {},
           \A w, kind : IsA(w, kind) => IsA(w, kind)'
    PROVE  ClientWire(c)' /\ ClientNames(c)' /\ ClientListed(c)'
<1>1. client[c] = "left" /\ csid[c] # 0
  BY ByeRead, Sockets
<1>2. ClientWire(c)'
  BY <1>1, TwoMessages DEF ClientWire
<1>3. ClientNames(c)'
  BY DEF ClientNames, Structure, Clients
<1>4. ClientListed(c)'
  BY <1>1 DEF ClientListed
<1>. QED BY <1>2, <1>3, <1>4

\* And so is the csworker's socket.
LEMMA ByeSocket ==
    ASSUME TypeOK, Structure, NEW w \in Wid, Reads(w, "disconnect"),
           sub'[w] = sub[w], down'[w] = down[w], goal'[w] = goal[w], wire'[w] = <<>>, HeardBy(w)' = {}, ~Live(w)'
    PROVE  SocketListed(w)'
<1>1. SocketListed(w)
  BY DEF Structure, Workers
<1>2. wire[w] = <<Bye>>
  BY ByeRead, Sockets
<1>. QED BY <1>1, <1>2, OneMessage, TwoMessages DEF SocketListed, Change1

LEMMA ByeNoChange == <<Bye>> \notin Change1 /\ <<>> \notin Change1 /\ Change1' = Change1 /\ Bye' = Bye /\ Change' = Change
<1>1. <<Change>>[1] = Change /\ <<Bye>>[1] = Bye /\ <<Change, Bye>>[1] = Change /\ Change # Bye
      /\ <<Change>> # <<>> /\ <<Change, Bye>> # <<>>
  BY OneMessage, TwoMessages DEF Change, Bye
<1>. QED BY <1>1 DEF Change1, Change, Bye

\* One of several listeners leaves.
LEMMA UnregisterStructure ==
    ASSUME TypeOK, Structure, NEW s \in Socket, NEW w \in Wid, Reads(s, "disconnect"),
           HeardBy(s) = {w}, ~LastOne(w, s), w \in DOMAIN listeners,
           listeners' = [listeners EXCEPT ![w] = @ \ {s}], wire' = Rest(s),
           UNCHANGED <<client, csid, asid, link, workers, joinedDead, sub, goal, inbox, down, http>>
    PROVE  Structure'
<1>1. /\ DOMAIN listeners' = DOMAIN listeners /\ listeners'[w] = listeners[w] \ {s} /\ listeners'[w] # {}
      /\ \A v \in DOMAIN listeners : v # w => listeners'[v] = listeners[v]
  BY DEF TypeOK, LastOne
<1>2. HeardBy(s)' = {} /\ \A t : t # s => HeardBy(t)' = HeardBy(t)
  BY <1>1 DEF HeardBy
<1>3. wire'[s] = <<>> /\ wire[s] = <<Bye>> /\ \A t \in Socket : t # s => wire'[t] = wire[t]
  BY ByeRead
<1>4. /\ \A v, kind : IsA(v, kind)' <=> IsA(v, kind)
      /\ \A v : Live(v)' <=> Live(v)
      /\ \A v : Range(down[v])' = Range(down[v])
      /\ \A c \in Client : Own(c)' <=> Own(c)
  BY DEF IsA, Live, Range, Own
<1>5. Clients'
  <2>1. ASSUME NEW c \in Client PROVE ClientWire(c)' /\ ClientNames(c)' /\ ClientListed(c)'
    <3>1. CASE c = s
      BY <1>2, <1>3, <1>4, <3>1, ByeClient
    <3>2. CASE c # s
      <4>1. wire'[c] = wire[c] /\ HeardBy(c)' = HeardBy(c)
        BY <1>2, <1>3, <3>2, Sockets
      <4>. QED BY <1>4, <4>1, ClientKept DEF Structure, Clients
    <3>. QED BY <3>1, <3>2
  <2>. QED BY <2>1 DEF Clients
<1>6. Workers'
  <2>1. ASSUME NEW v \in Wid PROVE WorkerNames(v)'
    <3>1. inbox'[v] # <<>> => Live(v)'
      BY <1>4 DEF Structure, Workers, WorkerNames
    <3>. QED BY <1>4, <3>1, WorkerNamesKept DEF Structure, Workers
  <2>2. ASSUME NEW v \in Wid PROVE SocketListed(v)'
    <3>1. CASE v = s
      <4>1. ~Live(v)'
        BY <1>4, <3>1, ByeRead
      <4>. QED BY <1>2, <1>3, <3>1, <4>1, ByeSocket
    <3>2. CASE v # s
      <4>1. wire'[v] = wire[v] /\ HeardBy(v)' = HeardBy(v)
        BY <1>2, <1>3, <3>2, Sockets
      <4>. QED BY <1>4, <4>1, SocketListedKept DEF Structure, Workers
    <3>. QED BY <3>1, <3>2
  <2>3. ASSUME NEW v \in Wid PROVE FoundedBy(v)'
    <3>1. FoundedBy(v) /\ (IsA(v, "as") => v - 1 \in Wid)
      BY WorkerIds DEF Structure, Workers, WorkerNames
    <3>2. IsA(v, "as") /\ wire[v - 1] \in Change1 => wire'[v - 1] \in Change1
      BY <1>3, <3>1, ByeNoChange, Sockets
    <3>3. Live(v) /\ listeners[v] # {} => listeners'[v] # {}
      BY <1>1 DEF Structure, RunnersListed, Live
    <3>. QED BY <1>4, <3>1, <3>2, <3>3, ByeNoChange DEF FoundedBy
  <2>. QED BY <2>1, <2>2, <2>3 DEF Workers
<1>7. SubscribesOnce'
  BY <1>4, SubscribesOnceKept
<1>8. ListsAlive' /\ RunnersListed'
  <2>1. ListsAlive'
    BY <1>1, <1>4 DEF Structure, ListsAlive
  <2>2. ASSUME NEW v \in DOMAIN workers, Live(v), workers[v].kind = "cs" PROVE listeners'[v] # {}
    <3>1. v \in DOMAIN listeners /\ listeners[v] # {}
      BY <2>2 DEF Structure, RunnersListed
    <3>. QED BY <1>1, <3>1
  <2>3. RunnersListed'
    BY <1>1, <1>4, <2>2 DEF Structure, RunnersListed
  <2>. QED BY <2>1, <2>3
<1>. QED BY <1>5, <1>6, <1>7, <1>8 DEF Structure

\* The last listener of a worker leaves, and the worker is killed.
LEMMA KillStructure ==
    ASSUME TypeOK, Structure, NEW s \in Socket, NEW w \in Wid, Reads(s, "disconnect"),
           HeardBy(s) = {w}, LastOne(w, s), w \in DOMAIN listeners, Live(w), Kill(w),
           wire' = IF sub[w] # "no" THEN [Rest(s) EXCEPT ![w] = Append(@, [op |-> "disconnect"])] ELSE Rest(s),
           UNCHANGED <<client, csid, asid, link, joinedDead, sub, goal, http>>
    PROVE  Structure'
<1>1. /\ DOMAIN listeners' = DOMAIN listeners \ {w}
      /\ \A v \in DOMAIN listeners : v # w => listeners'[v] = listeners[v]
      /\ \A t : HeardBy(t)' = HeardBy(t) \ {w}
      /\ DOMAIN workers' = DOMAIN workers
      /\ workers'[w].kind = workers[w].kind /\ ~workers'[w].live
      /\ \A v \in DOMAIN workers : v # w => workers'[v] = workers[v]
  BY Killed DEF Live
<1>2. /\ \A v, kind : IsA(v, kind)' <=> IsA(v, kind)
      /\ \A v : Live(v)' <=> Live(v) /\ v # w
      /\ \A c \in Client : Own(c)' <=> Own(c)
  BY <1>1 DEF IsA, Live, Own
<1>3. HeardBy(s)' = {} /\ \A t : t # s => HeardBy(t)' = HeardBy(t)
  <2>1. \A t : t # s => w \notin HeardBy(t)
    BY DEF HeardBy, LastOne
  <2>. QED BY <1>1, <2>1
<1>4. /\ inbox'[w] = <<>> /\ down'[w] = <<>>
      /\ \A v \in Wid : v # w => inbox'[v] = inbox[v] /\ down'[v] = down[v]
  BY DEF Kill, TypeOK
<1>5. s # w
  <2>1. s \in Wid => ~Live(s)
    BY ByeRead
  <2>. QED BY <2>1, Sockets
<1>6. /\ wire[s] = <<Bye>> /\ wire'[s] = <<>>
      /\ \A t \in Socket : t \notin {s, w} => wire'[t] = wire[t]
      /\ sub[w] = "no" => wire'[w] = wire[w]
      /\ sub[w] # "no" => wire'[w] = Append(wire[w], Bye)
      /\ Append(<<Change>>, Bye) = <<Change, Bye>> /\ <<Change, Bye>> # <<Change>>
  <2>0. Append(<<Change>>, Bye) = <<Change, Bye>> /\ <<Change, Bye>> # <<Change>>
    BY TwoMessages
  <2>1. wire[s] = <<Bye>> /\ Rest(s)[s] = <<>> /\ \A t \in Socket : t # s => Rest(s)[t] = wire[t]
    BY ByeRead
  <2>2. Rest(s) \in [Socket -> Seq(Message)] /\ w \in Socket
    BY ReadMessage, Sockets
  <2>. QED BY <1>5, <2>0, <2>1, <2>2 DEF Bye
<1>7. Clients'
  <2>1. ASSUME NEW c \in Client PROVE ClientWire(c)' /\ ClientNames(c)' /\ ClientListed(c)'
    <3>1. CASE c = s
      BY <1>2, <1>3, <1>6, <3>1, ByeClient
    <3>2. CASE c # s
      <4>1. wire'[c] = wire[c] /\ HeardBy(c)' = HeardBy(c)
        BY <1>3, <1>6, <3>2, Sockets
      <4>. QED BY <1>2, <4>1, ClientKept DEF Structure, Clients
    <3>. QED BY <3>1, <3>2
  <2>. QED BY <2>1 DEF Clients
<1>8. Workers'
  <2>1. ASSUME NEW v \in Wid PROVE WorkerNames(v)'
    <3>1. inbox'[v] # <<>> => Live(v)'
      BY <1>2, <1>4 DEF Structure, Workers, WorkerNames
    <3>. QED BY <1>2, <3>1, WorkerNamesKept DEF Structure, Workers
  <2>2. ASSUME NEW v \in Wid PROVE SocketListed(v)'
    <3>1. CASE v = s
      <4>1. ~Live(v)'
        BY <1>2, <3>1, ByeRead
      <4>. QED BY <1>3, <1>4, <1>5, <1>6, <3>1, <4>1, ByeSocket
    <3>2. CASE v \notin {s, w}
      <4>1. wire'[v] = wire[v] /\ HeardBy(v)' = HeardBy(v) /\ down'[v] = down[v] /\ (Live(v)' <=> Live(v))
        BY <1>2, <1>3, <1>4, <1>6, <3>2, Sockets
      <4>. QED BY <4>1, SocketListedKept DEF Structure, Workers
    <3>3. CASE v = w
      <4>1. SocketListed(w) /\ wire[w] \in {<<>>, <<Change>>}
        BY DEF Structure, Workers, SocketListed
      <4>2. HeardBy(w)' = HeardBy(w) /\ down'[w] = <<>> /\ ~Live(w)'
        BY <1>2, <1>3, <1>4, <1>5
      <4>3. CASE sub[w] = "no"
        BY <1>6, <3>3, <4>1, <4>2, <4>3, ByeNoChange, OneMessage DEF SocketListed
      <4>4. CASE sub[w] # "no" /\ wire[w] = <<>>
        <5>1. wire'[w] = <<Bye>>
          BY <1>6, <4>4, OneMessage
        <5>2. <<Bye>> # <<Change>>
          BY ByeNoChange DEF Change1
        <5>. QED BY <3>3, <4>1, <4>2, <4>4, <5>1, <5>2, ByeNoChange DEF SocketListed
      <4>5. CASE sub[w] # "no" /\ wire[w] = <<Change>>
        <5>1. wire'[w] = <<Change, Bye>> /\ <<Change, Bye>> # <<Change>>
          BY <1>6, <4>5
        <5>2. sub[w] = "asked" /\ HeardBy(w) = {}
          BY <4>1, <4>5 DEF SocketListed, Change1
        <5>. QED BY <3>3, <4>1, <4>2, <5>1, <5>2, ByeNoChange DEF SocketListed, Change1
      <4>. QED BY <4>1, <4>3, <4>4, <4>5
    <3>. QED BY <3>1, <3>2, <3>3
  <2>3. ASSUME NEW v \in Wid PROVE FoundedBy(v)'
    <3>1. FoundedBy(v) /\ (IsA(v, "as") => v - 1 \in Wid)
      BY WorkerIds DEF Structure, Workers, WorkerNames
    <3>2. ASSUME NEW u \in Wid, wire[u] \in Change1 PROVE wire'[u] \in Change1
      <4>1. CASE u = w
        <5>1. wire[w] = <<Change>> /\ sub[w] # "no"
          BY <3>2, <4>1, ByeNoChange DEF Structure, Workers, SocketListed
        <5>2. wire'[w] = <<Change, Bye>>
          BY <1>6, <5>1
        <5>. QED BY <4>1, <5>2 DEF Change1
      <4>2. CASE u # w
        <5>1. u # s
          BY <1>6, <3>2, ByeNoChange
        <5>. QED BY <1>6, <3>2, <4>2, <5>1, Sockets
      <4>. QED BY <4>1, <4>2
    <3>3. Live(v)' /\ listeners[v] # {} => listeners'[v] # {}
      BY <1>1, <1>2 DEF Structure, RunnersListed, Live
    <3>. QED BY <1>2, <3>1, <3>2, <3>3, ByeNoChange DEF FoundedBy
  <2>. QED BY <2>1, <2>2, <2>3 DEF Workers
<1>9. SubscribesOnce'
  BY <1>2, <1>4, SubscribesOnceKept
<1>10. ListsAlive' /\ RunnersListed'
  <2>1. ListsAlive'
    BY <1>1, <1>2 DEF Structure, ListsAlive
  <2>2. ASSUME NEW v \in DOMAIN workers, Live(v), v # w
        PROVE  v \in DOMAIN listeners' /\ (workers'[v].kind = "cs" => listeners'[v] # {})
    <3>1. v \in DOMAIN listeners /\ (workers[v].kind = "cs" => listeners[v] # {})
      BY <2>2 DEF Structure, RunnersListed
    <3>. QED BY <1>1, <2>2, <3>1
  <2>3. RunnersListed'
    BY <1>1, <1>2, <2>2 DEF RunnersListed
  <2>. QED BY <2>1, <2>3
<1>. QED BY <1>7, <1>8, <1>9, <1>10 DEF Structure

LEMMA DisconnectStructure ==
    ASSUME TypeOK, Structure, NEW s \in Socket, Disconnect(s), up'
    PROVE  Structure'
<1>1. PICK w : w = Min(HeardBy(s))
  OBVIOUS
<1>2. w \in Wid /\ HeardBy(s) = {w} /\ w \in DOMAIN listeners /\ w \in DOMAIN workers /\ s \in listeners[w]
  BY <1>1, HeardByOne DEF Disconnect, HeardBy
<1>3. Reads(s, "disconnect")
  BY DEF Disconnect
<1>4. ~(LastOne(w, s) /\ ~workers[w].live)
  BY <1>1 DEF Disconnect, Dies
<1>5. UNCHANGED <<client, csid, asid, link, joinedDead, sub, goal, http>>
  BY <1>1, <1>4 DEF Disconnect, browsers
<1>6. CASE LastOne(w, s)
  <2>1. /\ Kill(w) /\ Live(w)
        /\ wire' = IF sub[w] # "no" THEN [Rest(s) EXCEPT ![w] = Append(@, [op |-> "disconnect"])] ELSE Rest(s)
    BY <1>1, <1>2, <1>4, <1>6 DEF Disconnect, Live
  <2>. QED BY <1>2, <1>3, <1>5, <1>6, <2>1, KillStructure
<1>7. CASE ~LastOne(w, s)
  <2>1. /\ listeners' = [listeners EXCEPT ![w] = @ \ {s}] /\ wire' = Rest(s)
        /\ UNCHANGED <<workers, inbox, down>>
    BY <1>1, <1>7 DEF Disconnect
  <2>. QED BY <1>2, <1>3, <1>5, <1>7, <2>1, UnregisterStructure
<1>. QED BY <1>6, <1>7

\* A csworker's socket is registered to the asworker that it is to subscribe to.
LEMMA ListenStructure ==
    ASSUME TypeOK, Structure, NEW w \in Wid, Listen(w)
    PROVE  Structure'
<1>1. PICK a : a = goal[w].as
  OBVIOUS
<1>2. /\ Reads(w, "changeListener") /\ wire' = Rest(w)
      /\ IF Live(a) THEN Register(a, w) ELSE UNCHANGED listeners
      /\ down' = IF Live(w) THEN [down EXCEPT ![w] = Append(@, IF Live(a) THEN "201" ELSE "400")] ELSE down
      /\ UNCHANGED <<client, link, workers, csid, asid, joinedDead, inbox, sub, goal, http>>
  BY <1>1 DEF Listen, browsers
<1>3. /\ wire[w] # <<>> /\ Head(wire[w]) = Change /\ Tail(wire[w]) = wire'[w]
      /\ \A t \in Socket : t # w => wire'[t] = wire[t]
  BY <1>2, ReadMessage, Sockets DEF Change
<1>4. SocketListed(w)
  BY DEF Structure, Workers
<1>5. wire[w] \in Change1
  <2>1. <<Bye>>[1] = Bye /\ Head(<<Bye>>) = Bye /\ Bye # Change
    BY OneMessage DEF Bye, Change
  <2>. QED BY <1>3, <1>4, <2>1 DEF SocketListed
<1>6. sub[w] = "asked" /\ down[w] = <<>> /\ HeardBy(w) = {} /\ IsA(a, "as")
  BY <1>1, <1>4, <1>5 DEF SocketListed, Structure, Workers, WorkerNames
<1>7. wire'[w] \in {<<>>, <<Bye>>} /\ (Live(w) => wire'[w] = <<>>) /\ (wire'[w] = <<>> => Live(w))
  <2>1. Tail(<<Change>>) = <<>> /\ Tail(<<Change, Bye>>) = <<Bye>> /\ <<Bye>> # <<>> /\ <<Change, Bye>> # <<Change>>
    BY OneMessage, TwoMessages
  <2>2. wire[w] = <<Change>> \/ wire[w] = <<Change, Bye>>
    BY <1>5 DEF Change1
  <2>3. wire[w] = <<Change>> <=> Live(w)
    BY <1>4, <2>1, <2>2, OneMessage, TwoMessages DEF SocketListed
  <2>. QED BY <1>3, <2>1, <2>2, <2>3
<1>8. /\ \A v, kind : IsA(v, kind)' <=> IsA(v, kind)
      /\ \A v : Live(v)' <=> Live(v)
      /\ \A c \in Client : Own(c)' <=> Own(c)
  BY <1>2 DEF IsA, Live, Own
<1>9. /\ \A t \in Socket : t # w => HeardBy(t)' = HeardBy(t)
      /\ Live(a) => /\ HeardBy(w)' = {a} /\ listeners'[a] # {} /\ DOMAIN listeners' = DOMAIN listeners \cup {a}
                    /\ \A v \in DOMAIN listeners : listeners'[v] = listeners[v] \/ v = a
      /\ ~Live(a) => HeardBy(w)' = {} /\ listeners' = listeners
  <2>1. CASE Live(a)
    <3>1. Register(a, w) /\ a \in Wid /\ w \in Socket
      BY <1>2, <2>1, WorkerIds, Sockets
    <3>2. /\ DOMAIN listeners' = DOMAIN listeners \cup {a}
          /\ listeners'[a] = (IF a \in DOMAIN listeners THEN listeners[a] ELSE {}) \cup {w}
          /\ \A v \in DOMAIN listeners : v # a => listeners'[v] = listeners[v]
          /\ HeardBy(w)' = HeardBy(w) \cup {a}
          /\ \A t \in Socket : t # w => HeardBy(t)' = HeardBy(t)
      BY <3>1, Registered
    <3>. QED BY <1>6, <2>1, <3>2
  <2>2. CASE ~Live(a)
    BY <1>2, <1>6, <2>2 DEF HeardBy
  <2>. QED BY <2>1, <2>2
<1>10. \A v \in DOMAIN listeners : v \in DOMAIN listeners' /\ (listeners[v] # {} => listeners'[v] # {})
  BY <1>9
<1>11. Clients'
  <2>1. ASSUME NEW c \in Client PROVE ClientWire(c)' /\ ClientNames(c)' /\ ClientListed(c)'
    <3>1. wire'[c] = wire[c] /\ HeardBy(c)' = HeardBy(c)
      BY <1>3, <1>9, Sockets
    <3>. QED BY <1>2, <1>8, <3>1, ClientKept DEF Structure, Clients
  <2>. QED BY <2>1 DEF Clients
<1>12. down'[w] \in {<<>>, <<"201">>, <<"400">>} /\ \A v \in Wid : v # w => down'[v] = down[v]
  <2>1. Append(<<>>, "201") = <<"201">> /\ Append(<<>>, "400") = <<"400">>
    OBVIOUS
  <2>. QED BY <1>2, <1>6, <2>1 DEF TypeOK
<1>13. "201" \in Range(down'[w]) => Live(a)
  <2>1. ~Live(a) => down'[w] \in {<<>>, <<"400">>}
    <3>1. Append(<<>>, "400") = <<"400">>
      OBVIOUS
    <3>. QED BY <1>2, <1>6, <3>1 DEF TypeOK
  <2>2. "201" \notin Range(<<>>) /\ "201" \notin Range(<<"400">>)
    BY DEF Range
  <2>. QED BY <2>1, <2>2
<1>14. Workers'
  <2>1. ASSUME NEW v \in Wid PROVE WorkerNames(v)'
    <3>1. inbox'[v] # <<>> => Live(v)'
      BY <1>2, <1>8 DEF Structure, Workers, WorkerNames
    <3>. QED BY <1>2, <1>8, <3>1, WorkerNamesKept DEF Structure, Workers
  <2>2. ASSUME NEW v \in Wid PROVE SocketListed(v)'
    <3>1. CASE v = w
      <4>1. \A b \in HeardBy(w)' : b = a
        BY <1>9
      <4>2. Live(w) \/ wire'[w] = <<Bye>>
        BY <1>7
      <4>3. sub'[w] = "asked" /\ goal'[w].as = a /\ (Live(w)' <=> Live(w))
        BY <1>1, <1>2, <1>6, <1>8
      <4>4. "201" \in Range(down'[w]) => a \in HeardBy(w)'
        BY <1>9, <1>13
      <4>5. Range(down[w])' = Range(down'[w])
        BY DEF Range
      <4>6. wire'[w] \in {<<>>, <<Bye>>} /\ wire'[w] \notin Change1 /\ wire'[w] # <<Change>>
            /\ (Live(w) => wire'[w] = <<>>)
        <5>1. <<>> # <<Change>> /\ <<Bye>> # <<Change>>
          BY OneMessage, ByeNoChange DEF Change1
        <5>. QED BY <1>7, <5>1, ByeNoChange
      <4>. QED BY <3>1, <4>1, <4>2, <4>3, <4>4, <4>5, <4>6, ByeNoChange DEF SocketListed
    <3>2. CASE v # w
      <4>1. wire'[v] = wire[v] /\ HeardBy(v)' = HeardBy(v) /\ down'[v] = down[v]
        BY <1>3, <1>9, <1>12, <3>2, Sockets
      <4>. QED BY <1>2, <1>8, <4>1, SocketListedKept DEF Structure, Workers
    <3>. QED BY <3>1, <3>2
  <2>3. ASSUME NEW v \in Wid PROVE FoundedBy(v)'
    <3>1. FoundedBy(v) /\ (IsA(v, "as") => v - 1 \in Wid)
      BY WorkerIds DEF Structure, Workers, WorkerNames
    <3>2. Live(v) => v \in DOMAIN listeners
      BY DEF Structure, RunnersListed, Live
    <3>3. CASE v - 1 = w
      <4>1. IsA(v, "as") /\ Live(v) => listeners'[v] # {}
        <5>1. IsA(v, "as") => v = a
          BY <1>1, <1>6, <3>1, <3>3 DEF FoundedBy
        <5>. QED BY <1>9, <5>1
      <4>. QED BY <1>2, <1>8, <3>1, <4>1 DEF FoundedBy
    <3>4. CASE v - 1 # w
      <4>1. IsA(v, "as") => wire'[v - 1] = wire[v - 1]
        BY <1>3, <3>1, <3>4, Sockets
      <4>. QED BY <1>2, <1>8, <1>10, <3>1, <3>2, <4>1, FoundedKept
    <3>. QED BY <3>3, <3>4
  <2>. QED BY <2>1, <2>2, <2>3 DEF Workers
<1>15. SubscribesOnce'
  BY <1>2, <1>8, SubscribesOnceKept
<1>16. ListsAlive'
  <2>1. Live(a) => a \in DOMAIN workers
    BY DEF Live
  <2>. QED BY <1>2, <1>8, <1>9, <2>1 DEF Structure, ListsAlive
<1>17. RunnersListed'
  BY <1>2, <1>8, <1>10 DEF Structure, RunnersListed
<1>. QED BY <1>11, <1>14, <1>15, <1>16, <1>17 DEF Structure

\* The client whose hello has been read is registered to its csworker.
LEMMA HelloClient ==
    ASSUME TypeOK, Structure, NEW c \in Client, NEW op \in {"createSession", "joinSession"}, Reads(c, op),
           NEW cw \in Wid, wire' = Rest(c), Told(c), csid'[c] = cw, link' = link, HeardBy(c)' = {cw},
           IsA(cw, "cs")', asid'[c] # 0 => IsA(asid[c], "as")',
           \A w, kind : IsA(w, kind) => IsA(w, kind)'
    PROVE  ClientWire(c)' /\ ClientNames(c)' /\ ClientListed(c)'
<1>1. /\ client[c] \in {"asked", "left"}
      /\ client[c] = "asked" => wire'[c] = <<>>
      /\ client[c] = "left" => wire'[c] = <<Bye>>
  BY ReadHello, ReadMessage, Sockets, SMTT(20), ZenonT(20)
<1>2. /\ client[c] = "asked" => client'[c] = "joined"
      /\ client[c] = "left" => client'[c] = "left"
  BY DEF Told, TypeOK
<1>3. cw # 0
  BY DEF Wid
<1>4. Bye' = Bye /\ <<>> # <<Hello(c)', Bye>> /\ <<Bye>> # <<Hello(c)', Bye>>
  BY TwoMessages DEF Bye
<1>5. ClientWire(c)'
  BY <1>1, <1>2, <1>3, <1>4 DEF ClientWire
<1>6. ClientNames(c)'
  <2>1. IsA(csid[c], "cs")'
    BY DEF IsA
  <2>2. ClientNames(c)
    BY DEF Structure, Clients
  <2>. QED BY <2>1, <2>2 DEF ClientNames
<1>7. ClientListed(c)'
  BY <1>1, <1>2, <1>4 DEF ClientListed
<1>. QED BY <1>5, <1>6, <1>7

\* A client whose hello has not been read is registered nowhere.
LEMMA HelloUnheard ==
    ASSUME TypeOK, Structure, NEW c \in Client, NEW op \in {"createSession", "joinSession"}, Reads(c, op)
    PROVE  HeardBy(c) = {}
<1>1. client[c] \in {"asked", "left"} /\ Hello(c) # Bye
  BY ReadHello DEF Bye
<1>2. client[c] = "left" => wire[c] # <<Bye>>
  <2>1. client[c] = "left" => wire[c] = <<Hello(c), Bye>> /\ <<Hello(c), Bye>> # <<Bye>>
    BY ReadHello, TwoMessages
  <2>. QED BY <2>1
<1>3. client[c] = "asked" => wire[c] # <<Bye>>
  <2>1. client[c] = "asked" => wire[c] = <<Hello(c)>>
    BY ReadHello
  <2>2. <<Hello(c)>>[1] = Hello(c) /\ <<Bye>>[1] = Bye
    BY OneMessage
  <2>. QED BY <1>1, <2>1, <2>2
<1>. QED BY <1>1, <1>2, <1>3 DEF Structure, Clients, ClientListed

\* A client joins with a csworker that runs already, or did.
LEMMA JoinScreenStructure ==
    ASSUME TypeOK, Structure, NEW c \in Client, JoinScreen(c)
    PROVE  Structure'
<1>1. PICK cw : cw = link[c].cs
  OBVIOUS
<1>2. /\ Reads(c, "joinSession") /\ link[c].as = 0 /\ wire' = Rest(c) /\ Register(cw, c) /\ Told(c)
      /\ joinedDead' = joinedDead \cup {w \in {cw} : ~Live(w)}
      /\ csid' = [csid EXCEPT ![c] = cw] /\ asid' = [asid EXCEPT ![c] = 0]
      /\ UNCHANGED <<workers, link, inbox, sub, goal, down, http>>
  BY <1>1 DEF JoinScreen, Trusts, process
<1>3. /\ cw \in Wid /\ IsA(cw, "cs") /\ csid[c] = 0 /\ client[c] \in {"asked", "left"}
  BY <1>1, <1>2, ReadHello
<1>4. \A t \in Socket : t # c => wire'[t] = wire[t]
  BY <1>2, ReadMessage, Sockets
<1>5. /\ \A v, kind : IsA(v, kind)' <=> IsA(v, kind)
      /\ \A v : Live(v)' <=> Live(v)
      /\ \A v : Range(down[v])' = Range(down[v])
  BY <1>2 DEF IsA, Live, Range
<1>6. HeardBy(c) = {}
  BY <1>2, HelloUnheard
<1>7. /\ DOMAIN listeners' = DOMAIN listeners \cup {cw} /\ listeners'[cw] # {}
      /\ \A v \in DOMAIN listeners : v # cw => listeners'[v] = listeners[v]
      /\ HeardBy(c)' = {cw} /\ \A t \in Socket : t # c => HeardBy(t)' = HeardBy(t)
  <2>1. /\ DOMAIN listeners' = DOMAIN listeners \cup {cw}
        /\ listeners'[cw] = (IF cw \in DOMAIN listeners THEN listeners[cw] ELSE {}) \cup {c}
        /\ \A v \in DOMAIN listeners : v # cw => listeners'[v] = listeners[v]
        /\ HeardBy(c)' = HeardBy(c) \cup {cw}
        /\ \A t \in Socket : t # c => HeardBy(t)' = HeardBy(t)
    BY <1>2, <1>3, Registered, Sockets
  <2>. QED BY <1>6, <2>1
<1>8. \A v \in DOMAIN listeners : v \in DOMAIN listeners' /\ (listeners[v] # {} => listeners'[v] # {})
  BY <1>7
<1>9. \A d \in Client : d # c => client'[d] = client[d] /\ csid'[d] = csid[d] /\ asid'[d] = asid[d]
  BY <1>2 DEF Told, TypeOK
<1>10. csid'[c] = cw /\ asid'[c] = 0
  BY <1>2 DEF TypeOK
<1>11. Clients'
  <2>1. ASSUME NEW d \in Client PROVE ClientWire(d)' /\ ClientNames(d)' /\ ClientListed(d)'
    <3>1. CASE d = c
      BY <1>2, <1>3, <1>5, <1>7, <1>10, <3>1, HelloClient
    <3>2. CASE d # c
      <4>1. wire'[d] = wire[d] /\ HeardBy(d)' = HeardBy(d)
        BY <1>4, <1>7, <3>2, Sockets
      <4>. QED BY <1>2, <1>5, <1>9, <3>2, <4>1, ClientKept DEF Structure, Clients
    <3>. QED BY <3>1, <3>2
  <2>. QED BY <2>1 DEF Clients
<1>12. Workers'
  <2>1. ASSUME NEW v \in Wid PROVE WorkerNames(v)'
    <3>1. inbox'[v] # <<>> => Live(v)'
      BY <1>2, <1>5 DEF Structure, Workers, WorkerNames
    <3>. QED BY <1>2, <1>5, <3>1, WorkerNamesKept DEF Structure, Workers
  <2>2. ASSUME NEW v \in Wid PROVE SocketListed(v)'
    <3>1. wire'[v] = wire[v] /\ HeardBy(v)' = HeardBy(v)
      BY <1>4, <1>7, Sockets
    <3>. QED BY <1>2, <1>5, <3>1, SocketListedKept DEF Structure, Workers
  <2>3. ASSUME NEW v \in Wid PROVE FoundedBy(v)'
    <3>1. FoundedBy(v) /\ (IsA(v, "as") => v - 1 \in Wid)
      BY WorkerIds DEF Structure, Workers, WorkerNames
    <3>2. Live(v) => v \in DOMAIN listeners
      BY DEF Structure, RunnersListed, Live
    <3>3. IsA(v, "as") => wire'[v - 1] = wire[v - 1]
      BY <1>4, <3>1, Sockets
    <3>. QED BY <1>2, <1>5, <1>8, <3>1, <3>2, <3>3, FoundedKept
  <2>. QED BY <2>1, <2>2, <2>3 DEF Workers
<1>13. SubscribesOnce'
  <2>1. ~Own(c) /\ ~Own(c)'
    BY <1>2 DEF Own
  <2>2. \A d \in Client : d # c => (Own(d)' <=> Own(d))
    BY <1>2, <1>9 DEF Own
  <2>3. \A d \in Client : Own(d)' <=> Own(d)
    BY <2>1, <2>2
  <2>4. \A d \in Client : Own(d) => csid'[d] = csid[d] /\ link'[d] = link[d]
                                    /\ (client'[d] = "joined" => client[d] = "joined")
    BY <1>2, <1>9, <2>1
  <2>. QED BY <1>2, <1>5, <2>3, <2>4, SubscribesOnceKept
<1>14. ListsAlive'
  <2>1. cw \in DOMAIN workers /\ (Live(cw) \/ cw \in joinedDead') /\ joinedDead \subseteq joinedDead'
    BY <1>2, <1>3 DEF IsA
  <2>. QED BY <1>2, <1>5, <1>7, <2>1 DEF Structure, ListsAlive
<1>15. RunnersListed'
  BY <1>2, <1>5, <1>8 DEF Structure, RunnersListed
<1>. QED BY <1>11, <1>12, <1>13, <1>14, <1>15 DEF Structure

\* A client joins with a csworker of its own, new, and an asworker right after it or none.
JoinsWith(c, new, cw) ==
    /\ cw \in new /\ new \subseteq Wid /\ new \cap DOMAIN workers = {}
    /\ DOMAIN workers' = DOMAIN workers \cup new
    /\ \A v \in DOMAIN workers : workers'[v] = workers[v]
    /\ \A v \in new : /\ workers'[v].live /\ workers'[v].kind = (IF v = cw THEN "cs" ELSE "as")
                      /\ v # cw => v = cw + 1
    /\ DOMAIN listeners' = DOMAIN listeners \cup new
    /\ \A v \in new : listeners'[v] = (IF v = cw THEN {c} ELSE {})
    /\ \A v \in DOMAIN listeners : listeners'[v] = listeners[v]
    /\ joinedDead \subseteq joinedDead' /\ Told(c) /\ wire' = Rest(c)
    /\ csid' = [csid EXCEPT ![c] = cw] /\ \A d \in Client : d # c => asid'[d] = asid[d]
    /\ UNCHANGED <<link, sub, goal, down>>

LEMMA NewWorkers ==
    ASSUME TypeOK, Structure, NEW c \in Client, NEW op \in {"createSession", "joinSession"}, Reads(c, op),
           NEW new, NEW cw, JoinsWith(c, new, cw),
           asid'[c] # 0 => IsA(asid[c], "as")',
           \A v \in Wid : inbox'[v] # <<>> => Live(v)',
           SubscribesOnce'
    PROVE  Structure'
<1>. USE DEF JoinsWith
<1>1. /\ \A v, kind : IsA(v, kind) => IsA(v, kind)'
      /\ \A v \in DOMAIN workers : \A kind : IsA(v, kind)' => IsA(v, kind)
      /\ \A v : Live(v)' <=> Live(v) \/ v \in new
      /\ IsA(cw, "cs")' /\ cw \in Wid
  BY DEF IsA, Live
<1>2. \A v \in new : sub[v] = "no" /\ wire[v] = <<>> /\ down[v] = <<>>
  BY DEF Structure, Workers, WorkerNames, SocketListed, IsA
<1>3. \A v \in new : v \notin DOMAIN listeners
  BY DEF Structure, ListsAlive
<1>4. \A t \in Socket : t # c => wire'[t] = wire[t]
  BY ReadMessage, Sockets
<1>5. HeardBy(c)' = {cw} /\ \A t \in Socket : t # c => HeardBy(t)' = HeardBy(t)
  <2>1. HeardBy(c) = {}
    BY HelloUnheard
  <2>. QED BY <1>3, <2>1 DEF HeardBy
<1>6. /\ \A d \in Client : d # c => client'[d] = client[d] /\ csid'[d] = csid[d]
      /\ csid'[c] = cw
  BY DEF Told, TypeOK
<1>7. Clients'
  <2>1. ASSUME NEW d \in Client PROVE ClientWire(d)' /\ ClientNames(d)' /\ ClientListed(d)'
    <3>1. CASE d = c
      BY <1>1, <1>5, <1>6, <3>1, HelloClient
    <3>2. CASE d # c
      <4>1. wire'[d] = wire[d] /\ HeardBy(d)' = HeardBy(d)
        BY <1>4, <1>5, <3>2, Sockets
      <4>. QED BY <1>1, <1>6, <3>2, <4>1, ClientKept DEF Structure, Clients
    <3>. QED BY <3>1, <3>2
  <2>. QED BY <2>1 DEF Clients
<1>8. Workers'
  <2>1. ASSUME NEW v \in Wid PROVE WorkerNames(v)'
    <3>1. WorkerNames(v)
      BY DEF Structure, Workers
    <3>2. IsA(v, "as")' => IsA(v - 1, "cs")'
      <4>1. CASE v \in DOMAIN workers
        BY <1>1, <3>1, <4>1 DEF WorkerNames
      <4>2. CASE v \in new /\ v # cw
        <5>1. v - 1 = cw
          BY <1>1, <4>2 DEF Wid
        <5>. QED BY <1>1, <5>1
      <4>3. CASE v = cw
        BY <4>3 DEF IsA
      <4>. QED BY <4>1, <4>2, <4>3 DEF IsA
    <3>3. sub'[v] # "no" => /\ IsA(v, "cs")' /\ IsA(goal[v].as, "as")'
                            /\ goal'[v].cs # 0 => IsA(goal[v].cs, "cs")'
      BY <1>1, <3>1 DEF WorkerNames
    <3>. QED BY <3>2, <3>3 DEF WorkerNames
  <2>2. ASSUME NEW v \in Wid PROVE SocketListed(v)'
    <3>1. wire'[v] = wire[v] /\ HeardBy(v)' = HeardBy(v)
      BY <1>4, <1>5, Sockets
    <3>2. CASE v \notin new
      <4>1. (Live(v)' <=> Live(v)) /\ Range(down'[v]) = Range(down[v])
        BY <1>1, <3>2
      <4>. QED BY <3>1, <4>1, SocketListedKept DEF Structure, Workers
    <3>3. CASE v \in new
      <4>1. sub'[v] = "no" /\ wire'[v] = <<>> /\ down'[v] = <<>> /\ HeardBy(v)' = {}
        BY <1>2, <3>1, <3>3 DEF Structure, Workers, SocketListed
      <4>2. "201" \notin Range(down[v])'
        BY <4>1 DEF Range
      <4>. QED BY <4>1, <4>2, ByeNoChange, OneMessage DEF SocketListed
    <3>. QED BY <3>2, <3>3
  <2>3. ASSUME NEW v \in Wid PROVE FoundedBy(v)'
    <3>1. FoundedBy(v) /\ (IsA(v, "as") => v - 1 \in Wid)
      BY WorkerIds DEF Structure, Workers, WorkerNames
    <3>2. CASE v \in DOMAIN workers
      <4>1. IsA(v, "as")' => IsA(v, "as") /\ wire'[v - 1] = wire[v - 1]
        BY <1>1, <1>4, <3>1, <3>2, Sockets
      <4>2. Live(v)' => Live(v) /\ (listeners[v] # {} => listeners'[v] # {})
        BY <1>1, <3>2 DEF Structure, RunnersListed, Live
      <4>. QED BY <3>1, <4>1, <4>2, FoundedKept
    <3>3. CASE v \in new /\ v # cw
      <4>1. v - 1 = cw
        BY <1>1, <3>3 DEF Wid
      <4>. QED BY <1>2, <4>1 DEF FoundedBy
    <3>4. CASE ~IsA(v, "as")'
      BY <3>4 DEF FoundedBy
    <3>. QED BY <3>2, <3>3, <3>4 DEF IsA
  <2>. QED BY <2>1, <2>2, <2>3 DEF Workers
<1>9. ListsAlive'
  BY <1>1 DEF Structure, ListsAlive
<1>10. RunnersListed'
  <2>1. ASSUME NEW v \in DOMAIN workers', Live(v)'
        PROVE  v \in DOMAIN listeners' /\ (workers'[v].kind = "cs" => listeners'[v] # {})
    <3>1. CASE v \in new
      BY <3>1
    <3>2. CASE v \in DOMAIN workers /\ Live(v)
      BY <3>2 DEF Structure, RunnersListed
    <3>. QED BY <1>1, <2>1, <3>1, <3>2
  <2>. QED BY <2>1 DEF RunnersListed
<1>. QED BY <1>7, <1>8, <1>9, <1>10 DEF Structure

\* New workers change nothing for the subscriptions under way.
LEMMA OldSubscriptions ==
    ASSUME TypeOK, Structure, NEW c \in Client, csid[c] = 0,
           NEW new \in SUBSET Wid, NEW cw \in new, new \cap DOMAIN workers = {},
           Len(workers) + 1 = cw, DOMAIN workers' = DOMAIN workers \cup new,
           \A v \in DOMAIN workers : workers'[v] = workers[v],
           workers'[cw].kind = "cs",
           \A d \in Client : d # c => client'[d] = client[d] /\ csid'[d] = csid[d],
           csid'[c] = cw, UNCHANGED <<link, sub, http>>
    PROVE  /\ \A d \in Client : d # c => GuestOnce(d)'
           /\ \A d, e \in Client : Own(d)' /\ Own(e)' /\ csid'[d] = csid'[e] => d = e
           /\ \A r \in http' : SentOnce(r)'
           /\ \A w \in Wid : \A i \in DOMAIN inbox'[w] :
                 w # cw /\ inbox'[w] = inbox[w] => QueuedOnce(w, i)'
<1>1. /\ \A v, kind : IsA(v, kind) => IsA(v, kind)'
      /\ \A v \in DOMAIN workers : \A kind : IsA(v, kind)' => IsA(v, kind)
      /\ ~IsA(cw, "as")'
  BY DEF IsA
<1>2. /\ \A v \in DOMAIN workers : IsA(v + 1, "as")' => IsA(v + 1, "as")
      /\ \A v \in DOMAIN workers : v # cw
  <2>1. ASSUME NEW v \in DOMAIN workers, IsA(v + 1, "as")' PROVE IsA(v + 1, "as")
    <3>1. v + 1 \in DOMAIN workers \/ v + 1 = cw
      BY WorkerIds
    <3>. QED BY <1>1, <2>1, <3>1
  <2>. QED BY <2>1
<1>3. \A d \in Client : csid[d] # 0 => csid[d] \in DOMAIN workers
  BY DEF Structure, Clients, ClientNames, IsA
<1>4. \A d \in Client : d # c => (Own(d)' <=> Own(d))
  BY DEF Own
<1>5. ~Own(c)
  BY DEF Own
<1>6. ASSUME NEW d \in Client, d # c PROVE GuestOnce(d)'
  <2>1. GuestOnce(d) /\ (Own(d) => csid[d] \in DOMAIN workers)
    BY <1>3 DEF Structure, SubscribesOnce, Own
  <2>2. Own(d) => (IsA(csid[d] + 1, "as")' => IsA(csid[d] + 1, "as"))
    <3>1. PICK v : v = csid[d]
      OBVIOUS
    <3>2. Own(d) => (IsA(v + 1, "as")' => IsA(v + 1, "as"))
      BY <1>2, <2>1, <3>1
    <3>3. csid'[d] = v
      BY <1>6, <3>1
    <3>. QED BY <3>1, <3>2, <3>3 DEF IsA
  <2>. QED BY <1>4, <1>6, <2>1, <2>2 DEF GuestOnce
<1>7. \A d, e \in Client : Own(d)' /\ Own(e)' /\ csid'[d] = csid'[e] => d = e
  <2>1. \A d \in Client : d # c /\ Own(d)' => Own(d) /\ csid'[d] = csid[d] /\ csid[d] # cw
    BY <1>2, <1>3, <1>4 DEF Own
  <2>. QED BY <2>1 DEF Structure, SubscribesOnce
<1>8. ASSUME NEW r \in http PROVE SentOnce(r)'
  <2>1. SentOnce(r)
    BY DEF Structure, SubscribesOnce
  <2>2. Subscription(r) => r.by # c /\ (Own(r.by)' <=> Own(r.by)) /\ client'[r.by] = client[r.by]
                           /\ csid'[r.by] = csid[r.by]
    BY <1>4, <1>5, <2>1 DEF SentOnce
  <2>. QED BY <2>1, <2>2 DEF SentOnce, Subscription
<1>9. ASSUME NEW w \in Wid, NEW i \in DOMAIN inbox'[w], w # cw, inbox'[w] = inbox[w], Subscription(inbox'[w][i])
      PROVE  QueuedOnce(w, i)'
  <2>1. QueuedOnce(w, i) /\ Subscription(inbox[w][i])
    BY <1>9 DEF Structure, SubscribesOnce
  <2>2. w \in DOMAIN workers
    BY <2>1 DEF QueuedOnce, IsA
  <2>3. IsA(w + 1, "as")' => IsA(w + 1, "as")
    BY <1>2, <2>2
  <2>4. \A d \in Client : Own(d)' /\ client'[d] = "joined" => csid'[d] # w
    BY <1>4, <1>9, <2>1 DEF QueuedOnce
  <2>5. PICK m : m = inbox[w][i]
    OBVIOUS
  <2>6. IsA(m.goal.as, "as") /\ (m.goal.cs # 0 => IsA(m.goal.cs, "cs"))
    BY <2>1, <2>5 DEF QueuedOnce
  <2>7. IsA(m.goal.as, "as")' /\ (m.goal.cs # 0 => IsA(m.goal.cs, "cs")')
    BY <1>1, <2>6
  <2>8. IsA(inbox[w][i].goal.as, "as")' /\ (inbox'[w][i].goal.cs # 0 => IsA(inbox[w][i].goal.cs, "cs")')
    BY <1>9, <2>5, <2>7 DEF IsA
  <2>9. /\ sub'[w] = "no" /\ IsA(w, "cs")'
        /\ IsA(w + 1, "as")' => inbox'[w][i].goal.as = w + 1
        /\ \A r \in http' : Subscription(r) => r.to # w
        /\ \A j \in DOMAIN inbox'[w] : Subscription(inbox'[w][j]) => i = j
    BY <1>1, <1>9, <2>1, <2>3 DEF QueuedOnce
  <2>. QED BY <2>4, <2>8, <2>9 DEF QueuedOnce, Subscription
<1>10. \A w \in Wid : \A i \in DOMAIN inbox'[w] : w # cw /\ inbox'[w] = inbox[w] => QueuedOnce(w, i)'
  BY <1>9 DEF QueuedOnce, Subscription
<1>. QED BY <1>6, <1>7, <1>8, <1>10

LEMMA CreateSessionStructure ==
    ASSUME TypeOK, Structure, NEW c \in Client, CreateSession(c)
    PROVE  Structure'
<1>1. PICK cw, aw : cw = Len(workers) + 1 /\ aw = Len(workers) + 2
  OBVIOUS
<1>2. PICK q : q = [kind |-> "subscribe", by |-> c, to |-> cw, goal |-> [cs |-> 0, as |-> aw], n |-> 0]
  OBVIOUS
<1>3. /\ Reads(c, "createSession") /\ aw \in Wid /\ wire' = Rest(c)
      /\ workers' = workers \o << [kind |-> "cs", live |-> TRUE], [kind |-> "as", live |-> TRUE] >>
      /\ listeners' = With(With(listeners, cw, {c}), aw, {})
      /\ csid' = [csid EXCEPT ![c] = cw] /\ asid' = [asid EXCEPT ![c] = aw]
      /\ inbox' = [inbox EXCEPT ![cw] = <<q>>] /\ Told(c)
      /\ UNCHANGED <<joinedDead, link, sub, goal, down, http>>
  BY <1>1, <1>2 DEF CreateSession
<1>4. /\ Len(workers) \in Nat /\ DOMAIN workers = 1 .. Len(workers) /\ cw \in Wid /\ aw = cw + 1
      /\ cw \notin DOMAIN workers /\ aw \notin DOMAIN workers /\ cw # aw
  <2>1. Len(workers) \in Nat /\ DOMAIN workers = 1 .. Len(workers)
    BY WorkerIds
  <2>2. cw \in Wid /\ aw = cw + 1
    BY <1>1, <1>3, <2>1, SessionsAssumption DEF Wid
  <2>. QED BY <1>1, <2>1, <2>2
<1>5. /\ DOMAIN workers' = DOMAIN workers \cup {cw, aw}
      /\ \A v \in DOMAIN workers : workers'[v] = workers[v]
      /\ workers'[cw] = [kind |-> "cs", live |-> TRUE] /\ workers'[aw] = [kind |-> "as", live |-> TRUE]
  <2>. DEFINE S == [kind : {"cs", "as"}, live : BOOLEAN]
  <2>1. /\ [kind |-> "cs", live |-> TRUE] \in S /\ [kind |-> "as", live |-> TRUE] \in S /\ workers \in Seq(S)
    BY DEF TypeOK
  <2>. HIDE DEF S
  <2>2. DOMAIN workers' = 1 .. Len(workers) + 2
    BY <1>3, <2>1
  <2>3. /\ \A v \in DOMAIN workers : workers'[v] = workers[v]
        /\ workers'[cw] = [kind |-> "cs", live |-> TRUE] /\ workers'[aw] = [kind |-> "as", live |-> TRUE]
    BY <1>1, <1>3, <1>4, <2>1
  <2>. QED BY <1>1, <1>4, <2>2, <2>3
<1>6. PICK new : new = {cw, aw}
  OBVIOUS
<1>7. /\ \A v \in new : workers'[v].live /\ workers'[v].kind = IF v = cw THEN "cs" ELSE "as"
      /\ \A v \in new : v # cw => v = cw + 1
      /\ new \in SUBSET Wid /\ cw \in new /\ new \cap DOMAIN workers = {}
      /\ DOMAIN workers' = DOMAIN workers \cup new
  BY <1>3, <1>4, <1>5, <1>6
<1>8. new \cap DOMAIN listeners = {}
  BY <1>7 DEF Structure, ListsAlive
<1>9. /\ DOMAIN listeners' = DOMAIN listeners \cup new
      /\ \A v \in new : listeners'[v] = IF v = cw THEN {c} ELSE {}
      /\ \A v \in DOMAIN listeners : listeners'[v] = listeners[v]
  <2>1. PICK one : one = With(listeners, cw, {c})
    OBVIOUS
  <2>2. /\ DOMAIN one = DOMAIN listeners \cup {cw} /\ one[cw] = {c}
        /\ \A v \in DOMAIN listeners : v # cw => one[v] = listeners[v]
    BY <2>1 DEF With
  <2>3. listeners' = With(one, aw, {})
    BY <1>3, <2>1
  <2>4. /\ DOMAIN listeners' = DOMAIN one \cup {aw} /\ listeners'[aw] = {}
        /\ \A v \in DOMAIN one : v # aw => listeners'[v] = one[v]
    BY <2>3 DEF With
  <2>. QED BY <1>4, <1>6, <1>8, <2>2, <2>4
<1>10. inbox'[cw] = <<q>> /\ \A v \in Wid : v # cw => inbox'[v] = inbox[v]
  BY <1>3, <1>4 DEF TypeOK
<1>11. \A v, kind : IsA(v, kind) => IsA(v, kind)'
  BY <1>5 DEF IsA
<1>12. \A v \in Wid : inbox'[v] # <<>> => Live(v)'
  <2>1. \A v : Live(v) => Live(v)'
    BY <1>5 DEF Live
  <2>2. Live(cw)'
    BY <1>5 DEF Live
  <2>. QED BY <1>10, <2>1, <2>2 DEF Structure, Workers, WorkerNames
<1>13. asid'[c] # 0 => IsA(asid[c], "as")'
  BY <1>3, <1>5, SMTT(20), ZenonT(20) DEF IsA, TypeOK
<1>14. /\ \A d \in Client : d # c => client'[d] = client[d] /\ csid'[d] = csid[d] /\ asid'[d] = asid[d]
       /\ csid'[c] = cw
  BY <1>3 DEF Told, TypeOK
<1>15. csid[c] = 0 /\ link[c].as = 0
  BY <1>3, ReadHello
<1>16. SubscribesOnce'
  <2>1. /\ \A d \in Client : d # c => GuestOnce(d)'
        /\ \A d, e \in Client : Own(d)' /\ Own(e)' /\ csid'[d] = csid'[e] => d = e
        /\ \A r \in http' : SentOnce(r)'
        /\ \A w \in Wid : \A i \in DOMAIN inbox'[w] :
              w # cw /\ inbox'[w] = inbox[w] => QueuedOnce(w, i)'
    <3>1. Len(workers) + 1 = cw /\ workers'[cw].kind = "cs" /\ UNCHANGED <<link, sub, http>>
      BY <1>1, <1>3, <1>5
    <3>. QED BY <1>5, <1>7, <1>14, <1>15, <3>1, OldSubscriptions
  <2>2. ~Own(c)' /\ \A d \in Client : d # c => (Own(d)' <=> Own(d))
    BY <1>3, <1>14, <1>15 DEF Own
  <2>3. GuestOnce(c)'
    BY <2>2 DEF GuestOnce
  <2>4. ASSUME NEW i \in DOMAIN inbox'[cw] PROVE QueuedOnce(cw, i)'
    <3>1. i = 1 /\ inbox'[cw][i] = q /\ \A j \in DOMAIN inbox'[cw] : j = 1
      BY <1>10, <2>4, OneMessage
    <3>2. q.goal.as = aw /\ q.goal.cs = 0
      BY <1>2
    <3>3. IsA(aw, "as")' /\ IsA(cw, "cs")'
      BY <1>5 DEF IsA
    <3>4. IsA(inbox[cw][i].goal.as, "as")'
      BY <3>1, <3>2, <3>3 DEF IsA
    <3>5. sub'[cw] = "no"
      BY <1>3, <1>4 DEF Structure, Workers, WorkerNames, IsA
    <3>6. \A d \in Client : csid[d] # 0 => csid[d] # cw
      BY <1>4 DEF Structure, Clients, ClientNames, IsA
    <3>7. \A r \in http' : Subscription(r) => r.to # cw
      <4>1. ASSUME NEW r \in http, Subscription(r) PROVE r.to # cw
        <5>1. /\ r.by \in Client /\ Own(r.by)
              /\ r = [kind |-> "subscribe", by |-> r.by, to |-> csid[r.by], goal |-> link[r.by], n |-> 0]
          BY <4>1 DEF Structure, SubscribesOnce, SentOnce
        <5>2. r.to = csid[r.by] /\ csid[r.by] # 0
          BY <5>1 DEF Own
        <5>. QED BY <3>6, <5>1, <5>2
      <4>. QED BY <1>3, <4>1
    <3>8. \A d \in Client : Own(d)' /\ client'[d] = "joined" => csid'[d] # cw
      BY <1>14, <2>2, <3>6 DEF Own
    <3>. QED BY <1>4, <3>1, <3>2, <3>3, <3>4, <3>5, <3>7, <3>8 DEF QueuedOnce
  <2>5. \A w \in Wid : \A i \in DOMAIN inbox'[w] : QueuedOnce(w, i)'
    BY <1>10, <2>1, <2>4
  <2>. QED BY <2>1, <2>3, <2>5 DEF SubscribesOnce
<1>17. JoinsWith(c, new, cw)
  BY <1>3, <1>5, <1>7, <1>9, <1>14 DEF JoinsWith
<1>. QED BY <1>3, <1>12, <1>13, <1>16, <1>17, NewWorkers

LEMMA JoinModelStructure ==
    ASSUME TypeOK, Structure, NEW c \in Client, JoinModel(c)
    PROVE  Structure'
<1>1. PICK cw : cw = Len(workers) + 1
  OBVIOUS
<1>2. /\ Reads(c, "joinSession") /\ link[c].as # 0 /\ cw \in Wid /\ wire' = Rest(c)
      /\ workers' = Append(workers, [kind |-> "cs", live |-> TRUE]) /\ Register(cw, c)
      /\ csid' = [csid EXCEPT ![c] = cw] /\ asid' = [asid EXCEPT ![c] = link[c].as]
      /\ joinedDead \subseteq joinedDead' /\ Told(c)
      /\ UNCHANGED <<link, inbox, sub, goal, down, http>>
  BY <1>1 DEF JoinModel, Trusts, process
<1>3. Len(workers) \in Nat /\ DOMAIN workers = 1 .. Len(workers) /\ cw \notin DOMAIN workers
  BY <1>1, WorkerIds
<1>4. /\ DOMAIN workers' = DOMAIN workers \cup {cw}
      /\ \A v \in DOMAIN workers : workers'[v] = workers[v]
      /\ workers'[cw] = [kind |-> "cs", live |-> TRUE]
  <2>. DEFINE S == [kind : {"cs", "as"}, live : BOOLEAN]
  <2>1. [kind |-> "cs", live |-> TRUE] \in S /\ workers \in Seq(S)
    BY DEF TypeOK
  <2>. HIDE DEF S
  <2>. QED BY <1>1, <1>2, <1>3, <2>1
<1>5. PICK new : new = {cw}
  OBVIOUS
<1>6. /\ \A v \in new : workers'[v].live
      /\ \A v \in new : workers'[v].kind = IF v = cw THEN "cs" ELSE "as"
      /\ \A v \in new : v # cw => v = cw + 1
      /\ new \in SUBSET Wid /\ cw \in new /\ new \cap DOMAIN workers = {}
      /\ DOMAIN workers' = DOMAIN workers \cup new
  BY <1>2, <1>3, <1>4, <1>5
<1>7. new \cap DOMAIN listeners = {}
  BY <1>6 DEF Structure, ListsAlive
<1>8. /\ DOMAIN listeners' = DOMAIN listeners \cup new
      /\ \A v \in new : listeners'[v] = IF v = cw THEN {c} ELSE {}
      /\ \A v \in DOMAIN listeners : listeners'[v] = listeners[v]
  <2>1. /\ DOMAIN listeners' = DOMAIN listeners \cup {cw}
        /\ listeners'[cw] = (IF cw \in DOMAIN listeners THEN listeners[cw] ELSE {}) \cup {c}
        /\ \A v \in DOMAIN listeners : v # cw => listeners'[v] = listeners[v]
    BY <1>2, Registered, Sockets
  <2>. QED BY <1>5, <1>7, <2>1
<1>9. \A v \in Wid : inbox'[v] # <<>> => Live(v)'
  <2>1. \A v : Live(v) => Live(v)'
    BY <1>4 DEF Live
  <2>. QED BY <1>2, <2>1 DEF Structure, Workers, WorkerNames
<1>10. csid[c] = 0 /\ IsA(link[c].as, "as")
  BY <1>2, ReadHello
<1>11. asid'[c] # 0 => IsA(asid[c], "as")'
  <2>1. asid'[c] = link[c].as
    BY <1>2 DEF TypeOK
  <2>. QED BY <1>4, <1>10, <2>1 DEF IsA
<1>12. /\ \A d \in Client : d # c => client'[d] = client[d] /\ csid'[d] = csid[d] /\ asid'[d] = asid[d]
       /\ csid'[c] = cw
  BY <1>2 DEF Told, TypeOK
<1>13. SubscribesOnce'
  <2>1. /\ \A d \in Client : d # c => GuestOnce(d)'
        /\ \A d, e \in Client : Own(d)' /\ Own(e)' /\ csid'[d] = csid'[e] => d = e
        /\ \A r \in http' : SentOnce(r)'
        /\ \A w \in Wid : \A i \in DOMAIN inbox'[w] :
              w # cw /\ inbox'[w] = inbox[w] => QueuedOnce(w, i)'
    BY <1>1, <1>2, <1>4, <1>6, <1>10, <1>12, OldSubscriptions
  <2>2. GuestOnce(c)'
    <3>1. cw + 1 \notin DOMAIN workers'
      BY <1>1, <1>3, <1>4
    <3>2. sub[cw] = "no"
      BY <1>2, <1>3 DEF Structure, Workers, WorkerNames, IsA
    <3>. QED BY <1>2, <1>12, <3>1, <3>2 DEF GuestOnce, IsA
  <2>3. inbox[cw] = <<>> /\ DOMAIN inbox[cw] = {}
    <3>1. inbox[cw] = <<>>
      BY <1>2, <1>3 DEF Structure, Workers, WorkerNames, Live
    <3>. QED BY <3>1
  <2>4. \A w \in Wid : \A i \in DOMAIN inbox'[w] : QueuedOnce(w, i)'
    BY <1>2, <2>1, <2>3
  <2>. QED BY <2>1, <2>2, <2>4 DEF SubscribesOnce
<1>14. JoinsWith(c, new, cw)
  BY <1>2, <1>4, <1>6, <1>8, <1>12 DEF JoinsWith
<1>. QED BY <1>2, <1>9, <1>11, <1>13, <1>14, NewWorkers

\* What the lists, the sockets and the workers are to each other is kept while the server runs.
LEMMA NextStructure == TypeOK /\ (up => Structure) /\ [Next]_vars /\ up' => Structure'
<1>. SUFFICES ASSUME TypeOK, up => Structure, [Next]_vars, up'
              PROVE  Structure'
  OBVIOUS
<1>1. CASE UNCHANGED vars
  <2>1. up /\ UNCHANGED <<client, csid, asid, link, wire, workers, listeners, joinedDead, sub, goal, inbox, down, http>>
    BY <1>1 DEF vars, server, browsers, process
  <2>2. \A v : Range(down'[v]) = Range(down[v])
    BY <2>1
  <2>. QED BY <2>1, <2>2, StructureKept
<1>2. CASE Next
  <2>1. up
    BY <1>2 DEF Next, ServerSteps, WorkerSteps, OpenNew, Follow, Open, SetUp, Use, Leave, CreateSession, JoinScreen, JoinModel,
           Listen, Relay, Disconnect, DisconnectOther, Forward, Subscribe, AskAsworker, TellState, AsworkerDoes, Takes,
           Subscribed, Refused, Apply, Hears, Reads
  <2>2. ASSUME NEW c \in Client, OpenNew(c) PROVE Structure'
    <3>1. NoLink.cs = 0 /\ NoLink.as = 0 /\ Open(c, NoLink)
      BY <2>2 DEF NoLink, OpenNew
    <3>. QED BY <2>1, <3>1, OpenStructure, Sockets
  <2>3. ASSUME NEW c \in Client, SetUp(c) \/ Leave(c) PROVE Structure'
    BY <2>1, <2>3, SetUpStructure, LeaveStructure
  <2>4. ASSUME NEW c \in Client, NEW h \in Client, NEW model \in BOOLEAN, Follow(c, h, model) PROVE Structure'
    BY <2>1, <2>4, FollowStructure
  <2>5. ASSUME NEW c \in Client, NEW kind \in {"edit", "save"}, Use(c, kind) PROVE Structure'
    BY <2>1, <2>5, UseStructure
  <2>6. ASSUME NEW c \in Client, CreateSession(c) \/ JoinScreen(c) \/ JoinModel(c) PROVE Structure'
    BY <2>1, <2>6, CreateSessionStructure, JoinScreenStructure, JoinModelStructure
  <2>7. ASSUME NEW w \in Wid, Listen(w) \/ Relay(w) PROVE Structure'
    BY <2>1, <2>7, ListenStructure, RelayStructure
  <2>8. ASSUME NEW s \in Socket, Disconnect(s) \/ DisconnectOther(s) PROVE Structure'
    BY <2>1, <2>8, DisconnectStructure, DisconnectOtherStructure
  <2>9. ASSUME NEW r \in http, Forward(r) PROVE Structure'
    BY <2>1, <2>9, ForwardStructure
  <2>10. ASSUME NEW w \in Wid, WorkerSteps(w) PROVE Structure'
    BY <2>1, <2>10, SubscribeStructure, WorkStructure, SubscribedStructure, RefusedStructure DEF WorkerSteps
  <2>. QED BY <1>2, <2>2, <2>3, <2>4, <2>5, <2>6, <2>7, <2>8, <2>9, <2>10 DEF Next, ServerSteps
<1>. QED BY <1>1, <1>2

-----------------------------------------------------------------------------
(* Sessions used with care.                                                *)

\* What has been used without care stays so.
LEMMA CareIsLost == TypeOK /\ [Next]_vars /\ Careful' => Careful
<1>. SUFFICES ASSUME TypeOK, [Next]_vars, Careful' PROVE Careful
  OBVIOUS
<1>1. \A w \in Wid : WorkerSteps(w) => (early => early') /\ rough' = rough /\ joinedDead' = joinedDead
  <2>. SUFFICES ASSUME NEW w \in Wid, WorkerSteps(w)
                PROVE  (early => early') /\ rough' = rough /\ joinedDead' = joinedDead
    OBVIOUS
  <2>1. CASE AskAsworker(w)
    <3>1. early' = (early \/ sub[w] # "in") /\ rough' = rough /\ joinedDead' = joinedDead
      BY <2>1 DEF AskAsworker, server
    <3>2. early => early'
      BY <3>1, Zenon
    <3>. QED BY <3>1, <3>2
  <2>2. CASE ~AskAsworker(w)
    <3>1. early' = early /\ rough' = rough /\ joinedDead' = joinedDead
      BY <2>2 DEF WorkerSteps, Subscribe, TellState, AsworkerDoes, Subscribed, Refused, Apply, history, server
    <3>. QED BY <3>1
  <2>. QED BY <2>1, <2>2
<1>2. ServerSteps => early' = early /\ rough' = rough /\ joinedDead \subseteq joinedDead'
  BY DEF ServerSteps, CreateSession, JoinScreen, JoinModel, Listen, Relay, Disconnect, DisconnectOther, Forward,
         Trusts, Dies, history, server
<1>3. \A c \in Client : \A url \in Link : Open(c, url) => early' = early /\ (rough => rough') /\ joinedDead' = joinedDead
  BY DEF Open, server, TypeOK
<1>4. \A c \in Client : OpenNew(c) \/ SetUp(c) \/ Leave(c) => early' = early /\ (rough => rough') /\ joinedDead' = joinedDead
  BY <1>3, Sockets DEF OpenNew, SetUp, Leave, history, server, TypeOK
<1>5. \A c, h \in Client : \A model \in BOOLEAN :
         Follow(c, h, model) => early' = early /\ (rough => rough') /\ joinedDead' = joinedDead
  <2>1. \A c, h \in Client : \A model \in BOOLEAN : [cs |-> csid[h], as |-> IF model THEN asid[h] ELSE 0] \in Link
    BY Sockets DEF TypeOK, Link
  <2>. QED BY <1>3, <2>1 DEF Follow
<1>6. \A c \in Client : \A kind \in {"edit", "save"} :
         Use(c, kind) => early' = early /\ (rough => rough') /\ joinedDead' = joinedDead
  BY DEF Use, server, TypeOK
<1>7. UNCHANGED vars => early' = early /\ rough' = rough /\ joinedDead' = joinedDead
  BY DEF vars, history, server
<1>8. (early => early') /\ (rough => rough') /\ joinedDead \subseteq joinedDead'
  BY <1>1, <1>2, <1>4, <1>5, <1>6, <1>7 DEF Next
<1>. QED BY <1>8 DEF Careful

\* A message of someone who leaves is the only kind left of what was sent by sockets.
LEMMA ReadStaysCalm ==
    ASSUME TypeOK, ~Departing, NEW s \in Socket, NEW op, Reads(s, op), wire' = Rest(s)
    PROVE  ~Departing'
<1>1. wire[s] \in Seq(Message) /\ wire[s] # <<>> /\ wire'[s] = Tail(wire[s])
      /\ \A t \in Socket : t # s => wire'[t] = wire[t]
  BY ReadMessage
<1>2. \A i \in DOMAIN wire'[s] : i + 1 \in DOMAIN wire[s] /\ wire'[s][i] = wire[s][i + 1]
  BY <1>1
<1>3. ASSUME NEW t \in Socket, NEW i \in DOMAIN wire'[t] PROVE wire'[t][i].op # "disconnect"
  <2>1. CASE t = s
    BY <1>2, <2>1 DEF Departing
  <2>2. CASE t # s
    BY <1>1, <2>2 DEF Departing
  <2>. QED BY <2>1, <2>2
<1>. QED BY <1>3 DEF Departing

LEMMA SentStaysCalm ==
    ASSUME TypeOK, ~Departing, NEW s \in Socket, NEW m \in Message, m.op # "disconnect", Send(s, m)
    PROVE  ~Departing'
<1>1. wire[s] \in Seq(Message) /\ wire'[s] = Append(wire[s], m)
      /\ \A t \in Socket : t # s => wire'[t] = wire[t]
  BY SentMessage DEF TypeOK
<1>2. \A i \in DOMAIN wire'[s] : wire'[s][i] = m \/ (i \in DOMAIN wire[s] /\ wire'[s][i] = wire[s][i])
  BY <1>1
<1>. QED BY <1>1, <1>2 DEF Departing

LEMMA ReadsBye ==
    ASSUME TypeOK, NEW s \in Socket, Reads(s, "disconnect")
    PROVE  Departing
<1>1. wire[s] \in Seq(Message) /\ wire[s] # <<>> /\ Head(wire[s]).op = "disconnect"
  BY DEF TypeOK, Reads
<1>2. 1 \in DOMAIN wire[s] /\ wire[s][1] = Head(wire[s])
  BY <1>1
<1>. QED BY <1>1, <1>2 DEF Departing

\* While nobody leaves and nobody comes to, nobody leaves.
LEMMA NobodyLeaves ==
    ASSUME TypeOK, ~Departing, Next, \A c \in Client : ~Leave(c)
    PROVE  ~Departing'
<1>1. wire' = wire => ~Departing'
  BY DEF Departing
<1>2. ASSUME NEW c \in Client, NEW url \in Link, Open(c, url) PROVE ~Departing'
  <2>1. PICK m : m = [op |-> IF url.cs = 0 THEN "createSession" ELSE "joinSession"]
    OBVIOUS
  <2>2. m \in Message /\ m.op # "disconnect" /\ Send(c, m) /\ c \in Socket
    BY <1>2, <2>1, Sockets DEF Open
  <2>. QED BY <2>2, SentStaysCalm
<1>3. ASSUME NEW c \in Client, OpenNew(c) \/ SetUp(c) PROVE ~Departing'
  BY <1>1, <1>2, <1>3, Sockets DEF OpenNew, SetUp
<1>4. ASSUME NEW c \in Client, NEW h \in Client, NEW model \in BOOLEAN, Follow(c, h, model) PROVE ~Departing'
  <2>1. [cs |-> csid[h], as |-> IF model THEN asid[h] ELSE 0] \in Link
    BY Sockets DEF TypeOK, Link
  <2>. QED BY <1>2, <1>4, <2>1 DEF Follow
<1>5. ASSUME NEW c \in Client, NEW kind \in {"edit", "save"}, Use(c, kind) PROVE ~Departing'
  BY <1>1, <1>5 DEF Use
<1>6. ASSUME NEW c \in Client, CreateSession(c) \/ JoinScreen(c) \/ JoinModel(c) PROVE ~Departing'
  <2>1. wire' = Rest(c) /\ c \in Socket /\ \E op : Reads(c, op)
    BY <1>6, Sockets DEF CreateSession, JoinScreen, JoinModel
  <2>. QED BY <2>1, ReadStaysCalm
<1>7. ASSUME NEW w \in Wid, Listen(w) \/ Relay(w) PROVE ~Departing'
  <2>1. CASE Listen(w)
    <3>1. wire' = Rest(w) /\ w \in Socket /\ Reads(w, "changeListener")
      BY <2>1, Sockets DEF Listen
    <3>. QED BY <3>1, ReadStaysCalm
  <2>2. CASE Relay(w)
    BY <1>1, <2>2 DEF Relay
  <2>. QED BY <1>7, <2>1, <2>2
<1>8. ASSUME NEW s \in Socket PROVE ~Disconnect(s) /\ ~DisconnectOther(s)
  BY ReadsBye DEF Disconnect, DisconnectOther
<1>9. ASSUME NEW r \in http, Forward(r) PROVE ~Departing'
  BY <1>1, <1>9 DEF Forward
<1>10. ASSUME NEW w \in Wid, WorkerSteps(w) PROVE ~Departing'
  <2>1. CASE Subscribe(w)
    <3>1. Change \in Message /\ Change.op # "disconnect" /\ Send(w, Change) /\ w \in Socket
      BY <2>1, Sockets DEF Subscribe, Change
    <3>. QED BY <3>1, SentStaysCalm
  <2>2. CASE ~Subscribe(w)
    BY <1>1, <1>10, <2>2 DEF WorkerSteps, AskAsworker, TellState, AsworkerDoes, Subscribed, Refused, Apply
  <2>. QED BY <2>1, <2>2
<1>. QED BY <1>3, <1>4, <1>5, <1>6, <1>7, <1>8, <1>9, <1>10 DEF Next, ServerSteps

\* Once the last messages are those of sockets that have gone, nothing else is meant for anybody.
LEMMA OnlyByesAddressed == OnlyByes => Addressed
<1>. SUFFICES ASSUME OnlyByes PROVE Addressed
  OBVIOUS
<1>1. \A c \in Client : JoinedTo(c)
  BY DEF OnlyByes, JoinedTo
<1>2. ASSUME NEW w \in Wid PROVE WorksFor(w)
  <2>1. wire[w] \in {<<>>, <<Bye>>} /\ inbox[w] = <<>> /\ outbox[w] = <<>> /\ down[w] = <<>>
    BY Sockets DEF OnlyByes
  <2>2. wire[w] \notin Change1 /\ "201" \notin Range(down[w]) /\ DOMAIN inbox[w] = {}
    BY <2>1, ByeNoChange DEF Range
  <2>. QED BY <2>1, <2>2 DEF WorksFor
<1>. QED BY <1>1, <1>2 DEF Addressed, OnlyByes

\* While someone leaves, only the server takes a step, and it reads of sockets that have gone.
LEMMA DepartingStep ==
    ASSUME TypeOK, Structure, OnlyByes, Departing, Next, Careful'
    PROVE  \E s \in Socket : Disconnect(s) \/ DisconnectOther(s)
<1>1. \A c \in Client : \A url \in Link : ~Open(c, url)
  BY DEF Open, Careful
<1>2. \A c \in Client : ~OpenNew(c) /\ ~SetUp(c)
  BY <1>1, Sockets DEF OpenNew, SetUp, OnlyByes
<1>3. \A c, h \in Client : \A model \in BOOLEAN : ~Follow(c, h, model)
  <2>1. \A c, h \in Client : \A model \in BOOLEAN : [cs |-> csid[h], as |-> IF model THEN asid[h] ELSE 0] \in Link
    BY Sockets DEF TypeOK, Link
  <2>. QED BY <1>1, <2>1 DEF Follow
<1>4. \A c \in Client : \A kind \in {"edit", "save"} : ~Use(c, kind)
  BY DEF Use, Careful
<1>5. \A c \in Client : ~Leave(c)
  <2>1. ~Quiet
    BY DEF Quiet, Departing
  <2>. QED BY <2>1 DEF Leave, Careful
<1>6. \A s \in Socket : \A op \in {"createSession", "joinSession", "changeListener"} : ~Reads(s, op)
  <2>1. ASSUME NEW s \in Socket, NEW op \in {"createSession", "joinSession", "changeListener"}, Reads(s, op)
        PROVE  FALSE
    <3>1. wire[s] = <<Bye>> /\ Head(<<Bye>>) = Bye
      BY <2>1, OneMessage DEF OnlyByes, Reads
    <3>. QED BY <2>1, <3>1 DEF Reads, Bye
  <2>. QED BY <2>1
<1>7. \A c \in Client : ~CreateSession(c) /\ ~JoinScreen(c) /\ ~JoinModel(c)
  BY <1>6, Sockets DEF CreateSession, JoinScreen, JoinModel
<1>8. \A w \in Wid : ~Listen(w) /\ ~Relay(w)
  BY <1>6, Sockets DEF Listen, Relay, OnlyByes
<1>9. \A w \in Wid : ~WorkerSteps(w)
  BY DEF WorkerSteps, Subscribe, AskAsworker, TellState, AsworkerDoes, Takes, Subscribed, Refused, Apply, Hears, OnlyByes
<1>10. \A r \in http : ~Forward(r)
  BY DEF OnlyByes
<1>. QED BY <1>2, <1>3, <1>4, <1>5, <1>7, <1>8, <1>9, <1>10 DEF Next, ServerSteps

\* And so do the steps that follow.
LEMMA DepartingStays ==
    ASSUME TypeOK, Structure, OnlyByes, NEW s \in Socket, Disconnect(s) \/ DisconnectOther(s), Careful
    PROVE  up' /\ OnlyByes'
<1>1. Reads(s, "disconnect") /\ up
  BY DEF Disconnect, DisconnectOther, Reads
<1>2. wire[s] = <<Bye>> /\ Rest(s)[s] = <<>> /\ \A t \in Socket : t # s => Rest(s)[t] = wire[t]
  BY <1>1, ByeRead
<1>3. Bye' = Bye
  BY DEF Bye
<1>4. CASE DisconnectOther(s)
  <2>1. /\ wire' = Rest(s) /\ up' = up
        /\ UNCHANGED <<http, client, inbox, outbox, down>>
    BY <1>4 DEF DisconnectOther, server, browsers, process
  <2>. QED BY <1>1, <1>2, <1>3, <2>1 DEF OnlyByes
<1>5. CASE Disconnect(s)
  <2>1. PICK w : w = Min(HeardBy(s))
    OBVIOUS
  <2>2. w \in Wid /\ HeardBy(s) = {w} /\ w \in DOMAIN listeners /\ w \in DOMAIN workers
    BY <1>5, <2>1, HeardByOne DEF Disconnect
  <2>3. Live(w)
    BY <2>2 DEF Structure, ListsAlive, Careful
  <2>4. /\ up' = up /\ UNCHANGED <<http, client, outbox>>
        /\ \/ Kill(w)
           \/ UNCHANGED <<inbox, down>>
        /\ \/ wire' = [Rest(s) EXCEPT ![w] = Append(@, [op |-> "disconnect"])]
           \/ wire' = Rest(s)
    BY <1>5, <2>1, <2>3 DEF Disconnect, Live, browsers
  <2>5. \A v \in Wid : inbox'[v] = <<>> /\ outbox'[v] = <<>> /\ down'[v] = <<>>
    BY <2>2, <2>4 DEF Kill, OnlyByes, TypeOK
  <2>6. w # s /\ wire[w] = <<>>
    <3>1. s \in Wid => ~Live(s)
      BY <1>1, ByeRead
    <3>2. wire[w] \in {<<>>, <<Change>>} /\ wire[w] \in {<<>>, <<Bye>>}
      BY <2>2, <2>3, Sockets DEF Structure, Workers, SocketListed, OnlyByes
    <3>3. <<Bye>> # <<Change>>
      BY ByeNoChange DEF Change1
    <3>. QED BY <2>2, <2>3, <3>1, <3>2, <3>3
  <2>7. \A t \in Socket : wire'[t] \in {<<>>, <<Bye>>}
    <3>1. \A t \in Socket : Rest(s)[t] \in {<<>>, <<Bye>>}
      BY <1>2 DEF OnlyByes
    <3>2. Append(Rest(s)[w], [op |-> "disconnect"]) = <<Bye>>
      BY <1>2, <2>2, <2>6, Sockets, OneMessage DEF Bye
    <3>3. Rest(s) \in [Socket -> Seq(Message)]
      BY <1>1, ReadMessage
    <3>. QED BY <2>4, <3>1, <3>2, <3>3
  <2>. QED BY <1>1, <1>3, <2>4, <2>5, <2>7 DEF OnlyByes
<1>. QED BY <1>4, <1>5

\* A client that leaves while all is quiet is the first of those messages.
LEMMA FirstToLeave ==
    ASSUME TypeOK, NEW c \in Client, Leave(c), Careful'
    PROVE  up' /\ OnlyByes'
<1>1. Quiet /\ up' = up /\ up
  <2>1. Quiet
    BY DEF Leave, Careful
  <2>. QED BY <2>1 DEF Leave, server
<1>2. UNCHANGED <<http, inbox, outbox, down>>
  BY DEF Leave, process
<1>3. \A d \in Client : client'[d] \notin {"asked", "joined"}
  BY <1>1 DEF Leave, Quiet, TypeOK
<1>4. wire'[c] = <<Bye>> /\ \A t \in Socket : t # c => wire'[t] = wire[t]
  <2>1. c \in Socket /\ Bye \in Message /\ Send(c, Bye) /\ wire[c] = <<>>
    BY <1>1, Sockets DEF Leave, Bye, Quiet
  <2>. QED BY <2>1, SentMessage, OneMessage
<1>5. \A t \in Socket : wire'[t] \in {<<>>, <<Bye>>}
  BY <1>1, <1>4 DEF Quiet
<1>6. Bye' = Bye
  BY DEF Bye
<1>. QED BY <1>1, <1>2, <1>3, <1>5, <1>6 DEF OnlyByes, Quiet

\* Lists are those of workers that run, in sessions used with care: whoever is registered to a
\* worker can send to it.
LEMMA HeardByLive ==
    ASSUME Structure, Careful, NEW s, NEW w \in HeardBy(s)
    PROVE  Live(w)
BY DEF Structure, ListsAlive, Careful, HeardBy

LEMMA UsersServed ==
    ASSUME Structure, Careful, NEW c \in Client, client[c] \in {"joined", "in"}
    PROVE  Live(csid[c])
<1>1. csid[c] \in HeardBy(c)
  BY DEF Structure, Clients, ClientListed
<1>. QED BY <1>1, HeardByLive

\* Workers only go when someone leaves.
LEMMA WorkersStay ==
    ASSUME TypeOK, ~Departing, Next, up'
    PROVE  \A w : Live(w) => Live(w)'
<1>1. workers' = workers => \A w : Live(w) => Live(w)'
  BY DEF Live
<1>2. ASSUME NEW c \in Client, OpenNew(c) \/ SetUp(c) \/ Leave(c) PROVE workers' = workers
  BY <1>2 DEF OpenNew, Open, SetUp, Leave, server
<1>3. ASSUME NEW c \in Client, NEW h \in Client, NEW model \in BOOLEAN, Follow(c, h, model) PROVE workers' = workers
  BY <1>3 DEF Follow, Open, server
<1>4. ASSUME NEW c \in Client, NEW kind \in {"edit", "save"}, Use(c, kind) PROVE workers' = workers
  BY <1>4 DEF Use, server
<1>5. ASSUME NEW c \in Client, CreateSession(c) \/ JoinScreen(c) \/ JoinModel(c)
      PROVE  \A w : Live(w) => Live(w)'
  <2>1. PICK S : S = [kind : {"cs", "as"}, live : BOOLEAN]
    OBVIOUS
  <2>2. /\ [kind |-> "cs", live |-> TRUE] \in S /\ [kind |-> "as", live |-> TRUE] \in S /\ workers \in Seq(S)
    BY <2>1 DEF TypeOK
  <2>3. CASE CreateSession(c)
    <3>1. workers' = workers \o << [kind |-> "cs", live |-> TRUE], [kind |-> "as", live |-> TRUE] >>
      BY <2>3 DEF CreateSession
    <3>2. \A w \in DOMAIN workers : w \in DOMAIN workers' /\ workers'[w] = workers[w]
      BY <2>2, <3>1
    <3>. QED BY <3>2 DEF Live
  <2>4. CASE JoinModel(c)
    <3>1. workers' = Append(workers, [kind |-> "cs", live |-> TRUE])
      BY <2>4 DEF JoinModel
    <3>2. \A w \in DOMAIN workers : w \in DOMAIN workers' /\ workers'[w] = workers[w]
      BY <2>2, <3>1
    <3>. QED BY <3>2 DEF Live
  <2>5. CASE JoinScreen(c)
    BY <1>1, <2>5 DEF JoinScreen
  <2>. QED BY <1>5, <2>3, <2>4, <2>5
<1>6. ASSUME NEW w \in Wid, Listen(w) \/ Relay(w) PROVE workers' = workers
  BY <1>6 DEF Listen, Relay, Dies, server
<1>7. ASSUME NEW s \in Socket PROVE ~Disconnect(s) /\ ~DisconnectOther(s)
  BY ReadsBye DEF Disconnect, DisconnectOther
<1>8. ASSUME NEW r \in http, Forward(r) PROVE workers' = workers
  BY <1>8 DEF Forward, Dies, server
<1>9. ASSUME NEW w \in Wid, WorkerSteps(w) PROVE workers' = workers
  BY <1>9 DEF WorkerSteps, Subscribe, AskAsworker, TellState, AsworkerDoes, Subscribed, Refused, Apply, server
<1>. QED BY <1>1, <1>2, <1>3, <1>4, <1>5, <1>6, <1>7, <1>8, <1>9 DEF Next, ServerSteps

\* The server goes on: whatever it is asked concerns a worker that runs.
LEMMA ServerGoesOn ==
    ASSUME TypeOK, Structure, Addressed, Careful, up, ~Departing, Next
    PROVE  up'
<1>1. \A c \in Client : OpenNew(c) \/ SetUp(c) \/ Leave(c) => up' = up
  BY DEF OpenNew, Open, SetUp, Leave, server
<1>2. \A c, h \in Client : \A model \in BOOLEAN : Follow(c, h, model) => up' = up
  BY DEF Follow, Open, server
<1>3. \A c \in Client : \A kind \in {"edit", "save"} : Use(c, kind) => up' = up
  BY DEF Use, server
<1>4. \A c \in Client : CreateSession(c) \/ JoinScreen(c) \/ JoinModel(c) => up' = up
  BY DEF CreateSession, JoinScreen, JoinModel
<1>5. ASSUME NEW w \in Wid, Relay(w) PROVE up' = up
  <2>1. Live(w)
    BY <1>5 DEF Relay, Addressed, WorksFor
  <2>2. w \in DOMAIN listeners
    BY <2>1 DEF Structure, RunnersListed, Live
  <2>. QED BY <1>5, <2>2 DEF Relay, server
<1>6. \A w \in Wid : Listen(w) => up' = up
  BY DEF Listen
<1>7. \A s \in Socket : ~Disconnect(s) /\ ~DisconnectOther(s)
  BY ReadsBye DEF Disconnect, DisconnectOther
<1>8. \A r \in http : Forward(r) => up' = up
  BY DEF Forward, Addressed, SentTo, server
<1>9. \A w \in Wid : WorkerSteps(w) => up' = up
  BY DEF WorkerSteps, Subscribe, AskAsworker, TellState, AsworkerDoes, Subscribed, Refused, Apply, server
<1>. QED BY <1>1, <1>2, <1>3, <1>4, <1>5, <1>6, <1>7, <1>8, <1>9 DEF Next, ServerSteps

\* What a step leaves alone is still addressed to workers that run.
LEMMA WorksKept ==
    ASSUME NEW w \in Wid, WorksFor(w), \A v : Live(v) => Live(v)',
           goal'[w] = goal[w], inbox'[w] = inbox[w],
           outbox'[w] # <<>> => outbox[w] # <<>>,
           wire'[w] = wire[w], "201" \in Range(down'[w]) => "201" \in Range(down[w])
    PROVE  WorksFor(w)'
<1>1. Change1' = Change1 /\ Range(down[w])' = Range(down'[w])
  BY DEF Change1, Change, Bye, Range
<1>2. \A v : Cloned(v) => Cloned(v)'
  BY DEF Cloned
<1>3. Cloned(goal[w]) => Cloned(goal[w])'
  BY <1>2 DEF Cloned
<1>4. \A i \in DOMAIN inbox[w] : Subscription(inbox[w][i]) => Cloned(inbox[w][i].goal)'
  BY DEF WorksFor, Cloned
<1>. QED BY <1>1, <1>3, <1>4 DEF WorksFor, Subscription

LEMMA SentKept ==
    ASSUME NEW r, SentTo(r), \A v : Live(v) => Live(v)'
    PROVE  SentTo(r)'
BY DEF SentTo, Cloned, Subscription

LEMMA JoinedKept ==
    ASSUME NEW c \in Client, JoinedTo(c), \A v : Live(v) => Live(v)',
           client'[c] = "joined" => client[c] = "joined" /\ link'[c] = link[c]
    PROVE  JoinedTo(c)'
BY DEF JoinedTo, Cloned

\* A step of a browser asks only workers that run.
LEMMA BrowserAddressed ==
    ASSUME TypeOK, Structure, Addressed, Careful, \A v : Live(v) => Live(v)',
           NEW c \in Client,
           \/ \E url \in Link : Open(c, url)
           \/ SetUp(c)
           \/ \E kind \in {"edit", "save"} : Use(c, kind)
    PROVE  Addressed'
<1>1. /\ UNCHANGED <<goal, inbox, outbox, down>>
      /\ \A t \in Socket : t # c => wire'[t] = wire[t]
  <2>1. ASSUME NEW url \in Link, Open(c, url) PROVE \A t \in Socket : t # c => wire'[t] = wire[t]
    BY <2>1 DEF Open, Send, TypeOK
  <2>. QED BY <2>1 DEF Open, SetUp, Use, process
<1>2. \A w \in Wid : WorksFor(w)'
  BY <1>1, WorksKept, Sockets DEF Addressed
<1>3. \A d \in Client : JoinedTo(d)'
  <2>1. \A d \in Client : client'[d] = "joined" => client[d] = "joined" /\ link'[d] = link[d]
    BY DEF Open, SetUp, Use, TypeOK
  <2>. QED BY <2>1, JoinedKept DEF Addressed
<1>4. \A r \in http : SentTo(r)'
  BY SentKept DEF Addressed
<1>5. \A r \in http' : SentTo(r)'
  <2>1. CASE http' = http
    BY <1>4, <2>1
  <2>2. CASE SetUp(c) /\ http' # http
    <3>1. PICK q : q = [kind |-> IF link[c].as = 0 THEN "state" ELSE "subscribe",
                        by |-> c, to |-> csid[c], goal |-> link[c], n |-> 0]
      OBVIOUS
    <3>2. http' = http \cup {q} /\ client[c] = "joined"
      BY <2>2, <3>1 DEF SetUp, Ask
    <3>3. Live(csid[c])
      BY <3>2, UsersServed
    <3>4. Cloned(link[c])
      BY <3>2 DEF Addressed, JoinedTo
    <3>5. q.to = csid[c] /\ q.goal = link[c]
      BY <3>1
    <3>6. SentTo(q)
      BY <3>3, <3>4, <3>5 DEF SentTo
    <3>. QED BY <1>4, <3>2, <3>6, SentKept
  <2>3. ASSUME NEW kind \in {"edit", "save"}, Use(c, kind) PROVE \A r \in http' : SentTo(r)'
    <3>1. PICK q : q = [kind |-> kind, by |-> c, to |-> csid[c], goal |-> NoLink, n |-> asked]
      OBVIOUS
    <3>2. http' = http \cup {q} /\ client[c] = "in"
      BY <2>3, <3>1 DEF Use, Ask
    <3>3. Live(csid[c])
      BY <3>2, UsersServed
    <3>4. q.to = csid[c] /\ ~Subscription(q)
      BY <3>1 DEF Subscription
    <3>5. SentTo(q)
      BY <3>3, <3>4 DEF SentTo
    <3>. QED BY <1>4, <3>2, <3>5, SentKept
  <2>. QED BY <2>1, <2>2, <2>3 DEF Open
<1>. QED BY <1>2, <1>3, <1>5 DEF Addressed

\* A client that has come in is one of a session that runs.
LEMMA HelloAddressed ==
    ASSUME TypeOK, Structure, Addressed, Careful', \A v : Live(v) => Live(v)',
           NEW c \in Client, CreateSession(c) \/ JoinScreen(c) \/ JoinModel(c)
    PROVE  Addressed'
<1>1. /\ UNCHANGED <<http, link, sub, goal, outbox, down>> /\ Told(c)
      /\ wire' = Rest(c) /\ \E op : Reads(c, op)
  BY DEF CreateSession, JoinScreen, JoinModel, process
<1>2. \A t \in Socket : t # c => wire'[t] = wire[t]
  BY <1>1, ReadMessage, Sockets
<1>3. \A r \in http' : SentTo(r)'
  BY <1>1, SentKept DEF Addressed
<1>4. Cloned(link[c])'
  <2>1. CASE CreateSession(c)
    <3>1. link[c].cs = 0
      BY <2>1, ReadHello DEF CreateSession
    <3>. QED BY <1>1, <3>1 DEF Cloned
  <2>2. CASE JoinScreen(c) \/ JoinModel(c)
    <3>1. link[c].cs \in Wid /\ joinedDead' = {}
      BY <2>2, ReadHello DEF JoinScreen, JoinModel, Careful
    <3>2. Live(link[c].cs)
      BY <2>2, <3>1 DEF JoinScreen, JoinModel, Trusts
    <3>. QED BY <1>1, <3>2 DEF Cloned
  <2>. QED BY <2>1, <2>2
<1>5. \A d \in Client : JoinedTo(d)'
  <2>1. JoinedTo(c)'
    BY <1>4 DEF JoinedTo
  <2>2. \A d \in Client : d # c => client'[d] = client[d] /\ link'[d] = link[d]
    BY <1>1 DEF Told, TypeOK
  <2>. QED BY <2>1, <2>2, JoinedKept DEF Addressed
<1>6. ASSUME NEW w \in Wid PROVE WorksFor(w)'
  <2>1. wire'[w] = wire[w]
    BY <1>2, Sockets
  <2>2. CASE inbox'[w] = inbox[w]
    BY <1>1, <2>1, <2>2, WorksKept DEF Addressed
  <2>3. CASE inbox'[w] # inbox[w]
    <3>1. PICK q : q = [kind |-> "subscribe", by |-> c, to |-> w, goal |-> [cs |-> 0, as |-> w + 1], n |-> 0]
      OBVIOUS
    <3>2. CreateSession(c) /\ w = Len(workers) + 1
      BY <2>3 DEF CreateSession, JoinScreen, JoinModel, process, TypeOK
    <3>3. inbox'[w] = << [kind |-> "subscribe", by |-> c, to |-> w,
                          goal |-> [cs |-> 0, as |-> Len(workers) + 2], n |-> 0] >>
      BY <3>2 DEF CreateSession, TypeOK
    <3>4. \A i \in DOMAIN inbox'[w] : inbox'[w][i].goal.cs = 0
      BY <3>3
    <3>5. \A i \in DOMAIN inbox'[w] : Cloned(inbox[w][i].goal)'
      BY <3>4 DEF Cloned
    <3>6. wire[w] \in Change1 \/ "201" \in Range(down[w]) => Cloned(goal[w])
      BY DEF Addressed, WorksFor
    <3>7. w \notin DOMAIN workers
      BY <3>2, WorkerIds
    <3>8. sub[w] = "no" /\ (outbox[w] = <<>>)
      BY <3>7 DEF Structure, Workers, WorkerNames, IsA, Addressed, WorksFor, Live
    <3>9. wire[w] = <<>> /\ down[w] = <<>>
      BY <3>8 DEF Structure, Workers, SocketListed
    <3>10. "201" \notin Range(down[w])' /\ wire'[w] \notin Change1'
      BY <1>1, <2>1, <3>9, ByeNoChange DEF Range
    <3>. QED BY <1>1, <3>5, <3>8, <3>10 DEF WorksFor
  <2>. QED BY <2>2, <2>3
<1>. QED BY <1>3, <1>5, <1>6 DEF Addressed

\* So is what comes of what was already meant for workers that run.
LEMMA WorksOn ==
    ASSUME NEW w \in Wid, WorksFor(w), \A v : Live(v) => Live(v)', goal'[w] = goal[w],
           \A i \in DOMAIN inbox'[w] : Subscription(inbox'[w][i]) =>
               \/ \E j \in DOMAIN inbox[w] : inbox'[w][i] = inbox[w][j]
               \/ Cloned(inbox'[w][i].goal),
           outbox'[w] # <<>> => outbox[w] # <<>> \/ Live(w),
           wire'[w] \in Change1 \/ "201" \in Range(down'[w]) => wire[w] \in Change1 \/ "201" \in Range(down[w])
    PROVE  WorksFor(w)'
<1>1. Change1' = Change1 /\ Range(down[w])' = Range(down'[w])
  BY DEF Change1, Change, Bye, Range
<1>2. ASSUME NEW i \in DOMAIN inbox'[w], Subscription(inbox'[w][i]) PROVE Cloned(inbox[w][i].goal)'
  <2>1. Cloned(inbox'[w][i].goal)
    BY <1>2 DEF WorksFor
  <2>. QED BY <2>1 DEF Cloned
<1>3. Cloned(goal[w]) => Cloned(goal[w])'
  BY DEF Cloned
<1>4. \A i \in DOMAIN inbox'[w] : Subscription(inbox[w][i])' => Cloned(inbox[w][i].goal)'
  BY <1>2 DEF Subscription
<1>. QED BY <1>1, <1>3, <1>4 DEF WorksFor

\* A step that concerns one worker.
LEMMA OneWorks ==
    ASSUME Addressed, NEW w \in Wid, \A v : Live(v) => Live(v)', UNCHANGED <<client, link>>,
           \A v \in Wid : v # w => /\ goal'[v] = goal[v] /\ inbox'[v] = inbox[v] /\ wire'[v] = wire[v]
                                   /\ outbox'[v] # <<>> => outbox[v] # <<>>
                                   /\ "201" \in Range(down'[v]) => "201" \in Range(down[v]),
           WorksFor(w)',
           \A r \in http' : r \in http \/ SentTo(r)
    PROVE  Addressed'
<1>1. \A v \in Wid : WorksFor(v)'
  BY WorksKept DEF Addressed
<1>2. \A c \in Client : JoinedTo(c)'
  BY JoinedKept DEF Addressed
<1>3. \A r \in http' : SentTo(r)'
  BY SentKept DEF Addressed
<1>. QED BY <1>1, <1>2, <1>3 DEF Addressed

\* What a worker has taken from its queue was in it.
LEMMA TakenFrom ==
    ASSUME TypeOK, NEW w \in Wid, NEW kind, NEW kinds, Takes(w, kind, kinds)
    PROVE  /\ \A i \in DOMAIN inbox'[w] : \E j \in DOMAIN inbox[w] : inbox'[w][i] = inbox[w][j]
           /\ 1 \in DOMAIN inbox[w] /\ inbox[w][1] = Head(inbox[w])
           /\ \A v \in Wid : v # w => inbox'[v] = inbox[v]
           /\ Live(w) /\ Head(inbox[w]).kind \in kinds
<1>1. /\ inbox[w] \in Seq(Request) /\ inbox[w] # <<>> /\ inbox'[w] = Tail(inbox[w])
      /\ \A v \in Wid : v # w => inbox'[v] = inbox[v]
      /\ Live(w) /\ Head(inbox[w]).kind \in kinds
  BY TakenRequest
<1>2. \A i \in DOMAIN Tail(inbox[w]) : i + 1 \in DOMAIN inbox[w] /\ Tail(inbox[w])[i] = inbox[w][i + 1]
  BY <1>1
<1>3. 1 \in DOMAIN inbox[w] /\ inbox[w][1] = Head(inbox[w])
  BY <1>1
<1>. QED BY <1>1, <1>2, <1>3

LEMMA ListenAddressed ==
    ASSUME TypeOK, Structure, Addressed, \A v : Live(v) => Live(v)', NEW w \in Wid, Listen(w)
    PROVE  Addressed'
<1>1. /\ wire' = Rest(w) /\ Reads(w, "changeListener")
      /\ UNCHANGED <<http, client, link, inbox, outbox, goal>>
      /\ \A v \in Wid : v # w => down'[v] = down[v]
  BY DEF Listen, browsers, TypeOK
<1>2. \A v \in Wid : v # w => wire'[v] = wire[v]
  BY <1>1, ReadMessage, Sockets
<1>3. wire[w] \in Change1
  <2>1. wire[w] \in {<<>>, <<Bye>>} \cup Change1
    BY DEF Structure, Workers, SocketListed
  <2>2. wire[w] # <<>> /\ Head(wire[w]).op = "changeListener"
    BY <1>1 DEF Reads
  <2>3. Head(<<Bye>>).op = "disconnect"
    BY DEF Bye
  <2>. QED BY <2>1, <2>2, <2>3
<1>4. WorksFor(w)'
  BY <1>1, <1>3, WorksOn DEF Addressed
<1>. QED BY <1>1, <1>2, <1>4, OneWorks

LEMMA ForwardAddressed ==
    ASSUME TypeOK, Structure, Addressed, \A v : Live(v) => Live(v)', NEW r \in http, Forward(r)
    PROVE  Addressed'
<1>1. SentTo(r) /\ Live(r.to)
  BY DEF Addressed, SentTo
<1>2. PICK w : w = r.to
  OBVIOUS
<1>3. w \in Wid
  BY <1>1, <1>2, WorkerIds
<1>4. /\ inbox' = [inbox EXCEPT ![w] = Append(@, r)] /\ http' = http \ {r}
      /\ UNCHANGED <<client, link, outbox, goal, down, wire>>
  BY <1>1, <1>2 DEF Forward, browsers
<1>5. /\ inbox'[w] = Append(inbox[w], r) /\ inbox[w] \in Seq(Request) /\ r \in Request
      /\ \A v \in Wid : v # w => inbox'[v] = inbox[v]
  BY <1>3, <1>4 DEF TypeOK
<1>6. \A i \in DOMAIN inbox'[w] : inbox'[w][i] = r \/ (i \in DOMAIN inbox[w] /\ inbox'[w][i] = inbox[w][i])
  BY <1>5
<1>7. WorksFor(w)'
  <2>1. Subscription(r) => Cloned(r.goal)
    BY <1>1 DEF SentTo
  <2>2. ASSUME NEW i \in DOMAIN inbox'[w], Subscription(inbox'[w][i])
        PROVE  \/ \E j \in DOMAIN inbox[w] : inbox'[w][i] = inbox[w][j]
               \/ Cloned(inbox'[w][i].goal)
    BY <1>6, <2>1, <2>2
  <2>3. WorksFor(w)
    BY <1>3 DEF Addressed
  <2>. QED BY <1>3, <1>4, <2>2, <2>3, WorksOn
<1>. QED BY <1>3, <1>4, <1>5, <1>7, OneWorks

LEMMA RelayAddressed ==
    ASSUME TypeOK, Structure, Addressed, \A v : Live(v) => Live(v)', NEW w \in Wid, Relay(w), up'
    PROVE  Addressed'
<1>1. /\ outbox' = [outbox EXCEPT ![w] = Tail(@)] /\ outbox[w] # <<>>
      /\ \A v \in Wid : down'[v] = down[v] \/ down'[v] = Append(down[v], "changelog")
      /\ UNCHANGED <<http, client, link, inbox, goal, wire>>
  BY DEF Relay, Dies, browsers
<1>2. ASSUME NEW v \in Wid, "201" \in Range(down'[v]) PROVE "201" \in Range(down[v])
  <2>1. PICK i \in DOMAIN down'[v] : down'[v][i] = "201"
    BY <1>2 DEF Range
  <2>2. down[v] \in Seq({"201", "400", "changelog"})
    BY DEF TypeOK
  <2>3. i \in DOMAIN down[v] /\ down[v][i] = "201"
    BY <1>1, <2>1, <2>2, SMTT(20), ZenonT(20)
  <2>. QED BY <2>3 DEF Range
<1>3. \A v \in Wid : v # w => outbox'[v] = outbox[v]
  BY <1>1 DEF TypeOK
<1>4. WorksFor(w)'
  BY <1>1, <1>2, WorksOn DEF Addressed
<1>. QED BY <1>1, <1>2, <1>3, <1>4, OneWorks

LEMMA SubscribeAddressed ==
    ASSUME TypeOK, Structure, Addressed, \A v : Live(v) => Live(v)', NEW w \in Wid, Subscribe(w)
    PROVE  Addressed'
<1>1. /\ Takes(w, "cs", {"subscribe"}) /\ goal' = [goal EXCEPT ![w] = Head(inbox[w]).goal]
      /\ Send(w, Change) /\ UNCHANGED <<http, client, link, outbox, down>>
  BY DEF Subscribe, browsers, Change
<1>2. /\ \A i \in DOMAIN inbox'[w] : \E j \in DOMAIN inbox[w] : inbox'[w][i] = inbox[w][j]
      /\ 1 \in DOMAIN inbox[w] /\ inbox[w][1] = Head(inbox[w])
      /\ \A v \in Wid : v # w => inbox'[v] = inbox[v]
      /\ Live(w) /\ Head(inbox[w]).kind = "subscribe"
  BY <1>1, TakenFrom
<1>3. \A v \in Wid : v # w => wire'[v] = wire[v] /\ goal'[v] = goal[v]
  BY <1>1, Sockets DEF Send, TypeOK
<1>4. goal'[w] = inbox[w][1].goal
  BY <1>1, <1>2 DEF TypeOK
<1>5. /\ \A i \in DOMAIN inbox[w] : Subscription(inbox[w][i]) => Cloned(inbox[w][i].goal)
      /\ Subscription(inbox[w][1])
  BY <1>2 DEF Addressed, WorksFor, Subscription
<1>6. Cloned(goal[w])'
  <2>1. Cloned(inbox[w][1].goal)
    BY <1>2, <1>5
  <2>. QED BY <1>4, <2>1 DEF Cloned
<1>7. ASSUME NEW i \in DOMAIN inbox'[w], Subscription(inbox[w][i])' PROVE Cloned(inbox[w][i].goal)'
  <2>1. PICK j \in DOMAIN inbox[w] : inbox'[w][i] = inbox[w][j]
    BY <1>2
  <2>2. Cloned(inbox[w][j].goal)
    BY <1>5, <1>7, <2>1 DEF Subscription
  <2>. QED BY <2>1, <2>2 DEF Cloned
<1>8. WorksFor(w)'
  BY <1>1, <1>2, <1>6, <1>7 DEF WorksFor
<1>. QED BY <1>1, <1>2, <1>3, <1>8, OneWorks

LEMMA AskAddressed ==
    ASSUME TypeOK, Structure, Addressed, Careful, Careful', \A v : Live(v) => Live(v)',
           NEW w \in Wid, AskAsworker(w)
    PROVE  Addressed'
<1>1. PICK q : q = [Head(inbox[w]) EXCEPT !.by = w, !.to = Asw(w)]
  OBVIOUS
<1>2. /\ Takes(w, "cs", {"edit", "save"}) /\ http' = http \cup {q} /\ sub[w] = "in"
      /\ UNCHANGED <<client, link, outbox, down, goal, wire>>
  BY <1>1 DEF AskAsworker, browsers, Ask, Careful
<1>3. /\ \A i \in DOMAIN inbox'[w] : \E j \in DOMAIN inbox[w] : inbox'[w][i] = inbox[w][j]
      /\ \A v \in Wid : v # w => inbox'[v] = inbox[v]
      /\ Live(w) /\ Head(inbox[w]).kind \in {"edit", "save"} /\ Head(inbox[w]) \in Request
  BY <1>2, TakenFrom, TakenRequest
<1>4. q.to = goal[w].as /\ ~Subscription(q)
  BY <1>1, <1>2, <1>3 DEF Request, Asw, Subscription
<1>5. Live(goal[w].as)
  <2>1. goal[w].as \in HeardBy(w)
    BY <1>2, <1>3 DEF Structure, Workers, SocketListed
  <2>. QED BY <2>1, HeardByLive
<1>6. SentTo(q)
  BY <1>4, <1>5 DEF SentTo
<1>7. WorksFor(w)'
  BY <1>2, <1>3, WorksOn DEF Addressed
<1>. QED BY <1>2, <1>3, <1>6, <1>7, OneWorks

LEMMA AnswerAddressed ==
    ASSUME TypeOK, Structure, Addressed, \A v : Live(v) => Live(v)',
           NEW w \in Wid, TellState(w) \/ AsworkerDoes(w) \/ Refused(w) \/ Apply(w)
    PROVE  Addressed'
<1>1. UNCHANGED <<http, client, link, goal, wire>>
  BY DEF TellState, AsworkerDoes, Refused, Apply, browsers
<1>2. /\ Live(w)
      /\ \A i \in DOMAIN inbox'[w] : \E j \in DOMAIN inbox[w] : inbox'[w][i] = inbox[w][j]
      /\ \A v \in Wid : v # w => inbox'[v] = inbox[v]
  <2>1. CASE TellState(w) \/ AsworkerDoes(w)
    <3>1. \E kind, kinds : Takes(w, kind, kinds)
      BY <2>1 DEF TellState, AsworkerDoes
    <3>. QED BY <3>1, TakenFrom
  <2>2. CASE Refused(w) \/ Apply(w)
    BY <2>2 DEF Refused, Apply, Hears
  <2>. QED BY <2>1, <2>2
<1>3. \A v \in Wid : v # w => outbox'[v] = outbox[v]
  BY DEF TellState, AsworkerDoes, Refused, Apply, Posts, TypeOK
<1>4. \A v \in Wid : "201" \in Range(down'[v]) => "201" \in Range(down[v])
  <2>1. CASE TellState(w) \/ AsworkerDoes(w)
    BY <2>1 DEF TellState, AsworkerDoes
  <2>2. CASE Refused(w) \/ Apply(w)
    <3>1. \E what : Hears(w, what)
      BY <2>2 DEF Refused, Apply
    <3>. QED BY <3>1, HeardMessage
  <2>. QED BY <2>1, <2>2
<1>5. WorksFor(w)'
  BY <1>1, <1>2, <1>4, WorksOn DEF Addressed
<1>. QED BY <1>1, <1>2, <1>3, <1>4, <1>5, OneWorks

LEMMA SubscribedAddressed ==
    ASSUME TypeOK, Structure, Addressed, \A v : Live(v) => Live(v)', NEW w \in Wid, Subscribed(w)
    PROVE  Addressed'
<1>1. PICK q : q = [kind |-> "state", by |-> w, to |-> goal[w].cs, goal |-> NoLink, n |-> 0]
  OBVIOUS
<1>2. /\ Hears(w, "201") /\ UNCHANGED <<client, link, inbox, outbox, goal, wire>>
      /\ http' = http \/ (goal[w].cs # 0 /\ http' = http \cup {q})
  BY <1>1 DEF Subscribed, browsers, Ask
<1>3. /\ "201" \in Range(down[w]) /\ Range(down'[w]) \subseteq Range(down[w])
      /\ \A v \in Wid : v # w => down'[v] = down[v]
  BY <1>2, HeardMessage
<1>4. Cloned(goal[w])
  BY <1>3 DEF Addressed, WorksFor
<1>5. q.to = goal[w].cs /\ ~Subscription(q)
  BY <1>1 DEF Subscription
<1>6. goal[w].cs # 0 => SentTo(q)
  BY <1>4, <1>5 DEF SentTo, Cloned
<1>7. WorksFor(w)'
  BY <1>2, <1>3, WorksOn DEF Addressed
<1>. QED BY <1>2, <1>3, <1>6, <1>7, OneWorks

\* While nobody leaves, whatever is sent goes to workers that run.
LEMMA NextAddressed ==
    ASSUME TypeOK, Structure, Addressed, Careful, Careful', ~Departing, Next, up', \A c \in Client : ~Leave(c)
    PROVE  Addressed'
<1>1. \A v : Live(v) => Live(v)'
  BY WorkersStay
<1>2. ASSUME NEW c \in Client, OpenNew(c) \/ SetUp(c) PROVE Addressed'
  <2>1. (\E url \in Link : Open(c, url)) \/ SetUp(c)
    BY <1>2, Sockets DEF OpenNew
  <2>. QED BY <1>1, <2>1, BrowserAddressed
<1>3. ASSUME NEW c \in Client, NEW h \in Client, NEW model \in BOOLEAN, Follow(c, h, model) PROVE Addressed'
  <2>1. [cs |-> csid[h], as |-> IF model THEN asid[h] ELSE 0] \in Link
    BY Sockets DEF TypeOK, Link
  <2>2. \E url \in Link : Open(c, url)
    BY <1>3, <2>1 DEF Follow
  <2>. QED BY <1>1, <2>2, BrowserAddressed
<1>4. ASSUME NEW c \in Client, NEW kind \in {"edit", "save"}, Use(c, kind) PROVE Addressed'
  BY <1>1, <1>4, BrowserAddressed
<1>5. ASSUME NEW c \in Client, CreateSession(c) \/ JoinScreen(c) \/ JoinModel(c) PROVE Addressed'
  BY <1>1, <1>5, HelloAddressed
<1>6. ASSUME NEW w \in Wid, Listen(w) \/ Relay(w) PROVE Addressed'
  BY <1>1, <1>6, ListenAddressed, RelayAddressed
<1>7. ASSUME NEW s \in Socket PROVE ~Disconnect(s) /\ ~DisconnectOther(s)
  BY ReadsBye DEF Disconnect, DisconnectOther
<1>8. ASSUME NEW r \in http, Forward(r) PROVE Addressed'
  BY <1>1, <1>8, ForwardAddressed
<1>9. ASSUME NEW w \in Wid, WorkerSteps(w) PROVE Addressed'
  BY <1>1, <1>9, SubscribeAddressed, AskAddressed, AnswerAddressed, SubscribedAddressed DEF WorkerSteps
<1>. QED BY <1>2, <1>3, <1>4, <1>5, <1>6, <1>7, <1>8, <1>9 DEF Next, ServerSteps

\* Used with care, the server stays up, and a departure goes on alone.
LEMMA NextCalm == IInv /\ [Next]_vars => StaysUp' /\ (up' => Calm')
<1>. SUFFICES ASSUME IInv, [Next]_vars PROVE StaysUp' /\ (up' => Calm')
  OBVIOUS
<1>1. CASE ~Careful'
  BY <1>1 DEF Careful, StaysUp, Calm
<1>2. CASE Careful'
  <2>1. TypeOK /\ Careful
    BY <1>2, CareIsLost DEF IInv
  <2>2. up
    BY <2>1 DEF IInv, StaysUp, Careful
  <2>3. Structure /\ (Departing => OnlyByes) /\ Addressed
    BY <2>1, <2>2 DEF IInv, Calm
  <2>4. SUFFICES up' /\ (Departing' => OnlyByes') /\ Addressed'
    BY DEF StaysUp, Calm
  <2>5. OnlyByes' => Addressed'
    BY OnlyByesAddressed, PTL
  <2>6. CASE UNCHANGED vars
    <3>1. UNCHANGED <<up, http, client, link, wire, workers, goal, inbox, outbox, down>>
      BY <2>6 DEF vars, server, browsers, process
    <3>2. (\A v : Live(v) => Live(v)') /\ \A w \in Wid : Range(down'[w]) = Range(down[w])
      BY <3>1 DEF Live
    <3>3. Addressed'
      BY <2>3, <3>1, <3>2, WorksKept, JoinedKept, SentKept DEF Addressed
    <3>4. (Departing' <=> Departing) /\ (OnlyByes' <=> OnlyByes)
      BY <3>1 DEF Departing, OnlyByes, Bye
    <3>. QED BY <2>2, <2>3, <3>1, <3>3, <3>4
  <2>7. CASE Next /\ Departing
    <3>1. PICK s \in Socket : Disconnect(s) \/ DisconnectOther(s)
      BY <1>2, <2>1, <2>3, <2>7, DepartingStep
    <3>2. up' /\ OnlyByes'
      BY <2>1, <2>3, <2>7, <3>1, DepartingStays
    <3>. QED BY <2>5, <3>2
  <2>8. ASSUME NEW c \in Client, Leave(c) PROVE up' /\ (Departing' => OnlyByes') /\ Addressed'
    BY <1>2, <2>1, <2>5, <2>8, FirstToLeave
  <2>9. CASE Next /\ ~Departing /\ \A c \in Client : ~Leave(c)
    <3>1. up'
      BY <2>1, <2>2, <2>3, <2>9, ServerGoesOn
    <3>2. ~Departing'
      BY <2>1, <2>9, NobodyLeaves
    <3>3. Addressed'
      BY <1>2, <2>1, <2>3, <2>9, <3>1, NextAddressed
    <3>. QED BY <3>1, <3>2, <3>3
  <2>. QED BY <2>6, <2>7, <2>8, <2>9
<1>. QED BY <1>1, <1>2

LEMMA InitInv == Init => IInv
<1>. SUFFICES ASSUME Init PROVE IInv
  OBVIOUS
<1>1. TypeOK
  <2>1. NoLink \in Link /\ 0 \in 0 .. MaxWorkers /\ 0 \in 0 .. MaxAsk
    BY Sockets
  <2>2. /\ {up, early, rough} \subseteq BOOLEAN /\ joinedDead \subseteq Wid /\ asked \in 0 .. MaxAsk
        /\ workers \in Seq([kind : {"cs", "as"}, live : BOOLEAN]) /\ Len(workers) <= MaxWorkers
        /\ DOMAIN listeners \subseteq Wid /\ listeners \in [DOMAIN listeners -> SUBSET Socket]
    <3>1. workers = <<>> /\ listeners = <<>> /\ Len(<<>>) = 0 /\ 0 <= MaxWorkers
      BY SessionsAssumption DEF Init
    <3>2. workers \in Seq([kind : {"cs", "as"}, live : BOOLEAN]) /\ Len(workers) <= MaxWorkers
      BY <3>1
    <3>3. DOMAIN listeners \subseteq Wid /\ listeners \in [DOMAIN listeners -> SUBSET Socket]
      BY <3>1
    <3>4. {up, early, rough} \subseteq BOOLEAN /\ joinedDead \subseteq Wid /\ asked \in 0 .. MaxAsk
      BY <2>1 DEF Init
    <3>. QED BY <3>2, <3>3, <3>4
  <2>3. /\ csid \in [Client -> 0 .. MaxWorkers] /\ asid \in [Client -> 0 .. MaxWorkers]
        /\ wire \in [Socket -> Seq(Message)] /\ http \subseteq Request
        /\ client \in [Client -> {"out", "asked", "joined", "in", "left"}] /\ link \in [Client -> Link]
    BY <2>1 DEF Init
  <2>4. /\ inbox \in [Wid -> Seq(Request)] /\ outbox \in [Wid -> Seq(Post)]
        /\ sub \in [Wid -> {"no", "asked", "in", "failed"}] /\ goal \in [Wid -> Link]
        /\ busy \in [Wid -> {"no", "subscribe", "edit"}]
        /\ down \in [Wid -> Seq({"201", "400", "changelog"})]
    BY <2>1 DEF Init
  <2>. QED BY <2>2, <2>3, <2>4 DEF TypeOK
<1>2. DOMAIN workers = {} /\ DOMAIN listeners = {}
  BY DEF Init
<1>3. \A w : ~Live(w) /\ (\A kind : ~IsA(w, kind)) /\ HeardBy(w) = {}
  BY <1>2 DEF Live, IsA, HeardBy
<1>4. /\ \A c \in Client : /\ client[c] = "out" /\ csid[c] = 0 /\ asid[c] = 0 /\ wire[c] = <<>>
                           /\ link[c] = NoLink /\ ~Own(c)
      /\ \A w \in Wid : /\ wire[w] = <<>> /\ sub[w] = "no" /\ inbox[w] = <<>> /\ outbox[w] = <<>>
                        /\ down[w] = <<>>
  BY Sockets DEF Init, Own
<1>5. Clients
  <2>1. ASSUME NEW c \in Client PROVE ClientWire(c)
    BY <1>4, TwoMessages DEF ClientWire
  <2>2. ASSUME NEW c \in Client PROVE ClientNames(c) /\ ClientListed(c)
    BY <1>3, <1>4 DEF ClientNames, ClientListed, NoLink
  <2>. QED BY <2>1, <2>2 DEF Clients
<1>6. Workers
  <2>1. ASSUME NEW w \in Wid PROVE WorkerNames(w) /\ FoundedBy(w)
    BY <1>3, <1>4 DEF WorkerNames, FoundedBy
  <2>2. ASSUME NEW w \in Wid PROVE SocketListed(w)
    BY <1>3, <1>4, ByeNoChange, OneMessage DEF SocketListed
  <2>. QED BY <2>1, <2>2 DEF Workers
<1>7. SubscribesOnce
  <2>1. http = {} /\ \A w \in Wid : DOMAIN inbox[w] = {}
    BY <1>4 DEF Init
  <2>. QED BY <1>4, <2>1 DEF SubscribesOnce, GuestOnce
<1>8. ListsAlive /\ RunnersListed
  BY <1>2 DEF ListsAlive, RunnersListed
<1>9. ~Departing
  <2>1. \A s \in Socket : DOMAIN wire[s] = {}
    BY DEF Init
  <2>. QED BY <2>1 DEF Departing
<1>10. Addressed
  <2>1. OnlyByes
    BY DEF Init, OnlyByes
  <2>. QED BY <2>1, OnlyByesAddressed
<1>11. StaysUp
  BY DEF Init, StaysUp
<1>. QED BY <1>1, <1>5, <1>6, <1>7, <1>8, <1>9, <1>10, <1>11 DEF IInv, Structure, Calm

LEMMA NextInv == IInv /\ [Next]_vars => IInv'
<1>. SUFFICES ASSUME IInv, [Next]_vars PROVE IInv'
  OBVIOUS
<1>1. TypeOK'
  BY NextTypes
<1>2. up' => Structure'
  BY NextStructure DEF IInv
<1>3. StaysUp' /\ (up' => Calm')
  BY NextCalm
<1>. QED BY <1>1, <1>2, <1>3 DEF IInv

LEMMA Invariance == Spec => []IInv
BY InitInv, NextInv, PTL DEF Spec

-----------------------------------------------------------------------------
(* The theorems.                                                           *)

\* Every worker id that the server or a worker keeps is that of a worker it may have made, every
\* request and message is one the code sends.
THEOREM TypesKept == Spec => []TypeOK
<1>1. IInv => TypeOK
  BY DEF IInv
<1>. QED BY <1>1, Invariance, PTL

\* session_manager.js throws nowhere in sessions used with care: for any number of clients and
\* workers, no message or request finds its worker gone.
THEOREM StaysUpWithCare == Spec => []StaysUp
<1>1. IInv => StaysUp
  BY DEF IInv
<1>. QED BY <1>1, Invariance, PTL

\* workerIds2socketIds and workers[] match: no list holds a socket that has gone, and no worker
\* runs that nobody needs, whoever left and in whatever order.
THEOREM ListsMatch == Spec => []ListsMatchProcesses
<1>1. ASSUME IInv PROVE ListenersAreServed
  <2>. SUFFICES ASSUME up, NEW w \in DOMAIN listeners
                PROVE  (\A s \in listeners[w] : ~Gone(s)) /\ (Live(w) \/ w \in joinedDead)
    BY DEF ListenersAreServed
  <2>1. TypeOK /\ Structure
    BY <1>1 DEF IInv
  <2>2. Live(w) \/ w \in joinedDead
    BY <2>1 DEF Structure, ListsAlive
  <2>3. ASSUME NEW s \in listeners[w] PROVE ~Gone(s)
    <3>1. s \in Socket /\ w \in HeardBy(s)
      BY <2>1, <2>3 DEF TypeOK, HeardBy
    <3>2. CASE s \in Client
      <4>1. client[s] \in {"joined", "in"} \/ wire[s] = <<Bye>>
        BY <2>1, <3>1, <3>2 DEF Structure, Clients, ClientListed
      <4>. QED BY <3>2, <4>1, OneMessage DEF Gone
    <3>3. CASE s \in Wid
      <4>1. Live(s) \/ wire[s] = <<Bye>>
        BY <2>1, <3>1, <3>3 DEF Structure, Workers, SocketListed
      <4>. QED BY <3>3, <4>1, OneMessage, Sockets DEF Gone
    <3>. QED BY <3>1, <3>2, <3>3 DEF Socket
  <2>. QED BY <2>2, <2>3
<1>2. ASSUME IInv PROVE WorkersAreWanted
  <2>. SUFFICES ASSUME up, NEW w \in DOMAIN workers, Live(w), listeners[w] = {}
                PROVE  \/ workers[w].kind = "as" /\ sub[w - 1] \in {"no", "asked"}
                          /\ (Live(w - 1) \/ wire[w - 1] # <<>>)
                       \/ Forsaken(w)
    BY DEF WorkersAreWanted
  <2>1. TypeOK /\ Structure /\ w \in Wid
    BY <1>2, WorkerIds DEF IInv
  <2>2. IsA(w, "as")
    <3>1. workers[w].kind # "cs"
      BY <2>1 DEF Structure, RunnersListed
    <3>. QED BY <2>1, <3>1, WorkerIds DEF IsA
  <2>3. w - 1 \in Wid
    BY <2>1, <2>2, WorkerIds DEF Structure, Workers, WorkerNames
  <2>4. CASE sub[w - 1] = "no"
    BY <2>2, <2>4 DEF Forsaken, IsA
  <2>5. CASE sub[w - 1] # "no"
    <3>1. wire[w - 1] \in Change1
      BY <2>1, <2>2, <2>5 DEF Structure, Workers, FoundedBy
    <3>2. sub[w - 1] = "asked"
      BY <2>1, <2>3, <3>1 DEF Structure, Workers, SocketListed
    <3>. QED BY <2>2, <3>1, <3>2, ByeNoChange DEF IsA
  <2>. QED BY <2>4, <2>5
<1>3. IInv => ListsMatchProcesses
  BY <1>1, <1>2 DEF ListsMatchProcesses
<1>. QED BY <1>3, Invariance, PTL
=============================================================================
