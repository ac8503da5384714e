------------------------- MODULE WorkerLocksProofs -------------------------
(***************************************************************************)
(* What holds of WorkerLocks for every set of requests and every way they  *)
(* are batched: type correctness, exact counters, exclusion of writers, no *)
(* lost wakeup, complete bursts, and backstage passes that do no harm. The *)
(* inductive invariant says what the code relies on and never checks: a    *)
(* request has at most one call on the stack, a queued request is queued   *)
(* once, and a batch has not yet sent the requests that come after the     *)
(* last one it sent.                                                       *)
(***************************************************************************)
EXTENDS WorkerLocks, FiniteSetTheorems, TLAPS

(* Sequences of calls.                                                     *)

\* The innermost call is a call, and returning from it leaves the others.
LEMMA PoppedCalls ==
    ASSUME stack \in Seq(Frame), stack # <<>>
    PROVE  /\ Popped \in Seq(Frame)
           /\ Len(Popped) = Len(stack) - 1
           /\ \A i \in 1 .. Len(Popped) : Popped[i] = stack[i]
           /\ Len(stack) \in 1 .. Len(stack)
           /\ Top = stack[Len(stack)]
           /\ Top \in Frame
<1>1. PICK n \in Nat : n = Len(stack) - 1
  OBVIOUS
<1>2. Popped = SubSeq(stack, 1, n)
  BY <1>1 DEF Popped
<1>3. Popped \in Seq(Frame) /\ Len(Popped) = n
  BY <1>1, <1>2
<1>4. \A i \in 1 .. n : SubSeq(stack, 1, n)[i] = stack[i]
  BY <1>1
<1>5. Len(stack) \in 1 .. Len(stack) /\ Top = stack[Len(stack)] /\ Top \in Frame
  BY DEF Top
<1>. QED
  BY <1>1, <1>2, <1>3, <1>4, <1>5

\* Posting a message leaves the calls below it, then has process.send to run
\* and, over it, the queue.
LEMMA PostedCalls ==
    ASSUME NEW r \in Req, NEW below \in Seq(Frame),
           stack' = below \o <<Call("send", r)>> \o RunFrames(r)
    PROVE  /\ stack' \in Seq(Frame)
           /\ Len(stack') \in {Len(below) + 1, Len(below) + 2}
           /\ lockInfo[r] # "none" => Len(stack') = Len(below) + 2
           /\ \A i \in 1 .. Len(below) : stack'[i] = below[i]
           /\ stack'[Len(below) + 1] = Call("send", r)
           /\ Len(stack') = Len(below) + 2 => stack'[Len(below) + 2] = Call("run", NoReq)
<1>. DEFINE send == Call("send", r)
           run  == Call("run", NoReq)
<1>1. send \in Frame /\ run \in Frame
  BY DEF Frame, Call
<1>2. CASE lockInfo[r] = "none"
  <2>1. stack' = (below \o <<send>>) \o <<>>
    BY <1>2 DEF RunFrames
  <2>. HIDE DEF send, run
  <2>2. stack' = below \o <<send>>
    BY <1>1, <2>1
  <2>3. stack' \in Seq(Frame) /\ Len(stack') = Len(below) + 1
    BY ONLY <1>1, <2>2, below \in Seq(Frame)
  <2>4. stack'[Len(below) + 1] = send /\ \A i \in 1 .. Len(below) : stack'[i] = below[i]
    BY ONLY <1>1, <2>2, below \in Seq(Frame)
  <2>. QED BY <1>2, <2>3, <2>4 DEF send
<1>3. CASE lockInfo[r] # "none"
  <2>1. stack' = (below \o <<send>>) \o <<run>>
    BY <1>3 DEF RunFrames
  <2>. HIDE DEF send, run
  <2>2. stack' \in Seq(Frame) /\ Len(stack') = Len(below) + 2
    BY ONLY <1>1, <2>1, below \in Seq(Frame)
  <2>3. /\ stack'[Len(below) + 2] = run
        /\ stack'[Len(below) + 1] = send
        /\ \A i \in 1 .. Len(below) : stack'[i] = below[i]
    BY ONLY <1>1, <2>1, below \in Seq(Frame)
  <2>. QED BY <1>3, <2>2, <2>3 DEF send, run
<1>. QED
  BY <1>2, <1>3

-----------------------------------------------------------------------------
(* Type correctness.                                                       *)

\* The numbers a worker gives out are natural numbers.
LEMMA NumberedIsFinite == Cardinality(Numbered) \in Nat
<1>1. Numbered \in SUBSET Req /\ IsFiniteSet(Req)
  BY ConstantsAssumption DEF Numbered
<1>. QED
  BY <1>1, FS_Subset, FS_CardinalityType

\* Counters stay natural numbers when a request gives its place back.
LEMMA ReleaseTypes ==
    ASSUME TypeOK, NEW r \in Req, Release(r)
    PROVE  /\ numReaders' \in Nat /\ numWriters' \in Nat /\ rLocks' \in Nat
           /\ lockInfo' = lockInfo /\ reqQueue' = reqQueue
BY DEF TypeOK, Release, Less

\* Posting a message keeps every variable it touches in its type.
LEMMA PostTypes ==
    ASSUME TypeOK, NEW r \in Req, NEW success \in BOOLEAN,
           NEW below \in Seq(Frame), PostMessage(r, success, below),
           backstagePass' \in Req \cup {NoReq},
           passOf' \in [Req -> Req \cup {NoReq}],
           at' \in [Req -> Nat], failed' \in [Req -> BOOLEAN]
    PROVE  TypeOK'
<1>1. /\ numReaders' \in Nat /\ numWriters' \in Nat /\ rLocks' \in Nat
      /\ lockInfo' \in [Req -> {"none", "reader", "writer"}]
      /\ reqQueue' \in Seq(Req)
  BY ReleaseTypes DEF PostMessage, TypeOK
<1>2. ok' \in [Req -> BOOLEAN] /\ wire' \in Seq(Nat)
  BY DEF PostMessage, TypeOK
<1>3. phase' \in [Req -> Phase]
  BY DEF PostMessage, TypeOK, Phase
<1>4. seqNo' \in [Req -> Nat]
  <2>1. (IF success /\ Kind[r] = "write" THEN Cardinality(Numbered) + 1 ELSE 0) \in Nat
    BY NumberedIsFinite
  <2>. QED BY <2>1 DEF PostMessage, TypeOK
<1>5. stack' \in Seq(Frame)
  BY PostedCalls DEF PostMessage
<1>. QED
  BY <1>1, <1>2, <1>3, <1>4, <1>5 DEF TypeOK

\* Sending the i-th request of a batch does too.
LEMMA IssueTypes ==
    ASSUME TypeOK, NEW b \in Req, NEW i \in DOMAIN Subs[b], Issue(b, i)
    PROVE  /\ Subs[b][i] \in Req
           /\ at' \in [Req -> Nat]
           /\ phase' \in [Req -> Phase]
           /\ backstagePass' \in Req \cup {NoReq}
           /\ passOf' \in [Req -> Req \cup {NoReq}]
<1>1. Subs[b][i] \in Req /\ i \in Nat
  BY ConstantsAssumption
<1>. QED
  BY <1>1 DEF Issue, TypeOK, Phase

\* At the start every variable has its type.
LEMMA InitTypes == Init => TypeOK
BY DEF Init, TypeOK, Phase, Frame

\* Every step of the worker keeps every variable in its type.
LEMMA NextTypes == TypeOK /\ [Next]_vars => TypeOK'
<1>. SUFFICES ASSUME TypeOK, [Next]_vars
              PROVE  TypeOK'
  OBVIOUS
<1>1. CASE UNCHANGED vars
  BY <1>1 DEF TypeOK, vars, locks, batch
<1>2. ASSUME RunHead PROVE TypeOK'
  <2>1. /\ Head(reqQueue) \in Req
        /\ Tail(reqQueue) \in Seq(Req)
    BY <1>2 DEF RunHead, HeadMayRun, TypeOK
  <2>2. Append(stack, Call("handle", Head(reqQueue))) \in Seq(Frame)
    BY <2>1 DEF TypeOK, Frame, Call
  <2>3. /\ numReaders' \in Nat /\ numWriters' \in Nat /\ rLocks' \in Nat
        /\ lockInfo' \in [Req -> {"none", "reader", "writer"}]
    BY <1>2, <2>1 DEF RunHead, Grant, TypeOK
  <2>4. phase' \in [Req -> Phase]
    BY <1>2 DEF RunHead, TypeOK, Phase
  <2>. QED BY <1>2, <2>1, <2>2, <2>3, <2>4 DEF RunHead, TypeOK, batch
<1>3. ASSUME RunStops PROVE TypeOK'
  BY <1>3, PoppedCalls DEF RunStops, TypeOK, locks, batch
<1>4. ASSUME Send PROVE TypeOK'
  <2>1. Top \in Frame /\ Popped \in Seq(Frame)
    BY <1>4, PoppedCalls DEF Send, TypeOK
  <2>2. Top.req \in Req
    BY <1>4, <2>1 DEF Send, Frame
  <2>3. phase' \in [Req -> Phase]
    BY <1>4 DEF Send, TypeOK, Phase
  <2>4. wire' \in Seq(Nat)
    BY <1>4, <2>2 DEF Send, TypeOK
  <2>. QED BY <1>4, <2>1, <2>3, <2>4 DEF Send, TypeOK, locks, batch
<1>5. ASSUME NEW r \in Req, HandleNow(r) PROVE TypeOK'
  <2>1. Popped \in Seq(Frame)
    BY <1>5, PoppedCalls DEF HandleNow, TypeOK
  <2>. QED BY <1>5, <2>1, PostTypes DEF HandleNow, batch, TypeOK
<1>6. ASSUME NEW r \in Req, HandleLater(r) PROVE TypeOK'
  BY <1>6, PoppedCalls DEF HandleLater, TypeOK, locks, batch
<1>7. ASSUME NEW b \in Req, HandleBatch(b) PROVE TypeOK'
  <2>1. 1 \in DOMAIN Subs[b]
    <3>1. Subs[b] \in Seq(Req) /\ Subs[b] # <<>>
      BY <1>7, ConstantsAssumption DEF HandleBatch, IsPlain
    <3>. QED BY <3>1
  <2>2. Popped \in Seq(Frame)
    BY <1>7, PoppedCalls DEF HandleBatch, TypeOK
  <2>. QED BY <1>7, <2>1, <2>2, IssueTypes DEF HandleBatch, TypeOK, locks
<1>8. ASSUME NEW b \in Req, HandleNestedBatch(b) PROVE TypeOK'
  BY <1>8, PoppedCalls DEF HandleNestedBatch, TypeOK, Phase, locks, batch
<1>9. ASSUME NEW r \in Req, ArriveWithPass(r) PROVE TypeOK'
  <2>1. CASE backstagePass # NoReq /\ passOf[r] = backstagePass
    <3>1. <<Call("handle", r)>> \in Seq(Frame)
      BY DEF Frame, Call
    <3>2. phase' \in [Req -> Phase]
      <4>1. phase' = [phase EXCEPT ![r] = "running"]
        BY <1>9, <2>1 DEF ArriveWithPass
      <4>. QED BY <4>1 DEF TypeOK, Phase
    <3>. QED BY <1>9, <2>1, <3>1, <3>2 DEF ArriveWithPass, TypeOK, locks, batch
  <2>2. CASE ~(backstagePass # NoReq /\ passOf[r] = backstagePass)
    <3>1. <<>> \in Seq(Frame)
      OBVIOUS
    <3>. QED BY <1>9, <2>2, <3>1, PostTypes DEF ArriveWithPass, TypeOK, batch
  <2>. QED BY <2>1, <2>2
<1>10. ASSUME NEW r \in Req, ArriveAndProceed(r) PROVE TypeOK'
  <2>1. <<Call("handle", r)>> \in Seq(Frame)
    BY DEF Frame, Call
  <2>2. /\ numReaders' \in Nat /\ numWriters' \in Nat /\ rLocks' \in Nat
        /\ lockInfo' \in [Req -> {"none", "reader", "writer"}]
    BY <1>10 DEF ArriveAndProceed, Grant, TypeOK
  <2>3. phase' \in [Req -> Phase]
    BY <1>10 DEF ArriveAndProceed, TypeOK, Phase
  <2>. QED BY <1>10, <2>1, <2>2, <2>3 DEF ArriveAndProceed, TypeOK, batch
<1>11. ASSUME NEW r \in Req, ArriveAndQueue(r) PROVE TypeOK'
  BY <1>11 DEF ArriveAndQueue, TypeOK, Phase, batch
<1>12. ASSUME NEW r \in Req, Respond(r) PROVE TypeOK'
  <2>1. <<>> \in Seq(Frame)
    OBVIOUS
  <2>. QED BY <1>12, <2>1, PostTypes DEF Respond, batch, TypeOK
<1>13. ASSUME NEW b \in Req, BatchGoesOn(b) PROVE TypeOK'
  <2>1. at[b] + 1 \in DOMAIN Subs[b]
    <3>1. Subs[b] \in Seq(Req) /\ at[b] \in Nat
      BY ConstantsAssumption DEF TypeOK
    <3>. QED BY <1>13, <3>1 DEF BatchGoesOn
  <2>. QED BY <1>13, <2>1, IssueTypes DEF BatchGoesOn, TypeOK, locks
<1>14. ASSUME NEW b \in Req, BatchSucceeds(b) PROVE TypeOK'
  <2>1. <<>> \in Seq(Frame)
    OBVIOUS
  <2>. QED BY <1>14, <2>1, PostTypes DEF BatchSucceeds, ForgetPass, TypeOK
<1>15. ASSUME NEW b \in Req, BatchUndoes(b) PROVE TypeOK'
  BY <1>15 DEF BatchUndoes, TypeOK, Phase, locks
<1>16. ASSUME NEW b \in Req, BatchFails(b) PROVE TypeOK'
  <2>1. <<>> \in Seq(Frame)
    OBVIOUS
  <2>. QED BY <1>16, <2>1, PostTypes DEF BatchFails, ForgetPass, TypeOK
<1>. QED
  BY <1>1, <1>2, <1>3, <1>4, <1>5, <1>6, <1>7, <1>8, <1>9, <1>10, <1>11, <1>12,
     <1>13, <1>14, <1>15, <1>16
     DEF Next, Turn, Handle, Arrive, Collect

\* Whatever requests reach the worker, every variable keeps its type: counters
\* never go below zero and the queue and the stack hold only requests and calls.
THEOREM TypeCorrect == Spec => []TypeOK
BY InitTypes, NextTypes, PTL DEF Spec

-----------------------------------------------------------------------------
(* The inductive invariant.                                                *)

\* A request that has not been granted holds no place, and has sent nothing.
Fresh ==
    \A r \in Req : phase[r] \in {"idle", "transit", "queued"}
                        => lockInfo[r] = "none" /\ at[r] = 0

\* The stack has one call per request, which says where the request is.
CallsOnStack ==
    /\ \A i \in 1 .. Len(stack) :
          /\ stack[i].fn = "handle" => phase[stack[i].req] = "running" /\ at[stack[i].req] = 0
          /\ stack[i].fn = "send" => phase[stack[i].req] = "replying"
    /\ \A i, j \in 1 .. Len(stack) :
          stack[i].fn # "run" /\ stack[i].req = stack[j].req => i = j

\* The queue holds each request once.
QueueOfWaiting ==
    /\ \A i \in 1 .. Len(reqQueue) : phase[reqQueue[i]] = "queued"
    /\ \A i, j \in 1 .. Len(reqQueue) : reqQueue[i] = reqQueue[j] => i = j

\* What a batch has still to send has not been sent.
UnsentIdle ==
    \A b \in Req :
        /\ \A j \in DOMAIN Subs[b] : j > at[b] => phase[Subs[b][j]] = "idle"
        /\ Undo[b] # NoReq /\ ~failed[b] => phase[Undo[b]] = "idle"

Shape == Fresh /\ CallsOnStack /\ QueueOfWaiting /\ UnsentIdle

\* A queue whose head may run is about to be looked at.
WakeupPending == HeadMayRun => \E i \in 1 .. Len(stack) : stack[i].fn = "run"

Places == CountersExact /\ numWriters <= 1

IInv == TypeOK /\ Shape /\ Places /\ WakeupPending

-----------------------------------------------------------------------------
(* The shape of the calls, the queue and the batches is preserved.         *)

\* Returning from the innermost call leaves the stack well formed, and forgets
\* every call of its request.
LEMMA PoppedShape ==
    ASSUME TypeOK, CallsOnStack, stack # <<>>
    PROVE  /\ Popped \in Seq(Frame) /\ Top \in Frame
           /\ \A i \in 1 .. Len(Popped) :
                /\ i \in 1 .. Len(stack) /\ Popped[i] = stack[i]
                /\ Top.fn # "run" => Popped[i].req # Top.req
           /\ Top.fn = "handle" => phase[Top.req] = "running" /\ at[Top.req] = 0
           /\ Top.fn = "send" => phase[Top.req] = "replying"
<1>1. /\ Popped \in Seq(Frame) /\ Top \in Frame
      /\ Len(Popped) = Len(stack) - 1
      /\ \A i \in 1 .. Len(Popped) : Popped[i] = stack[i]
      /\ Len(stack) \in 1 .. Len(stack)
      /\ Top = stack[Len(stack)]
  BY PoppedCalls DEF TypeOK
<1>. QED
  BY <1>1 DEF CallsOnStack

\* A request whose message is posted leaves the stack, the queue and the
\* batches well formed.
LEMMA PostShape ==
    ASSUME TypeOK, Shape, NEW r \in Req, NEW success \in BOOLEAN,
           NEW below \in Seq(Frame), PostMessage(r, success, below),
           phase[r] \in {"running", "transit"},
           \A i \in 1 .. Len(below) :
              i \in 1 .. Len(stack) /\ below[i] = stack[i] /\ below[i].req # r,
           at' = at, failed' = failed
    PROVE  Shape'
<1>1. /\ phase' = [phase EXCEPT ![r] = "replying"]
      /\ lockInfo' = lockInfo /\ reqQueue' = reqQueue
      /\ stack' = below \o <<Call("send", r)>> \o RunFrames(r)
  BY DEF PostMessage, Release
<1>2. Fresh'
  BY <1>1 DEF Shape, Fresh, TypeOK
<1>3. CallsOnStack'
  <2>1. /\ stack' \in Seq(Frame)
        /\ Len(stack') \in {Len(below) + 1, Len(below) + 2}
        /\ \A i \in 1 .. Len(below) : stack'[i] = below[i]
        /\ stack'[Len(below) + 1] = Call("send", r)
        /\ Len(stack') = Len(below) + 2 => stack'[Len(below) + 2] = Call("run", NoReq)
    BY <1>1, PostedCalls
  <2>2. \A i \in 1 .. Len(stack') :
            \/ i \in 1 .. Len(below) /\ stack'[i] = stack[i] /\ stack'[i].req # r
            \/ i = Len(below) + 1 /\ stack'[i].fn = "send" /\ stack'[i].req = r
            \/ i = Len(below) + 2 /\ stack'[i].fn = "run" /\ stack'[i].req = NoReq
    <3>. TAKE i \in 1 .. Len(stack')
    <3>1. CASE i \in 1 .. Len(below)
      BY <2>1, <3>1
    <3>2. CASE i = Len(below) + 1
      BY <2>1, <3>2 DEF Call
    <3>3. CASE i = Len(below) + 2
      BY <2>1, <3>3 DEF Call
    <3>. QED BY <2>1, <3>1, <3>2, <3>3
  <2>3. NoReq # r /\ \A i \in 1 .. Len(stack) : stack[i].fn # "run" => stack[i].req # NoReq
    BY ConstantsAssumption DEF TypeOK, Frame
  <2>4. ASSUME NEW i \in 1 .. Len(stack')
        PROVE  /\ stack'[i].fn = "handle"
                      => phase'[stack'[i].req] = "running" /\ at'[stack'[i].req] = 0
               /\ stack'[i].fn = "send" => phase'[stack'[i].req] = "replying"
    <3>1. CASE i \in 1 .. Len(below) /\ stack'[i] = stack[i] /\ stack'[i].req # r
      <4>1. i \in 1 .. Len(stack)
        BY <3>1
      <4>2. stack[i] \in Frame
        BY <4>1 DEF TypeOK
      <4>3. stack[i].fn # "run" => stack[i].req \in Req
        BY <4>2 DEF Frame
      <4>. QED BY <1>1, <3>1, <4>1, <4>3 DEF Shape, CallsOnStack, TypeOK
    <3>2. CASE stack'[i].fn = "send" /\ stack'[i].req = r
      BY <1>1, <3>2 DEF TypeOK
    <3>3. CASE stack'[i].fn = "run"
      BY <3>3
    <3>. QED BY <2>2, <3>1, <3>2, <3>3
  <2>5. ASSUME NEW i \in 1 .. Len(stack'), NEW j \in 1 .. Len(stack'),
               stack'[i].fn # "run", stack'[i].req = stack'[j].req
        PROVE  i = j
    <3>1. \A m, n \in 1 .. Len(stack) :
              stack[m].fn # "run" /\ stack[m].req = stack[n].req => m = n
      BY DEF Shape, CallsOnStack
    <3>2. CASE i \in 1 .. Len(below)
      <4>1. i \in 1 .. Len(stack) /\ stack'[i] = stack[i] /\ stack[i].req \notin {r, NoReq}
        <5>1. i \in 1 .. Len(below) /\ stack'[i] = stack[i] /\ stack'[i].req # r
          BY <2>2, <3>2
        <5>. QED BY <2>3, <2>5, <5>1
      <4>2. j \in 1 .. Len(below)
        BY <2>2, <2>5, <4>1
      <4>3. j \in 1 .. Len(stack) /\ stack'[j] = stack[j]
        BY <2>2, <4>2
      <4>. QED BY <2>5, <3>1, <4>1, <4>3
    <3>3. CASE i = Len(below) + 1
      BY <2>2, <2>3, <2>5, <3>3
    <3>. QED BY <2>2, <2>5, <3>2, <3>3
  <2>. QED BY <2>4, <2>5 DEF CallsOnStack
<1>4. QueueOfWaiting'
  <2>1. \A i \in 1 .. Len(reqQueue) : reqQueue[i] \in Req
    BY DEF TypeOK
  <2>. QED BY <1>1, <2>1 DEF Shape, QueueOfWaiting, TypeOK
<1>5. UnsentIdle'
  <2>1. ASSUME NEW b \in Req, NEW j \in DOMAIN Subs[b] PROVE Subs[b][j] \in Req
    BY ConstantsAssumption
  <2>2. \A b \in Req : Undo[b] \in Req \cup {NoReq}
    BY ConstantsAssumption
  <2>. QED BY <1>1, <2>1, <2>2 DEF Shape, UnsentIdle, TypeOK
<1>. QED
  BY <1>2, <1>3, <1>4, <1>5 DEF Shape

\* The same for an answer posted in a turn of its own.
LEMMA PostAloneShape ==
    ASSUME TypeOK, Shape, NEW r \in Req, NEW success \in BOOLEAN,
           PostMessage(r, success, <<>>), phase[r] \in {"running", "transit"},
           at' = at, failed' = failed
    PROVE  Shape'
<1>1. <<>> \in Seq(Frame) /\ 1 .. Len(<<>>) = {}
  OBVIOUS
<1>2. PICK below \in Seq(Frame) : below = <<>> /\ 1 .. Len(below) = {}
  BY <1>1
<1>3. PostMessage(r, success, below)
  BY <1>2
<1>. QED
  BY <1>2, <1>3, PostShape

\* Calls that remain on the stack are still where their requests are, if those
\* requests have not moved.
LEMMA CallsKept ==
    ASSUME CallsOnStack,
           \A k \in 1 .. Len(stack') :
              /\ k \in 1 .. Len(stack) /\ stack'[k] = stack[k]
              /\ stack[k].fn # "run" => /\ phase'[stack[k].req] = phase[stack[k].req]
                                        /\ at'[stack[k].req] = at[stack[k].req]
    PROVE  CallsOnStack'
BY DEF CallsOnStack

\* The calls of a request in progress are the only ones on the stack for it.
LEMMA NoCallYet ==
    ASSUME TypeOK, CallsOnStack, NEW r \in Req, phase[r] \notin {"running", "replying"},
           NEW i \in 1 .. Len(stack)
    PROVE  stack[i].req # r
<1>1. stack[i] \in Frame
  BY DEF TypeOK
<1>. QED
  BY <1>1, ConstantsAssumption DEF CallsOnStack, Frame

\* A batch that sends its next request leaves everything well formed.
LEMMA IssueShape ==
    ASSUME TypeOK, Shape, NEW b \in Req, NEW i \in DOMAIN Subs[b], i = at[b] + 1,
           Issue(b, i), phase[b] = "running",
           failed' = failed, lockInfo' = lockInfo, reqQueue' = reqQueue,
           \A k \in 1 .. Len(stack') :
              k \in 1 .. Len(stack) /\ stack'[k] = stack[k] /\ stack[k].req # b
    PROVE  Shape'
<1>1. PICK s \in Req : s = Subs[b][i]
  BY ConstantsAssumption
<1>2. phase[s] = "idle"
  BY <1>1, ConstantsAssumption DEF Shape, UnsentIdle, TypeOK
<1>3. phase' = [phase EXCEPT ![s] = "transit"] /\ at' = [at EXCEPT ![b] = i]
  BY <1>1 DEF Issue
<1>4. s # b
  BY <1>2
<1>5. Fresh'
  BY <1>2, <1>3, <1>4 DEF Shape, Fresh, TypeOK
<1>6. CallsOnStack'
  <2>1. ASSUME NEW k \in 1 .. Len(stack')
        PROVE  /\ k \in 1 .. Len(stack) /\ stack'[k] = stack[k]
               /\ stack[k].fn # "run" => /\ phase'[stack[k].req] = phase[stack[k].req]
                                         /\ at'[stack[k].req] = at[stack[k].req]
    <3>1. k \in 1 .. Len(stack) /\ stack'[k] = stack[k] /\ stack[k].req # b
      OBVIOUS
    <3>2. stack[k].req # s
      BY <1>2, <3>1, NoCallYet DEF Shape
    <3>. QED BY <1>3, <3>1, <3>2 DEF TypeOK
  <2>. QED BY <2>1, CallsKept DEF Shape
<1>7. QueueOfWaiting'
  <2>1. \A k \in 1 .. Len(reqQueue) : reqQueue[k] \in Req
    BY DEF TypeOK
  <2>. QED BY <1>2, <1>3, <2>1 DEF Shape, QueueOfWaiting, TypeOK
<1>8. UnsentIdle'
  <2>. SUFFICES ASSUME NEW c \in Req
                PROVE  /\ \A j \in DOMAIN Subs[c] : j > at'[c] => phase'[Subs[c][j]] = "idle"
                       /\ Undo[c] # NoReq /\ ~failed'[c] => phase'[Undo[c]] = "idle"
    BY DEF UnsentIdle
  <2>1. ASSUME NEW j \in DOMAIN Subs[c], j > at'[c]
        PROVE  phase'[Subs[c][j]] = "idle"
    <3>1. Subs[c] \in Seq(Req) /\ Subs[c][j] \in Req /\ j \in Nat
      BY ConstantsAssumption
    <3>2. j > at[c]
      BY <1>3, <2>1, <3>1 DEF TypeOK
    <3>3. Subs[c][j] = s => c = b /\ j = i
      BY <1>1, ConstantsAssumption
    <3>4. Subs[c][j] # s
      BY <1>3, <2>1, <3>1, <3>3 DEF TypeOK
    <3>. QED BY <1>3, <3>1, <3>2, <3>4 DEF Shape, UnsentIdle, TypeOK
  <2>2. ASSUME Undo[c] # NoReq, ~failed'[c]
        PROVE  phase'[Undo[c]] = "idle"
    <3>1. Undo[c] \in Req
      BY <2>2, ConstantsAssumption
    <3>2. s \in SubsOf(b)
      BY <1>1 DEF SubsOf
    <3>3. Undo[c] # s
      <4>1. CASE b = c
        BY <2>2, <3>1, <3>2, <4>1, ConstantsAssumption
      <4>2. CASE b # c
        <5>1. s \in Req /\ Parents[s] = { d \in Req : s \in SubsOf(d) \/ s = Undo[d] }
          BY <1>1, ConstantsAssumption DEF Parents
        <5>2. b \in Parents[s]
          BY <3>2, <5>1
        <5>. QED BY <2>2, <3>1, <4>2, <5>2, ConstantsAssumption
      <4>. QED BY <4>1, <4>2
    <3>. QED BY <1>3, <2>2, <3>1, <3>3 DEF Shape, UnsentIdle, TypeOK
  <2>. QED BY <2>1, <2>2
<1>. QED
  BY <1>5, <1>6, <1>7, <1>8 DEF Shape

\* A request that is given to its handler at the top of the calls of the turn.
LEMMA StartShape ==
    ASSUME TypeOK, Shape, NEW r \in Req, phase[r] \in {"transit", "queued"},
           phase' = [phase EXCEPT ![r] = "running"], at' = at, failed' = failed,
           lockInfo' \in [Req -> {"none", "reader", "writer"}],
           \A q \in Req : q # r => lockInfo'[q] = lockInfo[q],
           stack' = Append(stack, Call("handle", r))
    PROVE  Fresh' /\ CallsOnStack' /\ UnsentIdle'
<1>1. Fresh'
  BY DEF Shape, Fresh, TypeOK
<1>2. CallsOnStack'
  <2>1. PICK f \in Frame : f = Call("handle", r)
    BY DEF Frame, Call
  <2>2. stack' = Append(stack, f)
    BY <2>1
  <2>3. Len(stack') = Len(stack) + 1 /\ stack'[Len(stack) + 1] = f
    BY ONLY <2>1, <2>2, TypeOK DEF TypeOK
  <2>4. \A i \in 1 .. Len(stack) : stack'[i] = stack[i] /\ stack[i] \in Frame
    BY ONLY <2>1, <2>2, TypeOK DEF TypeOK
  <2>5. f.fn = "handle" /\ f.req = r /\ phase'[r] = "running" /\ at'[r] = 0
    BY <2>1 DEF Call, Shape, Fresh, TypeOK
  <2>6. \A i \in 1 .. Len(stack) : stack[i].req # r
    BY NoCallYet DEF Shape
  <2>7. \A i \in 1 .. Len(stack) : stack[i].fn # "run" =>
            /\ phase'[stack[i].req] = phase[stack[i].req]
            /\ at'[stack[i].req] = at[stack[i].req]
    BY <2>4, <2>6 DEF TypeOK, Frame
  <2>8. Len(stack) \in Nat
    BY DEF TypeOK
  <2>. QED BY <2>3, <2>4, <2>5, <2>6, <2>7, <2>8 DEF Shape, CallsOnStack
<1>3. UnsentIdle'
  <2>1. \A b \in Req : /\ \A j \in DOMAIN Subs[b] : Subs[b][j] \in Req
                       /\ Undo[b] \in Req \cup {NoReq}
    BY ConstantsAssumption
  <2>. QED BY <2>1 DEF Shape, UnsentIdle, TypeOK
<1>. QED
  BY <1>1, <1>2, <1>3

\* Every step of the worker keeps the calls, the queue and the batches well formed.
LEMMA NextShape == TypeOK /\ Shape /\ [Next]_vars => Shape'
<1>. SUFFICES ASSUME TypeOK, Shape, [Next]_vars
              PROVE  Shape'
  OBVIOUS
<1>0. /\ \A k \in 1 .. Len(reqQueue) : reqQueue[k] \in Req
      /\ \A b \in Req : /\ \A j \in DOMAIN Subs[b] : Subs[b][j] \in Req
                        /\ Undo[b] \in Req \cup {NoReq}
      /\ <<>> \in Seq(Frame) /\ Len(<<>>) = 0
  BY ConstantsAssumption DEF TypeOK
<1>1. CASE UNCHANGED vars
  BY <1>1 DEF vars, locks, batch, Shape, Fresh, CallsOnStack, QueueOfWaiting, UnsentIdle
<1>2. ASSUME RunHead PROVE Shape'
  <2>1. PICK h \in Req : h = Head(reqQueue) /\ h = reqQueue[1] /\ phase[h] = "queued"
    BY <1>2 DEF RunHead, HeadMayRun, TypeOK, Shape, QueueOfWaiting
  <2>2. Fresh' /\ CallsOnStack' /\ UnsentIdle'
    BY <1>2, <2>1, StartShape DEF RunHead, Grant, TypeOK, batch
  <2>3. QueueOfWaiting'
    <3>1. /\ reqQueue' = Tail(reqQueue) /\ reqQueue # <<>>
          /\ phase' = [phase EXCEPT ![h] = "running"]
      BY <1>2, <2>1 DEF RunHead, HeadMayRun
    <3>2. \A k \in 1 .. Len(reqQueue') :
              k + 1 \in 1 .. Len(reqQueue) /\ reqQueue'[k] = reqQueue[k + 1]
      BY <3>1 DEF TypeOK
    <3>3. \A k \in 1 .. Len(reqQueue') : reqQueue'[k] # h
      BY <2>1, <3>2 DEF Shape, QueueOfWaiting
    <3>4. ASSUME NEW k \in 1 .. Len(reqQueue')
          PROVE  phase'[reqQueue'[k]] = "queued"
      <4>1. reqQueue[k + 1] \in Req /\ phase[reqQueue[k + 1]] = "queued"
        BY <1>0, <3>2 DEF Shape, QueueOfWaiting
      <4>2. reqQueue'[k] = reqQueue[k + 1] /\ reqQueue'[k] # h
        BY <3>2, <3>3
      <4>. QED BY <3>1, <4>1, <4>2 DEF TypeOK
    <3>5. ASSUME NEW k \in 1 .. Len(reqQueue'), NEW l \in 1 .. Len(reqQueue'),
                 reqQueue'[k] = reqQueue'[l]
          PROVE  k = l
      <4>1. k + 1 = l + 1
        BY <3>2, <3>5 DEF Shape, QueueOfWaiting
      <4>. QED BY <4>1
    <3>. QED BY <3>4, <3>5 DEF QueueOfWaiting
  <2>. QED BY <2>2, <2>3 DEF Shape
<1>3. ASSUME RunStops PROVE Shape'
  <2>1. CallsOnStack'
    BY <1>3, PoppedShape, CallsKept DEF RunStops, Shape, batch
  <2>. QED BY <1>3, <2>1 DEF RunStops, locks, batch, Shape, Fresh, QueueOfWaiting, UnsentIdle
<1>4. ASSUME Send PROVE Shape'
  <2>1. PICK r \in Req : Top.req = r /\ Top.fn = "send" /\ phase[r] = "replying"
    BY <1>4, PoppedShape DEF Send, Shape, Frame
  <2>2. /\ phase' = [phase EXCEPT ![r] = "answered"] /\ at' = at /\ failed' = failed
        /\ lockInfo' = lockInfo /\ reqQueue' = reqQueue /\ stack' = Popped /\ stack # <<>>
    BY <1>4, <2>1 DEF Send, locks, batch
  <2>3. CallsOnStack'
    <3>1. ASSUME NEW k \in 1 .. Len(stack')
          PROVE  k \in 1 .. Len(stack) /\ stack'[k] = stack[k] /\ stack[k].req # r
      BY <2>1, <2>2, PoppedShape DEF Shape
    <3>. QED BY <2>2, <3>1, CallsKept DEF Shape, TypeOK
  <2>4. Fresh'
    BY <2>1, <2>2 DEF Shape, Fresh, TypeOK
  <2>5. QueueOfWaiting'
    BY <1>0, <2>1, <2>2 DEF Shape, QueueOfWaiting, TypeOK
  <2>6. UnsentIdle'
    BY <1>0, <2>1, <2>2 DEF Shape, UnsentIdle, TypeOK
  <2>. QED BY <2>3, <2>4, <2>5, <2>6 DEF Shape
<1>5. ASSUME NEW r \in Req, HandleNow(r) PROVE Shape'
  <2>1. Top.fn = "handle" /\ Top.req = r /\ stack # <<>>
    BY <1>5 DEF HandleNow, Call
  <2>. QED BY <1>5, <2>1, PoppedShape, PostShape DEF HandleNow, Shape, batch
<1>6. ASSUME NEW r \in Req, HandleLater(r) PROVE Shape'
  <2>1. CallsOnStack'
    BY <1>6, PoppedShape, CallsKept DEF HandleLater, Shape, batch
  <2>. QED BY <1>6, <2>1 DEF HandleLater, locks, batch, Shape, Fresh, QueueOfWaiting, UnsentIdle
<1>7. ASSUME NEW b \in Req, HandleBatch(b) PROVE Shape'
  <2>1. Top.fn = "handle" /\ Top.req = b /\ stack # <<>>
    BY <1>7 DEF HandleBatch, Call
  <2>2. phase[b] = "running" /\ 1 = at[b] + 1
    BY <2>1, PoppedShape DEF Shape
  <2>3. 1 \in DOMAIN Subs[b]
    <3>1. Subs[b] \in Seq(Req) /\ Subs[b] # <<>>
      BY <1>7, ConstantsAssumption DEF HandleBatch, IsPlain
    <3>. QED BY <3>1
  <2>4. \A k \in 1 .. Len(stack') :
            k \in 1 .. Len(stack) /\ stack'[k] = stack[k] /\ stack[k].req # b
    BY <1>7, <2>1, PoppedShape DEF HandleBatch, Shape
  <2>. QED BY <1>7, <2>2, <2>3, <2>4, IssueShape DEF HandleBatch, locks
<1>8. ASSUME NEW b \in Req, HandleNestedBatch(b) PROVE Shape'
  <2>1. Top.fn = "handle" /\ Top.req = b /\ stack # <<>> /\ phase[b] = "running"
    BY <1>8, PoppedShape DEF HandleNestedBatch, Call, Shape
  <2>2. /\ phase' = [phase EXCEPT ![b] = "lost"] /\ at' = at /\ failed' = failed
        /\ lockInfo' = lockInfo /\ reqQueue' = reqQueue /\ stack' = Popped
    BY <1>8 DEF HandleNestedBatch, locks, batch
  <2>3. CallsOnStack'
    <3>1. ASSUME NEW k \in 1 .. Len(stack')
          PROVE  k \in 1 .. Len(stack) /\ stack'[k] = stack[k] /\ stack[k].req # b
      BY <2>1, <2>2, PoppedShape DEF Shape
    <3>. QED BY <2>2, <3>1, CallsKept DEF Shape, TypeOK
  <2>4. Fresh'
    BY <2>1, <2>2 DEF Shape, Fresh, TypeOK
  <2>5. QueueOfWaiting'
    BY <1>0, <2>1, <2>2 DEF Shape, QueueOfWaiting, TypeOK
  <2>6. UnsentIdle'
    BY <1>0, <2>1, <2>2 DEF Shape, UnsentIdle, TypeOK
  <2>. QED BY <2>3, <2>4, <2>5, <2>6 DEF Shape
<1>9. ASSUME NEW r \in Req, ArriveWithPass(r) PROVE Shape'
  <2>1. CASE backstagePass # NoReq /\ passOf[r] = backstagePass
    <3>1. stack' = Append(stack, Call("handle", r)) /\ phase[r] = "transit"
      BY <1>9, <2>1 DEF ArriveWithPass
    <3>2. /\ phase' = [phase EXCEPT ![r] = "running"] /\ at' = at /\ failed' = failed
          /\ lockInfo' = lockInfo /\ reqQueue' = reqQueue
      BY <1>9, <2>1 DEF ArriveWithPass, locks, batch
    <3>3. Fresh' /\ CallsOnStack' /\ UnsentIdle'
      BY <3>1, <3>2, StartShape DEF TypeOK
    <3>4. QueueOfWaiting'
      BY <1>0, <3>1, <3>2 DEF Shape, QueueOfWaiting, TypeOK
    <3>. QED BY <3>3, <3>4 DEF Shape
  <2>2. CASE ~(backstagePass # NoReq /\ passOf[r] = backstagePass)
    BY <1>9, <2>2, PostAloneShape DEF ArriveWithPass, batch
  <2>. QED BY <2>1, <2>2
<1>10. ASSUME NEW r \in Req, ArriveAndProceed(r) PROVE Shape'
  <2>1. stack' = Append(stack, Call("handle", r)) /\ phase[r] = "transit"
    BY <1>10 DEF ArriveAndProceed
  <2>2. /\ phase' = [phase EXCEPT ![r] = "running"] /\ at' = at /\ failed' = failed
        /\ reqQueue' = reqQueue
        /\ lockInfo' \in [Req -> {"none", "reader", "writer"}]
        /\ \A q \in Req : q # r => lockInfo'[q] = lockInfo[q]
    BY <1>10 DEF ArriveAndProceed, Grant, batch, TypeOK
  <2>3. Fresh' /\ CallsOnStack' /\ UnsentIdle'
    BY <2>1, <2>2, StartShape
  <2>4. QueueOfWaiting'
    BY <1>0, <2>1, <2>2 DEF Shape, QueueOfWaiting, TypeOK
  <2>. QED BY <2>3, <2>4 DEF Shape
<1>11. ASSUME NEW r \in Req, ArriveAndQueue(r) PROVE Shape'
  <2>1. /\ phase[r] = "transit" /\ phase' = [phase EXCEPT ![r] = "queued"]
        /\ reqQueue' = Append(reqQueue, r) /\ lockInfo' = lockInfo
        /\ at' = at /\ failed' = failed /\ stack = <<>> /\ stack' = stack
    BY <1>11 DEF ArriveAndQueue, batch
  <2>2. Fresh'
    BY <2>1 DEF Shape, Fresh, TypeOK
  <2>3. CallsOnStack'
    BY <2>1 DEF CallsOnStack
  <2>4. QueueOfWaiting'
    <3>1. /\ Len(reqQueue') = Len(reqQueue) + 1 /\ reqQueue'[Len(reqQueue) + 1] = r
          /\ Len(reqQueue) \in Nat
          /\ \A k \in 1 .. Len(reqQueue) : reqQueue'[k] = reqQueue[k] /\ reqQueue[k] # r
      BY <2>1 DEF TypeOK, Shape, QueueOfWaiting
    <3>2. ASSUME NEW k \in 1 .. Len(reqQueue') PROVE phase'[reqQueue'[k]] = "queued"
      <4>1. CASE k = Len(reqQueue) + 1
        BY <2>1, <3>1, <4>1 DEF TypeOK
      <4>2. CASE k \in 1 .. Len(reqQueue)
        BY <1>0, <2>1, <3>1, <4>2 DEF Shape, QueueOfWaiting, TypeOK
      <4>. QED BY <3>1, <4>1, <4>2
    <3>3. ASSUME NEW k \in 1 .. Len(reqQueue'), NEW l \in 1 .. Len(reqQueue'),
                 reqQueue'[k] = reqQueue'[l]
          PROVE  k = l
      BY <3>1, <3>3 DEF Shape, QueueOfWaiting
    <3>. QED BY <3>2, <3>3 DEF QueueOfWaiting
  <2>5. UnsentIdle'
    BY <1>0, <2>1 DEF Shape, UnsentIdle, TypeOK
  <2>. QED BY <2>2, <2>3, <2>4, <2>5 DEF Shape
<1>12. ASSUME NEW r \in Req, Respond(r) PROVE Shape'
  BY <1>12, PostAloneShape DEF Respond, batch
<1>13. ASSUME NEW b \in Req, BatchGoesOn(b) PROVE Shape'
  <2>1. at[b] + 1 \in DOMAIN Subs[b]
    <3>1. Subs[b] \in Seq(Req) /\ at[b] \in Nat
      BY ConstantsAssumption DEF TypeOK
    <3>. QED BY <1>13, <3>1 DEF BatchGoesOn
  <2>. QED BY <1>0, <1>13, <2>1, IssueShape DEF BatchGoesOn, Answered, locks
<1>14. ASSUME NEW b \in Req, BatchSucceeds(b) PROVE Shape'
  BY <1>14, PostAloneShape DEF BatchSucceeds, Answered, ForgetPass
<1>15. ASSUME NEW b \in Req, BatchUndoes(b) PROVE Shape'
  <2>1. PICK u \in Req : u = Undo[b] /\ phase[u] = "idle"
    BY <1>15, ConstantsAssumption DEF BatchUndoes, MustUndo, Shape, UnsentIdle
  <2>2. /\ phase' = [phase EXCEPT ![u] = "transit"] /\ at' = at
        /\ failed' = [failed EXCEPT ![b] = TRUE]
        /\ lockInfo' = lockInfo /\ reqQueue' = reqQueue /\ stack' = stack /\ stack = <<>>
    BY <1>15, <2>1 DEF BatchUndoes, Answered, locks
  <2>3. Fresh'
    BY <2>1, <2>2 DEF Shape, Fresh, TypeOK
  <2>4. CallsOnStack'
    BY <2>2 DEF CallsOnStack
  <2>5. QueueOfWaiting'
    BY <1>0, <2>1, <2>2 DEF Shape, QueueOfWaiting, TypeOK
  <2>6. UnsentIdle'
    <3>. SUFFICES ASSUME NEW c \in Req
                  PROVE  /\ \A j \in DOMAIN Subs[c] : j > at'[c] => phase'[Subs[c][j]] = "idle"
                         /\ Undo[c] # NoReq /\ ~failed'[c] => phase'[Undo[c]] = "idle"
      BY DEF UnsentIdle
    <3>1. Parents[u] = {b} /\ u \notin SubsOf(b)
      BY <2>1, ConstantsAssumption
    <3>2. \A j \in DOMAIN Subs[c] : Subs[c][j] # u
      BY <3>1 DEF Parents, SubsOf
    <3>3. Undo[c] = u => c = b
      BY <2>1, <3>1 DEF Parents
    <3>. QED BY <1>0, <2>1, <2>2, <3>2, <3>3 DEF Shape, UnsentIdle, TypeOK
  <2>. QED BY <2>3, <2>4, <2>5, <2>6 DEF Shape
<1>16. ASSUME NEW b \in Req, BatchFails(b) PROVE Shape'
  BY <1>16, PostAloneShape DEF BatchFails, Answered, ForgetPass
<1>. QED
  BY <1>1, <1>2, <1>3, <1>4, <1>5, <1>6, <1>7, <1>8, <1>9, <1>10, <1>11, <1>12,
     <1>13, <1>14, <1>15, <1>16
     DEF Next, Turn, Handle, Arrive, Collect

-----------------------------------------------------------------------------
(* The counters are exact, and writers are counted one at a time.          *)

\* The requests counted in one class are finitely many.
LEMMA CountedFinite == \A class : IsFiniteSet(Counted(class)) /\ Cardinality(Counted(class)) \in Nat
<1>. TAKE class
<1>1. Counted(class) \in SUBSET Req /\ IsFiniteSet(Req)
  BY ConstantsAssumption DEF Counted
<1>. QED
  BY <1>1, FS_Subset, FS_CardinalityType

\* A step that gives nobody a place and takes nobody's keeps the counters exact.
LEMMA PlacesKept ==
    ASSUME Places, numReaders' = numReaders, numWriters' = numWriters, lockInfo' = lockInfo,
           \A q \in Req : lockInfo[q] # "none" =>
                (phase'[q] \in {"running", "lost"} <=> phase[q] \in {"running", "lost"})
    PROVE  Places'
<1>1. Counted("writer")' = Counted("writer") /\ Counted("reader")' = Counted("reader")
  BY DEF Counted
<1>. QED
  BY <1>1 DEF Places, CountersExact

\* A grant counts the request once, as what it is.
LEMMA PlacesGranted ==
    ASSUME TypeOK, Places, NEW r \in Req, phase[r] \in {"transit", "queued"},
           Grant(r), IsRead(r) \/ numWriters = 0,
           phase' = [phase EXCEPT ![r] = "running"]
    PROVE  Places'
<1>1. r \notin Counted("writer") /\ r \notin Counted("reader")
  BY DEF Counted
<1>2. CASE IsRead(r)
  <2>1. /\ Counted("reader")' = Counted("reader") \cup {r}
        /\ Counted("writer")' = Counted("writer")
    BY <1>1, <1>2 DEF Counted, Grant, TypeOK
  <2>2. Cardinality(Counted("reader")') = Cardinality(Counted("reader")) + 1
    BY <1>1, <2>1, CountedFinite, FS_AddElement
  <2>. QED BY <1>2, <2>1, <2>2 DEF Places, CountersExact, Grant
<1>3. CASE ~IsRead(r)
  <2>1. /\ Counted("writer")' = Counted("writer") \cup {r}
        /\ Counted("reader")' = Counted("reader")
    BY <1>1, <1>3 DEF Counted, Grant, TypeOK
  <2>2. Cardinality(Counted("writer")') = Cardinality(Counted("writer")) + 1
    BY <1>1, <2>1, CountedFinite, FS_AddElement
  <2>. QED BY <1>3, <2>1, <2>2 DEF Places, CountersExact, Grant
<1>. QED
  BY <1>2, <1>3

\* A response gives back the place its request held, and no other.
LEMMA PlacesReleased ==
    ASSUME TypeOK, Fresh, Places, NEW r \in Req, Release(r),
           phase[r] \in {"running", "transit"},
           phase' = [phase EXCEPT ![r] = "replying"]
    PROVE  Places'
<1>1. \A class : Counted(class)' = Counted(class) \ {r}
  BY DEF Counted, Release, TypeOK
<1>2. \A class : Cardinality(Counted(class)') = IF r \in Counted(class)
                        THEN Cardinality(Counted(class)) - 1 ELSE Cardinality(Counted(class))
  BY <1>1, CountedFinite, FS_RemoveElement
<1>3. \A class : r \in Counted(class) => Cardinality(Counted(class)) # 0
  BY CountedFinite, FS_EmptySet
<1>4. CASE lockInfo[r] = "none"
  BY <1>2, <1>4 DEF Counted, Places, CountersExact, Release
<1>5. CASE lockInfo[r] = "reader"
  <2>1. r \in Counted("reader") /\ r \notin Counted("writer")
    BY <1>5 DEF Counted, Fresh
  <2>. QED BY <1>2, <1>3, <1>5, <2>1 DEF Places, CountersExact, Release, Less
<1>6. CASE lockInfo[r] = "writer"
  <2>1. r \in Counted("writer") /\ r \notin Counted("reader")
    BY <1>6 DEF Counted, Fresh
  <2>. QED BY <1>2, <1>3, <1>6, <2>1, CountedFinite DEF Places, CountersExact, Release, Less
<1>. QED
  BY <1>4, <1>5, <1>6 DEF TypeOK

\* The next request of a batch holds no place when it is sent.
LEMMA PlacesIssued ==
    ASSUME TypeOK, Shape, Places, NEW b \in Req, NEW i \in DOMAIN Subs[b], i = at[b] + 1,
           Issue(b, i), numReaders' = numReaders, numWriters' = numWriters, lockInfo' = lockInfo
    PROVE  Places'
<1>1. Subs[b][i] \in Req /\ phase[Subs[b][i]] = "idle"
  BY ConstantsAssumption DEF Shape, UnsentIdle, TypeOK
<1>2. phase' = [phase EXCEPT ![Subs[b][i]] = "transit"]
  BY DEF Issue
<1>. QED
  BY <1>1, <1>2, PlacesKept DEF TypeOK

\* Every step of the worker keeps the counters equal to the places held.
LEMMA NextPlaces == TypeOK /\ Shape /\ Places /\ [Next]_vars => Places'
<1>. SUFFICES ASSUME TypeOK, Shape, Places, [Next]_vars
              PROVE  Places'
  OBVIOUS
<1>1. CASE UNCHANGED vars
  BY <1>1, PlacesKept DEF vars, locks
<1>2. ASSUME RunHead PROVE Places'
  <2>1. PICK h \in Req : h = Head(reqQueue) /\ phase[h] = "queued"
    BY <1>2 DEF RunHead, HeadMayRun, TypeOK, Shape, QueueOfWaiting
  <2>. QED BY <1>2, <2>1, PlacesGranted DEF RunHead, HeadMayRun, CanProceed
<1>3. ASSUME RunStops PROVE Places'
  BY <1>3, PlacesKept DEF RunStops, locks
<1>4. ASSUME Send PROVE Places'
  <2>1. PICK r \in Req : Top.req = r /\ phase[r] = "replying"
    BY <1>4, PoppedShape DEF Send, Shape, Frame
  <2>. QED BY <1>4, <2>1, PlacesKept DEF Send, locks, TypeOK
<1>5. ASSUME NEW r \in Req, HandleNow(r) PROVE Places'
  <2>1. phase[r] = "running"
    BY <1>5, PoppedShape DEF HandleNow, Call, Shape
  <2>. QED BY <1>5, <2>1, PlacesReleased DEF HandleNow, PostMessage, Shape
<1>6. ASSUME NEW r \in Req, HandleLater(r) PROVE Places'
  BY <1>6, PlacesKept DEF HandleLater, locks
<1>7. ASSUME NEW b \in Req, HandleBatch(b) PROVE Places'
  <2>1. 1 = at[b] + 1
    BY <1>7, PoppedShape DEF HandleBatch, Call, Shape
  <2>2. 1 \in DOMAIN Subs[b]
    <3>1. Subs[b] \in Seq(Req) /\ Subs[b] # <<>>
      BY <1>7, ConstantsAssumption DEF HandleBatch, IsPlain
    <3>. QED BY <3>1
  <2>. QED BY <1>7, <2>1, <2>2, PlacesIssued DEF HandleBatch, locks
<1>8. ASSUME NEW b \in Req, HandleNestedBatch(b) PROVE Places'
  <2>1. phase[b] = "running"
    BY <1>8, PoppedShape DEF HandleNestedBatch, Call, Shape
  <2>. QED BY <1>8, <2>1, PlacesKept DEF HandleNestedBatch, locks, TypeOK
<1>9. ASSUME NEW r \in Req, ArriveWithPass(r) PROVE Places'
  <2>1. lockInfo[r] = "none" /\ phase[r] = "transit"
    BY <1>9 DEF ArriveWithPass, Shape, Fresh
  <2>2. CASE backstagePass # NoReq /\ passOf[r] = backstagePass
    BY <1>9, <2>1, <2>2, PlacesKept DEF ArriveWithPass, locks, TypeOK
  <2>3. CASE ~(backstagePass # NoReq /\ passOf[r] = backstagePass)
    BY <1>9, <2>1, <2>3, PlacesReleased DEF ArriveWithPass, PostMessage, Shape
  <2>. QED BY <2>2, <2>3
<1>10. ASSUME NEW r \in Req, ArriveAndProceed(r) PROVE Places'
  BY <1>10, PlacesGranted DEF ArriveAndProceed, CanProceed
<1>11. ASSUME NEW r \in Req, ArriveAndQueue(r) PROVE Places'
  BY <1>11, PlacesKept DEF ArriveAndQueue, TypeOK
<1>12. ASSUME NEW r \in Req, Respond(r) PROVE Places'
  BY <1>12, PlacesReleased DEF Respond, PostMessage, Shape
<1>13. ASSUME NEW b \in Req, BatchGoesOn(b) PROVE Places'
  <2>1. at[b] + 1 \in DOMAIN Subs[b]
    <3>1. Subs[b] \in Seq(Req) /\ at[b] \in Nat
      BY ConstantsAssumption DEF TypeOK
    <3>. QED BY <1>13, <3>1 DEF BatchGoesOn
  <2>. QED BY <1>13, <2>1, PlacesIssued DEF BatchGoesOn, locks
<1>14. ASSUME NEW b \in Req, BatchSucceeds(b) PROVE Places'
  BY <1>14, PlacesReleased DEF BatchSucceeds, Answered, PostMessage, Shape
<1>15. ASSUME NEW b \in Req, BatchUndoes(b) PROVE Places'
  <2>1. Undo[b] \in Req /\ phase[Undo[b]] = "idle"
    BY <1>15, ConstantsAssumption DEF BatchUndoes, MustUndo, Shape, UnsentIdle
  <2>. QED BY <1>15, <2>1, PlacesKept DEF BatchUndoes, locks, TypeOK
<1>16. ASSUME NEW b \in Req, BatchFails(b) PROVE Places'
  BY <1>16, PlacesReleased DEF BatchFails, Answered, PostMessage, Shape
<1>. QED
  BY <1>1, <1>2, <1>3, <1>4, <1>5, <1>6, <1>7, <1>8, <1>9, <1>10, <1>11, <1>12,
     <1>13, <1>14, <1>15, <1>16
     DEF Next, Turn, Handle, Arrive, Collect

-----------------------------------------------------------------------------
(* No wakeup is lost.                                                      *)

\* No request takes the read lock, so only a writer's place holds the head back.
LEMMA HeadWaitsForWriter ==
    HeadMayRun <=> reqQueue # <<>> /\ (IsRead(Head(reqQueue)) \/ (numWriters = 0 /\ rLocks = 0))
BY DEF HeadMayRun, CanProceed, NeedsRLock, UriStartsWithBatch

\* A step that keeps the queue and does not free a writer's place needs only to
\* keep the pending calls of __runQueuedRequests.
LEMMA WakeupKept ==
    ASSUME TypeOK, WakeupPending, reqQueue' = reqQueue, rLocks' = rLocks, numWriters' \in Nat,
           numWriters' = 0 => numWriters = 0,
           \A i \in 1 .. Len(stack) : stack[i].fn = "run"
                => \E j \in 1 .. Len(stack') : stack'[j].fn = "run"
    PROVE  WakeupPending'
<1>1. HeadMayRun' => HeadMayRun
  BY HeadWaitsForWriter DEF HeadMayRun, CanProceed, NeedsRLock, UriStartsWithBatch, TypeOK
<1>. QED
  BY <1>1 DEF WakeupPending

\* The calls under a call that is not __runQueuedRequests hold the pending ones.
LEMMA PoppedWakeup ==
    ASSUME TypeOK, CallsOnStack, stack # <<>>, Top.fn # "run",
           NEW i \in 1 .. Len(stack), stack[i].fn = "run"
    PROVE  i \in 1 .. Len(Popped) /\ Popped[i] = stack[i]
BY PoppedCalls DEF TypeOK

\* A response that frees a place looks at the queue before its turn ends.
LEMMA PostWakeup ==
    ASSUME TypeOK, WakeupPending, NEW r \in Req, NEW success \in BOOLEAN,
           NEW below \in Seq(Frame), PostMessage(r, success, below),
           \A i \in 1 .. Len(stack) : stack[i].fn = "run"
                => i \in 1 .. Len(below) /\ below[i] = stack[i]
    PROVE  WakeupPending'
<1>1. /\ stack' \in Seq(Frame)
      /\ Len(stack') \in {Len(below) + 1, Len(below) + 2}
      /\ lockInfo[r] # "none" => Len(stack') = Len(below) + 2
      /\ \A i \in 1 .. Len(below) : stack'[i] = below[i]
      /\ Len(stack') = Len(below) + 2 => stack'[Len(below) + 2] = Call("run", NoReq)
      /\ Len(below) \in Nat
  <2>1. stack' = below \o <<Call("send", r)>> \o RunFrames(r)
    BY DEF PostMessage
  <2>2. Len(below) \in Nat
    OBVIOUS
  <2>. QED BY ONLY <2>1, <2>2, PostedCalls, r \in Req, below \in Seq(Frame), Zenon
<1>2. CASE lockInfo[r] = "none"
  <2>1. reqQueue' = reqQueue /\ rLocks' = rLocks /\ numWriters' = numWriters
    BY <1>2 DEF PostMessage, Release
  <2>2. ASSUME NEW i \in 1 .. Len(stack), stack[i].fn = "run"
        PROVE  \E j \in 1 .. Len(stack') : stack'[j].fn = "run"
    <3>1. i \in 1 .. Len(stack') /\ stack'[i] = stack[i]
      BY <1>1, <2>2
    <3>. QED BY <2>2, <3>1
  <2>. QED BY <2>1, <2>2, WakeupKept DEF TypeOK
<1>3. CASE lockInfo[r] # "none"
  <2>1. Len(below) + 2 \in 1 .. Len(stack') /\ stack'[Len(below) + 2].fn = "run"
    BY <1>1, <1>3 DEF Call
  <2>. QED BY <2>1 DEF WakeupPending
<1>. QED
  BY <1>2, <1>3

\* The same for an answer posted in a turn of its own.
LEMMA PostAloneWakeup ==
    ASSUME TypeOK, WakeupPending, NEW r \in Req, NEW success \in BOOLEAN,
           PostMessage(r, success, <<>>), stack = <<>>
    PROVE  WakeupPending'
<1>1. <<>> \in Seq(Frame) /\ 1 .. Len(stack) = {}
  OBVIOUS
<1>2. PICK below \in Seq(Frame) : below = <<>>
  BY <1>1
<1>3. PostMessage(r, success, below)
  BY <1>2
<1>. QED
  BY <1>1, <1>3, PostWakeup

\* Every step of the worker that frees a place leaves a look at the queue to come.
LEMMA NextWakeup == TypeOK /\ Shape /\ WakeupPending /\ [Next]_vars => WakeupPending'
<1>. SUFFICES ASSUME TypeOK, Shape, WakeupPending, [Next]_vars
              PROVE  WakeupPending'
  OBVIOUS
<1>1. CASE UNCHANGED vars
  BY <1>1, WakeupKept DEF vars, locks, TypeOK
<1>2. ASSUME RunHead PROVE WakeupPending'
  <2>1. PICK f \in Frame : stack' = Append(stack, f) /\ f = Call("handle", Head(reqQueue))
    <3>1. Call("handle", Head(reqQueue)) \in Frame
      BY <1>2 DEF RunHead, HeadMayRun, TypeOK, Frame, Call
    <3>. QED BY <1>2, <3>1 DEF RunHead
  <2>2. Len(stack) \in 1 .. Len(stack) /\ stack[Len(stack)].fn = "run" /\ Len(stack) \in Nat
    BY <1>2, PoppedCalls DEF RunHead, TypeOK
  <2>3. Len(stack') = Len(stack) + 1 /\ stack'[Len(stack)] = stack[Len(stack)]
    BY ONLY <2>1, <2>2, TypeOK DEF TypeOK
  <2>. QED BY <2>2, <2>3 DEF WakeupPending
<1>3. ASSUME RunStops PROVE WakeupPending'
  <2>1. ~HeadMayRun'
    BY <1>3 DEF RunStops, locks, HeadMayRun, CanProceed
  <2>. QED BY <2>1 DEF WakeupPending
<1>4. ASSUME Send PROVE WakeupPending'
  BY <1>4, PoppedWakeup, WakeupKept DEF Send, locks, Shape, TypeOK
<1>5. ASSUME NEW r \in Req, HandleNow(r) PROVE WakeupPending'
  <2>1. Top.fn # "run" /\ stack # <<>>
    BY <1>5 DEF HandleNow, Call
  <2>2. Popped \in Seq(Frame)
    BY <2>1, PoppedCalls DEF TypeOK
  <2>. QED BY <1>5, <2>1, <2>2, PoppedWakeup, PostWakeup DEF HandleNow, Shape
<1>6. ASSUME NEW r \in Req, HandleLater(r) PROVE WakeupPending'
  <2>1. Top.fn # "run" /\ stack # <<>>
    BY <1>6 DEF HandleLater, Call
  <2>. QED BY <1>6, <2>1, PoppedWakeup, WakeupKept DEF HandleLater, locks, Shape, TypeOK
<1>7. ASSUME NEW b \in Req, HandleBatch(b) PROVE WakeupPending'
  <2>1. Top.fn # "run" /\ stack # <<>>
    BY <1>7 DEF HandleBatch, Call
  <2>. QED BY <1>7, <2>1, PoppedWakeup, WakeupKept DEF HandleBatch, locks, Shape, TypeOK
<1>8. ASSUME NEW b \in Req, HandleNestedBatch(b) PROVE WakeupPending'
  <2>1. Top.fn # "run" /\ stack # <<>>
    BY <1>8 DEF HandleNestedBatch, Call
  <2>. QED BY <1>8, <2>1, PoppedWakeup, WakeupKept DEF HandleNestedBatch, locks, Shape, TypeOK
<1>9. ASSUME NEW r \in Req, ArriveWithPass(r) PROVE WakeupPending'
  <2>1. stack = <<>> /\ 1 .. Len(stack) = {}
    BY <1>9 DEF ArriveWithPass
  <2>2. CASE backstagePass # NoReq /\ passOf[r] = backstagePass
    BY <1>9, <2>1, <2>2, WakeupKept DEF ArriveWithPass, locks, TypeOK
  <2>3. CASE ~(backstagePass # NoReq /\ passOf[r] = backstagePass)
    BY <1>9, <2>1, <2>3, PostAloneWakeup DEF ArriveWithPass
  <2>. QED BY <2>2, <2>3
<1>10. ASSUME NEW r \in Req, ArriveAndProceed(r) PROVE WakeupPending'
  <2>1. reqQueue' = <<>>
    BY <1>10 DEF ArriveAndProceed, CanProceed
  <2>. QED BY <2>1 DEF WakeupPending, HeadMayRun
<1>11. ASSUME NEW r \in Req, ArriveAndQueue(r) PROVE WakeupPending'
  <2>1. stack = <<>> /\ 1 .. Len(stack) = {} /\ ~HeadMayRun
    BY <1>11 DEF ArriveAndQueue, WakeupPending
  <2>2. /\ reqQueue' = Append(reqQueue, r) /\ numWriters' = numWriters
        /\ numReaders' = numReaders /\ rLocks' = rLocks
    BY <1>11 DEF ArriveAndQueue
  <2>3. ~HeadMayRun'
    <3>1. CASE reqQueue = <<>>
      <4>1. Head(reqQueue') = r /\ ~CanProceed(r, TRUE)
        BY <1>11, <2>2, <3>1 DEF ArriveAndQueue, CanProceed, TypeOK
      <4>. QED BY <2>2, <4>1 DEF HeadMayRun, CanProceed
    <3>2. CASE reqQueue # <<>>
      <4>1. Head(reqQueue') = Head(reqQueue)
        BY <2>2, <3>2 DEF TypeOK
      <4>. QED BY <2>1, <2>2, <3>2, <4>1 DEF HeadMayRun, CanProceed
    <3>. QED BY <3>1, <3>2
  <2>. QED BY <2>3 DEF WakeupPending
<1>12. ASSUME NEW r \in Req, Respond(r) PROVE WakeupPending'
  BY <1>12, PostAloneWakeup DEF Respond
<1>13. ASSUME NEW b \in Req, BatchGoesOn(b) PROVE WakeupPending'
  BY <1>13, WakeupKept DEF BatchGoesOn, locks, TypeOK
<1>14. ASSUME NEW b \in Req, BatchSucceeds(b) PROVE WakeupPending'
  BY <1>14, PostAloneWakeup DEF BatchSucceeds, Answered
<1>15. ASSUME NEW b \in Req, BatchUndoes(b) PROVE WakeupPending'
  BY <1>15, WakeupKept DEF BatchUndoes, locks, TypeOK
<1>16. ASSUME NEW b \in Req, BatchFails(b) PROVE WakeupPending'
  BY <1>16, PostAloneWakeup DEF BatchFails, Answered
<1>. QED
  BY <1>1, <1>2, <1>3, <1>4, <1>5, <1>6, <1>7, <1>8, <1>9, <1>10, <1>11, <1>12,
     <1>13, <1>14, <1>15, <1>16
     DEF Next, Turn, Handle, Arrive, Collect

-----------------------------------------------------------------------------
(* The theorems.                                                           *)

\* The inductive invariant holds at the start.
LEMMA InitIInv == Init => IInv
<1>. SUFFICES ASSUME Init PROVE IInv
  OBVIOUS
<1>1. TypeOK
  BY InitTypes
<1>2. 1 .. Len(stack) = {} /\ 1 .. Len(reqQueue) = {}
  BY DEF Init
<1>3. ASSUME NEW b \in Req
      PROVE  /\ \A j \in DOMAIN Subs[b] : Subs[b][j] \in Req /\ b \in Parents[Subs[b][j]]
             /\ Undo[b] # NoReq => Undo[b] \in Req /\ b \in Parents[Undo[b]]
  BY ConstantsAssumption DEF Parents, SubsOf
<1>4. UnsentIdle
  <2>1. \A r \in Req : Parents[r] # {} => phase[r] = "idle"
    BY DEF Init, OfClients
  <2>. QED BY <1>3, <2>1 DEF UnsentIdle
<1>5. Fresh /\ CallsOnStack /\ QueueOfWaiting
  BY <1>2 DEF Init, Fresh, CallsOnStack, QueueOfWaiting
<1>6. Counted("writer") = {} /\ Counted("reader") = {}
  BY DEF Init, Counted
<1>7. Places
  <2>1. Cardinality(Counted("writer")) = 0 /\ Cardinality(Counted("reader")) = 0
    BY <1>6, FS_EmptySet
  <2>2. numWriters = 0 /\ numReaders = 0
    BY DEF Init
  <2>. QED BY <2>1, <2>2 DEF Places, CountersExact
<1>8. WakeupPending
  BY DEF WakeupPending, HeadMayRun, Init
<1>. QED
  BY <1>1, <1>4, <1>5, <1>7, <1>8 DEF IInv, Shape

\* The inductive invariant holds in every state the worker reaches.
LEMMA Inductive == Spec => []IInv
<1>1. IInv /\ [Next]_vars => IInv'
  BY NextTypes, NextShape, NextPlaces, NextWakeup DEF IInv
<1>. QED
  BY InitIInv, <1>1, PTL DEF Spec

\* For every set of requests, the counters of __canProceed are the numbers of
\* granted requests that have not been answered.
THEOREM CountersAreExact == Spec => []CountersExact
<1>1. IInv => CountersExact
  BY DEF IInv, Places
<1>. QED
  BY Inductive, <1>1, PTL

\* Exact counters and a writers' counter of at most one leave room for one writer.
LEMMA OneWriter == IInv => WriterExclusion
<1>. SUFFICES ASSUME IInv PROVE WriterExclusion
  OBVIOUS
<1>1. Cardinality(Counted("writer")) \in {0, 1}
  BY CountedFinite DEF IInv, Places, CountersExact
<1>2. Counted("writer") = {} \/ \E x : Counted("writer") = {x}
  BY <1>1, CountedFinite, FS_EmptySet, FS_Singleton
<1>. QED BY <1>2 DEF WriterExclusion

\* For every set of requests, two requests counted as writers are never both
\* between their grant and their response.
THEOREM WritersExcluded == Spec => []WriterExclusion
BY Inductive, OneWriter, PTL

\* For every set of requests, a turn of the worker never ends with a request at
\* the head of the queue that could have been started.
THEOREM NoWakeupLost == Spec => []NoLostWakeup
<1>1. IInv => NoLostWakeup
  <2>1. ASSUME stack = <<>> PROVE 1 .. Len(stack) = {}
    BY <2>1
  <2>. QED BY <2>1 DEF IInv, WakeupPending, NoLostWakeup
<1>. QED
  BY Inductive, <1>1, PTL
-----------------------------------------------------------------------------
(* Sequence numbers: given out when a message is posted, on the wire when  *)
(* process.send has run.                                                   *)

\* A message that was posted has its process.send on the stack.
RepliesOnStack ==
    \A r \in Req : phase[r] = "replying"
                      => \E i \in 1 .. Len(stack) : stack[i] = Call("send", r)

\* The numbers given out are 1 .. n, to requests whose message was posted.
NumbersGiven ==
    /\ \A r \in Numbered : phase[r] \in {"replying", "answered"}
    /\ { seqNo[r] : r \in Numbered } = 1 .. Cardinality(Numbered)

Emitted == { r \in Numbered : phase[r] = "answered" }

\* On the wire is the number of each message that was sent.
EmittedOnWire ==
    /\ { wire[i] : i \in DOMAIN wire } = { seqNo[r] : r \in Emitted }
    /\ Len(wire) = Cardinality(Emitted)

BurstInv == RepliesOnStack /\ NumbersGiven /\ EmittedOnWire

\* A step that posts and sends nothing keeps the numbers, and the calls of process.send.
LEMMA SilentKeeps ==
    ASSUME BurstInv, seqNo' = seqNo, wire' = wire,
           \A r \in Req : \/ phase'[r] = phase[r]
                          \/ {phase[r], phase'[r]} \cap {"replying", "answered"} = {},
           \A i \in 1 .. Len(stack) : stack[i].fn = "send"
               => \E j \in 1 .. Len(stack') : stack'[j] = stack[i]
    PROVE  BurstInv'
<1>1. Numbered' = Numbered /\ Emitted' = Emitted
  <2>1. Numbered' = Numbered
    BY DEF Numbered
  <2>2. \A r \in Numbered : r \in Req /\ phase'[r] = phase[r]
    BY DEF BurstInv, NumbersGiven, Numbered
  <2>. QED BY <2>1, <2>2 DEF Emitted
<1>2. RepliesOnStack'
  <2>. SUFFICES ASSUME NEW r \in Req, phase'[r] = "replying"
                PROVE  \E j \in 1 .. Len(stack') : stack'[j] = Call("send", r)
    BY DEF RepliesOnStack, Call
  <2>1. PICK i \in 1 .. Len(stack) : stack[i] = Call("send", r)
    BY DEF BurstInv, RepliesOnStack
  <2>2. stack[i].fn = "send"
    BY <2>1 DEF Call
  <2>. QED BY <2>1, <2>2
<1>3. NumbersGiven'
  BY <1>1, SMTT(20), ZenonT(20) DEF BurstInv, NumbersGiven, Numbered
<1>4. EmittedOnWire'
  <2>1. { seqNo'[r] : r \in Emitted' } = { seqNo[r] : r \in Emitted }
    BY <1>1
  <2>2. { wire'[i] : i \in DOMAIN wire' } = { wire[i] : i \in DOMAIN wire }
    OBVIOUS
  <2>. QED BY <1>1, <2>1, <2>2 DEF BurstInv, EmittedOnWire
<1>. QED BY <1>2, <1>3, <1>4 DEF BurstInv

\* The calls of process.send below another call are those below it.
LEMMA SendsBelow ==
    ASSUME TypeOK, stack # <<>>, Top.fn # "send",
           NEW i \in 1 .. Len(stack), stack[i].fn = "send"
    PROVE  \E j \in 1 .. Len(Popped) : Popped[j] = stack[i]
<1>1. /\ Len(Popped) = Len(stack) - 1 /\ Top = stack[Len(stack)]
      /\ \A j \in 1 .. Len(Popped) : Popped[j] = stack[j]
  BY PoppedCalls DEF TypeOK
<1>2. i # Len(stack) /\ Len(stack) \in Nat
  BY <1>1 DEF TypeOK
<1>3. i \in 1 .. Len(Popped)
  BY <1>1, <1>2
<1>. QED BY <1>1, <1>3

\* A message that is posted gets the next number, or none, and has its process.send to run.
LEMMA PostedNumber ==
    ASSUME TypeOK, BurstInv, NEW r \in Req, phase[r] \in {"running", "transit"},
           NEW success \in BOOLEAN, NEW below \in Seq(Frame), PostMessage(r, success, below),
           \A i \in 1 .. Len(stack) : stack[i].fn = "send"
               => \E j \in 1 .. Len(below) : below[j] = stack[i]
    PROVE  BurstInv'
<1>1. /\ phase' = [phase EXCEPT ![r] = "replying"] /\ wire' = wire
      /\ seqNo' = [seqNo EXCEPT ![r] = IF success /\ Kind[r] = "write"
                                       THEN Cardinality(Numbered) + 1 ELSE 0]
      /\ stack' = below \o <<Call("send", r)>> \o RunFrames(r)
  BY DEF PostMessage
<1>2. /\ Len(stack') \in {Len(below) + 1, Len(below) + 2}
      /\ \A i \in 1 .. Len(below) : stack'[i] = below[i]
      /\ stack'[Len(below) + 1] = Call("send", r)
  BY <1>1, PostedCalls
<1>3. Len(below) \in Nat
  OBVIOUS
<1>4. r \notin Numbered /\ Numbered \subseteq Req
  BY DEF BurstInv, NumbersGiven, Numbered
<1>5. \A q \in Req : q # r => phase'[q] = phase[q] /\ seqNo'[q] = seqNo[q]
  BY <1>1 DEF TypeOK
<1>6. phase'[r] = "replying"
  BY <1>1 DEF TypeOK
<1>7. RepliesOnStack'
  <2>. SUFFICES ASSUME NEW q \in Req, phase'[q] = "replying"
                PROVE  \E j \in 1 .. Len(stack') : stack'[j] = Call("send", q)
    BY DEF RepliesOnStack, Call
  <2>1. CASE q = r
    <3>1. Len(below) + 1 \in 1 .. Len(stack')
      BY <1>2, <1>3
    <3>. QED BY <1>2, <2>1, <3>1
  <2>2. CASE q # r
    <3>1. PICK i \in 1 .. Len(stack) : stack[i] = Call("send", q)
      BY <1>5, <2>2 DEF BurstInv, RepliesOnStack
    <3>2. stack[i].fn = "send"
      BY <3>1 DEF Call
    <3>3. PICK j \in 1 .. Len(below) : below[j] = stack[i]
      BY <3>2
    <3>4. j \in 1 .. Len(stack')
      BY <1>2, <1>3
    <3>. QED BY <1>2, <3>1, <3>3, <3>4
  <2>. QED BY <2>1, <2>2
<1>8. IsFiniteSet(Numbered) /\ Cardinality(Numbered) \in Nat
  BY <1>4, ConstantsAssumption, FS_Subset, FS_CardinalityType
<1>9. Emitted' = { q \in Numbered : phase[q] = "answered" }
  BY <1>4, <1>5, <1>6 DEF Emitted, Numbered
<1>10. EmittedOnWire'
  <2>1. Emitted' = Emitted
    BY <1>9 DEF Emitted
  <2>2. \A q \in Emitted : seqNo'[q] = seqNo[q]
    BY <1>4, <1>5 DEF Emitted
  <2>3. { seqNo'[q] : q \in Emitted' } = { seqNo[q] : q \in Emitted }
    BY <2>1, <2>2
  <2>4. { wire'[i] : i \in DOMAIN wire' } = { wire[i] : i \in DOMAIN wire }
    BY <1>1
  <2>. QED BY <1>1, <2>1, <2>3, <2>4 DEF BurstInv, EmittedOnWire
<1>11. NumbersGiven'
  <2>1. CASE success /\ Kind[r] = "write"
    <3>1. seqNo'[r] = Cardinality(Numbered) + 1
      BY <1>1, <2>1 DEF TypeOK
    <3>2. Numbered' = Numbered \cup {r}
      BY <1>5, <1>8, <3>1 DEF Numbered
    <3>3. Cardinality(Numbered') = Cardinality(Numbered) + 1
      BY <1>4, <1>8, <3>2, FS_AddElement
    <3>4. { seqNo'[q] : q \in Numbered' } = { seqNo[q] : q \in Numbered } \cup {seqNo'[r]}
      BY <1>4, <1>5, <3>2
    <3>5. { seqNo'[q] : q \in Numbered' } = 1 .. Cardinality(Numbered')
      <4>1. { seqNo[q] : q \in Numbered } = 1 .. Cardinality(Numbered)
        BY DEF BurstInv, NumbersGiven
      <4>2. \A n \in Nat : (1 .. n) \cup {n + 1} = 1 .. (n + 1)
        OBVIOUS
      <4>3. (1 .. Cardinality(Numbered)) \cup {Cardinality(Numbered) + 1}
               = 1 .. (Cardinality(Numbered) + 1)
        BY <1>8, <4>2
      <4>. QED BY <3>1, <3>3, <3>4, <4>1, <4>3
    <3>6. \A q \in Numbered' : phase'[q] \in {"replying", "answered"}
      BY <1>4, <1>5, <1>6, <3>2 DEF BurstInv, NumbersGiven
    <3>. QED BY <3>5, <3>6 DEF NumbersGiven
  <2>2. CASE ~(success /\ Kind[r] = "write")
    <3>1. seqNo'[r] = 0
      BY <1>1, <2>2 DEF TypeOK
    <3>2. Numbered' = Numbered
      BY <1>4, <1>5, <3>1 DEF Numbered
    <3>3. \A q \in Numbered : seqNo'[q] = seqNo[q] /\ phase'[q] = phase[q]
      BY <1>4, <1>5
    <3>. QED BY <3>2, <3>3 DEF BurstInv, NumbersGiven
  <2>. QED BY <2>1, <2>2
<1>. QED BY <1>7, <1>10, <1>11 DEF BurstInv

\* A message posted in a turn of its own.
LEMMA PostedAlone ==
    ASSUME TypeOK, BurstInv, NEW r \in Req, phase[r] \in {"running", "transit"},
           NEW success \in BOOLEAN, PostMessage(r, success, <<>>), stack = <<>>
    PROVE  BurstInv'
<1>1. <<>> \in Seq(Frame) /\ 1 .. Len(stack) = {}
  OBVIOUS
<1>2. PICK below \in Seq(Frame) : below = <<>>
  BY <1>1
<1>3. PostMessage(r, success, below)
  BY <1>2
<1>. QED BY <1>1, <1>3, PostedNumber

\* process.send puts a message's number on the wire.
LEMMA SendKeeps ==
    ASSUME TypeOK, CallsOnStack, BurstInv, Send
    PROVE  BurstInv'
<1>1. PICK r \in Req : Top = Call("send", r) /\ Top.req = r /\ phase[r] = "replying"
  BY PoppedShape DEF Send, Frame, Call
<1>2. /\ phase' = [phase EXCEPT ![r] = "answered"] /\ seqNo' = seqNo /\ stack' = Popped
      /\ wire' = IF seqNo[r] = 0 THEN wire ELSE Append(wire, seqNo[r])
  BY <1>1 DEF Send
<1>3. /\ phase'[r] = "answered" /\ \A q \in Req : q # r => phase'[q] = phase[q]
      /\ Numbered' = Numbered /\ Numbered \subseteq Req
  BY <1>2 DEF TypeOK, Numbered
<1>4. /\ Len(Popped) = Len(stack) - 1 /\ Top = stack[Len(stack)]
      /\ \A i \in 1 .. Len(Popped) : Popped[i] = stack[i]
  BY PoppedCalls DEF Send, TypeOK
<1>5. RepliesOnStack'
  <2>. SUFFICES ASSUME NEW q \in Req, phase'[q] = "replying"
                PROVE  \E j \in 1 .. Len(stack') : stack'[j] = Call("send", q)
    BY DEF RepliesOnStack, Call
  <2>1. q # r /\ phase[q] = "replying"
    BY <1>3
  <2>2. PICK i \in 1 .. Len(stack) : stack[i] = Call("send", q)
    BY <2>1 DEF BurstInv, RepliesOnStack
  <2>3. i # Len(stack)
    BY <1>1, <1>4, <2>1, <2>2 DEF Call
  <2>4. i \in 1 .. Len(Popped)
    BY <1>4, <2>3 DEF TypeOK
  <2>. QED BY <1>2, <1>4, <2>2, <2>4
<1>6. NumbersGiven'
  <2>1. \A q \in Numbered : phase'[q] \in {"replying", "answered"}
    BY <1>3 DEF BurstInv, NumbersGiven
  <2>. QED BY <1>2, <1>3, <2>1 DEF BurstInv, NumbersGiven
<1>7. IsFiniteSet(Emitted) /\ r \notin Emitted
  <2>1. Emitted \subseteq Req /\ r \notin Emitted
    BY <1>1, <1>3 DEF Emitted
  <2>. QED BY <2>1, ConstantsAssumption, FS_Subset
<1>8. EmittedOnWire'
  <2>1. CASE seqNo[r] = 0
    <3>1. Emitted' = Emitted
      BY <1>3, <2>1 DEF Emitted, Numbered
    <3>. QED BY <1>2, <2>1, <3>1 DEF BurstInv, EmittedOnWire
  <2>2. CASE seqNo[r] # 0
    <3>1. Emitted' = Emitted \cup {r}
      BY <1>3, <2>2 DEF Emitted, Numbered
    <3>2. Cardinality(Emitted') = Cardinality(Emitted) + 1
      BY <1>7, <3>1, FS_AddElement
    <3>3. seqNo[r] \in Nat /\ wire \in Seq(Nat)
      BY DEF TypeOK
    <3>4. wire' = Append(wire, seqNo[r])
      BY <1>2, <2>2
    <3>5. Len(wire') = Len(wire) + 1
      BY <3>3, <3>4
    <3>6. { wire'[i] : i \in DOMAIN wire' } = { wire[i] : i \in DOMAIN wire } \cup {seqNo[r]}
      BY <3>3, <3>4, SMTT(20), ZenonT(20)
    <3>7. { seqNo'[q] : q \in Emitted' } = { seqNo[q] : q \in Emitted } \cup {seqNo[r]}
      BY <1>2, <3>1
    <3>. QED BY <3>2, <3>5, <3>6, <3>7 DEF BurstInv, EmittedOnWire
  <2>. QED BY <2>1, <2>2
<1>. QED BY <1>5, <1>6, <1>8 DEF BurstInv

\* Every step of the worker keeps the numbers.
LEMMA NextBurst == IInv /\ BurstInv /\ [Next]_vars => BurstInv'
<1>. SUFFICES ASSUME IInv, BurstInv, [Next]_vars
              PROVE  BurstInv'
  OBVIOUS
<1>0. TypeOK /\ Shape /\ CallsOnStack
  BY DEF IInv, Shape
<1>a. ASSUME stack # <<>>, Top.fn # "send", stack' = Popped, phase' = phase,
             seqNo' = seqNo, wire' = wire
      PROVE  BurstInv'
  <2>1. \A i \in 1 .. Len(stack) : stack[i].fn = "send"
           => \E j \in 1 .. Len(stack') : stack'[j] = stack[i]
    BY <1>0, <1>a, SendsBelow
  <2>. QED BY <1>a, <2>1, SilentKeeps
<1>b. ASSUME NEW x \in Req, NEW v \in {"transit", "queued", "running", "lost"},
             phase' = [phase EXCEPT ![x] = v], phase[x] \notin {"replying", "answered"},
             seqNo' = seqNo, wire' = wire,
             \A i \in 1 .. Len(stack) : stack[i].fn = "send"
                => \E j \in 1 .. Len(stack') : stack'[j] = stack[i]
      PROVE  BurstInv'
  <2>1. phase'[x] = v /\ \A y \in Req : y # x => phase'[y] = phase[y]
    BY <1>0, <1>b DEF TypeOK
  <2>. QED BY <1>b, <2>1, SilentKeeps
<1>c. stack # <<>> /\ Top.fn # "send" /\ stack' = Popped
         => \A i \in 1 .. Len(stack) : stack[i].fn = "send"
                => \E j \in 1 .. Len(stack') : stack'[j] = stack[i]
  BY <1>0, SendsBelow
<1>d. /\ stack = <<>> => 1 .. Len(stack) = {}
      /\ stack' = stack => \A i \in 1 .. Len(stack) : \E j \in 1 .. Len(stack') : stack'[j] = stack[i]
  OBVIOUS
<1>1. CASE UNCHANGED vars
  BY <1>1, SilentKeeps DEF vars
<1>2. ASSUME RunHead PROVE BurstInv'
  <2>1. PICK h \in Req : h = Head(reqQueue) /\ phase[h] = "queued"
    BY <1>0, <1>2 DEF RunHead, HeadMayRun, TypeOK, Shape, QueueOfWaiting
  <2>2. /\ phase' = [phase EXCEPT ![h] = "running"] /\ seqNo' = seqNo /\ wire' = wire
        /\ stack' = Append(stack, Call("handle", h))
    BY <1>2, <2>1 DEF RunHead
  <2>3. Call("handle", h) \in Frame
    BY DEF Call, Frame
  <2>4. \A i \in 1 .. Len(stack) : i \in 1 .. Len(stack') /\ stack'[i] = stack[i]
    BY <1>0, <2>2, <2>3 DEF TypeOK
  <2>. QED BY <1>b, <2>1, <2>2, <2>4
<1>3. ASSUME RunStops PROVE BurstInv'
  BY <1>a, <1>3 DEF RunStops
<1>4. ASSUME Send PROVE BurstInv'
  BY <1>0, <1>4, SendKeeps
<1>5. ASSUME NEW r \in Req, HandleNow(r) PROVE BurstInv'
  <2>1. Top.fn = "handle" /\ Top.req = r /\ stack # <<>>
    BY <1>5 DEF HandleNow, Call
  <2>2. phase[r] = "running"
    BY <1>0, <2>1, PoppedShape
  <2>3. /\ Popped \in Seq(Frame)
        /\ \A i \in 1 .. Len(stack) : stack[i].fn = "send"
              => \E j \in 1 .. Len(Popped) : Popped[j] = stack[i]
    BY <1>0, <2>1, PoppedCalls, SendsBelow DEF TypeOK
  <2>4. PICK below \in Seq(Frame) : below = Popped
    BY <2>3
  <2>5. PICK success \in BOOLEAN : PostMessage(r, success, below)
    BY <1>5, <2>4 DEF HandleNow
  <2>. QED BY <1>0, <2>2, <2>3, <2>4, <2>5, PostedNumber
<1>6. ASSUME NEW r \in Req, HandleLater(r) PROVE BurstInv'
  BY <1>a, <1>6 DEF HandleLater, Call
<1>7. ASSUME NEW b \in Req, HandleBatch(b) PROVE BurstInv'
  <2>1. Top.fn = "handle" /\ Top.req = b /\ stack # <<>>
    BY <1>7 DEF HandleBatch, Call
  <2>2. at[b] = 0
    BY <1>0, <2>1, PoppedShape
  <2>3. 1 \in DOMAIN Subs[b]
    <3>1. Subs[b] \in Seq(Req) /\ Subs[b] # <<>>
      BY <1>7, ConstantsAssumption DEF HandleBatch, IsPlain
    <3>. QED BY <3>1
  <2>4. PICK s \in Req : s = Subs[b][1]
    BY <2>3, ConstantsAssumption
  <2>5. phase[s] = "idle"
    BY <1>0, <2>2, <2>3, <2>4 DEF Shape, UnsentIdle
  <2>6. phase' = [phase EXCEPT ![s] = "transit"] /\ seqNo' = seqNo /\ wire' = wire /\ stack' = Popped
    BY <1>7, <2>4 DEF HandleBatch, Issue
  <2>. QED BY <1>b, <1>c, <2>1, <2>5, <2>6
<1>8. ASSUME NEW b \in Req, HandleNestedBatch(b) PROVE BurstInv'
  <2>1. Top.fn = "handle" /\ Top.req = b /\ stack # <<>>
    BY <1>8 DEF HandleNestedBatch, Call
  <2>2. phase[b] = "running"
    BY <1>0, <2>1, PoppedShape
  <2>. QED BY <1>b, <1>c, <1>8, <2>1, <2>2 DEF HandleNestedBatch
<1>9. ASSUME NEW r \in Req, ArriveWithPass(r) PROVE BurstInv'
  <2>1. CASE backstagePass # NoReq /\ passOf[r] = backstagePass
    BY <1>b, <1>d, <1>9, <2>1 DEF ArriveWithPass
  <2>2. CASE ~(backstagePass # NoReq /\ passOf[r] = backstagePass)
    BY <1>0, <1>9, <2>2, PostedAlone DEF ArriveWithPass
  <2>. QED BY <2>1, <2>2
<1>10. ASSUME NEW r \in Req, ArriveAndProceed(r) PROVE BurstInv'
  BY <1>b, <1>d, <1>10 DEF ArriveAndProceed
<1>11. ASSUME NEW r \in Req, ArriveAndQueue(r) PROVE BurstInv'
  BY <1>b, <1>d, <1>11 DEF ArriveAndQueue
<1>12. ASSUME NEW r \in Req, Respond(r) PROVE BurstInv'
  BY <1>0, <1>12, PostedAlone DEF Respond
<1>13. ASSUME NEW b \in Req, BatchGoesOn(b) PROVE BurstInv'
  <2>1. at[b] + 1 \in DOMAIN Subs[b] /\ at[b] + 1 > at[b]
    <3>1. Subs[b] \in Seq(Req) /\ at[b] \in Nat /\ at[b] < Len(Subs[b])
      BY <1>0, <1>13, ConstantsAssumption DEF TypeOK, BatchGoesOn
    <3>. QED BY <3>1
  <2>2. PICK s \in Req : s = Subs[b][at[b] + 1]
    BY <2>1, ConstantsAssumption
  <2>3. phase[s] = "idle"
    BY <1>0, <2>1, <2>2 DEF Shape, UnsentIdle
  <2>4. phase' = [phase EXCEPT ![s] = "transit"] /\ seqNo' = seqNo /\ wire' = wire /\ stack' = stack
    BY <1>13, <2>2 DEF BatchGoesOn, Issue
  <2>. QED BY <1>b, <1>d, <2>3, <2>4
<1>14. ASSUME NEW b \in Req, BatchSucceeds(b) PROVE BurstInv'
  BY <1>0, <1>14, PostedAlone DEF BatchSucceeds, Answered
<1>15. ASSUME NEW b \in Req, BatchUndoes(b) PROVE BurstInv'
  <2>1. Undo[b] # NoReq
    BY <1>15, ConstantsAssumption DEF BatchUndoes, MustUndo
  <2>2. Undo[b] \in Req /\ phase[Undo[b]] = "idle"
    BY <1>0, <1>15, <2>1, ConstantsAssumption DEF BatchUndoes, Shape, UnsentIdle
  <2>3. /\ phase' = [phase EXCEPT ![Undo[b]] = "transit"] /\ seqNo' = seqNo /\ wire' = wire
        /\ stack' = stack
    BY <1>15 DEF BatchUndoes
  <2>. QED BY <1>b, <1>d, <2>2, <2>3
<1>16. ASSUME NEW b \in Req, BatchFails(b) PROVE BurstInv'
  BY <1>0, <1>16, PostedAlone DEF BatchFails, Answered
<1>. QED
  BY <1>1, <1>2, <1>3, <1>4, <1>5, <1>6, <1>7, <1>8, <1>9, <1>10, <1>11, <1>12, <1>13,
     <1>14, <1>15, <1>16
     DEF Next, Turn, Handle, Arrive, Collect

\* For every set of requests, the numbers that have left the worker between two turns are
\* 1 .. n, each once: __postMessage gives them out in one order and sends in another, but a
\* turn ends with nothing unsent.
THEOREM BurstsAreComplete == Spec => []BurstsComplete
<1>1. Init => BurstInv
  <2>. SUFFICES ASSUME Init PROVE BurstInv
    OBVIOUS
  <2>1. Numbered = {} /\ Emitted = {} /\ wire = <<>>
    BY DEF Init, Numbered, Emitted
  <2>2. \A r \in Req : phase[r] # "replying"
    BY DEF Init
  <2>3. Cardinality({}) = 0
    BY FS_EmptySet
  <2>. QED BY <2>1, <2>2, <2>3 DEF BurstInv, RepliesOnStack, NumbersGiven, EmittedOnWire
<1>2. BurstInv => BurstsComplete
  <2>. SUFFICES ASSUME BurstInv, stack = <<>>
                PROVE  { wire[i] : i \in DOMAIN wire } = 1 .. Len(wire)
    BY DEF BurstsComplete
  <2>1. 1 .. Len(stack) = {}
    OBVIOUS
  <2>2. \A r \in Req : phase[r] # "replying"
    BY <2>1 DEF BurstInv, RepliesOnStack
  <2>3. Emitted = Numbered
    BY <2>2 DEF BurstInv, NumbersGiven, Emitted, Numbered
  <2>. QED BY <2>3 DEF BurstInv, NumbersGiven, EmittedOnWire
<1>. QED
  BY Inductive, InitIInv, NextBurst, <1>1, <1>2, PTL DEF Spec

-----------------------------------------------------------------------------
(* Backstage passes: a pass that lets a request past the queue never lets  *)
(* two edits run at once, and is never stale when the request arrives.     *)
(* Both rest on there being one batchEdit in progress, the one that holds  *)
(* the writer's place, and on its having one request out at a time.        *)

-----------------------------------------------------------------------------
(* The invariant, on top of IInv.                                          *)

\* A request in progress that no pass let in is counted as what it is.
CountedAsIs ==
    \A r \in Req : phase[r] = "running" /\ ~HasPass(r)
                      => lockInfo[r] = IF IsRead(r) THEN "reader" ELSE "writer"

\* A batchEdit that contains another sends nothing; one that has sent nothing has
\* not failed.
RefusedSendsNothing ==
    \A b \in Req : /\ IsNested(b) => at[b] = 0
                   /\ failed[b] => at[b] > 0

\* b is a batchEdit in progress, and has sent something
InProgress(b) == Kind[b] = "batchEdit" /\ phase[b] = "running" /\ at[b] > 0

\* A request with a pass that has been sent and is not answered is the one that a
\* batchEdit in progress waits for.
OneOut ==
    \A r \in Req : HasPass(r) /\ phase[r] \notin {"idle", "answered"}
                      => \E b \in Req : InProgress(b) /\ r = Outstanding(b)

\* A batchEdit in progress has a pass, which is that of the request it has sent.
PassKept ==
    /\ \A b \in Req : InProgress(b) => backstagePass # NoReq
    /\ \A r \in Req : HasPass(r) /\ phase[r] = "transit" => passOf[r] = backstagePass

BatchInv == CountedAsIs /\ RefusedSendsNothing /\ OneOut /\ PassKept

-----------------------------------------------------------------------------
(* What the constants say of batches.                                      *)

\* Only the batch that sends a request is its parent.
LEMMA OnlyParent ==
    ASSUME NEW b \in Req, NEW s, s \in SubsOf(b) \/ (s = Undo[b] /\ Undo[b] # NoReq)
    PROVE  s \in Req /\ s # b /\ Parents[s] = {b}
<1>1. s \in Req
  BY ConstantsAssumption DEF SubsOf
<1>2. Parents[s] = { d \in Req : s \in SubsOf(d) \/ s = Undo[d] }
  BY <1>1 DEF Parents
<1>3. b \in Parents[s]
  BY <1>2
<1>4. ASSUME NEW d \in Req, Undo[d] = s PROVE Parents[s] = {d}
  <2>1. Undo[d] # NoReq
    BY <1>1, <1>4, ConstantsAssumption
  <2>2. Undo[d] # NoReq => Parents[Undo[d]] = {d}
    BY ConstantsAssumption
  <2>. QED BY <1>4, <2>1, <2>2
<1>5. ASSUME NEW d \in Req, s \in SubsOf(d) PROVE d = b
  <2>1. CASE s \in SubsOf(b)
    <3>1. PICK i \in DOMAIN Subs[b] : s = Subs[b][i]
      BY <2>1 DEF SubsOf
    <3>2. PICK j \in DOMAIN Subs[d] : s = Subs[d][j]
      BY <1>5 DEF SubsOf
    <3>3. Subs[b][i] = Subs[d][j] => b = d /\ i = j
      BY ConstantsAssumption
    <3>. QED BY <3>1, <3>2, <3>3
  <2>2. CASE s = Undo[b]
    BY <1>2, <1>4, <1>5, <2>2
  <2>. QED BY <2>1, <2>2
<1>6. \A d \in Parents[s] : d = b
  BY <1>2, <1>3, <1>4, <1>5
<1>7. s # b
  BY <1>1, <1>3, ConstantsAssumption
<1>. QED BY <1>1, <1>3, <1>6, <1>7

\* A request carries a pass exactly when the batch that sends it is a batchEdit.
LEMMA PassOfParent ==
    ASSUME NEW b \in Req, NEW s, s \in SubsOf(b) \/ (s = Undo[b] /\ Undo[b] # NoReq)
    PROVE  HasPass(s) <=> Kind[b] = "batchEdit"
BY OnlyParent DEF HasPass

\* No pass lets a batchEdit in: the batch it is in was refused.
LEMMA BatchHasNoPass ==
    ASSUME Shape, RefusedSendsNothing, NEW b \in Req, Kind[b] = "batchEdit",
           phase[b] # "idle"
    PROVE  ~HasPass(b)
<1>. SUFFICES ASSUME HasPass(b) PROVE FALSE
  OBVIOUS
<1>1. PICK d \in Req : Kind[d] = "batchEdit" /\ (b \in SubsOf(d) \/ b = Undo[d])
  BY DEF HasPass, Parents
<1>2. Undo[d] # NoReq /\ Kind[Undo[d]] = "write"
  BY <1>1, ConstantsAssumption
<1>3. b \in SubsOf(d)
  BY <1>1, <1>2
<1>4. at[d] = 0
  BY <1>1, <1>3 DEF IsNested, RefusedSendsNothing
<1>5. PICK j \in DOMAIN Subs[d] : b = Subs[d][j]
  BY <1>3 DEF SubsOf
<1>6. j > 0
  <2>1. Subs[d] \in Seq(Req)
    BY ConstantsAssumption
  <2>. QED BY <2>1
<1>. QED BY <1>4, <1>5, <1>6 DEF Shape, UnsentIdle

\* Two batchEdits are not in progress at once.
LEMMA OneBatchEdit ==
    ASSUME IInv, CountedAsIs, RefusedSendsNothing,
           NEW b \in Req, Kind[b] = "batchEdit", phase[b] = "running",
           NEW c \in Req, Kind[c] = "batchEdit", phase[c] = "running"
    PROVE  b = c
<1>1. ~HasPass(b) /\ ~HasPass(c)
  BY BatchHasNoPass DEF IInv
<1>2. lockInfo[b] = "writer" /\ lockInfo[c] = "writer"
  BY <1>1 DEF CountedAsIs, IsRead
<1>. QED BY <1>2, OneWriter DEF WriterExclusion, Counted

\* What follows from the kinds: who issues is not plain.
LEMMA PlainNoBatch ==
    ASSUME NEW r \in Req, IsPlain(r)
    PROVE  ~InProgress(r)
BY DEF IsPlain, InProgress

-----------------------------------------------------------------------------
(* One request out at a time.                                              *)

\* A request that is out stays out if its batch waits on.
LEMMA OutKept ==
    ASSUME OneOut, NEW r \in Req, HasPass(r), phase[r] \notin {"idle", "answered"},
           \A b \in Req : InProgress(b) /\ r = Outstanding(b)
              => phase'[b] = "running" /\ at'[b] = at[b] /\ failed'[b] = failed[b]
    PROVE  \E b \in Req : InProgress(b)' /\ r = Outstanding(b)'
<1>1. PICK b \in Req : InProgress(b) /\ r = Outstanding(b)
  BY DEF OneOut
<1>2. phase'[b] = "running" /\ at'[b] = at[b] /\ failed'[b] = failed[b]
  BY <1>1
<1>3. InProgress(b)'
  BY <1>1, <1>2 DEF InProgress
<1>4. Outstanding(b)' = Outstanding(b)
  BY <1>2 DEF Outstanding
<1>. QED BY <1>1, <1>3, <1>4

\* A request moves on, no batch sends anything, and no batch stops whose request
\* is still out.
LEMMA MoveKeepsOut ==
    ASSUME TypeOK, CountedAsIs, RefusedSendsNothing, OneOut,
           NEW x \in Req, NEW v \in Phase \ {"idle", "transit"},
           phase' = [phase EXCEPT ![x] = v],
           at' = at, failed' = failed,
           phase[x] \notin {"idle", "answered"},
           InProgress(x) => phase[Outstanding(x)] = "answered",
           \A y \in Req : y # x => lockInfo'[y] = lockInfo[y],
           v = "running" /\ ~HasPass(x)
               => lockInfo'[x] = IF IsRead(x) THEN "reader" ELSE "writer"
    PROVE  CountedAsIs' /\ RefusedSendsNothing' /\ OneOut'
<1>1. phase'[x] = v /\ \A y \in Req : y # x => phase'[y] = phase[y]
  BY DEF TypeOK
<1>2. CountedAsIs'
  <2>. SUFFICES ASSUME NEW r \in Req, phase'[r] = "running", ~HasPass(r)
                PROVE  lockInfo'[r] = IF IsRead(r) THEN "reader" ELSE "writer"
    BY DEF CountedAsIs, HasPass, IsRead
  <2>1. CASE r = x
    BY <1>1, <2>1
  <2>2. CASE r # x
    BY <1>1, <2>2 DEF CountedAsIs
  <2>. QED BY <2>1, <2>2
<1>3. RefusedSendsNothing'
  BY DEF RefusedSendsNothing, IsNested
<1>4. OneOut'
  <2>. SUFFICES ASSUME NEW r \in Req, HasPass(r), phase'[r] \notin {"idle", "answered"}
                PROVE  \E b \in Req : InProgress(b)' /\ r = Outstanding(b)'
    BY DEF OneOut, HasPass
  <2>1. phase[r] \notin {"idle", "answered"}
    BY <1>1
  <2>2. ASSUME NEW b \in Req, InProgress(b), r = Outstanding(b)
        PROVE  phase'[b] = "running"
    BY <1>1, <2>1, <2>2 DEF InProgress
  <2>. QED BY <2>1, <2>2, OutKept
<1>. QED BY <1>2, <1>3, <1>4

\* Passes are kept by a step that leaves them alone and sends nothing.
LEMMA MoveKeepsPass ==
    ASSUME TypeOK, PassKept,
           NEW x \in Req, NEW v \in Phase \ {"idle", "transit"},
           phase' = [phase EXCEPT ![x] = v],
           at' = at, backstagePass' = backstagePass, passOf' = passOf,
           v = "running" => at[x] = 0
    PROVE  PassKept'
<1>1. phase'[x] = v /\ \A y \in Req : y # x => phase'[y] = phase[y]
  BY DEF TypeOK
<1>2. ASSUME NEW b \in Req, InProgress(b)' PROVE backstagePass' # NoReq
  <2>1. InProgress(b)
    BY <1>1, <1>2 DEF InProgress
  <2>. QED BY <2>1 DEF PassKept
<1>3. ASSUME NEW r \in Req, HasPass(r), phase'[r] = "transit"
      PROVE  passOf'[r] = backstagePass'
  BY <1>1, <1>3 DEF PassKept
<1>. QED BY <1>2, <1>3 DEF PassKept, HasPass

\* A batch sends its next request.
LEMMA IssueKeeps ==
    ASSUME IInv, BatchInv, NEW b \in Req, NEW i \in DOMAIN Subs[b], Issue(b, i),
           i = at[b] + 1, phase[b] = "running", ~IsNested(b), ~failed[b],
           at[b] > 0 => phase[Outstanding(b)] = "answered",
           failed' = failed, lockInfo' = lockInfo
    PROVE  BatchInv'
<1>. DEFINE s == Subs[b][i]
<1>0. TypeOK /\ Shape /\ at[b] \in Nat
  BY DEF IInv, TypeOK
<1>1. s \in SubsOf(b)
  BY DEF SubsOf
<1>2. s \in Req /\ s # b /\ (HasPass(s) <=> Kind[b] = "batchEdit")
  BY <1>1, OnlyParent, PassOfParent
<1>3. phase[s] = "idle"
  <2>1. i > at[b]
    BY <1>0
  <2>. QED BY <1>0, <2>1 DEF Shape, UnsentIdle
<1>. HIDE DEF s
<1>4. /\ phase' = [phase EXCEPT ![s] = "transit"] /\ at' = [at EXCEPT ![b] = i]
      /\ Kind[b] = "batchEdit" => /\ backstagePass' = s
                                  /\ passOf' = [passOf EXCEPT ![s] = s]
      /\ Kind[b] # "batchEdit" => backstagePass' = backstagePass /\ passOf' = passOf
  BY DEF Issue, s
<1>5. /\ phase'[s] = "transit" /\ \A y \in Req : y # s => phase'[y] = phase[y]
      /\ at'[b] = i /\ \A y \in Req : y # b => at'[y] = at[y]
      /\ i > 0
  BY <1>0, <1>2, <1>4 DEF TypeOK
<1>6. CountedAsIs'
  BY <1>5 DEF BatchInv, CountedAsIs, HasPass, IsRead
<1>7. RefusedSendsNothing'
  BY <1>5 DEF BatchInv, RefusedSendsNothing, IsNested
<1>8. OneOut'
  <2>. SUFFICES ASSUME NEW r \in Req, HasPass(r), phase'[r] \notin {"idle", "answered"}
                PROVE  \E c \in Req : InProgress(c)' /\ r = Outstanding(c)'
    BY DEF OneOut, HasPass
  <2>1. CASE r = s
    <3>1. InProgress(b)'
      BY <1>2, <1>5, <2>1 DEF InProgress
    <3>2. Outstanding(b)' = Subs[b][at'[b]]
      BY DEF Outstanding
    <3>. QED BY <1>5, <2>1, <3>1, <3>2 DEF s
  <2>2. CASE r # s
    <3>1. phase[r] \notin {"idle", "answered"}
      BY <1>5, <2>2
    <3>2. ASSUME NEW c \in Req, InProgress(c), r = Outstanding(c)
          PROVE  phase'[c] = "running" /\ at'[c] = at[c] /\ failed'[c] = failed[c]
      <4>1. c # b
        BY <3>1, <3>2 DEF InProgress
      <4>. QED BY <1>3, <1>5, <3>2, <4>1 DEF InProgress
    <3>. QED BY <3>1, <3>2, OutKept DEF BatchInv
  <2>. QED BY <2>1, <2>2
<1>9. PassKept'
  <2>1. ASSUME NEW c \in Req, InProgress(c)' PROVE backstagePass' # NoReq
    <3>1. CASE Kind[b] = "batchEdit"
      BY <1>2, <1>4, <3>1, ConstantsAssumption
    <3>2. CASE Kind[b] # "batchEdit"
      <4>1. c # b /\ c # s
        BY <1>5, <2>1, <3>2 DEF InProgress
      <4>2. InProgress(c)
        BY <1>5, <2>1, <4>1 DEF InProgress
      <4>. QED BY <1>4, <3>2, <4>2 DEF BatchInv, PassKept
    <3>. QED BY <3>1, <3>2
  <2>2. ASSUME NEW r \in Req, HasPass(r), phase'[r] = "transit"
        PROVE  passOf'[r] = backstagePass'
    <3>1. CASE r = s
      BY <1>0, <1>2, <1>4, <2>2, <3>1 DEF TypeOK
    <3>2. CASE r # s
      <4>1. phase[r] = "transit"
        BY <1>5, <2>2, <3>2
      <4>2. PICK c \in Req : InProgress(c) /\ r = Outstanding(c)
        BY <2>2, <4>1 DEF BatchInv, OneOut
      <4>3. Kind[b] # "batchEdit"
        <5>. SUFFICES ASSUME Kind[b] = "batchEdit" PROVE FALSE
          OBVIOUS
        <5>1. c = b
          BY <4>2, OneBatchEdit DEF InProgress, BatchInv
        <5>. QED BY <4>1, <4>2, <5>1 DEF InProgress
      <4>. QED BY <1>4, <2>2, <4>1, <4>3 DEF BatchInv, PassKept
    <3>. QED BY <3>1, <3>2
  <2>. QED BY <2>1, <2>2 DEF PassKept, HasPass
<1>. QED BY <1>6, <1>7, <1>8, <1>9 DEF BatchInv

\* A batchEdit whose request failed sends its POST /undo with the current pass.
LEMMA UndoKeeps ==
    ASSUME IInv, BatchInv, NEW b \in Req, BatchUndoes(b)
    PROVE  BatchInv'
<1>. DEFINE u == Undo[b]
<1>0. TypeOK /\ Shape /\ at[b] \in Nat
  BY DEF IInv, TypeOK
<1>1. /\ InProgress(b) /\ ~failed[b] /\ phase[Outstanding(b)] = "answered"
      /\ phase' = [phase EXCEPT ![u] = "transit"]
      /\ failed' = [failed EXCEPT ![b] = TRUE]
      /\ passOf' = [passOf EXCEPT ![u] = backstagePass]
      /\ backstagePass' = backstagePass /\ at' = at /\ lockInfo' = lockInfo
  BY <1>0 DEF BatchUndoes, Answered, MustUndo, InProgress, locks
<1>2. u # NoReq
  BY <1>1, ConstantsAssumption DEF InProgress
<1>3. u \in Req /\ u # b /\ HasPass(u)
  BY <1>1, <1>2, OnlyParent, PassOfParent DEF InProgress
<1>4. phase[u] = "idle"
  BY <1>0, <1>1, <1>2 DEF Shape, UnsentIdle
<1>. HIDE DEF u
<1>5. /\ phase'[u] = "transit" /\ \A y \in Req : y # u => phase'[y] = phase[y]
      /\ failed'[b] = TRUE /\ \A y \in Req : y # b => failed'[y] = failed[y]
  BY <1>0, <1>1, <1>3 DEF TypeOK
<1>6. CountedAsIs'
  BY <1>1, <1>5 DEF BatchInv, CountedAsIs, HasPass, IsRead
<1>7. RefusedSendsNothing'
  BY <1>1, <1>5 DEF BatchInv, RefusedSendsNothing, IsNested, InProgress
<1>8. OneOut'
  <2>. SUFFICES ASSUME NEW r \in Req, HasPass(r), phase'[r] \notin {"idle", "answered"}
                PROVE  \E c \in Req : InProgress(c)' /\ r = Outstanding(c)'
    BY DEF OneOut, HasPass
  <2>1. CASE r = u
    <3>1. InProgress(b)'
      BY <1>1, <1>3, <1>5 DEF InProgress
    <3>2. Outstanding(b)' = u
      BY <1>5 DEF Outstanding, u
    <3>. QED BY <2>1, <3>1, <3>2
  <2>2. CASE r # u
    <3>1. phase[r] \notin {"idle", "answered"}
      BY <1>5, <2>2
    <3>2. ASSUME NEW c \in Req, InProgress(c), r = Outstanding(c)
          PROVE  phase'[c] = "running" /\ at'[c] = at[c] /\ failed'[c] = failed[c]
      <4>1. c # b
        BY <1>1, <3>1, <3>2
      <4>. QED BY <1>1, <1>4, <1>5, <3>2, <4>1 DEF InProgress
    <3>. QED BY <3>1, <3>2, OutKept DEF BatchInv
  <2>. QED BY <2>1, <2>2
<1>9. PassKept'
  <2>1. backstagePass # NoReq
    BY <1>1 DEF BatchInv, PassKept
  <2>2. ASSUME NEW r \in Req, HasPass(r), phase'[r] = "transit"
        PROVE  passOf'[r] = backstagePass'
    <3>1. CASE r = u
      BY <1>0, <1>1, <1>3, <3>1 DEF TypeOK
    <3>2. CASE r # u
      BY <1>1, <1>5, <2>2, <3>2 DEF BatchInv, PassKept
    <3>. QED BY <3>1, <3>2
  <2>. QED BY <1>1, <2>1, <2>2 DEF PassKept, HasPass
<1>. QED BY <1>6, <1>7, <1>8, <1>9 DEF BatchInv

\* A batch that has its last answer posts its own, and forgets the pass.
LEMMA EndKeeps ==
    ASSUME IInv, BatchInv, NEW b \in Req, NEW success \in BOOLEAN,
           Answered(b), PostMessage(b, success, <<>>), ForgetPass(b)
    PROVE  BatchInv'
<1>0. TypeOK
  BY DEF IInv
<1>1. /\ phase' = [phase EXCEPT ![b] = "replying"] /\ lockInfo' = lockInfo
      /\ at' = at /\ failed' = failed /\ passOf' = passOf
      /\ backstagePass' = IF Kind[b] = "batchEdit" THEN NoReq ELSE backstagePass
      /\ phase[b] = "running" /\ phase[Outstanding(b)] = "answered"
  BY DEF PostMessage, Release, ForgetPass, Answered
<1>2. "replying" \in Phase \ {"idle", "transit"}
  BY DEF Phase
<1>3. CountedAsIs' /\ RefusedSendsNothing' /\ OneOut'
  BY <1>0, <1>1, <1>2, MoveKeepsOut DEF BatchInv
<1>4. PassKept'
  <2>1. CASE Kind[b] # "batchEdit"
    BY <1>0, <1>1, <1>2, <2>1, MoveKeepsPass DEF BatchInv
  <2>2. CASE Kind[b] = "batchEdit"
    <3>1. phase'[b] = "replying" /\ \A y \in Req : y # b => phase'[y] = phase[y]
      BY <1>0, <1>1 DEF TypeOK
    <3>2. ASSUME NEW c \in Req, InProgress(c)' PROVE FALSE
      <4>1. c # b /\ Kind[c] = "batchEdit" /\ phase[c] = "running"
        BY <3>1, <3>2 DEF InProgress
      <4>. QED BY <1>1, <2>2, <4>1, OneBatchEdit DEF BatchInv
    <3>3. ASSUME NEW r \in Req, HasPass(r), phase'[r] = "transit" PROVE FALSE
      <4>1. phase[r] = "transit"
        BY <3>1, <3>3
      <4>2. PICK c \in Req : InProgress(c) /\ r = Outstanding(c)
        BY <3>3, <4>1 DEF BatchInv, OneOut
      <4>3. c = b
        BY <1>1, <2>2, <4>2, OneBatchEdit DEF BatchInv, InProgress
      <4>. QED BY <1>1, <4>1, <4>2, <4>3
    <3>. QED BY <3>2, <3>3 DEF PassKept, HasPass
  <2>. QED BY <2>1, <2>2
<1>. QED BY <1>3, <1>4 DEF BatchInv

\* A request that moves on and is none of the batches'.
LEMMA MoveKeeps ==
    ASSUME IInv, BatchInv,
           NEW x \in Req, NEW v \in Phase \ {"idle", "transit"},
           phase' = [phase EXCEPT ![x] = v],
           at' = at, failed' = failed, backstagePass' = backstagePass, passOf' = passOf,
           phase[x] \notin {"idle", "answered"}, ~InProgress(x),
           \A y \in Req : y # x => lockInfo'[y] = lockInfo[y],
           v = "running" => at[x] = 0,
           v = "running" /\ ~HasPass(x)
               => lockInfo'[x] = IF IsRead(x) THEN "reader" ELSE "writer"
    PROVE  BatchInv'
<1>1. TypeOK
  BY DEF IInv
<1>2. CountedAsIs' /\ RefusedSendsNothing' /\ OneOut'
  BY <1>1, MoveKeepsOut DEF BatchInv
<1>3. PassKept'
  BY <1>1, MoveKeepsPass DEF BatchInv
<1>. QED BY <1>2, <1>3 DEF BatchInv

\* A request that is given its place is counted as what it is.
LEMMA GrantCounts ==
    ASSUME TypeOK, NEW r \in Req, Grant(r)
    PROVE  /\ lockInfo'[r] = IF IsRead(r) THEN "reader" ELSE "writer"
           /\ \A y \in Req : y # r => lockInfo'[y] = lockInfo[y]
BY DEF Grant, TypeOK

\* Posting the answer of a request that is no batch in progress.
LEMMA PostKeeps ==
    ASSUME IInv, BatchInv, NEW r \in Req, NEW success, NEW below,
           PostMessage(r, success, below), UNCHANGED batch,
           phase[r] \notin {"idle", "answered"}, ~InProgress(r)
    PROVE  BatchInv'
<1>1. /\ phase' = [phase EXCEPT ![r] = "replying"] /\ lockInfo' = lockInfo
      /\ at' = at /\ failed' = failed /\ passOf' = passOf /\ backstagePass' = backstagePass
  BY DEF PostMessage, Release, batch
<1>2. "replying" \in Phase \ {"idle", "transit"}
  BY DEF Phase
<1>. QED BY <1>1, <1>2, MoveKeeps

\* Every step of the worker keeps the passes in order.
LEMMA NextBatch == IInv /\ BatchInv /\ [Next]_vars => BatchInv'
<1>. SUFFICES ASSUME IInv, BatchInv, [Next]_vars
              PROVE  BatchInv'
  OBVIOUS
<1>0. /\ TypeOK /\ Shape /\ CallsOnStack
      /\ {"running", "replying", "answered", "lost", "queued"} \subseteq Phase \ {"idle", "transit"}
      /\ \A r \in Req : phase[r] # "running" => ~InProgress(r)
  BY DEF IInv, Shape, Phase, InProgress
<1>1. ASSUME phase' = phase, lockInfo' = lockInfo, UNCHANGED batch
      PROVE  BatchInv'
  BY <1>1 DEF batch, BatchInv, CountedAsIs, RefusedSendsNothing, OneOut, PassKept,
              InProgress, Outstanding, HasPass, IsRead, IsNested
<1>2. CASE UNCHANGED vars
  BY <1>1, <1>2 DEF vars, locks
<1>3. ASSUME RunHead PROVE BatchInv'
  <2>1. PICK h \in Req : h = Head(reqQueue) /\ h = reqQueue[1] /\ phase[h] = "queued"
    BY <1>0, <1>3 DEF RunHead, HeadMayRun, TypeOK, Shape, QueueOfWaiting
  <2>2. /\ Grant(h) /\ phase' = [phase EXCEPT ![h] = "running"]
        /\ at' = at /\ failed' = failed /\ passOf' = passOf /\ backstagePass' = backstagePass
    BY <1>3, <2>1 DEF RunHead, batch
  <2>3. at[h] = 0
    BY <1>0, <2>1 DEF Shape, Fresh
  <2>4. /\ lockInfo'[h] = IF IsRead(h) THEN "reader" ELSE "writer"
        /\ \A y \in Req : y # h => lockInfo'[y] = lockInfo[y]
    BY <1>0, <2>2, GrantCounts
  <2>. QED BY <1>0, <2>1, <2>2, <2>3, <2>4, MoveKeeps
<1>4. ASSUME RunStops PROVE BatchInv'
  BY <1>1, <1>4 DEF RunStops, locks
<1>5. ASSUME Send PROVE BatchInv'
  <2>1. PICK r \in Req : Top.req = r /\ phase[r] = "replying"
    BY <1>0, <1>5, PoppedShape DEF Send, Frame
  <2>2. /\ phase' = [phase EXCEPT ![r] = "answered"] /\ lockInfo' = lockInfo
        /\ at' = at /\ failed' = failed /\ passOf' = passOf /\ backstagePass' = backstagePass
    BY <1>5, <2>1 DEF Send, locks, batch
  <2>. QED BY <1>0, <2>1, <2>2, MoveKeeps
<1>6. ASSUME NEW r \in Req, HandleNow(r) PROVE BatchInv'
  <2>1. Top.fn = "handle" /\ Top.req = r /\ stack # <<>> /\ ~InProgress(r)
    BY <1>6, PlainNoBatch DEF HandleNow, Call
  <2>2. phase[r] = "running"
    BY <1>0, <2>1, PoppedShape
  <2>. QED BY <1>6, <2>1, <2>2, PostKeeps DEF HandleNow
<1>7. ASSUME NEW r \in Req, HandleLater(r) PROVE BatchInv'
  BY <1>1, <1>7 DEF HandleLater, locks
<1>8. ASSUME NEW b \in Req, HandleBatch(b) PROVE BatchInv'
  <2>1. Top.fn = "handle" /\ Top.req = b /\ stack # <<>>
    BY <1>8 DEF HandleBatch, Call
  <2>2. phase[b] = "running" /\ at[b] = 0
    BY <1>0, <2>1, PoppedShape
  <2>3. 1 \in DOMAIN Subs[b]
    <3>1. Subs[b] \in Seq(Req) /\ Subs[b] # <<>>
      BY <1>8, ConstantsAssumption DEF HandleBatch, IsPlain
    <3>. QED BY <3>1
  <2>4. failed[b] = FALSE
    BY <1>0, <2>2 DEF BatchInv, RefusedSendsNothing, TypeOK
  <2>. QED BY <1>8, <2>2, <2>3, <2>4, IssueKeeps DEF HandleBatch, locks
<1>9. ASSUME NEW b \in Req, HandleNestedBatch(b) PROVE BatchInv'
  <2>1. Top.fn = "handle" /\ Top.req = b /\ stack # <<>>
    BY <1>9 DEF HandleNestedBatch, Call
  <2>2. phase[b] = "running" /\ ~InProgress(b)
    BY <1>0, <2>1, PoppedShape DEF InProgress
  <2>3. /\ phase' = [phase EXCEPT ![b] = "lost"] /\ lockInfo' = lockInfo
        /\ at' = at /\ failed' = failed /\ passOf' = passOf /\ backstagePass' = backstagePass
    BY <1>9 DEF HandleNestedBatch, locks, batch
  <2>. QED BY <1>0, <2>2, <2>3, MoveKeeps
<1>10. ASSUME NEW r \in Req, ArriveWithPass(r) PROVE BatchInv'
  <2>1. phase[r] = "transit" /\ HasPass(r) /\ UNCHANGED batch
    BY <1>10 DEF ArriveWithPass
  <2>2. CASE backstagePass # NoReq /\ passOf[r] = backstagePass
    <3>1. /\ phase' = [phase EXCEPT ![r] = "running"] /\ lockInfo' = lockInfo
          /\ at' = at /\ failed' = failed /\ passOf' = passOf /\ backstagePass' = backstagePass
      BY <1>10, <2>2 DEF ArriveWithPass, locks, batch
    <3>2. at[r] = 0
      BY <1>0, <2>1 DEF Shape, Fresh
    <3>. QED BY <1>0, <2>1, <3>1, <3>2, MoveKeeps
  <2>3. CASE ~(backstagePass # NoReq /\ passOf[r] = backstagePass)
    BY <1>0, <1>10, <2>1, <2>3, PostKeeps DEF ArriveWithPass
  <2>. QED BY <2>2, <2>3
<1>11. ASSUME NEW r \in Req, ArriveAndProceed(r) PROVE BatchInv'
  <2>1. /\ phase[r] = "transit" /\ Grant(r) /\ phase' = [phase EXCEPT ![r] = "running"]
        /\ at' = at /\ failed' = failed /\ passOf' = passOf /\ backstagePass' = backstagePass
    BY <1>11 DEF ArriveAndProceed, batch
  <2>2. at[r] = 0
    BY <1>0, <2>1 DEF Shape, Fresh
  <2>3. /\ lockInfo'[r] = IF IsRead(r) THEN "reader" ELSE "writer"
        /\ \A y \in Req : y # r => lockInfo'[y] = lockInfo[y]
    BY <1>0, <2>1, GrantCounts
  <2>. QED BY <1>0, <2>1, <2>2, <2>3, MoveKeeps
<1>12. ASSUME NEW r \in Req, ArriveAndQueue(r) PROVE BatchInv'
  <2>1. /\ phase[r] = "transit" /\ phase' = [phase EXCEPT ![r] = "queued"] /\ lockInfo' = lockInfo
        /\ at' = at /\ failed' = failed /\ passOf' = passOf /\ backstagePass' = backstagePass
    BY <1>12 DEF ArriveAndQueue, batch
  <2>. QED BY <1>0, <2>1, MoveKeeps
<1>13. ASSUME NEW r \in Req, Respond(r) PROVE BatchInv'
  <2>1. phase[r] = "running" /\ ~InProgress(r)
    BY <1>13, PlainNoBatch DEF Respond
  <2>. QED BY <1>13, <2>1, PostKeeps DEF Respond
<1>14. ASSUME NEW b \in Req, BatchGoesOn(b) PROVE BatchInv'
  <2>1. /\ phase[b] = "running" /\ at[b] > 0 /\ phase[Outstanding(b)] = "answered"
        /\ ~failed[b] /\ Issue(b, at[b] + 1) /\ failed' = failed /\ lockInfo' = lockInfo
        /\ at[b] < Len(Subs[b])
    BY <1>14 DEF BatchGoesOn, Answered, locks
  <2>2. at[b] + 1 \in DOMAIN Subs[b]
    <3>1. Subs[b] \in Seq(Req) /\ at[b] \in Nat
      BY <1>0, ConstantsAssumption DEF TypeOK
    <3>. QED BY <2>1, <3>1
  <2>3. ~IsNested(b)
    BY <1>0, <2>1 DEF BatchInv, RefusedSendsNothing, TypeOK
  <2>. QED BY <2>1, <2>2, <2>3, IssueKeeps
<1>15. ASSUME NEW b \in Req, BatchSucceeds(b) PROVE BatchInv'
  BY <1>15, EndKeeps DEF BatchSucceeds
<1>16. ASSUME NEW b \in Req, BatchUndoes(b) PROVE BatchInv'
  BY <1>16, UndoKeeps
<1>17. ASSUME NEW b \in Req, BatchFails(b) PROVE BatchInv'
  BY <1>17, EndKeeps DEF BatchFails
<1>. QED
  BY <1>2, <1>3, <1>4, <1>5, <1>6, <1>7, <1>8, <1>9, <1>10, <1>11, <1>12, <1>13,
     <1>14, <1>15, <1>16, <1>17
     DEF Next, Turn, Handle, Arrive, Collect

-----------------------------------------------------------------------------
(* The theorems.                                                           *)

\* The invariant holds in every state the worker reaches.
LEMMA BatchInductive == Spec => [](IInv /\ BatchInv)
<1>1. Init => BatchInv
  <2>. SUFFICES ASSUME Init PROVE BatchInv
    OBVIOUS
  <2>1. /\ \A r \in Req : phase[r] \in {"idle", "transit"}
        /\ \A r \in Req : HasPass(r) => phase[r] = "idle"
    BY DEF Init, OfClients, HasPass
  <2>2. \A b \in Req : at[b] = 0 /\ ~failed[b]
    BY DEF Init
  <2>. QED BY <2>1, <2>2 DEF BatchInv, CountedAsIs, RefusedSendsNothing, OneOut, PassKept,
                             InProgress
<1>2. IInv /\ BatchInv /\ [Next]_vars => (IInv /\ BatchInv)'
  BY NextBatch, NextTypes, NextShape, NextPlaces, NextWakeup DEF IInv
<1>. QED
  BY InitIInv, <1>1, <1>2, PTL DEF Spec

\* For every set of requests, two edits of the model are never in progress at once,
\* whether they wait for the writer's place or pass the queue as part of a batchEdit.
THEOREM EditsNeverOverlap == Spec => []EditsSerialized
<1>1. IInv /\ BatchInv => EditsSerialized
  <2>. SUFFICES ASSUME IInv, BatchInv,
                       NEW r \in Req, Kind[r] = "write", phase[r] = "running",
                       NEW s \in Req, Kind[s] = "write", phase[s] = "running"
                PROVE  r = s
    BY DEF EditsSerialized
  <2>1. \A q \in {r, s} : ~HasPass(q) => q \in Counted("writer")
    BY DEF BatchInv, CountedAsIs, IsRead, Counted
  <2>2. \A q \in {r, s} : HasPass(q) => \E b \in Req : InProgress(b) /\ q = Outstanding(b)
    BY DEF BatchInv, OneOut
  <2>3. ASSUME NEW b \in Req, InProgress(b)
        PROVE  b \in Counted("writer") /\ b \notin {r, s}
    <3>1. ~HasPass(b)
      BY <2>3, BatchHasNoPass DEF IInv, BatchInv, InProgress
    <3>. QED BY <2>3, <3>1 DEF BatchInv, CountedAsIs, IsRead, Counted, InProgress
  <2>. QED BY <2>1, <2>2, <2>3, OneWriter DEF WriterExclusion
<1>. QED
  BY BatchInductive, <1>1, PTL

\* For every set of requests, a request of a batchEdit, its rollback included, carries
\* the current pass when it arrives and is never refused for it.
THEOREM PassesAreCurrent == Spec => []PassIsCurrent
<1>1. IInv /\ BatchInv => PassIsCurrent
  BY DEF BatchInv, OneOut, PassKept, PassIsCurrent
<1>. QED
  BY BatchInductive, <1>1, PTL
=============================================================================
