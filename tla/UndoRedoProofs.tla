--------------------------- MODULE UndoRedoProofs ---------------------------
(***************************************************************************)
(* Undo and redo across workers, for any csworkers and any number of       *)
(* requests: type correctness; and, for one csworker whose clients wait    *)
(* for their changelogs, that its list of names and its journal tell the   *)
(* same story until a batch is rolled back too early, that batches that    *)
(* overtake nothing are atomic, and that it agrees with the asworker while *)
(* nothing is refused.  A batchEdit waits for the answers to its requests  *)
(* only: several changelogs may be on their way meanwhile.  With several   *)
(* csworkers, or clients that do not wait, these three are not true of the *)
(* code.                                                                   *)
(***************************************************************************)
EXTENDS UndoRedo, Integers, SequenceTheorems, WellFoundedInduction, TLAPS

-----------------------------------------------------------------------------
(* Journals of any entries.                                                *)

\* A set of naturals that is not empty has a least element.
LEMMA LowestIn ==
    ASSUME NEW S, S \subseteq Nat, S # {}, NEW d
    PROVE  Lowest(S, d) \in S /\ \A k \in S : Lowest(S, d) <= k
<1> DEFINE R == { ss \in Nat \X Nat : ss[1] < ss[2] }
<1>1. IsWellFoundedOn(R, Nat)
  BY NatLessThanWellFounded DEF OpToRel
<1>2. R = { ss \in Nat \X Nat : ss[1] < ss[2] }
  OBVIOUS
<1> HIDE DEF R
<1>3. \E x \in S : \A y \in S : ~ (<<y, x>> \in R)
  BY <1>1, WFMin
<1>4. PICK x \in S : \A y \in S : ~ (<<y, x>> \in R)
  BY <1>3
<1>5. ASSUME NEW y \in S PROVE x <= y
  <2>1. x \in Nat /\ y \in Nat /\ ~ (<<y, x>> \in R)
    BY <1>4
  <2>2. ~ (y < x)
    BY <1>2, <2>1
  <2> QED BY <2>1, <2>2
<1> QED BY <1>5 DEF Lowest

\* A bounded one has a greatest element.
LEMMA HighestIn ==
    ASSUME NEW n \in Nat, NEW S, S \subseteq 0 .. n, S # {}
    PROVE  Highest(S) \in S /\ \A k \in S : k <= Highest(S)
<1> DEFINE T == { n - k : k \in S }
<1>1. T \subseteq Nat /\ T # {}
  <2>1. ASSUME NEW k \in S PROVE n - k \in Nat
    <3>1. k \in 0 .. n
      OBVIOUS
    <3> QED BY <3>1
  <2> QED BY <2>1
<1>2. PICK x \in T : \A y \in T : x <= y
  <2>1. Lowest(T, 0) \in T /\ \A k \in T : Lowest(T, 0) <= k
    <3> HIDE DEF T
    <3> QED BY <1>1, LowestIn
  <2> QED BY <2>1
<1>3. n - x \in S /\ \A k \in S : k <= n - x
  BY <1>2
<1>4. \E i \in S : \A k \in S : k <= i
  BY <1>3
<1> QED BY <1>4 DEF Highest

\* A journal with entries of E.
Journals(E) == { j \in [log : Seq(E), index : Nat] : j.index <= Len(j.log) }

LEMMA JournalTypes ==
    ASSUME NEW E, NEW j \in Journals(E)
    PROVE  /\ j = [log |-> j.log, index |-> j.index]
           /\ j.log \in Seq(E) /\ j.index \in Nat /\ Len(j.log) \in Nat /\ j.index <= Len(j.log)
           /\ DOMAIN j.log = 1 .. Len(j.log)
  BY LenProperties DEF Journals

\* Logging keeps the applied entries and adds one.
LEMMA LogFacts ==
    ASSUME NEW E, NEW j \in Journals(E), NEW e \in E
    PROVE  /\ Log(j, e) \in Journals(E)
           /\ Log(j, e).index = j.index + 1 /\ Len(Log(j, e).log) = j.index + 1
           /\ \A i \in 1 .. j.index : Log(j, e).log[i] = j.log[i]
           /\ Log(j, e).log[j.index + 1] = e
<1>1. /\ Applied(j) \in Seq(E) /\ Len(Applied(j)) = j.index
      /\ \A i \in 1 .. j.index : Applied(j)[i] = j.log[i]
  BY DEF Applied, Journals
<1>2. /\ Append(Applied(j), e) \in Seq(E) /\ Len(Append(Applied(j), e)) = j.index + 1
      /\ \A i \in 1 .. j.index : Append(Applied(j), e)[i] = j.log[i]
      /\ Append(Applied(j), e)[j.index + 1] = e
  BY <1>1, AppendProperties DEF Journals
<1> QED BY <1>2 DEF Log, Journals

\* What is between two positions of a sequence.
LEMMA Between ==
    ASSUME NEW E, NEW s \in Seq(E), NEW a \in Nat, NEW b \in Nat, a <= b, b <= Len(s)
    PROVE  /\ SubSeq(s, a + 1, b) \in Seq(E) /\ Len(SubSeq(s, a + 1, b)) = b - a
           /\ \A i \in 1 .. b - a : SubSeq(s, a + 1, b)[i] = s[a + i]
  BY SubSeqProperties

\* LastStep is the last step-checkpoint that is applied, 0 if there is none.
LEMMA LastStepFacts ==
    ASSUME NEW E, NEW j \in Journals(E)
    PROVE  /\ LastStep(j) \in 0 .. j.index
           /\ LastStep(j) > 0 => IsStepCheckpoint(j.log[LastStep(j)])
           /\ \A i \in 1 .. j.index : IsStepCheckpoint(j.log[i]) => i <= LastStep(j)
<1> DEFINE S == { i \in 1 .. j.index : IsStepCheckpoint(j.log[i]) }
<1>1. j.index \in Nat /\ S \subseteq 0 .. j.index /\ LastStep(j) = Highest(S)
  BY DEF Journals, LastStep
<1>2. CASE S = {}
  <2>1. LastStep(j) = 0
    BY <1>1, <1>2 DEF Highest
  <2>2. \A i \in 1 .. j.index : ~IsStepCheckpoint(j.log[i])
    BY <1>2
  <2> QED BY <2>1, <2>2, <1>1
<1>3. CASE S # {}
  <2>1. LastStep(j) \in S /\ \A k \in S : k <= LastStep(j)
    <3> HIDE DEF S
    <3> QED BY <1>1, <1>3, HighestIn
  <2>2. \A i \in 1 .. j.index : IsStepCheckpoint(j.log[i]) => i \in S
    OBVIOUS
  <2>3. LastStep(j) \in 1 .. j.index /\ IsStepCheckpoint(j.log[LastStep(j)])
    BY <2>1
  <2> QED BY <2>1, <2>2, <2>3, <1>1
<1> QED BY <1>2, <1>3

\* and the only number that is.
LEMMA LastStepIs ==
    ASSUME NEW E, NEW j \in Journals(E), NEW t \in 0 .. j.index,
           t > 0 => IsStepCheckpoint(j.log[t]),
           \A i \in 1 .. j.index : IsStepCheckpoint(j.log[i]) => i <= t
    PROVE  LastStep(j) = t
<1>1. j.index \in Nat
  BY DEF Journals
<1>2. LastStep(j) <= t
  BY <1>1, LastStepFacts
<1>3. t <= LastStep(j)
  BY <1>1, LastStepFacts
<1> QED BY <1>1, <1>2, <1>3, LastStepFacts

\* Undo goes back to before a step-checkpoint or to the beginning.
LEMMA UndoneFacts ==
    ASSUME NEW E, NEW j \in Journals(E)
    PROVE  /\ UndoneStep(j) \in Journals(E) /\ UndoneStep(j).log = j.log
           /\ UndoneStep(j).index <= j.index
           /\ UndoneStep(j).index = IF LastStep(j) = 0 THEN 0 ELSE LastStep(j) - 1
<1>1. LastStep(j) \in 0 .. j.index /\ j.index \in Nat /\ Len(j.log) \in Nat /\ j.index <= Len(j.log)
  BY LastStepFacts DEF Journals
<1> QED BY <1>1 DEF UndoneStep, Journals

\* Redo goes on to before a step-checkpoint or to the end.
LEMMA RedoneFacts ==
    ASSUME NEW E, NEW j \in Journals(E), j.index < Len(j.log)
    PROVE  /\ RedoneStep(j) \in Journals(E) /\ RedoneStep(j).log = j.log
           /\ RedoneStep(j).index > j.index
           /\ RedoneStep(j).index < Len(j.log) =>
                 IsStepCheckpoint(j.log[RedoneStep(j).index + 1])
<1> DEFINE stops == { i \in j.index + 2 .. Len(j.log) : IsStepCheckpoint(j.log[i]) }
           to == Lowest(stops, Len(j.log) + 1)
<1>1. j.index \in Nat /\ Len(j.log) \in Nat
  BY DEF Journals
<1>2. RedoneStep(j) = [j EXCEPT !.index = to - 1]
  BY <1>1 DEF RedoneStep
<1>3. /\ to \in j.index + 2 .. Len(j.log) + 1
      /\ to <= Len(j.log) => IsStepCheckpoint(j.log[to])
  <2>1. CASE stops = {}
    BY <2>1, <1>1 DEF Lowest
  <2>2. CASE stops # {}
    <3>1. stops \subseteq Nat
      BY <1>1
    <3>2. to \in stops
      <4> HIDE DEF stops
      <4> QED BY <3>1, <2>2, LowestIn
    <3> QED BY <3>2, <1>1
  <2> QED BY <2>1, <2>2
<1> HIDE DEF to
<1> QED BY <1>1, <1>2, <1>3 DEF Journals

-----------------------------------------------------------------------------
(* Checkpoints by name, in journals of any entries.                        *)

\* undo(name) stops before the last applied checkpoint of that name.
LEMMA UndoneUntilFacts ==
    ASSUME NEW E, NEW j \in Journals(E), NEW name
    PROVE  /\ UndoneUntil(j, name) \in Journals(E)
           /\ UndoneUntil(j, name).log = j.log /\ UndoneUntil(j, name).index <= j.index
           /\ \A i \in 1 .. j.index :
                 /\ IsNamed(j.log[i], name)
                 /\ \A m \in 1 .. j.index : IsNamed(j.log[m], name) => m = i
                 => UndoneUntil(j, name).index = i - 1
<1> DEFINE S == { i \in 1 .. j.index : IsNamed(j.log[i], name) }
           k == UndoneUntil(j, name)
<1>1. j.index \in Nat /\ S \subseteq 0 .. j.index /\ j.index <= Len(j.log)
  BY DEF Journals
<1>2. k = IF Highest(S) = 0 THEN j ELSE [j EXCEPT !.index = Highest(S) - 1]
  BY DEF UndoneUntil
<1>3. CASE S = {}
  <2>1. k = j
    BY <1>2, <1>3 DEF Highest
  <2>2. \A i \in 1 .. j.index : ~IsNamed(j.log[i], name)
    BY <1>3
  <2> QED BY <2>1, <2>2, <1>1
<1>4. CASE S # {}
  <2>1. Highest(S) \in S /\ \A i \in S : i <= Highest(S)
    <3> HIDE DEF S
    <3> QED BY <1>1, <1>4, HighestIn
  <2>2. Highest(S) \in 1 .. j.index /\ IsNamed(j.log[Highest(S)], name)
    BY <2>1
  <2>3. k = [j EXCEPT !.index = Highest(S) - 1]
    BY <1>2, <2>2
  <2> HIDE DEF k, S
  <2>4. k \in Journals(E) /\ k.log = j.log /\ k.index = Highest(S) - 1
    BY <1>1, <2>2, <2>3 DEF Journals
  <2> QED BY <2>2, <2>4, <1>1 DEF k
<1> QED BY <1>3, <1>4

\* redo(name) goes past the only checkpoint of that name that can be redone, to before
\* the next user-checkpoint or to the end.
LEMMA RedoneUntilFacts ==
    ASSUME NEW E, NEW j \in Journals(E), NEW name
    PROVE  /\ RedoneUntil(j, name) \in Journals(E)
           /\ RedoneUntil(j, name).log = j.log /\ j.index <= RedoneUntil(j, name).index
           /\ \A i \in j.index + 1 .. Len(j.log) :
                 /\ IsNamed(j.log[i], name)
                 /\ \A m \in j.index + 1 .. Len(j.log) : IsNamed(j.log[m], name) => m = i
                 => /\ RedoneUntil(j, name).index \in i .. Len(j.log)
                    /\ \A m \in i + 1 .. RedoneUntil(j, name).index : ~IsUserCheckpoint(j.log[m])
                    /\ RedoneUntil(j, name).index < Len(j.log) =>
                          IsUserCheckpoint(j.log[RedoneUntil(j, name).index + 1])
<1> DEFINE found == { i \in j.index + 1 .. Len(j.log) : IsNamed(j.log[i], name) }
           from  == Lowest(found, 0)
           stops == { i \in from + 1 .. Len(j.log) : IsUserCheckpoint(j.log[i]) }
           to    == Lowest(stops, Len(j.log) + 1)
           k     == RedoneUntil(j, name)
<1>1. /\ j.index \in Nat /\ Len(j.log) \in Nat /\ j.index <= Len(j.log)
      /\ found \subseteq Nat /\ found \subseteq j.index + 1 .. Len(j.log)
  BY DEF Journals
<1>2. k = IF found = {} THEN j ELSE [j EXCEPT !.index = to - 1]
  BY DEF RedoneUntil
<1>3. CASE found = {}
  <2>1. k = j
    BY <1>2, <1>3
  <2>2. \A i \in j.index + 1 .. Len(j.log) : ~IsNamed(j.log[i], name)
    BY <1>3
  <2> QED BY <2>1, <2>2, <1>1
<1>4. CASE found # {}
  <2>1. from \in found
    <3> HIDE DEF found
    <3> QED BY <1>1, <1>4, LowestIn
  <2>2. from \in j.index + 1 .. Len(j.log) /\ IsNamed(j.log[from], name)
    <3> HIDE DEF from
    <3> QED BY <2>1
  <2> HIDE DEF from, found
  <2>3. /\ to \in from + 1 .. Len(j.log) + 1
        /\ to <= Len(j.log) => IsUserCheckpoint(j.log[to])
        /\ \A m \in from + 1 .. to - 1 : ~IsUserCheckpoint(j.log[m])
    <3>1. CASE stops = {}
      <4>1. to = Len(j.log) + 1
        BY <3>1 DEF Lowest
      <4>2. \A m \in from + 1 .. Len(j.log) : ~IsUserCheckpoint(j.log[m])
        BY <3>1
      <4> HIDE DEF to, stops
      <4>3. to - 1 = Len(j.log) /\ to \in from + 1 .. Len(j.log) + 1 /\ ~(to <= Len(j.log))
        BY <4>1, <2>2, <1>1
      <4> QED BY <4>2, <4>3
    <3>2. CASE stops # {}
      <4>1. stops \subseteq Nat
        BY <1>1, <2>2
      <4>2. to \in stops /\ \A m \in stops : to <= m
        <5> HIDE DEF stops
        <5> QED BY <4>1, <3>2, LowestIn
      <4>3. to \in from + 1 .. Len(j.log) /\ IsUserCheckpoint(j.log[to])
        BY <4>2
      <4>4. ASSUME NEW m \in from + 1 .. to - 1 PROVE ~IsUserCheckpoint(j.log[m])
        <5>1. m \in from + 1 .. Len(j.log) /\ m < to
          BY <4>3, <1>1, <2>2
        <5> QED BY <5>1, <4>2, <4>3, <2>2, <1>1
      <4> QED BY <4>3, <4>4, <1>1, <2>2
    <3> HIDE DEF to, stops
    <3> QED BY <3>1, <3>2
  <2> HIDE DEF to, stops
  <2>4. k = [j EXCEPT !.index = to - 1]
    BY <1>2, <1>4
  <2> HIDE DEF k
  <2>5. k \in Journals(E) /\ k.log = j.log /\ k.index = to - 1
    <3>1. to - 1 \in Nat /\ to - 1 <= Len(j.log)
      BY <1>1, <2>2, <2>3
    <3> DEFINE n == to - 1
    <3>2. k = [j EXCEPT !.index = n] /\ n \in Nat /\ n <= Len(j.log)
      BY <2>4, <3>1
    <3> HIDE DEF n
    <3>3. k \in Journals(E) /\ k.log = j.log /\ k.index = n
      BY <3>2 DEF Journals
    <3> QED BY <3>3 DEF n
  <2>6. j.index <= k.index
    BY <2>2, <2>3, <2>5, <1>1
  <2>7. ASSUME NEW i \in j.index + 1 .. Len(j.log),
               \A m \in j.index + 1 .. Len(j.log) : IsNamed(j.log[m], name) => m = i
        PROVE  /\ k.index \in i .. Len(j.log)
               /\ \A m \in i + 1 .. k.index : ~IsUserCheckpoint(j.log[m])
               /\ k.index < Len(j.log) => IsUserCheckpoint(j.log[k.index + 1])
    <3>1. from = i
      BY <2>2, <2>7
    <3> QED BY <3>1, <2>2, <2>3, <2>5, <1>1
  <2> QED BY <2>5, <2>6, <2>7 DEF k
<1> QED BY <1>3, <1>4

\* redo() never leaves the log.
LEMMA RedoneStepTypes ==
    ASSUME NEW E, NEW j \in Journals(E)
    PROVE  RedoneStep(j) \in Journals(E) /\ RedoneStep(j).log = j.log
<1>1. CASE j.index = Len(j.log)
  BY <1>1 DEF RedoneStep
<1>2. CASE j.index < Len(j.log)
  BY <1>2, RedoneFacts
<1> QED BY <1>1, <1>2, JournalTypes

-----------------------------------------------------------------------------
(* Types.                                                                  *)

LEMMA Constants == MaxOps \in Nat /\ BatchLen \in Nat \ {0}
  BY UndoRedoAssumption

LEMMA Entries ==
    /\ MKSTPCHKPT \in Entry
    /\ \A n \in Name : MKUSRCHKPT(n) \in Entry /\ [op |-> "DO", name |-> n] \in Entry
  BY DEF Entry, MKSTPCHKPT, MKUSRCHKPT

LEMMA Names ==
    ASSUME NEW n \in Nat
    PROVE  AsName(n) \in Name /\ CsName(n) \in Name /\ StartOf(n) \in Name /\ EndOf(n) \in Name
  BY DEF AsName, CsName, StartOf, EndOf, Name

LEMMA JournalsAre == \A j : IsJournal(j) <=> j \in Journals(Entry)
  BY DEF IsJournal, Journals

LEMMA StepCheckpointTypes ==
    ASSUME NEW j \in Journals(Entry)
    PROVE  SetStepCheckpoint(j) \in Journals(Entry)
  BY LogFacts, Entries DEF SetStepCheckpoint

LEMMA UserCheckpointTypes ==
    ASSUME NEW j \in Journals(Entry), NEW name \in Name
    PROVE  SetUserCheckpoint(j, name) \in Journals(Entry)
  BY LogFacts, Entries DEF SetUserCheckpoint

LEMMA DoneTypes ==
    ASSUME NEW j \in Journals(Entry), NEW name \in Name
    PROVE  Done(j, name) \in Journals(Entry)
  BY LogFacts, Entries, StepCheckpointTypes DEF Done

\* The operations of a piece of a journal are named.
LEMMA PieceTypes ==
    ASSUME NEW j \in Journals(Entry), NEW a \in Nat \ {0}, NEW b \in Nat, b <= Len(j.log)
    PROVE  OpsIn(SubSeq(j.log, a, b)) \subseteq Name
<1>1. j.log \in Seq(Entry) /\ Len(j.log) \in Nat
  BY DEF Journals
<1> DEFINE s == SubSeq(j.log, a, b)
<1>2. s \in Seq(Entry)
  <2>1. CASE a <= b
    BY <1>1, <2>1
  <2>2. CASE b < a
    BY <1>1, <2>2
  <2> QED BY <2>1, <2>2
<1> HIDE DEF s
<1>3. ASSUME NEW k \in DOMAIN s, s[k].op = "DO" PROVE s[k].name \in Name
  <2>1. s[k] \in Entry
    BY <1>2, <1>3
  <2> QED BY <2>1, <1>3 DEF Entry, MKSTPCHKPT
<1>4. OpsIn(s) \subseteq Name
  BY <1>3 DEF OpsIn
<1> QED BY <1>4 DEF s

LEMMA ContentTypes ==
    ASSUME NEW content, content \subseteq Name,
           NEW j \in Journals(Entry), NEW k \in Journals(Entry), k.log = j.log
    PROVE  Without(content, j, k) \subseteq Name /\ With(content, j, k) \subseteq Name
<1>1. j.index \in Nat /\ k.index \in Nat /\ k.index <= Len(j.log)
  BY DEF Journals
<1>2. OpsIn(RedoneEntries(j, k)) \subseteq Name
  BY <1>1, PieceTypes DEF RedoneEntries
<1> QED BY <1>2 DEF Without, With

\* Where __undoredo stops.
LEMMA LastMarkFacts ==
    ASSUME TypeOK, NEW c \in CSWorker, NEW b, NEW from \in Int
    PROVE  LastMark(c, b, from) # 0 =>
              /\ LastMark(c, b, from) \in 1 .. Len(names[c]) /\ LastMark(c, b, from) <= from
              /\ Marks(names[c][LastMark(c, b, from)], b)
<1> DEFINE S == { m \in MarksOf(c, b) : m <= from }
<1>1. Len(names[c]) \in Nat /\ DOMAIN names[c] = 1 .. Len(names[c])
  BY LenProperties DEF TypeOK
<1>2. S \subseteq 0 .. Len(names[c])
  BY <1>1 DEF MarksOf
<1>3. CASE S = {}
  BY <1>3 DEF LastMark, Highest
<1>4. CASE S # {}
  <2>1. Highest(S) \in S
    <3> HIDE DEF S
    <3> QED BY <1>1, <1>2, <1>4, HighestIn
  <2> QED BY <2>1, <1>1 DEF LastMark, MarksOf
<1> QED BY <1>3, <1>4

LEMMA FirstMarkFacts ==
    ASSUME TypeOK, NEW c \in CSWorker, NEW b, NEW from \in Int
    PROVE  FirstMark(c, b, from) # 0 =>
              /\ FirstMark(c, b, from) \in 1 .. Len(names[c]) /\ from <= FirstMark(c, b, from)
              /\ Marks(names[c][FirstMark(c, b, from)], b)
<1> DEFINE S == { m \in MarksOf(c, b) : m >= from }
<1>1. Len(names[c]) \in Nat /\ DOMAIN names[c] = 1 .. Len(names[c])
  BY LenProperties DEF TypeOK
<1>2. S \subseteq Nat
  BY <1>1 DEF MarksOf
<1>3. CASE S = {}
  BY <1>3 DEF FirstMark, Lowest
<1>4. CASE S # {}
  <2>1. Lowest(S, 0) \in S
    <3> HIDE DEF S
    <3> QED BY <1>2, <1>4, LowestIn
  <2> QED BY <2>1, <1>1 DEF FirstMark, MarksOf
<1> QED BY <1>3, <1>4

-----------------------------------------------------------------------------
(* What the handlers are made of keeps the types.                          *)

JournalsOfAll == DOMAIN csJournal = CSWorker /\ \A c \in CSWorker : IsJournal(csJournal[c])
HistoryTypes  == /\ names \in [CSWorker -> Seq(Name)] /\ cursor \in [CSWorker -> Nat]
                 /\ \A c \in CSWorker : cursor[c] <= Len(names[c])
BatchTypes == batch \in [CSWorker ->
                  [id : 0 .. MaxOps, step : 0 .. BatchLen + 2, reply : {"none", "ok", "error"}]]

LEMMA BroadcastTypes ==
    ASSUME TypeOK, NEW m \in Posted, Broadcast(m)
    PROVE  asSeq' \in Nat /\ chan' \in [CSWorker -> Seq(Posted)]
  BY DEF TypeOK, Broadcast

LEMMA RespondTypes ==
    ASSUME TypeOK, NEW c \in CSWorker, NEW reply \in {"ok", "error"}, Respond(c, reply)
    PROVE  request' \in [CSWorker -> Request] /\ BatchTypes'
<1>1. request' \in [CSWorker -> Request]
  BY DEF TypeOK, Respond, Request, Nothing
<1>2. BatchTypes'
  <2>1. BatchTypes
    BY DEF TypeOK, BatchTypes
  <2> QED BY <2>1 DEF Respond, BatchTypes
<1> QED BY <1>1, <1>2

LEMMA RecordedTypes ==
    ASSUME TypeOK, NEW c \in CSWorker, NEW name \in Name, Recorded(c, name)
    PROVE  /\ HistoryTypes'
           /\ names'[c] = Append(SubSeq(names[c], 1, cursor[c]), name)
           /\ cursor'[c] = cursor[c] + 1 /\ Len(names'[c]) = cursor[c] + 1
           /\ \A x \in 1 .. cursor[c] : names'[c][x] = names[c][x]
           /\ names'[c][cursor[c] + 1] = name
           /\ \A d \in CSWorker \ {c} : names'[d] = names[d] /\ cursor'[d] = cursor[d]
<1>1. HistoryTypes
  BY DEF TypeOK, HistoryTypes
<1> DEFINE s == SubSeq(names[c], 1, cursor[c])
<1>2. s \in Seq(Name) /\ Len(s) = cursor[c] /\ \A x \in 1 .. cursor[c] : s[x] = names[c][x]
  BY <1>1 DEF HistoryTypes
<1>3. names' = [names EXCEPT ![c] = Append(s, name)] /\ cursor' = [cursor EXCEPT ![c] = @ + 1]
  BY DEF Recorded
<1> HIDE DEF s
<1>4. /\ Append(s, name) \in Seq(Name) /\ Len(Append(s, name)) = cursor[c] + 1
      /\ \A x \in 1 .. cursor[c] : Append(s, name)[x] = names[c][x]
      /\ Append(s, name)[cursor[c] + 1] = name
  BY <1>2, AppendProperties
<1>5. /\ names'[c] = Append(s, name) /\ cursor'[c] = cursor[c] + 1
      /\ \A d \in CSWorker \ {c} : names'[d] = names[d] /\ cursor'[d] = cursor[d]
  BY <1>1, <1>3 DEF HistoryTypes
<1>6. HistoryTypes'
  BY <1>1, <1>3, <1>4, <1>5 DEF HistoryTypes
<1> QED BY <1>4, <1>5, <1>6 DEF s

\* A journal and a content are replaced by others of their types.
LEMMA ModelTypes ==
    ASSUME TypeOK, NEW c \in CSWorker, NEW j \in Journals(Entry),
           csJournal' = [csJournal EXCEPT ![c] = j]
    PROVE  JournalsOfAll' /\ csJournal'[c] = j
  BY JournalsAre DEF TypeOK, JournalsOfAll

LEMMA HereTypes ==
    ASSUME TypeOK, NEW c \in CSWorker
    PROVE  /\ csJournal[c] \in Journals(Entry) /\ csContent[c] \subseteq Name
           /\ names[c] \in Seq(Name) /\ Len(names[c]) \in Nat /\ DOMAIN names[c] = 1 .. Len(names[c])
           /\ cursor[c] \in Nat /\ cursor[c] <= Len(names[c])
           /\ \A x \in 1 .. Len(names[c]) : names[c][x] \in Name
           /\ csSeq[c] \in Nat
<1>1. csJournal[c] \in Journals(Entry) /\ csContent[c] \subseteq Name
  BY JournalsAre DEF TypeOK
<1>2. /\ names[c] \in Seq(Name) /\ cursor[c] \in Nat /\ cursor[c] <= Len(names[c])
      /\ csSeq[c] \in Nat
  BY DEF TypeOK
<1> QED BY <1>1, <1>2, LenProperties

LEMMA UndoHereTypes ==
    ASSUME TypeOK, NEW c \in CSWorker, NEW name, UndoHere(c, name)
    PROVE  /\ JournalsOfAll' /\ csContent' \in [CSWorker -> SUBSET Name]
           /\ csJournal'[c] = UndoneUntil(csJournal[c], name)
<1> DEFINE j == UndoneUntil(csJournal[c], name)
<1>1. j \in Journals(Entry) /\ j.log = csJournal[c].log
  BY HereTypes, UndoneUntilFacts
<1>2. /\ csJournal' = [csJournal EXCEPT ![c] = j]
      /\ csContent' = [csContent EXCEPT ![c] = Without(csContent[c], csJournal[c], j)]
  BY DEF UndoHere
<1> HIDE DEF j
<1>3. Without(csContent[c], csJournal[c], j) \subseteq Name
  BY <1>1, HereTypes, ContentTypes
<1>4. csContent' \in [CSWorker -> SUBSET Name]
  BY <1>2, <1>3 DEF TypeOK
<1> QED BY <1>1, <1>2, <1>4, ModelTypes DEF j

LEMMA RedoHereTypes ==
    ASSUME TypeOK, NEW c \in CSWorker, NEW name, RedoHere(c, name)
    PROVE  /\ JournalsOfAll' /\ csContent' \in [CSWorker -> SUBSET Name]
           /\ csJournal'[c] = RedoneUntil(csJournal[c], name)
<1> DEFINE j == RedoneUntil(csJournal[c], name)
<1>1. j \in Journals(Entry) /\ j.log = csJournal[c].log
  BY HereTypes, RedoneUntilFacts
<1>2. /\ csJournal' = [csJournal EXCEPT ![c] = j]
      /\ csContent' = [csContent EXCEPT ![c] = With(csContent[c], csJournal[c], j)]
  BY DEF RedoHere
<1> HIDE DEF j
<1>3. With(csContent[c], csJournal[c], j) \subseteq Name
  BY <1>1, HereTypes, ContentTypes
<1>4. csContent' \in [CSWorker -> SUBSET Name]
  BY <1>2, <1>3 DEF TypeOK
<1> QED BY <1>1, <1>2, <1>4, ModelTypes DEF j

LEMMA EditHereTypes ==
    ASSUME TypeOK, NEW c \in CSWorker, EditHere(c)
    PROVE  /\ CsName(csSeq[c] + 1) \in Name
           /\ JournalsOfAll' /\ csContent' \in [CSWorker -> SUBSET Name]
           /\ csSeq' \in [CSWorker -> Nat] /\ HistoryTypes'
           /\ csJournal'[c] = LET name == CsName(csSeq[c] + 1)
                              IN  Done(SetUserCheckpoint(csJournal[c], name), name)
<1> DEFINE name == CsName(csSeq[c] + 1)
           j == Done(SetUserCheckpoint(csJournal[c], name), name)
<1>1. name \in Name
  BY HereTypes, Names
<1>2. /\ csJournal' = [csJournal EXCEPT ![c] = j] /\ Recorded(c, name)
      /\ csContent' = [csContent EXCEPT ![c] = @ \cup {name}]
      /\ csSeq' = [csSeq EXCEPT ![c] = @ + 1]
  BY DEF EditHere
<1> HIDE DEF name
<1>3. j \in Journals(Entry)
  BY <1>1, HereTypes, UserCheckpointTypes, DoneTypes
<1> HIDE DEF j
<1>4. csContent' \in [CSWorker -> SUBSET Name] /\ csSeq' \in [CSWorker -> Nat]
  BY <1>1, <1>2 DEF TypeOK
<1>5. HistoryTypes'
  BY <1>1, <1>2, RecordedTypes
<1> QED BY <1>1, <1>2, <1>3, <1>4, <1>5, ModelTypes DEF j, name

LEMMA AskTypes ==
    ASSUME TypeOK, NEW c \in CSWorker, NEW r \in Request, Ask(c, r)
    PROVE  request' \in [CSWorker -> Request] /\ request'[c] = r
  BY DEF TypeOK, Ask

LEMMA UndoWholeTypes ==
    ASSUME TypeOK, NEW c \in CSWorker, NEW b \in Nat, NEW from \in Int,
           UndoWhole(c, b, from), names' = names
    PROVE  /\ HistoryTypes' /\ request' \in [CSWorker -> Request]
           /\ crashed' \in [CSWorker -> BOOLEAN]
<1>1. CASE LastMark(c, b, from) = 0
  BY <1>1 DEF UndoWhole, TypeOK, HistoryTypes
<1>2. CASE LastMark(c, b, from) # 0
  <2> DEFINE x == LastMark(c, b, from)
  <2>1. x \in 1 .. Len(names[c])
    BY <1>2, LastMarkFacts
  <2>2. /\ cursor' = [cursor EXCEPT ![c] = x - 1] /\ Ask(c, UndoRedo("undo", StartOf(b)))
        /\ crashed' = crashed
    BY <1>2 DEF UndoWhole
  <2> HIDE DEF x
  <2>3. UndoRedo("undo", StartOf(b)) \in Request
    BY Names DEF Request, UndoRedo
  <2>4. request' \in [CSWorker -> Request]
    BY <2>2, <2>3, AskTypes
  <2>5. HistoryTypes'
    <3>1. x - 1 \in Nat /\ x - 1 <= Len(names[c])
      BY <2>1, HereTypes
    <3> QED BY <2>2, <3>1 DEF TypeOK, HistoryTypes
  <2> QED BY <2>2, <2>4, <2>5 DEF TypeOK
<1> QED BY <1>1, <1>2

LEMMA RedoWholeTypes ==
    ASSUME TypeOK, NEW c \in CSWorker, NEW b \in Nat, NEW from \in Int,
           RedoWhole(c, b, from), names' = names
    PROVE  /\ HistoryTypes' /\ request' \in [CSWorker -> Request]
           /\ crashed' \in [CSWorker -> BOOLEAN]
<1>1. CASE FirstMark(c, b, from) = 0
  BY <1>1 DEF RedoWhole, TypeOK, HistoryTypes
<1>2. CASE FirstMark(c, b, from) # 0
  <2> DEFINE x == FirstMark(c, b, from)
  <2>1. x \in 1 .. Len(names[c])
    BY <1>2, FirstMarkFacts
  <2>2. /\ cursor' = [cursor EXCEPT ![c] = x] /\ Ask(c, UndoRedo("redo", EndOf(b)))
        /\ crashed' = crashed
    BY <1>2 DEF RedoWhole
  <2> HIDE DEF x
  <2>3. UndoRedo("redo", EndOf(b)) \in Request
    BY Names DEF Request, UndoRedo
  <2>4. request' \in [CSWorker -> Request]
    BY <2>2, <2>3, AskTypes
  <2>5. HistoryTypes'
    <3>1. x \in Nat /\ x <= Len(names[c])
      BY <2>1, HereTypes
    <3> QED BY <2>2, <3>1 DEF TypeOK, HistoryTypes
  <2> QED BY <2>2, <2>4, <2>5 DEF TypeOK
<1> QED BY <1>1, <1>2

-----------------------------------------------------------------------------
(* Every handler keeps the types.                                          *)

LEMMA ServeTypes ==
    ASSUME TypeOK, NEW c \in CSWorker, Serve(c)
    PROVE  TypeOK'
<1>1. IsJournal(asJournal) /\ asJournal \in Journals(Entry) /\ asSeq \in Nat /\ asContent \subseteq Name
  BY JournalsAre DEF TypeOK
<1>2. AsName(asSeq + 1) \in Name
  BY <1>1, Names
<1>3. CASE EditSucceeds(c)
  <2>1. IsJournal(asJournal') /\ asContent' \in SUBSET Name
    BY <1>1, <1>2, <1>3, DoneTypes, JournalsAre DEF EditSucceeds
  <2>2. [func |-> "do", name |-> AsName(asSeq + 1), empty |-> FALSE] \in Posted
    BY <1>2 DEF Posted
  <2>3. asSeq' \in Nat /\ chan' \in [CSWorker -> Seq(Posted)]
    BY <1>3, <2>2, BroadcastTypes DEF EditSucceeds
  <2>4. request' \in [CSWorker -> Request] /\ BatchTypes'
    BY <1>3, RespondTypes DEF EditSucceeds
  <2> QED BY <1>3, <2>1, <2>3, <2>4 DEF EditSucceeds, TypeOK, BatchTypes, model, history
<1>4. CASE EditChangesNothing(c)
  <2>1. IsJournal(asJournal')
    BY <1>1, <1>4, StepCheckpointTypes, JournalsAre DEF EditChangesNothing
  <2>2. [func |-> "do", name |-> AsName(asSeq + 1), empty |-> TRUE] \in Posted
    BY <1>2 DEF Posted
  <2>3. asSeq' \in Nat /\ chan' \in [CSWorker -> Seq(Posted)]
    BY <1>4, <2>2, BroadcastTypes DEF EditChangesNothing
  <2>4. request' \in [CSWorker -> Request] /\ BatchTypes'
    BY <1>4, RespondTypes DEF EditChangesNothing
  <2> QED BY <1>4, <2>1, <2>3, <2>4 DEF EditChangesNothing, TypeOK, BatchTypes, model, history
<1>5. CASE EditRefused(c)
  <2>1. IsJournal(asJournal')
    BY <1>1, <1>5, StepCheckpointTypes, JournalsAre DEF EditRefused
  <2>2. request' \in [CSWorker -> Request] /\ BatchTypes'
    BY <1>5, RespondTypes DEF EditRefused
  <2> QED BY <1>5, <2>1, <2>2 DEF EditRefused, TypeOK, BatchTypes, model, history
<1>6. ASSUME request[c].func \in {"mark", "undo", "redo"}
      PROVE  request[c] \in Posted /\ request[c].name \in Name
  BY <1>6 DEF TypeOK, Request, Nothing, Edit, Posted
<1>7. CASE SetMark(c)
  <2>1. request[c] \in Posted /\ request[c].name \in Name
    BY <1>6, <1>7 DEF SetMark
  <2>2. IsJournal(asJournal')
    BY <1>1, <1>7, <2>1, UserCheckpointTypes, JournalsAre DEF SetMark
  <2>3. asSeq' \in Nat /\ chan' \in [CSWorker -> Seq(Posted)]
    BY <1>7, <2>1, BroadcastTypes DEF SetMark
  <2>4. request' \in [CSWorker -> Request] /\ BatchTypes'
    BY <1>7, RespondTypes DEF SetMark
  <2> QED BY <1>7, <2>2, <2>3, <2>4 DEF SetMark, TypeOK, BatchTypes, model, history
<1>8. CASE AswUndo(c)
  <2>1. request[c] \in Posted
    BY <1>6, <1>8 DEF AswUndo
  <2>2. AswUndone(request[c]) \in Journals(Entry) /\ AswUndone(request[c]).log = asJournal.log
    BY <1>1, UndoneFacts, UndoneUntilFacts DEF AswUndone
  <2>3. asJournal' = AswUndone(request[c]) /\ asContent' = Without(asContent, asJournal, asJournal')
    BY <1>8 DEF AswUndo
  <2>4. IsJournal(asJournal')
    BY <2>2, <2>3, JournalsAre
  <2>5. asContent' \in SUBSET Name
    BY <1>1, <2>2, <2>3, ContentTypes
  <2>6. asSeq' \in Nat /\ chan' \in [CSWorker -> Seq(Posted)]
    BY <1>8, <2>1, BroadcastTypes DEF AswUndo
  <2>7. request' \in [CSWorker -> Request] /\ BatchTypes'
    BY <1>8, RespondTypes DEF AswUndo
  <2> QED BY <1>8, <2>4, <2>5, <2>6, <2>7 DEF AswUndo, TypeOK, BatchTypes, model, history
<1>9. CASE AswRedo(c)
  <2>1. request[c] \in Posted
    BY <1>6, <1>9 DEF AswRedo
  <2>2. AswRedone(request[c]) \in Journals(Entry) /\ AswRedone(request[c]).log = asJournal.log
    BY <1>1, RedoneStepTypes, RedoneUntilFacts DEF AswRedone
  <2>3. asJournal' = AswRedone(request[c]) /\ asContent' = With(asContent, asJournal, asJournal')
    BY <1>9 DEF AswRedo
  <2>4. IsJournal(asJournal')
    BY <2>2, <2>3, JournalsAre
  <2>5. asContent' \in SUBSET Name
    BY <1>1, <2>2, <2>3, ContentTypes
  <2>6. asSeq' \in Nat /\ chan' \in [CSWorker -> Seq(Posted)]
    BY <1>9, <2>1, BroadcastTypes DEF AswRedo
  <2>7. request' \in [CSWorker -> Request] /\ BatchTypes'
    BY <1>9, RespondTypes DEF AswRedo
  <2>8. smooth' \in BOOLEAN
    BY <1>9 DEF AswRedo
  <2> QED BY <1>9, <2>4, <2>5, <2>6, <2>7, <2>8 DEF AswRedo, TypeOK, BatchTypes, model, history
<1> QED BY <1>3, <1>4, <1>5, <1>7, <1>8, <1>9 DEF Serve

\* A changelog that has arrived.
LEMMA HeadTypes ==
    ASSUME TypeOK, NEW c \in CSWorker, chan[c] # <<>>
    PROVE  /\ Head(chan[c]) \in Posted /\ Head(chan[c]).name \in Name
           /\ Tail(chan[c]) \in Seq(Posted)
<1>1. chan[c] \in Seq(Posted)
  BY DEF TypeOK
<1>2. Head(chan[c]) \in Posted /\ Tail(chan[c]) \in Seq(Posted)
  BY <1>1, HeadTailProperties
<1> QED BY <1>2 DEF Posted

LEMMA ArrivedTypes ==
    ASSUME TypeOK, NEW c \in CSWorker, NEW func, Arrived(c, func)
    PROVE  /\ chan' \in [CSWorker -> Seq(Posted)] /\ chan[c] # <<>> /\ Head(chan[c]).func = func
           /\ UNCHANGED <<asw, csSeq, request, batch, before, outcome, crashed, smooth, early, ops>>
<1>1. chan[c] # <<>> /\ Head(chan[c]).func = func /\ chan' = [chan EXCEPT ![c] = Tail(@)]
  BY DEF Arrived
<1>2. Tail(chan[c]) \in Seq(Posted)
  BY <1>1, HeadTypes
<1> QED BY <1>1, <1>2 DEF TypeOK, Arrived

LEMMA ApplyTypes ==
    ASSUME TypeOK, NEW c \in CSWorker, Apply(c)
    PROVE  TypeOK'
<1>1. csJournal[c] \in Journals(Entry)
  BY HereTypes
<1>2. CASE ApplyDo(c)
  <2> DEFINE name == Head(chan[c]).name
             k == SetUserCheckpoint(csJournal[c], name)
             j == Done(k, name)
  <2>1. /\ chan' \in [CSWorker -> Seq(Posted)] /\ chan[c] # <<>>
        /\ UNCHANGED <<asw, csSeq, request, batch, before, outcome, crashed, smooth, early, ops>>
    BY <1>2, ArrivedTypes DEF ApplyDo
  <2>2. name \in Name
    BY <2>1, HeadTypes
  <2>3. /\ Recorded(c, name)
        /\ \/ csJournal' = [csJournal EXCEPT ![c] = k] /\ csContent' = csContent
           \/ /\ csJournal' = [csJournal EXCEPT ![c] = j]
              /\ csContent' = [csContent EXCEPT ![c] = @ \cup {name}]
    BY <1>2 DEF ApplyDo
  <2> HIDE DEF name
  <2>4. k \in Journals(Entry) /\ j \in Journals(Entry)
    BY <1>1, <2>2, UserCheckpointTypes, DoneTypes
  <2> HIDE DEF k, j
  <2>5. JournalsOfAll'
    BY <2>3, <2>4, ModelTypes
  <2>6. csContent' \in [CSWorker -> SUBSET Name]
    <3>1. csContent \in [CSWorker -> SUBSET Name] /\ csContent[c] \cup {name} \in SUBSET Name
      BY <2>2 DEF TypeOK
    <3>2. \/ csContent' = csContent
          \/ csContent' = [csContent EXCEPT ![c] = csContent[c] \cup {name}]
      BY <2>3
    <3> QED BY <3>1, <3>2
  <2>7. HistoryTypes'
    BY <2>2, <2>3, RecordedTypes
  <2> QED BY <2>1, <2>5, <2>6, <2>7 DEF TypeOK, JournalsOfAll, HistoryTypes, asw
<1>3. CASE ApplyMark(c)
  <2> DEFINE name == Head(chan[c]).name
             k == SetUserCheckpoint(csJournal[c], name)
  <2>1. /\ chan' \in [CSWorker -> Seq(Posted)] /\ chan[c] # <<>>
        /\ UNCHANGED <<asw, csSeq, request, batch, before, outcome, crashed, smooth, early, ops>>
    BY <1>3, ArrivedTypes DEF ApplyMark
  <2>2. name \in Name
    BY <2>1, HeadTypes
  <2>3. /\ Recorded(c, name)
        /\ csJournal' = [csJournal EXCEPT ![c] = k] /\ csContent' = csContent
    BY <1>3 DEF ApplyMark
  <2> HIDE DEF name
  <2>4. k \in Journals(Entry)
    BY <1>1, <2>2, UserCheckpointTypes
  <2> HIDE DEF k
  <2>5. JournalsOfAll'
    BY <2>3, <2>4, ModelTypes
  <2>6. HistoryTypes'
    BY <2>2, <2>3, RecordedTypes
  <2> QED BY <2>1, <2>3, <2>5, <2>6 DEF TypeOK, JournalsOfAll, HistoryTypes, asw
<1>4. CASE ApplyUndo(c)
  <2>1. /\ chan' \in [CSWorker -> Seq(Posted)]
        /\ UNCHANGED <<asw, csSeq, request, batch, before, outcome, crashed, smooth, early, ops>>
    BY <1>4, ArrivedTypes DEF ApplyUndo
  <2>2. JournalsOfAll' /\ csContent' \in [CSWorker -> SUBSET Name]
    BY <1>4, UndoHereTypes DEF ApplyUndo
  <2> QED BY <1>4, <2>1, <2>2 DEF ApplyUndo, TypeOK, JournalsOfAll, history, asw
<1>5. CASE ApplyRedo(c)
  <2>1. /\ chan' \in [CSWorker -> Seq(Posted)]
        /\ UNCHANGED <<asw, csSeq, request, batch, before, outcome, crashed, smooth, early, ops>>
    BY <1>5, ArrivedTypes DEF ApplyRedo
  <2>2. JournalsOfAll' /\ csContent' \in [CSWorker -> SUBSET Name]
    BY <1>5, RedoHereTypes DEF ApplyRedo
  <2> QED BY <1>5, <2>1, <2>2 DEF ApplyRedo, TypeOK, JournalsOfAll, history, asw
<1> QED BY <1>2, <1>3, <1>4, <1>5 DEF Apply

LEMMA ClientTypes ==
    ASSUME TypeOK, NEW c \in CSWorker, Client(c)
    PROVE  TypeOK'
<1>1. ops' = ops + 1 /\ ops' \in 0 .. MaxOps /\ ops + 1 \in 1 .. MaxOps
  <2>1. Asked(c)
    BY DEF Client, AskForEdit, LocalEdit, Undo, Redo, StartBatch
  <2> QED BY <2>1, Constants DEF Asked, TypeOK
<1>2. ASSUME NEW name \in Name
      PROVE  UndoRedo("undo", name) \in Request /\ UndoRedo("redo", name) \in Request /\ name.n \in Nat
  BY DEF Request, UndoRedo, Name
<1>3. CASE AskForEdit(c)
  <2>1. request' \in [CSWorker -> Request]
    BY <1>3, AskTypes DEF AskForEdit, Request
  <2>2. outcome' \in [CSWorker -> {"none", "done", "failed", "undone"}]
    BY <1>3 DEF AskForEdit, TypeOK
  <2> QED BY <1>1, <1>3, <2>1, <2>2 DEF AskForEdit, TypeOK, asw, model, history
<1>4. CASE LocalEdit(c)
  <2>1. /\ JournalsOfAll' /\ csContent' \in [CSWorker -> SUBSET Name]
        /\ csSeq' \in [CSWorker -> Nat] /\ HistoryTypes'
    BY <1>4, EditHereTypes DEF LocalEdit
  <2>2. outcome' \in [CSWorker -> {"none", "done", "failed", "undone"}]
    BY <1>4 DEF LocalEdit, TypeOK
  <2> QED BY <1>1, <1>4, <2>1, <2>2 DEF LocalEdit, TypeOK, JournalsOfAll, HistoryTypes, asw
<1>5. CASE Undo(c)
  <2> DEFINE name == names[c][cursor[c]]
  <2>1. cursor[c] > 0 /\ cursor[c] \in 1 .. Len(names[c]) /\ name \in Name
    BY <1>5, HereTypes DEF Undo
  <2>2. outcome' \in [CSWorker -> {"none", "done", "failed", "undone"}]
    BY <1>5 DEF Undo, TypeOK
  <2>3. UNCHANGED <<asw, csSeq, names, chan, batch, before, smooth, early>>
    BY <1>5 DEF Undo
  <2>4. \/ /\ cursor' = [cursor EXCEPT ![c] = @ - 1]
           /\ UndoHere(c, name)
           /\ UNCHANGED <<request, crashed>>
        \/ /\ cursor' = [cursor EXCEPT ![c] = @ - 1]
           /\ Ask(c, UndoRedo("undo", name))
           /\ UNCHANGED <<csJournal, csContent, crashed>>
        \/ /\ UndoWhole(c, name.n, cursor[c] - 1)
           /\ UNCHANGED <<csJournal, csContent>>
    BY <1>5 DEF Undo
  <2> HIDE DEF name
  <2>5. ASSUME cursor' = [cursor EXCEPT ![c] = @ - 1] PROVE HistoryTypes'
    BY <2>1, <2>3, <2>5 DEF TypeOK, HistoryTypes
  <2>6. JournalsOfAll /\ csContent \in [CSWorker -> SUBSET Name]
    BY DEF TypeOK, JournalsOfAll
  <2>7. CASE UndoHere(c, name) /\ cursor' = [cursor EXCEPT ![c] = @ - 1] /\ UNCHANGED <<request, crashed>>
    <3>1. JournalsOfAll' /\ csContent' \in [CSWorker -> SUBSET Name]
      BY <2>7, UndoHereTypes
    <3> QED BY <1>1, <2>2, <2>3, <2>5, <2>7, <3>1 DEF TypeOK, JournalsOfAll, HistoryTypes, asw
  <2>8. CASE /\ cursor' = [cursor EXCEPT ![c] = @ - 1] /\ Ask(c, UndoRedo("undo", name))
             /\ UNCHANGED <<csJournal, csContent, crashed>>
    <3>1. request' \in [CSWorker -> Request]
      BY <1>2, <2>1, <2>8, AskTypes
    <3> QED BY <1>1, <2>2, <2>3, <2>5, <2>8, <3>1 DEF TypeOK, HistoryTypes, asw
  <2>9. CASE UndoWhole(c, name.n, cursor[c] - 1) /\ UNCHANGED <<csJournal, csContent>>
    <3>1. name.n \in Nat /\ cursor[c] - 1 \in Int
      BY <1>2, <2>1
    <3>2. /\ HistoryTypes' /\ request' \in [CSWorker -> Request]
          /\ crashed' \in [CSWorker -> BOOLEAN]
      BY <2>3, <2>9, <3>1, UndoWholeTypes
    <3> QED BY <1>1, <2>2, <2>3, <2>9, <3>2 DEF TypeOK, HistoryTypes, asw
  <2> QED BY <2>4, <2>7, <2>8, <2>9
<1>6. CASE Redo(c)
  <2> DEFINE name == names[c][cursor[c] + 1]
  <2>1. cursor[c] + 1 \in 1 .. Len(names[c]) /\ name \in Name /\ cursor[c] \in Nat
    BY <1>6, HereTypes DEF Redo
  <2>2. outcome' \in [CSWorker -> {"none", "done", "failed", "undone"}]
    BY <1>6 DEF Redo, TypeOK
  <2>3. UNCHANGED <<asw, csSeq, names, chan, batch, before, smooth, early>>
    BY <1>6 DEF Redo
  <2>4. \/ /\ cursor' = [cursor EXCEPT ![c] = @ + 1]
           /\ RedoHere(c, name)
           /\ UNCHANGED <<request, crashed>>
        \/ /\ cursor' = [cursor EXCEPT ![c] = @ + 1]
           /\ Ask(c, UndoRedo("redo", name))
           /\ UNCHANGED <<csJournal, csContent, crashed>>
        \/ /\ RedoWhole(c, name.n, cursor[c] + 2)
           /\ UNCHANGED <<csJournal, csContent>>
    BY <1>6 DEF Redo
  <2> HIDE DEF name
  <2>5. ASSUME cursor' = [cursor EXCEPT ![c] = @ + 1] PROVE HistoryTypes'
    BY <2>1, <2>3, <2>5 DEF TypeOK, HistoryTypes
  <2>7. CASE RedoHere(c, name) /\ cursor' = [cursor EXCEPT ![c] = @ + 1] /\ UNCHANGED <<request, crashed>>
    <3>1. JournalsOfAll' /\ csContent' \in [CSWorker -> SUBSET Name]
      BY <2>7, RedoHereTypes
    <3> QED BY <1>1, <2>2, <2>3, <2>5, <2>7, <3>1 DEF TypeOK, JournalsOfAll, HistoryTypes, asw
  <2>8. CASE /\ cursor' = [cursor EXCEPT ![c] = @ + 1] /\ Ask(c, UndoRedo("redo", name))
             /\ UNCHANGED <<csJournal, csContent, crashed>>
    <3>1. request' \in [CSWorker -> Request]
      BY <1>2, <2>1, <2>8, AskTypes
    <3> QED BY <1>1, <2>2, <2>3, <2>5, <2>8, <3>1 DEF TypeOK, HistoryTypes, asw
  <2>9. CASE RedoWhole(c, name.n, cursor[c] + 2) /\ UNCHANGED <<csJournal, csContent>>
    <3>1. name.n \in Nat /\ cursor[c] + 2 \in Int
      BY <1>2, <2>1
    <3>2. /\ HistoryTypes' /\ request' \in [CSWorker -> Request]
          /\ crashed' \in [CSWorker -> BOOLEAN]
      BY <2>3, <2>9, <3>1, RedoWholeTypes
    <3> QED BY <1>1, <2>2, <2>3, <2>9, <3>2 DEF TypeOK, HistoryTypes, asw
  <2> QED BY <2>4, <2>7, <2>8, <2>9
<1>7. CASE StartBatch(c)
  <2>1. Mark(StartOf(ops + 1)) \in Request
    BY <1>1, Names DEF Request, Mark
  <2>2. request' \in [CSWorker -> Request]
    BY <1>7, <2>1, AskTypes DEF StartBatch
  <2>3. BatchTypes'
    BY <1>1, <1>7, Constants DEF StartBatch, TypeOK, BatchTypes
  <2>4. /\ outcome' \in [CSWorker -> {"none", "done", "failed", "undone"}]
        /\ before' \in [CSWorker -> [as : SUBSET Name, cs : SUBSET Name]]
    BY <1>7 DEF StartBatch, TypeOK
  <2> QED BY <1>1, <1>7, <2>2, <2>3, <2>4 DEF StartBatch, TypeOK, BatchTypes, asw, model, history
<1> QED BY <1>3, <1>4, <1>5, <1>6, <1>7 DEF Client

LEMMA BatchStepTypes ==
    ASSUME TypeOK, NEW c \in CSWorker, Batch(c)
    PROVE  TypeOK'
<1>1. BatchTypes /\ batch[c].step \in 0 .. BatchLen + 2 /\ batch[c].id \in 0 .. MaxOps
  BY DEF TypeOK, BatchTypes
<1>2. ASSUME NEW k \in 0 .. BatchLen + 2, NEW reply \in {"none", "ok", "error"}, ToStep(c, k, reply)
      PROVE  BatchTypes'
  BY <1>1, <1>2 DEF ToStep, BatchTypes
<1>3. CASE NextEdit(c)
  <2>1. batch[c].step + 1 \in 0 .. BatchLen + 2
    BY <1>1, <1>3, Constants DEF NextEdit
  <2>2. BatchTypes'
    BY <1>2, <1>3, <2>1 DEF NextEdit
  <2>3. UNCHANGED <<asw, chan, before, smooth, ops, outcome, crashed>>
    BY <1>3 DEF NextEdit, GotReply
  <2>6. early' \subseteq {"edit", "rollback"}
    BY <1>3 DEF NextEdit, Hastened, TypeOK
  <2>4. CASE Ask(c, Edit) /\ UNCHANGED <<model, history>>
    <3>1. request' \in [CSWorker -> Request]
      BY <2>4, AskTypes DEF Request
    <3> QED BY <2>2, <2>3, <2>4, <2>6, <3>1 DEF TypeOK, BatchTypes, asw, model, history
  <2>5. CASE EditHere(c) /\ UNCHANGED request
    <3>1. /\ JournalsOfAll' /\ csContent' \in [CSWorker -> SUBSET Name]
          /\ csSeq' \in [CSWorker -> Nat] /\ HistoryTypes'
      BY <2>5, EditHereTypes
    <3> QED BY <2>2, <2>3, <2>5, <2>6, <3>1 DEF TypeOK, BatchTypes, JournalsOfAll, HistoryTypes, asw
  <2> QED BY <1>3, <2>4, <2>5 DEF NextEdit
<1>4. CASE LastEditDone(c)
  <2>1. BatchTypes'
    BY <1>2, <1>4, Constants DEF LastEditDone
  <2>2. Mark(EndOf(batch[c].id)) \in Request
    BY <1>1, Constants, Names DEF Request, Mark
  <2>3. request' \in [CSWorker -> Request]
    BY <1>4, <2>2, AskTypes DEF LastEditDone
  <2> QED BY <1>4, <2>1, <2>3 DEF LastEditDone, GotReply, TypeOK, BatchTypes, asw, model, history
<1>5. CASE EndBatch(c)
  <2>1. BatchTypes'
    BY <1>1, <1>5, Constants DEF EndBatch, BatchTypes, NoBatch
  <2>2. outcome' \in [CSWorker -> {"none", "done", "failed", "undone"}]
    BY <1>5 DEF EndBatch, TypeOK
  <2>3. UNCHANGED <<asw, chan, before, smooth, early, ops, model, history, request, crashed>>
    BY <1>5 DEF EndBatch, GotReply
  <2> QED BY <2>1, <2>2, <2>3 DEF TypeOK, BatchTypes, asw, model, history
<1>6. CASE Rollback(c)
  <2>1. UNCHANGED <<asw, chan, before, smooth, ops, model, names, outcome>>
    BY <1>6 DEF Rollback, GotReply
  <2>2. BatchTypes'
    BY <1>2, <1>6, Constants DEF Rollback
  <2>5. early' \subseteq {"edit", "rollback"}
    BY <1>6 DEF Rollback, Hastened, TypeOK
  <2>3. CASE UNCHANGED <<cursor, request, crashed>>
    BY <2>1, <2>2, <2>3, <2>5 DEF TypeOK, BatchTypes, asw, model
  <2>4. CASE UndoWhole(c, batch[c].id, cursor[c])
    <3>1. batch[c].id \in Nat /\ cursor[c] \in Int
      BY <1>1, Constants, HereTypes
    <3>2. /\ HistoryTypes' /\ request' \in [CSWorker -> Request]
          /\ crashed' \in [CSWorker -> BOOLEAN]
      BY <2>1, <2>4, <3>1, UndoWholeTypes
    <3> QED BY <2>1, <2>2, <2>5, <3>2 DEF TypeOK, BatchTypes, HistoryTypes, asw, model
  <2> QED BY <1>6, <2>3, <2>4 DEF Rollback
<1> QED BY <1>3, <1>4, <1>5, <1>6 DEF Batch

LEMMA TypesStep == TypeOK /\ [Next]_vars => TypeOK'
<1> SUFFICES ASSUME TypeOK, [Next]_vars PROVE TypeOK'
  OBVIOUS
<1>1. CASE UNCHANGED vars
  BY <1>1 DEF TypeOK, vars, asw, model, history
<1>2. ASSUME NEW c \in CSWorker, Serve(c) \/ Apply(c) \/ Client(c) \/ Batch(c) PROVE TypeOK'
  BY <1>2, ServeTypes, ApplyTypes, ClientTypes, BatchStepTypes
<1> QED BY <1>1, <1>2 DEF Next

\* Every variable keeps its type and every index stays inside what it indexes, for any
\* csworkers: undo and redo never leave the list of names or a journal
\* (__undoredo and __checkpointUserOperation of src/csworker.js, undo and redo of mmmk.js).
THEOREM TypesKept == Spec => []TypeOK
<1>1. Init => TypeOK
  <2>1. IsJournal(EmptyJournal)
    BY DEF EmptyJournal, IsJournal
  <2> QED BY <2>1, Constants DEF Init, TypeOK, Request, Nothing, NoBatch
<1> QED BY <1>1, TypesStep, PTL DEF Spec

-----------------------------------------------------------------------------
(* Lists of names and the journals that are marked with them.              *)

\* Marked, with its quantifiers side by side.
LEMMA MarkedIs ==
    ASSUME NEW list, NEW k, NEW j,
           \A x \in DOMAIN list : \E i \in UserCheckpoints(j) : j.log[i].name = list[x],
           \A i \in UserCheckpoints(j) : \E x \in DOMAIN list : j.log[i].name = list[x],
           \A i \in UserCheckpoints(j), x \in DOMAIN list :
              j.log[i].name = list[x] => (i <= j.index <=> x <= k),
           \A i, m \in UserCheckpoints(j), x, y \in DOMAIN list :
              j.log[i].name = list[x] /\ j.log[m].name = list[y] => (i < m <=> x < y)
    PROVE  Marked(list, k, j)
<1>1. ASSUME NEW i \in UserCheckpoints(j), NEW x \in DOMAIN list, j.log[i].name = list[x]
      PROVE  /\ i <= j.index <=> x <= k
             /\ \A m \in UserCheckpoints(j), y \in DOMAIN list : j.log[m].name = list[y] => (i < m <=> x < y)
  BY <1>1
<1> QED BY <1>1 DEF Marked

\* A name is listed once, and marks one entry.
LEMMA MarkedOnce ==
    ASSUME NEW list \in Seq(Name), NEW k \in Nat, NEW j \in Journals(Entry), Marked(list, k, j)
    PROVE  /\ \A x, y \in DOMAIN list : list[x] = list[y] => x = y
           /\ \A i, m \in UserCheckpoints(j) : j.log[i].name = j.log[m].name => i = m
<1>1. DOMAIN list \subseteq Nat /\ UserCheckpoints(j) \subseteq Nat
  BY JournalTypes, LenProperties DEF UserCheckpoints
<1>2. /\ \A x \in DOMAIN list : \E i \in UserCheckpoints(j) : j.log[i].name = list[x]
      /\ \A i \in UserCheckpoints(j) : \E x \in DOMAIN list : j.log[i].name = list[x]
      /\ \A i, m \in UserCheckpoints(j), x, y \in DOMAIN list :
            j.log[i].name = list[x] /\ j.log[m].name = list[y] => (i < m <=> x < y)
  BY DEF Marked
<1>3. ASSUME NEW x \in DOMAIN list, NEW y \in DOMAIN list, list[x] = list[y] PROVE x = y
  <2>1. PICK i \in UserCheckpoints(j) : j.log[i].name = list[x]
    BY <1>2
  <2>2. (i < i <=> x < y) /\ (i < i <=> y < x) /\ i \in Nat
    BY <1>1, <1>2, <1>3, <2>1
  <2> QED BY <1>1, <2>2
<1>4. ASSUME NEW i \in UserCheckpoints(j), NEW m \in UserCheckpoints(j), j.log[i].name = j.log[m].name
      PROVE  i = m
  <2>1. PICK x \in DOMAIN list : j.log[i].name = list[x]
    BY <1>2
  <2>2. (i < m <=> x < x) /\ (m < i <=> x < x) /\ x \in Nat
    BY <1>1, <1>2, <1>4, <2>1
  <2> QED BY <1>1, <2>2
<1> QED BY <1>3, <1>4

\* The user-checkpoints of a journal that has something logged.
LEMMA CheckpointsAfter ==
    ASSUME NEW j \in Journals(Entry), NEW e \in Entry
    PROVE  UserCheckpoints(Log(j, e)) =
              { i \in UserCheckpoints(j) : i <= j.index }
                 \cup IF IsUserCheckpoint(e) THEN {j.index + 1} ELSE {}
<1> DEFINE k == Log(j, e)
<1>1. /\ k \in Journals(Entry) /\ k.index = j.index + 1 /\ Len(k.log) = j.index + 1
      /\ \A i \in 1 .. j.index : k.log[i] = j.log[i]
      /\ k.log[j.index + 1] = e
  BY LogFacts
<1>2. /\ DOMAIN k.log = 1 .. j.index + 1 /\ DOMAIN j.log = 1 .. Len(j.log)
      /\ j.index \in Nat /\ Len(j.log) \in Nat /\ j.index <= Len(j.log)
  BY <1>1, JournalTypes
<1> HIDE DEF k
<1>3. ASSUME NEW i PROVE i \in UserCheckpoints(k) <=>
         (i \in UserCheckpoints(j) /\ i <= j.index) \/ (i = j.index + 1 /\ IsUserCheckpoint(e))
  <2>1. CASE i \in 1 .. j.index
    <3>1. i \in DOMAIN k.log /\ i \in DOMAIN j.log /\ k.log[i] = j.log[i] /\ i # j.index + 1 /\ i <= j.index
      BY <2>1, <1>1, <1>2
    <3> QED BY <3>1 DEF UserCheckpoints
  <2>2. CASE i = j.index + 1
    <3>1. i \in DOMAIN k.log /\ k.log[i] = e /\ ~(i <= j.index)
      BY <2>2, <1>1, <1>2
    <3> QED BY <2>2, <3>1 DEF UserCheckpoints
  <2>3. CASE i \notin 1 .. j.index + 1
    <3>1. i \notin DOMAIN k.log /\ i # j.index + 1
      BY <2>3, <1>2
    <3>2. i \in DOMAIN j.log => ~(i <= j.index)
      BY <2>3, <1>2
    <3> QED BY <3>1, <3>2 DEF UserCheckpoints
  <2> QED BY <2>1, <2>2, <2>3, <1>2
<1> QED BY <1>3 DEF k

\* A new name is listed after the applied ones and marks the end of the journal.
LEMMA NewMark ==
    ASSUME NEW list \in Seq(Name), NEW k \in 0 .. Len(list), NEW j \in Journals(Entry),
           Marked(list, k, j),
           NEW name \in Name, \A x \in DOMAIN list : list[x] # name,
           NEW new \in Seq(Name), Len(new) = k + 1, new[k + 1] = name,
           \A x \in 1 .. k : new[x] = list[x]
    PROVE  /\ Marked(new, k + 1, SetUserCheckpoint(j, name))
           /\ SetUserCheckpoint(j, name) = Log(j, MKUSRCHKPT(name))
<1> DEFINE e == MKUSRCHKPT(name)
           h == Log(j, e)
<1>1. /\ DOMAIN list = 1 .. Len(list) /\ Len(list) \in Nat /\ k \in Nat
      /\ DOMAIN new = 1 .. k + 1
      /\ DOMAIN j.log = 1 .. Len(j.log) /\ j.index \in Nat /\ Len(j.log) \in Nat
      /\ j.index <= Len(j.log)
  BY JournalTypes, LenProperties
<1>2. e \in Entry /\ IsUserCheckpoint(e) /\ e.name = name
  BY Entries DEF MKUSRCHKPT, IsUserCheckpoint
<1> HIDE DEF e
<1>3. /\ h \in Journals(Entry) /\ h.index = j.index + 1
      /\ \A i \in 1 .. j.index : h.log[i] = j.log[i]
      /\ h.log[j.index + 1] = e
  BY <1>2, LogFacts
<1> DEFINE U == UserCheckpoints(j)
<1>4. \A i : i \in UserCheckpoints(h) <=> (i \in U /\ i <= j.index) \/ i = j.index + 1
  <2>1. UserCheckpoints(h) = { i \in U : i <= j.index } \cup {j.index + 1}
    BY <1>2, CheckpointsAfter
  <2> HIDE DEF h, U
  <2> QED BY <2>1
<1>5. /\ \A x \in DOMAIN list : \E i \in U : j.log[i].name = list[x]
      /\ \A i \in U : \E x \in DOMAIN list : j.log[i].name = list[x]
      /\ \A i \in U, x \in DOMAIN list : j.log[i].name = list[x] => (i <= j.index <=> x <= k)
      /\ \A i, m \in U, x, y \in DOMAIN list :
            j.log[i].name = list[x] /\ j.log[m].name = list[y] => (i < m <=> x < y)
  BY DEF Marked
<1>6. U \subseteq 1 .. Len(j.log) /\ \A i \in U : j.log[i].name # name
  BY <1>1, <1>5 DEF UserCheckpoints
<1>7. SetUserCheckpoint(j, name) = h
  <2>1. SUFFICES ASSUME j.log # <<>>, IsNamed(j.log[Len(j.log)], name) PROVE FALSE
    BY DEF SetUserCheckpoint, e
  <2>2. Len(j.log) \in 1 .. Len(j.log)
    BY <2>1, <1>1, EmptySeq DEF Journals
  <2>3. Len(j.log) \in U /\ j.log[Len(j.log)].name = name
    BY <2>1, <2>2, <1>1 DEF UserCheckpoints, IsNamed
  <2> QED BY <2>3, <1>6
<1> HIDE DEF h, U
\* what marks what, in the new journal and list
<1>8. ASSUME NEW i \in UserCheckpoints(h), NEW x \in DOMAIN new
      PROVE  h.log[i].name = new[x] <=>
                \/ i \in U /\ i <= j.index /\ x \in DOMAIN list /\ x <= k /\ j.log[i].name = list[x]
                \/ i = j.index + 1 /\ x = k + 1
  <2>1. CASE i = j.index + 1 /\ x = k + 1
    BY <2>1, <1>2, <1>3
  <2>2. CASE i = j.index + 1 /\ x # k + 1
    <3>1. x \in DOMAIN list /\ x \in 1 .. k /\ ~(i <= j.index)
      BY <2>2, <1>1
    <3>2. new[x] = list[x] /\ list[x] # name /\ h.log[i].name = name
      BY <2>2, <3>1, <1>2, <1>3
    <3> QED BY <2>2, <3>1, <3>2
  <2>3. CASE i # j.index + 1
    <3>1. i \in U /\ i <= j.index /\ i \in 1 .. j.index
      <4>1. i \in U /\ i <= j.index
        BY <2>3, <1>4
      <4>2. i \in 1 .. Len(j.log)
        BY <4>1, <1>6
      <4> QED BY <4>1, <4>2, <1>1
    <3>2. h.log[i] = j.log[i] /\ j.log[i].name # name
      BY <3>1, <1>3, <1>6
    <3>3. CASE x = k + 1
      <4>1. ~(x <= k)
        BY <3>3, <1>1
      <4>2. h.log[i].name # new[x]
        BY <3>2, <3>3
      <4> QED BY <2>3, <4>1, <4>2
    <3>4. CASE x # k + 1
      <4>1. x \in 1 .. k /\ x \in DOMAIN list /\ x <= k
        BY <3>4, <1>1
      <4>2. new[x] = list[x]
        BY <4>1
      <4> QED BY <3>1, <3>2, <4>1, <4>2, <2>3
    <3> QED BY <3>3, <3>4
  <2> QED BY <2>1, <2>2, <2>3
<1>9. Marked(new, k + 1, h)
  <2>1. ASSUME NEW x \in DOMAIN new PROVE \E i \in UserCheckpoints(h) : h.log[i].name = new[x]
    <3>1. CASE x = k + 1
      BY <3>1, <1>4, <1>8
    <3>2. CASE x # k + 1
      <4>1. x \in DOMAIN list /\ x <= k
        BY <3>2, <1>1
      <4>2. PICK i \in U : j.log[i].name = list[x]
        BY <4>1, <1>5
      <4>3. i \in UserCheckpoints(h) /\ i <= j.index
        BY <4>1, <4>2, <1>4, <1>5
      <4> QED BY <4>1, <4>2, <4>3, <1>8
    <3> QED BY <3>1, <3>2
  <2>2. ASSUME NEW i \in UserCheckpoints(h) PROVE \E x \in DOMAIN new : h.log[i].name = new[x]
    <3>1. CASE i = j.index + 1
      <4>1. k + 1 \in DOMAIN new
        BY <1>1
      <4> QED BY <3>1, <4>1, <1>8
    <3>2. CASE i # j.index + 1
      <4>1. i \in U /\ i <= j.index
        BY <3>2, <1>4
      <4>2. PICK x \in DOMAIN list : j.log[i].name = list[x]
        BY <4>1, <1>5
      <4>3. x <= k /\ x \in DOMAIN new
        BY <4>1, <4>2, <1>1, <1>5, SMTT(20), ZenonT(20)
      <4> QED BY <4>1, <4>2, <4>3, <1>8
    <3> QED BY <3>1, <3>2
  <2>3. ASSUME NEW i \in UserCheckpoints(h), NEW x \in DOMAIN new, h.log[i].name = new[x]
        PROVE  i <= h.index <=> x <= k + 1
    <3>1. i <= j.index + 1
      <4>1. CASE i = j.index + 1
        BY <4>1, <1>1
      <4>2. CASE i \in U /\ i <= j.index
        <5>1. i \in 1 .. Len(j.log)
          BY <4>2, <1>6
        <5> QED BY <4>2, <5>1, <1>1
      <4> QED BY <4>1, <4>2, <1>4
    <3>2. x <= k + 1
      BY <1>1
    <3> QED BY <3>1, <3>2, <1>3
  <2>4. ASSUME NEW i \in UserCheckpoints(h), NEW x \in DOMAIN new, h.log[i].name = new[x],
               NEW m \in UserCheckpoints(h), NEW y \in DOMAIN new, h.log[m].name = new[y]
        PROVE  i < m <=> x < y
    <3>1. \/ i \in U /\ i <= j.index /\ x \in DOMAIN list /\ x <= k /\ j.log[i].name = list[x]
          \/ i = j.index + 1 /\ x = k + 1
      BY <2>4, <1>8
    <3>2. \/ m \in U /\ m <= j.index /\ y \in DOMAIN list /\ y <= k /\ j.log[m].name = list[y]
          \/ m = j.index + 1 /\ y = k + 1
      BY <2>4, <1>8
    <3>3. i \in Nat /\ m \in Nat /\ x \in Nat /\ y \in Nat
      <4>1. \A u \in U : u \in Nat
        BY <1>6
      <4>2. x \in Nat /\ y \in Nat /\ j.index + 1 \in Nat
        BY <1>1
      <4> QED BY <3>1, <3>2, <4>1, <4>2
    <3>4. CASE i # j.index + 1 /\ m # j.index + 1
      BY <3>1, <3>2, <3>4, <1>5
    <3>5. CASE i = j.index + 1 \/ m = j.index + 1
      BY <3>1, <3>2, <3>3, <3>5, <1>1
    <3> QED BY <3>4, <3>5
  <2> QED BY <2>1, <2>2, <2>3, <2>4, MarkedIs, Zenon
<1> QED BY <1>7, <1>9 DEF h, e

\* What else is logged at the end of a journal marks nothing.
LEMMA SameMarks ==
    ASSUME NEW list \in Seq(Name), NEW k \in 0 .. Len(list), NEW j \in Journals(Entry),
           Marked(list, k, j), j.index = Len(j.log),
           NEW e \in Entry, ~IsUserCheckpoint(e)
    PROVE  Marked(list, k, Log(j, e))
<1> DEFINE h == Log(j, e)
           U == UserCheckpoints(j)
<1>1. /\ h.index = j.index + 1 /\ \A i \in 1 .. j.index : h.log[i] = j.log[i]
      /\ j.index \in Nat /\ DOMAIN j.log = 1 .. j.index
  BY LogFacts, JournalTypes
<1>2. UserCheckpoints(h) = U /\ \A i \in U : i \in 1 .. j.index
  <2>1. U \subseteq 1 .. j.index
    BY <1>1 DEF UserCheckpoints
  <2>2. UserCheckpoints(h) = { i \in U : i <= j.index }
    BY CheckpointsAfter
  <2> QED BY <2>1, <2>2, <1>1
<1>3. ASSUME NEW i \in U
      PROVE  h.log[i] = j.log[i] /\ (i <= h.index <=> i <= j.index)
  BY <1>1, <1>2
<1>4. /\ \A x \in DOMAIN list : \E i \in U : j.log[i].name = list[x]
      /\ \A i \in U : \E x \in DOMAIN list : j.log[i].name = list[x]
      /\ \A i \in U, x \in DOMAIN list : j.log[i].name = list[x] => (i <= j.index <=> x <= k)
      /\ \A i, m \in U, x, y \in DOMAIN list :
            j.log[i].name = list[x] /\ j.log[m].name = list[y] => (i < m <=> x < y)
  BY DEF Marked
<1> HIDE DEF h, U
<1>5. ASSUME NEW i \in U, NEW x \in DOMAIN list, h.log[i].name = list[x]
      PROVE  i <= h.index <=> x <= k
  BY <1>3, <1>4, <1>5
<1>6. ASSUME NEW i \in U, NEW m \in U, NEW x \in DOMAIN list, NEW y \in DOMAIN list,
             h.log[i].name = list[x] /\ h.log[m].name = list[y]
      PROVE  i < m <=> x < y
  BY <1>3, <1>4, <1>6
<1>7. /\ \A x \in DOMAIN list : \E i \in U : h.log[i].name = list[x]
      /\ \A i \in U : \E x \in DOMAIN list : h.log[i].name = list[x]
  BY <1>3, <1>4
<1>8. Marked(list, k, h)
  BY <1>2, <1>5, <1>6, <1>7, MarkedIs
<1> QED BY <1>8 DEF h

\* Undo by name of an applied name.
LEMMA MarksUndone ==
    ASSUME NEW list \in Seq(Name), NEW k \in 0 .. Len(list), NEW j \in Journals(Entry),
           Marked(list, k, j), NEW x \in 1 .. k
    PROVE  Marked(list, x - 1, UndoneUntil(j, list[x]))
<1> DEFINE h == UndoneUntil(j, list[x])
           U == UserCheckpoints(j)
<1>1. /\ DOMAIN list = 1 .. Len(list) /\ Len(list) \in Nat /\ k \in Nat /\ x \in DOMAIN list
      /\ DOMAIN j.log = 1 .. Len(j.log) /\ j.index \in Nat /\ Len(j.log) \in Nat
      /\ j.index <= Len(j.log)
  BY JournalTypes, LenProperties
<1>2. /\ \A y \in DOMAIN list : \E i \in U : j.log[i].name = list[y]
      /\ \A i \in U : \E y \in DOMAIN list : j.log[i].name = list[y]
      /\ \A i \in U, y \in DOMAIN list : j.log[i].name = list[y] => (i <= j.index <=> y <= k)
      /\ \A i, m \in U, z, y \in DOMAIN list :
            j.log[i].name = list[z] /\ j.log[m].name = list[y] => (i < m <=> z < y)
  BY DEF Marked
<1>3. PICK i \in U : j.log[i].name = list[x]
  BY <1>1, <1>2
<1>4. i \in 1 .. j.index /\ IsNamed(j.log[i], list[x])
  BY <1>1, <1>2, <1>3 DEF UserCheckpoints, IsNamed
<1>5. ASSUME NEW m \in 1 .. j.index, IsNamed(j.log[m], list[x]) PROVE m = i
  <2>1. m \in U /\ j.log[m].name = list[x]
    BY <1>1, <1>5 DEF UserCheckpoints, IsNamed
  <2> QED BY <2>1, <1>3, MarkedOnce, <1>1
<1>6. h.log = j.log /\ h.index = i - 1
  BY <1>4, <1>5, UndoneUntilFacts
<1> HIDE DEF h
<1>7. UserCheckpoints(h) = U
  BY <1>6 DEF UserCheckpoints
<1>8. U \subseteq Nat
  BY <1>1 DEF UserCheckpoints
<1>9. ASSUME NEW m \in U, NEW y \in DOMAIN list, j.log[m].name = list[y]
      PROVE  m <= h.index <=> y <= x - 1
  <2>1. m < i <=> y < x
    BY <1>1, <1>2, <1>3, <1>9
  <2>2. m \in Nat /\ i \in Nat /\ x \in Nat /\ y \in Nat
    BY <1>1, <1>8
  <2> QED BY <2>1, <2>2, <1>6
<1> HIDE DEF U
<1>10. ASSUME NEW m \in U, NEW y \in DOMAIN list, h.log[m].name = list[y]
       PROVE  m <= h.index <=> y <= x - 1
  BY <1>6, <1>9, <1>10
<1>11. ASSUME NEW n \in U, NEW m \in U, NEW z \in DOMAIN list, NEW y \in DOMAIN list,
              h.log[n].name = list[z] /\ h.log[m].name = list[y]
       PROVE  n < m <=> z < y
  BY <1>2, <1>6, <1>11
<1>12. /\ \A y \in DOMAIN list : \E m \in U : h.log[m].name = list[y]
       /\ \A m \in U : \E y \in DOMAIN list : h.log[m].name = list[y]
  BY <1>2, <1>6
<1>13. Marked(list, x - 1, h)
  BY <1>7, <1>10, <1>11, <1>12, MarkedIs
<1> QED BY <1>13 DEF h

\* Redo by name of a name that was undone.
LEMMA MarksRedone ==
    ASSUME NEW list \in Seq(Name), NEW k \in 0 .. Len(list), NEW j \in Journals(Entry),
           Marked(list, k, j), NEW x \in k + 1 .. Len(list)
    PROVE  Marked(list, x, RedoneUntil(j, list[x]))
<1> DEFINE h == RedoneUntil(j, list[x])
           U == UserCheckpoints(j)
<1>1. /\ DOMAIN list = 1 .. Len(list) /\ Len(list) \in Nat /\ k \in Nat /\ x \in DOMAIN list
      /\ DOMAIN j.log = 1 .. Len(j.log) /\ j.index \in Nat /\ Len(j.log) \in Nat
      /\ j.index <= Len(j.log) /\ x \in Nat
  BY JournalTypes, LenProperties
<1>2. /\ \A y \in DOMAIN list : \E i \in U : j.log[i].name = list[y]
      /\ \A i \in U : \E y \in DOMAIN list : j.log[i].name = list[y]
      /\ \A i \in U, y \in DOMAIN list : j.log[i].name = list[y] => (i <= j.index <=> y <= k)
      /\ \A i, m \in U, z, y \in DOMAIN list :
            j.log[i].name = list[z] /\ j.log[m].name = list[y] => (i < m <=> z < y)
  BY DEF Marked
<1>3. PICK i \in U : j.log[i].name = list[x]
  BY <1>1, <1>2
<1>4. i \in j.index + 1 .. Len(j.log) /\ IsNamed(j.log[i], list[x])
  <2>1. i \in 1 .. Len(j.log) /\ IsUserCheckpoint(j.log[i])
    BY <1>1 DEF UserCheckpoints
  <2>2. ~(i <= j.index)
    BY <1>1, <1>2, <1>3, SMTT(20), ZenonT(20)
  <2> QED BY <2>1, <2>2, <1>1, <1>3 DEF IsNamed
<1>5. ASSUME NEW m \in j.index + 1 .. Len(j.log), IsNamed(j.log[m], list[x]) PROVE m = i
  <2>1. m \in U /\ j.log[m].name = list[x]
    BY <1>1, <1>5 DEF UserCheckpoints, IsNamed
  <2> QED BY <2>1, <1>3, MarkedOnce, <1>1
<1>6. /\ h.log = j.log /\ h.index \in i .. Len(j.log)
      /\ \A m \in i + 1 .. h.index : ~IsUserCheckpoint(j.log[m])
  BY <1>4, <1>5, RedoneUntilFacts
<1> HIDE DEF h
<1>7. UserCheckpoints(h) = U
  BY <1>6 DEF UserCheckpoints
<1>8. U \subseteq Nat /\ \A m \in U : IsUserCheckpoint(j.log[m])
  BY <1>1 DEF UserCheckpoints
<1>9. ASSUME NEW m \in U, NEW y \in DOMAIN list, j.log[m].name = list[y]
      PROVE  m <= h.index <=> y <= x
  <2>1. i < m <=> x < y
    BY <1>1, <1>2, <1>3, <1>9
  <2>2. m \in Nat /\ i \in Nat /\ x \in Nat /\ y \in Nat /\ h.index \in Nat /\ i <= h.index
    BY <1>1, <1>6, <1>8
  <2>3. i < m => ~(m <= h.index)
    <3>1. SUFFICES ASSUME i < m, m <= h.index PROVE FALSE
      OBVIOUS
    <3>2. m \in i + 1 .. h.index
      BY <3>1, <2>2
    <3> QED BY <3>2, <1>6, <1>8
  <2> QED BY <2>1, <2>2, <2>3
<1> HIDE DEF U
<1>10. ASSUME NEW m \in U, NEW y \in DOMAIN list, h.log[m].name = list[y]
       PROVE  m <= h.index <=> y <= x
  BY <1>6, <1>9, <1>10
<1>11. ASSUME NEW n \in U, NEW m \in U, NEW z \in DOMAIN list, NEW y \in DOMAIN list,
              h.log[n].name = list[z] /\ h.log[m].name = list[y]
       PROVE  n < m <=> z < y
  BY <1>2, <1>6, <1>11
<1>12. /\ \A y \in DOMAIN list : \E m \in U : h.log[m].name = list[y]
       /\ \A m \in U : \E y \in DOMAIN list : h.log[m].name = list[y]
  BY <1>2, <1>6
<1>13. Marked(list, x, h)
  BY <1>7, <1>10, <1>11, <1>12, MarkedIs
<1> QED BY <1>13 DEF h

\* The same, when the operation is also carried out.
LEMMA NewMarkDone ==
    ASSUME NEW list \in Seq(Name), NEW k \in 0 .. Len(list), NEW j \in Journals(Entry),
           Marked(list, k, j),
           NEW name \in Name, \A x \in DOMAIN list : list[x] # name,
           NEW new \in Seq(Name), Len(new) = k + 1, new[k + 1] = name,
           \A x \in 1 .. k : new[x] = list[x]
    PROVE  Marked(new, k + 1, Done(SetUserCheckpoint(j, name), name))
<1> DEFINE h == SetUserCheckpoint(j, name)
           g == Log(h, MKSTPCHKPT)
           e == [op |-> "DO", name |-> name]
<1>1. Marked(new, k + 1, h) /\ h = Log(j, MKUSRCHKPT(name))
  BY NewMark
<1>2. k + 1 \in 0 .. Len(new)
  BY LenProperties
<1>3. /\ h \in Journals(Entry) /\ h.index = Len(h.log) /\ h.index = j.index + 1
      /\ h.log[h.index] = MKUSRCHKPT(name)
  <2>1. MKUSRCHKPT(name) \in Entry /\ j.index \in Nat
    BY Entries DEF Journals
  <2> DEFINE m == MKUSRCHKPT(name)
  <2> HIDE DEF h, m
  <2>2. h = Log(j, m) /\ m \in Entry
    BY <1>1, <2>1 DEF m
  <2>3. /\ h \in Journals(Entry) /\ h.index = j.index + 1 /\ Len(h.log) = j.index + 1
        /\ h.log[j.index + 1] = m
    BY <2>2, LogFacts
  <2> QED BY <2>3 DEF m
<1>4. SetStepCheckpoint(h) = g
  BY <1>3 DEF SetStepCheckpoint, IsStepCheckpoint, MKUSRCHKPT
<1>5. MKSTPCHKPT \in Entry /\ ~IsUserCheckpoint(MKSTPCHKPT) /\ e \in Entry /\ ~IsUserCheckpoint(e)
  BY Entries DEF IsUserCheckpoint, MKSTPCHKPT
<1> HIDE DEF h, e
<1>6. g \in Journals(Entry) /\ g.index = Len(g.log)
  BY <1>3, <1>5, LogFacts
<1>7. Marked(new, k + 1, g)
  BY <1>1, <1>2, <1>3, <1>5, SameMarks
<1> HIDE DEF g
<1>8. Marked(new, k + 1, Log(g, e))
  BY <1>2, <1>5, <1>6, <1>7, SameMarks
<1> QED BY <1>4, <1>8 DEF Done, h, e

-----------------------------------------------------------------------------
(* The invariant of one csworker whose clients wait.                       *)

\* a name that was given
Given(c, name) ==
    \/ name.kind = "as" /\ name.n <= asSeq
    \/ name.kind = "cs" /\ name.n <= csSeq[c]
    \/ name.kind \in {"start", "end"} /\ name.n <= ops

Knows(c, name) == \E x \in DOMAIN names[c] : names[c][x] = name
Keeps(c, name) == \E x \in 1 .. cursor[c] : names[c][x] = name

\* The names were given, and the end of a batch comes after its start.
NamesInOrder(c) ==
    /\ \A x \in DOMAIN names[c] : Given(c, names[c][x])
    /\ \A y \in DOMAIN names[c] : names[c][y].kind = "end" =>
          \E x \in 1 .. y - 1 : names[c][x] = StartOf(names[c][y].n)

\* A request or a changelog moves in the history, or brings it a name.
Moves(m)  == m.func \in {"undo", "redo"}
Brings(m) == m.func \in {"do", "mark"}

\* a changelog among the first k that are on their way brings the name
ComesBy(c, k, name) == \E i \in 1 .. k : chan[c][i].name = name
Comes(c, name) == ComesBy(c, Len(chan[c]), name)

\* A move is under way alone, as a request or as what came of it.
MovesAlone(c) ==
    /\ Moves(request[c]) => chan[c] = <<>>
    /\ \A i \in DOMAIN chan[c] : Moves(chan[c][i]) => request[c] = Nothing /\ Len(chan[c]) = 1

\* What is on its way brings new names, that of an end after that of its start.
NewsIsNew(c) ==
    /\ \A i \in DOMAIN chan[c] : Brings(chan[c][i]) =>
          /\ Given(c, chan[c][i].name) /\ ~Knows(c, chan[c][i].name)
          /\ ~ComesBy(c, i - 1, chan[c][i].name)
          /\ chan[c][i].func = "do" => chan[c][i].name.kind = "as"
          /\ chan[c][i].name.kind = "end" =>
                LET start == StartOf(chan[c][i].name.n)
                IN  Keeps(c, start) \/ ComesBy(c, i - 1, start)
    /\ request[c].func = "mark" =>
          Given(c, request[c].name) /\ ~Knows(c, request[c].name) /\ ~Comes(c, request[c].name)

\* What a batchEdit has marked when it comes to each step.
BatchIsMarked(c) ==
    LET b == batch[c] IN
    /\ b = NoBatch => request[c].func # "mark"
    /\ b # NoBatch =>
          /\ b.id \in 1 .. ops
          /\ b.step <= BatchLen => ~Knows(c, EndOf(b.id)) /\ ~Comes(c, EndOf(b.id))
          /\ b.step <= BatchLen + 1 =>
                /\ \/ Keeps(c, StartOf(b.id)) \/ Comes(c, StartOf(b.id))
                   \/ b.step = 0 /\ request[c] = Mark(StartOf(b.id))
                /\ ~Moves(request[c]) /\ \A i \in DOMAIN chan[c] : ~Moves(chan[c][i])
          /\ request[c].func = "mark" => \/ b.step = 0 /\ request[c].name = StartOf(b.id)
                                         \/ b.step = BatchLen + 1 /\ request[c].name = EndOf(b.id)
          /\ b.reply = "error" \/ request[c] = Edit => b.step \in 1 .. BatchLen

\* what the csworker comes to next
News(c) == IF chan[c] = <<>> THEN request[c] ELSE Head(chan[c])

\* The journal is where the cursor is, or where the cursor was before the undo or redo that
\* is under way.
UndoComes(c, name) ==
    \E k \in cursor[c] + 1 .. Len(names[c]) :
        Marked(names[c], k, csJournal[c]) /\ names[c][cursor[c] + 1] = name

RedoComes(c, name) ==
    \E k \in 0 .. cursor[c] - 1 :
        Marked(names[c], k, csJournal[c]) /\ names[c][cursor[c]] = name

JournalFollows(c) ==
    /\ News(c).func = "undo" => UndoComes(c, News(c).name)
    /\ News(c).func = "redo" => RedoComes(c, News(c).name)
    /\ ~Moves(News(c)) => Marked(names[c], cursor[c], csJournal[c])

Story(c) ==
    MovesAlone(c) /\ NamesInOrder(c) /\ NewsIsNew(c) /\ BatchIsMarked(c) /\ JournalFollows(c)

IInv == TypeOK /\ ("rollback" \notin early => \A c \in CSWorker : Story(c))

-----------------------------------------------------------------------------
(* The list of names, as it stays or grows.                                *)

\* Given names stay given.
LEMMA GivenStays ==
    ASSUME TypeOK, TypeOK', NEW c \in CSWorker, NEW n \in Name, Given(c, n),
           asSeq <= asSeq', csSeq[c] <= csSeq'[c], ops <= ops'
    PROVE  Given(c, n)'
<1>1. /\ asSeq \in Nat /\ asSeq' \in Nat /\ csSeq[c] \in Nat /\ csSeq'[c] \in Nat
      /\ ops \in Nat /\ ops' \in Nat /\ n.n \in Nat
  BY Constants DEF TypeOK, Name
<1> QED BY <1>1 DEF Given

\* So does the order of a list that stays.
LEMMA NamesStay ==
    ASSUME TypeOK, TypeOK', NEW c \in CSWorker, Story(c), names'[c] = names[c],
           asSeq <= asSeq', csSeq[c] <= csSeq'[c], ops <= ops'
    PROVE  /\ NamesInOrder(c)'
           /\ \A name : Knows(c, name)' <=> Knows(c, name)
           /\ \A name \in Name : Given(c, name) => Given(c, name)'
<1>1. \A name \in Name : Given(c, name) => Given(c, name)'
  BY GivenStays
<1>2. \A x \in DOMAIN names[c] : names[c][x] \in Name
  BY HereTypes
<1>3. NamesInOrder(c)'
  BY <1>1, <1>2 DEF Story, NamesInOrder
<1>4. \A name : Knows(c, name)' <=> Knows(c, name)
  BY DEF Knows
<1> QED BY <1>1, <1>3, <1>4

\* A new name is recorded.
LEMMA NamesGrow ==
    ASSUME TypeOK, TypeOK', NEW c \in CSWorker, Story(c),
           NEW name \in Name, Recorded(c, name), Given(c, name)', ~Knows(c, name),
           name.kind = "end" => Keeps(c, StartOf(name.n)),
           asSeq <= asSeq', csSeq[c] <= csSeq'[c], ops <= ops'
    PROVE  /\ NamesInOrder(c)'
           /\ \A n : Knows(c, n)' => Knows(c, n) \/ n = name
           /\ \A n : Keeps(c, n) => Keeps(c, n)'
           /\ Keeps(c, name)'
<1> DEFINE k == cursor[c]
<1>1. /\ cursor'[c] = k + 1 /\ Len(names'[c]) = k + 1 /\ DOMAIN names'[c] = 1 .. k + 1
      /\ \A x \in 1 .. k : names'[c][x] = names[c][x]
      /\ names'[c][k + 1] = name
  <2>1. DOMAIN names'[c] = 1 .. Len(names'[c])
    BY LenProperties DEF TypeOK
  <2> QED BY <2>1, RecordedTypes
<1>2. /\ k \in Nat /\ k <= Len(names[c]) /\ DOMAIN names[c] = 1 .. Len(names[c])
      /\ Len(names[c]) \in Nat /\ \A x \in 1 .. Len(names[c]) : names[c][x] \in Name
  BY HereTypes
<1> HIDE DEF k
<1>3. \A x \in 1 .. k : x \in DOMAIN names[c] /\ names[c][x] \in Name
  BY <1>2
<1>4. \A n \in Name : Given(c, n) => Given(c, n)'
  BY GivenStays
<1>5. /\ \A x \in DOMAIN names[c] : Given(c, names[c][x])
      /\ \A y \in DOMAIN names[c] : names[c][y].kind = "end" =>
            \E x \in 1 .. y - 1 : names[c][x] = StartOf(names[c][y].n)
  BY DEF Story, NamesInOrder
<1>6. ASSUME NEW x \in DOMAIN names'[c], NEW n, n = names'[c][x] PROVE Given(c, n)'
  <2>1. CASE x = k + 1
    BY <2>1, <1>1, <1>6
  <2>2. CASE x \in 1 .. k
    <3>1. n = names[c][x] /\ n \in Name /\ Given(c, n)
      BY <2>2, <1>1, <1>3, <1>5, <1>6
    <3> QED BY <3>1, <1>4
  <2> QED BY <2>1, <2>2, <1>1, <1>2
<1>7. ASSUME NEW y \in DOMAIN names'[c], names'[c][y].kind = "end"
      PROVE  \E x \in 1 .. y - 1 : names'[c][x] = StartOf(names'[c][y].n)
  <2>1. CASE y = k + 1
    <3>1. Keeps(c, StartOf(name.n)) /\ names'[c][y] = name
      BY <2>1, <1>1, <1>7
    <3>2. PICK x \in 1 .. k : names[c][x] = StartOf(name.n)
      BY <3>1 DEF Keeps, k
    <3>3. x \in 1 .. y - 1 /\ names'[c][x] = StartOf(name.n)
      BY <2>1, <3>2, <1>1, <1>2
    <3> QED BY <3>1, <3>3
  <2>2. CASE y \in 1 .. k
    <3>1. names'[c][y] = names[c][y] /\ y \in DOMAIN names[c]
      BY <2>2, <1>1, <1>3
    <3>2. PICK x \in 1 .. y - 1 : names[c][x] = StartOf(names[c][y].n)
      BY <3>1, <1>5, <1>7
    <3>3. x \in 1 .. k
      BY <2>2, <1>2
    <3> QED BY <3>1, <3>2, <3>3, <1>1
  <2> QED BY <2>1, <2>2, <1>1, <1>2
<1>8. ASSUME NEW n, Knows(c, n)' PROVE Knows(c, n) \/ n = name
  <2>1. PICK x \in 1 .. k + 1 : names'[c][x] = n
    BY <1>1, <1>8 DEF Knows
  <2>2. CASE x = k + 1
    BY <2>1, <2>2, <1>1
  <2>3. CASE x \in 1 .. k
    BY <2>1, <2>3, <1>1, <1>3 DEF Knows
  <2> QED BY <2>2, <2>3, <1>2
<1>9. ASSUME NEW n, Keeps(c, n) PROVE Keeps(c, n)'
  <2>1. PICK x \in 1 .. k : names[c][x] = n
    BY <1>9 DEF Keeps, k
  <2>2. x \in 1 .. k + 1 /\ names'[c][x] = n
    BY <2>1, <1>1, <1>2
  <2> QED BY <2>2, <1>1 DEF Keeps
<1>10. Keeps(c, name)'
  <2>1. k + 1 \in 1 .. k + 1
    BY <1>2
  <2> QED BY <2>1, <1>1 DEF Keeps
<1>11. NamesInOrder(c)'
  <2>1. ASSUME NEW x \in DOMAIN names'[c] PROVE Given(c, names[c][x])'
    BY <1>6, <2>1 DEF Given
  <2> QED BY <2>1, <1>7 DEF NamesInOrder
<1> QED BY <1>8, <1>9, <1>10, <1>11

-----------------------------------------------------------------------------
(* The asworker serves a request; the changelogs on their way.             *)

LEMMA ChanTypes ==
    ASSUME TypeOK, NEW c \in CSWorker
    PROVE  /\ chan[c] \in Seq(Posted) /\ Len(chan[c]) \in Nat /\ DOMAIN chan[c] = 1 .. Len(chan[c])
           /\ \A i \in 1 .. Len(chan[c]) :
                 /\ chan[c][i] \in Posted /\ chan[c][i].name \in Name
                 /\ Brings(chan[c][i]) <=> ~Moves(chan[c][i])
           /\ chan[c] # <<>> => 1 \in 1 .. Len(chan[c]) /\ Head(chan[c]) = chan[c][1]
<1>1. chan[c] \in Seq(Posted)
  BY DEF TypeOK
<1>2. \A m \in Posted : m.name \in Name /\ (Brings(m) <=> ~Moves(m))
  BY DEF Posted, Brings, Moves
<1>3. /\ Len(chan[c]) \in Nat /\ DOMAIN chan[c] = 1 .. Len(chan[c])
      /\ \A i \in 1 .. Len(chan[c]) : chan[c][i] \in Posted
  BY <1>1
<1>4. chan[c] # <<>> => 1 \in 1 .. Len(chan[c]) /\ Head(chan[c]) = chan[c][1]
  BY <1>1
<1> QED BY <1>1, <1>2, <1>3, <1>4

\* What comes when a changelog leaves,
LEMMA ChanGrows ==
    ASSUME TypeOK, NEW c \in CSWorker, NEW m, chan'[c] = Append(chan[c], m)
    PROVE  /\ Len(chan'[c]) = Len(chan[c]) + 1 /\ DOMAIN chan'[c] = 1 .. Len(chan[c]) + 1
           /\ chan'[c] # <<>> /\ chan'[c][Len(chan[c]) + 1] = m
           /\ \A i \in 1 .. Len(chan[c]) : chan'[c][i] = chan[c][i]
           /\ \A i \in 0 .. Len(chan[c]) : \A name : ComesBy(c, i, name)' <=> ComesBy(c, i, name)
           /\ \A name : Comes(c, name)' <=> Comes(c, name) \/ name = m.name
           /\ chan[c] = <<>> => chan'[c] = <<m>> /\ Head(chan'[c]) = m /\ Len(chan'[c]) = 1
           /\ chan[c] # <<>> => Head(chan'[c]) = Head(chan[c])
<1>1. PICK s, t : s = chan[c] /\ t = chan'[c]
  OBVIOUS
<1>2. s \in Seq(Posted) /\ t = Append(s, m)
  BY <1>1, ChanTypes
<1>3. /\ Len(s) \in Nat /\ Len(t) = Len(s) + 1 /\ DOMAIN t = 1 .. Len(s) + 1
      /\ t # <<>> /\ t[Len(s) + 1] = m /\ \A i \in 1 .. Len(s) : t[i] = s[i]
  BY <1>2
<1>4. s = <<>> => t = <<m>> /\ Head(t) = m /\ Len(t) = 1
  BY <1>2
<1>5. s # <<>> => Head(t) = Head(s)
  BY <1>2
<1>6. ASSUME NEW i \in 0 .. Len(s), NEW name PROVE ComesBy(c, i, name)' <=> ComesBy(c, i, name)
  <2>1. \A k \in 1 .. i : t[k] = s[k]
    BY <1>3
  <2> QED BY <1>1, <2>1 DEF ComesBy
<1>7. ASSUME NEW name PROVE Comes(c, name)' <=> Comes(c, name) \/ name = m.name
  <2>1. Comes(c, name)' <=> \E k \in 1 .. Len(s) + 1 : t[k].name = name
    BY <1>1, <1>3 DEF Comes, ComesBy
  <2>2. Comes(c, name) <=> \E k \in 1 .. Len(s) : s[k].name = name
    BY <1>1 DEF Comes, ComesBy
  <2>3. \A k : k \in 1 .. Len(s) + 1 <=> k \in 1 .. Len(s) \/ k = Len(s) + 1
    BY <1>3
  <2> QED BY <1>3, <2>1, <2>2, <2>3
<1> QED BY <1>1, <1>3, <1>4, <1>5, <1>6, <1>7

\* and when one arrives.
LEMMA ChanShrinks ==
    ASSUME TypeOK, NEW c \in CSWorker, chan[c] # <<>>, chan'[c] = Tail(chan[c])
    PROVE  /\ Len(chan'[c]) \in Nat /\ Len(chan[c]) = Len(chan'[c]) + 1
           /\ DOMAIN chan'[c] = 1 .. Len(chan'[c]) /\ Head(chan[c]) = chan[c][1]
           /\ \A i \in 1 .. Len(chan'[c]) : i + 1 \in DOMAIN chan[c] /\ chan'[c][i] = chan[c][i + 1]
           /\ \A i \in 0 .. Len(chan'[c]) : \A name :
                 ComesBy(c, i + 1, name) <=> name = Head(chan[c]).name \/ ComesBy(c, i, name)'
           /\ \A name : Comes(c, name) <=> name = Head(chan[c]).name \/ Comes(c, name)'
           /\ chan'[c] = <<>> <=> Len(chan[c]) = 1
           /\ chan'[c] # <<>> => 1 \in DOMAIN chan'[c] /\ Head(chan'[c]) = chan'[c][1]
<1>1. PICK s, t : s = chan[c] /\ t = chan'[c]
  OBVIOUS
<1>2. s \in Seq(Posted) /\ s # <<>> /\ t = Tail(s)
  BY <1>1, ChanTypes
<1>3. /\ t \in Seq(Posted) /\ Len(t) \in Nat /\ Len(s) = Len(t) + 1 /\ DOMAIN t = 1 .. Len(t)
      /\ Head(s) = s[1] /\ DOMAIN s = 1 .. Len(t) + 1
  BY <1>2
<1>4. \A i \in 1 .. Len(t) : i + 1 \in DOMAIN s /\ t[i] = s[i + 1]
  BY <1>2, <1>3
<1>5. ASSUME NEW i \in 0 .. Len(t), NEW name
      PROVE  ComesBy(c, i + 1, name) <=> name = s[1].name \/ ComesBy(c, i, name)'
  <2>1. ComesBy(c, i + 1, name) <=> \E k \in 1 .. i + 1 : s[k].name = name
    BY <1>1 DEF ComesBy
  <2>2. ComesBy(c, i, name)' <=> \E k \in 1 .. i : t[k].name = name
    BY <1>1 DEF ComesBy
  <2>3. ASSUME NEW k \in 1 .. i + 1, s[k].name = name PROVE name = s[1].name \/ ComesBy(c, i, name)'
    <3>1. CASE k = 1
      BY <2>3, <3>1
    <3>2. CASE k # 1
      <4>1. k - 1 \in 1 .. i /\ k - 1 \in 1 .. Len(t) /\ (k - 1) + 1 = k
        BY <1>3, <3>2
      <4>2. t[k - 1].name = name
        BY <1>4, <2>3, <4>1
      <4> QED BY <2>2, <4>1, <4>2
    <3> QED BY <3>1, <3>2
  <2>4. ASSUME NEW k \in 1 .. i, t[k].name = name PROVE ComesBy(c, i + 1, name)
    <3>1. k + 1 \in 1 .. i + 1 /\ k \in 1 .. Len(t)
      BY <1>3
    <3> QED BY <1>4, <2>1, <2>4, <3>1
  <2>5. name = s[1].name => ComesBy(c, i + 1, name)
    <3>1. 1 \in 1 .. i + 1
      BY <1>3
    <3> QED BY <2>1, <3>1
  <2> QED BY <2>1, <2>2, <2>3, <2>4, <2>5
<1>6. ASSUME NEW name PROVE Comes(c, name) <=> name = s[1].name \/ Comes(c, name)'
  <2>1. Len(t) \in 0 .. Len(t)
    BY <1>3
  <2>2. ComesBy(c, Len(t) + 1, name) <=> name = s[1].name \/ ComesBy(c, Len(t), name)'
    BY <1>5, <2>1
  <2>3. ComesBy(c, Len(t), name)' <=> Comes(c, name)'
    BY <1>1 DEF Comes, ComesBy
  <2>4. ComesBy(c, Len(t) + 1, name) <=> Comes(c, name)
    BY <1>1, <1>3 DEF Comes, ComesBy
  <2> QED BY <2>2, <2>3, <2>4
<1>7. /\ t = <<>> <=> Len(s) = 1
      /\ t # <<>> => 1 \in DOMAIN t /\ Head(t) = t[1]
  BY <1>3
<1> QED BY <1>1, <1>3, <1>4, <1>5, <1>6, <1>7

-----------------------------------------------------------------------------
(* The asworker serves a request.                                          *)

\* The only csworker's request is answered, and unless it is refused a changelog leaves.
LEMMA Served ==
    ASSUME TypeOK, NEW c \in CSWorker, MovesAlone(c), Serve(c)
    PROVE  /\ request[c] # Nothing /\ request'[c] = Nothing
           /\ \A i \in DOMAIN chan[c] : ~Moves(chan[c][i])
           /\ names' = names /\ cursor' = cursor /\ csJournal' = csJournal /\ csSeq' = csSeq
           /\ ops' = ops /\ asSeq <= asSeq'
           /\ batch[c] = NoBatch => batch'[c] = NoBatch
           /\ \E reply : /\ batch[c] # NoBatch => batch'[c] = [batch[c] EXCEPT !.reply = reply]
                         /\ reply = "error" => request[c] = Edit
           /\ \/ request[c] = Edit /\ chan'[c] = chan[c]
              \/ \E m : /\ chan'[c] = Append(chan[c], m)
                        /\ \/ /\ request[c] = Edit /\ m.func = "do" /\ asSeq' = asSeq + 1
                              /\ m.name = AsName(asSeq + 1)
                           \/ m = request[c] /\ m.func = "mark"
                           \/ m = request[c] /\ m.func \in {"undo", "redo"} /\ chan[c] = <<>>
<1>1. request[c] # Nothing
  BY DEF Serve, EditSucceeds, EditChangesNothing, EditRefused, SetMark, AswUndo, AswRedo, Nothing, Edit
<1>2. \A i \in DOMAIN chan[c] : ~Moves(chan[c][i])
  BY <1>1 DEF MovesAlone
<1>3. ASSUME NEW reply, Respond(c, reply)
      PROVE  /\ request'[c] = Nothing
             /\ batch[c] = NoBatch => batch'[c] = NoBatch
             /\ batch[c] # NoBatch => batch'[c] = [batch[c] EXCEPT !.reply = reply]
  BY <1>3 DEF Respond, TypeOK
<1>4. ASSUME NEW m, Broadcast(m)
      PROVE  chan'[c] = Append(chan[c], m) /\ asSeq' = asSeq + 1 /\ asSeq <= asSeq'
  BY <1>4 DEF Broadcast, TypeOK
<1>5. asSeq <= asSeq
  BY DEF TypeOK
<1>6. CASE EditSucceeds(c)
  <2> DEFINE m == [func |-> "do", name |-> AsName(asSeq + 1), empty |-> FALSE]
  <2>1. /\ request[c] = Edit /\ Broadcast(m) /\ Respond(c, "ok")
        /\ UNCHANGED <<names, cursor, csJournal, csSeq, ops>>
    BY <1>6 DEF EditSucceeds, model, history
  <2>2. m.func = "do" /\ m.name = AsName(asSeq + 1)
    OBVIOUS
  <2> HIDE DEF m
  <2> QED BY <1>1, <1>2, <1>3, <1>4, <2>1, <2>2
<1>7. CASE EditChangesNothing(c)
  <2> DEFINE m == [func |-> "do", name |-> AsName(asSeq + 1), empty |-> TRUE]
  <2>1. /\ request[c] = Edit /\ Broadcast(m) /\ Respond(c, "ok")
        /\ UNCHANGED <<names, cursor, csJournal, csSeq, ops>>
    BY <1>7 DEF EditChangesNothing, model, history
  <2>2. m.func = "do" /\ m.name = AsName(asSeq + 1)
    OBVIOUS
  <2> HIDE DEF m
  <2> QED BY <1>1, <1>2, <1>3, <1>4, <2>1, <2>2
<1>8. CASE EditRefused(c)
  <2>1. /\ request[c] = Edit /\ Respond(c, "error") /\ asSeq' = asSeq /\ chan' = chan
        /\ UNCHANGED <<names, cursor, csJournal, csSeq, ops>>
    BY <1>8 DEF EditRefused, model, history
  <2> QED BY <1>1, <1>2, <1>3, <1>5, <2>1
<1>9. CASE SetMark(c) \/ AswUndo(c) \/ AswRedo(c)
  <2>1. /\ request[c].func \in {"mark", "undo", "redo"} /\ Broadcast(request[c]) /\ Respond(c, "ok")
        /\ UNCHANGED <<names, cursor, csJournal, csSeq, ops>>
    BY <1>9 DEF SetMark, AswUndo, AswRedo, model, history
  <2>2. request[c] # Edit /\ chan'[c] = Append(chan[c], request[c]) /\ asSeq <= asSeq'
    BY <2>1, <1>4 DEF Edit
  <2>3. /\ request'[c] = Nothing
        /\ batch[c] = NoBatch => batch'[c] = NoBatch
        /\ batch[c] # NoBatch => batch'[c] = [batch[c] EXCEPT !.reply = "ok"]
    BY <2>1, <1>3
  <2>4. \E reply : /\ batch[c] # NoBatch => batch'[c] = [batch[c] EXCEPT !.reply = reply]
                   /\ reply = "error" => request[c] = Edit
    BY <2>3
  <2>5. request[c].func \in {"undo", "redo"} => chan[c] = <<>>
    BY DEF MovesAlone, Moves
  <2> QED BY <1>1, <1>2, <2>1, <2>2, <2>3, <2>4, <2>5
<1> QED BY <1>6, <1>7, <1>8, <1>9 DEF Serve

\* A request has one of these forms.
LEMMA RequestKinds ==
    ASSUME TypeOK, NEW c \in CSWorker
    PROVE  /\ request[c].func = "none" <=> request[c] = Nothing
           /\ request[c].func = "edit" <=> request[c] = Edit
           /\ request[c].func \in {"none", "edit", "mark", "undo", "redo"}
           /\ request[c].func \in {"mark", "undo", "redo"} => request[c].name \in Name
           /\ request[c].func = "mark" => request[c] = Mark(request[c].name)
<1>1. request[c] \in Request
  BY DEF TypeOK
<1>2. CASE request[c] \in [func : {"mark", "undo", "redo"}, name : Name]
  <2>1. request[c].func = "mark" => request[c] = Mark(request[c].name)
    BY <1>2 DEF Mark
  <2> QED BY <1>2, <2>1 DEF Nothing, Edit
<1>3. CASE request[c] \in {Nothing, Edit}
  BY <1>3 DEF Nothing, Edit
<1> QED BY <1>1, <1>2, <1>3 DEF Request

\* What leaves is new.
LEMMA ServeNews ==
    ASSUME TypeOK, TypeOK', NEW c \in CSWorker, Story(c), Serve(c)
    PROVE  MovesAlone(c)' /\ NewsIsNew(c)'
<1>1. MovesAlone(c) /\ NamesInOrder(c) /\ NewsIsNew(c) /\ BatchIsMarked(c)
  BY DEF Story
<1>2. /\ request[c] # Nothing /\ request'[c] = Nothing
      /\ \A i \in DOMAIN chan[c] : ~Moves(chan[c][i])
      /\ names' = names /\ cursor' = cursor /\ csSeq' = csSeq /\ ops' = ops /\ asSeq <= asSeq'
  BY <1>1, Served
<1>3. /\ \A name : Knows(c, name)' <=> Knows(c, name)
      /\ \A name : Keeps(c, name)' <=> Keeps(c, name)
      /\ \A name \in Name : Given(c, name) => Given(c, name)'
  <2>1. csSeq[c] <= csSeq'[c] /\ ops <= ops'
    BY <1>2 DEF TypeOK
  <2>2. \A name : Keeps(c, name)' <=> Keeps(c, name)
    BY <1>2 DEF Keeps
  <2> QED BY <1>2, <2>1, <2>2, NamesStay
<1>4. request'[c].func \notin {"mark", "undo", "redo"}
  BY <1>2 DEF Nothing
<1>5. CASE chan'[c] = chan[c]
  <2>1. MovesAlone(c)'
    BY <1>2, <1>4, <1>5 DEF MovesAlone, Moves
  <2>2. ASSUME NEW i \in DOMAIN chan[c], Brings(chan[c][i])
        PROVE  Given(c, chan[c][i].name)'
    <3>1. PICK name \in Name : name = chan[c][i].name
      BY ChanTypes
    <3>2. Given(c, name)
      BY <1>1, <2>2, <3>1 DEF NewsIsNew
    <3>3. Given(c, name)'
      BY <1>3, <3>2
    <3> QED BY <1>5, <3>1, <3>3 DEF Given
  <2>3. NewsIsNew(c)'
    BY <1>1, <1>2, <1>4, <1>5, <2>2 DEF NewsIsNew, Knows, Keeps, ComesBy, StartOf, Given
  <2> QED BY <2>1, <2>3
<1>6. ASSUME NEW m, chan'[c] = Append(chan[c], m),
             \/ /\ request[c] = Edit /\ m.func = "do" /\ asSeq' = asSeq + 1
                /\ m.name = AsName(asSeq + 1)
             \/ m = request[c] /\ m.func = "mark"
             \/ m = request[c] /\ m.func \in {"undo", "redo"} /\ chan[c] = <<>>
      PROVE  MovesAlone(c)' /\ NewsIsNew(c)'
  <2>1. PICK n, name : n = Len(chan[c]) /\ name = m.name
    OBVIOUS
  <2>2. /\ n \in Nat /\ DOMAIN chan[c] = 1 .. n /\ DOMAIN chan'[c] = 1 .. n + 1 /\ Len(chan'[c]) = n + 1
        /\ chan'[c][n + 1] = m /\ \A i \in 1 .. n : chan'[c][i] = chan[c][i]
        /\ \A i \in 0 .. n : \A a : ComesBy(c, i, a)' <=> ComesBy(c, i, a)
        /\ \A i \in 1 .. n : chan[c][i].name \in Name
        /\ chan[c] = <<>> => n = 0
    BY <1>6, <2>1, ChanGrows, ChanTypes
  <2>3. \A i \in 1 .. n : ~Moves(chan'[c][i])
    BY <1>2, <2>2
  <2>4. Moves(m) => n = 0
    BY <1>6, <2>2 DEF Moves
  <2>5. MovesAlone(c)'
    <3>1. ASSUME NEW i \in 1 .. n + 1, Moves(chan'[c][i]) PROVE Len(chan'[c]) = 1
      <4>1. i = n + 1
        BY <2>2, <2>3, <3>1
      <4> QED BY <2>2, <2>4, <3>1, <4>1
    <3> QED BY <1>2, <1>4, <2>2, <3>1 DEF MovesAlone, Moves
  <2>6. ASSUME m.func \in {"do", "mark"}
        PROVE  /\ name \in Name /\ Given(c, name)' /\ ~Knows(c, name) /\ ~Comes(c, name)
               /\ m.func = "do" => name.kind = "as"
               /\ name.kind = "end" => Keeps(c, StartOf(name.n)) \/ Comes(c, StartOf(name.n))
    <3>1. CASE request[c] = Edit /\ m.func = "do" /\ asSeq' = asSeq + 1 /\ name = AsName(asSeq + 1)
      <4>1. name.kind = "as" /\ name.n = asSeq + 1 /\ asSeq \in Nat /\ name \in Name
        BY <3>1, Names DEF AsName, TypeOK
      <4>2. Given(c, name)' /\ ~Given(c, name)
        BY <3>1, <4>1 DEF Given
      <4>3. ~Knows(c, name)
        BY <1>1, <4>2 DEF Knows, NamesInOrder
      <4>4. ~Comes(c, name)
        <5>1. \A i \in 1 .. n : Brings(chan[c][i])
          BY <1>2, <2>1, <2>2, ChanTypes
        <5>2. \A i \in 1 .. n : Given(c, chan[c][i].name)
          BY <1>1, <2>2, <5>1 DEF NewsIsNew
        <5> QED BY <2>1, <4>2, <5>2 DEF Comes, ComesBy
      <4> QED BY <4>1, <4>2, <4>3, <4>4
    <3>2. CASE m = request[c] /\ m.func = "mark"
      <4>1. name \in Name /\ name = request[c].name
        BY <2>1, <3>2, RequestKinds
      <4>2. Given(c, name) /\ ~Knows(c, name) /\ ~Comes(c, name)
        BY <1>1, <3>2, <4>1 DEF NewsIsNew
      <4>3. name.kind = "end" => Keeps(c, StartOf(name.n)) \/ Comes(c, StartOf(name.n))
        <5>1. SUFFICES ASSUME name.kind = "end" PROVE Keeps(c, StartOf(name.n)) \/ Comes(c, StartOf(name.n))
          OBVIOUS
        <5>2. /\ batch[c] # NoBatch
              /\ \/ batch[c].step = 0 /\ name = StartOf(batch[c].id)
                 \/ batch[c].step = BatchLen + 1 /\ name = EndOf(batch[c].id)
          BY <1>1, <3>2, <4>1 DEF BatchIsMarked
        <5>3. batch[c].step = BatchLen + 1 /\ name.n = batch[c].id
          BY <5>1, <5>2 DEF StartOf, EndOf
        <5>4. batch[c].step <= BatchLen + 1 /\ batch[c].step # 0
          BY <5>3, Constants
        <5> QED BY <1>1, <5>2, <5>3, <5>4 DEF BatchIsMarked
      <4> QED BY <1>3, <3>2, <4>1, <4>2, <4>3
    <3> QED BY <1>6, <2>1, <2>6, <3>1, <3>2
  <2>7. ASSUME NEW i \in 1 .. n, Brings(chan'[c][i])
        PROVE  /\ Given(c, chan[c][i].name)' /\ ~Knows(c, chan[c][i].name)
               /\ ~ComesBy(c, i - 1, chan[c][i].name)
               /\ chan[c][i].func = "do" => chan[c][i].name.kind = "as"
               /\ chan[c][i].name.kind = "end" =>
                     \/ Keeps(c, StartOf(chan[c][i].name.n))
                     \/ ComesBy(c, i - 1, StartOf(chan[c][i].name.n))
    <3>1. PICK a \in Name : a = chan[c][i].name
      BY <2>2
    <3>2. Brings(chan[c][i]) /\ i \in DOMAIN chan[c]
      BY <2>2, <2>7
    <3>3. Given(c, a)
      BY <1>1, <3>1, <3>2 DEF NewsIsNew
    <3>4. Given(c, a)'
      BY <1>3, <3>3
    <3>5. Given(c, chan[c][i].name)'
      BY <3>1, <3>4, <1>6, <2>2 DEF Given
    <3> QED BY <1>1, <3>2, <3>5 DEF NewsIsNew
  <2>8. NewsIsNew(c)'
    <3> DEFINE New(i) ==
                  /\ Given(c, chan[c][i].name) /\ ~Knows(c, chan[c][i].name)
                  /\ ~ComesBy(c, i - 1, chan[c][i].name)
                  /\ chan[c][i].func = "do" => chan[c][i].name.kind = "as"
                  /\ chan[c][i].name.kind = "end" =>
                        \/ Keeps(c, StartOf(chan[c][i].name.n))
                        \/ ComesBy(c, i - 1, StartOf(chan[c][i].name.n))
    <3>1. ASSUME NEW i \in 1 .. n, Brings(chan'[c][i]) PROVE New(i)'
      <4>1. PICK a : a = chan[c][i].name /\ a = chan'[c][i].name /\ chan'[c][i] = chan[c][i]
        BY <2>2
      <4>2. i - 1 \in 0 .. n
        BY <2>2
      <4>3. \A b : ComesBy(c, i - 1, b)' <=> ComesBy(c, i - 1, b)
        BY <2>2, <4>2
      <4>4. Given(c, a)' /\ ~Knows(c, a)' /\ ~ComesBy(c, i - 1, a)'
        BY <1>3, <2>7, <3>1, <4>1, <4>3 DEF Given
      <4>5. a.kind = "end" => Keeps(c, StartOf(a.n))' \/ ComesBy(c, i - 1, StartOf(a.n))'
        BY <1>3, <2>7, <3>1, <4>1, <4>3
      <4> QED BY <2>7, <3>1, <4>1, <4>4, <4>5 DEF Given, Knows, ComesBy, Keeps, StartOf
    <3>2. ASSUME Brings(m) PROVE New(n + 1)'
      <4>1. (n + 1) - 1 = n /\ n \in 0 .. n
        BY <2>2
      <4>2. /\ Given(c, name)' /\ ~Knows(c, name) /\ ~Comes(c, name)
            /\ m.func = "do" => name.kind = "as"
            /\ name.kind = "end" => Keeps(c, StartOf(name.n)) \/ Comes(c, StartOf(name.n))
        BY <2>6, <3>2 DEF Brings
      <4>3. ~ComesBy(c, n, name)' /\ ~Knows(c, name)'
        BY <1>3, <2>1, <2>2, <4>1, <4>2 DEF Comes
      <4>4. name.kind = "end" => Keeps(c, StartOf(name.n))' \/ ComesBy(c, n, StartOf(name.n))'
        BY <1>3, <2>1, <2>2, <4>1, <4>2 DEF Comes
      <4>5. chan'[c][n + 1] = m /\ m.name = name
        BY <2>1, <2>2
      <4> QED BY <4>1, <4>2, <4>3, <4>4, <4>5 DEF Given, Knows, ComesBy, Keeps, StartOf
    <3>3. ASSUME NEW i \in DOMAIN chan'[c], Brings(chan'[c][i]) PROVE New(i)'
      <4>1. i \in 1 .. n \/ i = n + 1
        BY <2>2
      <4> QED BY <2>2, <3>1, <3>2, <3>3, <4>1
    <3>4. request'[c].func # "mark"
      BY <1>4
    <3> QED BY <3>3, <3>4 DEF NewsIsNew
  <2> QED BY <2>5, <2>8
<1> QED BY <1>1, <1>5, <1>6, Served

\* A batch has its checkpoints on their way, or will.
LEMMA ServeMarks ==
    ASSUME TypeOK, TypeOK', NEW c \in CSWorker, Story(c), Serve(c)
    PROVE  BatchIsMarked(c)'
<1>1. MovesAlone(c) /\ BatchIsMarked(c)
  BY DEF Story
<1>2. /\ request'[c] = Nothing /\ \A i \in DOMAIN chan[c] : ~Moves(chan[c][i])
      /\ names' = names /\ cursor' = cursor /\ ops' = ops
      /\ batch[c] = NoBatch => batch'[c] = NoBatch
  BY <1>1, Served
<1>3. \A name : Knows(c, name)' <=> Knows(c, name)
  BY <1>2 DEF Knows
<1>4. \A name : Keeps(c, name)' <=> Keeps(c, name)
  BY <1>2 DEF Keeps
<1>5. PICK reply : /\ batch[c] # NoBatch => batch'[c] = [batch[c] EXCEPT !.reply = reply]
                   /\ reply = "error" => request[c] = Edit
  BY <1>1, Served
<1>6. request'[c].func \notin {"mark", "undo", "redo"} /\ request'[c] # Edit
  BY <1>2 DEF Nothing, Edit
<1>7. CASE batch[c] = NoBatch
  BY <1>2, <1>6, <1>7 DEF BatchIsMarked
<1>8. CASE batch[c] # NoBatch
  <2>1. PICK b \in [id : 0 .. MaxOps, step : 0 .. BatchLen + 2, reply : {"none", "ok", "error"}] : b = batch[c]
    BY DEF TypeOK
  <2>2. batch'[c].id = b.id /\ batch'[c].step = b.step /\ batch'[c].reply = reply
    BY <1>5, <1>8, <2>1
  <2>3. b.id \in 1 .. ops /\ ops \in Nat
    BY <1>1, <1>8, <2>1, Constants DEF BatchIsMarked, TypeOK
  <2>4. batch'[c] # NoBatch
    BY <2>2, <2>3 DEF NoBatch
  <2>5. \A name : Comes(c, name) => Comes(c, name)'
    <3>1. CASE chan'[c] = chan[c]
      BY <3>1 DEF Comes, ComesBy
    <3>2. CASE \E m : chan'[c] = Append(chan[c], m)
      BY <3>2, ChanGrows
    <3> QED BY <1>1, <3>1, <3>2, Served
  <2>6. \A name : name.kind \in {"start", "end"} /\ Comes(c, name)' /\ ~Comes(c, name) =>
           \/ request[c].func = "mark" /\ name = request[c].name
           \/ request[c].func \in {"undo", "redo"}
    <3>1. CASE chan'[c] = chan[c]
      BY <3>1 DEF Comes, ComesBy
    <3>2. ASSUME NEW m, chan'[c] = Append(chan[c], m), request[c] = Edit, m.name = AsName(asSeq + 1)
          PROVE  \A name : name.kind \in {"start", "end"} /\ Comes(c, name)' => Comes(c, name)
      BY <3>2, ChanGrows DEF AsName
    <3>3. ASSUME NEW m, chan'[c] = Append(chan[c], m), m = request[c]
          PROVE  \A name : Comes(c, name)' => Comes(c, name) \/ name = request[c].name
      BY <3>3, ChanGrows
    <3> QED BY <1>1, <3>1, <3>2, <3>3, Served
  <2>7. b.step <= BatchLen + 1 => ~Moves(request[c])
    BY <1>1, <1>8, <2>1 DEF BatchIsMarked
  <2>8. b.step <= BatchLen + 1 => \A i \in DOMAIN chan'[c] : ~Moves(chan'[c][i])
    <3>1. CASE chan'[c] = chan[c]
      BY <1>2, <3>1
    <3>2. ASSUME NEW m, chan'[c] = Append(chan[c], m), ~Moves(m)
          PROVE  \A i \in DOMAIN chan'[c] : ~Moves(chan'[c][i])
      <4>1. PICK n : n = Len(chan[c])
        OBVIOUS
      <4>2. /\ DOMAIN chan[c] = 1 .. n /\ DOMAIN chan'[c] = 1 .. n + 1 /\ n \in Nat
            /\ chan'[c][n + 1] = m /\ \A i \in 1 .. n : chan'[c][i] = chan[c][i]
        BY <3>2, <4>1, ChanGrows, ChanTypes
      <4>3. \A i \in 1 .. n + 1 : i \in 1 .. n \/ i = n + 1
        BY <4>2
      <4> QED BY <1>2, <3>2, <4>2, <4>3
    <3>3. ASSUME NEW m, m.func = "do" PROVE ~Moves(m)
      BY <3>3 DEF Moves
    <3> QED BY <1>1, <2>7, <3>1, <3>2, <3>3, Served DEF Moves
  <2>9. b.step <= BatchLen => ~Knows(c, EndOf(b.id))' /\ ~Comes(c, EndOf(b.id))'
    <3>1. SUFFICES ASSUME b.step <= BatchLen PROVE ~Knows(c, EndOf(b.id))' /\ ~Comes(c, EndOf(b.id))'
      OBVIOUS
    <3>2. ~Knows(c, EndOf(b.id)) /\ ~Comes(c, EndOf(b.id))
      BY <1>1, <1>8, <2>1, <3>1 DEF BatchIsMarked
    <3>3. b.step <= BatchLen + 1 /\ b.step # BatchLen + 1
      BY <3>1, Constants
    <3>4. request[c].func \notin {"undo", "redo"}
      BY <2>7, <3>3 DEF Moves
    <3>5. request[c].func = "mark" => request[c].name = StartOf(b.id)
      BY <1>1, <1>8, <2>1, <3>3 DEF BatchIsMarked
    <3>6. EndOf(b.id).kind = "end" /\ EndOf(b.id) # StartOf(b.id)
      BY DEF EndOf, StartOf
    <3> QED BY <1>3, <2>6, <3>2, <3>4, <3>5, <3>6
  <2>10. b.step <= BatchLen + 1 => Keeps(c, StartOf(b.id))' \/ Comes(c, StartOf(b.id))'
    <3>1. SUFFICES ASSUME b.step <= BatchLen + 1 PROVE Keeps(c, StartOf(b.id))' \/ Comes(c, StartOf(b.id))'
      OBVIOUS
    <3>2. \/ Keeps(c, StartOf(b.id)) \/ Comes(c, StartOf(b.id))
          \/ request[c] = Mark(StartOf(b.id))
      BY <1>1, <1>8, <2>1, <3>1 DEF BatchIsMarked
    <3>3. CASE request[c] = Mark(StartOf(b.id))
      <4>1. request[c].func = "mark" /\ request[c].name = StartOf(b.id) /\ request[c] # Edit
        BY <3>3 DEF Mark, Edit
      <4>2. chan'[c] = Append(chan[c], request[c])
        BY <1>1, <4>1, Served
      <4> QED BY <4>1, <4>2, ChanGrows
    <3> QED BY <1>4, <2>5, <3>2, <3>3
  <2>11. batch'[c].reply = "error" => b.step \in 1 .. BatchLen
    BY <1>1, <1>5, <1>8, <2>1, <2>2 DEF BatchIsMarked
  <2> QED BY <1>2, <1>6, <2>2, <2>3, <2>4, <2>8, <2>9, <2>10, <2>11 DEF BatchIsMarked, StartOf, EndOf, Moves
<1> QED BY <1>7, <1>8

LEMMA ServeStory ==
    ASSUME TypeOK, TypeOK', NEW c \in CSWorker, Story(c), Serve(c)
    PROVE  Story(c)'
<1>1. MovesAlone(c) /\ NamesInOrder(c) /\ JournalFollows(c)
  BY DEF Story
<1>2. /\ request[c] # Nothing /\ request'[c] = Nothing /\ \A i \in DOMAIN chan[c] : ~Moves(chan[c][i])
      /\ names' = names /\ cursor' = cursor /\ csJournal' = csJournal /\ csSeq' = csSeq
      /\ ops' = ops /\ asSeq <= asSeq'
  BY <1>1, Served
<1>3. NamesInOrder(c)'
  <2>1. csSeq[c] <= csSeq'[c] /\ ops <= ops'
    BY <1>2 DEF TypeOK
  <2> QED BY <1>2, <2>1, NamesStay
<1>4. JournalFollows(c)'
  <2>1. CASE News(c)' = News(c)
    BY <1>1, <1>2, <2>1 DEF JournalFollows, UndoComes, RedoComes
  <2>2. CASE ~Moves(News(c)) /\ ~Moves(News(c)')
    BY <1>1, <1>2, <2>2 DEF JournalFollows, Moves
  <2>3. CASE chan'[c] = chan[c] /\ request[c] = Edit
    <3>1. ~Moves(Nothing) /\ ~Moves(Edit)
      BY DEF Moves, Nothing, Edit
    <3> QED BY <1>2, <2>1, <2>2, <2>3, <3>1 DEF News
  <2>4. ASSUME NEW m, chan'[c] = Append(chan[c], m),
               \/ request[c] = Edit /\ m.func = "do"
               \/ m = request[c]
        PROVE  JournalFollows(c)'
    <3>1. CASE chan[c] # <<>>
      <4>1. chan'[c] # <<>> /\ Head(chan'[c]) = Head(chan[c])
        BY <2>4, <3>1, ChanGrows
      <4> QED BY <2>1, <3>1, <4>1 DEF News
    <3>2. CASE chan[c] = <<>>
      <4>1. News(c) = request[c] /\ News(c)' = m
        BY <2>4, <3>2, ChanGrows DEF News
      <4>2. request[c] = Edit /\ m.func = "do" => ~Moves(News(c)) /\ ~Moves(News(c)')
        BY <4>1 DEF Moves, Edit
      <4> QED BY <2>1, <2>2, <2>4, <4>1, <4>2
    <3> QED BY <3>1, <3>2
  <2> QED BY <1>1, <2>3, <2>4, Served
<1> QED BY <1>3, <1>4, ServeNews, ServeMarks DEF Story

-----------------------------------------------------------------------------
(* The csworker applies a changelog.                                       *)

\* What it is, and what is left.
LEMMA ChangelogApplied ==
    ASSUME TypeOK, NEW c \in CSWorker, NEW func, Arrived(c, func)
    PROVE  /\ chan[c] # <<>> /\ News(c) = Head(chan[c]) /\ News(c).func = func /\ News(c).name \in Name
           /\ chan'[c] = Tail(chan[c]) /\ Head(chan[c]) = chan[c][1] /\ 1 \in DOMAIN chan[c]
           /\ UNCHANGED <<asJournal, asContent, asSeq, csSeq, batch, ops, request>>
<1>1. /\ chan[c] # <<>> /\ Head(chan[c]).func = func
      /\ chan' = [chan EXCEPT ![c] = Tail(@)]
      /\ UNCHANGED <<asJournal, asContent, asSeq, csSeq, batch, ops, request>>
  BY DEF Arrived, asw
<1>2. chan'[c] = Tail(chan[c])
  BY <1>1 DEF TypeOK
<1>3. Head(chan[c]).name \in Name /\ Head(chan[c]) = chan[c][1] /\ 1 \in DOMAIN chan[c]
  BY <1>1, ChanTypes
<1> QED BY <1>1, <1>2, <1>3 DEF News

\* Moves are still alone.
LEMMA ApplyMoves ==
    ASSUME TypeOK, NEW c \in CSWorker, MovesAlone(c), NEW func, Arrived(c, func)
    PROVE  /\ MovesAlone(c)'
           /\ Moves(Head(chan[c])) => chan'[c] = <<>> /\ request[c] = Nothing
           /\ ~Moves(News(c)')
           /\ (\A i \in DOMAIN chan[c] : ~Moves(chan[c][i])) => \A i \in DOMAIN chan'[c] : ~Moves(chan'[c][i])
<1>1. /\ chan[c] # <<>> /\ chan'[c] = Tail(chan[c]) /\ Head(chan[c]) = chan[c][1] /\ 1 \in DOMAIN chan[c]
      /\ request' = request
  BY ChangelogApplied
<1>2. PICK n : n = Len(chan'[c])
  OBVIOUS
<1>3. /\ n \in Nat /\ Len(chan[c]) = n + 1 /\ DOMAIN chan'[c] = 1 .. n
      /\ \A i \in 1 .. n : i + 1 \in DOMAIN chan[c] /\ chan'[c][i] = chan[c][i + 1]
      /\ chan'[c] = <<>> <=> n + 1 = 1
      /\ chan'[c] # <<>> => 1 \in DOMAIN chan'[c] /\ Head(chan'[c]) = chan'[c][1]
  BY <1>1, <1>2, ChanShrinks
<1>4. ASSUME NEW i \in 1 .. n PROVE ~Moves(chan'[c][i])
  <2>1. SUFFICES ASSUME Moves(chan[c][i + 1]) PROVE FALSE
    BY <1>3
  <2>2. Len(chan[c]) = 1
    BY <1>3, <2>1 DEF MovesAlone
  <2> QED BY <1>3, <2>2
<1>5. ~Moves(request[c])
  BY <1>1 DEF MovesAlone
<1>6. MovesAlone(c)'
  BY <1>1, <1>3, <1>4, <1>5 DEF MovesAlone, Moves
<1>7. Moves(Head(chan[c])) => chan'[c] = <<>> /\ request[c] = Nothing
  BY <1>1, <1>3 DEF MovesAlone
<1>8. ~Moves(News(c)')
  <2>1. CASE chan'[c] = <<>>
    BY <1>1, <1>5, <2>1 DEF News
  <2>2. CASE chan'[c] # <<>>
    BY <1>3, <1>4, <2>2 DEF News
  <2> QED BY <2>1, <2>2
<1> QED BY <1>3, <1>4, <1>6, <1>7, <1>8

\* What is left is new as well.
LEMMA ApplyNews ==
    ASSUME TypeOK, TypeOK', NEW c \in CSWorker, Story(c), NEW func, Arrived(c, func),
           NEW name, name = Head(chan[c]).name,
           \A n : Knows(c, n)' => Knows(c, n) \/ n = name,
           \A n : Keeps(c, n) => Keeps(c, n)',
           Brings(Head(chan[c])) => Keeps(c, name)'
    PROVE  NewsIsNew(c)'
<1>1. MovesAlone(c) /\ NewsIsNew(c)
  BY DEF Story
<1>2. /\ chan[c] # <<>> /\ chan'[c] = Tail(chan[c]) /\ Head(chan[c]) = chan[c][1] /\ 1 \in DOMAIN chan[c]
      /\ UNCHANGED <<asSeq, csSeq, ops, request>>
  BY ChangelogApplied
<1>3. PICK n : n = Len(chan'[c])
  OBVIOUS
<1>4. /\ n \in Nat /\ DOMAIN chan'[c] = 1 .. n /\ DOMAIN chan[c] = 1 .. Len(chan[c]) /\ Len(chan[c]) = n + 1
      /\ \A i \in 1 .. n : i + 1 \in DOMAIN chan[c] /\ chan'[c][i] = chan[c][i + 1]
      /\ \A i \in 0 .. n : \A a : ComesBy(c, i + 1, a) <=> a = name \/ ComesBy(c, i, a)'
      /\ \A a : Comes(c, a) <=> a = name \/ Comes(c, a)'
  BY <1>2, <1>3, ChanShrinks, ChanTypes
<1>5. ASSUME n > 0 PROVE Brings(Head(chan[c])) /\ Keeps(c, name)'
  <2>1. ~Moves(chan[c][1])
    BY <1>1, <1>2, <1>4, <1>5 DEF MovesAlone
  <2>2. Brings(chan[c][1])
    BY <1>2, <2>1, ChanTypes
  <2> QED BY <1>2, <2>2
<1> DEFINE New(i) ==
              /\ Given(c, chan[c][i].name) /\ ~Knows(c, chan[c][i].name)
              /\ ~ComesBy(c, i - 1, chan[c][i].name)
              /\ chan[c][i].func = "do" => chan[c][i].name.kind = "as"
              /\ chan[c][i].name.kind = "end" =>
                    \/ Keeps(c, StartOf(chan[c][i].name.n))
                    \/ ComesBy(c, i - 1, StartOf(chan[c][i].name.n))
<1>6. \A i \in DOMAIN chan[c] : Brings(chan[c][i]) => New(i)
  BY <1>1, SMTT(40) DEF NewsIsNew
<1>7. ASSUME NEW i \in DOMAIN chan'[c], Brings(chan'[c][i]) PROVE New(i)'
  <2>1. /\ i \in 1 .. n /\ i + 1 \in DOMAIN chan[c] /\ chan'[c][i] = chan[c][i + 1]
        /\ i - 1 \in 0 .. n /\ (i - 1) + 1 = i /\ (i + 1) - 1 = i /\ n > 0
    <3>1. i \in 1 .. n /\ n \in Nat
      BY <1>4, <1>7
    <3>2. i + 1 \in DOMAIN chan[c] /\ chan'[c][i] = chan[c][i + 1]
      BY <1>4, <3>1
    <3> QED BY <3>1, <3>2
  <2>2. PICK a : a = chan'[c][i].name /\ a = chan[c][i + 1].name
    BY <2>1
  <2>3. /\ Given(c, a) /\ ~Knows(c, a) /\ ~ComesBy(c, i, a)
        /\ chan'[c][i].func = "do" => a.kind = "as"
        /\ a.kind = "end" => Keeps(c, StartOf(a.n)) \/ ComesBy(c, i, StartOf(a.n))
    BY <1>6, <1>7, <2>1, <2>2
  <2>4. \A b : ComesBy(c, i, b) <=> b = name \/ ComesBy(c, i - 1, b)'
    BY <1>4, <2>1, SMTT(30)
  <2>5. ~Knows(c, a)' /\ ~ComesBy(c, i - 1, a)'
    BY <2>3, <2>4
  <2>6. a.kind = "end" => Keeps(c, StartOf(a.n))' \/ ComesBy(c, i - 1, StartOf(a.n))'
    BY <1>5, <2>1, <2>3, <2>4
  <2>7. Given(c, a)'
    BY <1>2, <2>3 DEF Given
  <2> QED BY <2>2, <2>3, <2>5, <2>6, <2>7 DEF Given, Knows, ComesBy, Keeps, StartOf
<1>8. request'[c].func = "mark" =>
         Given(c, request[c].name)' /\ ~Knows(c, request[c].name)' /\ ~Comes(c, request[c].name)'
  <2>1. SUFFICES ASSUME request[c].func = "mark"
                 PROVE  Given(c, request[c].name)' /\ ~Knows(c, request[c].name)' /\ ~Comes(c, request[c].name)'
    BY <1>2
  <2>2. PICK a : a = request[c].name /\ a = request'[c].name
    BY <1>2
  <2>3. Given(c, a) /\ ~Knows(c, a) /\ ~Comes(c, a)
    BY <1>1, <2>1, <2>2 DEF NewsIsNew
  <2>4. Given(c, a)' /\ ~Knows(c, a)' /\ ~Comes(c, a)'
    BY <1>2, <1>4, <2>3 DEF Given
  <2> QED BY <2>2, <2>4 DEF Given, Knows, Comes, ComesBy
<1> QED BY <1>7, <1>8 DEF NewsIsNew

\* A checkpoint that was on its way is kept.
LEMMA ApplyMarks ==
    ASSUME TypeOK, TypeOK', NEW c \in CSWorker, Story(c), NEW func, Arrived(c, func),
           NEW name, name = Head(chan[c]).name,
           \A n : Knows(c, n)' => Knows(c, n) \/ n = name,
           \A n : Keeps(c, n) => Keeps(c, n)',
           Brings(Head(chan[c])) => Keeps(c, name)',
           Moves(Head(chan[c])) => \A n : Knows(c, n)' => Knows(c, n)
    PROVE  BatchIsMarked(c)'
<1>1. MovesAlone(c) /\ BatchIsMarked(c)
  BY DEF Story
<1>2. /\ chan[c] # <<>> /\ chan'[c] = Tail(chan[c]) /\ Head(chan[c]) = chan[c][1] /\ 1 \in DOMAIN chan[c]
      /\ UNCHANGED <<asSeq, csSeq, ops, batch, request>>
  BY ChangelogApplied
<1>4. \A a : Comes(c, a) <=> a = name \/ Comes(c, a)'
  BY <1>2, ChanShrinks
<1>5. CASE batch[c] = NoBatch
  BY <1>1, <1>2, <1>5 DEF BatchIsMarked
<1>6. CASE batch[c] # NoBatch
  <2>1. PICK b : b = batch[c] /\ b = batch'[c]
    BY <1>2
  <2>2. b.step <= BatchLen => ~Knows(c, EndOf(b.id))' /\ ~Comes(c, EndOf(b.id))'
    <3>1. SUFFICES ASSUME b.step <= BatchLen PROVE ~Knows(c, EndOf(b.id))' /\ ~Comes(c, EndOf(b.id))'
      OBVIOUS
    <3>2. ~Knows(c, EndOf(b.id)) /\ ~Comes(c, EndOf(b.id))
      BY <1>1, <1>6, <2>1, <3>1 DEF BatchIsMarked
    <3> QED BY <1>4, <3>2
  <2>3. b.step <= BatchLen + 1 =>
           /\ \/ Keeps(c, StartOf(b.id))' \/ Comes(c, StartOf(b.id))'
              \/ b.step = 0 /\ request'[c] = Mark(StartOf(b.id))
           /\ ~Moves(request'[c]) /\ \A i \in DOMAIN chan'[c] : ~Moves(chan'[c][i])
    <3>1. SUFFICES ASSUME b.step <= BatchLen + 1
                   PROVE  /\ \/ Keeps(c, StartOf(b.id))' \/ Comes(c, StartOf(b.id))'
                             \/ b.step = 0 /\ request'[c] = Mark(StartOf(b.id))
                          /\ ~Moves(request'[c]) /\ \A i \in DOMAIN chan'[c] : ~Moves(chan'[c][i])
      OBVIOUS
    <3>2. /\ \/ Keeps(c, StartOf(b.id)) \/ Comes(c, StartOf(b.id))
             \/ b.step = 0 /\ request[c] = Mark(StartOf(b.id))
          /\ ~Moves(request[c]) /\ \A i \in DOMAIN chan[c] : ~Moves(chan[c][i])
      BY <1>1, <1>6, <2>1, <3>1 DEF BatchIsMarked
    <3>3. \A i \in DOMAIN chan'[c] : ~Moves(chan'[c][i])
      BY <1>1, <3>2, ApplyMoves
    <3>4. Keeps(c, name)'
      <4>1. Brings(chan[c][1])
        BY <1>2, <3>2, ChanTypes
      <4> QED BY <1>2, <4>1
    <3> QED BY <1>2, <1>4, <3>2, <3>3, <3>4
  <2> QED BY <1>1, <1>2, <1>6, <2>1, <2>2, <2>3 DEF BatchIsMarked, StartOf, EndOf, Moves
<1> QED BY <1>5, <1>6

\* A new name is recorded, in the list and in the journal.
LEMMA RecordedStory ==
    ASSUME TypeOK, TypeOK', NEW c \in CSWorker, Story(c),
           Arrived(c, "do") \/ Arrived(c, "mark"),
           NEW name \in Name, name = Head(chan[c]).name, Recorded(c, name),
           \/ csJournal'[c] = SetUserCheckpoint(csJournal[c], name)
           \/ csJournal'[c] = Done(SetUserCheckpoint(csJournal[c], name), name)
    PROVE  Story(c)'
<1>1. MovesAlone(c) /\ NamesInOrder(c) /\ NewsIsNew(c) /\ JournalFollows(c)
  BY DEF Story
<1>2. PICK func \in {"do", "mark"} : Arrived(c, func)
  OBVIOUS
<1>3. /\ chan[c] # <<>> /\ News(c) = Head(chan[c]) /\ News(c).func = func
      /\ Head(chan[c]) = chan[c][1] /\ 1 \in DOMAIN chan[c]
      /\ UNCHANGED <<asSeq, csSeq, batch, ops, request>>
  BY <1>2, ChangelogApplied
<1>4. Brings(Head(chan[c])) /\ ~Moves(Head(chan[c]))
  BY <1>3 DEF Brings, Moves
<1>5. /\ Given(c, name) /\ ~Knows(c, name)
      /\ name.kind = "end" => Keeps(c, StartOf(name.n)) \/ ComesBy(c, 1 - 1, StartOf(name.n))
  BY <1>1, <1>3, <1>4 DEF NewsIsNew
<1>6. name.kind = "end" => Keeps(c, StartOf(name.n))
  BY <1>5 DEF ComesBy
<1>7. Given(c, name)' /\ asSeq <= asSeq' /\ csSeq[c] <= csSeq'[c] /\ ops <= ops'
  BY <1>3, <1>5 DEF Given, TypeOK
<1>8. /\ NamesInOrder(c)'
      /\ \A n : Knows(c, n)' => Knows(c, n) \/ n = name
      /\ \A n : Keeps(c, n) => Keeps(c, n)'
      /\ Keeps(c, name)'
  BY <1>5, <1>6, <1>7, NamesGrow
<1>9. NewsIsNew(c)' /\ BatchIsMarked(c)'
  <2>1. NewsIsNew(c)'
    BY <1>2, <1>4, <1>8, ApplyNews
  <2>2. BatchIsMarked(c)'
    BY <1>2, <1>4, <1>8, ApplyMarks
  <2> QED BY <2>1, <2>2
<1>10. Marked(names'[c], cursor'[c], csJournal'[c])
  <2>1. Marked(names[c], cursor[c], csJournal[c])
    BY <1>1, <1>3, <1>4 DEF JournalFollows
  <2>2. /\ names[c] \in Seq(Name) /\ cursor[c] \in 0 .. Len(names[c])
        /\ csJournal[c] \in Journals(Entry)
    BY HereTypes
  <2>3. /\ cursor'[c] = cursor[c] + 1 /\ Len(names'[c]) = cursor[c] + 1
        /\ \A x \in 1 .. cursor[c] : names'[c][x] = names[c][x]
        /\ names'[c][cursor[c] + 1] = name
    BY RecordedTypes
  <2>4. names'[c] \in Seq(Name)
    BY DEF TypeOK
  <2>5. \A x \in DOMAIN names[c] : names[c][x] # name
    BY <1>5 DEF Knows
  <2>6. Marked(names'[c], cursor[c] + 1, SetUserCheckpoint(csJournal[c], name))
    BY <2>1, <2>2, <2>3, <2>4, <2>5, NewMark
  <2>7. Marked(names'[c], cursor[c] + 1, Done(SetUserCheckpoint(csJournal[c], name), name))
    BY <2>1, <2>2, <2>3, <2>4, <2>5, NewMarkDone
  <2> QED BY <2>3, <2>6, <2>7
<1>11. JournalFollows(c)' /\ MovesAlone(c)'
  <2>1. ~Moves(News(c)') /\ MovesAlone(c)'
    BY <1>1, <1>2, ApplyMoves
  <2> QED BY <1>10, <2>1 DEF JournalFollows, Moves
<1> QED BY <1>8, <1>9, <1>11 DEF Story

\* The journal goes to where the cursor is.
LEMMA MovedStory ==
    ASSUME TypeOK, TypeOK', NEW c \in CSWorker, Story(c),
           Arrived(c, "undo") \/ Arrived(c, "redo"), UNCHANGED history,
           Arrived(c, "undo") => csJournal'[c] = UndoneUntil(csJournal[c], Head(chan[c]).name),
           Arrived(c, "redo") => csJournal'[c] = RedoneUntil(csJournal[c], Head(chan[c]).name)
    PROVE  Story(c)'
<1>1. MovesAlone(c) /\ NamesInOrder(c) /\ JournalFollows(c)
  BY DEF Story
<1>2. PICK func \in {"undo", "redo"} : Arrived(c, func)
  OBVIOUS
<1>3. /\ chan[c] # <<>> /\ News(c) = Head(chan[c]) /\ News(c).func = func
      /\ UNCHANGED <<asSeq, csSeq, batch, ops, request>>
      /\ names' = names /\ cursor' = cursor
  BY <1>2, ChangelogApplied DEF history
<1>4. /\ NamesInOrder(c)' /\ \A n : Knows(c, n)' <=> Knows(c, n)
      /\ \A n : Keeps(c, n)' <=> Keeps(c, n)
  <2>1. asSeq <= asSeq' /\ csSeq[c] <= csSeq'[c] /\ ops <= ops'
    BY <1>3 DEF TypeOK
  <2>2. \A n : Keeps(c, n)' <=> Keeps(c, n)
    BY <1>3 DEF Keeps
  <2> QED BY <1>3, <2>1, <2>2, NamesStay
<1>5. NewsIsNew(c)' /\ BatchIsMarked(c)'
  <2>1. ~Brings(Head(chan[c]))
    BY <1>3 DEF Brings
  <2>2. PICK name : name = Head(chan[c]).name
    OBVIOUS
  <2>3. NewsIsNew(c)'
    BY <1>2, <1>4, <2>1, <2>2, ApplyNews
  <2>4. BatchIsMarked(c)'
    BY <1>2, <1>4, <2>1, <2>2, ApplyMarks
  <2> QED BY <2>3, <2>4
<1>6. /\ names[c] \in Seq(Name) /\ cursor[c] \in 0 .. Len(names[c]) /\ Len(names[c]) \in Nat
      /\ csJournal[c] \in Journals(Entry)
  BY HereTypes
<1>7. Marked(names[c], cursor[c], csJournal'[c])
  <2>1. CASE func = "undo"
    <3>1. csJournal'[c] = UndoneUntil(csJournal[c], News(c).name) /\ News(c).func = "undo"
      BY <1>2, <1>3, <2>1
    <3>2. PICK k \in cursor[c] + 1 .. Len(names[c]) :
             Marked(names[c], k, csJournal[c]) /\ names[c][cursor[c] + 1] = News(c).name
      BY <1>1, <3>1 DEF JournalFollows, UndoComes
    <3> DEFINE x == cursor[c] + 1
    <3>3. k \in 0 .. Len(names[c]) /\ x \in 1 .. k /\ x - 1 = cursor[c]
      BY <1>6
    <3> HIDE DEF x
    <3>4. Marked(names[c], x - 1, UndoneUntil(csJournal[c], names[c][x]))
      BY <1>6, <3>2, <3>3, MarksUndone
    <3> QED BY <3>1, <3>2, <3>3, <3>4 DEF x
  <2>2. CASE func = "redo"
    <3>1. csJournal'[c] = RedoneUntil(csJournal[c], News(c).name) /\ News(c).func = "redo"
      BY <1>2, <1>3, <2>2
    <3>2. PICK k \in 0 .. cursor[c] - 1 :
             Marked(names[c], k, csJournal[c]) /\ names[c][cursor[c]] = News(c).name
      BY <1>1, <3>1 DEF JournalFollows, RedoComes
    <3>3. k \in 0 .. Len(names[c]) /\ cursor[c] \in k + 1 .. Len(names[c])
      BY <1>6
    <3>4. Marked(names[c], cursor[c], RedoneUntil(csJournal[c], names[c][cursor[c]]))
      BY <1>6, <3>2, <3>3, MarksRedone
    <3> QED BY <3>1, <3>2, <3>4
  <2> QED BY <2>1, <2>2
<1>8. JournalFollows(c)' /\ MovesAlone(c)'
  <2>1. ~Moves(News(c)') /\ MovesAlone(c)'
    BY <1>1, <1>2, ApplyMoves
  <2> QED BY <1>3, <1>7, <2>1 DEF JournalFollows, Moves
<1> QED BY <1>4, <1>5, <1>8 DEF Story

LEMMA ApplyStory ==
    ASSUME TypeOK, TypeOK', NEW c \in CSWorker, Story(c), Apply(c)
    PROVE  Story(c)'
<1>1. DOMAIN csJournal = CSWorker
  BY DEF TypeOK
<1>2. CASE ApplyDo(c)
  <2>1. Arrived(c, "do")
    BY <1>2 DEF ApplyDo
  <2>2. PICK name \in Name : name = Head(chan[c]).name
    BY <2>1, ArrivedTypes, HeadTypes
  <2>3. /\ Recorded(c, name)
        /\ \/ csJournal' = [csJournal EXCEPT ![c] = SetUserCheckpoint(csJournal[c], name)]
           \/ csJournal' = [csJournal EXCEPT ![c] = Done(SetUserCheckpoint(csJournal[c], name), name)]
    BY <1>2, <2>2 DEF ApplyDo
  <2>4. \/ csJournal'[c] = SetUserCheckpoint(csJournal[c], name)
        \/ csJournal'[c] = Done(SetUserCheckpoint(csJournal[c], name), name)
    BY <1>1, <2>3
  <2> QED BY <2>1, <2>2, <2>3, <2>4, RecordedStory
<1>3. CASE ApplyMark(c)
  <2>1. Arrived(c, "mark")
    BY <1>3 DEF ApplyMark
  <2>2. PICK name \in Name : name = Head(chan[c]).name
    BY <2>1, ArrivedTypes, HeadTypes
  <2>3. /\ Recorded(c, name)
        /\ csJournal'[c] = SetUserCheckpoint(csJournal[c], name)
    BY <1>1, <1>3, <2>2 DEF ApplyMark
  <2> QED BY <2>1, <2>2, <2>3, RecordedStory
<1>4. ~(Arrived(c, "undo") /\ Arrived(c, "redo"))
  BY DEF Arrived
<1>5. CASE ApplyUndo(c)
  <2>1. /\ Arrived(c, "undo") /\ UNCHANGED history
        /\ csJournal'[c] = UndoneUntil(csJournal[c], Head(chan[c]).name)
    BY <1>5, UndoHereTypes DEF ApplyUndo
  <2> QED BY <1>4, <2>1, MovedStory
<1>6. CASE ApplyRedo(c)
  <2>1. /\ Arrived(c, "redo") /\ UNCHANGED history
        /\ csJournal'[c] = RedoneUntil(csJournal[c], Head(chan[c]).name)
    BY <1>6, RedoHereTypes DEF ApplyRedo
  <2> QED BY <1>4, <2>1, MovedStory
<1> QED BY <1>2, <1>3, <1>5, <1>6 DEF Apply

-----------------------------------------------------------------------------
(* The csworker handles requests of its clients, one after the other.      *)

\* A csworker that has nothing to apply and no answer to wait for has nothing under way.
LEMMA SettledFacts ==
    ASSUME TypeOK, NEW c \in CSWorker, Story(c), Settled(c), chan[c] = <<>>
    PROVE  /\ request[c] = Nothing /\ News(c) = Nothing
           /\ NamesInOrder(c) /\ BatchIsMarked(c)
           /\ Marked(names[c], cursor[c], csJournal[c])
           /\ \A x, y \in DOMAIN names[c] : names[c][x] = names[c][y] => x = y
<1>1. request[c] = Nothing /\ News(c) = Nothing
  BY DEF Settled, News
<1>2. NamesInOrder(c) /\ BatchIsMarked(c) /\ Marked(names[c], cursor[c], csJournal[c])
  BY <1>1 DEF Story, JournalFollows, Moves, Nothing
<1> QED BY <1>1, <1>2, HereTypes, MarkedOnce

\* What the next handler waits for, when that is nothing or a step of an undo or redo.
LEMMA NextNews ==
    ASSUME NEW c \in CSWorker, chan[c] = <<>>, chan' = chan
    PROVE  MovesAlone(c)' /\ News(c)' = request'[c]
  BY DEF MovesAlone, News

\* A local edit, whatever the batch.
LEMMA EditedHere ==
    ASSUME TypeOK, TypeOK', NEW c \in CSWorker, Story(c), Settled(c),
           \A i \in DOMAIN chan[c] : ~Moves(chan[c][i]),
           EditHere(c), UNCHANGED <<asSeq, chan, request>>, ops <= ops'
    PROVE  /\ NamesInOrder(c)' /\ NewsIsNew(c)'
           /\ \A n : Knows(c, n)' => Knows(c, n) \/ n = CsName(csSeq[c] + 1)
           /\ \A n : Keeps(c, n) => Keeps(c, n)'
           /\ Marked(names'[c], cursor'[c], csJournal'[c])
<1>1. PICK name : name = CsName(csSeq[c] + 1)
  OBVIOUS
<1>2. /\ name \in Name /\ csSeq[c] \in Nat /\ Recorded(c, name)
      /\ csJournal'[c] = Done(SetUserCheckpoint(csJournal[c], name), name)
  BY <1>1, EditHereTypes, HereTypes DEF EditHere
<1>3. csSeq'[c] = csSeq[c] + 1 /\ name.kind = "cs" /\ name.n = csSeq[c] + 1
  BY <1>1 DEF EditHere, TypeOK, CsName
<1>4. Given(c, name)' /\ ~Given(c, name)
  BY <1>2, <1>3 DEF Given
<1>5. NamesInOrder(c) /\ NewsIsNew(c) /\ Marked(names[c], cursor[c], csJournal[c])
  <2>1. ~Moves(News(c))
    <3>1. ~Moves(Nothing)
      BY DEF Moves, Nothing
    <3> QED BY <3>1, ChanTypes DEF News, Settled
  <2> QED BY <2>1 DEF Story, JournalFollows
<1>6. ~Knows(c, name)
  BY <1>4, <1>5 DEF Knows, NamesInOrder
<1>7. asSeq <= asSeq' /\ csSeq[c] <= csSeq'[c]
  BY <1>2, <1>3, SMTT(20), ZenonT(20) DEF TypeOK
<1>8. /\ NamesInOrder(c)'
      /\ \A n : Knows(c, n)' => Knows(c, n) \/ n = name
      /\ \A n : Keeps(c, n) => Keeps(c, n)'
  BY <1>2, <1>3, <1>4, <1>6, <1>7, NamesGrow
<1>9. Marked(names'[c], cursor'[c], csJournal'[c])
  <2>1. /\ names[c] \in Seq(Name) /\ cursor[c] \in 0 .. Len(names[c])
        /\ csJournal[c] \in Journals(Entry)
    BY HereTypes
  <2>2. /\ cursor'[c] = cursor[c] + 1 /\ Len(names'[c]) = cursor[c] + 1
        /\ \A x \in 1 .. cursor[c] : names'[c][x] = names[c][x]
        /\ names'[c][cursor[c] + 1] = name
    BY <1>2, RecordedTypes
  <2>3. names'[c] \in Seq(Name) /\ \A x \in DOMAIN names[c] : names[c][x] # name
    BY <1>6 DEF TypeOK, Knows
  <2>4. Marked(names'[c], cursor[c] + 1, Done(SetUserCheckpoint(csJournal[c], name), name))
    BY <1>2, <1>5, <2>1, <2>2, <2>3, NewMarkDone
  <2> QED BY <1>2, <2>2, <2>4
<1>10. NewsIsNew(c)'
  <2> DEFINE New(i) ==
                /\ Given(c, chan[c][i].name) /\ ~Knows(c, chan[c][i].name)
                /\ ~ComesBy(c, i - 1, chan[c][i].name)
                /\ chan[c][i].func = "do" => chan[c][i].name.kind = "as"
                /\ chan[c][i].name.kind = "end" =>
                      \/ Keeps(c, StartOf(chan[c][i].name.n))
                      \/ ComesBy(c, i - 1, StartOf(chan[c][i].name.n))
  <2>1. \A i \in DOMAIN chan[c] : Brings(chan[c][i]) => New(i)
    BY <1>5, SMTT(40) DEF NewsIsNew
  <2>2. ASSUME NEW i \in DOMAIN chan'[c], Brings(chan'[c][i]) PROVE New(i)'
    <3>1. PICK a : a = chan'[c][i].name /\ a = chan[c][i].name
      OBVIOUS
    <3>2. /\ Given(c, a) /\ ~Knows(c, a) /\ ~ComesBy(c, i - 1, a)
          /\ chan[c][i].func = "do" => a.kind = "as"
          /\ a.kind = "end" => Keeps(c, StartOf(a.n)) \/ ComesBy(c, i - 1, StartOf(a.n))
      BY <2>1, <2>2, <3>1
    <3>3. a \in Name
      BY <2>2, <3>1, ChanTypes
    <3>4. Given(c, a)'
      BY <1>7, <3>2, <3>3, GivenStays
    <3>5. ~Knows(c, a)'
      BY <1>4, <1>8, <3>2
    <3>6. ~ComesBy(c, i - 1, a)'
      BY <3>2 DEF ComesBy
    <3>7. a.kind = "end" => Keeps(c, StartOf(a.n))' \/ ComesBy(c, i - 1, StartOf(a.n))'
      BY <1>8, <3>2 DEF ComesBy
    <3> QED BY <3>1, <3>2, <3>4, <3>5, <3>6, <3>7 DEF Given, Knows, ComesBy, Keeps, StartOf
  <2>3. request'[c].func # "mark"
    BY DEF Settled, Nothing
  <2> QED BY <2>2, <2>3 DEF NewsIsNew
<1> QED BY <1>1, <1>8, <1>9, <1>10

\* The undo of a batch goes to its start checkpoint, if that is what __undoredo comes upon.
LEMMA UndoWholeStory ==
    ASSUME TypeOK, TypeOK', NEW c \in CSWorker, Story(c), Settled(c), chan[c] = <<>>,
           NEW b \in Nat, NEW from \in Int, from <= cursor[c], UndoWhole(c, b, from),
           LastMark(c, b, from) # 0 => names[c][LastMark(c, b, from)] = StartOf(b),
           names' = names, csJournal' = csJournal, chan' = chan
    PROVE  /\ MovesAlone(c)' /\ JournalFollows(c)'
           /\ request'[c].func \in {"none", "undo"} /\ request'[c] # Edit
<1>1. request[c] = Nothing /\ Marked(names[c], cursor[c], csJournal[c])
  BY SettledFacts
<1>2. MovesAlone(c)' /\ News(c)' = request'[c]
  BY <1>1, NextNews
<1>3. CASE LastMark(c, b, from) = 0
  <2>1. cursor' = cursor /\ request' = request
    BY <1>3 DEF UndoWhole
  <2> QED BY <1>1, <1>2, <2>1 DEF JournalFollows, Moves, Nothing, Edit
<1>4. CASE LastMark(c, b, from) # 0
  <2> DEFINE x == LastMark(c, b, from)
  <2>1. x \in 1 .. Len(names[c]) /\ x <= from /\ names[c][x] = StartOf(b)
    BY <1>4, LastMarkFacts
  <2>2. cursor' = [cursor EXCEPT ![c] = x - 1] /\ Ask(c, UndoRedo("undo", StartOf(b)))
    BY <1>4 DEF UndoWhole
  <2> HIDE DEF x
  <2>3. cursor'[c] = x - 1 /\ request'[c] = UndoRedo("undo", StartOf(b))
    BY <2>2 DEF Ask, TypeOK
  <2>4. cursor[c] \in Nat /\ cursor[c] <= Len(names[c]) /\ Len(names[c]) \in Nat
    BY HereTypes
  <2>5. UndoComes(c, StartOf(b))'
    <3>1. cursor[c] \in cursor'[c] + 1 .. Len(names[c]) /\ cursor'[c] + 1 = x
      BY <2>1, <2>3, <2>4
    <3> QED BY <1>1, <2>1, <3>1 DEF UndoComes, StartOf
  <2>6. /\ News(c)'.func = "undo" /\ News(c)'.name = StartOf(b)
        /\ request'[c].func = "undo" /\ request'[c] # Edit
    BY <1>2, <2>3 DEF UndoRedo, Edit
  <2> QED BY <1>2, <2>5, <2>6 DEF JournalFollows, Moves, UndoComes, StartOf
<1> QED BY <1>3, <1>4

\* Its redo goes past its end checkpoint.
LEMMA RedoWholeStory ==
    ASSUME TypeOK, TypeOK', NEW c \in CSWorker, Story(c), Settled(c), chan[c] = <<>>,
           NEW b \in Nat, NEW from \in Int, cursor[c] < from, RedoWhole(c, b, from),
           FirstMark(c, b, from) # 0 => names[c][FirstMark(c, b, from)] = EndOf(b),
           names' = names, csJournal' = csJournal, chan' = chan
    PROVE  /\ MovesAlone(c)' /\ JournalFollows(c)'
           /\ request'[c].func \in {"none", "redo"} /\ request'[c] # Edit
<1>1. request[c] = Nothing /\ Marked(names[c], cursor[c], csJournal[c])
  BY SettledFacts
<1>2. MovesAlone(c)' /\ News(c)' = request'[c]
  BY <1>1, NextNews
<1>3. CASE FirstMark(c, b, from) = 0
  <2>1. cursor' = cursor /\ request' = request
    BY <1>3 DEF RedoWhole
  <2> QED BY <1>1, <1>2, <2>1 DEF JournalFollows, Moves, Nothing, Edit
<1>4. CASE FirstMark(c, b, from) # 0
  <2> DEFINE x == FirstMark(c, b, from)
  <2>1. x \in 1 .. Len(names[c]) /\ from <= x /\ names[c][x] = EndOf(b)
    BY <1>4, FirstMarkFacts
  <2>2. cursor' = [cursor EXCEPT ![c] = x] /\ Ask(c, UndoRedo("redo", EndOf(b)))
    BY <1>4 DEF RedoWhole
  <2> HIDE DEF x
  <2>3. cursor'[c] = x /\ request'[c] = UndoRedo("redo", EndOf(b))
    BY <2>2 DEF Ask, TypeOK
  <2>4. cursor[c] \in Nat /\ cursor[c] <= Len(names[c]) /\ Len(names[c]) \in Nat
    BY HereTypes
  <2>5. RedoComes(c, EndOf(b))'
    <3>1. cursor[c] \in 0 .. cursor'[c] - 1
      BY <2>1, <2>3, <2>4
    <3> QED BY <1>1, <2>1, <2>3, <3>1 DEF RedoComes, EndOf
  <2>6. /\ News(c)'.func = "redo" /\ News(c)'.name = EndOf(b)
        /\ request'[c].func = "redo" /\ request'[c] # Edit
    BY <1>2, <2>3 DEF UndoRedo, Edit
  <2> QED BY <1>2, <2>5, <2>6 DEF JournalFollows, Moves, RedoComes, EndOf
<1> QED BY <1>3, <1>4

\* A checkpoint of a batch is the start or the end of it.
LEMMA MarkNames ==
    ASSUME NEW name \in Name, name.kind \in {"start", "end"}
    PROVE  /\ name.n \in Nat
           /\ name.kind = "start" => name = StartOf(name.n)
           /\ name.kind = "end" => name = EndOf(name.n)
  BY DEF Name, StartOf, EndOf

\* Looking back from a checkpoint of a batch, __undoredo comes upon the start of the batch.
LEMMA BackToStart ==
    ASSUME TypeOK, NEW c \in CSWorker, Story(c), Settled(c), chan[c] = <<>>,
           cursor[c] > 0, NEW b, Marks(names[c][cursor[c]], b),
           LastMark(c, b, cursor[c] - 1) # 0
    PROVE  names[c][LastMark(c, b, cursor[c] - 1)] = StartOf(b)
<1> DEFINE k == cursor[c]
           x == LastMark(c, b, cursor[c] - 1)
<1>1. /\ x \in 1 .. Len(names[c]) /\ x <= k - 1 /\ Marks(names[c][x], b)
      /\ k \in Nat /\ k \in 1 .. Len(names[c]) /\ DOMAIN names[c] = 1 .. Len(names[c])
  BY HereTypes, LastMarkFacts
<1>2. \A u, v \in DOMAIN names[c] : names[c][u] = names[c][v] => u = v
  BY SettledFacts
<1>3. \A y \in DOMAIN names[c] : names[c][y].kind = "end" =>
         \E z \in 1 .. y - 1 : names[c][z] = StartOf(names[c][y].n)
  BY SettledFacts DEF NamesInOrder
<1> HIDE DEF k, x
<1>4. SUFFICES ASSUME names[c][x] = EndOf(b) PROVE FALSE
  BY <1>1 DEF Marks, x
<1>5. PICK z \in 1 .. x - 1 : names[c][z] = StartOf(b)
  BY <1>1, <1>3, <1>4 DEF EndOf
<1>6. z \in DOMAIN names[c] /\ z < x /\ x < k /\ k \in DOMAIN names[c]
  BY <1>1, <1>5
<1>7. names[c][k] = names[c][x] \/ names[c][k] = names[c][z]
  BY <1>4, <1>5 DEF Marks, k
<1> QED BY <1>1, <1>2, <1>6, <1>7

\* Looking on from one, it comes upon the end.
LEMMA OnToEnd ==
    ASSUME TypeOK, NEW c \in CSWorker, Story(c), Settled(c), chan[c] = <<>>,
           cursor[c] < Len(names[c]), NEW b, Marks(names[c][cursor[c] + 1], b),
           FirstMark(c, b, cursor[c] + 2) # 0
    PROVE  names[c][FirstMark(c, b, cursor[c] + 2)] = EndOf(b)
<1> DEFINE k == cursor[c] + 1
           x == FirstMark(c, b, cursor[c] + 2)
<1>1. /\ x \in 1 .. Len(names[c]) /\ k + 1 <= x /\ Marks(names[c][x], b)
      /\ k \in Nat /\ k \in 1 .. Len(names[c]) /\ DOMAIN names[c] = 1 .. Len(names[c])
  BY HereTypes, FirstMarkFacts
<1>2. \A u, v \in DOMAIN names[c] : names[c][u] = names[c][v] => u = v
  BY SettledFacts
<1>3. \A y \in DOMAIN names[c] : names[c][y].kind = "end" =>
         \E z \in 1 .. y - 1 : names[c][z] = StartOf(names[c][y].n)
  BY SettledFacts DEF NamesInOrder
<1> HIDE DEF k, x
<1>4. SUFFICES ASSUME names[c][x] = StartOf(b) PROVE FALSE
  BY <1>1 DEF Marks, x
<1>5. CASE names[c][k] = StartOf(b)
  BY <1>1, <1>2, <1>4, <1>5
<1>6. CASE names[c][k] = EndOf(b)
  <2>1. PICK z \in 1 .. k - 1 : names[c][z] = StartOf(b)
    BY <1>1, <1>3, <1>6 DEF EndOf
  <2>2. z \in DOMAIN names[c] /\ z < x
    BY <1>1, <2>1
  <2> QED BY <1>1, <1>2, <1>4, <2>1, <2>2
<1> QED BY <1>5, <1>6 DEF Marks, k

\* What no batch is in progress for, and what changes no name.
LEMMA NoBatchStory ==
    ASSUME TypeOK, TypeOK', NEW c \in CSWorker, Story(c), names' = names,
           asSeq' = asSeq, csSeq' = csSeq, ops <= ops',
           batch[c] = NoBatch, batch' = batch, chan[c] = <<>>, chan' = chan,
           request'[c].func # "mark", JournalFollows(c)'
    PROVE  Story(c)'
<1>1. NamesInOrder(c)'
  <2>1. names'[c] = names[c] /\ asSeq <= asSeq' /\ csSeq[c] <= csSeq'[c]
    BY DEF TypeOK
  <2> QED BY <2>1, NamesStay
<1>2. BatchIsMarked(c)' /\ NewsIsNew(c)'
  BY DEF BatchIsMarked, NewsIsNew
<1> QED BY <1>1, <1>2, NextNews DEF Story

LEMMA ClientStory ==
    ASSUME TypeOK, TypeOK', NEW c \in CSWorker, Story(c), Patient, Client(c)
    PROVE  Story(c)'
<1>1. Settled(c) /\ batch[c] = NoBatch /\ ops' = ops + 1 /\ ops <= ops' /\ ops \in Nat
  <2>1. Asked(c)
    BY DEF Client, AskForEdit, LocalEdit, Undo, Redo, StartBatch
  <2> QED BY <2>1 DEF Asked, TypeOK
<1>2. /\ chan[c] = <<>> /\ request[c] = Nothing /\ News(c) = Nothing
      /\ NamesInOrder(c) /\ BatchIsMarked(c)
      /\ Marked(names[c], cursor[c], csJournal[c])
      /\ \A x, y \in DOMAIN names[c] : names[c][x] = names[c][y] => x = y
  <2>1. chan[c] = <<>>
    BY DEF Client, AskForEdit, LocalEdit, Undo, Redo, StartBatch, Asked
  <2> QED BY <1>1, <2>1, SettledFacts
<1>3. /\ names[c] \in Seq(Name) /\ cursor[c] \in Nat /\ cursor[c] <= Len(names[c])
      /\ Len(names[c]) \in Nat /\ DOMAIN names[c] = 1 .. Len(names[c])
      /\ csJournal[c] \in Journals(Entry)
      /\ \A x \in 1 .. Len(names[c]) : names[c][x] \in Name
  BY HereTypes
<1>4. chan' = chan /\ MovesAlone(c)' /\ News(c)' = request'[c]
  <2>1. chan' = chan
    BY DEF Client, AskForEdit, LocalEdit, Undo, Redo, StartBatch
  <2> QED BY <1>2, <2>1, NextNews
<1>5. CASE AskForEdit(c)
  <2>1. /\ request'[c] = Edit
        /\ UNCHANGED <<names, cursor, csJournal, asSeq, csSeq, batch>>
    BY <1>5 DEF AskForEdit, Ask, TypeOK, asw, model, history
  <2>2. JournalFollows(c)' /\ request'[c].func # "mark"
    BY <1>2, <1>4, <2>1 DEF JournalFollows, Moves, Edit
  <2> QED BY <1>1, <1>2, <1>4, <2>1, <2>2, NoBatchStory
<1>6. CASE LocalEdit(c)
  <2>1. EditHere(c) /\ UNCHANGED <<asSeq, request, batch>>
    BY <1>6 DEF LocalEdit, asw
  <2>2. NamesInOrder(c)' /\ NewsIsNew(c)' /\ Marked(names'[c], cursor'[c], csJournal'[c])
    BY <1>1, <1>2, <1>4, <2>1, EditedHere
  <2>3. News(c)' = Nothing
    BY <1>2, <1>4, <2>1
  <2>4. BatchIsMarked(c)' /\ JournalFollows(c)'
    <3>1. request'[c].func # "mark" /\ ~Moves(News(c)')
      BY <1>2, <2>1, <2>3 DEF Nothing, Moves
    <3> QED BY <1>1, <2>1, <2>2, <3>1 DEF BatchIsMarked, JournalFollows, Moves
  <2> QED BY <1>4, <2>2, <2>4 DEF Story
<1>7. CASE Undo(c)
  <2>1. PICK name : name = names[c][cursor[c]]
    OBVIOUS
  <2>2. /\ cursor[c] > 0 /\ cursor[c] \in 1 .. Len(names[c]) /\ name \in Name
        /\ UNCHANGED <<names, asSeq, csSeq, batch>>
    BY <1>3, <1>7, <2>1 DEF Undo, asw
  <2>3. JournalFollows(c)' /\ request'[c].func # "mark"
    <3>1. CASE cursor' = [cursor EXCEPT ![c] = @ - 1] /\ UndoHere(c, name) /\ UNCHANGED <<request, crashed>>
      <4>1. csJournal'[c] = UndoneUntil(csJournal[c], name)
        BY <3>1, UndoHereTypes
      <4>2. Marked(names[c], cursor[c] - 1, UndoneUntil(csJournal[c], names[c][cursor[c]]))
        <5>1. cursor[c] \in 0 .. Len(names[c]) /\ cursor[c] \in 1 .. cursor[c]
          BY <1>3, <2>2
        <5> QED BY <1>2, <1>3, <5>1, MarksUndone
      <4>3. cursor'[c] = cursor[c] - 1 /\ News(c)' = Nothing
        BY <1>2, <1>4, <3>1 DEF TypeOK
      <4> QED BY <1>2, <1>4, <2>1, <2>2, <4>1, <4>2, <4>3 DEF JournalFollows, Moves, Nothing
    <3>2. CASE /\ cursor' = [cursor EXCEPT ![c] = @ - 1] /\ Ask(c, UndoRedo("undo", name))
               /\ UNCHANGED <<csJournal, csContent, crashed>>
      <4>1. cursor'[c] = cursor[c] - 1 /\ request'[c] = UndoRedo("undo", name)
        BY <3>2 DEF TypeOK, Ask
      <4>2. News(c)'.func = "undo" /\ News(c)'.name = name
        BY <1>4, <4>1 DEF UndoRedo
      <4>3. UndoComes(c, name)'
        <5>1. cursor[c] \in cursor'[c] + 1 .. Len(names[c]) /\ cursor'[c] + 1 = cursor[c]
          BY <1>3, <2>2, <4>1
        <5> QED BY <1>2, <2>1, <2>2, <3>2, <5>1 DEF UndoComes
      <4> QED BY <1>4, <4>2, <4>3 DEF JournalFollows, Moves, UndoComes
    <3>3. CASE /\ name.kind \in {"start", "end"} /\ UndoWhole(c, name.n, cursor[c] - 1)
               /\ UNCHANGED <<csJournal, csContent>>
      <4>1. PICK b \in Nat, from \in Int : b = name.n /\ from = cursor[c] - 1
        BY <1>3, <2>2, <3>3, MarkNames
      <4>2. Marks(names[c][cursor[c]], b)
        BY <2>1, <2>2, <3>3, <4>1, MarkNames DEF Marks
      <4>3. LastMark(c, b, from) # 0 => names[c][LastMark(c, b, from)] = StartOf(b)
        BY <1>1, <1>2, <2>2, <4>1, <4>2, BackToStart
      <4>4. from <= cursor[c] /\ UndoWhole(c, b, from)
        BY <1>3, <3>3, <4>1
      <4> QED BY <1>1, <1>2, <1>4, <2>2, <3>3, <4>3, <4>4, UndoWholeStory
    <3> QED BY <1>7, <2>1, <3>1, <3>2, <3>3 DEF Undo
  <2> QED BY <1>1, <1>2, <1>4, <2>2, <2>3, NoBatchStory
<1>8. CASE Redo(c)
  <2>1. PICK name : name = names[c][cursor[c] + 1]
    OBVIOUS
  <2>2. /\ cursor[c] < Len(names[c]) /\ cursor[c] + 1 \in 1 .. Len(names[c]) /\ name \in Name
        /\ UNCHANGED <<names, asSeq, csSeq, batch>>
    BY <1>3, <1>8, <2>1 DEF Redo, asw
  <2>3. JournalFollows(c)' /\ request'[c].func # "mark"
    <3>1. CASE cursor' = [cursor EXCEPT ![c] = @ + 1] /\ RedoHere(c, name) /\ UNCHANGED <<request, crashed>>
      <4>1. csJournal'[c] = RedoneUntil(csJournal[c], name)
        BY <3>1, RedoHereTypes
      <4>2. Marked(names[c], cursor[c] + 1, RedoneUntil(csJournal[c], names[c][cursor[c] + 1]))
        <5>1. cursor[c] \in 0 .. Len(names[c]) /\ cursor[c] + 1 \in cursor[c] + 1 .. Len(names[c])
          BY <1>3, <2>2
        <5> QED BY <1>2, <1>3, <5>1, MarksRedone
      <4>3. cursor'[c] = cursor[c] + 1 /\ News(c)' = Nothing
        BY <1>2, <1>4, <3>1 DEF TypeOK
      <4> QED BY <1>2, <1>4, <2>1, <2>2, <4>1, <4>2, <4>3 DEF JournalFollows, Moves, Nothing
    <3>2. CASE /\ cursor' = [cursor EXCEPT ![c] = @ + 1] /\ Ask(c, UndoRedo("redo", name))
               /\ UNCHANGED <<csJournal, csContent, crashed>>
      <4>1. cursor'[c] = cursor[c] + 1 /\ request'[c] = UndoRedo("redo", name)
        BY <3>2 DEF TypeOK, Ask
      <4>2. News(c)'.func = "redo" /\ News(c)'.name = name
        BY <1>4, <4>1 DEF UndoRedo
      <4>3. RedoComes(c, name)'
        <5>1. cursor[c] \in 0 .. cursor'[c] - 1
          BY <1>3, <2>2, <4>1
        <5> QED BY <1>2, <2>1, <2>2, <3>2, <4>1, <5>1 DEF RedoComes
      <4> QED BY <1>4, <4>2, <4>3 DEF JournalFollows, Moves, RedoComes
    <3>3. CASE /\ name.kind \in {"start", "end"} /\ RedoWhole(c, name.n, cursor[c] + 2)
               /\ UNCHANGED <<csJournal, csContent>>
      <4>1. PICK b \in Nat, from \in Int : b = name.n /\ from = cursor[c] + 2
        BY <1>3, <2>2, <3>3, MarkNames
      <4>2. Marks(names[c][cursor[c] + 1], b)
        BY <2>1, <2>2, <3>3, <4>1, MarkNames DEF Marks
      <4>3. FirstMark(c, b, from) # 0 => names[c][FirstMark(c, b, from)] = EndOf(b)
        BY <1>1, <1>2, <2>2, <4>1, <4>2, OnToEnd
      <4>4. cursor[c] < from /\ RedoWhole(c, b, from)
        BY <1>3, <3>3, <4>1
      <4> QED BY <1>1, <1>2, <1>4, <2>2, <3>3, <4>3, <4>4, RedoWholeStory
    <3> QED BY <1>8, <2>1, <3>1, <3>2, <3>3 DEF Redo
  <2> QED BY <1>1, <1>2, <1>4, <2>2, <2>3, NoBatchStory
<1>9. CASE StartBatch(c)
  <2>1. PICK id : id = ops + 1
    OBVIOUS
  <2>2. /\ batch'[c] = [id |-> id, step |-> 0, reply |-> "none"]
        /\ request'[c] = Mark(StartOf(id))
        /\ UNCHANGED <<names, cursor, csJournal, asSeq, csSeq>>
    BY <1>9, <2>1 DEF StartBatch, Ask, TypeOK, asw, model, history
  <2>3. NamesInOrder(c)' /\ \A name : Knows(c, name)' <=> Knows(c, name)
    <3>1. names'[c] = names[c] /\ asSeq <= asSeq' /\ csSeq[c] <= csSeq'[c]
      BY <2>2 DEF TypeOK
    <3> QED BY <1>1, <3>1, NamesStay
  <2>4. News(c)'.func = "mark" /\ News(c)'.name = StartOf(id)
    BY <1>4, <2>2 DEF Mark
  <2>5. ~Given(c, StartOf(id)) /\ ~Given(c, EndOf(id)) /\ Given(c, StartOf(id))'
    BY <1>1, <2>1 DEF Given, StartOf, EndOf
  <2>6. ~Knows(c, StartOf(id))' /\ ~Knows(c, EndOf(id))'
    <3>1. \A name : Knows(c, name) => Given(c, name)
      BY <1>2 DEF Knows, NamesInOrder
    <3> QED BY <2>3, <2>5, <3>1, Zenon
  <2>7. NewsIsNew(c)'
    <3>1. request'[c].func = "mark" /\ request'[c].name = StartOf(id) /\ chan'[c] = <<>>
      BY <1>2, <1>4, <2>2 DEF Mark
    <3>2. DOMAIN chan'[c] = {} /\ ~Comes(c, StartOf(id))'
      BY <3>1 DEF Comes, ComesBy
    <3> QED BY <2>5, <2>6, <3>1, <3>2 DEF NewsIsNew, Given, Knows, Comes, ComesBy, StartOf
  <2>8. BatchIsMarked(c)'
    <3>1. id \in 1 .. ops' /\ batch'[c] # NoBatch /\ batch'[c].id = id /\ batch'[c].step = 0
      BY <1>1, <2>1, <2>2 DEF NoBatch
    <3>2. batch'[c].reply # "error" /\ request'[c] # Edit
      BY <2>2 DEF Mark, Edit
    <3>3. chan'[c] = <<>> /\ DOMAIN chan'[c] = {} /\ ~Comes(c, EndOf(id))'
      BY <1>2, <1>4 DEF Comes, ComesBy
    <3>4. request'[c].func = "mark" /\ request'[c].name = StartOf(id) /\ ~Moves(request'[c])
      BY <2>2 DEF Mark, Moves
    <3> QED BY <2>2, <2>6, <3>1, <3>2, <3>3, <3>4 DEF BatchIsMarked, StartOf, EndOf, Knows, Comes, ComesBy, Moves
  <2>9. JournalFollows(c)'
    BY <1>2, <2>2, <2>4 DEF JournalFollows, Moves
  <2> QED BY <1>4, <2>3, <2>7, <2>8, <2>9 DEF Story
<1> QED BY <1>5, <1>6, <1>7, <1>8, <1>9 DEF Client

\* A step of the handler that leaves the list and the journal alone, and moves nothing.
LEMMA QuietStory ==
    ASSUME TypeOK, TypeOK', NEW c \in CSWorker, Story(c), request[c] = Nothing,
           UNCHANGED <<names, cursor, csJournal, csSeq, asSeq, chan, ops>>,
           \/ request'[c] = Nothing
           \/ ~Moves(request'[c]) /\ \A i \in DOMAIN chan[c] : ~Moves(chan[c][i])
    PROVE  /\ NamesInOrder(c)' /\ MovesAlone(c)' /\ JournalFollows(c)'
           /\ \A n : (Knows(c, n)' <=> Knows(c, n)) /\ (Keeps(c, n)' <=> Keeps(c, n))
                     /\ (Comes(c, n)' <=> Comes(c, n)) /\ (Given(c, n)' <=> Given(c, n))
           /\ (request'[c].func = "mark" => \E n : /\ n = request'[c].name
                                                  /\ Given(c, n) /\ ~Knows(c, n) /\ ~Comes(c, n))
              => NewsIsNew(c)'
<1>1. MovesAlone(c) /\ NamesInOrder(c) /\ NewsIsNew(c) /\ JournalFollows(c)
  BY DEF Story
<1>2. \A n : (Knows(c, n)' <=> Knows(c, n)) /\ (Keeps(c, n)' <=> Keeps(c, n))
             /\ (Comes(c, n)' <=> Comes(c, n)) /\ (Given(c, n)' <=> Given(c, n))
  BY DEF Knows, Keeps, Comes, ComesBy, Given
<1>3. NamesInOrder(c)'
  BY <1>1 DEF NamesInOrder, Given
<1>4. MovesAlone(c)'
  <2>1. ~Moves(Nothing)
    BY DEF Moves, Nothing
  <2> QED BY <1>1, <2>1 DEF MovesAlone, Moves
<1>5. JournalFollows(c)'
  <2>1. CASE request'[c] = Nothing
    <3>1. News(c)' = News(c)
      BY <2>1 DEF News
    <3> QED BY <1>1, <3>1 DEF JournalFollows, UndoComes, RedoComes, Moves
  <2>2. CASE ~Moves(request'[c]) /\ \A i \in DOMAIN chan[c] : ~Moves(chan[c][i])
    <3>1. ~Moves(News(c)) /\ ~Moves(News(c)')
      <4>1. ~Moves(Nothing)
        BY DEF Moves, Nothing
      <4> QED BY <2>2, <4>1, ChanTypes DEF News
    <3> QED BY <1>1, <3>1 DEF JournalFollows, Moves
  <2> QED BY <2>1, <2>2
<1>6. ASSUME request'[c].func = "mark" => \E n : /\ n = request'[c].name
                                                /\ Given(c, n) /\ ~Knows(c, n) /\ ~Comes(c, n)
      PROVE  NewsIsNew(c)'
  <2> DEFINE New(i) ==
                /\ Given(c, chan[c][i].name) /\ ~Knows(c, chan[c][i].name)
                /\ ~ComesBy(c, i - 1, chan[c][i].name)
                /\ chan[c][i].func = "do" => chan[c][i].name.kind = "as"
                /\ chan[c][i].name.kind = "end" =>
                      \/ Keeps(c, StartOf(chan[c][i].name.n))
                      \/ ComesBy(c, i - 1, StartOf(chan[c][i].name.n))
  <2>1. \A i \in DOMAIN chan[c] : Brings(chan[c][i]) => New(i)
    BY <1>1, SMTT(40) DEF NewsIsNew
  <2>2. ASSUME NEW i \in DOMAIN chan'[c], Brings(chan'[c][i]) PROVE New(i)'
    <3>1. New(i)
      BY <2>1, <2>2
    <3> QED BY <3>1 DEF Given, Knows, ComesBy, Keeps, StartOf
  <2>3. request'[c].func = "mark" =>
           Given(c, request[c].name)' /\ ~Knows(c, request[c].name)' /\ ~Comes(c, request[c].name)'
    <3>1. SUFFICES ASSUME request'[c].func = "mark"
                   PROVE  Given(c, request[c].name)' /\ ~Knows(c, request[c].name)' /\ ~Comes(c, request[c].name)'
      OBVIOUS
    <3>2. PICK n : n = request'[c].name /\ Given(c, n) /\ ~Knows(c, n) /\ ~Comes(c, n)
      BY <1>6, <3>1
    <3> QED BY <3>2 DEF Given, Knows, Comes, ComesBy
  <2> QED BY <2>2, <2>3 DEF NewsIsNew
<1> QED BY <1>2, <1>3, <1>4, <1>5, <1>6

\* A batchEdit goes on.  Its rollback finds its start checkpoint if its changelogs are applied.
LEMMA BatchStory ==
    ASSUME TypeOK, TypeOK', NEW c \in CSWorker, Story(c), Batch(c), "rollback" \notin early'
    PROVE  Story(c)'
<1> DEFINE b == batch[c]
<1>1. /\ Settled(c) /\ request[c] = Nothing /\ b # NoBatch /\ UNCHANGED <<asSeq, chan, ops>>
  <2>1. Settled(c) /\ b.reply # "none" /\ UNCHANGED <<asw, chan, ops>>
    BY DEF Batch, NextEdit, LastEditDone, EndBatch, Rollback, GotReply
  <2> QED BY <2>1 DEF NoBatch, asw, Settled
<1>2. MovesAlone(c) /\ NamesInOrder(c) /\ NewsIsNew(c) /\ BatchIsMarked(c)
  BY DEF Story
<1>3. PICK id, step : id = b.id /\ step = b.step
  OBVIOUS
<1>4. /\ id \in 1 .. ops /\ step \in 0 .. BatchLen + 2 /\ BatchLen \in Nat /\ ops \in Nat
      /\ step <= BatchLen => ~Knows(c, EndOf(id)) /\ ~Comes(c, EndOf(id))
      /\ step <= BatchLen + 1 => /\ Keeps(c, StartOf(id)) \/ Comes(c, StartOf(id))
                                 /\ \A i \in DOMAIN chan[c] : ~Moves(chan[c][i])
      /\ b.reply = "error" => step \in 1 .. BatchLen
  <2>1. b.step \in 0 .. BatchLen + 2 /\ ops \in 0 .. MaxOps
    <3>1. /\ batch \in [CSWorker -> [id : 0 .. MaxOps, step : 0 .. BatchLen + 2,
                                    reply : {"none", "ok", "error"}]]
          /\ ops \in 0 .. MaxOps
      BY DEF TypeOK
    <3>2. batch[c] \in [id : 0 .. MaxOps, step : 0 .. BatchLen + 2, reply : {"none", "ok", "error"}]
      BY <3>1, Zenon
    <3> QED BY <3>1, <3>2
  <2>2. step \in 0 .. BatchLen + 2 /\ BatchLen \in Nat /\ ops \in Nat
    <3>1. BatchLen \in Nat /\ MaxOps \in Nat
      BY Constants
    <3> HIDE DEF b
    <3> QED BY <1>3, <2>1, <3>1
  <2>3. request[c] # Mark(StartOf(id))
    BY <1>1 DEF Nothing, Mark
  <2> QED BY <1>1, <1>2, <1>3, <2>2, <2>3 DEF BatchIsMarked
<1>5. ASSUME NEW k, NEW reply, ToStep(c, k, reply)
      PROVE  /\ batch'[c] # NoBatch /\ batch'[c].id = id
             /\ batch'[c].step = k /\ batch'[c].reply = reply
  <2>1. b \in [id : 0 .. MaxOps, step : 0 .. BatchLen + 2, reply : {"none", "ok", "error"}]
    BY DEF TypeOK
  <2>2. batch'[c] = [b EXCEPT !.step = k, !.reply = reply]
    BY <1>5 DEF ToStep, TypeOK
  <2>3. batch'[c].id = b.id /\ batch'[c].step = k /\ batch'[c].reply = reply
    BY <2>1, <2>2
  <2> QED BY <1>3, <1>4, <2>3 DEF NoBatch
<1> HIDE DEF b
<1>6. \A n : Comes(c, n)' <=> Comes(c, n)
  BY <1>1 DEF Comes, ComesBy
<1>7. CASE NextEdit(c)
  <2>1. step < BatchLen
    BY <1>3, <1>7 DEF NextEdit, b
  <2>2. /\ step <= BatchLen /\ step <= BatchLen + 1 /\ step + 1 \in 1 .. BatchLen /\ ops' = ops
        /\ \A i \in DOMAIN chan'[c] : ~Moves(chan'[c][i])
    BY <1>1, <1>4, <2>1
  <2>3. CASE ToStep(c, batch[c].step + 1, "none") /\ Ask(c, Edit) /\ UNCHANGED <<model, history>>
    <3>1. /\ request'[c] = Edit /\ request'[c].func = "edit" /\ ~Moves(request'[c])
          /\ UNCHANGED <<names, cursor, csJournal, csSeq>>
      BY <2>3 DEF Ask, TypeOK, model, history, Edit, Moves
    <3>2. /\ batch'[c] # NoBatch /\ batch'[c].id = id
          /\ batch'[c].step = step + 1 /\ batch'[c].reply = "none"
      BY <1>3, <1>5, <2>3 DEF b
    <3>3. /\ NamesInOrder(c)' /\ MovesAlone(c)' /\ JournalFollows(c)' /\ NewsIsNew(c)'
          /\ \A n : (Knows(c, n)' <=> Knows(c, n)) /\ (Keeps(c, n)' <=> Keeps(c, n))
      BY <1>1, <1>4, <2>2, <3>1, QuietStory
    <3>4. BatchIsMarked(c)'
      <4>1. /\ Keeps(c, StartOf(id))' \/ Comes(c, StartOf(id))'
            /\ ~Knows(c, EndOf(id))' /\ ~Comes(c, EndOf(id))'
        BY <1>4, <1>6, <2>2, <3>3
      <4> QED BY <1>4, <2>2, <3>1, <3>2, <4>1 DEF BatchIsMarked, StartOf, EndOf, Moves
    <3> QED BY <3>3, <3>4 DEF Story
  <2>4. CASE ToStep(c, batch[c].step + 1, "ok") /\ EditHere(c) /\ UNCHANGED request
    <3>1. request'[c] = Nothing /\ request'[c].func = "none" /\ ~Moves(request'[c]) /\ request'[c] # Edit
      BY <1>1, <2>4 DEF Nothing, Moves, Edit
    <3>2. /\ batch'[c] # NoBatch /\ batch'[c].id = id
          /\ batch'[c].step = step + 1 /\ batch'[c].reply = "ok"
      BY <1>3, <1>5, <2>4 DEF b
    <3>3. /\ NamesInOrder(c)' /\ NewsIsNew(c)'
          /\ \A n : Knows(c, n)' => Knows(c, n) \/ n = CsName(csSeq[c] + 1)
          /\ \A n : Keeps(c, n) => Keeps(c, n)'
          /\ Marked(names'[c], cursor'[c], csJournal'[c])
      <4>1. ops <= ops' /\ UNCHANGED <<asSeq, chan, request>>
        BY <1>1, <1>4, <2>2, <2>4
      <4> QED BY <1>1, <1>4, <2>2, <2>4, <4>1, EditedHere
    <3>4. /\ Keeps(c, StartOf(id))' \/ Comes(c, StartOf(id))'
          /\ ~Knows(c, EndOf(id))' /\ ~Comes(c, EndOf(id))'
      <4>1. EndOf(id) # CsName(csSeq[c] + 1)
        BY DEF EndOf, CsName
      <4> QED BY <1>4, <1>6, <2>2, <3>3, <4>1
    <3>5. BatchIsMarked(c)'
      BY <1>4, <2>2, <3>1, <3>2, <3>4 DEF BatchIsMarked, StartOf, EndOf, Moves
    <3>6. MovesAlone(c)' /\ JournalFollows(c)'
      <4>1. ~Moves(News(c)') /\ MovesAlone(c)'
        <5>1. chan'[c] # <<>> => 1 \in DOMAIN chan'[c] /\ Head(chan'[c]) = chan'[c][1]
          BY <1>1, ChanTypes
        <5> QED BY <2>2, <3>1, <5>1 DEF News, MovesAlone
      <4> QED BY <3>3, <4>1 DEF JournalFollows, Moves
    <3> QED BY <3>3, <3>5, <3>6 DEF Story
  <2> QED BY <1>7, <2>3, <2>4 DEF NextEdit
<1>8. CASE LastEditDone(c)
  <2>1. /\ step = BatchLen /\ request'[c] = Mark(EndOf(id))
        /\ UNCHANGED <<names, cursor, csJournal, csSeq>>
    BY <1>3, <1>8 DEF LastEditDone, Ask, TypeOK, model, history, b
  <2>2. /\ step <= BatchLen /\ step <= BatchLen + 1 /\ ops' = ops /\ ~(BatchLen + 1 <= BatchLen)
        /\ BatchLen + 1 # 0
        /\ \A i \in DOMAIN chan'[c] : ~Moves(chan'[c][i])
    BY <1>1, <1>4, <2>1
  <2>3. /\ batch'[c] # NoBatch /\ batch'[c].id = id
        /\ batch'[c].step = BatchLen + 1 /\ batch'[c].reply = "none"
    BY <1>5, <1>8 DEF LastEditDone
  <2>4. request'[c].func = "mark" /\ request'[c].name = EndOf(id) /\ ~Moves(request'[c]) /\ request'[c] # Edit
    BY <2>1 DEF Mark, Moves, Edit
  <2>5. Given(c, EndOf(id)) /\ ~Knows(c, EndOf(id)) /\ ~Comes(c, EndOf(id))
    BY <1>4, <2>2 DEF Given, EndOf
  <2>6. /\ NamesInOrder(c)' /\ MovesAlone(c)' /\ JournalFollows(c)' /\ NewsIsNew(c)'
        /\ \A n : (Knows(c, n)' <=> Knows(c, n)) /\ (Keeps(c, n)' <=> Keeps(c, n))
    BY <1>1, <1>4, <2>1, <2>2, <2>4, <2>5, QuietStory
  <2>7. BatchIsMarked(c)'
    <3>1. Keeps(c, StartOf(id))' \/ Comes(c, StartOf(id))'
      BY <1>4, <1>6, <2>2, <2>6
    <3> QED BY <1>4, <2>2, <2>3, <2>4, <3>1 DEF BatchIsMarked, StartOf, EndOf, Moves
  <2> QED BY <2>6, <2>7 DEF Story
<1>9. CASE EndBatch(c)
  <2>1. /\ batch'[c] = NoBatch /\ request' = request
        /\ UNCHANGED <<names, cursor, csJournal, csSeq>>
    BY <1>9 DEF EndBatch, TypeOK, model, history
  <2>2. request'[c] = Nothing /\ request'[c].func # "mark"
    BY <1>1, <2>1 DEF Nothing
  <2>3. NamesInOrder(c)' /\ MovesAlone(c)' /\ JournalFollows(c)' /\ NewsIsNew(c)'
    BY <1>1, <2>1, <2>2, QuietStory
  <2>4. BatchIsMarked(c)'
    BY <2>1, <2>2 DEF BatchIsMarked
  <2> QED BY <2>3, <2>4 DEF Story
<1>10. CASE Rollback(c)
  <2>1. chan[c] = <<>>
    BY <1>10 DEF Rollback, Hastened
  <2>2. /\ step \in 1 .. BatchLen /\ UNCHANGED <<names, csJournal, csSeq>>
        /\ Keeps(c, StartOf(id)) /\ ~Knows(c, EndOf(id))
    <3>1. b.reply = "error" /\ UNCHANGED <<names, csJournal, csSeq>>
      BY <1>10 DEF Rollback, GotReply, model, b
    <3>2. ~Comes(c, StartOf(id))
      BY <2>1 DEF Comes, ComesBy
    <3>3. step \in 1 .. BatchLen /\ step <= BatchLen /\ step <= BatchLen + 1
      BY <1>4, <3>1
    <3> QED BY <1>4, <3>1, <3>2, <3>3
  <2>3. JournalFollows(c)' /\ request'[c].func \in {"none", "undo"} /\ request'[c] # Edit
    <3>1. CASE UNCHANGED <<cursor, request, crashed>>
      <4>1. request'[c] = Nothing
        BY <1>1, <3>1
      <4> QED BY <1>1, <2>2, <3>1, <4>1, QuietStory DEF Nothing, Edit
    <3>2. CASE UndoWhole(c, batch[c].id, cursor[c])
      <4>1. PICK from \in Int : from = cursor[c]
        BY HereTypes
      <4>2. id \in Nat /\ UndoWhole(c, id, from) /\ from <= cursor[c]
        BY <1>3, <1>4, <3>2, <4>1 DEF b
      <4>3. LastMark(c, id, from) # 0 => names[c][LastMark(c, id, from)] = StartOf(id)
        <5>1. SUFFICES ASSUME LastMark(c, id, from) # 0
                       PROVE  names[c][LastMark(c, id, from)] = StartOf(id)
          OBVIOUS
        <5>2. /\ LastMark(c, id, from) \in DOMAIN names[c]
              /\ Marks(names[c][LastMark(c, id, from)], id)
          BY <5>1, LastMarkFacts, HereTypes
        <5> QED BY <2>2, <5>2 DEF Marks, Knows
      <4> QED BY <1>1, <2>1, <2>2, <4>2, <4>3, UndoWholeStory
    <3> QED BY <1>10, <3>1, <3>2 DEF Rollback
  <2>4. /\ batch'[c] # NoBatch /\ batch'[c].id = id
        /\ batch'[c].step = BatchLen + 2 /\ batch'[c].reply # "error"
    <3>1. PICK reply \in {"ok", "none"} : ToStep(c, BatchLen + 2, reply)
      BY <1>10 DEF Rollback
    <3> QED BY <3>1, <1>5
  <2>5. BatchIsMarked(c)'
    <3>1. ~(BatchLen + 2 <= BatchLen) /\ ~(BatchLen + 2 <= BatchLen + 1) /\ ops' = ops
      BY <1>1, <1>4
    <3>2. request'[c].func # "mark"
      BY <2>3
    <3> QED BY <1>4, <2>3, <2>4, <3>1, <3>2 DEF BatchIsMarked
  <2>6. NewsIsNew(c)' /\ MovesAlone(c)'
    <3>1. chan'[c] = <<>> /\ DOMAIN chan'[c] = {}
      BY <1>1, <2>1
    <3> QED BY <2>3, <3>1, SMTT(40) DEF NewsIsNew, MovesAlone
  <2>7. NamesInOrder(c)'
    <3>1. names'[c] = names[c] /\ asSeq <= asSeq' /\ csSeq[c] <= csSeq'[c] /\ ops <= ops'
      BY SMTT(30), <1>1, <2>2 DEF TypeOK
    <3> QED BY <3>1, NamesStay
  <2> QED BY <2>3, <2>5, <2>6, <2>7 DEF Story
<1> QED BY <1>7, <1>8, <1>9, <1>10 DEF Batch

-----------------------------------------------------------------------------
(* The list of names and the journal tell the same story.                  *)

\* A batchEdit that has overtaken its changelogs has done so for good.
LEMMA EarlyGrows == [Next]_vars => early \subseteq early'
  BY ZenonT(60) DEF Next, Serve, Apply, Client, Batch, EditSucceeds, EditChangesNothing, EditRefused, SetMark,
         AswUndo, AswRedo, ApplyDo, ApplyMark, ApplyUndo, ApplyRedo, Arrived, AskForEdit, LocalEdit,
         Undo, Redo, StartBatch, NextEdit, LastEditDone, EndBatch, Rollback, Hastened, vars

LEMMA StoryStep ==
    ASSUME Patient, \A c, d \in CSWorker : c = d, IInv, [Next]_vars
    PROVE  IInv'
<1>1. TypeOK' /\ TypeOK
  BY TypesStep DEF IInv
<1>2. SUFFICES ASSUME "rollback" \notin early', NEW d \in CSWorker PROVE Story(d)'
  BY <1>1 DEF IInv
<1>3. \A c \in CSWorker : Story(c)
  BY <1>2, EarlyGrows DEF IInv
<1>4. CASE UNCHANGED vars
  BY <1>3, <1>4, SMTT(60), ZenonT(60) DEF Story, MovesAlone, NamesInOrder, NewsIsNew, BatchIsMarked,
     JournalFollows, UndoComes, RedoComes, News, Given, Knows, Keeps, Comes, ComesBy, vars, asw,
     model, history
<1>5. ASSUME NEW c \in CSWorker, Serve(c) \/ Apply(c) \/ Client(c) \/ Batch(c) PROVE Story(d)'
  <2>1. Story(c)'
    BY <1>1, <1>2, <1>3, <1>5, ServeStory, ApplyStory, ClientStory, BatchStory
  <2>2. c = d
    OBVIOUS
  <2> QED BY <2>1, <2>2
<1> QED BY <1>4, <1>5 DEF Next

LEMMA StoryInit == Init => IInv
<1> SUFFICES ASSUME Init PROVE IInv
  OBVIOUS
<1>1. TypeOK
  <2>1. IsJournal(EmptyJournal)
    BY DEF EmptyJournal, IsJournal
  <2> QED BY <2>1, Constants DEF Init, TypeOK, Request, Nothing, NoBatch
<1>2. ASSUME NEW c \in CSWorker PROVE Story(c)
  <2>1. /\ chan[c] = <<>> /\ request[c] = Nothing /\ names[c] = <<>> /\ cursor[c] = 0
        /\ csJournal[c] = EmptyJournal /\ batch[c] = NoBatch
    BY DEF Init
  <2>2. UserCheckpoints(csJournal[c]) = {} /\ DOMAIN names[c] = {} /\ DOMAIN chan[c] = {}
    BY <2>1 DEF UserCheckpoints, EmptyJournal
  <2>3. Marked(names[c], cursor[c], csJournal[c])
    BY <2>2 DEF Marked
  <2>4. News(c) = Nothing /\ ~Moves(Nothing) /\ Nothing.func # "mark"
    BY <2>1 DEF News, Nothing, Moves
  <2> QED BY <2>1, <2>2, <2>3, <2>4 DEF Story, MovesAlone, NamesInOrder, NewsIsNew, BatchIsMarked,
            JournalFollows, Moves
<1> QED BY <1>1, <1>2 DEF IInv

\* At rest, a csworker that is the only one of its asworker, and whose clients wait for their
\* changelogs, has each name of __handledSeqNums as one user-checkpoint of its journal, in
\* the same order and on the same side of the cursor, whatever edits, batchEdits, rollbacks,
\* undos and redos came before, and however late the changelogs of a batchEdit are applied,
\* until one is rolled back before they are (__checkpointUserOperation and __undoredo of
\* src/csworker.js).
THEOREM NamesMatchJournal ==
    ASSUME Patient, \A c, d \in CSWorker : c = d
    PROVE  Spec => []NamesAreMarked
<1>1. Init => IInv
  BY StoryInit
<1>2. IInv /\ [Next]_vars => IInv'
  BY StoryStep
<1>3. IInv => NamesAreMarked
  <2>1. ASSUME IInv, "rollback" \notin early, NEW c \in CSWorker, AtRest(c)
        PROVE  Marked(names[c], cursor[c], csJournal[c])
    <3>1. News(c) = Nothing /\ ~Moves(Nothing)
      BY <2>1 DEF AtRest, News, Moves, Nothing
    <3> QED BY <2>1, <3>1 DEF IInv, Story, JournalFollows
  <2> QED BY <2>1 DEF NamesAreMarked
<1> QED BY <1>1, <1>2, <1>3, PTL DEF Spec

-----------------------------------------------------------------------------
(* What undoing a batch gives.                                             *)

\* the operations among the entries from i to the index
OpsSince(j, i) == { j.log[m].name : m \in { k \in i .. j.index : j.log[k].op = "DO" } }

\* Undoing to before the start checkpoint of b gives `was`, and there is one.
Recalls(content, j, b, was) ==
    \E i \in 1 .. j.index :
        /\ IsNamed(j.log[i], StartOf(b)) /\ content \ OpsSince(j, i) = was
        /\ \A m \in DOMAIN j.log : IsNamed(j.log[m], StartOf(b)) => m = i

\* a content after an entry has been logged that is not undone
Grown(content, e) == IF e.op = "DO" THEN content \cup {e.name} ELSE content
NotIn(e, was) == e.op = "DO" => e.name \notin was

\* What is logged after the checkpoint is undone with the batch.
LEMMA RecallsLogged ==
    ASSUME NEW content, NEW j \in Journals(Entry), NEW b, NEW was, Recalls(content, j, b, was),
           NEW e \in Entry, ~IsNamed(e, StartOf(b)), NotIn(e, was)
    PROVE  Recalls(Grown(content, e), Log(j, e), b, was)
<1> DEFINE k == Log(j, e)
<1>1. /\ k \in Journals(Entry) /\ k.index = j.index + 1 /\ Len(k.log) = j.index + 1
      /\ \A i \in 1 .. j.index : k.log[i] = j.log[i]
      /\ k.log[j.index + 1] = e
  BY LogFacts
<1>2. /\ j.index \in Nat /\ DOMAIN j.log = 1 .. Len(j.log) /\ j.index <= Len(j.log)
      /\ Len(j.log) \in Nat
  BY JournalTypes
<1> HIDE DEF k
<1>3. DOMAIN k.log = 1 .. j.index + 1
  BY <1>1, JournalTypes
<1>4. PICK i \in 1 .. j.index :
         /\ IsNamed(j.log[i], StartOf(b)) /\ content \ OpsSince(j, i) = was
         /\ \A m \in DOMAIN j.log : IsNamed(j.log[m], StartOf(b)) => m = i
  BY DEF Recalls
<1>5. i \in 1 .. k.index /\ IsNamed(k.log[i], StartOf(b))
  BY <1>1, <1>2, <1>4
<1>6. \A m \in DOMAIN k.log : IsNamed(k.log[m], StartOf(b)) => m = i
  <2>1. SUFFICES ASSUME NEW m \in 1 .. j.index + 1, IsNamed(k.log[m], StartOf(b)) PROVE m = i
    BY <1>3
  <2>2. m # j.index + 1
    BY <1>1, <2>1
  <2>3. m \in 1 .. j.index /\ m \in DOMAIN j.log
    BY <1>2, <2>2
  <2> QED BY <1>1, <1>4, <2>1, <2>3
<1>7. Grown(content, e) \ OpsSince(k, i) = was
  <2>1. \A m \in i .. j.index : m \in 1 .. j.index /\ m # j.index + 1
    BY <1>2
  <2>2. \A m \in i .. k.index : m \in i .. j.index \/ m = j.index + 1
    BY <1>1, <1>2
  <2>3. \A m \in i .. j.index : m \in i .. k.index
    BY <1>1, <1>2
  <2>4. j.index + 1 \in i .. k.index
    BY <1>1, <1>2
  <2>5. CASE e.op # "DO"
    <3>1. OpsSince(k, i) = OpsSince(j, i)
      BY <1>1, <2>1, <2>2, <2>3, <2>5 DEF OpsSince
    <3> QED BY <1>4, <2>5, <3>1 DEF Grown
  <2>6. CASE e.op = "DO"
    <3>1. OpsSince(k, i) = OpsSince(j, i) \cup {e.name}
      <4>1. OpsSince(k, i) \subseteq OpsSince(j, i) \cup {e.name}
        BY <1>1, <2>1, <2>2 DEF OpsSince
      <4>2. OpsSince(j, i) \subseteq OpsSince(k, i)
        BY <1>1, <2>1, <2>3 DEF OpsSince
      <4>3. e.name \in OpsSince(k, i)
        BY <1>1, <2>4, <2>6 DEF OpsSince
      <4> QED BY <4>1, <4>2, <4>3
    <3> QED BY <1>4, <2>6, <3>1 DEF Grown, NotIn
  <2> QED BY <2>5, <2>6
<1> QED BY <1>5, <1>6, <1>7 DEF Recalls, k

\* The start checkpoint of a batch recalls the content it finds.
LEMMA StartRecalls ==
    ASSUME NEW content, NEW j \in Journals(Entry), NEW b \in Nat,
           \A i \in DOMAIN j.log : ~IsNamed(j.log[i], StartOf(b))
    PROVE  Recalls(content, SetUserCheckpoint(j, StartOf(b)), b, content)
<1> DEFINE e == MKUSRCHKPT(StartOf(b))
           k == Log(j, e)
<1>1. j.index \in Nat /\ DOMAIN j.log = 1 .. Len(j.log) /\ j.index <= Len(j.log) /\ Len(j.log) \in Nat
  BY JournalTypes
<1>2. SetUserCheckpoint(j, StartOf(b)) = k
  <2>1. j.log # <<>> => Len(j.log) \in DOMAIN j.log
    BY <1>1 DEF Journals
  <2> QED BY <2>1 DEF SetUserCheckpoint
<1>3. e \in Entry /\ IsNamed(e, StartOf(b)) /\ e.op # "DO"
  BY Entries, Names DEF MKUSRCHKPT, IsNamed, IsUserCheckpoint
<1> HIDE DEF e
<1>4. /\ k \in Journals(Entry) /\ k.index = j.index + 1 /\ Len(k.log) = j.index + 1
      /\ \A i \in 1 .. j.index : k.log[i] = j.log[i]
      /\ k.log[j.index + 1] = e
  BY <1>3, LogFacts
<1> HIDE DEF k
<1>5. DOMAIN k.log = 1 .. j.index + 1 /\ j.index + 1 \in 1 .. k.index
  BY <1>1, <1>4, JournalTypes
<1>6. OpsSince(k, j.index + 1) = {}
  <2>1. \A m \in j.index + 1 .. k.index : m = j.index + 1
    BY <1>1, <1>4
  <2> QED BY <1>3, <1>4, <2>1 DEF OpsSince
<1>7. \A m \in DOMAIN k.log : IsNamed(k.log[m], StartOf(b)) => m = j.index + 1
  <2>1. SUFFICES ASSUME NEW m \in 1 .. j.index + 1, m # j.index + 1
                 PROVE  ~IsNamed(k.log[m], StartOf(b))
    BY <1>5
  <2>2. m \in 1 .. j.index /\ m \in DOMAIN j.log
    BY <1>1, <2>1
  <2> QED BY <1>4, <2>2
<1> QED BY <1>2, <1>3, <1>4, <1>5, <1>6, <1>7 DEF Recalls

\* Checkpoints and operations that come after it.
LEMMA RecallsStep ==
    ASSUME NEW content, NEW j \in Journals(Entry), NEW b, NEW was, Recalls(content, j, b, was)
    PROVE  Recalls(content, SetStepCheckpoint(j), b, was)
<1>1. MKSTPCHKPT \in Entry /\ MKSTPCHKPT.op # "DO" /\ ~IsNamed(MKSTPCHKPT, StartOf(b))
  BY Entries DEF MKSTPCHKPT, IsNamed, IsUserCheckpoint
<1>2. Recalls(content, Log(j, MKSTPCHKPT), b, was)
  <2>1. NotIn(MKSTPCHKPT, was) /\ Grown(content, MKSTPCHKPT) = content
    BY <1>1 DEF NotIn, Grown
  <2> QED BY <1>1, <2>1, RecallsLogged
<1> QED BY <1>2 DEF SetStepCheckpoint

LEMMA RecallsMark ==
    ASSUME NEW content, NEW j \in Journals(Entry), NEW b, NEW was, Recalls(content, j, b, was),
           NEW name \in Name, name # StartOf(b)
    PROVE  Recalls(content, SetUserCheckpoint(j, name), b, was)
<1> DEFINE e == MKUSRCHKPT(name)
<1>1. e \in Entry /\ e.op # "DO" /\ ~IsNamed(e, StartOf(b))
  BY Entries DEF MKUSRCHKPT, IsNamed, IsUserCheckpoint
<1> HIDE DEF e
<1>2. Recalls(content, Log(j, e), b, was)
  <2>1. NotIn(e, was) /\ Grown(content, e) = content
    BY <1>1 DEF NotIn, Grown
  <2> QED BY <1>1, <2>1, RecallsLogged
<1> QED BY <1>2 DEF SetUserCheckpoint, e

LEMMA RecallsDone ==
    ASSUME NEW content, NEW j \in Journals(Entry), NEW b, NEW was, Recalls(content, j, b, was),
           NEW name \in Name, name \notin was
    PROVE  Recalls(content \cup {name}, Done(j, name), b, was)
<1> DEFINE e == [op |-> "DO", name |-> name]
           h == SetStepCheckpoint(j)
<1>1. e \in Entry /\ e.op = "DO" /\ e.name = name /\ ~IsNamed(e, StartOf(b))
  BY Entries DEF IsNamed, IsUserCheckpoint
<1>2. h \in Journals(Entry) /\ Recalls(content, h, b, was)
  BY StepCheckpointTypes, RecallsStep
<1> HIDE DEF e, h
<1>3. Recalls(content \cup {name}, Log(h, e), b, was)
  <2>1. NotIn(e, was) /\ Grown(content, e) = content \cup {name}
    BY <1>1 DEF NotIn, Grown
  <2> QED BY <1>1, <1>2, <2>1, RecallsLogged
<1> QED BY <1>3 DEF Done, e, h

\* Undoing until the start checkpoint gives what was.
LEMMA RecallsUndone ==
    ASSUME NEW content, NEW j \in Journals(Entry), NEW b, NEW was, Recalls(content, j, b, was)
    PROVE  Without(content, j, UndoneUntil(j, StartOf(b))) = was
<1> DEFINE k == UndoneUntil(j, StartOf(b))
<1>1. PICK i \in 1 .. j.index :
         /\ IsNamed(j.log[i], StartOf(b)) /\ content \ OpsSince(j, i) = was
         /\ \A m \in DOMAIN j.log : IsNamed(j.log[m], StartOf(b)) => m = i
  BY DEF Recalls
<1>2. j.index \in Nat /\ DOMAIN j.log = 1 .. Len(j.log) /\ j.index <= Len(j.log)
      /\ Len(j.log) \in Nat /\ j.log \in Seq(Entry)
  BY JournalTypes
<1>3. k.index = i - 1
  <2>1. \A m \in 1 .. j.index : m \in DOMAIN j.log
    BY <1>2
  <2> QED BY <1>1, <2>1, UndoneUntilFacts
<1> DEFINE s == SubSeq(j.log, i, j.index)
<1>4. /\ Len(s) = j.index - i + 1 /\ DOMAIN s = 1 .. j.index - i + 1
      /\ \A m \in 1 .. j.index - i + 1 : s[m] = j.log[i - 1 + m]
  <2>1. i - 1 \in Nat /\ i - 1 <= j.index /\ i - 1 + 1 = i /\ j.index - (i - 1) = j.index - i + 1
    BY <1>2
  <2>2. PICK a \in Nat : a = i - 1
    BY <2>1
  <2>3. /\ SubSeq(j.log, a + 1, j.index) \in Seq(Entry)
        /\ Len(SubSeq(j.log, a + 1, j.index)) = j.index - a
        /\ \A m \in 1 .. j.index - a : SubSeq(j.log, a + 1, j.index)[m] = j.log[a + m]
    BY <1>2, <2>1, <2>2, Between
  <2>4. a + 1 = i /\ j.index - a = j.index - i + 1
    BY <1>2, <2>2
  <2> QED BY <2>2, <2>3, <2>4
<1> HIDE DEF s, k
<1>5. OpsIn(s) = OpsSince(j, i)
  <2>1. ASSUME NEW m \in DOMAIN s, s[m].op = "DO" PROVE s[m].name \in OpsSince(j, i)
    <3>1. i - 1 + m \in i .. j.index /\ s[m] = j.log[i - 1 + m]
      BY <1>2, <1>4
    <3> QED BY <2>1, <3>1 DEF OpsSince
  <2>2. ASSUME NEW m \in i .. j.index, j.log[m].op = "DO" PROVE j.log[m].name \in OpsIn(s)
    <3>1. PICK n : n = m - i + 1
      OBVIOUS
    <3>2. n \in DOMAIN s /\ i - 1 + n = m
      BY <1>2, <1>4, <3>1
    <3>3. s[n] = j.log[m]
      BY <1>4, <3>2
    <3> QED BY <2>2, <3>2, <3>3 DEF OpsIn
  <2> QED BY <2>1, <2>2 DEF OpsIn, OpsSince
<1>6. UndoneEntries(j, k) = s
  <2>1. k.index + 1 = i
    BY <1>2, <1>3
  <2> QED BY <2>1 DEF UndoneEntries, s
<1> QED BY <1>1, <1>5, <1>6 DEF Without, k

-----------------------------------------------------------------------------
(* The names that journals and contents have are given ones.               *)

Named(j) == { j.log[i].name : i \in { k \in DOMAIN j.log : ~IsStepCheckpoint(j.log[k]) } }

\* the names that the csworker has come across
Seen(c) == csContent[c] \cup before[c].cs \cup Named(csJournal[c])
Around(c) == Seen(c) \cup asContent \cup before[c].as \cup Named(asJournal)

\* The operations on their way to the csworker are new to it.
AllGiven(c) ==
    /\ \A n \in Around(c) : Given(c, n)
    /\ \A i \in DOMAIN chan[c] : chan[c][i].func = "do" => chan[c][i].name \notin Seen(c)

LEMMA NamedTypes ==
    ASSUME NEW j \in Journals(Entry)
    PROVE  Named(j) \subseteq Name
<1>1. SUFFICES ASSUME NEW i \in DOMAIN j.log, ~IsStepCheckpoint(j.log[i]) PROVE j.log[i].name \in Name
  BY DEF Named
<1>2. j.log[i] \in Entry
  BY JournalTypes
<1> QED BY <1>1, <1>2 DEF Entry, IsStepCheckpoint, MKSTPCHKPT

LEMMA NamedLogged ==
    ASSUME NEW j \in Journals(Entry), NEW e \in Entry
    PROVE  Named(Log(j, e)) \subseteq Named(j) \cup IF IsStepCheckpoint(e) THEN {} ELSE {e.name}
<1> DEFINE k == Log(j, e)
<1>1. /\ k \in Journals(Entry) /\ k.index = j.index + 1 /\ Len(k.log) = j.index + 1
      /\ \A i \in 1 .. j.index : k.log[i] = j.log[i]
      /\ k.log[j.index + 1] = e
  BY LogFacts
<1>2. /\ j.index \in Nat /\ DOMAIN j.log = 1 .. Len(j.log) /\ j.index <= Len(j.log)
      /\ Len(j.log) \in Nat /\ DOMAIN k.log = 1 .. j.index + 1
  BY <1>1, JournalTypes
<1> HIDE DEF k
<1>3. ASSUME NEW i \in DOMAIN k.log, ~IsStepCheckpoint(k.log[i])
      PROVE  k.log[i].name \in Named(j) \cup IF IsStepCheckpoint(e) THEN {} ELSE {e.name}
  <2>1. CASE i = j.index + 1
    BY <1>1, <1>3, <2>1
  <2>2. CASE i # j.index + 1
    <3>1. i \in 1 .. j.index /\ i \in DOMAIN j.log
      BY <1>2, <2>2
    <3> QED BY <1>1, <1>3, <3>1 DEF Named
  <2> QED BY <2>1, <2>2
<1> QED BY <1>3 DEF Named, k

LEMMA NamedStep ==
    ASSUME NEW j \in Journals(Entry)
    PROVE  Named(SetStepCheckpoint(j)) \subseteq Named(j)
<1>1. MKSTPCHKPT \in Entry /\ IsStepCheckpoint(MKSTPCHKPT)
  BY Entries DEF MKSTPCHKPT, IsStepCheckpoint
<1>2. Named(Log(j, MKSTPCHKPT)) \subseteq Named(j)
  BY <1>1, NamedLogged
<1> QED BY <1>2 DEF SetStepCheckpoint

LEMMA NamedMark ==
    ASSUME NEW j \in Journals(Entry), NEW name \in Name
    PROVE  Named(SetUserCheckpoint(j, name)) \subseteq Named(j) \cup {name}
<1> DEFINE e == MKUSRCHKPT(name)
<1>1. e \in Entry /\ e.name = name
  BY Entries DEF MKUSRCHKPT
<1> HIDE DEF e
<1>2. Named(Log(j, e)) \subseteq Named(j) \cup {name}
  BY <1>1, NamedLogged
<1> QED BY <1>2 DEF SetUserCheckpoint, e

LEMMA NamedDone ==
    ASSUME NEW j \in Journals(Entry), NEW name \in Name
    PROVE  Named(Done(j, name)) \subseteq Named(j) \cup {name}
<1> DEFINE e == [op |-> "DO", name |-> name]
           h == SetStepCheckpoint(j)
<1>1. e \in Entry /\ e.name = name
  BY Entries
<1>2. h \in Journals(Entry) /\ Named(h) \subseteq Named(j)
  BY StepCheckpointTypes, NamedStep
<1> HIDE DEF e, h
<1>3. Named(Log(h, e)) \subseteq Named(h) \cup {name}
  BY <1>1, <1>2, NamedLogged
<1> QED BY <1>2, <1>3 DEF Done, e, h

LEMMA NamedMoved ==
    ASSUME NEW content, NEW j \in Journals(Entry), NEW k \in Journals(Entry), k.log = j.log
    PROVE  /\ Named(k) = Named(j)
           /\ Without(content, j, k) \subseteq content
           /\ With(content, j, k) \subseteq content \cup Named(j)
<1>1. OpsIn(RedoneEntries(j, k)) \subseteq Named(j)
  <2>1. /\ j.index \in Nat /\ k.index \in Nat /\ k.index <= Len(j.log) /\ j.log \in Seq(Entry)
        /\ Len(j.log) \in Nat /\ DOMAIN j.log = 1 .. Len(j.log)
    BY JournalTypes
  <2> DEFINE s == SubSeq(j.log, j.index + 2, k.index)
  <2>2. SUFFICES ASSUME NEW i \in DOMAIN s, s[i].op = "DO" PROVE s[i].name \in Named(j)
    BY DEF OpsIn, RedoneEntries
  <2>3. CASE k.index < j.index + 2
    <3>1. s = <<>>
      BY <2>1, <2>3
    <3> HIDE DEF s
    <3>2. DOMAIN s = {}
      BY <3>1
    <3> QED BY <2>2, <3>2
  <2>4. CASE j.index + 1 < k.index
    <3>1. PICK a \in Nat, b \in Nat, l \in Seq(Entry) : a = j.index + 1 /\ b = k.index /\ l = j.log
      BY <2>1
    <3>2. a <= b /\ b <= Len(l)
      BY <2>1, <2>4, <3>1
    <3>3. /\ SubSeq(l, a + 1, b) \in Seq(Entry) /\ Len(SubSeq(l, a + 1, b)) = b - a
          /\ \A m \in 1 .. b - a : SubSeq(l, a + 1, b)[m] = l[a + m]
      BY <3>2, Between
    <3>4. s \in Seq(Entry) /\ Len(s) = b - a /\ \A m \in 1 .. b - a : s[m] = j.log[a + m]
      <4>1. a + 1 = j.index + 2
        BY <2>1, <3>1
      <4> QED BY <3>1, <3>3, <4>1
    <3> HIDE DEF s
    <3>5. i \in 1 .. b - a /\ a + i \in DOMAIN j.log
      <4>1. DOMAIN s = 1 .. b - a
        BY <3>4
      <4>2. i \in 1 .. b - a
        BY <4>1
      <4> QED BY <2>1, <3>1, <3>2, <4>2
    <3>6. j.log[a + i].op = "DO" /\ s[i].name = j.log[a + i].name
      BY <2>2, <3>4, <3>5
    <3>7. ~IsStepCheckpoint(j.log[a + i])
      BY <3>6 DEF IsStepCheckpoint
    <3> QED BY <3>5, <3>6, <3>7 DEF Named
  <2> QED BY <2>1, <2>3, <2>4
<1> QED BY <1>1 DEF Named, Without, With

LEMMA AroundTypes ==
    ASSUME TypeOK, NEW c \in CSWorker
    PROVE  Around(c) \subseteq Name
<1>1. /\ csContent[c] \subseteq Name /\ before[c].cs \subseteq Name /\ before[c].as \subseteq Name
      /\ asContent \subseteq Name
      /\ csJournal[c] \in Journals(Entry) /\ asJournal \in Journals(Entry)
  BY JournalsAre DEF TypeOK
<1> QED BY <1>1, NamedTypes DEF Around, Seen

LEMMA GivenStep ==
    ASSUME TypeOK, TypeOK', NEW c \in CSWorker, AllGiven(c),
           asSeq <= asSeq', csSeq[c] <= csSeq'[c], ops <= ops',
           \A n \in Around(c)' : n \in Around(c) \/ Given(c, n)',
           \A i \in DOMAIN chan'[c] : chan'[c][i].func = "do" => chan'[c][i].name \notin Seen(c)'
    PROVE  AllGiven(c)'
<1>1. \A n \in Around(c) : Given(c, n)'
  BY AroundTypes, GivenStays DEF AllGiven
<1> QED BY <1>1 DEF AllGiven

\* The operations that an unchanged channel carries stay new while nothing but a name that is
\* none of theirs is seen.
LEMMA ComingStaysNew ==
    ASSUME TypeOK, NEW c \in CSWorker, Story(c), AllGiven(c), chan'[c] = chan[c],
           \A n \in Seen(c)' : n \in Seen(c) \/ n.kind # "as"
    PROVE  \A i \in DOMAIN chan'[c] : chan'[c][i].func = "do" => chan'[c][i].name \notin Seen(c)'
<1>1. SUFFICES ASSUME NEW i \in DOMAIN chan[c], chan[c][i].func = "do", chan[c][i].name \in Seen(c)'
               PROVE  FALSE
  OBVIOUS
<1>2. chan[c][i].name.kind = "as"
  BY <1>1 DEF Story, NewsIsNew, Brings
<1> QED BY <1>1, <1>2 DEF AllGiven

LEMMA ServeGiven ==
    ASSUME TypeOK, TypeOK', NEW c \in CSWorker, Story(c), AllGiven(c), Serve(c)
    PROVE  AllGiven(c)'
<1>1. /\ csJournal' = csJournal /\ csSeq' = csSeq /\ ops' = ops /\ asSeq <= asSeq'
      /\ \/ request[c] = Edit /\ chan'[c] = chan[c]
         \/ \E m : /\ chan'[c] = Append(chan[c], m)
                   /\ m.func = "do" => m.name = AsName(asSeq + 1)
  <2>1. MovesAlone(c)
    BY DEF Story
  <2> QED BY <2>1, Served
<1>2. csContent' = csContent /\ before' = before
  BY DEF Serve, EditSucceeds, EditChangesNothing, EditRefused, SetMark, AswUndo, AswRedo, model
<1>3. Seen(c)' = Seen(c)
  BY <1>1, <1>2 DEF Seen
<1>4. /\ asJournal \in Journals(Entry) /\ asSeq \in Nat /\ AsName(asSeq + 1) \in Name
      /\ ~Given(c, AsName(asSeq + 1)) /\ csSeq[c] \in Nat /\ ops \in Nat
  BY JournalsAre, Names, Constants, SMTT(20), ZenonT(20) DEF TypeOK, Given, AsName
<1>5. \A i \in DOMAIN chan'[c] : chan'[c][i].func = "do" => chan'[c][i].name \notin Seen(c)'
  <2>1. CASE chan'[c] = chan[c]
    BY <1>3, <2>1 DEF AllGiven
  <2>2. CASE chan'[c] # chan[c]
    <3>1. PICK m : /\ chan'[c] = Append(chan[c], m)
                   /\ m.func = "do" => m.name = AsName(asSeq + 1)
      BY <1>1, <2>2
    <3>2. /\ DOMAIN chan'[c] = 1 .. Len(chan[c]) + 1 /\ chan'[c][Len(chan[c]) + 1] = m
          /\ \A i \in 1 .. Len(chan[c]) : chan'[c][i] = chan[c][i]
      BY <3>1, ChanGrows
    <3>3. AsName(asSeq + 1) \notin Seen(c)
      BY <1>4 DEF AllGiven, Around
    <3>4. SUFFICES ASSUME NEW i \in 1 .. Len(chan[c]) + 1, chan'[c][i].func = "do"
                   PROVE  chan'[c][i].name \notin Seen(c)
      BY <1>3, <3>2
    <3>5. CASE i = Len(chan[c]) + 1
      BY <3>1, <3>2, <3>3, <3>4, <3>5
    <3>6. CASE i # Len(chan[c]) + 1
      <4>1. i \in 1 .. Len(chan[c]) /\ i \in DOMAIN chan[c]
        BY <3>6, ChanTypes
      <4> QED BY <3>2, <3>4, <4>1 DEF AllGiven
    <3> QED BY <3>5, <3>6
  <2> QED BY <2>1, <2>2
<1>6. \A n \in asContent' \cup Named(asJournal') : n \in asContent \cup Named(asJournal) \/ Given(c, n)'
  <2>1. CASE EditSucceeds(c)
    <3>1. PICK name \in Name : name = AsName(asSeq + 1)
      BY <1>4
    <3>2. /\ asJournal' = Done(asJournal, name) /\ asContent' = asContent \cup {name}
          /\ asSeq' = asSeq + 1
      BY <2>1, <3>1 DEF EditSucceeds, Broadcast
    <3>3. Given(c, name)'
      BY <1>4, <3>1, <3>2 DEF Given, AsName
    <3>4. Named(asJournal') \subseteq Named(asJournal) \cup {name}
      BY <1>4, <3>2, NamedDone
    <3> QED BY <3>2, <3>3, <3>4
  <2>2. CASE EditChangesNothing(c) \/ EditRefused(c)
    <3>1. asJournal' = SetStepCheckpoint(asJournal) /\ asContent' = asContent
      BY <2>2 DEF EditChangesNothing, EditRefused
    <3>2. Named(asJournal') \subseteq Named(asJournal)
      BY <1>4, <3>1, NamedStep
    <3> QED BY <3>1, <3>2
  <2>3. CASE SetMark(c)
    <3>1. /\ asJournal' = SetUserCheckpoint(asJournal, request[c].name) /\ asContent' = asContent
          /\ request[c].func = "mark" /\ asSeq' = asSeq + 1
      BY <2>3 DEF SetMark, Broadcast
    <3>2. request[c].name \in Name /\ Given(c, request[c].name)
      BY <3>1, RequestKinds DEF Story, NewsIsNew
    <3>3. PICK name \in Name : name = request[c].name
      BY <3>2
    <3>4. Given(c, name)'
      <4>1. asSeq <= asSeq' /\ csSeq[c] <= csSeq'[c] /\ ops <= ops'
        BY <1>1, <1>4
      <4>2. Given(c, name)
        BY <3>2, <3>3
      <4> QED BY <4>1, <4>2, GivenStays
    <3>5. Named(asJournal') \subseteq Named(asJournal) \cup {name}
      BY <1>4, <3>1, <3>3, NamedMark
    <3> QED BY <3>1, <3>4, <3>5
  <2>4. CASE AswUndo(c)
    <3>1. /\ asJournal' = AswUndone(request[c])
          /\ asContent' = Without(asContent, asJournal, asJournal')
      BY <2>4 DEF AswUndo
    <3>2. asJournal' \in Journals(Entry) /\ asJournal'.log = asJournal.log
      BY <1>4, <3>1, UndoneFacts, UndoneUntilFacts DEF AswUndone
    <3>3. Named(asJournal') = Named(asJournal) /\ asContent' \subseteq asContent
      BY <1>4, <3>1, <3>2, NamedMoved
    <3> QED BY <3>3
  <2>5. CASE AswRedo(c)
    <3>1. /\ asJournal' = AswRedone(request[c])
          /\ asContent' = With(asContent, asJournal, asJournal')
      BY <2>5 DEF AswRedo
    <3>2. asJournal' \in Journals(Entry) /\ asJournal'.log = asJournal.log
      BY <1>4, <3>1, RedoneStepTypes, RedoneUntilFacts DEF AswRedone
    <3>3. Named(asJournal') = Named(asJournal) /\ asContent' \subseteq asContent \cup Named(asJournal)
      BY <1>4, <3>1, <3>2, NamedMoved
    <3> QED BY <3>3
  <2> QED BY <2>1, <2>2, <2>3, <2>4, <2>5 DEF Serve
<1>7. \A n \in Around(c)' : n \in Around(c) \/ Given(c, n)'
  <2>1. /\ Around(c)' = Seen(c)' \cup before'[c].as \cup (asContent' \cup Named(asJournal'))
        /\ Around(c) = Seen(c) \cup before[c].as \cup (asContent \cup Named(asJournal))
    BY DEF Around
  <2> QED BY <1>2, <1>3, <1>6, <2>1
<1>8. asSeq <= asSeq' /\ csSeq[c] <= csSeq'[c] /\ ops <= ops'
  BY <1>1, <1>4
<1> QED BY <1>5, <1>7, <1>8, GivenStep

\* A local edit, whatever the batch.
LEMMA EditHereGiven ==
    ASSUME TypeOK, TypeOK', NEW c \in CSWorker, Story(c), AllGiven(c), EditHere(c),
           UNCHANGED <<asw, before, chan>>, ops <= ops'
    PROVE  AllGiven(c)'
<1>1. PICK name : name = CsName(csSeq[c] + 1)
  OBVIOUS
<1>2. /\ name \in Name /\ csSeq[c] \in Nat /\ csJournal[c] \in Journals(Entry)
      /\ csJournal'[c] = Done(SetUserCheckpoint(csJournal[c], name), name)
  BY <1>1, EditHereTypes, HereTypes
<1>3. csContent'[c] = csContent[c] \cup {name} /\ csSeq'[c] = csSeq[c] + 1
  BY <1>1 DEF EditHere, TypeOK
<1>4. Named(csJournal'[c]) \subseteq Named(csJournal[c]) \cup {name}
  <2>1. /\ SetUserCheckpoint(csJournal[c], name) \in Journals(Entry)
        /\ Named(SetUserCheckpoint(csJournal[c], name)) \subseteq Named(csJournal[c]) \cup {name}
    BY <1>2, UserCheckpointTypes, NamedMark
  <2>2. Named(Done(SetUserCheckpoint(csJournal[c], name), name))
           \subseteq Named(SetUserCheckpoint(csJournal[c], name)) \cup {name}
    BY <1>2, <2>1, NamedDone
  <2> QED BY <1>2, <2>1, <2>2
<1>5. /\ \A n \in Around(c)' : n \in Around(c) \/ n = name
      /\ \A n \in Seen(c)' : n \in Seen(c) \/ n = name
  BY <1>3, <1>4 DEF Around, Seen, asw
<1>6. Given(c, name)'
  BY <1>1, <1>2, <1>3 DEF Given, CsName
<1>7. asSeq <= asSeq' /\ csSeq[c] <= csSeq'[c]
  BY <1>2, <1>3 DEF asw, TypeOK
<1>8. \A i \in DOMAIN chan'[c] : chan'[c][i].func = "do" => chan'[c][i].name \notin Seen(c)'
  <2>1. name.kind # "as"
    BY <1>1 DEF CsName
  <2> QED BY <1>5, <2>1, ComingStaysNew
<1> QED BY <1>5, <1>6, <1>7, <1>8, GivenStep

\* Undo and redo at the csworker.
LEMMA HereGiven ==
    ASSUME TypeOK, NEW c \in CSWorker, NEW name, UndoHere(c, name) \/ RedoHere(c, name),
           UNCHANGED <<asw, before>>
    PROVE  Around(c)' \subseteq Around(c) /\ Seen(c)' \subseteq Seen(c)
<1>1. csJournal[c] \in Journals(Entry)
  BY HereTypes
<1>2. PICK k \in Journals(Entry) :
         /\ k.log = csJournal[c].log /\ csJournal'[c] = k
         /\ \/ csContent'[c] = Without(csContent[c], csJournal[c], k)
            \/ csContent'[c] = With(csContent[c], csJournal[c], k)
  <2>1. CASE UndoHere(c, name)
    <3>1. PICK k \in Journals(Entry) : k = UndoneUntil(csJournal[c], name) /\ k.log = csJournal[c].log
      BY <1>1, UndoneUntilFacts
    <3>2. /\ csJournal' = [csJournal EXCEPT ![c] = k]
          /\ csContent' = [csContent EXCEPT ![c] = Without(csContent[c], csJournal[c], k)]
      BY <2>1, <3>1 DEF UndoHere
    <3> QED BY <3>1, <3>2 DEF TypeOK
  <2>2. CASE RedoHere(c, name)
    <3>1. PICK k \in Journals(Entry) : k = RedoneUntil(csJournal[c], name) /\ k.log = csJournal[c].log
      BY <1>1, RedoneUntilFacts
    <3>2. /\ csJournal' = [csJournal EXCEPT ![c] = k]
          /\ csContent' = [csContent EXCEPT ![c] = With(csContent[c], csJournal[c], k)]
      BY <2>2, <3>1 DEF RedoHere
    <3> QED BY <3>1, <3>2 DEF TypeOK
  <2> QED BY <2>1, <2>2
<1>3. /\ Named(k) = Named(csJournal[c])
      /\ csContent'[c] \subseteq csContent[c] \cup Named(csJournal[c])
  <2>1. PICK j \in Journals(Entry) : j = csJournal[c]
    BY <1>1
  <2>2. /\ Named(k) = Named(j) /\ Without(csContent[c], j, k) \subseteq csContent[c]
        /\ With(csContent[c], j, k) \subseteq csContent[c] \cup Named(j)
    BY <1>2, <2>1, NamedMoved
  <2> QED BY <1>2, <2>1, <2>2
<1> QED BY <1>2, <1>3 DEF Around, Seen, asw

LEMMA ApplyGiven ==
    ASSUME TypeOK, TypeOK', NEW c \in CSWorker, Story(c), AllGiven(c), Apply(c)
    PROVE  AllGiven(c)'
<1>1. PICK func : Arrived(c, func)
  BY DEF Apply, ApplyDo, ApplyMark, ApplyUndo, ApplyRedo
<1>2. /\ chan[c] # <<>> /\ chan'[c] = Tail(chan[c]) /\ News(c) = Head(chan[c]) /\ News(c).func = func
      /\ News(c).name \in Name /\ Head(chan[c]) = chan[c][1] /\ 1 \in DOMAIN chan[c]
      /\ UNCHANGED <<asw, csSeq, ops, before>>
  BY <1>1, ChangelogApplied DEF Arrived
<1>3. PICK name \in Name : name = Head(chan[c]).name
  BY <1>2
<1>4. /\ Len(chan'[c]) \in Nat /\ DOMAIN chan'[c] = 1 .. Len(chan'[c])
      /\ \A i \in 1 .. Len(chan'[c]) : i + 1 \in DOMAIN chan[c] /\ chan'[c][i] = chan[c][i + 1]
      /\ \A i \in 0 .. Len(chan'[c]) : \A n :
            ComesBy(c, i + 1, n) <=> n = Head(chan[c]).name \/ ComesBy(c, i, n)'
  BY <1>2, ChanShrinks
<1>5. csJournal[c] \in Journals(Entry) /\ csSeq[c] \in Nat /\ asSeq \in Nat /\ ops \in Nat
  <2>1. asSeq \in Nat /\ ops \in Nat
    BY Constants DEF TypeOK
  <2> QED BY <2>1, HereTypes
<1>6. /\ asSeq <= asSeq' /\ csSeq[c] <= csSeq'[c] /\ ops <= ops'
      /\ Given(c, name) => Given(c, name)'
  BY <1>2, <1>5 DEF asw, Given
<1>7. \A i \in DOMAIN chan'[c] : chan'[c][i].func = "do" =>
         chan'[c][i].name # name /\ chan'[c][i].name \notin Seen(c)
  <2>1. SUFFICES ASSUME NEW i \in 1 .. Len(chan'[c]), chan'[c][i].func = "do"
                 PROVE  chan'[c][i].name # name /\ chan'[c][i].name \notin Seen(c)
    BY <1>4
  <2>2. i + 1 \in DOMAIN chan[c] /\ chan'[c][i] = chan[c][i + 1]
    BY <1>4
  <2>3. chan'[c][i].name \notin Seen(c)
    BY <2>1, <2>2 DEF AllGiven
  <2>4. ~ComesBy(c, i + 1 - 1, chan'[c][i].name)
    BY <2>1, <2>2 DEF Story, NewsIsNew, Brings
  <2>5. ~ComesBy(c, i, chan'[c][i].name)
    BY <1>4, <2>4
  <2>6. ComesBy(c, i, name)
    BY <1>2, <1>3, <1>4 DEF ComesBy
  <2> QED BY <2>3, <2>5, <2>6
<1>8. CASE ApplyDo(c) \/ ApplyMark(c)
  <2>1. Brings(News(c))
    BY <1>2, <1>8 DEF ApplyDo, ApplyMark, Arrived, Brings
  <2>2. Given(c, name)
    BY <1>2, <1>3, <2>1 DEF Story, NewsIsNew
  <2>3. /\ \/ csJournal'[c] = SetUserCheckpoint(csJournal[c], name)
           \/ csJournal'[c] = Done(SetUserCheckpoint(csJournal[c], name), name)
        /\ csContent'[c] \subseteq csContent[c] \cup {name}
    BY <1>3, <1>8 DEF ApplyDo, ApplyMark, TypeOK
  <2>4. Named(csJournal'[c]) \subseteq Named(csJournal[c]) \cup {name}
    <3>1. /\ SetUserCheckpoint(csJournal[c], name) \in Journals(Entry)
          /\ Named(SetUserCheckpoint(csJournal[c], name)) \subseteq Named(csJournal[c]) \cup {name}
      BY <1>5, UserCheckpointTypes, NamedMark
    <3>2. Named(Done(SetUserCheckpoint(csJournal[c], name), name))
             \subseteq Named(SetUserCheckpoint(csJournal[c], name)) \cup {name}
      BY <3>1, NamedDone
    <3> QED BY <2>3, <3>1, <3>2
  <2>5. /\ \A n \in Around(c)' : n \in Around(c) \/ n = name
        /\ \A n \in Seen(c)' : n \in Seen(c) \/ n = name
    BY <1>2, <2>3, <2>4 DEF Around, Seen, asw
  <2>6. Given(c, name)'
    BY <1>6, <2>2
  <2>7. \A i \in DOMAIN chan'[c] : chan'[c][i].func = "do" => chan'[c][i].name \notin Seen(c)'
    BY <1>7, <2>5
  <2> QED BY <1>6, <2>5, <2>6, <2>7, GivenStep
<1>9. CASE ApplyUndo(c) \/ ApplyRedo(c)
  <2>1. UndoHere(c, name) \/ RedoHere(c, name)
    BY <1>3, <1>9 DEF ApplyUndo, ApplyRedo
  <2>2. Around(c)' \subseteq Around(c) /\ Seen(c)' \subseteq Seen(c)
    BY <1>2, <2>1, HereGiven
  <2>3. \A i \in DOMAIN chan'[c] : chan'[c][i].func = "do" => chan'[c][i].name \notin Seen(c)'
    BY <1>7, <2>2
  <2> QED BY <1>6, <2>2, <2>3, GivenStep
<1> QED BY <1>8, <1>9 DEF Apply

LEMMA ClientGiven ==
    ASSUME TypeOK, TypeOK', NEW c \in CSWorker, Story(c), AllGiven(c), Client(c) \/ Batch(c)
    PROVE  AllGiven(c)'
<1>1. ops <= ops' /\ UNCHANGED <<asw, chan>>
  <2>1. CASE Client(c)
    <3>1. Asked(c) /\ UNCHANGED <<asw, chan>>
      BY <2>1 DEF Client, AskForEdit, LocalEdit, Undo, Redo, StartBatch
    <3> QED BY <3>1 DEF Asked, TypeOK
  <2>2. CASE Batch(c)
    <3>1. UNCHANGED <<asw, chan, ops>>
      BY <2>2 DEF Batch, NextEdit, LastEditDone, EndBatch, Rollback, GotReply
    <3> QED BY <3>1, Constants DEF TypeOK
  <2> QED BY <2>1, <2>2
<1>2. ASSUME Around(c)' \subseteq Around(c), Seen(c)' \subseteq Seen(c), csSeq' = csSeq
      PROVE  AllGiven(c)'
  <2>1. asSeq <= asSeq' /\ csSeq[c] <= csSeq'[c]
    BY <1>1, <1>2 DEF asw, TypeOK
  <2>2. \A i \in DOMAIN chan'[c] : chan'[c][i].func = "do" => chan'[c][i].name \notin Seen(c)'
    BY <1>1, <1>2, ComingStaysNew
  <2> QED BY <1>1, <1>2, <2>1, <2>2, GivenStep
<1>3. CASE UNCHANGED <<csJournal, csContent, before, csSeq>>
  <2>1. Around(c)' \subseteq Around(c) /\ Seen(c)' \subseteq Seen(c)
    BY <1>1, <1>3 DEF Around, Seen, asw
  <2> QED BY <1>2, <1>3, <2>1
<1>4. CASE EditHere(c) /\ UNCHANGED before
  BY <1>1, <1>4, EditHereGiven
<1>5. CASE (\E name : UndoHere(c, name) \/ RedoHere(c, name)) /\ UNCHANGED <<before, csSeq>>
  BY <1>1, <1>2, <1>5, HereGiven
<1>6. CASE StartBatch(c)
  <2>1. /\ before'[c].as = asContent /\ before'[c].cs = csContent[c]
        /\ UNCHANGED <<csJournal, csContent, csSeq>>
    BY <1>6 DEF StartBatch, TypeOK, model
  <2>2. Around(c)' \subseteq Around(c) /\ Seen(c)' \subseteq Seen(c)
    BY <1>1, <2>1 DEF Around, Seen, asw
  <2> QED BY <1>2, <2>1, <2>2
<1>7. \/ UNCHANGED <<csJournal, csContent, before, csSeq>>
      \/ EditHere(c) /\ UNCHANGED before
      \/ (\E name : UndoHere(c, name) \/ RedoHere(c, name)) /\ UNCHANGED <<before, csSeq>>
      \/ StartBatch(c)
  <2>1. CASE AskForEdit(c) \/ LocalEdit(c) \/ StartBatch(c)
    BY <2>1 DEF AskForEdit, LocalEdit, model
  <2>2. CASE Undo(c)
    BY <2>2 DEF Undo
  <2>3. CASE Redo(c)
    BY <2>3 DEF Redo
  <2>4. CASE Batch(c)
    BY <2>4 DEF Batch, NextEdit, LastEditDone, EndBatch, Rollback, GotReply, model
  <2> QED BY <2>1, <2>2, <2>3, <2>4 DEF Client
<1> QED BY <1>3, <1>4, <1>5, <1>6, <1>7

-----------------------------------------------------------------------------
(* What a batchEdit can go back to.                                        *)

AsRestored(c) == asContent = before[c].as
CsRestored(c) == csContent[c] = before[c].cs
AsRecalls(c, b) == Recalls(asContent, asJournal, b, before[c].as)
CsRecalls(c, b) == Recalls(csContent[c], csJournal[c], b, before[c].cs)

\* The start checkpoint of b is applied next, and nothing has been done since b began.
StartIsNext(c, b) == chan[c] # <<>> /\ Head(chan[c]) = Mark(StartOf(b)) /\ CsRestored(c)

\* Undoing until the start checkpoint of b will give what was before b.
GoesBack(c, b) == AsRecalls(c, b) /\ (CsRecalls(c, b) \/ StartIsNext(c, b))

\* The end checkpoint of b is the last to be applied, or was.
EndIsLast(c, b) ==
    IF chan[c] = <<>> THEN cursor[c] > 0 /\ names[c][cursor[c]] = EndOf(b)
                      ELSE chan[c][Len(chan[c])] = Mark(EndOf(b))

\* Batch b is being undone, or has been.
Returns(c, b) ==
    /\ News(c) \in {Nothing, UndoRedo("undo", StartOf(b))}
    /\ News(c) = Nothing => AsRestored(c) /\ CsRestored(c)
    /\ News(c) # Nothing => /\ CsRecalls(c, b)
                            /\ IF chan[c] = <<>> THEN AsRecalls(c, b) ELSE AsRestored(c)

\* Nothing has been done since b began.
Untouched(c, b) ==
    AsRestored(c) /\ CsRestored(c) /\ chan[c] \in {<<>>, <<Mark(StartOf(b))>>}

\* What the asworker is asked for at each step.
RequestOfBatch(c) ==
    LET step == batch[c].step IN
    /\ step \in {0, BatchLen + 1} => request[c].func \in {"none", "mark"}
    /\ step \in 1 .. BatchLen => request[c].func \in {"none", "edit"}
    /\ batch[c].reply = "error" => request[c] = Nothing

\* Nothing has been done before the first edit and when it is refused; once the start
\* checkpoint is set at the asworker, each worker can go back.
InBatch(c) ==
    LET b == batch[c] IN
    /\ RequestOfBatch(c)
    /\ b.step = 0 \/ (b.step = 1 /\ (request[c] = Edit \/ b.reply = "error")) => Untouched(c, b.id)
    /\ b.step = 0 /\ request[c] # Nothing =>
          /\ chan[c] = <<>>
          /\ \A i \in DOMAIN asJournal.log : ~IsNamed(asJournal.log[i], StartOf(b.id))
    /\ b.step <= BatchLen + 1 => (b.step = 0 /\ request[c] # Nothing) \/ GoesBack(c, b.id)
    /\ b.step = BatchLen + 1 /\ request[c] = Nothing => EndIsLast(c, b.id)
    /\ b.step = BatchLen + 2 => crashed[c] \/ Returns(c, b.id)

AfterBatch(c) ==
    /\ outcome[c] = "failed" => /\ request[c] = Nothing
                                /\ crashed[c] \/ \E b \in 1 .. ops : Returns(c, b) \/ Untouched(c, b)
    /\ outcome[c] = "undone" => crashed[c] \/ \E b \in 1 .. ops : Returns(c, b)
    /\ outcome[c] = "done" =>
          /\ request[c] = Nothing /\ \A i \in DOMAIN chan[c] : ~Moves(chan[c][i])
          /\ \E b \in 1 .. ops : EndIsLast(c, b) /\ GoesBack(c, b)

AtomicStory(c) == IF batch[c] = NoBatch THEN AfterBatch(c) ELSE InBatch(c)

\* The identity and the step of a batchEdit.
LEMMA BatchIs ==
    ASSUME TypeOK, NEW c \in CSWorker, batch[c] # NoBatch, BatchIsMarked(c)
    PROVE  /\ batch[c] \in [id : 0 .. MaxOps, step : 0 .. BatchLen + 2, reply : {"none", "ok", "error"}]
           /\ batch[c].id \in Nat \ {0} /\ batch[c].id \in 1 .. ops
           /\ batch[c].step \in 0 .. BatchLen + 2
           /\ BatchLen \in Nat \ {0} /\ ops \in Nat
           /\ batch[c].reply = "error" \/ request[c] = Edit => batch[c].step \in 1 .. BatchLen
<1>1. batch[c] \in [id : 0 .. MaxOps, step : 0 .. BatchLen + 2, reply : {"none", "ok", "error"}]
  BY DEF TypeOK
<1>2. batch[c].id \in 1 .. ops /\ ops \in Nat /\ BatchLen \in Nat \ {0}
  BY Constants DEF TypeOK, BatchIsMarked
<1>3. batch[c].reply = "error" \/ request[c] = Edit => batch[c].step \in 1 .. BatchLen
  BY DEF BatchIsMarked
<1>4. batch[c].step \in 0 .. BatchLen + 2 /\ batch[c].id \in Nat \ {0}
  BY <1>1, <1>2
<1> QED BY <1>1, <1>2, <1>3, <1>4

\* What the asworker leaves alone.
LEMMA ServedElse ==
    ASSUME NEW c \in CSWorker, Serve(c)
    PROVE  /\ UNCHANGED <<csJournal, csContent, names, cursor, before, outcome, crashed, ops>>
           /\ \A b : CsRecalls(c, b)' = CsRecalls(c, b)
           /\ CsRestored(c)' = CsRestored(c)
<1>1. UNCHANGED <<csJournal, csContent, names, cursor, before, outcome, crashed, ops>>
  BY DEF Serve, EditSucceeds, EditChangesNothing, EditRefused, SetMark, AswUndo, AswRedo, model, history
<1> QED BY <1>1 DEF CsRecalls, CsRestored

LEMMA BroadcastOne ==
    ASSUME TypeOK, NEW c \in CSWorker, NEW r, Broadcast(r)
    PROVE  chan'[c] = Append(chan[c], r) /\ (chan[c] = <<>> => chan'[c] = <<r>>)
<1>1. chan'[c] = Append(chan[c], r)
  BY DEF Broadcast
<1> QED BY <1>1, ChanGrows

\* The asworker undoes a batch.
LEMMA ServeReturns ==
    ASSUME TypeOK, NEW c \in CSWorker, MovesAlone(c), Serve(c), NEW b \in Nat, Returns(c, b)
    PROVE  Returns(c, b)'
<1>1. request[c] # Nothing
  BY Served
<1>2. PICK r : r = UndoRedo("undo", StartOf(b))
  OBVIOUS
<1>3. r.func = "undo" /\ r.name = StartOf(b) /\ r # Nothing
  BY <1>2 DEF UndoRedo, Nothing
<1>4. chan[c] = <<>>
  <2>1. SUFFICES ASSUME chan[c] # <<>> PROVE FALSE
    OBVIOUS
  <2>2. Head(chan[c]) = chan[c][1] /\ 1 \in DOMAIN chan[c] /\ chan[c][1] \in Posted
    BY <2>1, ChanTypes
  <2>3. chan[c][1] = r
    BY <1>2, <2>1, <2>2 DEF Returns, News, Posted, Nothing
  <2> QED BY <1>1, <1>3, <2>2, <2>3 DEF MovesAlone, Moves
<1>5. request[c] = r /\ AsRecalls(c, b) /\ CsRecalls(c, b)
  BY <1>1, <1>2, <1>4 DEF Returns, News
<1>6. AswUndo(c)
  BY <1>3, <1>5 DEF Serve, EditSucceeds, EditChangesNothing, EditRefused, SetMark, AswRedo, Edit
<1>7. /\ asJournal' = UndoneUntil(asJournal, StartOf(b))
      /\ asContent' = Without(asContent, asJournal, asJournal') /\ before' = before
      /\ chan'[c] = <<r>>
  <2>1. IsWhole(r)
    BY <1>3 DEF IsWhole, StartOf
  <2>2. Broadcast(r)
    BY <1>5, <1>6 DEF AswUndo
  <2>3. chan'[c] = <<r>>
    BY <1>4, <2>2, BroadcastOne
  <2> QED BY <1>3, <1>5, <1>6, <2>1, <2>3 DEF AswUndo, AswUndone
<1>8. AsRestored(c)'
  <2>1. asJournal \in Journals(Entry)
    BY JournalsAre DEF TypeOK
  <2>2. Without(asContent, asJournal, UndoneUntil(asJournal, StartOf(b))) = before[c].as
    BY <1>5, <2>1, RecallsUndone DEF AsRecalls
  <2> QED BY <1>7, <2>2 DEF AsRestored
<1>9. News(c)' = r /\ chan'[c] # <<>>
  BY <1>7 DEF News
<1>10. CsRecalls(c, b)'
  BY <1>5, ServedElse
<1> QED BY <1>2, <1>3, <1>8, <1>9, <1>10 DEF Returns, UndoRedo, StartOf

\* The asworker carries out an edit, or sets a checkpoint that is not the start of b.
LEMMA ServeGoesBack ==
    ASSUME TypeOK, NEW c \in CSWorker, MovesAlone(c), AllGiven(c), Serve(c), NEW b \in Nat,
           GoesBack(c, b), request[c] = Edit \/ request[c] = Mark(EndOf(b))
    PROVE  GoesBack(c, b)'
<1>1. asJournal \in Journals(Entry) /\ before' = before
  BY JournalsAre, ServedElse DEF TypeOK
<1>2. AsRecalls(c, b)'
  <2>1. CASE EditSucceeds(c)
    <3>1. PICK name \in Name : name = AsName(asSeq + 1)
      <4>1. asSeq + 1 \in Nat
        BY DEF TypeOK
      <4> QED BY <4>1, Names
    <3>2. asJournal' = Done(asJournal, name) /\ asContent' = asContent \cup {name}
      BY <2>1, <3>1 DEF EditSucceeds
    <3>3. name \notin before[c].as
      <4>1. ~Given(c, name)
        BY <3>1 DEF Given, AsName, TypeOK
      <4> QED BY <4>1 DEF AllGiven, Around
    <3>4. Recalls(asContent \cup {name}, Done(asJournal, name), b, before[c].as)
      BY <1>1, <3>3, RecallsDone DEF GoesBack, AsRecalls
    <3> QED BY <1>1, <3>2, <3>4 DEF AsRecalls
  <2>2. CASE EditChangesNothing(c) \/ EditRefused(c)
    <3>1. asJournal' = SetStepCheckpoint(asJournal) /\ asContent' = asContent
      BY <2>2 DEF EditChangesNothing, EditRefused
    <3>2. Recalls(asContent, SetStepCheckpoint(asJournal), b, before[c].as)
      BY <1>1, RecallsStep DEF GoesBack, AsRecalls
    <3> QED BY <1>1, <3>1, <3>2 DEF AsRecalls
  <2>3. CASE SetMark(c)
    <3>1. PICK name \in Name : name = EndOf(b) /\ name # StartOf(b)
      BY Names DEF StartOf, EndOf
    <3>2. asJournal' = SetUserCheckpoint(asJournal, name) /\ asContent' = asContent
      BY <2>3, <3>1 DEF SetMark, Mark, Edit
    <3>3. Recalls(asContent, SetUserCheckpoint(asJournal, name), b, before[c].as)
      BY <1>1, <3>1, RecallsMark DEF GoesBack, AsRecalls
    <3> QED BY <1>1, <3>2, <3>3 DEF AsRecalls
  <2> QED BY <2>1, <2>2, <2>3 DEF Serve, AswUndo, AswRedo, Edit, Mark
<1>3. StartIsNext(c, b) => StartIsNext(c, b)'
  <2>1. CASE chan'[c] = chan[c]
    BY <2>1, ServedElse DEF StartIsNext, Mark, StartOf
  <2>2. CASE chan'[c] # chan[c]
    <3>1. PICK m : chan'[c] = Append(chan[c], m)
      BY <2>2, Served
    <3>2. chan'[c] # <<>> /\ (chan[c] # <<>> => Head(chan'[c]) = Head(chan[c]))
      BY <3>1, ChanGrows
    <3> QED BY <3>2, ServedElse DEF StartIsNext, Mark, StartOf
  <2> QED BY <2>1, <2>2
<1> QED BY <1>2, <1>3, ServedElse DEF GoesBack

LEMMA ServeAtomic ==
    ASSUME TypeOK, TypeOK', NEW c \in CSWorker, Story(c), AllGiven(c), AtomicStory(c), Serve(c)
    PROVE  AtomicStory(c)'
<1>1. MovesAlone(c) /\ BatchIsMarked(c)
  BY DEF Story
<1>2. /\ request[c] # Nothing /\ request'[c] = Nothing
      /\ batch[c] = NoBatch => batch'[c] = NoBatch
      /\ \E reply : /\ batch[c] # NoBatch => batch'[c] = [batch[c] EXCEPT !.reply = reply]
                    /\ reply = "error" => request[c] = Edit
      /\ UNCHANGED <<csJournal, csContent, names, cursor, before, outcome, crashed, ops>>
      /\ CsRestored(c)' = CsRestored(c)
  BY <1>1, Served, ServedElse
<1>3. CASE batch[c] = NoBatch
  <2>1. AfterBatch(c) /\ ops \in Nat
    BY <1>3, Constants DEF AtomicStory, TypeOK
  <2>2. outcome[c] # "failed" /\ outcome[c] # "done"
    BY <1>2, <2>1 DEF AfterBatch
  <2>3. outcome[c] = "undone" => crashed[c] \/ \E b \in 1 .. ops : Returns(c, b)'
    <3>1. SUFFICES ASSUME NEW b \in 1 .. ops, Returns(c, b) PROVE Returns(c, b)'
      BY <2>1 DEF AfterBatch
    <3>2. b \in Nat
      BY <2>1
    <3> QED BY <1>1, <3>1, <3>2, ServeReturns
  <2>4. AfterBatch(c)'
    BY <1>2, <2>2, <2>3 DEF AfterBatch
  <2> QED BY <1>2, <1>3, <2>4 DEF AtomicStory
<1>4. CASE batch[c] # NoBatch
  <2>1. PICK reply : /\ batch'[c] = [batch[c] EXCEPT !.reply = reply]
                     /\ reply = "error" => request[c] = Edit
    BY <1>2, <1>4
  <2>2. PICK id, step : id = batch[c].id /\ step = batch[c].step
    OBVIOUS
  <2>3. /\ batch'[c].id = id /\ batch'[c].step = step /\ batch'[c].reply = reply
        /\ batch'[c] # NoBatch /\ id \in Nat /\ step \in 0 .. BatchLen + 2
        /\ BatchLen \in Nat \ {0}
        /\ request[c] = Edit => step \in 1 .. BatchLen
    <3>1. /\ batch[c] \in [id : 0 .. MaxOps, step : 0 .. BatchLen + 2, reply : {"none", "ok", "error"}]
          /\ id \in Nat \ {0} /\ step \in 0 .. BatchLen + 2 /\ BatchLen \in Nat \ {0}
          /\ request[c] = Edit => step \in 1 .. BatchLen
      BY <1>1, <1>4, <2>2, BatchIs
    <3>2. batch'[c].id = id /\ batch'[c].step = step /\ batch'[c].reply = reply
      BY <2>1, <2>2, <3>1
    <3> QED BY <3>1, <3>2 DEF NoBatch
  <2>4. /\ InBatch(c) /\ RequestOfBatch(c)
        /\ request[c].func = "mark" => \/ step = 0 /\ request[c].name = StartOf(id)
                                       \/ step = BatchLen + 1 /\ request[c].name = EndOf(id)
    BY <1>1, <1>4, <2>2 DEF AtomicStory, InBatch, BatchIsMarked
  <2>5. RequestOfBatch(c)'
    BY <1>2 DEF RequestOfBatch, Nothing
  <2>6. CASE step = BatchLen + 2
    <3>1. crashed[c] \/ Returns(c, id)'
      <4>1. crashed[c] \/ Returns(c, id)
        BY <2>2, <2>4, <2>6 DEF InBatch
      <4> QED BY <1>1, <2>3, <4>1, ServeReturns
    <3>2. ~(step <= BatchLen + 1) /\ step # BatchLen + 1 /\ step # 0 /\ step # 1
      BY <2>3, <2>6
    <3>3. InBatch(c)'
      BY <1>2, <2>3, <2>5, <3>1, <3>2 DEF InBatch
    <3> QED BY <2>3, <3>3 DEF AtomicStory
  <2>7. CASE step \in 1 .. BatchLen
    <3>1. step # 0 /\ step # BatchLen + 1 /\ step # BatchLen + 2 /\ step <= BatchLen + 1
      BY <2>3, <2>7
    <3>2. request[c] = Edit
      BY <1>2, <2>2, <2>4, <2>7, RequestKinds DEF RequestOfBatch
    <3>3. GoesBack(c, id)'
      <4>1. GoesBack(c, id)
        BY <2>2, <2>4, <3>1 DEF InBatch
      <4> QED BY <1>1, <2>3, <3>2, <4>1, ServeGoesBack
    <3>4. step = 1 /\ reply = "error" => Untouched(c, id)'
      <4>1. SUFFICES ASSUME step = 1, reply = "error" PROVE Untouched(c, id)'
        OBVIOUS
      <4>2. EditRefused(c)
        <5>1. ~Respond(c, "ok")
          <6>1. Respond(c, "ok") => batch'[c].reply = "ok"
            BY <1>4 DEF Respond, TypeOK
          <6> QED BY <2>3, <4>1, <6>1
        <5> QED BY <3>2, <5>1 DEF Serve, EditSucceeds, EditChangesNothing, SetMark, AswUndo, AswRedo, Edit
      <4>3. asContent' = asContent /\ chan' = chan
        BY <4>2 DEF EditRefused
      <4>4. Untouched(c, id)
        BY <2>2, <2>4, <3>2, <4>1 DEF InBatch
      <4> QED BY <1>2, <4>3, <4>4 DEF Untouched, AsRestored, Mark, StartOf
    <3>5. request'[c] # Edit
      BY <1>2 DEF Nothing, Edit
    <3>6. InBatch(c)'
      BY <2>3, <2>5, <3>1, <3>3, <3>4, <3>5 DEF InBatch
    <3> QED BY <2>3, <3>6 DEF AtomicStory
  <2>8. CASE step = 0
    <3>1. step # 1 /\ step # BatchLen + 1 /\ step # BatchLen + 2
      BY <2>3, <2>8
    <3>2. request[c] = Mark(StartOf(id))
      <4>1. request[c].func = "mark"
        BY <1>2, <2>2, <2>4, <2>8, RequestKinds DEF RequestOfBatch
      <4>2. request[c].name = StartOf(id)
        BY <2>4, <3>1, <4>1
      <4> QED BY <4>1, <4>2, RequestKinds
    <3>3. /\ chan[c] = <<>> /\ AsRestored(c) /\ CsRestored(c)
          /\ \A i \in DOMAIN asJournal.log : ~IsNamed(asJournal.log[i], StartOf(id))
      BY <1>2, <2>2, <2>4, <2>8 DEF InBatch, Untouched
    <3>4. /\ asJournal' = SetUserCheckpoint(asJournal, StartOf(id)) /\ asContent' = asContent
          /\ chan'[c] = <<Mark(StartOf(id))>>
      <4>1. SetMark(c)
        BY <3>2 DEF Serve, EditSucceeds, EditChangesNothing, EditRefused, AswUndo, AswRedo, Edit, Mark
      <4>2. Broadcast(request[c]) /\ asContent' = asContent
            /\ asJournal' = SetUserCheckpoint(asJournal, request[c].name)
        BY <4>1 DEF SetMark
      <4> QED BY <3>2, <3>3, <4>2, BroadcastOne DEF Mark
    <3>5. Untouched(c, id)'
      BY <1>2, <3>3, <3>4 DEF Untouched, AsRestored, Mark, StartOf
    <3>6. AsRecalls(c, id)'
      <4>1. asJournal \in Journals(Entry)
        BY JournalsAre DEF TypeOK
      <4>2. Recalls(asContent, SetUserCheckpoint(asJournal, StartOf(id)), id, asContent)
        BY <2>3, <3>3, <4>1, StartRecalls
      <4> QED BY <1>2, <3>3, <3>4, <4>2 DEF AsRecalls, AsRestored
    <3>7. StartIsNext(c, id)'
      BY <1>2, <3>3, <3>4 DEF StartIsNext, Mark, StartOf
    <3>8. InBatch(c)'
      BY <1>2, <2>3, <2>5, <2>8, <3>1, <3>5, <3>6, <3>7 DEF InBatch, GoesBack
    <3> QED BY <2>3, <3>8 DEF AtomicStory
  <2>9. CASE step = BatchLen + 1
    <3>1. step # 0 /\ step # 1 /\ step # BatchLen + 2 /\ step <= BatchLen + 1
      BY <2>3, <2>9
    <3>2. request[c] = Mark(EndOf(id))
      <4>1. request[c].func = "mark"
        BY <1>2, <2>2, <2>4, <2>9, RequestKinds DEF RequestOfBatch
      <4>2. request[c].name = EndOf(id)
        BY <2>4, <3>1, <4>1
      <4> QED BY <4>1, <4>2, RequestKinds
    <3>3. GoesBack(c, id)'
      <4>1. GoesBack(c, id)
        BY <2>2, <2>4, <3>1 DEF InBatch
      <4> QED BY <1>1, <2>3, <3>2, <4>1, ServeGoesBack
    <3>4. EndIsLast(c, id)'
      <4>1. SetMark(c)
        BY <3>2 DEF Serve, EditSucceeds, EditChangesNothing, EditRefused, AswUndo, AswRedo, Edit, Mark
      <4>2. chan'[c] = Append(chan[c], Mark(EndOf(id)))
        BY <3>2, <4>1, BroadcastOne DEF SetMark
      <4>3. chan'[c] # <<>> /\ Len(chan'[c]) = Len(chan[c]) + 1
            /\ chan'[c][Len(chan[c]) + 1] = Mark(EndOf(id))
        BY <4>2, ChanGrows
      <4> QED BY <4>3 DEF EndIsLast, Mark, EndOf
    <3>5. InBatch(c)'
      BY <2>3, <2>5, <3>1, <3>3, <3>4 DEF InBatch
    <3> QED BY <2>3, <3>5 DEF AtomicStory
  <2>10. step \in 1 .. BatchLen \/ step = 0 \/ step = BatchLen + 1 \/ step = BatchLen + 2
    BY <2>3
  <2> QED BY <2>6, <2>7, <2>8, <2>9, <2>10
<1> QED BY <1>3, <1>4

-----------------------------------------------------------------------------
(* The csworker applies a changelog.                                       *)

LEMMA ApplyReturns ==
    ASSUME TypeOK, NEW c \in CSWorker, MovesAlone(c), Apply(c), NEW b \in Nat, Returns(c, b)
    PROVE  Returns(c, b)'
<1>1. PICK func : Arrived(c, func)
  BY DEF Apply, ApplyDo, ApplyMark, ApplyUndo, ApplyRedo
<1>2. /\ chan[c] # <<>> /\ News(c) = Head(chan[c]) /\ Head(chan[c]) \in Posted /\ request' = request
      /\ asContent' = asContent /\ before' = before
  BY <1>1, ChangelogApplied, HeadTypes DEF Arrived
<1>3. PICK r : r = UndoRedo("undo", StartOf(b))
  OBVIOUS
<1>4. News(c) = r /\ AsRestored(c) /\ CsRecalls(c, b) /\ r.func = "undo" /\ r.name = StartOf(b)
  BY <1>2, <1>3 DEF Returns, UndoRedo, Posted, Nothing
<1>5. ApplyUndo(c)
  BY <1>2, <1>4 DEF Apply, ApplyDo, ApplyMark, ApplyRedo, Arrived
<1>6. chan'[c] = <<>> /\ request'[c] = Nothing
  BY <1>1, <1>2, <1>4, ApplyMoves DEF Moves
<1>7. PICK j \in Journals(Entry), k \in Journals(Entry) :
         j = csJournal[c] /\ k = UndoneUntil(j, StartOf(b))
  BY HereTypes, UndoneUntilFacts
<1>8. csContent'[c] = Without(csContent[c], j, k)
  <2>1. csContent' = [csContent EXCEPT ![c] = Without(csContent[c], j, k)]
    BY <1>2, <1>4, <1>5, <1>7 DEF ApplyUndo, UndoHere
  <2> QED BY <2>1 DEF TypeOK
<1>9. csContent'[c] = before[c].cs
  BY <1>4, <1>7, <1>8, RecallsUndone DEF CsRecalls
<1>10. News(c)' = Nothing
  BY <1>6 DEF News
<1> QED BY <1>2, <1>4, <1>9, <1>10 DEF Returns, AsRestored, CsRestored

LEMMA ApplyUntouched ==
    ASSUME TypeOK, NEW c \in CSWorker, Apply(c), NEW b \in Nat, Untouched(c, b)
    PROVE  Untouched(c, b)'
<1>1. PICK func : Arrived(c, func)
  BY DEF Apply, ApplyDo, ApplyMark, ApplyUndo, ApplyRedo
<1>2. /\ chan[c] # <<>> /\ chan'[c] = Tail(chan[c]) /\ Head(chan[c]) = chan[c][1]
      /\ asContent' = asContent /\ before' = before
  BY <1>1, ChangelogApplied DEF Arrived
<1>3. chan[c] = <<Mark(StartOf(b))>>
  BY <1>2 DEF Untouched
<1>4. ApplyMark(c) /\ chan'[c] = <<>>
  BY <1>2, <1>3 DEF Apply, ApplyDo, ApplyUndo, ApplyRedo, Arrived, Mark
<1>5. csContent' = csContent
  BY <1>4 DEF ApplyMark
<1> QED BY <1>2, <1>4, <1>5 DEF Untouched, AsRestored, CsRestored

\* A name that is not in the list is no checkpoint of the journal.
LEMMA UnknownUnmarked ==
    ASSUME NEW c \in CSWorker, JournalFollows(c), ~Moves(News(c)), NEW name, ~Knows(c, name)
    PROVE  \A i \in DOMAIN csJournal[c].log : ~IsNamed(csJournal[c].log[i], name)
<1>1. Marked(names[c], cursor[c], csJournal[c])
  BY DEF JournalFollows
<1>2. \A i \in UserCheckpoints(csJournal[c]) : csJournal[c].log[i].name # name
  BY <1>1 DEF Marked, Knows
<1> QED BY <1>2 DEF UserCheckpoints, IsNamed

\* The csworker applies what comes next of a batch.
LEMMA ApplyGoesBack ==
    ASSUME TypeOK, NEW c \in CSWorker, Story(c), AllGiven(c), Apply(c), ~Moves(Head(chan[c])),
           NEW b \in Nat, GoesBack(c, b)
    PROVE  AsRecalls(c, b)' /\ CsRecalls(c, b)'
<1>1. PICK func : Arrived(c, func)
  BY DEF Apply, ApplyDo, ApplyMark, ApplyUndo, ApplyRedo
<1>2. /\ chan[c] # <<>> /\ News(c) = Head(chan[c]) /\ News(c).func = func /\ News(c).name \in Name
      /\ Head(chan[c]) = chan[c][1] /\ 1 \in DOMAIN chan[c]
      /\ asContent' = asContent /\ asJournal' = asJournal /\ before' = before
  BY <1>1, ChangelogApplied DEF Arrived
<1>3. PICK name \in Name : name = Head(chan[c]).name
  BY <1>2
<1>4. PICK j \in Journals(Entry), k \in Journals(Entry), content \in SUBSET Name :
         j = csJournal[c] /\ k = SetUserCheckpoint(j, name) /\ content = csContent[c]
  BY HereTypes, UserCheckpointTypes
<1>5. AsRecalls(c, b)'
  BY <1>2 DEF GoesBack, AsRecalls
<1>6. Brings(chan[c][1]) /\ ~Knows(c, name)
  <2>1. Brings(chan[c][1])
    BY <1>2, ChanTypes
  <2> QED BY <1>2, <1>3, <2>1 DEF Story, NewsIsNew
<1>7. \A i \in DOMAIN j.log : ~IsNamed(j.log[i], name)
  BY <1>2, <1>4, <1>6, UnknownUnmarked DEF Story
<1>8. CASE CsRecalls(c, b)
  <2>1. name # StartOf(b)
    <3>1. PICK i \in 1 .. j.index : IsNamed(j.log[i], StartOf(b))
      BY <1>4, <1>8 DEF CsRecalls, Recalls
    <3>2. i \in DOMAIN j.log
      BY <3>1, JournalTypes
    <3> QED BY <1>7, <3>1, <3>2
  <2>2. Recalls(content, k, b, before[c].cs)
    BY <1>4, <1>8, <2>1, RecallsMark DEF CsRecalls
  <2>3. CASE ApplyDo(c)
    <3>1. name \notin before[c].cs
      <4>1. chan[c][1].func = "do"
        BY <1>2, <2>3 DEF ApplyDo, Arrived
      <4>2. name \notin Seen(c)
        BY <1>2, <1>3, <4>1 DEF AllGiven
      <4> QED BY <4>2 DEF Seen
    <3>2. \/ csJournal'[c] = k /\ csContent'[c] = content
          \/ csJournal'[c] = Done(k, name) /\ csContent'[c] = content \cup {name}
      BY <1>3, <1>4, <2>3 DEF ApplyDo, TypeOK
    <3>3. Recalls(content \cup {name}, Done(k, name), b, before[c].cs)
      BY <2>2, <3>1, RecallsDone
    <3> QED BY <1>2, <1>5, <2>2, <3>2, <3>3 DEF CsRecalls
  <2>4. CASE ApplyMark(c)
    <3>1. csJournal'[c] = k /\ csContent'[c] = content
      BY <1>3, <1>4, <2>4 DEF ApplyMark, TypeOK
    <3> QED BY <1>2, <1>5, <2>2, <3>1 DEF CsRecalls
  <2> QED BY <1>1, <2>3, <2>4 DEF Apply, ApplyUndo, ApplyRedo, Arrived, Moves
<1>9. CASE StartIsNext(c, b)
  <2>1. name = StartOf(b) /\ Head(chan[c]).func = "mark" /\ CsRestored(c)
    BY <1>3, <1>9 DEF StartIsNext, Mark
  <2>2. ApplyMark(c)
    BY <2>1 DEF Apply, ApplyDo, ApplyUndo, ApplyRedo, Arrived
  <2>3. csJournal'[c] = k /\ csContent'[c] = content
    BY <1>3, <1>4, <2>2 DEF ApplyMark, TypeOK
  <2>4. Recalls(content, k, b, content)
    BY <1>4, <1>7, <2>1, StartRecalls
  <2> QED BY <1>2, <1>4, <1>5, <2>1, <2>3, <2>4 DEF CsRecalls, CsRestored
<1> QED BY <1>8, <1>9 DEF GoesBack

LEMMA ApplyEndIsLast ==
    ASSUME TypeOK, NEW c \in CSWorker, Apply(c), NEW b \in Nat, EndIsLast(c, b)
    PROVE  EndIsLast(c, b)'
<1>1. PICK func : Arrived(c, func)
  BY DEF Apply, ApplyDo, ApplyMark, ApplyUndo, ApplyRedo
<1>2. chan[c] # <<>> /\ chan'[c] = Tail(chan[c])
  BY <1>1, ChangelogApplied
<1>3. /\ Len(chan'[c]) \in Nat /\ Len(chan[c]) = Len(chan'[c]) + 1
      /\ Head(chan[c]) = chan[c][1] /\ chan'[c] = <<>> <=> Len(chan[c]) = 1
      /\ \A i \in 1 .. Len(chan'[c]) : chan'[c][i] = chan[c][i + 1]
  BY <1>2, ChanShrinks
<1>4. chan[c][Len(chan[c])] = Mark(EndOf(b))
  BY <1>2 DEF EndIsLast
<1>5. CASE chan'[c] = <<>>
  <2>1. Head(chan[c]) = Mark(EndOf(b))
    BY <1>3, <1>4, <1>5
  <2>2. PICK name \in Name : name = EndOf(b)
    BY Names
  <2>3. Head(chan[c]).func = "mark" /\ Head(chan[c]).name = name
    BY <2>1, <2>2 DEF Mark
  <2>4. Recorded(c, name)
    BY <2>3 DEF Apply, ApplyDo, ApplyMark, ApplyUndo, ApplyRedo, Arrived
  <2>5. cursor'[c] > 0 /\ names'[c][cursor'[c]] = name
    BY <2>4, RecordedTypes, HereTypes
  <2> QED BY <1>5, <2>2, <2>5 DEF EndIsLast, EndOf
<1>6. CASE chan'[c] # <<>>
  <2>1. Len(chan'[c]) \in 1 .. Len(chan'[c])
    BY <1>3, <1>6
  <2>2. chan'[c][Len(chan'[c])] = chan[c][Len(chan[c])]
    BY <1>3, <2>1
  <2> QED BY <1>4, <1>6, <2>2 DEF EndIsLast, Mark, EndOf
<1> QED BY <1>5, <1>6

LEMMA ApplyAtomic ==
    ASSUME TypeOK, TypeOK', NEW c \in CSWorker, Story(c), AllGiven(c), AtomicStory(c), Apply(c)
    PROVE  AtomicStory(c)'
<1>1. PICK func : Arrived(c, func)
  BY DEF Apply, ApplyDo, ApplyMark, ApplyUndo, ApplyRedo
<1>2. /\ chan[c] # <<>> /\ Head(chan[c]) = chan[c][1] /\ 1 \in DOMAIN chan[c]
      /\ UNCHANGED <<request, asContent, asJournal, batch, before, outcome, crashed, ops>>
      /\ ~crashed[c] /\ MovesAlone(c) /\ BatchIsMarked(c)
  BY <1>1, ChangelogApplied DEF Arrived, Story
<1>3. ASSUME NEW b \in Nat, GoesBack(c, b), \A i \in DOMAIN chan[c] : ~Moves(chan[c][i])
      PROVE  GoesBack(c, b)'
  <2>1. AsRecalls(c, b)' /\ CsRecalls(c, b)'
    BY <1>2, <1>3, ApplyGoesBack
  <2> QED BY <2>1 DEF GoesBack
<1>4. CASE batch[c] = NoBatch
  <2>1. AfterBatch(c) /\ ops \in Nat /\ \A b \in 1 .. ops : b \in Nat
    BY <1>4, Constants DEF AtomicStory, TypeOK
  <2>2. outcome[c] = "failed" => \E b \in 1 .. ops : Returns(c, b)' \/ Untouched(c, b)'
    <3>1. SUFFICES ASSUME NEW b \in 1 .. ops, Returns(c, b) \/ Untouched(c, b)
                   PROVE  Returns(c, b)' \/ Untouched(c, b)'
      BY <1>2, <2>1 DEF AfterBatch
    <3> QED BY <1>2, <2>1, <3>1, ApplyReturns, ApplyUntouched
  <2>3. outcome[c] = "undone" => \E b \in 1 .. ops : Returns(c, b)'
    <3>1. SUFFICES ASSUME NEW b \in 1 .. ops, Returns(c, b) PROVE Returns(c, b)'
      BY <1>2, <2>1 DEF AfterBatch
    <3> QED BY <1>2, <2>1, <3>1, ApplyReturns
  <2>4. outcome[c] = "done" => /\ \A i \in DOMAIN chan'[c] : ~Moves(chan'[c][i])
                               /\ \E b \in 1 .. ops : EndIsLast(c, b)' /\ GoesBack(c, b)'
    <3>1. SUFFICES ASSUME outcome[c] = "done"
                   PROVE  /\ \A i \in DOMAIN chan'[c] : ~Moves(chan'[c][i])
                          /\ \E b \in 1 .. ops : EndIsLast(c, b)' /\ GoesBack(c, b)'
      OBVIOUS
    <3>2. PICK b \in 1 .. ops : EndIsLast(c, b) /\ GoesBack(c, b)
      BY <2>1, <3>1 DEF AfterBatch
    <3>3. \A i \in DOMAIN chan[c] : ~Moves(chan[c][i])
      BY <2>1, <3>1 DEF AfterBatch
    <3>4. EndIsLast(c, b)' /\ GoesBack(c, b)'
      BY <1>3, <2>1, <3>2, <3>3, ApplyEndIsLast
    <3> QED BY <1>1, <1>2, <3>3, <3>4, ApplyMoves
  <2>5. AfterBatch(c)'
    BY <1>2, <2>1, <2>2, <2>3, <2>4 DEF AfterBatch, Nothing
  <2> QED BY <1>2, <1>4, <2>5 DEF AtomicStory
<1>5. CASE batch[c] # NoBatch
  <2>1. PICK id, step : id = batch[c].id /\ step = batch[c].step
    OBVIOUS
  <2>2. /\ InBatch(c) /\ RequestOfBatch(c) /\ id \in Nat /\ step \in 0 .. BatchLen + 2
        /\ BatchLen \in Nat \ {0}
        /\ step <= BatchLen + 1 => \A i \in DOMAIN chan[c] : ~Moves(chan[c][i])
    <3>1. id \in Nat \ {0} /\ step \in 0 .. BatchLen + 2 /\ BatchLen \in Nat \ {0}
      BY <1>2, <1>5, <2>1, BatchIs
    <3>2. step <= BatchLen + 1 => \A i \in DOMAIN chan[c] : ~Moves(chan[c][i])
      BY <1>2, <1>5, <2>1 DEF BatchIsMarked
    <3> QED BY <1>5, <3>1, <3>2 DEF AtomicStory, InBatch
  <2>3. RequestOfBatch(c)'
    BY <1>2, <2>2 DEF RequestOfBatch, Nothing
  <2>4. Untouched(c, id) => Untouched(c, id)'
    BY <2>2, ApplyUntouched
  <2>5. ~(step = 0 /\ request[c] # Nothing)
    BY <1>2, <2>1, <2>2 DEF InBatch
  <2>6. step <= BatchLen + 1 => GoesBack(c, id)'
    BY <1>3, <2>1, <2>2, <2>5 DEF InBatch
  <2>7. step = BatchLen + 1 /\ request[c] = Nothing => EndIsLast(c, id)'
    BY <2>1, <2>2, ApplyEndIsLast DEF InBatch
  <2>8. step = BatchLen + 2 => Returns(c, id)'
    BY <1>2, <2>1, <2>2, ApplyReturns DEF InBatch
  <2>9. step = 0 \/ (step = 1 /\ (request[c] = Edit \/ batch[c].reply = "error")) => Untouched(c, id)
    BY <2>1, <2>2 DEF InBatch
  <2>10. InBatch(c)'
    <3>1. batch'[c] = batch[c] /\ request'[c] = request[c]
      BY <1>2
    <3>2. batch'[c].id = id /\ batch'[c].step = step /\ batch'[c].reply = batch[c].reply
      BY <2>1, <3>1
    <3> QED BY <2>3, <2>4, <2>5, <2>6, <2>7, <2>8, <2>9, <3>1, <3>2 DEF InBatch, Nothing, Edit
  <2> QED BY <1>2, <1>5, <2>10 DEF AtomicStory
<1> QED BY <1>4, <1>5

-----------------------------------------------------------------------------
(* Clients, and the batchEdits that they start.                            *)

\* The csworker asks for a batch to be undone, or throws.
LEMMA UndoWholeReturns ==
    ASSUME TypeOK, NEW c \in CSWorker, chan[c] = <<>>, NEW b \in Nat, NEW from,
           AsRecalls(c, b), CsRecalls(c, b), UndoWhole(c, b, from),
           UNCHANGED <<asContent, asJournal, csContent, csJournal, before, chan>>
    PROVE  crashed'[c] \/ Returns(c, b)'
<1>1. PICK r : r = UndoRedo("undo", StartOf(b))
  OBVIOUS
<1>2. CASE LastMark(c, b, from) = 0
  BY <1>2 DEF UndoWhole, TypeOK
<1>3. CASE LastMark(c, b, from) # 0
  <2>1. request'[c] = r /\ r # Nothing
    BY <1>1, <1>3 DEF UndoWhole, Ask, TypeOK, UndoRedo, Nothing
  <2>2. News(c)' = r
    BY <2>1 DEF News
  <2>3. AsRecalls(c, b)' /\ CsRecalls(c, b)'
    BY DEF AsRecalls, CsRecalls
  <2> QED BY <1>1, <2>1, <2>2, <2>3 DEF Returns, UndoRedo, StartOf
<1> QED BY <1>2, <1>3

LEMMA ClientAtomic ==
    ASSUME TypeOK, TypeOK', NEW c \in CSWorker, AllGiven(c), AtomicStory(c), Patient, Client(c)
    PROVE  AtomicStory(c)'
<1>1. /\ Settled(c) /\ chan[c] = <<>> /\ request[c] = Nothing
      /\ batch[c] = NoBatch /\ ops' = ops + 1 /\ UNCHANGED <<asw, chan>>
  BY DEF Client, AskForEdit, LocalEdit, Undo, Redo, StartBatch, Asked, Settled
<1>2. ops \in Nat /\ BatchLen \in Nat \ {0}
  BY Constants DEF TypeOK
<1>3. AfterBatch(c)
  BY <1>1 DEF AtomicStory
<1>4. CASE AskForEdit(c) \/ LocalEdit(c) \/ Redo(c)
  <2>1. batch'[c] = NoBatch /\ outcome'[c] = "none"
    BY <1>1, <1>4 DEF AskForEdit, LocalEdit, Redo, TypeOK
  <2> QED BY <2>1 DEF AtomicStory, AfterBatch
<1>5. CASE Undo(c)
  <2>1. /\ batch'[c] = NoBatch /\ outcome'[c] = IF outcome[c] = "done" THEN "undone" ELSE "none"
        /\ before' = before
    BY <1>1, <1>5 DEF Undo, TypeOK
  <2>2. CASE outcome[c] # "done"
    BY <2>1, <2>2 DEF AtomicStory, AfterBatch
  <2>3. CASE outcome[c] = "done"
    <3>1. PICK b \in 1 .. ops : names[c][cursor[c]] = EndOf(b) /\ AsRecalls(c, b) /\ CsRecalls(c, b)
      BY <1>1, <1>3, <2>3 DEF AfterBatch, EndIsLast, GoesBack, StartIsNext
    <3>2. b \in Nat /\ b \in 1 .. ops + 1
      BY <1>2
    <3>3. UndoWhole(c, b, cursor[c] - 1) /\ UNCHANGED <<csJournal, csContent>>
      BY <1>5, <3>1 DEF Undo, EndOf
    <3>4. crashed'[c] \/ Returns(c, b)'
      BY <1>1, <2>1, <3>1, <3>2, <3>3, UndoWholeReturns DEF asw
    <3>5. AfterBatch(c)'
      BY <1>1, <2>1, <2>3, <3>2, <3>4 DEF AfterBatch
    <3> QED BY <2>1, <3>5 DEF AtomicStory
  <2> QED BY <2>2, <2>3
<1>6. CASE StartBatch(c)
  <2>1. PICK id, name : id = ops + 1 /\ name = StartOf(id)
    OBVIOUS
  <2>2. /\ batch'[c] = [id |-> id, step |-> 0, reply |-> "none"] /\ request'[c] = Mark(name)
        /\ before'[c].as = asContent /\ before'[c].cs = csContent[c]
        /\ UNCHANGED <<asContent, asJournal, csContent, csJournal, chan>>
    BY <1>1, <1>6, <2>1 DEF StartBatch, Ask, TypeOK, model, asw
  <2>3. /\ batch'[c].id = id /\ batch'[c].step = 0 /\ batch'[c].reply = "none"
        /\ batch'[c] # NoBatch
    BY <1>2, <2>1, <2>2 DEF NoBatch
  <2>4. request'[c].func = "mark" /\ request'[c] # Nothing
    BY <2>2 DEF Mark, Nothing
  <2>5. Untouched(c, id)'
    BY <1>1, <2>2 DEF Untouched, AsRestored, CsRestored
  <2>6. \A i \in DOMAIN asJournal.log : ~IsNamed(asJournal.log[i], name)
    <3>1. ~Given(c, name)
      BY <1>2, <2>1 DEF Given, StartOf
    <3>2. name \notin Named(asJournal)
      BY <3>1 DEF AllGiven, Around
    <3>3. SUFFICES ASSUME NEW i \in DOMAIN asJournal.log, IsNamed(asJournal.log[i], name)
                   PROVE  name \in Named(asJournal)
      BY <3>2
    <3>4. asJournal.log[i].name = name /\ ~IsStepCheckpoint(asJournal.log[i])
      BY <3>3 DEF IsNamed, IsUserCheckpoint, IsStepCheckpoint
    <3> QED BY <3>4 DEF Named
  <2>7. 0 # BatchLen + 1 /\ 0 # BatchLen + 2 /\ 0 \notin 1 .. BatchLen
    BY <1>2
  <2>8. RequestOfBatch(c)'
    BY <2>3, <2>4, <2>7 DEF RequestOfBatch
  <2>9. InBatch(c)'
    BY <1>1, <2>1, <2>2, <2>3, <2>4, <2>5, <2>6, <2>7, <2>8 DEF InBatch, StartOf
  <2> QED BY <2>3, <2>9 DEF AtomicStory
<1> QED BY <1>4, <1>5, <1>6 DEF Client

\* A local edit of a batch, once the start checkpoint has been applied.
LEMMA EditHereRecalls ==
    ASSUME TypeOK, NEW c \in CSWorker, AllGiven(c), EditHere(c), before' = before,
           NEW b \in Nat, CsRecalls(c, b)
    PROVE  CsRecalls(c, b)'
<1>1. PICK name : name = CsName(csSeq[c] + 1)
  OBVIOUS
<1>2. /\ name \in Name /\ csJournal'[c] = Done(SetUserCheckpoint(csJournal[c], name), name)
      /\ csContent'[c] = csContent[c] \cup {name}
  BY <1>1, EditHereTypes DEF EditHere, TypeOK
<1>3. name # StartOf(b) /\ name \notin before[c].cs
  <2>1. ~Given(c, name)
    BY <1>1, HereTypes DEF Given, CsName
  <2> QED BY <1>1, <2>1 DEF AllGiven, Around, Seen, StartOf, CsName
<1>4. PICK j \in Journals(Entry), k \in Journals(Entry) :
         j = csJournal[c] /\ k = SetUserCheckpoint(j, name)
  BY <1>2, HereTypes, UserCheckpointTypes
<1>5. Recalls(csContent[c], k, b, before[c].cs)
  BY <1>2, <1>3, <1>4, RecallsMark DEF CsRecalls
<1>6. Recalls(csContent[c] \cup {name}, Done(k, name), b, before[c].cs)
  BY <1>2, <1>3, <1>4, <1>5, RecallsDone
<1> QED BY <1>2, <1>4, <1>6 DEF CsRecalls

LEMMA BatchAtomic ==
    ASSUME TypeOK, TypeOK', NEW c \in CSWorker, Story(c), AllGiven(c), AtomicStory(c),
           Batch(c), early' = {}
    PROVE  AtomicStory(c)'
<1>1. /\ Settled(c) /\ batch[c] # NoBatch
      /\ UNCHANGED <<asContent, asJournal, chan, before, ops>>
  <2>1. /\ Settled(c) /\ batch[c].reply # "none"
        /\ UNCHANGED <<asContent, asJournal, chan, before, ops>>
    BY DEF Batch, NextEdit, LastEditDone, EndBatch, Rollback, GotReply, asw
  <2> QED BY <2>1 DEF NoBatch
<1>2. request[c] = Nothing /\ BatchIsMarked(c) /\ ~crashed[c]
  BY <1>1 DEF Settled, Story
<1>3. PICK id, step, reply : id = batch[c].id /\ step = batch[c].step /\ reply = batch[c].reply
  OBVIOUS
<1>4. /\ batch[c] \in [id : 0 .. MaxOps, step : 0 .. BatchLen + 2, reply : {"none", "ok", "error"}]
      /\ id \in 1 .. ops /\ id \in Nat \ {0} /\ step \in 0 .. BatchLen + 2
      /\ BatchLen \in Nat \ {0} /\ ops \in Nat
      /\ reply = "error" => step \in 1 .. BatchLen
  BY <1>1, <1>2, <1>3, BatchIs
<1>5. ASSUME NEW k, NEW answer, ToStep(c, k, answer)
      PROVE  /\ batch'[c] # NoBatch /\ batch'[c].id = id
             /\ batch'[c].step = k /\ batch'[c].reply = answer
  <2>1. batch'[c] = [batch[c] EXCEPT !.step = k, !.reply = answer]
    BY <1>5 DEF ToStep, TypeOK
  <2>2. batch'[c].id = batch[c].id /\ batch'[c].step = k /\ batch'[c].reply = answer
    BY <1>4, <2>1
  <2> QED BY <1>3, <1>4, <2>2 DEF NoBatch
<1>6. InBatch(c)
  BY <1>1 DEF AtomicStory
<1>7. /\ AsRestored(c)' = AsRestored(c) /\ \A b : AsRecalls(c, b)' = AsRecalls(c, b)
      /\ UNCHANGED <<csContent, csJournal>> =>
            /\ \A b : CsRecalls(c, b)' = CsRecalls(c, b)
            /\ \A b : GoesBack(c, b) => GoesBack(c, b)'
            /\ \A b : Untouched(c, b) => Untouched(c, b)'
  BY <1>1 DEF AsRestored, CsRestored, AsRecalls, CsRecalls, GoesBack, StartIsNext, Untouched, Mark, StartOf
<1>8. step <= BatchLen + 1 => GoesBack(c, id)
  BY <1>2, <1>3, <1>6 DEF InBatch
<1>9. CASE NextEdit(c)
  <2>1. step < BatchLen /\ GoesBack(c, id)
    <3>1. step < BatchLen
      BY <1>3, <1>9 DEF NextEdit
    <3> QED BY <1>4, <1>8, <3>1
  <2>2. PICK next \in 1 .. BatchLen : next = step + 1
    BY <1>4, <2>1
  <2>3. next # 0 /\ next # BatchLen + 1 /\ next # BatchLen + 2 /\ next <= BatchLen + 1
    BY <1>4
  <2>4. CASE ToStep(c, batch[c].step + 1, "none") /\ Ask(c, Edit) /\ UNCHANGED <<model, history, early>>
    <3>1. /\ batch'[c] # NoBatch /\ batch'[c].id = id
          /\ batch'[c].step = next /\ batch'[c].reply = "none"
      BY <1>3, <1>5, <2>2, <2>4
    <3>2. request'[c] = Edit /\ UNCHANGED <<csContent, csJournal>>
      BY <2>4 DEF Ask, TypeOK, model
    <3>3. RequestOfBatch(c)'
      BY <2>3, <3>1, <3>2 DEF RequestOfBatch, Edit
    <3>4. next = 1 => Untouched(c, id)'
      <4>1. next = 1 => step = 0
        BY <1>4, <2>2
      <4>2. step = 0 => Untouched(c, id)
        BY <1>3, <1>6 DEF InBatch
      <4> QED BY <1>7, <3>2, <4>1, <4>2
    <3>5. GoesBack(c, id)'
      BY <1>7, <2>1, <3>2
    <3>6. InBatch(c)'
      BY <2>3, <3>1, <3>3, <3>4, <3>5 DEF InBatch
    <3> QED BY <3>1, <3>6 DEF AtomicStory
  <2>5. CASE /\ ToStep(c, batch[c].step + 1, "ok") /\ EditHere(c)
             /\ Hastened("edit", StartComes(c)) /\ UNCHANGED request
    <3>1. /\ batch'[c] # NoBatch /\ batch'[c].id = id
          /\ batch'[c].step = next /\ batch'[c].reply = "ok"
      BY <1>3, <1>5, <2>2, <2>5
    <3>2. request'[c] = Nothing
      BY <1>2, <2>5
    <3>3. RequestOfBatch(c)'
      BY <2>3, <3>1, <3>2 DEF RequestOfBatch, Nothing
    <3>4. CsRecalls(c, id)
      <4>1. ~StartComes(c)
        BY <2>5 DEF Hastened
      <4>2. StartIsNext(c, id) => StartComes(c)
        BY <1>3, ChanTypes DEF StartIsNext, StartComes
      <4> QED BY <2>1, <4>1, <4>2 DEF GoesBack
    <3>5. GoesBack(c, id)'
      <4>1. CsRecalls(c, id)'
        BY <1>1, <1>4, <2>5, <3>4, EditHereRecalls
      <4>2. AsRecalls(c, id)'
        BY <1>7, <2>1 DEF GoesBack
      <4> QED BY <4>1, <4>2 DEF GoesBack
    <3>6. InBatch(c)'
      BY <2>3, <3>1, <3>2, <3>3, <3>5 DEF InBatch, Nothing, Edit
    <3> QED BY <3>1, <3>6 DEF AtomicStory
  <2> QED BY <1>9, <2>4, <2>5 DEF NextEdit
<1>10. CASE LastEditDone(c)
  <2>1. /\ step = BatchLen /\ request'[c] = Mark(EndOf(id)) /\ UNCHANGED <<csContent, csJournal>>
    BY <1>3, <1>10 DEF LastEditDone, Ask, TypeOK, model
  <2>2. /\ batch'[c] # NoBatch /\ batch'[c].id = id
        /\ batch'[c].step = BatchLen + 1 /\ batch'[c].reply = "none"
    BY <1>5, <1>10 DEF LastEditDone
  <2>3. request'[c].func = "mark" /\ request'[c] # Nothing
    BY <2>1 DEF Mark, Nothing
  <2>4. /\ BatchLen + 1 # 0 /\ BatchLen + 1 # 1 /\ BatchLen + 1 # BatchLen + 2
        /\ BatchLen + 1 \notin 1 .. BatchLen /\ step <= BatchLen + 1
    BY <1>4, <2>1
  <2>5. RequestOfBatch(c)'
    BY <2>2, <2>3, <2>4 DEF RequestOfBatch
  <2>6. GoesBack(c, id)'
    BY <1>7, <1>8, <2>1, <2>4
  <2>7. InBatch(c)'
    BY <2>2, <2>3, <2>4, <2>5, <2>6 DEF InBatch
  <2> QED BY <2>2, <2>7 DEF AtomicStory
<1>11. CASE EndBatch(c)
  <2>1. /\ batch'[c] = NoBatch /\ request'[c] = Nothing
        /\ UNCHANGED <<names, cursor, csContent, csJournal, request, crashed>>
    BY <1>2, <1>11 DEF EndBatch, TypeOK, model, history
  <2>2. CASE outcome' = [outcome EXCEPT ![c] = "done"] /\ step = BatchLen + 1
    <3>1. outcome'[c] = "done"
      BY <2>2 DEF TypeOK
    <3>2. /\ EndIsLast(c, id) /\ GoesBack(c, id)
          /\ \A i \in DOMAIN chan[c] : ~Moves(chan[c][i])
      <4>1. step <= BatchLen + 1
        BY <1>4, <2>2
      <4> QED BY <1>1, <1>2, <1>3, <1>6, <1>8, <2>2, <4>1 DEF InBatch, BatchIsMarked
    <3>3. EndIsLast(c, id)' /\ GoesBack(c, id)'
      BY <1>1, <1>7, <2>1, <3>2 DEF EndIsLast, Mark, EndOf
    <3>4. AfterBatch(c)'
      BY <1>1, <1>4, <2>1, <3>1, <3>2, <3>3 DEF AfterBatch
    <3> QED BY <2>1, <3>4 DEF AtomicStory
  <2>3. CASE /\ outcome' = [outcome EXCEPT ![c] = "failed"]
             /\ step = BatchLen + 2 \/ (step = 1 /\ reply = "error")
    <3>1. outcome'[c] = "failed"
      BY <2>3 DEF TypeOK
    <3>2. Returns(c, id)' \/ Untouched(c, id)'
      <4>1. CASE step = BatchLen + 2
        <5>1. Returns(c, id)
          BY <1>2, <1>3, <1>6, <4>1 DEF InBatch
        <5>2. News(c)' = News(c) /\ chan'[c] = chan[c]
          BY <1>1, <2>1 DEF News
        <5>3. AsRestored(c)' = AsRestored(c) /\ CsRestored(c)' = CsRestored(c)
              /\ AsRecalls(c, id)' = AsRecalls(c, id) /\ CsRecalls(c, id)' = CsRecalls(c, id)
          BY <1>1, <1>7, <2>1 DEF CsRestored
        <5> QED BY <5>1, <5>2, <5>3 DEF Returns, UndoRedo, StartOf, Nothing
      <4>2. CASE step = 1 /\ reply = "error"
        BY <1>3, <1>6, <1>7, <2>1, <4>2 DEF InBatch
      <4> QED BY <2>3, <4>1, <4>2
    <3>3. AfterBatch(c)'
      BY <1>1, <1>4, <2>1, <3>1, <3>2 DEF AfterBatch
    <3> QED BY <2>1, <3>3 DEF AtomicStory
  <2> QED BY <1>3, <1>11, <2>2, <2>3 DEF EndBatch, GotReply
<1>12. CASE Rollback(c)
  <2>1. /\ step \in 1 .. BatchLen /\ step # 0 /\ step <= BatchLen + 1 /\ chan[c] = <<>>
        /\ UNCHANGED <<csContent, csJournal>>
    <3>1. reply = "error" /\ chan[c] = <<>> /\ UNCHANGED <<csContent, csJournal>>
      BY <1>3, <1>12 DEF Rollback, GotReply, model, Hastened
    <3>2. step \in 1 .. BatchLen
      BY <1>4, <3>1
    <3> QED BY <1>4, <3>1, <3>2
  <2>2. cursor[c] # 0
    <3>1. ~Comes(c, StartOf(id))
      BY <2>1 DEF Comes, ComesBy
    <3>2. PICK x \in 1 .. cursor[c] : names[c][x] = StartOf(id)
      BY <1>1, <1>2, <1>3, <2>1, <3>1 DEF BatchIsMarked, Keeps
    <3> QED BY <3>2, HereTypes
  <2>3. ToStep(c, BatchLen + 2, "none") /\ UndoWhole(c, id, cursor[c])
    BY <1>3, <1>12, <2>2 DEF Rollback
  <2>4. /\ batch'[c] # NoBatch /\ batch'[c].id = id
        /\ batch'[c].step = BatchLen + 2 /\ batch'[c].reply = "none"
    BY <1>5, <2>3
  <2>5. crashed'[c] \/ Returns(c, id)'
    <3>1. AsRecalls(c, id) /\ CsRecalls(c, id)
      BY <1>8, <2>1 DEF GoesBack, StartIsNext
    <3> QED BY <1>1, <1>4, <2>1, <2>3, <3>1, UndoWholeReturns
  <2>6. /\ BatchLen + 2 # 0 /\ BatchLen + 2 # 1 /\ BatchLen + 2 # BatchLen + 1
        /\ BatchLen + 2 \notin 1 .. BatchLen /\ ~(BatchLen + 2 <= BatchLen + 1)
    BY <1>4
  <2>7. RequestOfBatch(c)'
    BY <2>4, <2>6 DEF RequestOfBatch
  <2>8. InBatch(c)'
    BY <2>4, <2>5, <2>6, <2>7 DEF InBatch
  <2> QED BY <2>4, <2>8 DEF AtomicStory
<1> QED BY <1>9, <1>10, <1>11, <1>12 DEF Batch

-----------------------------------------------------------------------------
(* Batches are atomic.                                                     *)

\* Every name is given, and every batch that has overtaken nothing can be taken back.
AInv ==
    /\ IInv
    /\ "rollback" \notin early => \A c \in CSWorker : AllGiven(c)
    /\ early = {} => \A c \in CSWorker : AtomicStory(c)

LEMMA AtomicStep ==
    ASSUME Patient, \A c, d \in CSWorker : c = d, AInv, [Next]_vars
    PROVE  AInv'
<1>1. IInv /\ IInv' /\ early \subseteq early'
  BY StoryStep, EarlyGrows DEF AInv
<1>2. CASE UNCHANGED vars
  <2>1. /\ UNCHANGED <<asJournal, asContent, asSeq, csJournal, csContent, csSeq, names, cursor>>
        /\ UNCHANGED <<chan, request, batch, before, outcome, crashed, early, ops>>
    BY <1>2 DEF vars, asw, model, history
  <2>2. ASSUME NEW c \in CSWorker
        PROVE  /\ AllGiven(c) => AllGiven(c)'
               /\ AtomicStory(c) => AtomicStory(c)'
    <3>1. /\ News(c)' = News(c) /\ AsRestored(c)' = AsRestored(c) /\ CsRestored(c)' = CsRestored(c)
          /\ \A b : AsRecalls(c, b)' = AsRecalls(c, b) /\ CsRecalls(c, b)' = CsRecalls(c, b)
          /\ Seen(c)' = Seen(c) /\ Around(c)' = Around(c)
      BY <2>1 DEF News, AsRestored, CsRestored, AsRecalls, CsRecalls, Seen, Around
    <3>2. AllGiven(c) => AllGiven(c)'
      BY <2>1, <3>1 DEF AllGiven, Given
    <3>3. \A b : /\ Returns(c, b) => Returns(c, b)'
                 /\ GoesBack(c, b) => GoesBack(c, b)'
                 /\ EndIsLast(c, b) => EndIsLast(c, b)'
                 /\ Untouched(c, b) => Untouched(c, b)'
      BY <2>1, <3>1 DEF Returns, GoesBack, StartIsNext, EndIsLast, Untouched, UndoRedo, StartOf, EndOf,
                        Mark, Nothing
    <3>4. AfterBatch(c) => AfterBatch(c)'
      BY <2>1, <3>3 DEF AfterBatch, Nothing, Moves
    <3>5. InBatch(c) => InBatch(c)'
      <4>1. RequestOfBatch(c) => RequestOfBatch(c)'
        BY <2>1 DEF RequestOfBatch, Nothing
      <4> QED BY <2>1, <3>3, <4>1 DEF InBatch, StartOf, Nothing, Edit
    <3> QED BY <2>1, <3>2, <3>4, <3>5 DEF AtomicStory
  <2> QED BY <1>1, <2>1, <2>2 DEF AInv
<1>3. ASSUME NEW c \in CSWorker, Serve(c) \/ Apply(c) \/ Client(c) \/ Batch(c) PROVE AInv'
  <2>1. TypeOK /\ TypeOK' /\ \A d \in CSWorker : d = c
    BY <1>1 DEF IInv
  <2>2. ASSUME "rollback" \notin early' PROVE Story(c) /\ AllGiven(c) /\ AllGiven(c)'
    <3>1. Story(c) /\ AllGiven(c)
      BY <1>1, <2>2 DEF IInv, AInv
    <3> QED BY <1>3, <2>1, <3>1, ServeGiven, ApplyGiven, ClientGiven
  <2>3. ASSUME early' = {} PROVE AtomicStory(c)'
    <3>1. Story(c) /\ AllGiven(c) /\ AtomicStory(c)
      BY <1>1, <2>2, <2>3 DEF AInv
    <3> QED BY <1>3, <2>1, <2>3, <3>1, ServeAtomic, ApplyAtomic, ClientAtomic, BatchAtomic
  <2> QED BY <1>1, <2>1, <2>2, <2>3 DEF AInv
<1> QED BY <1>2, <1>3 DEF Next

LEMMA AtomicInit == Init => AInv
<1> SUFFICES ASSUME Init PROVE AInv
  OBVIOUS
<1>1. IInv
  BY StoryInit
<1>2. ASSUME NEW c \in CSWorker PROVE AllGiven(c) /\ AtomicStory(c)
  <2>1. /\ chan[c] = <<>> /\ request[c] = Nothing /\ csContent[c] = {} /\ asContent = {}
        /\ csJournal[c] = EmptyJournal /\ asJournal = EmptyJournal /\ batch[c] = NoBatch
        /\ before[c].as = {} /\ before[c].cs = {} /\ outcome[c] = "none"
    BY DEF Init
  <2>2. Named(csJournal[c]) = {} /\ Named(asJournal) = {} /\ DOMAIN chan[c] = {}
    BY <2>1 DEF Named, EmptyJournal
  <2>3. AllGiven(c)
    BY <2>1, <2>2 DEF AllGiven, Around, Seen
  <2> QED BY <2>1, <2>3 DEF AtomicStory, AfterBatch
<1> QED BY <1>1, <1>2 DEF AInv

\* A batchEdit that is rolled back after a failure, or undone by the client, leaves the
\* asworker and its only csworker as they were before it, whatever its edits were, whatever
\* was done, undone and redone before, and however late the changelogs of its requests are
\* applied while it goes on, until a rollback overtakes the changelogs of its batch or an
\* edit of the concrete syntax the start checkpoint; clients wait for their changelogs
\* (POST_batchedit of src/__worker.js, __undoredo of src/csworker.js).
THEOREM BatchesAreAtomic ==
    ASSUME Patient, \A c, d \in CSWorker : c = d
    PROVE  Spec => []BatchIsAtomic
<1>1. Init => AInv
  BY AtomicInit
<1>2. AInv /\ [Next]_vars => AInv'
  BY AtomicStep
<1>3. AInv => BatchIsAtomic
  <2>1. SUFFICES ASSUME AInv, early = {}, NEW c \in CSWorker, AtRest(c), batch[c] = NoBatch,
                        outcome[c] \in {"failed", "undone"}
                 PROVE  csContent[c] = before[c].cs /\ asContent = before[c].as
    BY DEF BatchIsAtomic, BatchIsTakenBack
  <2>2. AfterBatch(c) /\ News(c) = Nothing /\ ~crashed[c]
    BY <2>1 DEF AInv, AtomicStory, AtRest, News
  <2> QED BY <2>1, <2>2 DEF AfterBatch, Returns, Untouched, AsRestored, CsRestored
<1> QED BY <1>1, <1>2, <1>3, PTL DEF Spec

-----------------------------------------------------------------------------
(* What the journals of a smooth run are made of.                          *)

IsOp(e) == e.op = "DO"

\* The content is what the applied entries did, and each operation is there once.
Reads(content, j) ==
    /\ content = OpsSince(j, 1)
    /\ \A i, m \in DOMAIN j.log : IsOp(j.log[i]) /\ IsOp(j.log[m]) /\ j.log[i].name = j.log[m].name => i = m

\* A csworker logs a checkpoint of the same name, a step-checkpoint and the operation.
OwnedAt(log, i) ==
    /\ IsStepCheckpoint(log[i]) =>
          /\ i > 1 /\ i + 1 \in DOMAIN log /\ IsOp(log[i + 1])
          /\ IsNamed(log[i - 1], log[i + 1].name)
    /\ IsOp(log[i]) => i > 1 /\ IsStepCheckpoint(log[i - 1])
    /\ IsUserCheckpoint(log[i]) /\ log[i].name.kind \in {"as", "cs"} =>
          i + 1 \in DOMAIN log /\ IsStepCheckpoint(log[i + 1])

CsShape(content, j) ==
    /\ Reads(content, j) /\ \A i \in DOMAIN j.log : OwnedAt(j.log, i)
    /\ j.index < Len(j.log) => IsUserCheckpoint(j.log[j.index + 1])

\* The asworker logs a step-checkpoint and the operation, or the checkpoint of a batch.
SteppedAt(log, i) ==
    /\ IsStepCheckpoint(log[i]) => i + 1 \in DOMAIN log /\ IsOp(log[i + 1])
    /\ IsOp(log[i]) => i > 1 /\ IsStepCheckpoint(log[i - 1]) /\ log[i].name.kind = "as"
    /\ IsUserCheckpoint(log[i]) => log[i].name.kind \in {"start", "end"}

AsShape(content, j) ==
    /\ Reads(content, j) /\ \A i \in DOMAIN j.log : SteppedAt(j.log, i)
    /\ j.index > 0 => ~IsStepCheckpoint(j.log[j.index])

\* names that the journal of the asworker has and that an undo or redo may look for there
Shared(name) == name.kind \in {"as", "start"}
Says(e, name) == ~IsStepCheckpoint(e) /\ e.name = name

\* The journal tells the shared names of a list,
TellsAll(list, j) ==
    \A x \in DOMAIN list : Shared(list[x]) => \E i \in DOMAIN j.log : Says(j.log[i], list[x])

\* in their order,
TellsInOrder(list, j) ==
    \A i, m \in DOMAIN j.log, x, y \in DOMAIN list :
       Shared(list[x]) /\ Shared(list[y]) /\ Says(j.log[i], list[x]) /\ Says(j.log[m], list[y])
       => (i < m <=> x < y)

\* those up to k in its applied part;
TellsUpTo(list, k, j) ==
    \A i \in DOMAIN j.log, x \in DOMAIN list :
       Shared(list[x]) /\ Says(j.log[i], list[x]) =>
          /\ x <= k => i <= j.index
          /\ IsOp(j.log[i]) /\ i <= j.index => x <= k

\* operations that the list has not any more come after them and are undone;
OthersUndone(list, j) ==
    \A i \in DOMAIN j.log : IsOp(j.log[i]) /\ (\A x \in DOMAIN list : list[x] # j.log[i].name) =>
       /\ j.index < i
       /\ \A m \in DOMAIN j.log, y \in DOMAIN list :
             Shared(list[y]) /\ Says(j.log[m], list[y]) => m < i

\* a step to redo, if the list has one next, is what the journal has next.
NextIsStep(list, k, j) ==
    \A x \in k + 1 .. Len(list) :
       list[x].kind = "as" /\ (\A y \in k + 1 .. x - 1 : ~Shared(list[y])) =>
          j.index < Len(j.log) /\ IsStepCheckpoint(j.log[j.index + 1])

Told(list, k, j) ==
    /\ TellsAll(list, j) /\ TellsInOrder(list, j) /\ TellsUpTo(list, k, j)
    /\ OthersUndone(list, j) /\ NextIsStep(list, k, j)

\* a list after a name has been recorded, and once what is on its way has been
Grows(list, k, name) == Append(SubSeq(list, 1, k), name)
WithComing(list, k, s) ==
    IF s = <<>> THEN list ELSE SubSeq(list, 1, k) \o [i \in DOMAIN s |-> s[i].name]

\* The list of names as it will be when what is on its way is applied, and the cursor then.
Ahead(c) == WithComing(names[c], cursor[c], chan[c])
CursorAhead(c) == cursor[c] + Len(chan[c])

\* The asworker is where the cursor will be, or where it was before the undo or redo that is
\* asked for.
AsFollows(c) ==
    LET r == request[c]
        told(list, k) == Told(list, k, asJournal)
    IN
    CASE r.func = "undo" ->
           \E k \in cursor[c] + 1 .. Len(names[c]) :
              /\ told(names[c], k) /\ names[c][cursor[c] + 1] = r.name /\ Shared(r.name)
              /\ r.name.kind = "as" => k = cursor[c] + 1
      [] r.func = "redo" ->
           r.name.kind = "end" \/ (/\ r.name.kind = "as" /\ cursor[c] > 0 /\ names[c][cursor[c]] = r.name
                                   /\ told(names[c], cursor[c] - 1))
      [] OTHER ->
           IF chan[c] # <<>> /\ Moves(Head(chan[c])) THEN told(names[c], cursor[c])
                                                     ELSE told(Ahead(c), CursorAhead(c))

\* No edit that comes is without effect, and a checkpoint that comes is that of a batch.
ComesSmooth(c) ==
    \A i \in DOMAIN chan[c] :
        /\ chan[c][i].func = "do" => ~chan[c][i].empty
        /\ chan[c][i].func = "mark" => chan[c][i].name.kind \in {"start", "end"}

\* The asworker has not marked the start of a batch that is asked for, nor the end of one
\* that goes on.
MarksAreNew(c) ==
    LET b == batch[c] IN
    b # NoBatch =>
       /\ b.step = 0 /\ request[c].func = "mark" => StartOf(b.id) \notin Named(asJournal)
       /\ b.step <= BatchLen \/ request[c].func = "mark" => EndOf(b.id) \notin Named(asJournal)

SmoothStory(c) ==
    /\ CsShape(csContent[c], csJournal[c]) /\ AsShape(asContent, asJournal)
    /\ AsFollows(c) /\ ComesSmooth(c)

-----------------------------------------------------------------------------
(* The content is what the journal says.                                   *)

LEMMA OpsSinceIs ==
    ASSUME NEW j, NEW i, NEW n
    PROVE  n \in OpsSince(j, i) <=> \E m \in i .. j.index : IsOp(j.log[m]) /\ j.log[m].name = n
BY DEF OpsSince, IsOp

LEMMA PieceOps ==
    ASSUME NEW j \in Journals(Entry), NEW a \in Nat, NEW b \in Nat, a <= b, b <= Len(j.log)
    PROVE  \A n : n \in OpsIn(SubSeq(j.log, a + 1, b)) <=>
                     \E m \in a + 1 .. b : IsOp(j.log[m]) /\ j.log[m].name = n
<1> TAKE n
<1> DEFINE s == SubSeq(j.log, a + 1, b)
<1>1. /\ s \in Seq(Entry) /\ Len(s) = b - a /\ \A i \in 1 .. b - a : s[i] = j.log[a + i]
  BY Between, JournalTypes
<1>2. DOMAIN s = 1 .. b - a
  BY <1>1
<1> HIDE DEF s
<1>3. n \in OpsIn(s) <=> \E i \in 1 .. b - a : IsOp(s[i]) /\ s[i].name = n
  BY <1>2 DEF OpsIn, IsOp
<1>4. ASSUME NEW i \in 1 .. b - a PROVE a + i \in a + 1 .. b
  OBVIOUS
<1>5. ASSUME NEW m \in a + 1 .. b PROVE m - a \in 1 .. b - a /\ a + (m - a) = m
  OBVIOUS
<1>6. ASSUME NEW i \in 1 .. b - a, IsOp(s[i]), s[i].name = n
      PROVE  \E m \in a + 1 .. b : IsOp(j.log[m]) /\ j.log[m].name = n
  BY <1>1, <1>4, <1>6
<1>7. ASSUME NEW m \in a + 1 .. b, IsOp(j.log[m]), j.log[m].name = n
      PROVE  \E i \in 1 .. b - a : IsOp(s[i]) /\ s[i].name = n
  <2>1. s[m - a] = j.log[m] /\ m - a \in 1 .. b - a
    BY <1>1, <1>5
  <2> QED BY <2>1, <1>7
<1> QED BY <1>3, <1>6, <1>7 DEF s

\* Logging keeps it so, if an operation that is logged is new.
LEMMA ReadsAdds ==
    ASSUME NEW content, NEW j \in Journals(Entry), NEW e \in Entry, Reads(content, j),
           IsOp(e) => e.name \notin { j.log[i].name : i \in { k \in DOMAIN j.log : IsOp(j.log[k]) } }
    PROVE  Reads(Grown(content, e), Log(j, e))
<1> DEFINE h == Log(j, e)
<1>1. /\ h \in Journals(Entry) /\ h.index = j.index + 1 /\ Len(h.log) = j.index + 1
      /\ \A i \in 1 .. j.index : h.log[i] = j.log[i]
      /\ h.log[j.index + 1] = e
  BY LogFacts
<1>2. /\ j.index \in Nat /\ DOMAIN j.log = 1 .. Len(j.log) /\ j.index <= Len(j.log)
      /\ Len(j.log) \in Nat
  BY JournalTypes
<1> HIDE DEF h
<1>3. DOMAIN h.log = 1 .. j.index + 1
  BY <1>1, JournalTypes
<1>4. ASSUME NEW i \in 1 .. j.index PROVE i \in DOMAIN j.log /\ i # j.index + 1 /\ i \in 1 .. h.index
  BY <1>1, <1>2
<1>5. ASSUME NEW i \in 1 .. h.index PROVE i \in 1 .. j.index \/ i = j.index + 1
  BY <1>1, <1>2
<1>6. ASSUME NEW i \in 1 .. j.index, IsOp(j.log[i]), IsOp(e) PROVE j.log[i].name # e.name
  BY <1>4, <1>6
<1>7. ASSUME NEW n PROVE n \in OpsSince(h, 1) <=> n \in Grown(content, e)
  <2>1. n \in content <=> \E m \in 1 .. j.index : IsOp(j.log[m]) /\ j.log[m].name = n
    BY OpsSinceIs DEF Reads
  <2>2. n \in OpsSince(h, 1) <=> \E m \in 1 .. h.index : IsOp(h.log[m]) /\ h.log[m].name = n
    BY OpsSinceIs
  <2>3. n \in Grown(content, e) <=> n \in content \/ (IsOp(e) /\ e.name = n)
    BY DEF Grown, IsOp
  <2>4. j.index + 1 \in 1 .. h.index
    BY <1>1, <1>2
  <2> QED BY <2>1, <2>2, <2>3, <2>4, <1>1, <1>4, <1>5
<1>8. ASSUME NEW i \in DOMAIN h.log, NEW m \in DOMAIN h.log, IsOp(h.log[i]), IsOp(h.log[m]),
             h.log[i].name = h.log[m].name
      PROVE  i = m
  <2>1. (i \in 1 .. j.index \/ i = j.index + 1) /\ (m \in 1 .. j.index \/ m = j.index + 1)
    BY <1>3, <1>2
  <2> QED BY <2>1, <1>1, <1>4, <1>6, <1>8 DEF Reads
<1>9. Grown(content, e) = OpsSince(h, 1)
  BY <1>7
<1> QED BY <1>8, <1>9 DEF Reads, h

LEMMA ReadsLogged ==
    ASSUME NEW content, NEW j \in Journals(Entry), NEW e \in Entry, Reads(content, j),
           IsOp(e) => e.name \notin Named(j)
    PROVE  Reads(Grown(content, e), Log(j, e))
<1>1. { j.log[i].name : i \in { k \in DOMAIN j.log : IsOp(j.log[k]) } } \subseteq Named(j)
  BY DEF Named, IsOp, IsStepCheckpoint
<1> QED BY <1>1, ReadsAdds

\* So does undoing.
LEMMA ReadsUndone ==
    ASSUME NEW content, NEW j \in Journals(Entry), Reads(content, j),
           NEW k \in Journals(Entry), k.log = j.log, k.index <= j.index
    PROVE  Reads(Without(content, j, k), k)
<1>1. /\ j.index \in Nat /\ DOMAIN j.log = 1 .. Len(j.log) /\ j.index <= Len(j.log)
      /\ Len(j.log) \in Nat /\ k.index \in Nat
  BY JournalTypes
<1>2. ASSUME NEW n PROVE n \in Without(content, j, k) <=> n \in OpsSince(k, 1)
  <2>1. n \in content <=> \E m \in 1 .. j.index : IsOp(j.log[m]) /\ j.log[m].name = n
    BY OpsSinceIs DEF Reads
  <2>2. n \in OpsSince(k, 1) <=> \E m \in 1 .. k.index : IsOp(j.log[m]) /\ j.log[m].name = n
    BY OpsSinceIs
  <2>3. n \in OpsIn(UndoneEntries(j, k))
           <=> \E m \in k.index + 1 .. j.index : IsOp(j.log[m]) /\ j.log[m].name = n
    <3>1. PICK a \in Nat, b \in Nat : a = k.index /\ b = j.index
      BY <1>1
    <3>2. a <= b /\ b <= Len(j.log)
      BY <1>1, <3>1
    <3>3. \A nn : nn \in OpsIn(SubSeq(j.log, a + 1, b))
             <=> \E m \in a + 1 .. b : IsOp(j.log[m]) /\ j.log[m].name = nn
      BY <3>2, PieceOps, Zenon
    <3> QED BY <3>1, <3>3 DEF UndoneEntries
  <2>4. ASSUME NEW m \in 1 .. j.index PROVE m \in DOMAIN j.log /\ (m \in 1 .. k.index <=> m \notin k.index + 1 .. j.index)
    BY <1>1
  <2>5. \A i, m \in DOMAIN j.log : IsOp(j.log[i]) /\ IsOp(j.log[m]) /\ j.log[i].name = j.log[m].name => i = m
    BY DEF Reads
  <2>6. (\A m \in 1 .. k.index : m \in 1 .. j.index) /\ (\A m \in k.index + 1 .. j.index : m \in 1 .. j.index)
    BY <1>1
  <2>7. n \in Without(content, j, k) <=> n \in content /\ n \notin OpsIn(UndoneEntries(j, k))
    BY DEF Without
  <2>8. CASE n \in content
    <3>1. PICK m \in 1 .. j.index : IsOp(j.log[m]) /\ j.log[m].name = n
      BY <2>1, <2>8
    <3>2. \A i \in 1 .. j.index : IsOp(j.log[i]) /\ j.log[i].name = n => i = m
      BY <3>1, <2>4, <2>5
    <3>3. n \in OpsSince(k, 1) <=> m \in 1 .. k.index
      BY <2>2, <2>6, <3>1, <3>2
    <3>4. n \in OpsIn(UndoneEntries(j, k)) <=> m \in k.index + 1 .. j.index
      BY <2>3, <2>6, <3>1, <3>2
    <3> QED BY <2>4, <2>7, <2>8, <3>3, <3>4
  <2>9. CASE n \notin content
    BY <2>1, <2>2, <2>6, <2>7, <2>9
  <2> QED BY <2>8, <2>9
<1>3. Without(content, j, k) = OpsSince(k, 1)
  BY <1>2
<1> QED BY <1>3 DEF Reads

\* So does redoing, which takes the entry the index is on for a checkpoint.
LEMMA ReadsRedone ==
    ASSUME NEW content, NEW j \in Journals(Entry), Reads(content, j),
           NEW k \in Journals(Entry), k.log = j.log, j.index <= k.index,
           j.index < Len(j.log) => ~IsOp(j.log[j.index + 1])
    PROVE  Reads(With(content, j, k), k)
<1>1. /\ j.index \in Nat /\ DOMAIN j.log = 1 .. Len(j.log) /\ j.index <= Len(j.log)
      /\ Len(j.log) \in Nat /\ k.index \in Nat /\ k.index <= Len(j.log) /\ j.log \in Seq(Entry)
  BY JournalTypes
<1>2. ASSUME NEW n PROVE n \in With(content, j, k) <=> n \in OpsSince(k, 1)
  <2>1. n \in content <=> \E m \in 1 .. j.index : IsOp(j.log[m]) /\ j.log[m].name = n
    BY OpsSinceIs DEF Reads
  <2>2. n \in OpsSince(k, 1) <=> \E m \in 1 .. k.index : IsOp(j.log[m]) /\ j.log[m].name = n
    BY OpsSinceIs
  <2>3. n \in OpsIn(RedoneEntries(j, k))
           <=> \E m \in j.index + 2 .. k.index : IsOp(j.log[m]) /\ j.log[m].name = n
    <3>1. CASE k.index = j.index
      <4>1. SubSeq(j.log, j.index + 2, k.index) = <<>>
        BY <1>1, <3>1
      <4>2. OpsIn(<<>>) = {}
        BY DEF OpsIn
      <4>3. ~\E m \in j.index + 2 .. k.index : TRUE
        BY <1>1, <3>1
      <4> QED BY <4>1, <4>2, <4>3 DEF RedoneEntries
    <3>2. CASE j.index < k.index
      <4>1. j.index + 1 \in Nat /\ j.index + 1 <= k.index /\ (j.index + 1) + 1 = j.index + 2
        BY <1>1, <3>2
      <4>2. PICK a \in Nat, b \in Nat : a = j.index + 1 /\ b = k.index
        BY <1>1, <4>1
      <4>3. a <= b /\ b <= Len(j.log)
        BY <1>1, <4>1, <4>2
      <4>4. \A nn : nn \in OpsIn(SubSeq(j.log, a + 1, b))
               <=> \E m \in a + 1 .. b : IsOp(j.log[m]) /\ j.log[m].name = nn
        BY <4>3, PieceOps, Zenon
      <4>5. a + 1 = j.index + 2
        BY <1>1, <4>2
      <4> QED BY <4>2, <4>4, <4>5 DEF RedoneEntries
    <3> QED BY <1>1, <3>1, <3>2
  <2>4. \A m \in 1 .. k.index : \/ m \in 1 .. j.index \/ m \in j.index + 2 .. k.index
                                \/ m = j.index + 1 /\ j.index < Len(j.log)
    BY <1>1
  <2>5. (\A m \in 1 .. j.index : m \in 1 .. k.index) /\ (\A m \in j.index + 2 .. k.index : m \in 1 .. k.index)
    BY <1>1
  <2>6. n \in With(content, j, k) <=> n \in content \/ n \in OpsIn(RedoneEntries(j, k))
    BY DEF With
  <2> QED BY <2>1, <2>2, <2>3, <2>4, <2>5, <2>6
<1>3. With(content, j, k) = OpsSince(k, 1)
  BY <1>2
<1> QED BY <1>3 DEF Reads

-----------------------------------------------------------------------------
(* The asworker's journal and the list of names, as either changes.        *)

LEMMA ListTypes ==
    ASSUME NEW list \in Seq(Name), NEW k \in 0 .. Len(list)
    PROVE  /\ Len(list) \in Nat /\ DOMAIN list = 1 .. Len(list) /\ k \in Nat /\ k <= Len(list)
           /\ \A x \in DOMAIN list : list[x] \in Name
OBVIOUS

\* The cursor goes over a name that the asworker does not have.
LEMMA ToldBack ==
    ASSUME NEW list \in Seq(Name), NEW k \in 1 .. Len(list), NEW j \in Journals(Entry),
           Told(list, k, j), ~Shared(list[k])
    PROVE  Told(list, k - 1, j)
<1>1. /\ Len(list) \in Nat /\ DOMAIN list = 1 .. Len(list) /\ k \in Nat /\ k <= Len(list)
  BY ListTypes
<1>2. TellsUpTo(list, k - 1, j)
  <2>1. SUFFICES ASSUME NEW i \in DOMAIN j.log, NEW x \in DOMAIN list,
                        Shared(list[x]), Says(j.log[i], list[x])
                 PROVE  /\ x <= k - 1 => i <= j.index
                        /\ IsOp(j.log[i]) /\ i <= j.index => x <= k - 1
    BY DEF TellsUpTo
  <2>2. (x <= k => i <= j.index) /\ (IsOp(j.log[i]) /\ i <= j.index => x <= k)
    BY <2>1 DEF Told, TellsUpTo
  <2>3. x # k
    BY <2>1
  <2> QED BY <1>1, <2>2, <2>3
<1>3. NextIsStep(list, k - 1, j)
  <2>1. SUFFICES ASSUME NEW x \in k .. Len(list), list[x].kind = "as",
                        \A y \in k .. x - 1 : ~Shared(list[y])
                 PROVE  j.index < Len(j.log) /\ IsStepCheckpoint(j.log[j.index + 1])
    <3>1. (k - 1) + 1 = k
      BY <1>1
    <3> QED BY <3>1 DEF NextIsStep
  <2>2. x # k
    BY <2>1 DEF Shared
  <2>3. x \in k + 1 .. Len(list) /\ \A y \in k + 1 .. x - 1 : y \in k .. x - 1
    BY <1>1, <2>2
  <2> QED BY <2>1, <2>3 DEF Told, NextIsStep
<1> QED BY <1>2, <1>3 DEF Told

LEMMA ToldOn ==
    ASSUME NEW list \in Seq(Name), NEW k \in 0 .. Len(list) - 1, NEW j \in Journals(Entry),
           Told(list, k, j), ~Shared(list[k + 1])
    PROVE  Told(list, k + 1, j)
<1>1. /\ Len(list) \in Nat /\ DOMAIN list = 1 .. Len(list) /\ k \in Nat /\ k + 1 <= Len(list)
  OBVIOUS
<1>2. TellsUpTo(list, k + 1, j)
  <2>1. SUFFICES ASSUME NEW i \in DOMAIN j.log, NEW x \in DOMAIN list,
                        Shared(list[x]), Says(j.log[i], list[x])
                 PROVE  /\ x <= k + 1 => i <= j.index
                        /\ IsOp(j.log[i]) /\ i <= j.index => x <= k + 1
    BY DEF TellsUpTo
  <2>2. (x <= k => i <= j.index) /\ (IsOp(j.log[i]) /\ i <= j.index => x <= k)
    BY <2>1 DEF Told, TellsUpTo
  <2>3. x # k + 1
    BY <2>1
  <2> QED BY <1>1, <2>2, <2>3
<1>3. NextIsStep(list, k + 1, j)
  <2>1. SUFFICES ASSUME NEW x \in (k + 1) + 1 .. Len(list), list[x].kind = "as",
                        \A y \in (k + 1) + 1 .. x - 1 : ~Shared(list[y])
                 PROVE  j.index < Len(j.log) /\ IsStepCheckpoint(j.log[j.index + 1])
    BY DEF NextIsStep
  <2>2. \A y \in k + 1 .. x - 1 : y = k + 1 \/ y \in (k + 1) + 1 .. x - 1
    BY <1>1
  <2>3. x \in k + 1 .. Len(list) /\ \A y \in k + 1 .. x - 1 : ~Shared(list[y])
    BY <1>1, <2>1, <2>2
  <2> QED BY <2>1, <2>3 DEF Told, NextIsStep
<1> QED BY <1>2, <1>3 DEF Told

\* Recording a name.
LEMMA GrowsFacts ==
    ASSUME NEW list \in Seq(Name), NEW k \in 0 .. Len(list), NEW name \in Name
    PROVE  LET new == Grows(list, k, name) IN
           /\ new \in Seq(Name) /\ Len(new) = k + 1 /\ DOMAIN new = 1 .. k + 1
           /\ new[k + 1] = name /\ \A x \in 1 .. k : new[x] = list[x]
<1>1. /\ SubSeq(list, 1, k) \in Seq(Name) /\ Len(SubSeq(list, 1, k)) = k
      /\ \A x \in 1 .. k : SubSeq(list, 1, k)[x] = list[x]
  <2>1. 0 \in Nat /\ k \in Nat /\ k <= Len(list) /\ 0 <= k /\ 0 + 1 = 1 /\ k - 0 = k
        /\ \A x \in 1 .. k : 0 + x = x
    BY ListTypes
  <2>2. /\ SubSeq(list, 0 + 1, k) \in Seq(Name) /\ Len(SubSeq(list, 0 + 1, k)) = k - 0
        /\ \A i \in 1 .. k - 0 : SubSeq(list, 0 + 1, k)[i] = list[0 + i]
    BY <2>1, Between
  <2> QED BY <2>1, <2>2
<1>2. k \in Nat /\ \A x \in 1 .. k : x # k + 1 /\ x \in 1 .. k + 1
  BY ListTypes
<1> QED BY <1>1, <1>2 DEF Grows

\* The csworker records a name that the asworker does not have.
LEMMA ToldElse ==
    ASSUME NEW list \in Seq(Name), NEW k \in 0 .. Len(list), NEW j \in Journals(Entry),
           Told(list, k, j), \A i \in DOMAIN j.log : SteppedAt(j.log, i),
           NEW name \in Name, ~Shared(name)
    PROVE  Told(Grows(list, k, name), k + 1, j)
<1>1. PICK new : new = Grows(list, k, name)
  OBVIOUS
<1>2. /\ DOMAIN new = 1 .. k + 1 /\ Len(new) = k + 1 /\ new[k + 1] = name
      /\ \A x \in 1 .. k : new[x] = list[x]
  BY <1>1, GrowsFacts
<1>3. /\ Len(list) \in Nat /\ DOMAIN list = 1 .. Len(list) /\ k \in Nat /\ k <= Len(list)
      /\ DOMAIN j.log = 1 .. Len(j.log) /\ Len(j.log) \in Nat /\ j.index \in Nat
  BY ListTypes, JournalTypes
<1>4. ASSUME NEW x \in DOMAIN new, Shared(new[x])
      PROVE  x \in 1 .. k /\ x \in DOMAIN list /\ new[x] = list[x] /\ Shared(list[x])
  <2>1. x # k + 1
    BY <1>2, <1>4
  <2> QED BY <2>1, <1>2, <1>3, <1>4
<1>5. TellsAll(new, j)
  BY <1>4 DEF Told, TellsAll
<1>6. TellsInOrder(new, j)
  BY <1>4 DEF Told, TellsInOrder
<1>7. TellsUpTo(new, k + 1, j)
  <2>1. SUFFICES ASSUME NEW i \in DOMAIN j.log, NEW x \in DOMAIN new,
                        Shared(new[x]), Says(j.log[i], new[x])
                 PROVE  i <= j.index /\ x <= k + 1
    BY DEF TellsUpTo
  <2>2. x \in DOMAIN list /\ x <= k /\ x <= k + 1 /\ Shared(list[x]) /\ Says(j.log[i], list[x])
    BY <1>3, <1>4, <2>1
  <2> QED BY <2>2 DEF Told, TellsUpTo
<1>8. OthersUndone(new, j)
  <2>1. SUFFICES ASSUME NEW i \in DOMAIN j.log, IsOp(j.log[i]),
                        \A x \in DOMAIN new : new[x] # j.log[i].name
                 PROVE  /\ j.index < i
                        /\ \A m \in DOMAIN j.log, y \in DOMAIN new :
                              Shared(new[y]) /\ Says(j.log[m], new[y]) => m < i
    BY DEF OthersUndone
  <2>2. CASE \A x \in DOMAIN list : list[x] # j.log[i].name
    BY <1>4, <2>1, <2>2 DEF Told, OthersUndone
  <2>3. CASE \E x \in DOMAIN list : list[x] = j.log[i].name
    <3>1. PICK x \in DOMAIN list : list[x] = j.log[i].name
      BY <2>3
    <3>2. k < x
      <4>1. x \notin 1 .. k
        <5>1. x \in 1 .. k => x \in DOMAIN new /\ new[x] = list[x]
          BY <1>2, <1>3
        <5> QED BY <2>1, <3>1, <5>1
      <4> QED BY <1>3, <4>1
    <3>3. Shared(list[x]) /\ Says(j.log[i], list[x])
      BY <2>1, <3>1 DEF SteppedAt, Shared, Says, IsOp, IsStepCheckpoint
    <3>4. ~(i <= j.index)
      <4>1. i <= j.index => x <= k
        BY <2>1, <3>3 DEF Told, TellsUpTo
      <4> QED BY <1>3, <3>2, <4>1
    <3>5. ASSUME NEW m \in DOMAIN j.log, NEW y \in DOMAIN new, Shared(new[y]), Says(j.log[m], new[y])
          PROVE  m < i
      <4>1. y \in DOMAIN list /\ y < x /\ Shared(list[y]) /\ Says(j.log[m], list[y])
        BY <1>3, <1>4, <3>2, <3>5
      <4> QED BY <3>3, <4>1 DEF Told, TellsInOrder
    <3> QED BY <1>3, <3>4, <3>5
  <2> QED BY <2>2, <2>3
<1>9. NextIsStep(new, k + 1, j)
  BY <1>2, <1>3 DEF NextIsStep
<1> QED BY <1>1, <1>5, <1>6, <1>7, <1>8, <1>9 DEF Told

\* The asworker logs a name, and the csworker is to record it.
LEMMA ToldAfter ==
    ASSUME NEW list \in Seq(Name), NEW k \in 0 .. Len(list), NEW j \in Journals(Entry),
           Told(list, k, j), \A i \in DOMAIN j.log : SteppedAt(j.log, i),
           NEW name \in Name, \A x \in DOMAIN list : list[x] # name, name \notin Named(j),
           NEW h \in Journals(Entry), h.index = Len(h.log), j.index < h.index,
           \A i \in 1 .. j.index : h.log[i] = j.log[i],
           \A i \in j.index + 1 .. h.index - 1 : IsStepCheckpoint(h.log[i]),
           Says(h.log[h.index], name)
    PROVE  Told(Grows(list, k, name), k + 1, h)
<1>1. PICK new : new = Grows(list, k, name)
  OBVIOUS
<1>2. /\ DOMAIN new = 1 .. k + 1 /\ Len(new) = k + 1 /\ new[k + 1] = name
      /\ \A x \in 1 .. k : new[x] = list[x]
  BY <1>1, GrowsFacts
<1>3. /\ Len(list) \in Nat /\ DOMAIN list = 1 .. Len(list) /\ k \in Nat /\ k <= Len(list)
      /\ DOMAIN j.log = 1 .. Len(j.log) /\ Len(j.log) \in Nat /\ j.index \in Nat
      /\ j.index <= Len(j.log) /\ DOMAIN h.log = 1 .. h.index /\ h.index \in Nat
  BY ListTypes, JournalTypes
<1>4. ASSUME NEW i \in DOMAIN h.log, ~IsStepCheckpoint(h.log[i])
      PROVE  \/ i = h.index /\ h.log[i].name = name
             \/ /\ i \in 1 .. j.index /\ i \in DOMAIN j.log /\ i < h.index
                /\ h.log[i] = j.log[i] /\ j.log[i].name # name
  <2>1. CASE i = h.index
    BY <2>1 DEF Says
  <2>2. CASE i \in j.index + 1 .. h.index - 1
    BY <2>2, <1>4
  <2>3. CASE i \in 1 .. j.index
    <3>1. i \in DOMAIN j.log /\ h.log[i] = j.log[i] /\ i < h.index
      BY <1>3, <2>3
    <3>2. j.log[i].name \in Named(j)
      BY <1>4, <3>1 DEF Named
    <3> QED BY <2>3, <3>1, <3>2
  <2> QED BY <1>3, <2>1, <2>2, <2>3
<1>5. ASSUME NEW i \in DOMAIN h.log, NEW x \in DOMAIN new, Shared(new[x]), Says(h.log[i], new[x])
      PROVE  \/ i = h.index /\ x = k + 1
             \/ /\ i \in 1 .. j.index /\ i \in DOMAIN j.log /\ i < h.index
                /\ x \in 1 .. k /\ x \in DOMAIN list /\ x < k + 1
                /\ Shared(list[x]) /\ Says(j.log[i], list[x])
  <2>1. CASE x = k + 1
    BY <1>2, <1>4, <1>5, <2>1 DEF Says
  <2>2. CASE x \in 1 .. k
    <3>1. x \in DOMAIN list /\ new[x] = list[x] /\ x < k + 1
      BY <1>2, <1>3, <2>2
    <3>2. h.log[i].name # name /\ ~IsStepCheckpoint(h.log[i])
      BY <1>5, <3>1 DEF Says
    <3> QED BY <1>4, <1>5, <2>2, <3>1, <3>2 DEF Says
  <2> QED BY <1>2, <1>3, <2>1, <2>2
<1>6. TellsAll(new, h)
  <2>1. SUFFICES ASSUME NEW x \in DOMAIN new, Shared(new[x])
                 PROVE  \E i \in DOMAIN h.log : Says(h.log[i], new[x])
    BY DEF TellsAll
  <2>2. CASE x = k + 1
    <3>1. h.index \in DOMAIN h.log
      BY <1>3
    <3> QED BY <1>2, <2>2, <3>1
  <2>3. CASE x \in 1 .. k
    <3>1. x \in DOMAIN list /\ new[x] = list[x] /\ x <= k
      BY <1>2, <1>3, <2>3
    <3>2. PICK i \in DOMAIN j.log : Says(j.log[i], list[x])
      BY <2>1, <3>1 DEF Told, TellsAll
    <3>3. i <= j.index
      BY <2>1, <3>1, <3>2 DEF Told, TellsUpTo
    <3>4. i \in DOMAIN h.log /\ h.log[i] = j.log[i]
      BY <1>3, <3>3
    <3> QED BY <3>1, <3>2, <3>4
  <2> QED BY <1>2, <1>3, <2>2, <2>3
<1>7. TellsInOrder(new, h)
  <2>1. SUFFICES ASSUME NEW i \in DOMAIN h.log, NEW m \in DOMAIN h.log,
                        NEW x \in DOMAIN new, NEW y \in DOMAIN new, Shared(new[x]), Shared(new[y]),
                        Says(h.log[i], new[x]), Says(h.log[m], new[y])
                 PROVE  i < m <=> x < y
    BY DEF TellsInOrder
  <2>2. CASE i = h.index /\ x = k + 1
    <3>1. ~(i < m) /\ ~(x < y)
      BY <1>2, <1>3, <2>2
    <3> QED BY <3>1
  <2>3. CASE i # h.index \/ x # k + 1
    <3>1. /\ i \in DOMAIN j.log /\ i < h.index /\ x \in DOMAIN list /\ x < k + 1
          /\ Shared(list[x]) /\ Says(j.log[i], list[x])
      BY <1>5, <2>1, <2>3
    <3>2. \/ m = h.index /\ y = k + 1
          \/ m \in DOMAIN j.log /\ y \in DOMAIN list /\ Shared(list[y]) /\ Says(j.log[m], list[y])
      BY <1>5, <2>1
    <3> QED BY <3>1, <3>2 DEF Told, TellsInOrder
  <2> QED BY <2>2, <2>3
<1>8. TellsUpTo(new, k + 1, h)
  <2>1. (\A i \in DOMAIN h.log : i <= h.index) /\ (\A x \in DOMAIN new : x <= k + 1)
    BY <1>2, <1>3
  <2> QED BY <2>1 DEF TellsUpTo
<1>9. OthersUndone(new, h)
  <2>1. SUFFICES ASSUME NEW i \in DOMAIN h.log, IsOp(h.log[i]),
                        \A x \in DOMAIN new : new[x] # h.log[i].name
                 PROVE  FALSE
    BY DEF OthersUndone
  <2>2. k + 1 \in DOMAIN new /\ \A x \in 1 .. k : x \in DOMAIN new
    BY <1>2, <1>3
  <2>3. h.log[i].name # name
    BY <1>2, <2>1, <2>2
  <2>4. /\ i \in 1 .. j.index /\ i \in DOMAIN j.log /\ h.log[i] = j.log[i]
    BY <1>4, <2>1, <2>3 DEF IsOp, IsStepCheckpoint
  <2>5. ~(j.index < i) /\ i <= j.index /\ IsOp(j.log[i])
    BY <1>3, <2>1, <2>4
  <2>6. PICK x \in DOMAIN list : list[x] = j.log[i].name
    BY <2>4, <2>5 DEF Told, OthersUndone
  <2>7. Shared(list[x]) /\ Says(j.log[i], list[x])
    BY <2>4, <2>5, <2>6 DEF SteppedAt, Shared, Says, IsOp, IsStepCheckpoint
  <2>8. x <= k
    BY <2>4, <2>5, <2>7 DEF Told, TellsUpTo
  <2>9. x \in 1 .. k
    BY <1>3, <2>8
  <2> QED BY <1>2, <2>1, <2>2, <2>4, <2>6, <2>9
<1>10. NextIsStep(new, k + 1, h)
  BY <1>2, <1>3 DEF NextIsStep
<1> QED BY <1>1, <1>6, <1>7, <1>8, <1>9, <1>10 DEF Told

\* The name of a step of a list, or of the start of a batch, is said once.
LEMMA ToldOnce ==
    ASSUME NEW list, NEW k, NEW j \in Journals(Entry), Told(list, k, j),
           NEW x \in DOMAIN list, Shared(list[x]), NEW i \in DOMAIN j.log, NEW m \in DOMAIN j.log,
           Says(j.log[i], list[x]), Says(j.log[m], list[x]), x \in Nat
    PROVE  i = m
<1>1. (i < m <=> x < x) /\ (m < i <=> x < x)
  BY DEF Told, TellsInOrder
<1>2. i \in Nat /\ m \in Nat
  BY JournalTypes
<1> QED BY <1>1, <1>2

\* The asworker's journal goes back over entry i0, which is what name x0 of the list is about.
LEMMA ToldUndone ==
    ASSUME NEW list \in Seq(Name), NEW k \in 0 .. Len(list), NEW j \in Journals(Entry),
           Told(list, k, j), \A i \in DOMAIN j.log : SteppedAt(j.log, i),
           NEW x0 \in 1 .. k, Shared(list[x0]),
           NEW i0 \in DOMAIN j.log, Says(j.log[i0], list[x0]),
           NEW h \in Journals(Entry), h.log = j.log, h.index < i0, h.index <= j.index,
           \A i \in h.index + 1 .. i0 - 1 : IsStepCheckpoint(j.log[i]),
           list[x0].kind = "as" => h.index + 1 = i0 - 1
    PROVE  Told(list, x0 - 1, h)
<1>1. /\ Len(list) \in Nat /\ DOMAIN list = 1 .. Len(list) /\ k \in Nat /\ k <= Len(list)
      /\ DOMAIN j.log = 1 .. Len(j.log) /\ Len(j.log) \in Nat /\ j.index \in Nat
      /\ j.index <= Len(j.log) /\ h.index \in Nat /\ x0 \in DOMAIN list
  BY ListTypes, JournalTypes
<1>2. TellsUpTo(list, x0 - 1, h)
  <2>1. SUFFICES ASSUME NEW i \in DOMAIN j.log, NEW x \in DOMAIN list,
                        Shared(list[x]), Says(j.log[i], list[x])
                 PROVE  /\ x <= x0 - 1 => i <= h.index
                        /\ i <= h.index => x <= x0 - 1
    BY DEF TellsUpTo
  <2>2. i < i0 <=> x < x0
    BY <1>1, <2>1 DEF Told, TellsInOrder
  <2>3. i \notin h.index + 1 .. i0 - 1
    BY <2>1 DEF Says
  <2> QED BY <1>1, <2>2, <2>3
<1>3. OthersUndone(list, h)
  BY <1>1 DEF Told, OthersUndone
<1>4. NextIsStep(list, x0 - 1, h)
  <2>1. SUFFICES ASSUME NEW x \in x0 .. Len(list), list[x].kind = "as",
                        \A y \in x0 .. x - 1 : ~Shared(list[y])
                 PROVE  h.index < Len(h.log) /\ IsStepCheckpoint(h.log[h.index + 1])
    <3>1. (x0 - 1) + 1 = x0
      BY <1>1
    <3> QED BY <3>1 DEF NextIsStep
  <2>2. x = x0
    <3>1. x # x0 => x0 \in x0 .. x - 1
      BY <1>1
    <3> QED BY <2>1, <3>1
  <2>3. h.index + 1 = i0 - 1 /\ h.index + 1 \in h.index + 1 .. i0 - 1 /\ h.index < Len(j.log)
    BY <1>1, <2>1, <2>2
  <2> QED BY <2>3
<1> QED BY <1>2, <1>3, <1>4 DEF Told, TellsAll, TellsInOrder

-----------------------------------------------------------------------------
(* What the asworker does to its journal.                                  *)

\* An undo that stops after an entry that is no step-checkpoint.
LEMMA AsMovedBack ==
    ASSUME NEW content, NEW j \in Journals(Entry), AsShape(content, j),
           NEW h \in Journals(Entry), h.log = j.log, h.index <= j.index,
           h.index > 0 => ~IsStepCheckpoint(j.log[h.index])
    PROVE  AsShape(Without(content, j, h), h)
<1>1. Reads(Without(content, j, h), h)
  BY ReadsUndone DEF AsShape
<1> QED BY <1>1 DEF AsShape

\* Undoing a step: it is the last one of the list.
LEMMA AsStepUndone ==
    ASSUME NEW content, NEW j \in Journals(Entry), AsShape(content, j),
           NEW list \in Seq(Name), NEW k \in 1 .. Len(list), Told(list, k, j), list[k].kind = "as"
    PROVE  AsShape(Without(content, j, UndoneStep(j)), UndoneStep(j)) /\ Told(list, k - 1, UndoneStep(j))
<1>1. /\ Len(list) \in Nat /\ DOMAIN list = 1 .. Len(list) /\ k \in Nat /\ k <= Len(list)
      /\ DOMAIN j.log = 1 .. Len(j.log) /\ Len(j.log) \in Nat /\ j.index \in Nat
      /\ j.index <= Len(j.log) /\ k \in DOMAIN list /\ k \in 0 .. Len(list) /\ k \in 1 .. k
  BY JournalTypes
<1>2. (\A i \in DOMAIN j.log : SteppedAt(j.log, i)) /\ Shared(list[k])
  BY DEF AsShape, Shared
<1>3. PICK i0 \in DOMAIN j.log : Says(j.log[i0], list[k])
  BY <1>1, <1>2 DEF Told, TellsAll
<1>4. i0 <= j.index
  BY <1>1, <1>2, <1>3 DEF Told, TellsUpTo
<1>5. IsOp(j.log[i0])
  <2>1. ~IsUserCheckpoint(j.log[i0])
    BY <1>2, <1>3 DEF SteppedAt, Says
  <2>2. j.log[i0] \in Entry
    BY JournalTypes, <1>1
  <2> QED BY <1>3, <2>1, <2>2 DEF Entry, MKSTPCHKPT, IsOp, IsUserCheckpoint, IsStepCheckpoint, Says
<1>6. i0 > 1 /\ i0 - 1 \in DOMAIN j.log /\ IsStepCheckpoint(j.log[i0 - 1])
  BY <1>1, <1>2, <1>5 DEF SteppedAt
<1>7. ASSUME NEW m \in 1 .. j.index, IsStepCheckpoint(j.log[m]) PROVE m <= i0 - 1
  <2>1. SUFFICES ASSUME ~(m <= i0 - 1) PROVE FALSE
    OBVIOUS
  <2>2. m # i0 /\ m \in DOMAIN j.log
    BY <1>1, <1>3, <1>7 DEF Says
  <2>3. m + 1 \in DOMAIN j.log /\ IsOp(j.log[m + 1])
    BY <1>2, <1>7, <2>2 DEF SteppedAt
  <2>4. m # j.index
    BY <1>1, <1>7 DEF AsShape
  <2>5. i0 < m + 1 /\ m + 1 <= j.index /\ ~(j.index < m + 1)
    BY <1>1, <2>1, <2>2, <2>4
  <2>6. PICK x \in DOMAIN list : list[x] = j.log[m + 1].name
    BY <2>3, <2>5 DEF Told, OthersUndone
  <2>7. Shared(list[x]) /\ Says(j.log[m + 1], list[x])
    BY <1>2, <2>3, <2>6 DEF SteppedAt, Shared, Says, IsOp, IsStepCheckpoint
  <2>8. x <= k
    BY <2>3, <2>5, <2>7 DEF Told, TellsUpTo
  <2>9. k < x
    BY <1>1, <1>2, <1>3, <2>3, <2>5, <2>7 DEF Told, TellsInOrder
  <2> QED BY <1>1, <2>8, <2>9
<1>8. LastStep(j) = i0 - 1
  <2>1. i0 - 1 \in 0 .. j.index
    BY <1>1, <1>4, <1>6
  <2> QED BY <1>6, <1>7, <2>1, LastStepIs
<1>9. PICK h : h = UndoneStep(j)
  OBVIOUS
<1>10. h \in Journals(Entry) /\ h.log = j.log /\ h.index <= j.index /\ h.index = i0 - 2
  BY <1>1, <1>6, <1>8, <1>9, UndoneFacts
<1>11. AsShape(Without(content, j, h), h)
  <2>1. ASSUME h.index > 0, IsStepCheckpoint(j.log[h.index]) PROVE FALSE
    <3>1. h.index \in DOMAIN j.log /\ h.index + 1 = i0 - 1
      BY <1>1, <1>6, <1>10, <2>1
    <3>2. IsOp(j.log[i0 - 1])
      BY <1>2, <2>1, <3>1 DEF SteppedAt
    <3> QED BY <1>6, <3>2 DEF IsOp, IsStepCheckpoint
  <2> QED BY <1>10, <2>1, AsMovedBack
<1>12. Told(list, k - 1, h)
  <2>1. h.index < i0 /\ h.index + 1 = i0 - 1 /\ \A i \in h.index + 1 .. i0 - 1 : i = i0 - 1
    BY <1>1, <1>10
  <2>2. \A i \in h.index + 1 .. i0 - 1 : IsStepCheckpoint(j.log[i])
    BY <1>6, <2>1
  <2> QED BY <1>1, <1>2, <1>3, <1>10, <2>1, <2>2, ToldUndone
<1> QED BY <1>9, <1>11, <1>12

\* Undoing a batch, which is told by its start checkpoint.
LEMMA AsWholeUndone ==
    ASSUME NEW content, NEW j \in Journals(Entry), AsShape(content, j),
           NEW list \in Seq(Name), NEW k \in 0 .. Len(list), Told(list, k, j),
           NEW x0 \in 1 .. k, list[x0].kind = "start"
    PROVE  /\ AsShape(Without(content, j, UndoneUntil(j, list[x0])), UndoneUntil(j, list[x0]))
           /\ Told(list, x0 - 1, UndoneUntil(j, list[x0]))
<1>1. /\ Len(list) \in Nat /\ DOMAIN list = 1 .. Len(list) /\ k \in Nat /\ k <= Len(list)
      /\ DOMAIN j.log = 1 .. Len(j.log) /\ Len(j.log) \in Nat /\ j.index \in Nat
      /\ j.index <= Len(j.log) /\ x0 \in DOMAIN list /\ x0 <= k /\ x0 \in Nat
  BY ListTypes, JournalTypes
<1>2. (\A i \in DOMAIN j.log : SteppedAt(j.log, i)) /\ Shared(list[x0])
  BY DEF AsShape, Shared
<1>3. PICK i0 \in DOMAIN j.log : Says(j.log[i0], list[x0])
  BY <1>1, <1>2 DEF Told, TellsAll
<1>4. i0 <= j.index /\ i0 \in 1 .. j.index
  <2>1. i0 <= j.index
    BY <1>1, <1>2, <1>3 DEF Told, TellsUpTo
  <2> QED BY <1>1, <2>1
<1>5. IsUserCheckpoint(j.log[i0]) /\ IsNamed(j.log[i0], list[x0])
  <2>1. ~IsOp(j.log[i0])
    BY <1>2, <1>3 DEF SteppedAt, Says
  <2>2. j.log[i0] \in Entry
    BY JournalTypes, <1>1
  <2> QED BY <1>3, <2>1, <2>2
          DEF Entry, MKSTPCHKPT, IsOp, IsUserCheckpoint, IsStepCheckpoint, Says, IsNamed
<1>6. ASSUME NEW m \in 1 .. j.index, IsNamed(j.log[m], list[x0]) PROVE m = i0
  <2>1. m \in DOMAIN j.log /\ Says(j.log[m], list[x0])
    BY <1>1, <1>6 DEF Says, IsNamed, IsUserCheckpoint, IsStepCheckpoint
  <2> QED BY <1>1, <1>2, <1>3, <2>1, ToldOnce
<1>7. PICK h : h = UndoneUntil(j, list[x0])
  OBVIOUS
<1>8. h \in Journals(Entry) /\ h.log = j.log /\ h.index <= j.index /\ h.index = i0 - 1
  BY <1>4, <1>5, <1>6, <1>7, UndoneUntilFacts
<1>9. AsShape(Without(content, j, h), h)
  <2>1. ASSUME h.index > 0, IsStepCheckpoint(j.log[h.index]) PROVE FALSE
    <3>1. h.index \in DOMAIN j.log /\ h.index + 1 = i0
      BY <1>1, <1>8, <2>1
    <3>2. IsOp(j.log[i0])
      BY <1>2, <2>1, <3>1 DEF SteppedAt
    <3> QED BY <1>5, <3>2 DEF IsOp, IsUserCheckpoint
  <2> QED BY <1>8, <2>1, AsMovedBack
<1>10. Told(list, x0 - 1, h)
  <2>1. h.index < i0 /\ \A i \in h.index + 1 .. i0 - 1 : FALSE
    BY <1>1, <1>8
  <2> QED BY <1>1, <1>2, <1>3, <1>8, <2>1, ToldUndone
<1> QED BY <1>7, <1>9, <1>10

\* redo() goes over no step-checkpoint but the one that the index is on.
LEMMA RedoneStepFacts ==
    ASSUME NEW j \in Journals(Entry), j.index < Len(j.log)
    PROVE  \A i \in j.index + 2 .. RedoneStep(j).index : ~IsStepCheckpoint(j.log[i])
<1>1. j.index \in Nat /\ Len(j.log) \in Nat
  BY JournalTypes
<1>2. PICK stops : stops = { i \in j.index + 2 .. Len(j.log) : IsStepCheckpoint(j.log[i]) }
  OBVIOUS
<1>3. stops \subseteq Nat /\ \A i \in stops : i <= Len(j.log)
  BY <1>1, <1>2
<1>4. RedoneStep(j).index = Lowest(stops, Len(j.log) + 1) - 1
  BY <1>1, <1>2 DEF RedoneStep, Journals
<1>5. CASE stops = {}
  <2>1. RedoneStep(j).index = Len(j.log)
    BY <1>1, <1>4, <1>5 DEF Lowest
  <2> QED BY <1>2, <1>5, <2>1
<1>6. CASE stops # {}
  <2>1. PICK low : low = Lowest(stops, Len(j.log) + 1)
    OBVIOUS
  <2>2. low \in stops /\ \A i \in stops : low <= i
    BY <1>3, <1>6, <2>1, LowestIn
  <2>3. ASSUME NEW i \in j.index + 2 .. low - 1 PROVE i \notin stops /\ i \in j.index + 2 .. Len(j.log)
    BY <1>1, <1>3, <2>2
  <2> QED BY <1>2, <1>4, <2>1, <2>3
<1> QED BY <1>5, <1>6

\* Redoing a step: it is the next one of the list.
LEMMA AsStepRedone ==
    ASSUME NEW content, NEW j \in Journals(Entry), AsShape(content, j),
           NEW list \in Seq(Name), NEW k \in 0 .. Len(list) - 1, Told(list, k, j),
           list[k + 1].kind = "as"
    PROVE  AsShape(With(content, j, RedoneStep(j)), RedoneStep(j)) /\ Told(list, k + 1, RedoneStep(j))
<1>1. /\ Len(list) \in Nat /\ DOMAIN list = 1 .. Len(list) /\ k \in Nat /\ k + 1 <= Len(list)
      /\ DOMAIN j.log = 1 .. Len(j.log) /\ Len(j.log) \in Nat /\ j.index \in Nat
      /\ j.index <= Len(j.log) /\ k + 1 \in DOMAIN list
  BY JournalTypes
<1>2. (\A i \in DOMAIN j.log : SteppedAt(j.log, i)) /\ Shared(list[k + 1])
  BY DEF AsShape, Shared
<1>3. j.index < Len(j.log) /\ IsStepCheckpoint(j.log[j.index + 1])
  <2>1. k + 1 \in k + 1 .. Len(list) /\ \A y \in k + 1 .. (k + 1) - 1 : FALSE
    BY <1>1
  <2> QED BY <2>1 DEF Told, NextIsStep
<1>4. PICK i1 : i1 = j.index + 2
  OBVIOUS
<1>5. i1 \in DOMAIN j.log /\ IsOp(j.log[i1]) /\ j.log[i1].name.kind = "as"
  <2>1. j.index + 1 \in DOMAIN j.log /\ (j.index + 1) + 1 = i1
    BY <1>1, <1>3, <1>4
  <2>2. i1 \in DOMAIN j.log /\ IsOp(j.log[i1])
    BY <1>2, <1>3, <2>1 DEF SteppedAt
  <2> QED BY <1>2, <2>2 DEF SteppedAt
<1>6. ASSUME NEW x \in DOMAIN list, NEW m \in DOMAIN j.log, list[x].kind = "as", k < x,
             Says(j.log[m], list[x])
      PROVE  j.index < m /\ i1 <= m /\ IsOp(j.log[m]) /\ Shared(list[x])
  <2>1. ~IsUserCheckpoint(j.log[m]) /\ Shared(list[x])
    BY <1>2, <1>6 DEF SteppedAt, Says, Shared
  <2>2. j.log[m] \in Entry
    BY JournalTypes, <1>1
  <2>3. IsOp(j.log[m])
    BY <1>6, <2>1, <2>2 DEF Entry, MKSTPCHKPT, IsOp, IsUserCheckpoint, IsStepCheckpoint, Says
  <2>4. ~(m <= j.index)
    <3>1. m <= j.index => x <= k
      BY <1>6, <2>1, <2>3 DEF Told, TellsUpTo
    <3> QED BY <1>1, <1>6, <3>1
  <2>5. m # j.index + 1
    BY <1>3, <1>6 DEF Says
  <2> QED BY <1>1, <1>4, <2>1, <2>3, <2>4, <2>5
<1>7. PICK m \in DOMAIN j.log : Says(j.log[m], list[k + 1])
  BY <1>1, <1>2 DEF Told, TellsAll
<1>8. Says(j.log[i1], list[k + 1])
  <2>1. i1 <= m /\ i1 \in Nat /\ m \in Nat /\ j.index < i1
    <3>1. k < k + 1 /\ list[k + 1].kind = "as" /\ k + 1 \in DOMAIN list
      BY <1>1
    <3>2. i1 <= m
      BY <1>6, <1>7, <3>1
    <3> QED BY <1>1, <1>4, <1>7, <3>2
  <2>2. PICK x \in DOMAIN list : list[x] = j.log[i1].name
    <3>1. ~(m < i1)
      BY <2>1
    <3> QED BY <1>1, <1>2, <1>5, <1>7, <3>1 DEF Told, OthersUndone
  <2>3. Shared(list[x]) /\ Says(j.log[i1], list[x])
    BY <1>5, <2>2 DEF Shared, Says, IsOp, IsStepCheckpoint
  <2>4. k < x
    <3>1. x <= k => i1 <= j.index
      BY <1>5, <2>3 DEF Told, TellsUpTo
    <3> QED BY <1>1, <2>1, <3>1
  <2>5. ~(m < i1)
    BY <2>1
  <2>6. ~(k + 1 < x)
    BY <1>1, <1>2, <1>5, <1>7, <2>3, <2>5 DEF Told, TellsInOrder
  <2>7. x = k + 1
    BY <1>1, <2>4, <2>6
  <2> QED BY <2>3, <2>7
<1>9. PICK h : h = RedoneStep(j)
  OBVIOUS
<1>10. /\ h \in Journals(Entry) /\ h.log = j.log /\ h.index > j.index
       /\ h.index < Len(j.log) => IsStepCheckpoint(j.log[h.index + 1])
       /\ \A i \in j.index + 2 .. h.index : ~IsStepCheckpoint(j.log[i])
  BY <1>3, <1>9, RedoneFacts, RedoneStepFacts
<1>11. h.index \in Nat /\ h.index <= Len(j.log)
  BY <1>10, JournalTypes
<1>12. i1 <= h.index
  <2>1. h.index # j.index + 1
    <3>1. CASE h.index = Len(j.log)
      BY <1>1, <1>4, <1>5, <3>1
    <3>2. CASE h.index < Len(j.log)
      <4>1. IsStepCheckpoint(j.log[h.index + 1]) /\ ~IsStepCheckpoint(j.log[i1])
        BY <1>5, <1>10, <3>2 DEF IsOp, IsStepCheckpoint
      <4>2. h.index + 1 # i1
        BY <4>1
      <4> QED BY <1>1, <1>4, <1>11, <4>2
    <3> QED BY <1>1, <1>11, <3>1, <3>2
  <2> QED BY <1>1, <1>4, <1>10, <1>11, <2>1
<1>13. ASSUME NEW i \in DOMAIN j.log, IsOp(j.log[i]), j.index < i, i <= h.index
       PROVE  i = i1
  <2>1. i > 1 /\ IsStepCheckpoint(j.log[i - 1])
    BY <1>2, <1>13 DEF SteppedAt
  <2>2. i # j.index + 1
    BY <1>3, <1>13 DEF IsOp, IsStepCheckpoint
  <2>3. i - 1 \notin j.index + 2 .. h.index
    BY <1>10, <2>1
  <2>4. i \in Nat /\ j.index < i /\ i <= h.index
    BY <1>1, <1>13
  <2>5. i # j.index + 2 => i - 1 \in j.index + 2 .. h.index
    BY <1>1, <1>11, <2>2, <2>4
  <2> QED BY <1>4, <2>3, <2>5
<1>14. AsShape(With(content, j, h), h)
  <2>1. Reads(With(content, j, h), h)
    <3>1. ~IsOp(j.log[j.index + 1]) /\ j.index <= h.index
      BY <1>1, <1>3, <1>10, <1>11 DEF IsOp, IsStepCheckpoint
    <3> QED BY <1>10, <3>1, ReadsRedone DEF AsShape
  <2>2. ~IsStepCheckpoint(j.log[h.index])
    <3>1. h.index \in j.index + 2 .. h.index
      BY <1>1, <1>4, <1>11, <1>12
    <3> QED BY <1>10, <3>1
  <2> QED BY <1>2, <1>10, <2>1, <2>2 DEF AsShape
<1>15. TellsUpTo(list, k + 1, h)
  <2>1. SUFFICES ASSUME NEW i \in DOMAIN j.log, NEW x \in DOMAIN list,
                        Shared(list[x]), Says(j.log[i], list[x])
                 PROVE  /\ x <= k + 1 => i <= h.index
                        /\ IsOp(j.log[i]) /\ i <= h.index => x <= k + 1
    BY <1>10 DEF TellsUpTo
  <2>2. (x <= k => i <= j.index) /\ (IsOp(j.log[i]) /\ i <= j.index => x <= k)
    BY <2>1 DEF Told, TellsUpTo
  <2>3. x = k + 1 => i = i1
    BY <1>1, <1>5, <1>8, <2>1, ToldOnce
  <2>4. i = i1 => x = k + 1
    <3>1. i = i1 => ~(x < k + 1) /\ ~(k + 1 < x)
      <4>1. i1 \in Nat
        BY <1>1, <1>4
      <4>2. ~(i1 < i1)
        BY <4>1
      <4> QED BY <1>1, <1>2, <1>5, <1>8, <2>1, <4>2 DEF Told, TellsInOrder
    <3> QED BY <1>1, <3>1
  <2> QED BY <1>1, <1>10, <1>11, <1>12, <1>13, <2>2, <2>3, <2>4
<1>16. OthersUndone(list, h)
  <2>1. SUFFICES ASSUME NEW i \in DOMAIN j.log, IsOp(j.log[i]),
                        \A x \in DOMAIN list : list[x] # j.log[i].name
                 PROVE  /\ h.index < i
                        /\ \A n \in DOMAIN j.log, y \in DOMAIN list :
                              Shared(list[y]) /\ Says(j.log[n], list[y]) => n < i
    BY <1>10 DEF OthersUndone
  <2>2. /\ j.index < i
        /\ \A n \in DOMAIN j.log, y \in DOMAIN list : Shared(list[y]) /\ Says(j.log[n], list[y]) => n < i
    BY <2>1 DEF Told, OthersUndone
  <2>3. i # i1
    BY <1>1, <1>8, <2>1 DEF Says
  <2> QED BY <1>1, <1>11, <1>13, <2>1, <2>2, <2>3
<1>17. NextIsStep(list, k + 1, h)
  <2>1. SUFFICES ASSUME NEW x \in (k + 1) + 1 .. Len(list), list[x].kind = "as"
                 PROVE  h.index < Len(j.log) /\ IsStepCheckpoint(j.log[h.index + 1])
    BY <1>10 DEF NextIsStep
  <2>2. x \in DOMAIN list /\ k < x /\ k + 1 < x /\ Shared(list[x])
    BY <1>1, <2>1 DEF Shared
  <2>3. PICK n \in DOMAIN j.log : Says(j.log[n], list[x])
    BY <2>2 DEF Told, TellsAll
  <2>4. IsOp(j.log[n]) /\ j.index < n
    BY <1>6, <2>1, <2>2, <2>3
  <2>5. i1 < n
    BY <1>1, <1>2, <1>5, <1>8, <2>2, <2>3 DEF Told, TellsInOrder
  <2>6. ~(n <= h.index)
    <3>1. n # i1
      BY <1>1, <1>4, <2>5
    <3> QED BY <1>13, <2>4, <3>1
  <2> QED BY <1>1, <1>10, <1>11, <2>6
<1> QED BY <1>9, <1>10, <1>14, <1>15, <1>16, <1>17 DEF Told, TellsAll, TellsInOrder

\* What is logged follows the applied part, which does not end with a step-checkpoint.
LEMMA SteppedLogged ==
    ASSUME NEW j \in Journals(Entry), \A i \in DOMAIN j.log : SteppedAt(j.log, i),
           j.index > 0 => ~IsStepCheckpoint(j.log[j.index]),
           NEW h \in Journals(Entry), j.index <= Len(h.log),
           \A i \in 1 .. j.index : h.log[i] = j.log[i],
           \A i \in j.index + 1 .. Len(h.log) : SteppedAt(h.log, i)
    PROVE  \A i \in DOMAIN h.log : SteppedAt(h.log, i)
<1>1. /\ DOMAIN j.log = 1 .. Len(j.log) /\ Len(j.log) \in Nat /\ j.index \in Nat
      /\ j.index <= Len(j.log) /\ DOMAIN h.log = 1 .. Len(h.log) /\ Len(h.log) \in Nat
  BY JournalTypes
<1>2. ASSUME NEW i \in 1 .. j.index PROVE SteppedAt(h.log, i)
  <2>1. i \in DOMAIN j.log /\ h.log[i] = j.log[i] /\ i \in Nat
    BY <1>1
  <2>2. IsStepCheckpoint(h.log[i]) => i + 1 \in DOMAIN h.log /\ IsOp(h.log[i + 1])
    <3>1. SUFFICES ASSUME IsStepCheckpoint(j.log[i])
                   PROVE  i + 1 \in DOMAIN h.log /\ IsOp(h.log[i + 1])
      BY <2>1
    <3>2. IsOp(j.log[i + 1])
      BY <2>1, <3>1 DEF SteppedAt
    <3>3. i # j.index
      BY <1>1, <2>1, <3>1
    <3>4. i + 1 \in 1 .. j.index /\ i + 1 \in DOMAIN h.log
      BY <1>1, <3>3
    <3> QED BY <3>2, <3>4
  <2>3. IsOp(h.log[i]) => i > 1 /\ IsStepCheckpoint(h.log[i - 1]) /\ h.log[i].name.kind = "as"
    <3>1. SUFFICES ASSUME IsOp(j.log[i])
                   PROVE  i > 1 /\ IsStepCheckpoint(h.log[i - 1]) /\ j.log[i].name.kind = "as"
      BY <2>1
    <3>2. i > 1 /\ IsStepCheckpoint(j.log[i - 1]) /\ j.log[i].name.kind = "as"
      BY <2>1, <3>1 DEF SteppedAt
    <3>3. i - 1 \in 1 .. j.index
      BY <1>1, <3>2
    <3> QED BY <3>2, <3>3
  <2> QED BY <2>1, <2>2, <2>3 DEF SteppedAt
<1> QED BY <1>1, <1>2

\* An operation is logged.
LEMMA AsDone ==
    ASSUME NEW content, NEW j \in Journals(Entry), AsShape(content, j),
           NEW list \in Seq(Name), NEW k \in 0 .. Len(list), Told(list, k, j),
           NEW name \in Name, name.kind = "as", name \notin Named(j), \A x \in DOMAIN list : list[x] # name
    PROVE  AsShape(content \cup {name}, Done(j, name)) /\ Told(Grows(list, k, name), k + 1, Done(j, name))
<1>1. /\ DOMAIN j.log = 1 .. Len(j.log) /\ Len(j.log) \in Nat /\ j.index \in Nat
      /\ j.index <= Len(j.log) /\ j.log \in Seq(Entry)
  BY JournalTypes
<1>2. \A i \in DOMAIN j.log : SteppedAt(j.log, i)
  BY DEF AsShape
<1>3. PICK s, e, h : s = SetStepCheckpoint(j) /\ e = [op |-> "DO", name |-> name] /\ h = Log(s, e)
  OBVIOUS
<1>4. s = Log(j, MKSTPCHKPT)
  <2>1. ASSUME j.log # <<>>, IsStepCheckpoint(j.log[Len(j.log)]) PROVE FALSE
    <3>1. Len(j.log) \in DOMAIN j.log /\ Len(j.log) + 1 \notin DOMAIN j.log
      BY <1>1, <2>1
    <3> QED BY <1>2, <2>1, <3>1 DEF SteppedAt
  <2> QED BY <1>3, <2>1 DEF SetStepCheckpoint
<1>5. MKSTPCHKPT \in Entry /\ e \in Entry
  BY <1>3, Entries
<1>6. /\ s \in Journals(Entry) /\ s.index = j.index + 1
      /\ \A i \in 1 .. j.index : s.log[i] = j.log[i]
      /\ s.log[j.index + 1] = MKSTPCHKPT
  BY <1>4, <1>5, LogFacts
<1>7. /\ h \in Journals(Entry) /\ h.index = s.index + 1 /\ Len(h.log) = s.index + 1
      /\ \A i \in 1 .. s.index : h.log[i] = s.log[i]
      /\ h.log[s.index + 1] = e
  BY <1>3, <1>5, <1>6, LogFacts
<1>8. /\ h.index = j.index + 2 /\ Len(h.log) = j.index + 2 /\ DOMAIN h.log = 1 .. j.index + 2
      /\ \A i \in 1 .. j.index : h.log[i] = j.log[i]
      /\ h.log[j.index + 1] = MKSTPCHKPT /\ h.log[j.index + 2] = e
  <2>1. s.index + 1 = j.index + 2 /\ j.index + 1 \in 1 .. s.index
        /\ \A i \in 1 .. j.index : i \in 1 .. s.index
    BY <1>1, <1>6
  <2> QED BY <1>6, <1>7, <2>1, JournalTypes
<1>9. IsStepCheckpoint(h.log[j.index + 1]) /\ IsOp(e) /\ e.name = name
  BY <1>3, <1>8 DEF IsStepCheckpoint, MKSTPCHKPT, IsOp
<1>10. Reads(content \cup {name}, h)
  <2>1. Reads(Grown(content, MKSTPCHKPT), s) /\ Grown(content, MKSTPCHKPT) = content
    <3>1. ~IsOp(MKSTPCHKPT) /\ Reads(content, j)
      BY DEF IsOp, MKSTPCHKPT, AsShape
    <3>2. Reads(Grown(content, MKSTPCHKPT), s)
      BY <1>4, <1>5, <3>1, ReadsLogged
    <3> QED BY <3>1, <3>2 DEF Grown, IsOp
  <2>2. name \notin Named(s)
    BY <1>3, NamedStep
  <2>3. Grown(content, e) = content \cup {name}
    BY <1>9 DEF Grown, IsOp
  <2>4. Reads(Grown(content, e), h)
    BY <1>3, <1>5, <1>6, <1>9, <2>1, <2>2, ReadsLogged
  <2> QED BY <2>3, <2>4
<1>11. \A i \in DOMAIN h.log : SteppedAt(h.log, i)
  <2>1. SteppedAt(h.log, j.index + 1)
    <3>1. (j.index + 1) + 1 = j.index + 2 /\ j.index + 2 \in DOMAIN h.log
      BY <1>1, <1>8
    <3>2. ~IsOp(h.log[j.index + 1]) /\ ~IsUserCheckpoint(h.log[j.index + 1])
      BY <1>9 DEF IsOp, IsUserCheckpoint, IsStepCheckpoint
    <3> QED BY <1>8, <1>9, <3>1, <3>2 DEF SteppedAt
  <2>2. SteppedAt(h.log, j.index + 2)
    <3>1. (j.index + 2) - 1 = j.index + 1 /\ j.index + 2 > 1
      BY <1>1
    <3>2. ~IsStepCheckpoint(e) /\ ~IsUserCheckpoint(e)
      BY <1>9 DEF IsOp, IsUserCheckpoint, IsStepCheckpoint
    <3> QED BY <1>8, <1>9, <3>1, <3>2 DEF SteppedAt
  <2>3. \A i \in j.index + 1 .. Len(h.log) : i = j.index + 1 \/ i = j.index + 2
    BY <1>1, <1>8
  <2>4. \A i \in j.index + 1 .. Len(h.log) : SteppedAt(h.log, i)
    BY <2>1, <2>2, <2>3
  <2>5. (j.index > 0 => ~IsStepCheckpoint(j.log[j.index])) /\ j.index <= Len(h.log)
    BY <1>1, <1>8 DEF AsShape
  <2> QED BY <1>2, <1>7, <1>8, <2>4, <2>5, SteppedLogged
<1>12. AsShape(content \cup {name}, h)
  <2>1. ~IsStepCheckpoint(h.log[h.index])
    BY <1>8, <1>9 DEF IsOp, IsStepCheckpoint
  <2> QED BY <1>10, <1>11, <2>1 DEF AsShape
<1>13. Told(Grows(list, k, name), k + 1, h)
  <2>1. Says(h.log[h.index], name)
    BY <1>8, <1>9 DEF IsOp, IsStepCheckpoint, Says
  <2>2. j.index < h.index /\ h.index = Len(h.log) /\ \A i \in j.index + 1 .. h.index - 1 : i = j.index + 1
    BY <1>1, <1>8
  <2>3. \A i \in j.index + 1 .. h.index - 1 : IsStepCheckpoint(h.log[i])
    BY <1>9, <2>2
  <2> QED BY <1>2, <1>7, <1>8, <2>1, <2>2, <2>3, ToldAfter
<1> QED BY <1>3, <1>12, <1>13 DEF Done

\* The start or the end of a batch is logged.
LEMMA AsMarked ==
    ASSUME NEW content, NEW j \in Journals(Entry), AsShape(content, j),
           NEW list \in Seq(Name), NEW k \in 0 .. Len(list), Told(list, k, j),
           NEW name \in Name, name.kind \in {"start", "end"}, name \notin Named(j),
           \A x \in DOMAIN list : list[x] # name
    PROVE  /\ AsShape(content, SetUserCheckpoint(j, name))
           /\ Told(Grows(list, k, name), k + 1, SetUserCheckpoint(j, name))
<1>1. /\ DOMAIN j.log = 1 .. Len(j.log) /\ Len(j.log) \in Nat /\ j.index \in Nat
      /\ j.index <= Len(j.log) /\ j.log \in Seq(Entry)
  BY JournalTypes
<1>2. \A i \in DOMAIN j.log : SteppedAt(j.log, i)
  BY DEF AsShape
<1>3. PICK e, h : e = MKUSRCHKPT(name) /\ h = Log(j, e)
  OBVIOUS
<1>4. e \in Entry /\ IsUserCheckpoint(e) /\ ~IsOp(e) /\ ~IsStepCheckpoint(e) /\ e.name = name
  BY <1>3, Entries DEF MKUSRCHKPT, IsUserCheckpoint, IsOp, IsStepCheckpoint
<1>5. SetUserCheckpoint(j, name) = h
  <2>1. ASSUME j.log # <<>>, IsNamed(j.log[Len(j.log)], name) PROVE FALSE
    <3>1. Len(j.log) \in DOMAIN j.log
      BY <1>1, <2>1
    <3>2. name \in Named(j)
      BY <2>1, <3>1 DEF Named, IsNamed, IsUserCheckpoint, IsStepCheckpoint
    <3> QED BY <3>2
  <2> QED BY <1>3, <2>1 DEF SetUserCheckpoint
<1>6. /\ h \in Journals(Entry) /\ h.index = j.index + 1 /\ Len(h.log) = j.index + 1
      /\ \A i \in 1 .. j.index : h.log[i] = j.log[i]
      /\ h.log[j.index + 1] = e
  BY <1>3, <1>4, LogFacts
<1>7. Reads(content, h)
  <2>1. Reads(Grown(content, e), h)
    BY <1>3, <1>4, ReadsLogged DEF AsShape
  <2> QED BY <1>4, <2>1 DEF Grown, IsOp
<1>8. \A i \in DOMAIN h.log : SteppedAt(h.log, i)
  <2>1. SteppedAt(h.log, j.index + 1)
    BY <1>4, <1>6 DEF SteppedAt
  <2>2. \A i \in j.index + 1 .. Len(h.log) : SteppedAt(h.log, i)
    <3>1. \A i \in j.index + 1 .. Len(h.log) : i = j.index + 1
      BY <1>1, <1>6
    <3> QED BY <2>1, <3>1
  <2>3. (j.index > 0 => ~IsStepCheckpoint(j.log[j.index])) /\ j.index <= Len(h.log)
    BY <1>1, <1>6 DEF AsShape
  <2> QED BY <1>2, <1>6, <2>2, <2>3, SteppedLogged
<1>9. AsShape(content, h)
  BY <1>4, <1>6, <1>7, <1>8 DEF AsShape
<1>10. Told(Grows(list, k, name), k + 1, h)
  <2>1. /\ Says(h.log[h.index], name) /\ j.index < h.index /\ h.index = Len(h.log)
        /\ \A i \in j.index + 1 .. h.index - 1 : FALSE
    BY <1>1, <1>4, <1>6 DEF Says
  <2> QED BY <1>2, <1>6, <2>1, ToldAfter
<1> QED BY <1>5, <1>9, <1>10

-----------------------------------------------------------------------------
(* What a csworker does to its journal.                                    *)

\* What is logged follows the applied part, which is followed by nothing or a user-checkpoint.
LEMMA OwnedLogged ==
    ASSUME NEW j \in Journals(Entry), \A i \in DOMAIN j.log : OwnedAt(j.log, i),
           j.index < Len(j.log) => IsUserCheckpoint(j.log[j.index + 1]),
           NEW h \in Journals(Entry), j.index <= Len(h.log),
           \A i \in 1 .. j.index : h.log[i] = j.log[i],
           \A i \in j.index + 1 .. Len(h.log) : OwnedAt(h.log, i)
    PROVE  \A i \in DOMAIN h.log : OwnedAt(h.log, i)
<1>1. /\ DOMAIN j.log = 1 .. Len(j.log) /\ Len(j.log) \in Nat /\ j.index \in Nat
      /\ j.index <= Len(j.log) /\ DOMAIN h.log = 1 .. Len(h.log) /\ Len(h.log) \in Nat
  BY JournalTypes
<1>2. ASSUME NEW i \in 1 .. j.index, i + 1 \in DOMAIN j.log, ~IsUserCheckpoint(j.log[i + 1])
      PROVE  i + 1 \in DOMAIN h.log /\ h.log[i + 1] = j.log[i + 1]
  <2>1. i # j.index
    BY <1>1, <1>2
  <2>2. i + 1 \in 1 .. j.index /\ i + 1 \in DOMAIN h.log
    BY <1>1, <2>1
  <2> QED BY <2>2
<1>3. ASSUME NEW i \in 1 .. j.index PROVE OwnedAt(h.log, i)
  <2>1. i \in DOMAIN j.log /\ h.log[i] = j.log[i] /\ i \in Nat
    BY <1>1
  <2>2. i > 1 => h.log[i - 1] = j.log[i - 1]
    <3>1. i > 1 => i - 1 \in 1 .. j.index
      BY <1>1
    <3> QED BY <3>1
  <2>3. ASSUME IsStepCheckpoint(j.log[i])
        PROVE  /\ i > 1 /\ i + 1 \in DOMAIN h.log /\ IsOp(h.log[i + 1])
               /\ IsNamed(h.log[i - 1], h.log[i + 1].name)
    <3>1. /\ i > 1 /\ i + 1 \in DOMAIN j.log /\ IsOp(j.log[i + 1])
          /\ IsNamed(j.log[i - 1], j.log[i + 1].name)
      BY <2>1, <2>3 DEF OwnedAt
    <3>2. i + 1 \in DOMAIN h.log /\ h.log[i + 1] = j.log[i + 1]
      BY <1>2, <3>1 DEF IsOp, IsUserCheckpoint
    <3> QED BY <2>2, <3>1, <3>2
  <2>4. ASSUME IsOp(j.log[i]) PROVE i > 1 /\ IsStepCheckpoint(h.log[i - 1])
    BY <2>1, <2>2, <2>4 DEF OwnedAt
  <2>5. ASSUME IsUserCheckpoint(j.log[i]), j.log[i].name.kind \in {"as", "cs"}
        PROVE  i + 1 \in DOMAIN h.log /\ IsStepCheckpoint(h.log[i + 1])
    <3>1. i + 1 \in DOMAIN j.log /\ IsStepCheckpoint(j.log[i + 1])
      BY <2>1, <2>5 DEF OwnedAt
    <3>2. i + 1 \in DOMAIN h.log /\ h.log[i + 1] = j.log[i + 1]
      BY <1>2, <3>1 DEF IsStepCheckpoint, IsUserCheckpoint
    <3> QED BY <3>1, <3>2
  <2> QED BY <2>1, <2>3, <2>4, <2>5 DEF OwnedAt
<1> QED BY <1>1, <1>3

\* The checkpoint of a new name is logged.
LEMMA MarkLogged ==
    ASSUME NEW content, NEW j \in Journals(Entry), Reads(content, j),
           NEW name \in Name, \A i \in UserCheckpoints(j) : j.log[i].name # name
    PROVE  LET h == SetUserCheckpoint(j, name) IN
           /\ h \in Journals(Entry) /\ h.index = j.index + 1 /\ Len(h.log) = j.index + 1
           /\ \A i \in 1 .. j.index : h.log[i] = j.log[i]
           /\ h.log[j.index + 1] = MKUSRCHKPT(name)
           /\ Reads(content, h)
<1>1. j.log \in Seq(Entry) /\ DOMAIN j.log = 1 .. Len(j.log)
  BY JournalTypes
<1>2. PICK e : e = MKUSRCHKPT(name)
  OBVIOUS
<1>3. e \in Entry /\ ~IsOp(e)
  BY <1>2, Entries DEF MKUSRCHKPT, IsOp
<1>4. SetUserCheckpoint(j, name) = Log(j, e)
  <2>1. ASSUME j.log # <<>>, IsNamed(j.log[Len(j.log)], name) PROVE FALSE
    <3>1. Len(j.log) \in DOMAIN j.log
      BY <1>1, <2>1
    <3> QED BY <2>1, <3>1 DEF UserCheckpoints, IsNamed
  <2> QED BY <1>2, <2>1 DEF SetUserCheckpoint
<1>5. Reads(content, Log(j, e))
  <2>1. Reads(Grown(content, e), Log(j, e))
    BY <1>3, ReadsLogged
  <2> QED BY <1>3, <2>1 DEF Grown, IsOp
<1>6. PICK h : h = Log(j, e)
  OBVIOUS
<1>7. /\ h \in Journals(Entry) /\ h.index = j.index + 1 /\ Len(h.log) = j.index + 1
      /\ \A i \in 1 .. j.index : h.log[i] = j.log[i]
      /\ h.log[j.index + 1] = e
  BY <1>3, <1>6, LogFacts
<1> QED BY <1>2, <1>4, <1>5, <1>6, <1>7

LEMMA CsMarked ==
    ASSUME NEW content, NEW j \in Journals(Entry), CsShape(content, j),
           NEW name \in Name, name.kind \in {"start", "end"},
           \A i \in UserCheckpoints(j) : j.log[i].name # name
    PROVE  CsShape(content, SetUserCheckpoint(j, name))
<1>1. j.index \in Nat
  BY JournalTypes
<1>2. PICK h, e : h = SetUserCheckpoint(j, name) /\ e = MKUSRCHKPT(name)
  OBVIOUS
<1>3. /\ h \in Journals(Entry) /\ h.index = j.index + 1 /\ Len(h.log) = j.index + 1
      /\ \A i \in 1 .. j.index : h.log[i] = j.log[i]
      /\ h.log[j.index + 1] = e /\ Reads(content, h)
  BY <1>2, MarkLogged DEF CsShape
<1>4. ~IsOp(e) /\ ~IsStepCheckpoint(e) /\ e.name = name
  BY <1>2 DEF MKUSRCHKPT, IsOp, IsStepCheckpoint
<1>5. OwnedAt(h.log, j.index + 1)
  BY <1>3, <1>4 DEF OwnedAt
<1>6. \A i \in j.index + 1 .. Len(h.log) : OwnedAt(h.log, i)
  <2>1. \A i \in j.index + 1 .. Len(h.log) : i = j.index + 1
    BY <1>1, <1>3
  <2> QED BY <1>5, <2>1
<1>7. j.index <= Len(h.log) /\ ~(h.index < Len(h.log))
  BY <1>1, <1>3
<1>8. \A i \in DOMAIN h.log : OwnedAt(h.log, i)
  BY <1>3, <1>6, <1>7, OwnedLogged DEF CsShape
<1> QED BY <1>2, <1>3, <1>7, <1>8 DEF CsShape

\* An operation is logged with its checkpoint.
LEMMA CsDone ==
    ASSUME NEW content, NEW j \in Journals(Entry), CsShape(content, j),
           NEW name \in Name, name \notin Named(j)
    PROVE  CsShape(content \cup {name}, Done(SetUserCheckpoint(j, name), name))
<1>1. /\ j.index \in Nat /\ DOMAIN j.log = 1 .. Len(j.log)
  BY JournalTypes
<1>2. \A i \in UserCheckpoints(j) : j.log[i].name # name
  BY DEF UserCheckpoints, Named, IsUserCheckpoint, IsStepCheckpoint
<1>3. PICK u, e, s, d, h :
         /\ u = SetUserCheckpoint(j, name) /\ e = MKUSRCHKPT(name)
         /\ s = Log(u, MKSTPCHKPT) /\ d = [op |-> "DO", name |-> name] /\ h = Log(s, d)
  OBVIOUS
<1>4. /\ u \in Journals(Entry) /\ u.index = j.index + 1 /\ Len(u.log) = j.index + 1
      /\ \A i \in 1 .. j.index : u.log[i] = j.log[i]
      /\ u.log[j.index + 1] = e /\ Reads(content, u)
  BY <1>2, <1>3, MarkLogged DEF CsShape
<1>5. /\ IsUserCheckpoint(e) /\ ~IsStepCheckpoint(e) /\ ~IsOp(e) /\ IsNamed(e, name) /\ e.name = name
      /\ IsOp(d) /\ d.name = name /\ ~IsStepCheckpoint(d) /\ ~IsUserCheckpoint(d)
      /\ IsStepCheckpoint(MKSTPCHKPT) /\ ~IsUserCheckpoint(MKSTPCHKPT) /\ ~IsOp(MKSTPCHKPT)
  BY <1>3 DEF MKUSRCHKPT, IsUserCheckpoint, IsStepCheckpoint, IsOp, IsNamed, MKSTPCHKPT
<1>6. MKSTPCHKPT \in Entry /\ d \in Entry
  BY <1>3, Entries
<1>7. SetStepCheckpoint(u) = s
  BY <1>3, <1>4, <1>5 DEF SetStepCheckpoint
<1>8. /\ s \in Journals(Entry) /\ s.index = u.index + 1
      /\ \A i \in 1 .. u.index : s.log[i] = u.log[i]
      /\ s.log[u.index + 1] = MKSTPCHKPT
  BY <1>3, <1>4, <1>6, LogFacts
<1>9. /\ h \in Journals(Entry) /\ h.index = s.index + 1 /\ Len(h.log) = s.index + 1
      /\ \A i \in 1 .. s.index : h.log[i] = s.log[i]
      /\ h.log[s.index + 1] = d
  BY <1>3, <1>6, <1>8, LogFacts
<1>10. /\ h.index = j.index + 3 /\ Len(h.log) = j.index + 3 /\ DOMAIN h.log = 1 .. j.index + 3
       /\ \A i \in 1 .. j.index : h.log[i] = j.log[i]
       /\ h.log[j.index + 1] = e /\ h.log[j.index + 2] = MKSTPCHKPT /\ h.log[j.index + 3] = d
  <2>1. /\ u.index + 1 = j.index + 2 /\ s.index = j.index + 2 /\ s.index + 1 = j.index + 3
        /\ j.index + 1 \in 1 .. u.index /\ j.index + 1 \in 1 .. s.index /\ j.index + 2 \in 1 .. s.index
        /\ \A i \in 1 .. j.index : i \in 1 .. u.index /\ i \in 1 .. s.index
    BY <1>1, <1>4, <1>8
  <2> QED BY <1>4, <1>8, <1>9, <2>1, JournalTypes
<1>11. Reads(content \cup {name}, h)
  <2>1. Reads(Grown(content, MKSTPCHKPT), s) /\ Grown(content, MKSTPCHKPT) = content
    <3>1. Reads(Grown(content, MKSTPCHKPT), s)
      BY <1>3, <1>4, <1>5, <1>6, ReadsLogged
    <3> QED BY <1>5, <3>1 DEF Grown, IsOp
  <2>2. name \notin { s.log[i].name : i \in { k \in DOMAIN s.log : IsOp(s.log[k]) } }
    <3>1. DOMAIN s.log = 1 .. j.index + 2
      <4>1. Len(s.log) = u.index + 1 /\ u.index + 1 = j.index + 2
        BY <1>1, <1>3, <1>4, <1>6, LogFacts
      <4> QED BY <1>8, <4>1, JournalTypes
    <3>2. SUFFICES ASSUME NEW i \in 1 .. j.index + 2, IsOp(s.log[i]) PROVE s.log[i].name # name
      BY <3>1
    <3>3. i # j.index + 2 /\ i # j.index + 1
      <4>1. j.index + 2 = u.index + 1 /\ j.index + 1 \in 1 .. u.index
        BY <1>1, <1>4
      <4> QED BY <1>4, <1>5, <1>8, <3>2, <4>1
    <3>4. i \in 1 .. j.index /\ i \in 1 .. u.index
      BY <1>1, <1>4, <3>3
    <3>5. s.log[i] = j.log[i] /\ i \in DOMAIN j.log
      <4>1. i \in DOMAIN j.log
        BY <1>1, <3>4, JournalTypes
      <4> QED BY <1>4, <1>8, <3>4, <4>1
    <3> QED BY <3>2, <3>5 DEF Named, IsOp, IsStepCheckpoint
  <2>3. Grown(content, d) = content \cup {name}
    BY <1>5 DEF Grown, IsOp
  <2>4. Reads(Grown(content, d), h)
    <3>1. Reads(content, s)
      BY <2>1
    <3> QED BY <1>3, <1>5, <1>6, <1>8, <2>2, <3>1, ReadsAdds
  <2> QED BY <2>3, <2>4
<1>12. \A i \in j.index + 1 .. Len(h.log) : OwnedAt(h.log, i)
  <2>1. OwnedAt(h.log, j.index + 1)
    <3>1. (j.index + 1) + 1 = j.index + 2 /\ j.index + 2 \in DOMAIN h.log
      BY <1>1, <1>10
    <3> QED BY <1>5, <1>10, <3>1 DEF OwnedAt
  <2>2. OwnedAt(h.log, j.index + 2)
    <3>1. /\ (j.index + 2) + 1 = j.index + 3 /\ j.index + 3 \in DOMAIN h.log
          /\ (j.index + 2) - 1 = j.index + 1 /\ j.index + 2 > 1
      BY <1>1, <1>10
    <3> QED BY <1>5, <1>10, <3>1 DEF OwnedAt
  <2>3. OwnedAt(h.log, j.index + 3)
    <3>1. (j.index + 3) - 1 = j.index + 2 /\ j.index + 3 > 1
      BY <1>1
    <3> QED BY <1>5, <1>10, <3>1 DEF OwnedAt
  <2>4. \A i \in j.index + 1 .. Len(h.log) : i = j.index + 1 \/ i = j.index + 2 \/ i = j.index + 3
    BY <1>1, <1>10
  <2> QED BY <2>1, <2>2, <2>3, <2>4
<1>13. j.index <= Len(h.log) /\ ~(h.index < Len(h.log))
  BY <1>1, <1>10
<1>14. \A i \in DOMAIN h.log : OwnedAt(h.log, i)
  BY <1>9, <1>10, <1>12, <1>13, OwnedLogged DEF CsShape
<1>15. CsShape(content \cup {name}, h)
  BY <1>11, <1>13, <1>14 DEF CsShape
<1> QED BY <1>3, <1>7, <1>15 DEF Done

\* Undoing and redoing by name stop before a user-checkpoint or at the end.
LEMMA CsUndone ==
    ASSUME NEW content, NEW j \in Journals(Entry), CsShape(content, j), NEW name
    PROVE  CsShape(Without(content, j, UndoneUntil(j, name)), UndoneUntil(j, name))
<1>1. j.index \in Nat /\ Len(j.log) \in Nat /\ j.index <= Len(j.log)
  BY JournalTypes
<1>2. PICK h : h = UndoneUntil(j, name)
  OBVIOUS
<1>3. h \in Journals(Entry) /\ h.log = j.log /\ h.index <= j.index
  BY <1>2, UndoneUntilFacts
<1>4. h.index < Len(h.log) => IsUserCheckpoint(h.log[h.index + 1])
  <2>1. PICK found : found = { i \in 1 .. j.index : IsNamed(j.log[i], name) }
    OBVIOUS
  <2>2. CASE found = {}
    <3>1. h = j
      BY <1>2, <2>1, <2>2 DEF UndoneUntil, Highest
    <3> QED BY <3>1 DEF CsShape
  <2>3. CASE found # {}
    <3>1. Highest(found) \in found
      <4>1. found \subseteq 0 .. j.index
        BY <1>1, <2>1
      <4> QED BY <1>1, <2>3, <4>1, HighestIn
    <3>2. PICK m \in 1 .. j.index : m = Highest(found) /\ IsNamed(j.log[m], name)
      BY <2>1, <3>1
    <3>3. m # 0 /\ h.index = m - 1 /\ h.index + 1 = m
      <4>1. m # 0 /\ m \in Nat
        BY <1>1
      <4>2. h = [j EXCEPT !.index = m - 1]
        BY <1>2, <2>1, <3>2, <4>1 DEF UndoneUntil
      <4>3. h.index = m - 1
        BY <4>2 DEF Journals
      <4> QED BY <4>1, <4>3
    <3> QED BY <1>3, <3>2, <3>3 DEF IsNamed
  <2> QED BY <2>2, <2>3
<1>5. Reads(Without(content, j, h), h)
  BY <1>3, ReadsUndone DEF CsShape
<1> QED BY <1>2, <1>3, <1>4, <1>5 DEF CsShape

LEMMA CsRedone ==
    ASSUME NEW content, NEW j \in Journals(Entry), CsShape(content, j), NEW name
    PROVE  CsShape(With(content, j, RedoneUntil(j, name)), RedoneUntil(j, name))
<1>1. j.index \in Nat /\ Len(j.log) \in Nat /\ j.index <= Len(j.log)
  BY JournalTypes
<1>2. PICK h : h = RedoneUntil(j, name)
  OBVIOUS
<1>3. h \in Journals(Entry) /\ h.log = j.log /\ j.index <= h.index
  BY <1>2, RedoneUntilFacts
<1>4. h.index < Len(h.log) => IsUserCheckpoint(h.log[h.index + 1])
  <2>1. PICK found, from : /\ found = { i \in j.index + 1 .. Len(j.log) : IsNamed(j.log[i], name) }
                           /\ from = Lowest(found, 0)
    OBVIOUS
  <2>2. CASE found = {}
    <3>1. h = j
      BY <1>2, <2>1, <2>2 DEF RedoneUntil
    <3> QED BY <3>1 DEF CsShape
  <2>3. CASE found # {}
    <3>1. from \in Nat
      <4>1. found \subseteq Nat
        BY <1>1, <2>1
      <4>2. from \in found
        BY <2>1, <2>3, <4>1, LowestIn
      <4> QED BY <4>1, <4>2
    <3>2. PICK stops : stops = { i \in from + 1 .. Len(j.log) : IsUserCheckpoint(j.log[i]) }
      OBVIOUS
    <3>3. h.index = Lowest(stops, Len(j.log) + 1) - 1
      BY <1>2, <2>1, <2>3, <3>2 DEF RedoneUntil, Journals
    <3>4. CASE stops = {}
      <4>1. h.index = Len(j.log)
        BY <1>1, <3>3, <3>4 DEF Lowest
      <4> QED BY <1>1, <1>3, <4>1
    <3>5. CASE stops # {}
      <4>1. stops \subseteq Nat
        BY <1>1, <3>1, <3>2
      <4>2. PICK low \in stops : low = Lowest(stops, Len(j.log) + 1)
        BY <3>5, <4>1, LowestIn
      <4>3. h.index + 1 = low /\ IsUserCheckpoint(j.log[low])
        BY <3>2, <3>3, <4>1, <4>2
      <4> QED BY <1>3, <4>3
    <3> QED BY <3>4, <3>5
  <2> QED BY <2>2, <2>3
<1>5. Reads(With(content, j, h), h)
  <2>1. j.index < Len(j.log) => ~IsOp(j.log[j.index + 1])
    BY DEF CsShape, IsUserCheckpoint, IsOp
  <2> QED BY <1>3, <2>1, ReadsRedone DEF CsShape
<1> QED BY <1>2, <1>3, <1>4, <1>5 DEF CsShape

-----------------------------------------------------------------------------
(* The list of names and what is on its way.                               *)

LEMMA SameSequence ==
    ASSUME NEW S, NEW a \in Seq(S), NEW b \in Seq(S), Len(a) = Len(b),
           \A x \in 1 .. Len(a) : a[x] = b[x]
    PROVE  a = b
OBVIOUS

LEMMA ComingFacts ==
    ASSUME NEW list \in Seq(Name), NEW k \in Nat, k <= Len(list), NEW s \in Seq(Posted)
    PROVE  LET new == WithComing(list, k, s) IN
           /\ new \in Seq(Name) /\ Len(new) \in Nat /\ Len(s) \in Nat
           /\ k + Len(s) \in Nat /\ k + Len(s) <= Len(new)
           /\ s = <<>> => new = list /\ k + Len(s) = k
           /\ s # <<>> => /\ Len(new) = k + Len(s)
                          /\ \A x \in 1 .. k : new[x] = list[x]
                          /\ \A i \in 1 .. Len(s) : new[k + i] = s[i].name
<1>1. Len(list) \in Nat /\ Len(s) \in Nat /\ DOMAIN s = 1 .. Len(s) /\ \A i \in 1 .. Len(s) : s[i] \in Posted
  OBVIOUS
<1>2. CASE s = <<>>
  <2>1. Len(s) = 0
    BY <1>2
  <2> QED BY <1>1, <1>2, <2>1 DEF WithComing
<1>3. CASE s # <<>>
  <2>1. PICK a, b : a = SubSeq(list, 1, k) /\ b = [i \in DOMAIN s |-> s[i].name]
    OBVIOUS
  <2>2. a \in Seq(Name) /\ Len(a) = k /\ \A x \in 1 .. k : a[x] = list[x]
    <3>1. 0 \in Nat /\ 0 <= k /\ 0 + 1 = 1 /\ k - 0 = k /\ \A x \in 1 .. k : 0 + x = x
      OBVIOUS
    <3>2. /\ SubSeq(list, 0 + 1, k) \in Seq(Name) /\ Len(SubSeq(list, 0 + 1, k)) = k - 0
          /\ \A i \in 1 .. k - 0 : SubSeq(list, 0 + 1, k)[i] = list[0 + i]
      BY <3>1, Between
    <3> QED BY <2>1, <3>1, <3>2
  <2>3. b \in Seq(Name) /\ Len(b) = Len(s) /\ \A i \in 1 .. Len(s) : b[i] = s[i].name
    <3>1. \A m \in Posted : m.name \in Name
      BY DEF Posted
    <3>2. b \in [1 .. Len(s) -> Name]
      BY <1>1, <2>1, <3>1
    <3> QED BY <1>1, <2>1, <3>2
  <2>4. /\ a \o b \in Seq(Name) /\ Len(a \o b) = k + Len(s)
        /\ \A x \in 1 .. k + Len(s) : (a \o b)[x] = IF x <= k THEN a[x] ELSE b[x - k]
    <3>1. /\ a \o b \in Seq(Name) /\ Len(a \o b) = Len(a) + Len(b)
          /\ \A x \in 1 .. Len(a) + Len(b) : (a \o b)[x] = IF x <= Len(a) THEN a[x] ELSE b[x - Len(a)]
      BY <2>2, <2>3, ConcatProperties
    <3> QED BY <2>2, <2>3, <3>1
  <2>5. PICK new : new = a \o b
    OBVIOUS
  <2>6. \A x \in 1 .. k : new[x] = list[x]
    BY <1>1, <2>2, <2>4, <2>5
  <2>7. ASSUME NEW i \in 1 .. Len(s) PROVE new[k + i] = s[i].name
    <3>1. k + i \in 1 .. k + Len(s) /\ ~(k + i <= k) /\ (k + i) - k = i
      BY <1>1
    <3> QED BY <2>3, <2>4, <2>5, <3>1
  <2>8. WithComing(list, k, s) = new
    BY <1>3, <2>1, <2>5 DEF WithComing
  <2>9. new \in Seq(Name) /\ Len(new) = k + Len(s)
    BY <2>4, <2>5
  <2> QED BY <1>1, <1>3, <2>6, <2>7, <2>8, <2>9
<1> QED BY <1>2, <1>3

\* what a list is once names have been recorded at k
IsList(new, list, k, s) ==
    /\ new \in Seq(Name) /\ Len(new) = k + Len(s)
    /\ \A x \in 1 .. k : new[x] = list[x]
    /\ \A i \in 1 .. Len(s) : new[k + i] = s[i].name

LEMMA ComingSome ==
    ASSUME NEW list \in Seq(Name), NEW k \in Nat, k <= Len(list), NEW s \in Seq(Posted), s # <<>>
    PROVE  IsList(WithComing(list, k, s), list, k, s)
BY ZenonT(60), ComingFacts DEF IsList

\* A changelog leaves,
LEMMA ComingGrows ==
    ASSUME NEW list \in Seq(Name), NEW k \in Nat, k <= Len(list), NEW s \in Seq(Posted), NEW m \in Posted
    PROVE  /\ WithComing(list, k, Append(s, m)) = Grows(WithComing(list, k, s), k + Len(s), m.name)
           /\ k + Len(Append(s, m)) = (k + Len(s)) + 1
<1>1. PICK t, n : t = Append(s, m) /\ n = Len(s)
  OBVIOUS
<1>2. /\ t \in Seq(Posted) /\ t # <<>> /\ n \in Nat /\ Len(t) = n + 1 /\ t[n + 1] = m
      /\ \A i \in 1 .. n : t[i] = s[i]
  BY <1>1
<1>3. PICK old, new : old = WithComing(list, k, s) /\ new = WithComing(list, k, t)
  OBVIOUS
<1>4. /\ old \in Seq(Name) /\ Len(old) \in Nat /\ k + n \in Nat /\ k + n <= Len(old)
      /\ s = <<>> => old = list /\ k + n = k
      /\ s # <<>> => /\ Len(old) = k + n /\ \A x \in 1 .. k : old[x] = list[x]
                     /\ \A i \in 1 .. n : old[k + i] = s[i].name
  BY ZenonT(60), <1>1, <1>3, ComingFacts
<1>5. /\ new \in Seq(Name) /\ Len(new) = k + (n + 1) /\ \A x \in 1 .. k : new[x] = list[x]
      /\ \A i \in 1 .. n + 1 : new[k + i] = t[i].name
  <2>1. /\ new \in Seq(Name) /\ Len(new) = k + Len(t) /\ \A x \in 1 .. k : new[x] = list[x]
        /\ \A i \in 1 .. Len(t) : new[k + i] = t[i].name
    BY <1>2, <1>3, ComingSome DEF IsList
  <2> QED BY <1>2, <2>1
<1>6. m.name \in Name /\ k + n \in 0 .. Len(old)
  BY <1>4 DEF Posted
<1>7. PICK g : g = Grows(old, k + n, m.name)
  OBVIOUS
<1>8. /\ g \in Seq(Name) /\ Len(g) = (k + n) + 1 /\ g[(k + n) + 1] = m.name
      /\ \A x \in 1 .. k + n : g[x] = old[x]
  BY ZenonT(60), <1>4, <1>6, <1>7, GrowsFacts
<1>9. ASSUME NEW x \in 1 .. Len(new) PROVE new[x] = g[x]
  <2>1. CASE x <= k
    <3>1. x \in 1 .. k /\ x \in 1 .. k + n
      BY <1>2, <1>5, <2>1
    <3>2. old[x] = list[x]
      BY <1>4, <3>1
    <3> QED BY <1>5, <1>8, <3>1, <3>2
  <2>2. CASE x = (k + n) + 1
    <3>1. x = k + (n + 1) /\ n + 1 \in 1 .. n + 1
      BY <1>2, <2>2
    <3> QED BY <1>2, <1>5, <1>8, <2>2, <3>1
  <2>3. CASE ~(x <= k) /\ x # (k + n) + 1
    <3>1. PICK i \in 1 .. n : x = k + i
      <4>1. x - k \in 1 .. n /\ x = k + (x - k)
        BY <1>2, <1>5, <2>3
      <4> QED BY <4>1
    <3>2. i \in 1 .. n + 1 /\ x \in 1 .. k + n /\ s # <<>>
      BY <1>1, <1>2, <3>1
    <3> QED BY ZenonT(60), <1>2, <1>4, <1>5, <1>8, <3>1, <3>2
  <2> QED BY <2>1, <2>2, <2>3
<1>10. Len(new) = Len(g)
  BY <1>2, <1>5, <1>8
<1>11. new = g
  BY <1>5, <1>8, <1>9, <1>10, SameSequence
<1> QED BY <1>1, <1>2, <1>3, <1>7, <1>11

\* and its name is recorded.
LEMMA ComingRecorded ==
    ASSUME NEW list \in Seq(Name), NEW k \in Nat, k <= Len(list), NEW s \in Seq(Posted), s # <<>>
    PROVE  /\ WithComing(Grows(list, k, Head(s).name), k + 1, Tail(s)) = WithComing(list, k, s)
           /\ (k + 1) + Len(Tail(s)) = k + Len(s)
<1>1. PICK t, n, name : t = Tail(s) /\ n = Len(t) /\ name = Head(s).name
  OBVIOUS
<1>2. /\ t \in Seq(Posted) /\ n \in Nat /\ Len(s) = n + 1 /\ name = s[1].name /\ s[1] \in Posted
      /\ \A i \in 1 .. n : t[i] = s[i + 1]
  BY <1>1
<1>3. name \in Name /\ k \in 0 .. Len(list)
  BY <1>2 DEF Posted
<1>4. PICK g : g = Grows(list, k, name)
  OBVIOUS
<1>5. /\ g \in Seq(Name) /\ Len(g) = k + 1 /\ g[k + 1] = name /\ \A x \in 1 .. k : g[x] = list[x]
  BY <1>3, <1>4, GrowsFacts
<1>6. PICK old, new : old = WithComing(list, k, s) /\ new = WithComing(g, k + 1, t)
  OBVIOUS
<1>7. /\ old \in Seq(Name) /\ Len(old) = k + (n + 1) /\ \A x \in 1 .. k : old[x] = list[x]
      /\ \A i \in 1 .. n + 1 : old[k + i] = s[i].name
  <2>1. /\ old \in Seq(Name) /\ Len(old) = k + Len(s) /\ \A x \in 1 .. k : old[x] = list[x]
        /\ \A i \in 1 .. Len(s) : old[k + i] = s[i].name
    <3>1. IsList(WithComing(list, k, s), list, k, s)
      BY ComingSome
    <3> QED BY <1>6, <3>1 DEF IsList
  <2> QED BY <1>2, <2>1
<1>8. /\ new \in Seq(Name)
      /\ t = <<>> => new = g
      /\ t # <<>> => /\ Len(new) = (k + 1) + n /\ \A x \in 1 .. k + 1 : new[x] = g[x]
                     /\ \A i \in 1 .. n : new[(k + 1) + i] = t[i].name
  <2>1. PICK p \in Nat : p = k + 1 /\ p <= Len(g)
    <3>1. k + 1 \in Nat /\ k + 1 <= Len(g)
      BY <1>5
    <3> QED BY <3>1
  <2>2. new = WithComing(g, p, t)
    BY <1>6, <2>1
  <2>3. /\ new \in Seq(Name)
        /\ t = <<>> => new = g
        /\ t # <<>> => /\ Len(new) = p + Len(t) /\ \A x \in 1 .. p : new[x] = g[x]
                       /\ \A i \in 1 .. Len(t) : new[p + i] = t[i].name
    <3>1. CASE t = <<>>
      BY <1>5, <2>2, <3>1 DEF WithComing
    <3>2. CASE t # <<>>
      <4>1. IsList(WithComing(g, p, t), g, p, t)
        BY <1>2, <1>5, <2>1, <3>2, ComingSome
      <4> QED BY <2>2, <3>2, <4>1 DEF IsList
    <3> QED BY <3>1, <3>2
  <2>4. ASSUME t # <<>>
        PROVE  /\ Len(new) = (k + 1) + n /\ \A x \in 1 .. k + 1 : new[x] = g[x]
               /\ \A i \in 1 .. n : new[(k + 1) + i] = t[i].name
    <3>1. /\ Len(new) = p + n /\ \A x \in 1 .. p : new[x] = g[x]
          /\ \A i \in 1 .. n : new[p + i] = t[i].name
      BY <1>1, <2>3, <2>4, Zenon
    <3> QED BY <2>1, <3>1
  <2> QED BY <2>3, <2>4
<1>9. Len(new) = (k + 1) + n /\ \A x \in 1 .. k + 1 : new[x] = g[x]
  <2>1. t = <<>> => n = 0
    BY <1>1
  <2> QED BY <1>2, <1>5, <1>8, <2>1
<1>10. ASSUME NEW x \in 1 .. Len(new) PROVE new[x] = old[x]
  <2>1. CASE x <= k
    <3>1. x \in 1 .. k /\ x \in 1 .. k + 1
      BY <2>1
    <3> QED BY <1>5, <1>7, <1>9, <3>1
  <2>2. CASE x = k + 1
    <3>1. 1 \in 1 .. n + 1 /\ x \in 1 .. k + 1
      BY <1>2, <2>2
    <3> QED BY <1>2, <1>5, <1>7, <1>9, <2>2, <3>1
  <2>3. CASE ~(x <= k) /\ x # k + 1
    <3>1. PICK i \in 1 .. n : x = (k + 1) + i
      <4>1. x - (k + 1) \in 1 .. n /\ x = (k + 1) + (x - (k + 1))
        BY <1>2, <1>9, <2>3
      <4> QED BY <4>1
    <3>2. i + 1 \in 1 .. n + 1 /\ x = k + (i + 1)
      BY <1>2, <3>1
    <3>3. t # <<>>
      <4>1. n # 0
        BY <1>2, <3>1
      <4>2. Len(<<>>) = 0
        OBVIOUS
      <4> QED BY <1>1, <4>1, <4>2
    <3>4. new[x] = t[i].name /\ t[i] = s[i + 1]
      BY <1>2, <1>8, <3>1, <3>3
    <3>5. old[k + (i + 1)] = s[i + 1].name
      BY <1>7, <3>2
    <3> QED BY <3>2, <3>4, <3>5
  <2> QED BY <2>1, <2>2, <2>3
<1>11. Len(new) = Len(old)
  BY <1>2, <1>7, <1>9
<1>12. new = old
  BY <1>7, <1>8, <1>10, <1>11, SameSequence
<1> QED BY <1>1, <1>2, <1>4, <1>6, <1>12

\* The csworker records a name that the asworker does not have, before what comes.
LEMMA ToldInserted ==
    ASSUME NEW old \in Seq(Name), NEW new \in Seq(Name), NEW p \in Nat, p <= Len(old),
           Len(new) = Len(old) + 1, \A x \in 1 .. p : new[x] = old[x],
           \A x \in p + 1 .. Len(old) : new[x + 1] = old[x], ~Shared(new[p + 1]),
           NEW j \in Journals(Entry), Told(old, Len(old), j), \A i \in DOMAIN j.log : SteppedAt(j.log, i)
    PROVE  Told(new, Len(new), j)
<1> DEFINE Back(x) == IF x <= p THEN x ELSE x - 1
<1>1. PICK n : n = Len(old)
  OBVIOUS
<1>2. /\ n \in Nat /\ DOMAIN old = 1 .. n /\ DOMAIN new = 1 .. n + 1 /\ Len(new) = n + 1
      /\ DOMAIN j.log = 1 .. Len(j.log) /\ Len(j.log) \in Nat /\ j.index \in Nat
  BY <1>1, JournalTypes
<1>3. ASSUME NEW x \in DOMAIN new, Shared(new[x])
      PROVE  Back(x) \in DOMAIN old /\ new[x] = old[Back(x)] /\ Shared(old[Back(x)])
  <2>1. x # p + 1 /\ x \in 1 .. n + 1
    BY <1>2, <1>3
  <2>2. CASE x <= p
    <3>1. x \in 1 .. p /\ x \in 1 .. n
      BY <1>1, <2>1, <2>2
    <3> QED BY <1>2, <1>3, <2>2, <3>1
  <2>3. CASE ~(x <= p)
    <3>1. x - 1 \in p + 1 .. n /\ x - 1 \in 1 .. n /\ (x - 1) + 1 = x
      BY <1>2, <2>1, <2>3
    <3> QED BY <1>1, <1>2, <1>3, <2>3, <3>1
  <2> QED BY <2>2, <2>3
<1>4. \A x, y \in DOMAIN new : Shared(new[x]) /\ Shared(new[y]) => (x < y <=> Back(x) < Back(y))
  <2>1. \A x \in DOMAIN new : Shared(new[x]) => x # p + 1 /\ x \in 1 .. n + 1
    BY <1>2
  <2> QED BY <2>1
<1>5. ASSUME NEW x \in DOMAIN old PROVE \E y \in DOMAIN new : new[y] = old[x]
  <2>1. CASE x <= p
    <3>1. x \in 1 .. p /\ x \in 1 .. n + 1
      BY <1>2, <2>1
    <3> QED BY <1>2, <3>1
  <2>2. CASE ~(x <= p)
    <3>1. x \in p + 1 .. Len(old) /\ x + 1 \in 1 .. n + 1
      BY <1>1, <1>2, <2>2
    <3> QED BY <1>2, <3>1
  <2> QED BY <2>1, <2>2
<1> HIDE DEF Back
<1>6. TellsAll(new, j)
  BY <1>3 DEF Told, TellsAll
<1>7. TellsInOrder(new, j)
  BY <1>3, <1>4 DEF Told, TellsInOrder
<1>8. TellsUpTo(new, Len(new), j)
  <2>1. SUFFICES ASSUME NEW i \in DOMAIN j.log, NEW x \in DOMAIN new,
                        Shared(new[x]), Says(j.log[i], new[x])
                 PROVE  i <= j.index /\ x <= Len(new)
    BY DEF TellsUpTo
  <2>2. Back(x) \in DOMAIN old /\ Shared(old[Back(x)]) /\ Says(j.log[i], old[Back(x)])
    BY <1>3, <2>1
  <2>3. Back(x) <= Len(old)
    BY <1>1, <1>2, <2>2
  <2> QED BY <1>2, <2>2, <2>3 DEF Told, TellsUpTo
<1>9. OthersUndone(new, j)
  <2>1. SUFFICES ASSUME NEW i \in DOMAIN j.log, IsOp(j.log[i]),
                        \A x \in DOMAIN new : new[x] # j.log[i].name
                 PROVE  /\ j.index < i
                        /\ \A m \in DOMAIN j.log, y \in DOMAIN new :
                              Shared(new[y]) /\ Says(j.log[m], new[y]) => m < i
    BY DEF OthersUndone
  <2>2. \A x \in DOMAIN old : old[x] # j.log[i].name
    BY <1>5, <2>1
  <2>3. /\ j.index < i
        /\ \A m \in DOMAIN j.log, y \in DOMAIN old :
              Shared(old[y]) /\ Says(j.log[m], old[y]) => m < i
    BY <2>1, <2>2 DEF Told, OthersUndone
  <2>4. ASSUME NEW m \in DOMAIN j.log, NEW y \in DOMAIN new, Shared(new[y]), Says(j.log[m], new[y])
        PROVE  m < i
    <3>1. Back(y) \in DOMAIN old /\ new[y] = old[Back(y)] /\ Shared(old[Back(y)])
      BY <1>3, <2>4
    <3> QED BY <2>3, <2>4, <3>1
  <2> QED BY <2>3, <2>4
<1>10. NextIsStep(new, Len(new), j)
  <2>1. ~\E x \in Len(new) + 1 .. Len(new) : TRUE
    BY <1>2
  <2> QED BY <2>1 DEF NextIsStep
<1> QED BY <1>6, <1>7, <1>8, <1>9, <1>10 DEF Told

LEMMA ComingInserted ==
    ASSUME NEW list \in Seq(Name), NEW k \in Nat, k <= Len(list), NEW s \in Seq(Posted), s # <<>>,
           NEW name \in Name, ~Shared(name), NEW j \in Journals(Entry),
           \A i \in DOMAIN j.log : SteppedAt(j.log, i), Told(WithComing(list, k, s), k + Len(s), j)
    PROVE  Told(WithComing(Grows(list, k, name), k + 1, s), (k + 1) + Len(s), j)
<1>1. PICK n, g : n = Len(s) /\ g = Grows(list, k, name)
  OBVIOUS
<1>2. n \in Nat /\ k \in 0 .. Len(list)
  BY <1>1
<1>3. /\ g \in Seq(Name) /\ Len(g) = k + 1 /\ g[k + 1] = name /\ \A x \in 1 .. k : g[x] = list[x]
  BY <1>1, <1>2, GrowsFacts
<1>4. PICK old, new : old = WithComing(list, k, s) /\ new = WithComing(g, k + 1, s)
  OBVIOUS
<1>5. /\ old \in Seq(Name) /\ Len(old) = k + n /\ \A x \in 1 .. k : old[x] = list[x]
      /\ \A i \in 1 .. n : old[k + i] = s[i].name
  <2>1. /\ old \in Seq(Name) /\ Len(old) = k + Len(s) /\ \A x \in 1 .. k : old[x] = list[x]
        /\ \A i \in 1 .. Len(s) : old[k + i] = s[i].name
    <3>1. IsList(WithComing(list, k, s), list, k, s)
      BY ComingSome
    <3> QED BY <1>4, <3>1 DEF IsList
  <2> QED BY <1>1, <2>1
<1>6. /\ new \in Seq(Name) /\ Len(new) = (k + 1) + n /\ \A x \in 1 .. k + 1 : new[x] = g[x]
      /\ \A i \in 1 .. n : new[(k + 1) + i] = s[i].name
  <2>1. PICK p \in Nat : p = k + 1 /\ p <= Len(g)
    <3>1. k + 1 \in Nat /\ k + 1 <= Len(g)
      BY <1>3
    <3> QED BY <3>1
  <2>2. new = WithComing(g, p, s)
    BY <1>4, <2>1
  <2>3. /\ new \in Seq(Name) /\ Len(new) = p + Len(s) /\ \A x \in 1 .. p : new[x] = g[x]
        /\ \A i \in 1 .. Len(s) : new[p + i] = s[i].name
    <3>1. IsList(WithComing(g, p, s), g, p, s)
      BY <1>3, <2>1, ComingSome
    <3> QED BY <2>2, <3>1 DEF IsList
  <2> QED BY <1>1, <2>1, <2>3
<1>7. k <= Len(old) /\ Len(new) = Len(old) + 1
  BY <1>2, <1>5, <1>6
<1>8. /\ \A x \in 1 .. k : new[x] = old[x]
      /\ new[k + 1] = name
  <2>1. k + 1 \in 1 .. k + 1 /\ \A x \in 1 .. k : x \in 1 .. k + 1
    OBVIOUS
  <2> QED BY <1>3, <1>5, <1>6, <2>1
<1>9. ASSUME NEW x \in k + 1 .. Len(old) PROVE new[x + 1] = old[x]
  <2>1. PICK i \in 1 .. n : x = k + i
    <3>1. x - k \in 1 .. n /\ x = k + (x - k)
      BY <1>2, <1>5
    <3> QED BY <3>1
  <2>2. x + 1 = (k + 1) + i
    BY <1>2, <2>1
  <2> QED BY <1>5, <1>6, <2>1, <2>2
<1>10. Told(old, Len(old), j)
  BY <1>1, <1>4, <1>5
<1>11. ~Shared(new[k + 1])
  BY <1>8
<1>12. Told(new, Len(new), j)
  BY <1>5, <1>6, <1>7, <1>8, <1>9, <1>10, <1>11, ToldInserted
<1> QED BY <1>1, <1>4, <1>6, <1>12

-----------------------------------------------------------------------------
(* Every step of a smooth run keeps to the story.                          *)

\* What will be recorded, by what is on its way.
LEMMA AheadTypes ==
    ASSUME TypeOK, NEW c \in CSWorker
    PROVE  /\ Ahead(c) \in Seq(Name) /\ Len(Ahead(c)) \in Nat
           /\ CursorAhead(c) \in Nat /\ CursorAhead(c) \in 0 .. Len(Ahead(c))
           /\ chan[c] = <<>> => Ahead(c) = names[c] /\ CursorAhead(c) = cursor[c]
<1>1. names[c] \in Seq(Name) /\ cursor[c] \in Nat /\ cursor[c] <= Len(names[c]) /\ chan[c] \in Seq(Posted)
  BY HereTypes, ChanTypes
<1>2. /\ Ahead(c) \in Seq(Name) /\ Len(Ahead(c)) \in Nat
      /\ CursorAhead(c) \in Nat /\ CursorAhead(c) <= Len(Ahead(c))
      /\ chan[c] = <<>> => Ahead(c) = names[c] /\ CursorAhead(c) = cursor[c]
  BY ZenonT(60), <1>1, ComingFacts DEF Ahead, CursorAhead
<1> QED BY <1>2

\* No name that is not known and does not come will be recorded.
LEMMA AheadNames ==
    ASSUME TypeOK, NEW c \in CSWorker, NEW name, ~Knows(c, name), ~Comes(c, name)
    PROVE  \A x \in DOMAIN Ahead(c) : Ahead(c)[x] # name
<1>1. PICK list, k, s : list = names[c] /\ k = cursor[c] /\ s = chan[c]
  OBVIOUS
<1>2. /\ list \in Seq(Name) /\ k \in Nat /\ k <= Len(list) /\ s \in Seq(Posted) /\ Len(list) \in Nat
      /\ DOMAIN list = 1 .. Len(list)
  BY <1>1, HereTypes, ChanTypes
<1>3. /\ \A x \in DOMAIN list : list[x] # name
      /\ \A i \in 1 .. Len(s) : s[i].name # name
  BY <1>1 DEF Knows, Comes, ComesBy
<1>4. CASE s = <<>>
  BY <1>1, <1>3, <1>4 DEF Ahead, WithComing
<1>5. CASE s # <<>>
  <2>1. PICK w : w = WithComing(list, k, s)
    OBVIOUS
  <2>2. IsList(w, list, k, s)
    BY <1>2, <1>5, <2>1, ComingSome
  <2>3. PICK n \in Nat : n = Len(s)
    BY <1>2
  <2>4. /\ DOMAIN w = 1 .. k + n /\ \A x \in 1 .. k : w[x] = list[x]
        /\ \A i \in 1 .. n : w[k + i] # name
    BY <1>3, <2>2, <2>3 DEF IsList
  <2>5. ASSUME NEW x \in 1 .. k + n PROVE w[x] # name
    <3>1. CASE x <= k
      <4>1. x \in 1 .. k /\ x \in DOMAIN list
        BY <1>2, <3>1
      <4> QED BY <1>3, <2>4, <4>1
    <3>2. CASE ~(x <= k)
      <4>1. x - k \in 1 .. n /\ k + (x - k) = x
        BY <1>2, <3>2
      <4> QED BY <2>4, <4>1
    <3> QED BY <3>1, <3>2
  <2>6. Ahead(c) = w
    BY <1>1, <2>1 DEF Ahead
  <2> QED BY <2>4, <2>5, <2>6
<1> QED BY <1>4, <1>5

\* What AsFollows says, by what is under way: now,
LEMMA FollowsNow ==
    ASSUME NEW c \in CSWorker, AsFollows(c)
    PROVE  /\ request[c].func \notin {"undo", "redo"} /\ ~(chan[c] # <<>> /\ Moves(Head(chan[c]))) =>
                 Told(Ahead(c), CursorAhead(c), asJournal)
           /\ request[c].func \notin {"undo", "redo"} /\ chan[c] # <<>> /\ Moves(Head(chan[c])) =>
                 Told(names[c], cursor[c], asJournal)
           /\ request[c].func = "undo" =>
                 \E k \in cursor[c] + 1 .. Len(names[c]) :
                    /\ Told(names[c], k, asJournal) /\ names[c][cursor[c] + 1] = request[c].name
                    /\ Shared(request[c].name)
                    /\ request[c].name.kind = "as" => k = cursor[c] + 1
           /\ request[c].func = "redo" =>
                 \/ request[c].name.kind = "end"
                 \/ /\ request[c].name.kind = "as" /\ cursor[c] > 0
                    /\ names[c][cursor[c]] = request[c].name
                    /\ Told(names[c], cursor[c] - 1, asJournal)
BY DEF AsFollows

\* and after a step.
LEMMA FollowsComing ==
    ASSUME NEW c \in CSWorker, request'[c].func \notin {"undo", "redo"},
           ~(chan'[c] # <<>> /\ Moves(Head(chan'[c]))),
           Told(Ahead(c)', CursorAhead(c)', asJournal')
    PROVE  AsFollows(c)'
BY DEF AsFollows, Moves

LEMMA FollowsSettled ==
    ASSUME TypeOK', NEW c \in CSWorker, chan'[c] = <<>>, request'[c].func \notin {"undo", "redo"},
           Told(names'[c], cursor'[c], asJournal')
    PROVE  AsFollows(c)'
<1>1. cursor'[c] \in Nat
  BY DEF TypeOK
<1>2. PICK list, k : list = names'[c] /\ k = cursor'[c]
  OBVIOUS
<1>3. Ahead(c)' = list /\ CursorAhead(c)' = k
  <2>1. Len(<<>>) = 0 /\ k + 0 = k
    BY <1>1, <1>2
  <2> QED BY <1>2, <2>1 DEF Ahead, CursorAhead, WithComing
<1> QED BY <1>2, <1>3, FollowsComing

LEMMA FollowsUndo ==
    ASSUME NEW c \in CSWorker, request'[c].func = "undo",
           NEW k \in cursor'[c] + 1 .. Len(names'[c]), Told(names'[c], k, asJournal'),
           names'[c][cursor'[c] + 1] = request'[c].name, Shared(request'[c].name),
           request'[c].name.kind = "as" => k = cursor'[c] + 1
    PROVE  AsFollows(c)'
BY DEF AsFollows

LEMMA FollowsRedo ==
    ASSUME NEW c \in CSWorker, request'[c].func = "redo",
           \/ request'[c].name.kind = "end"
           \/ /\ request'[c].name.kind = "as" /\ cursor'[c] > 0
              /\ names'[c][cursor'[c]] = request'[c].name
              /\ Told(names'[c], cursor'[c] - 1, asJournal')
    PROVE  AsFollows(c)'
BY DEF AsFollows

LEMMA FollowsMoved ==
    ASSUME NEW c \in CSWorker, NEW m, chan'[c] = <<m>>, Moves(m), request'[c] = Nothing,
           Told(names'[c], cursor'[c], asJournal')
    PROVE  AsFollows(c)'
<1>1. chan'[c] # <<>> /\ Head(chan'[c]) = m /\ request'[c].func = "none"
  BY DEF Nothing
<1> QED BY <1>1 DEF AsFollows, Moves

\* A changelog that brings a name leaves.
LEMMA FollowsNew ==
    ASSUME TypeOK, NEW c \in CSWorker, NEW m \in Posted, Broadcast(m), Brings(m), request'[c] = Nothing,
           \A i \in DOMAIN chan[c] : ~Moves(chan[c][i]),
           names'[c] = names[c], cursor'[c] = cursor[c],
           Told(Grows(Ahead(c), CursorAhead(c), m.name), CursorAhead(c) + 1, asJournal')
    PROVE  AsFollows(c)'
<1>1. chan'[c] = Append(chan[c], m)
  BY BroadcastOne
<1>2. request'[c].func \notin {"undo", "redo"} /\ ~Moves(m)
  BY DEF Nothing, Brings, Moves
<1>3. ~Moves(Head(chan'[c]))
  <2>1. CASE chan[c] = <<>>
    BY <1>1, <1>2, <2>1, ChanGrows
  <2>2. CASE chan[c] # <<>>
    <3>1. Head(chan'[c]) = chan[c][1] /\ 1 \in DOMAIN chan[c]
      BY <1>1, <2>2, ChanGrows, ChanTypes
    <3> QED BY <3>1
  <2> QED BY <2>1, <2>2
<1>4. names[c] \in Seq(Name) /\ cursor[c] \in Nat /\ cursor[c] <= Len(names[c]) /\ chan[c] \in Seq(Posted)
  BY HereTypes, ChanTypes
<1>5. /\ Ahead(c)' = Grows(Ahead(c), CursorAhead(c), m.name)
      /\ CursorAhead(c)' = CursorAhead(c) + 1
  <2>1. PICK list, k, s : list = names[c] /\ k = cursor[c] /\ s = chan[c]
    OBVIOUS
  <2>2. /\ WithComing(list, k, Append(s, m)) = Grows(WithComing(list, k, s), k + Len(s), m.name)
        /\ k + Len(Append(s, m)) = (k + Len(s)) + 1
    BY <1>4, <2>1, ComingGrows
  <2> QED BY <1>1, <2>1, <2>2 DEF Ahead, CursorAhead
<1> QED BY <1>2, <1>3, <1>5, FollowsComing

\* What leaves is smooth.
LEMMA ComesGrows ==
    ASSUME TypeOK, NEW c \in CSWorker, ComesSmooth(c), NEW m, chan'[c] = Append(chan[c], m),
           m.func = "do" => ~m.empty, m.func = "mark" => m.name.kind \in {"start", "end"}
    PROVE  ComesSmooth(c)'
<1>1. PICK n \in Nat : n = Len(chan[c]) /\ DOMAIN chan[c] = 1 .. n
  BY ChanTypes
<1>2. /\ DOMAIN chan'[c] = 1 .. n + 1 /\ chan'[c][n + 1] = m
      /\ \A i \in 1 .. n : chan'[c][i] = chan[c][i]
  BY <1>1, ChanGrows
<1>3. \A i \in 1 .. n + 1 : i \in 1 .. n \/ i = n + 1
  OBVIOUS
<1> QED BY <1>1, <1>2, <1>3 DEF ComesSmooth

LEMMA RequestNames ==
    ASSUME TypeOK, NEW c \in CSWorker, request[c].func \in {"mark", "undo", "redo"}
    PROVE  request[c].name \in Name
BY RequestKinds

\* The asworker logs no other names than those of its edits and of the requests to mark one.
LEMMA ServedNamed ==
    ASSUME TypeOK, NEW c \in CSWorker, Serve(c)
    PROVE  \A n \in Named(asJournal)' :
              \/ n \in Named(asJournal) \/ n = AsName(asSeq + 1)
              \/ request[c].func = "mark" /\ n = request[c].name
<1>1. asJournal \in Journals(Entry) /\ asSeq \in Nat /\ AsName(asSeq + 1) \in Name
  BY JournalsAre, Names DEF TypeOK
<1>2. PICK j, k : j = asJournal /\ k = asJournal'
  OBVIOUS
<1>3. CASE EditSucceeds(c)
  <2>1. k = Done(j, AsName(asSeq + 1))
    BY <1>2, <1>3 DEF EditSucceeds
  <2>2. Named(k) \subseteq Named(j) \cup {AsName(asSeq + 1)}
    BY <1>1, <1>2, <2>1, NamedDone
  <2> QED BY <1>2, <2>2
<1>4. CASE EditChangesNothing(c) \/ EditRefused(c)
  <2>1. k = SetStepCheckpoint(j)
    BY <1>2, <1>4 DEF EditChangesNothing, EditRefused
  <2>2. Named(k) \subseteq Named(j)
    BY <1>1, <1>2, <2>1, NamedStep
  <2> QED BY <1>2, <2>2
<1>5. CASE SetMark(c)
  <2>1. k = SetUserCheckpoint(j, request[c].name) /\ request[c].func = "mark"
    BY <1>2, <1>5 DEF SetMark
  <2>2. request[c].name \in Name
    BY <2>1, RequestNames
  <2>3. Named(k) \subseteq Named(j) \cup {request[c].name}
    BY <1>1, <1>2, <2>1, <2>2, NamedMark
  <2> QED BY <1>2, <2>1, <2>3
<1>6. CASE AswUndo(c) \/ AswRedo(c)
  <2>1. k.log = j.log
    <3>1. k \in {UndoneUntil(j, request[c].name), UndoneStep(j), RedoneUntil(j, request[c].name), RedoneStep(j)}
      BY <1>2, <1>6 DEF AswUndo, AswRedo, AswUndone, AswRedone
    <3> QED BY <1>1, <1>2, <3>1, UndoneUntilFacts, RedoneUntilFacts, UndoneFacts, RedoneStepTypes
  <2>2. Named(k) = Named(j)
    BY <2>1 DEF Named
  <2> QED BY <1>2, <2>2
<1> QED BY <1>3, <1>4, <1>5, <1>6 DEF Serve

\* The marks of a batch stay new until they are set.
LEMMA ServeMarksNew ==
    ASSUME TypeOK, NEW c \in CSWorker, Story(c), MarksAreNew(c), Serve(c)
    PROVE  MarksAreNew(c)'
<1>1. /\ request'[c] = Nothing
      /\ batch[c] = NoBatch => batch'[c] = NoBatch
      /\ \E reply : batch[c] # NoBatch => batch'[c] = [batch[c] EXCEPT !.reply = reply]
  BY Served DEF Story
<1>2. PICK b \in [id : 0 .. MaxOps, step : 0 .. BatchLen + 2, reply : {"none", "ok", "error"}] : b = batch[c]
  BY DEF TypeOK
<1>3. SUFFICES ASSUME batch'[c] # NoBatch, batch'[c].step <= BatchLen,
                      EndOf(batch'[c].id) \in Named(asJournal)'
               PROVE  FALSE
  BY <1>1 DEF MarksAreNew, Nothing
<1>4. b # NoBatch /\ batch'[c].id = b.id /\ batch'[c].step = b.step
  BY <1>1, <1>2, <1>3
<1>5. EndOf(b.id) \notin Named(asJournal)
  BY <1>2, <1>3, <1>4 DEF MarksAreNew
<1>6. b.step \in Nat /\ BatchLen \in Nat /\ b.step # BatchLen + 1
  <2>1. BatchLen \in Nat
    BY Constants
  <2> QED BY <1>3, <1>4, <2>1
<1>7. request[c].func = "mark" => request[c].name = StartOf(b.id)
  BY <1>2, <1>4, <1>6 DEF Story, BatchIsMarked
<1>8. EndOf(b.id) # StartOf(b.id) /\ EndOf(b.id) # AsName(asSeq + 1)
  BY DEF EndOf, StartOf, AsName
<1> QED BY <1>3, <1>4, <1>5, <1>7, <1>8, ServedNamed

\* A mark that is asked for is one of a batch, and new to the asworker.
LEMMA MarkAsked ==
    ASSUME TypeOK, NEW c \in CSWorker, Story(c), MarksAreNew(c), request[c].func = "mark"
    PROVE  /\ request[c] \in Posted /\ Brings(request[c])
           /\ request[c].name \in Name /\ request[c].name.kind \in {"start", "end"}
           /\ request[c].name \notin Named(asJournal)
           /\ \A x \in DOMAIN Ahead(c) : Ahead(c)[x] # request[c].name
<1>1. PICK m : m = request[c]
  OBVIOUS
<1>2. m = Mark(m.name) /\ m.name \in Name /\ m.func = "mark"
  BY <1>1, RequestKinds
<1>3. m \in Posted /\ Brings(m)
  BY <1>2 DEF Posted, Brings, Mark
<1>4. ~Knows(c, m.name) /\ ~Comes(c, m.name)
  BY <1>1 DEF Story, NewsIsNew
<1>5. PICK b : b = batch[c]
  OBVIOUS
<1>6. b # NoBatch /\ (\/ b.step = 0 /\ m.name = StartOf(b.id)
                      \/ b.step = BatchLen + 1 /\ m.name = EndOf(b.id))
  BY <1>1, <1>5 DEF Story, BatchIsMarked
<1>7. m.name.kind \in {"start", "end"} /\ m.name \notin Named(asJournal)
  <2>1. StartOf(b.id).kind = "start" /\ EndOf(b.id).kind = "end"
    BY DEF StartOf, EndOf
  <2> QED BY <1>1, <1>5, <1>6, <2>1 DEF MarksAreNew
<1> QED BY <1>1, <1>2, <1>3, <1>4, <1>7, AheadNames

\* The next name of an edit is new.
LEMMA NextIsNew ==
    ASSUME TypeOK, NEW c \in CSWorker, Story(c), AllGiven(c), \A i \in DOMAIN chan[c] : ~Moves(chan[c][i])
    PROVE  /\ AsName(asSeq + 1) \in Name /\ AsName(asSeq + 1) \notin Named(asJournal)
           /\ \A x \in DOMAIN Ahead(c) : Ahead(c)[x] # AsName(asSeq + 1)
<1>1. PICK name : name = AsName(asSeq + 1)
  OBVIOUS
<1>2. name \in Name /\ ~Given(c, name)
  <2>1. asSeq \in Nat
    BY DEF TypeOK
  <2> QED BY <1>1, <2>1, Names DEF Given, AsName
<1>3. name \notin Named(asJournal)
  BY <1>2 DEF AllGiven, Around
<1>4. ~Knows(c, name)
  BY <1>2 DEF Knows, Story, NamesInOrder
<1>5. ~Comes(c, name)
  <2>1. SUFFICES ASSUME NEW i \in 1 .. Len(chan[c]), chan[c][i].name = name PROVE FALSE
    BY DEF Comes, ComesBy
  <2>2. i \in DOMAIN chan[c] /\ (Brings(chan[c][i]) <=> ~Moves(chan[c][i]))
    BY ChanTypes
  <2> QED BY <1>2, <2>1, <2>2 DEF Story, NewsIsNew
<1> QED BY <1>1, <1>2, <1>3, <1>4, <1>5, AheadNames

\* The asworker serves a request.
LEMMA ServeSmooth ==
    ASSUME TypeOK, TypeOK', NEW c \in CSWorker, Story(c), AllGiven(c), MarksAreNew(c),
           SmoothStory(c), Serve(c), smooth'
    PROVE  SmoothStory(c)'
<1>1. /\ ~EditChangesNothing(c) /\ ~EditRefused(c)
      /\ AswRedo(c) => ~IsWhole(request[c])
  BY DEF Serve, EditSucceeds, EditChangesNothing, EditRefused, SetMark, AswUndo, AswRedo
<1>2. /\ CsShape(csContent[c], csJournal[c]) /\ AsShape(asContent, asJournal) /\ AsFollows(c)
      /\ ComesSmooth(c)
  BY DEF SmoothStory
<1>3. CsShape(csContent'[c], csJournal'[c]) /\ names' = names /\ cursor' = cursor
  BY <1>2, ServedElse
<1>4. /\ request'[c] = Nothing /\ MovesAlone(c)
      /\ \A i \in DOMAIN chan[c] : ~Moves(chan[c][i])
  <2>1. MovesAlone(c)
    BY DEF Story
  <2> QED BY <2>1, Served
<1>5. SUFFICES AsShape(asContent', asJournal') /\ AsFollows(c)' /\ ComesSmooth(c)'
  BY <1>3 DEF SmoothStory
<1>6. PICK j, list, k : j = asJournal /\ list = Ahead(c) /\ k = CursorAhead(c)
  OBVIOUS
<1>7. /\ j \in Journals(Entry) /\ list \in Seq(Name) /\ k \in 0 .. Len(list) /\ k \in Nat
      /\ Len(list) \in Nat /\ DOMAIN list = 1 .. Len(list)
  <2>1. j \in Journals(Entry)
    BY <1>6, JournalsAre DEF TypeOK
  <2>2. list \in Seq(Name) /\ k \in Nat /\ k \in 0 .. Len(list)
    BY <1>6, AheadTypes
  <2> QED BY <2>1, <2>2
<1>8. request[c].func \notin {"undo", "redo"} => Told(list, k, j)
  <2>1. ~(chan[c] # <<>> /\ Moves(Head(chan[c])))
    BY <1>4, ChanTypes
  <2> QED BY <1>2, <1>6, <2>1, FollowsNow
<1>9. AsShape(asContent, j)
  BY <1>2, <1>6
<1>10. CASE EditSucceeds(c)
  <2>1. PICK name, m : name = AsName(asSeq + 1) /\ m = [func |-> "do", name |-> name, empty |-> FALSE]
    OBVIOUS
  <2>2. /\ request[c] = Edit /\ asJournal' = Done(j, name) /\ asContent' = asContent \cup {name}
        /\ Broadcast(m)
    BY <1>6, <1>10, <2>1 DEF EditSucceeds
  <2>3. name \in Name /\ name.kind = "as" /\ name \notin Named(j) /\ \A x \in DOMAIN list : list[x] # name
    BY <1>4, <1>6, <2>1, NextIsNew DEF AsName
  <2>4. Told(list, k, j)
    BY <1>8, <2>2 DEF Edit
  <2>5. AsShape(asContent', asJournal') /\ Told(Grows(list, k, name), k + 1, asJournal')
    BY <1>7, <1>9, <2>2, <2>3, <2>4, AsDone
  <2>6. m \in Posted /\ Brings(m) /\ m.name = name /\ m.func = "do" /\ ~m.empty
    BY <2>1, <2>3 DEF Posted, Brings
  <2>7. AsFollows(c)'
    BY <1>3, <1>4, <1>6, <2>2, <2>5, <2>6, FollowsNew
  <2>8. ComesSmooth(c)'
    <3>1. chan'[c] = Append(chan[c], m)
      BY <2>2, BroadcastOne
    <3> QED BY <1>2, <2>6, <3>1, ComesGrows
  <2> QED BY <2>5, <2>7, <2>8
<1>11. CASE SetMark(c)
  <2>1. PICK m : m = request[c]
    OBVIOUS
  <2>2. /\ m.func = "mark" /\ asJournal' = SetUserCheckpoint(j, m.name) /\ asContent' = asContent
        /\ Broadcast(m)
    BY <1>6, <1>11, <2>1 DEF SetMark
  <2>3. /\ m \in Posted /\ Brings(m) /\ m.name \in Name /\ m.name.kind \in {"start", "end"}
        /\ m.name \notin Named(j) /\ \A x \in DOMAIN list : list[x] # m.name
    BY <1>6, <2>1, <2>2, MarkAsked
  <2>4. Told(list, k, j)
    BY <1>8, <2>1, <2>2
  <2>5. AsShape(asContent', asJournal') /\ Told(Grows(list, k, m.name), k + 1, asJournal')
    <3>1. PICK name \in Name : name = m.name
      BY <2>3
    <3> QED BY <1>7, <1>9, <2>2, <2>3, <2>4, <3>1, AsMarked
  <2>6. AsFollows(c)'
    BY <1>3, <1>4, <1>6, <2>2, <2>3, <2>5, FollowsNew
  <2>7. ComesSmooth(c)'
    <3>1. chan'[c] = Append(chan[c], m)
      BY <2>2, BroadcastOne
    <3> QED BY <1>2, <2>2, <2>3, <3>1, ComesGrows
  <2> QED BY <2>5, <2>6, <2>7
<1>12. ASSUME NEW r, r = request[c], r.func \in {"undo", "redo"}, Broadcast(r),
              AsShape(asContent', asJournal'), Told(names[c], cursor[c], asJournal')
       PROVE  AsFollows(c)' /\ ComesSmooth(c)' /\ AsShape(asContent', asJournal')
  <2>1. chan[c] = <<>> /\ Moves(r)
    BY <1>4, <1>12 DEF MovesAlone, Moves
  <2>2. chan'[c] = <<r>> /\ chan'[c] = Append(chan[c], r)
    BY <1>12, <2>1, BroadcastOne
  <2>3. AsFollows(c)'
    BY <1>3, <1>4, <1>12, <2>1, <2>2, FollowsMoved
  <2>4. ComesSmooth(c)'
    BY <1>2, <1>12, <2>2, ComesGrows
  <2> QED BY <1>12, <2>3, <2>4
<1>13. ASSUME request[c].func \in {"undo", "redo"}
       PROVE  list = names[c] /\ k = cursor[c]
  <2>1. chan[c] = <<>>
    BY <1>4, <1>13 DEF MovesAlone, Moves
  <2> QED BY <1>6, <2>1, AheadTypes
<1>14. CASE AswUndo(c)
  <2>1. PICK r : r = request[c]
    OBVIOUS
  <2>2. /\ r.func = "undo" /\ asJournal' = AswUndone(r) /\ Broadcast(r)
        /\ asContent' = Without(asContent, j, asJournal')
    BY <1>6, <1>14, <2>1 DEF AswUndo
  <2>3. list = names[c] /\ k = cursor[c]
    BY <1>13, <2>1, <2>2
  <2>4. PICK n \in k + 1 .. Len(list) :
           /\ Told(list, n, j) /\ list[k + 1] = r.name /\ Shared(r.name)
           /\ r.name.kind = "as" => n = k + 1
    BY <1>2, <1>6, <2>1, <2>2, <2>3, FollowsNow
  <2>5. n \in 1 .. Len(list) /\ n \in 0 .. Len(list) /\ k + 1 \in 1 .. n /\ (k + 1) - 1 = k
    BY <1>7
  <2>6. AsShape(asContent', asJournal') /\ Told(list, k, asJournal')
    <3>1. CASE r.name.kind = "as"
      <4>1. asJournal' = UndoneStep(j) /\ n = k + 1 /\ list[n].kind = "as"
        BY <1>6, <2>2, <2>4, <3>1 DEF AswUndone, IsWhole
      <4> QED BY <1>7, <1>9, <2>2, <2>4, <2>5, <4>1, AsStepUndone
    <3>2. CASE r.name.kind = "start"
      <4>1. asJournal' = UndoneUntil(j, list[k + 1]) /\ list[k + 1].kind = "start"
        BY <1>6, <2>2, <2>4, <3>2 DEF AswUndone, IsWhole
      <4>2. PICK x0 \in 1 .. n : x0 = k + 1
        BY <2>5
      <4>3. /\ AsShape(Without(asContent, j, UndoneUntil(j, list[x0])), UndoneUntil(j, list[x0]))
            /\ Told(list, x0 - 1, UndoneUntil(j, list[x0]))
        BY <1>7, <1>9, <2>4, <2>5, <4>1, <4>2, AsWholeUndone
      <4> QED BY <2>2, <2>5, <4>1, <4>2, <4>3
    <3> QED BY <2>4, <3>1, <3>2 DEF Shared
  <2> QED BY <1>12, <2>1, <2>2, <2>3, <2>6
<1>15. CASE AswRedo(c)
  <2>1. PICK r : r = request[c]
    OBVIOUS
  <2>2. /\ r.func = "redo" /\ asJournal' = AswRedone(r) /\ Broadcast(r) /\ ~IsWhole(r)
        /\ asContent' = With(asContent, j, asJournal')
    BY <1>1, <1>6, <1>15, <2>1 DEF AswRedo
  <2>3. list = names[c] /\ k = cursor[c]
    BY <1>13, <2>1, <2>2
  <2>4. /\ r.name.kind = "as" /\ k > 0 /\ list[k] = r.name /\ Told(list, k - 1, j)
    BY <1>2, <1>6, <2>1, <2>2, <2>3, FollowsNow DEF IsWhole
  <2>5. PICK n \in 0 .. Len(list) - 1 : n = k - 1
    BY <1>7, <2>4
  <2>6. n + 1 = k
    BY <1>7, <2>5
  <2>7. asJournal' = RedoneStep(j)
    BY <1>6, <2>2 DEF AswRedone
  <2>8. AsShape(asContent', asJournal') /\ Told(list, k, asJournal')
    <3>1. Told(list, n, j) /\ list[n + 1].kind = "as"
      BY <2>4, <2>5, <2>6
    <3>2. AsShape(With(asContent, j, RedoneStep(j)), RedoneStep(j)) /\ Told(list, n + 1, RedoneStep(j))
      BY <1>7, <1>9, <2>7, <3>1, AsStepRedone
    <3> QED BY <2>2, <2>6, <2>7, <3>2
  <2> QED BY <1>12, <2>1, <2>2, <2>3, <2>8
<1> QED BY <1>1, <1>10, <1>11, <1>14, <1>15 DEF Serve

LEMMA UndoHereSmooth ==
    ASSUME TypeOK, NEW c \in CSWorker, NEW name, UndoHere(c, name),
           CsShape(csContent[c], csJournal[c])
    PROVE  CsShape(csContent'[c], csJournal'[c])
<1>1. PICK j \in Journals(Entry), content \in SUBSET Name : j = csJournal[c] /\ content = csContent[c]
  BY HereTypes
<1>2. csJournal'[c] = UndoneUntil(j, name) /\ csContent'[c] = Without(content, j, UndoneUntil(j, name))
  BY <1>1 DEF UndoHere, TypeOK
<1>3. CsShape(Without(content, j, UndoneUntil(j, name)), UndoneUntil(j, name))
  BY <1>1, CsUndone
<1> QED BY <1>2, <1>3

LEMMA RedoHereSmooth ==
    ASSUME TypeOK, NEW c \in CSWorker, NEW name, RedoHere(c, name),
           CsShape(csContent[c], csJournal[c])
    PROVE  CsShape(csContent'[c], csJournal'[c])
<1>1. PICK j \in Journals(Entry), content \in SUBSET Name : j = csJournal[c] /\ content = csContent[c]
  BY HereTypes
<1>2. csJournal'[c] = RedoneUntil(j, name) /\ csContent'[c] = With(content, j, RedoneUntil(j, name))
  BY <1>1 DEF RedoHere, TypeOK
<1>3. CsShape(With(content, j, RedoneUntil(j, name)), RedoneUntil(j, name))
  BY <1>1, CsRedone
<1> QED BY <1>2, <1>3

\* A csworker edits the concrete syntax only, whatever is on its way.
LEMMA EditHereSmooth ==
    ASSUME TypeOK, NEW c \in CSWorker, EditHere(c), AllGiven(c), chan' = chan,
           CsShape(csContent[c], csJournal[c]), AsShape(asContent, asJournal),
           Told(Ahead(c), CursorAhead(c), asJournal)
    PROVE  /\ CsShape(csContent'[c], csJournal'[c])
           /\ Told(Ahead(c)', CursorAhead(c)', asJournal)
<1>1. PICK name \in Name : name = CsName(csSeq[c] + 1)
  BY EditHereTypes
<1>2. PICK j \in Journals(Entry), content \in SUBSET Name, list \in Seq(Name), k \in Nat, s \in Seq(Posted) :
         j = csJournal[c] /\ content = csContent[c] /\ list = names[c] /\ k = cursor[c] /\ s = chan[c]
  BY HereTypes, ChanTypes
<1>3. k \in 0 .. Len(list) /\ k <= Len(list) /\ asJournal \in Journals(Entry)
  BY <1>2, HereTypes, JournalsAre DEF TypeOK
<1>4. /\ csJournal'[c] = Done(SetUserCheckpoint(j, name), name)
      /\ csContent'[c] = content \cup {name}
      /\ Recorded(c, name)
  BY <1>1, <1>2 DEF EditHere, TypeOK
<1>5. name \notin Named(j)
  <2>1. ~Given(c, name)
    BY <1>1, HereTypes DEF Given, CsName
  <2> QED BY <1>2, <2>1 DEF AllGiven, Around, Seen
<1>6. CsShape(csContent'[c], csJournal'[c])
  BY <1>2, <1>4, <1>5, CsDone
<1>7. ~Shared(name) /\ \A i \in DOMAIN asJournal.log : SteppedAt(asJournal.log, i)
  BY <1>1 DEF Shared, CsName, AsShape
<1>8. /\ Ahead(c) = WithComing(list, k, s) /\ CursorAhead(c) = k + Len(s)
      /\ Ahead(c)' = WithComing(Grows(list, k, name), k + 1, s) /\ CursorAhead(c)' = (k + 1) + Len(s)
  BY <1>2, <1>4, RecordedTypes DEF Ahead, CursorAhead, Grows
<1>9. Told(WithComing(Grows(list, k, name), k + 1, s), (k + 1) + Len(s), asJournal)
  <2>1. CASE s = <<>>
    <3>1. Len(s) = 0 /\ k + 0 = k /\ (k + 1) + 0 = k + 1
      BY <2>1
    <3>2. Told(list, k, asJournal)
      BY <1>8, <2>1, <3>1 DEF WithComing
    <3>3. Told(Grows(list, k, name), k + 1, asJournal)
      BY <1>3, <1>7, <3>2, ToldElse
    <3> QED BY <2>1, <3>1, <3>3 DEF WithComing
  <2>2. CASE s # <<>>
    BY <1>3, <1>7, <1>8, <2>2, ComingInserted
  <2> QED BY <2>1, <2>2
<1> QED BY <1>6, <1>8, <1>9

\* A csworker applies a changelog.
LEMMA ApplySmooth ==
    ASSUME TypeOK, TypeOK', NEW c \in CSWorker, Story(c), AllGiven(c), SmoothStory(c), Apply(c)
    PROVE  SmoothStory(c)'
<1>1. PICK func : Arrived(c, func) /\ func \in {"do", "mark", "undo", "redo"}
  BY DEF Apply, ApplyDo, ApplyMark, ApplyUndo, ApplyRedo
<1>2. /\ chan[c] # <<>> /\ Head(chan[c]).func = func /\ News(c) = Head(chan[c])
      /\ News(c).name \in Name /\ chan'[c] = Tail(chan[c]) /\ Head(chan[c]) = chan[c][1]
      /\ 1 \in DOMAIN chan[c]
      /\ UNCHANGED <<asJournal, asContent, request>>
  BY <1>1, ChangelogApplied
<1>3. /\ MovesAlone(c) /\ MovesAlone(c)' /\ ~Moves(News(c)')
      /\ Moves(Head(chan[c])) => chan'[c] = <<>> /\ request[c] = Nothing
  BY <1>1, ApplyMoves DEF Story
<1>4. request'[c].func \notin {"undo", "redo"}
  BY <1>2, <1>3 DEF MovesAlone, Moves
<1>5. ~(chan'[c] # <<>> /\ Moves(Head(chan'[c])))
  BY <1>3 DEF News
<1>6. ComesSmooth(c)'
  <2>1. PICK n : n = Len(chan'[c])
    OBVIOUS
  <2>2. /\ DOMAIN chan'[c] = 1 .. n
        /\ \A i \in 1 .. n : i + 1 \in DOMAIN chan[c] /\ chan'[c][i] = chan[c][i + 1]
    BY <1>2, <2>1, ChanShrinks
  <2> QED BY <2>2 DEF SmoothStory, ComesSmooth
<1>7. CsShape(csContent[c], csJournal[c]) /\ AsFollows(c) /\ ComesSmooth(c)
  BY DEF SmoothStory
<1>8. SUFFICES CsShape(csContent'[c], csJournal'[c]) /\ AsFollows(c)'
  BY <1>2, <1>6 DEF SmoothStory
<1>9. PICK name \in Name : name = Head(chan[c]).name
  BY <1>2
<1>10. PICK j \in Journals(Entry), content \in SUBSET Name : j = csJournal[c] /\ content = csContent[c]
  BY HereTypes
<1>11. CASE func \in {"do", "mark"}
  <2>1. ~Moves(Head(chan[c])) /\ request[c].func \notin {"undo", "redo"}
    BY <1>2, <1>4, <1>11 DEF Moves
  <2>2. Told(Ahead(c), CursorAhead(c), asJournal) /\ (func = "do" => ~Head(chan[c]).empty)
    BY <1>2, <1>7, <2>1, FollowsNow DEF ComesSmooth
  <2>3. Recorded(c, name)
    BY <1>1, <1>2, <1>9, <1>11 DEF Apply, ApplyDo, ApplyMark, ApplyUndo, ApplyRedo, Arrived
  <2>4. Ahead(c)' = Ahead(c) /\ CursorAhead(c)' = CursorAhead(c)
    <3>1. PICK list \in Seq(Name), k \in Nat, s \in Seq(Posted) :
             list = names[c] /\ k = cursor[c] /\ s = chan[c] /\ k <= Len(list)
      BY HereTypes, ChanTypes
    <3>2. names'[c] = Grows(list, k, Head(s).name) /\ cursor'[c] = k + 1 /\ chan'[c] = Tail(s)
      BY <1>2, <1>9, <2>3, <3>1, RecordedTypes DEF Grows
    <3>3. /\ WithComing(Grows(list, k, Head(s).name), k + 1, Tail(s)) = WithComing(list, k, s)
          /\ (k + 1) + Len(Tail(s)) = k + Len(s)
      BY <1>2, <3>1, ComingRecorded
    <3> QED BY <3>1, <3>2, <3>3 DEF Ahead, CursorAhead
  <2>5. AsFollows(c)'
    BY <1>2, <1>4, <1>5, <2>2, <2>4, FollowsComing
  <2>6. CASE func = "do"
    <3>1. /\ csJournal'[c] = Done(SetUserCheckpoint(j, name), name)
          /\ csContent'[c] = content \cup {name}
      <4>1. ApplyDo(c)
        BY <1>2, <2>6 DEF Apply, ApplyDo, ApplyMark, ApplyUndo, ApplyRedo, Arrived
      <4>2. DOMAIN csJournal = CSWorker /\ DOMAIN csContent = CSWorker
        BY DEF TypeOK
      <4> QED BY <1>9, <1>10, <2>2, <2>6, <4>1, <4>2 DEF ApplyDo
    <3>2. name \notin Named(j)
      BY <1>2, <1>9, <1>10, <2>6 DEF AllGiven, Seen
    <3> QED BY <1>7, <1>10, <2>5, <3>1, <3>2, CsDone
  <2>7. CASE func = "mark"
    <3>1. csJournal'[c] = SetUserCheckpoint(j, name) /\ csContent'[c] = content
      <4>1. ApplyMark(c)
        BY <1>2, <2>7 DEF Apply, ApplyDo, ApplyMark, ApplyUndo, ApplyRedo, Arrived
      <4>2. DOMAIN csJournal = CSWorker /\ DOMAIN csContent = CSWorker
        BY DEF TypeOK
      <4> QED BY <1>9, <1>10, <4>1, <4>2 DEF ApplyMark
    <3>2. name.kind \in {"start", "end"}
      BY <1>2, <1>7, <1>9, <2>7 DEF ComesSmooth
    <3>3. \A i \in UserCheckpoints(j) : j.log[i].name # name
      <4>1. Marked(names[c], cursor[c], j)
        BY <1>2, <1>10, <2>1 DEF Story, JournalFollows
      <4>2. ~Knows(c, name)
        BY <1>2, <1>9, <2>7 DEF Story, NewsIsNew, Brings
      <4> QED BY <4>1, <4>2 DEF Marked, Knows
    <3> QED BY <1>7, <1>10, <2>5, <3>1, <3>2, <3>3, CsMarked
  <2> QED BY <1>11, <2>6, <2>7
<1>12. CASE func \in {"undo", "redo"}
  <2>1. Moves(Head(chan[c])) /\ chan'[c] = <<>> /\ request[c].func \notin {"undo", "redo"}
    BY <1>2, <1>3, <1>4, <1>12 DEF Moves
  <2>2. AsFollows(c)'
    <3>1. Told(names[c], cursor[c], asJournal)
      BY <1>2, <1>7, <2>1, FollowsNow
    <3>2. names' = names /\ cursor' = cursor
      BY <1>2, <1>12 DEF Apply, ApplyDo, ApplyMark, ApplyUndo, ApplyRedo, Arrived, history
    <3> QED BY <1>2, <1>4, <2>1, <3>1, <3>2, FollowsSettled
  <2>3. CASE func = "undo"
    <3>1. UndoHere(c, name)
      BY <1>2, <1>9, <2>3 DEF Apply, ApplyDo, ApplyMark, ApplyUndo, ApplyRedo, Arrived
    <3> QED BY <1>7, <2>2, <3>1, UndoHereSmooth
  <2>4. CASE func = "redo"
    <3>1. RedoHere(c, name)
      BY <1>2, <1>9, <2>4 DEF Apply, ApplyDo, ApplyMark, ApplyUndo, ApplyRedo, Arrived
    <3> QED BY <1>7, <2>2, <3>1, RedoHereSmooth
  <2> QED BY <1>12, <2>3, <2>4
<1> QED BY <1>1, <1>11, <1>12

\* The undo of a batch begins at its start checkpoint.
LEMMA UndoWholeSmooth ==
    ASSUME TypeOK, TypeOK', NEW c \in CSWorker, Story(c), Settled(c), chan[c] = <<>>,
           Told(names[c], cursor[c], asJournal),
           NEW b \in Nat, NEW from \in Int, from <= cursor[c], UndoWhole(c, b, from),
           LastMark(c, b, from) # 0 => names[c][LastMark(c, b, from)] = StartOf(b),
           UNCHANGED <<names, asJournal, chan>>
    PROVE  AsFollows(c)'
<1>1. chan'[c] = <<>> /\ request[c] = Nothing
  BY SettledFacts
<1>2. CASE LastMark(c, b, from) = 0
  <2>1. cursor' = cursor /\ request' = request
    BY <1>2 DEF UndoWhole
  <2> QED BY <1>1, <2>1, FollowsSettled DEF Nothing
<1>3. CASE LastMark(c, b, from) # 0
  <2>1. PICK last : last = LastMark(c, b, from)
    OBVIOUS
  <2>2. /\ last \in 1 .. Len(names[c]) /\ last <= from /\ names[c][last] = StartOf(b)
    BY <1>3, <2>1, LastMarkFacts
  <2>3. cursor'[c] = last - 1 /\ request'[c] = UndoRedo("undo", StartOf(b))
    BY <1>3, <2>1 DEF UndoWhole, Ask, TypeOK
  <2>4. PICK k : k = cursor[c]
    OBVIOUS
  <2>5. k \in Nat /\ k <= Len(names[c]) /\ Len(names[c]) \in Nat
    BY <2>4, HereTypes
  <2>6. cursor'[c] + 1 = last /\ k \in cursor'[c] + 1 .. Len(names'[c])
    BY <2>2, <2>3, <2>4, <2>5
  <2>7. /\ request'[c].func = "undo" /\ request'[c].name = StartOf(b)
        /\ StartOf(b).kind = "start"
    BY <2>3 DEF UndoRedo, StartOf
  <2>8. Told(names'[c], k, asJournal') /\ names'[c][cursor'[c] + 1] = request'[c].name
    BY <2>2, <2>4, <2>6, <2>7
  <2> QED BY <1>1, <2>6, <2>7, <2>8, FollowsUndo DEF Shared
<1> QED BY <1>2, <1>3

LEMMA RedoWholeSmooth ==
    ASSUME TypeOK, TypeOK', NEW c \in CSWorker, Story(c), Settled(c), chan[c] = <<>>,
           Told(names[c], cursor[c], asJournal),
           NEW b \in Nat, NEW from \in Int, RedoWhole(c, b, from),
           UNCHANGED <<names, asJournal, chan>>
    PROVE  AsFollows(c)'
<1>1. chan'[c] = <<>> /\ request[c] = Nothing
  BY SettledFacts
<1>2. CASE FirstMark(c, b, from) = 0
  <2>1. cursor' = cursor /\ request' = request
    BY <1>2 DEF RedoWhole
  <2> QED BY <1>1, <2>1, FollowsSettled DEF Nothing
<1>3. CASE FirstMark(c, b, from) # 0
  <2>1. request'[c] = UndoRedo("redo", EndOf(b))
    BY <1>3 DEF RedoWhole, Ask, TypeOK
  <2>2. request'[c].func = "redo" /\ request'[c].name.kind = "end"
    BY <2>1 DEF UndoRedo, EndOf
  <2> QED BY <1>1, <2>2, FollowsRedo
<1> QED BY <1>2, <1>3

\* The cursor goes back or on by one operation.
LEMMA UndoSmooth ==
    ASSUME TypeOK, TypeOK', NEW c \in CSWorker, Story(c), chan[c] = <<>>, Undo(c),
           CsShape(csContent[c], csJournal[c]), Told(names[c], cursor[c], asJournal)
    PROVE  CsShape(csContent'[c], csJournal'[c]) /\ AsFollows(c)'
<1>1. /\ Settled(c) /\ cursor[c] > 0 /\ UNCHANGED <<asJournal, names, chan>>
  BY DEF Undo, Asked, asw
<1>2. chan'[c] = <<>> /\ request[c] = Nothing
  BY <1>1, SettledFacts
<1>3. PICK list \in Seq(Name), k \in Nat, name \in Name :
         list = names[c] /\ k = cursor[c] /\ name = list[k]
  <2>1. cursor[c] \in 1 .. Len(names[c])
    BY <1>1, HereTypes
  <2> QED BY <2>1, HereTypes
<1>4. k \in 1 .. Len(list) /\ k - 1 + 1 = k /\ k - 1 \in Nat /\ asJournal \in Journals(Entry)
  <2>1. asJournal \in Journals(Entry)
    BY JournalsAre DEF TypeOK
  <2>2. k <= Len(list) /\ Len(list) \in Nat
    BY <1>3, HereTypes
  <2> QED BY <1>1, <1>3, <2>1, <2>2
<1>5. CASE name.kind = "cs"
  <2>1. cursor'[c] = k - 1 /\ UndoHere(c, name) /\ request' = request
    BY <1>3, <1>5 DEF Undo, TypeOK
  <2>2. Told(list, k - 1, asJournal)
    BY <1>3, <1>4, <1>5, ToldBack DEF Shared
  <2>3. Told(names'[c], cursor'[c], asJournal')
    BY <1>1, <1>3, <2>1, <2>2
  <2>4. AsFollows(c)'
    BY <1>2, <2>1, <2>3, FollowsSettled DEF Nothing
  <2> QED BY <2>1, <2>4, UndoHereSmooth
<1>6. CASE name.kind = "as"
  <2>1. /\ cursor'[c] = k - 1 /\ request'[c] = UndoRedo("undo", name)
        /\ UNCHANGED <<csJournal, csContent>>
    BY <1>3, <1>6 DEF Undo, Ask, TypeOK
  <2>2. request'[c].func = "undo" /\ request'[c].name = name
    BY <2>1 DEF UndoRedo
  <2>3. k \in cursor'[c] + 1 .. Len(names'[c]) /\ k = cursor'[c] + 1
    BY <1>1, <1>3, <1>4, <2>1
  <2>4. Told(names'[c], k, asJournal') /\ names'[c][cursor'[c] + 1] = request'[c].name
    BY <1>1, <1>3, <2>2, <2>3
  <2> QED BY <1>2, <1>6, <2>1, <2>2, <2>3, <2>4, FollowsUndo DEF Shared
<1>7. CASE name.kind \in {"start", "end"}
  <2>1. PICK b \in Nat, from \in Int : b = name.n /\ from = cursor[c] - 1
    BY <1>3, <1>4 DEF Name
  <2>2. UndoWhole(c, b, from) /\ UNCHANGED <<csJournal, csContent>>
    BY <1>3, <1>7, <2>1 DEF Undo
  <2>3. Marks(names[c][cursor[c]], b)
    BY <1>3, <1>4, <1>7, <2>1, MarkNames DEF Marks
  <2>4. LastMark(c, b, from) # 0 => names[c][LastMark(c, b, from)] = StartOf(b)
    BY <1>1, <2>1, <2>3, BackToStart
  <2>5. from <= cursor[c]
    BY <1>3, <2>1
  <2>6. AsFollows(c)'
    BY <1>1, <2>2, <2>4, <2>5, UndoWholeSmooth
  <2> QED BY <2>2, <2>6
<1> QED BY <1>4, <1>5, <1>6, <1>7 DEF Name

LEMMA RedoSmooth ==
    ASSUME TypeOK, TypeOK', NEW c \in CSWorker, Story(c), chan[c] = <<>>, Redo(c),
           CsShape(csContent[c], csJournal[c]), Told(names[c], cursor[c], asJournal)
    PROVE  CsShape(csContent'[c], csJournal'[c]) /\ AsFollows(c)'
<1>1. /\ Settled(c) /\ cursor[c] < Len(names[c]) /\ UNCHANGED <<asJournal, names, chan>>
  BY DEF Redo, Asked, asw
<1>2. chan'[c] = <<>> /\ request[c] = Nothing
  BY <1>1, SettledFacts
<1>3. PICK list \in Seq(Name), k \in Nat, name \in Name :
         list = names[c] /\ k = cursor[c] /\ name = list[k + 1]
  <2>1. cursor[c] + 1 \in 1 .. Len(names[c])
    BY <1>1, HereTypes
  <2> QED BY <2>1, HereTypes
<1>4. /\ k \in 0 .. Len(list) - 1 /\ k + 1 > 0 /\ (k + 1) - 1 = k
      /\ asJournal \in Journals(Entry)
  <2>1. asJournal \in Journals(Entry)
    BY JournalsAre DEF TypeOK
  <2>2. k < Len(list) /\ Len(list) \in Nat
    BY <1>1, <1>3, HereTypes
  <2> QED BY <1>3, <2>1, <2>2
<1>5. CASE name.kind = "cs"
  <2>1. cursor'[c] = k + 1 /\ RedoHere(c, name) /\ request' = request
    BY <1>3, <1>5 DEF Redo, TypeOK
  <2>2. Told(list, k + 1, asJournal)
    BY <1>3, <1>4, <1>5, ToldOn DEF Shared
  <2>3. Told(names'[c], cursor'[c], asJournal')
    BY <1>1, <1>3, <2>1, <2>2
  <2>4. AsFollows(c)'
    BY <1>2, <2>1, <2>3, FollowsSettled DEF Nothing
  <2> QED BY <2>1, <2>4, RedoHereSmooth
<1>6. CASE name.kind = "as"
  <2>1. /\ cursor'[c] = k + 1 /\ request'[c] = UndoRedo("redo", name)
        /\ UNCHANGED <<csJournal, csContent>>
    BY <1>3, <1>6 DEF Redo, Ask, TypeOK
  <2>2. request'[c].func = "redo" /\ request'[c].name = name
    BY <2>1 DEF UndoRedo
  <2>3. cursor'[c] > 0 /\ cursor'[c] - 1 = k
    BY <1>4, <2>1
  <2>4. Told(names'[c], cursor'[c] - 1, asJournal') /\ names'[c][cursor'[c]] = request'[c].name
    BY <1>1, <1>3, <2>1, <2>2, <2>3
  <2> QED BY <1>2, <1>6, <2>1, <2>2, <2>3, <2>4, FollowsRedo
<1>7. CASE name.kind \in {"start", "end"}
  <2>1. PICK b \in Nat, from \in Int : b = name.n /\ from = cursor[c] + 2
    BY SMTT(30), <1>3, <1>4 DEF Name
  <2>2. RedoWhole(c, b, from) /\ UNCHANGED <<csJournal, csContent>>
    BY <1>3, <1>7, <2>1 DEF Redo
  <2>3. AsFollows(c)'
    BY <1>1, <2>2, RedoWholeSmooth
  <2> QED BY <2>2, <2>3
<1> QED BY <1>4, <1>5, <1>6, <1>7 DEF Name

\* What is asked for leaves the story as it is, unless it moves in the history.
LEMMA FollowsStill ==
    ASSUME NEW c \in CSWorker, AsFollows(c), request[c].func \notin {"undo", "redo"},
           request'[c].func \notin {"undo", "redo"},
           UNCHANGED <<names, cursor, chan, asJournal>>
    PROVE  AsFollows(c)'
<1>1. Ahead(c)' = Ahead(c) /\ CursorAhead(c)' = CursorAhead(c)
  BY DEF Ahead, CursorAhead
<1> QED BY <1>1 DEF AsFollows

\* A client asks for something.
LEMMA ClientSmooth ==
    ASSUME TypeOK, TypeOK', NEW c \in CSWorker, Story(c), AllGiven(c), SmoothStory(c), Patient, Client(c)
    PROVE  SmoothStory(c)'
<1>1. Settled(c) /\ chan[c] = <<>> /\ UNCHANGED <<asJournal, asContent, chan>>
  BY DEF Client, AskForEdit, LocalEdit, Undo, Redo, StartBatch, Asked, asw
<1>2. request[c] = Nothing /\ request[c].func = "none"
  BY <1>1 DEF Settled, Nothing
<1>3. SUFFICES CsShape(csContent'[c], csJournal'[c]) /\ AsFollows(c)'
  BY <1>1 DEF SmoothStory, ComesSmooth
<1>4. /\ CsShape(csContent[c], csJournal[c]) /\ AsShape(asContent, asJournal) /\ AsFollows(c)
      /\ Told(Ahead(c), CursorAhead(c), asJournal)
  BY <1>1, <1>2, FollowsNow DEF SmoothStory
<1>5. Told(names[c], cursor[c], asJournal)
  BY <1>1, <1>4, AheadTypes
<1>6. CASE AskForEdit(c) \/ StartBatch(c)
  <2>1. /\ UNCHANGED <<names, cursor, csContent, csJournal>>
        /\ request'[c] = Edit \/ request'[c] = Mark(StartOf(ops + 1))
    BY <1>6 DEF AskForEdit, StartBatch, Ask, model, history, TypeOK
  <2>2. request'[c].func \notin {"undo", "redo"}
    BY <2>1 DEF Edit, Mark
  <2>3. AsFollows(c)'
    BY <1>1, <1>2, <1>4, <2>1, <2>2, FollowsStill
  <2> QED BY <1>4, <2>1, <2>3
<1>7. CASE LocalEdit(c)
  <2>1. EditHere(c) /\ request' = request
    BY <1>7 DEF LocalEdit
  <2>2. CsShape(csContent'[c], csJournal'[c]) /\ Told(Ahead(c)', CursorAhead(c)', asJournal)
    BY <1>1, <1>4, <2>1, EditHereSmooth
  <2>3. AsFollows(c)'
    BY <1>1, <1>2, <2>1, <2>2, FollowsComing
  <2> QED BY <2>2, <2>3
<1>8. CASE Undo(c)
  BY <1>1, <1>4, <1>5, <1>8, UndoSmooth
<1>9. CASE Redo(c)
  BY <1>1, <1>4, <1>5, <1>9, RedoSmooth
<1> QED BY <1>6, <1>7, <1>8, <1>9 DEF Client

\* A batchEdit goes on.
LEMMA BatchSmooth ==
    ASSUME TypeOK, TypeOK', NEW c \in CSWorker, Story(c), AllGiven(c), SmoothStory(c),
           batch[c].reply # "error", Batch(c)
    PROVE  SmoothStory(c)'
<1>1. /\ Settled(c) /\ batch[c] # NoBatch /\ ~Rollback(c) /\ UNCHANGED <<asContent, asJournal, chan>>
  <2>1. /\ Settled(c) /\ batch[c].reply # "none" /\ ~Rollback(c)
        /\ UNCHANGED <<asContent, asJournal, chan>>
    BY DEF Batch, NextEdit, LastEditDone, EndBatch, Rollback, GotReply, asw
  <2> QED BY <2>1 DEF NoBatch
<1>2. request[c] = Nothing /\ request[c].func = "none"
  BY <1>1 DEF Settled, Nothing
<1>3. SUFFICES CsShape(csContent'[c], csJournal'[c]) /\ AsFollows(c)'
  BY <1>1 DEF SmoothStory, ComesSmooth
<1>4. CsShape(csContent[c], csJournal[c]) /\ AsShape(asContent, asJournal) /\ AsFollows(c)
  BY DEF SmoothStory
<1>5. CASE EndBatch(c) \/ LastEditDone(c) \/ (NextEdit(c) /\ Ask(c, Edit) /\ UNCHANGED <<model, history>>)
  <2>1. /\ UNCHANGED <<csContent, csJournal, names, cursor>>
        /\ request'[c].func \notin {"undo", "redo"}
    <3>1. UNCHANGED <<csContent, csJournal, names, cursor>>
      BY <1>5 DEF EndBatch, LastEditDone, model, history
    <3>2. request'[c] \in {request[c], Edit, Mark(EndOf(batch[c].id))}
      BY <1>5 DEF EndBatch, LastEditDone, Ask, TypeOK
    <3> QED BY <1>2, <3>1, <3>2 DEF Edit, Mark
  <2> QED BY <1>1, <1>2, <1>4, <2>1, FollowsStill
<1>6. CASE NextEdit(c) /\ EditHere(c) /\ request' = request
  <2>1. \A i \in DOMAIN chan[c] : ~Moves(chan[c][i])
    <3>1. batch[c].step < BatchLen
      BY <1>6 DEF NextEdit
    <3>2. batch[c].step <= BatchLen + 1
      BY <1>1, <3>1, BatchIs DEF Story
    <3> QED BY <1>1, <3>2 DEF Story, BatchIsMarked
  <2>2. ~(chan[c] # <<>> /\ Moves(Head(chan[c])))
    BY <2>1, ChanTypes
  <2>3. Told(Ahead(c), CursorAhead(c), asJournal)
    BY <1>2, <1>4, <2>2, FollowsNow
  <2>4. CsShape(csContent'[c], csJournal'[c]) /\ Told(Ahead(c)', CursorAhead(c)', asJournal)
    BY <1>1, <1>4, <1>6, <2>3, EditHereSmooth
  <2>5. AsFollows(c)'
    BY <1>1, <1>2, <1>6, <2>2, <2>4, FollowsComing
  <2> QED BY <2>4, <2>5
<1> QED BY <1>1, <1>5, <1>6 DEF Batch, NextEdit

\* The marks of a batch are new when it begins, and as it goes on.
LEMMA ClientMarksNew ==
    ASSUME TypeOK, NEW c \in CSWorker, AllGiven(c), Client(c)
    PROVE  MarksAreNew(c)'
<1>1. CASE StartBatch(c)
  <2>1. PICK id : id = ops + 1
    OBVIOUS
  <2>2. batch'[c].id = id /\ asJournal' = asJournal
    BY <1>1, <2>1 DEF StartBatch, asw, TypeOK
  <2>3. EndOf(id) \notin Named(asJournal) /\ StartOf(id) \notin Named(asJournal)
    <3>1. ops \in Nat
      BY Constants DEF TypeOK
    <3>2. ~Given(c, EndOf(id)) /\ ~Given(c, StartOf(id))
      BY <2>1, <3>1 DEF Given, EndOf, StartOf
    <3> QED BY <3>2 DEF AllGiven, Around
  <2> QED BY <2>2, <2>3 DEF MarksAreNew, EndOf, StartOf
<1>2. CASE ~StartBatch(c)
  <2>1. batch'[c] = NoBatch
    BY <1>2 DEF Client, AskForEdit, LocalEdit, Undo, Redo, Asked
  <2> QED BY <2>1 DEF MarksAreNew
<1> QED BY <1>1, <1>2

LEMMA BatchMarksNew ==
    ASSUME TypeOK, NEW c \in CSWorker, Story(c), MarksAreNew(c), Batch(c)
    PROVE  MarksAreNew(c)'
<1>1. /\ Settled(c) /\ batch[c] # NoBatch /\ asJournal' = asJournal
  <2>1. Settled(c) /\ batch[c].reply # "none" /\ asJournal' = asJournal
    BY DEF Batch, NextEdit, LastEditDone, EndBatch, Rollback, GotReply, asw
  <2> QED BY <2>1 DEF NoBatch
<1>2. PICK id, step : id = batch[c].id /\ step = batch[c].step
  OBVIOUS
<1>3. step \in 0 .. BatchLen + 2 /\ BatchLen \in Nat \ {0} /\ request[c] = Nothing
  BY <1>1, <1>2, BatchIs DEF Story, Settled
<1>4. ASSUME NEW k, NEW answer, ToStep(c, k, answer)
      PROVE  batch'[c].id = id /\ batch'[c].step = k
  <2>1. batch[c] \in [id : 0 .. MaxOps, step : 0 .. BatchLen + 2, reply : {"none", "ok", "error"}]
    BY DEF TypeOK
  <2>2. batch'[c] = [batch[c] EXCEPT !.step = k, !.reply = answer]
    BY <1>4 DEF ToStep, TypeOK
  <2> QED BY <1>2, <2>1, <2>2
<1>5. step <= BatchLen => EndOf(id) \notin Named(asJournal')
  BY <1>1, <1>2 DEF MarksAreNew
<1>6. CASE NextEdit(c)
  <2>1. step < BatchLen /\ \E answer : ToStep(c, step + 1, answer)
    BY <1>2, <1>6 DEF NextEdit
  <2>2. batch'[c].id = id /\ step <= BatchLen /\ batch'[c].step # 0
    BY <1>3, <1>4, <2>1
  <2> QED BY <1>5, <2>2 DEF MarksAreNew, EndOf
<1>7. CASE LastEditDone(c)
  <2>1. step = BatchLen /\ ToStep(c, BatchLen + 1, "none")
    BY <1>2, <1>7 DEF LastEditDone
  <2>2. batch'[c].id = id /\ step <= BatchLen /\ batch'[c].step # 0
    BY <1>3, <1>4, <2>1
  <2> QED BY <1>5, <2>2 DEF MarksAreNew, EndOf
<1>8. CASE EndBatch(c)
  <2>1. batch'[c] = NoBatch
    BY <1>8 DEF EndBatch, TypeOK
  <2> QED BY <2>1 DEF MarksAreNew
<1>9. CASE Rollback(c)
  <2>1. /\ \E answer : ToStep(c, BatchLen + 2, answer)
        /\ \/ request' = request
           \/ UndoWhole(c, id, cursor[c])
    BY <1>2, <1>9 DEF Rollback
  <2>2. request'[c] = Nothing \/ request'[c] = UndoRedo("undo", StartOf(id))
    BY <1>3, <2>1 DEF UndoWhole, Ask, TypeOK
  <2>3. batch'[c].step = BatchLen + 2 /\ request'[c].func # "mark"
    BY <1>4, <2>1, <2>2 DEF Nothing, UndoRedo
  <2>4. ~(BatchLen + 2 <= BatchLen)
    BY <1>3
  <2> QED BY <2>3, <2>4 DEF MarksAreNew
<1> QED BY <1>6, <1>7, <1>8, <1>9 DEF Batch

\* A smooth run refuses no edit, and so rolls nothing back.
LEMMA SmoothHistory ==
    ASSUME TypeOK, NEW c \in CSWorker, Serve(c) \/ Apply(c) \/ Client(c) \/ Batch(c), smooth',
           smooth => "rollback" \notin early /\ batch[c].reply # "error"
    PROVE  smooth /\ "rollback" \notin early' /\ batch'[c].reply # "error"
<1>1. ASSUME NEW k, NEW answer, ToStep(c, k, answer) PROVE batch'[c].reply = answer
  <2>1. batch[c] \in [id : 0 .. MaxOps, step : 0 .. BatchLen + 2, reply : {"none", "ok", "error"}]
    BY DEF TypeOK
  <2>2. batch'[c] = [batch[c] EXCEPT !.step = k, !.reply = answer]
    BY <1>1 DEF ToStep, TypeOK
  <2> QED BY <2>1, <2>2
<1>2. CASE Serve(c)
  <2>1. /\ smooth /\ early' = early /\ Respond(c, "ok")
    BY <1>2 DEF Serve, EditSucceeds, EditChangesNothing, EditRefused, SetMark, AswUndo, AswRedo
  <2>2. batch'[c].reply # "error"
    <3>1. batch[c] \in [id : 0 .. MaxOps, step : 0 .. BatchLen + 2, reply : {"none", "ok", "error"}]
      BY DEF TypeOK
    <3>2. batch' = batch \/ batch'[c] = [batch[c] EXCEPT !.reply = "ok"]
      BY <2>1 DEF Respond, TypeOK
    <3>3. batch'[c] = batch[c] \/ batch'[c].reply = "ok"
      BY <3>1, <3>2
    <3> QED BY <2>1, <3>3
  <2> QED BY <2>1, <2>2
<1>3. CASE Apply(c)
  <2>1. UNCHANGED <<batch, smooth, early>>
    BY <1>3 DEF Apply, ApplyDo, ApplyMark, ApplyUndo, ApplyRedo, Arrived
  <2> QED BY <2>1
<1>4. CASE Client(c)
  <2>1. UNCHANGED <<smooth, early>>
    BY <1>4 DEF Client, AskForEdit, LocalEdit, Undo, Redo, StartBatch
  <2>2. CASE StartBatch(c)
    BY <2>1, <2>2 DEF StartBatch, TypeOK
  <2>3. CASE ~StartBatch(c)
    <3>1. batch' = batch
      BY <1>4, <2>3 DEF Client, AskForEdit, LocalEdit, Undo, Redo
    <3> QED BY <2>1, <3>1
  <2> QED BY <2>2, <2>3
<1>5. CASE Batch(c)
  <2>1. smooth' = smooth
    BY <1>5 DEF Batch, NextEdit, LastEditDone, EndBatch, Rollback, GotReply
  <2>2. ~Rollback(c)
    BY <2>1 DEF Rollback, GotReply
  <2>3. CASE EndBatch(c)
    <3>1. early' = early /\ batch'[c] = NoBatch
      BY <2>3 DEF EndBatch, TypeOK
    <3> QED BY <2>1, <3>1 DEF NoBatch
  <2>4. CASE NextEdit(c) \/ LastEditDone(c)
    <3>1. /\ early' \subseteq early \cup {"edit"}
          /\ \E k, answer : ToStep(c, k, answer) /\ answer \in {"none", "ok"}
      BY <2>4 DEF NextEdit, LastEditDone, Hastened
    <3>2. batch'[c].reply # "error"
      BY <1>1, <3>1
    <3> QED BY <2>1, <3>1, <3>2
  <2> QED BY <1>5, <2>2, <2>3, <2>4 DEF Batch
<1> QED BY <1>2, <1>3, <1>4, <1>5

-----------------------------------------------------------------------------
(* The workers of a smooth run agree.                                      *)

\* Every journal is what the list of names says, and will be.
SInv ==
    /\ AInv
    /\ "rollback" \notin early => \A c \in CSWorker : MarksAreNew(c)
    /\ smooth => "rollback" \notin early /\ \A c \in CSWorker : batch[c].reply # "error" /\ SmoothStory(c)

LEMMA SmoothStep ==
    ASSUME Patient, \A c, d \in CSWorker : c = d, SInv, [Next]_vars
    PROVE  SInv'
<1>1. AInv /\ AInv' /\ early \subseteq early'
  BY AtomicStep, EarlyGrows DEF SInv
<1>2. CASE UNCHANGED vars
  <2>1. /\ UNCHANGED <<asJournal, asContent, csJournal, csContent, names, cursor>>
        /\ UNCHANGED <<chan, request, batch, smooth, early>>
    BY <1>2 DEF vars, asw, model, history
  <2>2. ASSUME NEW c \in CSWorker
        PROVE  /\ MarksAreNew(c) => MarksAreNew(c)'
               /\ SmoothStory(c) => SmoothStory(c)'
    <3>1. Named(asJournal)' = Named(asJournal)
      BY <2>1 DEF Named
    <3>2. MarksAreNew(c) => MarksAreNew(c)'
      BY <2>1, <3>1 DEF MarksAreNew, NoBatch, StartOf, EndOf
    <3>3. Ahead(c)' = Ahead(c) /\ CursorAhead(c)' = CursorAhead(c)
      BY <2>1 DEF Ahead, CursorAhead
    <3>4. AsFollows(c) => AsFollows(c)'
      BY <2>1, <3>3 DEF AsFollows
    <3>5. ComesSmooth(c) => ComesSmooth(c)'
      BY <2>1 DEF ComesSmooth
    <3> QED BY <2>1, <3>2, <3>4, <3>5 DEF SmoothStory
  <2> QED BY <1>1, <2>1, <2>2 DEF SInv
<1>3. ASSUME NEW c \in CSWorker, Serve(c) \/ Apply(c) \/ Client(c) \/ Batch(c) PROVE SInv'
  <2>1. TypeOK /\ TypeOK' /\ \A d \in CSWorker : d = c
    BY <1>1 DEF AInv, IInv
  <2>2. ASSUME "rollback" \notin early PROVE Story(c) /\ AllGiven(c) /\ MarksAreNew(c)
    BY <1>1, <2>2 DEF SInv, AInv, IInv
  <2>3. ASSUME "rollback" \notin early' PROVE MarksAreNew(c)'
    <3>1. Story(c) /\ AllGiven(c) /\ MarksAreNew(c)
      BY <1>1, <2>2, <2>3
    <3>2. CASE Apply(c)
      <4>1. UNCHANGED <<asJournal, batch, request>>
        BY <3>2 DEF Apply, ApplyDo, ApplyMark, ApplyUndo, ApplyRedo, Arrived, asw
      <4>2. Named(asJournal)' = Named(asJournal)
        BY <4>1 DEF Named
      <4> QED BY <3>1, <4>1, <4>2 DEF MarksAreNew, NoBatch, StartOf, EndOf
    <3> QED BY <1>3, <2>1, <3>1, <3>2, ServeMarksNew, ClientMarksNew, BatchMarksNew
  <2>4. ASSUME smooth'
        PROVE  "rollback" \notin early' /\ batch'[c].reply # "error" /\ SmoothStory(c)'
    <3>1. smooth /\ "rollback" \notin early' /\ batch'[c].reply # "error"
      <4>1. smooth => "rollback" \notin early /\ batch[c].reply # "error"
        BY DEF SInv
      <4> QED BY <1>3, <2>1, <2>4, <4>1, SmoothHistory
    <3>2. batch[c].reply # "error" /\ SmoothStory(c) /\ Story(c) /\ AllGiven(c) /\ MarksAreNew(c)
      BY <2>2, <3>1 DEF SInv
    <3>3. SmoothStory(c)'
      BY <1>3, <2>1, <2>4, <3>2, ServeSmooth, ApplySmooth, ClientSmooth, BatchSmooth
    <3> QED BY <3>1, <3>3
  <2> QED BY <1>1, <2>1, <2>3, <2>4 DEF SInv
<1> QED BY <1>2, <1>3 DEF Next

LEMMA SmoothInit == Init => SInv
<1> SUFFICES ASSUME Init PROVE SInv
  OBVIOUS
<1>1. AInv
  BY AtomicInit
<1>2. ASSUME NEW c \in CSWorker PROVE MarksAreNew(c) /\ batch[c].reply # "error" /\ SmoothStory(c)
  <2>1. /\ chan[c] = <<>> /\ request[c] = Nothing /\ batch[c] = NoBatch
        /\ csContent[c] = {} /\ asContent = {} /\ names[c] = <<>> /\ cursor[c] = 0
        /\ csJournal[c] = EmptyJournal /\ asJournal = EmptyJournal
    BY DEF Init
  <2>2. PICK j : j = EmptyJournal
    OBVIOUS
  <2>3. j.log = <<>> /\ j.index = 0 /\ Len(j.log) = 0 /\ DOMAIN j.log = {}
    BY <2>2 DEF EmptyJournal
  <2>4. Reads({}, j)
    <3>1. OpsSince(j, 1) = {}
      BY <2>3 DEF OpsSince
    <3> QED BY <2>3, <3>1 DEF Reads
  <2>5. CsShape({}, j) /\ AsShape({}, j)
    BY <2>3, <2>4 DEF CsShape, AsShape
  <2>6. Told(<<>>, 0, j)
    BY <2>3 DEF Told, TellsAll, TellsInOrder, TellsUpTo, OthersUndone, NextIsStep
  <2>7. Ahead(c) = <<>> /\ CursorAhead(c) = 0 /\ DOMAIN chan[c] = {}
    BY <2>1 DEF Ahead, CursorAhead, WithComing
  <2>8. AsFollows(c)
    BY <2>1, <2>2, <2>6, <2>7 DEF AsFollows, Nothing
  <2>9. ComesSmooth(c)
    BY <2>7 DEF ComesSmooth
  <2> QED BY <2>1, <2>2, <2>5, <2>8, <2>9 DEF SmoothStory, MarksAreNew, NoBatch
<1> QED BY <1>1, <1>2 DEF Init, SInv

\* What a csworker has done of the asworker's operations, by its list of names.
LEMMA CsOperations ==
    ASSUME NEW content, NEW j \in Journals(Entry), CsShape(content, j),
           NEW list \in Seq(Name), NEW k \in Nat, Marked(list, k, j), NEW n, n.kind = "as"
    PROVE  n \in content <=> \E x \in DOMAIN list : list[x] = n /\ x <= k
<1>1. /\ j.index \in Nat /\ Len(j.log) \in Nat /\ j.index <= Len(j.log)
      /\ DOMAIN j.log = 1 .. Len(j.log)
  BY JournalTypes
<1>2. n \in content <=> \E m \in 1 .. j.index : IsOp(j.log[m]) /\ j.log[m].name = n
  BY OpsSinceIs DEF CsShape, Reads
<1>3. ASSUME NEW m \in 1 .. j.index, IsOp(j.log[m]), j.log[m].name = n
      PROVE  \E x \in DOMAIN list : list[x] = n /\ x <= k
  <2>1. m \in DOMAIN j.log
    BY <1>1
  <2>2. m > 1 /\ IsStepCheckpoint(j.log[m - 1])
    BY <1>3, <2>1 DEF CsShape, OwnedAt
  <2>3. PICK s \in DOMAIN j.log : s = m - 1 /\ s + 1 = m
    BY <1>1, <2>2
  <2>4. s > 1 /\ IsNamed(j.log[s - 1], n)
    BY <1>3, <2>2, <2>3 DEF CsShape, OwnedAt
  <2>5. PICK i \in DOMAIN j.log : i = s - 1 /\ i <= j.index
    BY <1>1, <2>3, <2>4
  <2>6. i \in UserCheckpoints(j) /\ j.log[i].name = n
    BY <2>4, <2>5 DEF UserCheckpoints, IsNamed
  <2> QED BY <2>5, <2>6 DEF Marked
<1>4. ASSUME NEW x \in DOMAIN list, list[x] = n, x <= k
      PROVE  \E m \in 1 .. j.index : IsOp(j.log[m]) /\ j.log[m].name = n
  <2>1. PICK i \in UserCheckpoints(j) : j.log[i].name = n /\ i <= j.index
    BY <1>4 DEF Marked
  <2>2. i \in DOMAIN j.log /\ i \in Nat /\ IsUserCheckpoint(j.log[i])
    BY <1>1, <2>1 DEF UserCheckpoints
  <2>3. i + 1 \in DOMAIN j.log /\ IsStepCheckpoint(j.log[i + 1])
    BY <2>1, <2>2 DEF CsShape, OwnedAt
  <2>4. PICK s \in DOMAIN j.log : s = i + 1 /\ s - 1 = i
    BY <1>1, <2>2, <2>3
  <2>5. s + 1 \in DOMAIN j.log /\ IsOp(j.log[s + 1]) /\ IsNamed(j.log[i], j.log[s + 1].name)
    BY <2>3, <2>4 DEF CsShape, OwnedAt
  <2>6. PICK m \in DOMAIN j.log : m = s + 1
    BY <2>5
  <2>7. IsOp(j.log[m]) /\ j.log[m].name = n
    BY <2>1, <2>5, <2>6 DEF IsNamed
  <2>8. j.index # i /\ j.index # s
    <3>1. ~IsUserCheckpoint(j.log[s]) /\ ~IsUserCheckpoint(j.log[m])
      BY <2>3, <2>4, <2>7 DEF IsUserCheckpoint, IsStepCheckpoint, IsOp
    <3>2. j.index < Len(j.log) => IsUserCheckpoint(j.log[j.index + 1])
      BY DEF CsShape
    <3> QED BY <1>1, <2>4, <2>6, <3>1, <3>2
  <2>9. m \in 1 .. j.index
    BY <1>1, <2>1, <2>2, <2>4, <2>6, <2>8
  <2> QED BY <2>7, <2>9
<1> QED BY <1>2, <1>3, <1>4

\* What the asworker has done, by the list of names it has told.
LEMMA AsOperations ==
    ASSUME NEW content, NEW j \in Journals(Entry), AsShape(content, j),
           NEW list \in Seq(Name), NEW k \in Nat, Told(list, k, j), NEW n
    PROVE  n \in content <=> n.kind = "as" /\ \E x \in DOMAIN list : list[x] = n /\ x <= k
<1>1. /\ j.index \in Nat /\ Len(j.log) \in Nat /\ j.index <= Len(j.log)
      /\ DOMAIN j.log = 1 .. Len(j.log) /\ \A i \in DOMAIN j.log : j.log[i] \in Entry
  BY JournalTypes
<1>2. n \in content <=> \E m \in 1 .. j.index : IsOp(j.log[m]) /\ j.log[m].name = n
  BY OpsSinceIs DEF AsShape, Reads
<1>3. ASSUME NEW m \in 1 .. j.index, IsOp(j.log[m]), j.log[m].name = n
      PROVE  n.kind = "as" /\ \E x \in DOMAIN list : list[x] = n /\ x <= k
  <2>1. m \in DOMAIN j.log /\ m <= j.index /\ ~(j.index < m)
    BY <1>1
  <2>2. IsStepCheckpoint(j.log[m - 1]) /\ n.kind = "as"
    BY <1>3, <2>1 DEF AsShape, SteppedAt
  <2>3. PICK x \in DOMAIN list : list[x] = n
    BY <1>3, <2>1 DEF Told, OthersUndone
  <2>4. Shared(list[x]) /\ Says(j.log[m], list[x])
    BY <1>3, <2>2, <2>3 DEF Shared, Says, IsOp, IsStepCheckpoint
  <2>5. x <= k
    BY <1>3, <2>1, <2>4 DEF Told, TellsUpTo
  <2> QED BY <2>2, <2>3, <2>5
<1>4. ASSUME n.kind = "as", NEW x \in DOMAIN list, list[x] = n, x <= k
      PROVE  \E m \in 1 .. j.index : IsOp(j.log[m]) /\ j.log[m].name = n
  <2>1. Shared(list[x])
    BY <1>4 DEF Shared
  <2>2. PICK i \in DOMAIN j.log : Says(j.log[i], list[x])
    BY <2>1 DEF Told, TellsAll
  <2>3. i <= j.index
    BY <1>4, <2>1, <2>2 DEF Told, TellsUpTo
  <2>4. IsOp(j.log[i])
    <3>1. SteppedAt(j.log, i) /\ j.log[i] \in Entry
      BY <1>1 DEF AsShape
    <3>2. ~IsStepCheckpoint(j.log[i]) /\ j.log[i].name = n
      BY <1>4, <2>2 DEF Says
    <3>3. IsOp(j.log[i]) \/ IsUserCheckpoint(j.log[i])
      BY <3>1, <3>2 DEF Entry, MKSTPCHKPT, IsOp, IsUserCheckpoint, IsStepCheckpoint
    <3> QED BY <1>4, <3>1, <3>2, <3>3 DEF SteppedAt
  <2> QED BY <1>1, <1>4, <2>2, <2>3, <2>4 DEF Says
<1> QED BY <1>2, <1>3, <1>4

\* The asworker and its only csworker have the same operations in effect whenever the
\* csworker is at rest, whatever was done, undone and redone, in batches or not, and however
\* late changelogs are applied while a batchEdit goes on, as long as no edit was refused or
\* without effect and no batch redone, provided the clients wait for their changelogs
\* (POST /undo and /redo of src/asworker.js and src/csworker.js).
THEOREM SmoothWorkersAgree ==
    ASSUME Patient, \A c, d \in CSWorker : c = d
    PROVE  Spec => []AgreeWhileSmooth
<1>1. Init => SInv
  BY SmoothInit
<1>2. SInv /\ [Next]_vars => SInv'
  BY SmoothStep
<1>3. SInv => AgreeWhileSmooth
  <2>1. SUFFICES ASSUME SInv, smooth, NEW c \in CSWorker, AtRest(c)
                 PROVE  { n \in csContent[c] : n.kind = "as" } = asContent
    BY DEF AgreeWhileSmooth, WorkersAgree, Agree
  <2>2. TypeOK /\ Story(c) /\ SmoothStory(c)
    BY <2>1 DEF SInv, AInv, IInv
  <2>3. chan[c] = <<>> /\ request[c] = Nothing /\ News(c) = Nothing
    BY <2>1 DEF AtRest, News
  <2>4. PICK list \in Seq(Name), k \in Nat : list = names[c] /\ k = cursor[c]
    BY <2>2, HereTypes
  <2>5. csJournal[c] \in Journals(Entry) /\ asJournal \in Journals(Entry)
    BY <2>2, HereTypes, JournalsAre DEF TypeOK
  <2>6. /\ CsShape(csContent[c], csJournal[c]) /\ AsShape(asContent, asJournal)
        /\ Told(list, k, asJournal)
    <3>1. Told(Ahead(c), CursorAhead(c), asJournal)
      BY <2>2, <2>3, FollowsNow DEF SmoothStory, Nothing
    <3>2. Ahead(c) = list /\ CursorAhead(c) = k
      BY <2>2, <2>3, <2>4, AheadTypes
    <3> QED BY <2>2, <3>1, <3>2 DEF SmoothStory
  <2>7. Marked(list, k, csJournal[c])
    BY <2>2, <2>3, <2>4 DEF Story, JournalFollows, Moves, Nothing
  <2>8. ASSUME NEW n PROVE n \in csContent[c] /\ n.kind = "as" <=> n \in asContent
    <3>1. n.kind = "as" => (n \in csContent[c] <=> \E x \in DOMAIN list : list[x] = n /\ x <= k)
      BY <2>5, <2>6, <2>7, CsOperations
    <3>2. n \in asContent <=> n.kind = "as" /\ \E x \in DOMAIN list : list[x] = n /\ x <= k
      BY <2>5, <2>6, AsOperations
    <3> QED BY <3>1, <3>2
  <2> QED BY <2>8
<1> QED BY <1>1, <1>2, <1>3, PTL DEF Spec
=============================================================================
