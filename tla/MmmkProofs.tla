----------------------------- MODULE MmmkProofs -----------------------------
(***************************************************************************)
(* Proofs about the modelling kernel, for any number of ids, metamodels,   *)
(* values and operations.  First lemmas about the entries of its journal   *)
(* (each cud function and its inverse) and about sequences of them: the    *)
(* journal explains the model.  Then programs, the invariant, its steps.   *)
(***************************************************************************)
EXTENDS Mmmk, Integers, SequenceTheorems, FiniteSetTheorems, WellFoundedInduction, TLAPS

-----------------------------------------------------------------------------
(* The journal: what logging, clearing and restoring a checkpoint do to    *)
(* each position of a log.                                                 *)

\* Induction over the natural numbers, for a set of them.
LEMMA NatSetInduction ==
    ASSUME NEW S, 0 \in S, \A n \in Nat : n \in S => n + 1 \in S
    PROVE  Nat \subseteq S
<1> DEFINE R == { ss \in Nat \X Nat : ss[1] < ss[2] }
           T == Nat \ S
<1>1. SUFFICES ASSUME T # {} PROVE FALSE
  OBVIOUS
<1>2. IsWellFoundedOn(R, Nat)
  BY NatLessThanWellFounded DEF OpToRel
<1> HIDE DEF R
<1>3. \E x \in T : \A y \in T : ~ (<<y, x>> \in R)
  <2>1. T \subseteq Nat
    OBVIOUS
  <2> HIDE DEF T
  <2> QED BY <1>1, <1>2, <2>1, WFMin
<1>4. PICK x \in T : \A y \in T : <<y, x>> \notin R
  BY <1>3
<1>5. x # 0 /\ x \in Nat
  OBVIOUS
<1>6. x - 1 \in T
  <2>1. x - 1 \in Nat /\ (x - 1) + 1 = x
    BY <1>5
  <2> QED BY <2>1
<1>7. <<x - 1, x>> \in R
  BY <1>5 DEF R
<1> QED BY <1>4, <1>6, <1>7

\* A set of naturals that is not empty has a least element.
LEMMA LowestIn ==
    ASSUME NEW S, S \subseteq Nat, S # {}, NEW d
    PROVE  Lowest(S, d) \in S /\ \A k \in S : Lowest(S, d) <= k
<1> DEFINE R == { ss \in Nat \X Nat : ss[1] < ss[2] }
<1>1. IsWellFoundedOn(R, Nat)
  BY NatLessThanWellFounded DEF OpToRel
<1>2. R = { ss \in Nat \X Nat : ss[1] < ss[2] }
  OBVIOUS
<1> HIDE DEF R
<1>3. \E x \in S : \A y \in S : ~ (<<y, x>> \in R)
  BY <1>1, WFMin
<1>4. PICK x \in S : \A y \in S : ~ (<<y, x>> \in R)
  BY <1>3
<1>5. ASSUME NEW y \in S PROVE x <= y
  <2>1. x \in Nat /\ y \in Nat /\ ~ (<<y, x>> \in R)
    BY <1>4
  <2>2. ~ (y < x)
    BY <1>2, <2>1
  <2> QED BY <2>1, <2>2
<1> QED BY <1>5 DEF Lowest

\* A bounded one has a greatest element.
LEMMA HighestIn ==
    ASSUME NEW n \in Nat, NEW S, S \subseteq 0 .. n, S # {}
    PROVE  Highest(S) \in S /\ \A k \in S : k <= Highest(S)
<1> DEFINE T == { n - k : k \in S }
<1>1. T \subseteq Nat /\ T # {}
  <2>1. ASSUME NEW k \in S PROVE n - k \in Nat
    <3>1. k \in 0 .. n
      OBVIOUS
    <3> QED BY <3>1
  <2> QED BY <2>1
<1>2. PICK x \in T : \A y \in T : x <= y
  <2>1. Lowest(T, 0) \in T /\ \A k \in T : Lowest(T, 0) <= k
    <3> HIDE DEF T
    <3> QED BY <1>1, LowestIn
  <2> QED BY <2>1
<1>3. n - x \in S /\ \A k \in S : k <= n - x
  BY <1>2
<1>4. \E i \in S : \A k \in S : k <= i
  BY <1>3
<1> QED BY <1>4 DEF Highest

-----------------------------------------------------------------------------
\* A journal with entries of E.
Journals(E) == { j \in [log : Seq(E), index : Nat] : j.index <= Len(j.log) }

LEMMA JournalTypes ==
    ASSUME NEW E, NEW j \in Journals(E)
    PROVE  /\ j = [log |-> j.log, index |-> j.index]
           /\ j.log \in Seq(E) /\ j.index \in Nat /\ Len(j.log) \in Nat /\ j.index <= Len(j.log)
           /\ DOMAIN j.log = 1 .. Len(j.log)
  BY LenProperties DEF Journals

\* Logging keeps the applied entries and adds one.
LEMMA LogFacts ==
    ASSUME NEW E, NEW j \in Journals(E), NEW e \in E
    PROVE  /\ Log(j, e) \in Journals(E)
           /\ Log(j, e).index = j.index + 1 /\ Len(Log(j, e).log) = j.index + 1
           /\ \A i \in 1 .. j.index : Log(j, e).log[i] = j.log[i]
           /\ Log(j, e).log[j.index + 1] = e
<1>1. /\ Applied(j) \in Seq(E) /\ Len(Applied(j)) = j.index
      /\ \A i \in 1 .. j.index : Applied(j)[i] = j.log[i]
  BY DEF Applied, Journals
<1>2. /\ Append(Applied(j), e) \in Seq(E) /\ Len(Append(Applied(j), e)) = j.index + 1
      /\ \A i \in 1 .. j.index : Append(Applied(j), e)[i] = j.log[i]
      /\ Append(Applied(j), e)[j.index + 1] = e
  BY <1>1, AppendProperties DEF Journals
<1> QED BY <1>2 DEF Log, Journals

\* What is between two positions of a sequence.
LEMMA Between ==
    ASSUME NEW E, NEW s \in Seq(E), NEW a \in Nat, NEW b \in Nat, a <= b, b <= Len(s)
    PROVE  /\ SubSeq(s, a + 1, b) \in Seq(E) /\ Len(SubSeq(s, a + 1, b)) = b - a
           /\ \A i \in 1 .. b - a : SubSeq(s, a + 1, b)[i] = s[a + i]
  BY SubSeqProperties

\* Removing an element of a sequence.
LEMMA RemoveAtFacts ==
    ASSUME NEW E, NEW s \in Seq(E), NEW c \in 1 .. Len(s)
    PROVE  /\ RemoveAt(s, c) \in Seq(E) /\ Len(RemoveAt(s, c)) = Len(s) - 1
           /\ \A i \in 1 .. c - 1 : RemoveAt(s, c)[i] = s[i]
           /\ \A i \in c .. Len(s) - 1 : RemoveAt(s, c)[i] = s[i + 1]
<1> DEFINE a == SubSeq(s, 1, c - 1)
           b == SubSeq(s, c + 1, Len(s))
<1>1. /\ a \in Seq(E) /\ Len(a) = c - 1
      /\ \A i \in 1 .. c - 1 : a[i] = s[i]
  OBVIOUS
<1>2. /\ b \in Seq(E) /\ Len(b) = Len(s) - c
      /\ \A i \in 1 .. Len(s) - c : b[i] = s[c + i]
  BY Between
<1> HIDE DEF a, b
<1>3. /\ a \o b \in Seq(E) /\ Len(a \o b) = Len(s) - 1
      /\ \A i \in 1 .. Len(s) - 1 : (a \o b)[i] = IF i <= c - 1 THEN a[i] ELSE b[i - (c - 1)]
  <2>1. Len(a) + Len(b) = Len(s) - 1
    BY <1>1, <1>2
  <2>2. /\ a \o b \in Seq(E) /\ Len(a \o b) = Len(a) + Len(b)
        /\ \A i \in 1 .. Len(a) + Len(b) : (a \o b)[i] = IF i <= Len(a) THEN a[i] ELSE b[i - Len(a)]
    BY <1>1, <1>2, ConcatProperties
  <2>3. a \o b \in Seq(E) /\ Len(a \o b) = Len(s) - 1
    BY <2>1, <2>2
  <2>4. ASSUME NEW i \in 1 .. Len(s) - 1
        PROVE  (a \o b)[i] = IF i <= c - 1 THEN a[i] ELSE b[i - (c - 1)]
    BY <1>1, <2>1, <2>2
  <2> QED BY <2>3, <2>4
<1>4. RemoveAt(s, c) = a \o b
  BY DEF RemoveAt, a, b
<1>5. ASSUME NEW i \in 1 .. c - 1 PROVE (a \o b)[i] = s[i]
  BY <1>1, <1>3
<1>6. ASSUME NEW i \in c .. Len(s) - 1 PROVE (a \o b)[i] = s[i + 1]
  <2>1. (a \o b)[i] = b[i - (c - 1)] /\ i - (c - 1) \in 1 .. Len(s) - c /\ c + (i - (c - 1)) = i + 1
    BY <1>3
  <2> QED BY <2>1, <1>2
<1> QED BY <1>3, <1>4, <1>5, <1>6
-----------------------------------------------------------------------------
(* Step-checkpoints.                                                       *)

\* LastStep is the last step-checkpoint that is applied, 0 if there is none.
LEMMA LastStepFacts ==
    ASSUME NEW E, NEW j \in Journals(E)
    PROVE  /\ LastStep(j) \in 0 .. j.index
           /\ LastStep(j) > 0 => IsStepCheckpoint(j.log[LastStep(j)])
           /\ \A i \in 1 .. j.index : IsStepCheckpoint(j.log[i]) => i <= LastStep(j)
<1> DEFINE S == { i \in 1 .. j.index : IsStepCheckpoint(j.log[i]) }
<1>1. j.index \in Nat /\ S \subseteq 0 .. j.index /\ LastStep(j) = Highest(S)
  BY DEF Journals, LastStep
<1>2. CASE S = {}
  <2>1. LastStep(j) = 0
    BY <1>1, <1>2 DEF Highest
  <2>2. \A i \in 1 .. j.index : ~IsStepCheckpoint(j.log[i])
    BY <1>2
  <2> QED BY <2>1, <2>2, <1>1
<1>3. CASE S # {}
  <2>1. LastStep(j) \in S /\ \A k \in S : k <= LastStep(j)
    <3> HIDE DEF S
    <3> QED BY <1>1, <1>3, HighestIn
  <2>2. \A i \in 1 .. j.index : IsStepCheckpoint(j.log[i]) => i \in S
    OBVIOUS
  <2>3. LastStep(j) \in 1 .. j.index /\ IsStepCheckpoint(j.log[LastStep(j)])
    BY <2>1
  <2> QED BY <2>1, <2>2, <2>3, <1>1
<1> QED BY <1>2, <1>3

\* and the only number that is.
LEMMA LastStepIs ==
    ASSUME NEW E, NEW j \in Journals(E), NEW t \in 0 .. j.index,
           t > 0 => IsStepCheckpoint(j.log[t]),
           \A i \in 1 .. j.index : IsStepCheckpoint(j.log[i]) => i <= t
    PROVE  LastStep(j) = t
<1>1. j.index \in Nat
  BY DEF Journals
<1>2. LastStep(j) <= t
  BY <1>1, LastStepFacts
<1>3. t <= LastStep(j)
  BY <1>1, LastStepFacts
<1> QED BY <1>1, <1>2, <1>3, LastStepFacts

\* Logging anything else leaves the last step-checkpoint where it is.
LEMMA LastStepLogged ==
    ASSUME NEW E, NEW j \in Journals(E), NEW e \in E
    PROVE  LastStep(Log(j, e)) = IF IsStepCheckpoint(e) THEN j.index + 1 ELSE LastStep(j)
<1> DEFINE k == Log(j, e)
<1>1. /\ k \in Journals(E) /\ k.index = j.index + 1 /\ j.index \in Nat
      /\ \A i \in 1 .. j.index : k.log[i] = j.log[i]
      /\ k.log[j.index + 1] = e
  BY LogFacts, JournalTypes
<1> HIDE DEF k
<1>2. CASE IsStepCheckpoint(e)
  <2>1. LastStep(k) = j.index + 1
    BY <1>1, <1>2, LastStepIs
  <2> QED BY <2>1, <1>2 DEF k
<1>3. CASE ~IsStepCheckpoint(e)
  <2> DEFINE t == LastStep(j)
  <2>1. /\ t \in 0 .. j.index
        /\ t > 0 => IsStepCheckpoint(j.log[t])
        /\ \A i \in 1 .. j.index : IsStepCheckpoint(j.log[i]) => i <= t
    BY LastStepFacts
  <2> HIDE DEF t
  <2>2. t \in 0 .. k.index /\ (t > 0 => IsStepCheckpoint(k.log[t]))
    BY <2>1, <1>1
  <2>3. \A i \in 1 .. k.index : IsStepCheckpoint(k.log[i]) => i <= t
    BY <2>1, <1>1, <1>3
  <2>4. LastStep(k) = t
    BY <2>2, <2>3, <1>1, LastStepIs
  <2> QED BY <2>4, <1>3 DEF k, t
<1> QED BY <1>2, <1>3

\* Undo goes back to before a step-checkpoint or to the beginning.
LEMMA UndoneFacts ==
    ASSUME NEW E, NEW j \in Journals(E)
    PROVE  /\ UndoneStep(j) \in Journals(E) /\ UndoneStep(j).log = j.log
           /\ UndoneStep(j).index <= j.index
           /\ UndoneStep(j).index = IF LastStep(j) = 0 THEN 0 ELSE LastStep(j) - 1
<1>1. LastStep(j) \in 0 .. j.index /\ j.index \in Nat /\ Len(j.log) \in Nat /\ j.index <= Len(j.log)
  BY LastStepFacts DEF Journals
<1> QED BY <1>1 DEF UndoneStep, Journals

\* Redo goes on to before a step-checkpoint or to the end.
LEMMA RedoneFacts ==
    ASSUME NEW E, NEW j \in Journals(E), j.index < Len(j.log)
    PROVE  /\ RedoneStep(j) \in Journals(E) /\ RedoneStep(j).log = j.log
           /\ RedoneStep(j).index > j.index
           /\ RedoneStep(j).index < Len(j.log) =>
                 IsStepCheckpoint(j.log[RedoneStep(j).index + 1])
<1> DEFINE stops == { i \in j.index + 2 .. Len(j.log) : IsStepCheckpoint(j.log[i]) }
           to == Lowest(stops, Len(j.log) + 1)
<1>1. j.index \in Nat /\ Len(j.log) \in Nat
  BY DEF Journals
<1>2. RedoneStep(j) = [j EXCEPT !.index = to - 1]
  BY <1>1 DEF RedoneStep
<1>3. /\ to \in j.index + 2 .. Len(j.log) + 1
      /\ to <= Len(j.log) => IsStepCheckpoint(j.log[to])
  <2>1. CASE stops = {}
    BY <2>1, <1>1 DEF Lowest
  <2>2. CASE stops # {}
    <3>1. stops \subseteq Nat
      BY <1>1
    <3>2. to \in stops
      <4> HIDE DEF stops
      <4> QED BY <3>1, <2>2, LowestIn
    <3> QED BY <3>2, <1>1
  <2> QED BY <2>1, <2>2
<1> HIDE DEF to
<1> QED BY <1>1, <1>2, <1>3 DEF Journals

-----------------------------------------------------------------------------
(* Checkpoints of crudOps.                                                 *)

\* The last checkpoint, when there is one.
LEMMA LastCheckpointFacts ==
    ASSUME NEW E, NEW j \in Journals(E), CrudCheckpoints(j) # {}
    PROVE  /\ LastCheckpoint(j) \in CrudCheckpoints(j) /\ LastCheckpoint(j) \in 1 .. Len(j.log)
           /\ \A d \in CrudCheckpoints(j) : d <= LastCheckpoint(j)
<1>1. Len(j.log) \in Nat /\ CrudCheckpoints(j) \subseteq 1 .. Len(j.log)
  BY DEF CrudCheckpoints, Journals
<1> QED BY <1>1, HighestIn DEF LastCheckpoint

\* Logging a checkpoint adds it; logging anything else adds none.
LEMMA CheckpointsLogged ==
    ASSUME NEW E, NEW j \in Journals(E), NEW e \in E, CrudCheckpoints(j) \subseteq 1 .. j.index
    PROVE  CrudCheckpoints(Log(j, e)) =
              CrudCheckpoints(j) \cup IF IsCheckpoint(e) THEN {j.index + 1} ELSE {}
<1> DEFINE k == Log(j, e)
<1>1. /\ k \in Journals(E) /\ k.index = j.index + 1 /\ j.index \in Nat
      /\ Len(k.log) = j.index + 1 /\ j.index <= Len(j.log) /\ Len(j.log) \in Nat
      /\ \A i \in 1 .. j.index : k.log[i] = j.log[i]
      /\ k.log[j.index + 1] = e
  BY LogFacts, JournalTypes
<1>2. DOMAIN k.log = 1 .. j.index + 1 /\ DOMAIN j.log = 1 .. Len(j.log)
  <2> HIDE DEF k
  <2> QED BY <1>1 DEF Journals
<1> HIDE DEF k
<1>3. ASSUME NEW i PROVE i \in CrudCheckpoints(k) <=>
         i \in CrudCheckpoints(j) \/ (i = j.index + 1 /\ IsCheckpoint(e))
  <2>1. /\ i \in CrudCheckpoints(k) <=> i \in 1 .. j.index + 1 /\ IsCheckpoint(k.log[i])
        /\ i \in CrudCheckpoints(j) <=> i \in 1 .. Len(j.log) /\ IsCheckpoint(j.log[i])
    BY <1>2 DEF CrudCheckpoints
  <2>2. CASE i \in 1 .. j.index
    <3>1. i \in 1 .. j.index + 1 /\ i \in 1 .. Len(j.log) /\ i # j.index + 1
      BY <1>1, <2>2
    <3>2. k.log[i] = j.log[i]
      BY <1>1, <2>2
    <3> QED BY <2>1, <3>1, <3>2
  <2>3. CASE i = j.index + 1
    <3>1. i \in 1 .. j.index + 1 /\ i \notin 1 .. j.index
      BY <1>1, <2>3
    <3>2. k.log[i] = e
      BY <1>1, <2>3
    <3> QED BY <2>1, <2>3, <3>1, <3>2
  <2>4. CASE i \notin 1 .. j.index /\ i # j.index + 1
    <3>1. i \notin 1 .. j.index + 1
      BY <1>1, <2>4
    <3> QED BY <2>1, <2>4, <3>1
  <2> QED BY <2>2, <2>3, <2>4
<1> QED BY <1>3 DEF k

\* Clearing the last checkpoint moves what follows it down by one.
LEMMA ClearFacts ==
    ASSUME NEW E, NEW j \in Journals(E), CrudCheckpoints(j) # {}, j.index = Len(j.log)
    PROVE  LET c == LastCheckpoint(j)
               k == ClearCheckpoint(j)
           IN  /\ k \in Journals(E) /\ k.index = j.index - 1 /\ Len(k.log) = k.index
               /\ \A i \in 1 .. c - 1 : k.log[i] = j.log[i]
               /\ \A i \in c .. j.index - 1 : k.log[i] = j.log[i + 1]
               /\ CrudCheckpoints(k) = CrudCheckpoints(j) \ {c}
<1> DEFINE c == LastCheckpoint(j)
           k == ClearCheckpoint(j)
<1>1. c \in CrudCheckpoints(j) /\ c \in 1 .. Len(j.log) /\ \A d \in CrudCheckpoints(j) : d <= c
  BY LastCheckpointFacts
<1> HIDE DEF c
<1>2. k = [log |-> RemoveAt(j.log, c), index |-> j.index - 1]
  BY <1>1 DEF ClearCheckpoint, c
<1>3. j.log \in Seq(E) /\ j.index \in Nat /\ Len(j.log) = j.index
  BY DEF Journals
<1> HIDE DEF k
<1>4. /\ k.log \in Seq(E) /\ k.index = j.index - 1 /\ Len(k.log) = k.index
      /\ \A i \in 1 .. c - 1 : k.log[i] = j.log[i]
      /\ \A i \in c .. j.index - 1 : k.log[i] = j.log[i + 1]
  BY <1>1, <1>2, <1>3, RemoveAtFacts
<1>5. k \in Journals(E)
  <2>1. k.index \in Nat
    BY <1>1, <1>3, <1>4
  <2> QED BY <2>1, <1>2, <1>4 DEF Journals
<1>6. DOMAIN k.log = 1 .. j.index - 1 /\ DOMAIN j.log = 1 .. j.index
  BY <1>3, <1>4, LenProperties
<1>7. ASSUME NEW i PROVE i \in CrudCheckpoints(k) <=> i \in CrudCheckpoints(j) /\ i # c
  <2>1. CASE i \in 1 .. c - 1
    <3>1. i \in 1 .. j.index - 1 /\ i \in 1 .. j.index /\ k.log[i] = j.log[i] /\ i # c
      BY <2>1, <1>1, <1>3, <1>4
    <3> QED BY <3>1, <1>6 DEF CrudCheckpoints
  <2>2. CASE i \notin 1 .. c - 1
    <3>1. i \in CrudCheckpoints(j) => i = c
      BY <2>2, <1>1, <1>3, <1>6 DEF CrudCheckpoints
    <3>2. i \notin CrudCheckpoints(k)
      <4>1. SUFFICES ASSUME i \in CrudCheckpoints(k) PROVE FALSE
        OBVIOUS
      <4>2. i \in c .. j.index - 1 /\ IsCheckpoint(k.log[i])
        BY <4>1, <2>2, <1>1, <1>3, <1>6 DEF CrudCheckpoints
      <4>3. i + 1 \in CrudCheckpoints(j)
        BY <4>2, <1>1, <1>3, <1>4, <1>6 DEF CrudCheckpoints
      <4> QED BY <4>2, <4>3, <1>1, <1>3
    <3> QED BY <3>1, <3>2
  <2> QED BY <2>1, <2>2
<1> QED BY <1>4, <1>5, <1>7 DEF k, c

\* Restoring it drops it and what follows.
LEMMA RestoreFacts ==
    ASSUME NEW E, NEW j \in Journals(E), CrudCheckpoints(j) # {}
    PROVE  LET c == LastCheckpoint(j)
               k == RestoreCheckpoint(j)
           IN  /\ k \in Journals(E) /\ k.index = c - 1 /\ Len(k.log) = c - 1
               /\ \A i \in 1 .. c - 1 : k.log[i] = j.log[i]
               /\ CrudCheckpoints(k) = CrudCheckpoints(j) \ {c}
<1> DEFINE c == LastCheckpoint(j)
           k == RestoreCheckpoint(j)
<1>1. c \in CrudCheckpoints(j) /\ c \in 1 .. Len(j.log) /\ \A d \in CrudCheckpoints(j) : d <= c
  BY LastCheckpointFacts
<1> HIDE DEF c
<1>2. k = [log |-> SubSeq(j.log, 1, c - 1), index |-> c - 1]
  BY <1>1 DEF RestoreCheckpoint, c
<1>3. j.log \in Seq(E) /\ Len(j.log) \in Nat /\ c - 1 \in Nat
  BY <1>1 DEF Journals
<1> HIDE DEF k
<1>4. /\ k.log \in Seq(E) /\ Len(k.log) = c - 1
      /\ \A i \in 1 .. c - 1 : k.log[i] = j.log[i]
  BY <1>1, <1>2, <1>3
<1>5. k \in Journals(E) /\ k.index = c - 1
  BY <1>2, <1>3, <1>4 DEF Journals
<1>6. DOMAIN k.log = 1 .. c - 1 /\ DOMAIN j.log = 1 .. Len(j.log)
  BY <1>3, <1>4, LenProperties
<1>7. ASSUME NEW i PROVE i \in CrudCheckpoints(k) <=> i \in CrudCheckpoints(j) /\ i # c
  BY <1>1, <1>3, <1>4, <1>6 DEF CrudCheckpoints
<1> QED BY <1>4, <1>5, <1>7 DEF k, c

\* A journal without checkpoints keeps its last step-checkpoint when it loses the one
\* checkpoint after it.
LEMMA LastStepCleared ==
    ASSUME NEW E, NEW j \in Journals(E), CrudCheckpoints(j) # {}, j.index = Len(j.log),
           LastStep(j) < LastCheckpoint(j)
    PROVE  LastStep(ClearCheckpoint(j)) = LastStep(j)
<1> DEFINE c == LastCheckpoint(j)
           k == ClearCheckpoint(j)
           t == LastStep(j)
<1>1. /\ k \in Journals(E) /\ k.index = j.index - 1 /\ j.index \in Nat
      /\ \A i \in 1 .. c - 1 : k.log[i] = j.log[i]
      /\ \A i \in c .. j.index - 1 : k.log[i] = j.log[i + 1]
      /\ c \in 1 .. j.index
  BY ClearFacts, LastCheckpointFacts DEF Journals
<1>2. /\ t \in 0 .. j.index /\ t < c
      /\ t > 0 => IsStepCheckpoint(j.log[t])
      /\ \A i \in 1 .. j.index : IsStepCheckpoint(j.log[i]) => i <= t
  BY LastStepFacts
<1> HIDE DEF c, k, t
<1>3. t \in 0 .. k.index /\ (t > 0 => IsStepCheckpoint(k.log[t]))
  BY <1>1, <1>2
<1>4. ASSUME NEW i \in 1 .. k.index, IsStepCheckpoint(k.log[i]) PROVE i <= t
  <2>1. CASE i < c
    <3>1. i \in 1 .. j.index /\ i \in 1 .. c - 1
      BY <2>1, <1>1
    <3> QED BY <3>1, <1>1, <1>2, <1>4
  <2>2. CASE i >= c
    <3>1. i + 1 \in 1 .. j.index /\ i \in c .. j.index - 1
      BY <2>2, <1>1
    <3>2. i + 1 <= t
      BY <3>1, <1>1, <1>2, <1>4
    <3> QED BY <3>1, <3>2, <1>2
  <2> QED BY <2>1, <2>2, <1>1
<1>5. LastStep(k) = t
  BY <1>1, <1>3, <1>4, LastStepIs
<1> QED BY <1>5 DEF k, t

\* a model as operations leave it and as a file holds it
Sound == { m \in Model : NoDanglingEdge(m) /\ NodesHaveMetamodels(m) }

\* entry e leads from m to n, and back
Explains(m, e, n) == n = Redo(m, e) /\ m = Undo(n, e)

-----------------------------------------------------------------------------
(* Models and their parts.                                                 *)

EdgeType == [src : Id, dest : Id]

\* What a model consists of.
LEMMA ModelParts ==
    ASSUME NEW m \in Model
    PROVE  /\ m = [nodes |-> m.nodes, edges |-> m.edges,
                   metamodels |-> m.metamodels, loaded |-> m.loaded]
           /\ m.nodes \in [Id -> Node \cup {Absent}] /\ m.edges \in Seq(EdgeType)
           /\ m.metamodels \subseteq MM /\ m.loaded \subseteq MM
           /\ DOMAIN m.edges = 1 .. Len(m.edges) /\ Len(m.edges) \in Nat
           /\ \A i \in DOMAIN m.edges : m.edges[i] \in EdgeType
           /\ \A i \in Nodes(m) : i \in Id /\ m.nodes[i] \in Node
<1>1. /\ m = [nodes |-> m.nodes, edges |-> m.edges,
              metamodels |-> m.metamodels, loaded |-> m.loaded]
      /\ m.nodes \in [Id -> Node \cup {Absent}] /\ m.edges \in Seq(EdgeType)
      /\ m.metamodels \subseteq MM /\ m.loaded \subseteq MM
  BY DEF Model, EdgeType
<1>2. /\ DOMAIN m.edges = 1 .. Len(m.edges) /\ Len(m.edges) \in Nat
      /\ \A i \in DOMAIN m.edges : m.edges[i] \in EdgeType
  BY <1>1, LenProperties, ElementOfSeq
<1>3. \A i \in Nodes(m) : i \in Id /\ m.nodes[i] \in Node
  BY <1>1 DEF Nodes
<1> QED BY <1>1, <1>2, <1>3

\* What becomes of them when one is replaced.
LEMMA NewNodes ==
    ASSUME NEW m \in Model, NEW id, NEW x
    PROVE  [m EXCEPT !.nodes[id] = x] =
              [nodes |-> [m.nodes EXCEPT ![id] = x], edges |-> m.edges,
               metamodels |-> m.metamodels, loaded |-> m.loaded]
  BY DEF Model

LEMMA NewEdges ==
    ASSUME NEW m \in Model, NEW s
    PROVE  [m EXCEPT !.edges = s] =
              [nodes |-> m.nodes, edges |-> s, metamodels |-> m.metamodels, loaded |-> m.loaded]
  BY DEF Model

\* When a model is sound.
LEMMA SoundParts ==
    ASSUME NEW m \in Model
    PROVE  m \in Sound <=>
              /\ \A i \in DOMAIN m.edges : Joins(m, m.edges[i])
              /\ \A i \in Nodes(m) : m.nodes[i].mm \in m.loaded
              /\ m.metamodels = m.loaded
<1>1. Typed(m) = Nodes(m) <=> \A i \in Nodes(m) : m.nodes[i].mm \in m.loaded
  BY DEF Typed
<1> QED BY <1>1 DEF Sound, NoDanglingEdge, NodesHaveMetamodels

\* The model a new kernel begins with.
LEMMA EmptySound == EmptyModel \in Sound /\ Nodes(EmptyModel) = {}
<1>1. EmptyModel \in Model /\ Nodes(EmptyModel) = {} /\ DOMAIN EmptyModel.edges = {}
  BY EmptySeq DEF EmptyModel, NoNodes, Model, Nodes
<1> QED BY <1>1, SoundParts DEF EmptyModel

\* A step-checkpoint or a crudOp's checkpoint changes nothing.
LEMMA MarkerExplains ==
    ASSUME NEW m, NEW e, IsMarker(e)
    PROVE  Explains(m, e, m)
  BY DEF Explains, IsMarker, Redo, Undo

\* __mknode__ of a free id, and its undo.
LEMMA MkNodeExplains ==
    ASSUME NEW m \in Sound, NEW id \in Id, id \notin Nodes(m), NEW node \in Node, node.mm \in m.loaded
    PROVE  LET e == [op |-> "MKNODE", id |-> id, node |-> node]
               n == Redo(m, e)
           IN  /\ e \in Entry /\ n \in Sound /\ Explains(m, e, n)
               /\ n = [m EXCEPT !.nodes[id] = node]
               /\ Nodes(n) = Nodes(m) \cup {id}
<1> DEFINE e == [op |-> "MKNODE", id |-> id, node |-> node]
           n == Redo(m, e)
<1>1. m \in Model
  BY DEF Sound
<1>2. n = [m EXCEPT !.nodes[id] = node] /\ Undo(n, e) = [n EXCEPT !.nodes[id] = Absent]
  BY DEF Redo, Undo
<1>3. e \in Entry
  BY DEF Entry
<1> HIDE DEF n, e
<1>4. /\ n \in Model /\ n.edges = m.edges /\ n.loaded = m.loaded /\ n.metamodels = m.metamodels
      /\ n.nodes = [m.nodes EXCEPT ![id] = node]
  BY <1>1, <1>2 DEF Model
<1>5. Nodes(n) = Nodes(m) \cup {id}
  BY <1>1, <1>4, ModelParts, MmmkAssumption DEF Nodes
<1>6. n \in Sound
  <2>1. ASSUME NEW i \in DOMAIN n.edges PROVE Joins(n, n.edges[i])
    <3>1. Joins(m, m.edges[i]) /\ n.edges[i] = m.edges[i] /\ m.edges[i] \in EdgeType
      BY <2>1, <1>1, <1>4, SoundParts, ModelParts
    <3>2. m.edges[i].src # id /\ m.edges[i].dest # id
      BY <3>1 DEF Joins
    <3> QED BY <3>1, <3>2, <1>1, <1>4, <1>5, ModelParts DEF Joins, IsConnector, EdgeType
  <2>2. ASSUME NEW i \in Nodes(n) PROVE n.nodes[i].mm \in n.loaded
    BY <2>2, <1>1, <1>4, <1>5, SoundParts, ModelParts
  <2>3. n.metamodels = n.loaded
    BY <1>1, <1>4, SoundParts
  <2> QED BY <2>1, <2>2, <2>3, <1>4, SoundParts
<1>7. [n EXCEPT !.nodes[id] = Absent] = m
  <2>1. m.nodes[id] = Absent /\ m.nodes \in [Id -> Node \cup {Absent}]
    BY <1>1, ModelParts DEF Nodes
  <2>2. [n.nodes EXCEPT ![id] = Absent] = m.nodes
    BY <2>1, <1>4
  <2> QED BY <2>2, <1>1, <1>4, ModelParts, NewNodes
<1> QED BY <1>2, <1>3, <1>5, <1>6, <1>7 DEF Explains, n, e

\* __rmnode__ of a node no edge touches, and its undo.
LEMMA RmNodeExplains ==
    ASSUME NEW m \in Sound, NEW id \in Nodes(m), EdgesOf(m, {id}) = {}
    PROVE  LET e == [op |-> "RMNODE", id |-> id, node |-> m.nodes[id]]
               n == Redo(m, e)
           IN  /\ e \in Entry /\ n \in Sound /\ Explains(m, e, n)
               /\ n = [m EXCEPT !.nodes[id] = Absent]
               /\ Nodes(n) = Nodes(m) \ {id}
<1> DEFINE e == [op |-> "RMNODE", id |-> id, node |-> m.nodes[id]]
           n == Redo(m, e)
<1>1. m \in Model /\ id \in Id /\ m.nodes[id] \in Node
  BY ModelParts DEF Sound
<1>2. n = [m EXCEPT !.nodes[id] = Absent] /\ Undo(n, e) = [n EXCEPT !.nodes[id] = m.nodes[id]]
  BY DEF Redo, Undo
<1>3. e \in Entry
  BY <1>1 DEF Entry
<1> HIDE DEF n, e
<1>4. /\ n \in Model /\ n.edges = m.edges /\ n.loaded = m.loaded /\ n.metamodels = m.metamodels
      /\ n.nodes = [m.nodes EXCEPT ![id] = Absent]
  BY <1>1, <1>2, NewNodes DEF Model
<1>5. Nodes(n) = Nodes(m) \ {id}
  BY <1>1, <1>4, ModelParts DEF Nodes
<1>6. n \in Sound
  <2>1. ASSUME NEW i \in DOMAIN n.edges PROVE Joins(n, n.edges[i])
    <3>1. Joins(m, m.edges[i]) /\ n.edges[i] = m.edges[i] /\ m.edges[i] \in EdgeType
      BY <2>1, <1>1, <1>4, SoundParts, ModelParts
    <3>2. m.edges[i].src # id /\ m.edges[i].dest # id
      BY <2>1, <1>4 DEF EdgesOf
    <3> QED BY <3>1, <3>2, <1>1, <1>4, <1>5, ModelParts DEF Joins, IsConnector, EdgeType
  <2>2. ASSUME NEW i \in Nodes(n) PROVE n.nodes[i].mm \in n.loaded
    BY <2>2, <1>1, <1>4, <1>5, SoundParts, ModelParts
  <2>3. n.metamodels = n.loaded
    BY <1>1, <1>4, SoundParts
  <2> QED BY <2>1, <2>2, <2>3, <1>4, SoundParts
<1>7. [n EXCEPT !.nodes[id] = m.nodes[id]] = m
  <2>1. [n.nodes EXCEPT ![id] = m.nodes[id]] = m.nodes
    BY <1>1, <1>4, ModelParts
  <2> QED BY <2>1, <1>1, <1>4, ModelParts, NewNodes
<1> QED BY <1>2, <1>3, <1>5, <1>6, <1>7 DEF Explains, n, e

\* __chattr__ to another value, and its undo.
LEMMA ChAttrExplains ==
    ASSUME NEW m \in Sound, NEW id \in Nodes(m), NEW v \in Val
    PROVE  LET e == [op |-> "CHATTR", id |-> id, new |-> v, old |-> m.nodes[id].val]
               n == Redo(m, e)
           IN  /\ e \in Entry /\ n \in Sound /\ Explains(m, e, n)
               /\ n = [m EXCEPT !.nodes[id].val = v]
               /\ Nodes(n) = Nodes(m) /\ n.edges = m.edges /\ n.loaded = m.loaded
               /\ \A i \in Nodes(n) : n.nodes[i].kind = m.nodes[i].kind /\ n.nodes[i].mm = m.nodes[i].mm
<1> DEFINE e == [op |-> "CHATTR", id |-> id, new |-> v, old |-> m.nodes[id].val]
           n == Redo(m, e)
           new == [kind |-> m.nodes[id].kind, mm |-> m.nodes[id].mm, val |-> v]
<1>1. /\ m \in Model /\ id \in Id /\ m.nodes[id] \in Node /\ m.nodes \in [Id -> Node \cup {Absent}]
      /\ new \in Node
  BY ModelParts DEF Sound, Node
<1>2. n = [m EXCEPT !.nodes[id].val = v] /\ Undo(n, e) = [n EXCEPT !.nodes[id].val = m.nodes[id].val]
  BY DEF Redo, Undo
<1>3. e \in Entry
  BY <1>1 DEF Entry, Node
<1> HIDE DEF n, e
<1>4. /\ n.edges = m.edges /\ n.loaded = m.loaded /\ n.metamodels = m.metamodels
      /\ n.nodes = [m.nodes EXCEPT ![id] = new]
      /\ n = [nodes |-> n.nodes, edges |-> n.edges, metamodels |-> n.metamodels, loaded |-> n.loaded]
  <2>1. [m.nodes[id] EXCEPT !.val = v] = new
    BY <1>1 DEF Node
  <2>2. n = [m EXCEPT !.nodes = [m.nodes EXCEPT ![id] = new]]
    BY <2>1, <1>1, <1>2 DEF Model
  <2> QED BY <2>2, <1>1 DEF Model
<1>5. n \in Model
  <2>1. n.nodes \in [Id -> Node \cup {Absent}]
    BY <1>1, <1>4
  <2> QED BY <2>1, <1>1, <1>4, ModelParts DEF Model, EdgeType
<1>6. /\ Nodes(n) = Nodes(m)
      /\ \A i \in Nodes(n) : n.nodes[i].kind = m.nodes[i].kind /\ n.nodes[i].mm = m.nodes[i].mm
  <2>1. \A i \in Id : i # id => n.nodes[i] = m.nodes[i]
    BY <1>1, <1>4
  <2>2. n.nodes[id] = new /\ new # Absent /\ m.nodes[id] # Absent
    BY <1>1, <1>4, MmmkAssumption
  <2> HIDE DEF new
  <2>3. Nodes(n) = Nodes(m)
    BY <2>1, <2>2 DEF Nodes
  <2>4. new.kind = m.nodes[id].kind /\ new.mm = m.nodes[id].mm
    BY DEF new
  <2>5. Nodes(n) \subseteq Id
    BY DEF Nodes
  <2> QED BY <2>1, <2>2, <2>3, <2>4, <2>5
<1>7. n \in Sound
  <2>1. ASSUME NEW i \in DOMAIN n.edges PROVE Joins(n, n.edges[i])
    <3>1. Joins(m, m.edges[i]) /\ n.edges[i] = m.edges[i]
      BY <2>1, <1>1, <1>4, SoundParts
    <3>2. \A x \in Nodes(m) : IsConnector(n, x) = IsConnector(m, x)
      BY <1>6 DEF IsConnector, Nodes
    <3> QED BY <3>1, <3>2, <1>6 DEF Joins
  <2>2. ASSUME NEW i \in Nodes(n) PROVE n.nodes[i].mm \in n.loaded
    BY <2>2, <1>1, <1>4, <1>6, SoundParts
  <2>3. n.metamodels = n.loaded
    BY <1>1, <1>4, SoundParts
  <2> QED BY <2>1, <2>2, <2>3, <1>5, SoundParts
<1>8. [n EXCEPT !.nodes[id].val = m.nodes[id].val] = m
  <2>1. [new EXCEPT !.val = m.nodes[id].val] = m.nodes[id]
    BY <1>1 DEF Node
  <2>2. n.nodes[id] = new
    BY <1>1, <1>4
  <2>3. [n.nodes EXCEPT ![id] = m.nodes[id]] = m.nodes
    BY <1>1, <1>4
  <2>4. [n EXCEPT !.nodes[id].val = m.nodes[id].val] =
        [nodes |-> [n.nodes EXCEPT ![id] = [n.nodes[id] EXCEPT !.val = m.nodes[id].val]],
         edges |-> n.edges, metamodels |-> n.metamodels, loaded |-> n.loaded]
    BY <1>5 DEF Model
  <2> HIDE DEF new
  <2> QED BY <2>1, <2>2, <2>3, <2>4, <1>1, <1>4, ModelParts
<1> QED BY <1>2, <1>3, <1>4, <1>6, <1>7, <1>8 DEF Explains, n, e

-----------------------------------------------------------------------------
(* Edges.                                                                  *)

\* An edge inserted in a list.
LEMMA InsertFacts ==
    ASSUME NEW E, NEW s \in Seq(E), NEW c \in 1 .. Len(s) + 1, NEW x \in E
    PROVE  /\ InsertEdge(s, c, x) \in Seq(E) /\ Len(InsertEdge(s, c, x)) = Len(s) + 1
           /\ \A i \in 1 .. c - 1 : InsertEdge(s, c, x)[i] = s[i]
           /\ InsertEdge(s, c, x)[c] = x
           /\ \A i \in c + 1 .. Len(s) + 1 : InsertEdge(s, c, x)[i] = s[i - 1]
<1> DEFINE a == SubSeq(s, 1, c - 1)
           b == SubSeq(s, c, Len(s))
           ax == a \o <<x>>
<1>1. /\ a \in Seq(E) /\ Len(a) = c - 1
      /\ \A i \in 1 .. c - 1 : a[i] = s[i]
  OBVIOUS
<1>2. /\ b \in Seq(E) /\ Len(b) = Len(s) - (c - 1)
      /\ \A i \in 1 .. Len(s) - (c - 1) : b[i] = s[c - 1 + i]
  <2>1. c - 1 \in Nat /\ c - 1 <= Len(s) /\ (c - 1) + 1 = c
    OBVIOUS
  <2> QED BY <2>1, Between
<1> HIDE DEF a, b
<1>3. /\ ax \in Seq(E) /\ Len(ax) = c /\ ax[c] = x
      /\ \A i \in 1 .. c - 1 : ax[i] = s[i]
  BY <1>1
<1> HIDE DEF ax
<1>4. /\ ax \o b \in Seq(E) /\ Len(ax \o b) = Len(ax) + Len(b)
      /\ \A i \in 1 .. Len(ax) + Len(b) : (ax \o b)[i] = IF i <= Len(ax) THEN ax[i] ELSE b[i - Len(ax)]
  BY <1>2, <1>3, ConcatProperties
<1>5. Len(ax) + Len(b) = Len(s) + 1
  BY <1>2, <1>3
<1>6. InsertEdge(s, c, x) = ax \o b
  BY DEF InsertEdge, ax, a, b
<1>7. \A i \in 1 .. c - 1 : (ax \o b)[i] = s[i]
  BY <1>3, <1>4, <1>5
<1>8. (ax \o b)[c] = x
  BY <1>3, <1>4, <1>5
<1>9. ASSUME NEW i \in c + 1 .. Len(s) + 1 PROVE (ax \o b)[i] = s[i - 1]
  <2>1. (ax \o b)[i] = b[i - c] /\ i - c \in 1 .. Len(s) - (c - 1) /\ c - 1 + (i - c) = i - 1
    BY <1>3, <1>4, <1>5
  <2> QED BY <2>1, <1>2
<1> QED BY <1>4, <1>5, <1>6, <1>7, <1>8, <1>9

\* Inserting and removing at the same place undo each other.
LEMMA RemoveInserted ==
    ASSUME NEW E, NEW s \in Seq(E), NEW c \in 1 .. Len(s) + 1, NEW x \in E
    PROVE  RemoveAt(InsertEdge(s, c, x), c) = s
<1> DEFINE t == InsertEdge(s, c, x)
           u == RemoveAt(t, c)
<1>1. /\ t \in Seq(E) /\ Len(t) = Len(s) + 1
      /\ \A i \in 1 .. c - 1 : t[i] = s[i]
      /\ \A i \in c + 1 .. Len(s) + 1 : t[i] = s[i - 1]
  BY InsertFacts
<1> HIDE DEF t
<1>2. /\ u \in Seq(E) /\ Len(u) = Len(s)
      /\ \A i \in 1 .. c - 1 : u[i] = t[i]
      /\ \A i \in c .. Len(s) : u[i] = t[i + 1]
  <2>1. c \in 1 .. Len(t) /\ Len(t) - 1 = Len(s)
    BY <1>1
  <2> QED BY <2>1, <1>1, RemoveAtFacts
<1> HIDE DEF u
<1>3. ASSUME NEW i \in 1 .. Len(s) PROVE u[i] = s[i]
  <2>1. CASE i < c
    BY <2>1, <1>1, <1>2
  <2>2. CASE i >= c
    <3>1. i \in c .. Len(s) /\ i + 1 \in c + 1 .. Len(s) + 1 /\ (i + 1) - 1 = i
      BY <2>2
    <3> QED BY <3>1, <1>1, <1>2
  <2> QED BY <2>1, <2>2
<1> QED BY <1>2, <1>3, SeqEqual DEF u, t

LEMMA InsertRemoved ==
    ASSUME NEW E, NEW s \in Seq(E), NEW c \in 1 .. Len(s)
    PROVE  InsertEdge(RemoveAt(s, c), c, s[c]) = s
<1> DEFINE t == RemoveAt(s, c)
           u == InsertEdge(t, c, s[c])
<1>1. /\ t \in Seq(E) /\ Len(t) = Len(s) - 1
      /\ \A i \in 1 .. c - 1 : t[i] = s[i]
      /\ \A i \in c .. Len(s) - 1 : t[i] = s[i + 1]
  BY RemoveAtFacts
<1> HIDE DEF t
<1>2. /\ u \in Seq(E) /\ Len(u) = Len(s) /\ u[c] = s[c]
      /\ \A i \in 1 .. c - 1 : u[i] = t[i]
      /\ \A i \in c + 1 .. Len(s) : u[i] = t[i - 1]
  <2>1. c \in 1 .. Len(t) + 1 /\ Len(t) + 1 = Len(s) /\ s[c] \in E
    BY <1>1, ElementOfSeq
  <2> QED BY <2>1, <1>1, InsertFacts
<1> HIDE DEF u
<1>3. ASSUME NEW i \in 1 .. Len(s) PROVE u[i] = s[i]
  <2>1. CASE i < c
    BY <2>1, <1>1, <1>2
  <2>2. CASE i = c
    BY <2>2, <1>2
  <2>3. CASE i > c
    <3>1. i \in c + 1 .. Len(s) /\ i - 1 \in c .. Len(s) - 1 /\ (i - 1) + 1 = i
      BY <2>3
    <3> QED BY <3>1, <1>1, <1>2
  <2> QED BY <2>1, <2>2, <2>3
<1> QED BY <1>2, <1>3, SeqEqual DEF u, t

\* Edges of the same nodes join them in the one model as in the other.
LEMMA EdgesReplaced ==
    ASSUME NEW m \in Sound, NEW s \in Seq(EdgeType),
           \A i \in 1 .. Len(s) : Joins(m, s[i])
    PROVE  /\ [m EXCEPT !.edges = s] \in Sound
           /\ [m EXCEPT !.edges = s].nodes = m.nodes /\ [m EXCEPT !.edges = s].edges = s
           /\ Nodes([m EXCEPT !.edges = s]) = Nodes(m)
           /\ [m EXCEPT !.edges = s].loaded = m.loaded
<1> DEFINE n == [m EXCEPT !.edges = s]
<1>1. m \in Model
  BY DEF Sound
<1>2. /\ n.nodes = m.nodes /\ n.edges = s /\ n.loaded = m.loaded /\ n.metamodels = m.metamodels
      /\ n \in Model
  BY <1>1, NewEdges DEF Model, EdgeType
<1> HIDE DEF n
<1>3. Nodes(n) = Nodes(m)
  BY <1>2 DEF Nodes
<1>4. ASSUME NEW i \in DOMAIN n.edges PROVE Joins(n, n.edges[i])
  <2>1. Joins(m, s[i])
    BY <1>2, LenProperties
  <2> QED BY <2>1, <1>2, <1>3 DEF Joins, IsConnector
<1>5. ASSUME NEW i \in Nodes(n) PROVE n.nodes[i].mm \in n.loaded
  BY <1>1, <1>2, <1>3, SoundParts
<1>6. n.metamodels = n.loaded
  BY <1>1, <1>2, SoundParts
<1> QED BY <1>2, <1>3, <1>4, <1>5, <1>6, SoundParts DEF n

\* __mkedge__ between a node and a connector, at the end of the list, and its undo.
LEMMA MkEdgeExplains ==
    ASSUME NEW m \in Sound, NEW x \in EdgeType, Joins(m, x)
    PROVE  LET e == [op |-> "MKEDGE", i |-> Len(m.edges) + 1, edge |-> x]
               n == Redo(m, e)
           IN  /\ e \in Entry /\ n \in Sound /\ Explains(m, e, n)
               /\ n.nodes = m.nodes /\ Nodes(n) = Nodes(m) /\ n.loaded = m.loaded
<1> DEFINE c == Len(m.edges) + 1
           e == [op |-> "MKEDGE", i |-> c, edge |-> x]
           n == Redo(m, e)
           s == InsertEdge(m.edges, c, x)
<1>1. m \in Model /\ m.edges \in Seq(EdgeType) /\ c \in 1 .. Len(m.edges) + 1 /\ Len(m.edges) \in Nat
  BY ModelParts DEF Sound
<1>2. n = [m EXCEPT !.edges = s] /\ Undo(n, e) = [n EXCEPT !.edges = RemoveAt(n.edges, c)]
  BY DEF Redo, Undo
<1>3. e \in Entry
  BY <1>1 DEF Entry, EdgeType
<1> HIDE DEF n, e
<1>4. /\ s \in Seq(EdgeType) /\ Len(s) = Len(m.edges) + 1 /\ s[c] = x
      /\ \A i \in 1 .. Len(m.edges) : s[i] = m.edges[i]
  <2>1. c - 1 = Len(m.edges)
    BY <1>1
  <2> QED BY <2>1, <1>1, InsertFacts, SMTT(20), ZenonT(20)
<1>5. RemoveAt(s, c) = m.edges
  BY <1>1, RemoveInserted
<1> HIDE DEF s
<1>6. ASSUME NEW i \in 1 .. Len(s) PROVE Joins(m, s[i])
  <2>1. CASE i = c
    BY <2>1, <1>4
  <2>2. CASE i # c
    <3>1. i \in 1 .. Len(m.edges) /\ i \in DOMAIN m.edges
      BY <2>2, <1>1, <1>4, ModelParts
    <3> QED BY <3>1, <1>1, <1>4, SoundParts
  <2> QED BY <2>1, <2>2
<1>7. n \in Sound /\ n.nodes = m.nodes /\ n.edges = s /\ Nodes(n) = Nodes(m) /\ n.loaded = m.loaded
  BY <1>2, <1>4, <1>6, EdgesReplaced
<1>8. [n EXCEPT !.edges = m.edges] = m
  <2>1. n \in Model /\ n.metamodels = m.metamodels
    BY <1>1, <1>2, <1>7, NewEdges DEF Sound
  <2> QED BY <2>1, <1>1, <1>7, ModelParts, NewEdges
<1> QED BY <1>2, <1>3, <1>5, <1>7, <1>8 DEF Explains, n, e

\* __rmedge__ of any edge, and its undo at the same place.
LEMMA RmEdgeExplains ==
    ASSUME NEW m \in Sound, NEW c \in DOMAIN m.edges
    PROVE  LET e == [op |-> "RMEDGE", i |-> c, edge |-> m.edges[c]]
               n == Redo(m, e)
           IN  /\ e \in Entry /\ n \in Sound /\ Explains(m, e, n)
               /\ n.nodes = m.nodes /\ Nodes(n) = Nodes(m) /\ n.loaded = m.loaded
               /\ \A ids : EdgesOf(m, ids) = {} => EdgesOf(n, ids) = {}
<1> DEFINE e == [op |-> "RMEDGE", i |-> c, edge |-> m.edges[c]]
           n == Redo(m, e)
           s == RemoveAt(m.edges, c)
<1>1. m \in Model /\ m.edges \in Seq(EdgeType) /\ c \in 1 .. Len(m.edges) /\ m.edges[c] \in EdgeType
  BY ModelParts DEF Sound
<1>2. /\ n = [m EXCEPT !.edges = s]
      /\ Undo(n, e) = [n EXCEPT !.edges = InsertEdge(n.edges, c, m.edges[c])]
  BY DEF Redo, Undo
<1>3. e \in Entry
  BY <1>1 DEF Entry, EdgeType
<1> HIDE DEF n, e
<1>4. /\ s \in Seq(EdgeType) /\ Len(s) = Len(m.edges) - 1
      /\ \A i \in 1 .. c - 1 : s[i] = m.edges[i]
      /\ \A i \in c .. Len(m.edges) - 1 : s[i] = m.edges[i + 1]
  BY <1>1, RemoveAtFacts
<1>5. InsertEdge(s, c, m.edges[c]) = m.edges
  BY <1>1, InsertRemoved
<1> HIDE DEF s
<1>6. ASSUME NEW i \in 1 .. Len(s) PROVE \E k \in DOMAIN m.edges : s[i] = m.edges[k]
  <2>1. CASE i < c
    <3>1. i \in 1 .. c - 1 /\ i \in DOMAIN m.edges
      BY <2>1, <1>1, <1>4, ModelParts
    <3> QED BY <3>1, <1>4
  <2>2. CASE i >= c
    <3>1. i \in c .. Len(m.edges) - 1 /\ i + 1 \in DOMAIN m.edges
      BY <2>2, <1>1, <1>4, ModelParts
    <3> QED BY <3>1, <1>4
  <2> QED BY <2>1, <2>2, <1>1, <1>4
<1>7. \A i \in 1 .. Len(s) : Joins(m, s[i])
  BY <1>1, <1>6, SoundParts
<1>8. n \in Sound /\ n.nodes = m.nodes /\ n.edges = s /\ Nodes(n) = Nodes(m) /\ n.loaded = m.loaded
  BY <1>2, <1>4, <1>7, EdgesReplaced
<1>9. [n EXCEPT !.edges = m.edges] = m
  <2>1. n \in Model /\ n.metamodels = m.metamodels
    BY <1>1, <1>2, <1>8, NewEdges DEF Sound
  <2> QED BY <2>1, <1>1, <1>8, ModelParts, NewEdges
<1>10. ASSUME NEW ids, EdgesOf(m, ids) = {} PROVE EdgesOf(n, ids) = {}
  <2>1. DOMAIN n.edges = 1 .. Len(s)
    BY <1>4, <1>8, LenProperties
  <2> QED BY <2>1, <1>6, <1>8, <1>10 DEF EdgesOf
<1> QED BY <1>2, <1>3, <1>5, <1>8, <1>9, <1>10 DEF Explains, n, e

-----------------------------------------------------------------------------
(* Models and metamodels that are loaded.                                  *)

\* A model with the nodes and edges of one and metamodels of its own.
LEMMA NewMetamodels ==
    ASSUME NEW m \in Model, NEW mms, NEW l
    PROVE  [m EXCEPT !.metamodels = mms, !.loaded = l] =
              [nodes |-> m.nodes, edges |-> m.edges, metamodels |-> mms, loaded |-> l]
<1> DEFINE n == [m EXCEPT !.metamodels = mms]
<1>1. n = [nodes |-> m.nodes, edges |-> m.edges, metamodels |-> mms, loaded |-> m.loaded]
  BY DEF Model
<1> HIDE DEF n
<1>2. [n EXCEPT !.loaded = l] = [nodes |-> m.nodes, edges |-> m.edges, metamodels |-> mms, loaded |-> l]
  BY <1>1
<1> QED BY <1>2 DEF n

\* It is sound when the metamodels of its nodes are among them.
LEMMA MetamodelsReplaced ==
    ASSUME NEW m \in Model, NoDanglingEdge(m), NEW l \in SUBSET MM,
           \A i \in Nodes(m) : m.nodes[i].mm \in l
    PROVE  LET n == [m EXCEPT !.metamodels = l, !.loaded = l]
           IN  /\ n \in Sound /\ Nodes(n) = Nodes(m) /\ n.nodes = m.nodes /\ n.edges = m.edges
               /\ n.loaded = l
<1> DEFINE n == [m EXCEPT !.metamodels = l, !.loaded = l]
<1>1. /\ n.nodes = m.nodes /\ n.edges = m.edges /\ n.loaded = l /\ n.metamodels = l
      /\ n \in Model
  BY ModelParts, NewMetamodels DEF Model, EdgeType
<1> HIDE DEF n
<1>2. Nodes(n) = Nodes(m)
  BY <1>1 DEF Nodes
<1>3. ASSUME NEW i \in DOMAIN n.edges PROVE Joins(n, n.edges[i])
  BY <1>1, <1>2 DEF Joins, IsConnector, NoDanglingEdge
<1>4. \A i \in Nodes(n) : n.nodes[i].mm \in n.loaded
  BY <1>1, <1>2
<1> QED BY <1>1, <1>2, <1>3, <1>4, SoundParts DEF n

\* __loadmm__ of a metamodel that is not loaded, and its undo.
LEMMA LoadMMExplains ==
    ASSUME NEW m \in Sound, NEW mm \in MM, mm \notin m.loaded
    PROVE  LET e == [op |-> "LOADMM", name |-> mm]
               n == Redo(m, e)
           IN  /\ e \in Entry /\ n \in Sound /\ Explains(m, e, n) /\ Nodes(n) = Nodes(m)
<1> DEFINE e == [op |-> "LOADMM", name |-> mm]
           n == Redo(m, e)
           l == m.loaded \cup {mm}
<1>1. m \in Model /\ NoDanglingEdge(m) /\ m.metamodels = m.loaded /\ m.loaded \subseteq MM
  BY ModelParts DEF Sound, NodesHaveMetamodels
<1>2. n = [m EXCEPT !.metamodels = l, !.loaded = l]
  BY <1>1 DEF Redo, LoadMM
<1>3. Undo(n, e) = [n EXCEPT !.metamodels = n.metamodels \ {mm}, !.loaded = n.loaded \ {mm}]
  BY DEF Undo, DumpMM
<1>4. e \in Entry
  BY DEF Entry
<1> HIDE DEF n, e
<1>5. \A i \in Nodes(m) : m.nodes[i].mm \in l
  BY <1>1, SoundParts
<1>6. n \in Sound /\ Nodes(n) = Nodes(m) /\ n.nodes = m.nodes /\ n.edges = m.edges /\ n.loaded = l
  BY <1>1, <1>2, <1>5, MetamodelsReplaced
<1>7. n \in Model /\ n.metamodels = l
  BY <1>6, SoundParts DEF Sound
<1>8. n.metamodels \ {mm} = m.metamodels /\ n.loaded \ {mm} = m.loaded
  BY <1>1, <1>6, <1>7
<1>9. Undo(n, e) = m
  <2>1. Undo(n, e) = [n EXCEPT !.metamodels = m.metamodels, !.loaded = m.loaded]
    BY <1>3, <1>8
  <2>2. Undo(n, e) = [nodes |-> m.nodes, edges |-> m.edges,
                      metamodels |-> m.metamodels, loaded |-> m.loaded]
    BY <2>1, <1>6, <1>7, NewMetamodels
  <2> QED BY <2>2, <1>1, ModelParts
<1> QED BY <1>4, <1>6, <1>9 DEF Explains, n, e

\* __dumpmm__ of a metamodel no node is of, and its undo.
LEMMA DumpMMExplains ==
    ASSUME NEW m \in Sound, NEW mm \in m.loaded, NodesOf(m, mm) = {}
    PROVE  LET e == [op |-> "DUMPMM", name |-> mm]
               n == Redo(m, e)
           IN  /\ e \in Entry /\ n \in Sound /\ Explains(m, e, n) /\ Nodes(n) = Nodes(m)
<1> DEFINE e == [op |-> "DUMPMM", name |-> mm]
           n == Redo(m, e)
           l == m.loaded \ {mm}
<1>1. m \in Model /\ NoDanglingEdge(m) /\ m.metamodels = m.loaded /\ m.loaded \subseteq MM
  BY ModelParts DEF Sound, NodesHaveMetamodels
<1>2. n = [m EXCEPT !.metamodels = l, !.loaded = l]
  BY <1>1 DEF Redo, DumpMM
<1>3. Undo(n, e) = [n EXCEPT !.metamodels = n.metamodels \cup {mm}, !.loaded = n.loaded \cup {mm}]
  BY DEF Undo, LoadMM
<1>4. e \in Entry
  BY <1>1 DEF Entry
<1> HIDE DEF n, e
<1>5. \A i \in Nodes(m) : m.nodes[i].mm \in l
  BY <1>1, SoundParts DEF NodesOf
<1>6. n \in Sound /\ Nodes(n) = Nodes(m) /\ n.nodes = m.nodes /\ n.edges = m.edges /\ n.loaded = l
  BY <1>1, <1>2, <1>5, MetamodelsReplaced
<1>7. n \in Model /\ n.metamodels = l
  BY <1>6, SoundParts DEF Sound
<1>8. n.metamodels \cup {mm} = m.metamodels /\ n.loaded \cup {mm} = m.loaded
  BY <1>1, <1>6, <1>7
<1>9. Undo(n, e) = m
  <2>1. Undo(n, e) = [n EXCEPT !.metamodels = m.metamodels, !.loaded = m.loaded]
    BY <1>3, <1>8
  <2>2. Undo(n, e) = [nodes |-> m.nodes, edges |-> m.edges,
                      metamodels |-> m.metamodels, loaded |-> m.loaded]
    BY <2>1, <1>6, <1>7, NewMetamodels, SMTT(20), ZenonT(20)
  <2> QED BY <2>2, <1>1, ModelParts
<1> QED BY <1>4, <1>6, <1>9 DEF Explains, n, e

\* __resetm__ to a sound model with the metamodels that are loaded, and its undo.
LEMMA ResetmExplains ==
    ASSUME NEW m \in Sound, NEW new \in Sound, new.loaded = m.loaded
    PROVE  LET e == [op |-> "RESETM", new |-> new, old |-> m]
           IN  e \in Entry /\ Redo(m, e) = new /\ Explains(m, e, new)
<1> DEFINE e == [op |-> "RESETM", new |-> new, old |-> m]
<1>1. /\ m \in Model /\ m.metamodels = m.loaded
      /\ new \in Model /\ new.metamodels = new.loaded
  BY SoundParts DEF Sound
<1>2. Redo(m, e) = Resetm(m, new) /\ Undo(new, e) = Resetm(new, m)
  BY DEF Redo, Undo
<1>3. Resetm(m, new) = [new EXCEPT !.metamodels = new.loaded, !.loaded = new.loaded]
  BY <1>1 DEF Resetm, Model
<1>4. Resetm(new, m) = [m EXCEPT !.metamodels = m.loaded, !.loaded = m.loaded]
  BY <1>1 DEF Resetm, Model
<1>5. e \in Entry
  BY <1>1 DEF Entry
<1> HIDE DEF e
<1>6. Redo(m, e) = new
  <2>1. Redo(m, e) = [nodes |-> new.nodes, edges |-> new.edges,
                      metamodels |-> new.metamodels, loaded |-> new.loaded]
    BY <1>1, <1>2, <1>3, NewMetamodels
  <2> QED BY <2>1, <1>1, ModelParts
<1>7. Undo(new, e) = m
  <2>1. Undo(new, e) = [nodes |-> m.nodes, edges |-> m.edges,
                        metamodels |-> m.metamodels, loaded |-> m.loaded]
    BY <1>1, <1>2, <1>4, NewMetamodels
  <2> QED BY <2>1, <1>1, ModelParts
<1> QED BY <1>5, <1>6, <1>7 DEF Explains, e

\* A file whose metamodels are loaded.
LEMMA FileSound ==
    ASSUME NEW m \in Sound, NEW f \in Loadable, f.metamodels \subseteq m.loaded
    PROVE  Resetm(m, f) \in Sound /\ Resetm(m, f).loaded = m.loaded
<1>1. /\ f \in Model /\ NoDanglingEdge(f) /\ m \in Model /\ m.loaded \in SUBSET MM
      /\ \A i \in Nodes(f) : f.nodes[i].mm \in f.metamodels
  BY MmmkAssumption, ModelParts DEF Sound
<1>2. f.metamodels \cup m.loaded = m.loaded
  OBVIOUS
<1>3. Resetm(m, f) = [f EXCEPT !.metamodels = m.loaded, !.loaded = m.loaded]
  BY <1>1, <1>2 DEF Resetm, Model
<1>4. \A i \in Nodes(f) : f.nodes[i].mm \in m.loaded
  BY <1>1
<1> DEFINE l == m.loaded
           n == [f EXCEPT !.metamodels = l, !.loaded = l]
<1>5. n \in Sound /\ n.loaded = l
  BY <1>1, <1>4, MetamodelsReplaced
<1> QED BY <1>3, <1>5

\* A file inserted beside a model whose ids are below next_id.
LEMMA InsertedSound ==
    ASSUME model \in Sound, next_id \in Nat, \A i \in Nodes(model) : i < next_id,
           NEW f \in Loadable, f.metamodels \subseteq model.loaded,
           \A i \in Nodes(f) : i + next_id < MaxId
    PROVE  Inserted(f) \in Sound /\ Inserted(f).loaded = model.loaded
<1> DEFINE nodes == [i \in Id |-> IF i >= next_id /\ i - next_id \in Nodes(f)
                                  THEN f.nodes[i - next_id] ELSE model.nodes[i]]
           edges == [i \in DOMAIN f.edges |-> Edge(f.edges[i].src + next_id, f.edges[i].dest + next_id)]
           s == model.edges \o edges
           n == Inserted(f)
<1>1. /\ f \in Model /\ NoDanglingEdge(f) /\ model \in Model
      /\ \A i \in Nodes(f) : f.nodes[i].mm \in f.metamodels
      /\ MaxId \in Nat
  BY MmmkAssumption DEF Sound
<1>2. \A i \in Nodes(f) : i \in Id /\ i \in Nat /\ i + next_id \in Id
  <2>1. \A i \in Nodes(f) : i \in Id
    BY <1>1, ModelParts
  <2> QED BY <2>1, <1>1 DEF Id
<1>3. nodes \in [Id -> Node \cup {Absent}]
  BY <1>1, ModelParts
<1>4. ASSUME NEW i \in DOMAIN f.edges
      PROVE  /\ edges[i] = Edge(f.edges[i].src + next_id, f.edges[i].dest + next_id)
             /\ edges[i] \in EdgeType /\ Joins(f, f.edges[i])
  <2>1. Joins(f, f.edges[i])
    BY <1>1 DEF NoDanglingEdge
  <2>2. f.edges[i].src + next_id \in Id /\ f.edges[i].dest + next_id \in Id
    BY <2>1, <1>2 DEF Joins
  <2> QED BY <2>1, <2>2 DEF Edge, EdgeType
<1>5. edges \in Seq(EdgeType) /\ Len(edges) = Len(f.edges) /\ Len(f.edges) \in Nat
      /\ DOMAIN f.edges = 1 .. Len(f.edges)
  <2>1. DOMAIN f.edges = 1 .. Len(f.edges) /\ Len(f.edges) \in Nat
    BY <1>1, ModelParts
  <2>2. edges \in [1 .. Len(f.edges) -> EdgeType]
    BY <2>1, <1>4
  <2> HIDE DEF edges
  <2>3. edges \in Seq(EdgeType)
    BY <2>1, <2>2, SeqDef
  <2>4. Len(edges) = Len(f.edges)
    BY <2>1, <2>2, <2>3, LenProperties
  <2> QED BY <2>1, <2>3, <2>4
<1>6. /\ model.edges \in Seq(EdgeType) /\ Len(model.edges) \in Nat
      /\ DOMAIN model.edges = 1 .. Len(model.edges)
  BY <1>1, ModelParts
<1> HIDE DEF edges
<1>7. /\ s \in Seq(EdgeType) /\ Len(s) = Len(model.edges) + Len(edges)
      /\ \A i \in 1 .. Len(model.edges) + Len(edges) :
            s[i] = IF i <= Len(model.edges) THEN model.edges[i] ELSE edges[i - Len(model.edges)]
  BY <1>5, <1>6, ConcatProperties
<1>8. n = [model EXCEPT !.nodes = nodes, !.edges = s]
  BY DEF Inserted, edges
<1> HIDE DEF nodes, s
<1>9. n = [nodes |-> nodes, edges |-> s, metamodels |-> model.metamodels, loaded |-> model.loaded]
  BY <1>1, <1>8 DEF Model
<1> HIDE DEF n
<1>10. n \in Model
  BY <1>1, <1>3, <1>7, <1>9, ModelParts DEF Model, EdgeType
<1>11. \A i \in Nodes(model) : i \in Nodes(n) /\ n.nodes[i] = model.nodes[i]
  <2>1. ASSUME NEW i \in Nodes(model) PROVE nodes[i] = model.nodes[i]
    <3>1. i \in Id /\ i \in Nat /\ i < next_id
      BY <1>1, ModelParts DEF Id
    <3> QED BY <3>1 DEF nodes
  <2> QED BY <2>1, <1>9 DEF Nodes
<1>12. \A i \in Nodes(f) : i + next_id \in Nodes(n) /\ n.nodes[i + next_id] = f.nodes[i]
  <2>1. ASSUME NEW i \in Nodes(f) PROVE nodes[i + next_id] = f.nodes[i]
    <3>1. i + next_id >= next_id /\ (i + next_id) - next_id = i /\ i + next_id \in Id
      BY <1>2
    <3> QED BY <3>1 DEF nodes
  <2> QED BY <2>1, <1>2, <1>9 DEF Nodes
<1>13. ASSUME NEW i \in Nodes(n)
       PROVE  i \in Nodes(model) \/ \E k \in Nodes(f) : i = k + next_id
  <2>1. i \in Id /\ nodes[i] # Absent
    BY <1>9 DEF Nodes
  <2>2. i \in Nat
    BY <2>1, <1>1 DEF Id
  <2>3. CASE i >= next_id /\ i - next_id \in Nodes(f)
    <3>1. i = (i - next_id) + next_id
      BY <2>2
    <3> QED BY <3>1, <2>3
  <2>4. CASE ~(i >= next_id /\ i - next_id \in Nodes(f))
    BY <2>1, <2>4 DEF nodes, Nodes
  <2> QED BY <2>3, <2>4
<1>14. ASSUME NEW i \in DOMAIN n.edges PROVE Joins(n, n.edges[i])
  <2>1. i \in 1 .. Len(model.edges) + Len(edges) /\ n.edges[i] = s[i]
    BY <1>7, <1>9, LenProperties
  <2>2. CASE i <= Len(model.edges)
    <3>1. n.edges[i] = model.edges[i] /\ i \in DOMAIN model.edges
      BY <2>1, <2>2, <1>6, <1>7
    <3>2. Joins(model, model.edges[i])
      BY <3>1, <1>1, SoundParts
    <3> QED BY <3>1, <3>2, <1>11 DEF Joins, IsConnector
  <2>3. CASE i > Len(model.edges)
    <3> DEFINE k == i - Len(model.edges)
    <3>1. k \in DOMAIN f.edges /\ n.edges[i] = edges[k]
      <4>1. k \in 1 .. Len(f.edges)
        <5>1. /\ Len(edges) = Len(f.edges) /\ Len(f.edges) \in Nat /\ Len(model.edges) \in Nat
              /\ i \in 1 .. Len(model.edges) + Len(f.edges)
          BY <2>1, <1>5, <1>6
        <5>2. \A a, b \in Nat : \A x \in 1 .. a + b : x > a => x - a \in 1 .. b
          OBVIOUS
        <5> QED BY <5>1, <5>2, <2>3
      <4>2. n.edges[i] = edges[k]
        BY <2>1, <2>3, <1>6, <1>7
      <4> QED BY <4>1, <4>2, <1>5
    <3> HIDE DEF k
    <3>2. /\ n.edges[i].src = f.edges[k].src + next_id /\ n.edges[i].dest = f.edges[k].dest + next_id
          /\ Joins(f, f.edges[k])
      BY <3>1, <1>4, SMTT(20), ZenonT(20) DEF Edge, edges
    <3> QED BY <3>2, <1>12 DEF Joins, IsConnector
  <2> QED BY <2>1, <2>2, <2>3, <1>6
<1>15. ASSUME NEW i \in Nodes(n) PROVE n.nodes[i].mm \in n.loaded
  <2>1. CASE i \in Nodes(model)
    BY <2>1, <1>1, <1>9, <1>11, SoundParts
  <2>2. CASE \E k \in Nodes(f) : i = k + next_id
    BY <2>2, <1>1, <1>9, <1>12
  <2> QED BY <2>1, <2>2, <1>13
<1>16. n.metamodels = n.loaded
  BY <1>1, <1>9, SoundParts
<1> QED BY <1>9, <1>10, <1>14, <1>15, <1>16, SoundParts DEF n

-----------------------------------------------------------------------------
(* Trails.                                                                 *)

\* S[i] is the model when the first i entries of j are applied; the model is now m
Trail(S, j, m) ==
    /\ S \in [0 .. Len(j.log) -> Sound]
    /\ S[0] = EmptyModel
    /\ \A i \in 1 .. Len(j.log) : Explains(S[i - 1], j.log[i], S[i])
    /\ S[j.index] = m
    /\ j.index < Len(j.log) => IsMarker(j.log[j.index + 1])

\* Redoing entries one by one leads along the models between them.
LEMMA RedoAlong ==
    ASSUME NEW es, Len(es) \in Nat, NEW M, NEW T \in [0 .. Len(es) -> M],
           \A i \in 1 .. Len(es) : T[i] = Redo(T[i - 1], es[i])
    PROVE  RedoAll(T[0], es) = T[Len(es)]
<1> DEFINE n == Len(es)
           F(g) == [i \in 0 .. n |-> IF i = 0 THEN T[0] ELSE Redo(g[i - 1], es[i])]
           r == CHOOSE g : g = F(g)
<1>1. RedoAll(T[0], es) = r[n]
  BY DEF RedoAll
<1>2. T = F(T)
  <2>1. \A i \in 0 .. n : T[i] = IF i = 0 THEN T[0] ELSE Redo(T[i - 1], es[i])
    OBVIOUS
  <2> QED BY <2>1
<1>3. r = F(r)
  BY <1>2
<1> HIDE DEF r
<1> DEFINE P == { i \in Nat : i <= n => r[i] = T[i] }
<1>4. 0 \in P
  <2>1. r[0] = T[0]
    BY <1>3
  <2> QED BY <2>1
<1>5. ASSUME NEW i \in Nat, i \in P PROVE i + 1 \in P
  <2>1. SUFFICES ASSUME i + 1 <= n PROVE r[i + 1] = T[i + 1]
    OBVIOUS
  <2>2. r[i + 1] = Redo(r[i], es[i + 1])
    <3>1. i + 1 \in 0 .. n /\ i + 1 # 0 /\ (i + 1) - 1 = i
      BY <2>1
    <3> QED BY <3>1, <1>3
  <2>3. T[i + 1] = Redo(T[i], es[i + 1])
    <3>1. i + 1 \in 1 .. n /\ (i + 1) - 1 = i
      BY <2>1
    <3> QED BY <3>1
  <2> QED BY <1>5, <2>1, <2>2, <2>3
<1>6. n \in P
  <2> HIDE DEF P
  <2>1. Nat \subseteq P
    BY <1>4, <1>5, NatSetInduction
  <2> QED BY <2>1
<1> QED BY <1>1, <1>6

\* Undoing them leads back.
LEMMA UndoAlong ==
    ASSUME NEW es, Len(es) \in Nat, NEW M, NEW T \in [0 .. Len(es) -> M],
           \A i \in 1 .. Len(es) : T[i - 1] = Undo(T[i], es[i])
    PROVE  UndoAll(T[Len(es)], es) = T[0]
<1> DEFINE n == Len(es)
           m == T[n]
           F(g) == [i \in 0 .. n |-> IF i = 0 THEN m ELSE Undo(g[i - 1], es[n + 1 - i])]
           u == CHOOSE g : g = F(g)
           U == [i \in 0 .. n |-> T[n - i]]
<1>1. UndoAll(m, es) = u[n]
  BY DEF UndoAll
<1>2. ASSUME NEW i \in 1 .. n PROVE T[n - i] = Undo(T[n - (i - 1)], es[n + 1 - i])
  <2>1. n + 1 - i \in 1 .. n /\ (n + 1 - i) - 1 = n - i /\ n + 1 - i = n - (i - 1)
    OBVIOUS
  <2> QED BY <2>1
<1>3. U = F(U)
  <2>1. ASSUME NEW i \in 0 .. n
        PROVE  T[n - i] = IF i = 0 THEN m ELSE Undo(U[i - 1], es[n + 1 - i])
    <3>1. CASE i = 0
      BY <3>1
    <3>2. CASE i # 0
      <4>1. i \in 1 .. n /\ i - 1 \in 0 .. n
        BY <3>2
      <4> QED BY <4>1, <3>2, <1>2
    <3> QED BY <3>1, <3>2
  <2> QED BY <2>1
<1>4. u = F(u)
  BY <1>3
<1> HIDE DEF u, U, m
<1> DEFINE P == { i \in Nat : i <= n => u[i] = T[n - i] }
<1>5. 0 \in P
  <2>1. u[0] = m /\ n - 0 = n
    BY <1>4
  <2> QED BY <2>1 DEF m
<1>6. ASSUME NEW i \in Nat, i \in P PROVE i + 1 \in P
  <2>1. SUFFICES ASSUME i + 1 <= n PROVE u[i + 1] = T[n - (i + 1)]
    OBVIOUS
  <2>2. u[i + 1] = Undo(u[i], es[n + 1 - (i + 1)])
    <3>1. i + 1 \in 0 .. n /\ i + 1 # 0 /\ (i + 1) - 1 = i
      BY <2>1
    <3> QED BY <3>1, <1>4
  <2>3. T[n - (i + 1)] = Undo(T[n - i], es[n + 1 - (i + 1)])
    <3>1. i + 1 \in 1 .. n /\ (i + 1) - 1 = i
      BY <2>1
    <3> QED BY <3>1, <1>2
  <2> QED BY <1>6, <2>1, <2>2, <2>3
<1>7. u[n] = T[0]
  <2>1. n \in P
    <3> HIDE DEF P
    <3>1. Nat \subseteq P
      BY <1>5, <1>6, NatSetInduction
    <3> QED BY <3>1
  <2>2. n - n = 0
    OBVIOUS
  <2> QED BY <2>1, <2>2
<1> QED BY <1>1, <1>7 DEF m

\* A marker stands between a model and itself.
LEMMA MarkerKeeps ==
    ASSUME NEW m, NEW e, NEW n, Explains(m, e, n), IsMarker(e)
    PROVE  n = m
  BY DEF Explains, IsMarker, Redo

\* The entries between two positions of a trail lead from the model at the one to the
\* model at the other, and back.
LEMMA TrailBetween ==
    ASSUME NEW j \in Journals(Entry), NEW S, NEW m, Trail(S, j, m),
           NEW a \in Nat, NEW b \in Nat, a <= b, b <= Len(j.log)
    PROVE  /\ RedoAll(S[a], SubSeq(j.log, a + 1, b)) = S[b]
           /\ UndoAll(S[b], SubSeq(j.log, a + 1, b)) = S[a]
<1> DEFINE es == SubSeq(j.log, a + 1, b)
           T == [i \in 0 .. Len(es) |-> S[a + i]]
<1>1. j.log \in Seq(Entry)
  BY JournalTypes
<1>2. Len(es) = b - a /\ Len(es) \in Nat /\ \A i \in 1 .. b - a : es[i] = j.log[a + i]
  <2>1. Len(es) = b - a /\ \A i \in 1 .. b - a : es[i] = j.log[a + i]
    BY <1>1, Between
  <2> QED BY <2>1
<1> HIDE DEF es
<1>3. /\ S \in [0 .. Len(j.log) -> Sound] /\ Len(j.log) \in Nat
      /\ \A i \in 1 .. Len(j.log) : S[i] = Redo(S[i - 1], j.log[i]) /\ S[i - 1] = Undo(S[i], j.log[i])
  BY JournalTypes DEF Trail, Explains
<1>4. T \in [0 .. Len(es) -> Sound] /\ T[0] = S[a] /\ T[Len(es)] = S[b]
  <2>1. ASSUME NEW i \in 0 .. b - a PROVE S[a + i] \in Sound
    BY <1>3
  <2>2. a + 0 = a /\ a + (b - a) = b
    OBVIOUS
  <2> QED BY <2>1, <2>2, <1>2
<1>5. ASSUME NEW i \in 1 .. Len(es)
      PROVE  T[i] = Redo(T[i - 1], es[i]) /\ T[i - 1] = Undo(T[i], es[i])
  <2>1. /\ i \in 0 .. Len(es) /\ i - 1 \in 0 .. Len(es) /\ a + i \in 1 .. Len(j.log)
        /\ a + (i - 1) = (a + i) - 1
    BY <1>2, <1>3
  <2>2. T[i] = S[a + i] /\ T[i - 1] = S[(a + i) - 1] /\ es[i] = j.log[a + i]
    BY <2>1, <1>2
  <2> HIDE DEF T
  <2> QED BY <2>1, <2>2, <1>3
<1> HIDE DEF T
<1>6. RedoAll(T[0], es) = T[Len(es)] /\ UndoAll(T[Len(es)], es) = T[0]
  BY <1>2, <1>4, <1>5, RedoAlong, UndoAlong
<1> QED BY <1>4, <1>6 DEF es

\* Nothing is redone from the end of the log.
LEMMA RedoNothing ==
    ASSUME NEW m
    PROVE  RedoAll(m, <<>>) = m
<1> DEFINE T == [i \in 0 .. 0 |-> m]
<1>1. /\ Len(<<>>) = 0 /\ T \in [0 .. Len(<<>>) -> {m}]
      /\ \A i \in 1 .. Len(<<>>) : T[i] = Redo(T[i - 1], <<>>[i])
  OBVIOUS
<1>2. T[0] = m
  OBVIOUS
<1> HIDE DEF T
<1>3. RedoAll(T[0], <<>>) = T[Len(<<>>)]
  BY <1>1, RedoAlong
<1> QED BY <1>1, <1>2, <1>3

\* Undo and redo move along a trail.
LEMMA TrailMoved ==
    ASSUME NEW j \in Journals(Entry), NEW S, NEW m, Trail(S, j, m),
           NEW k \in Journals(Entry), k.log = j.log,
           k.index < Len(j.log) => IsMarker(j.log[k.index + 1])
    PROVE  Trail(S, k, S[k.index])
  BY DEF Trail

\* Logging an entry that explains the next model prolongs a trail.
LEMMA TrailLogged ==
    ASSUME NEW j \in Journals(Entry), NEW S, NEW m, Trail(S, j, m),
           NEW e \in Entry, NEW n \in Sound, Explains(m, e, n)
    PROVE  \E R : Trail(R, Log(j, e), n) /\ \A k \in 0 .. j.index : R[k] = S[k]
<1> DEFINE l == Log(j, e)
           R == [k \in 0 .. j.index + 1 |-> IF k <= j.index THEN S[k] ELSE n]
<1>1. /\ Len(l.log) = j.index + 1 /\ l.index = j.index + 1
      /\ \A i \in 1 .. j.index : l.log[i] = j.log[i]
      /\ l.log[j.index + 1] = e
      /\ j.index \in Nat /\ j.index <= Len(j.log) /\ Len(j.log) \in Nat
  BY LogFacts, JournalTypes
<1> HIDE DEF l
<1>2. /\ S \in [0 .. Len(j.log) -> Sound] /\ S[0] = EmptyModel /\ S[j.index] = m
      /\ \A i \in 1 .. Len(j.log) : Explains(S[i - 1], j.log[i], S[i])
  BY DEF Trail
<1>3. R \in [0 .. Len(l.log) -> Sound] /\ R[0] = EmptyModel /\ R[l.index] = n
  BY <1>1, <1>2
<1>4. ASSUME NEW i \in 1 .. Len(l.log) PROVE Explains(R[i - 1], l.log[i], R[i])
  <2>1. CASE i <= j.index
    <3>1. R[i] = S[i] /\ R[i - 1] = S[i - 1] /\ l.log[i] = j.log[i] /\ i \in 1 .. Len(j.log)
      BY <2>1, <1>1
    <3> QED BY <3>1, <1>2
  <2>2. CASE i = j.index + 1
    <3>1. R[i] = n /\ R[i - 1] = m /\ l.log[i] = e
      BY <2>2, <1>1, <1>2
    <3> QED BY <3>1
  <2> QED BY <2>1, <2>2, <1>1
<1>5. ~(l.index < Len(l.log))
  BY <1>1
<1>6. \A k \in 0 .. j.index : R[k] = S[k]
  BY <1>1
<1>7. Trail(R, l, n)
  BY <1>3, <1>4, <1>5 DEF Trail
<1> QED BY <1>6, <1>7 DEF l

\* Clearing the last checkpoint shortens it.
LEMMA TrailCleared ==
    ASSUME NEW j \in Journals(Entry), NEW S, NEW m, Trail(S, j, m),
           CrudCheckpoints(j) # {}, j.index = Len(j.log)
    PROVE  \E R : /\ Trail(R, ClearCheckpoint(j), m)
                  /\ \A k \in 0 .. LastCheckpoint(j) - 1 : R[k] = S[k]
                  /\ \A k \in LastCheckpoint(j) .. j.index - 1 : R[k] = S[k + 1]
<1> DEFINE c == LastCheckpoint(j)
           l == ClearCheckpoint(j)
           R == [k \in 0 .. j.index - 1 |-> IF k < c THEN S[k] ELSE S[k + 1]]
<1>1. /\ Len(l.log) = j.index - 1 /\ l.index = j.index - 1
      /\ \A i \in 1 .. c - 1 : l.log[i] = j.log[i]
      /\ \A i \in c .. j.index - 1 : l.log[i] = j.log[i + 1]
      /\ j.index \in Nat /\ j.index = Len(j.log)
  BY ClearFacts, JournalTypes
<1>2. c \in 1 .. j.index /\ IsMarker(j.log[c])
  BY LastCheckpointFacts DEF CrudCheckpoints, IsCheckpoint, IsMarker
<1> HIDE DEF l, c
<1>3. /\ S \in [0 .. j.index -> Sound] /\ S[0] = EmptyModel /\ S[j.index] = m
      /\ \A i \in 1 .. j.index : Explains(S[i - 1], j.log[i], S[i])
  BY <1>1 DEF Trail
<1>4. S[c] = S[c - 1]
  BY <1>2, <1>3, MarkerKeeps
<1>5. R \in [0 .. Len(l.log) -> Sound] /\ R[0] = EmptyModel
  <2>1. ASSUME NEW k \in 0 .. j.index - 1 PROVE (IF k < c THEN S[k] ELSE S[k + 1]) \in Sound
    <3>1. k \in 0 .. j.index /\ k + 1 \in 0 .. j.index
      BY <1>1
    <3>2. S[k] \in Sound /\ S[k + 1] \in Sound
      BY <3>1, <1>3
    <3> QED BY <3>2
  <2>2. 0 \in 0 .. j.index - 1 /\ 0 < c
    BY <1>1, <1>2
  <2> QED BY <2>1, <2>2, <1>1, <1>3
<1>6. R[l.index] = m
  <2>1. j.index - 1 \in 0 .. j.index - 1 /\ (j.index - 1) + 1 = j.index
    BY <1>1, <1>2
  <2>2. CASE c = j.index
    BY <2>1, <2>2, <1>1, <1>3, <1>4
  <2>3. CASE c < j.index
    <3>1. ~(j.index - 1 < c)
      BY <2>3, <1>1, <1>2
    <3> QED BY <2>1, <3>1, <1>1, <1>3
  <2> QED BY <2>2, <2>3, <1>1, <1>2
<1>7. ASSUME NEW i \in 1 .. Len(l.log) PROVE Explains(R[i - 1], l.log[i], R[i])
  <2>0. i \in 1 .. j.index - 1 /\ i \in 0 .. j.index - 1 /\ i - 1 \in 0 .. j.index - 1
    BY <1>1
  <2>1. CASE i < c
    <3>1. R[i] = S[i] /\ R[i - 1] = S[i - 1] /\ l.log[i] = j.log[i] /\ i \in 1 .. j.index
      BY <2>0, <2>1, <1>1, <1>2
    <3> QED BY <3>1, <1>3
  <2>2. CASE i = c
    <3>1. R[i] = S[i + 1] /\ R[i - 1] = S[i - 1] /\ l.log[i] = j.log[i + 1]
      BY <2>0, <2>2, <1>1, <1>2
    <3>2. i + 1 \in 1 .. j.index /\ (i + 1) - 1 = i
      BY <2>0, <1>1
    <3> QED BY <3>1, <3>2, <2>2, <1>3, <1>4
  <2>3. CASE i > c
    <3>1. R[i] = S[i + 1] /\ R[i - 1] = S[(i - 1) + 1] /\ l.log[i] = j.log[i + 1]
      <4>1. ~(i < c) /\ ~(i - 1 < c) /\ i \in c .. j.index - 1
        BY <2>0, <2>3, <1>1, <1>2
      <4>2. l.log[i] = j.log[i + 1]
        BY <4>1, <1>1
      <4>3. R[i] = S[i + 1] /\ R[i - 1] = S[(i - 1) + 1]
        BY <4>1, <2>0
      <4> QED BY <4>2, <4>3
    <3>2. i + 1 \in 1 .. j.index /\ (i + 1) - 1 = i /\ (i - 1) + 1 = i
      BY <2>0, <1>1
    <3> QED BY <3>1, <3>2, <1>3
  <2> QED BY <2>0, <2>1, <2>2, <2>3, <1>2
<1>8. Trail(R, l, m)
  <2>1. ~(l.index < Len(l.log))
    BY <1>1
  <2> QED BY <2>1, <1>5, <1>6, <1>7 DEF Trail
<1>9. /\ \A k \in 0 .. c - 1 : R[k] = S[k]
      /\ \A k \in c .. j.index - 1 : R[k] = S[k + 1]
  BY <1>1, <1>2
<1> QED BY <1>8, <1>9 DEF l, c

\* Restoring the last checkpoint goes back along it to there.
LEMMA TrailRestored ==
    ASSUME NEW j \in Journals(Entry), NEW S, NEW m, Trail(S, j, m),
           CrudCheckpoints(j) # {}, j.index = Len(j.log)
    PROVE  /\ UndoAll(m, RestoredEntries(j)) = S[LastCheckpoint(j) - 1]
           /\ \E R : /\ Trail(R, RestoreCheckpoint(j), S[LastCheckpoint(j) - 1])
                     /\ \A k \in 0 .. LastCheckpoint(j) - 1 : R[k] = S[k]
<1> DEFINE c == LastCheckpoint(j)
           l == RestoreCheckpoint(j)
           R == [k \in 0 .. c - 1 |-> S[k]]
<1>1. /\ Len(l.log) = c - 1 /\ l.index = c - 1
      /\ \A i \in 1 .. c - 1 : l.log[i] = j.log[i]
      /\ j.index \in Nat /\ j.index = Len(j.log)
  BY RestoreFacts, JournalTypes
<1>2. c \in 1 .. j.index /\ IsMarker(j.log[c])
  BY LastCheckpointFacts DEF CrudCheckpoints, IsCheckpoint, IsMarker
<1>3. /\ S \in [0 .. j.index -> Sound] /\ S[0] = EmptyModel /\ S[j.index] = m
      /\ \A i \in 1 .. j.index : Explains(S[i - 1], j.log[i], S[i])
  BY <1>1 DEF Trail
<1>4. RestoredEntries(j) = SubSeq(j.log, c + 1, j.index)
  BY DEF RestoredEntries
<1> HIDE DEF l, c
<1>5. S[c] = S[c - 1]
  BY <1>2, <1>3, MarkerKeeps
<1>6. UndoAll(m, RestoredEntries(j)) = S[c - 1]
  <2>1. c \in Nat /\ c <= j.index
    BY <1>1, <1>2
  <2>2. UndoAll(S[j.index], SubSeq(j.log, c + 1, j.index)) = S[c]
    BY <2>1, <1>1, TrailBetween
  <2> QED BY <2>2, <1>3, <1>4, <1>5
<1>7. Trail(R, l, S[c - 1])
  <2>1. R \in [0 .. Len(l.log) -> Sound] /\ R[0] = EmptyModel /\ R[l.index] = S[c - 1]
    <3>1. 0 \in 0 .. c - 1 /\ c - 1 \in 0 .. c - 1 /\ 0 .. c - 1 \subseteq 0 .. j.index
      BY <1>1, <1>2
    <3>2. R[0] = S[0] /\ R[c - 1] = S[c - 1]
      BY <3>1
    <3>3. \A k \in 0 .. c - 1 : S[k] \in Sound
      BY <3>1, <1>3
    <3>4. R \in [0 .. c - 1 -> Sound]
      BY <3>3
    <3> QED BY <3>2, <3>4, <1>1, <1>3
  <2>2. ASSUME NEW i \in 1 .. Len(l.log) PROVE Explains(R[i - 1], l.log[i], R[i])
    <3>1. R[i] = S[i] /\ R[i - 1] = S[i - 1] /\ l.log[i] = j.log[i] /\ i \in 1 .. j.index
      BY <1>1, <1>2
    <3> QED BY <3>1, <1>3
  <2>3. ~(l.index < Len(l.log))
    BY <1>1, <1>2
  <2> QED BY <2>1, <2>2, <2>3 DEF Trail
<1>8. \A k \in 0 .. c - 1 : R[k] = S[k]
  OBVIOUS
<1> QED BY <1>6, <1>7, <1>8 DEF l, c

-----------------------------------------------------------------------------
(* Programs: crudOps nest, and no call meets a model it cannot deal with.  *)

Delta(c) == IF c.call = "open" THEN 1 ELSE IF c.call = "close" THEN -1 ELSE 0

\* running p inside l crudOps ends inside m of them, and is outside of all only then
Flow(p, l, m) ==
    \E L \in [1 .. Len(p) + 1 -> Nat] :
       /\ L[1] = l /\ L[Len(p) + 1] = m
       /\ \A k \in 1 .. Len(p) :
             L[k] > 0 /\ L[k + 1] = L[k] + Delta(p[k]) /\ p[k].call # "dumpmm"

\* unloadMetamodel opens no crudOp
Flat(p) ==
    /\ p # <<>>
    /\ \A k \in 1 .. Len(p) : /\ p[k].call \in {"rmedges", "rmnodes", "dumpmm"}
                              /\ p[k].call = "dumpmm" <=> k = Len(p)

\* x is a node of that kind when call k of p is reached
WillBe(p, k, m, x, kind) ==
    \/ x \in Nodes(m) /\ m.nodes[x].kind = kind
    \/ \E j \in 1 .. k - 1 : p[j].call = "mknode" /\ p[j].id = x /\ p[j].kind = kind

Makes(p, m, next) ==
    \A k \in 1 .. Len(p) :
       /\ p[k].call \in {"open", "close", "handlers", "mknode", "mkedge", "chattr"}
       /\ p[k].call = "mknode" =>
             /\ p[k].id = next /\ next \notin Nodes(m) /\ p[k].mm \in m.loaded
             /\ \A j \in 1 .. Len(p) : p[j].call = "mknode" => j = k
       /\ p[k].call = "mkedge" =>
             \/ WillBe(p, k, m, p[k].src, "node") /\ WillBe(p, k, m, p[k].dest, "connector")
             \/ WillBe(p, k, m, p[k].src, "connector") /\ WillBe(p, k, m, p[k].dest, "node")
       /\ p[k].call = "chattr" => p[k].id \in Nodes(m)

\* when call k of p is reached no edge touches ids
WillBeBare(p, k, m, ids) ==
    \/ EdgesOf(m, ids) = {}
    \/ \E j \in 1 .. k - 1 : \/ p[j].call = "rmedges" /\ p[j].ids = ids
                             \/ p[j].call = "cascade" /\ {p[j].id} = ids

Removes(p, m, next) ==
    /\ next \notin Nodes(m)
    /\ \A k \in 1 .. Len(p) :
       /\ p[k].call \in {"open", "close", "handlers", "rmedges", "rmnodes", "cascade", "dumpmm"}
       /\ p[k].call = "rmnodes" => WillBeBare(p, k, m, p[k].ids)
       /\ p[k].call = "dumpmm" =>
             /\ p[k].mm \in m.loaded
             /\ \/ NodesOf(m, p[k].mm) = {}
                \/ \E j \in 1 .. k - 1 : p[j].call = "rmnodes" /\ NodesOf(m, p[k].mm) \subseteq p[j].ids


-----------------------------------------------------------------------------
(* Lemmas about programs.                                                  *)

\* The first call of a program, and the others.
LEMMA TailFacts ==
    ASSUME NEW E, NEW p \in Seq(E), p # <<>>
    PROVE  /\ Head(p) = p[1] /\ p[1] \in E /\ Len(p) \in Nat \ {0}
           /\ Tail(p) \in Seq(E) /\ Len(Tail(p)) = Len(p) - 1
           /\ \A k \in 1 .. Len(p) - 1 : Tail(p)[k] = p[k + 1]
<1>1. Len(p) \in Nat \ {0}
  BY EmptySeq, LenProperties
<1>2. Head(p) = p[1] /\ p[1] \in E
  BY <1>1, HeadTailProperties, ElementOfSeq
<1>3. /\ Tail(p) \in Seq(E) /\ Len(Tail(p)) = Len(p) - 1
      /\ \A k \in 1 .. Len(p) - 1 : Tail(p)[k] = p[k + 1]
  BY <1>1, HeadTailProperties
<1> QED BY <1>1, <1>2, <1>3

\* The calls of a crudOp.
LEMMA CrudFacts ==
    ASSUME NEW p \in Seq(Call)
    PROVE  /\ Crud(p) \in Seq(Call) /\ Len(Crud(p)) = Len(p) + 4 /\ Len(p) \in Nat
           /\ Crud(p)[1] = OpenCall /\ Crud(p)[2] = HandlersCall
           /\ \A k \in 1 .. Len(p) : Crud(p)[k + 2] = p[k]
           /\ Crud(p)[Len(p) + 3] = HandlersCall /\ Crud(p)[Len(p) + 4] = CloseCall
<1> DEFINE a == <<OpenCall, HandlersCall>>
           b == <<HandlersCall, CloseCall>>
           ap == a \o p
<1>1. /\ a \in Seq(Call) /\ Len(a) = 2 /\ a[1] = OpenCall /\ a[2] = HandlersCall
      /\ b \in Seq(Call) /\ Len(b) = 2 /\ b[1] = HandlersCall /\ b[2] = CloseCall
      /\ Len(p) \in Nat
  <2>1. OpenCall \in Call /\ HandlersCall \in Call /\ CloseCall \in Call
    BY DEF OpenCall, HandlersCall, CloseCall, Call
  <2> HIDE DEF OpenCall, HandlersCall, CloseCall, Call
  <2> QED BY <2>1, LenProperties
<1>2. Crud(p) = ap \o b
  BY DEF Crud
<1> HIDE DEF a, b
<1>3. /\ ap \in Seq(Call) /\ Len(ap) = Len(p) + 2
      /\ \A k \in 1 .. 2 + Len(p) : ap[k] = IF k <= 2 THEN a[k] ELSE p[k - 2]
  <2>1. /\ ap \in Seq(Call) /\ Len(ap) = Len(a) + Len(p)
        /\ \A k \in 1 .. Len(a) + Len(p) : ap[k] = IF k <= Len(a) THEN a[k] ELSE p[k - Len(a)]
    BY <1>1, ConcatProperties
  <2> HIDE DEF ap
  <2> QED BY <2>1, <1>1
<1> HIDE DEF ap
<1>4. /\ Crud(p) \in Seq(Call) /\ Len(Crud(p)) = Len(p) + 4
      /\ \A k \in 1 .. Len(p) + 4 : Crud(p)[k] = IF k <= Len(p) + 2 THEN ap[k] ELSE b[k - (Len(p) + 2)]
  <2>1. /\ ap \o b \in Seq(Call) /\ Len(ap \o b) = Len(ap) + Len(b)
        /\ \A k \in 1 .. Len(ap) + Len(b) : (ap \o b)[k] = IF k <= Len(ap) THEN ap[k] ELSE b[k - Len(ap)]
    BY <1>1, <1>3, ConcatProperties
  <2> QED BY <2>1, <1>1, <1>2, <1>3
<1>5. Crud(p)[1] = OpenCall /\ Crud(p)[2] = HandlersCall
  BY <1>1, <1>3, <1>4
<1>6. ASSUME NEW k \in 1 .. Len(p) PROVE Crud(p)[k + 2] = p[k]
  <2>1. k + 2 \in 1 .. Len(p) + 4 /\ k + 2 <= Len(p) + 2 /\ k + 2 \in 1 .. 2 + Len(p)
        /\ ~(k + 2 <= 2) /\ (k + 2) - 2 = k
    BY <1>1
  <2> QED BY <2>1, <1>3, <1>4
<1>7. Crud(p)[Len(p) + 3] = HandlersCall /\ Crud(p)[Len(p) + 4] = CloseCall
  <2>1. /\ Len(p) + 3 \in 1 .. Len(p) + 4 /\ ~(Len(p) + 3 <= Len(p) + 2) /\ (Len(p) + 3) - (Len(p) + 2) = 1
        /\ Len(p) + 4 \in 1 .. Len(p) + 4 /\ ~(Len(p) + 4 <= Len(p) + 2) /\ (Len(p) + 4) - (Len(p) + 2) = 2
    BY <1>1
  <2> QED BY <2>1, <1>1, <1>4
<1> QED BY <1>1, <1>4, <1>5, <1>6, <1>7

\* Nothing flows from l only to l.
LEMMA FlowNothing ==
    ASSUME NEW p, Len(p) = 0, NEW l, NEW m, Flow(p, l, m)
    PROVE  l = m
  BY DEF Flow

\* A program flows on after its first call, and inside of a crudOp unless it is over.
LEMMA FlowTail ==
    ASSUME NEW p \in Seq(Call), p # <<>>, NEW l \in Nat, Flow(p, l, 0)
    PROVE  /\ l > 0 /\ Head(p).call # "dumpmm" /\ l + Delta(Head(p)) \in Nat
           /\ Flow(Tail(p), l + Delta(Head(p)), 0)
           /\ Tail(p) # <<>> => l + Delta(Head(p)) > 0
<1> DEFINE n == Len(p)
           d == Delta(Head(p))
<1>1. PICK L \in [1 .. n + 1 -> Nat] :
         /\ L[1] = l /\ L[n + 1] = 0
         /\ \A k \in 1 .. n : L[k] > 0 /\ L[k + 1] = L[k] + Delta(p[k]) /\ p[k].call # "dumpmm"
  BY DEF Flow
<1>2. /\ n \in Nat \ {0} /\ Head(p) = p[1] /\ Len(Tail(p)) = n - 1 /\ Tail(p) \in Seq(Call)
      /\ \A k \in 1 .. n - 1 : Tail(p)[k] = p[k + 1]
  BY TailFacts
<1>3. l > 0 /\ Head(p).call # "dumpmm" /\ L[2] = l + d
  BY <1>1, <1>2
<1>4. l + d \in Nat
  <2>1. 2 \in 1 .. n + 1
    BY <1>2
  <2> QED BY <2>1, <1>1, <1>3
<1> HIDE DEF d, n
<1> DEFINE K == [k \in 1 .. (n - 1) + 1 |-> L[k + 1]]
<1>5. K \in [1 .. (n - 1) + 1 -> Nat] /\ K[1] = l + d /\ K[(n - 1) + 1] = 0
  <2>1. ASSUME NEW k \in 1 .. (n - 1) + 1 PROVE L[k + 1] \in Nat
    <3>1. k + 1 \in 1 .. n + 1
      BY <1>2
    <3> QED BY <3>1, <1>1
  <2>2. 1 \in 1 .. (n - 1) + 1 /\ (n - 1) + 1 \in 1 .. (n - 1) + 1 /\ ((n - 1) + 1) + 1 = n + 1
    BY <1>2
  <2> QED BY <2>1, <2>2, <1>1, <1>3
<1>6. ASSUME NEW k \in 1 .. n - 1
      PROVE  K[k] > 0 /\ K[k + 1] = K[k] + Delta(Tail(p)[k]) /\ Tail(p)[k].call # "dumpmm"
  <2>1. k \in 1 .. (n - 1) + 1 /\ k + 1 \in 1 .. (n - 1) + 1 /\ k + 1 \in 1 .. n
    BY <1>2
  <2>2. K[k] = L[k + 1] /\ K[k + 1] = L[(k + 1) + 1] /\ Tail(p)[k] = p[k + 1]
    BY <2>1, <1>2
  <2> QED BY <2>1, <2>2, <1>1
<1>7. Flow(Tail(p), l + d, 0)
  <2> HIDE DEF K
  <2> QED BY <1>2, <1>5, <1>6 DEF Flow
<1>8. Tail(p) # <<>> => l + d > 0
  <2>1. SUFFICES ASSUME Tail(p) # <<>> PROVE l + d > 0
    OBVIOUS
  <2>2. n - 1 > 0 /\ 2 \in 1 .. n
    BY <2>1, <1>2, EmptySeq
  <2> QED BY <2>2, <1>1, <1>3
<1> QED BY <1>3, <1>4, <1>7, <1>8 DEF d

\* One program flows into the next.
LEMMA FlowConcat ==
    ASSUME NEW p \in Seq(Call), NEW q \in Seq(Call), NEW l, NEW m, NEW n,
           Flow(p, l, m), Flow(q, m, n)
    PROVE  Flow(p \o q, l, n)
<1> DEFINE a == Len(p)
           b == Len(q)
           pq == p \o q
<1>1. PICK L \in [1 .. a + 1 -> Nat] :
         /\ L[1] = l /\ L[a + 1] = m
         /\ \A k \in 1 .. a : L[k] > 0 /\ L[k + 1] = L[k] + Delta(p[k]) /\ p[k].call # "dumpmm"
  BY DEF Flow
<1>2. PICK M \in [1 .. b + 1 -> Nat] :
         /\ M[1] = m /\ M[b + 1] = n
         /\ \A k \in 1 .. b : M[k] > 0 /\ M[k + 1] = M[k] + Delta(q[k]) /\ q[k].call # "dumpmm"
  BY DEF Flow
<1>3. /\ a \in Nat /\ b \in Nat /\ Len(pq) = a + b
      /\ \A k \in 1 .. a + b : pq[k] = IF k <= a THEN p[k] ELSE q[k - a]
  BY ConcatProperties, LenProperties
<1> HIDE DEF a, b, pq
<1> DEFINE N == [k \in 1 .. (a + b) + 1 |-> IF k <= a THEN L[k] ELSE M[k - a]]
<1>4. /\ N \in [1 .. (a + b) + 1 -> Nat]
      /\ \A k \in 1 .. a + 1 : N[k] = L[k]
      /\ \A k \in a + 1 .. (a + b) + 1 : N[k] = M[k - a]
  <2>1. ASSUME NEW k \in 1 .. (a + b) + 1
        PROVE  (k <= a => k \in 1 .. a + 1) /\ (~(k <= a) => k - a \in 1 .. b + 1)
    BY <1>3
  <2>2. N \in [1 .. (a + b) + 1 -> Nat]
    BY <2>1, <1>1, <1>2
  <2>3. ASSUME NEW k \in 1 .. a + 1 PROVE N[k] = L[k]
    <3>1. k \in 1 .. (a + b) + 1 /\ (k <= a \/ (k = a + 1 /\ k - a = 1))
      BY <1>3
    <3> QED BY <3>1, <1>1, <1>2, <1>3
  <2>4. ASSUME NEW k \in a + 1 .. (a + b) + 1 PROVE N[k] = M[k - a]
    <3>1. k \in 1 .. (a + b) + 1 /\ ~(k <= a)
      BY <1>3
    <3> QED BY <3>1
  <2> QED BY <2>2, <2>3, <2>4
<1> HIDE DEF N
<1>5. N[1] = l /\ N[(a + b) + 1] = n
  <2>1. 1 \in 1 .. a + 1 /\ (a + b) + 1 \in a + 1 .. (a + b) + 1 /\ ((a + b) + 1) - a = b + 1
    BY <1>3
  <2> QED BY <2>1, <1>1, <1>2, <1>4
<1>6. ASSUME NEW k \in 1 .. a + b
      PROVE  N[k] > 0 /\ N[k + 1] = N[k] + Delta(pq[k]) /\ pq[k].call # "dumpmm"
  <2>1. CASE k <= a
    <3>1. k \in 1 .. a /\ k \in 1 .. a + 1 /\ k + 1 \in 1 .. a + 1
      BY <2>1, <1>3
    <3>2. pq[k] = p[k] /\ N[k] = L[k] /\ N[k + 1] = L[k + 1]
      BY <2>1, <3>1, <1>3, <1>4
    <3> QED BY <3>1, <3>2, <1>1
  <2>2. CASE ~(k <= a)
    <3>1. /\ k - a \in 1 .. b /\ k \in a + 1 .. (a + b) + 1 /\ k + 1 \in a + 1 .. (a + b) + 1
          /\ (k + 1) - a = (k - a) + 1
      BY <2>2, <1>3
    <3>2. pq[k] = q[k - a] /\ N[k] = M[k - a] /\ N[k + 1] = M[(k - a) + 1]
      BY <2>2, <3>1, <1>3, <1>4
    <3> QED BY <3>1, <3>2, <1>2
  <2> QED BY <2>1, <2>2
<1>7. Flow(pq, l, n)
  <2>1. N \in [1 .. Len(pq) + 1 -> Nat] /\ N[1] = l /\ N[Len(pq) + 1] = n
    BY <1>3, <1>4, <1>5
  <2>2. \A k \in 1 .. Len(pq) :
           N[k] > 0 /\ N[k + 1] = N[k] + Delta(pq[k]) /\ pq[k].call # "dumpmm"
    BY <1>3, <1>6
  <2> QED BY <2>1, <2>2 DEF Flow
<1> QED BY <1>7 DEF pq

\* Calls that are neither ends of crudOps nor the last one of unloadMetamodel.
LEMMA FlowPlain ==
    ASSUME NEW p \in Seq(Call), NEW l \in Nat, l > 0,
           \A k \in 1 .. Len(p) : p[k].call \notin {"open", "close", "dumpmm"}
    PROVE  Flow(p, l, l)
<1>1. Len(p) \in Nat
  BY LenProperties
<1> DEFINE L == [k \in 1 .. Len(p) + 1 |-> l]
<1>2. L \in [1 .. Len(p) + 1 -> Nat] /\ L[1] = l /\ L[Len(p) + 1] = l
  BY <1>1
<1>3. ASSUME NEW k \in 1 .. Len(p)
      PROVE  L[k] > 0 /\ L[k + 1] = L[k] + Delta(p[k]) /\ p[k].call # "dumpmm"
  <2>1. k \in 1 .. Len(p) + 1 /\ k + 1 \in 1 .. Len(p) + 1
    BY <1>1
  <2>2. L[k] = l /\ L[k + 1] = l
    BY <2>1
  <2>3. Delta(p[k]) = 0 /\ p[k].call # "dumpmm"
    BY DEF Delta
  <2> QED BY <2>2, <2>3
<1> QED BY <1>2, <1>3 DEF Flow

\* The first half of a crudOp, and the second one.
LEMMA FlowEnds ==
    ASSUME NEW l \in Nat
    PROVE  /\ <<OpenCall, HandlersCall>> \in Seq(Call) /\ <<HandlersCall>> \in Seq(Call)
           /\ <<HandlersCall, CloseCall>> \in Seq(Call)
           /\ l > 0 => Flow(<<OpenCall, HandlersCall>>, l, l + 1)
           /\ Flow(<<HandlersCall>>, l + 1, l + 1)
           /\ Flow(<<HandlersCall, CloseCall>>, l + 1, l)
<1>1. OpenCall \in Call /\ HandlersCall \in Call /\ CloseCall \in Call
  BY DEF OpenCall, HandlersCall, CloseCall, Call
<1>2. /\ OpenCall.call = "open" /\ HandlersCall.call = "handlers" /\ CloseCall.call = "close"
      /\ Delta(OpenCall) = 1 /\ Delta(HandlersCall) = 0 /\ Delta(CloseCall) = -1
  BY DEF OpenCall, HandlersCall, CloseCall, Delta
<1> HIDE DEF OpenCall, HandlersCall, CloseCall, Call
<1>3. l > 0 => Flow(<<OpenCall, HandlersCall>>, l, l + 1)
  <2> SUFFICES ASSUME l > 0 PROVE Flow(<<OpenCall, HandlersCall>>, l, l + 1)
    OBVIOUS
  <2> DEFINE p == <<OpenCall, HandlersCall>>
             L == [k \in 1 .. 3 |-> IF k = 1 THEN l ELSE l + 1]
  <2>1. Len(p) = 2 /\ p[1] = OpenCall /\ p[2] = HandlersCall
    OBVIOUS
  <2>2. L \in [1 .. 3 -> Nat] /\ L[1] = l /\ L[2] = l + 1 /\ L[3] = l + 1
    OBVIOUS
  <2>3. \A k \in 1 .. 2 : k = 1 \/ k = 2
    OBVIOUS
  <2> HIDE DEF p, L
  <2>4. \A k \in 1 .. 2 : L[k] > 0 /\ L[k + 1] = L[k] + Delta(p[k]) /\ p[k].call # "dumpmm"
    BY <2>1, <2>2, <2>3, <1>2
  <2>5. Flow(p, l, l + 1)
    BY <2>1, <2>2, <2>4 DEF Flow
  <2> QED BY <2>5 DEF p
<1>4. Flow(<<HandlersCall>>, l + 1, l + 1)
  <2>1. /\ <<HandlersCall>> \in Seq(Call)
        /\ \A k \in 1 .. Len(<<HandlersCall>>) : <<HandlersCall>>[k] = HandlersCall
    BY <1>1
  <2>2. l + 1 \in Nat /\ l + 1 > 0
    OBVIOUS
  <2> DEFINE p == <<HandlersCall>>
  <2>3. p \in Seq(Call) /\ \A k \in 1 .. Len(p) : p[k].call \notin {"open", "close", "dumpmm"}
    BY <2>1, <1>2
  <2> HIDE DEF p
  <2>4. Flow(p, l + 1, l + 1)
    BY <2>2, <2>3, FlowPlain
  <2> QED BY <2>4 DEF p
<1>5. Flow(<<HandlersCall, CloseCall>>, l + 1, l)
  <2> DEFINE p == <<HandlersCall, CloseCall>>
             L == [k \in 1 .. 3 |-> IF k = 3 THEN l ELSE l + 1]
  <2>1. Len(p) = 2 /\ p[1] = HandlersCall /\ p[2] = CloseCall
    OBVIOUS
  <2>2. L \in [1 .. 3 -> Nat] /\ L[1] = l + 1 /\ L[2] = l + 1 /\ L[3] = l
    OBVIOUS
  <2>3. \A k \in 1 .. 2 : k = 1 \/ k = 2
    OBVIOUS
  <2> HIDE DEF p, L
  <2>4. \A k \in 1 .. 2 : L[k] > 0 /\ L[k + 1] = L[k] + Delta(p[k]) /\ p[k].call # "dumpmm"
    BY <2>1, <2>2, <2>3, <1>2
  <2>5. Flow(p, l + 1, l)
    BY <2>1, <2>2, <2>4 DEF Flow
  <2> QED BY <2>5 DEF p
<1> QED BY <1>1, <1>3, <1>4, <1>5

\* A crudOp ends inside as many crudOps as it began.
LEMMA FlowCrud ==
    ASSUME NEW p \in Seq(Call), NEW l \in Nat, l > 0, Flow(p, l + 1, l + 1)
    PROVE  Flow(Crud(p), l, l)
<1>1. <<OpenCall, HandlersCall>> \o p \in Seq(Call)
  BY FlowEnds, ConcatProperties
<1>2. Flow(<<OpenCall, HandlersCall>> \o p, l, l + 1)
  BY FlowEnds, FlowConcat
<1>3. Flow((<<OpenCall, HandlersCall>> \o p) \o <<HandlersCall, CloseCall>>, l, l)
  BY <1>1, <1>2, FlowEnds, FlowConcat
<1> QED BY <1>3 DEF Crud

\* The outermost one begins with its checkpoint, and runs to its end after that.
LEMMA FlowTop ==
    ASSUME NEW p \in Seq(Call), Flow(p, 1, 1)
    PROVE  /\ Crud(p) \in Seq(Call) /\ Crud(p) # <<>> /\ Head(Crud(p)).call = "open"
           /\ Flow(Tail(Crud(p)), 1, 0)
<1>1. /\ Crud(p) \in Seq(Call) /\ Len(Crud(p)) = Len(p) + 4 /\ Len(p) \in Nat
      /\ Crud(p)[1] = OpenCall /\ Crud(p)[2] = HandlersCall
      /\ \A k \in 1 .. Len(p) : Crud(p)[k + 2] = p[k]
      /\ Crud(p)[Len(p) + 3] = HandlersCall /\ Crud(p)[Len(p) + 4] = CloseCall
  BY CrudFacts
<1>2. Crud(p) # <<>>
  BY <1>1, EmptySeq
<1>3. Head(Crud(p)).call = "open"
  BY <1>1, <1>2, TailFacts DEF OpenCall
<1> DEFINE h == <<HandlersCall>> \o p
           t == h \o <<HandlersCall, CloseCall>>
<1>4. h \in Seq(Call) /\ t \in Seq(Call)
  BY FlowEnds, ConcatProperties
<1>5. Flow(h, 1, 1)
  BY FlowEnds, FlowConcat, 0 \in Nat, 0 + 1 = 1
<1>6. Flow(t, 1, 0)
  <2>1. Flow(<<HandlersCall, CloseCall>>, 1, 0) /\ <<HandlersCall, CloseCall>> \in Seq(Call)
    BY FlowEnds, 0 \in Nat, 0 + 1 = 1
  <2> HIDE DEF h
  <2> QED BY <2>1, <1>4, <1>5, FlowConcat
<1>7. Tail(Crud(p)) = t
  <2>1. /\ Tail(Crud(p)) \in Seq(Call) /\ Len(Tail(Crud(p))) = Len(p) + 3
        /\ \A k \in 1 .. Len(p) + 3 : Tail(Crud(p))[k] = Crud(p)[k + 1]
    <3>1. (Len(p) + 4) - 1 = Len(p) + 3
      BY <1>1
    <3> QED BY <3>1, <1>1, <1>2, TailFacts
  <2>2. /\ Len(h) = Len(p) + 1
        /\ \A k \in 1 .. Len(p) + 1 : h[k] = IF k <= 1 THEN HandlersCall ELSE p[k - 1]
    <3>1. /\ Len(<<HandlersCall>>) = 1 /\ <<HandlersCall>>[1] = HandlersCall
          /\ 1 + Len(p) = Len(p) + 1
          /\ \A k \in 1 .. 1 + Len(p) : k <= 1 => k = 1
      BY <1>1
    <3>2. /\ Len(h) = Len(<<HandlersCall>>) + Len(p)
          /\ \A k \in 1 .. Len(<<HandlersCall>>) + Len(p) :
                h[k] = IF k <= Len(<<HandlersCall>>) THEN <<HandlersCall>>[k] ELSE p[k - Len(<<HandlersCall>>)]
      BY FlowEnds, ConcatProperties
    <3> HIDE DEF h
    <3> QED BY <3>1, <3>2
  <2>3. /\ Len(t) = Len(p) + 3
        /\ \A k \in 1 .. Len(p) + 3 :
              t[k] = IF k <= Len(p) + 1 THEN h[k]
                     ELSE IF k = Len(p) + 2 THEN HandlersCall ELSE CloseCall
    <3> DEFINE e == <<HandlersCall, CloseCall>>
    <3>1. Len(e) = 2 /\ e[1] = HandlersCall /\ e[2] = CloseCall /\ e \in Seq(Call)
      BY FlowEnds, 0 \in Nat
    <3> HIDE DEF h, e
    <3>2. /\ Len(h \o e) = Len(h) + Len(e)
          /\ \A k \in 1 .. Len(h) + Len(e) : (h \o e)[k] = IF k <= Len(h) THEN h[k] ELSE e[k - Len(h)]
      BY <1>4, <3>1, ConcatProperties
    <3>3. /\ (Len(p) + 1) + 2 = Len(p) + 3
          /\ \A k \in 1 .. Len(p) + 3 : ~(k <= Len(p) + 1) =>
                \/ k = Len(p) + 2 /\ k - (Len(p) + 1) = 1
                \/ k = Len(p) + 3 /\ k # Len(p) + 2 /\ k - (Len(p) + 1) = 2
      BY <1>1
    <3>4. t = h \o e
      BY DEF e
    <3> HIDE DEF t
    <3> QED BY <3>1, <3>2, <3>3, <3>4, <2>2
  <2>4. ASSUME NEW k \in 1 .. Len(p) + 3 PROVE Tail(Crud(p))[k] = t[k]
    <3>1. \/ k = 1
          \/ k - 1 \in 1 .. Len(p) /\ (k - 1) + 2 = k + 1 /\ ~(k <= 1)
          \/ k = Len(p) + 2 \/ k = Len(p) + 3
      BY <1>1
    <3>2. CASE k = 1
      BY <3>2, <2>1, <2>2, <2>3, <1>1
    <3>3. CASE k - 1 \in 1 .. Len(p) /\ (k - 1) + 2 = k + 1 /\ ~(k <= 1)
      <4>1. k \in 1 .. Len(p) + 1 /\ k <= Len(p) + 1
        BY <3>3, <1>1
      <4> HIDE DEF h, t
      <4> QED BY <3>3, <4>1, <2>1, <2>2, <2>3, <1>1
    <3>4. CASE k = Len(p) + 2
      <4>1. k + 1 = Len(p) + 3 /\ ~(k <= Len(p) + 1)
        BY <3>4, <1>1
      <4> HIDE DEF h, t
      <4> QED BY <3>4, <4>1, <2>1, <2>3, <1>1
    <3>5. CASE k = Len(p) + 3
      <4>1. k + 1 = Len(p) + 4 /\ ~(k <= Len(p) + 1) /\ k # Len(p) + 2
        BY <3>5, <1>1
      <4> HIDE DEF h, t
      <4> QED BY <3>5, <4>1, <2>1, <2>3, <1>1
    <3> QED BY <3>1, <3>2, <3>3, <3>4, <3>5
  <2> HIDE DEF h, t
  <2>5. Len(Tail(Crud(p))) = Len(t) /\ \A k \in 1 .. Len(t) : Tail(Crud(p))[k] = t[k]
    BY <2>1, <2>3, <2>4
  <2> QED BY <2>1, <2>5, <1>4, SeqEqual
<1> QED BY <1>1, <1>2, <1>3, <1>6, <1>7

-----------------------------------------------------------------------------
(* What a program asks of the model goes on holding while it runs.         *)

\* A call of the program that makes things: it keeps the nodes there were and their
\* kinds, and makes the one it says.
LEMMA MakesTail ==
    ASSUME NEW p \in Seq(Call), p # <<>>, NEW m, NEW n, NEW next, Makes(p, m, next),
           Nodes(m) \subseteq Nodes(n), m.loaded = n.loaded,
           \A i \in Nodes(m) : n.nodes[i].kind = m.nodes[i].kind,
           IF Head(p).call = "mknode"
           THEN /\ Nodes(n) = Nodes(m) \cup {Head(p).id}
                /\ n.nodes[Head(p).id].kind = Head(p).kind
           ELSE Nodes(n) = Nodes(m)
    PROVE  Makes(Tail(p), n, next)
<1> DEFINE q == Tail(p)
<1>1. /\ Head(p) = p[1] /\ Len(p) \in Nat \ {0} /\ Len(q) = Len(p) - 1
      /\ \A k \in 1 .. Len(p) - 1 : q[k] = p[k + 1]
  BY TailFacts
<1> HIDE DEF q
<1>2. ASSUME NEW k \in 1 .. Len(p) - 1, NEW x, NEW kind, WillBe(p, k + 1, m, x, kind)
      PROVE  WillBe(q, k, n, x, kind)
  <2>1. CASE x \in Nodes(m) /\ m.nodes[x].kind = kind
    BY <2>1 DEF WillBe
  <2>2. CASE \E j \in 1 .. (k + 1) - 1 : p[j].call = "mknode" /\ p[j].id = x /\ p[j].kind = kind
    <3>1. PICK j \in 1 .. (k + 1) - 1 : p[j].call = "mknode" /\ p[j].id = x /\ p[j].kind = kind
      BY <2>2
    <3>2. CASE j = 1
      <4>1. x \in Nodes(n) /\ n.nodes[x].kind = kind
        BY <3>1, <3>2, <1>1
      <4> QED BY <4>1 DEF WillBe
    <3>3. CASE j # 1
      <4>1. j - 1 \in 1 .. k - 1 /\ j - 1 \in 1 .. Len(p) - 1 /\ (j - 1) + 1 = j
        BY <3>3, <1>1
      <4>2. q[j - 1].call = "mknode" /\ q[j - 1].id = x /\ q[j - 1].kind = kind
        BY <3>1, <4>1, <1>1
      <4> QED BY <4>1, <4>2 DEF WillBe
    <3> QED BY <3>2, <3>3
  <2> QED BY <1>2, <2>1, <2>2 DEF WillBe
<1>3. ASSUME NEW k \in 1 .. Len(p) - 1
      PROVE  /\ q[k].call \in {"open", "close", "handlers", "mknode", "mkedge", "chattr"}
             /\ q[k].call = "mknode" =>
                   /\ q[k].id = next /\ next \notin Nodes(n) /\ q[k].mm \in n.loaded
                   /\ \A j \in 1 .. Len(p) - 1 : q[j].call = "mknode" => j = k
             /\ q[k].call = "mkedge" =>
                   \/ WillBe(q, k, n, q[k].src, "node") /\ WillBe(q, k, n, q[k].dest, "connector")
                   \/ WillBe(q, k, n, q[k].src, "connector") /\ WillBe(q, k, n, q[k].dest, "node")
             /\ q[k].call = "chattr" => q[k].id \in Nodes(n)
  <2>1. k + 1 \in 1 .. Len(p) /\ q[k] = p[k + 1] /\ 1 \in 1 .. Len(p) /\ k + 1 # 1
    BY <1>1
  <2>2. q[k].call \in {"open", "close", "handlers", "mknode", "mkedge", "chattr"}
    BY <2>1 DEF Makes
  <2>3. ASSUME q[k].call = "mknode"
        PROVE  /\ q[k].id = next /\ next \notin Nodes(n) /\ q[k].mm \in n.loaded
               /\ \A j \in 1 .. Len(p) - 1 : q[j].call = "mknode" => j = k
    <3>1. /\ p[k + 1].id = next /\ next \notin Nodes(m) /\ p[k + 1].mm \in m.loaded
          /\ \A j \in 1 .. Len(p) : p[j].call = "mknode" => j = k + 1
      BY <2>1, <2>3 DEF Makes
    <3>2. Nodes(n) = Nodes(m)
      BY <3>1, <2>1, <1>1
    <3>3. ASSUME NEW j \in 1 .. Len(p) - 1, q[j].call = "mknode" PROVE j = k
      <4>1. j + 1 \in 1 .. Len(p) /\ q[j] = p[j + 1]
        BY <1>1
      <4>2. j + 1 = k + 1
        BY <4>1, <3>1, <3>3
      <4> QED BY <4>2
    <3> QED BY <2>1, <3>1, <3>2, <3>3
  <2>4. ASSUME q[k].call = "mkedge"
        PROVE  \/ WillBe(q, k, n, q[k].src, "node") /\ WillBe(q, k, n, q[k].dest, "connector")
               \/ WillBe(q, k, n, q[k].src, "connector") /\ WillBe(q, k, n, q[k].dest, "node")
    <3>1. \/ WillBe(p, k + 1, m, q[k].src, "node") /\ WillBe(p, k + 1, m, q[k].dest, "connector")
          \/ WillBe(p, k + 1, m, q[k].src, "connector") /\ WillBe(p, k + 1, m, q[k].dest, "node")
      BY <2>1, <2>4 DEF Makes
    <3> QED BY <3>1, <1>2
  <2>5. q[k].call = "chattr" => q[k].id \in Nodes(n)
    BY <2>1 DEF Makes
  <2> QED BY <2>2, <2>3, <2>4, <2>5
<1>4. Makes(q, n, next)
  <2> DEFINE l == Len(p) - 1
  <2>1. Len(q) = l
    BY <1>1
  <2> QED BY <1>3, <2>1 DEF Makes
<1> QED BY <1>4 DEF q

\* n has no more than m: no more nodes, of the same metamodels, and edges at no node where
\* there was none.
Shrinks(m, n) ==
    /\ Nodes(n) \subseteq Nodes(m) /\ n.loaded = m.loaded
    /\ \A i \in Nodes(n) : n.nodes[i].mm = m.nodes[i].mm
    /\ \A ids : EdgesOf(m, ids) = {} => EdgesOf(n, ids) = {}

\* A program that removes things can still be run when there are fewer.
LEMMA RemovesKept ==
    ASSUME NEW p, NEW m, NEW n, NEW next, Removes(p, m, next), Shrinks(m, n)
    PROVE  Removes(p, n, next)
<1>1. next \notin Nodes(n)
  BY DEF Removes, Shrinks
<1>2. \A mm : NodesOf(n, mm) \subseteq NodesOf(m, mm)
  BY DEF Shrinks, NodesOf
<1>3. ASSUME NEW k \in 1 .. Len(p), p[k].call = "rmnodes" PROVE WillBeBare(p, k, n, p[k].ids)
  BY <1>3 DEF Removes, WillBeBare, Shrinks
<1>4. ASSUME NEW k \in 1 .. Len(p), p[k].call = "dumpmm"
      PROVE  /\ p[k].mm \in n.loaded
             /\ \/ NodesOf(n, p[k].mm) = {}
                \/ \E j \in 1 .. k - 1 : p[j].call = "rmnodes" /\ NodesOf(n, p[k].mm) \subseteq p[j].ids
  <2>1. /\ p[k].mm \in m.loaded
        /\ \/ NodesOf(m, p[k].mm) = {}
           \/ \E j \in 1 .. k - 1 : p[j].call = "rmnodes" /\ NodesOf(m, p[k].mm) \subseteq p[j].ids
    BY <1>4 DEF Removes
  <2>2. p[k].mm \in n.loaded
    BY <2>1 DEF Shrinks
  <2>3. CASE NodesOf(m, p[k].mm) = {}
    BY <2>2, <2>3, <1>2
  <2>4. CASE \E j \in 1 .. k - 1 : p[j].call = "rmnodes" /\ NodesOf(m, p[k].mm) \subseteq p[j].ids
    BY <2>2, <2>4, <1>2
  <2> QED BY <2>1, <2>3, <2>4
<1>5. \A k \in 1 .. Len(p) :
         p[k].call \in {"open", "close", "handlers", "rmedges", "rmnodes", "cascade", "dumpmm"}
  BY DEF Removes
<1> QED BY <1>1, <1>3, <1>4, <1>5 DEF Removes

\* Its first call is over when it has left nothing to remove.
LEMMA RemovesTail ==
    ASSUME NEW p \in Seq(Call), p # <<>>, NEW m, NEW next, Removes(p, m, next),
           Head(p).call = "rmedges" => EdgesOf(m, Head(p).ids) = {},
           Head(p).call = "cascade" => EdgesOf(m, {Head(p).id}) = {},
           Head(p).call = "rmnodes" => Nodes(m) \cap Head(p).ids = {}
    PROVE  Removes(Tail(p), m, next)
<1> DEFINE q == Tail(p)
           l == Len(p) - 1
<1>1. /\ Head(p) = p[1] /\ Len(p) \in Nat \ {0} /\ Len(q) = l
      /\ \A k \in 1 .. l : q[k] = p[k + 1]
  BY TailFacts
<1> HIDE DEF q
<1>2. ASSUME NEW k \in 1 .. l PROVE k + 1 \in 1 .. Len(p) /\ q[k] = p[k + 1]
  BY <1>1
<1>3. ASSUME NEW k \in 1 .. l, NEW j \in 1 .. (k + 1) - 1
      PROVE  j = 1 \/ (j - 1 \in 1 .. k - 1 /\ q[j - 1] = p[j])
  <2>1. j = 1 \/ (j - 1 \in 1 .. k - 1 /\ j - 1 \in 1 .. l /\ (j - 1) + 1 = j)
    BY <1>1
  <2> QED BY <2>1, <1>1
<1>4. ASSUME NEW k \in 1 .. l, q[k].call = "rmnodes" PROVE WillBeBare(q, k, m, q[k].ids)
  <2>1. WillBeBare(p, k + 1, m, q[k].ids)
    BY <1>2, <1>4 DEF Removes
  <2>2. CASE EdgesOf(m, q[k].ids) = {}
    BY <2>2 DEF WillBeBare
  <2>3. CASE EdgesOf(m, q[k].ids) # {}
    <3>1. PICK j \in 1 .. (k + 1) - 1 : \/ p[j].call = "rmedges" /\ p[j].ids = q[k].ids
                                        \/ p[j].call = "cascade" /\ {p[j].id} = q[k].ids
      BY <2>1, <2>3 DEF WillBeBare
    <3>2. j # 1
      BY <3>1, <2>3, <1>1
    <3> QED BY <3>1, <3>2, <1>3 DEF WillBeBare
  <2> QED BY <2>2, <2>3
<1>5. ASSUME NEW k \in 1 .. l, q[k].call = "dumpmm"
      PROVE  /\ q[k].mm \in m.loaded
             /\ \/ NodesOf(m, q[k].mm) = {}
                \/ \E j \in 1 .. k - 1 : q[j].call = "rmnodes" /\ NodesOf(m, q[k].mm) \subseteq q[j].ids
  <2>1. /\ q[k].mm \in m.loaded
        /\ \/ NodesOf(m, q[k].mm) = {}
           \/ \E j \in 1 .. (k + 1) - 1 : p[j].call = "rmnodes" /\ NodesOf(m, q[k].mm) \subseteq p[j].ids
    <3>1. /\ p[k + 1].mm \in m.loaded
          /\ \/ NodesOf(m, p[k + 1].mm) = {}
             \/ \E j \in 1 .. (k + 1) - 1 : p[j].call = "rmnodes" /\ NodesOf(m, p[k + 1].mm) \subseteq p[j].ids
      BY <1>2, <1>5 DEF Removes
    <3> QED BY <3>1, <1>2
  <2>2. CASE \E j \in 1 .. (k + 1) - 1 : p[j].call = "rmnodes" /\ NodesOf(m, q[k].mm) \subseteq p[j].ids
    <3>1. PICK j \in 1 .. (k + 1) - 1 : p[j].call = "rmnodes" /\ NodesOf(m, q[k].mm) \subseteq p[j].ids
      BY <2>2
    <3>2. CASE j = 1
      <4>1. NodesOf(m, q[k].mm) = {}
        BY <3>1, <3>2, <1>1 DEF NodesOf
      <4> QED BY <4>1, <2>1
    <3>3. CASE j # 1
      BY <3>1, <3>3, <2>1, <1>3
    <3> QED BY <3>2, <3>3
  <2> QED BY <2>1, <2>2
<1>6. ASSUME NEW k \in 1 .. l
      PROVE  q[k].call \in {"open", "close", "handlers", "rmedges", "rmnodes", "cascade", "dumpmm"}
  BY <1>2 DEF Removes
<1>7. next \notin Nodes(m)
  BY DEF Removes
<1> HIDE DEF l
<1>8. Removes(q, m, next)
  BY <1>1, <1>4, <1>5, <1>6, <1>7 DEF Removes
<1> QED BY <1>8 DEF q

\* A crudOp around calls that make things.
LEMMA MakesCrud ==
    ASSUME NEW p \in Seq(Call), NEW m, NEW next, Makes(p, m, next)
    PROVE  Makes(Crud(p), m, next)
<1> DEFINE q == Crud(p)
           a == Len(p)
<1>1. /\ Len(q) = a + 4 /\ a \in Nat
      /\ q[1] = OpenCall /\ q[2] = HandlersCall /\ q[a + 3] = HandlersCall /\ q[a + 4] = CloseCall
      /\ \A k \in 1 .. a : q[k + 2] = p[k]
  BY CrudFacts
<1> HIDE DEF q, a
<1>2. ASSUME NEW k \in 1 .. a + 4
      PROVE  q[k].call \in {"open", "close", "handlers"} \/ (k - 2 \in 1 .. a /\ q[k] = p[k - 2])
  <2>1. k = 1 \/ k = 2 \/ k = a + 3 \/ k = a + 4 \/ (k - 2 \in 1 .. a /\ (k - 2) + 2 = k)
    BY <1>1
  <2> QED BY <2>1, <1>1 DEF OpenCall, HandlersCall, CloseCall
<1>3. ASSUME NEW k \in 1 .. a, NEW x, NEW kind, WillBe(p, k, m, x, kind)
      PROVE  WillBe(q, k + 2, m, x, kind)
  <2>1. CASE x \in Nodes(m) /\ m.nodes[x].kind = kind
    BY <2>1 DEF WillBe
  <2>2. CASE \E j \in 1 .. k - 1 : p[j].call = "mknode" /\ p[j].id = x /\ p[j].kind = kind
    <3>1. PICK j \in 1 .. k - 1 : p[j].call = "mknode" /\ p[j].id = x /\ p[j].kind = kind
      BY <2>2
    <3>2. j + 2 \in 1 .. (k + 2) - 1 /\ j \in 1 .. a
      BY <1>1
    <3> QED BY <3>1, <3>2, <1>1 DEF WillBe
  <2> QED BY <1>3, <2>1, <2>2 DEF WillBe
<1>4. ASSUME NEW k \in 1 .. a + 4
      PROVE  /\ q[k].call \in {"open", "close", "handlers", "mknode", "mkedge", "chattr"}
             /\ q[k].call = "mknode" =>
                   /\ q[k].id = next /\ next \notin Nodes(m) /\ q[k].mm \in m.loaded
                   /\ \A j \in 1 .. a + 4 : q[j].call = "mknode" => j = k
             /\ q[k].call = "mkedge" =>
                   \/ WillBe(q, k, m, q[k].src, "node") /\ WillBe(q, k, m, q[k].dest, "connector")
                   \/ WillBe(q, k, m, q[k].src, "connector") /\ WillBe(q, k, m, q[k].dest, "node")
             /\ q[k].call = "chattr" => q[k].id \in Nodes(m)
  <2>1. CASE q[k].call \in {"open", "close", "handlers"}
    BY <2>1
  <2>2. CASE k - 2 \in 1 .. a /\ q[k] = p[k - 2]
    <3> DEFINE i == k - 2
    <3>1. i \in 1 .. a /\ q[k] = p[i] /\ i + 2 = k
      BY <2>2, <1>1
    <3> HIDE DEF i
    <3>2. ASSUME q[k].call = "mknode"
          PROVE  /\ q[k].id = next /\ next \notin Nodes(m) /\ q[k].mm \in m.loaded
                 /\ \A j \in 1 .. a + 4 : q[j].call = "mknode" => j = k
      <4>1. /\ q[k].id = next /\ next \notin Nodes(m) /\ q[k].mm \in m.loaded
            /\ \A j \in 1 .. a : p[j].call = "mknode" => j = i
        BY <3>1, <3>2 DEF Makes, a
      <4>2. ASSUME NEW j \in 1 .. a + 4, q[j].call = "mknode" PROVE j = k
        <5>1. j - 2 \in 1 .. a /\ q[j] = p[j - 2]
          BY <4>2, <1>2
        <5>2. j - 2 = i
          BY <5>1, <4>1, <4>2
        <5> QED BY <5>2, <3>1, <1>1
      <4> QED BY <4>1, <4>2
    <3>3. ASSUME q[k].call = "mkedge"
          PROVE  \/ WillBe(q, k, m, q[k].src, "node") /\ WillBe(q, k, m, q[k].dest, "connector")
                 \/ WillBe(q, k, m, q[k].src, "connector") /\ WillBe(q, k, m, q[k].dest, "node")
      <4>1. \/ WillBe(p, i, m, q[k].src, "node") /\ WillBe(p, i, m, q[k].dest, "connector")
            \/ WillBe(p, i, m, q[k].src, "connector") /\ WillBe(p, i, m, q[k].dest, "node")
        BY <3>1, <3>3 DEF Makes, a
      <4> QED BY <3>1, <4>1, <1>3
    <3>4. /\ q[k].call \in {"open", "close", "handlers", "mknode", "mkedge", "chattr"}
          /\ q[k].call = "chattr" => q[k].id \in Nodes(m)
      BY <3>1 DEF Makes, a
    <3> QED BY <3>2, <3>3, <3>4
  <2> QED BY <2>1, <2>2, <1>2
<1> DEFINE b == a + 4
<1>5. Len(q) = b
  BY <1>1
<1>6. Makes(q, m, next)
  <2>1. \A k \in 1 .. b :
             /\ q[k].call \in {"open", "close", "handlers", "mknode", "mkedge", "chattr"}
             /\ q[k].call = "mknode" =>
                   /\ q[k].id = next /\ next \notin Nodes(m) /\ q[k].mm \in m.loaded
                   /\ \A j \in 1 .. b : q[j].call = "mknode" => j = k
             /\ q[k].call = "mkedge" =>
                   \/ WillBe(q, k, m, q[k].src, "node") /\ WillBe(q, k, m, q[k].dest, "connector")
                   \/ WillBe(q, k, m, q[k].src, "connector") /\ WillBe(q, k, m, q[k].dest, "node")
             /\ q[k].call = "chattr" => q[k].id \in Nodes(m)
    BY <1>4
  <2> HIDE DEF b
  <2> QED BY <2>1, <1>5 DEF Makes
<1> QED BY <1>6 DEF q

\* One program that removes things after another.
LEMMA RemovesConcat ==
    ASSUME NEW p \in Seq(Call), NEW q \in Seq(Call), NEW m, NEW next,
           Removes(p, m, next), Removes(q, m, next)
    PROVE  Removes(p \o q, m, next)
<1> DEFINE r == p \o q
           a == Len(p)
           b == Len(q)
<1>1. /\ a \in Nat /\ b \in Nat /\ Len(r) = a + b
      /\ \A k \in 1 .. a + b : r[k] = IF k <= a THEN p[k] ELSE q[k - a]
  BY ConcatProperties, LenProperties
<1>2. /\ \A k \in 1 .. a : r[k] = p[k]
      /\ \A k \in 1 .. b : r[k + a] = q[k]
  <2>1. ASSUME NEW k \in 1 .. a PROVE r[k] = p[k]
    <3>1. k \in 1 .. a + b /\ k <= a
      BY <1>1
    <3> QED BY <3>1, <1>1
  <2>2. ASSUME NEW k \in 1 .. b PROVE r[k + a] = q[k]
    <3>1. k + a \in 1 .. a + b /\ ~(k + a <= a) /\ (k + a) - a = k
      BY <1>1
    <3> QED BY <3>1, <1>1
  <2> QED BY <2>1, <2>2
<1> HIDE DEF r
<1>3. next \notin Nodes(m)
  BY DEF Removes
<1> DEFINE Ok(s, k) ==
             /\ s[k].call \in {"open", "close", "handlers", "rmedges", "rmnodes", "cascade", "dumpmm"}
             /\ s[k].call = "rmnodes" => WillBeBare(s, k, m, s[k].ids)
             /\ s[k].call = "dumpmm" =>
                   /\ s[k].mm \in m.loaded
                   /\ \/ NodesOf(m, s[k].mm) = {}
                      \/ \E j \in 1 .. k - 1 : s[j].call = "rmnodes" /\ NodesOf(m, s[k].mm) \subseteq s[j].ids
<1>4. (\A k \in 1 .. a : Ok(p, k)) /\ \A k \in 1 .. b : Ok(q, k)
  BY DEF Removes
<1> HIDE DEF a, b
<1>5. ASSUME NEW k \in 1 .. a PROVE Ok(r, k)
  <2>0. \A j \in 1 .. k - 1 : j \in 1 .. a
    BY <1>1
  <2>1. Ok(p, k) /\ r[k] = p[k] /\ \A j \in 1 .. k - 1 : j \in 1 .. a
    <3> HIDE DEF Ok
    <3> QED BY <2>0, <1>2, <1>4
  <2>2. \A j \in 1 .. k - 1 : r[j] = p[j]
    BY <2>1, <1>2
  <2>3. r[k].call = "rmnodes" => WillBeBare(r, k, m, r[k].ids)
    BY <2>1, <2>2 DEF WillBeBare
  <2> QED BY <2>1, <2>2, <2>3
<1>6. ASSUME NEW k \in 1 .. b PROVE Ok(r, k + a)
  <2>1. Ok(q, k) /\ r[k + a] = q[k]
    BY <1>2, <1>4
  <2>2. ASSUME NEW j \in 1 .. k - 1 PROVE r[j + a] = q[j] /\ j + a \in 1 .. (k + a) - 1
    <3>1. j \in 1 .. b /\ j + a \in 1 .. (k + a) - 1
      BY <1>1
    <3> QED BY <3>1, <1>2
  <2>3. ASSUME r[k + a].call = "rmnodes" PROVE WillBeBare(r, k + a, m, r[k + a].ids)
    <3>1. WillBeBare(q, k, m, q[k].ids)
      BY <2>1, <2>3
    <3>2. CASE EdgesOf(m, q[k].ids) = {}
      BY <3>2, <2>1 DEF WillBeBare
    <3>3. CASE \E j \in 1 .. k - 1 : \/ q[j].call = "rmedges" /\ q[j].ids = q[k].ids
                                     \/ q[j].call = "cascade" /\ {q[j].id} = q[k].ids
      <4>1. PICK j \in 1 .. k - 1 : \/ q[j].call = "rmedges" /\ q[j].ids = q[k].ids
                                    \/ q[j].call = "cascade" /\ {q[j].id} = q[k].ids
        BY <3>3
      <4> QED BY <4>1, <2>1, <2>2, SMTT(20), ZenonT(20) DEF WillBeBare
    <3> QED BY <3>1, <3>2, <3>3 DEF WillBeBare
  <2>4. ASSUME r[k + a].call = "dumpmm"
        PROVE  /\ r[k + a].mm \in m.loaded
               /\ \/ NodesOf(m, r[k + a].mm) = {}
                  \/ \E j \in 1 .. (k + a) - 1 : r[j].call = "rmnodes" /\ NodesOf(m, r[k + a].mm) \subseteq r[j].ids
    <3>1. /\ q[k].mm \in m.loaded
          /\ \/ NodesOf(m, q[k].mm) = {}
             \/ \E j \in 1 .. k - 1 : q[j].call = "rmnodes" /\ NodesOf(m, q[k].mm) \subseteq q[j].ids
      BY <2>1, <2>4
    <3>2. CASE \E j \in 1 .. k - 1 : q[j].call = "rmnodes" /\ NodesOf(m, q[k].mm) \subseteq q[j].ids
      <4>1. PICK j \in 1 .. k - 1 : q[j].call = "rmnodes" /\ NodesOf(m, q[k].mm) \subseteq q[j].ids
        BY <3>2
      <4> QED BY <4>1, <3>1, <2>1, <2>2
    <3> QED BY <3>1, <3>2, <2>1
  <2> QED BY <2>1, <2>3, <2>4
<1>7. ASSUME NEW k \in 1 .. a + b PROVE Ok(r, k)
  <2>1. k \in 1 .. a \/ (k - a \in 1 .. b /\ (k - a) + a = k)
    BY <1>1
  <2> HIDE DEF Ok
  <2> QED BY <2>1, <1>5, <1>6
<1>8. Removes(r, m, next)
  <2> DEFINE c == a + b
  <2>1. Len(r) = c /\ \A k \in 1 .. c : Ok(r, k)
    BY <1>1, <1>7
  <2> HIDE DEF c
  <2> QED BY <2>1, <1>3 DEF Removes
<1> QED BY <1>8 DEF r

\* Calls that are about no node.
LEMMA RemovesNone ==
    ASSUME NEW p \in Seq(Call), NEW m, NEW next, next \notin Nodes(m),
           \A k \in 1 .. Len(p) : p[k].call \in {"open", "close", "handlers", "rmedges", "cascade"}
    PROVE  Removes(p, m, next)
  BY DEF Removes

\* A crudOp around calls that remove things.
LEMMA RemovesCrud ==
    ASSUME NEW p \in Seq(Call), NEW m, NEW next, Removes(p, m, next)
    PROVE  Removes(Crud(p), m, next)
<1>1. next \notin Nodes(m)
  BY DEF Removes
<1> DEFINE a == <<OpenCall, HandlersCall>>
           b == <<HandlersCall, CloseCall>>
<1>2. a \in Seq(Call) /\ b \in Seq(Call)
  BY FlowEnds, 0 \in Nat
<1>3. /\ OpenCall.call = "open" /\ HandlersCall.call = "handlers" /\ CloseCall.call = "close"
  BY DEF OpenCall, HandlersCall, CloseCall
<1>4. /\ \A k \in 1 .. Len(a) : a[k].call \in {"open", "close", "handlers", "rmedges", "cascade"}
      /\ \A k \in 1 .. Len(b) : b[k].call \in {"open", "close", "handlers", "rmedges", "cascade"}
  <2>1. Len(a) = 2 /\ Len(b) = 2 /\ \A k \in 1 .. 2 : k = 1 \/ k = 2
    OBVIOUS
  <2>2. a[1] = OpenCall /\ a[2] = HandlersCall /\ b[1] = HandlersCall /\ b[2] = CloseCall
    OBVIOUS
  <2> HIDE DEF a, b
  <2> QED BY <2>1, <2>2, <1>3
<1>5. Crud(p) = (a \o p) \o b
  BY DEF Crud
<1> HIDE DEF a, b
<1>6. Removes(a, m, next) /\ Removes(b, m, next)
  BY <1>1, <1>2, <1>4, RemovesNone
<1>7. a \o p \in Seq(Call) /\ Removes(a \o p, m, next)
  BY <1>2, <1>6, RemovesConcat, ConcatProperties
<1> QED BY <1>2, <1>5, <1>6, <1>7, RemovesConcat

-----------------------------------------------------------------------------
(* The programs of the operations.                                         *)

\* A program whose one call makes something.
LEMMA OneMade ==
    ASSUME NEW c \in Call, NEW m, NEW next, c.call \in {"mknode", "mkedge", "chattr"},
           c.call = "mknode" => c.id = next /\ next \notin Nodes(m) /\ c.mm \in m.loaded,
           c.call = "mkedge" =>
              \/ /\ c.src \in Nodes(m) /\ m.nodes[c.src].kind = "node"
                 /\ c.dest \in Nodes(m) /\ m.nodes[c.dest].kind = "connector"
              \/ /\ c.src \in Nodes(m) /\ m.nodes[c.src].kind = "connector"
                 /\ c.dest \in Nodes(m) /\ m.nodes[c.dest].kind = "node",
           c.call = "chattr" => c.id \in Nodes(m)
    PROVE  /\ <<c>> \in Seq(Call) /\ Makes(<<c>>, m, next)
           /\ \A l \in Nat : l > 0 => Flow(<<c>>, l, l)
<1> DEFINE p == <<c>>
<1>1. p \in Seq(Call) /\ Len(p) = 1 /\ p[1] = c /\ \A k \in 1 .. 1 : k = 1
  OBVIOUS
<1> HIDE DEF p
<1>2. Makes(p, m, next)
  BY <1>1 DEF Makes, WillBe
<1>3. ASSUME NEW l \in Nat, l > 0 PROVE Flow(p, l, l)
  BY <1>1, <1>3, FlowPlain
<1> QED BY <1>1, <1>2, <1>3 DEF p

\* __connect: the connector that the two edges need comes first.
LEMMA ConnectNNMakes ==
    ASSUME NEW m \in Model, next_id \in Id, next_id \notin Nodes(m), NEW mm \in m.loaded,
           NEW a \in Nodes(m), NEW b \in Nodes(m), ~IsConnector(m, a), ~IsConnector(m, b)
    PROVE  /\ ConnectNNCalls(a, b, mm) \in Seq(Call)
           /\ Makes(ConnectNNCalls(a, b, mm), m, next_id)
           /\ \A l \in Nat : l > 0 => Flow(ConnectNNCalls(a, b, mm), l, l)
<1> DEFINE x == MkNodeCall(next_id, "connector", mm)
           y == MkEdgeCall(a, next_id)
           z == MkEdgeCall(next_id, b)
           p == <<x, y, z>>
<1>1. /\ a \in Id /\ b \in Id /\ mm \in MM /\ m.nodes[a] \in Node /\ m.nodes[b] \in Node
      /\ m.nodes[a].kind = "node" /\ m.nodes[b].kind = "node"
  <2>1. a \in Id /\ b \in Id /\ mm \in MM /\ m.nodes[a] \in Node /\ m.nodes[b] \in Node
    BY ModelParts
  <2>2. m.nodes[a].kind # "connector" /\ m.nodes[b].kind # "connector"
    BY DEF IsConnector, Nodes
  <2> QED BY <2>1, <2>2 DEF Node, Kind
<1>2. /\ x \in Call /\ y \in Call /\ z \in Call
      /\ x.call = "mknode" /\ x.id = next_id /\ x.kind = "connector" /\ x.mm = mm
      /\ y.call = "mkedge" /\ y.src = a /\ y.dest = next_id
      /\ z.call = "mkedge" /\ z.src = next_id /\ z.dest = b
  BY <1>1 DEF MkNodeCall, MkEdgeCall, Call, Kind
<1> HIDE DEF x, y, z
<1>3. p \in Seq(Call) /\ Len(p) = 3 /\ p[1] = x /\ p[2] = y /\ p[3] = z
      /\ \A k \in 1 .. 3 : k = 1 \/ k = 2 \/ k = 3
  BY <1>2
<1> HIDE DEF p
<1>4. WillBe(p, 2, m, next_id, "connector") /\ WillBe(p, 3, m, next_id, "connector")
  <2>1. 1 \in 1 .. 2 - 1 /\ 1 \in 1 .. 3 - 1
    OBVIOUS
  <2> QED BY <2>1, <1>2, <1>3 DEF WillBe
<1>5. WillBe(p, 2, m, a, "node") /\ WillBe(p, 3, m, b, "node")
  BY <1>1 DEF WillBe
<1>6. Makes(p, m, next_id)
  BY <1>2, <1>3, <1>4, <1>5 DEF Makes
<1>7. p \in Seq(Call) /\ Makes(p, m, next_id) /\ \A l \in Nat : l > 0 => Flow(p, l, l)
  BY <1>2, <1>3, <1>6, FlowPlain
<1>8. Crud(p) \in Seq(Call) /\ Makes(Crud(p), m, next_id)
  BY <1>7, CrudFacts, MakesCrud
<1>9. ASSUME NEW l \in Nat, l > 0 PROVE Flow(Crud(p), l, l)
  <2>1. l + 1 \in Nat /\ l + 1 > 0
    OBVIOUS
  <2>2. Flow(p, l + 1, l + 1)
    BY <2>1, <1>7
  <2> QED BY <2>2, <1>3, <1>9, FlowCrud
<1> QED BY <1>8, <1>9 DEF p, x, y, z, ConnectNNCalls

\* __deleteConnector: its edges go before it does.
LEMMA DeleteConnectorRemoves ==
    ASSUME NEW id \in Id, NEW m, NEW next, next \notin Nodes(m)
    PROVE  /\ DeleteConnectorCalls(id) \in Seq(Call)
           /\ Removes(DeleteConnectorCalls(id), m, next)
           /\ \A l \in Nat : l > 0 => Flow(DeleteConnectorCalls(id), l, l)
<1> DEFINE x == RmEdgesCall({id})
           y == RmNodesCall({id})
           p == <<x, y>>
<1>1. /\ x \in Call /\ y \in Call
      /\ x.call = "rmedges" /\ x.ids = {id} /\ y.call = "rmnodes" /\ y.ids = {id}
  BY DEF RmEdgesCall, RmNodesCall, Call
<1> HIDE DEF x, y
<1>2. p \in Seq(Call) /\ Len(p) = 2 /\ p[1] = x /\ p[2] = y /\ \A k \in 1 .. 2 : k = 1 \/ k = 2
  BY <1>1
<1> HIDE DEF p
<1>3. WillBeBare(p, 2, m, {id})
  <2>1. 1 \in 1 .. 2 - 1
    OBVIOUS
  <2> QED BY <2>1, <1>1, <1>2 DEF WillBeBare
<1>4. Removes(p, m, next)
  BY <1>1, <1>2, <1>3 DEF Removes
<1>5. Crud(p) \in Seq(Call) /\ Removes(Crud(p), m, next)
  BY <1>2, <1>4, CrudFacts, RemovesCrud
<1>6. ASSUME NEW l \in Nat, l > 0 PROVE Flow(Crud(p), l, l)
  <2>1. l + 1 \in Nat /\ l + 1 > 0
    OBVIOUS
  <2>2. Flow(p, l + 1, l + 1)
    BY <2>1, <1>1, <1>2, FlowPlain
  <2> QED BY <2>2, <1>2, <1>6, FlowCrud
<1> QED BY <1>5, <1>6 DEF p, x, y, DeleteConnectorCalls

\* __delete: so do the connectors of a node.
LEMMA DeleteRemoves ==
    ASSUME NEW id \in Id, NEW next, next \notin Nodes(model)
    PROVE  /\ DeleteCalls(id) \in Seq(Call)
           /\ Removes(DeleteCalls(id), model, next)
           /\ \A l \in Nat : l > 0 => Flow(DeleteCalls(id), l, l)
<1>1. CASE IsConnector(model, id)
  BY <1>1, DeleteConnectorRemoves DEF DeleteCalls
<1>2. CASE ~IsConnector(model, id)
  <2> DEFINE x == CascadeCall(id)
             y == RmNodesCall({id})
             p == <<x, y>>
  <2>1. /\ x \in Call /\ y \in Call
        /\ x.call = "cascade" /\ x.id = id /\ y.call = "rmnodes" /\ y.ids = {id}
    BY DEF CascadeCall, RmNodesCall, Call
  <2>2. DeleteCalls(id) = p
    BY <1>2 DEF DeleteCalls
  <2> HIDE DEF x, y
  <2>3. p \in Seq(Call) /\ Len(p) = 2 /\ p[1] = x /\ p[2] = y /\ \A k \in 1 .. 2 : k = 1 \/ k = 2
    BY <2>1
  <2> HIDE DEF p
  <2>4. WillBeBare(p, 2, model, {id})
    <3>1. 1 \in 1 .. 2 - 1
      OBVIOUS
    <3> QED BY <3>1, <2>1, <2>3 DEF WillBeBare
  <2>5. Removes(p, model, next)
    BY <2>1, <2>3, <2>4 DEF Removes
  <2>6. \A l \in Nat : l > 0 => Flow(p, l, l)
    BY <2>1, <2>3, FlowPlain
  <2> QED BY <2>2, <2>3, <2>5, <2>6
<1> QED BY <1>1, <1>2

\* unloadMetamodel: the nodes of the metamodel, their edges first, and then the metamodel.
LEMMA UnloadRemoves ==
    ASSUME model \in Model, NEW mm \in model.loaded, NEW next, next \notin Nodes(model)
    PROVE  /\ UnloadCalls(mm) \in Seq(Call) /\ Flat(UnloadCalls(mm))
           /\ Removes(UnloadCalls(mm), model, next)
<1> DEFINE ids == NodesOf(model, mm)
           x == RmEdgesCall(ids)
           y == RmNodesCall(ids)
           z == DumpMMCall(mm)
           p == <<x, y, z>>
<1>1. /\ x \in Call /\ y \in Call /\ z \in Call
      /\ x.call = "rmedges" /\ x.ids = ids /\ y.call = "rmnodes" /\ y.ids = ids
      /\ z.call = "dumpmm" /\ z.mm = mm
  <2>1. ids \in SUBSET Id /\ mm \in MM
    BY ModelParts DEF NodesOf, Nodes
  <2> HIDE DEF ids
  <2> QED BY <2>1 DEF RmEdgesCall, RmNodesCall, DumpMMCall, Call
<1> HIDE DEF x, y, z
<1>2. p \in Seq(Call) /\ Len(p) = 3 /\ p[1] = x /\ p[2] = y /\ p[3] = z /\ p # <<>>
      /\ \A k \in 1 .. 3 : k = 1 \/ k = 2 \/ k = 3
  BY <1>1
<1>3. UnloadCalls(mm) = p
  BY DEF UnloadCalls, x, y, z
<1> HIDE DEF p
<1>4. Flat(p)
  BY <1>1, <1>2 DEF Flat
<1>5. WillBeBare(p, 2, model, ids)
  <2>1. 1 \in 1 .. 2 - 1
    OBVIOUS
  <2> QED BY <2>1, <1>1, <1>2 DEF WillBeBare
<1>6. \E j \in 1 .. 3 - 1 : p[j].call = "rmnodes" /\ NodesOf(model, mm) \subseteq p[j].ids
  <2>1. 2 \in 1 .. 3 - 1
    OBVIOUS
  <2> QED BY <2>1, <1>1, <1>2
<1>7. Removes(p, model, next)
  BY <1>1, <1>2, <1>5, <1>6 DEF Removes
<1> QED BY <1>2, <1>3, <1>4, <1>7

-----------------------------------------------------------------------------
(* The inductive invariant.                                                *)

\* Where the operation in progress is in its program.
ProgramInv ==
    /\ status = "running" <=> program # <<>>
    /\ status = "failing" => open > 0
    /\ status \notin {"running", "failing"} => open = 0
    /\ status = "running" /\ open = 0 =>
          Flat(program) \/ (Now.call = "open" /\ Flow(Tail(program), 1, 0))
    /\ status = "running" /\ open > 0 => Flow(program, open, 0)
    /\ Makes(program, model, next_id) \/ Removes(program, model, next_id)

\* Ids from next_id on are free in every model of the trail; next_id itself may be taken
\* by the operation in progress.
FreshInv(S) ==
    \A k \in 0 .. Len(journal.log) : \A i \in Nodes(S[k]) :
       \/ i < next_id
       \/ /\ i = next_id /\ open > 0 /\ (status = "running" => next_id \in Nodes(model))
          /\ \E c \in CrudCheckpoints(journal) : c < k

\* Nothing is beyond the index while a checkpoint is there; the outermost one is where
\* the operation began.
CheckpointInv(S) ==
    /\ open > 0 => journal.index = Len(journal.log)
    /\ \A c \in CrudCheckpoints(journal) :
          (\A d \in CrudCheckpoints(journal) : c <= d) => S[c - 1] = before
    /\ status = "running" /\ open = 0 /\ ~Flat(program) => model = before

\* The last step-checkpoint is where an operation began that has one of its own.
StepInv(S) ==
    /\ status \in {"running", "done"} /\ ~zombie =>
          /\ LastStep(journal) > 0 /\ S[LastStep(journal)] = before
          /\ \A c \in CrudCheckpoints(journal) : c > LastStep(journal)
    /\ status = "done" => changelog = Changelog(journal)

TrailInv(S) ==
    Trail(S, journal, model) /\ FreshInv(S) /\ CheckpointInv(S) /\ StepInv(S)

IInv == TypeOK /\ ProgramInv /\ FailureIsAtomic /\ \E S : TrailInv(S)

-----------------------------------------------------------------------------
(* What the invariant says of a state.                                     *)

\* A call that is about something names it.
LEMMA CallFields ==
    ASSUME NEW c \in Call
    PROVE  /\ c.call = "mknode" => c.id \in Id /\ c.kind \in Kind /\ c.mm \in MM
           /\ c.call = "mkedge" => c.src \in Id /\ c.dest \in Id
           /\ c.call = "chattr" => c.id \in Id /\ c.val \in Val
           /\ c.call \in {"rmedges", "rmnodes"} => c.ids \subseteq Id
           /\ c.call = "cascade" => c.id \in Id
           /\ c.call = "dumpmm" => c.mm \in MM
  BY DEF Call

\* The checkpoints of a journal can be counted.
LEMMA CheckpointsFinite ==
    ASSUME NEW j \in Journals(Entry)
    PROVE  /\ IsFiniteSet(CrudCheckpoints(j)) /\ CrudCheckpoints(j) \subseteq 1 .. Len(j.log)
           /\ Cardinality(CrudCheckpoints(j)) = 0 <=> CrudCheckpoints(j) = {}
<1>1. Len(j.log) \in Nat /\ CrudCheckpoints(j) \subseteq 1 .. Len(j.log)
  BY JournalTypes DEF CrudCheckpoints
<1>2. IsFiniteSet(1 .. Len(j.log))
  BY <1>1, FS_Interval
<1>3. IsFiniteSet(CrudCheckpoints(j))
  BY <1>1, <1>2, FS_Subset
<1> QED BY <1>1, <1>3, FS_EmptySet

\* Every state has a journal whose applied entries lead to its model.
LEMMA StateFacts ==
    ASSUME IInv
    PROVE  /\ journal \in Journals(Entry) /\ model \in Sound /\ model \in Model /\ next_id \in Nat
           /\ MaxId \in Nat /\ open \in Nat
           /\ CrudCheckpoints(journal) \subseteq 1 .. journal.index
           /\ IsFiniteSet(CrudCheckpoints(journal))
           /\ open = 0 <=> CrudCheckpoints(journal) = {}
<1>1. journal \in Journals(Entry)
  BY DEF IInv, TypeOK, Journals
<1>2. PICK S : Trail(S, journal, model) /\ CheckpointInv(S)
  BY DEF IInv, TrailInv
<1>3. model \in Sound /\ model \in Model
  <2>1. journal.index \in 0 .. Len(journal.log)
    BY <1>1, JournalTypes
  <2> QED BY <2>1, <1>2 DEF Trail, Sound
<1>4. /\ IsFiniteSet(CrudCheckpoints(journal)) /\ CrudCheckpoints(journal) \subseteq 1 .. Len(journal.log)
      /\ open = 0 <=> CrudCheckpoints(journal) = {}
  BY <1>1, CheckpointsFinite DEF IInv, FailureIsAtomic
<1>5. open \in Nat /\ next_id \in Nat
  BY DEF IInv, TypeOK
<1>6. CrudCheckpoints(journal) \subseteq 1 .. journal.index
  <2>1. CASE open = 0
    BY <2>1, <1>4
  <2>2. CASE open > 0
    BY <2>2, <1>2, <1>4 DEF CheckpointInv
  <2> QED BY <2>1, <2>2, <1>5
<1> QED BY <1>1, <1>3, <1>4, <1>5, <1>6, MmmkAssumption

\* Nothing is in progress between operations: the ids from next_id on are free.
LEMMA RestFacts ==
    ASSUME IInv, open = 0, NEW S, TrailInv(S), NEW k \in 0 .. Len(journal.log), NEW i \in Nodes(S[k])
    PROVE  i < next_id
  BY DEF TrailInv, FreshInv

\* So is it when an operation can begin.
LEMMA AtRestFacts ==
    ASSUME IInv, AtRest
    PROVE  open = 0 /\ program = <<>> /\ status \notin {"running", "failing"}
           /\ CrudCheckpoints(journal) = {} /\ \A i \in Nodes(model) : i < next_id
<1>1. open = 0 /\ program = <<>> /\ status \notin {"running", "failing"}
  BY DEF IInv, ProgramInv, AtRest
<1>2. CrudCheckpoints(journal) = {}
  BY <1>1, StateFacts
<1>3. PICK S : TrailInv(S)
  BY DEF IInv
<1>4. journal.index \in 0 .. Len(journal.log) /\ S[journal.index] = model
  BY <1>3, StateFacts, JournalTypes DEF TrailInv, Trail
<1> QED BY <1>1, <1>2, <1>3, <1>4, RestFacts

\* A program goes on inside of crudOps, or is the one of unloadMetamodel.
LEMMA AdvanceFacts ==
    ASSUME IInv, status = "running", Now.call \notin {"open", "close", "dumpmm"}
    PROVE  /\ program \in Seq(Call) /\ program # <<>> /\ Now \in Call
           /\ Tail(program) \in Seq(Call) /\ Tail(program) # <<>>
           /\ open = 0 => Flat(Tail(program)) /\ Flat(program) /\ Now.call \in {"rmedges", "rmnodes"}
           /\ open > 0 => Flow(program, open, 0) /\ Flow(Tail(program), open, 0)
<1>1. program \in Seq(Call) /\ program # <<>> /\ open \in Nat
  BY DEF IInv, TypeOK, ProgramInv
<1> DEFINE n == Len(program)
<1>2. /\ Now = program[1] /\ Now \in Call /\ n \in Nat \ {0}
      /\ Tail(program) \in Seq(Call) /\ Len(Tail(program)) = n - 1
      /\ \A k \in 1 .. n - 1 : Tail(program)[k] = program[k + 1]
  BY <1>1, TailFacts DEF Now
<1>3. ASSUME open = 0
      PROVE  /\ Flat(Tail(program)) /\ Flat(program) /\ Now.call \in {"rmedges", "rmnodes"}
             /\ Tail(program) # <<>>
  <2>1. Flat(program)
    BY <1>3 DEF IInv, ProgramInv
  <2>2. 1 \in 1 .. n
    BY <1>2
  <2>3. /\ program[1].call \in {"rmedges", "rmnodes", "dumpmm"}
        /\ program[1].call = "dumpmm" <=> 1 = n
    BY <2>1, <2>2 DEF Flat
  <2>6. Now.call \in {"rmedges", "rmnodes"} /\ n # 1
    BY <2>3, <1>2
  <2>7. Tail(program) # <<>>
    <3> HIDE DEF n
    <3>1. Len(Tail(program)) # 0
      BY <2>6, <1>2
    <3> QED BY <3>1, <1>2, EmptySeq
  <2>4. ASSUME NEW k \in 1 .. n - 1
        PROVE  /\ Tail(program)[k].call \in {"rmedges", "rmnodes", "dumpmm"}
               /\ Tail(program)[k].call = "dumpmm" <=> k = n - 1
    <3>1. k + 1 \in 1 .. n /\ (k + 1 = n <=> k = n - 1)
      BY <1>2
    <3> QED BY <3>1, <2>1, <1>2 DEF Flat
  <2>5. Flat(Tail(program))
    BY <2>7, <2>4, <1>2 DEF Flat
  <2> QED BY <2>1, <2>5, <2>6, <2>7
<1>4. ASSUME open > 0
      PROVE  Flow(program, open, 0) /\ Flow(Tail(program), open, 0) /\ Tail(program) # <<>>
  <2>1. Flow(program, open, 0)
    BY <1>4 DEF IInv, ProgramInv
  <2>2. Delta(Head(program)) = 0
    BY DEF Delta, Now
  <2>3. Flow(Tail(program), open, 0)
    <3>1. open + 0 = open
      BY <1>1
    <3> QED BY <3>1, <2>1, <2>2, <1>1, FlowTail
  <2>4. Tail(program) # <<>>
    <3>1. SUFFICES ASSUME Tail(program) = <<>> PROVE FALSE
      OBVIOUS
    <3>2. Len(Tail(program)) = 0
      BY <3>1, <1>2, EmptySeq
    <3>3. open = 0
      BY <3>2, <2>3, FlowNothing
    <3> QED BY <3>3, <1>4, <1>1
  <2> QED BY <2>1, <2>3, <2>4
<1> QED BY <1>1, <1>2, <1>3, <1>4

-----------------------------------------------------------------------------
(* Steps of an operation.                                                  *)

\* An entry that is not a checkpoint leaves the checkpoints where they are.
LEMMA EntryLogged ==
    ASSUME NEW j \in Journals(Entry), NEW e \in Entry, ~IsMarker(e),
           CrudCheckpoints(j) \subseteq 1 .. j.index
    PROVE  /\ CrudCheckpoints(Log(j, e)) = CrudCheckpoints(j)
           /\ LastStep(Log(j, e)) = LastStep(j)
<1>1. ~IsCheckpoint(e) /\ ~IsStepCheckpoint(e)
  BY DEF IsMarker, IsCheckpoint, IsStepCheckpoint
<1> QED BY <1>1, CheckpointsLogged, LastStepLogged

\* A cud function of an operation in progress, in a crudOp or in unloadMetamodel.
LEMMA CudKeeps ==
    ASSUME IInv, status = "running", NEW e \in Entry, ~IsMarker(e),
           Redo(model, e) \in Sound, Explains(model, e, Redo(model, e)),
           Cud(e), UNCHANGED <<next_id, open, before, zombie>>,
           \/ status' = "running" /\ (open > 0 \/ Flat(program'))
           \/ status' = "done" /\ open = 0 /\ changelog' = Changelog(journal'),
           Nodes(model') \subseteq Nodes(model) \cup IF open > 0 THEN {next_id} ELSE {},
           next_id \in Nodes(model) => next_id \in Nodes(model')
    PROVE  /\ journal' \in Journals(Entry) /\ model' \in Model
           /\ FailureIsAtomic' /\ \E S : TrailInv(S)'
<1> DEFINE j == journal
           x == journal.index
<1>1. /\ j \in Journals(Entry) /\ CrudCheckpoints(j) \subseteq 1 .. x /\ open \in Nat
      /\ open = 0 <=> CrudCheckpoints(j) = {}
  BY StateFacts
<1>2. x \in Nat /\ x <= Len(j.log) /\ Len(j.log) \in Nat
  BY <1>1, JournalTypes
<1>3. journal' = Log(j, e) /\ model' = Redo(model, e) /\ model' \in Sound
  BY DEF Cud
<1>4. /\ journal' \in Journals(Entry) /\ journal'.index = x + 1 /\ Len(journal'.log) = x + 1
      /\ CrudCheckpoints(journal') = CrudCheckpoints(j) /\ LastStep(journal') = LastStep(j)
  BY <1>1, <1>3, LogFacts, EntryLogged
<1>5. PICK S : TrailInv(S)
  BY DEF IInv
<1>6. PICK R : Trail(R, journal', model') /\ \A k \in 0 .. x : R[k] = S[k]
  BY <1>1, <1>3, <1>5, TrailLogged DEF TrailInv
<1>7. S[x] = model /\ R[x + 1] = model'
  BY <1>4, <1>5, <1>6 DEF TrailInv, Trail
<1> HIDE DEF j, x
<1>8. FreshInv(R)'
  <2>1. SUFFICES ASSUME NEW k \in 0 .. x + 1, NEW i \in Nodes(R[k])
                 PROVE  \/ i < next_id
                        \/ /\ i = next_id /\ open > 0 /\ (status' = "running" => next_id \in Nodes(model'))
                           /\ \E c \in CrudCheckpoints(j) : c < k
    BY <1>4 DEF FreshInv
  <2>2. ASSUME NEW l \in 0 .. x, i \in Nodes(S[l])
        PROVE  \/ i < next_id
               \/ /\ i = next_id /\ open > 0 /\ next_id \in Nodes(model')
                  /\ \E c \in CrudCheckpoints(j) : c < l
    <3>1. l \in 0 .. Len(j.log)
      BY <1>2
    <3> QED BY <3>1, <2>2, <1>5 DEF TrailInv, FreshInv, j
  <2>3. CASE k <= x
    <3>1. k \in 0 .. x /\ R[k] = S[k]
      BY <2>3, <1>2, <1>6
    <3> QED BY <3>1, <2>2
  <2>4. CASE ~(k <= x)
    <3>1. k = x + 1 /\ x \in 0 .. x /\ i \in Nodes(model')
      BY <2>4, <1>2, <1>7
    <3>2. CASE i \in Nodes(model)
      <4>1. \/ i < next_id
            \/ /\ i = next_id /\ open > 0 /\ next_id \in Nodes(model')
               /\ \E c \in CrudCheckpoints(j) : c < x
        BY <3>1, <3>2, <2>2, <1>7
      <4>2. \A c \in CrudCheckpoints(j) : c < x => c < k
        BY <3>1, <1>1, <1>2 DEF x
      <4> QED BY <4>1, <4>2
    <3>3. CASE i \notin Nodes(model)
      <4>1. i = next_id /\ open > 0
        BY <3>1, <3>3
      <4>2. PICK c \in CrudCheckpoints(j) : TRUE
        BY <4>1, <1>1
      <4>3. c < k
        BY <3>1, <4>2, <1>1, <1>2 DEF x
      <4> QED BY <3>1, <4>1, <4>3
    <3> QED BY <3>2, <3>3
  <2> QED BY <2>3, <2>4
<1>9. CheckpointInv(R)'
  <2>1. open' > 0 => journal'.index = Len(journal'.log)
    BY <1>4
  <2>2. ASSUME NEW c \in CrudCheckpoints(j), \A d \in CrudCheckpoints(j) : c <= d
        PROVE  R[c - 1] = before
    <3>1. c - 1 \in 0 .. x
      BY <1>1, <1>2 DEF x
    <3>2. S[c - 1] = before
      BY <2>2, <1>5 DEF TrailInv, CheckpointInv, j
    <3> QED BY <3>1, <3>2, <1>6
  <2>3. ~(status' = "running" /\ open' = 0 /\ ~Flat(program'))
    BY <1>1
  <2> QED BY <2>1, <2>2, <2>3, <1>4 DEF CheckpointInv
<1>10. StepInv(R)'
  <2>1. ASSUME ~zombie
        PROVE  /\ LastStep(j) > 0 /\ R[LastStep(j)] = before
               /\ \A c \in CrudCheckpoints(j) : c > LastStep(j)
    <3>1. /\ LastStep(j) > 0 /\ S[LastStep(j)] = before
          /\ \A c \in CrudCheckpoints(j) : c > LastStep(j)
      BY <2>1, <1>5 DEF TrailInv, StepInv, j
    <3>2. LastStep(j) \in 0 .. x
      BY <1>1, LastStepFacts DEF x, j
    <3> QED BY <3>1, <3>2, <1>6
  <2> QED BY <2>1, <1>4 DEF StepInv
<1>11. FailureIsAtomic'
  BY <1>4 DEF IInv, FailureIsAtomic, j
<1>12. TrailInv(R)'
  BY <1>6, <1>8, <1>9, <1>10 DEF TrailInv
<1> QED BY <1>3, <1>4, <1>11, <1>12 DEF Sound

\* A step that changes neither the model nor the journal.
LEMMA SameKeeps ==
    ASSUME IInv, status = "running", open > 0 \/ Flat(program'),
           UNCHANGED <<model, journal, next_id, open, before, zombie, status>>
    PROVE  FailureIsAtomic' /\ \E S : TrailInv(S)'
<1>1. PICK S : TrailInv(S)
  BY DEF IInv
<1>2. FreshInv(S)'
  BY <1>1 DEF TrailInv, FreshInv
<1>3. CheckpointInv(S)'
  BY <1>1 DEF TrailInv, CheckpointInv, IInv, TypeOK
<1>4. StepInv(S)'
  BY <1>1 DEF TrailInv, StepInv
<1>5. TrailInv(S)'
  BY <1>1, <1>2, <1>3, <1>4 DEF TrailInv
<1> QED BY <1>5 DEF IInv, FailureIsAtomic

StillRunning == UNCHANGED <<next_id, open, status, changelog, before, cursor, zombie, counts>>

\* The types, after a step of an operation that goes on.
LEMMA RunningTypes ==
    ASSUME TypeOK, StillRunning, model' \in Model, journal' \in Journals(Entry), program' \in Seq(Call)
    PROVE  TypeOK'
  BY DEF TypeOK, Journals, StillRunning, cursor, counts

\* The program goes on: what it asks of the model is still there.
LEMMA RunningProgram ==
    ASSUME StillRunning, status = "running", program' # <<>>,
           open = 0 => Flat(program'), open > 0 => Flow(program', open, 0),
           \/ Makes(program', model', next_id) \/ Removes(program', model', next_id)
    PROVE  ProgramInv'
  BY DEF ProgramInv, StillRunning

\* What removes a node or an edge, or changes a value, leaves no more than there was.
LEMMA EdgesSame ==
    ASSUME NEW m, NEW n, n.edges = m.edges
    PROVE  \A ids : EdgesOf(n, ids) = EdgesOf(m, ids)
  BY DEF EdgesOf

\* The program that is run makes things, unless it removes some.
LEMMA RunningCalls ==
    ASSUME IInv, status = "running", program \in Seq(Call), program # <<>>
    PROVE  /\ Now.call \in {"mknode", "mkedge", "chattr"} => Makes(program, model, next_id)
           /\ Now.call \in {"rmedges", "rmnodes", "cascade", "dumpmm"} => Removes(program, model, next_id)
<1>1. Len(program) \in Nat \ {0} /\ Now = program[1]
  BY TailFacts DEF Now
<1>2. 1 \in 1 .. Len(program)
  BY <1>1
<1>3. Makes(program, model, next_id) \/ Removes(program, model, next_id)
  BY DEF IInv, ProgramInv
<1>4. Makes(program, model, next_id) => Now.call \in {"open", "close", "handlers", "mknode", "mkedge", "chattr"}
  BY <1>1, <1>2 DEF Makes
<1>5. Removes(program, model, next_id) =>
         Now.call \in {"open", "close", "handlers", "rmedges", "rmnodes", "cascade", "dumpmm"}
  BY <1>1, <1>2 DEF Removes
<1> QED BY <1>3, <1>4, <1>5

\* __mknode__
LEMMA MkNodeKeeps ==
    ASSUME IInv, Running("mknode"), MkNode(Now.id, Now.kind, Now.mm), Advance, StillRunning
    PROVE  IInv'
<1>1. status = "running" /\ Now.call = "mknode"
  BY DEF Running
<1>2. /\ program \in Seq(Call) /\ program # <<>> /\ Now \in Call
      /\ Tail(program) \in Seq(Call) /\ Tail(program) # <<>> /\ open > 0 /\ Flow(Tail(program), open, 0)
  <2>1. open \in Nat
    BY StateFacts
  <2> QED BY <2>1, <1>1, AdvanceFacts
<1>3. Makes(program, model, next_id) /\ Now = program[1] /\ 1 \in 1 .. Len(program)
  <2>1. Len(program) \in Nat \ {0} /\ Now = program[1]
    BY <1>2, TailFacts DEF Now
  <2> QED BY <2>1, <1>1, <1>2, RunningCalls
<1>4. Now.id = next_id /\ next_id \notin Nodes(model) /\ Now.mm \in model.loaded
  BY <1>1, <1>3 DEF Makes
<1>5. model \in Sound /\ next_id \in Id /\ Now.kind \in Kind /\ Now.mm \in MM
  BY <1>1, <1>2, <1>4, CallFields, StateFacts
<1> DEFINE node == [kind |-> Now.kind, mm |-> Now.mm, val |-> Default]
           e == [op |-> "MKNODE", id |-> next_id, node |-> node]
<1>6. node \in Node /\ node.mm \in model.loaded /\ node.kind = Now.kind
  BY <1>4, <1>5, MmmkAssumption DEF Node
<1>7. Cud(e)
  BY <1>4 DEF MkNode
<1>8. ~IsMarker(e)
  BY DEF IsMarker
<1> HIDE DEF node
<1>9. /\ e \in Entry /\ Redo(model, e) \in Sound /\ Explains(model, e, Redo(model, e))
      /\ Redo(model, e) = [model EXCEPT !.nodes[next_id] = node]
      /\ Nodes(Redo(model, e)) = Nodes(model) \cup {next_id}
  BY <1>4, <1>5, <1>6, MkNodeExplains
<1> HIDE DEF e
<1>10. model' = Redo(model, e)
  BY <1>7 DEF Cud
<1>11. /\ journal' \in Journals(Entry) /\ model' \in Model
       /\ FailureIsAtomic' /\ \E S : TrailInv(S)'
  BY <1>1, <1>2, <1>7, <1>8, <1>9, <1>10, CudKeeps DEF StillRunning
<1>12. /\ model'.loaded = model.loaded /\ model'.nodes[next_id] = node
       /\ \A i \in Nodes(model) : model'.nodes[i] = model.nodes[i]
  <2>1. model \in Model
    BY StateFacts
  <2>2. model' = [nodes |-> [model.nodes EXCEPT ![next_id] = node], edges |-> model.edges,
                  metamodels |-> model.metamodels, loaded |-> model.loaded]
    BY <2>1, <1>9, <1>10, NewNodes
  <2>3. model.nodes \in [Id -> Node \cup {Absent}] /\ \A i \in Nodes(model) : i \in Id /\ i # next_id
    BY <2>1, <1>4, ModelParts
  <2> QED BY <2>2, <2>3, <1>5
<1>13. Makes(Tail(program), model', next_id)
  <2>1. Head(program) = Now
    BY DEF Now
  <2>2. /\ Nodes(model') = Nodes(model) \cup {Now.id} /\ model'.nodes[Now.id].kind = Now.kind
        /\ \A i \in Nodes(model) : model'.nodes[i].kind = model.nodes[i].kind
        /\ Nodes(model) \subseteq Nodes(model') /\ model.loaded = model'.loaded
    BY <1>4, <1>6, <1>9, <1>10, <1>12
  <2> QED BY <2>1, <2>2, <1>1, <1>2, <1>3, MakesTail
<1>14. ProgramInv'
  BY <1>1, <1>2, <1>13, RunningProgram DEF Advance
<1>15. TypeOK'
  BY <1>2, <1>11, RunningTypes DEF IInv, Advance
<1> QED BY <1>11, <1>14, <1>15 DEF IInv

\* __mkedge__
LEMMA MkEdgeKeeps ==
    ASSUME IInv, Running("mkedge"), MkEdge(Now.src, Now.dest), Advance, StillRunning
    PROVE  IInv'
<1>1. status = "running" /\ Now.call = "mkedge"
  BY DEF Running
<1>2. /\ program \in Seq(Call) /\ program # <<>> /\ Now \in Call
      /\ Tail(program) \in Seq(Call) /\ Tail(program) # <<>> /\ open > 0 /\ Flow(Tail(program), open, 0)
  <2>1. open \in Nat
    BY StateFacts
  <2> QED BY <2>1, <1>1, AdvanceFacts
<1>3. Makes(program, model, next_id) /\ Now = program[1] /\ 1 \in 1 .. Len(program)
  <2>1. Len(program) \in Nat \ {0} /\ Now = program[1]
    BY <1>2, TailFacts DEF Now
  <2> QED BY <2>1, <1>1, <1>2, RunningCalls
<1> DEFINE x == Edge(Now.src, Now.dest)
           e == [op |-> "MKEDGE", i |-> Len(model.edges) + 1, edge |-> x]
<1>4. model \in Sound /\ x \in EdgeType /\ x.src = Now.src /\ x.dest = Now.dest
  BY <1>1, <1>2, CallFields, StateFacts DEF Edge, EdgeType
<1>5. Joins(model, x)
  <2>1. \A j \in 1 .. 1 - 1 : FALSE
    OBVIOUS
  <2>2. \/ WillBe(program, 1, model, Now.src, "node") /\ WillBe(program, 1, model, Now.dest, "connector")
        \/ WillBe(program, 1, model, Now.src, "connector") /\ WillBe(program, 1, model, Now.dest, "node")
    BY <1>1, <1>3 DEF Makes
  <2>3. \/ /\ Now.src \in Nodes(model) /\ model.nodes[Now.src].kind = "node"
           /\ Now.dest \in Nodes(model) /\ model.nodes[Now.dest].kind = "connector"
        \/ /\ Now.src \in Nodes(model) /\ model.nodes[Now.src].kind = "connector"
           /\ Now.dest \in Nodes(model) /\ model.nodes[Now.dest].kind = "node"
    BY <2>1, <2>2 DEF WillBe
  <2> HIDE DEF x
  <2> QED BY <2>3, <1>4 DEF Joins, IsConnector, Nodes
<1>6. Cud(e)
  BY DEF MkEdge
<1>7. ~IsMarker(e)
  BY DEF IsMarker
<1> HIDE DEF x
<1>8. /\ e \in Entry /\ Redo(model, e) \in Sound /\ Explains(model, e, Redo(model, e))
      /\ Redo(model, e).nodes = model.nodes /\ Nodes(Redo(model, e)) = Nodes(model)
      /\ Redo(model, e).loaded = model.loaded
  BY <1>4, <1>5, MkEdgeExplains
<1> HIDE DEF e
<1>9. model' = Redo(model, e)
  BY <1>6 DEF Cud
<1>10. /\ journal' \in Journals(Entry) /\ model' \in Model
       /\ FailureIsAtomic' /\ \E S : TrailInv(S)'
  BY <1>1, <1>2, <1>6, <1>7, <1>8, <1>9, CudKeeps DEF StillRunning
<1>11. Makes(Tail(program), model', next_id)
  <2>1. Head(program) = Now
    BY DEF Now
  <2> QED BY <2>1, <1>1, <1>2, <1>3, <1>8, <1>9, MakesTail
<1>12. ProgramInv'
  BY <1>1, <1>2, <1>11, RunningProgram DEF Advance
<1>13. TypeOK'
  BY <1>2, <1>10, RunningTypes DEF IInv, Advance
<1> QED BY <1>10, <1>12, <1>13 DEF IInv

\* __chattr__ in a crudOp, called by it or by a handler.
LEMMA ChAttrKeeps ==
    ASSUME IInv, status = "running", Now.call \in {"chattr", "handlers"},
           NEW id \in Nodes(model), NEW v \in Val, ChAttr(id, v), Advance, StillRunning
    PROVE  IInv'
<1>1. /\ program \in Seq(Call) /\ program # <<>> /\ Now \in Call /\ Head(program) = Now
      /\ Tail(program) \in Seq(Call) /\ Tail(program) # <<>> /\ open > 0 /\ Flow(Tail(program), open, 0)
  <2>1. open \in Nat
    BY StateFacts
  <2> QED BY <2>1, AdvanceFacts DEF Now
<1>2. /\ journal' \in Journals(Entry) /\ model' \in Model
      /\ FailureIsAtomic' /\ \E S : TrailInv(S)'
      /\ Nodes(model') = Nodes(model) /\ model'.edges = model.edges /\ model'.loaded = model.loaded
      /\ \A i \in Nodes(model) : /\ model'.nodes[i].kind = model.nodes[i].kind
                                 /\ model'.nodes[i].mm = model.nodes[i].mm
  <2>1. CASE model.nodes[id].val = v
    <3>1. UNCHANGED <<model, journal>>
      BY <2>1 DEF ChAttr
    <3> QED BY <3>1, <1>1, SameKeeps, StateFacts DEF StillRunning
  <2>2. CASE model.nodes[id].val # v
    <3> DEFINE e == [op |-> "CHATTR", id |-> id, new |-> v, old |-> model.nodes[id].val]
    <3>1. Cud(e)
      BY <2>2 DEF ChAttr
    <3>2. ~IsMarker(e)
      BY DEF IsMarker
    <3>3. model \in Sound
      BY StateFacts
    <3>4. /\ e \in Entry /\ Redo(model, e) \in Sound /\ Explains(model, e, Redo(model, e))
          /\ Nodes(Redo(model, e)) = Nodes(model) /\ Redo(model, e).edges = model.edges
          /\ Redo(model, e).loaded = model.loaded
          /\ \A i \in Nodes(Redo(model, e)) :
                /\ Redo(model, e).nodes[i].kind = model.nodes[i].kind
                /\ Redo(model, e).nodes[i].mm = model.nodes[i].mm
      BY <3>3, ChAttrExplains
    <3> HIDE DEF e
    <3>5. model' = Redo(model, e)
      BY <3>1 DEF Cud
    <3>6. /\ journal' \in Journals(Entry) /\ model' \in Model
          /\ FailureIsAtomic' /\ \E S : TrailInv(S)'
      BY <1>1, <3>1, <3>2, <3>4, <3>5, CudKeeps DEF StillRunning
    <3> QED BY <3>4, <3>5, <3>6
  <2> QED BY <2>1, <2>2
<1>3. Makes(Tail(program), model', next_id) \/ Removes(Tail(program), model', next_id)
  <2>1. CASE Makes(program, model, next_id)
    BY <2>1, <1>1, <1>2, MakesTail
  <2>2. CASE Removes(program, model, next_id)
    <3>1. Shrinks(model, model')
      BY <1>2, EdgesSame DEF Shrinks
    <3>2. Removes(program, model', next_id)
      BY <2>2, <3>1, RemovesKept
    <3> QED BY <3>2, <1>1, RemovesTail
  <2> QED BY <2>1, <2>2 DEF IInv, ProgramInv
<1>4. ProgramInv'
  BY <1>1, <1>3, RunningProgram DEF Advance
<1>5. TypeOK'
  BY <1>1, <1>2, RunningTypes DEF IInv, Advance
<1> QED BY <1>2, <1>4, <1>5 DEF IInv

\* Handlers that change nothing.
LEMMA HandlersKeep ==
    ASSUME IInv, Handlers
    PROVE  IInv'
<1>1. status = "running" /\ Now.call = "handlers" /\ Advance /\ StillRunning
  BY DEF Handlers, Running, StillRunning
<1>2. CASE \E id \in Nodes(model) \cap Handled, v \in Val : ChAttr(id, v)
  <2>1. PICK id \in Nodes(model) \cap Handled, v \in Val : ChAttr(id, v)
    BY <1>2
  <2> QED BY <2>1, <1>1, ChAttrKeeps
<1>3. CASE UNCHANGED <<model, journal>>
  <2>1. /\ program \in Seq(Call) /\ program # <<>> /\ Now \in Call /\ Head(program) = Now
        /\ Tail(program) \in Seq(Call) /\ Tail(program) # <<>> /\ open > 0 /\ Flow(Tail(program), open, 0)
    <3>1. open \in Nat
      BY StateFacts
    <3> QED BY <3>1, <1>1, AdvanceFacts DEF Now
  <2>2. FailureIsAtomic' /\ \E S : TrailInv(S)'
    BY <1>1, <1>3, <2>1, SameKeeps DEF StillRunning
  <2>3. Makes(Tail(program), model, next_id) \/ Removes(Tail(program), model, next_id)
    <3>1. CASE Makes(program, model, next_id)
      BY <3>1, <2>1, <1>1, MakesTail
    <3>2. CASE Removes(program, model, next_id)
      BY <3>2, <2>1, <1>1, RemovesTail
    <3> QED BY <3>1, <3>2 DEF IInv, ProgramInv
  <2>4. ProgramInv'
    BY <1>1, <1>3, <2>1, <2>3, RunningProgram DEF Advance
  <2>5. TypeOK'
    BY <1>1, <1>3, <2>1, StateFacts, RunningTypes DEF IInv, Advance
  <2> QED BY <2>2, <2>4, <2>5 DEF IInv
<1> QED BY <1>2, <1>3 DEF Handlers

\* __rmedge__ of the first edge of those to remove, until none is left.
LEMMA RmEdgesKeeps ==
    ASSUME IInv, Running("rmedges"), RmEdges(Now.ids), StillRunning
    PROVE  IInv'
<1>1. status = "running" /\ Now.call = "rmedges"
  BY DEF Running
<1>2. /\ program \in Seq(Call) /\ program # <<>> /\ Now \in Call /\ Head(program) = Now
      /\ Tail(program) \in Seq(Call) /\ Tail(program) # <<>> /\ open \in Nat
      /\ open = 0 => Flat(program) /\ Flat(Tail(program))
      /\ open > 0 => Flow(program, open, 0) /\ Flow(Tail(program), open, 0)
  BY <1>1, AdvanceFacts, StateFacts DEF Now
<1>3. Removes(program, model, next_id)
  BY <1>1, <1>2, RunningCalls
<1>4. model \in Sound /\ model \in Model /\ next_id \notin Nodes(model)
  BY <1>3, StateFacts DEF Removes
<1> DEFINE es == EdgesOf(model, Now.ids)
<1>5. CASE es = {}
  <2>1. UNCHANGED <<model, journal>> /\ program' = Tail(program)
    BY <1>5 DEF RmEdges, Advance
  <2>2. FailureIsAtomic' /\ \E S : TrailInv(S)'
    BY <2>1, <1>1, <1>2, SameKeeps DEF StillRunning
  <2>3. Removes(Tail(program), model, next_id)
    BY <1>1, <1>2, <1>3, <1>5, RemovesTail
  <2>4. ProgramInv'
    BY <2>1, <2>3, <1>1, <1>2, RunningProgram
  <2>5. TypeOK'
    BY <2>1, <1>2, StateFacts, RunningTypes DEF IInv
  <2> QED BY <2>2, <2>4, <2>5 DEF IInv
<1>6. CASE es # {}
  <2> DEFINE c == Lowest(es, 0)
             e == [op |-> "RMEDGE", i |-> c, edge |-> model.edges[c]]
  <2>1. Cud(e) /\ program' = program
    BY <1>6 DEF RmEdges, RmEdge
  <2>2. ~IsMarker(e)
    BY DEF IsMarker
  <2>3. c \in DOMAIN model.edges
    <3>1. es \subseteq DOMAIN model.edges /\ DOMAIN model.edges = 1 .. Len(model.edges)
          /\ Len(model.edges) \in Nat
      BY <1>4, ModelParts DEF EdgesOf
    <3>2. es \subseteq Nat
      BY <3>1
    <3>3. c \in es
      BY <3>2, <1>6, LowestIn
    <3> QED BY <3>1, <3>3
  <2> HIDE DEF c
  <2>4. /\ e \in Entry /\ Redo(model, e) \in Sound /\ Explains(model, e, Redo(model, e))
        /\ Redo(model, e).nodes = model.nodes /\ Nodes(Redo(model, e)) = Nodes(model)
        /\ Redo(model, e).loaded = model.loaded
        /\ \A ids : EdgesOf(model, ids) = {} => EdgesOf(Redo(model, e), ids) = {}
    BY <2>3, <1>4, RmEdgeExplains
  <2> HIDE DEF e
  <2>5. model' = Redo(model, e)
    BY <2>1 DEF Cud
  <2>6. /\ journal' \in Journals(Entry) /\ model' \in Model
        /\ FailureIsAtomic' /\ \E S : TrailInv(S)'
    BY <1>1, <1>2, <2>1, <2>2, <2>4, <2>5, CudKeeps DEF StillRunning
  <2>7. Removes(program, model', next_id)
    <3>1. Shrinks(model, model')
      BY <2>4, <2>5 DEF Shrinks
    <3> QED BY <3>1, <1>3, RemovesKept
  <2>8. ProgramInv'
    BY <2>1, <2>7, <1>1, <1>2, RunningProgram
  <2>9. TypeOK'
    BY <2>1, <2>6, <1>2, RunningTypes DEF IInv
  <2> QED BY <2>6, <2>8, <2>9 DEF IInv
<1> QED BY <1>5, <1>6

\* __rmnode__ of the first node of those to remove, which have lost their edges.
LEMMA RmNodesKeeps ==
    ASSUME IInv, Running("rmnodes"), RmNodes(Now.ids), StillRunning
    PROVE  IInv'
<1>1. status = "running" /\ Now.call = "rmnodes"
  BY DEF Running
<1>2. /\ program \in Seq(Call) /\ program # <<>> /\ Now \in Call /\ Head(program) = Now
      /\ Tail(program) \in Seq(Call) /\ Tail(program) # <<>> /\ open \in Nat
      /\ open = 0 => Flat(program) /\ Flat(Tail(program))
      /\ open > 0 => Flow(program, open, 0) /\ Flow(Tail(program), open, 0)
  BY <1>1, AdvanceFacts, StateFacts DEF Now
<1>3. Removes(program, model, next_id) /\ Now = program[1] /\ 1 \in 1 .. Len(program)
  <2>1. Len(program) \in Nat \ {0} /\ Now = program[1]
    BY <1>2, TailFacts DEF Now
  <2> QED BY <2>1, <1>1, <1>2, RunningCalls
<1>4. model \in Sound /\ model \in Model /\ next_id \notin Nodes(model)
  BY <1>3, StateFacts DEF Removes
<1> DEFINE ns == Nodes(model) \cap Now.ids
<1>5. CASE ns = {}
  <2>1. UNCHANGED <<model, journal>> /\ program' = Tail(program)
    BY <1>5 DEF RmNodes, Advance
  <2>2. FailureIsAtomic' /\ \E S : TrailInv(S)'
    BY <2>1, <1>1, <1>2, SameKeeps DEF StillRunning
  <2>3. Removes(Tail(program), model, next_id)
    BY <1>1, <1>2, <1>3, <1>5, RemovesTail
  <2>4. ProgramInv'
    BY <2>1, <2>3, <1>1, <1>2, RunningProgram
  <2>5. TypeOK'
    BY <2>1, <1>2, StateFacts, RunningTypes DEF IInv
  <2> QED BY <2>2, <2>4, <2>5 DEF IInv
<1>6. CASE ns # {}
  <2> DEFINE id == Lowest(ns, 0)
             e == [op |-> "RMNODE", id |-> id, node |-> model.nodes[id]]
  <2>1. Cud(e) /\ program' = program
    BY <1>6 DEF RmNodes, RmNode
  <2>2. ~IsMarker(e)
    BY DEF IsMarker
  <2>3. id \in Nodes(model) /\ id \in Now.ids
    <3>1. ns \subseteq Nat
      BY MmmkAssumption DEF Nodes, Id
    <3>2. id \in ns
      BY <3>1, <1>6, LowestIn
    <3> QED BY <3>2
  <2> HIDE DEF id
  <2>4. EdgesOf(model, {id}) = {}
    <3>1. \A j \in 1 .. 1 - 1 : FALSE
      OBVIOUS
    <3>2. WillBeBare(program, 1, model, Now.ids)
      BY <1>1, <1>3 DEF Removes
    <3>3. EdgesOf(model, Now.ids) = {}
      BY <3>1, <3>2 DEF WillBeBare
    <3> QED BY <3>3, <2>3 DEF EdgesOf
  <2>5. /\ e \in Entry /\ Redo(model, e) \in Sound /\ Explains(model, e, Redo(model, e))
        /\ Redo(model, e) = [model EXCEPT !.nodes[id] = Absent]
        /\ Nodes(Redo(model, e)) = Nodes(model) \ {id}
    BY <2>3, <2>4, <1>4, RmNodeExplains
  <2> HIDE DEF e
  <2>6. model' = Redo(model, e)
    BY <2>1 DEF Cud
  <2>7. /\ journal' \in Journals(Entry) /\ model' \in Model
        /\ FailureIsAtomic' /\ \E S : TrailInv(S)'
    <3>1. Nodes(model') \subseteq Nodes(model) \cup IF open > 0 THEN {next_id} ELSE {}
      BY <2>5, <2>6
    <3>2. next_id \in Nodes(model) => next_id \in Nodes(model')
      BY <1>4
    <3>3. Redo(model, e) \in Sound /\ Explains(model, e, Redo(model, e))
      BY <2>5
    <3>4. status' = "running" /\ (open > 0 \/ Flat(program'))
      BY <1>1, <1>2, <2>1 DEF StillRunning
    <3> QED BY <1>1, <2>1, <2>2, <2>5, <3>1, <3>2, <3>3, <3>4, CudKeeps DEF StillRunning
  <2>8. Removes(program, model', next_id)
    <3>1. model' = [nodes |-> [model.nodes EXCEPT ![id] = Absent], edges |-> model.edges,
                    metamodels |-> model.metamodels, loaded |-> model.loaded]
      BY <2>5, <2>6, <1>4, NewNodes
    <3>2. /\ model'.edges = model.edges /\ model'.loaded = model.loaded
          /\ \A i \in Nodes(model) \ {id} : model'.nodes[i] = model.nodes[i]
      <4>1. model.nodes \in [Id -> Node \cup {Absent}] /\ Nodes(model) \subseteq Id
        BY <1>4, ModelParts
      <4> QED BY <3>1, <4>1
    <3>3. Shrinks(model, model')
      BY <3>2, <2>5, <2>6, EdgesSame DEF Shrinks
    <3> QED BY <3>3, <1>3, RemovesKept
  <2>9. ProgramInv'
    BY <2>1, <2>8, <1>1, <1>2, RunningProgram
  <2>10. TypeOK'
    BY <2>1, <2>7, <1>2, RunningTypes DEF IInv
  <2> QED BY <2>7, <2>9, <2>10 DEF IInv
<1> QED BY <1>5, <1>6

\* A cascading delete puts the delete of a connector in front of the program.
LEMMA CascadeKeeps ==
    ASSUME IInv, Running("cascade"), Cascade(Now.id), StillRunning
    PROVE  IInv'
<1>1. status = "running" /\ Now.call = "cascade"
  BY DEF Running
<1>2. /\ program \in Seq(Call) /\ program # <<>> /\ Now \in Call /\ Head(program) = Now
      /\ Tail(program) \in Seq(Call) /\ Tail(program) # <<>> /\ open > 0 /\ open \in Nat
      /\ Flow(program, open, 0) /\ Flow(Tail(program), open, 0)
  <2>1. open \in Nat
    BY StateFacts
  <2> QED BY <2>1, <1>1, AdvanceFacts DEF Now
<1>3. Removes(program, model, next_id)
  BY <1>1, <1>2, RunningCalls
<1>4. model \in Model /\ next_id \notin Nodes(model) /\ UNCHANGED <<model, journal>>
  BY <1>3, StateFacts DEF Removes, Cascade
<1>5. FailureIsAtomic' /\ \E S : TrailInv(S)'
  BY <1>1, <1>2, <1>4, SameKeeps DEF StillRunning
<1> DEFINE es == EdgesOf(model, {Now.id})
<1>6. /\ program' \in Seq(Call) /\ program' # <<>> /\ Flow(program', open, 0)
      /\ Removes(program', model, next_id)
  <2>1. CASE es = {}
    <3>1. program' = Tail(program)
      BY <2>1 DEF Cascade, Advance
    <3>2. Removes(Tail(program), model, next_id)
      BY <2>1, <1>1, <1>2, <1>3, RemovesTail
    <3> QED BY <3>1, <3>2, <1>2
  <2>2. CASE es # {}
    <3> DEFINE x == model.edges[Lowest(es, 0)]
               id == OtherEnd(x, Now.id)
               calls == DeleteConnectorCalls(id)
    <3>1. program' = Crud(calls) \o program
      BY <2>2 DEF Cascade
    <3>2. id \in Id
      <4>1. es \subseteq DOMAIN model.edges /\ DOMAIN model.edges = 1 .. Len(model.edges)
            /\ Len(model.edges) \in Nat /\ \A i \in DOMAIN model.edges : model.edges[i] \in EdgeType
        BY <1>4, ModelParts DEF EdgesOf
      <4>2. es \subseteq Nat
        <5>1. 1 .. Len(model.edges) \subseteq Nat
          OBVIOUS
        <5> HIDE DEF es
        <5> QED BY <4>1, <5>1
      <4>3. Lowest(es, 0) \in es
        BY <4>2, <2>2, LowestIn
      <4> HIDE DEF es
      <4> QED BY <4>1, <4>3 DEF OtherEnd, EdgeType
    <3> HIDE DEF id
    <3>3. /\ calls \in Seq(Call) /\ Removes(calls, model, next_id)
          /\ \A l \in Nat : l > 0 => Flow(calls, l, l)
      BY <3>2, <1>4, DeleteConnectorRemoves
    <3> HIDE DEF calls
    <3>4. open + 1 \in Nat /\ open + 1 > 0
      BY <1>2
    <3>5. /\ Crud(calls) \in Seq(Call) /\ Removes(Crud(calls), model, next_id)
          /\ Flow(Crud(calls), open, open) /\ Len(Crud(calls)) = Len(calls) + 4 /\ Len(calls) \in Nat
      BY <3>3, <3>4, <1>2, CrudFacts, RemovesCrud, FlowCrud
    <3>6. Flow(program', open, 0) /\ Removes(program', model, next_id)
      BY <3>1, <3>5, <1>2, <1>3, FlowConcat, RemovesConcat
    <3>7. /\ program' \in Seq(Call) /\ Len(program') = Len(Crud(calls)) + Len(program)
          /\ Len(program) \in Nat
      BY <3>1, <3>5, <1>2, ConcatProperties, LenProperties
    <3>8. program' # <<>>
      BY <3>5, <3>7, EmptySeq
    <3> QED BY <3>6, <3>7, <3>8
  <2> QED BY <2>1, <2>2
<1>7. ProgramInv'
  BY <1>1, <1>2, <1>4, <1>6, RunningProgram
<1>8. TypeOK'
  BY <1>4, <1>6, StateFacts, RunningTypes DEF IInv
<1> QED BY <1>5, <1>7, <1>8 DEF IInv

LEMMA PerformKeeps ==
    ASSUME IInv, Perform
    PROVE  IInv'
<1>1. StillRunning
  BY DEF Perform, StillRunning
<1>2. CASE Running("mknode") /\ MkNode(Now.id, Now.kind, Now.mm) /\ Advance
  BY <1>1, <1>2, MkNodeKeeps
<1>3. CASE Running("mkedge") /\ MkEdge(Now.src, Now.dest) /\ Advance
  BY <1>1, <1>3, MkEdgeKeeps
<1>4. CASE Running("chattr") /\ ChAttr(Now.id, Now.val) /\ Advance
  <2>1. status = "running" /\ Now.call = "chattr" /\ program # <<>>
    BY <1>4 DEF Running
  <2>2. program \in Seq(Call)
    BY DEF IInv, TypeOK
  <2>3. /\ Len(program) \in Nat \ {0} /\ Now = program[1] /\ Now \in Call
        /\ Makes(program, model, next_id)
    BY <2>1, <2>2, TailFacts, RunningCalls DEF Now
  <2>4. 1 \in 1 .. Len(program)
    BY <2>3
  <2>5. Now.id \in Nodes(model) /\ Now.val \in Val
    BY <2>1, <2>3, <2>4, CallFields DEF Makes
  <2> QED BY <2>1, <2>5, <1>1, <1>4, ChAttrKeeps
<1>5. CASE Running("rmedges") /\ RmEdges(Now.ids)
  BY <1>1, <1>5, RmEdgesKeeps
<1>6. CASE Running("rmnodes") /\ RmNodes(Now.ids)
  BY <1>1, <1>6, RmNodesKeeps
<1>7. CASE Running("cascade") /\ Cascade(Now.id)
  BY <1>1, <1>7, CascadeKeeps
<1> QED BY <1>2, <1>3, <1>4, <1>5, <1>6, <1>7 DEF Perform

\* The changelog that an operation returns.
LEMMA ChangelogType ==
    ASSUME NEW j \in Journals(Entry)
    PROVE  Changelog(j) \in Seq(Entry)
<1>1. j.log \in Seq(Entry) /\ j.index \in Nat /\ j.index <= Len(j.log) /\ Len(j.log) \in Nat
  BY JournalTypes
<1>2. LastStep(j) \in 0 .. j.index
  BY LastStepFacts
<1> DEFINE a == (IF LastStep(j) = 0 THEN 1 ELSE LastStep(j)) + 1
<1>3. a \in Nat \ {0}
  BY <1>1, <1>2
<1>4. Changelog(j) = SubSeq(j.log, a, j.index)
  BY DEF Changelog
<1> HIDE DEF a
<1>5. \A i \in a .. j.index : i \in 1 .. Len(j.log)
  BY <1>1, <1>3
<1> QED BY <1>1, <1>3, <1>4, <1>5, SubSeqProperties

\* __dumpmm__ ends unloadMetamodel.
LEMMA DumpMetamodelKeeps ==
    ASSUME IInv, DumpMetamodel
    PROVE  IInv'
<1>1. /\ status = "running" /\ Now.call = "dumpmm" /\ program # <<>>
      /\ status' = "done" /\ changelog' = Changelog(journal')
      /\ done' = done + 1 /\ undone' = 0 /\ program' = Tail(program)
      /\ UNCHANGED <<next_id, open, before, zombie, counts>>
  BY DEF DumpMetamodel, Running, Returns, Advance
<1>2. program \in Seq(Call)
  BY DEF IInv, TypeOK
<1>3. /\ Len(program) \in Nat \ {0} /\ Now = program[1] /\ Now \in Call
      /\ Tail(program) \in Seq(Call) /\ Len(Tail(program)) = Len(program) - 1
  BY <1>1, <1>2, TailFacts DEF Now
<1>4. 1 \in 1 .. Len(program)
  BY <1>3
<1>5. open = 0
  <2>1. SUFFICES ASSUME open > 0 PROVE FALSE
    BY StateFacts
  <2>2. Flow(program, open, 0)
    BY <2>1, <1>1 DEF IInv, ProgramInv
  <2> QED BY <2>2, <1>1, <1>2, StateFacts, FlowTail DEF Now
<1>6. Flat(program)
  BY <1>1, <1>5 DEF IInv, ProgramInv
<1>7. Tail(program) = <<>>
  <2>1. 1 = Len(program)
    BY <1>1, <1>3, <1>4, <1>6 DEF Flat
  <2>2. Len(Tail(program)) = 0
    BY <2>1, <1>3
  <2> QED BY <2>2, <1>3, EmptySeq
<1>8. Removes(program, model, next_id)
  BY <1>1, <1>2, RunningCalls
<1>9. Now.mm \in model.loaded /\ NodesOf(model, Now.mm) = {} /\ next_id \notin Nodes(model)
  <2>1. \A j \in 1 .. 1 - 1 : FALSE
    OBVIOUS
  <2>2. /\ Now.mm \in model.loaded
        /\ \/ NodesOf(model, Now.mm) = {}
           \/ \E j \in 1 .. 1 - 1 : program[j].call = "rmnodes" /\ NodesOf(model, Now.mm) \subseteq program[j].ids
    BY <1>1, <1>3, <1>4, <1>8 DEF Removes
  <2> QED BY <2>1, <2>2, <1>8 DEF Removes
<1> DEFINE e == [op |-> "DUMPMM", name |-> Now.mm]
<1>10. Cud(e)
  BY DEF DumpMetamodel
<1>11. ~IsMarker(e)
  BY DEF IsMarker
<1>12. /\ e \in Entry /\ Redo(model, e) \in Sound /\ Explains(model, e, Redo(model, e))
       /\ Nodes(Redo(model, e)) = Nodes(model)
  BY <1>9, StateFacts, DumpMMExplains
<1> HIDE DEF e
<1>13. model' = Redo(model, e)
  BY <1>10 DEF Cud
<1>14. /\ journal' \in Journals(Entry) /\ model' \in Model
       /\ FailureIsAtomic' /\ \E S : TrailInv(S)'
  <2>1. Nodes(model') \subseteq Nodes(model) \cup IF open > 0 THEN {next_id} ELSE {}
    BY <1>12, <1>13
  <2>2. next_id \in Nodes(model) => next_id \in Nodes(model')
    BY <1>12, <1>13
  <2>3. status' = "done" /\ open = 0 /\ changelog' = Changelog(journal')
    BY <1>1, <1>5
  <2> QED BY <1>1, <1>10, <1>11, <1>12, <2>1, <2>2, <2>3, CudKeeps
<1>15. ProgramInv'
  <2>1. Makes(program', model', next_id')
    BY <1>1, <1>7 DEF Makes
  <2> QED BY <2>1, <1>1, <1>5, <1>7 DEF ProgramInv
<1>16. TypeOK'
  <2>1. changelog' \in Seq(Entry)
    BY <1>1, <1>14, ChangelogType
  <2>2. program' \in Seq(Call) /\ done' \in Nat /\ undone' \in Nat
    BY <1>1, <1>3 DEF IInv, TypeOK
  <2> QED BY <2>1, <2>2, <1>1, <1>14 DEF IInv, TypeOK, Journals, counts
<1> QED BY <1>14, <1>15, <1>16 DEF IInv

-----------------------------------------------------------------------------
(* Both ends of a crudOp.                                                  *)

\* setting its checkpoint
LEMMA OpenKeeps ==
    ASSUME IInv, OpenCrudOp
    PROVE  IInv'
<1> DEFINE j == journal
           x == journal.index
<1>1. /\ status = "running" /\ Now.call = "open" /\ program # <<>> /\ program' = Tail(program)
      /\ journal' = Log(j, MKCHKPT) /\ open' = open + 1
      /\ UNCHANGED <<model, next_id, status, changelog, before, cursor, zombie, counts>>
  BY DEF OpenCrudOp, Running, Advance
<1>2. program \in Seq(Call) /\ Head(program) = Now
  BY DEF IInv, TypeOK, Now
<1>3. /\ j \in Journals(Entry) /\ CrudCheckpoints(j) \subseteq 1 .. x /\ open \in Nat
      /\ open = 0 <=> CrudCheckpoints(j) = {}
      /\ IsFiniteSet(CrudCheckpoints(j)) /\ model \in Sound /\ model \in Model
  BY StateFacts
<1>4. x \in Nat /\ x <= Len(j.log) /\ Len(j.log) \in Nat
  BY <1>3, JournalTypes
<1>5. MKCHKPT \in Entry /\ IsMarker(MKCHKPT) /\ IsCheckpoint(MKCHKPT) /\ ~IsStepCheckpoint(MKCHKPT)
  BY DEF MKCHKPT, Entry, IsMarker, IsCheckpoint, IsStepCheckpoint
<1>6. /\ journal' \in Journals(Entry) /\ journal'.index = x + 1 /\ Len(journal'.log) = x + 1
      /\ CrudCheckpoints(journal') = CrudCheckpoints(j) \cup {x + 1} /\ LastStep(journal') = LastStep(j)
  <2>1. /\ Log(j, MKCHKPT) \in Journals(Entry)
        /\ Log(j, MKCHKPT).index = x + 1 /\ Len(Log(j, MKCHKPT).log) = x + 1
    BY <1>3, <1>5, LogFacts
  <2>2. CrudCheckpoints(Log(j, MKCHKPT)) = CrudCheckpoints(j) \cup {x + 1}
    BY <1>3, <1>5, CheckpointsLogged
  <2>3. LastStep(Log(j, MKCHKPT)) = LastStep(j)
    BY <1>3, <1>5, LastStepLogged
  <2> QED BY <2>1, <2>2, <2>3, <1>1
<1>7. PICK S : TrailInv(S)
  BY DEF IInv
<1>8. PICK R : Trail(R, journal', model) /\ \A k \in 0 .. x : R[k] = S[k]
  BY <1>1, <1>3, <1>5, <1>7, MarkerExplains, TrailLogged DEF TrailInv
<1>9. S[x] = model /\ R[x + 1] = model
  BY <1>6, <1>7, <1>8 DEF TrailInv, Trail
<1> HIDE DEF j, x
<1>10. FreshInv(R)'
  <2>1. SUFFICES ASSUME NEW k \in 0 .. x + 1, NEW i \in Nodes(R[k])
                 PROVE  \/ i < next_id
                        \/ /\ i = next_id /\ open + 1 > 0 /\ (status = "running" => next_id \in Nodes(model))
                           /\ \E c \in CrudCheckpoints(j) \cup {x + 1} : c < k
    BY <1>1, <1>6 DEF FreshInv
  <2>2. PICK l \in 0 .. x : l <= k /\ R[k] = S[l]
    <3>1. CASE k <= x
      <4>1. k \in 0 .. x
        BY <3>1, <1>4
      <4> QED BY <4>1, <1>8
    <3>2. CASE ~(k <= x)
      <4>1. k = x + 1 /\ x \in 0 .. x /\ x <= k
        BY <3>2, <1>4
      <4> QED BY <4>1, <1>9
    <3> QED BY <3>1, <3>2
  <2>3. \/ i < next_id
        \/ /\ i = next_id /\ open > 0 /\ (status = "running" => next_id \in Nodes(model))
           /\ \E c \in CrudCheckpoints(j) : c < l
    <3>1. l \in 0 .. Len(j.log) /\ i \in Nodes(S[l])
      BY <2>2, <1>4
    <3> QED BY <3>1, <1>7 DEF TrailInv, FreshInv, j
  <2>4. \A c \in CrudCheckpoints(j) : c < l => c < k
    BY <2>2, <1>3, <1>4 DEF x
  <2> QED BY <2>3, <2>4, <1>3
<1>11. CheckpointInv(R)'
  <2>1. ASSUME NEW c \in CrudCheckpoints(j) \cup {x + 1}, \A d \in CrudCheckpoints(j) \cup {x + 1} : c <= d
        PROVE  R[c - 1] = before
    <3>1. CASE open = 0
      <4>1. c = x + 1 /\ c - 1 = x /\ x \in 0 .. x
        BY <3>1, <2>1, <1>3, <1>4
      <4>2. ~Flat(program)
        <5>1. Len(program) \in Nat \ {0} /\ program[1] = Now
          BY <1>1, <1>2, TailFacts
        <5>2. 1 \in 1 .. Len(program)
          BY <5>1
        <5> QED BY <5>1, <5>2, <1>1 DEF Flat
      <4>3. model = before
        BY <3>1, <4>2, <1>1, <1>7 DEF TrailInv, CheckpointInv
      <4> QED BY <4>1, <4>3, <1>8, <1>9
    <3>2. CASE open # 0
      <4>1. PICK d \in CrudCheckpoints(j) : TRUE
        BY <3>2, <1>3
      <4>2. d \in Nat /\ d < x + 1 /\ c <= d
        BY <4>1, <2>1, <1>3, <1>4 DEF x
      <4>3. c \in CrudCheckpoints(j)
        BY <4>2, <2>1, <1>4
      <4>4. S[c - 1] = before
        BY <4>3, <2>1, <1>7 DEF TrailInv, CheckpointInv, j
      <4>5. c - 1 \in 0 .. x
        BY <4>3, <1>3, <1>4 DEF x
      <4> QED BY <4>4, <4>5, <1>8
    <3> QED BY <3>1, <3>2
  <2>2. ~(open' = 0)
    BY <1>1, <1>3
  <2>3. \A c \in CrudCheckpoints(journal') :
           (\A d \in CrudCheckpoints(journal') : c <= d) => R[c - 1] = before'
    BY <2>1, <1>1, <1>6
  <2> QED BY <2>2, <2>3, <1>6 DEF CheckpointInv
<1>12. StepInv(R)'
  <2>1. ASSUME ~zombie
        PROVE  /\ LastStep(j) > 0 /\ R[LastStep(j)] = before
               /\ \A c \in CrudCheckpoints(j) \cup {x + 1} : c > LastStep(j)
    <3>1. /\ LastStep(j) > 0 /\ S[LastStep(j)] = before
          /\ \A c \in CrudCheckpoints(j) : c > LastStep(j)
      BY <2>1, <1>1, <1>7 DEF TrailInv, StepInv, j
    <3>2. LastStep(j) \in 0 .. x
      BY <1>3, LastStepFacts DEF x, j
    <3> QED BY <3>1, <3>2, <1>4, <1>8
  <2> QED BY <2>1, <1>1, <1>6 DEF StepInv
<1>13. TrailInv(R)'
  BY <1>1, <1>8, <1>10, <1>11, <1>12 DEF TrailInv
<1>14. FailureIsAtomic'
  <2>1. x + 1 \notin CrudCheckpoints(j)
    BY <1>3, <1>4 DEF x
  <2>2. Cardinality(CrudCheckpoints(journal')) = Cardinality(CrudCheckpoints(j)) + 1
    BY <2>1, <1>3, <1>6, FS_AddElement
  <2> QED BY <2>2, <1>1 DEF IInv, FailureIsAtomic, j
<1>15. /\ program' \in Seq(Call) /\ program' # <<>> /\ Flow(program', open', 0)
       /\ Makes(program', model, next_id) \/ Removes(program', model, next_id)
  <2>1. Tail(program) \in Seq(Call) /\ Len(program) \in Nat \ {0} /\ program[1] = Now
    BY <1>1, <1>2, TailFacts
  <2>2. Flow(Tail(program), open + 1, 0)
    <3>1. CASE open = 0
      <4>1. 1 \in 1 .. Len(program)
        BY <2>1
      <4>2. ~Flat(program)
        BY <2>1, <4>1, <1>1 DEF Flat
      <4> QED BY <3>1, <4>2, <1>1 DEF IInv, ProgramInv
    <3>2. CASE open # 0
      <4>1. Flow(program, open, 0)
        BY <3>2, <1>1, <1>3 DEF IInv, ProgramInv
      <4>2. Delta(Head(program)) = 1
        BY <1>1, <1>2 DEF Delta
      <4> QED BY <4>1, <4>2, <1>1, <1>2, <1>3, FlowTail
    <3> QED BY <3>1, <3>2
  <2>3. Tail(program) # <<>>
    <3>1. SUFFICES ASSUME Tail(program) = <<>> PROVE FALSE
      OBVIOUS
    <3>2. Len(Tail(program)) = 0
      BY <3>1, <2>1, EmptySeq
    <3>3. open + 1 = 0
      BY <3>2, <2>2, FlowNothing
    <3> QED BY <3>3, <1>3
  <2>4. CASE Makes(program, model, next_id)
    <3>1. Makes(Tail(program), model, next_id)
      BY <2>4, <1>1, <1>2, MakesTail
    <3> QED BY <3>1, <2>1, <2>2, <2>3, <1>1
  <2>5. CASE Removes(program, model, next_id)
    <3>1. Removes(Tail(program), model, next_id)
      BY <2>5, <1>1, <1>2, RemovesTail
    <3> QED BY <3>1, <2>1, <2>2, <2>3, <1>1
  <2> QED BY <2>4, <2>5 DEF IInv, ProgramInv
<1>16. ProgramInv'
  BY <1>1, <1>3, <1>15 DEF ProgramInv
<1>17. TypeOK'
  BY <1>1, <1>3, <1>6, <1>15 DEF IInv, TypeOK, Journals, cursor, counts
<1> QED BY <1>13, <1>14, <1>16, <1>17 DEF IInv

\* clearing it
LEMMA CloseKeeps ==
    ASSUME IInv, CloseCrudOp
    PROVE  IInv'
<1> DEFINE j == journal
           x == journal.index
           c == LastCheckpoint(journal)
           C == CrudCheckpoints(journal)
           t == LastStep(journal)
           over == Tail(program) = <<>>
<1>1. /\ status = "running" /\ Now.call = "close" /\ program # <<>> /\ program' = Tail(program)
      /\ journal' = ClearCheckpoint(j) /\ open' = open - 1
      /\ UNCHANGED <<model, before, zombie, counts>>
      /\ ~over => UNCHANGED <<next_id, status, changelog, cursor>>
      /\ over => /\ status' = "done" /\ changelog' = Changelog(journal')
                 /\ done' = done + 1 /\ undone' = 0
                 /\ next_id' = IF next_id \in Nodes(model) THEN next_id + 1 ELSE next_id
  BY DEF CloseCrudOp, Running, Advance, Returns
<1>2. program \in Seq(Call) /\ Head(program) = Now /\ Tail(program) \in Seq(Call)
      /\ Len(program) \in Nat \ {0} /\ program[1] = Now
  <2>1. program \in Seq(Call) /\ Head(program) = Now
    BY DEF IInv, TypeOK, Now
  <2> QED BY <2>1, <1>1, TailFacts
<1>3. /\ j \in Journals(Entry) /\ C \subseteq 1 .. x /\ open \in Nat /\ next_id \in Nat
      /\ open = 0 <=> C = {}
      /\ IsFiniteSet(C) /\ model \in Sound /\ model \in Model
  BY StateFacts
<1>4. x \in Nat /\ x <= Len(j.log) /\ Len(j.log) \in Nat
  BY <1>3, JournalTypes
<1>5. open > 0 /\ C # {}
  <2>1. SUFFICES ASSUME open = 0 PROVE FALSE
    BY <1>3
  <2>2. 1 \in 1 .. Len(program)
    BY <1>2
  <2>3. ~Flat(program)
    BY <2>2, <1>1, <1>2 DEF Flat
  <2> QED BY <2>1, <2>3, <1>1 DEF IInv, ProgramInv
<1>6. open - 1 \in Nat /\ Flow(Tail(program), open - 1, 0) /\ (~over => open - 1 > 0) /\ (over => open = 1)
  <2>1. Flow(program, open, 0)
    BY <1>1, <1>5 DEF IInv, ProgramInv
  <2>2. Delta(Head(program)) = -1
    BY <1>1, <1>2 DEF Delta
  <2>3. open + (-1) = open - 1
    BY <1>3
  <2>4. open - 1 \in Nat /\ Flow(Tail(program), open - 1, 0) /\ (~over => open - 1 > 0)
    BY <2>1, <2>2, <2>3, <1>1, <1>2, <1>3, FlowTail
  <2>5. ASSUME over PROVE open = 1
    <3>1. Len(Tail(program)) = 0
      BY <2>5, <1>2, EmptySeq
    <3>2. open - 1 = 0
      BY <3>1, <2>4, FlowNothing
    <3> QED BY <3>2, <1>3
  <2> QED BY <2>4, <2>5
<1>7. PICK S : TrailInv(S)
  BY DEF IInv
<1>8. x = Len(j.log)
  BY <1>5, <1>7 DEF TrailInv, CheckpointInv
<1>9. /\ journal' \in Journals(Entry) /\ journal'.index = x - 1 /\ Len(journal'.log) = x - 1
      /\ CrudCheckpoints(journal') = C \ {c} /\ c \in C /\ c \in 1 .. x
      /\ \A d \in C : d <= c
  <2>1. c \in C /\ \A d \in C : d <= c
    BY <1>3, <1>5, LastCheckpointFacts
  <2>2. /\ ClearCheckpoint(j) \in Journals(Entry) /\ ClearCheckpoint(j).index = x - 1
        /\ Len(ClearCheckpoint(j).log) = x - 1 /\ CrudCheckpoints(ClearCheckpoint(j)) = C \ {c}
    BY <1>3, <1>5, <1>8, ClearFacts
  <2> QED BY <2>1, <2>2, <1>1, <1>3
<1>10. PICK R : /\ Trail(R, journal', model)
                /\ \A k \in 0 .. c - 1 : R[k] = S[k]
                /\ \A k \in c .. x - 1 : R[k] = S[k + 1]
  BY <1>1, <1>3, <1>5, <1>7, <1>8, TrailCleared DEF TrailInv
<1> HIDE DEF j, x, c, C, t, over
<1>11. c \in Nat /\ C \subseteq Nat
  BY <1>3, <1>4, <1>9
<1>12. FreshInv(R)'
  <2>1. SUFFICES ASSUME NEW k \in 0 .. x - 1, NEW i \in Nodes(R[k])
                 PROVE  \/ i < next_id'
                        \/ /\ i = next_id' /\ open - 1 > 0 /\ (status' = "running" => next_id' \in Nodes(model))
                           /\ \E d \in C \ {c} : d < k
    BY <1>1, <1>9 DEF FreshInv
  <2>2. PICK l \in 0 .. x : R[k] = S[l] /\ ((k < c /\ l = k) \/ (k >= c /\ l = k + 1))
    <3>1. CASE k < c
      <4>1. k \in 0 .. c - 1 /\ k \in 0 .. x
        BY <3>1, <1>4, <1>11
      <4> QED BY <3>1, <4>1, <1>10
    <3>2. CASE ~(k < c)
      <4>1. k \in c .. x - 1 /\ k + 1 \in 0 .. x /\ k >= c
        BY <3>2, <1>4, <1>11
      <4> QED BY <4>1, <1>10
    <3> QED BY <3>1, <3>2
  <2>3. \/ i < next_id
        \/ i = next_id /\ next_id \in Nodes(model) /\ \E d \in C : d < l
    <3>1. l \in 0 .. Len(j.log) /\ i \in Nodes(S[l])
      BY <2>2, <1>8
    <3> QED BY <3>1, <1>1, <1>7 DEF TrailInv, FreshInv, j, C
  <2>4. i \in Nat
    <3>1. k \in 0 .. Len(journal'.log)
      BY <1>9
    <3>2. R[k] \in Model
      BY <3>1, <1>10 DEF Trail, Sound
    <3> QED BY <3>2, ModelParts, MmmkAssumption DEF Id
  <2>5. CASE over
    <3>1. i < next_id'
      BY <2>3, <2>4, <2>5, <1>1, <1>3
    <3> QED BY <3>1
  <2>6. CASE ~over
    <3>1. next_id' = next_id /\ status' = status /\ open - 1 > 0
      BY <2>6, <1>1, <1>6
    <3>2. ASSUME i = next_id, next_id \in Nodes(model), NEW d \in C, d < l
          PROVE  \E f \in C \ {c} : f < k
      <4>1. CASE k < c
        <5>1. d # c /\ d < k
          BY <4>1, <3>2, <2>2, <1>11
        <5> QED BY <5>1
      <4>2. CASE k >= c
        <5>1. Cardinality(C \ {c}) = open - 1
          BY <1>3, <1>9, FS_RemoveElement DEF IInv, FailureIsAtomic, C
        <5>2. C \ {c} # {}
          BY <5>1, <3>1, FS_EmptySet
        <5>3. PICK f \in C \ {c} : TRUE
          BY <5>2
        <5>4. f < k
          BY <5>3, <4>2, <1>9, <1>11
        <5> QED BY <5>4
      <4>3. k \in Nat
        BY <1>4
      <4> QED BY <4>1, <4>2, <4>3, <1>11
    <3> QED BY <3>1, <3>2, <2>3
  <2> QED BY <2>5, <2>6
<1>13. CheckpointInv(R)'
  <2>1. journal'.index = Len(journal'.log)
    BY <1>9
  <2>2. ASSUME NEW d \in C \ {c}, \A f \in C \ {c} : d <= f PROVE R[d - 1] = before
    <3>1. d < c
      BY <2>2, <1>9, <1>11
    <3>2. \A f \in C : d <= f
      BY <2>2, <3>1, <1>11
    <3>3. S[d - 1] = before
      BY <2>2, <3>2, <1>7 DEF TrailInv, CheckpointInv, C
    <3>4. d \in 1 .. x
      BY <2>2, <1>3
    <3>5. d - 1 \in 0 .. c - 1
      BY <3>1, <3>4, <1>4, <1>11
    <3> QED BY <3>3, <3>5, <1>10
  <2>3. ~(status' = "running" /\ open' = 0)
    BY <1>1, <1>6
  <2> QED BY <2>1, <2>2, <2>3, <1>1, <1>9 DEF CheckpointInv
<1>14. StepInv(R)'
  <2>1. ASSUME ~zombie
        PROVE  /\ LastStep(journal') > 0 /\ R[LastStep(journal')] = before
               /\ \A d \in C \ {c} : d > LastStep(journal')
    <3>1. t > 0 /\ S[t] = before /\ \A d \in C : d > t
      BY <2>1, <1>1, <1>7 DEF TrailInv, StepInv, C, t
    <3>2. t < c
      BY <3>1, <1>9
    <3>3. LastStep(journal') = t
      <4>1. LastStep(ClearCheckpoint(j)) = LastStep(j)
        BY <3>2, <1>3, <1>5, <1>8, LastStepCleared DEF t, c, x, C, j
      <4> QED BY <4>1, <1>1 DEF t, j
    <3>4. t \in 0 .. x
      BY <1>3, LastStepFacts DEF t, x, j
    <3>5. t \in 0 .. c - 1
      BY <3>2, <3>4, <1>11
    <3> QED BY <3>1, <3>3, <3>5, <1>10
  <2>2. status' = "done" => changelog' = Changelog(journal')
    BY <1>1
  <2> QED BY <2>1, <2>2, <1>1, <1>9 DEF StepInv
<1>15. TrailInv(R)'
  BY <1>1, <1>10, <1>12, <1>13, <1>14 DEF TrailInv
<1>16. FailureIsAtomic'
  <2>1. Cardinality(C \ {c}) = open - 1
    BY <1>3, <1>9, FS_RemoveElement DEF IInv, FailureIsAtomic, C
  <2>2. Cardinality(CrudCheckpoints(journal')) = open'
    BY <2>1, <1>1, <1>9
  <2>3. status' # "failed"
    BY <1>1
  <2> QED BY <2>2, <2>3 DEF FailureIsAtomic
<1>17. Makes(Tail(program), model, next_id) \/ Removes(Tail(program), model, next_id)
  <2>1. CASE Makes(program, model, next_id)
    BY <2>1, <1>1, <1>2, MakesTail
  <2>2. CASE Removes(program, model, next_id)
    BY <2>2, <1>1, <1>2, RemovesTail
  <2> QED BY <2>1, <2>2 DEF IInv, ProgramInv
<1>18. ProgramInv'
  <2>1. CASE over
    <3>1. Makes(program', model', next_id')
      BY <2>1, <1>1, <1>2, EmptySeq DEF Makes, over
    <3> QED BY <2>1, <3>1, <1>1, <1>6 DEF ProgramInv, over
  <2>2. CASE ~over
    <3>1. open - 1 > 0
      BY <2>2, <1>6
    <3> QED BY <2>2, <3>1, <1>1, <1>6, <1>17 DEF ProgramInv, over
  <2> QED BY <2>1, <2>2
<1>19. TypeOK'
  <2>1. next_id' \in Nat
    BY <1>1, <1>3
  <2>2. changelog' \in Seq(Entry)
    BY <1>1, <1>9, ChangelogType DEF IInv, TypeOK
  <2>3. done' \in Nat /\ undone' \in Nat /\ status' \in {"idle", "running", "failing", "done", "failed"}
    BY <1>1 DEF IInv, TypeOK, cursor
  <2> QED BY <2>1, <2>2, <2>3, <1>1, <1>2, <1>3, <1>6, <1>9 DEF IInv, TypeOK, Journals, counts
<1> QED BY <1>15, <1>16, <1>18, <1>19 DEF IInv

\* going back to it
LEMMA RestoreKeeps ==
    ASSUME IInv, RestoreCrudOp
    PROVE  IInv'
<1> DEFINE j == journal
           x == journal.index
           c == LastCheckpoint(journal)
           C == CrudCheckpoints(journal)
<1>1. /\ open > 0 /\ status \in {"running", "failing"} /\ program' = <<>>
      /\ model' = UndoAll(model, RestoredEntries(j)) /\ journal' = RestoreCheckpoint(j)
      /\ open' = open - 1 /\ status' = IF open = 1 THEN "failed" ELSE "failing"
      /\ UNCHANGED <<next_id, changelog, before, cursor, zombie, counts>>
  BY DEF RestoreCrudOp
<1>2. /\ j \in Journals(Entry) /\ C \subseteq 1 .. x /\ open \in Nat /\ C # {} /\ IsFiniteSet(C)
  BY <1>1, StateFacts
<1>3. x \in Nat /\ x <= Len(j.log) /\ Len(j.log) \in Nat
  BY <1>2, JournalTypes
<1>4. PICK S : TrailInv(S)
  BY DEF IInv
<1>5. x = Len(j.log)
  BY <1>1, <1>4 DEF TrailInv, CheckpointInv
<1>6. /\ journal' \in Journals(Entry) /\ journal'.index = c - 1 /\ Len(journal'.log) = c - 1
      /\ CrudCheckpoints(journal') = C \ {c} /\ c \in C /\ c \in 1 .. x
      /\ \A d \in C : d <= c
  <2>1. c \in C /\ \A d \in C : d <= c
    BY <1>2, LastCheckpointFacts
  <2>2. /\ RestoreCheckpoint(j) \in Journals(Entry) /\ RestoreCheckpoint(j).index = c - 1
        /\ Len(RestoreCheckpoint(j).log) = c - 1 /\ CrudCheckpoints(RestoreCheckpoint(j)) = C \ {c}
    BY <1>2, RestoreFacts
  <2> QED BY <2>1, <2>2, <1>1, <1>2
<1>7. /\ model' = S[c - 1]
      /\ \E R : Trail(R, journal', model') /\ \A k \in 0 .. c - 1 : R[k] = S[k]
  <2>1. /\ UndoAll(model, RestoredEntries(j)) = S[c - 1]
        /\ \E R : Trail(R, RestoreCheckpoint(j), S[c - 1]) /\ \A k \in 0 .. c - 1 : R[k] = S[k]
    BY <1>2, <1>4, <1>5, TrailRestored DEF TrailInv
  <2> QED BY <2>1, <1>1
<1>8. PICK R : Trail(R, journal', model') /\ \A k \in 0 .. c - 1 : R[k] = S[k]
  BY <1>7
<1> HIDE DEF j, x, c, C
<1>9. c \in Nat /\ C \subseteq Nat
  BY <1>2, <1>3, <1>6
<1>10. Cardinality(C \ {c}) = open - 1
  BY <1>2, <1>6, FS_RemoveElement DEF IInv, FailureIsAtomic, C
<1>11. FreshInv(R)'
  <2>1. SUFFICES ASSUME NEW k \in 0 .. c - 1, NEW i \in Nodes(S[k])
                 PROVE  i < next_id \/ (i = next_id /\ open - 1 > 0 /\ \E d \in C \ {c} : d < k)
    <3>1. status' # "running"
      BY <1>1
    <3> QED BY <3>1, <1>1, <1>6, <1>8 DEF FreshInv
  <2>2. i < next_id \/ (i = next_id /\ \E d \in C : d < k)
    <3>1. k \in 0 .. Len(j.log)
      BY <1>3, <1>5, <1>6
    <3> QED BY <3>1, <1>4 DEF TrailInv, FreshInv, j, C
  <2>3. ASSUME NEW d \in C, d < k PROVE open - 1 > 0 /\ \E f \in C \ {c} : f < k
    <3>1. d # c
      BY <2>3, <1>9
    <3>2. d \in C \ {c}
      BY <3>1
    <3>3. IsFiniteSet(C \ {c})
      BY <1>2, FS_RemoveElement
    <3>4. open - 1 # 0
      BY <3>2, <3>3, <1>10, FS_EmptySet
    <3> QED BY <3>2, <3>4, <2>3, <1>1, <1>2
  <2> QED BY <2>2, <2>3
<1>12. CheckpointInv(R)'
  <2>1. journal'.index = Len(journal'.log)
    BY <1>6
  <2>2. ASSUME NEW d \in C \ {c}, \A f \in C \ {c} : d <= f PROVE R[d - 1] = before
    <3>1. d < c
      BY <2>2, <1>6, <1>9
    <3>2. \A f \in C : d <= f
      BY <2>2, <3>1, <1>9
    <3>3. S[d - 1] = before
      BY <2>2, <3>2, <1>4 DEF TrailInv, CheckpointInv, C
    <3>4. d \in 1 .. x
      BY <2>2, <1>2
    <3>5. d - 1 \in 0 .. c - 1
      BY <3>1, <3>4, <1>3, <1>9
    <3> QED BY <3>3, <3>5, <1>8
  <2>3. status' # "running"
    BY <1>1
  <2> QED BY <2>1, <2>2, <2>3, <1>1, <1>6 DEF CheckpointInv
<1>13. StepInv(R)'
  BY <1>1 DEF StepInv
<1>14. TrailInv(R)'
  BY <1>8, <1>11, <1>12, <1>13 DEF TrailInv
<1>15. FailureIsAtomic'
  <2>1. ASSUME status' = "failed" PROVE model' = before
    <3>1. open = 1
      BY <2>1, <1>1
    <3>2. IsFiniteSet(C \ {c})
      BY <1>2, FS_RemoveElement
    <3>3. Cardinality(C \ {c}) = 0
      BY <3>1, <1>10
    <3>4. C \ {c} = {}
      BY <3>2, <3>3, FS_EmptySet
    <3>5. \A f \in C : c <= f
      BY <3>4, <1>9
    <3>6. S[c - 1] = before
      BY <3>5, <1>4, <1>6 DEF TrailInv, CheckpointInv, C
    <3> QED BY <3>6, <1>7
  <2> QED BY <2>1, <1>1, <1>6, <1>10 DEF FailureIsAtomic
<1>16. ProgramInv'
  <2>1. Makes(<<>>, model', next_id')
    BY DEF Makes
  <2> QED BY <2>1, <1>1, <1>2 DEF ProgramInv
<1>17. TypeOK'
  <2>1. model' \in Model
    <3>1. c - 1 \in 0 .. c - 1 /\ c - 1 \in 0 .. Len(journal'.log)
      BY <1>6, <1>9
    <3>2. R[c - 1] \in Sound /\ R[c - 1] = S[c - 1]
      BY <3>1, <1>8 DEF Trail
    <3> QED BY <3>2, <1>7 DEF Sound
  <2>2. <<>> \in Seq(Call)
    OBVIOUS
  <2>3. open' \in Nat /\ status' \in {"idle", "running", "failing", "done", "failed"}
    BY <1>1, <1>2
  <2> QED BY <2>1, <2>2, <2>3, <1>1, <1>6 DEF IInv, TypeOK, Journals, cursor, counts
<1> QED BY <1>14, <1>15, <1>16, <1>17 DEF IInv

-----------------------------------------------------------------------------
(* The beginning of an operation.                                          *)

\* The step-checkpoint it begins with: a new one, or one that ends the log already.
LEMMA StepBegins ==
    ASSUME IInv, AtRest
    PROVE  LET k == SetStepCheckpoint(journal)
               z == SetStepCheckpoint(journal) = journal /\ journal.index < Len(journal.log)
           IN  /\ k \in Journals(Entry) /\ CrudCheckpoints(k) = {}
               /\ \E R : /\ Trail(R, k, model)
                         /\ \A i \in 0 .. Len(k.log) : \A n \in Nodes(R[i]) : n < next_id
                         /\ ~z => LastStep(k) = k.index /\ k.index > 0
<1> DEFINE j == journal
           k == SetStepCheckpoint(journal)
           z == SetStepCheckpoint(journal) = journal /\ journal.index < Len(journal.log)
<1>1. /\ j \in Journals(Entry) /\ model \in Sound /\ CrudCheckpoints(j) = {} /\ open = 0
  BY StateFacts, AtRestFacts
<1>2. j.index \in Nat /\ Len(j.log) \in Nat /\ j.index <= Len(j.log) /\ j.log \in Seq(Entry)
  BY <1>1, JournalTypes
<1>3. PICK S : TrailInv(S)
  BY DEF IInv
<1>4. \A i \in 0 .. Len(j.log) : \A n \in Nodes(S[i]) : n < next_id
  BY <1>1, <1>3, RestFacts
<1>5. CASE j.log # <<>> /\ IsStepCheckpoint(j.log[Len(j.log)])
  <2>1. k = j
    BY <1>5 DEF SetStepCheckpoint
  <2>2. ASSUME ~z PROVE LastStep(j) = j.index /\ j.index > 0
    <3>1. j.index = Len(j.log)
      BY <2>1, <2>2, <1>2
    <3>2. j.index > 0
      BY <3>1, <1>2, <1>5, EmptySeq
    <3>3. j.index \in 0 .. j.index /\ \A i \in 1 .. j.index : i <= j.index
      BY <1>2
    <3>4. LastStep(j) = j.index
      BY <3>1, <3>3, <1>1, <1>5, LastStepIs
    <3> QED BY <3>2, <3>4
  <2> QED BY <2>1, <2>2, <1>1, <1>3, <1>4 DEF TrailInv
<1>6. CASE ~(j.log # <<>> /\ IsStepCheckpoint(j.log[Len(j.log)]))
  <2>1. k = Log(j, MKSTPCHKPT)
    BY <1>6 DEF SetStepCheckpoint
  <2>2. MKSTPCHKPT \in Entry /\ IsMarker(MKSTPCHKPT) /\ ~IsCheckpoint(MKSTPCHKPT) /\ IsStepCheckpoint(MKSTPCHKPT)
    BY DEF MKSTPCHKPT, Entry, IsMarker, IsCheckpoint, IsStepCheckpoint
  <2>3. k \in Journals(Entry) /\ k.index = j.index + 1 /\ Len(k.log) = j.index + 1
    BY <2>1, <2>2, <1>1, LogFacts
  <2>4. LastStep(k) = j.index + 1
    BY <2>1, <2>2, <1>1, LastStepLogged
  <2>5. CrudCheckpoints(k) = {}
    <3>1. CrudCheckpoints(j) \subseteq 1 .. j.index
      BY <1>1
    <3> QED BY <3>1, <2>1, <2>2, <1>1, CheckpointsLogged
  <2>6. PICK R : Trail(R, k, model) /\ \A i \in 0 .. j.index : R[i] = S[i]
    BY <2>1, <2>2, <1>1, <1>3, MarkerExplains, TrailLogged DEF TrailInv
  <2>7. ASSUME NEW i \in 0 .. Len(k.log), NEW n \in Nodes(R[i]) PROVE n < next_id
    <3>1. CASE i \in 0 .. j.index
      BY <3>1, <2>6, <2>7, <1>2, <1>4
    <3>2. CASE i = j.index + 1
      <4>1. R[i] = model /\ S[j.index] = model /\ j.index \in 0 .. Len(j.log)
        BY <3>2, <2>3, <2>6, <1>2, <1>3 DEF Trail, TrailInv
      <4> QED BY <4>1, <2>7, <1>4
    <3>3. i \in 0 .. j.index + 1
      BY <2>3
    <3> QED BY <3>1, <3>2, <3>3, <1>2
  <2>8. LastStep(k) = k.index /\ k.index > 0
    BY <2>3, <2>4, <1>2
  <2> QED BY <2>3, <2>5, <2>6, <2>7, <2>8
<1> QED BY <1>5, <1>6

\* An operation that has still to make its calls.
LEMMA StartKeeps ==
    ASSUME IInv, NEW calls \in Seq(Call), Start(calls),
           ops' \in 0 .. MaxOps, loads' \in 0 .. MaxLoads, calls # <<>>,
           Flat(calls) \/ (Head(calls).call = "open" /\ Flow(Tail(calls), 1, 0)),
           Makes(calls, model, next_id) \/ Removes(calls, model, next_id)
    PROVE  IInv'
<1> DEFINE k == SetStepCheckpoint(journal)
           z == SetStepCheckpoint(journal) = journal /\ journal.index < Len(journal.log)
<1>1. /\ AtRest /\ before' = model /\ zombie' = z /\ journal' = k /\ program' = calls
      /\ status' = "running" /\ UNCHANGED <<model, next_id, open, changelog, cursor>>
  BY DEF Start, Begins
<1>2. open = 0 /\ open' = 0
  BY <1>1, AtRestFacts
<1>3. /\ k \in Journals(Entry) /\ CrudCheckpoints(k) = {}
      /\ \E R : /\ Trail(R, k, model)
                /\ \A i \in 0 .. Len(k.log) : \A n \in Nodes(R[i]) : n < next_id
                /\ ~z => LastStep(k) = k.index /\ k.index > 0
  BY <1>1, StepBegins
<1>4. PICK R : /\ Trail(R, k, model)
               /\ \A i \in 0 .. Len(k.log) : \A n \in Nodes(R[i]) : n < next_id
               /\ ~z => LastStep(k) = k.index /\ k.index > 0
  BY <1>3
<1> HIDE DEF k, z
<1>5. FreshInv(R)'
  BY <1>1, <1>4 DEF FreshInv
<1>6. CheckpointInv(R)'
  BY <1>1, <1>2, <1>3 DEF CheckpointInv
<1>7. StepInv(R)'
  <2>1. ASSUME ~zombie' PROVE LastStep(k) > 0 /\ R[LastStep(k)] = model
    BY <2>1, <1>1, <1>4 DEF Trail
  <2> QED BY <2>1, <1>1, <1>3 DEF StepInv
<1>8. TrailInv(R)'
  BY <1>1, <1>4, <1>5, <1>6, <1>7 DEF TrailInv
<1>9. FailureIsAtomic'
  BY <1>1, <1>2, <1>3, FS_EmptySet DEF FailureIsAtomic
<1>10. ProgramInv'
  BY <1>1, <1>2 DEF ProgramInv, Now
<1>11. TypeOK'
  <2>1. zombie' \in BOOLEAN
    BY <1>1 DEF z
  <2> QED BY <2>1, <1>1, <1>3, StateFacts DEF IInv, TypeOK, Journals, cursor
<1> QED BY <1>8, <1>9, <1>10, <1>11 DEF IInv

\* One that is refused before it makes any.
LEMMA RefuseKeeps ==
    ASSUME IInv, Refuse
    PROVE  IInv'
<1> DEFINE k == SetStepCheckpoint(journal)
           z == SetStepCheckpoint(journal) = journal /\ journal.index < Len(journal.log)
<1>1. /\ AtRest /\ before' = model /\ zombie' = z /\ journal' = k
      /\ status' = "failed" /\ UNCHANGED <<model, next_id, program, open, changelog, cursor>>
      /\ ops < MaxOps /\ ops' = ops + 1 /\ loads' = loads
  BY DEF Refuse, Begins, Counted
<1>2. open = 0 /\ open' = 0 /\ program = <<>>
  BY <1>1, AtRestFacts
<1>3. /\ k \in Journals(Entry) /\ CrudCheckpoints(k) = {}
      /\ \E R : /\ Trail(R, k, model)
                /\ \A i \in 0 .. Len(k.log) : \A n \in Nodes(R[i]) : n < next_id
                /\ ~z => LastStep(k) = k.index /\ k.index > 0
  BY <1>1, StepBegins
<1>4. PICK R : /\ Trail(R, k, model)
               /\ \A i \in 0 .. Len(k.log) : \A n \in Nodes(R[i]) : n < next_id
  BY <1>3
<1> HIDE DEF k, z
<1>5. FreshInv(R)'
  BY <1>1, <1>4 DEF FreshInv
<1>6. CheckpointInv(R)'
  BY <1>1, <1>2, <1>3 DEF CheckpointInv
<1>7. StepInv(R)'
  BY <1>1 DEF StepInv
<1>8. TrailInv(R)'
  BY <1>1, <1>4, <1>5, <1>6, <1>7 DEF TrailInv
<1>9. FailureIsAtomic'
  BY <1>1, <1>2, <1>3, FS_EmptySet DEF FailureIsAtomic
<1>10. ProgramInv'
  BY <1>1, <1>2 DEF IInv, ProgramInv
<1>11. TypeOK'
  <2>1. zombie' \in BOOLEAN /\ ops' \in 0 .. MaxOps
    BY <1>1, MmmkAssumption DEF z, IInv, TypeOK
  <2> QED BY <2>1, <1>1, <1>3, StateFacts DEF IInv, TypeOK, Journals, cursor
<1> QED BY <1>8, <1>9, <1>10, <1>11 DEF IInv

\* One that is one call.
LEMMA AtOnceKeeps ==
    ASSUME IInv, NEW e \in Entry, ~IsMarker(e), AtOnce(e),
           ops' \in 0 .. MaxOps, loads' \in 0 .. MaxLoads,
           Redo(model, e) \in Sound, Explains(model, e, Redo(model, e))
    PROVE  IInv'
<1> DEFINE k == SetStepCheckpoint(journal)
           z == SetStepCheckpoint(journal) = journal /\ journal.index < Len(journal.log)
           free == {next_id} \cup { i + 1 : i \in Nodes(model') }
<1>1. /\ AtRest /\ before' = model /\ zombie' = z /\ model' = Redo(model, e)
      /\ journal' = Log(k, e) /\ next_id' = Highest(free)
      /\ status' = "done" /\ done' = done + 1 /\ undone' = 0 /\ changelog' = Changelog(journal')
      /\ UNCHANGED <<program, open>>
  BY DEF AtOnce, Begins, Returns
<1>2. open = 0 /\ open' = 0 /\ program = <<>>
  BY <1>1, AtRestFacts
<1>3. /\ k \in Journals(Entry) /\ CrudCheckpoints(k) = {}
      /\ \E R : /\ Trail(R, k, model)
                /\ \A i \in 0 .. Len(k.log) : \A n \in Nodes(R[i]) : n < next_id
                /\ ~z => LastStep(k) = k.index /\ k.index > 0
  BY <1>1, StepBegins
<1>4. PICK S : /\ Trail(S, k, model)
               /\ \A i \in 0 .. Len(k.log) : \A n \in Nodes(S[i]) : n < next_id
               /\ ~z => LastStep(k) = k.index /\ k.index > 0
  BY <1>3
<1> HIDE DEF z
<1>5. /\ next_id \in Nat /\ model' \in Model /\ MaxId \in Nat /\ Nodes(model') \subseteq 0 .. MaxId - 1
  BY <1>1, StateFacts DEF Sound, Nodes, Id
<1>6. next_id' \in Nat /\ next_id <= next_id' /\ \A i \in Nodes(model') : i < next_id'
  <2>1. free \subseteq 0 .. next_id + MaxId
    BY <1>5
  <2>2. next_id + MaxId \in Nat /\ free # {}
    BY <1>5
  <2>3. Highest(free) \in free /\ \A i \in free : i <= Highest(free)
    <3> HIDE DEF free
    <3> QED BY <2>1, <2>2, HighestIn
  <2>4. next_id' \in 0 .. next_id + MaxId /\ \A i \in free : i <= next_id'
    <3> HIDE DEF free
    <3> QED BY <2>1, <2>3, <1>1
  <2> QED BY <2>4, <1>5
<1> HIDE DEF k, free
<1>7. k.index \in Nat /\ Len(k.log) \in Nat /\ k.index <= Len(k.log)
  BY <1>3, JournalTypes
<1>8. /\ journal' \in Journals(Entry) /\ journal'.index = k.index + 1 /\ Len(journal'.log) = k.index + 1
      /\ CrudCheckpoints(journal') = {} /\ LastStep(journal') = LastStep(k)
  <2>1. CrudCheckpoints(k) \subseteq 1 .. k.index
    BY <1>3
  <2>2. /\ Log(k, e) \in Journals(Entry) /\ Log(k, e).index = k.index + 1
        /\ Len(Log(k, e).log) = k.index + 1
    BY <1>3, LogFacts
  <2>3. CrudCheckpoints(Log(k, e)) = CrudCheckpoints(k) /\ LastStep(Log(k, e)) = LastStep(k)
    BY <2>1, <1>3, EntryLogged
  <2> QED BY <2>2, <2>3, <1>1, <1>3
<1>9. PICK R : Trail(R, journal', model') /\ \A i \in 0 .. k.index : R[i] = S[i]
  BY <1>1, <1>3, <1>4, TrailLogged
<1>10. FreshInv(R)'
  <2>1. ASSUME NEW i \in 0 .. k.index + 1, NEW n \in Nodes(R[i]) PROVE n < next_id'
    <3>1. CASE i \in 0 .. k.index
      <4>1. i \in 0 .. Len(k.log) /\ n \in Nodes(S[i])
        BY <3>1, <2>1, <1>7, <1>9
      <4>2. n < next_id
        BY <4>1, <1>4
      <4>3. n \in Nat
        <5>1. S[i] \in Model
          BY <4>1, <1>4 DEF Trail, Sound
        <5> QED BY <5>1, <4>1, ModelParts, <1>5 DEF Id
      <4> QED BY <4>2, <4>3, <1>5, <1>6
    <3>2. CASE i = k.index + 1
      <4>1. R[i] = model'
        BY <3>2, <1>8, <1>9 DEF Trail
      <4> QED BY <4>1, <2>1, <1>6
    <3> QED BY <3>1, <3>2, <1>7
  <2> QED BY <2>1, <1>8 DEF FreshInv
<1>11. CheckpointInv(R)'
  BY <1>1, <1>2, <1>8 DEF CheckpointInv
<1>12. StepInv(R)'
  <2>1. ASSUME ~zombie' PROVE LastStep(k) > 0 /\ R[LastStep(k)] = model
    <3>1. LastStep(k) = k.index /\ k.index > 0 /\ S[k.index] = model
      BY <2>1, <1>1, <1>4 DEF Trail
    <3>2. k.index \in 0 .. k.index
      BY <1>7
    <3> QED BY <3>1, <3>2, <1>9
  <2> QED BY <2>1, <1>1, <1>8 DEF StepInv
<1>13. TrailInv(R)'
  BY <1>9, <1>10, <1>11, <1>12 DEF TrailInv
<1>14. FailureIsAtomic'
  BY <1>1, <1>2, <1>8, FS_EmptySet DEF FailureIsAtomic
<1>15. ProgramInv'
  <2>1. Makes(program', model', next_id')
    BY <1>1, <1>2 DEF Makes
  <2> QED BY <2>1, <1>1, <1>2 DEF ProgramInv
<1>16. TypeOK'
  <2>1. zombie' \in BOOLEAN /\ done' \in Nat /\ undone' \in Nat
    BY <1>1 DEF z, IInv, TypeOK
  <2>2. changelog' \in Seq(Entry)
    BY <1>1, <1>8, ChangelogType
  <2> QED BY <2>1, <2>2, <1>1, <1>5, <1>6, <1>8, StateFacts DEF IInv, TypeOK, Journals
<1> QED BY <1>13, <1>14, <1>15, <1>16 DEF IInv

-----------------------------------------------------------------------------
(* Undo and redo.                                                          *)

\* A step that moves along the trail between operations.
LEMMA MovedKeeps ==
    ASSUME IInv, AtRest, NEW k \in Journals(Entry), k.log = journal.log, journal' = k,
           k.index < Len(k.log) => IsMarker(k.log[k.index + 1]),
           NEW S, TrailInv(S), model' = S[k.index],
           ops' \in 0 .. MaxOps, done' \in Nat, undone' \in Nat, status' = "idle",
           UNCHANGED <<next_id, program, open, changelog, before, zombie, loads>>
    PROVE  IInv'
<1>1. open = 0 /\ open' = 0 /\ program = <<>> /\ CrudCheckpoints(journal) = {}
  BY AtRestFacts
<1>2. Trail(S, journal', model')
  BY StateFacts, TrailMoved DEF TrailInv
<1>3. CrudCheckpoints(journal') = {}
  BY <1>1 DEF CrudCheckpoints
<1>4. FreshInv(S)'
  <2>1. \A i \in 0 .. Len(journal.log) : \A n \in Nodes(S[i]) : n < next_id
    BY <1>1, RestFacts
  <2> QED BY <2>1 DEF FreshInv
<1>5. CheckpointInv(S)'
  BY <1>1, <1>3 DEF CheckpointInv
<1>6. StepInv(S)'
  BY DEF StepInv
<1>7. TrailInv(S)'
  BY <1>2, <1>4, <1>5, <1>6 DEF TrailInv
<1>8. FailureIsAtomic'
  BY <1>1, <1>3, FS_EmptySet DEF FailureIsAtomic
<1>9. ProgramInv'
  <2>1. Makes(program', model', next_id')
    BY <1>1 DEF Makes
  <2> QED BY <2>1, <1>1 DEF ProgramInv
<1>10. TypeOK'
  <2>1. model' \in Model
    <3>1. k.index \in 0 .. Len(journal.log)
      BY JournalTypes
    <3> QED BY <3>1 DEF TrailInv, Trail, Sound
  <2> QED BY <2>1 DEF IInv, TypeOK, Journals
<1> QED BY <1>7, <1>8, <1>9, <1>10 DEF IInv

\* The first entry of the log is a marker, so that the beginning can be redone from.
LEMMA UndoKeeps ==
    ASSUME IInv, Anchored, UndoStep
    PROVE  IInv'
<1> DEFINE j == journal
           k == UndoneStep(journal)
<1>1. /\ AtRest /\ journal' = k /\ model' = UndoAll(model, UndoneEntries(j, k))
      /\ done > 0 /\ done' = done - 1 /\ undone' = undone + 1 /\ status' = "idle"
      /\ ops < MaxOps /\ ops' = ops + 1
      /\ UNCHANGED <<next_id, program, open, changelog, before, zombie, loads>>
  BY DEF UndoStep, Counted
<1>2. j \in Journals(Entry)
  BY StateFacts
<1>3. /\ k \in Journals(Entry) /\ k.log = j.log /\ k.index <= j.index
      /\ k.index = IF LastStep(j) = 0 THEN 0 ELSE LastStep(j) - 1
  BY <1>2, UndoneFacts
<1>4. /\ j.index \in Nat /\ Len(j.log) \in Nat /\ j.index <= Len(j.log) /\ k.index \in Nat
      /\ j.log \in Seq(Entry)
  BY <1>2, <1>3, JournalTypes
<1>5. PICK S : TrailInv(S)
  BY DEF IInv
<1>6. model' = S[k.index]
  <2>1. UndoAll(S[j.index], SubSeq(j.log, k.index + 1, j.index)) = S[k.index]
    BY <1>2, <1>3, <1>4, <1>5, TrailBetween DEF TrailInv
  <2> QED BY <2>1, <1>1, <1>5 DEF UndoneEntries, TrailInv, Trail
<1>7. k.index < Len(k.log) => IsMarker(k.log[k.index + 1])
  <2>1. CASE LastStep(j) = 0
    <3>1. SUFFICES ASSUME Len(j.log) > 0 PROVE IsMarker(j.log[1])
      BY <2>1, <1>3
    <3>2. j.log # <<>>
      BY <3>1, <1>4, EmptySeq
    <3> QED BY <3>2 DEF Anchored
  <2>2. CASE LastStep(j) # 0
    <3>1. LastStep(j) \in 0 .. j.index /\ (LastStep(j) > 0 => IsStepCheckpoint(j.log[LastStep(j)]))
      BY <1>2, LastStepFacts
    <3>2. k.index + 1 = LastStep(j) /\ LastStep(j) > 0
      BY <2>2, <3>1, <1>3, <1>4
    <3> QED BY <3>1, <3>2, <1>3 DEF IsStepCheckpoint, IsMarker
  <2> QED BY <2>1, <2>2
<1>8. ops' \in 0 .. MaxOps /\ done' \in Nat /\ undone' \in Nat
  BY <1>1, MmmkAssumption DEF IInv, TypeOK
<1> HIDE DEF k
<1> QED BY <1>1, <1>3, <1>5, <1>6, <1>7, <1>8, MovedKeeps

LEMMA RedoKeeps ==
    ASSUME IInv, RedoStep
    PROVE  IInv'
<1> DEFINE j == journal
           k == RedoneStep(journal)
<1>1. /\ AtRest /\ journal' = k /\ model' = RedoAll(model, RedoneEntries(j, k))
      /\ undone > 0 /\ done' = done + 1 /\ undone' = undone - 1 /\ status' = "idle"
      /\ ops < MaxOps /\ ops' = ops + 1
      /\ UNCHANGED <<next_id, program, open, changelog, before, zombie, loads>>
  BY DEF RedoStep, Counted
<1>2. j \in Journals(Entry)
  BY StateFacts
<1>3. /\ j.index \in Nat /\ Len(j.log) \in Nat /\ j.index <= Len(j.log) /\ j.log \in Seq(Entry)
  BY <1>2, JournalTypes
<1>4. PICK S : TrailInv(S)
  BY DEF IInv
<1>5. /\ k \in Journals(Entry) /\ k.log = j.log /\ model' = S[k.index]
      /\ k.index < Len(k.log) => IsMarker(k.log[k.index + 1])
  <2>1. CASE j.index = Len(j.log)
    <3>1. k = j
      BY <2>1 DEF RedoneStep
    <3>2. SubSeq(j.log, j.index + 2, j.index) = <<>>
      BY <1>3
    <3>3. model' = model
      BY <3>1, <3>2, <1>1, RedoNothing DEF RedoneEntries
    <3> QED BY <3>1, <3>3, <2>1, <1>2, <1>3, <1>4 DEF TrailInv, Trail
  <2>2. CASE j.index # Len(j.log)
    <3>1. /\ k \in Journals(Entry) /\ k.log = j.log /\ k.index > j.index
          /\ k.index < Len(j.log) => IsStepCheckpoint(j.log[k.index + 1])
      BY <2>2, <1>2, <1>3, RedoneFacts
    <3>2. k.index \in Nat /\ k.index <= Len(j.log)
      BY <3>1, JournalTypes
    <3>3. S[j.index + 1] = model
      <4>1. IsMarker(j.log[j.index + 1]) /\ S[j.index] = model
        BY <2>2, <1>3, <1>4 DEF TrailInv, Trail
      <4>2. j.index + 1 \in 1 .. Len(j.log) /\ (j.index + 1) - 1 = j.index
        BY <2>2, <1>3
      <4>3. Explains(S[(j.index + 1) - 1], j.log[j.index + 1], S[j.index + 1])
        BY <4>2, <1>4 DEF TrailInv, Trail
      <4>4. Explains(model, j.log[j.index + 1], S[j.index + 1])
        BY <4>1, <4>2, <4>3
      <4> QED BY <4>1, <4>4, MarkerKeeps
    <3>4. RedoAll(S[j.index + 1], SubSeq(j.log, (j.index + 1) + 1, k.index)) = S[k.index]
      <4>1. j.index + 1 \in Nat /\ j.index + 1 <= k.index
        BY <3>1, <3>2, <1>3
      <4> HIDE DEF k
      <4> QED BY <4>1, <3>2, <1>2, <1>4, TrailBetween DEF TrailInv
    <3>5. model' = S[k.index]
      <4>1. (j.index + 1) + 1 = j.index + 2
        BY <1>3
      <4> QED BY <4>1, <3>3, <3>4, <1>1 DEF RedoneEntries
    <3> QED BY <3>1, <3>5 DEF IsStepCheckpoint, IsMarker
  <2> QED BY <2>1, <2>2
<1>6. ops' \in 0 .. MaxOps /\ done' \in Nat /\ undone' \in Nat
  BY <1>1, MmmkAssumption DEF IInv, TypeOK
<1> HIDE DEF k
<1> QED BY <1>1, <1>4, <1>5, <1>6, MovedKeeps

-----------------------------------------------------------------------------
(* Every operation.                                                        *)

\* A program of one crudOp around calls that make things.
LEMMA CrudStarts ==
    ASSUME IInv, NEW calls \in Seq(Call), Start(Crud(calls)), Counted,
           Makes(calls, model, next_id) \/ Removes(calls, model, next_id),
           \A l \in Nat : l > 0 => Flow(calls, l, l)
    PROVE  IInv'
<1>1. Flow(calls, 1, 1)
  BY 1 \in Nat, 1 > 0
<1>2. /\ Crud(calls) \in Seq(Call) /\ Crud(calls) # <<>> /\ Head(Crud(calls)).call = "open"
      /\ Flow(Tail(Crud(calls)), 1, 0)
  BY <1>1, FlowTop
<1>3. Makes(Crud(calls), model, next_id) \/ Removes(Crud(calls), model, next_id)
  BY MakesCrud, RemovesCrud
<1>4. ops' \in 0 .. MaxOps /\ loads' \in 0 .. MaxLoads
  BY MmmkAssumption DEF Counted, IInv, TypeOK
<1> QED BY <1>2, <1>3, <1>4, StartKeeps

LEMMA CreateKeeps ==
    ASSUME IInv, NEW mm \in MM, Create(mm)
    PROVE  IInv'
<1> DEFINE c == MkNodeCall(next_id, "node", mm)
<1>1. /\ next_id < MaxId /\ mm \in model.loaded /\ Counted /\ Start(Crud(<<c>>)) /\ AtRest
  BY DEF Create, Start, Begins
<1>2. next_id \notin Nodes(model) /\ next_id \in Id
  BY <1>1, AtRestFacts, StateFacts DEF Id
<1>3. c \in Call /\ c.call = "mknode" /\ c.id = next_id /\ c.mm = mm
  BY <1>2 DEF MkNodeCall, Call, Kind
<1> HIDE DEF c
<1>4. /\ <<c>> \in Seq(Call) /\ Makes(<<c>>, model, next_id)
      /\ \A l \in Nat : l > 0 => Flow(<<c>>, l, l)
  BY <1>1, <1>2, <1>3, OneMade
<1> QED BY <1>1, <1>4, CrudStarts

LEMMA ConnectNNKeeps ==
    ASSUME IInv, NEW a \in Nodes(model), NEW b \in Nodes(model), NEW mm \in MM, ConnectNN(a, b, mm)
    PROVE  IInv'
<1>1. /\ next_id < MaxId /\ mm \in model.loaded /\ ~IsConnector(model, a) /\ ~IsConnector(model, b)
      /\ Counted /\ Start(Crud(ConnectNNCalls(a, b, mm))) /\ AtRest
  BY DEF ConnectNN, Start, Begins
<1>2. next_id \notin Nodes(model) /\ next_id \in Id /\ model \in Model
  BY <1>1, AtRestFacts, StateFacts DEF Id
<1>3. /\ ConnectNNCalls(a, b, mm) \in Seq(Call)
      /\ Makes(ConnectNNCalls(a, b, mm), model, next_id)
      /\ \A l \in Nat : l > 0 => Flow(ConnectNNCalls(a, b, mm), l, l)
  BY <1>1, <1>2, ConnectNNMakes
<1> QED BY <1>1, <1>3, CrudStarts

LEMMA ConnectCNKeeps ==
    ASSUME IInv, NEW a \in Nodes(model), NEW b \in Nodes(model), ConnectCN(a, b)
    PROVE  IInv'
<1> DEFINE c == MkEdgeCall(a, b)
<1>1. /\ IsConnector(model, a) # IsConnector(model, b) /\ Counted /\ Start(Crud(<<c>>))
  BY DEF ConnectCN
<1>2. /\ a \in Id /\ b \in Id /\ model.nodes[a] \in Node /\ model.nodes[b] \in Node
  BY StateFacts, ModelParts
<1>3. c \in Call /\ c.call = "mkedge" /\ c.src = a /\ c.dest = b
  BY <1>2 DEF MkEdgeCall, Call
<1>4. \/ model.nodes[a].kind = "node" /\ model.nodes[b].kind = "connector"
      \/ model.nodes[a].kind = "connector" /\ model.nodes[b].kind = "node"
  BY <1>1, <1>2 DEF IsConnector, Node, Kind, Nodes
<1> HIDE DEF c
<1>5. /\ <<c>> \in Seq(Call) /\ Makes(<<c>>, model, next_id)
      /\ \A l \in Nat : l > 0 => Flow(<<c>>, l, l)
  BY <1>3, <1>4, OneMade
<1> QED BY <1>1, <1>5, CrudStarts

LEMMA UpdateKeeps ==
    ASSUME IInv, NEW id \in Nodes(model), NEW v \in Val, Update(id, v)
    PROVE  IInv'
<1> DEFINE c == ChAttrCall(id, v)
<1>1. Counted /\ Start(Crud(<<c>>))
  BY DEF Update
<1>2. c \in Call /\ c.call = "chattr" /\ c.id = id
  BY StateFacts, ModelParts DEF ChAttrCall, Call
<1> HIDE DEF c
<1>3. /\ <<c>> \in Seq(Call) /\ Makes(<<c>>, model, next_id)
      /\ \A l \in Nat : l > 0 => Flow(<<c>>, l, l)
  BY <1>2, OneMade
<1> QED BY <1>1, <1>3, CrudStarts

LEMMA DeleteKeeps ==
    ASSUME IInv, NEW id \in Nodes(model), Delete(id)
    PROVE  IInv'
<1>1. Counted /\ Start(Crud(DeleteCalls(id))) /\ AtRest
  BY DEF Delete, Start, Begins
<1>2. next_id \notin Nodes(model) /\ id \in Id
  BY <1>1, AtRestFacts, StateFacts, ModelParts
<1>3. /\ DeleteCalls(id) \in Seq(Call) /\ Removes(DeleteCalls(id), model, next_id)
      /\ \A l \in Nat : l > 0 => Flow(DeleteCalls(id), l, l)
  BY <1>2, DeleteRemoves
<1> QED BY <1>1, <1>3, CrudStarts

LEMMA UnloadMetamodelKeeps ==
    ASSUME IInv, NEW mm \in MM, UnloadMetamodel(mm)
    PROVE  IInv'
<1>1. mm \in model.loaded /\ CountedMM /\ Start(UnloadCalls(mm)) /\ AtRest
  BY DEF UnloadMetamodel, Start, Begins
<1>2. next_id \notin Nodes(model) /\ model \in Model
  BY <1>1, AtRestFacts, StateFacts
<1>3. /\ UnloadCalls(mm) \in Seq(Call) /\ Flat(UnloadCalls(mm))
      /\ Removes(UnloadCalls(mm), model, next_id)
  BY <1>1, <1>2, UnloadRemoves
<1>4. UnloadCalls(mm) # <<>>
  BY <1>3 DEF Flat
<1>5. ops' \in 0 .. MaxOps /\ loads' \in 0 .. MaxLoads
  BY <1>1, MmmkAssumption DEF CountedMM, IInv, TypeOK
<1> QED BY <1>1, <1>3, <1>4, <1>5, StartKeeps

LEMMA LoadModelKeeps ==
    ASSUME IInv, NEW m \in Loadable, LoadModel(m)
    PROVE  IInv'
<1> DEFINE new == Resetm(model, m)
           e == [op |-> "RESETM", new |-> new, old |-> model]
<1>1. Counted /\ m.metamodels \subseteq model.loaded /\ AtOnce(e)
  BY DEF LoadModel
<1>2. ~IsMarker(e)
  BY DEF IsMarker
<1>3. model \in Sound /\ new \in Sound /\ new.loaded = model.loaded
  BY <1>1, StateFacts, FileSound
<1> HIDE DEF new
<1>4. e \in Entry /\ Redo(model, e) = new /\ Explains(model, e, new)
  BY <1>3, ResetmExplains
<1>5. ops' \in 0 .. MaxOps /\ loads' \in 0 .. MaxLoads
  BY <1>1, MmmkAssumption DEF Counted, IInv, TypeOK
<1> HIDE DEF e
<1> QED BY <1>1, <1>2, <1>3, <1>4, <1>5, AtOnceKeeps

LEMMA InsertModelKeeps ==
    ASSUME IInv, NEW m \in Loadable, InsertModel(m)
    PROVE  IInv'
<1> DEFINE new == Inserted(m)
           e == [op |-> "RESETM", new |-> new, old |-> model]
<1>1. /\ Counted /\ m.metamodels \subseteq model.loaded /\ AtOnce(e) /\ AtRest
      /\ \A i \in Nodes(m) : i + next_id < MaxId
  BY DEF InsertModel, AtOnce, Begins
<1>2. ~IsMarker(e)
  BY DEF IsMarker
<1>3. model \in Sound /\ new \in Sound /\ new.loaded = model.loaded
  BY <1>1, AtRestFacts, StateFacts, InsertedSound
<1> HIDE DEF new
<1>4. e \in Entry /\ Redo(model, e) = new /\ Explains(model, e, new)
  BY <1>3, ResetmExplains
<1>5. ops' \in 0 .. MaxOps /\ loads' \in 0 .. MaxLoads
  BY <1>1, MmmkAssumption DEF Counted, IInv, TypeOK
<1> HIDE DEF e
<1> QED BY <1>1, <1>2, <1>3, <1>4, <1>5, AtOnceKeeps

LEMMA LoadMetamodelKeeps ==
    ASSUME ~MayReload, IInv, NEW mm \in MM, LoadMetamodel(mm)
    PROVE  IInv'
<1> DEFINE e == [op |-> "LOADMM", name |-> mm]
<1>1. CountedMM /\ mm \notin model.loaded /\ AtOnce(e)
  BY DEF LoadMetamodel
<1>2. ~IsMarker(e)
  BY DEF IsMarker
<1>3. e \in Entry /\ Redo(model, e) \in Sound /\ Explains(model, e, Redo(model, e))
  BY <1>1, StateFacts, LoadMMExplains
<1>4. ops' \in 0 .. MaxOps /\ loads' \in 0 .. MaxLoads
  BY <1>1, MmmkAssumption DEF CountedMM, IInv, TypeOK
<1> HIDE DEF e
<1> QED BY <1>1, <1>2, <1>3, <1>4, AtOnceKeeps

-----------------------------------------------------------------------------
(* The invariant is inductive.                                             *)

LEMMA InitInv == Init => IInv
<1> SUFFICES ASSUME Init PROVE IInv
  OBVIOUS
<1>1. /\ model = EmptyModel /\ next_id = 0 /\ journal = EmptyJournal /\ program = <<>> /\ open = 0
      /\ status = "idle" /\ changelog = <<>> /\ before = EmptyModel
      /\ done = 0 /\ undone = 0 /\ zombie = FALSE /\ ops = 0 /\ loads = 0
  BY DEF Init
<1>2. EmptyModel \in Sound /\ Nodes(EmptyModel) = {} /\ EmptyModel \in Model
  BY EmptySound DEF Sound
<1>3. /\ journal \in Journals(Entry) /\ journal.log = <<>> /\ journal.index = 0 /\ Len(journal.log) = 0
      /\ CrudCheckpoints(journal) = {}
  BY <1>1 DEF EmptyJournal, Journals, CrudCheckpoints
<1>4. TypeOK
  <2>1. <<>> \in Seq(Call) /\ <<>> \in Seq(Entry) /\ 0 \in 0 .. MaxOps /\ 0 \in 0 .. MaxLoads
    BY MmmkAssumption
  <2>2. journal \in [log : Seq(Entry), index : Nat] /\ journal.index <= Len(journal.log)
    BY <1>3 DEF Journals
  <2> QED BY <2>1, <2>2, <1>1, <1>2 DEF TypeOK
<1>5. ProgramInv
  <2>1. Makes(<<>>, model, next_id)
    BY DEF Makes
  <2> QED BY <2>1, <1>1 DEF ProgramInv
<1>6. FailureIsAtomic
  BY <1>1, <1>3, FS_EmptySet DEF FailureIsAtomic
<1> DEFINE S == [k \in 0 .. 0 |-> EmptyModel]
<1>7. Trail(S, journal, model)
  BY <1>1, <1>2, <1>3 DEF Trail
<1>8. \A k \in 0 .. 0 : S[k] = EmptyModel
  OBVIOUS
<1> HIDE DEF S
<1>9. FreshInv(S)
  BY <1>2, <1>3, <1>8 DEF FreshInv
<1>10. CheckpointInv(S) /\ StepInv(S)
  BY <1>1, <1>3 DEF CheckpointInv, StepInv
<1> QED BY <1>4, <1>5, <1>6, <1>7, <1>9, <1>10 DEF IInv, TrailInv

\* A step in which nothing changes.
LEMMA StutterInv ==
    ASSUME IInv, UNCHANGED vars
    PROVE  IInv'
<1>1. PICK S : TrailInv(S)
  BY DEF IInv
<1>2. TrailInv(S)'
  BY <1>1 DEF vars, TrailInv, FreshInv, CheckpointInv, StepInv
<1>3. TypeOK'
  BY DEF IInv, vars, cursor, counts, TypeOK
<1>4. ProgramInv'
  BY DEF IInv, vars, ProgramInv, Now
<1>5. FailureIsAtomic'
  BY DEF IInv, vars, FailureIsAtomic
<1> QED BY <1>2, <1>3, <1>4, <1>5 DEF IInv

\* Every step keeps it, an undo if there is a marker to go back to.
LEMMA NextInv ==
    ASSUME ~MayReload, IInv, UndoStep => Anchored, [Next]_vars
    PROVE  IInv'
<1>1. CASE UNCHANGED vars
  BY <1>1, StutterInv
<1>2. CASE \E mm \in MM : \/ Create(mm) \/ LoadMetamodel(mm) \/ UnloadMetamodel(mm)
                          \/ \E a, b \in Nodes(model) : ConnectNN(a, b, mm)
  BY <1>2, CreateKeeps, LoadMetamodelKeeps, UnloadMetamodelKeeps, ConnectNNKeeps
<1>3. CASE \E a, b \in Nodes(model) : ConnectCN(a, b)
  BY <1>3, ConnectCNKeeps
<1>4. CASE \E id \in Nodes(model) : Delete(id) \/ \E v \in Val : Update(id, v)
  BY <1>4, DeleteKeeps, UpdateKeeps
<1>5. CASE \E m \in Loadable : LoadModel(m) \/ InsertModel(m)
  BY <1>5, LoadModelKeeps, InsertModelKeeps
<1>6. CASE Refuse
  BY <1>6, RefuseKeeps
<1>7. CASE OpenCrudOp
  BY <1>7, OpenKeeps
<1>8. CASE Perform
  BY <1>8, PerformKeeps
<1>9. CASE DumpMetamodel
  BY <1>9, DumpMetamodelKeeps
<1>10. CASE Handlers
  BY <1>10, HandlersKeep
<1>11. CASE CloseCrudOp
  BY <1>11, CloseKeeps
<1>12. CASE RestoreCrudOp
  BY <1>12, RestoreKeeps
<1>13. CASE UndoStep
  BY <1>13, UndoKeeps
<1>14. CASE RedoStep
  BY <1>14, RedoKeeps
<1> QED BY <1>1, <1>2, <1>3, <1>4, <1>5, <1>6, <1>7, <1>8, <1>9, <1>10, <1>11, <1>12, <1>13, <1>14 DEF Next

\* What it says of a state that a reader cares about.
LEMMA InvGives ==
    ASSUME IInv
    PROVE  WellFormed /\ JournalIsComplete /\ StepIsLastOperation
<1> DEFINE j == journal
<1>1. /\ j \in Journals(Entry) /\ model \in Sound
  BY StateFacts
<1>2. /\ j.index \in Nat /\ Len(j.log) \in Nat /\ j.index <= Len(j.log) /\ j.log \in Seq(Entry)
  BY <1>1, JournalTypes
<1>3. PICK S : TrailInv(S)
  BY DEF IInv
<1>4. Trail(S, j, model) /\ S[j.index] = model /\ S[0] = EmptyModel
  BY <1>3 DEF TrailInv, Trail
<1>5. \A a, b \in Nat : a <= b /\ b <= Len(j.log) =>
         /\ RedoAll(S[a], SubSeq(j.log, a + 1, b)) = S[b]
         /\ UndoAll(S[b], SubSeq(j.log, a + 1, b)) = S[a]
  BY <1>1, <1>4, TrailBetween
<1>6. WellFormed
  BY <1>1 DEF WellFormed, Sound
<1>7. JournalIsComplete
  <2>1. RedoAll(S[0], SubSeq(j.log, 0 + 1, j.index)) = S[j.index]
    BY <1>2, <1>5
  <2>2. JournalExplainsModel
    BY <2>1, <1>4, 0 + 1 = 1 DEF JournalExplainsModel, Applied
  <2>3. FutureIsRedoable
    <3> DEFINE future == SubSeq(j.log, j.index + 1, Len(j.log))
    <3>1. RedoAll(model, future) = S[Len(j.log)] /\ UndoAll(S[Len(j.log)], future) = model
      BY <1>2, <1>4, <1>5
    <3> QED BY <3>1 DEF FutureIsRedoable
  <2> QED BY <2>2, <2>3 DEF JournalIsComplete
<1>8. StepIsLastOperation
  <2>1. SUFFICES ASSUME ~zombie, status = "done" PROVE ChangelogIsLastOperation /\ UndoRevertsLastOperation
    BY DEF StepIsLastOperation, ChangelogIsLastOperation, UndoRevertsLastOperation
  <2> DEFINE t == LastStep(j)
  <2>2. t > 0 /\ S[t] = before /\ changelog = Changelog(j)
    BY <2>1, <1>3 DEF TrailInv, StepInv
  <2>3. t \in 0 .. j.index /\ IsStepCheckpoint(j.log[t])
    BY <2>2, <1>1, LastStepFacts
  <2>4. changelog = SubSeq(j.log, t + 1, j.index)
    <3>1. LastStep(j) # 0
      BY <2>2, <2>3
    <3> QED BY <3>1, <2>2 DEF Changelog
  <2>5. UndoneEntries(j, UndoneStep(j)) = SubSeq(j.log, (t - 1) + 1, j.index)
    <3>1. UndoneStep(j).index = IF LastStep(j) = 0 THEN 0 ELSE LastStep(j) - 1
      BY <1>1, UndoneFacts
    <3>2. LastStep(j) # 0
      BY <2>2, <2>3
    <3> QED BY <3>1, <3>2 DEF UndoneEntries
  <2> HIDE DEF t
  <2>6. RedoAll(S[t], changelog) = S[j.index] /\ UndoAll(S[j.index], changelog) = S[t]
    BY <2>3, <2>4, <1>2, <1>5
  <2>7. UndoAll(S[j.index], SubSeq(j.log, (t - 1) + 1, j.index)) = S[t - 1]
    <3>1. t - 1 \in Nat /\ t - 1 <= j.index
      BY <2>2, <2>3, <1>2
    <3> QED BY <3>1, <1>2, <1>5
  <2>8. S[t] = S[t - 1]
    <3>1. t \in 1 .. Len(j.log)
      BY <2>2, <2>3, <1>2
    <3>2. Explains(S[t - 1], j.log[t], S[t]) /\ IsMarker(j.log[t])
      BY <3>1, <2>3, <1>4 DEF Trail, IsStepCheckpoint, IsMarker
    <3> QED BY <3>2, MarkerKeeps
  <2> QED BY <2>2, <2>5, <2>6, <2>7, <2>8, <1>4 DEF ChangelogIsLastOperation, UndoRevertsLastOperation
<1> QED BY <1>6, <1>7, <1>8

-----------------------------------------------------------------------------
(* The first entry of the journal.                                         *)

\* Logging keeps it, and forgets what was undone, whatever the entry.
LEMMA FirstLogged ==
    ASSUME NEW j \in Journals(Entry), NEW e
    PROVE  /\ Log(j, e).index = j.index + 1 /\ Len(Log(j, e).log) = j.index + 1
           /\ j.index > 0 => Log(j, e).log[1] = j.log[1]
<1> DEFINE F == Entry \cup {e}
           s == Applied(j)
           n == j.index
<1>1. /\ s \in Seq(Entry) /\ Len(s) = n /\ n \in Nat /\ (n > 0 => s[1] = j.log[1])
  <2>1. /\ j.log \in Seq(Entry) /\ n \in Nat /\ Len(j.log) \in Nat /\ n <= Len(j.log)
    BY JournalTypes
  <2>2. /\ SubSeq(j.log, 0 + 1, n) \in Seq(Entry) /\ Len(SubSeq(j.log, 0 + 1, n)) = n - 0
        /\ \A i \in 1 .. n - 0 : SubSeq(j.log, 0 + 1, n)[i] = j.log[0 + i]
    BY <2>1, Between
  <2>3. (n > 0 => 1 \in 1 .. n - 0) /\ n - 0 = n /\ 0 + 1 = 1
    BY <2>1
  <2> QED BY <2>1, <2>2, <2>3 DEF Applied
<1> HIDE DEF s, n
<1>2. s \in [1 .. n -> Entry]
  BY <1>1, LenProperties
<1>3. s \in [1 .. n -> F]
  BY <1>2
<1>4. s \in Seq(F) /\ e \in F
  BY <1>1, <1>3, SeqDef
<1> HIDE DEF F
<1>5. Len(Append(s, e)) = n + 1 /\ (n > 0 => Append(s, e)[1] = s[1])
  <2>1. n > 0 => 1 \in 1 .. Len(s)
    BY <1>1
  <2> QED BY <2>1, <1>1, <1>4, AppendProperties
<1> QED BY <1>1, <1>5 DEF Log, s, n

\* An operation in progress that began with a step-checkpoint of its own has one behind it.
LEMMA RunningBehind ==
    ASSUME IInv, status = "running", ~zombie
    PROVE  journal.log # <<>> /\ journal.index > 0
<1>1. PICK S : TrailInv(S)
  BY DEF IInv
<1>2. LastStep(journal) > 0
  BY <1>1 DEF TrailInv, StepInv
<1>3. /\ journal \in Journals(Entry) /\ journal.index \in Nat /\ journal.index <= Len(journal.log)
      /\ journal.log \in Seq(Entry) /\ Len(journal.log) \in Nat
  BY StateFacts, JournalTypes
<1>4. LastStep(journal) \in 0 .. journal.index
  BY <1>3, LastStepFacts
<1>5. journal.index > 0 /\ Len(journal.log) > 0
  BY <1>2, <1>3, <1>4
<1> QED BY <1>5, EmptySeq

\* An operation that begins with one of its own begins with a marker.
LEMMA BeginsAnchored ==
    ASSUME IInv, Anchored, Begins, ~zombie'
    PROVE  LET k == SetStepCheckpoint(journal)
           IN  k \in Journals(Entry) /\ k.index > 0 /\ IsMarker(k.log[1])
<1> DEFINE j == journal
           k == SetStepCheckpoint(journal)
<1>1. AtRest /\ ~(k = j /\ j.index < Len(j.log))
  BY DEF Begins
<1>2. k \in Journals(Entry) /\ j \in Journals(Entry)
  BY <1>1, StepBegins, StateFacts
<1>3. j.index \in Nat /\ Len(j.log) \in Nat /\ j.index <= Len(j.log) /\ j.log \in Seq(Entry)
  BY <1>2, JournalTypes
<1>4. CASE j.log # <<>> /\ IsStepCheckpoint(j.log[Len(j.log)])
  <2>1. k = j
    BY <1>4 DEF SetStepCheckpoint
  <2>2. Len(j.log) > 0 /\ j.index = Len(j.log)
    BY <2>1, <1>1, <1>3, <1>4, EmptySeq
  <2> QED BY <2>1, <2>2, <1>2, <1>4 DEF Anchored
<1>5. CASE ~(j.log # <<>> /\ IsStepCheckpoint(j.log[Len(j.log)]))
  <2>1. k = Log(j, MKSTPCHKPT)
    BY <1>5 DEF SetStepCheckpoint
  <2>2. MKSTPCHKPT \in Entry /\ IsMarker(MKSTPCHKPT)
    BY DEF MKSTPCHKPT, Entry, IsMarker
  <2>3. k.index = j.index + 1 /\ k.log[j.index + 1] = MKSTPCHKPT
    BY <2>1, <2>2, <1>2, LogFacts
  <2>4. CASE j.index = 0
    BY <2>2, <2>3, <2>4, <1>2
  <2>5. CASE j.index # 0
    <3>1. j.index > 0 /\ Len(j.log) # 0
      BY <2>5, <1>3
    <3>2. j.log # <<>>
      BY <3>1
    <3>3. k.log[1] = j.log[1]
      BY <3>1, <2>1, <1>2, FirstLogged
    <3> QED BY <3>1, <3>2, <3>3, <2>3, <1>2, <1>3 DEF Anchored
  <2> QED BY <2>4, <2>5
<1> QED BY <1>4, <1>5

\* The journal begins with a marker as long as operations do.
LEMMA NextAnchored ==
    ASSUME IInv, Anchored, ~zombie, ~zombie', [Next]_vars
    PROVE  Anchored'
<1> DEFINE j == journal
<1>1. CASE journal' = journal
  BY <1>1 DEF Anchored
<1>2. ASSUME NEW e, journal' = Log(j, e), status = "running" PROVE Anchored'
  <2>1. journal.log # <<>> /\ journal.index > 0 /\ journal \in Journals(Entry)
    BY <1>2, RunningBehind, StateFacts
  <2>2. journal'.log[1] = journal.log[1]
    BY <2>1, <1>2, FirstLogged
  <2> QED BY <2>1, <2>2 DEF Anchored
<1>3. ASSUME NEW calls, Start(calls) PROVE Anchored'
  <2>1. Begins /\ journal' = SetStepCheckpoint(journal)
    BY <1>3 DEF Start
  <2> QED BY <2>1, BeginsAnchored DEF Anchored
<1>4. ASSUME NEW e, AtOnce(e) PROVE Anchored'
  <2> DEFINE k == SetStepCheckpoint(journal)
  <2>1. Begins /\ journal' = Log(k, e)
    BY <1>4 DEF AtOnce
  <2>2. k \in Journals(Entry) /\ k.index > 0 /\ IsMarker(k.log[1])
    BY <2>1, BeginsAnchored
  <2> HIDE DEF k
  <2>3. journal'.log[1] = k.log[1]
    BY <2>1, <2>2, FirstLogged
  <2> QED BY <2>2, <2>3 DEF Anchored
<1>5. CASE UNCHANGED vars
  BY <1>1, <1>5 DEF vars
<1>6. CASE \E mm \in MM : \/ Create(mm) \/ LoadMetamodel(mm) \/ UnloadMetamodel(mm)
                          \/ \E a, b \in Nodes(model) : ConnectNN(a, b, mm)
  BY <1>3, <1>4, <1>6 DEF Create, LoadMetamodel, UnloadMetamodel, ConnectNN
<1>7. CASE \E a, b \in Nodes(model) : ConnectCN(a, b)
  BY <1>3, <1>7 DEF ConnectCN
<1>8. CASE \E id \in Nodes(model) : Delete(id) \/ \E v \in Val : Update(id, v)
  BY <1>3, <1>8 DEF Delete, Update
<1>9. CASE \E m \in Loadable : LoadModel(m) \/ InsertModel(m)
  BY <1>4, <1>9 DEF LoadModel, InsertModel
<1>10. CASE Refuse
  <2>1. Begins /\ journal' = SetStepCheckpoint(journal)
    BY <1>10 DEF Refuse
  <2> QED BY <2>1, BeginsAnchored DEF Anchored
<1>11. CASE OpenCrudOp
  BY <1>2, <1>11 DEF OpenCrudOp, Running
<1>12. CASE Perform
  <2>1. status = "running"
    BY <1>12 DEF Perform, Running
  <2>2. journal' = journal \/ \E e : journal' = Log(journal, e)
    BY <1>12 DEF Perform, MkNode, MkEdge, ChAttr, RmEdges, RmEdge, RmNodes, RmNode, Cascade, Cud
  <2> QED BY <2>1, <2>2, <1>1, <1>2
<1>13. CASE DumpMetamodel
  BY <1>2, <1>13 DEF DumpMetamodel, Running, Cud
<1>14. CASE Handlers
  <2>1. status = "running"
    BY <1>14 DEF Handlers, Running
  <2>2. journal' = journal \/ \E e : journal' = Log(journal, e)
    BY <1>14 DEF Handlers, ChAttr, Cud
  <2> QED BY <2>1, <2>2, <1>1, <1>2
<1>15. CASE CloseCrudOp
  <2>1. status = "running" /\ journal' = ClearCheckpoint(j)
    BY <1>15 DEF CloseCrudOp, Running
  <2>2. j \in Journals(Entry) /\ j.index \in Nat /\ j.log # <<>>
    BY <2>1, StateFacts, JournalTypes, RunningBehind
  <2>3. CASE CrudCheckpoints(j) = {}
    <3>1. journal' = journal
      BY <2>1, <2>3 DEF ClearCheckpoint, LastCheckpoint, Highest
    <3> QED BY <3>1, <1>1
  <2>4. CASE CrudCheckpoints(j) # {}
    <3> DEFINE c == LastCheckpoint(j)
    <3>1. PICK S : TrailInv(S)
      BY DEF IInv
    <3>2. c \in CrudCheckpoints(j) /\ c \in 1 .. Len(j.log)
      BY <2>2, <2>4, LastCheckpointFacts
    <3>3. LastStep(j) > 0 /\ c > LastStep(j)
      BY <2>1, <3>1, <3>2 DEF TrailInv, StepInv
    <3>4. LastStep(j) \in 0 .. j.index
      BY <2>2, LastStepFacts
    <3>5. 1 \in 1 .. c - 1
      BY <3>2, <3>3, <3>4
    <3>6. j.index = Len(j.log)
      BY <2>4, <3>1, StateFacts DEF TrailInv, CheckpointInv
    <3>7. journal'.log[1] = j.log[1]
      BY <3>5, <3>6, <2>1, <2>2, <2>4, ClearFacts
    <3> QED BY <3>7, <2>2 DEF Anchored
  <2> QED BY <2>3, <2>4
<1>16. CASE RestoreCrudOp
  <2>1. journal' = RestoreCheckpoint(j) /\ open > 0
    BY <1>16 DEF RestoreCrudOp
  <2>2. j \in Journals(Entry) /\ CrudCheckpoints(j) # {}
    BY <2>1, StateFacts
  <2> DEFINE c == LastCheckpoint(j)
  <2>3. /\ journal' \in Journals(Entry) /\ Len(journal'.log) = c - 1
        /\ \A i \in 1 .. c - 1 : journal'.log[i] = j.log[i]
        /\ c \in 1 .. Len(j.log)
    BY <2>1, <2>2, RestoreFacts, LastCheckpointFacts
  <2>4. SUFFICES ASSUME journal'.log # <<>> PROVE IsMarker(journal'.log[1])
    BY DEF Anchored
  <2>5. Len(journal'.log) \in Nat \ {0} /\ Len(j.log) \in Nat
    BY <2>2, <2>3, <2>4, JournalTypes, EmptySeq
  <2>6. 1 \in 1 .. c - 1 /\ Len(j.log) # 0
    BY <2>3, <2>5
  <2>7. j.log # <<>>
    BY <2>6
  <2> QED BY <2>3, <2>6, <2>7 DEF Anchored
<1>17. CASE UndoStep
  <2>1. journal'.log = journal.log
    BY <1>17, StateFacts, UndoneFacts DEF UndoStep
  <2> QED BY <2>1 DEF Anchored
<1>18. CASE RedoStep
  <2>1. journal'.log = journal.log
    <3>1. journal \in Journals(Entry) /\ journal.index \in Nat /\ journal.index <= Len(journal.log)
          /\ Len(journal.log) \in Nat /\ journal' = RedoneStep(journal)
      BY <1>18, StateFacts, JournalTypes DEF RedoStep
    <3>2. CASE journal.index = Len(journal.log)
      BY <3>1, <3>2 DEF RedoneStep
    <3>3. CASE journal.index < Len(journal.log)
      BY <3>1, <3>3, RedoneFacts
    <3> QED BY <3>1, <3>2, <3>3
  <2> QED BY <2>1 DEF Anchored
<1> QED BY <1>5, <1>6, <1>7, <1>8, <1>9, <1>10, <1>11, <1>12, <1>13, <1>14, <1>15, <1>16, <1>17, <1>18 DEF Next

\* Nothing has been undone: the journal ends at the index.
NoFuture == undone = 0 /\ ~zombie /\ journal.index = Len(journal.log)

LEMMA NextNoFuture ==
    ASSUME ~MayUndo, IInv, NoFuture, [Next]_vars
    PROVE  NoFuture'
<1> DEFINE j == journal
<1>1. /\ j \in Journals(Entry) /\ j.index \in Nat /\ j.index = Len(j.log) /\ undone = 0 /\ ~zombie
  BY StateFacts, JournalTypes DEF NoFuture
<1>2. ASSUME UNCHANGED <<undone, zombie>>,
             journal' = journal \/ \E e : journal' = Log(journal, e)
      PROVE  NoFuture'
  BY <1>1, <1>2, FirstLogged DEF NoFuture
<1>3. ASSUME Begins
      PROVE  ~zombie' /\ SetStepCheckpoint(j).index = Len(SetStepCheckpoint(j).log)
             /\ SetStepCheckpoint(j) \in Journals(Entry)
  <2>1. ~zombie'
    <3>1. ~(journal.index < Len(journal.log))
      BY <1>1
    <3>2. zombie' = (SetStepCheckpoint(journal) = journal /\ journal.index < Len(journal.log))
      BY <1>3 DEF Begins
    <3> QED BY ONLY <3>1, <3>2, Zenon
  <2>2. SetStepCheckpoint(j) = j \/ SetStepCheckpoint(j) = Log(j, MKSTPCHKPT)
    BY DEF SetStepCheckpoint
  <2>3. SetStepCheckpoint(j) \in Journals(Entry)
    BY <1>3, StepBegins DEF Begins
  <2> QED BY <2>1, <2>2, <2>3, <1>1, FirstLogged
<1>4. ASSUME NEW calls, Start(calls) PROVE NoFuture'
  BY <1>1, <1>3, <1>4 DEF Start, NoFuture, cursor
<1>5. ASSUME NEW e, AtOnce(e) PROVE NoFuture'
  <2> DEFINE k == SetStepCheckpoint(journal)
  <2>1. Begins /\ journal' = Log(k, e) /\ undone' = 0
    BY <1>5 DEF AtOnce, Returns
  <2>2. k \in Journals(Entry) /\ ~zombie'
    BY <2>1, <1>3
  <2> HIDE DEF k
  <2> QED BY <2>1, <2>2, FirstLogged DEF NoFuture
<1>6. CASE UNCHANGED vars
  BY <1>2, <1>6 DEF vars, cursor
<1>7. CASE \E mm \in MM : \/ Create(mm) \/ LoadMetamodel(mm) \/ UnloadMetamodel(mm)
                          \/ \E a, b \in Nodes(model) : ConnectNN(a, b, mm)
  BY <1>4, <1>5, <1>7 DEF Create, LoadMetamodel, UnloadMetamodel, ConnectNN
<1>8. CASE \E a, b \in Nodes(model) : ConnectCN(a, b)
  BY <1>4, <1>8 DEF ConnectCN
<1>9. CASE \E id \in Nodes(model) : Delete(id) \/ \E v \in Val : Update(id, v)
  BY <1>4, <1>9 DEF Delete, Update
<1>10. CASE \E m \in Loadable : LoadModel(m) \/ InsertModel(m)
  BY <1>5, <1>10 DEF LoadModel, InsertModel
<1>11. CASE Refuse
  BY <1>1, <1>3, <1>11 DEF Refuse, NoFuture, cursor
<1>12. CASE OpenCrudOp
  BY <1>2, <1>12 DEF OpenCrudOp, cursor
<1>13. CASE Perform
  <2>1. journal' = journal \/ \E e : journal' = Log(journal, e)
    BY <1>13 DEF Perform, MkNode, MkEdge, ChAttr, RmEdges, RmEdge, RmNodes, RmNode, Cascade, Cud
  <2>2. UNCHANGED <<undone, zombie>>
    BY <1>13 DEF Perform, cursor
  <2> QED BY <2>1, <2>2, <1>2
<1>14. CASE DumpMetamodel
  <2>1. undone' = 0 /\ zombie' = zombie /\ \E e : journal' = Log(journal, e)
    BY <1>14 DEF DumpMetamodel, Returns, Cud
  <2> QED BY <2>1, <1>1, <1>2
<1>15. CASE Handlers
  <2>1. journal' = journal \/ \E e : journal' = Log(journal, e)
    BY <1>15 DEF Handlers, ChAttr, Cud
  <2>2. UNCHANGED <<undone, zombie>>
    BY <1>15 DEF Handlers, cursor
  <2> QED BY <2>1, <2>2, <1>2
<1>16. CASE CloseCrudOp
  <2>1. journal' = ClearCheckpoint(j) /\ zombie' = zombie /\ undone' = 0
    BY <1>1, <1>16 DEF CloseCrudOp, Returns, cursor
  <2>2. CASE CrudCheckpoints(j) = {}
    BY <2>1, <2>2, <1>1 DEF ClearCheckpoint, LastCheckpoint, Highest, NoFuture
  <2>3. CASE CrudCheckpoints(j) # {}
    BY <2>1, <2>3, <1>1, ClearFacts DEF NoFuture
  <2> QED BY <2>2, <2>3
<1>17. CASE RestoreCrudOp
  <2>1. /\ journal' = RestoreCheckpoint(j) /\ zombie' = zombie /\ undone' = 0
        /\ CrudCheckpoints(j) # {}
    BY <1>1, <1>17, StateFacts DEF RestoreCrudOp, cursor
  <2> QED BY <2>1, <1>1, RestoreFacts DEF NoFuture
<1>18. ~UndoStep /\ ~RedoStep
  BY <1>1 DEF UndoStep, RedoStep
<1> QED BY <1>6, <1>7, <1>8, <1>9, <1>10, <1>11, <1>12, <1>13, <1>14, <1>15, <1>16, <1>17, <1>18 DEF Next

-----------------------------------------------------------------------------
(* Theorems: in every behaviour in which no metamodel is loaded again, and *)
(* an undo that goes back to the beginning finds a marker there, which     *)
(* redo skips.  The last two say when that is so.                          *)

\* An undo takes a step back only where the journal's first entry is a marker (_mmmk.undo).
UndoesToMarkers == [][UndoStep => Anchored]_vars

LEMMA InvHolds ==
    ASSUME ~MayReload
    PROVE  Spec /\ UndoesToMarkers => []IInv
<1>1. IInv /\ [Next]_vars /\ [UndoStep => Anchored]_vars => IInv'
  <2> SUFFICES ASSUME IInv, [Next]_vars, [UndoStep => Anchored]_vars PROVE IInv'
    OBVIOUS
  <2>1. CASE UndoStep => Anchored
    BY <2>1, NextInv
  <2>2. CASE UNCHANGED vars
    BY <2>2, StutterInv
  <2> QED BY <2>1, <2>2
<1> QED BY <1>1, InitInv, PTL DEF Spec, UndoesToMarkers

\* The kernel keeps its variables' types; the journal index stays inside the journal, whatever
\* fails, is restored, undone and redone (src/mmmk.js, __log to redo).
THEOREM TypesKept ==
    ASSUME ~MayReload
    PROVE  Spec /\ UndoesToMarkers => []TypeOK
<1>1. IInv => TypeOK
  BY DEF IInv
<1> QED BY <1>1, InvHolds, PTL

\* A user operation that fails, at any depth of nested crudOps, cascading deletes and
\* handlers, leaves the model as it was, and no checkpoint (__crudOp, __restoreCheckpoint).
THEOREM FailuresAtomic ==
    ASSUME ~MayReload
    PROVE  Spec /\ UndoesToMarkers => []FailureIsAtomic
<1>1. IInv => FailureIsAtomic
  BY DEF IInv
<1> QED BY <1>1, InvHolds, PTL

\* The changelog an operation returns and the step its undo takes back are that operation
\* (__changelog, undo), unless it began with a zombie step-checkpoint.
THEOREM StepsAreOperations ==
    ASSUME ~MayReload
    PROVE  Spec /\ UndoesToMarkers => []StepIsLastOperation
<1>1. IInv => StepIsLastOperation
  BY InvGives
<1> QED BY <1>1, InvHolds, PTL

\* While the journal begins with a marker, replaying the applied entries gives the model, and
\* what was undone can be redone and undone again (__redoOp__ and __undoOp__ of every cud function).
THEOREM JournalsComplete ==
    ASSUME ~MayReload
    PROVE  Spec /\ UndoesToMarkers => []JournalIsComplete
<1>1. IInv => JournalIsComplete
  BY InvGives
<1> QED BY <1>1, InvHolds, PTL

\* While the journal begins with a marker no edge dangles and no node is without its
\* metamodel, in the middle of operations and whatever is undone and redone.
THEOREM ModelsWellFormed ==
    ASSUME ~MayReload
    PROVE  Spec /\ UndoesToMarkers => []WellFormed
<1>1. IInv => WellFormed
  BY InvGives
<1> QED BY <1>1, InvHolds, PTL

\* Undo finds a marker as long as no operation begins with a step-checkpoint that was undone
\* (__setStepCheckpoint, which looks at the end of the journal and not at journalIndex).
THEOREM OwnCheckpointsAnchor ==
    ASSUME ~MayReload
    PROVE  Spec /\ []~zombie => [](IInv /\ Anchored)
<1>1. Init => IInv /\ Anchored
  BY InitInv DEF Init, EmptyJournal, Anchored
<1>2. IInv /\ Anchored /\ ~zombie /\ ~zombie' /\ [Next]_vars => (IInv /\ Anchored)'
  BY NextInv, NextAnchored
<1> QED BY <1>1, <1>2, PTL DEF Spec

\* Where nothing is undone (a csworker that never asks for undo), all of this holds as it stands.
THEOREM WithoutUndo ==
    ASSUME ~MayReload, ~MayUndo
    PROVE  Spec => [](/\ TypeOK /\ FailureIsAtomic /\ StepIsLastOperation
                      /\ JournalIsComplete /\ WellFormed)
<1>1. Init => IInv /\ NoFuture
  BY InitInv, EmptySeq DEF Init, EmptyJournal, NoFuture
<1>2. IInv /\ NoFuture /\ [Next]_vars => (IInv /\ NoFuture)'
  <2>1. ~UndoStep
    BY DEF UndoStep
  <2> QED BY <2>1, NextInv, NextNoFuture
<1>3. IInv => /\ TypeOK /\ FailureIsAtomic /\ StepIsLastOperation
              /\ JournalIsComplete /\ WellFormed
  BY InvGives DEF IInv
<1> QED BY <1>1, <1>2, <1>3, PTL DEF Spec
=============================================================================
