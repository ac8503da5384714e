--------------------------- MODULE ClientSyncProofs ---------------------------
(***************************************************************************)
(* Proofs about the windows that show a csworker, for any clients and any  *)
(* number of changelogs: types; and, unless the csworker is a clone, that  *)
(* a canvas shows a beginning of what the csworker did.                    *)
(*                                                                         *)
(* The invariant says where the changelogs are that a window has yet to    *)
(* show, and in which order they may come: only changelogs of the          *)
(* csworker's own, with nothing but such between them, overtake another.   *)
(***************************************************************************)
EXTENDS ClientSync, SequenceTheorems, FiniteSetTheorems, WellFoundedInduction, TLAPS

\* Induction over the natural numbers, for a set of them.
LEMMA NatSetInduction ==
    ASSUME NEW S, 0 \in S, \A n \in Nat : n \in S => n + 1 \in S
    PROVE  Nat \subseteq S
<1> DEFINE R == { ss \in Nat \X Nat : ss[1] < ss[2] }
           T == Nat \ S
<1>1. SUFFICES ASSUME T # {} PROVE FALSE
  OBVIOUS
<1>2. IsWellFoundedOn(R, Nat)
  BY NatLessThanWellFounded DEF OpToRel
<1> HIDE DEF R
<1>3. \E x \in T : \A y \in T : ~ (<<y, x>> \in R)
  <2>1. T \subseteq Nat
    OBVIOUS
  <2> HIDE DEF T
  <2> QED BY <1>1, <1>2, <2>1, WFMin
<1>4. PICK x \in T : \A y \in T : <<y, x>> \notin R
  BY <1>3
<1>5. x # 0 /\ x \in Nat
  OBVIOUS
<1>6. x - 1 \in T
  <2>1. x - 1 \in Nat /\ (x - 1) + 1 = x
    BY <1>5
  <2> QED BY <2>1
<1>7. <<x - 1, x>> \in R
  BY <1>5 DEF R
<1> QED BY <1>4, <1>6, <1>7

-----------------------------------------------------------------------------
(* Numbers of changelogs.                                                  *)

\* how many of the first j changelogs of a log are of a stream
Num(l, s, j) == Cardinality({i \in 1 .. j : l[i][1] = s})

LEMMA NumFinite ==
    ASSUME NEW l, NEW s, NEW j \in Nat
    PROVE  IsFiniteSet({i \in 1 .. j : l[i][1] = s}) /\ Num(l, s, j) \in Nat
<1>1. IsFiniteSet(1 .. j)
  BY FS_Interval
<1>2. {i \in 1 .. j : l[i][1] = s} \in SUBSET (1 .. j)
  OBVIOUS
<1>3. IsFiniteSet({i \in 1 .. j : l[i][1] = s})
  BY <1>1, <1>2, FS_Subset
<1> QED BY <1>3, FS_CardinalityType DEF Num

\* It is counted one by one.
LEMMA NumFacts ==
    ASSUME NEW l, NEW s, NEW j \in Nat
    PROVE  /\ Num(l, s, j) \in Nat /\ Num(l, s, 0) = 0
           /\ l[j + 1][1] = s => Num(l, s, j + 1) = Num(l, s, j) + 1
           /\ l[j + 1][1] # s => Num(l, s, j + 1) = Num(l, s, j)
<1> DEFINE D(k) == {i \in 1 .. k : l[i][1] = s}
<1>1. IsFiniteSet(D(j)) /\ Num(l, s, j) \in Nat
  BY NumFinite
<1>2. Num(l, s, 0) = 0
  <2>1. D(0) = {}
    OBVIOUS
  <2> QED BY <2>1, FS_EmptySet DEF Num
<1>3. CASE l[j + 1][1] = s
  <2>1. D(j + 1) = D(j) \cup {j + 1} /\ j + 1 \notin D(j)
    BY <1>3
  <2>2. Cardinality(D(j) \cup {j + 1}) = Cardinality(D(j)) + 1
    <3> HIDE DEF D
    <3> QED BY <1>1, <2>1, FS_AddElement
  <2>3. Cardinality(D(j + 1)) = Cardinality(D(j)) + 1
    <3> HIDE DEF D
    <3> QED BY <2>1, <2>2
  <2> QED BY <1>1, <1>2, <1>3, <2>3 DEF Num
<1>4. CASE l[j + 1][1] # s
  <2>1. D(j + 1) = D(j)
    BY <1>4
  <2>2. Cardinality(D(j + 1)) = Cardinality(D(j))
    <3> HIDE DEF D
    <3> QED BY <2>1
  <2> QED BY <1>1, <1>2, <1>4, <2>2 DEF Num
<1> QED BY <1>3, <1>4

\* The count goes by the changelogs that are counted.
LEMMA NumSame ==
    ASSUME NEW l, NEW m, NEW s, NEW j \in Nat, \A i \in 1 .. j : l[i] = m[i]
    PROVE  Num(l, s, j) = Num(m, s, j)
<1>1. {i \in 1 .. j : l[i][1] = s} = {i \in 1 .. j : m[i][1] = s}
  OBVIOUS
<1> QED BY <1>1 DEF Num

\* It grows, and does so at each changelog of the stream.
LEMMA NumGrows ==
    ASSUME NEW l, NEW s, NEW i \in Nat, NEW j \in Nat, i <= j
    PROVE  /\ Num(l, s, i) <= Num(l, s, j)
           /\ i < j /\ l[j][1] = s => Num(l, s, i) < Num(l, s, j)
<1> DEFINE D(k) == {x \in 1 .. k : l[x][1] = s}
<1>1. ASSUME NEW a \in Nat, NEW b \in Nat, a <= b PROVE Num(l, s, a) <= Num(l, s, b)
  <2>1. IsFiniteSet(D(b))
    BY NumFinite
  <2>2. D(a) \in SUBSET D(b)
    BY <1>1
  <2>3. Cardinality(D(a)) <= Cardinality(D(b))
    <3> HIDE DEF D
    <3> QED BY <2>1, <2>2, FS_Subset
  <2> QED BY <2>3 DEF Num
<1>2. ASSUME i < j, l[j][1] = s PROVE Num(l, s, i) < Num(l, s, j)
  <2>1. j - 1 \in Nat /\ i <= j - 1 /\ (j - 1) + 1 = j
    BY <1>2
  <2>2. PICK k : k = j - 1
    OBVIOUS
  <2>3. k \in Nat /\ i <= k /\ k + 1 = j
    BY <2>1, <2>2
  <2>4. Num(l, s, k + 1) = Num(l, s, k) + 1 /\ Num(l, s, k) \in Nat
    BY <1>2, <2>3, NumFacts
  <2>5. Num(l, s, i) <= Num(l, s, k) /\ Num(l, s, i) \in Nat
    BY <1>1, <2>3, NumFacts
  <2> QED BY <2>3, <2>4, <2>5
<1> QED BY <1>1, <1>2

\* A log as the csworker keeps it: each changelog has its number in its stream, and the
\* first one loads a metamodel.
Numbered(l) ==
    /\ l \in Seq(Changelog)
    /\ \A j \in DOMAIN l : l[j] = <<l[j][1], Num(l, l[j][1], j)>>
    /\ l # <<>> => l[1] = <<"asw", 1>>

LEMMA ChangelogIs ==
    ASSUME NEW x \in Changelog
    PROVE  x[1] \in Stream /\ x[2] \in Nat /\ x[2] > 0 /\ x = <<x[1], x[2]>>
BY ClientSyncAssumption DEF Changelog, Stream

LEMMA LogTypes ==
    ASSUME NEW l, l \in Seq(Changelog)
    PROVE  /\ Len(l) \in Nat /\ DOMAIN l = 1 .. Len(l)
           /\ \A j \in 1 .. Len(l) : /\ l[j] \in Changelog /\ l[j][1] \in Stream
                                     /\ l[j][2] \in Nat /\ l[j][2] > 0
                                     /\ l[j] = <<l[j][1], l[j][2]>>
           /\ \A x \in ToSet(l) : \E j \in 1 .. Len(l) : l[j] = x
           /\ \A j \in 1 .. Len(l) : l[j] \in ToSet(l)
           /\ l = <<>> <=> Len(l) = 0
<1>1. Len(l) \in Nat /\ DOMAIN l = 1 .. Len(l) /\ \A j \in 1 .. Len(l) : l[j] \in Changelog
  BY LenProperties, ElementOfSeq
<1>3. l = <<>> <=> Len(l) = 0
  BY EmptySeq
<1> QED BY <1>1, <1>3, ChangelogIs DEF ToSet

\* The count of a log, and of a beginning of it.
LEMMA CountIsNum ==
    ASSUME NEW l, l \in Seq(Changelog), NEW s
    PROVE  Count(s, l) = Num(l, s, Len(l)) /\ Count(s, l) \in Nat
<1>1. DOMAIN l = 1 .. Len(l) /\ Len(l) \in Nat
  BY LenProperties
<1>2. {i \in DOMAIN l : l[i][1] = s} = {i \in 1 .. Len(l) : l[i][1] = s}
  BY <1>1
<1>3. Count(s, l) = Num(l, s, Len(l))
  BY <1>2 DEF Count, Num
<1>4. Num(l, s, Len(l)) \in Nat
  BY <1>1, NumFinite
<1> QED BY <1>3, <1>4

LEMMA CountOfBeginning ==
    ASSUME NEW l, l \in Seq(Changelog), NEW p, p \in Seq(Changelog), IsPrefix(p, l), NEW s
    PROVE  /\ Len(p) \in 0 .. Len(l) /\ \A i \in 1 .. Len(p) : p[i] = l[i]
           /\ Count(s, p) = Num(l, s, Len(p))
<1>1. Len(p) \in Nat /\ Len(l) \in Nat /\ Len(p) <= Len(l)
  BY LenProperties DEF IsPrefix
<1>2. SubSeq(p, 1, Len(p)) = SubSeq(l, 1, Len(p))
  BY DEF IsPrefix
<1>3. ASSUME NEW i \in 1 .. Len(p) PROVE p[i] = l[i]
  <2>1. SubSeq(p, 1, Len(p))[i] = p[i] /\ SubSeq(l, 1, Len(p))[i] = l[i]
    BY <1>1
  <2> QED BY <1>2, <2>1
<1>4. Num(p, s, Len(p)) = Num(l, s, Len(p))
  BY <1>1, <1>3, NumSame
<1> QED BY <1>1, <1>3, <1>4, CountIsNum

\* What begins a log begins it.
LEMMA BeginningIs ==
    ASSUME NEW l, l \in Seq(Changelog), NEW p, p \in Seq(Changelog), Len(p) <= Len(l),
           \A i \in 1 .. Len(p) : p[i] = l[i]
    PROVE  IsPrefix(p, l)
<1>1. Len(p) \in Nat /\ Len(l) \in Nat
  BY LenProperties
<1>2. DOMAIN p = 1 .. Len(p) /\ DOMAIN l = 1 .. Len(l)
  BY LenProperties
<1>3. SubSeq(p, 1, Len(p)) = [i \in 1 .. Len(p) |-> p[i]]
  BY <1>1
<1>4. SubSeq(l, 1, Len(p)) = [i \in 1 .. Len(p) |-> l[i]]
  BY <1>1
<1> QED BY <1>3, <1>4 DEF IsPrefix

\* A changelog is in a log once, and its number says after how many of its stream.
LEMMA OnceEach ==
    ASSUME NEW l, Numbered(l), NEW i \in 1 .. Len(l), NEW j \in 1 .. Len(l), l[i] = l[j]
    PROVE  i = j
<1>1. Len(l) \in Nat /\ DOMAIN l = 1 .. Len(l)
  BY LogTypes DEF Numbered
<1>2. /\ l[i] = <<l[i][1], Num(l, l[i][1], i)>>
      /\ l[j] = <<l[j][1], Num(l, l[j][1], j)>>
  BY <1>1 DEF Numbered
<1>3. PICK s : s = l[i][1] /\ s = l[j][1]
  OBVIOUS
<1>4. Num(l, s, i) = Num(l, s, j)
  BY <1>2, <1>3
<1>5. Num(l, s, i) \in Nat /\ i \in Nat /\ j \in Nat
  BY <1>1, NumFacts
<1>6. CASE i < j
  BY <1>3, <1>4, <1>5, <1>6, NumGrows
<1>7. CASE j < i
  <2>1. Num(l, s, j) < Num(l, s, i)
    BY <1>3, <1>5, <1>7, NumGrows
  <2> QED BY <1>4, <1>5, <2>1
<1> QED BY <1>5, <1>6, <1>7

\* Beyond the first k changelogs the numbers of a stream go on from their count.
LEMMA NumbersGoOn ==
    ASSUME NEW l, Numbered(l), NEW k \in 0 .. Len(l), NEW j \in 1 .. Len(l), NEW s, l[j][1] = s
    PROVE  /\ l[j][2] = Num(l, s, j)
           /\ j > k <=> l[j][2] > Num(l, s, k)
           /\ j = k + 1 => l[j][2] = Num(l, s, k) + 1
<1>1. Len(l) \in Nat /\ DOMAIN l = 1 .. Len(l)
  BY LogTypes DEF Numbered
<1>2. l[j] = <<s, Num(l, s, j)>>
  BY <1>1 DEF Numbered
<1>3. Num(l, s, j) \in Nat /\ Num(l, s, k) \in Nat /\ j \in Nat /\ k \in Nat
  BY <1>1, NumFacts
<1>4. CASE j > k
  <2>1. Num(l, s, k) < Num(l, s, j)
    BY <1>3, <1>4, NumGrows
  <2>2. j = k + 1 => Num(l, s, j) = Num(l, s, k) + 1
    BY <1>3, NumFacts
  <2> QED BY <1>2, <1>3, <1>4, <2>1, <2>2
<1>5. CASE j <= k
  <2>1. Num(l, s, j) <= Num(l, s, k)
    BY <1>3, <1>5, NumGrows
  <2> QED BY <1>2, <1>3, <1>5, <2>1
<1> QED BY <1>3, <1>4, <1>5

\* The csworker's next changelog.
LEMMA NextChangelog ==
    ASSUME NEW l, Numbered(l), NEW s \in Stream, s = "csw" => l # <<>>,
           NEW c \in Changelog, c = <<s, Count(s, l) + 1>>
    PROVE  /\ Numbered(Append(l, c)) /\ c \notin ToSet(l)
           /\ Len(Append(l, c)) = Len(l) + 1 /\ Append(l, c)[Len(l) + 1] = c
           /\ \A i \in 1 .. Len(l) : Append(l, c)[i] = l[i]
           /\ ToSet(Append(l, c)) = ToSet(l) \cup {c}
<1> DEFINE m == Append(l, c)
<1>1. /\ l \in Seq(Changelog) /\ Len(l) \in Nat /\ DOMAIN l = 1 .. Len(l)
      /\ \A x \in ToSet(l) : \E j \in 1 .. Len(l) : l[j] = x
      /\ \A j \in 1 .. Len(l) : l[j] \in ToSet(l)
  BY LogTypes DEF Numbered
<1>2. /\ m \in Seq(Changelog) /\ Len(m) = Len(l) + 1 /\ m[Len(l) + 1] = c
      /\ \A i \in 1 .. Len(l) : m[i] = l[i]
  BY <1>1, AppendProperties
<1> HIDE DEF m
<1>3. DOMAIN m = 1 .. Len(l) + 1
  BY <1>2, LenProperties
<1>4. c[1] = s /\ c[2] = Num(l, s, Len(l)) + 1 /\ Num(l, s, Len(l)) \in Nat
  BY <1>1, CountIsNum
<1>5. Num(m, s, Len(l) + 1) = Num(l, s, Len(l)) + 1
  <2>1. Num(m, s, Len(l) + 1) = Num(m, s, Len(l)) + 1
    BY <1>1, <1>2, <1>4, NumFacts
  <2>2. Num(m, s, Len(l)) = Num(l, s, Len(l))
    BY <1>1, <1>2, NumSame
  <2> QED BY <2>1, <2>2
<1>6. ASSUME NEW j \in DOMAIN m PROVE m[j] = <<m[j][1], Num(m, m[j][1], j)>>
  <2>1. CASE j = Len(l) + 1
    BY <1>2, <1>4, <1>5, <2>1
  <2>2. CASE j \in 1 .. Len(l)
    <3>1. m[j] = l[j] /\ l[j] = <<l[j][1], Num(l, l[j][1], j)>>
      BY <1>1, <1>2, <2>2 DEF Numbered
    <3>2. Num(m, l[j][1], j) = Num(l, l[j][1], j)
      BY <1>1, <1>2, <2>2, NumSame
    <3> QED BY <3>1, <3>2
  <2> QED BY <1>1, <1>3, <2>1, <2>2
<1>7. m[1] = <<"asw", 1>>
  <2>1. CASE l = <<>>
    <3>1. Len(l) = 0 /\ s = "asw"
      BY <2>1 DEF Stream
    <3>2. Num(l, s, 0) = 0
      BY NumFacts
    <3> QED BY <1>2, <3>1, <3>2, <1>4
  <2>2. CASE l # <<>>
    <3>1. 1 \in 1 .. Len(l)
      BY <1>1, <2>2, LogTypes
    <3> QED BY <1>2, <2>2, <3>1 DEF Numbered
  <2> QED BY <2>1, <2>2
<1>8. c \notin ToSet(l)
  <2>1. SUFFICES ASSUME NEW j \in 1 .. Len(l), l[j] = c PROVE FALSE
    BY <1>1
  <2>2. c[2] = Num(l, s, j)
    BY <1>4, <2>1, <1>1, NumbersGoOn
  <2>3. Num(l, s, j) <= Num(l, s, Len(l)) /\ Num(l, s, j) \in Nat
    BY <1>1, NumGrows, NumFacts
  <2> QED BY <1>4, <2>2, <2>3
<1>9. ToSet(m) = ToSet(l) \cup {c}
  <2>1. ASSUME NEW x \in ToSet(m) PROVE x \in ToSet(l) \cup {c}
    <3>1. PICK j \in 1 .. Len(l) + 1 : m[j] = x
      BY <1>3 DEF ToSet
    <3> QED BY <3>1, <1>1, <1>2, SMTT(30)
  <2>2. ASSUME NEW x \in ToSet(l) PROVE x \in ToSet(m)
    <3>1. PICK j \in 1 .. Len(l) : l[j] = x
      BY <1>1
    <3>2. j \in DOMAIN m /\ m[j] = x
      BY <1>1, <1>2, <1>3, <3>1
    <3> QED BY <3>2 DEF ToSet
  <2>3. c \in ToSet(m)
    <3>1. Len(l) + 1 \in DOMAIN m
      BY <1>1, <1>3
    <3> QED BY <1>2, <3>1 DEF ToSet
  <2> QED BY <2>1, <2>2, <2>3
<1>10. Numbered(m)
  BY <1>2, <1>6, <1>7 DEF Numbered
<1> QED BY <1>2, <1>8, <1>9, <1>10 DEF m

-----------------------------------------------------------------------------
(* Sequences.                                                              *)

\* A sequence is a function on a beginning of the numbers.
LEMMA SequenceIs ==
    ASSUME NEW E, NEW w \in Nat, NEW f, \A i \in 1 .. w : f[i] \in E,
           NEW r, r = [i \in 1 .. w |-> f[i]]
    PROVE  r \in Seq(E) /\ Len(r) = w
OBVIOUS

\* What Append, Tail and Reverse do to the elements.
LEMMA AppendIs ==
    ASSUME NEW E, NEW q \in Seq(E), NEW e \in E
    PROVE  /\ Append(q, e) \in Seq(E) /\ Len(q) \in Nat /\ Len(Append(q, e)) = Len(q) + 1
           /\ DOMAIN q = 1 .. Len(q) /\ DOMAIN Append(q, e) = 1 .. Len(q) + 1
           /\ \A i \in 1 .. Len(q) : Append(q, e)[i] = q[i]
           /\ Append(q, e)[Len(q) + 1] = e
           /\ ToSet(Append(q, e)) = ToSet(q) \cup {e}
<1> DEFINE t == Append(q, e)
<1>1. /\ t \in Seq(E) /\ Len(q) \in Nat /\ Len(t) = Len(q) + 1
      /\ DOMAIN q = 1 .. Len(q) /\ \A i \in 1 .. Len(q) : t[i] = q[i]
      /\ t[Len(q) + 1] = e
  BY AppendProperties, LenProperties
<1> HIDE DEF t
<1>2. DOMAIN t = 1 .. Len(q) + 1
  BY <1>1, LenProperties
<1>3. ASSUME NEW x \in ToSet(t) PROVE x \in ToSet(q) \cup {e}
  <2>1. PICK i \in 1 .. Len(q) + 1 : t[i] = x
    BY <1>2, <1>3 DEF ToSet
  <2>2. CASE i \in 1 .. Len(q)
    BY <1>1, <2>1, <2>2 DEF ToSet
  <2>3. CASE i = Len(q) + 1
    BY <1>1, <2>1, <2>3
  <2> QED BY <1>1, <2>2, <2>3
<1>4. ASSUME NEW x \in ToSet(q) PROVE x \in ToSet(t)
  <2>1. PICK i \in 1 .. Len(q) : q[i] = x
    BY <1>1, <1>4 DEF ToSet
  <2>2. i \in DOMAIN t /\ t[i] = x
    BY <1>1, <1>2, <2>1
  <2> QED BY <2>2 DEF ToSet
<1>5. e \in ToSet(t)
  <2>1. Len(q) + 1 \in DOMAIN t
    BY <1>1, <1>2
  <2> QED BY <1>1, <2>1 DEF ToSet
<1>6. ToSet(t) = ToSet(q) \cup {e}
  BY <1>3, <1>4, <1>5
<1> QED BY <1>1, <1>2, <1>6 DEF t

LEMMA TailIs ==
    ASSUME NEW E, NEW q \in Seq(E), q # <<>>
    PROVE  /\ Head(q) \in E /\ Head(q) = q[1] /\ Tail(q) \in Seq(E)
           /\ Len(q) \in Nat /\ Len(q) > 0 /\ Len(Tail(q)) = Len(q) - 1
           /\ DOMAIN q = 1 .. Len(q) /\ DOMAIN Tail(q) = 1 .. Len(q) - 1
           /\ \A i \in 1 .. Len(q) - 1 : Tail(q)[i] = q[i + 1]
           /\ Head(q) \in ToSet(q) /\ ToSet(Tail(q)) \subseteq ToSet(q)
           /\ ToSet(q) = {Head(q)} \cup ToSet(Tail(q))
<1> DEFINE t == Tail(q)
<1>1. /\ Head(q) \in E /\ Head(q) = q[1] /\ t \in Seq(E)
      /\ Len(q) \in Nat /\ Len(q) > 0 /\ Len(t) = Len(q) - 1
      /\ DOMAIN q = 1 .. Len(q)
      /\ \A i \in 1 .. Len(q) - 1 : t[i] = q[i + 1]
  <2>1. Len(q) \in Nat \ {0} /\ DOMAIN q = 1 .. Len(q)
    BY EmptySeq, LenProperties
  <2>2. /\ Head(q) \in E /\ t \in Seq(E) /\ Len(t) = Len(q) - 1
        /\ \A i \in 1 .. Len(t) : t[i] = q[i + 1]
    BY HeadTailProperties
  <2>3. Head(q) = q[1]
    OBVIOUS
  <2> HIDE DEF t
  <2> QED BY <2>1, <2>2, <2>3
<1> HIDE DEF t
<1>2. DOMAIN t = 1 .. Len(q) - 1
  BY <1>1, LenProperties
<1>3. Head(q) \in ToSet(q)
  <2>1. 1 \in DOMAIN q
    BY <1>1
  <2> QED BY <1>1, <2>1 DEF ToSet
<1>4. ASSUME NEW x \in ToSet(t) PROVE x \in ToSet(q)
  <2>1. PICK i \in 1 .. Len(q) - 1 : t[i] = x
    BY <1>2, <1>4 DEF ToSet
  <2>2. i + 1 \in DOMAIN q /\ q[i + 1] = x
    BY <1>1, <2>1
  <2> QED BY <2>2 DEF ToSet
<1>5. ASSUME NEW x \in ToSet(q), x # Head(q) PROVE x \in ToSet(t)
  <2>1. PICK i \in 1 .. Len(q) : q[i] = x
    BY <1>1, <1>5 DEF ToSet
  <2>2. i # 1
    BY <1>1, <1>5, <2>1
  <2>3. PICK k : k = i - 1
    OBVIOUS
  <2>4. k \in 1 .. Len(q) - 1 /\ k + 1 = i
    BY <1>1, <2>1, <2>2, <2>3
  <2>5. k \in DOMAIN t /\ t[k] = x
    BY <1>1, <1>2, <2>1, <2>4
  <2> QED BY <2>5 DEF ToSet
<1>6. ToSet(q) = {Head(q)} \cup ToSet(t)
  BY <1>3, <1>4, <1>5
<1> QED BY <1>1, <1>2, <1>3, <1>4, <1>6 DEF t

-----------------------------------------------------------------------------
(* Pending numbers.                                                        *)

Sorted(p) == \A i, j \in DOMAIN p : i < j => p[i] < p[j]

\* How many numbers are below e, and what their count says of a sorted sequence.
LEMMA SmallerFirst ==
    ASSUME NEW p \in Seq(Nat), NEW e \in Nat
    PROVE  LET k == Cardinality({i \in DOMAIN p : p[i] < e}) IN
           /\ k \in 0 .. Len(p)
           /\ Sorted(p) => \A i \in DOMAIN p : p[i] < e <=> i <= k
<1> DEFINE D == {i \in DOMAIN p : p[i] < e}
           k == Cardinality(D)
<1>1. Len(p) \in Nat /\ DOMAIN p = 1 .. Len(p) /\ \A i \in 1 .. Len(p) : p[i] \in Nat
  BY LenProperties, ElementOfSeq
<1>2. IsFiniteSet(1 .. Len(p)) /\ Cardinality(1 .. Len(p)) = Len(p)
  BY <1>1, FS_Interval, SMTT(30)
<1>3. IsFiniteSet(D) /\ k <= Len(p) /\ k \in Nat
  <2>1. D \in SUBSET (1 .. Len(p))
    BY <1>1
  <2>2. IsFiniteSet(D) /\ k <= Len(p)
    BY <1>2, <2>1, FS_Subset
  <2> QED BY <2>2, FS_CardinalityType
<1>4. ASSUME Sorted(p), NEW i \in D PROVE i <= k
  <2>1. i \in 1 .. Len(p) /\ p[i] < e
    BY <1>1
  <2>2. ASSUME NEW j \in 1 .. i PROVE j \in D
    <3>1. j \in DOMAIN p /\ p[j] \in Nat /\ p[i] \in Nat
      BY <1>1, <2>1
    <3>2. j = i \/ p[j] < p[i]
      BY <1>1, <1>4, <2>1, <3>1, SMTT(30) DEF Sorted
    <3> QED BY <2>1, <3>1, <3>2
  <2>3. 1 .. i \in SUBSET D
    BY <2>2
  <2>4. Cardinality(1 .. i) <= k
    BY <1>3, <2>3, FS_Subset
  <2> QED BY <2>1, <2>4, FS_Interval
<1>5. ASSUME Sorted(p) PROVE D = 1 .. k
  <2>1. D \in SUBSET (1 .. k)
    BY <1>1, <1>3, <1>4, <1>5
  <2>2. IsFiniteSet(1 .. k) /\ Cardinality(1 .. k) = k
    BY <1>3, FS_Interval
  <2> QED BY <2>1, <2>2, FS_Subset
<1>6. ASSUME Sorted(p), NEW i \in DOMAIN p PROVE p[i] < e <=> i <= k
  <2>1. p[i] < e <=> i \in D
    OBVIOUS
  <2>2. i \in D <=> i \in 1 .. k
    BY <1>5, <1>6
  <2> QED BY <1>1, <1>3, <2>1, <2>2
<1> QED BY <1>3, <1>6

\* A number between those that are smaller and those that are greater.
LEMMA SortedBetween ==
    ASSUME NEW n \in Nat, NEW k \in 0 .. n, NEW e \in Nat, NEW p, NEW t,
           \A i \in 1 .. n : p[i] # e /\ p[i] \in Nat,
           \A x, y \in 1 .. n : x < y => p[x] < p[y],
           \A i \in 1 .. n : i <= k <=> p[i] < e,
           \A i \in 1 .. (n + 1) : t[i] = IF i <= k THEN p[i] ELSE IF i = k + 1 THEN e ELSE p[i - 1]
    PROVE  \A i, j \in 1 .. (n + 1) : i < j => t[i] < t[j]
<1> SUFFICES ASSUME NEW i \in 1 .. (n + 1), NEW j \in 1 .. (n + 1), i < j
             PROVE  t[i] < t[j]
  OBVIOUS
<1>1. ASSUME NEW x \in 1 .. (n + 1)
      PROVE  /\ x <= k => x \in 1 .. n /\ t[x] = p[x]
             /\ x = k + 1 => t[x] = e
             /\ x > k + 1 => x - 1 \in 1 .. n /\ t[x] = p[x - 1] /\ p[x - 1] > e
  <2>1. CASE x <= k
    <3>1. x \in 1 .. n /\ ~ (x = k + 1) /\ ~ (x > k + 1)
      BY <2>1
    <3> QED BY <2>1, <3>1
  <2>2. CASE x = k + 1
    <3>1. ~ (x <= k) /\ ~ (x > k + 1)
      BY <2>2
    <3> QED BY <2>2, <3>1
  <2>3. CASE x > k + 1
    <3>1. PICK y \in 1 .. n : y = x - 1 /\ ~ (y <= k)
      BY <2>3
    <3>2. ~ (x <= k) /\ ~ (x = k + 1)
      BY <2>3
    <3>3. t[x] = p[x - 1]
      BY <3>2
    <3>4. p[y] # e /\ p[y] \in Nat /\ ~ (p[y] < e)
      BY <3>1
    <3>5. p[y] > e
      BY <3>4
    <3> QED BY <3>1, <3>2, <3>3, <3>5
  <2> QED BY <2>1, <2>2, <2>3
<1>2. CASE j <= k
  <2>1. i <= k
    BY <1>2
  <2> QED BY <1>1, <1>2, <2>1
<1>3. CASE j = k + 1
  <2>1. i <= k
    BY <1>3
  <2>2. t[j] = e /\ t[i] = p[i] /\ i \in 1 .. n
    BY <1>1, <1>3, <2>1
  <2> QED BY <2>1, <2>2
<1>4. CASE j > k + 1
  <2>1. PICK y \in 1 .. n : y = j - 1 /\ t[j] = p[y] /\ p[y] > e
    BY <1>1, <1>4
  <2>2. CASE i <= k
    <3>1. t[i] = p[i] /\ i \in 1 .. n
      BY <1>1, <2>2
    <3>2. p[i] < e /\ p[i] \in Nat /\ p[y] \in Nat
      BY <2>2, <3>1
    <3> QED BY <2>1, <3>1, <3>2
  <2>3. CASE i = k + 1
    <3>1. t[i] = e
      BY <1>1, <2>3
    <3> QED BY <2>1, <3>1
  <2>4. CASE i > k + 1
    <3>1. PICK x \in 1 .. n : x = i - 1 /\ t[i] = p[x]
      BY <1>1, <2>4
    <3>2. x < y
      BY <2>1, <3>1
    <3>3. p[x] < p[y]
      BY <3>2
    <3> QED BY <2>1, <3>1, <3>3
  <2> QED BY <2>2, <2>3, <2>4
<1> QED BY <1>2, <1>3, <1>4

\* A number is kept for later: in its place, if the others are in theirs.
LEMMA LaterIs ==
    ASSUME NEW p \in Seq(Nat), NEW e \in Nat
    PROVE  /\ Later(p, e) \in Seq(Nat)
           /\ ToSet(Later(p, e)) = ToSet(p) \cup {e}
           /\ Sorted(p) /\ e \notin ToSet(p) => Sorted(Later(p, e))
<1> DEFINE k == Cardinality({i \in DOMAIN p : p[i] < e})
           t == Later(p, e)
           n == Len(p)
<1>1. n \in Nat /\ DOMAIN p = 1 .. n /\ \A i \in 1 .. n : p[i] \in Nat
  BY LenProperties, ElementOfSeq
<1>2. k \in 0 .. n /\ (Sorted(p) => \A i \in DOMAIN p : p[i] < e <=> i <= k)
  BY SmallerFirst
<1> HIDE DEF k
<1>3. t = (SubSeq(p, 1, k) \o <<e>>) \o SubSeq(p, k + 1, n)
  <2>1. k \in Nat
    BY <1>1, <1>2
  <2>2. t = (SubSeq(p, 1, (k + 1) - 1) \o <<e>>) \o SubSeq(p, k + 1, n)
    BY DEF Later, InsertAt, k
  <2>3. (k + 1) - 1 = k
    BY <2>1
  <2> QED BY <2>2, <2>3
<1> DEFINE a == SubSeq(p, 1, k)
           b == SubSeq(p, k + 1, n)
<1>4. a \in Seq(Nat) /\ Len(a) = k /\ \A i \in 1 .. k : a[i] = p[i]
  BY <1>1, <1>2
<1>5. b \in Seq(Nat) /\ Len(b) = n - k /\ \A i \in 1 .. (n - k) : b[i] = p[k + i]
  <2>1. k + 1 \in Int /\ n \in Int /\ \A i \in (k + 1) .. n : p[i] \in Nat
    BY <1>1, <1>2
  <2>2. /\ b \in Seq(Nat)
        /\ Len(b) = IF k + 1 <= n THEN n - (k + 1) + 1 ELSE 0
        /\ \A i \in 1 .. (n - (k + 1) + 1) : b[i] = p[(k + 1) + i - 1]
    BY <2>1, SubSeqProperties
  <2>3. n - (k + 1) + 1 = n - k /\ k \in Int
    BY <1>1, <1>2
  <2>4. ASSUME NEW i \in 1 .. (n - k) PROVE b[i] = p[k + i]
    BY <2>2, <2>3
  <2> HIDE DEF b, n
  <2>5. Len(b) = n - k
    <3>1. CASE k + 1 <= n
      BY <2>2, <2>3, <3>1
    <3>2. CASE k = n
      BY <1>1, <2>2, <3>2
    <3> QED BY <1>1, <1>2, <3>1, <3>2
  <2> QED BY <2>2, <2>4, <2>5
<1> HIDE DEF a, b, t, n
<1>6. t = (a \o <<e>>) \o b
  BY <1>3 DEF a, b, n
<1>7. /\ a \o <<e>> \in Seq(Nat) /\ Len(a \o <<e>>) = k + 1
      /\ \A i \in 1 .. (k + 1) : (a \o <<e>>)[i] = IF i <= k THEN p[i] ELSE e
  BY <1>2, <1>4
<1> DEFINE q == a \o <<e>>
<1>y. /\ t \in Seq(Nat) /\ Len(t) = Len(q) + Len(b)
      /\ \A i \in 1 .. (Len(q) + Len(b)) : t[i] = IF i <= Len(q) THEN q[i] ELSE b[i - Len(q)]
  BY <1>5, <1>6, <1>7, ConcatProperties, SMTT(10), ZenonT(30)
<1> HIDE DEF q
<1>8. /\ t \in Seq(Nat) /\ Len(t) = n + 1
      /\ \A i \in 1 .. (n + 1) : t[i] = IF i <= k THEN p[i] ELSE IF i = k + 1 THEN e ELSE p[i - 1]
  <2>1. Len(q) = k + 1 /\ Len(q) + Len(b) = n + 1
    <3>1. Len(q) = k + 1
      BY <1>7 DEF q
    <3> QED BY <1>1, <1>2, <1>5, <3>1
  <2>2. ASSUME NEW i \in 1 .. (n + 1)
        PROVE  t[i] = IF i <= k THEN p[i] ELSE IF i = k + 1 THEN e ELSE p[i - 1]
    <3>1. CASE i <= k + 1
      <4>1. t[i] = q[i]
        BY <1>y, <2>1, <3>1
      <4>2. q[i] = IF i <= k THEN p[i] ELSE e
        BY <1>7, <3>1, <1>2 DEF q
      <4> QED BY <1>2, <3>1, <4>1, <4>2
    <3>2. CASE i > k + 1
      <4>1. t[i] = b[i - (k + 1)]
        BY <1>2, <1>y, <2>1, <3>2, SMTT(30)
      <4>2. i - (k + 1) \in 1 .. (n - k) /\ k + (i - (k + 1)) = i - 1
        BY <1>1, <1>2, <3>2
      <4>3. b[i - (k + 1)] = p[i - 1]
        BY <1>5, <4>2
      <4> QED BY <1>2, <3>2, <4>1, <4>3
    <3> QED BY <1>1, <1>2, <3>1, <3>2
  <2> QED BY <1>y, <2>1, <2>2
<1>9. DOMAIN t = 1 .. (n + 1)
  BY <1>8, LenProperties
<1>10. ToSet(t) = ToSet(p) \cup {e}
  <2>1. ASSUME NEW i \in DOMAIN t PROVE t[i] \in ToSet(p) \cup {e}
    <3>1. CASE i <= k
      <4>1. i \in DOMAIN p /\ t[i] = p[i]
        BY <1>1, <1>2, <1>8, <1>9, <3>1
      <4> QED BY <4>1 DEF ToSet
    <3>2. CASE i = k + 1
      <4>1. t[i] = e
        BY <1>1, <1>2, <1>8, <1>9, <3>2
      <4> QED BY <4>1
    <3>3. CASE i > k + 1
      <4>1. i - 1 \in DOMAIN p /\ t[i] = p[i - 1]
        BY <1>1, <1>2, <1>8, <1>9, <3>3, SMTT(20), ZenonT(20)
      <4> QED BY <4>1 DEF ToSet
    <3> QED BY <1>1, <1>2, <1>9, <3>1, <3>2, <3>3
  <2>2. ASSUME NEW i \in DOMAIN p PROVE p[i] \in ToSet(t)
    <3>1. CASE i <= k
      <4>1. i \in DOMAIN t /\ t[i] = p[i]
        BY <1>1, <1>2, <1>8, <1>9, <3>1
      <4> QED BY <4>1 DEF ToSet
    <3>2. CASE i > k
      <4>1. i + 1 \in DOMAIN t /\ t[i + 1] = p[i]
        BY <1>1, <1>2, <1>8, <1>9, <3>2, SMTT(30)
      <4> QED BY <4>1 DEF ToSet
    <3> QED BY <1>1, <1>2, <3>1, <3>2
  <2>3. e \in ToSet(t)
    <3>1. k + 1 \in DOMAIN t /\ t[k + 1] = e
      BY <1>1, <1>2, <1>8, <1>9
    <3> QED BY <3>1 DEF ToSet
  <2> QED BY <2>1, <2>2, <2>3 DEF ToSet
<1>11. ASSUME Sorted(p), e \notin ToSet(p) PROVE Sorted(t)
  <2>1. \A i \in 1 .. n : p[i] # e /\ p[i] \in Nat
    BY <1>1, <1>11 DEF ToSet
  <2>2. \A x, y \in 1 .. n : x < y => p[x] < p[y]
    BY <1>1, <1>11 DEF Sorted
  <2>3. \A i \in 1 .. n : i <= k <=> p[i] < e
    BY <1>1, <1>2, <1>11
  <2>4. n \in Nat /\ k \in 0 .. n
    BY <1>1, <1>2
  <2>5. \A i, j \in 1 .. (n + 1) : i < j => t[i] < t[j]
    BY <1>8, <2>1, <2>2, <2>3, <2>4, SortedBetween
  <2> QED BY <1>9, <2>5 DEF Sorted
<1> QED BY <1>8, <1>10, <1>11 DEF t

-----------------------------------------------------------------------------
(* The pending changelogs whose turn has come.                             *)

LEMMA MaxIn ==
    ASSUME NEW n \in Nat, NEW S, S \subseteq 0 .. n, S # {}
    PROVE  Max(S) \in S /\ \A k \in S : k <= Max(S)
<1> DEFINE D == { n - k : k \in S }
           R == { ss \in Nat \X Nat : ss[1] < ss[2] }
<1>1. D \subseteq Nat /\ D # {}
  <2>1. ASSUME NEW k \in S PROVE n - k \in Nat
    <3>1. k \in 0 .. n
      OBVIOUS
    <3> QED BY <3>1
  <2> QED BY <2>1
<1>2. \E x \in D : \A y \in D : x <= y
  <2>1. IsWellFoundedOn(R, Nat)
    BY NatLessThanWellFounded DEF OpToRel
  <2>2. R = { ss \in Nat \X Nat : ss[1] < ss[2] }
    OBVIOUS
  <2> HIDE DEF R, D
  <2>3. \E x \in D : \A y \in D : ~ (<<y, x>> \in R)
    BY <1>1, <2>1, WFMin
  <2>4. PICK x \in D : \A y \in D : ~ (<<y, x>> \in R)
    BY <2>3
  <2>5. ASSUME NEW y \in D PROVE x <= y
    <3>1. x \in Nat /\ y \in Nat /\ ~ (<<y, x>> \in R)
      BY <1>1, <2>4
    <3>2. ~ (y < x)
      BY <2>2, <3>1
    <3> QED BY <3>1, <3>2
  <2> QED BY <2>5
<1>3. PICK x \in D : \A y \in D : x <= y
  BY <1>2
<1>4. n - x \in S /\ \A k \in S : k <= n - x
  BY <1>3
<1>5. \E i \in S : \A k \in S : i >= k
  BY <1>4
<1>6. Max(S) \in S /\ \A k \in S : Max(S) >= k
  BY <1>5 DEF Max
<1> QED BY <1>6

\* Ready counts the pending numbers that go on from n, all of them.
LEMMA ReadyIs ==
    ASSUME NEW p \in Seq(Nat), NEW n \in Nat
    PROVE  /\ Ready(p, n) \in 0 .. Len(p) /\ \A i \in 1 .. Ready(p, n) : p[i] = n + i
           /\ Ready(p, n) < Len(p) => p[Ready(p, n) + 1] # n + Ready(p, n) + 1
<1> DEFINE S == {k \in 0 .. Len(p) : \A i \in 1 .. k : p[i] = n + i}
<1>1. Len(p) \in Nat
  BY LenProperties
<1>2. 0 \in S
  BY <1>1
<1>3. PICK k : k = Ready(p, n)
  OBVIOUS
<1>4. k = Max(S)
  BY <1>3 DEF Ready
<1>5. k \in S /\ \A j \in S : j <= k
  <2>1. S \subseteq 0 .. Len(p)
    OBVIOUS
  <2> HIDE DEF S
  <2> QED BY <1>1, <1>2, <1>4, <2>1, MaxIn
<1>6. k \in 0 .. Len(p) /\ \A i \in 1 .. k : p[i] = n + i
  BY <1>5
<1>7. ASSUME k < Len(p), p[k + 1] = n + k + 1 PROVE FALSE
  <2>1. k + 1 \in 0 .. Len(p)
    BY <1>1, <1>6, <1>7
  <2>2. ASSUME NEW i \in 1 .. k + 1 PROVE p[i] = n + i
    <3>1. CASE i = k + 1
      BY <1>6, <1>7, <3>1
    <3>2. CASE i \in 1 .. k
      BY <1>6, <3>2
    <3> QED BY <1>6, <3>1, <3>2
  <2>3. k + 1 \in S
    BY <2>1, <2>2
  <2> QED BY <1>5, <1>6, <2>3
<1> QED BY <1>3, <1>6, <1>7

\* What is left of the pending numbers, and what has been shown.
LEMMA RestIs ==
    ASSUME NEW p \in Seq(Nat), Sorted(p), NEW n \in Nat, \A m \in ToSet(p) : m > n
    PROVE  LET k == Ready(p, n)
               q == SubSeq(p, k + 1, Len(p))
           IN  /\ q \in Seq(Nat) /\ Sorted(q) /\ k \in Nat
               /\ \A m \in ToSet(q) : m \in ToSet(p) /\ m > n + k + 1
               /\ \A m \in ToSet(p) : m \in ToSet(q) \/ \E i \in 1 .. k : m = n + i
               /\ \A i \in 1 .. k : n + i \in ToSet(p)
<1>1. Len(p) \in Nat /\ DOMAIN p = 1 .. Len(p) /\ \A i \in 1 .. Len(p) : p[i] \in Nat
  BY LenProperties, ElementOfSeq
<1>2. PICK k : k = Ready(p, n)
  OBVIOUS
<1>3. /\ k \in 0 .. Len(p) /\ \A i \in 1 .. k : p[i] = n + i
      /\ k < Len(p) => p[k + 1] # n + k + 1
  BY <1>2, ReadyIs
<1>4. PICK q : q = SubSeq(p, k + 1, Len(p))
  OBVIOUS
<1>5. /\ q \in Seq(Nat) /\ Len(q) = Len(p) - k
      /\ \A i \in 1 .. Len(p) - k : q[i] = p[k + i]
  <2>1. k + 1 \in Int /\ Len(p) \in Int /\ \A i \in (k + 1) .. Len(p) : p[i] \in Nat
    BY <1>1, <1>3
  <2>2. /\ q \in Seq(Nat)
        /\ Len(q) = IF k + 1 <= Len(p) THEN Len(p) - (k + 1) + 1 ELSE 0
        /\ \A i \in 1 .. (Len(p) - (k + 1) + 1) : q[i] = p[(k + 1) + i - 1]
    BY <2>1, <1>4, SubSeqProperties
  <2>3. Len(p) - (k + 1) + 1 = Len(p) - k
    BY <1>1, <1>3
  <2>4. Len(q) = Len(p) - k
    <3>1. CASE k + 1 <= Len(p)
      <4>1. Len(q) = Len(p) - (k + 1) + 1
        BY <2>2, <3>1
      <4> QED BY <2>3, <4>1
    <3>2. CASE k = Len(p)
      <4>1. ~ (k + 1 <= Len(p)) /\ Len(p) - k = 0
        BY <1>1, <3>2
      <4> QED BY <2>2, <4>1
    <3>3. k + 1 <= Len(p) \/ k = Len(p)
      <4>1. Len(p) \in Nat /\ k \in 0 .. Len(p)
        BY <1>1, <1>3
      <4> QED BY <4>1
    <3> QED BY <3>1, <3>2, <3>3
  <2>5. ASSUME NEW i \in 1 .. Len(p) - k PROVE q[i] = p[k + i]
    <3>1. (k + 1) + i - 1 = k + i
      BY <1>3
    <3> QED BY <2>2, <2>3, <3>1
  <2> QED BY <2>2, <2>4, <2>5
<1>6. DOMAIN q = 1 .. Len(p) - k
  BY <1>5, LenProperties
<1>7. ASSUME NEW i \in 1 .. Len(p) - k PROVE k + i \in 1 .. Len(p) /\ q[i] = p[k + i]
  BY <1>1, <1>3, <1>5
<1>8. Sorted(q)
  <2> SUFFICES ASSUME NEW i \in 1 .. Len(p) - k, NEW j \in 1 .. Len(p) - k, i < j PROVE q[i] < q[j]
    BY <1>6 DEF Sorted
  <2>1. k + i \in DOMAIN p /\ k + j \in DOMAIN p /\ k + i < k + j /\ q[i] = p[k + i] /\ q[j] = p[k + j]
    BY <1>1, <1>3, <1>7
  <2> QED BY <2>1 DEF Sorted
<1>9. ASSUME NEW i \in k + 1 .. Len(p) PROVE p[i] > n + k + 1
  <2>1. k + 1 \in DOMAIN p /\ p[k + 1] \in Nat /\ i \in DOMAIN p /\ p[i] \in Nat
    BY <1>1, <1>3
  <2>2. p[k + 1] > n + k
    <3>1. CASE k = 0
      <4>1. p[k + 1] \in ToSet(p)
        BY <2>1 DEF ToSet
      <4> QED BY <4>1, <3>1
    <3>2. CASE k > 0
      <4>1. k \in DOMAIN p /\ p[k] = n + k /\ k < k + 1
        BY <1>1, <1>3, <3>2
      <4> QED BY <4>1, <2>1 DEF Sorted
    <3> QED BY <1>3, <3>1, <3>2
  <2>3. p[k + 1] # n + k + 1
    BY <1>1, <1>3
  <2>4. i = k + 1 \/ p[k + 1] < p[i]
    BY <1>3, <2>1 DEF Sorted
  <2> QED BY <1>3, <2>1, <2>2, <2>3, <2>4
<1>10. ASSUME NEW m \in ToSet(q) PROVE m \in ToSet(p) /\ m > n + k + 1
  <2>1. PICK i \in 1 .. Len(p) - k : m = q[i]
    BY <1>6 DEF ToSet
  <2>2. k + i \in k + 1 .. Len(p) /\ k + i \in DOMAIN p /\ m = p[k + i]
    BY <1>1, <1>3, <1>7, <2>1
  <2>3. m \in ToSet(p)
    BY <2>2 DEF ToSet
  <2>4. PICK x \in k + 1 .. Len(p) : x = k + i
    BY <2>2
  <2>5. p[x] > n + k + 1
    BY <1>9
  <2> QED BY <2>2, <2>3, <2>4, <2>5
<1>11. ASSUME NEW m \in ToSet(p) PROVE m \in ToSet(q) \/ \E i \in 1 .. k : m = n + i
  <2>1. PICK j \in 1 .. Len(p) : m = p[j]
    BY <1>1 DEF ToSet
  <2>2. CASE j \in 1 .. k
    BY <1>3, <2>1, <2>2
  <2>3. CASE j > k
    <3>1. PICK i : i = j - k
      OBVIOUS
    <3>2. i \in 1 .. Len(p) - k /\ k + i = j
      BY <1>1, <1>3, <2>3, <3>1
    <3>3. i \in DOMAIN q /\ q[i] = m
      BY <1>6, <1>7, <2>1, <3>2
    <3> QED BY <3>3 DEF ToSet
  <2> QED BY <1>3, <2>2, <2>3
<1>12. ASSUME NEW i \in 1 .. k PROVE n + i \in ToSet(p)
  <2>1. i \in DOMAIN p /\ p[i] = n + i
    BY <1>1, <1>3
  <2> QED BY <2>1 DEF ToSet
<1> QED BY <1>2, <1>3, <1>4, <1>5, <1>8, <1>10, <1>11, <1>12

-----------------------------------------------------------------------------
(* What is on its way to a window.                                         *)

PushMsg  == [kind : {"push"}, changelog : Changelog]
StateMsg == [kind : {"state"}, to : Guest, log : Seq(Changelog), half : 0 .. MaxAsw]
Message  == PushMsg \cup StateMsg

\* the changelogs among messages
Sent(q) == {x \in Changelog : \E i \in DOMAIN q : q[i] = Push(x)}

LEMMA MessageIs ==
    ASSUME NEW m \in Message
    PROVE  \/ m.kind = "push" /\ m.changelog \in Changelog /\ m = Push(m.changelog)
           \/ m.kind = "state" /\ m \in StateMsg /\ \A x \in Changelog : m # Push(x)
<1>1. CASE m \in PushMsg
  <2>1. m.kind = "push" /\ m.changelog \in Changelog /\ m = [kind |-> "push", changelog |-> m.changelog]
    BY <1>1 DEF PushMsg
  <2> QED BY <2>1 DEF Push
<1>2. CASE m \in StateMsg
  <2>1. m.kind = "state"
    BY <1>2 DEF StateMsg
  <2>2. \A x \in Changelog : Push(x).kind = "push"
    BY DEF Push
  <2> QED BY <1>2, <2>1, <2>2
<1> QED BY <1>1, <1>2 DEF Message

LEMMA PushIs ==
    ASSUME NEW x \in Changelog
    PROVE  Push(x) \in Message /\ Push(x).kind = "push" /\ Push(x).changelog = x
           /\ \A y \in Changelog : Push(x) = Push(y) => x = y
BY DEF Push, Message, PushMsg

\* x may come before y: it is the earlier one, or nothing is between them but changelogs
\* of the csworker's own.
Apart(l, x, y) ==
    /\ x # y
    /\ \A i, j \in 1 .. Len(l) : l[i] = x /\ l[j] = y /\ j < i => \A k \in j .. i : l[k][1] = "csw"

\* x is of the last run of the csworker's own changelogs
Recent(l, x) == \E j \in 1 .. Len(l) : l[j] = x /\ \A k \in j .. Len(l) : l[k][1] = "csw"

\* The messages q come in an order that may be.
Spaced(l, q) ==
    \A i, j \in DOMAIN q : \A x, y \in Changelog :
       i < j /\ q[i] = Push(x) /\ q[j] = Push(y) => Apart(l, x, y)

\* The socket S of a window, what is to be relayed, and the turn's messages.
InLine(l, S, I, U) ==
    /\ ToSet(S) \cup Sent(I) \cup Sent(U) \subseteq ToSet(l)
    /\ \A i, j \in DOMAIN S : i < j => Apart(l, S[i], S[j])
    /\ \A x \in ToSet(S), y \in Sent(I) : Apart(l, x, y)
    /\ Spaced(l, I)
    /\ (ToSet(S) \cup Sent(I)) \cap Sent(U) = {}
    /\ \A i, j \in DOMAIN U : \A x \in Changelog : U[i] = Push(x) /\ U[j] = Push(x) => i = j
    /\ \A x \in Sent(U) : Recent(l, x)

\* All of it.
All(S, I, U) == ToSet(S) \cup Sent(I) \cup Sent(U)

\* What is recent may come after anything else.
LEMMA RecentIsApart ==
    ASSUME NEW l, Numbered(l), NEW x, NEW y, x # y, Recent(l, y)
    PROVE  Apart(l, x, y)
<1>1. Len(l) \in Nat
  BY LogTypes DEF Numbered
<1>2. PICK m \in 1 .. Len(l) : l[m] = y /\ \A k \in m .. Len(l) : l[k][1] = "csw"
  BY DEF Recent
<1>3. ASSUME NEW i \in 1 .. Len(l), NEW j \in 1 .. Len(l), l[i] = x, l[j] = y, j < i, NEW k \in j .. i
      PROVE  l[k][1] = "csw"
  <2>1. j = m
    BY <1>2, <1>3, OnceEach
  <2>2. k \in m .. Len(l)
    BY <1>1, <1>3, <2>1
  <2> QED BY <1>2, <2>2
<1> QED BY <1>3 DEF Apart

\* The changelogs of Append, Tail and Reverse.
LEMMA SentAppend ==
    ASSUME NEW q \in Seq(Message), NEW m \in Message
    PROVE  /\ \A x \in Changelog : m = Push(x) => Sent(Append(q, m)) = Sent(q) \cup {x}
           /\ m \in StateMsg => Sent(Append(q, m)) = Sent(q)
<1>1. PICK t : t = Append(q, m)
  OBVIOUS
<1>2. /\ Len(q) \in Nat /\ DOMAIN q = 1 .. Len(q) /\ DOMAIN t = 1 .. Len(q) + 1
      /\ \A i \in 1 .. Len(q) : t[i] = q[i]
      /\ t[Len(q) + 1] = m
  BY <1>1, AppendIs
<1>3. ASSUME NEW y \in Changelog
      PROVE  y \in Sent(t) <=> y \in Sent(q) \/ m = Push(y)
  <2>1. ASSUME NEW i \in DOMAIN t, t[i] = Push(y) PROVE y \in Sent(q) \/ m = Push(y)
    <3>1. CASE i \in 1 .. Len(q)
      BY <1>2, <2>1, <3>1 DEF Sent
    <3>2. CASE i = Len(q) + 1
      BY <1>2, <2>1, <3>2
    <3> QED BY <1>2, <3>1, <3>2
  <2>2. ASSUME NEW i \in DOMAIN q, q[i] = Push(y) PROVE y \in Sent(t)
    <3>1. i \in DOMAIN t /\ t[i] = Push(y)
      BY <1>2, <2>2
    <3> QED BY <3>1 DEF Sent
  <2>3. ASSUME m = Push(y) PROVE y \in Sent(t)
    <3>1. Len(q) + 1 \in DOMAIN t
      BY <1>2
    <3> QED BY <1>2, <2>3, <3>1 DEF Sent
  <2> QED BY <2>1, <2>2, <2>3 DEF Sent
<1>4. Sent(t) \subseteq Changelog /\ Sent(q) \subseteq Changelog
  BY DEF Sent
<1>5. ASSUME NEW x \in Changelog, m = Push(x) PROVE Sent(t) = Sent(q) \cup {x}
  BY <1>3, <1>4, <1>5, PushIs
<1>6. ASSUME m \in StateMsg PROVE Sent(t) = Sent(q)
  <2>1. m.kind = "state"
    BY <1>6 DEF StateMsg
  <2>2. \A x \in Changelog : m # Push(x)
    BY <2>1, MessageIs
  <2> QED BY <1>3, <1>4, <2>2
<1> QED BY <1>1, <1>5, <1>6

LEMMA SentTail ==
    ASSUME NEW q \in Seq(Message), q # <<>>
    PROVE  /\ \A x \in Changelog : Head(q) = Push(x) => Sent(q) = Sent(Tail(q)) \cup {x}
           /\ Head(q).kind = "state" => Sent(q) = Sent(Tail(q))
<1>1. PICK t : t = Tail(q)
  OBVIOUS
<1>2. /\ Len(q) \in Nat /\ Len(q) > 0 /\ Head(q) = q[1] /\ Head(q) \in Message
      /\ DOMAIN q = 1 .. Len(q) /\ DOMAIN t = 1 .. Len(q) - 1
      /\ \A i \in 1 .. Len(q) - 1 : t[i] = q[i + 1]
  BY <1>1, TailIs
<1>3. ASSUME NEW y \in Changelog
      PROVE  y \in Sent(q) <=> y \in Sent(t) \/ Head(q) = Push(y)
  <2>1. ASSUME NEW i \in DOMAIN t, t[i] = Push(y) PROVE y \in Sent(q)
    <3>1. i + 1 \in DOMAIN q /\ q[i + 1] = Push(y)
      BY <1>2, <2>1
    <3> QED BY <3>1 DEF Sent
  <2>2. ASSUME Head(q) = Push(y) PROVE y \in Sent(q)
    <3>1. 1 \in DOMAIN q /\ q[1] = Push(y)
      BY <1>2, <2>2
    <3> QED BY <3>1 DEF Sent
  <2>3. ASSUME NEW i \in DOMAIN q, q[i] = Push(y) PROVE y \in Sent(t) \/ Head(q) = Push(y)
    <3>1. CASE i = 1
      BY <1>2, <2>3, <3>1
    <3>2. CASE i # 1
      <4>1. PICK k : k = i - 1
        OBVIOUS
      <4>2. k \in 1 .. Len(q) - 1 /\ k + 1 = i
        BY <1>2, <3>2, <4>1
      <4>3. k \in DOMAIN t /\ t[k] = Push(y)
        BY <1>2, <2>3, <4>2
      <4> QED BY <4>3 DEF Sent
    <3> QED BY <3>1, <3>2
  <2> QED BY <2>1, <2>2, <2>3 DEF Sent
<1>4. Sent(t) \subseteq Changelog /\ Sent(q) \subseteq Changelog
  BY DEF Sent
<1>5. ASSUME NEW x \in Changelog, Head(q) = Push(x) PROVE Sent(q) = Sent(t) \cup {x}
  BY <1>3, <1>4, <1>5, PushIs
<1>6. ASSUME Head(q).kind = "state" PROVE Sent(q) = Sent(t)
  <2>2. \A x \in Changelog : Head(q) # Push(x)
    BY <1>2, <1>6, MessageIs
  <2> QED BY <1>3, <1>4, <2>2
<1> QED BY <1>1, <1>5, <1>6

\* A turn's messages leave the last one first.
LEMMA ReverseIs ==
    ASSUME NEW p \in Seq(Message), NEW q \in Seq(Message)
    PROVE  \E m, n \in Nat :
             LET t == p \o Reverse(q) IN
             /\ t \in Seq(Message)
             /\ DOMAIN p = 1 .. m /\ DOMAIN q = 1 .. n /\ DOMAIN t = 1 .. m + n
             /\ \A i \in 1 .. m : t[i] = p[i]
             /\ \A i \in m + 1 .. m + n :
                  m + n - i + 1 \in 1 .. n /\ t[i] = q[m + n - i + 1]
<1>1. /\ Len(p) \in Nat /\ Len(q) \in Nat /\ DOMAIN p = 1 .. Len(p) /\ DOMAIN q = 1 .. Len(q)
      /\ \A i \in 1 .. Len(q) : q[i] \in Message
  BY LenProperties, ElementOfSeq
<1>2. PICK m \in Nat, n \in Nat : m = Len(p) /\ n = Len(q)
  BY <1>1
<1>3. PICK r : r = Reverse(q)
  OBVIOUS
<1>4. r = [i \in 1 .. n |-> q[(n - i) + 1]]
  BY <1>2, <1>3 DEF Reverse
<1>5. ASSUME NEW i \in 1 .. n PROVE (n - i) + 1 \in 1 .. n
  OBVIOUS
<1>6. r \in Seq(Message) /\ Len(r) = n
  <2>1. \A i \in 1 .. n : q[(n - i) + 1] \in Message
    BY <1>1, <1>2, <1>5
  <2> QED BY <1>4, <2>1
<1>7. PICK t : t = p \o r
  OBVIOUS
<1>8. /\ t \in Seq(Message) /\ Len(t) = m + n
      /\ \A i \in 1 .. m + n : t[i] = IF i <= m THEN p[i] ELSE r[i - m]
  <2>1. /\ p \o r \in Seq(Message) /\ Len(p \o r) = Len(p) + Len(r)
        /\ \A i \in 1 .. Len(p) + Len(r) : (p \o r)[i] = IF i <= Len(p) THEN p[i] ELSE r[i - Len(p)]
    BY <1>6, ConcatProperties
  <2> QED BY <2>1, <1>2, <1>6, <1>7
<1>9. DOMAIN t = 1 .. m + n
  BY <1>2, <1>8, LenProperties
<1>10. \A i \in 1 .. m : t[i] = p[i]
  BY <1>2, <1>8
<1>11. ASSUME NEW i \in m + 1 .. m + n
       PROVE  m + n - i + 1 \in 1 .. n /\ t[i] = q[m + n - i + 1]
  <2>1. t[i] = r[i - m]
    <3>1. i \in 1 .. m + n /\ ~ (i <= m)
      BY <1>11
    <3> QED BY <1>8, <3>1
  <2>2. PICK k : k = i - m
    OBVIOUS
  <2>3. k \in 1 .. n /\ (n - k) + 1 = m + n - i + 1
    BY <1>2, <2>2
  <2>4. r[k] = q[(n - k) + 1] /\ (n - k) + 1 \in 1 .. n
    BY <1>4, <2>3
  <2> QED BY <2>1, <2>2, <2>3, <2>4
<1> QED BY <1>1, <1>2, <1>3, <1>7, <1>8, <1>9, <1>10, <1>11, ZenonT(40)

LEMMA SentReverse ==
    ASSUME NEW p \in Seq(Message), NEW q \in Seq(Message)
    PROVE  Sent(p \o Reverse(q)) = Sent(p) \cup Sent(q)
<1>1. PICK t : t = p \o Reverse(q)
  OBVIOUS
<1>2. PICK n \in Nat, m \in Nat :
        LET r == p \o Reverse(q) IN
        /\ r \in Seq(Message)
        /\ DOMAIN p = 1 .. n /\ DOMAIN q = 1 .. m /\ DOMAIN r = 1 .. n + m
        /\ \A i \in 1 .. n : r[i] = p[i]
        /\ \A i \in n + 1 .. n + m :
             n + m - i + 1 \in 1 .. m /\ r[i] = q[n + m - i + 1]
  BY ReverseIs
<1>3. /\ DOMAIN p = 1 .. n /\ DOMAIN q = 1 .. m /\ DOMAIN t = 1 .. n + m
      /\ \A i \in 1 .. n : t[i] = p[i]
      /\ \A i \in n + 1 .. n + m : n + m - i + 1 \in 1 .. m /\ t[i] = q[n + m - i + 1]
  BY <1>1, <1>2
<1>4. ASSUME NEW y \in Changelog PROVE y \in Sent(t) <=> y \in Sent(p) \cup Sent(q)
  <2>1. ASSUME NEW i \in DOMAIN t, t[i] = Push(y) PROVE y \in Sent(p) \cup Sent(q)
    <3>1. CASE i \in 1 .. n
      BY <1>3, <2>1, <3>1 DEF Sent
    <3>2. CASE i \in n + 1 .. n + m
      <4>1. PICK k \in 1 .. m : t[i] = q[k]
        BY <1>3, <3>2
      <4> QED BY <1>3, <2>1, <4>1 DEF Sent
    <3> QED BY <1>3, <3>1, <3>2
  <2>2. ASSUME NEW i \in DOMAIN p, p[i] = Push(y) PROVE y \in Sent(t)
    <3>1. i \in DOMAIN t /\ t[i] = Push(y)
      BY <1>3, <2>2
    <3> QED BY <3>1 DEF Sent
  <2>3. ASSUME NEW i \in DOMAIN q, q[i] = Push(y) PROVE y \in Sent(t)
    <3>1. PICK k : k = n + m - i + 1
      OBVIOUS
    <3>2. k \in n + 1 .. n + m /\ n + m - k + 1 = i
      BY <1>3, <3>1
    <3>3. k \in DOMAIN t /\ t[k] = Push(y)
      BY <1>3, <2>3, <3>2
    <3> QED BY <3>3 DEF Sent
  <2> QED BY <2>1, <2>2, <2>3 DEF Sent
<1>5. Sent(t) \subseteq Changelog /\ Sent(p) \cup Sent(q) \subseteq Changelog
  BY DEF Sent
<1> QED BY <1>1, <1>4, <1>5

\* An order that may be is one in the longer log, too.
LEMMA ApartLater ==
    ASSUME NEW l, NEW m, NEW z, Len(l) \in Nat, Len(m) = Len(l) + 1, m[Len(l) + 1] = z,
           \A i \in 1 .. Len(l) : m[i] = l[i],
           NEW x, NEW y, x # z, y # z, Apart(l, x, y)
    PROVE  Apart(m, x, y)
<1>1. ASSUME NEW i \in 1 .. Len(m), NEW j \in 1 .. Len(m), m[i] = x, m[j] = y, j < i, NEW k \in j .. i
      PROVE  m[k][1] = "csw"
  <2>1. i \in 1 .. Len(l) /\ j \in 1 .. Len(l) /\ k \in 1 .. Len(l)
    BY <1>1
  <2>2. l[i] = x /\ l[j] = y /\ m[k] = l[k]
    BY <1>1, <2>1
  <2> QED BY <1>1, <2>1, <2>2 DEF Apart
<1>2. x # y
  BY DEF Apart
<1> QED BY <1>1, <1>2 DEF Apart

\* A changelog that is new in the log may come after any other.
LEMMA NewIsLast ==
    ASSUME NEW l, NEW m, NEW z, Len(l) \in Nat, Len(m) = Len(l) + 1, m[Len(l) + 1] = z,
           \A i \in 1 .. Len(l) : m[i] = l[i], \A i \in 1 .. Len(l) : l[i] # z,
           NEW x, x # z
    PROVE  Apart(m, x, z)
<1>1. ASSUME NEW j \in 1 .. Len(m), m[j] = z PROVE j = Len(m)
  <2>1. j \notin 1 .. Len(l)
    BY <1>1
  <2> QED BY <2>1
<1> QED BY <1>1 DEF Apart

\* The csworker ends a changelog of the asworker: nothing of its own waits in the turn.
LEMMA LineEnds ==
    ASSUME NEW l, Numbered(l), NEW z \in Changelog, z \notin ToSet(l),
           NEW S \in Seq(Changelog), NEW I \in Seq(Message), InLine(l, S, I, <<>>)
    PROVE  /\ InLine(Append(l, z), S, Append(I, Push(z)), <<>>)
           /\ All(S, Append(I, Push(z)), <<>>) = All(S, I, <<>>) \cup {z}
<1>1. PICK m : m = Append(l, z)
  OBVIOUS
<1>2. PICK J : J = Append(I, Push(z))
  OBVIOUS
<1>3. /\ Len(l) \in Nat /\ Len(m) = Len(l) + 1 /\ m[Len(l) + 1] = z
      /\ \A i \in 1 .. Len(l) : m[i] = l[i]
      /\ ToSet(m) = ToSet(l) \cup {z}
  BY <1>1, AppendIs DEF Numbered
<1>4. \A i \in 1 .. Len(l) : l[i] # z
  BY LogTypes DEF Numbered
<1>5. /\ Len(I) \in Nat /\ DOMAIN I = 1 .. Len(I) /\ DOMAIN J = 1 .. Len(I) + 1
      /\ \A i \in 1 .. Len(I) : J[i] = I[i]
      /\ J[Len(I) + 1] = Push(z)
  BY <1>2, AppendIs, PushIs
<1>6. Sent(J) = Sent(I) \cup {z}
  BY <1>2, SentAppend, PushIs
<1>7. Sent(<<>>) = {}
  BY DEF Sent
<1>8. ToSet(S) \subseteq ToSet(l) /\ Sent(I) \subseteq ToSet(l)
  BY DEF InLine
<1>9. ASSUME NEW x \in ToSet(l), NEW y \in ToSet(l), Apart(l, x, y) PROVE Apart(m, x, y)
  BY <1>3, <1>9, ApartLater, ZenonT(40)
<1>10. ASSUME NEW x \in ToSet(l) PROVE Apart(m, x, z)
  BY <1>3, <1>4, NewIsLast
<1>11. \A i, j \in DOMAIN S : i < j => Apart(m, S[i], S[j])
  <2> SUFFICES ASSUME NEW i \in DOMAIN S, NEW j \in DOMAIN S, i < j PROVE Apart(m, S[i], S[j])
    OBVIOUS
  <2>1. S[i] \in ToSet(l) /\ S[j] \in ToSet(l)
    BY <1>8 DEF ToSet
  <2>2. Apart(l, S[i], S[j])
    BY DEF InLine
  <2> QED BY <1>9, <2>1, <2>2
<1>12. ASSUME NEW x \in ToSet(S), NEW y \in Sent(J) PROVE Apart(m, x, y)
  <2>1. CASE y = z
    BY <1>8, <1>10, <2>1
  <2>2. CASE y \in Sent(I)
    <3>1. Apart(l, x, y)
      BY <2>2 DEF InLine
    <3> QED BY <1>8, <1>9, <2>2, <3>1
  <2> QED BY <1>6, <2>1, <2>2
<1>13. Spaced(m, J)
  <2> SUFFICES ASSUME NEW i \in DOMAIN J, NEW j \in DOMAIN J, NEW x \in Changelog, NEW y \in Changelog,
                      i < j, J[i] = Push(x), J[j] = Push(y)
               PROVE  Apart(m, x, y)
    BY DEF Spaced
  <2>1. i \in 1 .. Len(I) /\ I[i] = Push(x)
    BY <1>5
  <2>2. x \in Sent(I)
    BY <1>5, <2>1 DEF Sent
  <2>3. CASE j = Len(I) + 1
    <3>1. y = z
      BY <1>5, <2>3, PushIs
    <3> QED BY <1>8, <1>10, <2>2, <3>1
  <2>4. CASE j \in 1 .. Len(I)
    <3>1. I[j] = Push(y)
      BY <1>5, <2>4
    <3>2. y \in Sent(I)
      BY <1>5, <2>4, <3>1 DEF Sent
    <3>3. Apart(l, x, y)
      BY <1>5, <2>1, <2>4, <3>1 DEF InLine, Spaced
    <3> QED BY <1>8, <1>9, <2>2, <3>2, <3>3
  <2> QED BY <1>5, <2>3, <2>4
<1>14. InLine(m, S, J, <<>>)
  <2>1. ToSet(S) \cup Sent(J) \cup Sent(<<>>) \subseteq ToSet(m)
    BY <1>3, <1>6, <1>7, <1>8
  <2>2. DOMAIN <<>> = {}
    OBVIOUS
  <2> QED BY <1>7, <1>11, <1>12, <1>13, <2>1, <2>2 DEF InLine
<1>15. All(S, J, <<>>) = All(S, I, <<>>) \cup {z}
  BY <1>6, <1>7 DEF All
<1> QED BY <1>1, <1>2, <1>14, <1>15

\* The csworker writes: its changelog waits in the turn.
LEMMA LineWrites ==
    ASSUME NEW l, Numbered(l), NEW z \in Changelog, z \notin ToSet(l), z[1] = "csw",
           NEW S \in Seq(Changelog), NEW I \in Seq(Message), NEW U \in Seq(Message), InLine(l, S, I, U)
    PROVE  /\ InLine(Append(l, z), S, I, Append(U, Push(z)))
           /\ All(S, I, Append(U, Push(z))) = All(S, I, U) \cup {z}
<1>1. PICK m : m = Append(l, z)
  OBVIOUS
<1>2. PICK V : V = Append(U, Push(z))
  OBVIOUS
<1>3. /\ Len(l) \in Nat /\ Len(m) = Len(l) + 1 /\ m[Len(l) + 1] = z
      /\ \A i \in 1 .. Len(l) : m[i] = l[i]
      /\ ToSet(m) = ToSet(l) \cup {z}
  BY <1>1, AppendIs DEF Numbered
<1>4. Len(l) \in Nat /\ Len(m) = Len(l) + 1
  BY <1>3
<1>5. /\ Len(U) \in Nat /\ DOMAIN U = 1 .. Len(U) /\ DOMAIN V = 1 .. Len(U) + 1
      /\ \A i \in 1 .. Len(U) : V[i] = U[i]
      /\ V[Len(U) + 1] = Push(z)
  BY <1>2, AppendIs, PushIs
<1>6. Sent(V) = Sent(U) \cup {z}
  BY <1>2, SentAppend, PushIs
<1>8. ToSet(S) \subseteq ToSet(l) /\ Sent(I) \subseteq ToSet(l) /\ Sent(U) \subseteq ToSet(l)
  BY DEF InLine
<1>9. ASSUME NEW x \in ToSet(l), NEW y \in ToSet(l), Apart(l, x, y) PROVE Apart(m, x, y)
  BY <1>3, <1>9, ApartLater, SMTT(30)
<1>11. \A i, j \in DOMAIN S : i < j => Apart(m, S[i], S[j])
  <2> SUFFICES ASSUME NEW i \in DOMAIN S, NEW j \in DOMAIN S, i < j PROVE Apart(m, S[i], S[j])
    OBVIOUS
  <2>1. S[i] \in ToSet(l) /\ S[j] \in ToSet(l)
    BY <1>8 DEF ToSet
  <2>2. Apart(l, S[i], S[j])
    BY DEF InLine
  <2> QED BY <1>9, <2>1, <2>2
<1>12. ASSUME NEW x \in ToSet(S), NEW y \in Sent(I) PROVE Apart(m, x, y)
  <2>1. Apart(l, x, y)
    BY DEF InLine
  <2> QED BY <1>8, <1>9, <2>1
<1>13. Spaced(m, I)
  <2> SUFFICES ASSUME NEW i \in DOMAIN I, NEW j \in DOMAIN I, NEW x \in Changelog, NEW y \in Changelog,
                      i < j, I[i] = Push(x), I[j] = Push(y)
               PROVE  Apart(m, x, y)
    BY DEF Spaced
  <2>1. x \in Sent(I) /\ y \in Sent(I)
    BY DEF Sent
  <2>2. Apart(l, x, y)
    BY DEF InLine, Spaced
  <2> QED BY <1>8, <1>9, <2>1, <2>2
<1>14. ASSUME NEW x \in Sent(V) PROVE Recent(m, x)
  <2>1. CASE x = z
    <3>1. \A k \in Len(l) + 1 .. Len(m) : m[k][1] = "csw"
      BY <1>3
    <3>2. Len(l) + 1 \in 1 .. Len(m)
      BY <1>3
    <3> QED BY <1>3, <2>1, <3>1, <3>2 DEF Recent
  <2>2. CASE x \in Sent(U)
    <3>1. PICK j \in 1 .. Len(l) : l[j] = x /\ \A k \in j .. Len(l) : l[k][1] = "csw"
      BY <2>2 DEF InLine, Recent
    <3>2. j \in 1 .. Len(m) /\ m[j] = x
      BY <1>3, <3>1
    <3>3. ASSUME NEW k \in j .. Len(m) PROVE m[k][1] = "csw"
      <4>1. CASE k = Len(l) + 1
        BY <1>3, <4>1
      <4>2. CASE k \in 1 .. Len(l)
        <5>1. k \in j .. Len(l) /\ m[k] = l[k]
          BY <1>3, <4>2
        <5>2. l[k][1] = "csw"
          BY <3>1, <5>1
        <5> QED BY <5>1, <5>2
      <4>3. k = Len(l) + 1 \/ k \in 1 .. Len(l)
        BY <1>4, SMTT(30)
      <4> QED BY <4>1, <4>2, <4>3
    <3> QED BY <3>2, <3>3 DEF Recent
  <2> QED BY <1>6, <2>1, <2>2
<1>15. ASSUME NEW i \in DOMAIN V, NEW j \in DOMAIN V, NEW x \in Changelog, V[i] = Push(x), V[j] = Push(x)
       PROVE  i = j
  <2>1. CASE x = z
    <3>1. ASSUME NEW k \in 1 .. Len(U), V[k] = Push(z) PROVE FALSE
      <4>1. U[k] = Push(z)
        BY <1>5, <3>1
      <4>2. z \in Sent(U)
        BY <1>5, <4>1 DEF Sent
      <4> QED BY <1>8, <4>2
    <3> QED BY <1>5, <1>15, <2>1, <3>1
  <2>2. CASE x # z
    <3>1. Push(x) # Push(z)
      BY <2>2, PushIs
    <3>2. i \in 1 .. Len(U) /\ j \in 1 .. Len(U)
      BY <1>5, <1>15, <3>1
    <3>3. U[i] = Push(x) /\ U[j] = Push(x)
      BY <1>5, <1>15, <3>2
    <3> QED BY <1>5, <3>2, <3>3 DEF InLine
  <2> QED BY <2>1, <2>2
<1>16. InLine(m, S, I, V)
  <2>1. ToSet(S) \cup Sent(I) \cup Sent(V) \subseteq ToSet(m)
    BY <1>3, <1>6, <1>8
  <2>2. (ToSet(S) \cup Sent(I)) \cap Sent(V) = {}
    BY <1>6, <1>8 DEF InLine
  <2> QED BY <1>11, <1>12, <1>13, <1>14, <1>15, <2>1, <2>2 DEF InLine
<1>17. All(S, I, V) = All(S, I, U) \cup {z}
  BY <1>6 DEF All
<1> QED BY <1>1, <1>2, <1>16, <1>17

\* A state waits in the turn, which is no changelog.
LEMMA LineReads ==
    ASSUME NEW l, NEW S, NEW I, NEW U \in Seq(Message), NEW a \in StateMsg, InLine(l, S, I, U)
    PROVE  InLine(l, S, I, Append(U, a)) /\ All(S, I, Append(U, a)) = All(S, I, U)
<1>1. PICK V : V = Append(U, a)
  OBVIOUS
<1>2. a \in Message /\ a.kind = "state"
  BY DEF Message, StateMsg
<1>3. Sent(V) = Sent(U)
  BY <1>1, <1>2, SentAppend
<1>4. /\ Len(U) \in Nat /\ DOMAIN U = 1 .. Len(U) /\ DOMAIN V = 1 .. Len(U) + 1
      /\ \A i \in 1 .. Len(U) : V[i] = U[i]
      /\ V[Len(U) + 1] = a
  BY <1>1, <1>2, AppendIs
<1>5. ASSUME NEW i \in DOMAIN V, NEW j \in DOMAIN V, NEW x \in Changelog, V[i] = Push(x), V[j] = Push(x)
      PROVE  i = j
  <2>1. a # Push(x)
    BY <1>2, MessageIs, PushIs
  <2>2. i \in 1 .. Len(U) /\ j \in 1 .. Len(U)
    BY <1>4, <1>5, <2>1
  <2>3. U[i] = Push(x) /\ U[j] = Push(x)
    BY <1>4, <1>5, <2>2
  <2> QED BY <1>4, <2>2, <2>3 DEF InLine
<1>6. InLine(l, S, I, V)
  BY <1>3, <1>5 DEF InLine
<1> QED BY <1>1, <1>3, <1>6 DEF All

\* The turn ends: its changelogs leave, the last one first.
LEMMA LineLeaves ==
    ASSUME NEW l, Numbered(l), NEW S, NEW I \in Seq(Message), NEW U \in Seq(Message), InLine(l, S, I, U)
    PROVE  /\ InLine(l, S, I \o Reverse(U), <<>>)
           /\ All(S, I \o Reverse(U), <<>>) = All(S, I, U)
<1>1. PICK J : J = I \o Reverse(U)
  OBVIOUS
<1>2. Sent(J) = Sent(I) \cup Sent(U)
  BY <1>1, SentReverse
<1>3. Sent(<<>>) = {} /\ DOMAIN <<>> = {}
  BY DEF Sent
<1>4. PICK n \in Nat, m \in Nat :
        LET r == I \o Reverse(U) IN
        /\ r \in Seq(Message)
        /\ DOMAIN I = 1 .. n /\ DOMAIN U = 1 .. m /\ DOMAIN r = 1 .. n + m
        /\ \A i \in 1 .. n : r[i] = I[i]
        /\ \A i \in n + 1 .. n + m :
             n + m - i + 1 \in 1 .. m /\ r[i] = U[n + m - i + 1]
  BY ReverseIs
<1>5. /\ DOMAIN I = 1 .. n /\ DOMAIN U = 1 .. m /\ DOMAIN J = 1 .. n + m
      /\ \A i \in 1 .. n : J[i] = I[i]
      /\ \A i \in n + 1 .. n + m : n + m - i + 1 \in 1 .. m /\ J[i] = U[n + m - i + 1]
  BY <1>1, <1>4
<1>6. ASSUME NEW x \in ToSet(S) \cup Sent(I), NEW y \in Sent(U) PROVE Apart(l, x, y)
  <2>1. x # y /\ Recent(l, y)
    BY DEF InLine
  <2> QED BY <2>1, RecentIsApart
<1>7. ASSUME NEW x \in ToSet(S), NEW y \in Sent(J) PROVE Apart(l, x, y)
  BY <1>2, <1>6 DEF InLine
<1>8. Spaced(l, J)
  <2> SUFFICES ASSUME NEW i \in 1 .. n + m, NEW j \in 1 .. n + m, NEW x \in Changelog, NEW y \in Changelog,
                      i < j, J[i] = Push(x), J[j] = Push(y)
               PROVE  Apart(l, x, y)
    BY <1>5 DEF Spaced
  <2>1. CASE j \in 1 .. n
    <3>1. i \in 1 .. n /\ I[i] = Push(x) /\ I[j] = Push(y)
      BY <1>5, <2>1
    <3> QED BY <1>5, <2>1, <3>1 DEF InLine, Spaced
  <2>2. CASE i \in 1 .. n /\ j \in n + 1 .. n + m
    <3>1. I[i] = Push(x) /\ \E k \in 1 .. m : U[k] = Push(y)
      BY <1>5, <2>2
    <3>2. x \in Sent(I) /\ y \in Sent(U)
      BY <1>5, <2>2, <3>1 DEF Sent
    <3> QED BY <1>6, <3>2
  <2>3. CASE i \in n + 1 .. n + m /\ j \in n + 1 .. n + m
    <3>1. PICK a, b : a = n + m - i + 1 /\ b = n + m - j + 1
      OBVIOUS
    <3>2. a \in 1 .. m /\ b \in 1 .. m /\ a # b
      BY <1>5, <2>3, <3>1
    <3>3. U[a] = Push(x) /\ U[b] = Push(y)
      BY <1>5, <2>3, <3>1
    <3>4. y \in Sent(U) /\ x # y
      BY <1>5, <3>2, <3>3 DEF Sent, InLine
    <3>5. Recent(l, y)
      BY <3>4 DEF InLine
    <3> QED BY <3>4, <3>5, RecentIsApart
  <2> QED BY <2>1, <2>2, <2>3
<1>9. ToSet(S) \cup Sent(J) \cup Sent(<<>>) \subseteq ToSet(l)
  BY <1>2, <1>3 DEF InLine
<1>10. InLine(l, S, J, <<>>)
  <2>1. \A i, j \in DOMAIN S : i < j => Apart(l, S[i], S[j])
    BY DEF InLine
  <2> QED BY <1>3, <1>7, <1>8, <1>9, <2>1 DEF InLine
<1> QED BY <1>1, <1>2, <1>3, <1>10 DEF All

\* Changelog x is relayed to the window's socket, or it misses it.
Relayed(l, S, I, U, x) ==
    /\ InLine(l, Append(S, x), Tail(I), U)
    /\ All(Append(S, x), Tail(I), U) = All(S, I, U)
    /\ S = <<>> => /\ x \in All(S, I, U) /\ x \notin All(S, Tail(I), U)
                   /\ All(S, I, U) = All(S, Tail(I), U) \cup {x}
                   /\ \A y \in Sent(Tail(I)) : Apart(l, x, y)

LEMMA LineRelays ==
    ASSUME NEW l, NEW S \in Seq(Changelog), NEW I \in Seq(Message), I # <<>>, NEW U, InLine(l, S, I, U)
    PROVE  /\ InLine(l, S, Tail(I), U)
           /\ Head(I).kind # "push" => All(S, Tail(I), U) = All(S, I, U)
           /\ \A x \in Changelog : Head(I) = Push(x) => Relayed(l, S, I, U, x)
<1>1. PICK J : J = Tail(I)
  OBVIOUS
<1>2. /\ Len(I) \in Nat /\ Len(I) > 0 /\ Head(I) = I[1] /\ Head(I) \in Message
      /\ DOMAIN I = 1 .. Len(I) /\ DOMAIN J = 1 .. Len(I) - 1
      /\ \A i \in 1 .. Len(I) - 1 : J[i] = I[i + 1]
  BY <1>1, TailIs
<1>3. /\ \A x \in Changelog : Head(I) = Push(x) => Sent(I) = Sent(J) \cup {x}
      /\ Head(I).kind = "state" => Sent(I) = Sent(J)
  BY <1>1, SentTail
<1>4. Sent(J) \subseteq Sent(I)
  BY <1>2, <1>3, MessageIs
<1>5. ASSUME NEW i \in DOMAIN J PROVE i \in Nat /\ i + 1 \in DOMAIN I /\ J[i] = I[i + 1]
  BY <1>2
<1>6. Spaced(l, J)
  <2> SUFFICES ASSUME NEW i \in DOMAIN J, NEW j \in DOMAIN J, NEW x \in Changelog, NEW y \in Changelog,
                      i < j, J[i] = Push(x), J[j] = Push(y)
               PROVE  Apart(l, x, y)
    BY DEF Spaced
  <2>1. i + 1 \in DOMAIN I /\ j + 1 \in DOMAIN I /\ i + 1 < j + 1 /\ I[i + 1] = Push(x) /\ I[j + 1] = Push(y)
    BY <1>5
  <2> QED BY <2>1 DEF InLine, Spaced
<1>7. InLine(l, S, J, U)
  BY <1>4, <1>6 DEF InLine
<1>8. Head(I).kind # "push" => All(S, J, U) = All(S, I, U)
  BY <1>2, <1>3, MessageIs DEF All
<1>9. ASSUME NEW x \in Changelog, Head(I) = Push(x)
      PROVE  /\ InLine(l, Append(S, x), J, U)
             /\ All(Append(S, x), J, U) = All(S, I, U)
             /\ S = <<>> => /\ x \in All(S, I, U) /\ x \notin All(S, J, U)
                            /\ All(S, I, U) = All(S, J, U) \cup {x}
                            /\ \A y \in Sent(J) : Apart(l, x, y)
  <2>1. PICK R : R = Append(S, x)
    OBVIOUS
  <2>2. /\ Len(S) \in Nat /\ DOMAIN S = 1 .. Len(S) /\ DOMAIN R = 1 .. Len(S) + 1
        /\ \A i \in 1 .. Len(S) : R[i] = S[i]
        /\ R[Len(S) + 1] = x /\ ToSet(R) = ToSet(S) \cup {x}
    BY <2>1, AppendIs
  <2>3. Sent(I) = Sent(J) \cup {x}
    BY <1>3, <1>9
  <2>4. ASSUME NEW y \in Sent(J) PROVE Apart(l, x, y)
    <3>1. PICK j \in DOMAIN J : J[j] = Push(y) /\ y \in Changelog
      BY DEF Sent
    <3>2. j + 1 \in DOMAIN I /\ I[j + 1] = Push(y) /\ 1 \in DOMAIN I /\ 1 < j + 1 /\ I[1] = Push(x)
      BY <1>2, <1>5, <1>9, <3>1
    <3> QED BY <3>1, <3>2 DEF InLine, Spaced
  <2>5. \A i, j \in DOMAIN R : i < j => Apart(l, R[i], R[j])
    <3> SUFFICES ASSUME NEW i \in DOMAIN R, NEW j \in DOMAIN R, i < j PROVE Apart(l, R[i], R[j])
      OBVIOUS
    <3>1. i \in 1 .. Len(S) /\ R[i] = S[i] /\ i \in DOMAIN S
      BY <2>2
    <3>2. CASE j = Len(S) + 1
      <4>1. R[i] \in ToSet(S) /\ R[j] = x /\ x \in Sent(I)
        BY <2>2, <2>3, <3>1, <3>2 DEF ToSet
      <4> QED BY <4>1 DEF InLine
    <3>3. CASE j \in 1 .. Len(S)
      <4>1. R[j] = S[j] /\ j \in DOMAIN S
        BY <2>2, <3>3
      <4> QED BY <3>1, <4>1 DEF InLine
    <3> QED BY <2>2, <3>2, <3>3
  <2>6. \A y \in ToSet(R), w \in Sent(J) : Apart(l, y, w)
    BY <1>7, <2>2, <2>4 DEF InLine
  <2>7. InLine(l, R, J, U)
    <3>1. ToSet(R) \cup Sent(J) \cup Sent(U) \subseteq ToSet(l)
      BY <2>2, <2>3 DEF InLine
    <3>2. (ToSet(R) \cup Sent(J)) \cap Sent(U) = {}
      BY <2>2, <2>3 DEF InLine
    <3> QED BY <1>7, <2>5, <2>6, <3>1, <3>2 DEF InLine
  <2>8. All(R, J, U) = All(S, I, U)
    BY <2>2, <2>3 DEF All
  <2>9. ASSUME S = <<>> PROVE x \notin All(S, J, U)
    <3>1. ToSet(S) = {}
      BY <2>9 DEF ToSet
    <3>2. x \notin Sent(J)
      BY <2>4 DEF Apart
    <3>3. x \notin Sent(U)
      BY <2>3 DEF InLine
    <3> QED BY <3>1, <3>2, <3>3 DEF All
  <2> QED BY <2>1, <2>3, <2>4, <2>7, <2>8, <2>9 DEF All
<1>10. \A x \in Changelog : Head(I) = Push(x) => Relayed(l, S, I, U, x)
  BY <1>1, <1>9 DEF Relayed
<1> QED BY <1>1, <1>7, <1>8, <1>10

\* A window takes a changelog from its socket, and all others may come after it.
LEMMA LineTakes ==
    ASSUME NEW l, Numbered(l), NEW S \in Seq(Changelog), S # <<>>, NEW I, NEW U, InLine(l, S, I, U)
    PROVE  /\ InLine(l, Tail(S), I, U) /\ Head(S) \in Changelog
           /\ Head(S) \notin All(Tail(S), I, U) /\ Head(S) \in ToSet(l)
           /\ All(S, I, U) = All(Tail(S), I, U) \cup {Head(S)}
           /\ \A y \in All(Tail(S), I, U) : Apart(l, Head(S), y)
<1>1. PICK R : R = Tail(S)
  OBVIOUS
<1>2. /\ Len(S) \in Nat /\ Len(S) > 0 /\ Head(S) = S[1] /\ Head(S) \in Changelog
      /\ DOMAIN S = 1 .. Len(S) /\ DOMAIN R = 1 .. Len(S) - 1
      /\ \A i \in 1 .. Len(S) - 1 : R[i] = S[i + 1]
      /\ Head(S) \in ToSet(S) /\ ToSet(R) \subseteq ToSet(S) /\ ToSet(S) = {Head(S)} \cup ToSet(R)
  BY <1>1, TailIs
<1>3. ASSUME NEW i \in DOMAIN R PROVE i \in Nat /\ i > 0 /\ i + 1 \in DOMAIN S /\ R[i] = S[i + 1]
  BY <1>2
<1>4. \A i, j \in DOMAIN R : i < j => Apart(l, R[i], R[j])
  <2> SUFFICES ASSUME NEW i \in DOMAIN R, NEW j \in DOMAIN R, i < j PROVE Apart(l, R[i], R[j])
    OBVIOUS
  <2>1. i + 1 \in DOMAIN S /\ j + 1 \in DOMAIN S /\ i + 1 < j + 1 /\ R[i] = S[i + 1] /\ R[j] = S[j + 1]
    BY <1>3
  <2> QED BY <2>1 DEF InLine
<1>5. InLine(l, R, I, U)
  BY <1>2, <1>4 DEF InLine
<1>6. ASSUME NEW y \in All(R, I, U) PROVE Apart(l, Head(S), y)
  <2>1. CASE y \in ToSet(R)
    <3>1. PICK i \in DOMAIN R : R[i] = y
      BY <2>1 DEF ToSet
    <3>2. i + 1 \in DOMAIN S /\ S[i + 1] = y /\ 1 \in DOMAIN S /\ 1 < i + 1
      BY <1>2, <1>3, <3>1
    <3> QED BY <1>2, <3>2 DEF InLine
  <2>2. CASE y \in Sent(I)
    BY <1>2, <2>2 DEF InLine
  <2>3. CASE y \in Sent(U)
    <3>1. Head(S) # y /\ Recent(l, y)
      BY <1>2, <2>3 DEF InLine
    <3> QED BY <3>1, RecentIsApart
  <2> QED BY <2>1, <2>2, <2>3 DEF All
<1>7. Head(S) \notin All(R, I, U)
  BY <1>6 DEF Apart
<1>8. Head(S) \in ToSet(l)
  BY <1>2 DEF InLine
<1>9. All(S, I, U) = All(R, I, U) \cup {Head(S)}
  BY <1>2 DEF All
<1> QED BY <1>1, <1>2, <1>5, <1>6, <1>7, <1>8, <1>9

-----------------------------------------------------------------------------
(* A window that follows.                                                  *)

\* The window shows the beginning sh of the log, its numbers nx go on from there, and what
\* it does not show is in C, on its way, or pending: of the csworker's own, with nothing
\* else between what is shown and it.
InSync(l, C, sh, nx, p) ==
    /\ sh \in Seq(Changelog) /\ IsPrefix(sh, l)
    /\ \A s \in Stream : nx[s] = Count(s, sh) + 1
    /\ p["asw"] = <<>>
    /\ \A j \in Len(sh) + 1 .. Len(l) :
          l[j] \in C \/ (l[j][1] = "csw" /\ l[j][2] \in ToSet(p["csw"]))
    /\ \A n \in ToSet(p["csw"]) :
          /\ n > nx["csw"]
          /\ \A j \in 1 .. Len(l) : l[j] = <<"csw", n>> => \A i \in Len(sh) + 1 .. j : l[i][1] = "csw"

\* The numbers of a window, and where its next changelog is.
LEMMA SyncNumbers ==
    ASSUME NEW l, Numbered(l), NEW C, NEW sh, NEW nx, NEW p, InSync(l, C, sh, nx, p)
    PROVE  /\ Len(sh) \in 0 .. Len(l) /\ Len(l) \in Nat
           /\ \A i \in 1 .. Len(sh) : sh[i] = l[i]
           /\ \A s \in Stream : nx[s] = Num(l, s, Len(sh)) + 1 /\ nx[s] \in Nat
           /\ \A j \in 1 .. Len(l) : /\ l[j][1] \in Stream /\ l[j][2] \in Nat
                                     /\ j > Len(sh) <=> l[j][2] >= nx[l[j][1]]
                                     /\ j = Len(sh) + 1 => l[j][2] = nx[l[j][1]]
<1>1. /\ l \in Seq(Changelog) /\ Len(l) \in Nat
      /\ \A j \in 1 .. Len(l) : l[j][1] \in Stream /\ l[j][2] \in Nat
  BY LogTypes DEF Numbered
<1>2. sh \in Seq(Changelog) /\ IsPrefix(sh, l)
  BY DEF InSync
<1>3. /\ Len(sh) \in 0 .. Len(l) /\ \A i \in 1 .. Len(sh) : sh[i] = l[i]
      /\ \A s \in Stream : Count(s, sh) = Num(l, s, Len(sh))
  BY <1>1, <1>2, CountOfBeginning
<1>4. ASSUME NEW s \in Stream PROVE nx[s] = Num(l, s, Len(sh)) + 1 /\ nx[s] \in Nat
  <2>1. Num(l, s, Len(sh)) \in Nat
    BY <1>3, NumFacts
  <2>2. nx[s] = Num(l, s, Len(sh)) + 1
    BY <1>3 DEF InSync
  <2> QED BY <2>1, <2>2
<1>5. ASSUME NEW j \in 1 .. Len(l)
      PROVE  /\ j > Len(sh) <=> l[j][2] >= nx[l[j][1]]
             /\ j = Len(sh) + 1 => l[j][2] = nx[l[j][1]]
  <2>1. PICK s \in Stream : s = l[j][1]
    BY <1>1
  <2>2. /\ j > Len(sh) <=> l[j][2] > Num(l, s, Len(sh))
        /\ j = Len(sh) + 1 => l[j][2] = Num(l, s, Len(sh)) + 1
    BY <1>3, <2>1, NumbersGoOn
  <2>3. Num(l, s, Len(sh)) \in Nat /\ l[j][2] \in Nat
    BY <1>1, <1>3, NumFacts
  <2>4. nx[s] = Num(l, s, Len(sh)) + 1
    BY <1>4
  <2> QED BY <2>1, <2>2, <2>3, <2>4
<1> QED BY <1>1, <1>3, <1>4, <1>5

\* What comes first of a window's changelogs is not shown yet, and all before it in the
\* log is of the csworker's own, or it is the next of the log.
LEMMA FirstOfMany ==
    ASSUME NEW l, Numbered(l), NEW C, NEW sh, NEW nx, NEW p, InSync(l, C, sh, nx, p),
           NEW x, \A y \in C : y = x \/ Apart(l, x, y),
           NEW j \in 1 .. Len(l), l[j] = x, j > Len(sh)
    PROVE  j = Len(sh) + 1 \/ \A i \in Len(sh) + 1 .. j : l[i][1] = "csw"
<1> DEFINE k == Len(sh) + 1
<1>1. /\ Len(sh) \in 0 .. Len(l) /\ Len(l) \in Nat
      /\ k \in 1 .. Len(l) /\ l[k][1] \in Stream /\ l[k][2] = nx[l[k][1]] /\ nx[l[k][1]] \in Nat
  <2>1. /\ Len(sh) \in 0 .. Len(l) /\ Len(l) \in Nat
        /\ \A s \in Stream : nx[s] \in Nat
        /\ \A i \in 1 .. Len(l) : l[i][1] \in Stream /\ (i = Len(sh) + 1 => l[i][2] = nx[l[i][1]])
    BY SyncNumbers
  <2>2. k \in 1 .. Len(l)
    BY <2>1
  <2> QED BY <2>1, <2>2
<1>2. SUFFICES ASSUME j # k PROVE \A i \in k .. j : l[i][1] = "csw"
  OBVIOUS
<1>3. k < j
  BY <1>1, <1>2
<1>4. l[k] \in C \/ (l[k][1] = "csw" /\ l[k][2] \in ToSet(p["csw"]))
  BY <1>1 DEF InSync
<1>5. CASE l[k] \in C
  <2>1. l[k] # x
    BY <1>1, <1>2, OnceEach
  <2>2. Apart(l, x, l[k])
    BY <1>5, <2>1
  <2> QED BY <1>1, <1>3, <2>2 DEF Apart
<1>6. CASE l[k][1] = "csw" /\ l[k][2] \in ToSet(p["csw"])
  <2>1. l[k][2] > nx["csw"]
    BY <1>6 DEF InSync
  <2> QED BY <1>1, <1>6, <2>1
<1> QED BY <1>4, <1>5, <1>6

\* A window with an empty canvas is sent the log's first changelog first.
LEMMA FirstIsMetamodel ==
    ASSUME NEW l, Numbered(l), NEW C, NEW sh, NEW nx, NEW p, InSync(l, C, sh, nx, p), sh = <<>>,
           NEW x \in ToSet(l), \A y \in C : y = x \/ Apart(l, x, y)
    PROVE  x = <<"asw", 1>> /\ x = l[1] /\ l # <<>>
<1>1. l \in Seq(Changelog) /\ Len(l) \in Nat
  BY LogTypes DEF Numbered
<1>2. PICK j \in 1 .. Len(l) : l[j] = x
  BY <1>1, LogTypes
<1>3. Len(sh) = 0
  OBVIOUS
<1>4. l # <<>> /\ 1 \in 1 .. Len(l)
  BY <1>1, <1>2, LogTypes
<1>5. l[1] = <<"asw", 1>>
  BY <1>4 DEF Numbered
<1>6. j = 1 \/ \A i \in 1 .. j : l[i][1] = "csw"
  <2>1. j > Len(sh) /\ Len(sh) + 1 = 1
    BY <1>2, <1>3
  <2>2. j = Len(sh) + 1 \/ \A i \in Len(sh) + 1 .. j : l[i][1] = "csw"
    BY <1>2, <2>1, FirstOfMany
  <2> QED BY <2>1, <2>2
<1>7. j = 1
  <2>1. 1 \in 1 .. j
    BY <1>1, <1>2
  <2>2. l[1][1] # "csw"
    BY <1>5
  <2> QED BY <1>6, <2>1, <2>2
<1> QED BY <1>2, <1>4, <1>5, <1>7

\* A changelog above the next number: it is kept, one of the csworker's own.
LEMMA SyncPostpones ==
    ASSUME NEW l, Numbered(l), NEW C, NEW sh, NEW nx, NEW p \in [Stream -> Seq(Nat)],
           NEW x \in Changelog, x \in ToSet(l), x \notin C,
           InSync(l, C \cup {x}, sh, nx, p), \A y \in C : Apart(l, x, y),
           x[2] > nx[x[1]]
    PROVE  /\ x[1] = "csw"
           /\ InSync(l, C, sh, nx, [p EXCEPT !["csw"] = Later(p["csw"], x[2])])
<1>1. /\ l \in Seq(Changelog) /\ Len(l) \in Nat
      /\ Len(sh) \in 0 .. Len(l)
      /\ \A s \in Stream : nx[s] \in Nat
      /\ \A i \in 1 .. Len(l) : /\ l[i][1] \in Stream /\ l[i][2] \in Nat
                                /\ i > Len(sh) <=> l[i][2] >= nx[l[i][1]]
                                /\ i = Len(sh) + 1 => l[i][2] = nx[l[i][1]]
  BY SyncNumbers DEF Numbered
<1>2. PICK j \in 1 .. Len(l) : l[j] = x
  BY <1>1, LogTypes
<1>3. x[1] \in Stream /\ x[2] \in Nat /\ x = <<x[1], x[2]>>
  BY <1>1, <1>2, LogTypes
<1>4. j > Len(sh) /\ j # Len(sh) + 1
  BY <1>1, <1>2, <1>3
<1>5. \A y \in C \cup {x} : y = x \/ Apart(l, x, y)
  OBVIOUS
<1>6. \A i \in Len(sh) + 1 .. j : l[i][1] = "csw"
  <2>1. PICK D : D = C \cup {x}
    OBVIOUS
  <2>2. InSync(l, D, sh, nx, p) /\ \A y \in D : y = x \/ Apart(l, x, y)
    BY <1>5, <2>1
  <2>3. j = Len(sh) + 1 \/ \A i \in Len(sh) + 1 .. j : l[i][1] = "csw"
    BY <1>2, <1>4, <2>2, FirstOfMany, SMTT(10), ZenonT(30)
  <2> QED BY <1>4, <2>3
<1>7. x[1] = "csw"
  <2>1. j \in Len(sh) + 1 .. j
    BY <1>1, <1>4
  <2> QED BY <1>2, <1>6, <2>1
<1>8. p["csw"] \in Seq(Nat) /\ p["asw"] \in Seq(Nat)
  BY DEF Stream
<1>9. PICK q : q = [p EXCEPT !["csw"] = Later(p["csw"], x[2])]
  OBVIOUS
<1>10. q["csw"] = Later(p["csw"], x[2]) /\ q["asw"] = p["asw"]
  BY <1>9 DEF Stream
<1>11. ToSet(q["csw"]) = ToSet(p["csw"]) \cup {x[2]}
  BY <1>3, <1>8, <1>10, LaterIs
<1>12. ASSUME NEW i \in Len(sh) + 1 .. Len(l)
       PROVE  l[i] \in C \/ (l[i][1] = "csw" /\ l[i][2] \in ToSet(q["csw"]))
  <2>1. l[i] \in C \cup {x} \/ (l[i][1] = "csw" /\ l[i][2] \in ToSet(p["csw"]))
    BY DEF InSync
  <2> QED BY <1>7, <1>11, <2>1
<1>13. ASSUME NEW n \in ToSet(q["csw"])
       PROVE  /\ n > nx["csw"]
              /\ \A i \in 1 .. Len(l) : l[i] = <<"csw", n>> => \A k \in Len(sh) + 1 .. i : l[k][1] = "csw"
  <2>1. CASE n \in ToSet(p["csw"])
    BY <2>1 DEF InSync
  <2>2. CASE n = x[2]
    <3>1. ASSUME NEW i \in 1 .. Len(l), l[i] = <<"csw", n>> PROVE i = j
      BY <1>2, <1>3, <1>7, <2>2, <3>1, OnceEach
    <3> QED BY <1>6, <1>7, <2>2, <3>1
  <2> QED BY <1>11, <2>1, <2>2
<1>14. InSync(l, C, sh, nx, q)
  BY <1>10, <1>12, <1>13 DEF InSync
<1> QED BY <1>7, <1>9, <1>14

\* A changelog below the next number is shown already.
LEMMA SyncRefuses ==
    ASSUME NEW l, Numbered(l), NEW C, NEW sh, NEW nx, NEW p,
           NEW x, InSync(l, C \cup {x}, sh, nx, p), x[2] < nx[x[1]]
    PROVE  InSync(l, C, sh, nx, p)
<1>1. /\ Len(sh) \in 0 .. Len(l) /\ Len(l) \in Nat
      /\ \A s \in Stream : nx[s] \in Nat
      /\ \A i \in 1 .. Len(l) : /\ l[i][1] \in Stream /\ l[i][2] \in Nat
                                /\ i > Len(sh) <=> l[i][2] >= nx[l[i][1]]
  BY SyncNumbers
<1>2. ASSUME NEW j \in Len(sh) + 1 .. Len(l)
      PROVE  l[j] \in C \/ (l[j][1] = "csw" /\ l[j][2] \in ToSet(p["csw"]))
  <2>1. l[j] \in C \cup {x} \/ (l[j][1] = "csw" /\ l[j][2] \in ToSet(p["csw"]))
    BY DEF InSync
  <2>2. l[j] # x
    <3>1. j \in 1 .. Len(l) /\ j > Len(sh)
      BY <1>1
    <3>2. l[j][2] >= nx[l[j][1]] /\ l[j][2] \in Nat /\ nx[l[j][1]] \in Nat
      BY <1>1, <3>1
    <3>3. ~ (l[j][2] < nx[l[j][1]])
      BY <3>2
    <3> QED BY <3>3
  <2> QED BY <2>1, <2>2
<1> QED BY <1>2 DEF InSync

\* A new changelog of the csworker is on its way.
LEMMA SyncGrows ==
    ASSUME NEW l, Numbered(l), NEW z \in Changelog, z \notin ToSet(l),
           NEW C, NEW sh, NEW nx, NEW p, InSync(l, C, sh, nx, p),
           \A n \in ToSet(p["csw"]) : <<"csw", n>> \in ToSet(l)
    PROVE  InSync(Append(l, z), C \cup {z}, sh, nx, p)
<1>1. PICK m : m = Append(l, z)
  OBVIOUS
<1>2. /\ l \in Seq(Changelog) /\ m \in Seq(Changelog)
      /\ Len(l) \in Nat /\ Len(m) = Len(l) + 1 /\ m[Len(l) + 1] = z
      /\ \A i \in 1 .. Len(l) : m[i] = l[i]
  BY <1>1, AppendIs DEF Numbered
<1>3. Len(sh) \in 0 .. Len(l) /\ \A i \in 1 .. Len(sh) : sh[i] = l[i]
  BY SyncNumbers
<1>4. sh \in Seq(Changelog) /\ IsPrefix(sh, m)
  <2>1. sh \in Seq(Changelog)
    BY DEF InSync
  <2>2. Len(sh) <= Len(m) /\ \A i \in 1 .. Len(sh) : sh[i] = m[i]
    BY <1>2, <1>3
  <2> QED BY <1>2, <2>1, <2>2, BeginningIs
<1>5. ASSUME NEW j \in Len(sh) + 1 .. Len(m)
      PROVE  m[j] \in C \cup {z} \/ (m[j][1] = "csw" /\ m[j][2] \in ToSet(p["csw"]))
  <2>1. CASE j = Len(l) + 1
    BY <1>2, <2>1
  <2>2. CASE j \in Len(sh) + 1 .. Len(l)
    <3>1. m[j] = l[j]
      BY <1>2, <1>3, <2>2
    <3>2. l[j] \in C \/ (l[j][1] = "csw" /\ l[j][2] \in ToSet(p["csw"]))
      BY <2>2 DEF InSync
    <3> QED BY <3>1, <3>2
  <2> QED BY <1>2, <1>3, <2>1, <2>2
<1>6. ASSUME NEW n \in ToSet(p["csw"])
      PROVE  /\ n > nx["csw"]
             /\ \A j \in 1 .. Len(m) : m[j] = <<"csw", n>> => \A i \in Len(sh) + 1 .. j : m[i][1] = "csw"
  <2>1. n > nx["csw"]
    BY DEF InSync
  <2>2. ASSUME NEW j \in 1 .. Len(m), m[j] = <<"csw", n>>, NEW i \in Len(sh) + 1 .. j PROVE m[i][1] = "csw"
    <3>1. j # Len(l) + 1
      BY <1>2, <2>2
    <3>2. j \in 1 .. Len(l) /\ i \in 1 .. Len(l) /\ l[j] = <<"csw", n>> /\ m[i] = l[i]
      BY <1>2, <1>3, <2>2, <3>1
    <3>3. l[i][1] = "csw"
      BY <2>2, <3>2 DEF InSync
    <3> QED BY <3>2, <3>3
  <2> QED BY <2>1, <2>2
<1>7. InSync(m, C \cup {z}, sh, nx, p)
  <2>1. (\A s \in Stream : nx[s] = Count(s, sh) + 1) /\ p["asw"] = <<>>
    BY DEF InSync
  <2> QED BY <1>4, <1>5, <1>6, <2>1 DEF InSync
<1> QED BY <1>1, <1>7

\* The d changelogs after the first a are of stream s.
Run(l, s, a, d) == \A i \in a + 1 .. a + d : l[i][1] = s

\* In such a run the stream's count goes on by one each.
LEMMA RunOfOne ==
    ASSUME NEW l, NEW s, NEW a \in Nat, NEW d \in Nat, Run(l, s, a, d)
    PROVE  \A k \in 0 .. d : Num(l, s, a + k) = Num(l, s, a) + k
<1> DEFINE P == {k \in Nat : k <= d => Num(l, s, a + k) = Num(l, s, a) + k}
<1>1. 0 \in P
  <2>1. a + 0 = a /\ Num(l, s, a) \in Nat
    BY NumFacts
  <2> QED BY <2>1
<1>2. ASSUME NEW k \in Nat, k \in P PROVE k + 1 \in P
  <2>1. SUFFICES ASSUME k + 1 <= d PROVE Num(l, s, a + (k + 1)) = Num(l, s, a) + (k + 1)
    OBVIOUS
  <2>2. Num(l, s, a + k) = Num(l, s, a) + k
    BY <1>2, <2>1
  <2>3. PICK b \in Nat : b = a + k
    OBVIOUS
  <2>4. a + (k + 1) = b + 1 /\ b + 1 \in a + 1 .. a + d
    BY <2>1, <2>3
  <2>5. l[b + 1][1] = s
    BY <2>4 DEF Run
  <2>6. Num(l, s, b + 1) = Num(l, s, b) + 1 /\ Num(l, s, a) \in Nat
    BY <2>5, NumFacts
  <2> QED BY <2>2, <2>3, <2>4, <2>6
<1> HIDE DEF P
<1>3. Nat \subseteq P
  BY <1>1, <1>2, NatSetInduction
<1>4. ASSUME NEW k \in 0 .. d PROVE Num(l, s, a + k) = Num(l, s, a) + k
  <2>1. k \in P /\ k <= d
    BY <1>3
  <2> QED BY <2>1 DEF P
<1> QED BY <1>4

\* The other stream's count stands.
Stands(l, t, a, d) == \A k \in 0 .. d : Num(l, t, a + k) = Num(l, t, a)

LEMMA RunOfOther ==
    ASSUME NEW l, NEW s, NEW a \in Nat, NEW d \in Nat, Run(l, s, a, d), NEW t, t # s
    PROVE  Stands(l, t, a, d)
<1> DEFINE P == {k \in Nat : k <= d => Num(l, t, a + k) = Num(l, t, a)}
<1>1. 0 \in P
  <2>1. a + 0 = a
    OBVIOUS
  <2> QED BY <2>1
<1>2. ASSUME NEW k \in Nat, k \in P PROVE k + 1 \in P
  <2>1. SUFFICES ASSUME k + 1 <= d PROVE Num(l, t, a + (k + 1)) = Num(l, t, a)
    OBVIOUS
  <2>2. Num(l, t, a + k) = Num(l, t, a)
    BY <1>2, <2>1
  <2>3. PICK b \in Nat : b = a + k
    OBVIOUS
  <2>4. a + (k + 1) = b + 1 /\ b + 1 \in a + 1 .. a + d
    BY <2>1, <2>3
  <2>5. l[b + 1][1] # t
    BY <2>4 DEF Run
  <2>6. Num(l, t, b + 1) = Num(l, t, b)
    BY <2>5, NumFacts
  <2> QED BY <2>2, <2>3, <2>4, <2>6
<1> HIDE DEF P
<1>3. Nat \subseteq P
  BY <1>1, <1>2, NatSetInduction
<1>4. ASSUME NEW k \in 0 .. d PROVE Num(l, t, a + k) = Num(l, t, a)
  <2>1. k \in P /\ k <= d
    BY <1>3
  <2> QED BY <2>1 DEF P
<1> QED BY <1>4 DEF Stands

\* The changelog <<s, n>> is the next for a window, and others may come after it.
IsDue(l, C, sh, nx, p, s, n) ==
    /\ <<s, n>> \in ToSet(l) /\ n = nx[s]
    /\ InSync(l, C \cup {<<s, n>>}, sh, nx, p)
    /\ \A y \in C : Apart(l, <<s, n>>, y)
    /\ \A m \in ToSet(p["csw"]) : <<"csw", m>> \in ToSet(l)
    /\ Sorted(p["csw"])

\* It and the k that follow it in its stream are the next of the log.
NextAre(l, sh, s, n, k) ==
    /\ k \in Nat
    /\ s = "asw" => k = 0
    /\ Len(sh) + k + 1 <= Len(l)
    /\ \A i \in 0 .. k : l[Len(sh) + 1 + i] = <<s, n + i>>

\* It is handled, with the k pending ones that follow it: the window comes to show h, its
\* numbers are ny, and q is pending.
Handles(sh, nx, p, s, n, k, h, ny, q) ==
    /\ k = Ready(p[s], n)
    /\ h = sh \o [i \in 1 .. (k + 1) |-> <<s, n + i - 1>>]
    /\ \A t \in Stream : ny[t] = IF t = s THEN n + k + 1 ELSE nx[t]
    /\ \A t \in Stream : q[t] = IF t = s THEN SubSeq(p[s], k + 1, Len(p[s])) ELSE p[t]

\* The changelog that is next, with the pending ones that follow it: they are the next of
\* the log.
LEMMA NextOfLog ==
    ASSUME NEW l, Numbered(l), NEW C, NEW sh, NEW nx, NEW p \in [Stream -> Seq(Nat)],
           NEW s \in Stream, NEW n \in Nat, IsDue(l, C, sh, nx, p, s, n)
    PROVE  NextAre(l, sh, s, n, Ready(p[s], n))
<1>k. PICK k : k = Ready(p[s], n)
  OBVIOUS
<1>G. SUFFICES /\ k \in Nat
               /\ s = "asw" => k = 0
               /\ Len(sh) + k + 1 <= Len(l)
               /\ \A i \in 0 .. k : l[Len(sh) + 1 + i] = <<s, n + i>>
  BY <1>k DEF NextAre
<1>x. PICK x : x = <<s, n>>
  OBVIOUS
<1>D. PICK D : D = C \cup {x}
  OBVIOUS
<1>S. InSync(l, D, sh, nx, p) /\ x \in ToSet(l) /\ n = nx[s] /\ \A y \in C : Apart(l, x, y)
  BY <1>x, <1>D DEF IsDue
<1>I. /\ p["asw"] = <<>> /\ sh \in Seq(Changelog)
      /\ \A i \in Len(sh) + 1 .. Len(l) : l[i] \in D \/ (l[i][1] = "csw" /\ l[i][2] \in ToSet(p["csw"]))
      /\ \A m \in ToSet(p["csw"]) :
            /\ m > nx["csw"]
            /\ \A i \in 1 .. Len(l) : l[i] = <<"csw", m>> => \A e \in Len(sh) + 1 .. i : l[e][1] = "csw"
  BY <1>S DEF InSync
<1>J. Sorted(p["csw"]) /\ \A m \in ToSet(p["csw"]) : <<"csw", m>> \in ToSet(l)
  BY DEF IsDue
<1>1. /\ l \in Seq(Changelog) /\ Len(l) \in Nat /\ Len(sh) \in 0 .. Len(l)
      /\ \A t \in Stream : nx[t] = Num(l, t, Len(sh)) + 1
      /\ \A j \in 1 .. Len(l) : /\ l[j][1] \in Stream /\ l[j][2] \in Nat
                                /\ j > Len(sh) <=> l[j][2] >= nx[l[j][1]]
                                /\ j = Len(sh) + 1 => l[j][2] = nx[l[j][1]]
  BY <1>S, SyncNumbers DEF Numbered
<1>2. PICK a \in Nat : a = Len(sh)
  BY <1>1
<1>3. p[s] \in Seq(Nat)
  OBVIOUS
<1>4. k \in 0 .. Len(p[s]) /\ \A i \in 1 .. k : p[s][i] = n + i
  BY <1>3, <1>k, ReadyIs
<1>5. PICK j \in 1 .. Len(l) : l[j] = x
  BY <1>1, <1>S, LogTypes
<1>6. j > a
  <2>1. l[j][1] = s /\ l[j][2] = n
    BY <1>x, <1>5
  <2>2. l[j][2] >= nx[l[j][1]]
    BY <1>S, <2>1
  <2> QED BY <1>1, <1>2, <2>2
<1>7. j = a + 1
  <2>1. (\A y \in D : y = x \/ Apart(l, x, y)) /\ l[j] = x
    BY <1>S, <1>D, <1>5
  <2>2. j = Len(sh) + 1 \/ \A i \in Len(sh) + 1 .. j : l[i][1] = "csw"
    <3>1. j > Len(sh)
      BY <1>2, <1>6
    <3> QED BY <1>S, <2>1, <3>1, FirstOfMany
  <2>3. SUFFICES ASSUME \A i \in a + 1 .. j : l[i][1] = "csw" PROVE j = a + 1
    BY <1>2, <2>2
  <2>4. a + 1 \in 1 .. Len(l) /\ a + 1 \in a + 1 .. j /\ j \in a + 1 .. j
    BY <1>1, <1>2, <1>6
  <2>5. l[a + 1][1] = "csw" /\ s = "csw"
    BY <1>x, <1>5, <2>3, <2>4
  <2>6. l[a + 1][2] = n
    BY <1>1, <1>2, <1>S, <2>4, <2>5
  <2>7. l[a + 1] = <<"csw", n>>
    BY <1>1, <2>4, <2>5, <2>6, LogTypes
  <2> QED BY <1>x, <1>5, <2>4, <2>5, <2>7, OnceEach
<1>8. CASE k = 0
  <2>1. Len(sh) + 1 + 0 = a + 1 /\ n + 0 = n /\ Len(sh) + k + 1 = a + 1
    BY <1>2, <1>8
  <2>2. ASSUME NEW i \in 0 .. k PROVE l[Len(sh) + 1 + i] = <<s, n + i>>
    <3>1. i = 0
      BY <1>8
    <3> QED BY <1>x, <1>5, <1>7, <2>1, <3>1
  <2> QED BY <1>1, <1>7, <1>8, <2>1, <2>2
<1>9. CASE k # 0
  <2>1. k \in Nat /\ k > 0 /\ Len(p[s]) \in Nat /\ Len(p[s]) > 0 /\ k \in DOMAIN p[s]
    BY <1>3, <1>4, <1>9, LenProperties
  <2>2. s = "csw"
    <3>1. p["asw"] = <<>>
      BY <1>I
    <3>2. p[s] # <<>>
      BY <2>1
    <3> QED BY <3>1, <3>2 DEF Stream
  <2>3. n + k \in ToSet(p["csw"])
    <3>1. p[s][k] = n + k
      <4>1. k \in 1 .. k
        BY <2>1
      <4> QED BY <1>4, <4>1
    <3> QED BY <2>1, <2>2, <3>1 DEF ToSet
  <2>4. <<"csw", n + k>> \in ToSet(l)
    BY <1>J, <2>3
  <2>5. PICK b \in 1 .. Len(l) : l[b] = <<"csw", n + k>>
    <3>1. PICK y : y = <<"csw", n + k>>
      OBVIOUS
    <3>2. y \in ToSet(l)
      BY <2>4, <3>1
    <3>3. \E e \in 1 .. Len(l) : l[e] = y
      BY <1>1, <3>2, LogTypes
    <3> QED BY <3>1, <3>3
  <2>6. \A i \in a + 1 .. b : l[i][1] = "csw"
    BY <1>2, <1>I, <2>3, <2>5
  <2>7. b > a
    <3>1. n + k >= nx["csw"]
      <4>1. nx["csw"] = n
        BY <1>S, <2>2
      <4> QED BY <2>1, <4>1
    <3>2. l[b][1] = "csw" /\ l[b][2] = n + k
      BY <2>5
    <3> QED BY <1>1, <1>2, <3>1, <3>2
  <2>8. PICK d \in Nat : a + d = b
    <3>1. b - a \in Nat /\ a + (b - a) = b
      BY <2>7
    <3> QED BY <3>1
  <2>9. /\ Num(l, "csw", a) \in Nat /\ n = Num(l, "csw", a) + 1
        /\ \A i \in 0 .. d : Num(l, "csw", a + i) = Num(l, "csw", a) + i
    <3>1. \A i \in a + 1 .. a + d : l[i][1] = "csw"
      BY <2>6, <2>8
    <3>2. n = Num(l, "csw", a) + 1
      BY <1>1, <1>2, <1>S, <2>2 DEF Stream
    <3>3. \A i \in 0 .. d : Num(l, "csw", a + i) = Num(l, "csw", a) + i
      <4>1. a \in Nat /\ d \in Nat
        BY <1>2, <2>8
      <4>2. Run(l, "csw", a, d)
        BY <3>1 DEF Run
      <4>3. "csw" \in Stream
        BY DEF Stream
      <4> QED BY <4>1, <4>2, <4>3, RunOfOne
    <3>4. Num(l, "csw", a) \in Nat
      BY NumFacts
    <3> QED BY <3>2, <3>3, <3>4
  <2>10. ASSUME NEW i \in 1 .. d PROVE l[a + i] = <<"csw", n + i - 1>>
    <3>1. a + i \in a + 1 .. b /\ a + i \in 1 .. Len(l) /\ i \in 0 .. d
      BY <1>1, <1>2, <2>8
    <3>2. PICK j1 \in 1 .. Len(l) : j1 = a + i
      BY <3>1
    <3>3. l[j1][1] = "csw"
      BY <2>6, <3>1, <3>2
    <3>4. l[j1] = <<"csw", Num(l, "csw", j1)>>
      <4>1. j1 \in DOMAIN l
        BY <1>1, LogTypes
      <4>2. l[j1] = <<l[j1][1], Num(l, l[j1][1], j1)>>
        BY <4>1 DEF Numbered
      <4> QED BY <3>3, <4>2
    <3>5. Num(l, "csw", j1) = Num(l, "csw", a) + i
      BY <2>9, <3>1, <3>2
    <3>6. Num(l, "csw", j1) = n + i - 1
      BY <2>9, <3>5
    <3> QED BY <3>2, <3>4, <3>6
  <2>11. d = k + 1
    <3>1. d \in 1 .. d
      BY <2>7, <2>8
    <3>2. l[a + d] = <<"csw", n + d - 1>>
      BY <2>10, <3>1
    <3>3. n + d - 1 = n + k
      BY <2>5, <2>8, <3>2
    <3>4. d \in Nat /\ n \in Nat /\ k \in Nat
      BY <2>1
    <3> QED BY <3>3, <3>4
  <2>12. ASSUME NEW i \in 0 .. k PROVE l[Len(sh) + 1 + i] = <<s, n + i>>
    <3>1. PICK e : e = i + 1
      OBVIOUS
    <3>2. e \in 1 .. d /\ a + e = Len(sh) + 1 + i /\ n + e - 1 = n + i
      BY <1>2, <2>1, <2>11, <3>1
    <3>3. l[a + e] = <<"csw", n + e - 1>>
      BY <2>10, <3>2
    <3> QED BY <2>2, <3>2, <3>3
  <2>13. Len(sh) + k + 1 <= Len(l)
    BY <1>1, <1>2, <2>1, <2>8, <2>11
  <2> QED BY <2>1, <2>2, <2>12, <2>13
<1> QED BY <1>8, <1>9

\* The canvas sh shows k + 1 changelogs of a stream more, from n on: it is h.
Extended(sh, s, n, k, h) ==
    /\ h \in Seq(Changelog) /\ h # <<>> /\ Len(h) = Len(sh) + (k + 1)
    /\ \A i \in 1 .. Len(sh) : h[i] = sh[i]
    /\ \A e \in 1 .. (k + 1) : h[Len(sh) + e] = <<s, n + e - 1>>

\* What a window shows when k changelogs that were pending have followed one.
LEMMA HandledIs ==
    ASSUME NEW sh \in Seq(Changelog), NEW s, NEW n \in Nat, NEW k \in Nat,
           \A i \in 1 .. (k + 1) : <<s, n + i - 1>> \in Changelog,
           NEW h, h = sh \o [i \in 1 .. (k + 1) |-> <<s, n + i - 1>>]
    PROVE  Extended(sh, s, n, k, h)
<1>1. PICK w \in Nat : w = k + 1
  OBVIOUS
<1>2. PICK f : f = [i \in Nat |-> <<s, n + i - 1>>]
  OBVIOUS
<1>3. PICK r : r = [i \in 1 .. w |-> f[i]]
  OBVIOUS
<1>a. \A i \in 1 .. w : f[i] = <<s, n + i - 1>>
  BY <1>2
<1>b. \A i \in 1 .. w : f[i] \in Changelog
  BY <1>1, <1>a
<1>c. r = [i \in 1 .. w |-> <<s, n + i - 1>>]
  BY <1>3, <1>a
<1>4. r = [i \in 1 .. (k + 1) |-> <<s, n + i - 1>>]
  BY <1>1, <1>c
<1>5. r \in Seq(Changelog) /\ Len(r) = w
  BY <1>3, <1>b, SequenceIs
<1>6. h = sh \o r
  BY <1>4
<1>7. /\ h \in Seq(Changelog) /\ Len(h) = Len(sh) + w /\ Len(sh) \in Nat
      /\ \A i \in 1 .. Len(sh) + w : h[i] = IF i <= Len(sh) THEN sh[i] ELSE r[i - Len(sh)]
  <2>1. /\ sh \o r \in Seq(Changelog) /\ Len(sh \o r) = Len(sh) + Len(r)
        /\ \A i \in 1 .. Len(sh) + Len(r) : (sh \o r)[i] = IF i <= Len(sh) THEN sh[i] ELSE r[i - Len(sh)]
    BY <1>5, ConcatProperties
  <2>2. Len(sh) \in Nat
    BY LenProperties
  <2> QED BY <1>5, <1>6, <2>1, <2>2
<1>8. h # <<>>
  <2>1. Len(h) # 0
    BY <1>1, <1>7
  <2> QED BY <1>7, <2>1, EmptySeq
<1>9. PICK m \in Nat : m = Len(sh)
  BY <1>7
<1>10. ASSUME NEW i \in 1 .. m PROVE h[i] = sh[i]
  <2>1. i \in 1 .. m + w /\ i <= m
    OBVIOUS
  <2> QED BY <1>7, <1>9, <2>1
<1>11. ASSUME NEW e \in 1 .. w PROVE h[m + e] = <<s, n + e - 1>>
  <2>1. PICK i : i = m + e
    OBVIOUS
  <2>2. i \in 1 .. m + w /\ ~ (i <= m) /\ i - m = e
    BY <2>1
  <2>3. h[i] = r[e]
    BY <1>7, <1>9, <2>2
  <2>4. r[e] = <<s, n + e - 1>>
    BY <1>c
  <2> QED BY <2>1, <2>3, <2>4
<1> QED BY <1>1, <1>7, <1>8, <1>9, <1>10, <1>11 DEF Extended

\* It is handled, and the pending ones that follow it.
LEMMA SyncHandles ==
    ASSUME NEW l, Numbered(l), NEW C, NEW sh, NEW nx, NEW p \in [Stream -> Seq(Nat)],
           NEW s \in Stream, NEW n \in Nat, IsDue(l, C, sh, nx, p, s, n),
           NEW k, NEW h, NEW ny, NEW q, Handles(sh, nx, p, s, n, k, h, ny, q)
    PROVE  InSync(l, C, h, ny, q)
<1>x. PICK x : x = <<s, n>>
  OBVIOUS
<1>D. PICK D : D = C \cup {x}
  OBVIOUS
<1>S. InSync(l, D, sh, nx, p) /\ x \in ToSet(l) /\ n = nx[s] /\ \A y \in C : Apart(l, x, y)
  BY <1>x, <1>D DEF IsDue
<1>I. /\ p["asw"] = <<>> /\ sh \in Seq(Changelog)
      /\ \A i \in Len(sh) + 1 .. Len(l) : l[i] \in D \/ (l[i][1] = "csw" /\ l[i][2] \in ToSet(p["csw"]))
      /\ \A m \in ToSet(p["csw"]) :
            /\ m > nx["csw"]
            /\ \A i \in 1 .. Len(l) : l[i] = <<"csw", m>> => \A e \in Len(sh) + 1 .. i : l[e][1] = "csw"
  BY <1>S DEF InSync
<1>J. Sorted(p["csw"]) /\ \A m \in ToSet(p["csw"]) : <<"csw", m>> \in ToSet(l)
  BY DEF IsDue
<1>H. /\ k = Ready(p[s], n)
      /\ h = sh \o [i \in 1 .. (k + 1) |-> <<s, n + i - 1>>]
      /\ \A t \in Stream : ny[t] = IF t = s THEN n + k + 1 ELSE nx[t]
      /\ \A t \in Stream : q[t] = IF t = s THEN SubSeq(p[s], k + 1, Len(p[s])) ELSE p[t]
  BY DEF Handles
<1>1. /\ l \in Seq(Changelog) /\ Len(l) \in Nat /\ Len(sh) \in 0 .. Len(l)
      /\ \A i \in 1 .. Len(sh) : sh[i] = l[i]
      /\ \A t \in Stream : nx[t] = Num(l, t, Len(sh)) + 1 /\ nx[t] \in Nat
      /\ sh \in Seq(Changelog)
  <2>1. sh \in Seq(Changelog)
    BY <1>S DEF InSync
  <2>2. l \in Seq(Changelog)
    BY DEF Numbered
  <2>3. /\ Len(sh) \in 0 .. Len(l) /\ Len(l) \in Nat
        /\ \A i \in 1 .. Len(sh) : sh[i] = l[i]
        /\ \A t \in Stream : nx[t] = Num(l, t, Len(sh)) + 1 /\ nx[t] \in Nat
    BY <1>S, SyncNumbers
  <2> QED BY <2>1, <2>2, <2>3
<1>2. PICK a \in Nat : a = Len(sh)
  BY <1>1
<1>3. /\ k \in Nat
      /\ s = "asw" => k = 0
      /\ a + k + 1 <= Len(l)
      /\ \A i \in 0 .. k : l[a + 1 + i] = <<s, n + i>>
  <2>1. k = Ready(p[s], n)
    BY DEF Handles
  <2>2. /\ k \in Nat
        /\ s = "asw" => k = 0
        /\ Len(sh) + k + 1 <= Len(l)
        /\ \A i \in 0 .. k : l[Len(sh) + 1 + i] = <<s, n + i>>
    <3>1. Numbered(l) /\ p \in [Stream -> Seq(Nat)] /\ IsDue(l, C, sh, nx, p, s, n)
      OBVIOUS
    <3>2. NextAre(l, sh, s, n, Ready(p[s], n))
      BY <3>1, NextOfLog
    <3> QED BY <2>1, <3>2 DEF NextAre
  <2> QED BY <1>2, <2>2
<1>k. k \in Nat /\ n \in Nat /\ a \in Nat /\ a + k + 1 <= Len(l) /\ Len(l) \in Nat /\ Len(sh) = a
  BY <1>1, <1>2, <1>3
<1>4. ASSUME NEW i \in 1 .. (k + 1) PROVE l[a + i] = <<s, n + i - 1>>
  <2>1. PICK e : e = i - 1
    OBVIOUS
  <2>2. e \in 0 .. k /\ a + 1 + e = a + i /\ n + e = n + i - 1
    BY <1>k, <2>1
  <2> QED BY <1>3, <2>2
<1>5. /\ h \in Seq(Changelog) /\ Len(h) = a + (k + 1) /\ IsPrefix(h, l)
      /\ \A i \in 1 .. Len(h) : h[i] = l[i]
  <2>1. ASSUME NEW i \in 1 .. (k + 1) PROVE <<s, n + i - 1>> \in Changelog
    <3>1. a + i \in 1 .. Len(l)
      BY <1>k
    <3>2. l[a + i] \in Changelog
      BY <1>1, <3>1, LogTypes
    <3> QED BY <1>4, <3>2
  <2>2. h = sh \o [i \in 1 .. (k + 1) |-> <<s, n + i - 1>>] /\ sh \in Seq(Changelog)
    BY <1>1, <1>H
  <2>3. /\ h \in Seq(Changelog) /\ Len(h) = Len(sh) + (k + 1)
        /\ \A i \in 1 .. Len(sh) : h[i] = sh[i]
        /\ \A e \in 1 .. (k + 1) : h[Len(sh) + e] = <<s, n + e - 1>>
    <3>1. Extended(sh, s, n, k, h)
      BY <1>k, <2>1, <2>2, HandledIs
    <3> QED BY <3>1 DEF Extended
  <2>4. /\ h \in Seq(Changelog) /\ Len(h) = a + (k + 1)
        /\ \A i \in 1 .. a : h[i] = sh[i]
        /\ \A e \in 1 .. (k + 1) : h[a + e] = <<s, n + e - 1>>
    BY <1>2, <2>3
  <2>5. ASSUME NEW i \in 1 .. Len(h) PROVE h[i] = l[i]
    <3>1. CASE i <= a
      <4>1. i \in 1 .. a /\ i \in 1 .. Len(sh)
        BY <1>k, <3>1
      <4> QED BY <1>1, <2>4, <4>1
    <3>2. CASE i > a
      <4>1. PICK e : e = i - a
        OBVIOUS
      <4>2. e \in 1 .. (k + 1) /\ a + e = i
        BY <1>k, <2>4, <3>2, <4>1
      <4>3. h[a + e] = <<s, n + e - 1>>
        BY <2>4, <4>2
      <4>4. l[a + e] = <<s, n + e - 1>>
        BY <1>4, <4>2
      <4> QED BY <4>2, <4>3, <4>4
    <3>3. i <= a \/ i > a
      BY <1>k, <2>4
    <3> QED BY <3>1, <3>2, <3>3
  <2>6. Len(h) <= Len(l)
    BY <1>k, <2>4
  <2>7. IsPrefix(h, l)
    BY <1>1, <2>4, <2>5, <2>6, BeginningIs
  <2> QED BY <2>4, <2>5, <2>7
<1>6. ASSUME NEW t \in Stream PROVE ny[t] = Count(t, h) + 1
  <2>1. Count(t, h) = Num(l, t, Len(h))
    BY <1>1, <1>5, CountOfBeginning
  <2>2. \A i \in a + 1 .. a + (k + 1) : l[i][1] = s
    <3> SUFFICES ASSUME NEW i \in a + 1 .. a + (k + 1) PROVE l[i][1] = s
      OBVIOUS
    <3>1. PICK e : e = i - a
      OBVIOUS
    <3>2. e \in 1 .. (k + 1) /\ a + e = i
      BY <1>k, <3>1
    <3>3. l[a + e] = <<s, n + e - 1>>
      BY <1>4, <3>2
    <3> QED BY <3>2, <3>3
  <2>3. PICK d \in Nat : d = k + 1 /\ d \in 0 .. d
    BY <1>k
  <2>4. /\ Num(l, s, a + (k + 1)) = Num(l, s, a) + (k + 1)
        /\ t # s => Num(l, t, a + (k + 1)) = Num(l, t, a)
    <3>1. \A i \in a + 1 .. a + d : l[i][1] = s
      BY <2>2, <2>3
    <3>2. \A e \in 0 .. d : Num(l, s, a + e) = Num(l, s, a) + e
      <4>1. a \in Nat /\ d \in Nat
        BY <1>2, <2>3
      <4>2. Run(l, s, a, d)
        BY <3>1 DEF Run
      <4> QED BY <4>1, <4>2, RunOfOne
    <3>3. ASSUME t # s PROVE Num(l, t, a + d) = Num(l, t, a)
      <4>1. a \in Nat /\ d \in Nat /\ t # s
        BY <1>2, <2>3, <3>3
      <4>2. Run(l, s, a, d)
        BY <3>1 DEF Run
      <4>3. Stands(l, t, a, d)
        BY <4>1, <4>2, RunOfOther
      <4> QED BY <2>3, <4>3 DEF Stands
    <3> QED BY <2>3, <3>2, <3>3
  <2>5. Num(l, s, a) \in Nat /\ n = Num(l, s, a) + 1 /\ nx[t] = Num(l, t, a) + 1
    BY <1>1, <1>2, <1>S, NumFacts
  <2>6. CASE t = s
    <3>1. ny[t] = n + k + 1 /\ Count(t, h) = Num(l, s, a) + (k + 1)
      BY <1>5, <1>H, <2>1, <2>4, <2>6
    <3> QED BY <1>k, <2>5, <3>1
  <2>7. CASE t # s
    <3>1. ny[t] = nx[t] /\ Count(t, h) = Num(l, t, a)
      BY <1>5, <1>H, <2>1, <2>4, <2>7
    <3> QED BY <2>5, <3>1
  <2> QED BY <2>6, <2>7
<1>7. p["asw"] = <<>> /\ p["asw"] \in Seq(Nat) /\ p["csw"] \in Seq(Nat) /\ "asw" \in Stream /\ "csw" \in Stream
  BY <1>I DEF Stream
<1>8. q["asw"] = <<>>
  <2>1. CASE s = "asw"
    <3>1. Len(p[s]) = 0 /\ k = 0
      BY <1>3, <1>7, <2>1
    <3>2. q["asw"] = SubSeq(p[s], k + 1, Len(p[s]))
      BY <1>7, <1>H, <2>1
    <3>3. q["asw"] = SubSeq(p[s], 1, 0)
      <4>1. k + 1 = 1
        BY <3>1
      <4> QED BY <3>1, <3>2, <4>1
    <3> QED BY <3>3, SubSeqEmpty
  <2>2. CASE s # "asw"
    BY <1>7, <1>H, <2>2
  <2> QED BY <2>1, <2>2
\* what is pending yet
<1>9. /\ \A m \in ToSet(q["csw"]) : m \in ToSet(p["csw"]) /\ m > ny["csw"]
      /\ \A m \in ToSet(p["csw"]) :
            m \in ToSet(q["csw"]) \/ (s = "csw" /\ \E i \in 1 .. k : m = n + i)
  <2>1. CASE s = "csw"
    <3>1. \A m \in ToSet(p["csw"]) : m > n
      BY <1>I, <1>S, <2>1
    <3>2. q["csw"] = SubSeq(p["csw"], k + 1, Len(p["csw"])) /\ k = Ready(p["csw"], n)
      BY <1>7, <1>H, <2>1
    <3>3. /\ \A m \in ToSet(q["csw"]) : m \in ToSet(p["csw"]) /\ m > n + k + 1
          /\ \A m \in ToSet(p["csw"]) : m \in ToSet(q["csw"]) \/ \E i \in 1 .. k : m = n + i
      <4>1. PICK r : r = p["csw"]
        OBVIOUS
      <4>2. r \in Seq(Nat) /\ Sorted(r) /\ (\A m \in ToSet(r) : m > n) /\ k = Ready(r, n)
        BY <1>7, <1>J, <3>1, <3>2, <4>1
      <4>3. q["csw"] = SubSeq(r, k + 1, Len(r))
        BY <3>2, <4>1
      <4>4. /\ \A m \in ToSet(SubSeq(r, Ready(r, n) + 1, Len(r))) : m \in ToSet(r) /\ m > n + Ready(r, n) + 1
            /\ \A m \in ToSet(r) : \/ m \in ToSet(SubSeq(r, Ready(r, n) + 1, Len(r)))
                                   \/ \E i \in 1 .. Ready(r, n) : m = n + i
        BY <4>2, RestIs
      <4> QED BY <4>1, <4>2, <4>3, <4>4
    <3>4. ny["csw"] = n + k + 1
      BY <1>7, <1>H, <2>1
    <3> QED BY <2>1, <3>3, <3>4
  <2>2. CASE s # "csw"
    <3>1. q["csw"] = p["csw"] /\ ny["csw"] = nx["csw"]
      BY <1>7, <1>H, <2>2
    <3> QED BY <1>I, <2>2, <3>1
  <2> QED BY <2>1, <2>2
<1>10. ASSUME NEW j \in Len(h) + 1 .. Len(l)
       PROVE  l[j] \in C \/ (l[j][1] = "csw" /\ l[j][2] \in ToSet(q["csw"]))
  <2>1. j \in Len(sh) + 1 .. Len(l) /\ j \in 1 .. Len(l) /\ j > a + k + 1
    <3>1. j \in (a + (k + 1)) + 1 .. Len(l)
      BY <1>5
    <3> QED BY <1>k, <3>1
  <2>2. l[j] \in C \cup {<<s, n>>} \/ (l[j][1] = "csw" /\ l[j][2] \in ToSet(p["csw"]))
    BY <1>I, <1>x, <1>D, <2>1
  <2>3. ASSUME NEW i \in 1 .. (k + 1) PROVE l[j] # <<s, n + i - 1>>
    <3>1. PICK b : b = a + i
      OBVIOUS
    <3>2. b \in 1 .. Len(l) /\ b # j /\ l[b] = <<s, n + i - 1>>
      <4>1. b \in 1 .. Len(l) /\ b # j
        BY <1>k, <2>1, <3>1
      <4> QED BY <1>4, <3>1, <4>1
    <3> QED BY <2>1, <3>2, OnceEach
  <2>4. l[j] # <<s, n>>
    <3>1. 1 \in 1 .. (k + 1) /\ n + 1 - 1 = n
      BY <1>k
    <3>2. l[j] # <<s, n + 1 - 1>>
      BY <2>3, <3>1
    <3> QED BY <3>1, <3>2
  <2>5. ASSUME s = "csw", NEW i \in 1 .. k PROVE l[j] # <<"csw", n + i>>
    <3>1. PICK e : e = i + 1
      OBVIOUS
    <3>2. e \in 1 .. (k + 1) /\ n + e - 1 = n + i
      BY <1>k, <3>1
    <3>3. l[j] # <<s, n + e - 1>>
      BY <2>3, <3>2
    <3> QED BY <2>5, <3>2, <3>3
  <2>6. l[j] = <<l[j][1], l[j][2]>>
    BY <1>1, <2>1, LogTypes
  <2> QED BY <1>9, <2>2, <2>4, <2>5, <2>6
<1>11. ASSUME NEW m \in ToSet(q["csw"])
       PROVE  /\ m > ny["csw"]
              /\ \A j \in 1 .. Len(l) : l[j] = <<"csw", m>> => \A i \in Len(h) + 1 .. j : l[i][1] = "csw"
  <2>1. m \in ToSet(p["csw"]) /\ m > ny["csw"]
    BY <1>9
  <2>2. ASSUME NEW j \in 1 .. Len(l), l[j] = <<"csw", m>>, NEW i \in Len(h) + 1 .. j PROVE l[i][1] = "csw"
    <3>1. i \in Len(sh) + 1 .. j
      <4>1. i \in (a + (k + 1)) + 1 .. j
        BY <1>5, <2>2
      <4> QED BY <1>k, <4>1
    <3> QED BY <1>I, <2>1, <2>2, <3>1
  <2> QED BY <2>1, <2>2
<1> QED BY <1>5, <1>6, <1>8, <1>10, <1>11 DEF InSync

-----------------------------------------------------------------------------
(* What is true of every window that nothing upset.                        *)

\* It has missed the first changelog, and shows nothing.
Behind(l, C, sh, nx) ==
    /\ sh = <<>> /\ \A s \in Stream : nx[s] = 1
    /\ <<"asw", 1>> \notin C /\ l # <<>>

\* What is pending has come, in the order of its numbers.
Kept(l, C, p) ==
    \A s \in Stream : Sorted(p[s]) /\ \A n \in ToSet(p[s]) : <<s, n>> \in ToSet(l) \ C

\* It follows the log, or has yet to be given a state.
Follows(l, C, sh, nx, p, m) ==
    /\ Kept(l, C, p)
    /\ InSync(l, C, sh, nx, p) \/ (m # "in" /\ Behind(l, C, sh, nx))

\* A state with the changelogs a brings a window up to date that is behind: the others are
\* on their way, pending, or it has lost them, which Overtaken tells.
Fits(a, l, C, sh, nx, p, x) ==
    /\ IsPrefix(a, l)
    /\ Behind(l, C, sh, nx) =>
       /\ a # <<>>
       /\ \A j \in Len(a) + 1 .. Len(l) : l[j] \in C \cup x \/ l[j][2] \in ToSet(p[l[j][1]])

\* The first changelog of a log is in it.
LEMMA FirstIsThere ==
    ASSUME NEW l, Numbered(l), l # <<>>
    PROVE  l[1] = <<"asw", 1>> /\ <<"asw", 1>> \in ToSet(l) /\ 1 \in 1 .. Len(l)
<1>1. l \in Seq(Changelog) /\ Len(l) \in Nat /\ DOMAIN l = 1 .. Len(l)
  BY LogTypes DEF Numbered
<1>2. 1 \in 1 .. Len(l)
  BY <1>1, LogTypes
<1>3. l[1] = <<"asw", 1>>
  BY DEF Numbered
<1>4. l[1] \in ToSet(l)
  BY <1>1, <1>2 DEF ToSet
<1> QED BY <1>2, <1>3, <1>4

\* The csworker has one more changelog, and sends it.
LEMMA FollowsMore ==
    ASSUME NEW l, Numbered(l), NEW z \in Changelog, z \notin ToSet(l),
           NEW C, NEW sh, NEW nx, NEW p, NEW m, Follows(l, C, sh, nx, p, m)
    PROVE  Follows(Append(l, z), C \cup {z}, sh, nx, p, m)
<1>1. l \in Seq(Changelog)
  BY DEF Numbered
<1>2. PICK k : k = Append(l, z)
  OBVIOUS
<1>3. /\ ToSet(k) = ToSet(l) \cup {z} /\ Len(k) = Len(l) + 1 /\ Len(l) \in Nat
      /\ k[Len(l) + 1] = z
  BY <1>1, <1>2, AppendIs
<1>4. Kept(k, C \cup {z}, p)
  <2> SUFFICES ASSUME NEW s \in Stream PROVE Sorted(p[s]) /\ \A n \in ToSet(p[s]) : <<s, n>> \in ToSet(k) \ (C \cup {z})
    BY DEF Kept
  <2>1. Sorted(p[s]) /\ \A n \in ToSet(p[s]) : <<s, n>> \in ToSet(l) \ C
    BY DEF Follows, Kept
  <2> QED BY <1>3, <2>1
<1>5. CASE InSync(l, C, sh, nx, p)
  <2>1. \A n \in ToSet(p["csw"]) : <<"csw", n>> \in ToSet(l)
    BY DEF Follows, Kept, Stream
  <2>2. InSync(k, C \cup {z}, sh, nx, p)
    BY <1>2, <1>5, <2>1, SyncGrows
  <2> QED BY <1>2, <1>4, <2>2 DEF Follows
<1>6. CASE m # "in" /\ Behind(l, C, sh, nx)
  <2>1. <<"asw", 1>> \in ToSet(l)
    BY <1>6, FirstIsThere DEF Behind
  <2>2. k # <<>>
    <3>1. Len(k) # 0
      BY <1>3
    <3>2. Len(<<>>) = 0
      OBVIOUS
    <3> QED BY <3>1, <3>2
  <2>3. Behind(k, C \cup {z}, sh, nx)
    BY <1>6, <2>1, <2>2 DEF Behind
  <2> QED BY <1>2, <1>4, <1>6, <2>3 DEF Follows
<1> QED BY <1>5, <1>6 DEF Follows

LEMMA FitsMore ==
    ASSUME NEW l, Numbered(l), NEW z \in Changelog, z \notin ToSet(l), Numbered(Append(l, z)),
           NEW a \in Seq(Changelog),
           NEW C, NEW sh, NEW nx, NEW p, NEW x, Fits(a, l, C, sh, nx, p, x)
    PROVE  Fits(a, Append(l, z), C \cup {z}, sh, nx, p, x)
<1>1. l \in Seq(Changelog)
  BY DEF Numbered
<1>2. PICK k : k = Append(l, z)
  OBVIOUS
<1>3. /\ k \in Seq(Changelog) /\ Len(k) = Len(l) + 1 /\ Len(l) \in Nat
      /\ k[Len(l) + 1] = z /\ \A i \in 1 .. Len(l) : k[i] = l[i]
  BY <1>1, <1>2, AppendIs
<1>4. Len(a) \in 0 .. Len(l) /\ \A i \in 1 .. Len(a) : a[i] = l[i]
  BY <1>1, CountOfBeginning DEF Fits
<1>5. IsPrefix(a, k)
  <2>1. Len(a) <= Len(k) /\ \A i \in 1 .. Len(a) : a[i] = k[i]
    BY <1>3, <1>4
  <2> QED BY <1>3, <2>1, BeginningIs
<1>6. ASSUME Behind(k, C \cup {z}, sh, nx)
      PROVE  /\ a # <<>>
             /\ \A j \in Len(a) + 1 .. Len(k) :
                   k[j] \in (C \cup {z}) \cup x \/ k[j][2] \in ToSet(p[k[j][1]])
  <2>1. l # <<>>
    <3>1. ASSUME l = <<>> PROVE FALSE
      <4>1. Len(l) = 0
        BY <3>1
      <4>2. k[1] = z
        BY <1>3, <4>1
      <4>3. k # <<>> /\ Numbered(k)
        BY <1>2, <1>6 DEF Behind
      <4>4. k[1] = <<"asw", 1>>
        BY <4>3, FirstIsThere
      <4> QED BY <1>6, <4>2, <4>4 DEF Behind
    <3> QED BY <3>1
  <2>2. Behind(l, C, sh, nx)
    BY <1>6, <2>1 DEF Behind
  <2>3. a # <<>> /\ \A j \in Len(a) + 1 .. Len(l) : l[j] \in C \cup x \/ l[j][2] \in ToSet(p[l[j][1]])
    BY <2>2 DEF Fits
  <2>4. ASSUME NEW j \in Len(a) + 1 .. Len(k)
        PROVE  k[j] \in (C \cup {z}) \cup x \/ k[j][2] \in ToSet(p[k[j][1]])
    <3>1. CASE j = Len(l) + 1
      BY <1>3, <3>1
    <3>2. CASE j # Len(l) + 1
      <4>1. j \in Len(a) + 1 .. Len(l) /\ k[j] = l[j]
        BY <1>3, <1>4, <3>2
      <4> QED BY <2>3, <4>1
    <3> QED BY <3>1, <3>2
  <2> QED BY <2>3, <2>4
<1> QED BY <1>2, <1>5, <1>6 DEF Fits

\* A guest that is not registered misses a changelog.
LEMMA FollowsMisses ==
    ASSUME NEW l, Numbered(l), NEW C, NEW x \in ToSet(l), x \notin C, \A y \in C : Apart(l, x, y),
           NEW sh, sh = <<>>, NEW nx, NEW p, \A s \in Stream : p[s] = <<>>,
           NEW m, m # "in", Follows(l, C \cup {x}, sh, nx, p, m)
    PROVE  Follows(l, C, sh, nx, p, m)
<1>1. Kept(l, C, p)
  BY DEF Follows, Kept
<1>2. PICK D : D = C \cup {x}
  OBVIOUS
<1>3. CASE InSync(l, D, sh, nx, p)
  <2>1. \A y \in D : y = x \/ Apart(l, x, y)
    BY <1>2
  <2>2. x = <<"asw", 1>> /\ l # <<>>
    BY <1>3, <2>1, FirstIsMetamodel
  <2>3. ASSUME NEW s \in Stream PROVE nx[s] = 1
    <3>1. {i \in DOMAIN <<>> : <<>>[i][1] = s} = {}
      OBVIOUS
    <3>2. Count(s, <<>>) = 0
      BY <3>1, FS_EmptySet DEF Count
    <3>3. nx[s] = Count(s, sh) + 1
      BY <1>3 DEF InSync
    <3> QED BY <3>2, <3>3
  <2>4. Behind(l, C, sh, nx)
    BY <2>2, <2>3 DEF Behind
  <2> QED BY <1>1, <2>4 DEF Follows
<1>4. CASE Behind(l, D, sh, nx)
  <2>1. Behind(l, C, sh, nx)
    BY <1>2, <1>4 DEF Behind
  <2> QED BY <1>1, <2>1 DEF Follows
<1> QED BY <1>2, <1>3, <1>4 DEF Follows

\* A window handles changelog x later.
LEMMA FollowsPostpones ==
    ASSUME NEW l, Numbered(l), NEW C, NEW x \in Changelog, x \in ToSet(l), x \notin C,
           \A y \in C : Apart(l, x, y),
           NEW sh, NEW nx, NEW p \in [Stream -> Seq(Nat)], NEW m, Follows(l, C \cup {x}, sh, nx, p, m),
           x[2] > nx[x[1]], NEW q, q = [p EXCEPT ![x[1]] = Later(p[x[1]], x[2])]
    PROVE  Follows(l, C, sh, nx, q, m)
<1>1. l \in Seq(Changelog)
  BY DEF Numbered
<1>2. x[1] \in Stream /\ x[2] \in Nat /\ x = <<x[1], x[2]>>
  BY ChangelogIs
<1>3. PICK D : D = C \cup {x}
  OBVIOUS
<1>4. Kept(l, D, p)
  BY <1>3 DEF Follows
<1>5. Kept(l, C, q)
  <2> SUFFICES ASSUME NEW s \in Stream PROVE Sorted(q[s]) /\ \A n \in ToSet(q[s]) : <<s, n>> \in ToSet(l) \ C
    BY DEF Kept
  <2>1. Sorted(p[s]) /\ \A n \in ToSet(p[s]) : <<s, n>> \in ToSet(l) \ D
    BY <1>4 DEF Kept
  <2>2. CASE s = x[1]
    <3>1. q[s] = Later(p[s], x[2]) /\ p[s] \in Seq(Nat)
      BY <1>2, <2>2
    <3>2. x[2] \notin ToSet(p[s])
      BY <1>2, <1>3, <2>1, <2>2
    <3>3. Sorted(q[s]) /\ ToSet(q[s]) = ToSet(p[s]) \cup {x[2]}
      BY <1>2, <2>1, <3>1, <3>2, LaterIs
    <3>4. <<s, x[2]>> = x
      BY <1>2, <2>2
    <3> QED BY <1>3, <2>1, <3>3, <3>4
  <2>3. CASE s # x[1]
    <3>1. q[s] = p[s]
      BY <2>3
    <3> QED BY <1>3, <2>1, <3>1
  <2> QED BY <2>2, <2>3
<1>6. CASE InSync(l, D, sh, nx, p)
  <2>1. InSync(l, C \cup {x}, sh, nx, p)
    BY <1>3, <1>6
  <2>2. x[1] = "csw" /\ InSync(l, C, sh, nx, [p EXCEPT !["csw"] = Later(p["csw"], x[2])])
    BY <2>1, SyncPostpones
  <2>3. InSync(l, C, sh, nx, q)
    BY <2>2
  <2> QED BY <1>5, <2>3 DEF Follows
<1>7. CASE m # "in" /\ Behind(l, D, sh, nx)
  <2>1. Behind(l, C, sh, nx)
    BY <1>3, <1>7 DEF Behind
  <2> QED BY <1>5, <1>7, <2>1 DEF Follows
<1> QED BY <1>3, <1>6, <1>7 DEF Follows

LEMMA FitsPostponed ==
    ASSUME NEW l, Numbered(l), NEW a, NEW C, NEW x \in Changelog, x \in ToSet(l),
           NEW sh, NEW nx, NEW p \in [Stream -> Seq(Nat)], NEW y, Fits(a, l, C \cup {x}, sh, nx, p, y),
           x[2] > nx[x[1]], NEW q, q = [p EXCEPT ![x[1]] = Later(p[x[1]], x[2])]
    PROVE  Fits(a, l, C, sh, nx, q, y)
<1>1. l \in Seq(Changelog)
  BY DEF Numbered
<1>2. x[1] \in Stream /\ x[2] \in Nat /\ x = <<x[1], x[2]>>
  BY ChangelogIs
<1>3. SUFFICES ASSUME Behind(l, C, sh, nx)
               PROVE  /\ a # <<>>
                      /\ \A j \in Len(a) + 1 .. Len(l) : l[j] \in C \cup y \/ l[j][2] \in ToSet(q[l[j][1]])
  BY DEF Fits
<1>4. x # <<"asw", 1>>
  <2>1. nx[x[1]] = 1
    BY <1>2, <1>3 DEF Behind
  <2>2. x[2] # 1
    BY <2>1, <1>2
  <2> QED BY <2>2
<1>5. Behind(l, C \cup {x}, sh, nx)
  BY <1>3, <1>4 DEF Behind
<1>6. a # <<>> /\ \A j \in Len(a) + 1 .. Len(l) : l[j] \in (C \cup {x}) \cup y \/ l[j][2] \in ToSet(p[l[j][1]])
  BY <1>5 DEF Fits
<1>7. ASSUME NEW s \in Stream PROVE ToSet(p[s]) \subseteq ToSet(q[s])
  <2>1. CASE s = x[1]
    <3>1. q[s] = Later(p[s], x[2]) /\ p[s] \in Seq(Nat)
      BY <1>2, <2>1
    <3> QED BY <1>2, <3>1, LaterIs
  <2>2. CASE s # x[1]
    BY <2>2
  <2> QED BY <2>1, <2>2
<1>8. x[2] \in ToSet(q[x[1]])
  <2>1. q[x[1]] = Later(p[x[1]], x[2]) /\ p[x[1]] \in Seq(Nat)
    BY <1>2
  <2> QED BY <1>2, <2>1, LaterIs
<1>9. ASSUME NEW j \in Len(a) + 1 .. Len(l), j \in 1 .. Len(l)
      PROVE  l[j] \in C \cup y \/ l[j][2] \in ToSet(q[l[j][1]])
  <2>1. l[j][1] \in Stream
    BY <1>1, <1>9, LogTypes
  <2>2. l[j] \in (C \cup {x}) \cup y \/ l[j][2] \in ToSet(p[l[j][1]])
    BY <1>6
  <2> QED BY <1>7, <1>8, <2>1, <2>2
<1> QED BY <1>6, <1>9

\* A window refuses changelog x.
LEMMA FollowsRefuses ==
    ASSUME NEW l, Numbered(l), NEW C, NEW x \in Changelog,
           NEW sh, NEW nx, NEW p, NEW m, Follows(l, C \cup {x}, sh, nx, p, m), x[2] < nx[x[1]]
    PROVE  Follows(l, C, sh, nx, p, m)
<1>1. PICK D : D = C \cup {x}
  OBVIOUS
<1>2. Kept(l, C, p)
  <2>1. Kept(l, D, p)
    BY <1>1 DEF Follows
  <2> QED BY <1>1, <2>1 DEF Kept
<1>3. CASE InSync(l, D, sh, nx, p)
  <2>1. InSync(l, C \cup {x}, sh, nx, p)
    BY <1>1, <1>3
  <2>2. InSync(l, C, sh, nx, p)
    BY <2>1, SyncRefuses
  <2> QED BY <1>2, <2>2 DEF Follows
<1>4. CASE m # "in" /\ Behind(l, D, sh, nx)
  <2>1. Behind(l, C, sh, nx)
    BY <1>1, <1>4 DEF Behind
  <2> QED BY <1>2, <1>4, <2>1 DEF Follows
<1> QED BY <1>1, <1>3, <1>4 DEF Follows

LEMMA FitsRefused ==
    ASSUME NEW l, NEW a, NEW C, NEW x \in Changelog, NEW sh, NEW nx, NEW p, NEW y,
           x[2] < nx[x[1]], Fits(a, l, C \cup {x}, sh, nx, p, y)
    PROVE  Fits(a, l, C, sh, nx, p, y)
<1>1. ~ Behind(l, C, sh, nx)
  <2>1. SUFFICES ASSUME Behind(l, C, sh, nx) PROVE FALSE
    OBVIOUS
  <2>2. x[1] \in Stream /\ x[2] \in Nat /\ x[2] > 0
    BY ChangelogIs
  <2>3. nx[x[1]] = 1
    BY <2>1, <2>2 DEF Behind
  <2> QED BY <2>2, <2>3
<1> QED BY <1>1 DEF Fits

\* The handler of changelog x throws: of the csworker's own, with nothing on the canvas.
LEMMA FollowsThrows ==
    ASSUME NEW l, Numbered(l), NEW C, NEW x \in Changelog, x \in ToSet(l), x \notin C,
           \A y \in C : Apart(l, x, y), x[1] = "csw",
           NEW sh, sh = <<>>, NEW nx, NEW p, NEW m, Follows(l, C \cup {x}, sh, nx, p, m)
    PROVE  Follows(l, C, sh, nx, p, m)
<1>1. PICK D : D = C \cup {x}
  OBVIOUS
<1>2. Kept(l, C, p)
  <2>1. Kept(l, D, p)
    BY <1>1 DEF Follows
  <2> QED BY <1>1, <2>1 DEF Kept
<1>3. CASE InSync(l, D, sh, nx, p)
  <2>1. \A y \in D : y = x \/ Apart(l, x, y)
    BY <1>1
  <2>2. x = <<"asw", 1>>
    BY <1>3, <2>1, FirstIsMetamodel
  <2> QED BY <2>2
<1>4. CASE m # "in" /\ Behind(l, D, sh, nx)
  <2>1. Behind(l, C, sh, nx)
    BY <1>1, <1>4 DEF Behind
  <2> QED BY <1>2, <1>4, <2>1 DEF Follows
<1> QED BY <1>1, <1>3, <1>4 DEF Follows

LEMMA FitsThrown ==
    ASSUME NEW l, NEW a, NEW C, NEW x \in Changelog, x[1] = "csw", NEW sh, NEW nx, NEW p, NEW y,
           Fits(a, l, C \cup {x}, sh, nx, p, y)
    PROVE  Fits(a, l, C, sh, nx, p, y \cup {x})
<1>1. SUFFICES ASSUME Behind(l, C, sh, nx)
               PROVE  /\ a # <<>>
                      /\ \A j \in Len(a) + 1 .. Len(l) :
                            l[j] \in C \cup (y \cup {x}) \/ l[j][2] \in ToSet(p[l[j][1]])
  BY DEF Fits
<1>2. x # <<"asw", 1>>
  OBVIOUS
<1>3. Behind(l, C \cup {x}, sh, nx)
  BY <1>1, <1>2 DEF Behind
<1>4. a # <<>> /\ \A j \in Len(a) + 1 .. Len(l) : l[j] \in (C \cup {x}) \cup y \/ l[j][2] \in ToSet(p[l[j][1]])
  BY <1>3 DEF Fits
<1> QED BY <1>4

\* A window handles changelog <<s, n>>, and the pending ones that follow it.
LEMMA FollowsHandles ==
    ASSUME NEW l, Numbered(l), NEW C, NEW s \in Stream, NEW n \in Nat,
           <<s, n>> \in ToSet(l), <<s, n>> \notin C, \A y \in C : Apart(l, <<s, n>>, y),
           NEW sh, NEW nx, NEW p \in [Stream -> Seq(Nat)], NEW m,
           Follows(l, C \cup {<<s, n>>}, sh, nx, p, m),
           n = nx[s], s = "asw" \/ sh # <<>>,
           NEW k, NEW h, NEW ny, NEW q, Handles(sh, nx, p, s, n, k, h, ny, q)
    PROVE  Follows(l, C, h, ny, q, m)
<1>1. PICK x : x = <<s, n>>
  OBVIOUS
<1>2. PICK D : D = C \cup {x}
  OBVIOUS
<1>3. Follows(l, D, sh, nx, p, m)
  BY <1>1, <1>2
<1>4. InSync(l, D, sh, nx, p)
  <2>1. ASSUME Behind(l, D, sh, nx) PROVE FALSE
    <3>1. s = "asw" /\ n = 1
      BY <2>1 DEF Behind, Stream
    <3> QED BY <1>1, <1>2, <2>1, <3>1 DEF Behind
  <2> QED BY <1>3, <2>1 DEF Follows
<1>5. Kept(l, D, p)
  BY <1>3 DEF Follows
<1>6. InSync(l, C, h, ny, q)
  <2>1. \A i \in ToSet(p["csw"]) : <<"csw", i>> \in ToSet(l)
    BY <1>5 DEF Kept, Stream
  <2>2. Sorted(p["csw"])
    BY <1>5 DEF Kept, Stream
  <2>3. InSync(l, C \cup {<<s, n>>}, sh, nx, p)
    BY <1>1, <1>2, <1>4
  <2>4. IsDue(l, C, sh, nx, p, s, n)
    BY <2>1, <2>2, <2>3 DEF IsDue
  <2> QED BY <2>4, SyncHandles
<1>7. Kept(l, C, q)
  <2> SUFFICES ASSUME NEW t \in Stream PROVE Sorted(q[t]) /\ \A i \in ToSet(q[t]) : <<t, i>> \in ToSet(l) \ C
    BY DEF Kept
  <2>1. Sorted(p[t]) /\ \A i \in ToSet(p[t]) : <<t, i>> \in ToSet(l) \ C
    BY <1>2, <1>5 DEF Kept
  <2>2. CASE t = s
    <3>1. p[t] \in Seq(Nat)
      OBVIOUS
    <3>2. \A i \in ToSet(p[t]) : i > n
      <4>1. CASE t = "csw"
        BY <1>4, <2>2, <4>1 DEF InSync
      <4>2. CASE t = "asw"
        <5>1. ToSet(p[t]) = {}
          BY <1>4, <4>2 DEF InSync, ToSet
        <5> QED BY <5>1
      <4> QED BY <4>1, <4>2 DEF Stream
    <3>3. PICK r : r = p[t]
      OBVIOUS
    <3>4. q[t] = SubSeq(r, Ready(r, n) + 1, Len(r))
      BY <2>2, <3>3 DEF Handles
    <3>5. r \in Seq(Nat) /\ Sorted(r) /\ \A i \in ToSet(r) : i > n
      BY <2>1, <3>1, <3>2, <3>3
    <3>6. /\ Sorted(SubSeq(r, Ready(r, n) + 1, Len(r)))
          /\ \A i \in ToSet(SubSeq(r, Ready(r, n) + 1, Len(r))) : i \in ToSet(r)
      BY <3>5, RestIs
    <3>7. Sorted(q[t]) /\ \A i \in ToSet(q[t]) : i \in ToSet(p[t])
      BY <3>3, <3>4, <3>6
    <3> QED BY <2>1, <3>7
  <2>3. CASE t # s
    <3>1. q[t] = p[t]
      BY <2>3 DEF Handles
    <3> QED BY <2>1, <3>1
  <2> QED BY <2>2, <2>3
<1> QED BY <1>6, <1>7 DEF Follows

\* A window that handles the state with the changelogs a follows.
LEMMA SyncFromState ==
    ASSUME NEW l, Numbered(l), NEW C, NEW sh, NEW nx, NEW p, NEW m, Follows(l, C, sh, nx, p, m),
           NEW a \in Seq(Changelog), NEW x, Fits(a, l, C, sh, nx, p, x),
           \A s \in Stream : p[s] = <<>>, (ToSet(sh) \cup x) \ ToSet(a) = {},
           NEW ny, \A s \in Stream : ny[s] = Count(s, a) + 1
    PROVE  Follows(l, C, a, ny, p, "in")
<1>1. l \in Seq(Changelog) /\ Len(l) \in Nat
  BY LogTypes DEF Numbered
<1>2. p["csw"] = <<>> /\ p["asw"] = <<>>
  BY DEF Stream
<1>3. \A n : n \notin ToSet(<<>>)
  BY DEF ToSet
<1>4. IsPrefix(a, l) /\ Len(a) \in 0 .. Len(l) /\ \A i \in 1 .. Len(a) : a[i] = l[i]
  BY <1>1, CountOfBeginning DEF Fits
<1>5. ASSUME NEW j \in Len(a) + 1 .. Len(l) PROVE l[j] \notin ToSet(a)
  <2>1. ASSUME l[j] \in ToSet(a) PROVE FALSE
    <3>1. PICK i \in 1 .. Len(a) : a[i] = l[j]
      BY <2>1, LogTypes
    <3>2. i \in 1 .. Len(l) /\ j \in 1 .. Len(l) /\ i # j /\ l[i] = l[j]
      BY <1>1, <1>4, <3>1
    <3> QED BY <3>2, OnceEach
  <2> QED BY <2>1
<1>6. ASSUME NEW j \in Len(a) + 1 .. Len(l) PROVE l[j] \in C
  <2>1. l[j] \notin ToSet(sh) \cup x
    BY <1>5
  <2>2. CASE InSync(l, C, sh, nx, p)
    <3>a. sh \in Seq(Changelog)
      BY <2>2 DEF InSync
    <3>b. Len(sh) \in 0 .. Len(l) /\ \A i \in 1 .. Len(sh) : sh[i] = l[i]
      BY <2>2, SyncNumbers
    <3>1. /\ sh \in Seq(Changelog) /\ Len(sh) \in 0 .. Len(l)
          /\ \A i \in 1 .. Len(sh) : sh[i] = l[i]
      BY <3>a, <3>b
    <3>2. j > Len(sh)
      <4>1. ASSUME j \in 1 .. Len(sh) PROVE FALSE
        <5>1. sh[j] \in ToSet(sh) /\ sh[j] = l[j]
          BY <3>1, <4>1, LogTypes
        <5> QED BY <2>1, <5>1
      <4>2. j \in Nat /\ j > 0
        BY <1>4
      <4> QED BY <3>1, <4>1, <4>2
    <3>3. j \in Len(sh) + 1 .. Len(l)
      BY <1>1, <1>4, <3>1, <3>2
    <3> QED BY <1>2, <1>3, <2>2, <3>3 DEF InSync
  <2>3. CASE Behind(l, C, sh, nx)
    <3>1. l[j] \in C \cup x \/ l[j][2] \in ToSet(p[l[j][1]])
      BY <2>3 DEF Fits
    <3>2. l[j][1] \in Stream
      <4>1. j \in 1 .. Len(l)
        BY <1>1, <1>4
      <4> QED BY <1>1, <4>1, LogTypes
    <3>3. p[l[j][1]] = <<>>
      BY <3>2
    <3> QED BY <1>3, <2>1, <3>1, <3>3
  <2> QED BY <2>2, <2>3 DEF Follows
<1>7. InSync(l, C, a, ny, p)
  BY <1>2, <1>3, <1>4, <1>6 DEF InSync
<1>8. Kept(l, C, p)
  BY DEF Follows
<1> QED BY <1>7, <1>8 DEF Follows

\* A window that is given an empty state has missed nothing.
LEMMA SyncFromNothing ==
    ASSUME NEW l, NEW C, NEW sh, NEW nx, NEW p, NEW m, Follows(l, C, sh, nx, p, m),
           NEW x, Fits(<<>>, l, C, sh, nx, p, x), NEW m2
    PROVE  Follows(l, C, sh, nx, p, m2)
BY DEF Follows, Fits

-----------------------------------------------------------------------------
(* States on their way to guests.                                          *)

\* the states for c among messages
States(q, c) == {m \in StateMsg : m.to = c /\ \E i \in DOMAIN q : q[i] = m}

\* at most one of them
Single(q, c) ==
    \A i, j \in DOMAIN q :
       q[i] \in StateMsg /\ q[j] \in StateMsg /\ q[i].to = c /\ q[j].to = c => i = j

\* A changelog is not a state.
LEMMA PushIsNoState ==
    ASSUME NEW m \in Message
    PROVE  /\ m.kind = "push" => m \notin StateMsg
           /\ m.kind # "push" => m \in StateMsg
<1>1. \A x \in StateMsg : x.kind = "state"
  BY DEF StateMsg
<1> QED BY <1>1, MessageIs

LEMMA StatesAppend ==
    ASSUME NEW q \in Seq(Message), NEW m \in Message, NEW c
    PROVE  /\ m \notin StateMsg \/ m.to # c =>
                 States(Append(q, m), c) = States(q, c) /\ (Single(q, c) => Single(Append(q, m), c))
           /\ m \in StateMsg /\ m.to = c =>
                 /\ States(Append(q, m), c) = States(q, c) \cup {m}
                 /\ States(q, c) = {} => Single(Append(q, m), c)
<1>1. PICK t : t = Append(q, m)
  OBVIOUS
<1>2. /\ Len(q) \in Nat /\ DOMAIN q = 1 .. Len(q) /\ DOMAIN t = 1 .. Len(q) + 1
      /\ \A i \in 1 .. Len(q) : t[i] = q[i]
      /\ t[Len(q) + 1] = m
  BY <1>1, AppendIs
<1>3. \A y : (\E i \in DOMAIN t : t[i] = y) <=> (\E i \in DOMAIN q : q[i] = y) \/ y = m
  <2>1. ASSUME NEW y, NEW i \in DOMAIN t, t[i] = y PROVE (\E k \in DOMAIN q : q[k] = y) \/ y = m
    <3>1. CASE i \in 1 .. Len(q)
      BY <1>2, <2>1, <3>1
    <3>2. CASE i = Len(q) + 1
      BY <1>2, <2>1, <3>2
    <3> QED BY <1>2, <3>1, <3>2
  <2>2. ASSUME NEW i \in DOMAIN q PROVE i \in DOMAIN t /\ t[i] = q[i]
    BY <1>2
  <2>3. Len(q) + 1 \in DOMAIN t
    BY <1>2
  <2> QED BY <1>2, <2>1, <2>2, <2>3
<1>4. CASE m \notin StateMsg \/ m.to # c
  <2>1. States(t, c) = States(q, c)
    BY <1>3, <1>4 DEF States
  <2>2. ASSUME Single(q, c) PROVE Single(t, c)
    <3> SUFFICES ASSUME NEW i \in DOMAIN t, NEW j \in DOMAIN t,
                        t[i] \in StateMsg, t[j] \in StateMsg, t[i].to = c, t[j].to = c
                 PROVE  i = j
      BY DEF Single
    <3>1. i # Len(q) + 1 /\ j # Len(q) + 1
      BY <1>2, <1>4
    <3>2. i \in DOMAIN q /\ j \in DOMAIN q /\ t[i] = q[i] /\ t[j] = q[j]
      BY <1>2, <3>1
    <3> QED BY <2>2, <3>2 DEF Single
  <2> QED BY <1>1, <1>4, <2>1, <2>2
<1>5. CASE m \in StateMsg /\ m.to = c
  <2>1. States(t, c) = States(q, c) \cup {m}
    BY <1>3, <1>5 DEF States
  <2>2. ASSUME States(q, c) = {} PROVE Single(t, c)
    <3>1. ASSUME NEW i \in DOMAIN q, q[i] \in StateMsg, q[i].to = c PROVE FALSE
      <4>1. q[i] \in States(q, c)
        BY <3>1 DEF States
      <4> QED BY <2>2, <4>1
    <3>2. ASSUME NEW i \in DOMAIN t, t[i] \in StateMsg, t[i].to = c PROVE i = Len(q) + 1
      <4>1. CASE i \in DOMAIN q
        <5>1. q[i] \in StateMsg /\ q[i].to = c
          BY <1>2, <3>2, <4>1
        <5> QED BY <3>1, <4>1, <5>1
      <4> QED BY <1>2, <4>1
    <3> QED BY <3>2 DEF Single
  <2> QED BY <1>1, <1>5, <2>1, <2>2
<1> QED BY <1>4, <1>5

LEMMA StatesTail ==
    ASSUME NEW q \in Seq(Message), q # <<>>, NEW c
    PROVE  /\ Single(q, c) => Single(Tail(q), c)
           /\ Head(q) \notin StateMsg \/ Head(q).to # c => States(Tail(q), c) = States(q, c)
           /\ Head(q) \in StateMsg /\ Head(q).to = c =>
                 /\ States(q, c) = {Head(q)} \cup States(Tail(q), c)
                 /\ Single(q, c) => States(Tail(q), c) = {}
<1>1. PICK t : t = Tail(q)
  OBVIOUS
<1>2. PICK m : m = Head(q)
  OBVIOUS
<1>3. /\ Len(q) \in Nat /\ Len(q) > 0 /\ DOMAIN q = 1 .. Len(q) /\ DOMAIN t = 1 .. Len(q) - 1
      /\ \A i \in 1 .. Len(q) - 1 : t[i] = q[i + 1]
      /\ q[1] = m
  BY <1>1, <1>2, TailIs
<1>4. \A y : (\E i \in DOMAIN q : q[i] = y) <=> (\E i \in DOMAIN t : t[i] = y) \/ y = m
  <2>1. ASSUME NEW y, NEW i \in DOMAIN q, q[i] = y PROVE (\E k \in DOMAIN t : t[k] = y) \/ y = m
    <3>1. CASE i = 1
      BY <1>3, <2>1, <3>1
    <3>2. CASE i # 1
      <4>1. PICK k : k = i - 1
        OBVIOUS
      <4>2. k \in 1 .. Len(q) - 1 /\ k + 1 = i
        BY <1>3, <3>2, <4>1
      <4>3. k \in DOMAIN t /\ t[k] = q[i]
        BY <1>3, <4>2
      <4> QED BY <2>1, <4>3
    <3> QED BY <3>1, <3>2
  <2>2. ASSUME NEW i \in DOMAIN t PROVE i + 1 \in DOMAIN q /\ t[i] = q[i + 1]
    BY <1>3
  <2>3. 1 \in DOMAIN q
    BY <1>3
  <2> QED BY <1>3, <2>1, <2>2, <2>3
<1>5. ASSUME Single(q, c) PROVE Single(t, c)
  <2> SUFFICES ASSUME NEW i \in DOMAIN t, NEW j \in DOMAIN t,
                      t[i] \in StateMsg, t[j] \in StateMsg, t[i].to = c, t[j].to = c
               PROVE  i = j
    BY DEF Single
  <2>1. i + 1 \in DOMAIN q /\ j + 1 \in DOMAIN q /\ t[i] = q[i + 1] /\ t[j] = q[j + 1]
    BY <1>3
  <2>2. i + 1 = j + 1
    BY <1>5, <2>1 DEF Single
  <2>3. i \in Nat /\ j \in Nat
    BY <1>3
  <2> QED BY <2>2, <2>3
<1>6. ASSUME m \notin StateMsg \/ m.to # c PROVE States(t, c) = States(q, c)
  BY <1>4, <1>6 DEF States
<1>7. ASSUME m \in StateMsg, m.to = c PROVE States(q, c) = {m} \cup States(t, c)
  BY <1>4, <1>7 DEF States
<1>8. ASSUME m \in StateMsg, m.to = c, Single(q, c) PROVE States(t, c) = {}
  <2>1. ASSUME NEW i \in DOMAIN t, t[i] \in StateMsg, t[i].to = c PROVE FALSE
    <3>1. i + 1 \in DOMAIN q /\ 1 \in DOMAIN q /\ t[i] = q[i + 1] /\ i + 1 # 1
      BY <1>3
    <3>2. i + 1 = 1
      BY <1>3, <1>8, <2>1, <3>1 DEF Single
    <3> QED BY <3>1, <3>2
  <2> QED BY <2>1 DEF States
<1> QED BY <1>1, <1>2, <1>5, <1>6, <1>7, <1>8

LEMMA StatesReverse ==
    ASSUME NEW p \in Seq(Message), NEW q \in Seq(Message), NEW c
    PROVE  /\ States(p \o Reverse(q), c) = States(p, c) \cup States(q, c)
           /\ /\ Single(p, c) /\ Single(q, c)
              /\ States(p, c) = {} \/ States(q, c) = {}
              => Single(p \o Reverse(q), c)
<1>1. PICK t : t = p \o Reverse(q)
  OBVIOUS
<1>2. PICK n \in Nat, m \in Nat :
        LET r == p \o Reverse(q) IN
        /\ r \in Seq(Message)
        /\ DOMAIN p = 1 .. n /\ DOMAIN q = 1 .. m /\ DOMAIN r = 1 .. n + m
        /\ \A i \in 1 .. n : r[i] = p[i]
        /\ \A i \in n + 1 .. n + m :
             n + m - i + 1 \in 1 .. m /\ r[i] = q[n + m - i + 1]
  BY ReverseIs
<1>3. /\ DOMAIN p = 1 .. n /\ DOMAIN q = 1 .. m /\ DOMAIN t = 1 .. n + m
      /\ \A i \in 1 .. n : t[i] = p[i]
      /\ \A i \in n + 1 .. n + m : n + m - i + 1 \in 1 .. m /\ t[i] = q[n + m - i + 1]
  BY <1>1, <1>2
<1>4. \A y : (\E i \in DOMAIN t : t[i] = y) <=> (\E i \in DOMAIN p : p[i] = y) \/ (\E i \in DOMAIN q : q[i] = y)
  <2>1. ASSUME NEW i \in DOMAIN t
        PROVE  (\E k \in DOMAIN p : p[k] = t[i]) \/ (\E k \in DOMAIN q : q[k] = t[i])
    <3>1. CASE i \in 1 .. n
      BY <1>3, <3>1
    <3>2. CASE i \in n + 1 .. n + m
      BY <1>3, <3>2
    <3> QED BY <1>3, <3>1, <3>2
  <2>2. ASSUME NEW i \in DOMAIN p PROVE i \in DOMAIN t /\ t[i] = p[i]
    BY <1>3
  <2>3. ASSUME NEW i \in DOMAIN q PROVE \E k \in DOMAIN t : t[k] = q[i]
    <3>1. PICK k : k = n + m - i + 1
      OBVIOUS
    <3>2. k \in n + 1 .. n + m /\ n + m - k + 1 = i
      BY <1>3, <3>1
    <3>3. k \in DOMAIN t /\ t[k] = q[i]
      BY <1>3, <3>2
    <3> QED BY <3>3
  <2> QED BY <2>1, <2>2, <2>3
<1>5. States(t, c) = States(p, c) \cup States(q, c)
  BY <1>4 DEF States
<1>6. ASSUME Single(p, c), Single(q, c), States(p, c) = {} \/ States(q, c) = {}
      PROVE  Single(t, c)
  <2> SUFFICES ASSUME NEW i \in DOMAIN t, NEW j \in DOMAIN t,
                      t[i] \in StateMsg, t[j] \in StateMsg, t[i].to = c, t[j].to = c
               PROVE  i = j
    BY DEF Single
  <2>1. ASSUME NEW k \in DOMAIN t, k \in 1 .. n, t[k] \in StateMsg, t[k].to = c
        PROVE  k \in DOMAIN p /\ p[k] = t[k] /\ States(p, c) # {}
    <3>1. k \in DOMAIN p /\ p[k] = t[k]
      BY <1>3, <2>1
    <3>2. p[k] \in States(p, c)
      BY <2>1, <3>1 DEF States
    <3> QED BY <3>1, <3>2
  <2>2. ASSUME NEW k \in DOMAIN t, k \in n + 1 .. n + m, t[k] \in StateMsg, t[k].to = c
        PROVE  /\ n + m - k + 1 \in DOMAIN q /\ q[n + m - k + 1] = t[k] /\ States(q, c) # {}
    <3>1. n + m - k + 1 \in DOMAIN q /\ q[n + m - k + 1] = t[k]
      BY <1>3, <2>2
    <3>2. t[k] \in States(q, c)
      BY <2>2, <3>1 DEF States
    <3> QED BY <3>1, <3>2
  <2>3. CASE i \in 1 .. n /\ j \in 1 .. n
    <3>1. i \in DOMAIN p /\ j \in DOMAIN p /\ p[i] = t[i] /\ p[j] = t[j]
      BY <2>1, <2>3
    <3> QED BY <1>6, <3>1 DEF Single
  <2>4. CASE i \in n + 1 .. n + m /\ j \in n + 1 .. n + m
    <3>1. /\ n + m - i + 1 \in DOMAIN q /\ q[n + m - i + 1] = t[i]
          /\ n + m - j + 1 \in DOMAIN q /\ q[n + m - j + 1] = t[j]
      BY <2>2, <2>4
    <3>2. n + m - i + 1 = n + m - j + 1
      BY <1>6, <3>1 DEF Single
    <3> QED BY <2>4, <3>2
  <2>5. CASE i \in 1 .. n /\ j \in n + 1 .. n + m
    BY <1>6, <2>1, <2>2, <2>5
  <2>6. CASE i \in n + 1 .. n + m /\ j \in 1 .. n
    BY <1>6, <2>1, <2>2, <2>6
  <2> QED BY <1>3, <2>3, <2>4, <2>5, <2>6
<1> QED BY <1>1, <1>5, <1>6

-----------------------------------------------------------------------------
(* Types, for any csworker.                                                *)

WindowTypes ==
    /\ mode \in [Client -> {"out", "asking", "answered", "in"}]
    /\ socket \in [Client -> Seq(Changelog)]
    /\ answer \in [Client -> SUBSET StateMsg]
    /\ next \in [Client -> [Stream -> Nat]]
    /\ pending \in [Client -> [Stream -> Seq(Nat)]]
    /\ \A c \in Client, s \in Stream : \A n \in ToSet(pending[c][s]) : <<s, n>> \in Changelog
    /\ shows \in [Client -> Seq(Changelog)]
    /\ lost \in [Client -> SUBSET Changelog]
    /\ upset \in [Client -> {"no", "overtaken", "half", "threw"}]

TypeInv ==
    /\ log \in Seq(Changelog) /\ applying \in 0 .. MaxAsw
    /\ turn \in Seq(Message) /\ ipc \in Seq(Message)
    /\ WindowTypes

LEMMA EmptyIs ==
    ASSUME NEW E
    PROVE  <<>> \in Seq(E) /\ ToSet(<<>>) = {} /\ Len(<<>>) = 0 /\ DOMAIN <<>> = {}
BY DEF ToSet

\* A part of a sequence.
LEMMA PartIs ==
    ASSUME NEW E, NEW p \in Seq(E), NEW k \in 0 .. Len(p)
    PROVE  /\ SubSeq(p, k + 1, Len(p)) \in Seq(E)
           /\ ToSet(SubSeq(p, k + 1, Len(p))) \subseteq ToSet(p)
<1>1. PICK n \in Nat : n = Len(p) /\ DOMAIN p = 1 .. n
  BY LenProperties
<1>2. PICK q : q = SubSeq(p, k + 1, Len(p))
  OBVIOUS
<1>3. q = SubSeq(p, k + 1, n) /\ k \in Nat /\ k <= n
  BY <1>1, <1>2
<1>4. q \in Seq(E) /\ Len(q) = n - k /\ \A i \in 1 .. n - k : q[i] = p[k + i]
  <2>1. CASE k = n
    <3>1. q = <<>>
      BY <1>1, <1>3, <2>1
    <3> QED BY <1>1, <2>1, <3>1, EmptyIs
  <2>2. CASE k < n
    <3>1. k + 1 \in 1 .. n
      BY <1>1, <1>3, <2>2
    <3>2. /\ q \in Seq(E) /\ Len(q) = n - (k + 1) + 1
          /\ \A i \in 1 .. n - (k + 1) + 1 : q[i] = p[(k + 1) + i - 1]
      BY <1>1, <1>3, <3>1, SubSeqProperties
    <3>3. n - (k + 1) + 1 = n - k /\ \A i \in 1 .. n - k : (k + 1) + i - 1 = k + i
      BY <1>1, <1>3
    <3> QED BY <3>2, <3>3
  <2> QED BY <1>1, <1>3, <2>1, <2>2, SMTT(30)
<1>5. ASSUME NEW e \in ToSet(q) PROVE e \in ToSet(p)
  <2>1. DOMAIN q = 1 .. n - k
    BY <1>4, LenProperties
  <2>2. PICK i \in 1 .. n - k : q[i] = e
    BY <2>1 DEF ToSet
  <2>3. k + i \in DOMAIN p /\ p[k + i] = e
    BY <1>1, <1>3, <1>4, <2>2
  <2> QED BY <2>3 DEF ToSet
<1> QED BY <1>2, <1>4, <1>5

LEMMA TypesInit ==
    ASSUME Init
    PROVE  TypeInv
<1>1. ClientSyncAssumption
  BY ClientSyncAssumption
<1>2. <<>> \in Seq(Changelog) /\ <<>> \in Seq(Message) /\ <<>> \in Seq(Nat)
  BY EmptyIs
<1>3. applying \in 0 .. MaxAsw
  BY <1>1 DEF Init, ClientSyncAssumption
<1>4. /\ mode \in [Client -> {"out", "asking", "answered", "in"}]
      /\ socket \in [Client -> Seq(Changelog)]
      /\ answer \in [Client -> SUBSET StateMsg]
      /\ lost \in [Client -> SUBSET Changelog]
      /\ shows \in [Client -> Seq(Changelog)]
      /\ upset \in [Client -> {"no", "overtaken", "half", "threw"}]
  BY <1>2 DEF Init
<1>5. /\ next \in [Client -> [Stream -> Nat]]
      /\ pending \in [Client -> [Stream -> Seq(Nat)]]
  BY <1>2 DEF Init
<1>6. \A c \in Client, s \in Stream : \A n \in ToSet(pending[c][s]) : <<s, n>> \in Changelog
  BY EmptyIs DEF Init
<1> QED BY <1>2, <1>3, <1>4, <1>5, <1>6 DEF Init, TypeInv, WindowTypes

LEMMA CsworkerTypes ==
    ASSUME TypeInv, BeginAsw \/ EndAsw \/ OwnWrite \/ EndTurn
    PROVE  TypeInv'
<1>1. /\ log \in Seq(Changelog) /\ applying \in 0 .. MaxAsw
      /\ turn \in Seq(Message) /\ ipc \in Seq(Message) /\ WindowTypes
  BY DEF TypeInv
<1>2. MaxAsw \in Nat /\ MaxCsw \in Nat
  BY ClientSyncAssumption
<1>3. Count("asw", log) \in Nat /\ Count("csw", log) \in Nat
  BY <1>1, CountIsNum
<1>4. WindowTypes'
  <2>1. UNCHANGED <<mode, socket, answer, next, pending, shows, lost, upset>>
    BY DEF BeginAsw, EndAsw, OwnWrite, EndTurn, view
  <2> QED BY <1>1, <2>1 DEF WindowTypes
<1>5. CASE BeginAsw
  <2>1. applying' \in 0 .. MaxAsw
    BY <1>2, <1>3, <1>5 DEF BeginAsw
  <2> QED BY <1>1, <1>4, <1>5, <2>1 DEF BeginAsw, TypeInv
<1>6. CASE EndAsw
  <2>1. PICK z : z = <<"asw", applying>>
    OBVIOUS
  <2>2. z \in Changelog
    BY <1>1, <1>2, <1>6, <2>1 DEF EndAsw, Changelog
  <2>3. log' = Append(log, z) /\ ipc' = Append(ipc, Push(z)) /\ applying' = 0 /\ turn' = turn
    BY <1>6, <2>1 DEF EndAsw
  <2>4. log' \in Seq(Changelog) /\ ipc' \in Seq(Message)
    BY <1>1, <2>2, <2>3, AppendIs, PushIs
  <2> QED BY <1>1, <1>2, <1>4, <2>3, <2>4 DEF TypeInv
<1>7. CASE OwnWrite
  <2>1. PICK z : z = <<"csw", Count("csw", log) + 1>>
    OBVIOUS
  <2>2. z \in Changelog
    BY <1>2, <1>3, <1>7, <2>1 DEF OwnWrite, Changelog
  <2>3. log' = Append(log, z) /\ turn' = Append(turn, Push(z)) /\ applying' = applying /\ ipc' = ipc
    BY <1>7, <2>1 DEF OwnWrite
  <2>4. log' \in Seq(Changelog) /\ turn' \in Seq(Message)
    BY <1>1, <2>2, <2>3, AppendIs, PushIs
  <2> QED BY <1>1, <1>4, <2>3, <2>4 DEF TypeInv
<1>8. CASE EndTurn
  <2>1. ipc' = ipc \o Reverse(turn) /\ turn' = <<>> /\ log' = log /\ applying' = applying
    BY <1>8 DEF EndTurn
  <2>2. ipc' \in Seq(Message)
    BY <1>1, <2>1, ReverseIs
  <2>3. turn' \in Seq(Message)
    BY <2>1, EmptyIs
  <2> QED BY <1>1, <1>4, <2>1, <2>2, <2>3 DEF TypeInv
<1> QED BY <1>5, <1>6, <1>7, <1>8

LEMMA JoinTypes ==
    ASSUME TypeInv, NEW g \in Guest, Join(g) \/ ReadState(g)
    PROVE  TypeInv'
<1>1. /\ log \in Seq(Changelog) /\ applying \in 0 .. MaxAsw
      /\ turn \in Seq(Message) /\ ipc \in Seq(Message) /\ WindowTypes
  BY DEF TypeInv
<1>2. /\ UNCHANGED <<log, applying, ipc, socket, answer, next, pending, shows, lost, upset>>
      /\ mode' = [mode EXCEPT ![g] = "asking"] \/ mode' = [mode EXCEPT ![g] = "answered"]
  BY DEF Join, ReadState, view, csworker
<1>3. g \in Client
  BY DEF Client
<1>4. WindowTypes'
  <2>1. mode' \in [Client -> {"out", "asking", "answered", "in"}]
    BY <1>1, <1>2, <1>3 DEF WindowTypes
  <2> QED BY <1>1, <1>2, <2>1 DEF WindowTypes
<1>5. turn' \in Seq(Message)
  <2>1. CASE Join(g)
    BY <1>1, <2>1 DEF Join, csworker
  <2>2. CASE ReadState(g)
    <3>1. PICK m : m = [kind |-> "state", to |-> g, log |-> log, half |-> applying]
      OBVIOUS
    <3>2. m \in Message
      BY <1>1, <3>1 DEF Message, StateMsg
    <3>3. turn' = Append(turn, m)
      BY <2>2, <3>1 DEF ReadState
    <3> QED BY <1>1, <3>2, <3>3, AppendIs
  <2> QED BY <2>1, <2>2
<1> QED BY <1>1, <1>2, <1>4, <1>5 DEF TypeInv

LEMMA RelayTypes ==
    ASSUME TypeInv, Relay
    PROVE  TypeInv'
<1>1. /\ log \in Seq(Changelog) /\ applying \in 0 .. MaxAsw
      /\ turn \in Seq(Message) /\ ipc \in Seq(Message) /\ WindowTypes
  BY DEF TypeInv
<1>2. UNCHANGED <<log, applying, turn, mode, next, pending, shows, lost, upset>> /\ ipc' = Tail(ipc) /\ ipc # <<>>
  BY DEF Relay, view, csworker
<1>3. PICK m : m = Head(ipc)
  OBVIOUS
<1>4. ipc' \in Seq(Message) /\ m \in Message
  BY <1>1, <1>2, <1>3, TailIs
<1>5. socket' \in [Client -> Seq(Changelog)] /\ answer' \in [Client -> SUBSET StateMsg]
  <2>1. socket \in [Client -> Seq(Changelog)] /\ answer \in [Client -> SUBSET StateMsg]
    BY <1>1 DEF WindowTypes
  <2>2. CASE m.kind = "push"
    <3>1. /\ socket' = [c \in Client |-> IF mode[c] = "out" THEN socket[c] ELSE Append(socket[c], m.changelog)]
          /\ answer' = answer
      BY <1>3, <2>2 DEF Relay
    <3>2. m.changelog \in Changelog
      BY <1>4, <2>2, MessageIs
    <3>3. PICK x \in Changelog : x = m.changelog
      BY <3>2
    <3>4. \A c \in Client : Append(socket[c], x) \in Seq(Changelog)
      BY <2>1, AppendIs
    <3>5. socket' = [c \in Client |-> IF mode[c] = "out" THEN socket[c] ELSE Append(socket[c], x)]
      BY <3>1, <3>3
    <3> QED BY <2>1, <3>1, <3>4, <3>5
  <2>3. CASE m.kind # "push"
    <3>1. answer' = [answer EXCEPT ![m.to] = {m}] /\ socket' = socket
      BY <1>3, <2>3 DEF Relay
    <3>2. m \in StateMsg
      BY <1>4, <2>3, PushIsNoState
    <3> QED BY <2>1, <3>1, <3>2
  <2> QED BY <2>2, <2>3
<1>6. WindowTypes'
  BY <1>1, <1>2, <1>5 DEF WindowTypes
<1> QED BY <1>1, <1>2, <1>4, <1>6 DEF TypeInv

\* The changelog a window takes from its socket.
LEMMA ArrivesIs ==
    ASSUME TypeInv, NEW c \in Client, NEW s \in Stream, Arrives(c, s)
    PROVE  \E n \in Nat :
              /\ n = Head(socket[c])[2] /\ Head(socket[c]) = <<s, n>> /\ <<s, n>> \in Changelog
              /\ socket[c] # <<>> /\ socket[c] \in Seq(Changelog)
              /\ socket' = [socket EXCEPT ![c] = Tail(socket[c])]
              /\ socket' \in [Client -> Seq(Changelog)]
<1>1. socket \in [Client -> Seq(Changelog)]
  BY DEF TypeInv, WindowTypes
<1>2. socket[c] # <<>> /\ socket' = [socket EXCEPT ![c] = Tail(socket[c])] /\ Head(socket[c])[1] = s
  BY DEF Arrives
<1>3. Head(socket[c]) \in Changelog /\ Tail(socket[c]) \in Seq(Changelog)
  BY <1>1, <1>2, TailIs
<1>4. PICK x \in Changelog : x = Head(socket[c])
  BY <1>3
<1>5. x[2] \in Nat /\ x = <<s, x[2]>>
  BY <1>2, <1>4, ChangelogIs
<1>6. socket' \in [Client -> Seq(Changelog)]
  BY <1>1, <1>2, <1>3
<1> QED BY <1>1, <1>2, <1>4, <1>5, <1>6

\* What a window handles: changelog <<s, n>> and the k pending ones that follow it.
IsHandled(c, s, n, k) ==
    /\ k = IF IsNumbered(s) THEN Ready(pending[c][s], n) ELSE 0
    /\ shows' = [shows EXCEPT ![c] = shows[c] \o [i \in 1 .. (k + 1) |-> <<s, n + i - 1>>]]
    /\ pending' = [pending EXCEPT ![c] =
                     [pending[c] EXCEPT ![s] = SubSeq(pending[c][s], k + 1, Len(pending[c][s]))]]
    /\ next' = [next EXCEPT ![c] =
                  [next[c] EXCEPT ![s] = IF IsNumbered(s) THEN n + k + 1 ELSE next[c][s]]]

LEMMA HandleIs ==
    ASSUME TypeInv, NEW c \in Client, NEW s \in Stream, NEW n \in Nat, Handle(c, s),
           n = Head(socket[c])[2], <<s, n>> \in Changelog
    PROVE  \E k \in Nat :
              /\ IsHandled(c, s, n, k) /\ k <= Len(pending[c][s])
              /\ \A i \in 1 .. k : pending[c][s][i] = n + i
              /\ \A i \in 1 .. (k + 1) : <<s, n + i - 1>> \in Changelog
<1>1. PICK p \in Seq(Nat) : p = pending[c][s]
  BY DEF TypeInv, WindowTypes
<1>2. PICK k : k = IF IsNumbered(s) THEN Ready(pending[c][s], n) ELSE 0
  OBVIOUS
<1>3. /\ pending \in [Client -> [Stream -> Seq(Nat)]] /\ next \in [Client -> [Stream -> Nat]]
      /\ shows \in [Client -> Seq(Changelog)]
      /\ \A m \in ToSet(p) : <<s, m>> \in Changelog
  BY <1>1 DEF TypeInv, WindowTypes
<1>4. IsHandled(c, s, n, k)
  <2>1. shows' = [shows EXCEPT ![c] = shows[c] \o [i \in 1 .. (k + 1) |-> <<s, n + i - 1>>]]
    BY <1>2 DEF Handle
  <2>2. pending' = [pending EXCEPT ![c] =
                     [pending[c] EXCEPT ![s] = SubSeq(pending[c][s], k + 1, Len(pending[c][s]))]]
    BY <1>2 DEF Handle
  <2>3. next' = [next EXCEPT ![c] =
                  [next[c] EXCEPT ![s] = IF IsNumbered(s) THEN n + k + 1 ELSE next[c][s]]]
    BY <1>2 DEF Handle
  <2> QED BY <1>2, <2>1, <2>2, <2>3 DEF IsHandled
<1>5. k \in 0 .. Len(p) /\ \A i \in 1 .. k : p[i] = n + i
  <2>1. Ready(p, n) \in 0 .. Len(p) /\ \A i \in 1 .. Ready(p, n) : p[i] = n + i
    BY ReadyIs
  <2>2. Len(p) \in Nat
    BY LenProperties
  <2>3. CASE IsNumbered(s)
    BY <1>1, <1>2, <2>1, <2>3
  <2>4. CASE ~ IsNumbered(s)
    BY <1>2, <2>2, <2>4
  <2> QED BY <2>3, <2>4
<1>6. Len(p) \in Nat /\ DOMAIN p = 1 .. Len(p)
  BY LenProperties
<1>7. ASSUME NEW i \in 1 .. (k + 1) PROVE <<s, n + i - 1>> \in Changelog
  <2>1. CASE i = 1
    <3>1. n + i - 1 = n
      BY <2>1
    <3> QED BY <3>1
  <2>2. CASE i # 1
    <3>1. PICK j : j = i - 1
      OBVIOUS
    <3>2. j \in 1 .. k /\ n + i - 1 = n + j /\ j \in DOMAIN p
      BY <1>5, <1>6, <2>2, <3>1
    <3>3. p[j] = n + j /\ p[j] \in ToSet(p)
      BY <1>5, <3>2 DEF ToSet
    <3>4. <<s, n + j>> \in Changelog
      BY <1>3, <3>3
    <3> QED BY <3>2, <3>4
  <2> QED BY <2>1, <2>2
<1>8. k \in Nat /\ k <= Len(p)
  BY <1>5, <1>6
<1>9. IsHandled(c, s, n, k) /\ k <= Len(pending[c][s]) /\ \A i \in 1 .. k : pending[c][s][i] = n + i
  BY <1>1, <1>4, <1>5, <1>8
<1> QED BY <1>7, <1>8, <1>9

LEMMA ChangelogTypes ==
    ASSUME TypeInv, NEW c \in Client, HandleChangelog(c)
    PROVE  TypeInv'
<1>1. PICK s \in Stream : Postpone(c, s) \/ Refuse(c, s) \/ HandleThrows(c, s) \/ Handle(c, s)
  BY SMTT(30) DEF HandleChangelog
<1>2. Arrives(c, s) /\ UNCHANGED <<log, applying, turn, ipc, mode, answer, upset>>
  BY <1>1 DEF Postpone, Refuse, HandleThrows, Handle, csworker, view
<1>3. PICK n \in Nat : /\ n = Head(socket[c])[2] /\ Head(socket[c]) = <<s, n>> /\ <<s, n>> \in Changelog
                       /\ socket' \in [Client -> Seq(Changelog)]
  BY <1>2, ArrivesIs
<1>4. /\ log \in Seq(Changelog) /\ applying \in 0 .. MaxAsw
      /\ turn \in Seq(Message) /\ ipc \in Seq(Message) /\ WindowTypes
  BY DEF TypeInv
<1>5. /\ next \in [Client -> [Stream -> Nat]]
      /\ pending \in [Client -> [Stream -> Seq(Nat)]]
      /\ \A d \in Client, t \in Stream : \A m \in ToSet(pending[d][t]) : <<t, m>> \in Changelog
      /\ shows \in [Client -> Seq(Changelog)]
      /\ lost \in [Client -> SUBSET Changelog]
  BY <1>4 DEF WindowTypes
<1> DEFINE Typed == /\ next' \in [Client -> [Stream -> Nat]]
                    /\ pending' \in [Client -> [Stream -> Seq(Nat)]]
                    /\ \A d \in Client, t \in Stream : \A m \in ToSet(pending'[d][t]) : <<t, m>> \in Changelog
                    /\ shows' \in [Client -> Seq(Changelog)]
                    /\ lost' \in [Client -> SUBSET Changelog]
<1>6. ASSUME Postpone(c, s) PROVE Typed
  <2>1. PICK q : q = Later(pending[c][s], n)
    OBVIOUS
  <2>2. pending' = [pending EXCEPT ![c] = [pending[c] EXCEPT ![s] = q]] /\ UNCHANGED <<next, shows, lost>>
    BY <1>3, <1>6, <2>1 DEF Postpone
  <2>3. q \in Seq(Nat) /\ ToSet(q) = ToSet(pending[c][s]) \cup {n}
    <3>1. pending[c][s] \in Seq(Nat)
      BY <1>5
    <3> QED BY <2>1, <3>1, LaterIs
  <2>4. pending' \in [Client -> [Stream -> Seq(Nat)]]
    BY <1>5, <2>2, <2>3
  <2>5. \A d \in Client, t \in Stream : d # c \/ t # s => pending'[d][t] = pending[d][t]
    BY <1>5, <2>2
  <2>6. pending'[c][s] = q
    BY <1>5, <2>2
  <2>7. \A d \in Client, t \in Stream : \A m \in ToSet(pending'[d][t]) : <<t, m>> \in Changelog
    BY <1>3, <1>5, <2>3, <2>5, <2>6, SMTT(10), ZenonT(30)
  <2> QED BY <1>5, <2>2, <2>4, <2>7
<1>7. ASSUME Refuse(c, s) PROVE Typed
  <2>1. UNCHANGED <<next, pending, shows, lost>>
    BY <1>7 DEF Refuse, view
  <2> QED BY <1>5, <2>1
<1>8. ASSUME HandleThrows(c, s) PROVE Typed
  <2>1. UNCHANGED <<next, pending, shows>> /\ lost' = [lost EXCEPT ![c] = lost[c] \cup {<<s, n>>}]
    BY <1>3, <1>8 DEF HandleThrows
  <2>2. lost' \in [Client -> SUBSET Changelog]
    BY <1>3, <1>5, <2>1
  <2> QED BY <1>5, <2>1, <2>2
<1>9. ASSUME Handle(c, s) PROVE Typed
  <2>1. PICK k \in Nat :
              /\ IsHandled(c, s, n, k) /\ k <= Len(pending[c][s])
              /\ \A i \in 1 .. k : pending[c][s][i] = n + i
              /\ \A i \in 1 .. (k + 1) : <<s, n + i - 1>> \in Changelog
    BY <1>3, <1>9, HandleIs
  <2>2. PICK p \in Seq(Nat) : p = pending[c][s]
    BY <1>5
  <2>3. PICK q : q = SubSeq(p, k + 1, Len(p))
    OBVIOUS
  <2>4. q \in Seq(Nat) /\ ToSet(q) \subseteq ToSet(p)
    <3>1. k \in 0 .. Len(p)
      BY <2>1, <2>2, LenProperties
    <3> QED BY <2>3, <3>1, PartIs
  <2>5. PICK h : h = shows[c] \o [i \in 1 .. (k + 1) |-> <<s, n + i - 1>>]
    OBVIOUS
  <2>6. h \in Seq(Changelog)
    <3>1. shows[c] \in Seq(Changelog)
      BY <1>5
    <3>2. Extended(shows[c], s, n, k, h)
      BY <2>1, <2>5, <3>1, HandledIs
    <3> QED BY <3>2 DEF Extended
  <2>7. PICK v : v = IF IsNumbered(s) THEN n + k + 1 ELSE next[c][s]
    OBVIOUS
  <2>8. v \in Nat
    BY <1>5, <2>7
  <2>9. /\ shows' = [shows EXCEPT ![c] = h]
        /\ pending' = [pending EXCEPT ![c] = [pending[c] EXCEPT ![s] = q]]
        /\ next' = [next EXCEPT ![c] = [next[c] EXCEPT ![s] = v]]
    BY <2>1, <2>2, <2>3, <2>5, <2>7 DEF IsHandled
  <2>10. lost' = lost
    BY <1>9 DEF Handle
  <2>11. shows' \in [Client -> Seq(Changelog)] /\ next' \in [Client -> [Stream -> Nat]]
    BY <1>5, <2>6, <2>8, <2>9
  <2>12. pending' \in [Client -> [Stream -> Seq(Nat)]]
    BY <1>5, <2>4, <2>9
  <2>13. \A d \in Client, t \in Stream : d # c \/ t # s => pending'[d][t] = pending[d][t]
    BY <1>5, <2>9
  <2>14. pending'[c][s] = q
    BY <1>5, <2>9
  <2>15. \A d \in Client, t \in Stream : \A m \in ToSet(pending'[d][t]) : <<t, m>> \in Changelog
    BY <1>5, <2>2, <2>4, <2>13, <2>14
  <2> QED BY <1>5, <2>10, <2>11, <2>12, <2>15
<1>10. Typed
  BY <1>1, <1>6, <1>7, <1>8, <1>9
<1>11. WindowTypes'
  BY <1>2, <1>3, <1>4, <1>10 DEF WindowTypes
<1> QED BY <1>2, <1>4, <1>11 DEF TypeInv

LEMMA AnswerTypes ==
    ASSUME TypeInv, NEW g \in Guest, HandleAnswer(g)
    PROVE  TypeInv'
<1>1. /\ log \in Seq(Changelog) /\ applying \in 0 .. MaxAsw
      /\ turn \in Seq(Message) /\ ipc \in Seq(Message) /\ WindowTypes
  BY DEF TypeInv
<1>2. g \in Client
  BY DEF Client
<1>3. /\ UNCHANGED <<log, applying, turn, ipc, socket, pending, lost>>
      /\ answer' = [answer EXCEPT ![g] = {}] /\ mode' = [mode EXCEPT ![g] = "in"]
  BY DEF HandleAnswer, HandleNothing, HandleState, HandleStateThrows, csworker, view
<1>4. /\ mode' \in [Client -> {"out", "asking", "answered", "in"}]
      /\ answer' \in [Client -> SUBSET StateMsg]
  BY <1>1, <1>2, <1>3 DEF WindowTypes
<1>5. /\ next \in [Client -> [Stream -> Nat]] /\ shows \in [Client -> Seq(Changelog)]
      /\ upset \in [Client -> {"no", "overtaken", "half", "threw"}]
      /\ answer \in [Client -> SUBSET StateMsg]
  BY <1>1 DEF WindowTypes
<1>6. /\ next' \in [Client -> [Stream -> Nat]] /\ shows' \in [Client -> Seq(Changelog)]
      /\ upset' \in [Client -> {"no", "overtaken", "half", "threw"}]
  <2>1. CASE HandleNothing(g)
    BY <1>5, <2>1 DEF HandleNothing, view
  <2>2. CASE HandleState(g)
    <3>1. PICK a \in answer[g] :
            /\ next' = [next EXCEPT ![g] = [s \in Stream |-> Count(s, a.log) + 1]]
            /\ shows' = [shows EXCEPT ![g] = a.log]
            /\ upset' = [upset EXCEPT ![g] = IF Overtaken(g, a.log) THEN "overtaken"
                                             ELSE IF a.half # 0 THEN "half" ELSE "no"]
      BY <2>2 DEF HandleState
    <3>2. a.log \in Seq(Changelog)
      BY <1>2, <1>5, <3>1 DEF StateMsg
    <3>3. PICK f : f = [s \in Stream |-> Count(s, a.log) + 1]
      OBVIOUS
    <3>4. f \in [Stream -> Nat]
      BY <3>2, <3>3, CountIsNum
    <3>5. next' = [next EXCEPT ![g] = f]
      BY <3>1, <3>3
    <3>6. PICK u \in {"no", "overtaken", "half", "threw"} : upset' = [upset EXCEPT ![g] = u]
      BY <3>1
    <3>7. next' \in [Client -> [Stream -> Nat]]
      BY <1>5, <3>4, <3>5
    <3>8. shows' \in [Client -> Seq(Changelog)]
      BY <1>5, <3>1, <3>2
    <3>9. upset' \in [Client -> {"no", "overtaken", "half", "threw"}]
      BY <1>5, <3>6
    <3> QED BY <3>7, <3>8, <3>9
  <2>3. CASE HandleStateThrows(g)
    <3>1. PICK a \in answer[g] : next' = [next EXCEPT ![g] =
              [s \in Stream |-> IF s = "csw" THEN Count(s, a.log)
                                ELSE IF pending[g]["csw"] # <<>> THEN next[g][s]
                                ELSE Count(s, a.log) + 1]]
      BY <2>3 DEF HandleStateThrows
    <3>2. a.log \in Seq(Changelog)
      BY <1>2, <1>5, <3>1 DEF StateMsg
    <3>3. PICK f : f = [s \in Stream |-> IF s = "csw" THEN Count(s, a.log)
                                         ELSE IF pending[g]["csw"] # <<>> THEN next[g][s]
                                         ELSE Count(s, a.log) + 1]
      OBVIOUS
    <3>4. f \in [Stream -> Nat]
      BY <1>2, <1>5, <3>2, <3>3, CountIsNum
    <3>5. next' = [next EXCEPT ![g] = f]
      BY <3>1, <3>3
    <3>6. UNCHANGED shows /\ upset' = [upset EXCEPT ![g] = "threw"]
      BY <2>3 DEF HandleStateThrows
    <3> QED BY <1>5, <3>4, <3>5, <3>6
  <2> QED BY <2>1, <2>2, <2>3 DEF HandleAnswer
<1>7. WindowTypes'
  BY <1>1, <1>3, <1>4, <1>6 DEF WindowTypes
<1> QED BY <1>1, <1>3, <1>7 DEF TypeInv

LEMMA TypesStep ==
    ASSUME TypeInv, [Next]_vars
    PROVE  TypeInv'
<1>1. CASE UNCHANGED vars
  BY <1>1 DEF vars, csworker, view, TypeInv, WindowTypes
<1>2. CASE BeginAsw \/ EndAsw \/ OwnWrite \/ EndTurn
  BY <1>2, CsworkerTypes
<1>3. CASE Relay
  BY <1>3, RelayTypes
<1>4. CASE \E g \in Guest : Join(g) \/ ReadState(g)
  BY <1>4, JoinTypes
<1>5. CASE \E g \in Guest : HandleAnswer(g)
  BY <1>5, AnswerTypes
<1>6. CASE \E c \in Client : HandleChangelog(c)
  BY <1>6, ChangelogTypes
<1> QED BY <1>1, <1>2, <1>3, <1>4, <1>5, <1>6 DEF Next

LEMMA TypeInvIsTypeOK ==
    ASSUME TypeInv
    PROVE  TypeOK
<1>1. ASSUME NEW c \in Client, NEW s \in Stream PROVE pending[c][s] \in Seq(1 .. (MaxAsw + MaxCsw))
  <2>1. PICK p \in Seq(Nat) : p = pending[c][s]
    BY DEF TypeInv, WindowTypes
  <2>2. Len(p) \in Nat /\ DOMAIN p = 1 .. Len(p)
    BY LenProperties
  <2>3. ASSUME NEW i \in 1 .. Len(p) PROVE p[i] \in 1 .. (MaxAsw + MaxCsw)
    <3>1. p[i] \in ToSet(p)
      BY <2>2 DEF ToSet
    <3>2. <<s, p[i]>> \in Changelog
      BY <2>1, <3>1 DEF TypeInv, WindowTypes
    <3>3. MaxAsw \in Nat /\ MaxCsw \in Nat
      BY ClientSyncAssumption
    <3>4. p[i] \in 1 .. MaxAsw \/ p[i] \in 1 .. MaxCsw
      BY <3>2 DEF Changelog
    <3> QED BY <3>3, <3>4
  <2>4. p = [i \in 1 .. Len(p) |-> p[i]]
    BY <2>2
  <2>5. p \in Seq(1 .. (MaxAsw + MaxCsw))
    BY <2>2, <2>3, <2>4, SequenceIs, SMTT(10), ZenonT(30)
  <2> QED BY <2>1, <2>5
<1>2. /\ log \in Seq(Changelog) /\ applying \in 0 .. MaxAsw
      /\ mode \in [Client -> {"out", "asking", "answered", "in"}]
      /\ next \in [Client -> [Stream -> Nat]]
      /\ lost \in [Client -> SUBSET Changelog]
      /\ upset \in [Client -> {"no", "overtaken", "half", "threw"}]
  BY DEF TypeInv, WindowTypes
<1>3. \A c \in Client : socket[c] \in Seq(Changelog) /\ shows[c] \in Seq(Changelog)
  BY DEF TypeInv, WindowTypes
<1> QED BY <1>1, <1>2, <1>3 DEF TypeOK

\* Whatever clients join, and a clone or not: the csworker's log, what is on its way to the
\* windows and what they keep pending and show are of the types the model gives them.
THEOREM TypesKept == Spec => []TypeOK
<1>1. Init => TypeInv
  BY TypesInit
<1>2. TypeInv /\ [Next]_vars => TypeInv'
  BY TypesStep
<1>3. TypeInv => TypeOK
  BY TypeInvIsTypeOK
<1> QED BY <1>1, <1>2, <1>3, PTL DEF Spec

-----------------------------------------------------------------------------
(* The invariant.                                                          *)

LogInv == Numbered(log) /\ (applying # 0 => applying = Count("asw", log) + 1)

\* the changelogs on their way to a window, and the states
Coming(c)  == All(socket[c], ipc, turn)
Answers(c) == States(turn, c) \cup States(ipc, c) \cup answer[c]

\* What is on its way is in line; nothing is in the socket of a guest that is not registered.
Lined(c) == InLine(log, socket[c], ipc, turn) /\ (mode[c] = "out" => socket[c] = <<>>)

\* A guest waits for one state at most, and only until it handles it.
Awaited(m, U, I, A, c) ==
    /\ m # "answered" => States(U, c) = {} /\ States(I, c) = {} /\ A = {}
    /\ Single(U, c) /\ Single(I, c)
    /\ States(U, c) # {} => States(I, c) = {} /\ A = {}
    /\ States(I, c) # {} => A = {}

OneAnswer(c) == Awaited(mode[c], turn, ipc, answer[c], c)

\* The state on its way brings it up to date.
StatesFit(c) ==
    \A a \in Answers(c) : Fits(a.log, log, Coming(c), shows[c], next[c], pending[c], lost[c])

\* Nothing is wrong before a state has been handled, and until something is the window follows.
InTouch(c) ==
    /\ mode[c] # "in" => upset[c] = "no"
    /\ mode[c] = "out" => shows[c] = <<>> /\ \A s \in Stream : pending[c][s] = <<>>
    /\ upset[c] = "no" => Follows(log, Coming(c), shows[c], next[c], pending[c], mode[c])

Window(c) == Lined(c) /\ OneAnswer(c) /\ StatesFit(c) /\ InTouch(c)

IInv == TypeInv /\ LogInv /\ \A c \in Client : Window(c)

LEMMA CountEmpty ==
    ASSUME NEW s
    PROVE  Count(s, <<>>) = 0
<1>1. {i \in DOMAIN <<>> : <<>>[i][1] = s} = {}
  BY EmptyIs
<1> QED BY <1>1, FS_EmptySet DEF Count

LEMMA CountAppend ==
    ASSUME NEW l \in Seq(Changelog), NEW c \in Changelog, NEW s, c[1] # s
    PROVE  Count(s, Append(l, c)) = Count(s, l)
<1>1. PICK m : m = Append(l, c)
  OBVIOUS
<1>2. /\ m \in Seq(Changelog) /\ Len(l) \in Nat /\ Len(m) = Len(l) + 1 /\ m[Len(l) + 1] = c
      /\ \A i \in 1 .. Len(l) : m[i] = l[i]
  BY <1>1, AppendIs
<1>3. Num(m, s, Len(l) + 1) = Num(m, s, Len(l))
  BY <1>2, NumFacts
<1>4. Num(m, s, Len(l)) = Num(l, s, Len(l))
  BY <1>2, NumSame
<1>5. Count(s, m) = Num(m, s, Len(l) + 1) /\ Count(s, l) = Num(l, s, Len(l))
  BY <1>2, CountIsNum
<1> QED BY <1>1, <1>3, <1>4, <1>5

LEMMA LogInit ==
    ASSUME Init
    PROVE  LogInv
<1>1. <<>> \in Seq(Changelog) /\ DOMAIN <<>> = {}
  BY EmptyIs
<1>2. log = <<>> /\ applying = 0
  BY DEF Init
<1>3. Numbered(<<>>)
  BY <1>1 DEF Numbered
<1> QED BY <1>2, <1>3 DEF LogInv

\* Both ways the log grows.
LEMMA LogGrows ==
    ASSUME TypeInv, LogInv, EndAsw \/ OwnWrite
    PROVE  \E z \in Changelog :
              /\ log' = Append(log, z) /\ Numbered(log') /\ z \notin ToSet(log)
              /\ EndAsw => z = <<"asw", applying>>
              /\ OwnWrite => z = <<"csw", Count("csw", log) + 1>>
<1>1. log \in Seq(Changelog) /\ applying \in 0 .. MaxAsw
  BY DEF TypeInv
<1>2. MaxAsw \in Nat /\ MaxCsw \in Nat
  BY ClientSyncAssumption
<1>3. Count("asw", log) \in Nat /\ Count("csw", log) \in Nat
  BY <1>1, CountIsNum
<1>4. Numbered(log)
  BY DEF LogInv
<1>5. CASE EndAsw
  <2>1. PICK z : z = <<"asw", applying>>
    OBVIOUS
  <2>2. z \in Changelog /\ applying # 0
    BY <1>1, <1>2, <1>5, <2>1 DEF EndAsw, Changelog
  <2>3. z = <<"asw", Count("asw", log) + 1>> /\ "asw" \in Stream
    BY <2>1, <2>2 DEF LogInv, Stream
  <2>4. Numbered(Append(log, z)) /\ z \notin ToSet(log)
    BY <1>4, <2>2, <2>3, NextChangelog
  <2>5. log' = Append(log, z)
    BY <1>5, <2>1 DEF EndAsw
  <2>6. ~ OwnWrite
    <3>1. ASSUME OwnWrite PROVE FALSE
      <4>1. turn' = turn /\ turn' = Append(turn, Push(<<"csw", Count("csw", log) + 1>>))
        BY <1>5, <3>1 DEF EndAsw, OwnWrite
      <4>2. <<"csw", Count("csw", log) + 1>> \in Changelog
        BY <1>2, <1>3, <3>1 DEF OwnWrite, Changelog
      <4>3. turn \in Seq(Message) /\ Push(<<"csw", Count("csw", log) + 1>>) \in Message
        BY <4>2, PushIs DEF TypeInv
      <4>4. PICK e \in Message : e = Push(<<"csw", Count("csw", log) + 1>>)
        BY <4>3
      <4>5. Len(Append(turn, e)) = Len(turn) + 1 /\ Len(turn) \in Nat
        BY <4>3, AppendIs
      <4> QED BY <4>1, <4>4, <4>5
    <3> QED BY <3>1
  <2> QED BY <2>1, <2>2, <2>4, <2>5, <2>6
<1>6. CASE OwnWrite /\ ~ EndAsw
  <2>1. PICK z : z = <<"csw", Count("csw", log) + 1>>
    OBVIOUS
  <2>2. z \in Changelog /\ Count("asw", log) > 0
    BY <1>2, <1>3, <1>6, <2>1 DEF OwnWrite, Changelog
  <2>3. log # <<>>
    BY <1>3, <2>2, CountEmpty
  <2>4. Numbered(Append(log, z)) /\ z \notin ToSet(log)
    <3>1. "csw" \in Stream
      BY DEF Stream
    <3> QED BY <1>4, <2>1, <2>2, <2>3, <3>1, NextChangelog
  <2>5. log' = Append(log, z)
    BY <1>6, <2>1 DEF OwnWrite
  <2> QED BY <1>6, <2>1, <2>2, <2>4, <2>5
<1> QED BY <1>5, <1>6

LEMMA LogStep ==
    ASSUME TypeInv, LogInv, [Next]_vars
    PROVE  LogInv'
<1>1. log \in Seq(Changelog) /\ applying \in 0 .. MaxAsw
  BY DEF TypeInv
<1>2. CASE EndAsw
  <2>1. Numbered(log') /\ applying' = 0
    BY <1>2, LogGrows DEF EndAsw
  <2> QED BY <2>1 DEF LogInv
<1>3. CASE OwnWrite
  <2>1. PICK z \in Changelog :
              /\ log' = Append(log, z) /\ Numbered(log')
              /\ z = <<"csw", Count("csw", log) + 1>>
    BY <1>3, LogGrows
  <2>2. Count("asw", Append(log, z)) = Count("asw", log)
    <3>1. z[1] # "asw"
      BY <2>1
    <3> QED BY <1>1, <3>1, CountAppend
  <2>3. Count("asw", log') = Count("asw", log) /\ applying' = applying
    BY <1>3, <2>1, <2>2 DEF OwnWrite
  <2> QED BY <2>1, <2>3 DEF LogInv
<1>4. CASE BeginAsw
  BY <1>4 DEF BeginAsw, LogInv
<1>5. CASE UNCHANGED <<log, applying>>
  BY <1>5 DEF LogInv
<1>6. CASE UNCHANGED vars \/ EndTurn \/ Relay
  BY <1>5, <1>6 DEF vars, csworker, EndTurn, Relay
<1>7. CASE \E g \in Guest : Join(g) \/ ReadState(g) \/ HandleAnswer(g)
  BY <1>5, <1>7, SMTT(30) DEF Join, ReadState, HandleAnswer, HandleNothing, HandleState, HandleStateThrows, csworker
<1>8. CASE \E c \in Client : HandleChangelog(c)
  BY <1>5, <1>8 DEF HandleChangelog, Postpone, Refuse, HandleThrows, Handle, csworker
<1> QED BY <1>2, <1>3, <1>4, <1>6, <1>7, <1>8 DEF Next

LEMMA WindowInit ==
    ASSUME Init, NEW c \in Client
    PROVE  Window(c)
<1>1. /\ log = <<>> /\ turn = <<>> /\ ipc = <<>> /\ socket[c] = <<>> /\ answer[c] = {}
      /\ shows[c] = <<>> /\ upset[c] = "no" /\ lost[c] = {}
      /\ \A s \in Stream : next[c][s] = 1 /\ pending[c][s] = <<>>
  BY DEF Init
<1>2. /\ \A E : <<>> \in Seq(E)
      /\ ToSet(<<>>) = {} /\ Len(<<>>) = 0 /\ DOMAIN <<>> = {}
  BY EmptyIs
<1>3. Sent(<<>>) = {} /\ States(<<>>, c) = {} /\ Single(<<>>, c)
  BY <1>2 DEF Sent, States, Single
<1>4. InLine(<<>>, <<>>, <<>>, <<>>)
  BY <1>2, <1>3 DEF InLine, Spaced
<1>5. Lined(c)
  BY <1>1, <1>4 DEF Lined
<1>6. OneAnswer(c)
  BY <1>1, <1>3 DEF OneAnswer, Awaited
<1>7. StatesFit(c)
  BY <1>1, <1>3 DEF StatesFit, Answers
<1>8. PICK C : C = Coming(c)
  OBVIOUS
<1>9. Kept(<<>>, C, pending[c])
  BY <1>1, <1>2 DEF Kept, Sorted
<1>10. InSync(<<>>, C, <<>>, next[c], pending[c])
  <2>1. IsPrefix(<<>>, <<>>)
    <3>1. PICK e \in Seq(Changelog) : e = <<>> /\ Len(e) = 0
      BY <1>2
    <3>2. Len(e) <= Len(e) /\ \A i \in 1 .. Len(e) : e[i] = e[i]
      BY <3>1
    <3>3. IsPrefix(e, e)
      BY <3>2, BeginningIs
    <3> QED BY <3>1, <3>3
  <2>2. pending[c]["asw"] = <<>> /\ pending[c]["csw"] = <<>>
    BY <1>1 DEF Stream
  <2> QED BY <1>1, <1>2, <2>1, <2>2, CountEmpty DEF InSync
<1>11. InTouch(c)
  BY <1>1, <1>8, <1>9, <1>10 DEF InTouch, Follows
<1> QED BY <1>5, <1>6, <1>7, <1>11 DEF Window

\* A window that a step does not concern.
LEMMA WindowStands ==
    ASSUME NEW c \in Client, Window(c), log' = log, turn' = turn, ipc' = ipc,
           socket'[c] = socket[c], answer'[c] = answer[c], mode'[c] = mode[c],
           next'[c] = next[c], pending'[c] = pending[c], shows'[c] = shows[c],
           lost'[c] = lost[c], upset'[c] = upset[c]
    PROVE  Window(c)'
<1>1. Lined(c)'
  BY DEF Window, Lined
<1>2. OneAnswer(c)'
  BY DEF Window, OneAnswer
<1>3. StatesFit(c)'
  BY DEF Window, StatesFit, Answers, Coming
<1>4. InTouch(c)'
  BY DEF Window, InTouch, Coming
<1> QED BY <1>1, <1>2, <1>3, <1>4 DEF Window

\* A window that has the same changelogs and states to come as before.
LEMMA ViewStands ==
    ASSUME NEW c \in Client, Window(c), log' = log,
           Coming(c)' = Coming(c), Answers(c)' \subseteq Answers(c), mode'[c] = mode[c],
           next'[c] = next[c], pending'[c] = pending[c], shows'[c] = shows[c],
           lost'[c] = lost[c], upset'[c] = upset[c]
    PROVE  StatesFit(c)' /\ InTouch(c)'
<1>1. StatesFit(c)'
  BY DEF Window, StatesFit
<1>2. InTouch(c)'
  BY DEF Window, InTouch
<1> QED BY <1>1, <1>2

\* The types of what a window has.
LEMMA WindowIs ==
    ASSUME TypeInv, NEW c \in Client
    PROVE  /\ turn \in Seq(Message) /\ ipc \in Seq(Message) /\ socket[c] \in Seq(Changelog)
           /\ pending[c] \in [Stream -> Seq(Nat)] /\ shows[c] \in Seq(Changelog)
           /\ \A a \in Answers(c) : a \in StateMsg /\ a.log \in Seq(Changelog)
<1>1. /\ turn \in Seq(Message) /\ ipc \in Seq(Message) /\ socket[c] \in Seq(Changelog)
      /\ pending[c] \in [Stream -> Seq(Nat)] /\ shows[c] \in Seq(Changelog)
      /\ answer[c] \subseteq StateMsg
  BY DEF TypeInv, WindowTypes
<1>2. \A a \in Answers(c) : a \in StateMsg
  BY <1>1 DEF Answers, States
<1>3. \A a \in StateMsg : a.log \in Seq(Changelog)
  BY DEF StateMsg
<1> QED BY <1>1, <1>2, <1>3

\* A window to which one more changelog is on its way.
LEMMA ViewGrows ==
    ASSUME TypeInv, LogInv, NEW c \in Client, Window(c),
           NEW z \in Changelog, z \notin ToSet(log), log' = Append(log, z), Numbered(log'),
           Coming(c)' = Coming(c) \cup {z}, Answers(c)' = Answers(c),
           UNCHANGED <<mode, next, pending, shows, lost, upset>>
    PROVE  StatesFit(c)' /\ InTouch(c)'
<1>1. Numbered(log) /\ Numbered(Append(log, z))
  BY DEF LogInv
<1>2. PICK C : C = Coming(c)
  OBVIOUS
<1>3. StatesFit(c)'
  <2>1. ASSUME NEW a \in Answers(c)
        PROVE  Fits(a.log, Append(log, z), C \cup {z}, shows[c], next[c], pending[c], lost[c])
    <3>1. a.log \in Seq(Changelog)
      BY WindowIs
    <3>2. Fits(a.log, log, C, shows[c], next[c], pending[c], lost[c])
      BY <1>2, <2>1 DEF Window, StatesFit
    <3> QED BY <1>1, <3>1, <3>2, FitsMore
  <2> QED BY <1>2, <2>1 DEF StatesFit
<1>4. InTouch(c)'
  <2>1. ASSUME upset[c] = "no"
        PROVE  Follows(Append(log, z), C \cup {z}, shows[c], next[c], pending[c], mode[c])
    <3>1. Follows(log, C, shows[c], next[c], pending[c], mode[c])
      BY <1>2, <2>1 DEF Window, InTouch
    <3> QED BY <1>1, <3>1, FollowsMore
  <2> QED BY <1>2, <2>1 DEF Window, InTouch
<1> QED BY <1>3, <1>4

LEMMA EndAswKeeps ==
    ASSUME TypeInv, LogInv, EndAsw, NEW c \in Client, Window(c)
    PROVE  Window(c)'
<1>1. PICK z \in Changelog : /\ log' = Append(log, z) /\ Numbered(log') /\ z \notin ToSet(log)
                             /\ z = <<"asw", applying>>
  BY LogGrows
<1>2. /\ turn = <<>> /\ ipc' = Append(ipc, Push(z))
      /\ UNCHANGED <<turn, mode, socket, answer, next, pending, shows, lost, upset>>
  BY <1>1 DEF EndAsw, view
<1>3. ipc \in Seq(Message) /\ socket[c] \in Seq(Changelog) /\ Push(z) \in Message /\ Push(z) \notin StateMsg
  <2>1. ipc \in Seq(Message) /\ socket[c] \in Seq(Changelog)
    BY WindowIs
  <2> QED BY <2>1, PushIs, PushIsNoState
<1>4. /\ InLine(Append(log, z), socket[c], Append(ipc, Push(z)), <<>>)
      /\ All(socket[c], Append(ipc, Push(z)), <<>>) = All(socket[c], ipc, <<>>) \cup {z}
  <2>1. InLine(log, socket[c], ipc, <<>>) /\ Numbered(log)
    BY <1>2 DEF Window, Lined, LogInv
  <2> QED BY <1>1, <1>3, <2>1, LineEnds
<1>5. Lined(c)'
  BY <1>1, <1>2, <1>4 DEF Window, Lined
<1>6. Coming(c)' = Coming(c) \cup {z}
  BY <1>2, <1>4 DEF Coming
<1>7. States(ipc', c) = States(ipc, c) /\ (Single(ipc, c) => Single(ipc', c))
  BY <1>2, <1>3, StatesAppend
<1>8. OneAnswer(c)'
  BY <1>2, <1>7 DEF Window, OneAnswer, Awaited
<1>9. Answers(c)' = Answers(c)
  BY <1>2, <1>7 DEF Answers
<1>10. StatesFit(c)' /\ InTouch(c)'
  BY <1>1, <1>2, <1>6, <1>9, ViewGrows
<1> QED BY <1>5, <1>8, <1>10 DEF Window

LEMMA OwnWriteKeeps ==
    ASSUME TypeInv, LogInv, OwnWrite, NEW c \in Client, Window(c)
    PROVE  Window(c)'
<1>1. PICK z \in Changelog : /\ log' = Append(log, z) /\ Numbered(log') /\ z \notin ToSet(log)
                             /\ z = <<"csw", Count("csw", log) + 1>>
  BY LogGrows
<1>2. /\ turn' = Append(turn, Push(z))
      /\ UNCHANGED <<ipc, mode, socket, answer, next, pending, shows, lost, upset>>
  BY <1>1 DEF OwnWrite, view
<1>3. /\ ipc \in Seq(Message) /\ turn \in Seq(Message) /\ socket[c] \in Seq(Changelog)
      /\ Push(z) \in Message /\ Push(z) \notin StateMsg
  <2>1. ipc \in Seq(Message) /\ turn \in Seq(Message) /\ socket[c] \in Seq(Changelog)
    BY WindowIs
  <2> QED BY <2>1, PushIs, PushIsNoState
<1>4. /\ InLine(Append(log, z), socket[c], ipc, Append(turn, Push(z)))
      /\ All(socket[c], ipc, Append(turn, Push(z))) = All(socket[c], ipc, turn) \cup {z}
  <2>1. InLine(log, socket[c], ipc, turn) /\ Numbered(log)
    BY <1>2 DEF Window, Lined, LogInv
  <2>2. z[1] = "csw" /\ z \notin ToSet(log)
    BY <1>1
  <2>3. PICK S \in Seq(Changelog) : S = socket[c]
    BY <1>3
  <2>4. InLine(log, S, ipc, turn)
    BY <2>1, <2>3
  <2>5. ipc \in Seq(Message) /\ turn \in Seq(Message)
    BY <1>3
  <2>6. /\ InLine(Append(log, z), S, ipc, Append(turn, Push(z)))
        /\ All(S, ipc, Append(turn, Push(z))) = All(S, ipc, turn) \cup {z}
    BY <2>1, <2>2, <2>4, <2>5, LineWrites
  <2> QED BY <2>3, <2>6
<1>5. Lined(c)'
  BY <1>1, <1>2, <1>4 DEF Window, Lined
<1>6. Coming(c)' = Coming(c) \cup {z}
  BY <1>2, <1>4 DEF Coming
<1>7. States(turn', c) = States(turn, c) /\ (Single(turn, c) => Single(turn', c))
  BY <1>2, <1>3, StatesAppend
<1>8. OneAnswer(c)'
  BY <1>2, <1>7 DEF Window, OneAnswer, Awaited
<1>9. Answers(c)' = Answers(c)
  BY <1>2, <1>7 DEF Answers
<1>10. StatesFit(c)' /\ InTouch(c)'
  BY <1>1, <1>2, <1>6, <1>9, ViewGrows
<1> QED BY <1>5, <1>8, <1>10 DEF Window

LEMMA EndTurnKeeps ==
    ASSUME TypeInv, LogInv, EndTurn, NEW c \in Client, Window(c)
    PROVE  Window(c)'
<1>1. /\ ipc' = ipc \o Reverse(turn) /\ turn' = <<>>
      /\ UNCHANGED <<log, mode, socket, answer, next, pending, shows, lost, upset>>
  BY DEF EndTurn, view
<1>2. ipc \in Seq(Message) /\ turn \in Seq(Message) /\ Numbered(log)
  BY WindowIs DEF LogInv
<1>3. /\ InLine(log, socket[c], ipc \o Reverse(turn), <<>>)
      /\ All(socket[c], ipc \o Reverse(turn), <<>>) = All(socket[c], ipc, turn)
  <2>1. InLine(log, socket[c], ipc, turn)
    BY DEF Window, Lined
  <2> QED BY <1>2, <2>1, LineLeaves
<1>4. Lined(c)'
  BY <1>1, <1>3 DEF Window, Lined
<1>5. Coming(c)' = Coming(c)
  BY <1>1, <1>3 DEF Coming
<1>6. /\ States(ipc \o Reverse(turn), c) = States(ipc, c) \cup States(turn, c)
      /\ /\ Single(ipc, c) /\ Single(turn, c)
         /\ States(ipc, c) = {} \/ States(turn, c) = {}
         => Single(ipc \o Reverse(turn), c)
  BY <1>2, StatesReverse
<1>7. States(<<>>, c) = {} /\ Single(<<>>, c)
  BY EmptyIs DEF States, Single
<1>8. OneAnswer(c)'
  <2>1. Awaited(mode[c], turn, ipc, answer[c], c)
    BY DEF Window, OneAnswer
  <2>2. Awaited(mode[c], <<>>, ipc \o Reverse(turn), answer[c], c)
    BY <1>6, <1>7, <2>1 DEF Awaited
  <2> QED BY <1>1, <2>2 DEF OneAnswer
<1>9. Answers(c)' \subseteq Answers(c)
  BY <1>1, <1>6, <1>7 DEF Answers
<1>10. StatesFit(c)' /\ InTouch(c)'
  BY <1>1, <1>5, <1>9, ViewStands
<1> QED BY <1>4, <1>8, <1>10 DEF Window

\* The state a guest is given is the whole log.
LEMMA FitsAll ==
    ASSUME NEW l, Numbered(l), NEW C, NEW sh, NEW nx, NEW p, NEW x
    PROVE  Fits(l, l, C, sh, nx, p, x)
<1>1. l \in Seq(Changelog) /\ Len(l) \in Nat
  BY LogTypes DEF Numbered
<1>2. IsPrefix(l, l)
  <2>1. Len(l) <= Len(l) /\ \A i \in 1 .. Len(l) : l[i] = l[i]
    BY <1>1
  <2> QED BY <1>1, <2>1, BeginningIs
<1>3. Behind(l, C, sh, nx) => l # <<>>
  BY DEF Behind
<1>4. Len(l) + 1 .. Len(l) = {}
  BY <1>1
<1> QED BY <1>2, <1>3, <1>4 DEF Fits

\* Only that it has handled a state matters to what a window follows.
LEMMA FollowsStill ==
    ASSUME NEW l, NEW C, NEW sh, NEW nx, NEW p, NEW m, Follows(l, C, sh, nx, p, m), NEW n, n # "in"
    PROVE  Follows(l, C, sh, nx, p, n)
BY DEF Follows

LEMMA JoinKeeps ==
    ASSUME TypeInv, NEW g \in Guest, Join(g), NEW c \in Client, Window(c)
    PROVE  Window(c)'
<1>1. /\ mode[g] = "out" /\ mode' = [mode EXCEPT ![g] = "asking"]
      /\ UNCHANGED <<log, turn, ipc, socket, answer, next, pending, shows, lost, upset>>
  BY DEF Join, csworker, view
<1>2. mode \in [Client -> {"out", "asking", "answered", "in"}]
  BY DEF TypeInv, WindowTypes
<1>3. CASE c # g
  <2>1. mode'[c] = mode[c]
    BY <1>1, <1>2, <1>3
  <2> QED BY <1>1, <2>1, WindowStands
<1>4. CASE c = g
  <2>1. mode[c] = "out" /\ mode'[c] = "asking"
    BY <1>1, <1>2, <1>4
  <2>2. Lined(c)'
    BY <1>1, <2>1 DEF Window, Lined
  <2>3. OneAnswer(c)'
    BY <1>1, <2>1 DEF Window, OneAnswer, Awaited
  <2>4. StatesFit(c)'
    BY <1>1 DEF Window, StatesFit, Answers, Coming
  <2>5. PICK C : C = Coming(c)
    OBVIOUS
  <2>6. upset[c] = "no" /\ Follows(log, C, shows[c], next[c], pending[c], mode[c])
    BY <2>1, <2>5 DEF Window, InTouch
  <2>7. Follows(log, C, shows[c], next[c], pending[c], "asking")
    BY <2>6, FollowsStill
  <2>8. Coming(c)' = C
    BY <1>1, <2>5 DEF Coming
  <2>9. InTouch(c)'
    BY <1>1, <2>1, <2>6, <2>7, <2>8 DEF InTouch
  <2> QED BY <2>2, <2>3, <2>4, <2>9 DEF Window
<1> QED BY <1>3, <1>4

LEMMA ReadStateKeeps ==
    ASSUME TypeInv, LogInv, NEW g \in Guest, ReadState(g), NEW c \in Client, Window(c)
    PROVE  Window(c)'
<1>1. PICK m : m = [kind |-> "state", to |-> g, log |-> log, half |-> applying]
  OBVIOUS
<1>2. /\ mode[g] = "asking" /\ mode' = [mode EXCEPT ![g] = "answered"] /\ turn' = Append(turn, m)
      /\ UNCHANGED <<log, ipc, socket, answer, next, pending, shows, lost, upset>>
  BY <1>1 DEF ReadState, view
<1>3. /\ mode \in [Client -> {"out", "asking", "answered", "in"}]
      /\ log \in Seq(Changelog) /\ applying \in 0 .. MaxAsw /\ turn \in Seq(Message)
  BY DEF TypeInv, WindowTypes
<1>4. m \in StateMsg /\ m \in Message /\ m.to = g /\ m.log = log
  BY <1>1, <1>3 DEF Message, StateMsg
<1>5. /\ InLine(log, socket[c], ipc, Append(turn, m))
      /\ All(socket[c], ipc, Append(turn, m)) = All(socket[c], ipc, turn)
  <2>1. InLine(log, socket[c], ipc, turn)
    BY DEF Window, Lined
  <2> QED BY <1>3, <1>4, <2>1, LineReads
<1>6. Coming(c)' = Coming(c)
  BY <1>2, <1>5 DEF Coming
<1>7. CASE c # g
  <2>1. mode'[c] = mode[c]
    BY <1>2, <1>3, <1>7
  <2>2. Lined(c)'
    BY <1>2, <1>5, <2>1 DEF Window, Lined
  <2>3. States(turn', c) = States(turn, c) /\ (Single(turn, c) => Single(turn', c))
    BY <1>2, <1>3, <1>4, <1>7, StatesAppend
  <2>4. OneAnswer(c)'
    BY <1>2, <2>1, <2>3 DEF Window, OneAnswer, Awaited
  <2>5. Answers(c)' \subseteq Answers(c)
    BY <1>2, <2>3 DEF Answers
  <2>6. StatesFit(c)' /\ InTouch(c)'
    BY <1>2, <1>6, <2>1, <2>5, ViewStands
  <2> QED BY <2>2, <2>4, <2>6 DEF Window
<1>8. CASE c = g
  <2>1. mode[c] = "asking" /\ mode'[c] = "answered"
    BY <1>2, <1>3, <1>8
  <2>2. Lined(c)'
    BY <1>2, <1>5, <2>1 DEF Lined
  <2>3. /\ States(turn, c) = {} /\ States(ipc, c) = {} /\ answer[c] = {} /\ Single(ipc, c)
    BY <2>1 DEF Window, OneAnswer, Awaited
  <2>4. States(turn', c) = {m} /\ Single(turn', c)
    <3>1. turn \in Seq(Message) /\ m \in Message /\ m \in StateMsg /\ m.to = c
      BY <1>3, <1>4, <1>8
    <3>2. /\ States(Append(turn, m), c) = States(turn, c) \cup {m}
          /\ States(turn, c) = {} => Single(Append(turn, m), c)
      BY <3>1, StatesAppend
    <3> QED BY <1>2, <2>3, <3>2
  <2>5. OneAnswer(c)'
    BY <1>2, <2>1, <2>3, <2>4 DEF OneAnswer, Awaited
  <2>6. Answers(c)' = {m}
    BY <1>2, <2>3, <2>4 DEF Answers
  <2>7. PICK C : C = Coming(c)
    OBVIOUS
  <2>8. StatesFit(c)'
    <3>1. Fits(log, log, C, shows[c], next[c], pending[c], lost[c])
      BY FitsAll DEF LogInv
    <3> QED BY <1>2, <1>4, <1>6, <2>6, <2>7, <3>1 DEF StatesFit
  <2>9. upset[c] = "no" /\ Follows(log, C, shows[c], next[c], pending[c], mode[c])
    BY <2>1, <2>7 DEF Window, InTouch
  <2>10. Follows(log, C, shows[c], next[c], pending[c], "answered")
    BY <2>9, FollowsStill
  <2>11. InTouch(c)'
    BY <1>2, <1>6, <2>1, <2>7, <2>9, <2>10 DEF InTouch
  <2> QED BY <2>2, <2>5, <2>8, <2>11 DEF Window
<1> QED BY <1>7, <1>8

\* The session manager relays changelog x.
LEMMA RelaysOne ==
    ASSUME NEW l, NEW S \in Seq(Changelog), NEW I \in Seq(Message), I # <<>>, NEW U, InLine(l, S, I, U),
           NEW x \in Changelog, Head(I) = Push(x)
    PROVE  Relayed(l, S, I, U, x) /\ InLine(l, S, Tail(I), U)
BY LineRelays

\* A guest that is not registered misses what is relayed.
LEMMA MissedKeeps ==
    ASSUME TypeInv, LogInv, NEW c \in Client, Window(c), mode[c] = "out",
           NEW x \in Changelog, ipc # <<>>, Head(ipc) = Push(x), ipc' = Tail(ipc),
           UNCHANGED <<log, turn, mode, next, pending, shows, lost, upset>>, answer' = answer,
           socket'[c] = socket[c]
    PROVE  Window(c)'
<1>1. /\ turn \in Seq(Message) /\ ipc \in Seq(Message) /\ socket[c] \in Seq(Changelog) /\ Numbered(log)
      /\ Head(ipc) \notin StateMsg
  <2>1. /\ turn \in Seq(Message) /\ ipc \in Seq(Message) /\ socket[c] \in Seq(Changelog)
    BY WindowIs
  <2>2. Push(x) \in Message /\ Push(x).kind = "push"
    BY PushIs
  <2>3. Head(ipc) \notin StateMsg
    BY <2>2, PushIsNoState
  <2> QED BY <2>1, <2>3 DEF LogInv
<1>2. socket[c] = <<>> /\ InLine(log, <<>>, ipc, turn)
  BY DEF Window, Lined
<1>3. <<>> \in Seq(Changelog)
  BY EmptyIs
<1>4. /\ InLine(log, <<>>, Tail(ipc), turn)
      /\ x \in All(<<>>, ipc, turn) /\ x \notin All(<<>>, Tail(ipc), turn)
      /\ All(<<>>, ipc, turn) = All(<<>>, Tail(ipc), turn) \cup {x}
      /\ \A y \in Sent(Tail(ipc)) : Apart(log, x, y)
  <2>1. PICK S \in Seq(Changelog) : S = <<>>
    BY <1>3
  <2>2. ipc \in Seq(Message)
    BY <1>1
  <2>3. InLine(log, S, ipc, turn)
    BY <1>2, <2>1
  <2>4. /\ InLine(log, S, Tail(ipc), turn)
        /\ x \in All(S, ipc, turn) /\ x \notin All(S, Tail(ipc), turn)
        /\ All(S, ipc, turn) = All(S, Tail(ipc), turn) \cup {x}
        /\ \A y \in Sent(Tail(ipc)) : Apart(log, x, y)
    <3>1. Relayed(log, S, ipc, turn, x) /\ InLine(log, S, Tail(ipc), turn)
      BY <2>2, <2>3, RelaysOne
    <3> QED BY <2>1, <3>1 DEF Relayed
  <2> QED BY <2>1, <2>4
<1>5. Lined(c)'
  BY <1>2, <1>4 DEF Lined
<1>6. States(Tail(ipc), c) = States(ipc, c) /\ (Single(ipc, c) => Single(Tail(ipc), c))
  BY <1>1, StatesTail
<1>7. OneAnswer(c)'
  BY <1>6 DEF Window, OneAnswer, Awaited
<1>8. StatesFit(c)'
  <2>1. States(turn, c) = {} /\ States(ipc, c) = {} /\ answer[c] = {}
    BY DEF Window, OneAnswer, Awaited
  <2>2. Answers(c)' = {}
    BY <1>6, <2>1 DEF Answers
  <2> QED BY <2>2 DEF StatesFit
<1>9. PICK C : C = All(<<>>, Tail(ipc), turn)
  OBVIOUS
<1>10. Coming(c) = C \cup {x} /\ Coming(c)' = C /\ x \notin C
  BY <1>2, <1>4, <1>9 DEF Coming
<1>11. x \in ToSet(log)
  BY <1>2, <1>4 DEF InLine, All
<1>12. \A y \in C : Apart(log, x, y)
  <2>1. ASSUME NEW y \in Sent(turn), y # x PROVE Apart(log, x, y)
    <3>1. Recent(log, y)
      BY <1>2 DEF InLine
    <3> QED BY <1>1, <2>1, <3>1, RecentIsApart
  <2>2. C = Sent(Tail(ipc)) \cup Sent(turn)
    BY <1>9, EmptyIs DEF All
  <2> QED BY <1>4, <1>10, <2>1, <2>2
<1>13. /\ upset[c] = "no" /\ shows[c] = <<>> /\ \A s \in Stream : pending[c][s] = <<>>
       /\ Follows(log, C \cup {x}, shows[c], next[c], pending[c], mode[c])
  BY <1>10 DEF Window, InTouch
<1>14. Follows(log, C, shows[c], next[c], pending[c], mode[c])
  <2>1. mode[c] # "in"
    OBVIOUS
  <2> QED BY <1>1, <1>10, <1>11, <1>12, <1>13, <2>1, FollowsMisses
<1>15. InTouch(c)'
  BY <1>10, <1>13, <1>14 DEF InTouch
<1> QED BY <1>5, <1>7, <1>8, <1>15 DEF Window

LEMMA RelayKeeps ==
    ASSUME TypeInv, LogInv, Relay, NEW c \in Client, Window(c)
    PROVE  Window(c)'
<1>1. PICK m : m = Head(ipc)
  OBVIOUS
<1>2. ipc # <<>> /\ ipc' = Tail(ipc) /\ UNCHANGED <<log, turn, mode, next, pending, shows, lost, upset>>
  BY DEF Relay, csworker, view
<1>3. /\ turn \in Seq(Message) /\ ipc \in Seq(Message) /\ socket[c] \in Seq(Changelog)
      /\ socket \in [Client -> Seq(Changelog)] /\ answer \in [Client -> SUBSET StateMsg]
  BY WindowIs DEF TypeInv, WindowTypes
<1>4. m \in Message
  BY <1>1, <1>2, <1>3, TailIs
<1>5. InLine(log, socket[c], ipc, turn) /\ (mode[c] = "out" => socket[c] = <<>>)
  BY DEF Window, Lined
<1>6. Awaited(mode[c], turn, ipc, answer[c], c)
  BY DEF Window, OneAnswer
<1>7. PICK S \in Seq(Changelog) : S = socket[c]
  BY <1>3
<1>8. CASE m.kind = "push"
  <2>1. PICK x \in Changelog : x = m.changelog /\ m = Push(x)
    BY <1>4, <1>8, MessageIs
  <2>2. /\ socket' = [d \in Client |-> IF mode[d] = "out" THEN socket[d] ELSE Append(socket[d], x)]
        /\ answer' = answer
    BY <1>1, <1>8, <2>1 DEF Relay
  <2>3. CASE mode[c] = "out"
    <3>1. socket'[c] = socket[c]
      BY <2>2, <2>3
    <3> QED BY <1>1, <1>2, <2>1, <2>2, <2>3, <3>1, MissedKeeps
  <2>4. CASE mode[c] # "out"
    <3>1. socket'[c] = Append(S, x)
      BY <1>7, <2>2, <2>4
    <3>2. /\ InLine(log, Append(S, x), Tail(ipc), turn)
          /\ All(Append(S, x), Tail(ipc), turn) = All(S, ipc, turn)
      <4>1. InLine(log, S, ipc, turn) /\ Head(ipc) = Push(x)
        BY <1>1, <1>5, <1>7, <2>1
      <4>2. ipc \in Seq(Message) /\ ipc # <<>>
        BY <1>2, <1>3
      <4>3. Relayed(log, S, ipc, turn, x)
        BY <4>1, <4>2, RelaysOne
      <4> QED BY <4>3 DEF Relayed
    <3>3. Lined(c)'
      BY <1>2, <2>4, <3>1, <3>2 DEF Lined
    <3>4. Coming(c)' = Coming(c)
      BY <1>2, <1>7, <3>1, <3>2 DEF Coming
    <3>5. States(Tail(ipc), c) = States(ipc, c) /\ (Single(ipc, c) => Single(Tail(ipc), c))
      <4>1. Head(ipc) \notin StateMsg
        BY <1>1, <1>4, <1>8, PushIsNoState
      <4> QED BY <1>2, <1>3, <4>1, StatesTail
    <3>6. OneAnswer(c)'
      BY <1>2, <1>6, <2>2, <3>5 DEF OneAnswer, Awaited
    <3>7. Answers(c)' \subseteq Answers(c)
      BY <1>2, <2>2, <3>5 DEF Answers
    <3>8. mode'[c] = mode[c] /\ next'[c] = next[c] /\ pending'[c] = pending[c] /\ shows'[c] = shows[c]
          /\ lost'[c] = lost[c] /\ upset'[c] = upset[c] /\ log' = log
      BY <1>2
    <3>9. StatesFit(c)' /\ InTouch(c)'
      BY <3>4, <3>7, <3>8, ViewStands
    <3> QED BY <3>3, <3>6, <3>9 DEF Window
  <2> QED BY <2>3, <2>4
<1>9. CASE m.kind # "push"
  <2>1. m \in StateMsg
    BY <1>4, <1>9, PushIsNoState
  <2>2. socket' = socket /\ answer' = [answer EXCEPT ![m.to] = {m}]
    BY <1>1, <1>9 DEF Relay
  <2>3. /\ InLine(log, S, Tail(ipc), turn)
        /\ All(S, Tail(ipc), turn) = All(S, ipc, turn)
    <3>1. InLine(log, S, ipc, turn) /\ Head(ipc).kind # "push"
      BY <1>1, <1>5, <1>7, <1>9
    <3>2. ipc \in Seq(Message) /\ ipc # <<>>
      BY <1>2, <1>3
    <3> QED BY <3>1, <3>2, LineRelays
  <2>4. Lined(c)'
    BY <1>2, <1>5, <1>7, <2>2, <2>3 DEF Lined
  <2>5. Coming(c)' = Coming(c)
    BY <1>2, <1>7, <2>2, <2>3 DEF Coming
  <2>6. Single(ipc, c) => Single(Tail(ipc), c)
    BY <1>2, <1>3, StatesTail
  <2>7. OneAnswer(c)' /\ Answers(c)' \subseteq Answers(c)
    <3>1. CASE m.to = c
      <4>1. States(ipc, c) = {m} \cup States(Tail(ipc), c) /\ States(Tail(ipc), c) = {}
        <5>1. Single(ipc, c)
          BY <1>6 DEF Awaited
        <5>2. Head(ipc) \in StateMsg /\ Head(ipc).to = c
          BY <1>1, <2>1, <3>1
        <5> QED BY <1>1, <1>2, <1>3, <5>1, <5>2, StatesTail
      <4>2. answer'[c] = {m}
        BY <1>3, <2>2, <3>1
      <4>3. States(turn, c) = {} /\ mode[c] = "answered"
        BY <1>6, <4>1 DEF Awaited
      <4>4. Awaited(mode[c], turn, Tail(ipc), {m}, c)
        BY <1>6, <2>6, <4>1, <4>3 DEF Awaited
      <4> QED BY <1>2, <4>1, <4>2, <4>4 DEF OneAnswer, Answers
    <3>2. CASE m.to # c
      <4>1. States(Tail(ipc), c) = States(ipc, c)
        <5>1. Head(ipc).to # c
          BY <1>1, <3>2
        <5> QED BY <1>2, <1>3, <5>1, StatesTail
      <4>2. answer'[c] = answer[c]
        BY <1>3, <2>2, <3>2
      <4>3. Awaited(mode[c], turn, Tail(ipc), answer[c], c)
        BY <1>6, <2>6, <4>1 DEF Awaited
      <4> QED BY <1>2, <4>1, <4>2, <4>3 DEF OneAnswer, Answers
    <3> QED BY <3>1, <3>2
  <2>8. mode'[c] = mode[c] /\ next'[c] = next[c] /\ pending'[c] = pending[c] /\ shows'[c] = shows[c]
        /\ lost'[c] = lost[c] /\ upset'[c] = upset[c] /\ log' = log
    BY <1>2
  <2>9. StatesFit(c)' /\ InTouch(c)'
    BY <2>5, <2>7, <2>8, ViewStands
  <2> QED BY <2>4, <2>7, <2>9 DEF Window
<1> QED BY <1>8, <1>9

\* A window that takes a changelog from its socket.
Takes(c, s, n, C) ==
    /\ <<s, n>> \in Changelog /\ n = Head(socket[c])[2] /\ Head(socket[c]) = <<s, n>>
    /\ <<s, n>> \in ToSet(log) /\ <<s, n>> \notin C /\ \A y \in C : Apart(log, <<s, n>>, y)
    /\ Coming(c) = C \cup {<<s, n>>} /\ Coming(c)' = C
    /\ Lined(c)' /\ OneAnswer(c)' /\ Answers(c)' = Answers(c)

LEMMA TakesOne ==
    ASSUME TypeInv, LogInv, NEW c \in Client, NEW s \in Stream, Arrives(c, s), Window(c),
           UNCHANGED <<log, turn, ipc, mode, answer>>
    PROVE  \E n \in Nat : \E C : Takes(c, s, n, C)
<1>1. PICK n \in Nat :
              /\ n = Head(socket[c])[2] /\ Head(socket[c]) = <<s, n>> /\ <<s, n>> \in Changelog
              /\ socket[c] # <<>> /\ socket[c] \in Seq(Changelog)
              /\ socket' = [socket EXCEPT ![c] = Tail(socket[c])]
  BY ArrivesIs
<1>2. socket'[c] = Tail(socket[c])
  <2>1. socket \in [Client -> Seq(Changelog)]
    BY DEF TypeInv, WindowTypes
  <2> QED BY <1>1, <2>1
<1>3. PICK S \in Seq(Changelog) : S = socket[c] /\ S # <<>>
  BY <1>1
<1>4. PICK x : x = <<s, n>> /\ x = Head(S)
  BY <1>1, <1>3
<1>5. Numbered(log) /\ InLine(log, S, ipc, turn) /\ (mode[c] = "out" => S = <<>>)
  BY <1>3 DEF LogInv, Window, Lined
<1>6. PICK C : C = All(Tail(S), ipc, turn)
  OBVIOUS
<1>7. /\ InLine(log, Tail(S), ipc, turn)
      /\ x \notin C /\ x \in ToSet(log)
      /\ All(S, ipc, turn) = C \cup {x}
      /\ \A y \in C : Apart(log, x, y)
  BY <1>3, <1>4, <1>5, <1>6, LineTakes
<1>8. Lined(c)'
  BY <1>2, <1>3, <1>5, <1>7 DEF Lined
<1>9. Coming(c) = C \cup {x} /\ Coming(c)' = C
  BY <1>2, <1>3, <1>6, <1>7 DEF Coming
<1>10. OneAnswer(c)' /\ Answers(c)' = Answers(c)
  BY DEF Window, OneAnswer, Answers
<1>11. Takes(c, s, n, C)
  BY <1>1, <1>4, <1>7, <1>8, <1>9, <1>10 DEF Takes
<1> QED BY <1>11

\* What a window that takes a changelog has to keep.
LEMMA TakenKeeps ==
    ASSUME NEW c \in Client, NEW s, NEW n, NEW C, Takes(c, s, n, C), StatesFit(c)', InTouch(c)'
    PROVE  Window(c)'
BY DEF Takes, Window

LEMMA PostponeKeeps ==
    ASSUME TypeInv, LogInv, ~ Cloned, NEW c \in Client, NEW s \in Stream, Postpone(c, s), Window(c)
    PROVE  Window(c)'
<1>1. /\ Arrives(c, s) /\ Head(socket[c])[2] > next[c][s]
      /\ pending' = [pending EXCEPT ![c] =
                       [pending[c] EXCEPT ![s] = Later(pending[c][s], Head(socket[c])[2])]]
      /\ UNCHANGED <<log, turn, ipc, mode, answer, next, shows, lost, upset>>
  BY DEF Postpone, csworker
<1>2. PICK n \in Nat : \E C : Takes(c, s, n, C)
  BY <1>1, TakesOne
<1>3. PICK C : Takes(c, s, n, C)
  BY <1>2
<1>4. PICK p \in [Stream -> Seq(Nat)] : p = pending[c]
  BY WindowIs
<1>5. PICK q : q = [p EXCEPT ![s] = Later(p[s], n)]
  OBVIOUS
<1>6. PICK x \in Changelog : x = <<s, n>> /\ x[1] = s /\ x[2] = n
  BY <1>3 DEF Takes
<1>7. pending'[c] = q
  <2>1. pending \in [Client -> [Stream -> Seq(Nat)]] /\ n = Head(socket[c])[2]
    BY <1>3 DEF TypeInv, WindowTypes, Takes
  <2> QED BY <1>1, <1>4, <1>5, <2>1
<1>8. /\ x \in ToSet(log) /\ x \notin C /\ \A y \in C : Apart(log, x, y)
      /\ Coming(c) = C \cup {x} /\ Coming(c)' = C /\ Answers(c)' = Answers(c)
      /\ x[2] > next[c][x[1]]
  BY <1>1, <1>3, <1>6 DEF Takes
<1>9. q = [p EXCEPT ![x[1]] = Later(p[x[1]], x[2])]
  BY <1>5, <1>6
<1>10. Numbered(log)
  BY DEF LogInv
<1>11. StatesFit(c)'
  <2>1. ASSUME NEW a \in Answers(c)
        PROVE  Fits(a.log, log, C, shows[c], next[c], q, lost[c])
    <3>1. Fits(a.log, log, C \cup {x}, shows[c], next[c], p, lost[c])
      BY <1>4, <1>8, <2>1 DEF Window, StatesFit
    <3> QED BY <1>8, <1>9, <1>10, <3>1, FitsPostponed
  <2> QED BY <1>1, <1>7, <1>8, <2>1 DEF StatesFit
<1>12. InTouch(c)'
  <2>1. ASSUME upset[c] = "no"
        PROVE  Follows(log, C, shows[c], next[c], q, mode[c])
    <3>1. Follows(log, C \cup {x}, shows[c], next[c], p, mode[c])
      BY <1>4, <1>8, <2>1 DEF Window, InTouch
    <3> QED BY <1>8, <1>9, <1>10, <3>1, FollowsPostpones
  <2>2. mode[c] # "out"
    BY <1>1 DEF Window, Lined, Arrives
  <2>3. mode[c] # "in" => upset[c] = "no"
    BY DEF Window, InTouch
  <2> QED BY <1>1, <1>7, <1>8, <2>1, <2>2, <2>3 DEF InTouch
<1> QED BY <1>3, <1>11, <1>12, TakenKeeps

LEMMA RefuseKeeps ==
    ASSUME TypeInv, LogInv, ~ Cloned, NEW c \in Client, NEW s \in Stream, Refuse(c, s), Window(c)
    PROVE  Window(c)'
<1>1. /\ Arrives(c, s) /\ Head(socket[c])[2] < next[c][s]
      /\ UNCHANGED <<log, turn, ipc, mode, answer, next, pending, shows, lost, upset>>
  BY DEF Refuse, csworker, view
<1>2. PICK n \in Nat : \E C : Takes(c, s, n, C)
  BY <1>1, TakesOne
<1>3. PICK C : Takes(c, s, n, C)
  BY <1>2
<1>6. PICK x \in Changelog : x = <<s, n>> /\ x[1] = s /\ x[2] = n
  BY <1>3 DEF Takes
<1>8. /\ Coming(c) = C \cup {x} /\ Coming(c)' = C /\ Answers(c)' = Answers(c)
      /\ x[2] < next[c][x[1]]
  BY <1>1, <1>3, <1>6 DEF Takes
<1>10. Numbered(log)
  BY DEF LogInv
<1>11. StatesFit(c)'
  <2>1. ASSUME NEW a \in Answers(c)
        PROVE  Fits(a.log, log, C, shows[c], next[c], pending[c], lost[c])
    <3>1. Fits(a.log, log, C \cup {x}, shows[c], next[c], pending[c], lost[c])
      BY <1>8, <2>1 DEF Window, StatesFit
    <3> QED BY <1>8, <3>1, FitsRefused
  <2> QED BY <1>1, <1>8, <2>1 DEF StatesFit
<1>12. InTouch(c)'
  <2>1. ASSUME upset[c] = "no"
        PROVE  Follows(log, C, shows[c], next[c], pending[c], mode[c])
    <3>1. Follows(log, C \cup {x}, shows[c], next[c], pending[c], mode[c])
      BY <1>8, <2>1 DEF Window, InTouch
    <3> QED BY <1>8, <1>10, <3>1, FollowsRefuses
  <2>2. mode[c] # "out"
    BY <1>1 DEF Window, Lined, Arrives
  <2>3. mode[c] # "in" => upset[c] = "no"
    BY DEF Window, InTouch
  <2> QED BY <1>1, <1>8, <2>1, <2>2, <2>3 DEF InTouch
<1> QED BY <1>3, <1>11, <1>12, TakenKeeps

LEMMA ThrowsKeeps ==
    ASSUME TypeInv, LogInv, ~ Cloned, NEW c \in Client, NEW s \in Stream, HandleThrows(c, s), Window(c)
    PROVE  Window(c)'
<1>1. /\ Arrives(c, s) /\ s = "csw" /\ shows[c] = <<>>
      /\ lost' = [lost EXCEPT ![c] = lost[c] \cup {Head(socket[c])}]
      /\ UNCHANGED <<log, turn, ipc, mode, answer, next, pending, shows, upset>>
  BY DEF HandleThrows, Throws, csworker
<1>2. PICK n \in Nat : \E C : Takes(c, s, n, C)
  BY <1>1, TakesOne
<1>3. PICK C : Takes(c, s, n, C)
  BY <1>2
<1>6. PICK x \in Changelog : x = <<s, n>> /\ x[1] = "csw" /\ x = Head(socket[c])
  BY <1>1, <1>3 DEF Takes
<1>7. lost'[c] = lost[c] \cup {x}
  <2>1. lost \in [Client -> SUBSET Changelog]
    BY DEF TypeInv, WindowTypes
  <2> QED BY <1>1, <1>6, <2>1
<1>8. /\ x \in ToSet(log) /\ x \notin C /\ \A y \in C : Apart(log, x, y)
      /\ Coming(c) = C \cup {x} /\ Coming(c)' = C /\ Answers(c)' = Answers(c)
  BY <1>3, <1>6 DEF Takes
<1>10. Numbered(log)
  BY DEF LogInv
<1>11. StatesFit(c)'
  <2>1. ASSUME NEW a \in Answers(c)
        PROVE  Fits(a.log, log, C, shows[c], next[c], pending[c], lost[c] \cup {x})
    <3>1. Fits(a.log, log, C \cup {x}, shows[c], next[c], pending[c], lost[c])
      BY <1>8, <2>1 DEF Window, StatesFit
    <3> QED BY <1>6, <3>1, FitsThrown
  <2> QED BY <1>1, <1>7, <1>8, <2>1 DEF StatesFit
<1>12. InTouch(c)'
  <2>1. ASSUME upset[c] = "no"
        PROVE  Follows(log, C, shows[c], next[c], pending[c], mode[c])
    <3>1. Follows(log, C \cup {x}, shows[c], next[c], pending[c], mode[c])
      BY <1>8, <2>1 DEF Window, InTouch
    <3> QED BY <1>1, <1>6, <1>8, <1>10, <3>1, FollowsThrows
  <2>2. mode[c] # "out"
    BY <1>1 DEF Window, Lined, Arrives
  <2>3. mode[c] # "in" => upset[c] = "no"
    BY DEF Window, InTouch
  <2> QED BY <1>1, <1>8, <2>1, <2>2, <2>3 DEF InTouch
<1> QED BY <1>3, <1>11, <1>12, TakenKeeps

\* A handled changelog is shown, so the window is not behind: a state it fits only begins the log.
LEMMA FitsHandled ==
    ASSUME NEW a, NEW l, NEW C, NEW sh, NEW nx, NEW p, NEW x, Fits(a, l, C, sh, nx, p, x),
           NEW D, NEW h, h # <<>>, NEW ny, NEW q
    PROVE  Fits(a, l, D, h, ny, q, x)
BY DEF Fits, Behind

LEMMA HandleKeeps ==
    ASSUME TypeInv, LogInv, ~ Cloned, NEW c \in Client, NEW s \in Stream, Handle(c, s), Window(c)
    PROVE  Window(c)'
<1>1. /\ Arrives(c, s) /\ Head(socket[c])[2] = next[c][s] /\ IsNumbered(s)
      /\ s = "asw" \/ shows[c] # <<>>
      /\ UNCHANGED <<log, turn, ipc, mode, answer, lost, upset>>
  BY DEF Handle, IsNext, Throws, IsNumbered, Stream, csworker
<1>2. PICK n \in Nat : \E C : Takes(c, s, n, C)
  BY <1>1, TakesOne
<1>3. PICK C : Takes(c, s, n, C)
  BY <1>2
<1>4. n = Head(socket[c])[2] /\ <<s, n>> \in Changelog /\ n = next[c][s]
  BY <1>1, <1>3 DEF Takes
<1>5. PICK k \in Nat : /\ IsHandled(c, s, n, k)
                       /\ \A i \in 1 .. (k + 1) : <<s, n + i - 1>> \in Changelog
  BY <1>4, HandleIs
<1>6. PICK p \in [Stream -> Seq(Nat)] : p = pending[c]
  BY WindowIs
<1>7. PICK sh \in Seq(Changelog) : sh = shows[c]
  BY WindowIs
<1>8. PICK nx \in [Stream -> Nat] : nx = next[c]
  BY DEF TypeInv, WindowTypes
<1>9. PICK h : h = sh \o [i \in 1 .. (k + 1) |-> <<s, n + i - 1>>]
  OBVIOUS
<1>10. PICK q : q = [p EXCEPT ![s] = SubSeq(p[s], k + 1, Len(p[s]))]
  OBVIOUS
<1>11. PICK ny : ny = [nx EXCEPT ![s] = n + k + 1]
  OBVIOUS
<1>12. shows'[c] = h /\ pending'[c] = q /\ next'[c] = ny
  <2>1. /\ shows' = [shows EXCEPT ![c] = h]
        /\ pending' = [pending EXCEPT ![c] = q]
        /\ next' = [next EXCEPT ![c] = ny]
    BY <1>1, <1>5, <1>6, <1>7, <1>8, <1>9, <1>10, <1>11 DEF IsHandled
  <2>2. /\ shows \in [Client -> Seq(Changelog)] /\ pending \in [Client -> [Stream -> Seq(Nat)]]
        /\ next \in [Client -> [Stream -> Nat]]
    BY DEF TypeInv, WindowTypes
  <2> QED BY <2>1, <2>2
<1>13. Handles(sh, nx, p, s, n, k, h, ny, q)
  <2>1. k = Ready(p[s], n)
    BY <1>1, <1>5, <1>6 DEF IsHandled
  <2>2. \A t \in Stream : ny[t] = IF t = s THEN n + k + 1 ELSE nx[t]
    BY <1>11
  <2>3. \A t \in Stream : q[t] = IF t = s THEN SubSeq(p[s], k + 1, Len(p[s])) ELSE p[t]
    BY <1>10
  <2> QED BY <1>9, <2>1, <2>2, <2>3 DEF Handles
<1>14. h # <<>>
  <2>1. Extended(sh, s, n, k, h)
    BY <1>5, <1>9, HandledIs
  <2> QED BY <2>1 DEF Extended
<1>15. /\ <<s, n>> \in ToSet(log) /\ <<s, n>> \notin C /\ \A y \in C : Apart(log, <<s, n>>, y)
       /\ Coming(c) = C \cup {<<s, n>>} /\ Coming(c)' = C /\ Answers(c)' = Answers(c)
  BY <1>3 DEF Takes
<1>16. Numbered(log)
  BY DEF LogInv
<1>17. StatesFit(c)'
  <2>1. ASSUME NEW a \in Answers(c) PROVE Fits(a.log, log, C, h, ny, q, lost[c])
    <3>1. PICK D : D = Coming(c)
      OBVIOUS
    <3>2. Fits(a.log, log, D, shows[c], next[c], pending[c], lost[c])
      BY <3>1, <2>1 DEF Window, StatesFit
    <3> QED BY <1>14, <3>2, FitsHandled
  <2> QED BY <1>1, <1>12, <1>15, <2>1 DEF StatesFit
<1>18. InTouch(c)'
  <2>1. ASSUME upset[c] = "no"
        PROVE  Follows(log, C, h, ny, q, mode[c])
    <3>1. Follows(log, C \cup {<<s, n>>}, sh, nx, p, mode[c])
      BY <1>6, <1>7, <1>8, <1>15, <2>1 DEF Window, InTouch
    <3>2. n = nx[s] /\ (s = "asw" \/ sh # <<>>)
      BY <1>1, <1>4, <1>7, <1>8
    <3>3. <<s, n>> \in ToSet(log) /\ <<s, n>> \notin C /\ \A y \in C : Apart(log, <<s, n>>, y)
      BY <1>15
    <3> QED BY <1>13, <1>16, <3>1, <3>2, <3>3, FollowsHandles
  <2>2. mode[c] # "out"
    BY <1>1 DEF Window, Lined, Arrives
  <2>3. mode[c] # "in" => upset[c] = "no"
    BY DEF Window, InTouch
  <2> QED BY <1>1, <1>12, <1>15, <2>1, <2>2, <2>3 DEF InTouch
<1> QED BY <1>3, <1>17, <1>18, TakenKeeps

LEMMA ChangelogKeeps ==
    ASSUME TypeInv, LogInv, ~ Cloned, NEW d \in Client, HandleChangelog(d), NEW c \in Client, Window(c)
    PROVE  Window(c)'
<1>1. PICK s \in Stream : Postpone(d, s) \/ Refuse(d, s) \/ HandleThrows(d, s) \/ Handle(d, s)
  BY DEF HandleChangelog
<1>2. CASE d = c
  BY <1>1, <1>2, PostponeKeeps, RefuseKeeps, ThrowsKeeps, HandleKeeps
<1>3. CASE d # c
  <2>1. /\ socket \in [Client -> Seq(Changelog)] /\ next \in [Client -> [Stream -> Nat]]
        /\ pending \in [Client -> [Stream -> Seq(Nat)]]
        /\ shows \in [Client -> Seq(Changelog)] /\ lost \in [Client -> SUBSET Changelog]
    BY SMTT(30) DEF TypeInv, WindowTypes
  <2>2. UNCHANGED <<log, turn, ipc, mode, answer, upset>> /\ socket'[c] = socket[c]
    BY <1>1, <1>3, <2>1 DEF Postpone, Refuse, HandleThrows, Handle, Arrives, csworker, view
  <2>3. /\ next'[c] = next[c] /\ pending'[c] = pending[c]
        /\ shows'[c] = shows[c] /\ lost'[c] = lost[c]
    BY <1>1, <1>3, <2>1 DEF Postpone, Refuse, HandleThrows, Handle, view
  <2> QED BY <2>2, <2>3, WindowStands
<1> QED BY <1>2, <1>3

\* A guest handles the state that came, and no other is on its way.
LEMMA AnswerIs ==
    ASSUME TypeInv, NEW g \in Guest, HandleAnswer(g), Window(g)
    PROVE  /\ g \in Client /\ answer[g] # {} /\ mode[g] = "answered" /\ mode'[g] = "in"
           /\ UNCHANGED <<log, turn, ipc, socket, pending, lost>>
           /\ answer[g] \subseteq Answers(g) /\ Answers(g)' = {} /\ Coming(g)' = Coming(g)
           /\ Lined(g)' /\ OneAnswer(g)' /\ StatesFit(g)'
<1>1. /\ answer[g] # {} /\ answer' = [answer EXCEPT ![g] = {}] /\ mode' = [mode EXCEPT ![g] = "in"]
      /\ UNCHANGED <<log, turn, ipc, socket, pending, lost>>
  BY DEF HandleAnswer, HandleNothing, HandleState, HandleStateThrows, csworker, view
<1>2. /\ g \in Client /\ answer \in [Client -> SUBSET StateMsg]
      /\ mode \in [Client -> {"out", "asking", "answered", "in"}]
  BY DEF Client, TypeInv, WindowTypes
<1>3. answer'[g] = {} /\ mode'[g] = "in"
  BY <1>1, <1>2
<1>4. Awaited(mode[g], turn, ipc, answer[g], g)
  BY DEF Window, OneAnswer
<1>5. mode[g] = "answered" /\ States(turn, g) = {} /\ States(ipc, g) = {}
  BY <1>1, <1>4 DEF Awaited
<1>6. answer[g] \subseteq Answers(g) /\ Answers(g)' = {}
  BY <1>1, <1>3, <1>5 DEF Answers
<1>7. Coming(g)' = Coming(g)
  BY <1>1 DEF Coming
<1>8. Lined(g)'
  BY <1>1, <1>3 DEF Window, Lined
<1>9. OneAnswer(g)'
  <2>1. Awaited("in", turn, ipc, {}, g)
    BY <1>4, <1>5 DEF Awaited
  <2> QED BY <1>1, <1>3, <2>1 DEF OneAnswer
<1>10. StatesFit(g)'
  BY <1>6 DEF StatesFit
<1> QED BY <1>1, <1>2, <1>3, <1>5, <1>6, <1>7, <1>8, <1>9, <1>10

LEMMA NothingKeeps ==
    ASSUME TypeInv, NEW g \in Guest, HandleNothing(g), Window(g)
    PROVE  Window(g)'
<1>1. /\ g \in Client /\ mode[g] = "answered" /\ mode'[g] = "in"
      /\ answer[g] \subseteq Answers(g) /\ Coming(g)' = Coming(g)
      /\ Lined(g)' /\ OneAnswer(g)' /\ StatesFit(g)'
  BY AnswerIs DEF HandleAnswer
<1>2. PICK a \in answer[g] : a.log = <<>>
  BY DEF HandleNothing
<1>3. UNCHANGED <<log, next, pending, shows, lost, upset>>
  BY DEF HandleNothing, csworker, view
<1>4. PICK C : C = Coming(g)
  OBVIOUS
<1>5. Fits(<<>>, log, C, shows[g], next[g], pending[g], lost[g])
  <2>1. a \in Answers(g)
    BY <1>1, <1>2
  <2>2. Fits(a.log, log, C, shows[g], next[g], pending[g], lost[g])
    BY <1>4, <2>1 DEF Window, StatesFit
  <2> QED BY <1>2, <2>2
<1>6. upset[g] = "no" /\ Follows(log, C, shows[g], next[g], pending[g], mode[g])
  BY <1>1, <1>4 DEF Window, InTouch
<1>7. Follows(log, C, shows[g], next[g], pending[g], "in")
  BY <1>5, <1>6, SyncFromNothing
<1>8. InTouch(g)'
  BY <1>1, <1>3, <1>4, <1>7 DEF InTouch
<1> QED BY <1>1, <1>8 DEF Window

LEMMA StateKeeps ==
    ASSUME TypeInv, LogInv, NEW g \in Guest, HandleState(g), Window(g)
    PROVE  Window(g)'
<1>1. /\ g \in Client /\ mode[g] = "answered" /\ mode'[g] = "in"
      /\ UNCHANGED <<log, pending>>
      /\ answer[g] \subseteq Answers(g) /\ Coming(g)' = Coming(g)
      /\ Lined(g)' /\ OneAnswer(g)' /\ StatesFit(g)'
  BY AnswerIs DEF HandleAnswer
<1>2. PICK a \in answer[g] :
        /\ next' = [next EXCEPT ![g] = [s \in Stream |-> Count(s, a.log) + 1]]
        /\ shows' = [shows EXCEPT ![g] = a.log]
        /\ upset' = [upset EXCEPT ![g] = IF Overtaken(g, a.log) THEN "overtaken"
                                         ELSE IF a.half # 0 THEN "half" ELSE "no"]
  BY DEF HandleState
<1>3. \A s \in Stream : pending[g][s] = <<>>
  BY DEF HandleState
<1>4. /\ next \in [Client -> [Stream -> Nat]] /\ shows \in [Client -> Seq(Changelog)]
      /\ upset \in [Client -> {"no", "overtaken", "half", "threw"}]
  BY DEF TypeInv, WindowTypes
<1>5. PICK ny : ny = [s \in Stream |-> Count(s, a.log) + 1]
  OBVIOUS
<1>6. next'[g] = ny /\ shows'[g] = a.log
  BY <1>1, <1>2, <1>4, <1>5
<1>7. PICK C : C = Coming(g)
  OBVIOUS
<1>8. a \in Answers(g) /\ a.log \in Seq(Changelog)
  BY <1>1, WindowIs
<1>9. ASSUME upset'[g] = "no" PROVE Follows(log, C, a.log, ny, pending[g], "in")
  <2>1. ~ Overtaken(g, a.log)
    BY <1>1, <1>2, <1>4, <1>9
  <2>2. (ToSet(shows[g]) \cup lost[g]) \ ToSet(a.log) = {}
    BY <2>1 DEF Overtaken
  <2>3. Fits(a.log, log, C, shows[g], next[g], pending[g], lost[g])
    BY <1>7, <1>8 DEF Window, StatesFit
  <2>4. Follows(log, C, shows[g], next[g], pending[g], mode[g])
    BY <1>1, <1>7 DEF Window, InTouch
  <2>5. \A s \in Stream : ny[s] = Count(s, a.log) + 1
    BY <1>5
  <2>6. Numbered(log)
    BY DEF LogInv
  <2> QED BY <1>3, <1>8, <2>2, <2>3, <2>4, <2>5, <2>6, SyncFromState
<1>10. InTouch(g)'
  BY <1>1, <1>6, <1>7, <1>9 DEF InTouch
<1> QED BY <1>1, <1>10 DEF Window

LEMMA StateThrowsKeeps ==
    ASSUME TypeInv, NEW g \in Guest, HandleStateThrows(g), Window(g)
    PROVE  Window(g)'
<1>1. /\ g \in Client /\ mode'[g] = "in"
      /\ Lined(g)' /\ OneAnswer(g)' /\ StatesFit(g)'
  BY AnswerIs DEF HandleAnswer
<1>2. upset'[g] = "threw"
  <2>1. upset' = [upset EXCEPT ![g] = "threw"]
    BY DEF HandleStateThrows
  <2>2. upset \in [Client -> {"no", "overtaken", "half", "threw"}]
    BY DEF TypeInv, WindowTypes
  <2> QED BY <1>1, <2>1, <2>2
<1>3. InTouch(g)'
  BY <1>1, <1>2 DEF InTouch
<1> QED BY <1>1, <1>3 DEF Window

LEMMA AnswerKeeps ==
    ASSUME TypeInv, LogInv, NEW g \in Guest, HandleAnswer(g), NEW c \in Client, Window(c)
    PROVE  Window(c)'
<1>1. CASE c = g
  BY <1>1, NothingKeeps, StateKeeps, StateThrowsKeeps DEF HandleAnswer
<1>2. CASE c # g
  <2>1. /\ mode \in [Client -> {"out", "asking", "answered", "in"}]
        /\ answer \in [Client -> SUBSET StateMsg]
        /\ next \in [Client -> [Stream -> Nat]] /\ shows \in [Client -> Seq(Changelog)]
        /\ upset \in [Client -> {"no", "overtaken", "half", "threw"}]
    BY DEF TypeInv, WindowTypes
  <2>2. /\ UNCHANGED <<log, turn, ipc, socket, pending, lost>>
        /\ answer'[c] = answer[c] /\ mode'[c] = mode[c]
    BY <1>2, <2>1 DEF HandleAnswer, HandleNothing, HandleState, HandleStateThrows, csworker, view
  <2>3. next'[c] = next[c] /\ shows'[c] = shows[c] /\ upset'[c] = upset[c]
    <3>1. CASE HandleNothing(g)
      BY <3>1 DEF HandleNothing, view
    <3>2. CASE HandleState(g)
      BY <1>2, <2>1, <3>2 DEF HandleState
    <3>3. CASE HandleStateThrows(g)
      BY <1>2, <2>1, <3>3 DEF HandleStateThrows
    <3> QED BY <3>1, <3>2, <3>3 DEF HandleAnswer
  <2> QED BY <2>2, <2>3, WindowStands
<1> QED BY <1>1, <1>2

LEMMA WindowStep ==
    ASSUME TypeInv, LogInv, ~ Cloned, [Next]_vars, NEW c \in Client, Window(c)
    PROVE  Window(c)'
<1>1. CASE UNCHANGED vars \/ BeginAsw
  <2>1. UNCHANGED <<log, turn, ipc, socket, answer, mode, next, pending, shows, lost, upset>>
    BY <1>1 DEF vars, csworker, view, BeginAsw
  <2> QED BY <2>1, WindowStands
<1>2. CASE EndAsw
  BY <1>2, EndAswKeeps
<1>3. CASE OwnWrite
  BY <1>3, OwnWriteKeeps
<1>4. CASE EndTurn
  BY <1>4, EndTurnKeeps
<1>5. CASE Relay
  BY <1>5, RelayKeeps
<1>6. CASE \E g \in Guest : Join(g)
  BY <1>6, JoinKeeps
<1>7. CASE \E g \in Guest : ReadState(g)
  BY <1>7, ReadStateKeeps
<1>8. CASE \E g \in Guest : HandleAnswer(g)
  BY <1>8, AnswerKeeps
<1>9. CASE \E d \in Client : HandleChangelog(d)
  BY <1>9, ChangelogKeeps
<1> QED BY <1>1, <1>2, <1>3, <1>4, <1>5, <1>6, <1>7, <1>8, <1>9 DEF Next

\* Unless the csworker is a clone: whatever order the changelogs of its turns, the states and
\* what is relayed come in, and whoever joins when, a canvas that nothing upset shows a
\* beginning of what the csworker did, each changelog once and in the csworker's order.
THEOREM CanvasShowsABeginning == ~ Cloned => (Spec => []ShowsABeginning)
<1> SUFFICES ASSUME ~ Cloned PROVE Spec => []ShowsABeginning
  OBVIOUS
<1>1. Init => IInv
  BY TypesInit, LogInit, WindowInit DEF IInv
<1>2. IInv /\ [Next]_vars => IInv'
  BY TypesStep, LogStep, WindowStep DEF IInv
<1>3. IInv => ShowsABeginning
  <2> SUFFICES ASSUME IInv, NEW c \in Client, upset[c] = "no" PROVE IsPrefix(shows[c], log)
    BY DEF ShowsABeginning
  <2>1. PICK C : C = Coming(c)
    OBVIOUS
  <2>2. Follows(log, C, shows[c], next[c], pending[c], mode[c])
    BY <2>1 DEF IInv, Window, InTouch
  <2>3. CASE InSync(log, C, shows[c], next[c], pending[c])
    BY <2>3 DEF InSync
  <2>4. CASE shows[c] = <<>>
    <3>1. log \in Seq(Changelog) /\ shows[c] \in Seq(Changelog) /\ Len(shows[c]) = 0 /\ Len(log) \in Nat
      BY <2>4, LenProperties, WindowIs, EmptyIs DEF IInv, TypeInv
    <3>2. Len(shows[c]) <= Len(log) /\ \A i \in 1 .. Len(shows[c]) : shows[c][i] = log[i]
      BY <3>1
    <3> QED BY <3>1, <3>2, BeginningIs
  <2> QED BY <2>2, <2>3, <2>4 DEF Follows, Behind
<1> QED BY <1>1, <1>2, <1>3, PTL DEF Spec

===============================================================================
