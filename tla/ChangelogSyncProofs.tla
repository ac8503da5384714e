------------------------- MODULE ChangelogSyncProofs -------------------------
(***************************************************************************)
(* Proofs about ChangelogSync, for any csworkers and any number of         *)
(* changelogs: a csworker that was there from the start applies every      *)
(* changelog in order, once, and loses none.                               *)
(*                                                                         *)
(* AppliedInOrder is not inductive: a second copy of the changelog being   *)
(* applied would begin it again.  The invariant says where each changelog  *)
(* is: Whereabouts.                                                        *)
(***************************************************************************)
EXTENDS ChangelogSync, SequenceTheorems, FiniteSetTheorems, WellFoundedInduction, TLAPS

-----------------------------------------------------------------------------
(* Sequences of different numbers.                                         *)

Distinct(s) == \A i, j \in DOMAIN s : s[i] = s[j] => i = j
Sorted(s)   == \A i, j \in DOMAIN s : i < j => s[i] < s[j]

\* What is sorted has no number twice.
LEMMA SortedIsDistinct ==
    ASSUME NEW s \in Seq(Nat), Sorted(s)
    PROVE  Distinct(s)
<1>1. ASSUME NEW i \in DOMAIN s, NEW j \in DOMAIN s, s[i] = s[j]
      PROVE  i = j
  <2>1. i \in Nat /\ j \in Nat /\ s[i] \in Nat
    BY <1>1, LenProperties, ElementOfSeq
  <2>2. ~(i < j) /\ ~(j < i)
    BY <1>1, <2>1 DEF Sorted
  <2> QED BY <2>1, <2>2
<1> QED BY <1>1 DEF Distinct

\* A new number at the end.
LEMMA AppendNumber ==
    ASSUME NEW s \in Seq(Nat), NEW e \in Nat, e \notin SNsIn(s), Distinct(s)
    PROVE  /\ Append(s, e) \in Seq(Nat)
           /\ SNsIn(Append(s, e)) = SNsIn(s) \cup {e}
           /\ Distinct(Append(s, e))
<1> DEFINE t == Append(s, e)
<1>1. /\ t \in Seq(Nat) /\ Len(t) = Len(s) + 1 /\ Len(s) \in Nat
      /\ DOMAIN t = 1 .. (Len(s) + 1) /\ DOMAIN s = 1 .. Len(s)
      /\ \A i \in 1 .. Len(s) : t[i] = s[i]
      /\ t[Len(s) + 1] = e
  BY AppendProperties, LenProperties
<1> HIDE DEF t
<1>2. SNsIn(t) = SNsIn(s) \cup {e}
  <2>1. ASSUME NEW x \in SNsIn(t) PROVE x \in SNsIn(s) \cup {e}
    BY <2>1, <1>1 DEF SNsIn
  <2>2. ASSUME NEW x \in SNsIn(s) PROVE x \in SNsIn(t)
    BY <2>2, <1>1 DEF SNsIn
  <2>3. e \in SNsIn(t)
    BY <1>1 DEF SNsIn
  <2> QED BY <2>1, <2>2, <2>3
<1>3. Distinct(t)
  <2> SUFFICES ASSUME NEW i \in DOMAIN t, NEW j \in DOMAIN t, t[i] = t[j]
               PROVE  i = j
    BY DEF Distinct
  <2>1. CASE i \in DOMAIN s /\ j \in DOMAIN s
    BY <2>1, <1>1 DEF Distinct
  <2>2. CASE i = Len(s) + 1 /\ j = Len(s) + 1
    BY <2>2
  <2>3. \A k \in DOMAIN s : t[k] # e
    BY <1>1 DEF SNsIn
  <2> QED BY <2>1, <2>2, <2>3, <1>1
<1> QED BY <1>1, <1>2, <1>3 DEF t

\* The last number leaves.
LEMMA DropLast ==
    ASSUME NEW s \in Seq(Nat), s # <<>>, Distinct(s)
    PROVE  /\ s[Len(s)] \in SNsIn(s) /\ s[Len(s)] \in Nat
           /\ SubSeq(s, 1, Len(s) - 1) \in Seq(Nat)
           /\ SNsIn(SubSeq(s, 1, Len(s) - 1)) = SNsIn(s) \ {s[Len(s)]}
           /\ Distinct(SubSeq(s, 1, Len(s) - 1))
<1> DEFINE t == SubSeq(s, 1, Len(s) - 1)
<1>1. Len(s) \in Nat \ {0} /\ DOMAIN s = 1 .. Len(s) /\ \A i \in 1 .. Len(s) : s[i] \in Nat
  BY EmptySeq, LenProperties, ElementOfSeq
<1>2. t \in Seq(Nat) /\ Len(t) = Len(s) - 1 /\ \A i \in 1 .. (Len(s) - 1) : t[i] = s[i]
  BY <1>1
<1>3. DOMAIN t = 1 .. (Len(s) - 1)
  BY <1>1, <1>2, LenProperties
<1> HIDE DEF t
<1>4. s[Len(s)] \in SNsIn(s) /\ s[Len(s)] \in Nat
  BY <1>1 DEF SNsIn
<1>5. SNsIn(t) = SNsIn(s) \ {s[Len(s)]}
  <2>1. ASSUME NEW i \in DOMAIN t PROVE t[i] \in SNsIn(s) \ {s[Len(s)]}
    <3>1. i \in DOMAIN s /\ i # Len(s) /\ Len(s) \in DOMAIN s /\ t[i] = s[i]
      BY <1>1, <1>2, <1>3
    <3> QED BY <3>1 DEF SNsIn, Distinct
  <2>2. ASSUME NEW i \in DOMAIN s, s[i] # s[Len(s)] PROVE s[i] \in SNsIn(t)
    <3>1. i \in DOMAIN t /\ t[i] = s[i]
      BY <1>1, <1>2, <1>3, <2>2
    <3> QED BY <3>1 DEF SNsIn
  <2> QED BY <2>1, <2>2 DEF SNsIn
<1>6. Distinct(t)
  <2>1. ASSUME NEW i \in DOMAIN t PROVE i \in DOMAIN s /\ t[i] = s[i]
    <3>1. i \in 1 .. (Len(s) - 1)
      BY <1>3
    <3>2. t[i] = s[i]
      BY <1>2, <3>1
    <3>3. i \in 1 .. Len(s)
      BY <1>1, <3>1
    <3> QED BY <1>1, <3>2, <3>3
  <2> QED BY <2>1 DEF Distinct
<1> QED BY <1>2, <1>4, <1>5, <1>6 DEF t

\* The first number leaves.
LEMMA DropHead ==
    ASSUME NEW s \in Seq(Nat), s # <<>>, Distinct(s)
    PROVE  /\ Head(s) \in SNsIn(s) /\ Head(s) \in Nat
           /\ Tail(s) \in Seq(Nat)
           /\ SNsIn(Tail(s)) = SNsIn(s) \ {Head(s)}
           /\ Distinct(Tail(s))
           /\ Sorted(s) => Sorted(Tail(s)) /\ \A n \in SNsIn(Tail(s)) : Head(s) < n
<1> DEFINE t == Tail(s)
<1>1. /\ Len(s) \in Nat \ {0} /\ DOMAIN s = 1 .. Len(s) /\ Head(s) = s[1]
      /\ \A i \in 1 .. Len(s) : s[i] \in Nat
  BY EmptySeq, LenProperties, ElementOfSeq
<1>2. /\ t \in Seq(Nat) /\ Len(t) = Len(s) - 1
      /\ \A i \in 1 .. (Len(s) - 1) : t[i] = s[i + 1]
  BY <1>1, HeadTailProperties
<1>3. DOMAIN t = 1 .. (Len(s) - 1)
  BY <1>1, <1>2, LenProperties
<1> HIDE DEF t
<1>x. \A i \in DOMAIN t : i \in Nat \ {0} /\ i + 1 \in DOMAIN s /\ t[i] = s[i + 1]
  BY <1>1, <1>2, <1>3, SMTT(20), ZenonT(20)
<1>4. Head(s) \in SNsIn(s) /\ Head(s) \in Nat
  BY <1>1 DEF SNsIn
<1>5. SNsIn(t) = SNsIn(s) \ {Head(s)}
  <2>1. ASSUME NEW i \in DOMAIN t PROVE t[i] \in SNsIn(s) \ {Head(s)}
    <3>1. i + 1 \in DOMAIN s /\ 1 \in DOMAIN s /\ i + 1 # 1 /\ t[i] = s[i + 1]
      BY <1>1, <1>2, <1>3, SMTT(20), ZenonT(20)
    <3> QED BY <1>1, <3>1 DEF SNsIn, Distinct
  <2>2. ASSUME NEW i \in DOMAIN s, s[i] # Head(s) PROVE s[i] \in SNsIn(t)
    <3>1. i - 1 \in DOMAIN t /\ t[i - 1] = s[i]
      BY <1>1, <1>2, <1>3, <2>2, SMTT(20), ZenonT(20)
    <3> QED BY <3>1 DEF SNsIn
  <2> QED BY <2>1, <2>2 DEF SNsIn
<1>6. Distinct(t)
  <2> SUFFICES ASSUME NEW i \in DOMAIN t, NEW j \in DOMAIN t, t[i] = t[j]
               PROVE  i = j
    BY DEF Distinct
  <2>1. i + 1 = j + 1
    BY <1>x DEF Distinct
  <2> QED BY <1>x, <2>1
<1>7. ASSUME Sorted(s) PROVE Sorted(t) /\ \A n \in SNsIn(t) : Head(s) < n
  <2>1. ASSUME NEW i \in DOMAIN t, NEW j \in DOMAIN t, i < j PROVE t[i] < t[j]
    <3>1. i + 1 < j + 1
      BY <1>x, <2>1
    <3> QED BY <1>x, <3>1, <1>7 DEF Sorted
  <2>2. ASSUME NEW i \in DOMAIN t PROVE Head(s) < t[i]
    <3>1. 1 \in DOMAIN s /\ i + 1 \in DOMAIN s /\ 1 < i + 1 /\ t[i] = s[i + 1]
      BY <1>1, <1>2, <1>3, SMTT(20), ZenonT(20)
    <3> QED BY <1>1, <3>1, <1>7 DEF Sorted
  <2> QED BY <2>1, <2>2 DEF Sorted, SNsIn
<1> QED BY <1>2, <1>4, <1>5, <1>6, <1>7 DEF t

\* The numbers of a sorted sequence that are below e are the first ones.
LEMMA SmallerFirst ==
    ASSUME NEW p \in Seq(Nat), Sorted(p), NEW e \in Nat
    PROVE  LET k == Cardinality({i \in DOMAIN p : p[i] < e}) IN
           /\ k \in 0 .. Len(p)
           /\ \A i \in DOMAIN p : p[i] < e <=> i <= k
<1> DEFINE D == {i \in DOMAIN p : p[i] < e}
           k == Cardinality(D)
<1>1. Len(p) \in Nat /\ DOMAIN p = 1 .. Len(p) /\ \A i \in 1 .. Len(p) : p[i] \in Nat
  BY LenProperties, ElementOfSeq
<1>2. IsFiniteSet(1 .. Len(p)) /\ Cardinality(1 .. Len(p)) = Len(p)
  BY <1>1, FS_Interval
<1>3. IsFiniteSet(D) /\ k <= Len(p) /\ k \in Nat
  <2>1. D \in SUBSET (1 .. Len(p))
    BY <1>1
  <2>2. IsFiniteSet(D) /\ k <= Len(p)
    BY <1>2, <2>1, FS_Subset
  <2> QED BY <2>2, FS_CardinalityType
<1>4. ASSUME NEW i \in D PROVE i <= k
  <2>1. i \in 1 .. Len(p) /\ p[i] < e
    BY <1>1
  <2>2. ASSUME NEW j \in 1 .. i PROVE j \in D
    <3>1. j \in DOMAIN p /\ p[j] \in Nat /\ p[i] \in Nat
      BY <1>1, <2>1
    <3>2. j = i \/ p[j] < p[i]
      BY <1>1, <2>1, <3>1 DEF Sorted
    <3> QED BY <2>1, <3>1, <3>2
  <2>3. 1 .. i \in SUBSET D
    BY <2>2
  <2>4. Cardinality(1 .. i) <= k
    BY <1>3, <2>3, FS_Subset
  <2> QED BY <2>1, <2>4, FS_Interval
<1>5. D = 1 .. k
  <2>1. D \in SUBSET (1 .. k)
    BY <1>1, <1>3, <1>4
  <2>2. IsFiniteSet(1 .. k) /\ Cardinality(1 .. k) = k
    BY <1>3, FS_Interval
  <2> QED BY <2>1, <2>2, FS_Subset
<1>6. ASSUME NEW i \in DOMAIN p PROVE p[i] < e <=> i <= k
  <2>1. p[i] < e <=> i \in D
    OBVIOUS
  <2>2. i \in D <=> i \in 1 .. k
    BY <1>5
  <2> QED BY <1>1, <1>3, <2>1, <2>2
<1> QED BY <1>3, <1>6

\* A number is kept for later in its place.
LEMMA LaterNumber ==
    ASSUME NEW p \in Seq(Nat), Sorted(p), NEW e \in Nat, e \notin SNsIn(p)
    PROVE  /\ Later(p, e) \in Seq(Nat)
           /\ SNsIn(Later(p, e)) = SNsIn(p) \cup {e}
           /\ Sorted(Later(p, e))
<1> DEFINE k == Cardinality({i \in DOMAIN p : p[i] < e})
           t == Later(p, e)
           n == Len(p)
<1>1. n \in Nat /\ DOMAIN p = 1 .. n /\ \A i \in 1 .. n : p[i] \in Nat
  BY LenProperties, ElementOfSeq
<1>2. k \in 0 .. n /\ \A i \in DOMAIN p : p[i] < e <=> i <= k
  BY SmallerFirst
<1> HIDE DEF k
<1>3. t = (SubSeq(p, 1, k) \o <<e>>) \o SubSeq(p, k + 1, n)
  <2>1. k \in Nat
    BY <1>1, <1>2
  <2>2. t = (SubSeq(p, 1, (k + 1) - 1) \o <<e>>) \o SubSeq(p, k + 1, n)
    BY DEF Later, InsertAt, k
  <2>3. (k + 1) - 1 = k
    BY <2>1
  <2> QED BY <2>2, <2>3
<1> DEFINE a == SubSeq(p, 1, k)
           b == SubSeq(p, k + 1, n)
<1>4. a \in Seq(Nat) /\ Len(a) = k /\ \A i \in 1 .. k : a[i] = p[i]
  BY <1>1, <1>2
<1>5. b \in Seq(Nat) /\ Len(b) = n - k /\ \A i \in 1 .. (n - k) : b[i] = p[k + i]
  <2>1. k + 1 \in Int /\ n \in Int /\ \A i \in (k + 1) .. n : p[i] \in Nat
    BY <1>1, <1>2
  <2>2. /\ b \in Seq(Nat)
        /\ Len(b) = IF k + 1 <= n THEN n - (k + 1) + 1 ELSE 0
        /\ \A i \in 1 .. (n - (k + 1) + 1) : b[i] = p[(k + 1) + i - 1]
    BY <2>1, SubSeqProperties
  <2>3. n - (k + 1) + 1 = n - k /\ k \in Int
    BY <1>1, <1>2
  <2>4. ASSUME NEW i \in 1 .. (n - k) PROVE b[i] = p[k + i]
    BY <2>2, <2>3
  <2> HIDE DEF b, n
  <2>5. Len(b) = n - k
    <3>1. CASE k + 1 <= n
      BY <2>2, <2>3, <3>1
    <3>2. CASE k = n
      BY <1>1, <2>2, <3>2
    <3> QED BY <1>1, <1>2, <3>1, <3>2
  <2> QED BY <2>2, <2>4, <2>5
<1> HIDE DEF a, b, t, n
<1>6. t = (a \o <<e>>) \o b
  BY <1>3 DEF a, b, n
<1>7. /\ a \o <<e>> \in Seq(Nat) /\ Len(a \o <<e>>) = k + 1
      /\ \A i \in 1 .. (k + 1) : (a \o <<e>>)[i] = IF i <= k THEN p[i] ELSE e
  BY <1>2, <1>4
<1> DEFINE q == a \o <<e>>
<1>y. /\ t \in Seq(Nat) /\ Len(t) = Len(q) + Len(b)
      /\ \A i \in 1 .. (Len(q) + Len(b)) : t[i] = IF i <= Len(q) THEN q[i] ELSE b[i - Len(q)]
  BY <1>5, <1>6, <1>7, ConcatProperties
<1> HIDE DEF q
<1>8. /\ t \in Seq(Nat) /\ Len(t) = n + 1
      /\ \A i \in 1 .. (n + 1) : t[i] = IF i <= k THEN p[i] ELSE IF i = k + 1 THEN e ELSE p[i - 1]
  <2>1. Len(q) = k + 1 /\ Len(q) + Len(b) = n + 1
    <3>1. Len(q) = k + 1
      BY <1>7 DEF q
    <3> QED BY <1>1, <1>2, <1>5, <3>1
  <2>2. ASSUME NEW i \in 1 .. (n + 1)
        PROVE  t[i] = IF i <= k THEN p[i] ELSE IF i = k + 1 THEN e ELSE p[i - 1]
    <3>1. CASE i <= k + 1
      <4>1. t[i] = q[i]
        BY <1>y, <2>1, <3>1
      <4>2. q[i] = IF i <= k THEN p[i] ELSE e
        BY <1>7, <3>1, <1>2 DEF q
      <4> QED BY <1>2, <3>1, <4>1, <4>2
    <3>2. CASE i > k + 1
      <4>1. t[i] = b[i - (k + 1)]
        BY <1>2, <1>y, <2>1, <3>2
      <4>2. i - (k + 1) \in 1 .. (n - k) /\ k + (i - (k + 1)) = i - 1
        BY <1>1, <1>2, <3>2
      <4>3. b[i - (k + 1)] = p[i - 1]
        BY <1>5, <4>2
      <4> QED BY <1>2, <3>2, <4>1, <4>3
    <3> QED BY <1>1, <1>2, <3>1, <3>2
  <2> QED BY <1>y, <2>1, <2>2
<1>9. DOMAIN t = 1 .. (n + 1)
  BY <1>8, LenProperties
<1>10. SNsIn(t) = SNsIn(p) \cup {e}
  <2>1. ASSUME NEW i \in DOMAIN t PROVE t[i] \in SNsIn(p) \cup {e}
    <3>1. CASE i <= k
      <4>1. i \in DOMAIN p /\ t[i] = p[i]
        BY <1>1, <1>2, <1>8, <1>9, <3>1
      <4> QED BY <4>1 DEF SNsIn
    <3>2. CASE i = k + 1
      <4>1. t[i] = e
        BY <1>1, <1>2, <1>8, <1>9, <3>2
      <4> QED BY <4>1
    <3>3. CASE i > k + 1
      <4>1. i - 1 \in DOMAIN p /\ t[i] = p[i - 1]
        BY <1>1, <1>2, <1>8, <1>9, <3>3, SMTT(20), ZenonT(20)
      <4> QED BY <4>1 DEF SNsIn
    <3> QED BY <1>1, <1>2, <1>9, <3>1, <3>2, <3>3
  <2>2. ASSUME NEW i \in DOMAIN p PROVE p[i] \in SNsIn(t)
    <3>1. CASE i <= k
      <4>1. i \in DOMAIN t /\ t[i] = p[i]
        BY <1>1, <1>2, <1>8, <1>9, <3>1
      <4> QED BY <4>1 DEF SNsIn
    <3>2. CASE i > k
      <4>1. i + 1 \in DOMAIN t /\ t[i + 1] = p[i]
        BY <1>1, <1>2, <1>8, <1>9, <3>2
      <4> QED BY <4>1 DEF SNsIn
    <3> QED BY <1>1, <1>2, <3>1, <3>2
  <2>3. e \in SNsIn(t)
    <3>1. k + 1 \in DOMAIN t /\ t[k + 1] = e
      BY <1>1, <1>2, <1>8, <1>9
    <3> QED BY <3>1 DEF SNsIn
  <2> QED BY <2>1, <2>2, <2>3 DEF SNsIn
<1>11. Sorted(t)
  <2>1. \A i \in DOMAIN p : p[i] # e
    BY DEF SNsIn
  <2>2. ASSUME NEW i \in 1 .. n, i > k PROVE p[i] > e
    <3>1. i \in DOMAIN p /\ p[i] \in Nat
      BY <1>1
    <3>2. ~(p[i] < e) /\ p[i] # e
      BY <1>1, <1>2, <2>1, <2>2, <3>1
    <3> QED BY <3>1, <3>2
  <2> SUFFICES ASSUME NEW i \in DOMAIN t, NEW j \in DOMAIN t, i < j
               PROVE  t[i] < t[j]
    BY DEF Sorted
  <2>3. \A x, y \in 1 .. n : x < y => p[x] < p[y]
    BY <1>1 DEF Sorted
  <2>4. CASE j <= k
    BY <1>1, <1>2, <1>8, <1>9, <2>3, <2>4
  <2>5. CASE j = k + 1
    <3>1. i <= k /\ i \in 1 .. n /\ t[i] = p[i] /\ t[j] = e
      BY <1>1, <1>2, <1>8, <1>9, <2>5
    <3> QED BY <1>1, <1>2, <3>1
  <2>6. CASE j > k + 1 /\ i = k + 1
    <3>1. j - 1 > k /\ j - 1 \in 1 .. n /\ t[i] = e /\ t[j] = p[j - 1] /\ p[j - 1] \in Nat
      BY <1>1, <1>2, <1>8, <1>9, <2>6
    <3>2. p[j - 1] > e
      BY <2>2, <3>1
    <3> QED BY <3>1, <3>2
  <2>7. CASE j > k + 1 /\ i # k + 1
    <3>1. CASE i <= k
      <4>1. i \in 1 .. n /\ j - 1 \in 1 .. n /\ i < j - 1
        BY <1>1, <1>2, <1>9, <2>7, <3>1
      <4>2. t[i] = p[i]
        BY <1>8, <1>9, <3>1
      <4>3. t[j] = p[j - 1]
        BY <1>1, <1>2, <1>8, <1>9, <2>7, SMTT(20), ZenonT(20)
      <4> QED BY <2>3, <4>1, <4>2, <4>3
    <3>2. CASE i > k + 1
      <4>1. i - 1 \in 1 .. n /\ j - 1 \in 1 .. n /\ i - 1 < j - 1
        BY <1>1, <1>2, <1>9, <2>7, <3>2, SMTT(20), ZenonT(20)
      <4>2. t[i] = p[i - 1]
        <5>1. i \in 1 .. (n + 1) /\ ~(i <= k) /\ i # k + 1
          BY <1>2, <1>9, <3>2
        <5> QED BY <1>8, <5>1
      <4>3. t[j] = p[j - 1]
        BY <1>1, <1>2, <1>8, <1>9, <2>7, SMTT(20), ZenonT(20)
      <4> QED BY <2>3, <4>1, <4>2, <4>3
    <3> QED BY <1>1, <1>2, <1>9, <2>7, <3>1, <3>2
  <2> QED BY <1>1, <1>2, <1>9, <2>4, <2>5, <2>6, <2>7
<1> QED BY <1>8, <1>10, <1>11 DEF t

-----------------------------------------------------------------------------
(* The contents of a csworker.                                             *)

\* Nothing applied, nothing held.
LEMMA InOrderZero == InOrder(0) = <<>>
<1> QED BY DEF InOrder

\* Both parts of a changelog after those before it.
LEMMA InOrderStep ==
    ASSUME NEW n \in Nat \ {0}
    PROVE  InOrder(n) = Append(Append(InOrder(n - 1), <<n, "begin">>), <<n, "end">>)
<1> DEFINE e(i) == <<(i + 1) \div 2, IF i % 2 = 1 THEN "begin" ELSE "end">>
           S == Nat \X {"begin", "end"}
<1>1. ASSUME NEW m \in Nat
      PROVE  /\ InOrder(m) \in Seq(S) /\ Len(InOrder(m)) = 2 * m
             /\ \A i \in 1 .. (2 * m) : InOrder(m)[i] = e(i)
  <2>1. \A i \in 1 .. (2 * m) : e(i) \in S
    <3>1. \A i \in 1 .. (2 * m) : (i + 1) \div 2 \in Nat
      BY SMT
    <3> QED BY <3>1
  <2>2. InOrder(m) = [i \in 1 .. (2 * m) |-> e(i)]
    BY DEF InOrder
  <2> HIDE DEF e, S
  <2>3. InOrder(m) \in Seq(S) /\ Len(InOrder(m)) = 2 * m
    BY <2>1, <2>2
  <2> QED BY <2>2, <2>3
<1>2. 2 * (n - 1) = 2 * n - 2 /\ n - 1 \in Nat
  OBVIOUS
<1>3. e(2 * n - 1) = <<n, "begin">> /\ e(2 * n) = <<n, "end">>
  <2>1. (2 * n - 1 + 1) \div 2 = n /\ (2 * n + 1) \div 2 = n
    BY SMT
  <2>2. (2 * n - 1) % 2 = 1 /\ (2 * n) % 2 = 0
    BY SMT
  <2> QED BY <2>1, <2>2
<1>4. <<n, "begin">> \in S /\ <<n, "end">> \in S
  OBVIOUS
<1> HIDE DEF e, S
<1> DEFINE a == InOrder(n - 1)
           b == Append(a, <<n, "begin">>)
           d == Append(b, <<n, "end">>)
<1>5. a \in Seq(S) /\ Len(a) = 2 * n - 2 /\ \A i \in 1 .. (2 * n - 2) : a[i] = e(i)
  BY <1>1, <1>2
<1> HIDE DEF a
<1>6. /\ b \in Seq(S) /\ Len(b) = 2 * n - 1
      /\ \A i \in 1 .. (2 * n - 2) : b[i] = e(i)
      /\ b[2 * n - 1] = e(2 * n - 1)
  BY <1>3, <1>4, <1>5, AppendProperties
<1> HIDE DEF b
<1>7. /\ d \in Seq(S) /\ Len(d) = 2 * n
      /\ \A i \in 1 .. (2 * n - 1) : d[i] = b[i]
      /\ d[2 * n] = e(2 * n)
  <2>1. /\ d \in Seq(S) /\ Len(d) = Len(b) + 1
        /\ \A i \in 1 .. Len(b) : d[i] = b[i]
        /\ d[Len(b) + 1] = <<n, "end">>
    BY <1>4, <1>6, AppendProperties
  <2>2. Len(b) + 1 = 2 * n
    BY <1>6
  <2> QED BY <1>3, <1>6, <2>1, <2>2
<1> HIDE DEF d
<1>8. ASSUME NEW i \in 1 .. (2 * n) PROVE d[i] = e(i)
  <2>1. i \in 1 .. (2 * n - 2) \/ i = 2 * n - 1 \/ i = 2 * n
    OBVIOUS
  <2> QED BY <1>6, <1>7, <2>1
<1>9. InOrder(n) = d
  BY <1>1, <1>7, <1>8, SeqEqual
<1> QED BY <1>9 DEF d, b, a

-----------------------------------------------------------------------------
(* The invariant.                                                          *)

Tables ==
    /\ DOMAIN chan = CSWorker /\ DOMAIN mode = CSWorker /\ DOMAIN next = CSWorker
    /\ DOMAIN pending = CSWorker /\ DOMAIN applying = CSWorker /\ DOMAIN content = CSWorker

Unsent ==
    /\ made \in Nat /\ unsent \in Seq(Nat)
    /\ Distinct(unsent) /\ SNsIn(unsent) \subseteq 1 .. made

Numbers(c) ==
    /\ mode[c] = "live"
    /\ next[c] \in 1 .. (made + 1)
    /\ applying[c] \in {0, next[c]} /\ applying[c] <= made
    /\ chan[c] \in Seq(Nat) /\ Distinct(chan[c])
    /\ pending[c] \in Seq(Nat) /\ Sorted(pending[c])

\* Every changelog from the next one on is in one place, and in no other.
Whereabouts(c) ==
    /\ SNsIn(chan[c]) \cup SNsIn(unsent) \cup SNsIn(pending[c]) = (next[c] .. made) \ {applying[c]}
    /\ SNsIn(chan[c]) \cap SNsIn(unsent) = {}
    /\ SNsIn(chan[c]) \cap SNsIn(pending[c]) = {}
    /\ SNsIn(unsent) \cap SNsIn(pending[c]) = {}
    /\ applying[c] = 0 => next[c] \notin SNsIn(pending[c])

Contents(c) ==
    content[c] = IF applying[c] = 0 THEN InOrder(next[c] - 1)
                 ELSE Append(InOrder(next[c] - 1), <<next[c], "begin">>)

Good(c) == Numbers(c) /\ Whereabouts(c) /\ Contents(c)

IInv == Tables /\ Unsent /\ \A c \in Founder : Good(c)

\* No message, no number.
LEMMA NoNumbers == SNsIn(<<>>) = {} /\ Distinct(<<>>) /\ Sorted(<<>>) /\ <<>> \in Seq(Nat)
<1> QED BY DEF SNsIn, Distinct, Sorted

\* What an action does not touch stays good.
LEMMA Untouched ==
    ASSUME NEW c \in Founder, Good(c),
           made' = made, unsent' = unsent, chan'[c] = chan[c], mode'[c] = mode[c],
           next'[c] = next[c], pending'[c] = pending[c], applying'[c] = applying[c],
           content'[c] = content[c]
    PROVE  Good(c)'
<1>1. Numbers(c)'
  BY DEF Good, Numbers
<1>2. Whereabouts(c)'
  BY DEF Good, Whereabouts
<1>3. Contents(c)'
  BY DEF Good, Contents
<1> QED BY <1>1, <1>2, <1>3 DEF Good

\* It holds at the start.
LEMMA InitGood == Init => IInv
<1> SUFFICES ASSUME Init PROVE IInv
  OBVIOUS
<1>1. Tables
  BY DEF Init, Tables
<1>2. Unsent
  BY NoNumbers DEF Init, Unsent
<1>3. ASSUME NEW c \in Founder PROVE Good(c)
  <2>1. /\ made = 0 /\ unsent = <<>> /\ chan[c] = <<>> /\ mode[c] = "live" /\ next[c] = 1
        /\ pending[c] = <<>> /\ applying[c] = 0 /\ content[c] = <<>>
    BY DEF Init, CSWorker, FirstSequenceNumber
  <2>2. Numbers(c)
    BY <2>1, NoNumbers DEF Numbers
  <2>3. Whereabouts(c)
    BY <2>1, NoNumbers DEF Whereabouts
  <2>4. Contents(c)
    BY <2>1, InOrderZero DEF Contents
  <2> QED BY <2>2, <2>3, <2>4 DEF Good
<1> QED BY <1>1, <1>2, <1>3 DEF IInv

\* A changelog that is made is new.
LEMMA MakeKeeps == IInv /\ Make => IInv'
<1> SUFFICES ASSUME IInv, Make PROVE IInv'
  OBVIOUS
<1>1. /\ made \in Nat /\ made' = made + 1 /\ unsent' = Append(unsent, made + 1)
      /\ UNCHANGED <<chan, mode, next, pending, applying, content>>
  BY DEF IInv, Unsent, Make, csw
<1>2. /\ unsent' \in Seq(Nat) /\ SNsIn(unsent') = SNsIn(unsent) \cup {made + 1} /\ Distinct(unsent')
  <2>1. made + 1 \in Nat /\ made + 1 \notin SNsIn(unsent)
    BY <1>1 DEF IInv, Unsent
  <2> QED BY <1>1, <2>1, AppendNumber DEF IInv, Unsent
<1>3. Tables'
  BY <1>1 DEF IInv, Tables
<1>4. Unsent'
  BY <1>1, <1>2 DEF IInv, Unsent
<1>5. ASSUME NEW c \in Founder PROVE Good(c)'
  <2>1. Numbers(c) /\ Whereabouts(c) /\ Contents(c)
    BY DEF IInv, Good
  <2>2. Numbers(c)'
    BY <1>1, <2>1 DEF Numbers
  <2>3. Whereabouts(c)'
    <3>1. next[c] \in 1 .. (made + 1) /\ applying[c] <= made /\ applying[c] \in Nat
      BY <1>1, <2>1 DEF Numbers
    <3>2. (next[c] .. (made + 1)) \ {applying[c]} = ((next[c] .. made) \ {applying[c]}) \cup {made + 1}
      BY <1>1, <3>1
    <3>3. made + 1 \notin SNsIn(chan[c]) /\ made + 1 \notin SNsIn(pending[c])
      BY <1>1, <2>1 DEF Whereabouts
    <3> QED BY <1>1, <1>2, <2>1, <3>2, <3>3 DEF Whereabouts
  <2>4. Contents(c)'
    BY <1>1, <2>1 DEF Contents
  <2> QED BY <2>2, <2>3, <2>4 DEF Good
<1> QED BY <1>3, <1>4, <1>5 DEF IInv

\* A changelog that is sent goes from one place to another.
LEMMA SendKeeps == IInv /\ Send => IInv'
<1> SUFFICES ASSUME IInv, Send PROVE IInv'
  OBVIOUS
<1> DEFINE sn == unsent[Len(unsent)]
<1>1. /\ unsent # <<>> /\ unsent' = SubSeq(unsent, 1, Len(unsent) - 1)
      /\ chan' = [c \in CSWorker |-> IF mode[c] = "away" THEN chan[c] ELSE Append(chan[c], sn)]
      /\ UNCHANGED <<made, mode, next, pending, applying, content>>
  BY DEF Send, csw
<1>2. /\ sn \in SNsIn(unsent) /\ sn \in Nat /\ unsent' \in Seq(Nat)
      /\ SNsIn(unsent') = SNsIn(unsent) \ {sn} /\ Distinct(unsent')
  BY <1>1, DropLast DEF IInv, Unsent
<1> HIDE DEF sn
<1>3. Tables'
  BY <1>1 DEF IInv, Tables
<1>4. Unsent'
  BY <1>1, <1>2 DEF IInv, Unsent
<1>5. ASSUME NEW c \in Founder PROVE Good(c)'
  <2>1. Numbers(c) /\ Whereabouts(c) /\ Contents(c)
    BY DEF IInv, Good
  <2>2. chan'[c] = Append(chan[c], sn)
    BY <1>1, <2>1 DEF Numbers, CSWorker
  <2>3. /\ chan'[c] \in Seq(Nat) /\ SNsIn(chan'[c]) = SNsIn(chan[c]) \cup {sn}
        /\ Distinct(chan'[c])
    <3>1. sn \notin SNsIn(chan[c])
      BY <1>2, <2>1 DEF Whereabouts
    <3> QED BY <1>2, <2>1, <2>2, <3>1, AppendNumber DEF Numbers
  <2>4. Numbers(c)'
    BY <1>1, <2>1, <2>3 DEF Numbers
  <2>5. Whereabouts(c)'
    <3>1. SNsIn(chan'[c]) \cup SNsIn(unsent') = SNsIn(chan[c]) \cup SNsIn(unsent)
      BY <1>2, <2>3
    <3>2. sn \notin SNsIn(pending[c])
      BY <1>2, <2>1 DEF Whereabouts
    <3>3. /\ SNsIn(chan'[c]) \cap SNsIn(unsent') = {}
          /\ SNsIn(chan'[c]) \cap SNsIn(pending[c]) = {}
          /\ SNsIn(unsent') \cap SNsIn(pending[c]) = {}
      BY <1>2, <2>1, <2>3, <3>2 DEF Whereabouts
    <3>4. pending'[c] = pending[c] /\ next'[c] = next[c] /\ applying'[c] = applying[c]
          /\ made' = made
      BY <1>1
    <3> QED BY <2>1, <3>1, <3>3, <3>4 DEF Whereabouts
  <2>6. Contents(c)'
    BY <1>1, <2>1 DEF Contents
  <2> QED BY <2>4, <2>5, <2>6 DEF Good
<1> QED BY <1>3, <1>4, <1>5 DEF IInv

\* A changelog that arrives is kept for later, or begun when it is the next one; it is
\* never one that was applied before.
LEMMA ReceiveKeeps ==
    ASSUME IInv, NEW d \in CSWorker, Receive(d)
    PROVE  IInv'
<1> DEFINE sn == Head(chan[d])
<1>1. /\ chan[d] # <<>> /\ chan' = [chan EXCEPT ![d] = Tail(@)]
      /\ UNCHANGED <<made, unsent, next>>
      /\ \/ /\ sn > next[d] /\ pending' = [pending EXCEPT ![d] = Later(@, sn)]
            /\ UNCHANGED <<mode, applying, content>>
         \/ /\ sn < next[d] /\ mode' = [mode EXCEPT ![d] = "crashed"]
            /\ UNCHANGED <<pending, applying, content>>
         \/ /\ sn = next[d] /\ applying' = [applying EXCEPT ![d] = sn]
            /\ content' = [content EXCEPT ![d] = Append(@, <<sn, "begin">>)]
            /\ UNCHANGED <<mode, pending>>
  BY DEF Receive, asw
<1> HIDE DEF sn
<1>2. Tables'
  BY <1>1 DEF IInv, Tables
<1>3. Unsent'
  BY <1>1 DEF IInv, Unsent
<1>4. ASSUME NEW c \in Founder, c # d PROVE Good(c)'
  <2>1. /\ made' = made /\ unsent' = unsent /\ chan'[c] = chan[c] /\ mode'[c] = mode[c]
        /\ next'[c] = next[c] /\ pending'[c] = pending[c] /\ applying'[c] = applying[c]
        /\ content'[c] = content[c]
    BY <1>1, <1>4 DEF IInv, Tables, CSWorker
  <2> QED BY <2>1, Untouched DEF IInv
<1>5. ASSUME d \in Founder PROVE Good(d)'
  <2>1. Numbers(d) /\ Whereabouts(d) /\ Contents(d) /\ made \in Nat
    BY <1>5 DEF IInv, Good, Unsent
  <2>2. /\ next[d] \in 1 .. (made + 1) /\ applying[d] \in {0, next[d]} /\ applying[d] <= made
        /\ pending[d] \in Seq(Nat) /\ Sorted(pending[d])
    BY <2>1 DEF Numbers
  <2>3. chan'[d] = Tail(chan[d])
    BY <1>1 DEF IInv, Tables
  <2>4. /\ sn \in SNsIn(chan[d]) /\ sn \in Nat /\ chan'[d] \in Seq(Nat)
        /\ SNsIn(chan'[d]) = SNsIn(chan[d]) \ {sn} /\ Distinct(chan'[d])
    BY <1>1, <2>1, <2>3, DropHead DEF Numbers, sn
  <2>5. sn \in (next[d] .. made) \ {applying[d]} /\ sn \notin SNsIn(pending[d])
        /\ sn \notin SNsIn(unsent)
    BY <2>1, <2>4 DEF Whereabouts
  <2>6. CASE sn > next[d]
    <3>1. /\ pending'[d] = Later(pending[d], sn)
          /\ mode'[d] = mode[d] /\ applying'[d] = applying[d] /\ content'[d] = content[d]
          /\ next'[d] = next[d] /\ made' = made /\ unsent' = unsent
      BY <1>1, <2>2, <2>4, <2>6 DEF IInv, Tables
    <3>2. /\ pending'[d] \in Seq(Nat) /\ Sorted(pending'[d])
          /\ SNsIn(pending'[d]) = SNsIn(pending[d]) \cup {sn}
      BY <2>2, <2>4, <2>5, <3>1, LaterNumber
    <3>3. Numbers(d)'
      BY <2>1, <2>4, <3>1, <3>2 DEF Numbers
    <3>4. Whereabouts(d)'
      <4>1. SNsIn(chan'[d]) \cup SNsIn(pending'[d]) = SNsIn(chan[d]) \cup SNsIn(pending[d])
        BY <2>4, <3>2
      <4>2. /\ SNsIn(chan'[d]) \cap SNsIn(unsent) = {}
            /\ SNsIn(chan'[d]) \cap SNsIn(pending'[d]) = {}
            /\ SNsIn(unsent) \cap SNsIn(pending'[d]) = {}
        BY <2>1, <2>4, <2>5, <3>2 DEF Whereabouts
      <4>3. applying[d] = 0 => next[d] \notin SNsIn(pending'[d])
        BY <2>1, <2>2, <2>4, <2>6, <3>2 DEF Whereabouts
      <4> QED BY <2>1, <3>1, <4>1, <4>2, <4>3 DEF Whereabouts
    <3>5. Contents(d)'
      BY <2>1, <3>1 DEF Contents
    <3> QED BY <3>3, <3>4, <3>5 DEF Good
  <2>7. CASE sn = next[d]
    <3>1. applying[d] = 0
      BY <2>2, <2>5, <2>7
    <3>2. /\ applying'[d] = next[d] /\ content'[d] = Append(content[d], <<next[d], "begin">>)
          /\ mode'[d] = mode[d] /\ pending'[d] = pending[d]
          /\ next'[d] = next[d] /\ made' = made /\ unsent' = unsent
      BY <1>1, <2>2, <2>4, <2>7 DEF IInv, Tables
    <3>3. Numbers(d)'
      BY <2>1, <2>4, <2>5, <2>7, <3>2 DEF Numbers
    <3>4. Whereabouts(d)'
      <4>1. SNsIn(chan'[d]) \cup SNsIn(unsent) \cup SNsIn(pending[d]) = (next[d] .. made) \ {next[d]}
        BY <2>1, <2>2, <2>4, <2>5, <2>7, <3>1 DEF Whereabouts
      <4>2. /\ SNsIn(chan'[d]) \cap SNsIn(unsent) = {}
            /\ SNsIn(chan'[d]) \cap SNsIn(pending[d]) = {}
            /\ SNsIn(unsent) \cap SNsIn(pending[d]) = {}
        BY <2>1, <2>4 DEF Whereabouts
      <4> QED BY <2>1, <2>2, <3>2, <4>1, <4>2 DEF Whereabouts
    <3>5. Contents(d)'
      BY <2>1, <2>2, <3>1, <3>2 DEF Contents
    <3> QED BY <3>3, <3>4, <3>5 DEF Good
  <2> QED BY <2>2, <2>4, <2>5, <2>6, <2>7
<1> QED BY <1>2, <1>3, <1>4, <1>5 DEF IInv

\* The end of one changelog, and the beginning of the one after it if that waits.
LEMMA FinishKeeps ==
    ASSUME IInv, NEW d \in CSWorker, Finish(d)
    PROVE  IInv'
<1> DEFINE done == Append(content[d], <<applying[d], "end">>)
           Goes == pending[d] # <<>> /\ Head(pending[d]) = next[d] + 1
<1>1. /\ applying[d] # 0 /\ next' = [next EXCEPT ![d] = @ + 1]
      /\ UNCHANGED <<made, unsent, chan, mode>>
      /\ Goes => /\ pending' = [pending EXCEPT ![d] = Tail(@)]
                 /\ applying' = [applying EXCEPT ![d] = next[d] + 1]
                 /\ content' = [content EXCEPT ![d] = Append(done, <<next[d] + 1, "begin">>)]
      /\ ~Goes => /\ pending' = pending
                  /\ applying' = [applying EXCEPT ![d] = 0]
                  /\ content' = [content EXCEPT ![d] = done]
  BY DEF Finish, asw
<1> HIDE DEF done, Goes
<1>2. Tables'
  BY <1>1 DEF IInv, Tables
<1>3. Unsent'
  BY <1>1 DEF IInv, Unsent
<1>4. ASSUME NEW c \in Founder, c # d PROVE Good(c)'
  <2>1. /\ made' = made /\ unsent' = unsent /\ chan'[c] = chan[c] /\ mode'[c] = mode[c]
        /\ next'[c] = next[c] /\ pending'[c] = pending[c] /\ applying'[c] = applying[c]
        /\ content'[c] = content[c]
    BY <1>1, <1>4 DEF IInv, Tables, CSWorker
  <2> QED BY <2>1, Untouched DEF IInv
<1>5. ASSUME d \in Founder PROVE Good(d)'
  <2>1. Numbers(d) /\ Whereabouts(d) /\ Contents(d) /\ made \in Nat
    BY <1>5 DEF IInv, Good, Unsent
  <2>2. /\ next[d] \in 1 .. made /\ applying[d] = next[d]
        /\ pending[d] \in Seq(Nat) /\ Sorted(pending[d]) /\ Distinct(pending[d])
    BY <1>1, <2>1, SortedIsDistinct DEF Numbers
  <2>3. /\ next'[d] = next[d] + 1 /\ made' = made /\ unsent' = unsent /\ chan'[d] = chan[d]
        /\ mode'[d] = mode[d]
    BY <1>1 DEF IInv, Tables
  <2>4. done = InOrder(next[d])
    <3>1. next[d] \in Nat \ {0}
      BY <2>1, <2>2
    <3>2. content[d] = Append(InOrder(next[d] - 1), <<next[d], "begin">>)
      BY <1>1, <2>1 DEF Contents
    <3>3. done = Append(Append(InOrder(next[d] - 1), <<next[d], "begin">>), <<next[d], "end">>)
      BY <2>2, <3>2 DEF done
    <3> QED BY <3>1, <3>3, InOrderStep
  <2>5. (next[d] .. made) \ {next[d]} = (next[d] + 1) .. made
    BY <2>1, <2>2
  <2>6. CASE Goes
    <3>1. /\ pending'[d] = Tail(pending[d]) /\ applying'[d] = next[d] + 1
          /\ content'[d] = Append(done, <<next[d] + 1, "begin">>)
      BY <1>1, <2>6 DEF IInv, Tables
    <3>2. /\ next[d] + 1 \in SNsIn(pending[d])
          /\ pending'[d] \in Seq(Nat) /\ Sorted(pending'[d])
          /\ SNsIn(pending'[d]) = SNsIn(pending[d]) \ {next[d] + 1}
      BY <2>2, <2>6, <3>1, DropHead DEF Goes
    <3>3. next[d] + 1 <= made
      BY <2>1, <2>2, <3>2 DEF Whereabouts
    <3>4. Numbers(d)'
      BY <2>1, <2>2, <2>3, <3>1, <3>2, <3>3 DEF Numbers
    <3>5. Whereabouts(d)'
      <4>1. SNsIn(chan[d]) \cup SNsIn(unsent) \cup SNsIn(pending'[d])
              = ((next[d] + 1) .. made) \ {next[d] + 1}
        BY <2>1, <2>2, <2>5, <3>2 DEF Whereabouts
      <4>2. /\ SNsIn(chan[d]) \cap SNsIn(unsent) = {}
            /\ SNsIn(chan[d]) \cap SNsIn(pending'[d]) = {}
            /\ SNsIn(unsent) \cap SNsIn(pending'[d]) = {}
        BY <2>1, <3>2 DEF Whereabouts
      <4> QED BY <2>2, <2>3, <3>1, <4>1, <4>2 DEF Whereabouts
    <3>6. Contents(d)'
      BY <2>2, <2>3, <2>4, <3>1 DEF Contents
    <3> QED BY <3>4, <3>5, <3>6 DEF Good
  <2>7. CASE ~Goes
    <3>1. pending'[d] = pending[d] /\ applying'[d] = 0 /\ content'[d] = done
      BY <1>1, <2>7 DEF IInv, Tables
    <3>2. Numbers(d)'
      BY <2>1, <2>2, <2>3, <3>1 DEF Numbers
    <3>3. next[d] + 1 \notin SNsIn(pending[d])
      <4> SUFFICES ASSUME next[d] + 1 \in SNsIn(pending[d]) PROVE FALSE
        OBVIOUS
      <4>1. pending[d] # <<>>
        BY NoNumbers
      <4>2. /\ Head(pending[d]) \in SNsIn(pending[d]) /\ Head(pending[d]) \in Nat
            /\ SNsIn(Tail(pending[d])) = SNsIn(pending[d]) \ {Head(pending[d])}
            /\ \A n \in SNsIn(Tail(pending[d])) : Head(pending[d]) < n
        BY <2>2, <4>1, DropHead
      <4>3. Head(pending[d]) >= next[d] + 1
        BY <2>1, <2>2, <2>5, <4>2 DEF Whereabouts
      <4>4. Head(pending[d]) # next[d] + 1
        BY <2>7, <4>1 DEF Goes
      <4> QED BY <2>2, <4>2, <4>3, <4>4
    <3>4. Whereabouts(d)'
      <4>1. ((next[d] + 1) .. made) \ {0} = (next[d] + 1) .. made
        BY <2>2
      <4> QED BY <2>1, <2>2, <2>3, <2>5, <3>1, <3>3, <4>1 DEF Whereabouts
    <3>5. Contents(d)'
      BY <2>2, <2>3, <2>4, <3>1 DEF Contents
    <3> QED BY <3>2, <3>4, <3>5 DEF Good
  <2> QED BY <2>6, <2>7
<1> QED BY <1>2, <1>3, <1>4, <1>5 DEF IInv

\* A csworker that joins is no founder: founders listen from the start.
LEMMA JoinKeeps ==
    ASSUME IInv, NEW d \in CSWorker, Join(d)
    PROVE  IInv'
<1>1. /\ mode[d] = "away" /\ mode' = [mode EXCEPT ![d] = "cloning"]
      /\ UNCHANGED <<made, unsent, chan, next, pending, applying, content>>
  BY DEF Join, asw, csw
<1>2. Tables' /\ Unsent'
  BY <1>1 DEF IInv, Tables, Unsent
<1>3. ASSUME NEW c \in Founder PROVE Good(c)'
  <2>1. mode[c] = "live"
    BY DEF IInv, Good, Numbers
  <2>2. mode'[c] = mode[c]
    BY <1>1, <2>1 DEF IInv, Tables, CSWorker
  <2> QED BY <1>1, <2>2, Untouched DEF IInv
<1> QED BY <1>2, <1>3 DEF IInv

\* GET /internal.state changes nothing at the csworker that answers it.
LEMMA InternalStateKeeps ==
    ASSUME IInv, NEW a \in CSWorker, NEW d \in CSWorker, InternalState(a, d)
    PROVE  IInv'
<1>1. UNCHANGED <<made, unsent, chan, mode, next, pending, applying, content>>
  BY DEF InternalState, asw, csw
<1>2. Tables' /\ Unsent'
  BY <1>1 DEF IInv, Tables, Unsent
<1>3. ASSUME NEW c \in Founder PROVE Good(c)'
  BY <1>1, Untouched DEF IInv
<1> QED BY <1>2, <1>3 DEF IInv

\* Only a csworker that joins takes another one's state.
LEMMA CloneKeeps ==
    ASSUME IInv, NEW d \in CSWorker, Clone(d)
    PROVE  IInv'
<1>1. PICK s \in snapshot[d] :
         /\ next' = [next EXCEPT ![d] = s.next]
         /\ content' = [content EXCEPT ![d] = s.content]
         /\ pending' = [pending EXCEPT ![d] = After(s.pending, s.next)]
  BY DEF Clone
<1>2. /\ mode[d] = "cloning" /\ mode' = [mode EXCEPT ![d] = "live"]
      /\ UNCHANGED <<made, unsent, chan, applying>>
  BY DEF Clone, asw
<1>3. Tables' /\ Unsent'
  BY <1>1, <1>2 DEF IInv, Tables, Unsent
<1>4. ASSUME NEW c \in Founder PROVE Good(c)'
  <2>1. mode[c] = "live"
    BY DEF IInv, Good, Numbers
  <2>2. c # d
    BY <1>2, <2>1
  <2>3. /\ mode'[c] = mode[c] /\ next'[c] = next[c] /\ content'[c] = content[c]
        /\ pending'[c] = pending[c]
    BY <1>1, <1>2, <2>2 DEF IInv, Tables, CSWorker
  <2> QED BY <1>2, <2>3, Untouched DEF IInv
<1> QED BY <1>3, <1>4 DEF IInv

\* The invariant is inductive.
LEMMA NextKeeps == IInv /\ [Next]_vars => IInv'
<1> SUFFICES ASSUME IInv, [Next]_vars PROVE IInv'
  OBVIOUS
<1>1. CASE Make
  BY <1>1, MakeKeeps
<1>2. CASE Send
  BY <1>2, SendKeeps
<1>3. ASSUME NEW c \in CSWorker, Receive(c) PROVE IInv'
  BY <1>3, ReceiveKeeps
<1>4. ASSUME NEW c \in CSWorker, Finish(c) PROVE IInv'
  BY <1>4, FinishKeeps
<1>5. ASSUME NEW c \in CSWorker, Join(c) PROVE IInv'
  BY <1>5, JoinKeeps
<1>6. ASSUME NEW c \in CSWorker, Clone(c) PROVE IInv'
  BY <1>6, CloneKeeps
<1>7. ASSUME NEW a \in CSWorker, NEW c \in CSWorker, InternalState(a, c) PROVE IInv'
  BY <1>7, InternalStateKeeps
<1>8. CASE UNCHANGED vars
  <2>1. UNCHANGED <<made, unsent, chan, mode, next, pending, applying, content>>
    BY <1>8 DEF vars, asw, csw
  <2>2. Tables' /\ Unsent'
    BY <2>1 DEF IInv, Tables, Unsent
  <2>3. ASSUME NEW c \in Founder PROVE Good(c)'
    BY <2>1, Untouched DEF IInv
  <2> QED BY <2>2, <2>3 DEF IInv
<1> QED BY <1>1, <1>2, <1>3, <1>4, <1>5, <1>6, <1>7, <1>8 DEF Next

-----------------------------------------------------------------------------
(* Types.                                                                  *)

\* Keeping a changelog for later, and sending the last one made, make lists of numbers.
LEMMA ListsOfNumbers ==
    ASSUME NEW p \in Seq(SN), NEW e \in SN
    PROVE  /\ Later(p, e) \in Seq(SN) /\ Append(p, e) \in Seq(SN)
           /\ p # <<>> => Head(p) \in SN /\ Tail(p) \in Seq(SN) /\ p[Len(p)] \in SN
                          /\ SubSeq(p, 1, Len(p) - 1) \in Seq(SN)
<1> DEFINE D == { i \in DOMAIN p : p[i] < e }
           k == Cardinality(D)
<1>1. Len(p) \in Nat /\ DOMAIN p = 1 .. Len(p) /\ \A i \in 1 .. Len(p) : p[i] \in SN
  BY LenProperties, ElementOfSeq
<1> HIDE DEF D, k
<1>2. k \in 0 .. Len(p)
  <2>1. IsFiniteSet(1 .. Len(p)) /\ Cardinality(1 .. Len(p)) = Len(p)
    <3>1. \A n \in Nat : IsFiniteSet(1 .. n) /\ Cardinality(1 .. n) = n
      BY FS_Interval
    <3> QED BY <1>1, <3>1
  <2>2. D \in SUBSET (1 .. Len(p))
    BY <1>1 DEF D
  <2>3. IsFiniteSet(D) /\ k <= Len(p)
    BY <2>1, <2>2, FS_Subset DEF k
  <2>4. k \in Nat
    BY <2>3, FS_CardinalityType DEF k
  <2> QED BY <1>1, <2>3, <2>4
<1>3. Later(p, e) = SubSeq(p, 1, (k + 1) - 1) \o <<e>> \o SubSeq(p, k + 1, Len(p))
  BY DEF Later, InsertAt, D, k
<1>4. SubSeq(p, 1, (k + 1) - 1) \in Seq(SN) /\ SubSeq(p, k + 1, Len(p)) \in Seq(SN)
  <2>1. \A i \in 1 .. (k + 1) - 1 : i \in 1 .. Len(p)
    BY <1>1, <1>2
  <2>2. \A i \in k + 1 .. Len(p) : i \in 1 .. Len(p)
    BY <1>1, <1>2
  <2> QED BY <1>1, <1>2, <2>1, <2>2, SubSeqProperties
<1>5. Later(p, e) \in Seq(SN)
  BY <1>3, <1>4, ConcatProperties
<1>6. ASSUME p # <<>> PROVE /\ Head(p) \in SN /\ Tail(p) \in Seq(SN) /\ p[Len(p)] \in SN
                            /\ SubSeq(p, 1, Len(p) - 1) \in Seq(SN)
  <2>1. Len(p) \in 1 .. Len(p) /\ \A i \in 1 .. Len(p) - 1 : i \in 1 .. Len(p)
    BY <1>1, <1>6, EmptySeq
  <2> QED BY <1>1, <1>6, <2>1, HeadTailProperties, SubSeqProperties
<1> QED BY <1>5, <1>6, AppendProperties

\* Induction over the natural numbers, for a set of them.
LEMMA NatSetInduction ==
    ASSUME NEW S, 0 \in S, \A n \in Nat : n \in S => n + 1 \in S
    PROVE  Nat \subseteq S
<1> DEFINE R == { ss \in Nat \X Nat : ss[1] < ss[2] }
           T == Nat \ S
<1>1. SUFFICES ASSUME T # {} PROVE FALSE
  OBVIOUS
<1>2. IsWellFoundedOn(R, Nat)
  BY NatLessThanWellFounded DEF OpToRel
<1> HIDE DEF R
<1>3. \E x \in T : \A y \in T : ~ (<<y, x>> \in R)
  <2>1. T \subseteq Nat
    OBVIOUS
  <2> HIDE DEF T
  <2> QED BY <1>1, <1>2, <2>1, WFMin
<1>4. PICK x \in T : \A y \in T : <<y, x>> \notin R
  BY <1>3
<1>5. x # 0 /\ x \in Nat
  OBVIOUS
<1>6. x - 1 \in T
  <2>1. x - 1 \in Nat /\ (x - 1) + 1 = x
    BY <1>5
  <2> QED BY <2>1
<1>7. <<x - 1, x>> \in R
  BY <1>5 DEF R
<1> QED BY <1>4, <1>6, <1>7

\* The changelogs after a number are some of those that were pending.
LEMMA AfterNumbers ==
    ASSUME NEW p \in Seq(SN), NEW sn \in Nat
    PROVE  After(p, sn) \in Seq(SN)
<1> DEFINE n == Len(p)
           Next1(s, k) == IF p[k] > sn THEN Append(s, p[k]) ELSE s
           F(g) == [k \in 0 .. n |-> IF k = 0 THEN <<>>
                                     ELSE IF p[k] > sn THEN Append(g[k - 1], p[k]) ELSE g[k - 1]]
           r == CHOOSE g : g = F(g)
           Upto(k, T) == /\ T \in [0 .. k -> Seq(SN)] /\ T[0] = <<>>
                         /\ \A i \in 1 .. k : T[i] = Next1(T[i - 1], i)
           Some(k) == \E T \in [0 .. k -> Seq(SN)] : Upto(k, T)
           P == { k \in Nat : k <= n => Some(k) }
<1>1. n \in Nat /\ \A i \in 1 .. n : p[i] \in SN
  BY LenProperties, ElementOfSeq
<1>2. After(p, sn) = r[n]
  BY DEF After
<1> HIDE DEF r
<1>3. 0 \in P
  <2>1. Upto(0, [k \in 0 .. 0 |-> <<>>])
    OBVIOUS
  <2> QED BY <2>1
<1>4. ASSUME NEW k \in Nat, k \in P PROVE k + 1 \in P
  <2> HIDE DEF Some
  <2>1. SUFFICES ASSUME k + 1 <= n PROVE Some(k + 1)
    OBVIOUS
  <2>2. PICK T \in [0 .. k -> Seq(SN)] : Upto(k, T)
    BY <1>1, <1>4, <2>1 DEF Some
  <2>3. k + 1 \in 1 .. n /\ T[k] \in Seq(SN) /\ p[k + 1] \in SN
    BY <1>1, <2>1
  <2>4. PICK s \in Seq(SN) : s = Next1(T[k], k + 1)
    BY <2>3, AppendProperties
  <2> DEFINE U == [i \in 0 .. k + 1 |-> IF i = k + 1 THEN s ELSE T[i]]
  <2>5. U \in [0 .. k + 1 -> Seq(SN)] /\ U[0] = <<>> /\ U[k + 1] = s
        /\ \A i \in 0 .. k : U[i] = T[i]
    BY <2>2
  <2> HIDE DEF U
  <2>6. ASSUME NEW i \in 1 .. k + 1 PROVE U[i] = Next1(U[i - 1], i)
    <3>1. CASE i = k + 1
      <4>1. i - 1 = k /\ k \in 0 .. k
        BY <3>1
      <4> QED BY <2>4, <2>5, <3>1, <4>1
    <3>2. CASE i # k + 1
      <4>1. i \in 1 .. k /\ i \in 0 .. k /\ i - 1 \in 0 .. k
        BY <3>2
      <4> QED BY <2>2, <2>5, <4>1
    <3> QED BY <3>1, <3>2
  <2>7. Upto(k + 1, U)
    BY <2>5, <2>6
  <2> QED BY <2>5, <2>7 DEF Some
<1>5. PICK T \in [0 .. n -> Seq(SN)] : Upto(n, T)
  <2> HIDE DEF P
  <2>1. n \in P
    BY <1>1, <1>3, <1>4, NatSetInduction
  <2> QED BY <2>1, <1>1 DEF P
<1>6. T = F(T)
  <2>1. ASSUME NEW k \in 0 .. n
        PROVE  T[k] = IF k = 0 THEN <<>>
                      ELSE IF p[k] > sn THEN Append(T[k - 1], p[k]) ELSE T[k - 1]
    <3>1. CASE k = 0
      BY <1>5, <3>1
    <3>2. CASE k # 0
      <4>1. k \in 1 .. n
        BY <1>1, <3>2
      <4> QED BY <1>5, <3>2, <4>1
    <3> QED BY <3>1, <3>2
  <2> QED BY <1>5, <2>1
<1>7. r = F(r)
  BY <1>6 DEF r
<1> DEFINE Q == { k \in Nat : k <= n => r[k] \in Seq(SN) }
<1>8. 0 \in Q
  <2>1. 0 \in 0 .. n
    BY <1>1
  <2>2. r[0] = <<>>
    BY <1>7, <2>1
  <2>3. r[0] \in Seq(SN)
    BY <2>2
  <2> QED BY <2>3
<1>9. ASSUME NEW k \in Nat, k \in Q PROVE k + 1 \in Q
  <2>1. SUFFICES ASSUME k + 1 <= n PROVE r[k + 1] \in Seq(SN)
    OBVIOUS
  <2>2. r[k] \in Seq(SN) /\ p[k + 1] \in SN
    BY <1>1, <1>9, <2>1
  <2>3. r[k + 1] = Next1(r[k], k + 1)
    <3>1. k + 1 \in 0 .. n /\ k + 1 # 0 /\ (k + 1) - 1 = k
      BY <1>1, <2>1
    <3> QED BY <1>7, <3>1
  <2> QED BY <2>2, <2>3, AppendProperties
<1>10. n \in Q
  <2> HIDE DEF Q
  <2> QED BY <1>1, <1>8, <1>9, NatSetInduction
<1> QED BY <1>1, <1>2, <1>10

\* What a csworker has, and what a snapshot of it says.
LEMMA Tabled ==
    ASSUME TypeOK, NEW c \in CSWorker
    PROVE  /\ MaxMade \in Nat /\ chan[c] \in Seq(SN) /\ mode[c] \in Mode /\ next[c] \in Nat \ {0}
           /\ pending[c] \in Seq(SN) /\ applying[c] \in 0 .. MaxMade /\ content[c] \in Seq(Part)
<1> QED BY ChangelogSyncAssumption DEF TypeOK

LEMMA TypesInit == Init => TypeOK
<1> SUFFICES ASSUME Init PROVE TypeOK
  OBVIOUS
<1>1. MaxMade \in Nat /\ FirstSequenceNumber \in Nat \ {0} /\ <<>> \in Seq(SN) /\ <<>> \in Seq(Part)
  BY ChangelogSyncAssumption DEF FirstSequenceNumber
<1>2. /\ made \in 0 .. MaxMade /\ unsent \in Seq(SN)
      /\ chan \in [CSWorker -> Seq(SN)] /\ pending \in [CSWorker -> Seq(SN)]
      /\ content \in [CSWorker -> Seq(Part)]
  BY <1>1 DEF Init
<1>3. mode \in [CSWorker -> Mode] /\ next \in [CSWorker -> Nat \ {0}]
      /\ applying \in [CSWorker -> 0 .. MaxMade]
  BY <1>1 DEF Init, Mode
<1>4. DOMAIN snapshot = CSWorker /\ \A c \in CSWorker : snapshot[c] = {}
  BY DEF Init
<1> QED BY <1>2, <1>3, <1>4 DEF TypeOK

LEMMA ReceiveTyped == ASSUME TypeOK, NEW c \in CSWorker, Receive(c) PROVE TypeOK'
<1>1. PICK sn : /\ sn = Head(chan[c]) /\ chan[c] # <<>>
                /\ chan' = [chan EXCEPT ![c] = Tail(@)]
  BY DEF Receive
<1>2. sn \in SN /\ Tail(chan[c]) \in Seq(SN) /\ Later(pending[c], sn) \in Seq(SN)
  <2>1. sn \in SN /\ Tail(chan[c]) \in Seq(SN)
    BY <1>1, Tabled, HeadTailProperties
  <2> QED BY <2>1, Tabled, ListsOfNumbers
<1>3. sn \in 0 .. MaxMade /\ Append(content[c], <<sn, "begin">>) \in Seq(Part)
  <2>1. <<sn, "begin">> \in Part /\ sn \in 0 .. MaxMade
    BY <1>2, Tabled DEF Part, SN
  <2> QED BY <2>1, Tabled, AppendProperties
<1>4. chan' \in [CSWorker -> Seq(SN)]
  BY <1>1, <1>2 DEF TypeOK
<1>5. UNCHANGED <<made, unsent, next, snapshot>>
  BY DEF Receive, asw
<1>6. pending' \in [CSWorker -> Seq(SN)]
  BY <1>1, <1>2 DEF Receive, TypeOK
<1>7. mode' \in [CSWorker -> Mode]
  BY <1>1 DEF Receive, TypeOK, Mode
<1>8. applying' \in [CSWorker -> 0 .. MaxMade]
  BY <1>1, <1>3 DEF Receive, TypeOK
<1>9. content' \in [CSWorker -> Seq(Part)]
  BY <1>1, <1>3 DEF Receive, TypeOK
<1> QED BY <1>4, <1>5, <1>6, <1>7, <1>8, <1>9 DEF TypeOK

LEMMA FinishTyped == ASSUME TypeOK, NEW c \in CSWorker, Finish(c) PROVE TypeOK'
<1>1. UNCHANGED <<made, unsent, chan, mode, snapshot>>
  BY DEF Finish, asw
<1>2. applying[c] \in SN /\ next[c] + 1 \in Nat \ {0} /\ 0 \in 0 .. MaxMade
  BY Tabled DEF Finish, SN
<1>3. PICK done \in Seq(Part) : done = Append(content[c], <<applying[c], "end">>)
  <2>1. <<applying[c], "end">> \in Part
    BY <1>2 DEF Part
  <2> QED BY <2>1, Tabled, AppendProperties
<1>4. next' \in [CSWorker -> Nat \ {0}]
  BY <1>2 DEF Finish, TypeOK
<1>5. CASE pending[c] # <<>> /\ Head(pending[c]) = next[c] + 1
  <2>1. next[c] + 1 \in SN /\ Tail(pending[c]) \in Seq(SN)
    BY <1>5, Tabled, HeadTailProperties
  <2>2. next[c] + 1 \in 0 .. MaxMade /\ Append(done, <<next[c] + 1, "begin">>) \in Seq(Part)
    <3>1. <<next[c] + 1, "begin">> \in Part /\ next[c] + 1 \in 0 .. MaxMade
      BY <2>1, Tabled DEF Part, SN
    <3> QED BY <3>1, AppendProperties
  <2>3. /\ pending' = [pending EXCEPT ![c] = Tail(@)]
        /\ applying' = [applying EXCEPT ![c] = next[c] + 1]
        /\ content' = [content EXCEPT ![c] = Append(done, <<next[c] + 1, "begin">>)]
    BY <1>3, <1>5 DEF Finish
  <2>4. /\ pending' \in [CSWorker -> Seq(SN)] /\ applying' \in [CSWorker -> 0 .. MaxMade]
        /\ content' \in [CSWorker -> Seq(Part)]
    BY <2>1, <2>2, <2>3 DEF TypeOK
  <2> QED BY <1>1, <1>4, <2>4 DEF TypeOK
<1>6. CASE ~(pending[c] # <<>> /\ Head(pending[c]) = next[c] + 1)
  <2>1. /\ pending' = pending /\ applying' = [applying EXCEPT ![c] = 0]
        /\ content' = [content EXCEPT ![c] = done]
    BY <1>3, <1>6 DEF Finish
  <2>2. /\ pending' \in [CSWorker -> Seq(SN)] /\ applying' \in [CSWorker -> 0 .. MaxMade]
        /\ content' \in [CSWorker -> Seq(Part)]
    BY <1>2, <2>1 DEF TypeOK
  <2> QED BY <1>1, <1>4, <2>2 DEF TypeOK
<1> QED BY <1>5, <1>6

LEMMA CloneTyped == ASSUME TypeOK, NEW c \in CSWorker, Clone(c) PROVE TypeOK'
<1>1. PICK s \in snapshot[c] : /\ next' = [next EXCEPT ![c] = s.next]
                               /\ content' = [content EXCEPT ![c] = s.content]
                               /\ pending' = [pending EXCEPT ![c] = After(s.pending, s.next)]
  BY DEF Clone
<1>2. /\ mode' = [mode EXCEPT ![c] = "live"] /\ snapshot' = [snapshot EXCEPT ![c] = {}]
      /\ UNCHANGED <<made, unsent, chan, applying>>
  BY DEF Clone, asw
<1>3. s.next \in Nat \ {0} /\ s.content \in Seq(Part) /\ s.pending \in Seq(SN)
  BY <1>1 DEF TypeOK
<1>4. After(s.pending, s.next) \in Seq(SN)
  BY <1>3, AfterNumbers
<1>5. /\ next' \in [CSWorker -> Nat \ {0}] /\ content' \in [CSWorker -> Seq(Part)]
      /\ pending' \in [CSWorker -> Seq(SN)]
  BY <1>1, <1>3, <1>4 DEF TypeOK
<1>6. mode' \in [CSWorker -> Mode]
  BY <1>2 DEF TypeOK, Mode
<1>7. DOMAIN snapshot' = CSWorker /\ \A d \in CSWorker : snapshot'[d] \subseteq snapshot[d]
  BY <1>2 DEF TypeOK
<1> QED BY <1>2, <1>5, <1>6, <1>7 DEF TypeOK

LEMMA NextTyped == TypeOK /\ [Next]_vars => TypeOK'
<1> SUFFICES ASSUME TypeOK, [Next]_vars PROVE TypeOK'
  OBVIOUS
<1>1. MaxMade \in Nat /\ unsent \in Seq(SN) /\ made \in Nat
  BY ChangelogSyncAssumption DEF TypeOK
<1>2. CASE Make
  <2>1. made + 1 \in SN /\ made' = made + 1 /\ unsent' = Append(unsent, made + 1)
    BY <1>1, <1>2 DEF Make, SN
  <2>2. made' \in 0 .. MaxMade /\ unsent' \in Seq(SN)
    BY <1>1, <2>1, AppendProperties DEF SN
  <2>3. UNCHANGED <<chan, mode, next, pending, applying, content, snapshot>>
    BY <1>2 DEF Make, csw
  <2> QED BY <2>2, <2>3 DEF TypeOK
<1>3. CASE Send
  <2>1. /\ unsent # <<>> /\ unsent' = SubSeq(unsent, 1, Len(unsent) - 1)
        /\ UNCHANGED <<made, mode, next, pending, applying, content, snapshot>>
    BY <1>3 DEF Send, csw
  <2>2. PICK e \in SN : e = unsent[Len(unsent)]
    <3>1. Len(unsent) \in 1 .. Len(unsent)
      BY <1>1, <2>1, EmptySeq, LenProperties
    <3> QED BY <1>1, <3>1, ElementOfSeq
  <2>3. unsent' \in Seq(SN)
    BY <1>1, <2>1, <2>2, ListsOfNumbers
  <2>4. \A c \in CSWorker : chan[c] \in Seq(SN) /\ Append(chan[c], e) \in Seq(SN)
    BY Tabled, <2>2, AppendProperties
  <2>5. chan' = [c \in CSWorker |-> IF mode[c] = "away" THEN chan[c] ELSE Append(chan[c], e)]
    BY <1>3, <2>2 DEF Send
  <2>6. chan' \in [CSWorker -> Seq(SN)]
    BY <2>4, <2>5
  <2> QED BY <2>1, <2>3, <2>6 DEF TypeOK
<1>4. ASSUME NEW c \in CSWorker, Join(c) PROVE TypeOK'
  <2>1. mode' = [mode EXCEPT ![c] = "cloning"]
        /\ UNCHANGED <<made, unsent, chan, next, pending, applying, content, snapshot>>
    BY <1>4 DEF Join, asw, csw
  <2>2. mode' \in [CSWorker -> Mode]
    BY <2>1 DEF TypeOK, Mode
  <2> QED BY <2>1, <2>2 DEF TypeOK
<1>5. ASSUME NEW a \in CSWorker, NEW c \in CSWorker, InternalState(a, c) PROVE TypeOK'
  <2>1. PICK s : /\ s = [next |-> next[a], pending |-> pending[a], content |-> content[a]]
                 /\ snapshot' = [snapshot EXCEPT ![c] = {s}]
                 /\ UNCHANGED <<made, unsent, chan, mode, next, pending, applying, content>>
    BY <1>5 DEF InternalState, asw, csw
  <2>2. s.next \in Nat \ {0} /\ s.pending \in Seq(SN) /\ s.content \in Seq(Part)
    BY <2>1, Tabled
  <2>3. /\ DOMAIN snapshot' = CSWorker
        /\ \A d \in CSWorker : snapshot'[d] = IF d = c THEN {s} ELSE snapshot[d]
    BY <2>1 DEF TypeOK
  <2> QED BY <2>1, <2>2, <2>3 DEF TypeOK
<1>6. CASE UNCHANGED vars
  BY <1>6 DEF vars, asw, csw, TypeOK
<1> QED BY <1>2, <1>3, <1>4, <1>5, <1>6, ReceiveTyped, FinishTyped, CloneTyped DEF Next

-----------------------------------------------------------------------------
(* The theorems.                                                           *)

\* Every variable keeps its type, in csworkers that join and clone another's pending
\* changelogs as well: the lists hold numbers that the asworker gave, and no csworker
\* applies number 0 (__applyASWChanges, __clone).
THEOREM TypesKept == Spec => []TypeOK
<1> QED BY TypesInit, NextTyped, PTL DEF Spec

\* Every changelog from the next one of a founder on is in one place, always.
THEOREM OnePlaceEach == Spec => []IInv
<1> QED BY InitGood, NextKeeps, PTL DEF Spec

\* A csworker that was there from the start holds the changelogs in order, each once
\* (__applyASWChanges), whatever csworkers join meanwhile.
THEOREM InOrderAlways == Spec => []AppliedInOrder
<1>1. IInv => AppliedInOrder
  BY DEF IInv, Good, Contents, AppliedInOrder
<1> QED BY <1>1, OnePlaceEach, PTL

\* A changelog that was made is applied, or on its way, or waits for an earlier one.
THEOREM NothingLostEver == Spec => []NothingLost
<1>1. ASSUME IInv, NEW c \in Founder,
             NEW coming, coming = SNsIn(chan[c]) \cup SNsIn(unsent),
             NEW waiting, waiting = SNsIn(pending[c])
      PROVE  /\ \A n \in 1 .. made :
                  \/ n < next[c] /\ n \notin waiting \cup coming
                  \/ n = applying[c]
                  \/ n \in waiting \cup coming
             /\ \A i, j \in DOMAIN pending[c] : i < j => pending[c][i] < pending[c][j]
             /\ waiting # {} /\ applying[c] = 0 => Head(pending[c]) > next[c]
  <2>1. Numbers(c) /\ Whereabouts(c) /\ made \in Nat
    BY <1>1 DEF IInv, Good, Unsent
  <2>2. next[c] \in 1 .. (made + 1) /\ pending[c] \in Seq(Nat) /\ Sorted(pending[c])
    BY <2>1 DEF Numbers
  <2>3. waiting \cup coming = (next[c] .. made) \ {applying[c]}
    BY <1>1, <2>1 DEF Whereabouts
  <2>4. ASSUME NEW n \in 1 .. made
        PROVE  \/ n < next[c] /\ n \notin waiting \cup coming
               \/ n = applying[c]
               \/ n \in waiting \cup coming
    BY <2>1, <2>2, <2>3
  <2>5. ASSUME waiting # {}, applying[c] = 0 PROVE Head(pending[c]) > next[c]
    <3>1. pending[c] # <<>>
      BY <1>1, <2>5, NoNumbers
    <3>2. Head(pending[c]) \in waiting
      BY <1>1, <2>2, <3>1, SortedIsDistinct, DropHead
    <3>3. Head(pending[c]) \in next[c] .. made /\ Head(pending[c]) # next[c]
      BY <1>1, <2>1, <2>3, <2>5, <3>2 DEF Whereabouts
    <3> QED BY <2>1, <2>2, <3>3
  <2> QED BY <2>2, <2>4, <2>5 DEF Sorted
<1>2. IInv => NothingLost
  BY <1>1 DEF NothingLost
<1> QED BY <1>2, OnePlaceEach, PTL

\* No founder ever throws 'invalid changelog sequence#': it gets no changelog twice.
THEOREM FounderNeverRejects == Spec => [](\A c \in Founder : mode[c] = "live")
<1>1. IInv => \A c \in Founder : mode[c] = "live"
  BY DEF IInv, Good, Numbers
<1> QED BY <1>1, OnePlaceEach, PTL

logvars == <<made, [c \in Founder |-> next[c] - 1]>>

\* The asworker has issued nothing, nobody has applied anything.
LEMMA LogInit == Init => Log!Init
<1> SUFFICES ASSUME Init PROVE Log!Init
  OBVIOUS
<1>1. \A c \in Founder : next[c] - 1 = 0
  BY DEF Init, CSWorker, FirstSequenceNumber
<1> QED BY <1>1 DEF Init, Log!Init

\* A step of the code is one of the log's, or none: a changelog is applied where
\* the csworker counts it, at the end of the chain.
LEMMA LogStep == IInv /\ [Next]_vars => [Log!Next]_logvars
<1> SUFFICES ASSUME IInv, [Next]_vars PROVE [Log!Next]_logvars
  OBVIOUS
<1>1. DOMAIN next = CSWorker /\ Founder \subseteq CSWorker /\ made \in Nat
  BY DEF IInv, Tables, Unsent, CSWorker
<1>2. ASSUME made' = made, \A c \in Founder : next'[c] = next[c] PROVE UNCHANGED logvars
  BY <1>2 DEF logvars
<1>3. CASE Make
  <2>1. made < MaxMade /\ made' = made + 1 /\ next' = next
    BY <1>3 DEF Make, csw
  <2> QED BY <2>1 DEF Log!Next, Log!Issue
<1>4. CASE Send
  BY <1>2, <1>4 DEF Send, csw
<1>5. ASSUME NEW d \in CSWorker, Receive(d) PROVE [Log!Next]_logvars
  BY <1>2, <1>5 DEF Receive, asw
<1>6. ASSUME NEW d \in CSWorker, Finish(d) PROVE [Log!Next]_logvars
  <2>1. applying[d] # 0 /\ next' = [next EXCEPT ![d] = @ + 1] /\ made' = made
    BY <1>6 DEF Finish, asw
  <2>2. CASE d \notin Founder
    <3>1. \A c \in Founder : next'[c] = next[c]
      BY <1>1, <2>1, <2>2
    <3> QED BY <1>2, <2>1, <3>1
  <2>3. CASE d \in Founder
    <3>1. next[d] \in Nat /\ next[d] - 1 < made
      BY <1>1, <2>1, <2>3 DEF IInv, Good, Numbers
    <3>2. \A c \in Founder : next'[c] = IF c = d THEN next[d] + 1 ELSE next[c]
      BY <1>1, <2>1
    <3>3. [c \in Founder |-> next'[c] - 1]
            = [[c \in Founder |-> next[c] - 1] EXCEPT ![d] = @ + 1]
      <4>1. (next[d] + 1) - 1 = (next[d] - 1) + 1
        BY <3>1
      <4> QED BY <2>3, <3>2, <4>1
    <3>4. Log!Apply(d)
      BY <2>1, <2>3, <3>1, <3>3 DEF Log!Apply
    <3> QED BY <2>3, <3>4 DEF Log!Next
  <2> QED BY <2>2, <2>3
<1>7. ASSUME NEW d \in CSWorker, Join(d) PROVE [Log!Next]_logvars
  BY <1>2, <1>7 DEF Join, asw, csw
<1>8. ASSUME NEW d \in CSWorker, Clone(d) PROVE [Log!Next]_logvars
  <2>1. mode[d] = "cloning" /\ made' = made
    BY <1>8 DEF Clone, asw
  <2>2. PICK s \in snapshot[d] : next' = [next EXCEPT ![d] = s.next]
    BY <1>8 DEF Clone
  <2>3. d \notin Founder
    BY <2>1 DEF IInv, Good, Numbers
  <2>4. \A c \in Founder : next'[c] = next[c]
    BY <1>1, <2>2, <2>3
  <2> QED BY <1>2, <2>1, <2>4
<1>9. ASSUME NEW a \in CSWorker, NEW d \in CSWorker, InternalState(a, d)
      PROVE  [Log!Next]_logvars
  BY <1>2, <1>9 DEF InternalState, asw, csw
<1>10. CASE UNCHANGED vars
  BY <1>2, <1>10 DEF vars, asw, csw
<1> QED BY <1>3, <1>4, <1>5, <1>6, <1>7, <1>8, <1>9, <1>10 DEF Next

\* The safety of ImplementsReplicaLog: every founder applies 1, 2, 3, ... in that
\* order, each after the asworker issued it.
THEOREM KeepsReplicaLog == Spec => Log!Init /\ [][Log!Next]_logvars
<1> QED BY LogInit, LogStep, OnePlaceEach, PTL DEF Spec
===============================================================================
