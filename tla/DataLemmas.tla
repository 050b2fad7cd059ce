----------------------------- MODULE DataLemmas ------------------------------
(***************************************************************************)
(* What the proofs need of the data the models keep: receiving a message   *)
(* takes one element out of a sequence; of numbers, and of subsets of a    *)
(* finite set, there is a least one among those that fail a claim; and     *)
(* folding over a finite set is a function of its subsets.  With the last  *)
(* two an induction over a set or a sequence is a search for the least     *)
(* counterexample.                                                         *)
(***************************************************************************)
EXTENDS Integers, Sequences, SequencesExt, SequenceTheorems, FiniteSetTheorems,
        WellFoundedInduction, TLAPS

\* mq_receive takes the message at position i out of the queue (msg_queue.c:20-30):
\* one message fewer, and position j holds what was at j or at j + 1.
LEMMA RemoveAtProperties ==
    ASSUME NEW S, NEW s \in Seq(S), NEW i \in 1 .. Len(s)
    PROVE  /\ RemoveAt(s, i) \in Seq(S)
           /\ Len(RemoveAt(s, i)) = Len(s) - 1
           /\ \A j \in 1 .. (Len(s) - 1) :
                 RemoveAt(s, i)[j] = IF j < i THEN s[j] ELSE s[j + 1]
<1> DEFINE a == SubSeq(s, 1, i - 1)
           b == SubSeq(s, i + 1, Len(s))
<1>0. Len(s) \in Nat
  OBVIOUS
<1>1. /\ a \in Seq(S) /\ Len(a) = i - 1
      /\ \A j \in 1 .. (i - 1) : a[j] = s[j]
  BY <1>0
<1>2. /\ b \in Seq(S) /\ Len(b) = Len(s) - i
      /\ \A j \in 1 .. (Len(s) - i) : b[j] = s[i + j]
  BY <1>0
<1>3. RemoveAt(s, i) = a \o b
  BY DEF RemoveAt
<1> HIDE DEF a, b
<1>4. /\ a \o b \in Seq(S)
      /\ Len(a \o b) = Len(a) + Len(b)
      /\ \A j \in 1 .. (Len(a) + Len(b)) :
            (a \o b)[j] = IF j <= Len(a) THEN a[j] ELSE b[j - Len(a)]
  BY <1>1, <1>2, ConcatProperties
<1>5. Len(a) + Len(b) = Len(s) - 1
  BY <1>0, <1>1, <1>2
<1>6. ASSUME NEW j \in 1 .. (Len(s) - 1)
      PROVE  (a \o b)[j] = IF j < i THEN s[j] ELSE s[j + 1]
  <2>1. CASE j < i
    BY <2>1, <1>0, <1>1, <1>4, <1>5
  <2>2. CASE ~(j < i)
    <3>1. (a \o b)[j] = b[j - (i - 1)]
      BY <2>2, <1>0, <1>1, <1>4, <1>5
    <3>2. j - (i - 1) \in 1 .. (Len(s) - i)
      BY <2>2, <1>0
    <3>3. b[j - (i - 1)] = s[i + (j - (i - 1))]
      BY <3>2, <1>2
    <3> QED
      BY <3>1, <3>3, <2>2, <1>0
  <2> QED
    BY <2>1, <2>2
<1> QED
  BY <1>3, <1>4, <1>5, <1>6

\* Among sets of subsets of a finite set there is one none of whose proper subsets
\* is in it.
LEMMA LeastSubset ==
    ASSUME NEW S, IsFiniteSet(S), NEW B, B \subseteq SUBSET S, B # {}
    PROVE  \E s \in B : \A t \in SUBSET s : t # s => t \notin B
<1> DEFINE R == StrictSubsetOrdering(S)
<1>1. IsWellFoundedOn(R, SUBSET S)
  BY FS_StrictSubsetOrderingWellFounded, FS_FiniteSubsetsOfFinite
<1>2. \A s \in SUBSET S : \A t \in SUBSET s : t # s => <<t, s>> \in R
  BY DEF StrictSubsetOrdering
<1> HIDE DEF R
<1>3. PICK s \in B : \A t \in B : ~(<<t, s>> \in R)
  BY <1>1, WFMin
<1> QED
  BY <1>2, <1>3

LEMMA LeastNat ==
    ASSUME NEW T, T \subseteq Nat, T # {}
    PROVE  \E n \in T : \A m \in T : n <= m
<1> DEFINE R == OpToRel(<, Nat)
<1>1. IsWellFoundedOn(R, Nat)
  BY NatLessThanWellFounded
<1>2. \A x, y \in Nat : y < x => <<y, x>> \in R
  BY DEF OpToRel
<1> HIDE DEF R
<1>3. PICK n \in T : \A m \in T : ~(<<m, n>> \in R)
  BY <1>1, WFMin
<1>4. ASSUME NEW m \in T PROVE n <= m
  <2>1. n \in Nat /\ m \in Nat
    OBVIOUS
  <2>2. ~(m < n)
    BY <2>1, <1>2, <1>3
  <2> QED
    BY <2>1, <2>2
<1> QED
  BY <1>4

\* iter[s] folds step over s, beginning with base, an element pick[s] of s at a time.
FoldsTo(iter, S, base, pick, step) ==
    /\ iter[{}] = base
    /\ \A s \in (SUBSET S) \ {{}} : iter[s] = step[s][iter[s \ {pick[s]}]]

\* What the folds of the community modules choose is there: it is built up from the
\* smaller subsets, and stays among the values step stays among.
LEMMA FoldExists ==
    ASSUME NEW S, IsFiniteSet(S), NEW V, NEW base \in V, NEW pick, NEW step,
           \A s \in (SUBSET S) \ {{}} : pick[s] \in s /\ \A v \in V : step[s][v] \in V
    PROVE  \E iter \in [SUBSET S -> V] : FoldsTo(iter, S, base, pick, step)
<1> DEFINE Small(n) == {s \in SUBSET S : Cardinality(s) <= n}
           UpTo(n, f) == /\ f \in [Small(n) -> V]
                         /\ f[{}] = base
                         /\ \A s \in Small(n) \ {{}} : f[s] = step[s][f[s \ {pick[s]}]]
           Bad == {n \in Nat : ~ \E f : UpTo(n, f)}
<1>1. \A s \in SUBSET S : IsFiniteSet(s) /\ Cardinality(s) \in Nat /\ Cardinality(s) <= Cardinality(S)
  BY FS_Subset, FS_CardinalityType
<1>2. Cardinality(S) \in Nat
  BY <1>1
<1>e. IsFiniteSet({}) /\ Cardinality({}) = 0
  BY FS_EmptySet
<1>3. Bad = {}
  <2> SUFFICES ASSUME Bad # {} PROVE FALSE
    OBVIOUS
  <2>1. PICK n \in Bad : \A m \in Bad : n <= m
    <3>1. Bad \subseteq Nat
      OBVIOUS
    <3> HIDE DEF Bad
    <3> QED
      BY <3>1, LeastNat
  <2>2. n \in Nat /\ ~ \E f : UpTo(n, f)
    OBVIOUS
  <2>3. CASE n = 0
    <3> DEFINE f == [s \in Small(0) |-> base]
    <3>1. \A s \in Small(0) : s = {}
      BY <1>1, FS_EmptySet
    <3>2. UpTo(0, f)
      BY <3>1, <1>e
    <3> QED
      BY <2>2, <2>3, <3>2
  <2>4. CASE n # 0
    <3>1. n - 1 \in Nat /\ n - 1 \notin Bad
      <4> HIDE DEF Bad
      <4> QED BY <2>1, <2>2, <2>4
    <3>2. PICK g : UpTo(n - 1, g)
      BY <3>1
    <3> DEFINE f == [s \in Small(n) |-> IF s = {} THEN base ELSE step[s][g[s \ {pick[s]}]]]
    <3>3. ASSUME NEW s \in Small(n), s # {}
          PROVE  pick[s] \in s /\ s \ {pick[s]} \in Small(n - 1)
      <4>1. pick[s] \in s
        BY <3>3
      <4>2. Cardinality(s \ {pick[s]}) = Cardinality(s) - 1
        BY <4>1, <1>1, FS_RemoveElement
      <4> QED
        BY <4>1, <4>2, <1>1, <2>2
    <3>4. \A s \in Small(n - 1) : s \in Small(n) /\ g[s] = f[s]
      <4> SUFFICES ASSUME NEW s \in Small(n - 1) PROVE s \in Small(n) /\ g[s] = f[s]
        OBVIOUS
      <4>1. s \in Small(n)
        BY <1>1, <2>2
      <4>2. g[s] = IF s = {} THEN base ELSE step[s][g[s \ {pick[s]}]]
        BY <3>2
      <4> QED
        BY <4>1, <4>2
    <3>5. f \in [Small(n) -> V]
      <4>1. ASSUME NEW s \in Small(n), s # {} PROVE step[s][g[s \ {pick[s]}]] \in V
        <5>1. g[s \ {pick[s]}] \in V
          BY <3>2, <3>3, <4>1
        <5> QED
          BY <4>1, <5>1
      <4> QED
        BY <4>1
    <3>6. UpTo(n, f)
      <4>1. {} \in Small(n)
        BY <1>e, <2>2
      <4>2. ASSUME NEW s \in Small(n) \ {{}} PROVE f[s] = step[s][f[s \ {pick[s]}]]
        <5>1. g[s \ {pick[s]}] = f[s \ {pick[s]}]
          BY <3>3, <3>4
        <5>2. f[s] = step[s][g[s \ {pick[s]}]]
          OBVIOUS
        <5> HIDE DEF f
        <5> QED
          BY <5>1, <5>2
      <4> QED
        BY <3>5, <4>1, <4>2
    <3> QED
      BY <3>6, <2>2
  <2> QED
    BY <2>3, <2>4
<1>4. PICK f : UpTo(Cardinality(S), f)
  BY <1>2, <1>3
<1>5. Small(Cardinality(S)) = SUBSET S
  BY <1>1
<1> QED
  BY <1>4, <1>5 DEF FoldsTo
=============================================================================
