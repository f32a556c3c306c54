--------------------------- MODULE InductionLemmas ---------------------------
(***************************************************************************)
(* Induction for the proofs of the other modules, by the least number for  *)
(* which a claim would fail: extrema of sets of numbers, and what a        *)
(* flattened sequence of sequences is.                                     *)
(***************************************************************************)
EXTENDS SequencesExt, Integers, SequenceTheorems, FiniteSetTheorems, WellFoundedInduction, TLAPS

(* Every nonempty set of natural numbers has a least element.              *)
LessThan == {ss \in Nat \X Nat : ss[1] < ss[2]}

LEMMA LessThanIsWellFounded == IsWellFoundedOn(LessThan, Nat)
BY NatLessThanWellFounded, Zenon DEF OpToRel, LessThan

LEMMA LeastNatural ==
  ASSUME NEW S, S \subseteq Nat, S # {}
  PROVE  \E n \in S : \A m \in S : n <= m
<1>1. PICK n \in S : \A m \in S : <<m, n>> \notin LessThan
  BY LessThanIsWellFounded, WFMin
<1>2. ASSUME NEW m \in S PROVE n <= m
  <2>1. m \in Nat /\ n \in Nat
    OBVIOUS
  <2>2. <<m, n>> \notin LessThan
    BY <1>1
  <2>3. <<m, n>> \in Nat \X Nat /\ <<m, n>>[1] = m /\ <<m, n>>[2] = n
    BY <2>1
  <2>4. ~(m < n)
    BY <2>2, <2>3, Zenon DEF LessThan
  <2> QED BY <2>1, <2>4
<1> QED BY <1>2

(* Every nonempty bounded set of natural numbers has a greatest element.   *)
LEMMA GreatestNatural ==
  ASSUME NEW bound \in Nat, NEW S \in SUBSET (0..bound), S # {}
  PROVE  \E n \in S : \A m \in S : m <= n
<1> DEFINE Below == {bound - m : m \in S}
<1>1. Below \subseteq Nat /\ Below # {}
  <2>1. \A m \in S : bound - m \in Nat
    OBVIOUS
  <2>2. PICK m \in S : TRUE
    OBVIOUS
  <2> QED BY <2>1, <2>2
<1>2. PICK k \in Below : \A j \in Below : k <= j
  BY <1>1, LeastNatural
<1>3. PICK n \in S : k = bound - n
  OBVIOUS
<1>4. ASSUME NEW m \in S PROVE m <= n
  BY <1>2, <1>3
<1> QED BY <1>4

-----------------------------------------------------------------------------
(* The recursive function that FlattenSeq is defined by exists: it can be   *)
(* continued by one more sequence.                                         *)
LEMMA FlattenExists ==
  ASSUME NEW seqs, NEW len \in Nat
  PROVE  \E f : f = [i \in 1..len |-> IF i = 1 THEN seqs[i] ELSE f[i - 1] \o seqs[i]]
<1> DEFINE Unfolds(n, f) == f = [i \in 1..n |-> IF i = 1 THEN seqs[i] ELSE f[i - 1] \o seqs[i]]
           Missing == {n \in Nat : ~ \E f : Unfolds(n, f)}
<1>1. \E f : Unfolds(0, f)
  <2> DEFINE f == [i \in 1..0 |-> seqs[i]]
  <2>1. f = [i \in 1..0 |-> IF i = 1 THEN seqs[i] ELSE f[i - 1] \o seqs[i]]
    OBVIOUS
  <2> QED BY <2>1
<1>2. ASSUME NEW n \in Nat, NEW f, Unfolds(n, f)
      PROVE  \E g : Unfolds(n + 1, g)
  <2> DEFINE g == [i \in 1..(n + 1) |-> IF i = 1 THEN seqs[i] ELSE f[i - 1] \o seqs[i]]
  <2>1. ASSUME NEW i \in 1..(n + 1), i # 1 PROVE g[i - 1] = f[i - 1]
    <3>1. i - 1 \in 1..n /\ i - 1 \in 1..(n + 1)
      BY <2>1
    <3>2. f[i - 1] = IF i - 1 = 1 THEN seqs[i - 1] ELSE f[(i - 1) - 1] \o seqs[i - 1]
      BY <1>2, <3>1
    <3> QED BY <3>1, <3>2
  <2>2. Unfolds(n + 1, g)
    BY <2>1
  <2> QED BY <2>2
<1> HIDE DEF Unfolds
<1>3. Missing = {}
  <2> SUFFICES ASSUME Missing # {} PROVE FALSE
    OBVIOUS
  <2>1. PICK n \in Missing : \A m \in Missing : n <= m
    BY LeastNatural, Missing \subseteq Nat
  <2>2. n \in Nat /\ n # 0 /\ n - 1 \in Nat /\ (n - 1) + 1 = n
    BY <1>1
  <2>3. \E f : Unfolds(n - 1, f)
    BY <2>1, <2>2
  <2> QED BY <1>2, <2>2, <2>3
<1> QED BY <1>3 DEF Unfolds

LEMMA FlattenUnfolds ==
  ASSUME NEW seqs, Len(seqs) \in Nat \ {0}
  PROVE  \E f : /\ f = [i \in 1..Len(seqs) |-> IF i = 1 THEN seqs[i] ELSE f[i - 1] \o seqs[i]]
                /\ FlattenSeq(seqs) = f[Len(seqs)]
<1> DEFINE len == Len(seqs)
           flat == CHOOSE f : f = [i \in 1..len |-> IF i = 1 THEN seqs[i] ELSE f[i - 1] \o seqs[i]]
<1>1. flat = [i \in 1..len |-> IF i = 1 THEN seqs[i] ELSE flat[i - 1] \o seqs[i]]
  BY FlattenExists, Zenon
<1>2. FlattenSeq(seqs) = flat[len]
  BY Zenon DEF FlattenSeq
<1> QED BY <1>1, <1>2

(* Flattening sequences over a set gives a sequence over the set.          *)
LEMMA FlattenTyped ==
  ASSUME NEW T, NEW seqs \in Seq(Seq(T))
  PROVE  FlattenSeq(seqs) \in Seq(T)
<1>1. CASE Len(seqs) = 0
  <2>1. seqs = <<>>
    BY <1>1, EmptySeq
  <2>2. FlattenSeq(seqs) = seqs
    BY <1>1, Zenon DEF FlattenSeq
  <2> QED BY <2>1, <2>2, EmptySeq
<1>2. CASE Len(seqs) # 0
  <2>1. Len(seqs) \in Nat \ {0} /\ \A i \in 1..Len(seqs) : seqs[i] \in Seq(T)
    BY <1>2
  <2>2. PICK f : /\ f = [i \in 1..Len(seqs) |-> IF i = 1 THEN seqs[i] ELSE f[i - 1] \o seqs[i]]
                 /\ FlattenSeq(seqs) = f[Len(seqs)]
    BY <2>1, FlattenUnfolds
  <2>3. \A i \in 1..Len(seqs) : f[i] = IF i = 1 THEN seqs[i] ELSE f[i - 1] \o seqs[i]
    BY <2>2
  <2> DEFINE Wrong == {i \in 1..Len(seqs) : f[i] \notin Seq(T)}
  <2>4. Wrong = {}
    <3> SUFFICES ASSUME Wrong # {} PROVE FALSE
      OBVIOUS
    <3>1. Wrong \subseteq Nat
      BY <2>1
    <3>2. PICK n \in Wrong : \A m \in Wrong : n <= m
      BY <3>1, LeastNatural
    <3>3. n \in 1..Len(seqs) /\ f[n] \notin Seq(T)
      OBVIOUS
    <3>4. CASE n = 1
      BY <2>1, <2>3, <3>3, <3>4
    <3>5. CASE n # 1
      <4>1. n - 1 \in 1..Len(seqs)
        BY <2>1, <3>3, <3>5
      <4>2. n - 1 \notin Wrong
        BY <2>1, <3>2, <3>3
      <4>3. f[n - 1] \in Seq(T) /\ f[n] = f[n - 1] \o seqs[n]
        BY <2>3, <3>3, <3>5, <4>1, <4>2
      <4> QED BY <2>1, <3>3, <4>3
    <3> QED BY <3>4, <3>5
  <2>5. f[Len(seqs)] \in Seq(T)
    BY <2>1, <2>4
  <2> QED BY <2>2, <2>5
<1> QED BY <1>1, <1>2
=============================================================================
