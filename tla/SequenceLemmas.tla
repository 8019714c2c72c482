--------------------------- MODULE SequenceLemmas ---------------------------
(***************************************************************************)
(* Facts about naturals and sequences that the proofs of the components    *)
(* share.  Every set of naturals that is not empty has a least element,    *)
(* which stands in for an induction schema: a property holds of every      *)
(* natural when the set of those that have it is closed under successor.   *)
(* From it come the maximum of a bounded set and the defining equations of *)
(* FlattenSeq, the community modules' recursive concatenation.             *)
(***************************************************************************)
EXTENDS Naturals, Sequences, SequencesExt, FiniteSetsExt, WellFoundedInduction,
        SequenceTheorems, TLAPS

-----------------------------------------------------------------------------
(* Induction.                                                               *)

NatLess == {p \in Nat \X Nat : p[1] < p[2]}

\* There is no infinite descent among the naturals.
LEMMA NatLessWellFounded == IsWellFoundedOn(NatLess, Nat)
  BY NatLessThanWellFounded, IsWellFoundedOnSubrelation DEF OpToRel, NatLess

\* A set of naturals that is not empty has a least element.
LEMMA LeastExists ==
  ASSUME NEW S \in SUBSET Nat, S # {}
  PROVE  \E n \in S : \A m \in S : n <= m
<1>1. PICK n \in S : \A m \in S : ~(<<m, n>> \in NatLess)
  BY NatLessWellFounded, WFMin
<1>2. ASSUME NEW m \in S PROVE n <= m
  <2>1. n \in Nat /\ m \in Nat /\ <<m, n>> \notin NatLess
    BY <1>1
  <2>2. ~(m < n)
    BY <2>1 DEF NatLess
  <2>3. QED
    BY <2>1, <2>2
<1>3. QED
  BY <1>2

\* A set of naturals with zero in it, closed under successor, is all of them.
LEMMA Induction ==
  ASSUME NEW S \in SUBSET Nat, 0 \in S, \A n \in S : n + 1 \in S
  PROVE  S = Nat
<1>1. ASSUME S # Nat PROVE FALSE
  <2>1. Nat \ S # {} /\ Nat \ S \in SUBSET Nat
    BY <1>1
  <2>2. PICK n \in Nat \ S : \A m \in Nat \ S : n <= m
    BY <2>1, LeastExists
  <2>3. n # 0 /\ n - 1 \in Nat /\ n - 1 \in S
    BY <2>2
  <2>4. QED
    BY <2>2, <2>3
<1>2. QED
  BY <1>1

\* A set of naturals with a bound has a greatest element, and Max finds it.
LEMMA MaxOfBounded ==
  ASSUME NEW S \in SUBSET Nat, S # {}, NEW b \in Nat, \A n \in S : n <= b
  PROVE  Max(S) \in S /\ \A n \in S : n <= Max(S)
<1> DEFINE Gaps == {b - n : n \in S}
<1>1. Gaps \in SUBSET Nat /\ Gaps # {}
  <2>1. \A n \in S : n \in Nat /\ b - n \in Nat
    OBVIOUS
  <2>2. Gaps \in SUBSET Nat
    BY <2>1
  <2>3. PICK n \in S : TRUE
    OBVIOUS
  <2>4. b - n \in Gaps
    BY <2>3
  <2>5. QED
    BY <2>2, <2>4
<1>2. PICK g \in Gaps : \A d \in Gaps : g <= d
  BY <1>1, LeastExists
<1>3. PICK n \in S : g = b - n
  BY <1>2
<1>4. \A m \in S : b - n <= b - m
  BY <1>2, <1>3
<1>5. \A m \in S : n >= m
  BY <1>4
<1>6. QED
  BY <1>5 DEF Max

-----------------------------------------------------------------------------
(* FlattenSeq.                                                              *)

\* f concatenates the first sequences of ss, for every length of the prefix.
Flattens(f, ss, n) ==
  f = [i \in 1..n |-> IF i = 1 THEN ss[i] ELSE f[i - 1] \o ss[i]]

LEMMA FlattenExists ==
  ASSUME NEW ss, NEW n \in Nat \ {0}
  PROVE  \E f : Flattens(f, ss, n)
<1> DEFINE K == {k \in Nat : \E f : Flattens(f, ss, k + 1)}
<1>1. 0 \in K
  <2> DEFINE f == [i \in 1..1 |-> ss[1]]
  <2>1. ASSUME NEW i \in 1..1
        PROVE  f[i] = IF i = 1 THEN ss[i] ELSE f[i - 1] \o ss[i]
    OBVIOUS
  <2>2. f = [i \in 1..1 |-> IF i = 1 THEN ss[i] ELSE f[i - 1] \o ss[i]]
    BY <2>1
  <2> HIDE DEF f
  <2>3. Flattens(f, ss, 0 + 1)
    BY <2>2 DEF Flattens
  <2>4. QED
    BY <2>3
<1>2. ASSUME NEW k \in K PROVE k + 1 \in K
  <2>1. PICK f : Flattens(f, ss, k + 1)
    OBVIOUS
  <2> DEFINE g == [i \in 1..(k + 2) |-> IF i = k + 2 THEN f[k + 1] \o ss[k + 2] ELSE f[i]]
  <2>2. \A i \in 1..(k + 1) : f[i] = IF i = 1 THEN ss[i] ELSE f[i - 1] \o ss[i]
    BY <2>1 DEF Flattens
  <2>3. ASSUME NEW i \in 1..(k + 2)
        PROVE  g[i] = IF i = 1 THEN ss[i] ELSE g[i - 1] \o ss[i]
    BY <2>2
  <2>4. g = [i \in 1..(k + 2) |-> IF i = 1 THEN ss[i] ELSE g[i - 1] \o ss[i]]
    BY <2>3
  <2> HIDE DEF g
  <2>5. k \in Nat /\ (k + 1) + 1 = k + 2
    OBVIOUS
  <2>6. Flattens(g, ss, (k + 1) + 1)
    BY <2>4, <2>5 DEF Flattens
  <2>7. QED
    BY <2>5, <2>6
<1>3. K = Nat
  <2> HIDE DEF K
  <2>1. K \in SUBSET Nat
    BY DEF K
  <2>2. QED
    BY <1>1, <1>2, <2>1, Induction
<1>4. n - 1 \in Nat /\ (n - 1) + 1 = n
  OBVIOUS
<1>5. \A k \in Nat : \E f : Flattens(f, ss, k + 1)
  BY <1>3, Zenon
<1>6. \E f : Flattens(f, ss, (n - 1) + 1)
  BY <1>4, <1>5, Zenon
<1>7. QED
  BY <1>4, <1>6

\* f and g concatenate sequences that agree on the first n.
Flattenings(f, ss, n, g, tt, m) ==
  /\ n \in Nat \ {0} /\ m \in Nat /\ n <= m
  /\ \A i \in 1..n : ss[i] = tt[i]
  /\ Flattens(f, ss, n) /\ Flattens(g, tt, m)

LEMMA FlattenUnique ==
  ASSUME NEW f, NEW ss, NEW n, NEW g, NEW tt, NEW m, Flattenings(f, ss, n, g, tt, m)
  PROVE  f[n] = g[n]
<1> n \in Nat \ {0} /\ m \in Nat /\ n <= m
  BY DEF Flattenings
<1> DEFINE K == {k \in Nat : k + 1 <= n => f[k + 1] = g[k + 1]}
<1>1. \A i \in 1..n : f[i] = IF i = 1 THEN ss[i] ELSE f[i - 1] \o ss[i]
  BY DEF Flattens, Flattenings
<1>2. \A i \in 1..m : g[i] = IF i = 1 THEN tt[i] ELSE g[i - 1] \o tt[i]
  BY DEF Flattens, Flattenings
<1>3. \A i \in 1..n : ss[i] = tt[i]
  BY DEF Flattenings
<1>4. 0 \in K
  BY <1>1, <1>2, <1>3
<1>5. ASSUME NEW k \in K PROVE k + 1 \in K
  <2>1. CASE k + 2 <= n
    <3>1. k + 2 \in 1..n /\ k + 2 \in 1..m /\ k + 2 # 1 /\ (k + 2) - 1 = k + 1
      BY <2>1
    <3>2. f[k + 2] = f[k + 1] \o ss[k + 2]
      BY <1>1, <3>1
    <3>3. g[k + 2] = g[k + 1] \o tt[k + 2]
      BY <1>2, <3>1
    <3>4. f[k + 1] = g[k + 1] /\ ss[k + 2] = tt[k + 2]
      BY <1>3, <2>1, <3>1
    <3>5. f[k + 2] = g[k + 2]
      BY <3>2, <3>3, <3>4
    <3>6. QED
      BY <3>5
  <2>2. CASE ~(k + 2 <= n)
    BY <2>2
  <2>3. QED
    BY <2>1, <2>2
<1>6. K = Nat
  <2> HIDE DEF K
  <2>1. K \in SUBSET Nat
    BY DEF K
  <2>2. QED
    BY <1>4, <1>5, <2>1, Induction
<1>7. n - 1 \in Nat /\ (n - 1) + 1 = n
  OBVIOUS
<1>8. n - 1 \in K
  BY <1>6, <1>7
<1>9. QED
  BY <1>7, <1>8

LEMMA FlattenSeqIs ==
  ASSUME NEW T, NEW ss \in Seq(T), ss # <<>>
  PROVE  \E f : Flattens(f, ss, Len(ss)) /\ FlattenSeq(ss) = f[Len(ss)]
<1>1. Len(ss) \in Nat \ {0}
  OBVIOUS
<1>2. \E f : Flattens(f, ss, Len(ss))
  BY <1>1, FlattenExists
<1>3. FlattenSeq(ss) = (CHOOSE f : Flattens(f, ss, Len(ss)))[Len(ss)]
  BY <1>1 DEF FlattenSeq, Flattens
<1>4. QED
  BY <1>2, <1>3

\* FlattenSeq by its equations, one sequence more at the end.
LEMMA FlattenSeqEmpty == FlattenSeq(<<>>) = <<>>
  BY DEF FlattenSeq

LEMMA FlattenSeqAppend ==
  ASSUME NEW T, NEW ss \in Seq(Seq(T)), NEW s \in Seq(T)
  PROVE  FlattenSeq(Append(ss, s)) = FlattenSeq(ss) \o s
<1> DEFINE tt == Append(ss, s)
<1>1. tt \in Seq(Seq(T)) /\ tt # <<>> /\ Len(tt) = Len(ss) + 1 /\ tt[Len(ss) + 1] = s
  <2>1. tt \in Seq(Seq(T))
    BY AppendProperties
  <2>2. Len(tt) = Len(ss) + 1 /\ tt[Len(ss) + 1] = s
    BY AppendProperties
  <2>3. QED
    BY <2>1, <2>2
<1>2. \A i \in 1..Len(ss) : ss[i] = tt[i]
  OBVIOUS
<1> HIDE DEF tt
<1>3. PICK g : Flattens(g, tt, Len(tt)) /\ FlattenSeq(tt) = g[Len(tt)]
  BY <1>1, FlattenSeqIs
<1>4. \A i \in 1..Len(tt) : g[i] = IF i = 1 THEN tt[i] ELSE g[i - 1] \o tt[i]
  BY <1>3 DEF Flattens
<1>5. CASE ss = <<>>
  <2>1. FlattenSeq(tt) = s
    BY <1>1, <1>3, <1>4, <1>5
  <2>2. FlattenSeq(ss) \o s = s
    BY <1>5, FlattenSeqEmpty, ConcatEmptySeq
  <2>3. QED
    BY <2>1, <2>2 DEF tt
<1>6. CASE ss # <<>>
  <2>1. Len(ss) \in Nat \ {0} /\ Len(ss) + 1 \in 1..Len(tt) /\ Len(ss) + 1 # 1
        /\ (Len(ss) + 1) - 1 = Len(ss)
    BY <1>1, <1>6
  <2>2. PICK f : Flattens(f, ss, Len(ss)) /\ FlattenSeq(ss) = f[Len(ss)]
    BY <1>6, FlattenSeqIs
  <2>3. g[Len(ss) + 1] = g[Len(ss)] \o s
    BY <1>1, <1>4, <2>1
  <2>4. Len(ss) \in Nat \ {0} /\ Len(tt) \in Nat /\ Len(ss) <= Len(tt)
    BY <1>1, <2>1
  <2>5. Flattenings(f, ss, Len(ss), g, tt, Len(tt))
    BY <1>2, <1>3, <2>2, <2>4 DEF Flattenings
  <2>6. f[Len(ss)] = g[Len(ss)]
    BY <2>5, FlattenUnique
  <2>7. QED
    BY <1>1, <1>3, <2>2, <2>3, <2>6 DEF tt
<1>7. QED
  BY <1>5, <1>6

=============================================================================
