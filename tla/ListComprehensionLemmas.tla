----------------------- MODULE ListComprehensionLemmas -----------------------
(***************************************************************************)
(* Facts about Picked(s, I), the list comprehension: it has exactly the    *)
(* entries at the positions of I, in their order, so it is never longer    *)
(* than s, repeats nothing that s does not repeat, and leaves a prefix     *)
(* that is kept alone.  And facts about SumOver(g, S): the fold's choice of *)
(* the next summand does not matter, and so sums can be split, compared    *)
(* and telescoped.                                                         *)
(***************************************************************************)
EXTENDS ListComprehension, FiniteSetTheorems, FunctionTheorems, NaturalsInduction, WellFoundedInduction, TLAPS

\* A set of positions is finite and no larger than the sequence.
LEMMA PositionsFinite ==
  ASSUME NEW n \in Nat, NEW I \in SUBSET (1..n)
  PROVE  /\ IsFiniteSet(I) /\ Cardinality(I) \in Nat /\ Cardinality(I) <= n
         /\ Cardinality(I) = n => I = 1..n
<1>1. IsFiniteSet(1..n) /\ Cardinality(1..n) = n
  BY FS_Interval
<1>2. /\ IsFiniteSet(I) /\ Cardinality(I) <= Cardinality(1..n)
      /\ Cardinality(1..n) = Cardinality(I) => 1..n = I
  BY <1>1, FS_Subset
<1>. QED
  BY <1>1, <1>2, FS_CardinalityType

\* Rank numbers the positions of I from 1 to Cardinality(I), in order.
LEMMA RankFacts ==
  ASSUME NEW n \in Nat, NEW I \in SUBSET (1..n)
  PROVE  /\ \A i \in I : Rank(I, i) \in 1..Cardinality(I)
         /\ \A i, j \in I : i < j => Rank(I, i) < Rank(I, j)
         /\ \A k \in 1..Cardinality(I) : \E i \in I : Rank(I, i) = k
<1>. DEFINE Below(i) == {j \in I : j <= i}
<1>0. \A i \in I : i \in Int
  OBVIOUS
<1>1. IsFiniteSet(I) /\ Cardinality(I) \in Nat
  BY PositionsFinite
<1>2. ASSUME NEW i \in I
      PROVE  /\ IsFiniteSet(Below(i)) /\ Cardinality(Below(i)) \in Nat
             /\ Cardinality(Below(i)) <= Cardinality(I) /\ Cardinality(Below(i)) # 0
  <2>1. Below(i) \in SUBSET I /\ i \in Below(i)
    OBVIOUS
  <2>2. IsFiniteSet(Below(i)) /\ Cardinality(Below(i)) <= Cardinality(I)
    BY <1>1, <2>1, FS_Subset
  <2>3. Cardinality(Below(i)) \in Nat
    BY <2>2, FS_CardinalityType
  <2>4. Cardinality(Below(i)) # 0
    BY <2>1, <2>2, FS_EmptySet
  <2>. QED
    BY <2>2, <2>3, <2>4
<1>3. ASSUME NEW i \in I, NEW j \in I, i < j
      PROVE  Cardinality(Below(i)) < Cardinality(Below(j))
  <2>0. i \in Int /\ j \in Int /\ ~(j <= i) /\ j <= j
    BY <1>0, <1>3
  <2>1. /\ \A k \in Below(i) : k \in Below(j)
        /\ j \in Below(j) /\ j \notin Below(i)
    BY <1>0, <1>3, <2>0
  <2>2. /\ Cardinality(Below(i)) <= Cardinality(Below(j))
        /\ Cardinality(Below(j)) = Cardinality(Below(i)) => Below(j) = Below(i)
    <3>1. Below(i) \in SUBSET Below(j)
      BY <2>1
    <3>. QED
      BY <1>2, <3>1, FS_Subset
  <2>. QED
    BY <1>2, <2>1, <2>2
<1>4. \A i \in I : Rank(I, i) \in 1..Cardinality(I)
  BY <1>1, <1>2 DEF Rank
<1>5. \A i, j \in I : i < j => Rank(I, i) < Rank(I, j)
  BY <1>3 DEF Rank
<1>6. \A k \in 1..Cardinality(I) : \E i \in I : Rank(I, i) = k
  <2>. DEFINE f == [i \in I |-> Rank(I, i)]
  <2>1. f \in Injection(I, 1..Cardinality(I))
    <3>1. f \in [I -> 1..Cardinality(I)]
      BY <1>4
    <3>2. \A i, j \in I : f[i] = f[j] => i = j
      BY <1>4, <1>5
    <3>. QED
      BY <3>1, <3>2 DEF Injection, IsInjective
  <2>2. IsFiniteSet(1..Cardinality(I)) /\ Cardinality(1..Cardinality(I)) = Cardinality(I)
    BY <1>1, FS_Interval
  <2>3. f \in Surjection(I, 1..Cardinality(I))
    BY <2>1, <2>2, FS_Injection
  <2>4. ASSUME NEW k \in 1..Cardinality(I)
        PROVE  \E i \in I : Rank(I, i) = k
    BY <2>3 DEF Surjection
  <2>. QED
    BY <2>4
<1>. QED
  BY <1>4, <1>5, <1>6

\* The positions that Picked picks: the k-th of I, in increasing order.
LEMMA PickedFacts ==
  ASSUME NEW S, NEW s \in Seq(S), NEW I \in SUBSET DOMAIN s
  PROVE  /\ Cardinality(I) \in Nat /\ Cardinality(I) <= Len(s)
         /\ Picked(s, I) \in Seq(S) /\ Len(Picked(s, I)) = Cardinality(I)
         /\ \A k \in 1..Cardinality(I) : /\ Nth(I, k) \in I /\ Rank(I, Nth(I, k)) = k
                                         /\ Picked(s, I)[k] = s[Nth(I, k)]
<1>1. /\ Len(s) \in Nat /\ DOMAIN s = 1..Len(s) /\ I \in SUBSET (1..Len(s))
      /\ \A i \in 1..Len(s) : s[i] \in S
  OBVIOUS
<1>2. Cardinality(I) \in Nat /\ Cardinality(I) <= Len(s)
  BY <1>1, PositionsFinite
<1>3. \A k \in 1..Cardinality(I) : \E i \in I : Rank(I, i) = k
  BY <1>1, RankFacts
<1>4. \A k \in 1..Cardinality(I) : Nth(I, k) \in I /\ Rank(I, Nth(I, k)) = k
  BY <1>3 DEF Nth
<1>5. \A k \in 1..Cardinality(I) : s[Nth(I, k)] \in S
  BY <1>1, <1>4
<1>6. Picked(s, I) \in Seq(S) /\ Len(Picked(s, I)) = Cardinality(I)
  <2>. DEFINE w == [k \in 1..Cardinality(I) |-> s[Nth(I, k)]]
  <2>1. w \in Seq(S) /\ Len(w) = Cardinality(I)
    BY <1>2, <1>5
  <2>. QED
    BY <2>1 DEF Picked
<1>7. \A k \in 1..Cardinality(I) : Picked(s, I)[k] = s[Nth(I, k)]
  BY DEF Picked
<1>. QED
  BY <1>2, <1>4, <1>6, <1>7

\* Places and positions are inverse to each other.
LEMMA NthRank ==
  ASSUME NEW n \in Nat, NEW I \in SUBSET (1..n), NEW i \in I
  PROVE  Rank(I, i) \in 1..Cardinality(I) /\ Nth(I, Rank(I, i)) = i
<1>1. /\ Rank(I, i) \in 1..Cardinality(I)
      /\ \A j \in I : Rank(I, j) \in 1..Cardinality(I)
      /\ \A j, k \in I : j < k => Rank(I, j) < Rank(I, k)
  BY RankFacts
<1>2. Cardinality(I) \in Nat
  BY PositionsFinite
<1>3. \A j \in I : Rank(I, j) = Rank(I, i) => j = i
  BY <1>1, <1>2
<1>. QED
  BY <1>1, <1>3 DEF Nth

\* What is picked is what stands at the positions.
LEMMA PickedRange ==
  ASSUME NEW S, NEW s \in Seq(S), NEW I \in SUBSET DOMAIN s
  PROVE  /\ DOMAIN Picked(s, I) = 1..Cardinality(I)
         /\ \A k \in DOMAIN Picked(s, I) : \E i \in I : Picked(s, I)[k] = s[i]
         /\ \A i \in I : \E k \in DOMAIN Picked(s, I) : Picked(s, I)[k] = s[i]
<1>. DEFINE w == Picked(s, I)
<1>1. /\ Cardinality(I) \in Nat /\ w \in Seq(S) /\ Len(w) = Cardinality(I)
      /\ \A k \in 1..Cardinality(I) : Nth(I, k) \in I /\ w[k] = s[Nth(I, k)]
  BY PickedFacts
<1>2. DOMAIN w = 1..Cardinality(I)
  BY <1>1
<1>3. \A i \in I : Rank(I, i) \in 1..Cardinality(I) /\ Nth(I, Rank(I, i)) = i
  <2>1. Len(s) \in Nat /\ I \in SUBSET (1..Len(s))
    OBVIOUS
  <2>. QED
    BY <2>1, NthRank
<1>4. \A i \in I : Rank(I, i) \in DOMAIN w /\ w[Rank(I, i)] = s[i]
  BY <1>1, <1>2, <1>3
<1>. QED
  BY <1>1, <1>2, <1>4

\* Picking keeps the order, and so picks no position twice.
LEMMA PickedOrder ==
  ASSUME NEW n \in Nat, NEW I \in SUBSET (1..n),
         NEW k \in 1..Cardinality(I), NEW l \in 1..Cardinality(I)
  PROVE  /\ k < l => Nth(I, k) < Nth(I, l)
         /\ Nth(I, k) = Nth(I, l) => k = l
<1>1. \A m \in 1..Cardinality(I) : Nth(I, m) \in I /\ Rank(I, Nth(I, m)) = m
  BY RankFacts DEF Nth
<1>2. \A i, j \in I : i < j => Rank(I, i) < Rank(I, j)
  BY RankFacts
<1>3. Cardinality(I) \in Nat /\ \A i \in I : i \in Int
  BY PositionsFinite
<1>4. ASSUME NEW i \in I, NEW j \in I, Rank(I, i) = k, Rank(I, j) = l, k < l
      PROVE  i < j
  <2>1. ~(j < i) /\ j # i
    BY <1>2, <1>3, <1>4
  <2>. QED
    BY <1>3, <2>1
<1>5. k < l => Nth(I, k) < Nth(I, l)
  BY <1>1, <1>4
<1>. QED
  BY <1>1, <1>5

\* A prefix whose positions are all kept stays where it is.
LEMMA PickedPrefix ==
  ASSUME NEW S, NEW s \in Seq(S), NEW I \in SUBSET DOMAIN s, NEW m \in 0..Len(s), 1..m \subseteq I
  PROVE  m <= Len(Picked(s, I)) /\ \A i \in 1..m : Picked(s, I)[i] = s[i]
<1>1. Len(s) \in Nat /\ I \in SUBSET (1..Len(s)) /\ m \in Nat
  OBVIOUS
<1>2. ASSUME NEW i \in 1..m
      PROVE  i \in 1..Cardinality(I) /\ Nth(I, i) = i
  <2>1. i \in I /\ i \in Nat
    OBVIOUS
  <2>2. {j \in I : j <= i} = 1..i
    <3>1. \A j \in 1..i : j \in I /\ j <= i
      BY <1>1
    <3>2. \A j \in I : j <= i => j \in 1..i
      BY <1>1, <2>1
    <3>. QED
      BY <3>1, <3>2
  <2>3. Rank(I, i) = i
    <3>1. Cardinality(1..i) = i
      BY <2>1, FS_Interval
    <3>. QED
      BY <2>2, <3>1 DEF Rank
  <2>. QED
    BY <1>1, <2>1, <2>3, NthRank
<1>3. /\ Len(Picked(s, I)) = Cardinality(I) /\ Cardinality(I) \in Nat
      /\ \A k \in 1..Cardinality(I) : Picked(s, I)[k] = s[Nth(I, k)]
  BY PickedFacts
<1>4. m <= Cardinality(I)
  <2>1. CASE m = 0
    BY <1>3, <2>1
  <2>2. CASE m # 0
    <3>1. m \in 1..m
      BY <1>1, <2>2
    <3>. QED
      BY <1>2, <1>3, <3>1
  <2>. QED
    BY <2>1, <2>2
<1>. QED
  BY <1>2, <1>3, <1>4

-----------------------------------------------------------------------------
(* Sums                                                                    *)

\* Induction over the natural numbers, for a set of them.
LEMMA NatSetInduction ==
  ASSUME NEW A \in SUBSET Nat, 0 \in A, \A n \in A : n + 1 \in A
  PROVE  A = Nat
<1>. SUFFICES ASSUME Nat \ A # {} PROVE FALSE
  OBVIOUS
<1>1. PICK x \in Nat \ A : \A y \in Nat \ A : ~(<<y, x>> \in OpToRel(<, Nat))
  <2>1. Nat \ A \subseteq Nat /\ Nat \ A # {}
    OBVIOUS
  <2>2. \E x \in Nat \ A : \A y \in Nat \ A : ~(<<y, x>> \in OpToRel(<, Nat))
    BY <2>1, NatLessThanWellFounded, WFMin
  <2>. QED
    BY <2>2
<1>2. \A y \in Nat \ A : ~(y < x)
  BY <1>1 DEF OpToRel
<1>3. x # 0 /\ x - 1 \in Nat /\ x - 1 < x /\ x - 1 + 1 = x
  OBVIOUS
<1>. QED
  BY <1>2, <1>3

\* Removing an element of a finite set.
LEMMA OneLess ==
  ASSUME NEW S, IsFiniteSet(S), NEW x \in S
  PROVE  /\ IsFiniteSet(S \ {x}) /\ Cardinality(S \ {x}) = Cardinality(S) - 1
         /\ Cardinality(S) \in Nat \ {0} /\ Cardinality(S \ {x}) \in Nat
<1>1. IsFiniteSet(S \ {x}) /\ Cardinality(S \ {x}) = Cardinality(S) - 1
  BY FS_RemoveElement
<1>2. Cardinality(S) \in Nat /\ Cardinality(S \ {x}) \in Nat
  BY <1>1, FS_CardinalityType
<1>. QED
  BY <1>1, <1>2

\* The function that a sum is an application of.
Chosen(s) == CHOOSE x \in s : TRUE
Summed(h, g, S) ==
  h = [s \in SUBSET S |-> IF s = {} THEN 0 ELSE g[Chosen(s)] + h[s \ {Chosen(s)}]]

LEMMA SumDef == \A g, S : SumOver(g, S) = (CHOOSE h : Summed(h, g, S))[S]
BY DEF SumOver, MapThenSumSet, MapThenFoldSet, Summed, Chosen

LEMMA SummedFacts ==
  ASSUME NEW g, NEW S, NEW h, Summed(h, g, S), NEW s \in SUBSET S
  PROVE  /\ s = {} => h[s] = 0
         /\ s # {} => /\ Chosen(s) \in s /\ h[s] = g[Chosen(s)] + h[s \ {Chosen(s)}]
<1>1. h[s] = IF s = {} THEN 0 ELSE g[Chosen(s)] + h[s \ {Chosen(s)}]
  <2>. DEFINE e(f) == [t \in SUBSET S |-> IF t = {} THEN 0 ELSE g[Chosen(t)] + f[t \ {Chosen(t)}]]
  <2>1. h = e(h)
    BY DEF Summed
  <2>2. e(h)[s] = IF s = {} THEN 0 ELSE g[Chosen(s)] + h[s \ {Chosen(s)}]
    OBVIOUS
  <2>. HIDE DEF e
  <2>. QED
    BY <2>1, <2>2
<1>2. s # {} => Chosen(s) \in s
  BY DEF Chosen
<1>. QED
  BY <1>1, <1>2

\* Two such functions agree where both are defined.
LEMMA SummedAgree ==
  ASSUME NEW g, NEW S, NEW T, NEW h, NEW k, IsFiniteSet(S), Summed(h, g, S), Summed(k, g, T),
         NEW s \in SUBSET (S \cap T)
  PROVE  h[s] = k[s]
<1>. DEFINE A == {n \in Nat : \A t \in SUBSET (S \cap T) : Cardinality(t) = n => h[t] = k[t]}
<1>0. \A t \in SUBSET (S \cap T) : IsFiniteSet(t) /\ Cardinality(t) \in Nat
  BY FS_Subset, FS_CardinalityType
<1>1. 0 \in A
  <2>. SUFFICES ASSUME NEW t \in SUBSET (S \cap T), Cardinality(t) = 0 PROVE h[t] = k[t]
    OBVIOUS
  <2>1. t = {}
    BY <1>0, FS_EmptySet
  <2>. QED
    BY <2>1, SummedFacts
<1>2. ASSUME NEW n \in A PROVE n + 1 \in A
  <2>. SUFFICES ASSUME NEW t \in SUBSET (S \cap T), Cardinality(t) = n + 1 PROVE h[t] = k[t]
    OBVIOUS
  <2>1. t # {}
    BY FS_EmptySet
  <2>. DEFINE x == Chosen(t)
              u == t \ {x}
  <2>2. x \in t /\ h[t] = g[x] + h[u] /\ k[t] = g[x] + k[u]
    <3>1. t \in SUBSET S /\ t \in SUBSET T
      OBVIOUS
    <3>. QED
      BY <2>1, <3>1, SummedFacts
  <2>. HIDE DEF x
  <2>3. u \in SUBSET (S \cap T) /\ Cardinality(u) = n
    BY <1>0, <2>2, OneLess
  <2>4. h[u] = k[u]
    BY <2>3
  <2>. QED
    BY <2>2, <2>4
<1>. HIDE DEF A
<1>3. A = Nat
  <2>1. A \in SUBSET Nat
    BY DEF A
  <2>. QED
    BY <1>1, <1>2, <2>1, NatSetInduction
<1>. QED
  BY <1>0, <1>3 DEF A

\* For every finite set there is such a function.
LEMMA SummedExists ==
  ASSUME NEW g, NEW S, IsFiniteSet(S)
  PROVE  \E h : Summed(h, g, S)
<1>. DEFINE A == {n \in Nat : \A t \in SUBSET S : Cardinality(t) <= n => \E h : Summed(h, g, t)}
<1>0. \A t \in SUBSET S : IsFiniteSet(t) /\ Cardinality(t) \in Nat
  BY FS_Subset, FS_CardinalityType
<1>. DEFINE H(t) == CHOOSE h : Summed(h, g, t)
            V(t) == IF t = {} THEN 0 ELSE g[Chosen(t)] + H(t \ {Chosen(t)})[t \ {Chosen(t)}]
            h(t) == [s \in SUBSET t |-> V(s)]
\* The function for a set whose smaller subsets all have one.
<1>1. ASSUME NEW t \in SUBSET S, \A u \in SUBSET t : u # t => \E f : Summed(f, g, u)
      PROVE  Summed(h(t), g, t)
  <2>1. ASSUME NEW u \in SUBSET t, u # t PROVE V(u) = H(u)[u]
    <3>1. Summed(H(u), g, u)
      BY <1>1, <2>1
    <3>. HIDE DEF H
    <3>2. CASE u = {}
      BY <3>1, <3>2, SummedFacts
    <3>3. CASE u # {}
      <4>. DEFINE w == u \ {Chosen(u)}
      <4>1. Chosen(u) \in u /\ H(u)[u] = g[Chosen(u)] + H(u)[w]
        BY <3>1, <3>3, SummedFacts
      <4>2. w \in SUBSET t /\ w # t /\ w \in SUBSET (u \cap w) /\ IsFiniteSet(u)
        <5>1. u \in SUBSET S
          OBVIOUS
        <5>2. w \in SUBSET t /\ w \in SUBSET (u \cap w) /\ u \in SUBSET t
          OBVIOUS
        <5>3. PICK x \in t : x \notin u
          BY <2>1, <5>2
        <5>4. w # t
          BY <5>3
        <5>. QED
          BY <1>0, <5>1, <5>2, <5>4
      <4>3. Summed(H(w), g, w)
        BY <1>1, <4>2 DEF H
      <4>4. H(u)[w] = H(w)[w]
        BY <3>1, <4>2, <4>3, SummedAgree
      <4>. QED
        BY <3>3, <4>1, <4>4
    <3>. QED
      BY <3>2, <3>3
  <2>2. ASSUME NEW s \in SUBSET t
        PROVE  V(s) = IF s = {} THEN 0 ELSE g[Chosen(s)] + h(t)[s \ {Chosen(s)}]
    <3>1. CASE s = {}
      BY <3>1
    <3>2. CASE s # {}
      <4>. DEFINE w == s \ {Chosen(s)}
      <4>1. Chosen(s) \in s
        BY <3>2 DEF Chosen
      <4>2. w \in SUBSET t /\ w # t
        BY <4>1
      <4>3. h(t)[w] = V(w)
        BY <4>2
      <4>4. V(w) = H(w)[w]
        BY <2>1, <4>2
      <4>. HIDE DEF H, h
      <4>. QED
        BY <3>2, <4>3, <4>4
    <3>. QED
      BY <3>1, <3>2
  <2>. HIDE DEF V
  <2>3. h(t) = [s \in SUBSET t |-> IF s = {} THEN 0 ELSE g[Chosen(s)] + h(t)[s \ {Chosen(s)}]]
    BY <2>2
  <2>. HIDE DEF h
  <2>. QED
    BY <2>3 DEF Summed
<1>. HIDE DEF h
<1>2. 0 \in A
  <2>. SUFFICES ASSUME NEW t \in SUBSET S, Cardinality(t) <= 0 PROVE \E f : Summed(f, g, t)
    BY DEF A
  <2>1. t = {}
    BY <1>0, FS_EmptySet
  <2>2. \A u \in SUBSET t : u = t
    BY <2>1
  <2>. QED
    BY <1>1, <2>2
<1>3. ASSUME NEW n \in A PROVE n + 1 \in A
  <2>. SUFFICES ASSUME NEW t \in SUBSET S, Cardinality(t) <= n + 1 PROVE \E f : Summed(f, g, t)
    BY DEF A
  <2>1. ASSUME NEW u \in SUBSET t, u # t PROVE \E f : Summed(f, g, u)
    <3>1. Cardinality(u) \in Nat /\ Cardinality(t) \in Nat /\ Cardinality(u) < Cardinality(t)
      BY <1>0, <2>1, FS_Subset
    <3>. QED
      BY <3>1
  <2>. QED
    BY <1>1, <2>1
<1>. HIDE DEF A
<1>4. A = Nat
  <2>1. A \in SUBSET Nat
    BY DEF A
  <2>. QED
    BY <1>2, <1>3, <2>1, NatSetInduction
<1>5. Cardinality(S) \in A /\ Cardinality(S) <= Cardinality(S)
  BY <1>0, <1>4
<1>. QED
  BY <1>5 DEF A

\* A sum, one summand at a time: the one that the definition chooses first ...
LEMMA SumChosen ==
  ASSUME NEW g, NEW S, IsFiniteSet(S)
  PROVE  /\ S = {} => SumOver(g, S) = 0
         /\ S # {} => /\ Chosen(S) \in S
                      /\ SumOver(g, S) = g[Chosen(S)] + SumOver(g, S \ {Chosen(S)})
<1>. DEFINE H(t) == CHOOSE h : Summed(h, g, t)
            w == S \ {Chosen(S)}
<1>1. SumOver(g, S) = H(S)[S] /\ SumOver(g, w) = H(w)[w]
  BY SumDef
<1>2. IsFiniteSet(w) /\ w \in SUBSET S /\ w \in SUBSET (S \cap w) /\ S \in SUBSET S
  BY FS_Subset
<1>3. Summed(H(S), g, S) /\ Summed(H(w), g, w)
  BY <1>2, SummedExists
<1>. HIDE DEF H, w
<1>4. H(S)[w] = H(w)[w]
  BY <1>2, <1>3, SummedAgree
<1>5. /\ S = {} => H(S)[S] = 0
      /\ S # {} => Chosen(S) \in S /\ H(S)[S] = g[Chosen(S)] + H(S)[w]
  BY <1>2, <1>3, SummedFacts DEF w
<1>. QED
  BY <1>1, <1>4, <1>5 DEF w

LEMMA SumNat ==
  ASSUME NEW S, IsFiniteSet(S), NEW g, \A x \in S : g[x] \in Nat
  PROVE  SumOver(g, S) \in Nat
<1>. DEFINE A == {n \in Nat : \A t \in SUBSET S : Cardinality(t) = n => SumOver(g, t) \in Nat}
<1>0. \A t \in SUBSET S : IsFiniteSet(t) /\ Cardinality(t) \in Nat
  BY FS_Subset, FS_CardinalityType
<1>1. 0 \in A
  <2>. SUFFICES ASSUME NEW t \in SUBSET S, Cardinality(t) = 0 PROVE SumOver(g, t) \in Nat
    BY DEF A
  <2>1. t = {}
    BY <1>0, FS_EmptySet
  <2>. QED
    BY <1>0, <2>1, SumChosen
<1>2. ASSUME NEW n \in A PROVE n + 1 \in A
  <2>. SUFFICES ASSUME NEW t \in SUBSET S, Cardinality(t) = n + 1 PROVE SumOver(g, t) \in Nat
    BY DEF A
  <2>1. t # {}
    <3>1. n + 1 # 0
      BY DEF A
    <3>. HIDE DEF A
    <3>. QED
      BY <3>1, FS_EmptySet
  <2>2. Chosen(t) \in t /\ SumOver(g, t) = g[Chosen(t)] + SumOver(g, t \ {Chosen(t)})
    BY <1>0, <2>1, SumChosen
  <2>3. t \ {Chosen(t)} \in SUBSET S /\ Cardinality(t \ {Chosen(t)}) = n
    BY <1>0, <2>2, OneLess
  <2>. QED
    BY <2>2, <2>3
<1>. HIDE DEF A
<1>3. A = Nat
  <2>1. A \in SUBSET Nat
    BY DEF A
  <2>. QED
    BY <1>1, <1>2, <2>1, NatSetInduction
<1>4. Cardinality(S) \in A /\ S \in SUBSET S
  BY <1>0, <1>3
<1>. QED
  BY <1>4 DEF A

\* ... and so any.
LEMMA SumRemove ==
  ASSUME NEW S, IsFiniteSet(S), NEW g, \A x \in S : g[x] \in Nat, NEW z \in S
  PROVE  SumOver(g, S) = g[z] + SumOver(g, S \ {z})
<1>. DEFINE Fact(t) == \A x \in t : SumOver(g, t) = g[x] + SumOver(g, t \ {x})
            A == {n \in Nat : \A t \in SUBSET S : Cardinality(t) = n => Fact(t)}
<1>0. \A t \in SUBSET S : IsFiniteSet(t) /\ Cardinality(t) \in Nat
  BY FS_Subset, FS_CardinalityType
<1>. HIDE DEF Fact
<1>n. \A t \in SUBSET S : SumOver(g, t) \in Nat
  BY <1>0, SumNat
<1>1. 0 \in A
  <2>. SUFFICES ASSUME NEW t \in SUBSET S, Cardinality(t) = 0 PROVE Fact(t)
    BY DEF A
  <2>1. t = {}
    BY <1>0, FS_EmptySet
  <2>. QED
    BY <2>1 DEF Fact
<1>2. ASSUME NEW n \in A PROVE n + 1 \in A
  <2>. SUFFICES ASSUME NEW t \in SUBSET S, Cardinality(t) = n + 1 PROVE Fact(t)
    BY DEF A
  <2>1. t # {}
    <3>1. n + 1 # 0
      BY DEF A
    <3>. HIDE DEF A
    <3>. QED
      BY <3>1, FS_EmptySet
  <2>. DEFINE y == Chosen(t)
              u == t \ {y}
  <2>2. y \in t /\ SumOver(g, t) = g[y] + SumOver(g, u)
    BY <1>0, <2>1, SumChosen
  <2>. HIDE DEF y
  <2>3. \A x \in t : t \ {x} \in SUBSET S /\ Cardinality(t \ {x}) = n
    BY <1>0, OneLess
  <2>4. \A x \in t : Fact(t \ {x})
    BY <2>3 DEF A
  <2>6. ASSUME NEW x \in t PROVE SumOver(g, t) = g[x] + SumOver(g, t \ {x})
    <3>1. CASE x = y
      BY <2>2, <3>1
    <3>2. CASE x # y
      <4>. DEFINE v == t \ {x}
                  w == u \ {x}
      <4>1. x \in u /\ y \in v /\ v \ {y} = w
        BY <2>2, <3>2
      <4>2. SumOver(g, u) = g[x] + SumOver(g, w) /\ SumOver(g, v) = g[y] + SumOver(g, w)
        BY <2>2, <2>4, <4>1 DEF Fact
      <4>3. g[x] \in Nat /\ g[y] \in Nat /\ SumOver(g, w) \in Nat
        BY <1>n, <2>2
      <4>. HIDE DEF v, w, u
      <4>. QED
        BY <2>2, <4>2, <4>3 DEF v
    <3>. QED
      BY <3>1, <3>2
  <2>. QED
    BY <2>6 DEF Fact
<1>. HIDE DEF A
<1>3. A = Nat
  <2>1. A \in SUBSET Nat
    BY DEF A
  <2>. QED
    BY <1>1, <1>2, <2>1, NatSetInduction
<1>4. Cardinality(S) \in A /\ S \in SUBSET S
  BY <1>0, <1>3
<1>. QED
  BY <1>4 DEF A, Fact

\* Induction over the subsets of a finite set, for a set of them.
LEMMA SubsetInduction ==
  ASSUME NEW S, IsFiniteSet(S), NEW F, {} \in F,
         \A t \in SUBSET S : \A x \in S \ t : t \in F => t \cup {x} \in F
  PROVE  S \in F
<1>. DEFINE A == {n \in Nat : \A t \in SUBSET S : Cardinality(t) = n => t \in F}
<1>0. \A t \in SUBSET S : IsFiniteSet(t) /\ Cardinality(t) \in Nat
  BY FS_Subset, FS_CardinalityType
<1>1. 0 \in A
  <2>. SUFFICES ASSUME NEW t \in SUBSET S, Cardinality(t) = 0 PROVE t \in F
    BY DEF A
  <2>1. t = {}
    BY <1>0, FS_EmptySet
  <2>. QED
    BY <2>1
<1>2. ASSUME NEW n \in A PROVE n + 1 \in A
  <2>. SUFFICES ASSUME NEW t \in SUBSET S, Cardinality(t) = n + 1 PROVE t \in F
    BY DEF A
  <2>1. t # {}
    <3>1. n + 1 # 0
      BY DEF A
    <3>. HIDE DEF A
    <3>. QED
      BY <3>1, FS_EmptySet
  <2>2. PICK x \in t : TRUE
    BY <2>1
  <2>3. t \ {x} \in SUBSET S /\ Cardinality(t \ {x}) = n
    BY <1>0, OneLess
  <2>4. t \ {x} \in F
    BY <2>3
  <2>5. (t \ {x}) \cup {x} = t /\ x \in S \ (t \ {x})
    OBVIOUS
  <2>. QED
    BY <2>3, <2>4, <2>5
<1>. HIDE DEF A
<1>3. A = Nat
  <2>1. A \in SUBSET Nat
    BY DEF A
  <2>. QED
    BY <1>1, <1>2, <2>1, NatSetInduction
<1>4. Cardinality(S) \in A /\ S \in SUBSET S
  BY <1>0, <1>3
<1>. QED
  BY <1>4 DEF A

LEMMA SumAdd ==
  ASSUME NEW S, IsFiniteSet(S), NEW g, \A x \in S : g[x] \in Nat,
         NEW t \in SUBSET S, NEW x \in S \ t
  PROVE  /\ SumOver(g, t \cup {x}) = g[x] + SumOver(g, t)
         /\ SumOver(g, t) \in Nat /\ SumOver(g, t \cup {x}) \in Nat /\ g[x] \in Nat
<1>. DEFINE u == t \cup {x}
<1>1. /\ IsFiniteSet(t) /\ IsFiniteSet(u) /\ x \in u /\ u \ {x} = t
      /\ \A y \in u : g[y] \in Nat
  <2>1. u \in SUBSET S
    OBVIOUS
  <2>2. IsFiniteSet(t) /\ IsFiniteSet(u)
    BY <2>1, FS_Subset
  <2>. QED
    BY <2>1, <2>2
<1>. HIDE DEF u
<1>2. SumOver(g, u) = g[x] + SumOver(g, u \ {x})
  BY <1>1, SumRemove
<1>3. SumOver(g, t) \in Nat /\ SumOver(g, u) \in Nat
  <2>1. \A y \in t : g[y] \in Nat
    OBVIOUS
  <2>. QED
    BY <1>1, <2>1, SumNat
<1>. QED
  BY <1>1, <1>2, <1>3 DEF u

LEMMA SumEmpty == \A g : SumOver(g, {}) = 0
BY SumChosen, FS_EmptySet

\* Larger summands, larger sum.
LEMMA SumCompare ==
  ASSUME NEW S, IsFiniteSet(S), NEW g, NEW h,
         \A x \in S : g[x] \in Nat /\ h[x] \in Nat /\ g[x] <= h[x]
  PROVE  /\ SumOver(g, S) <= SumOver(h, S)
         /\ SumOver(g, S) = SumOver(h, S) <=> \A x \in S : g[x] = h[x]
<1>. DEFINE Fact(t) == /\ SumOver(g, t) <= SumOver(h, t)
                       /\ SumOver(g, t) = SumOver(h, t) <=> \A x \in t : g[x] = h[x]
            F == {t \in SUBSET S : Fact(t)}
<1>1. {} \in F
  BY SumEmpty
<1>2. ASSUME NEW t \in SUBSET S, NEW x \in S \ t, t \in F PROVE t \cup {x} \in F
  <2>1. Fact(t)
    BY <1>2
  <2>2. /\ SumOver(g, t \cup {x}) = g[x] + SumOver(g, t) /\ SumOver(h, t \cup {x}) = h[x] + SumOver(h, t)
        /\ SumOver(g, t) \in Nat /\ SumOver(h, t) \in Nat /\ g[x] \in Nat /\ h[x] \in Nat
    BY SumAdd
  <2>. DEFINE a == SumOver(g, t)
              b == SumOver(h, t)
              c == g[x]
              d == h[x]
              p == SumOver(g, t \cup {x})
              q == SumOver(h, t \cup {x})
  <2>3. p = c + a /\ q = d + b /\ a \in Nat /\ b \in Nat /\ c \in Nat /\ d \in Nat /\ a <= b /\ c <= d
    BY <2>1, <2>2
  <2>4. a = b <=> \A y \in t : g[y] = h[y]
    BY <2>1
  <2>5. c = d <=> g[x] = h[x]
    OBVIOUS
  <2>. HIDE DEF a, b, c, d, p, q
  <2>6. p <= q /\ (p = q <=> a = b /\ c = d)
    BY <2>3
  <2>7. p = q <=> \A y \in t \cup {x} : g[y] = h[y]
    BY <2>4, <2>5, <2>6
  <2>8. Fact(t \cup {x})
    BY <2>6, <2>7 DEF p, q
  <2>. HIDE DEF Fact
  <2>. QED
    BY <2>8
<1>. HIDE DEF F
<1>3. S \in F
  BY <1>1, <1>2, SubsetInduction
<1>. QED
  BY <1>3 DEF F

LEMMA SumConstant ==
  ASSUME NEW S, IsFiniteSet(S), NEW c \in Nat, NEW g, \A x \in S : g[x] = c
  PROVE  SumOver(g, S) = Cardinality(S) * c
<1>. DEFINE F == {t \in SUBSET S : SumOver(g, t) = Cardinality(t) * c}
<1>1. {} \in F
  BY SumEmpty, FS_EmptySet
<1>2. ASSUME NEW t \in SUBSET S, NEW x \in S \ t, t \in F PROVE t \cup {x} \in F
  <2>1. SumOver(g, t \cup {x}) = c + SumOver(g, t)
    BY SumAdd
  <2>2. Cardinality(t \cup {x}) = Cardinality(t) + 1 /\ Cardinality(t) \in Nat
    BY FS_Subset, FS_AddElement, FS_CardinalityType
  <2>. DEFINE n == Cardinality(t)
  <2>3. SumOver(g, t) = n * c /\ n \in Nat
    BY <1>2, <2>2
  <2>. HIDE DEF n
  <2>4. c + n * c = (n + 1) * c
    BY <2>3
  <2>5. SumOver(g, t \cup {x}) = (n + 1) * c /\ Cardinality(t \cup {x}) = n + 1
    BY <2>1, <2>2, <2>3, <2>4 DEF n
  <2>. QED
    BY <2>5
<1>. HIDE DEF F
<1>3. S \in F
  BY <1>1, <1>2, SubsetInduction
<1>. QED
  BY <1>3 DEF F

LEMMA SumZero ==
  ASSUME NEW S, IsFiniteSet(S), NEW g, \A x \in S : g[x] \in Nat
  PROVE  SumOver(g, S) \in Nat /\ (SumOver(g, S) = 0 <=> \A x \in S : g[x] = 0)
<1>. DEFINE z == [x \in S |-> 0]
<1>1. SumOver(z, S) = 0
  <2>1. \A x \in S : z[x] = 0
    OBVIOUS
  <2>. HIDE DEF z
  <2>2. SumOver(z, S) = Cardinality(S) * 0 /\ Cardinality(S) \in Nat
    BY <2>1, SumConstant, FS_CardinalityType
  <2>. QED
    BY <2>2
<1>2. SumOver(z, S) = SumOver(g, S) <=> \A x \in S : z[x] = g[x]
  <2>1. \A x \in S : z[x] \in Nat /\ g[x] \in Nat /\ z[x] <= g[x]
    OBVIOUS
  <2>. HIDE DEF z
  <2>. QED
    BY <2>1, SumCompare
<1>3. \A x \in S : z[x] = 0
  OBVIOUS
<1>. HIDE DEF z
<1>. QED
  BY <1>1, <1>2, <1>3, SumNat

LEMMA SumSplit ==
  ASSUME NEW S, IsFiniteSet(S), NEW g, \A x \in S : g[x] \in Nat, NEW T \in SUBSET S
  PROVE  /\ SumOver(g, S) = SumOver(g, T) + SumOver(g, S \ T)
         /\ SumOver(g, T) \in Nat /\ SumOver(g, S \ T) \in Nat
<1>. DEFINE F == {t \in SUBSET (S \ T) : SumOver(g, T \cup t) = SumOver(g, T) + SumOver(g, t)}
<1>0. \A t \in SUBSET S : SumOver(g, t) \in Nat
  BY FS_Subset, SumNat
<1>1. {} \in F
  <2>1. T \cup {} = T
    OBVIOUS
  <2>. QED
    BY <1>0, <2>1, SumEmpty
<1>2. ASSUME NEW t \in SUBSET (S \ T), NEW x \in (S \ T) \ t, t \in F PROVE t \cup {x} \in F
  <2>1. /\ T \cup t \in SUBSET S /\ x \in S \ (T \cup t) /\ T \cup (t \cup {x}) = (T \cup t) \cup {x}
        /\ t \in SUBSET S /\ x \in S \ t
    OBVIOUS
  <2>2. SumOver(g, t \cup {x}) = g[x] + SumOver(g, t) /\ g[x] \in Nat
    BY <2>1, SumAdd
  <2>3. SumOver(g, T \cup (t \cup {x})) = g[x] + SumOver(g, T \cup t)
    BY <2>1, SumAdd
  <2>4. SumOver(g, T \cup t) = SumOver(g, T) + SumOver(g, t)
    BY <1>2
  <2>5. SumOver(g, T) \in Nat /\ SumOver(g, t) \in Nat
    BY <1>0, <2>1
  <2>6. SumOver(g, T \cup (t \cup {x})) = SumOver(g, T) + SumOver(g, t \cup {x})
    BY <2>2, <2>3, <2>4, <2>5
  <2>. QED
    BY <2>6
<1>. HIDE DEF F
<1>3. S \ T \in F
  <2>1. IsFiniteSet(S \ T)
    BY FS_Subset
  <2>. QED
    BY <1>1, <1>2, <2>1, SubsetInduction
<1>4. T \cup (S \ T) = S
  OBVIOUS
<1>. QED
  BY <1>0, <1>3, <1>4 DEF F

\* Summands of 0 do not count, and no summand is larger than the sum.
LEMMA SumSupport ==
  ASSUME NEW S, IsFiniteSet(S), NEW g, \A x \in S : g[x] \in Nat, NEW T \in SUBSET S
  PROVE  /\ (\A x \in S \ T : g[x] = 0) => SumOver(g, S) = SumOver(g, T)
         /\ SumOver(g, T) <= SumOver(g, S) /\ SumOver(g, S) \in Nat /\ SumOver(g, T) \in Nat
<1>1. /\ SumOver(g, S) = SumOver(g, T) + SumOver(g, S \ T)
      /\ SumOver(g, T) \in Nat /\ SumOver(g, S \ T) \in Nat
  BY SumSplit
<1>2. (\A x \in S \ T : g[x] = 0) => SumOver(g, S \ T) = 0
  <2>1. IsFiniteSet(S \ T) /\ \A x \in S \ T : g[x] \in Nat
    BY FS_Subset
  <2>. QED
    BY <2>1, SumZero
<1>. QED
  BY <1>1, <1>2

LEMMA SumElement ==
  ASSUME NEW S, IsFiniteSet(S), NEW g, \A x \in S : g[x] \in Nat, NEW z \in S
  PROVE  g[z] <= SumOver(g, S)
<1>1. SumOver(g, S) = g[z] + SumOver(g, S \ {z})
  BY SumRemove
<1>2. SumOver(g, S \ {z}) \in Nat
  <2>1. {z} \in SUBSET S
    OBVIOUS
  <2>. QED
    BY <2>1, SumSplit
<1>. QED
  BY <1>1, <1>2

\* The same summands by other names.
LEMMA SumReindexed ==
  ASSUME NEW T, IsFiniteSet(T), NEW b, \A i, j \in T : b[i] = b[j] => i = j,
         NEW g, NEW h, \A i \in T : h[i] = g[b[i]] /\ h[i] \in Nat
  PROVE  SumOver(h, T) = SumOver(g, {b[i] : i \in T})
<1>. DEFINE Image(t) == {b[i] : i \in t}
            F == {t \in SUBSET T : SumOver(h, t) = SumOver(g, Image(t))}
<1>1. {} \in F
  <2>1. Image({}) = {}
    OBVIOUS
  <2>. HIDE DEF Image
  <2>. QED
    BY <2>1, SumEmpty
<1>2. ASSUME NEW t \in SUBSET T, NEW x \in T \ t, t \in F PROVE t \cup {x} \in F
  <2>1. SumOver(h, t \cup {x}) = h[x] + SumOver(h, t)
    BY SumAdd
  <2>2. SumOver(g, Image(T) \cap (Image(t) \cup {b[x]})) = g[b[x]] + SumOver(g, Image(t))
    <3>1. IsFiniteSet(Image(T)) /\ \A y \in Image(T) : g[y] \in Nat
      <4>1. IsFiniteSet(Image(T))
        <5>. DEFINE f == [i \in T |-> b[i]]
        <5>1. f \in Surjection(T, Image(T))
          BY DEF Surjection
        <5>. HIDE DEF f, Image
        <5>. QED
          BY <5>1, FS_Surjection
      <4>2. \A y \in Image(T) : g[y] \in Nat
        OBVIOUS
      <4>. QED
        BY <4>1, <4>2
    <3>2. Image(t) \in SUBSET Image(T) /\ b[x] \in Image(T) \ Image(t)
      OBVIOUS
    <3>3. Image(T) \cap (Image(t) \cup {b[x]}) = Image(t) \cup {b[x]}
      BY <3>2
    <3>. HIDE DEF Image
    <3>. QED
      BY <3>1, <3>2, <3>3, SumAdd
  <2>3. Image(T) \cap (Image(t) \cup {b[x]}) = Image(t \cup {x})
    OBVIOUS
  <2>4. SumOver(h, t) = SumOver(g, Image(t))
    BY <1>2
  <2>. HIDE DEF Image
  <2>. QED
    BY <2>1, <2>2, <2>3, <2>4
<1>. HIDE DEF F
<1>3. T \in F
  BY <1>1, <1>2, SubsetInduction
<1>. QED
  BY <1>3 DEF F

\* The sum of the differences.
LEMMA SumTelescopes ==
  ASSUME NEW n \in Nat, NEW p, \A k \in 0..n : p[k] \in Nat,
         NEW s, \A k \in 1..n : s[k] \in Nat /\ p[k] = p[k - 1] + s[k]
  PROVE  SumOver(s, 1..n) = p[n] - p[0]
<1>. DEFINE A == {m \in Nat : m <= n => SumOver(s, 1..m) = p[m] - p[0]}
<1>1. 0 \in A
  <2>1. 1..0 = {} /\ p[0] \in Nat
    OBVIOUS
  <2>2. SumOver(s, 1..0) = p[0] - p[0]
    BY <2>1, SumEmpty
  <2>. QED
    BY <2>2
<1>2. ASSUME NEW m \in Nat, SumOver(s, 1..m) = p[m] - p[0], m + 1 <= n
      PROVE  SumOver(s, 1..(m + 1)) = p[m + 1] - p[0]
  <2>1. /\ 1..(m + 1) = (1..m) \cup {m + 1} /\ 1..m \in SUBSET (1..n) /\ m + 1 \in (1..n) \ (1..m)
        /\ (m + 1) - 1 = m /\ m \in 0..n /\ 0 \in 0..n
    BY <1>2
  <2>2. \A k \in 1..n : s[k] \in Nat
    OBVIOUS
  <2>3. IsFiniteSet(1..n)
    BY FS_Interval
  <2>4. SumOver(s, (1..m) \cup {m + 1}) = s[m + 1] + SumOver(s, 1..m)
    <3>. DEFINE S == 1..n
                t == 1..m
                x == m + 1
    <3>1. IsFiniteSet(S) /\ \A k \in S : s[k] \in Nat
      BY <2>2, <2>3
    <3>2. t \in SUBSET S /\ x \in S \ t
      BY <2>1
    <3>. HIDE DEF S, t, x
    <3>3. SumOver(s, t \cup {x}) = s[x] + SumOver(s, t)
      BY <3>1, <3>2, SumAdd
    <3>. QED
      BY <3>3 DEF t, x
  <2>5. p[m + 1] = p[m] + s[m + 1] /\ s[m + 1] \in Nat /\ p[m] \in Nat /\ p[0] \in Nat
    BY <2>1
  <2>6. SumOver(s, 1..(m + 1)) = s[m + 1] + SumOver(s, 1..m)
    BY <2>1, <2>4
  <2>. DEFINE d == s[m + 1]
              x == p[m]
              y == p[m + 1]
              z == p[0]
              v == SumOver(s, 1..m)
              w == SumOver(s, 1..(m + 1))
  <2>7. w = d + v /\ v = x - z /\ y = x + d /\ d \in Nat /\ x \in Nat /\ z \in Nat
    BY <1>2, <2>5, <2>6
  <2>. HIDE DEF d, x, y, z, v, w
  <2>8. w = y - z
    BY <2>7
  <2>. QED
    BY <2>8 DEF w, y, z
<1>3. ASSUME NEW m \in A PROVE m + 1 \in A
  BY <1>2, <1>3
<1>. HIDE DEF A
<1>4. A = Nat
  <2>1. A \in SUBSET Nat
    BY DEF A
  <2>. QED
    BY <1>1, <1>3, <2>1, NatSetInduction
<1>. QED
  BY <1>4 DEF A

\* What is picked has the sum of the whole, when the rest is 0.
LEMMA SumPicked ==
  ASSUME NEW n \in Nat, NEW I \in SUBSET (1..n), NEW g, \A i \in 1..n : g[i] \in Nat,
         \A i \in (1..n) \ I : g[i] = 0,
         NEW w, \A k \in 1..Cardinality(I) : w[k] = g[Nth(I, k)]
  PROVE  SumOver(w, 1..Cardinality(I)) = SumOver(g, 1..n)
<1>. DEFINE m == Cardinality(I)
            T == 1..m
            b == [k \in T |-> Nth(I, k)]
<1>1. IsFiniteSet(I) /\ m \in Nat
  BY PositionsFinite
<1>2. \A i \in I : \E k \in T : Nth(I, k) = i
  BY NthRank
<1>3. \A k \in T : Nth(I, k) \in I
  BY RankFacts DEF Nth
<1>4. \A k, l \in T : b[k] = b[l] => k = l
  <2>1. ASSUME NEW k \in T, NEW l \in T, Nth(I, k) = Nth(I, l) PROVE k = l
    BY <2>1, PickedOrder
  <2>. QED
    BY <2>1
<1>5. {b[k] : k \in T} = I
  BY <1>2, <1>3
<1>6. \A k \in T : w[k] = g[b[k]] /\ w[k] \in Nat
  BY <1>3
<1>7. IsFiniteSet(T) /\ IsFiniteSet(1..n)
  BY <1>1, FS_Interval
<1>. HIDE DEF b, T
<1>8. SumOver(w, T) = SumOver(g, {b[k] : k \in T})
  BY <1>4, <1>6, <1>7, SumReindexed
<1>9. SumOver(g, 1..n) = SumOver(g, I)
  <2>. DEFINE S == 1..n
  <2>1. IsFiniteSet(S) /\ (\A i \in S : g[i] \in Nat) /\ I \in SUBSET S /\ \A i \in S \ I : g[i] = 0
    BY <1>7
  <2>. HIDE DEF S
  <2>2. SumOver(g, S) = SumOver(g, I)
    BY <2>1, SumSupport
  <2>. QED
    BY <2>2 DEF S
<1>. QED
  BY <1>5, <1>8, <1>9 DEF T

\* Summands that are equal.
LEMMA SumSame ==
  ASSUME NEW S, IsFiniteSet(S), NEW g, NEW h, \A x \in S : g[x] \in Nat /\ h[x] = g[x]
  PROVE  SumOver(h, S) = SumOver(g, S)
BY SumCompare

\* w is the run of m summands of g that begins at a.
Shifted(w, m, g, a) == \A k \in 1..m : w[k] = g[a + k - 1]

\* A run of summands under new numbers, the rest being 0.
LEMMA SumShifted ==
  ASSUME NEW n \in Nat, NEW a \in 1..n, NEW m \in Nat, a + m - 1 <= n,
         NEW g, \A i \in 1..n : g[i] \in Nat, \A i \in 1..n : i \notin a..(a + m - 1) => g[i] = 0,
         NEW w, Shifted(w, m, g, a)
  PROVE  SumOver(w, 1..m) = SumOver(g, 1..n)
<1>0. \A k \in 1..m : w[k] = g[a + k - 1]
  BY DEF Shifted
<1>. DEFINE T == 1..m
            b == [k \in T |-> a + k - 1]
            R == a..(a + m - 1)
<1>1. \A k, l \in T : b[k] = b[l] => k = l
  OBVIOUS
<1>2. {b[k] : k \in T} = R
  <2>1. \A k \in T : a + k - 1 \in R
    OBVIOUS
  <2>2. \A i \in R : i - a + 1 \in T /\ a + (i - a + 1) - 1 = i
    OBVIOUS
  <2>3. {a + k - 1 : k \in T} = R
    <3>. HIDE DEF T, R
    <3>. QED
      BY <2>1, <2>2
  <2>. QED
    BY <2>3
<1>3. R \subseteq 1..n
  OBVIOUS
<1>4. \A k \in T : w[k] = g[b[k]] /\ w[k] \in Nat
  <2>1. \A k \in T : b[k] \in R /\ b[k] = a + k - 1
    OBVIOUS
  <2>. QED
    BY <1>0, <1>3, <2>1
<1>5. IsFiniteSet(T) /\ IsFiniteSet(1..n)
  BY FS_Interval
<1>. HIDE DEF b, T
<1>6. SumOver(w, T) = SumOver(g, {b[k] : k \in T})
  <2>. HIDE DEF R
  <2>1. IsFiniteSet(T)
    BY <1>5
  <2>. QED
    BY <1>1, <1>4, <2>1, SumReindexed
<1>7. SumOver(g, 1..n) = SumOver(g, R)
  <2>. DEFINE S == 1..n
  <2>1. IsFiniteSet(S) /\ (\A i \in S : g[i] \in Nat) /\ R \in SUBSET S /\ \A i \in S \ R : g[i] = 0
    BY <1>3, <1>5
  <2>. HIDE DEF S, R
  <2>2. SumOver(g, S) = SumOver(g, R)
    BY <2>1, SumSupport
  <2>. QED
    BY <2>2 DEF S
<1>. QED
  BY <1>2, <1>6, <1>7 DEF T
=============================================================================
