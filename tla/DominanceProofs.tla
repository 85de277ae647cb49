-------------------------- MODULE DominanceProofs --------------------------
(***************************************************************************)
(* Dominance as CFG defines it, by cut sets, is what it should be: a       *)
(* partial order on the blocks that can be reached, linear below each of   *)
(* them, so that each but the entry has exactly one immediate dominator.   *)
(***************************************************************************)
EXTENDS CFG, FiniteSetTheorems, WellFoundedInduction, TLAPS

(***************************************************************************)
(* Induction over positions and over blocks, by way of an extreme element. *)
(***************************************************************************)
LEMMA SmallestSet ==
  ASSUME NEW U, IsFiniteSet(U), NEW Family, Family \subseteq SUBSET U, Family # {}
  PROVE  \E x \in Family : \A y \in Family : y \subseteq x => y = x
<1>1. FiniteSubsetsOf(U) = SUBSET U
  BY FS_FiniteSubsetsOfFinite
<1>2. IsWellFoundedOn(StrictSubsetOrdering(U), SUBSET U)
  BY <1>1, FS_StrictSubsetOrderingWellFounded
<1>3. PICK x \in Family : \A y \in Family : <<y, x>> \notin StrictSubsetOrdering(U)
  BY <1>2, WFMin
<1>4. ASSUME NEW y \in Family, y \subseteq x, y # x PROVE FALSE
  <2>1. <<y, x>> \in StrictSubsetOrdering(U)
    BY <1>4 DEF StrictSubsetOrdering
  <2>2. QED
    BY <1>3, <2>1
<1>5. QED
  BY <1>4

LEMMA LargestPosition ==
  ASSUME NEW n \in Nat, NEW T, T \subseteq 1 .. n, T # {}
  PROVE  \E m \in T : \A k \in T : k <= m
<1>. DEFINE Family == {S \in SUBSET (1 .. n) : \E k \in T : S = k .. n}
<1>1. PICK U : U = 1 .. n
  OBVIOUS
<1>2. IsFiniteSet(U)
  BY <1>1, FS_Interval
<1>3. \E x \in Family : \A y \in Family : y \subseteq x => y = x
  <2>1. PICK k \in T : TRUE
    OBVIOUS
  <2>2. k .. n \in SUBSET (1 .. n)
    OBVIOUS
  <2>3. Family \subseteq SUBSET U /\ Family # {}
    BY <1>1, <2>2
  <2>. HIDE DEF Family
  <2>4. QED
    BY <1>2, <2>3, SmallestSet
<1>4. PICK m \in T : \A y \in Family : y \subseteq m .. n => y = m .. n
  BY <1>3
<1>5. ASSUME NEW k \in T, ~ (k <= m) PROVE FALSE
  <2>1. /\ k .. n \in Family
        /\ k .. n \subseteq m .. n
        /\ m \in m .. n
        /\ m \notin k .. n
    BY <1>5
  <2>2. QED
    BY <1>4, <2>1
<1>6. QED
  BY <1>5

(***************************************************************************)
(* What a function guarantees of the blocks that can be reached: they lie  *)
(* in every set that holds the entry and the successors of its members.    *)
(***************************************************************************)
LEMMA BlocksLemma ==
  ASSUME NEW f, IsFunction(f)
  PROVE  /\ IsFiniteSet(Blocks(f))
         /\ Entry \in Blocks(f)
         /\ Visited(f) \subseteq Blocks(f)
         /\ \A b \in Blocks(f) : Successors(f, b) \subseteq Blocks(f)
         /\ \A b \in Visited(f) \ {Entry} : Predecessors(f, b) \cap Visited(f) # {}
<1>1. IsFiniteSet(Blocks(f)) /\ Entry \in Blocks(f)
  BY FS_Interval DEF IsFunction, Blocks, Entry
<1>2. Visited(f) \subseteq Blocks(f)
  BY DEF IsFunction, Visited
<1>3. \A b \in Blocks(f) : Successors(f, b) \subseteq Blocks(f)
  BY DEF IsFunction, Successors
<1>4. ASSUME NEW b \in Visited(f) \ {Entry}
      PROVE  Predecessors(f, b) \cap Visited(f) # {}
  <2>1. PICK i \in 1 .. Len(f.po) : f.po[i] = b
    BY DEF Visited
  <2>2. PICK j \in i + 1 .. Len(f.po) : b \in Successors(f, f.po[j])
    BY <2>1 DEF IsFunction
  <2>3. Len(f.po) \in Nat
    BY DEF IsFunction
  <2>4. f.po[j] \in Visited(f)
    BY <2>3 DEF Visited
  <2>5. QED
    BY <1>2, <2>2, <2>4 DEF Predecessors
<1>5. QED
  BY <1>1, <1>2, <1>3, <1>4

LEMMA ReachedByClosedSets ==
  ASSUME NEW f, IsFunction(f),
         NEW S, Entry \in S, \A x \in S \cap Visited(f) : Successors(f, x) \subseteq S
  PROVE  Visited(f) \subseteq S
<1>. DEFINE Missing == {i \in 1 .. Len(f.po) : f.po[i] \notin S}
<1>1. Len(f.po) \in Nat
  BY DEF IsFunction
<1>2. ASSUME Missing # {} PROVE FALSE
  <2>1. PICK i \in Missing : \A k \in Missing : k <= i
    BY <1>1, <1>2, LargestPosition
  <2>2. PICK j \in i + 1 .. Len(f.po) : f.po[i] \in Successors(f, f.po[j])
    BY <2>1 DEF IsFunction
  <2>3. j \in 1 .. Len(f.po) /\ j \notin Missing
    BY <1>1, <2>1
  <2>4. f.po[j] \in S \cap Visited(f)
    BY <2>3 DEF Visited
  <2>5. QED
    BY <2>1, <2>2, <2>4
<1>3. QED
  BY <1>2 DEF Visited

-----------------------------------------------------------------------------
(***************************************************************************)
(* One block and its neighbours.                                           *)
(***************************************************************************)
LEMMA EntryDominance ==
  ASSUME NEW f, NEW d, Dominates(f, d, Entry)
  PROVE  d = Entry
  BY DEF Dominates, Avoids

LEMMA PredecessorDominance ==
  ASSUME NEW f, NEW d, NEW b, Dominates(f, d, b), d # b,
         NEW p \in Predecessors(f, b)
  PROVE  Dominates(f, d, p)
<1>1. PICK S \in SUBSET Blocks(f) : Avoids(f, d, S) /\ b \notin S
  BY DEF Dominates
<1>2. b \in Successors(f, p)
  BY DEF Predecessors
<1>3. p \notin S
  BY <1>1, <1>2 DEF Avoids
<1>4. QED
  BY <1>1, <1>3 DEF Dominates

LEMMA UnreachableDominance ==
  ASSUME NEW f, IsFunction(f), Visited(f) \subseteq Blocks(f),
         NEW b \in Blocks(f) \ Visited(f), NEW d \in Blocks(f)
  PROVE  Dominates(f, d, b)
<1>1. Avoids(f, d, Visited(f) \ {d})
  BY DEF Avoids, IsFunction
<1>2. QED
  BY <1>1 DEF Dominates

\* Every block dominates itself, and the entry every block.
LEMMA ReflexiveDominance ==
  ASSUME NEW f, IsFunction(f), NEW d \in Blocks(f)
  PROVE  Dominates(f, d, d) /\ Dominates(f, Entry, d)
<1>1. Avoids(f, d, Blocks(f) \ {d})
  BY BlocksLemma DEF Avoids
<1>2. Avoids(f, Entry, {})
  BY DEF Avoids
<1>3. QED
  BY <1>1, <1>2 DEF Dominates

LEMMA TransitiveDominance ==
  ASSUME NEW f, NEW d, NEW m, NEW b, Dominates(f, d, m), Dominates(f, m, b)
  PROVE  Dominates(f, d, b)
<1>1. PICK S \in SUBSET Blocks(f) : Avoids(f, d, S) /\ m \notin S
  BY DEF Dominates
<1>2. PICK T \in SUBSET Blocks(f) : Avoids(f, m, T) /\ b \notin T
  BY DEF Dominates
<1>3. Avoids(f, d, S \cap T)
  BY <1>1, <1>2 DEF Avoids
<1>4. QED
  BY <1>2, <1>3 DEF Dominates

\* Whatever dominates a block that can be reached can be reached itself.
LEMMA ReachedDominators ==
  ASSUME NEW f, IsFunction(f), NEW b \in Visited(f), NEW d, Dominates(f, d, b)
  PROVE  d \in Visited(f)
<1>1. PICK S \in SUBSET Blocks(f) : Avoids(f, d, S) /\ b \notin S
  BY DEF Dominates
<1>2. SUFFICES ASSUME d \notin Visited(f) PROVE FALSE
  OBVIOUS
<1>3. Entry \in S
  BY <1>1, <1>2 DEF Avoids, IsFunction
<1>4. \A x \in S \cap Visited(f) : Successors(f, x) \subseteq S
  BY <1>1, <1>2 DEF Avoids, IsFunction
<1>5. QED
  BY <1>1, <1>3, <1>4, ReachedByClosedSets

LEMMA AntisymmetricDominance ==
  ASSUME NEW f, IsFunction(f), NEW d \in Visited(f), NEW m,
         Dominates(f, d, m), Dominates(f, m, d)
  PROVE  d = m
<1>1. PICK S \in SUBSET Blocks(f) : Avoids(f, d, S) /\ m \notin S
  BY DEF Dominates
<1>2. PICK T \in SUBSET Blocks(f) : Avoids(f, m, T) /\ d \notin T
  BY DEF Dominates
<1>3. SUFFICES ASSUME d # m PROVE FALSE
  OBVIOUS
<1>4. Entry \in S \cap T
  BY <1>1, <1>2, <1>3 DEF Avoids
<1>5. \A x \in S \cap T : Successors(f, x) \subseteq S \cap T
  BY <1>1, <1>2, <1>3 DEF Avoids
<1>6. Visited(f) \subseteq S \cap T
  BY <1>4, <1>5, ReachedByClosedSets
<1>7. QED
  BY <1>2, <1>6

(***************************************************************************)
(* Of two blocks that dominate a third one dominates the other: the blocks *)
(* that either of them fails to dominate would otherwise be closed under   *)
(* successors and hold the entry, hence hold the third.                    *)
(***************************************************************************)
LEMMA LinearDominance ==
  ASSUME NEW f, IsFunction(f), NEW b \in Visited(f), NEW d, NEW e,
         Dominates(f, d, b), Dominates(f, e, b)
  PROVE  Dominates(f, d, e) \/ Dominates(f, e, d)
<1>. DEFINE Free == {x \in Blocks(f) : ~ Dominates(f, d, x) \/ ~ Dominates(f, e, x)}
<1>1. SUFFICES ASSUME ~ Dominates(f, d, e), ~ Dominates(f, e, d) PROVE FALSE
  OBVIOUS
<1>2. Visited(f) \subseteq Blocks(f) /\ Entry \in Blocks(f)
  BY BlocksLemma
<1>3. d # e
  BY <1>1, <1>2, ReachedDominators, ReflexiveDominance
<1>4. Entry \in Free
  BY <1>2, <1>3, EntryDominance
<1>5. ASSUME NEW x \in Free \cap Visited(f), NEW y \in Successors(f, x)
      PROVE  y \in Free
  <2>1. y \in Blocks(f) /\ x \in Predecessors(f, y)
    BY <1>2, <1>5, BlocksLemma DEF Predecessors
  <2>2. CASE y = d
    BY <1>1, <2>1, <2>2
  <2>3. CASE y = e
    BY <1>1, <2>1, <2>3
  <2>4. CASE y # d /\ y # e
    BY <2>1, <2>4, PredecessorDominance
  <2>5. QED
    BY <2>2, <2>3, <2>4
<1>6. b \in Free
  <2>. HIDE DEF Free
  <2>1. QED
    BY <1>4, <1>5, ReachedByClosedSets
<1>7. QED
  BY <1>6

(***************************************************************************)
(* Each block that can be reached, but the entry, has one and only one     *)
(* immediate dominator (dominators.cpp:86-119 returns "the" one).          *)
(***************************************************************************)
THEOREM OneImmediateDominator ==
  ASSUME NEW f, IsFunction(f), NEW b \in Visited(f) \ {Entry}
  PROVE  \E m \in Blocks(f) : \A x : IsImmediateDominator(f, x, b) <=> x = m
<1>. DEFINE D == Dominators(f, b) \ {b}
            Above(m) == {e \in D : ~ Dominates(f, e, m)}
<1>1. /\ IsFiniteSet(Blocks(f)) /\ D \subseteq Blocks(f) /\ Entry \in D
      /\ b \in Blocks(f) /\ b \in Visited(f)
  BY BlocksLemma, ReflexiveDominance DEF Dominators
<1>2. \A d \in D : d \in Visited(f) /\ Dominates(f, d, b)
  BY ReachedDominators DEF Dominators
<1>3. PICK m \in D : \A e \in D : Above(e) \subseteq Above(m) => Above(e) = Above(m)
  <2>. DEFINE Family == {S \in SUBSET Blocks(f) : \E e \in D : S = Above(e)}
  <2>1. \A e \in D : Above(e) \in Family
    BY <1>1
  <2>2. Family \subseteq SUBSET Blocks(f) /\ Family # {}
    BY <1>1, <2>1
  <2>3. PICK S \in Family : \A T \in Family : T \subseteq S => T = S
    <3>. HIDE DEF Family
    <3>1. QED
      BY <1>1, <2>2, SmallestSet
  <2>4. PICK e \in D : S = Above(e)
    OBVIOUS
  <2>5. \A x \in D : Above(x) \subseteq Above(e) => Above(x) = Above(e)
    <3>. HIDE DEF Family, Above, D
    <3>1. QED
      BY <2>1, <2>3, <2>4
  <2>6. QED
    BY <2>5
<1>4. Above(m) = {}
  <2>1. SUFFICES ASSUME NEW e \in D, ~ Dominates(f, e, m) PROVE FALSE
    OBVIOUS
  <2>2. Dominates(f, m, e)
    BY <1>1, <1>2, <2>1, LinearDominance
  <2>3. Above(e) \subseteq Above(m)
    BY <2>2, TransitiveDominance
  <2>4. e \in Above(m) /\ e \notin Above(e)
    BY <1>1, <2>1, ReflexiveDominance
  <2>5. QED
    BY <1>3, <2>3, <2>4
<1>5. IsImmediateDominator(f, m, b)
  BY <1>1, <1>4 DEF IsImmediateDominator, Dominators
<1>6. ASSUME NEW x, IsImmediateDominator(f, x, b) PROVE x = m
  <2>1. x \in D /\ m \in Dominators(f, x)
    BY <1>6 DEF IsImmediateDominator
  <2>2. Dominates(f, m, x) /\ Dominates(f, x, m)
    BY <1>4, <2>1 DEF Dominators
  <2>3. QED
    BY <1>2, <2>1, <2>2, AntisymmetricDominance
<1>7. QED
  BY <1>1, <1>5, <1>6
=============================================================================
