----------------------------- MODULE LICMProofs -----------------------------
(***************************************************************************)
(* What loop-invariant code motion does to a function whatever its loops   *)
(* are, and that it is right for a function with one loop to work on.      *)
(***************************************************************************)
EXTENDS LICM, DominanceProofs, SequenceTheorems

-----------------------------------------------------------------------------
(***************************************************************************)
(* Taking an element out of a sequence.                                    *)
(***************************************************************************)
LEMMA RemovedLemma ==
  ASSUME NEW S, NEW s \in Seq(S), NEW k \in 1 .. Len(s),
         \A j \in 1 .. Len(s) : s[j] = s[k] => j = k
  PROVE  /\ RemoveFirst(s, s[k]) \in Seq(S)
         /\ Len(RemoveFirst(s, s[k])) = Len(s) - 1
         /\ \A j \in 1 .. Len(s) - 1 :
              RemoveFirst(s, s[k])[j] = IF j < k THEN s[j] ELSE s[j + 1]
<1>. DEFINE Found == {i \in 1 .. Len(s) : s[i] = s[k]}
            before == SubSeq(s, 1, k - 1)
            after == SubSeq(s, k + 1, Len(s))
<1>1. Len(s) \in Nat
  OBVIOUS
<1>2. Found = {k}
  OBVIOUS
<1>3. Min(Found) = k
  BY <1>1, <1>2 DEF Min
<1>4. SelectInSeq(s, LAMBDA v : v = s[k]) = k
  BY <1>2, <1>3 DEF SelectInSeq
<1>5. RemoveFirst(s, s[k]) = before \o after
  BY <1>4 DEF RemoveFirst, RemoveAt
<1>6. /\ before \in Seq(S) /\ Len(before) = k - 1
      /\ \A j \in 1 .. k - 1 : before[j] = s[j]
  BY <1>1
<1>7. /\ after \in Seq(S) /\ Len(after) = Len(s) - k
      /\ \A j \in 1 .. Len(s) - k : after[j] = s[k + j]
  BY <1>1
<1>. HIDE DEF before, after
<1>8. /\ before \o after \in Seq(S) /\ Len(before \o after) = Len(s) - 1
      /\ \A j \in 1 .. Len(s) - 1 :
           (before \o after)[j] = IF j < k THEN before[j] ELSE after[j - (k - 1)]
  <2>1. /\ before \o after \in Seq(S)
        /\ Len(before \o after) = Len(before) + Len(after)
        /\ \A i \in 1 .. Len(before) + Len(after) : (before \o after)[i] =
             IF i <= Len(before) THEN before[i] ELSE after[i - Len(before)]
    BY <1>6, <1>7, ConcatProperties
  <2>2. QED
    BY <1>1, <1>6, <1>7, <2>1
<1>9. ASSUME NEW j \in 1 .. Len(s) - 1
      PROVE  (before \o after)[j] = IF j < k THEN s[j] ELSE s[j + 1]
  <2>1. CASE j < k
    BY <1>6, <1>8, <2>1
  <2>2. CASE ~ j < k
    <3>1. j - (k - 1) \in 1 .. Len(s) - k /\ k + (j - (k - 1)) = j + 1
      BY <1>1, <2>2
    <3>2. QED
      BY <1>7, <1>8, <2>2, <3>1
  <2>3. QED
    BY <2>1, <2>2
<1>10. QED
  BY <1>5, <1>8, <1>9

LEMMA AbsentLemma ==
  ASSUME NEW S, NEW s \in Seq(S), NEW e, \A j \in 1 .. Len(s) : s[j] # e
  PROVE  RemoveFirst(s, e) = s
  BY DEF RemoveFirst

\* Where the instruction at position k of block b stands once the one at
\* position k0 of block b0 has been taken out.
Shifted(b0, k0, b, k) == IF b = b0 /\ k > k0 THEN k - 1 ELSE k

\* i stands at k0 in b0 and nowhere else.
StandsOnly(B, i, b0, k0) ==
  /\ b0 \in B /\ k0 \in DOMAIN placed[b0] /\ placed[b0][k0] = i
  /\ \A b \in B : \A k \in DOMAIN placed[b] : placed[b][k] = i => b = b0 /\ k = k0

\* new is the code with what stands at k0 in b0 taken to position `end` of
\* `block`, the last one; all others stay in their blocks, in the same order.
Moved(B, new, b0, k0, block, end) ==
  /\ Stands(new, placed[b0][k0], block, end)
  /\ \A b \in B : \A k \in DOMAIN placed[b] :
       ~ (b = b0 /\ k = k0) => Stands(new, placed[b][k], b, Shifted(b0, k0, b, k))
  /\ \A b \in B : \A k \in DOMAIN new[b] :
       \/ b = block /\ k = end
       \/ /\ b = block => k < end
          /\ \E old \in DOMAIN placed[b] : /\ ~ (b = b0 /\ old = k0)
                                           /\ k = Shifted(b0, k0, b, old)
                                           /\ new[b][k] = placed[b][old]

(***************************************************************************)
(* moveBefore                                                              *)
(***************************************************************************)
LEMMA MoveLemma ==
  ASSUME NEW S, NEW B, placed \in [B -> Seq(S)],
         NEW i, NEW b0, NEW k0, StandsOnly(B, i, b0, k0), NEW block \in B
  PROVE  /\ MoveToEnd(i, block) \in [B -> Seq(S)]
         /\ \E end \in Nat : Moved(B, MoveToEnd(i, block), b0, k0, block, end)
<1>. DEFINE without == [b \in B |-> RemoveFirst(placed[b], i)]
            new == MoveToEnd(i, block)
<1>0. /\ b0 \in B /\ k0 \in DOMAIN placed[b0] /\ i = placed[b0][k0]
      /\ \A b \in B : \A k \in DOMAIN placed[b] : placed[b][k] = i => b = b0 /\ k = k0
  BY DEF StandsOnly
<1>. USE <1>0
<1>1. /\ \A b \in B : /\ placed[b] \in Seq(S) /\ DOMAIN placed[b] = 1 .. Len(placed[b])
                      /\ Len(placed[b]) \in Nat
      /\ i \in S
  OBVIOUS
<1>2. /\ without[b0] \in Seq(S)
      /\ Len(without[b0]) = Len(placed[b0]) - 1
      /\ \A j \in 1 .. Len(placed[b0]) - 1 :
           without[b0][j] = IF j < k0 THEN placed[b0][j] ELSE placed[b0][j + 1]
  <2>1. PICK s \in Seq(S) : s = placed[b0]
    BY <1>1
  <2>2. k0 \in 1 .. Len(s) /\ i = s[k0] /\ \A j \in 1 .. Len(s) : s[j] = s[k0] => j = k0
    BY <1>1, <2>1
  <2>3. /\ RemoveFirst(s, s[k0]) \in Seq(S)
        /\ Len(RemoveFirst(s, s[k0])) = Len(s) - 1
        /\ \A j \in 1 .. Len(s) - 1 :
             RemoveFirst(s, s[k0])[j] = IF j < k0 THEN s[j] ELSE s[j + 1]
    BY <2>2, RemovedLemma
  <2>4. without[b0] = RemoveFirst(s, s[k0])
    BY <2>1, <2>2
  <2>5. QED
    BY <2>1, <2>3, <2>4
<1>3. ASSUME NEW b \in B, b # b0 PROVE without[b] = placed[b]
  <2>1. PICK s \in Seq(S) : s = placed[b]
    BY <1>1
  <2>2. \A j \in 1 .. Len(s) : s[j] # i
    BY <1>1, <1>3, <2>1
  <2>3. RemoveFirst(s, i) = s
    BY <2>2, AbsentLemma
  <2>4. QED
    BY <2>1, <2>3
<1>4. new = [without EXCEPT ![block] = Append(@, i)]
  BY DEF MoveToEnd
<1>5. \A b \in B : without[b] \in Seq(S) /\ Len(without[b]) \in Nat
                   /\ DOMAIN without[b] = 1 .. Len(without[b])
  BY <1>1, <1>2, <1>3
<1>6. DOMAIN without = B /\ without = [b \in B |-> without[b]]
  OBVIOUS
<1>. HIDE DEF without, new
<1>7. /\ new \in [B -> Seq(S)]
      /\ \A b \in B \ {block} : new[b] = without[b]
      /\ new[block] = Append(without[block], i)
  BY <1>1, <1>4, <1>5, <1>6
<1>. DEFINE end == Len(without[block]) + 1
<1>8. /\ end \in Nat /\ DOMAIN new[block] = 1 .. end /\ new[block][end] = i
      /\ \A k \in 1 .. end - 1 : new[block][k] = without[block][k]
  <2>1. PICK s \in Seq(S) : s = without[block]
    BY <1>5
  <2>2. /\ Len(Append(s, i)) = Len(s) + 1 /\ Append(s, i)[Len(s) + 1] = i
        /\ \A k \in 1 .. Len(s) : Append(s, i)[k] = s[k]
        /\ DOMAIN Append(s, i) = 1 .. Len(s) + 1
    BY <1>1
  <2>3. QED
    BY <1>5, <1>7, <2>1, <2>2
<1>9. ASSUME NEW b \in B, NEW k \in DOMAIN without[b]
      PROVE  k \in DOMAIN new[b] /\ new[b][k] = without[b][k]
  <2>1. CASE b = block
    <3>1. k \in 1 .. Len(without[block]) /\ Len(without[block]) \in Nat
      BY <1>5, <2>1
    <3>2. k \in 1 .. end /\ k \in 1 .. end - 1
      BY <3>1
    <3>. HIDE DEF end
    <3>3. QED
      BY <1>8, <2>1, <3>2
  <2>2. CASE b # block
    BY <1>7, <2>2
  <2>3. QED
    BY <2>1, <2>2
<1>10. ASSUME NEW b \in B, NEW k \in DOMAIN placed[b], ~ (b = b0 /\ k = k0)
       PROVE  /\ Shifted(b0, k0, b, k) \in DOMAIN without[b]
              /\ without[b][Shifted(b0, k0, b, k)] = placed[b][k]
  <2>1. CASE b # b0
    BY <1>3, <2>1 DEF Shifted
  <2>2. CASE b = b0 /\ k < k0
    <3>1. Shifted(b0, k0, b, k) = k /\ k \in 1 .. Len(placed[b0]) - 1
      BY <1>1, <2>2 DEF Shifted
    <3>2. QED
      BY <1>2, <1>5, <2>2, <3>1
  <2>3. CASE b = b0 /\ k > k0
    <3>1. /\ Shifted(b0, k0, b, k) = k - 1 /\ k - 1 \in 1 .. Len(placed[b0]) - 1
          /\ ~ (k - 1 < k0) /\ (k - 1) + 1 = k
      BY <1>1, <2>3 DEF Shifted
    <3>2. QED
      BY <1>2, <1>5, <2>3, <3>1
  <2>4. QED
    BY <1>1, <1>10, <2>1, <2>2, <2>3
<1>11. ASSUME NEW b \in B, NEW k \in DOMAIN without[b]
       PROVE  \E old \in DOMAIN placed[b] : /\ ~ (b = b0 /\ old = k0)
                                            /\ k = Shifted(b0, k0, b, old)
                                            /\ without[b][k] = placed[b][old]
  <2>1. CASE b # b0
    BY <1>3, <2>1 DEF Shifted
  <2>2. CASE b = b0 /\ k < k0
    <3>1. k \in 1 .. Len(placed[b0]) - 1 /\ k \in DOMAIN placed[b0] /\ Shifted(b0, k0, b, k) = k
      BY <1>1, <1>2, <1>5, <2>2 DEF Shifted
    <3>2. QED
      BY <1>2, <2>2, <3>1
  <2>3. CASE b = b0 /\ k >= k0
    <3>1. /\ k \in 1 .. Len(placed[b0]) - 1 /\ k + 1 \in DOMAIN placed[b0] /\ k + 1 # k0
          /\ Shifted(b0, k0, b, k + 1) = k /\ ~ (k < k0)
      BY <1>1, <1>2, <1>5, <2>3 DEF Shifted
    <3>2. QED
      BY <1>2, <2>3, <3>1
  <2>4. QED
    BY <1>1, <1>2, <1>5, <2>1, <2>2, <2>3
<1>12. ASSUME NEW b \in B, NEW k \in DOMAIN new[b], ~ (b = block /\ k = end)
       PROVE  k \in DOMAIN without[b] /\ new[b][k] = without[b][k] /\ (b = block => k < end)
  <2>1. CASE b = block
    <3>1. k \in 1 .. end - 1 /\ k < end
      BY <1>8, <1>12, <2>1
    <3>2. k \in DOMAIN without[b]
      BY <1>5, <2>1, <3>1
    <3>. HIDE DEF end
    <3>3. QED
      BY <1>8, <2>1, <3>1, <3>2
  <2>2. CASE b # block
    BY <1>7, <2>2
  <2>3. QED
    BY <2>1, <2>2
<1>13. Stands(new, i, block, end)
  BY <1>8 DEF Stands
<1>14. ASSUME NEW b \in B, NEW k \in DOMAIN placed[b], ~ (b = b0 /\ k = k0)
       PROVE  Stands(new, placed[b][k], b, Shifted(b0, k0, b, k))
  BY <1>9, <1>10, <1>14 DEF Stands
<1>15. ASSUME NEW b \in B, NEW k \in DOMAIN new[b], ~ (b = block /\ k = end)
       PROVE  /\ b = block => k < end
              /\ \E old \in DOMAIN placed[b] : /\ ~ (b = b0 /\ old = k0)
                                               /\ k = Shifted(b0, k0, b, old)
                                               /\ new[b][k] = placed[b][old]
  BY <1>11, <1>12, <1>15
<1>16. Moved(B, new, b0, k0, block, end) /\ end \in Nat
  BY <1>8, <1>13, <1>14, <1>15 DEF Moved
<1>. HIDE DEF end
<1>17. \E x \in Nat : Moved(B, new, b0, k0, block, x)
  BY <1>16
<1>18. QED
  BY <1>7, <1>17 DEF new

-----------------------------------------------------------------------------
LEMMA SmallestPosition ==
  ASSUME NEW n \in Nat, NEW T, T \subseteq 1 .. n, T # {}
  PROVE  \E m \in T : \A k \in T : m <= k
<1>. DEFINE Mirror == {i \in 1 .. n : n + 1 - i \in T}
<1>1. Mirror \subseteq 1 .. n
  OBVIOUS
<1>2. Mirror # {}
  <2>1. PICK k \in T : TRUE
    OBVIOUS
  <2>2. n + 1 - k \in 1 .. n /\ n + 1 - (n + 1 - k) = k
    OBVIOUS
  <2>3. QED
    BY <2>2
<1>3. PICK m \in Mirror : \A k \in Mirror : k <= m
  <2>. HIDE DEF Mirror
  <2>1. QED
    BY <1>1, <1>2, LargestPosition
<1>4. n + 1 - m \in T
  OBVIOUS
<1>5. \A k \in T : n + 1 - m <= k
  <2>1. TAKE k \in T
  <2>2. n + 1 - k \in 1 .. n /\ n + 1 - (n + 1 - k) = k
    OBVIOUS
  <2>3. n + 1 - k <= m
    BY <1>3, <2>2
  <2>4. QED
    BY <2>2, <2>3
<1>6. QED
  BY <1>4, <1>5

(***************************************************************************)
(* Blocks of a loop, one by one from the header on.                        *)
(***************************************************************************)
LEMMA ChainLemma ==
  ASSUME NEW f, NEW loop, IsLoop(f, loop), NEW S, NEW n \in 1 .. Len(loop.blocks),
         loop.blocks[1] \in S,
         \A j \in 1 .. n, m \in 1 .. n :
           loop.blocks[j] \in S /\ loop.blocks[m] \in Successors(f, loop.blocks[j])
             => loop.blocks[m] \in S
  PROVE  loop.blocks[n] \in S
<1>. DEFINE Missing == {m \in 1 .. n : loop.blocks[m] \notin S}
<1>1. Len(loop.blocks) \in Nat
  BY DEF IsLoop
<1>2. SUFFICES ASSUME Missing # {} PROVE FALSE
  BY <1>1
<1>3. PICK m \in Missing : \A k \in Missing : m <= k
  <2>1. Missing \subseteq 1 .. n /\ n \in Nat
    BY <1>1
  <2>. HIDE DEF Missing
  <2>2. QED
    BY <1>2, <2>1, SmallestPosition
<1>4. m \in 2 .. Len(loop.blocks)
  BY <1>1
<1>5. PICK j \in 1 .. m - 1 : loop.blocks[m] \in Successors(f, loop.blocks[j])
  BY <1>4 DEF IsLoop
<1>6. j \in 1 .. n /\ m \in 1 .. n /\ j < m
  BY <1>1, <1>4
<1>7. loop.blocks[j] \in S
  BY <1>1, <1>3, <1>6
<1>8. QED
  BY <1>5, <1>6, <1>7

(***************************************************************************)
(* The preheader dominates the loop; what dominates one of its blocks from *)
(* outside dominates the preheader; the order of the blocks is one         *)
(* dominance agrees with.                                                  *)
(***************************************************************************)
LEMMA LoopBlocks ==
  ASSUME NEW f, NEW loop, IsFunction(f), IsLoop(f, loop)
  PROVE  /\ Len(loop.blocks) \in Nat \ {0}
         /\ ToSet(loop.blocks) = {loop.blocks[n] : n \in 1 .. Len(loop.blocks)}
         /\ \A n \in 1 .. Len(loop.blocks) :
              loop.blocks[n] \in Visited(f) /\ loop.blocks[n] \in ToSet(loop.blocks)
         /\ ToSet(loop.blocks) \subseteq Visited(f)
         /\ \A m, n \in 1 .. Len(loop.blocks) : loop.blocks[m] = loop.blocks[n] => m = n
<1>1. /\ loop.blocks \in Seq(Visited(f)) /\ loop.blocks # << >>
      /\ IsInjective(loop.blocks)
  BY DEF IsLoop
<1>2. /\ Len(loop.blocks) \in Nat /\ DOMAIN loop.blocks = 1 .. Len(loop.blocks)
      /\ Len(loop.blocks) # 0
      /\ \A n \in 1 .. Len(loop.blocks) : loop.blocks[n] \in Visited(f)
  BY <1>1
<1>3. ToSet(loop.blocks) = {loop.blocks[n] : n \in 1 .. Len(loop.blocks)}
  BY <1>2 DEF ToSet
<1>4. QED
  BY <1>1, <1>2, <1>3 DEF IsInjective

LEMMA PreheaderDominates ==
  ASSUME NEW f, NEW loop, IsFunction(f), IsLoop(f, loop), loop.preheader # 0,
         NEW b \in ToSet(loop.blocks)
  PROVE  Dominates(f, loop.preheader, b)
<1>. DEFINE inside == ToSet(loop.blocks)
            S == Visited(f) \ (inside \cup {loop.preheader})
<1>1. /\ loop.preheader \in Visited(f) \ inside
      /\ loop.blocks[1] \in Successors(f, loop.preheader)
      /\ \A p \in Visited(f) \ inside :
           p # loop.preheader => Successors(f, p) \cap inside = {}
  BY DEF IsLoop
<1>2. Visited(f) \subseteq Blocks(f) /\ Predecessors(f, Entry) = {} /\ Entry \in Visited(f)
  BY BlocksLemma DEF IsFunction
<1>3. Entry \notin inside
  <2>0. inside = {loop.blocks[n] : n \in 1 .. Len(loop.blocks)}
    BY LoopBlocks
  <2>1. SUFFICES ASSUME NEW n \in 1 .. Len(loop.blocks), loop.blocks[n] = Entry PROVE FALSE
    BY <2>0
  <2>2. CASE n = 1
    BY <1>1, <1>2, <2>1, <2>2 DEF Predecessors
  <2>3. CASE n # 1
    <3>1. n \in 2 .. Len(loop.blocks)
      BY <2>3
    <3>2. PICK j \in 1 .. n - 1 : loop.blocks[n] \in Successors(f, loop.blocks[j])
      BY <3>1 DEF IsLoop
    <3>3. loop.blocks[j] \in Blocks(f)
      BY <1>2, <3>1, LoopBlocks
    <3>4. QED
      BY <1>2, <2>1, <3>2, <3>3 DEF Predecessors
  <2>4. QED
    BY <2>2, <2>3
<1>4. Avoids(f, loop.preheader, S)
  BY <1>1, <1>2, <1>3 DEF Avoids, IsFunction
<1>5. QED
  BY <1>2, <1>4 DEF Dominates

LEMMA OutsideDominators ==
  ASSUME NEW f, NEW loop, IsFunction(f), IsLoop(f, loop), loop.preheader # 0,
         NEW b \in ToSet(loop.blocks), NEW d, d \notin ToSet(loop.blocks),
         Dominates(f, d, b)
  PROVE  Dominates(f, d, loop.preheader)
<1>1. PICK S \in SUBSET Blocks(f) : Avoids(f, d, S) /\ b \notin S
  BY DEF Dominates
<1>2. SUFFICES ASSUME loop.preheader \in S PROVE FALSE
  BY <1>1 DEF Dominates
<1>3. PICK n \in 1 .. Len(loop.blocks) : loop.blocks[n] = b
  <2>1. ToSet(loop.blocks) = {loop.blocks[n] : n \in 1 .. Len(loop.blocks)}
    BY LoopBlocks
  <2>2. QED
    BY <2>1
<1>4. \A m \in 1 .. Len(loop.blocks) : loop.blocks[m] # d
  BY LoopBlocks
<1>5. loop.blocks[1] \in S
  BY <1>1, <1>2, <1>4, LoopBlocks DEF Avoids, IsLoop
<1>6. \A j \in 1 .. n, m \in 1 .. n :
        loop.blocks[j] \in S /\ loop.blocks[m] \in Successors(f, loop.blocks[j])
          => loop.blocks[m] \in S
  BY <1>1, <1>4 DEF Avoids
<1>7. loop.blocks[n] \in S
  BY <1>5, <1>6, ChainLemma
<1>8. QED
  BY <1>1, <1>3, <1>7

LEMMA OrderOfBlocks ==
  ASSUME NEW f, NEW loop, IsFunction(f), IsLoop(f, loop), loop.preheader # 0,
         NEW m \in 1 .. Len(loop.blocks), NEW n \in 1 .. Len(loop.blocks),
         Dominates(f, loop.blocks[m], loop.blocks[n])
  PROVE  m <= n
<1>. DEFINE x == loop.blocks[m]
<1>1. PICK S \in SUBSET Blocks(f) : Avoids(f, x, S) /\ loop.blocks[n] \notin S
  BY DEF Dominates
<1>2. SUFFICES ASSUME n < m PROVE FALSE
  BY LoopBlocks
<1>3. x \in ToSet(loop.blocks) /\ x \in Visited(f)
  BY LoopBlocks
<1>4. loop.preheader \in S
  <2>1. SUFFICES ASSUME loop.preheader \notin S PROVE FALSE
    OBVIOUS
  <2>2. Dominates(f, x, loop.preheader)
    BY <1>1, <2>1 DEF Dominates
  <2>3. Dominates(f, loop.preheader, x)
    BY <1>3, PreheaderDominates
  <2>4. x = loop.preheader
    BY <1>3, <2>2, <2>3, AntisymmetricDominance
  <2>5. QED
    BY <1>3, <2>4 DEF IsLoop
<1>5. \A k \in 1 .. n : loop.blocks[k] # x
  BY <1>2, LoopBlocks
<1>6. loop.blocks[1] \in S
  BY <1>1, <1>4, <1>5, LoopBlocks DEF Avoids, IsLoop
<1>7. \A j \in 1 .. n, k \in 1 .. n :
        loop.blocks[j] \in S /\ loop.blocks[k] \in Successors(f, loop.blocks[j])
          => loop.blocks[k] \in S
  BY <1>1, <1>5 DEF Avoids
<1>8. loop.blocks[n] \in S
  BY <1>6, <1>7, ChainLemma
<1>9. QED
  BY <1>1, <1>8

-----------------------------------------------------------------------------
(***************************************************************************)
(* What every run keeps, whichever functions it has seen.                  *)
(***************************************************************************)
TInv ==
  /\ TypeOK
  /\ loopInvariantInstructions \in Seq(ToSet(loopInvariantInstructions))
  /\ IF runs = 0 THEN loopInvariantInstructions = << >> ELSE fn \in Functions

\* While the object is on its first function, the member holds instructions of
\* this function only, and the code is what it was but for the order.
OnceInv ==
  runs = 1 => /\ ToSet(loopInvariantInstructions) \subseteq Instructions(fn)
              /\ EachOnce(fn, placed)

(***************************************************************************)
(* The functions the pass is right for: one loop has a preheader, and in   *)
(* it a safe BinaryOperator uses no instruction of the loop that           *)
(* getLoopInstructions leaves out.                                         *)
(***************************************************************************)
OriginallyIn(f, loop) == UNION {ToSet(f.insts[b]) : b \in ToSet(loop.blocks)}

Simple(f) ==
  /\ \A k, m \in DOMAIN f.loops : f.loops[k].preheader # 0 /\ f.loops[m].preheader # 0 => k = m
  /\ \A k \in DOMAIN f.loops : f.loops[k].preheader # 0 =>
       \A i \in OriginallyIn(f, f.loops[k]) \cap f.safe :
         f.ops[i] \cap OriginallyIn(f, f.loops[k]) \subseteq f.binops \cup f.phis

Member == {loopInvariantInstructions[m] : m \in 1 .. Len(loopInvariantInstructions)}

Earlier(m) == {loopInvariantInstructions[j] : j \in 1 .. m - 1}

\* What has been examined up to position <<bitr, itr>>.
Examined(n, k) == n < bitr \/ (n = bitr /\ k < itr)

\* The member holds each instruction once, after the instructions of the loop
\* that it uses.
MemberInOrder ==
  /\ Member \subseteq fn.safe \cap OriginallyIn(fn, L)
  /\ \A j, m \in 1 .. Len(loopInvariantInstructions) :
       loopInvariantInstructions[j] = loopInvariantInstructions[m] => j = m
  /\ \A m \in 1 .. Len(loopInvariantInstructions) :
       fn.ops[loopInvariantInstructions[m]] \cap OriginallyIn(fn, L) \subseteq Earlier(m)

\* i was left out for the sake of an operand that was left out.
LeftOut(i) == (fn.ops[i] \cap OriginallyIn(fn, L)) \ Member # {}

AlongTheBlocks ==
  /\ placed = fn.insts
  /\ MemberInOrder
  /\ \A n \in 1 .. Len(L.blocks) : \A k \in DOMAIN placed[L.blocks[n]] :
       LET i == placed[L.blocks[n]][k] IN
         /\ i \in Member => Examined(n, k)
         /\ Examined(n, k) /\ i \in fn.safe \ Member => LeftOut(i)

AlongTheMoves ==
  /\ MemberInOrder
  /\ \A i \in (OriginallyIn(fn, L) \cap fn.safe) \ Member : LeftOut(i)
  /\ \A b \in Blocks(fn) : \A i \in ToSet(placed[b]) :
       IF i \in Earlier(moved + 1) THEN b = L.preheader ELSE i \in ToSet(fn.insts[b])

DoneWith(k) ==
  fn.loops[k].preheader # 0 =>
    \A i \in InLoop(fn.loops[k]) \cap fn.safe : fn.ops[i] \cap InLoop(fn.loops[k]) # {}

\* Before its loop a simple function is as it was, after it nothing is to do.
BetweenLoops ==
  /\ \/ loopInvariantInstructions = << >> /\ placed = fn.insts
     \/ \A k \in turn .. Len(fn.loops) : fn.loops[k].preheader = 0
  /\ \A k \in 1 .. turn - 1 : DoneWith(k)

InOrder ==
  /\ InSSAForm(fn, placed)
  /\ pc = "loop" => BetweenLoops
  /\ pc = "populate" => AlongTheBlocks
  /\ pc = "move" => AlongTheMoves
  /\ pc = "idle" => \A k \in 1 .. Len(fn.loops) : DoneWith(k)

OrderInv == runs = 1 /\ Simple(fn) => InOrder

-----------------------------------------------------------------------------
LEMMA RemovedTyped ==
  ASSUME NEW S, NEW s \in Seq(S), NEW e
  PROVE  RemoveFirst(s, e) \in Seq(S)
<1>. DEFINE Found == {i \in 1 .. Len(s) : s[i] = e}
<1>1. CASE Found = {}
  BY <1>1 DEF RemoveFirst
<1>2. CASE Found # {}
  <2>1. Len(s) \in Nat /\ Found \subseteq 1 .. Len(s)
    OBVIOUS
  <2>2. PICK k \in Found : \A j \in Found : k <= j
    <3>. HIDE DEF Found
    <3>1. QED
      BY <1>2, <2>1, SmallestPosition
  <2>3. Min(Found) \in Found
    <3>. HIDE DEF Found
    <3>1. QED
      BY <2>2 DEF Min
  <2>4. PICK k0 \in 1 .. Len(s) : k0 = SelectInSeq(s, LAMBDA v : v = e)
    BY <1>2, <2>3 DEF SelectInSeq
  <2>5. RemoveFirst(s, e) = SubSeq(s, 1, k0 - 1) \o SubSeq(s, k0 + 1, Len(s))
    BY <1>2, <2>4 DEF RemoveFirst, RemoveAt
  <2>6. SubSeq(s, 1, k0 - 1) \in Seq(S) /\ SubSeq(s, k0 + 1, Len(s)) \in Seq(S)
    BY <2>1
  <2>7. QED
    BY <2>5, <2>6, ConcatProperties
<1>3. QED
  BY <1>1, <1>2

LEMMA MoveTyped ==
  ASSUME NEW S, NEW B, placed \in [B -> Seq(S)], NEW i \in S, NEW block \in B
  PROVE  MoveToEnd(i, block) \in [B -> Seq(S)]
<1>. DEFINE without == [b \in B |-> RemoveFirst(placed[b], i)]
<1>1. without \in [B -> Seq(S)]
  BY RemovedTyped
<1>2. DOMAIN placed = B
  OBVIOUS
<1>3. MoveToEnd(i, block) = [without EXCEPT ![block] = Append(@, i)]
  BY <1>2 DEF MoveToEnd
<1>. HIDE DEF without
<1>4. QED
  BY <1>1, <1>3

LEMMA SequenceInSuperset ==
  ASSUME NEW S, NEW T, S \subseteq T, NEW s \in Seq(S)
  PROVE  s \in Seq(T)
OBVIOUS

LEMMA UpcomingFunctions == Upcoming \subseteq Functions
BY BoundsAssumption DEF Upcoming

LEMMA FunctionFacts ==
  ASSUME NEW f \in Functions
  PROVE  /\ IsFunction(f)
         /\ f.insts \in [Blocks(f) -> Seq(Instructions(f))]
         /\ EachOnce(f, f.insts) /\ InSSAForm(f, f.insts)
         /\ f.safe \subseteq f.binops /\ f.phis \cap f.binops = {}
         /\ Len(f.loops) \in Nat /\ DOMAIN f.loops = 1 .. Len(f.loops)
         /\ \A k \in 1 .. Len(f.loops) : IsLoop(f, f.loops[k])
         /\ Visited(f) \subseteq Blocks(f)
<1>1. f.loops \in Seq({f.loops[k] : k \in DOMAIN f.loops})
  BY FunctionsAssumption
<1>2. Len(f.loops) \in Nat /\ DOMAIN f.loops = 1 .. Len(f.loops)
  <2>1. PICK S : f.loops \in Seq(S)
    BY <1>1
  <2>2. QED
    BY <2>1
<1>3. IsFunction(f)
  BY FunctionsAssumption
<1>4. QED
  BY <1>2, <1>3, FunctionsAssumption, BlocksLemma

LEMMA LoopFacts ==
  ASSUME fn \in Functions, turn \in 1 .. Len(fn.loops)
  PROVE  /\ IsFunction(fn) /\ IsLoop(fn, L)
         /\ Len(L.blocks) \in Nat \ {0}
         /\ \A n \in 1 .. Len(L.blocks) : L.blocks[n] \in Blocks(fn)
         /\ L.preheader # 0 => L.preheader \in Blocks(fn)
<1>1. IsFunction(fn) /\ IsLoop(fn, L) /\ Visited(fn) \subseteq Blocks(fn)
  BY FunctionFacts DEF L
<1>2. QED
  BY <1>1, LoopBlocks DEF IsLoop

LEMMA MemberFacts ==
  ASSUME TInv
  PROVE  /\ Len(loopInvariantInstructions) \in Nat
         /\ ToSet(loopInvariantInstructions) = Member
         /\ \A m \in 1 .. Len(loopInvariantInstructions) :
              loopInvariantInstructions[m] \in Member
         /\ loopInvariantInstructions \in Seq(Member)
<1>1. PICK S : S = ToSet(loopInvariantInstructions)
  OBVIOUS
<1>2. loopInvariantInstructions \in Seq(S)
  BY <1>1 DEF TInv
<1>3. /\ Len(loopInvariantInstructions) \in Nat
      /\ DOMAIN loopInvariantInstructions = 1 .. Len(loopInvariantInstructions)
  BY <1>2
<1>4. ToSet(loopInvariantInstructions) = Member
  BY <1>3 DEF ToSet, Member
<1>5. QED
  BY <1>1, <1>2, <1>3, <1>4 DEF Member

\* What Examine does to the member, for an instruction it appends.
LEMMA AppendedMember ==
  ASSUME TInv, NEW I,
         loopInvariantInstructions' = Append(loopInvariantInstructions, I)
  PROVE  /\ Len(loopInvariantInstructions') = Len(loopInvariantInstructions) + 1
         /\ loopInvariantInstructions'[Len(loopInvariantInstructions) + 1] = I
         /\ \A m \in 1 .. Len(loopInvariantInstructions) :
              loopInvariantInstructions'[m] = loopInvariantInstructions[m]
         /\ Member' = Member \cup {I}
         /\ ToSet(loopInvariantInstructions)' = Member \cup {I}
         /\ loopInvariantInstructions' \in Seq(Member \cup {I})
<1>1. PICK T : T = Member \cup {I}
  OBVIOUS
<1>2. loopInvariantInstructions \in Seq(T) /\ I \in T
  BY <1>1, MemberFacts, SequenceInSuperset
<1>3. PICK s \in Seq(T) : s = loopInvariantInstructions
  BY <1>2
<1>4. /\ Append(s, I) \in Seq(T) /\ Len(Append(s, I)) = Len(s) + 1
      /\ Append(s, I)[Len(s) + 1] = I
      /\ \A m \in 1 .. Len(s) : Append(s, I)[m] = s[m]
      /\ Len(s) \in Nat /\ DOMAIN Append(s, I) = 1 .. Len(s) + 1
  BY <1>2
<1>5. Member' = Member \cup {I}
  <2>1. Member' \subseteq Member \cup {I}
    <3>1. SUFFICES ASSUME NEW m \in 1 .. Len(s) + 1, Append(s, I)[m] \notin Member PROVE
                          Append(s, I)[m] = I
      BY <1>3, <1>4 DEF Member
    <3>2. CASE m = Len(s) + 1
      BY <1>4, <3>2
    <3>3. CASE m # Len(s) + 1
      <4>1. m \in 1 .. Len(s)
        BY <1>4, <3>3
      <4>2. QED
        BY <1>3, <1>4, <3>1, <4>1 DEF Member
    <3>4. QED
      BY <3>2, <3>3
  <2>2. Member \subseteq Member'
    BY <1>3, <1>4 DEF Member
  <2>3. I \in Member'
    <3>1. Len(s) + 1 \in 1 .. Len(s) + 1
      BY <1>4
    <3>2. QED
      BY <1>3, <1>4, <3>1 DEF Member
  <2>4. QED
    BY <2>1, <2>2, <2>3
<1>6. ToSet(loopInvariantInstructions)' = Member'
  BY <1>3, <1>4 DEF ToSet, Member
<1>7. QED
  BY <1>1, <1>3, <1>4, <1>5, <1>6

-----------------------------------------------------------------------------
LEMMA TInit == Init => TInv
<1>. SUFFICES ASSUME Init PROVE TInv
  OBVIOUS
<1>1. ToSet(loopInvariantInstructions) = {} /\ Len(loopInvariantInstructions) = 0
  BY DEF Init, ToSet
<1>2. QED
  BY <1>1, BoundsAssumption DEF Init, TInv, TypeOK

LEMMA TNext == TInv /\ [Next]_vars => TInv'
<1>. SUFFICES ASSUME TInv, [Next]_vars PROVE TInv'
  OBVIOUS
<1>. USE DEF TInv, TypeOK
<1>1. ASSUME NEW f \in Functions, StartFunction(f) PROVE TInv'
  <2>1. f.insts \in [Blocks(f) -> Seq(Instructions(f) \cup ToSet(loopInvariantInstructions))]
    BY FunctionFacts, SequenceInSuperset
  <2>2. Len(f.loops) \in Nat
    BY FunctionFacts
  <2>3. fn' = f /\ placed' = f.insts /\ turn' = 1 /\ runs' = runs + 1 /\ pc' = "loop"
        /\ loopInvariantInstructions' = loopInvariantInstructions /\ moved' = moved
        /\ Instructions(f) \cap ToSet(loopInvariantInstructions) = {} /\ runs < MaxRuns
    BY <1>1 DEF StartFunction
  <2>4. runs' \in 0 .. MaxRuns /\ runs' # 0
    BY <2>3, BoundsAssumption
  <2>5. QED
    BY <2>1, <2>2, <2>3, <2>4
<1>2. CASE SkipLoop
  BY <1>2, FunctionFacts DEF SkipLoop
<1>3. CASE StartLoop
  <2>1. pc = "loop" /\ turn \in 1 .. Len(fn.loops) /\ fn \in Functions /\ L.preheader # 0
    BY <1>3, FunctionFacts DEF StartLoop
  <2>2. /\ bitr' = 1 /\ itr' = 1 /\ pc' = "populate"
        /\ UNCHANGED fn /\ UNCHANGED runs /\ UNCHANGED turn /\ UNCHANGED placed
        /\ UNCHANGED loopInvariantInstructions /\ UNCHANGED moved
    BY <1>3 DEF StartLoop
  <2>3. L' = L /\ L.preheader \in Blocks(fn) /\ Len(L.blocks) \in Nat \ {0}
        /\ placed[L.blocks[1]] \in Seq(Instructions(fn) \cup ToSet(loopInvariantInstructions))
    BY <2>1, <2>2, LoopFacts DEF L
  <2>4. Len(placed[L.blocks[1]]) \in Nat
    BY <2>3
  <2>5. bitr' \in 1 .. Len(L'.blocks) + 1
        /\ itr' \in 1 .. IF bitr' > Len(L'.blocks) THEN 1 ELSE Len(placed'[L'.blocks[bitr']]) + 1
    BY <2>2, <2>3, <2>4
  <2>6. QED
    BY <2>1, <2>2, <2>3, <2>5
<1>4. CASE Examine
  <2>1. /\ pc = "populate" /\ turn \in 1 .. Len(fn.loops) /\ fn \in Functions
        /\ bitr <= Len(L.blocks) /\ itr <= Len(placed[L.blocks[bitr]])
    BY <1>4, FunctionFacts DEF Examine
  <2>2. /\ itr' = itr + 1 /\ UNCHANGED pc
        /\ UNCHANGED fn /\ UNCHANGED runs /\ UNCHANGED turn /\ UNCHANGED placed
        /\ UNCHANGED bitr /\ UNCHANGED moved /\ L' = L
    BY <1>4 DEF Examine, L
  <2>3. /\ bitr \in 1 .. Len(L.blocks) /\ L.blocks[bitr] \in Blocks(fn)
        /\ placed[L.blocks[bitr]] \in Seq(Instructions(fn) \cup ToSet(loopInvariantInstructions))
    BY <2>1, LoopFacts
  <2>. DEFINE I == placed[L.blocks[bitr]][itr]
  <2>4. /\ Len(placed[L.blocks[bitr]]) \in Nat /\ itr \in 1 .. Len(placed[L.blocks[bitr]])
        /\ I \in Instructions(fn) \cup ToSet(loopInvariantInstructions)
    BY <2>1, <2>3
  <2>5. itr' \in 1 .. IF bitr' > Len(L'.blocks) THEN 1 ELSE Len(placed'[L'.blocks[bitr']]) + 1
    BY <2>2, <2>3, <2>4
  <2>6. CASE loopInvariantInstructions' = loopInvariantInstructions
    BY <2>1, <2>2, <2>5, <2>6
  <2>7. CASE /\ loopInvariantInstructions' = Append(loopInvariantInstructions, I)
             /\ I \in fn.safe \/ I \in Strangers
    <3>. HIDE DEF I
    <3>1. /\ Len(loopInvariantInstructions) \in Nat
          /\ Len(loopInvariantInstructions') = Len(loopInvariantInstructions) + 1
          /\ ToSet(loopInvariantInstructions) = Member
          /\ ToSet(loopInvariantInstructions') = Member \cup {I}
          /\ loopInvariantInstructions' \in Seq(Member \cup {I})
      <4>. HIDE DEF TInv
      <4>1. QED
        BY <2>7, MemberFacts, AppendedMember
    <3>2. placed' \in [Blocks(fn) -> Seq(Instructions(fn) \cup (Member \cup {I}))]
      <4>1. placed \in [Blocks(fn) -> Seq(Instructions(fn) \cup Member)]
        BY <2>1, <3>1
      <4>2. \A b \in Blocks(fn) : placed[b] \in Seq(Instructions(fn) \cup (Member \cup {I}))
        BY <4>1, SequenceInSuperset
      <4>3. QED
        BY <2>2, <4>1, <4>2
    <3>3. moved' \in 0 .. Len(loopInvariantInstructions')
      BY <2>2, <3>1
    <3>4. ToSet(loopInvariantInstructions') \cap Instructions(fn) \subseteq fn.safe
      BY <2>1, <2>7, <3>1 DEF Strangers
    <3>5. runs # 0
      BY <2>1
    <3>6. QED
      BY <2>1, <2>2, <2>5, <3>1, <3>2, <3>3, <3>4, <3>5
  <2>8. QED
    BY <1>4, <2>6, <2>7 DEF Examine, IsInvariant
<1>5. CASE NextBlock
  <2>1. /\ pc = "populate" /\ turn \in 1 .. Len(fn.loops) /\ fn \in Functions
        /\ bitr <= Len(L.blocks)
    BY <1>5, FunctionFacts DEF NextBlock
  <2>2. /\ itr' = 1 /\ bitr' = bitr + 1 /\ UNCHANGED pc
        /\ UNCHANGED fn /\ UNCHANGED runs /\ UNCHANGED turn /\ UNCHANGED placed
        /\ UNCHANGED loopInvariantInstructions /\ UNCHANGED moved /\ L' = L
    BY <1>5 DEF NextBlock, L
  <2>3. Len(L.blocks) \in Nat /\ bitr' \in 1 .. Len(L.blocks) + 1
    BY <2>1, <2>2, LoopFacts
  <2>4. itr' \in 1 .. IF bitr' > Len(L'.blocks) THEN 1 ELSE Len(placed'[L'.blocks[bitr']]) + 1
    <3>1. CASE bitr' > Len(L.blocks)
      BY <2>2, <3>1
    <3>2. CASE ~ bitr' > Len(L.blocks)
      <4>1. bitr' \in 1 .. Len(L.blocks)
        BY <2>3, <3>2
      <4>2. placed[L.blocks[bitr']] \in Seq(Instructions(fn) \cup ToSet(loopInvariantInstructions))
        BY <2>1, <4>1, LoopFacts
      <4>3. Len(placed[L.blocks[bitr']]) \in Nat
        BY <4>2
      <4>4. QED
        BY <2>2, <3>2, <4>3
    <3>3. QED
      BY <3>1, <3>2
  <2>5. QED
    BY <2>1, <2>2, <2>3, <2>4
<1>6. CASE StartMoves
  <2>1. Len(loopInvariantInstructions) \in Nat
    BY MemberFacts
  <2>2. QED
    BY <1>6, <2>1 DEF StartMoves, L
<1>7. CASE MoveInvariant
  <2>1. /\ pc = "move" /\ fn \in Functions /\ L.preheader \in Blocks(fn)
        /\ moved + 1 \in 1 .. Len(loopInvariantInstructions)
    <3>1. Len(loopInvariantInstructions) \in Nat
      BY MemberFacts
    <3>2. QED
      BY <1>7, <3>1 DEF MoveInvariant
  <2>2. PICK T : T = Instructions(fn) \cup ToSet(loopInvariantInstructions)
    OBVIOUS
  <2>3. loopInvariantInstructions[moved + 1] \in T
    BY <2>1, <2>2, MemberFacts
  <2>4. placed' \in [Blocks(fn) -> Seq(T)]
    BY <1>7, <2>1, <2>2, <2>3, MoveTyped DEF MoveInvariant
  <2>5. /\ moved' = moved + 1 /\ UNCHANGED pc
        /\ UNCHANGED fn /\ UNCHANGED runs /\ UNCHANGED turn
        /\ UNCHANGED loopInvariantInstructions /\ UNCHANGED <<bitr, itr>> /\ L' = L
    BY <1>7 DEF MoveInvariant, L
  <2>6. QED
    BY <2>1, <2>2, <2>4, <2>5
<1>8. CASE LoopDone
  BY <1>8, FunctionFacts DEF LoopDone
<1>9. CASE FunctionDone
  BY <1>9 DEF FunctionDone
<1>10. CASE UNCHANGED vars
  BY <1>10 DEF vars, L
<1>11. QED
  BY <1>1, <1>2, <1>3, <1>4, <1>5, <1>6, <1>7, <1>8, <1>9, <1>10,
     UpcomingFunctions DEF Next, RunOnLoop

LEMMA TInductive == Spec => []TInv
BY TInit, TNext, PTL DEF Spec

(***************************************************************************)
(* Whatever functions the object is run on: the member holds nothing of    *)
(* the function that may not be executed speculatively (licm.cpp:41-43),   *)
(* the iterators stay in the loop and what is moved is an instruction of   *)
(* the member.                                                             *)
(***************************************************************************)
THEOREM Typing == Spec => []TypeOK
<1>1. TInv => TypeOK
  BY DEF TInv
<1>2. QED
  BY <1>1, TInductive, PTL

-----------------------------------------------------------------------------
\* moveBefore, of an instruction that stands in the function.
LEMMA HeldAfterMove ==
  ASSUME NEW f, NEW S, placed \in [Blocks(f) -> Seq(S)], HoldsOnce(f, placed, S),
         NEW i \in S, NEW block \in Blocks(f)
  PROVE  /\ HoldsOnce(f, MoveToEnd(i, block), S)
         /\ MoveToEnd(i, block) \in [Blocks(f) -> Seq(S)]
<1>. DEFINE new == MoveToEnd(i, block)
<1>1. \A b \in Blocks(f) : ToSet(placed[b]) = {placed[b][k] : k \in DOMAIN placed[b]}
  BY DEF ToSet
<1>0. PICK b0 \in Blocks(f) : i \in ToSet(placed[b0])
  BY DEF HoldsOnce
<1>2. PICK k0 \in DOMAIN placed[b0] : placed[b0][k0] = i
  BY <1>1, <1>0
<1>3. StandsOnly(Blocks(f), i, b0, k0)
  BY <1>2 DEF HoldsOnce, StandsOnly
<1>4. PICK B : B = Blocks(f)
  OBVIOUS
<1>5. new \in [B -> Seq(S)]
  BY <1>3, <1>4, MoveLemma
<1>6. PICK end \in Nat : Moved(B, new, b0, k0, block, end)
  BY <1>3, <1>4, MoveLemma
<1>. HIDE DEF new
<1>7. \A b \in B : ToSet(new[b]) = {new[b][k] : k \in DOMAIN new[b]}
  BY DEF ToSet
<1>8. UNION {ToSet(new[b]) : b \in B} \subseteq S
  <2>1. SUFFICES ASSUME NEW b \in B, NEW k \in DOMAIN new[b] PROVE new[b][k] \in S
    <3>1. \A b \in B : ToSet(new[b]) \subseteq S
      <4>1. TAKE b \in B
      <4>2. \A k \in DOMAIN new[b] : new[b][k] \in S
        BY <2>1
      <4>3. QED
        BY <4>2 DEF ToSet
    <3>2. QED
      BY <3>1
  <2>2. new[b] \in Seq(S)
    BY <1>5
  <2>3. QED
    BY <2>2
<1>9. S \subseteq UNION {ToSet(new[b]) : b \in B}
  <2>1. SUFFICES ASSUME NEW x \in S PROVE \E b \in B : x \in ToSet(new[b])
    OBVIOUS
  <2>2. CASE x = i
    <3>1. end \in DOMAIN new[block] /\ new[block][end] = i
      BY <1>2, <1>6 DEF Stands, Moved
    <3>2. QED
      BY <1>4, <2>2, <3>1 DEF ToSet
  <2>3. CASE x # i
    <3>1. PICK b \in B : x \in ToSet(placed[b])
      BY <1>4 DEF HoldsOnce
    <3>2. PICK k \in DOMAIN placed[b] : placed[b][k] = x
      BY <1>1, <1>4, <3>1
    <3>3. Stands(new, x, b, Shifted(b0, k0, b, k))
      BY <1>2, <1>4, <1>6, <2>3, <3>2 DEF Moved
    <3>4. PICK y : y = Shifted(b0, k0, b, k)
      OBVIOUS
    <3>5. y \in DOMAIN new[b] /\ new[b][y] = x
      BY <3>3, <3>4 DEF Stands
    <3>6. QED
      BY <1>7, <3>5
  <2>4. QED
    BY <2>2, <2>3
<1>10. ASSUME NEW b \in B, NEW c \in B, NEW j \in DOMAIN new[b], NEW k \in DOMAIN new[c],
              new[b][j] = new[c][k]
       PROVE  b = c /\ j = k
  <2>1. ASSUME NEW d \in B, NEW x \in DOMAIN new[d], ~ (d = block /\ x = end)
        PROVE  /\ new[d][x] # i
               /\ \E old \in DOMAIN placed[d] : x = Shifted(b0, k0, d, old)
                                                /\ new[d][x] = placed[d][old]
    BY <1>2, <1>3, <1>4, <1>6, <2>1 DEF Moved, StandsOnly
  <2>2. CASE b = block /\ j = end
    BY <1>2, <1>6, <1>10, <2>1, <2>2 DEF Stands, Moved
  <2>3. CASE c = block /\ k = end
    BY <1>2, <1>6, <1>10, <2>1, <2>3 DEF Stands, Moved
  <2>4. CASE ~ (b = block /\ j = end) /\ ~ (c = block /\ k = end)
    <3>1. PICK x \in DOMAIN placed[b] :
            j = Shifted(b0, k0, b, x) /\ new[b][j] = placed[b][x]
      BY <2>1, <2>4
    <3>2. PICK y \in DOMAIN placed[c] :
            k = Shifted(b0, k0, c, y) /\ new[c][k] = placed[c][y]
      BY <2>1, <2>4
    <3>3. b = c /\ x = y
      BY <1>4, <1>10, <3>1, <3>2 DEF HoldsOnce
    <3>4. QED
      BY <3>1, <3>2, <3>3
  <2>5. QED
    BY <2>2, <2>3, <2>4
<1>11. HoldsOnce(f, new, S)
  BY <1>4, <1>8, <1>9, <1>10 DEF HoldsOnce
<1>12. QED
  BY <1>4, <1>5, <1>11 DEF new

LEMMA EachOnceAfterMove ==
  ASSUME NEW f, placed \in [Blocks(f) -> Seq(Instructions(f))], EachOnce(f, placed),
         NEW i \in Instructions(f), NEW block \in Blocks(f)
  PROVE  /\ EachOnce(f, MoveToEnd(i, block))
         /\ MoveToEnd(i, block) \in [Blocks(f) -> Seq(Instructions(f))]
  BY HeldAfterMove DEF EachOnce

LEMMA OnceInit == Init => OnceInv
BY DEF Init, OnceInv

LEMMA OnceTyped ==
  ASSUME TInv, OnceInv, runs = 1
  PROVE  placed \in [Blocks(fn) -> Seq(Instructions(fn))]
<1>1. Instructions(fn) \cup ToSet(loopInvariantInstructions) = Instructions(fn)
  BY DEF OnceInv
<1>2. QED
  BY <1>1 DEF TInv, TypeOK

LEMMA OnceNext == TInv /\ OnceInv /\ [Next]_vars => OnceInv'
<1>. SUFFICES ASSUME TInv, OnceInv, [Next]_vars, runs' = 1
              PROVE  /\ ToSet(loopInvariantInstructions') \subseteq Instructions(fn')
                     /\ EachOnce(fn', placed')
  BY DEF OnceInv
<1>1. ASSUME NEW f \in Functions, StartFunction(f)
      PROVE  /\ ToSet(loopInvariantInstructions') \subseteq Instructions(fn')
             /\ EachOnce(fn', placed')
  <2>1. runs = 0
    BY <1>1 DEF StartFunction, TInv, TypeOK
  <2>2. ToSet(loopInvariantInstructions) = {}
    BY <2>1 DEF TInv, ToSet
  <2>3. QED
    BY <1>1, <2>2, FunctionFacts DEF StartFunction
<1>2. CASE Examine
  <2>1. /\ runs = 1 /\ turn \in 1 .. Len(fn.loops) /\ fn \in Functions
        /\ bitr \in 1 .. Len(L.blocks) /\ itr \in 1 .. Len(placed[L.blocks[bitr]])
        /\ UNCHANGED fn /\ UNCHANGED placed
    <3>1. runs = 1 /\ fn \in Functions /\ turn \in 1 .. Len(fn.loops)
          /\ UNCHANGED fn /\ UNCHANGED placed
      BY <1>2, FunctionFacts DEF Examine, TInv, TypeOK
    <3>2. bitr \in 1 .. Len(L.blocks)
      BY <1>2, <3>1, LoopFacts DEF Examine, TInv, TypeOK
    <3>3. Len(placed[L.blocks[bitr]]) \in Nat
      BY <3>1, <3>2, OnceTyped, LoopFacts
    <3>4. QED
      BY <1>2, <3>1, <3>2, <3>3 DEF Examine, TInv, TypeOK
  <2>2. placed[L.blocks[bitr]][itr] \in Instructions(fn)
    <3>1. L.blocks[bitr] \in Blocks(fn)
      BY <2>1, LoopFacts
    <3>2. QED
      BY <2>1, <3>1, OnceTyped
  <2>3. ToSet(loopInvariantInstructions) \subseteq Instructions(fn)
    BY <2>1 DEF OnceInv
  <2>4. CASE loopInvariantInstructions' = loopInvariantInstructions
    BY <2>1, <2>4 DEF OnceInv
  <2>5. CASE loopInvariantInstructions' =
               Append(loopInvariantInstructions, placed[L.blocks[bitr]][itr])
    BY <2>1, <2>2, <2>3, <2>5, AppendedMember, MemberFacts DEF OnceInv
  <2>6. QED
    BY <1>2, <2>4, <2>5 DEF Examine
<1>3. CASE MoveInvariant
  <2>1. /\ runs = 1 /\ fn \in Functions /\ L.preheader \in Blocks(fn)
        /\ moved + 1 \in 1 .. Len(loopInvariantInstructions)
        /\ UNCHANGED fn /\ UNCHANGED loopInvariantInstructions
    BY <1>3, MemberFacts DEF MoveInvariant, TInv, TypeOK
  <2>2. loopInvariantInstructions[moved + 1] \in Instructions(fn)
    BY <2>1, MemberFacts DEF OnceInv
  <2>3. placed' = MoveToEnd(loopInvariantInstructions[moved + 1], L.preheader)
    BY <1>3 DEF MoveInvariant
  <2>4. QED
    BY <2>1, <2>2, <2>3, OnceTyped, EachOnceAfterMove DEF OnceInv
<1>4. CASE SkipLoop \/ StartLoop \/ NextBlock \/ StartMoves \/ LoopDone \/ FunctionDone
  BY <1>4 DEF SkipLoop, StartLoop, NextBlock, StartMoves, LoopDone, FunctionDone, OnceInv
<1>5. CASE UNCHANGED vars
  BY <1>5 DEF vars, OnceInv
<1>6. QED
  BY <1>1, <1>2, <1>3, <1>4, <1>5, UpcomingFunctions DEF Next, RunOnLoop

LEMMA OnceInductive == Spec => []OnceInv
BY OnceInit, OnceNext, TInductive, PTL DEF Spec

(***************************************************************************)
(* Over all functions an object is run on.                                 *)
(***************************************************************************)
LEMMA MemberSplits ==
  ASSUME TInv
  PROVE  /\ Member \subseteq Instructions(fn) \cup Strangers
         /\ Strangers \subseteq Member
BY MemberFacts DEF Strangers

\* moveBefore, of an instruction that stands nowhere in the function.
LEMMA HeldAfterTaking ==
  ASSUME NEW f, NEW S, placed \in [Blocks(f) -> Seq(S)], HoldsOnce(f, placed, S),
         NEW i, i \notin S, NEW block \in Blocks(f)
  PROVE  HoldsOnce(f, MoveToEnd(i, block), S \cup {i})
<1>1. PICK B : B = Blocks(f)
  OBVIOUS
<1>2. placed \in [B -> Seq(S)] /\ block \in B
  BY <1>1
<1>. DEFINE new == MoveToEnd(i, block)
            end == Len(placed[block]) + 1
<1>3. \A b \in B : RemoveFirst(placed[b], i) = placed[b]
  <2>1. TAKE b \in B
  <2>2. placed[b] \in Seq(S)
    BY <1>2
  <2>3. \A j \in 1 .. Len(placed[b]) : placed[b][j] # i
    BY <2>2
  <2>4. QED
    BY <2>2, <2>3, AbsentLemma
<1>4. new = [placed EXCEPT ![block] = Append(@, i)]
  <2>1. DOMAIN placed = B /\ placed = [b \in B |-> placed[b]]
    BY <1>2
  <2>2. [b \in B |-> RemoveFirst(placed[b], i)] = placed
    BY <1>3, <2>1
  <2>3. new = [[b \in DOMAIN placed |-> RemoveFirst(placed[b], i)]
                 EXCEPT ![block] = Append(@, i)]
    BY DEF MoveToEnd
  <2>4. QED
    BY <2>1, <2>2, <2>3
<1>5. \A b \in B : placed[b] \in Seq(S) /\ DOMAIN placed[b] = 1 .. Len(placed[b])
                   /\ Len(placed[b]) \in Nat
  BY <1>2
<1>6. /\ DOMAIN new[block] = 1 .. end /\ end \in Nat
      /\ new[block][end] = i
      /\ \A j \in DOMAIN placed[block] : j # end /\ new[block][j] = placed[block][j]
  BY <1>2, <1>4, <1>5
<1>7. \A b \in B : b # block => new[b] = placed[b]
  BY <1>2, <1>4
<1>. HIDE DEF new
<1>8. ASSUME NEW b \in B, NEW k \in DOMAIN new[b], ~ (b = block /\ k = end)
      PROVE  /\ k \in DOMAIN placed[b] /\ new[b][k] = placed[b][k]
             /\ placed[b][k] \in S /\ new[b][k] # i
  <2>1. k \in DOMAIN placed[b] /\ new[b][k] = placed[b][k]
    <3>1. CASE b = block
      <4>1. k \in 1 .. end /\ k # end
        BY <1>6, <1>8, <3>1
      <4>2. k \in 1 .. Len(placed[block])
        BY <1>2, <1>5, <4>1
      <4>3. QED
        BY <1>2, <1>5, <1>6, <3>1, <4>2
    <3>2. CASE b # block
      BY <1>7, <1>8, <3>2
    <3>3. QED
      BY <3>1, <3>2
  <2>2. placed[b][k] \in S
    BY <1>5, <2>1
  <2>3. QED
    BY <2>1, <2>2
<1>9. ASSUME NEW b \in B, NEW k \in DOMAIN placed[b]
      PROVE  k \in DOMAIN new[b] /\ new[b][k] = placed[b][k]
  <2>1. CASE b = block
    <3>1. k \in 1 .. Len(placed[block])
      BY <1>2, <1>5, <2>1
    <3>2. k \in 1 .. end
      BY <1>2, <1>5, <3>1
    <3>3. QED
      BY <1>6, <2>1, <3>2
  <2>2. CASE b # block
    BY <1>7, <2>2
  <2>3. QED
    BY <2>1, <2>2
<1>10. UNION {ToSet(new[b]) : b \in B} = S \cup {i}
  <2>1. \A b \in B : ToSet(new[b]) = {new[b][k] : k \in DOMAIN new[b]}
                     /\ ToSet(placed[b]) = {placed[b][k] : k \in DOMAIN placed[b]}
    BY DEF ToSet
  <2>2. ASSUME NEW x \in S PROVE \E b \in B : x \in ToSet(new[b])
    <3>1. PICK b \in B : x \in ToSet(placed[b])
      BY <1>1 DEF HoldsOnce
    <3>2. PICK k \in DOMAIN placed[b] : x = placed[b][k]
      BY <2>1, <3>1
    <3>3. QED
      BY <1>9, <2>1, <3>2
  <2>3. i \in ToSet(new[block])
    <3>1. end \in DOMAIN new[block]
      BY <1>2, <1>5, <1>6
    <3>2. QED
      BY <1>2, <1>6, <2>1, <3>1
  <2>4. ASSUME NEW b \in B, NEW x \in ToSet(new[b]) PROVE x \in S \cup {i}
    <3>1. PICK k \in DOMAIN new[b] : x = new[b][k]
      BY <2>1
    <3>2. CASE b = block /\ k = end
      BY <1>6, <3>1, <3>2
    <3>3. CASE ~ (b = block /\ k = end)
      BY <1>8, <3>1, <3>3
    <3>4. QED
      BY <3>2, <3>3
  <2>5. QED
    BY <1>2, <2>2, <2>3, <2>4
<1>11. ASSUME NEW b \in B, NEW c \in B, NEW j \in DOMAIN new[b], NEW k \in DOMAIN new[c],
              new[b][j] = new[c][k]
       PROVE  b = c /\ j = k
  <2>1. CASE b = block /\ j = end
    BY <1>6, <1>8, <1>11, <2>1
  <2>2. CASE c = block /\ k = end
    BY <1>6, <1>8, <1>11, <2>2
  <2>3. CASE ~ (b = block /\ j = end) /\ ~ (c = block /\ k = end)
    <3>1. /\ j \in DOMAIN placed[b] /\ k \in DOMAIN placed[c]
          /\ placed[b][j] = placed[c][k]
      BY <1>8, <1>11, <2>3
    <3>2. QED
      BY <1>1, <3>1 DEF HoldsOnce
  <2>4. QED
    BY <2>1, <2>2, <2>3
<1>12. QED
  BY <1>1, <1>10, <1>11 DEF HoldsOnce, new

\* What a function holds, its blocks are sequences of.
LEMMA HeldTyped ==
  ASSUME NEW f, NEW S, NEW T, placed \in [Blocks(f) -> Seq(T)], HoldsOnce(f, placed, S)
  PROVE  placed \in [Blocks(f) -> Seq(S)]
<1>1. ASSUME NEW b \in Blocks(f) PROVE placed[b] \in Seq(S)
  <2>1. PICK s \in Seq(T) : s = placed[b]
    OBVIOUS
  <2>2. ToSet(s) \subseteq S
    BY <2>1 DEF HoldsOnce
  <2>3. \A k \in 1 .. Len(s) : s[k] \in S
    BY <2>2 DEF ToSet
  <2>4. QED
    BY <2>1, <2>3
<1>2. QED
  BY <1>1

HeldInv == runs > 0 => HoldsOnce(fn, placed, Instructions(fn) \cup Taken)

\* Some loop of the function has been worked on.
Touched == \E k \in 1 .. turn - 1 : fn.loops[k].preheader # 0

LEMMA TakenCases ==
  /\ Touched => Taken = Strangers
  /\ ~Touched /\ pc = "move" =>
       Taken = {loopInvariantInstructions[m] : m \in 1 .. moved} \ Instructions(fn)
  /\ ~Touched /\ pc # "move" => Taken = {}
BY DEF Taken, Touched

LEMMA HeldMove ==
  ASSUME TInv, HeldInv, MoveInvariant
  PROVE  HeldInv'
<1>1. /\ pc = "move" /\ fn \in Functions /\ L.preheader \in Blocks(fn) /\ runs > 0
      /\ moved + 1 \in 1 .. Len(loopInvariantInstructions) /\ moved \in Nat
      /\ moved' = moved + 1
      /\ UNCHANGED fn /\ UNCHANGED loopInvariantInstructions
      /\ UNCHANGED turn /\ UNCHANGED pc /\ UNCHANGED runs
  BY MemberFacts DEF MoveInvariant, TInv, TypeOK
<1>2. PICK i : i = loopInvariantInstructions[moved + 1]
  OBVIOUS
<1>3. PICK S : S = Instructions(fn) \cup Taken
  OBVIOUS
<1>4. placed' = MoveToEnd(i, L.preheader)
  BY <1>2 DEF MoveInvariant
<1>5. HoldsOnce(fn, placed, S) /\ placed \in [Blocks(fn) -> Seq(S)]
  BY <1>1, <1>3, HeldTyped DEF HeldInv, TInv, TypeOK
<1>6. HoldsOnce(fn, placed', S \cup {i})
  <2>1. CASE i \in S
    <3>1. S \cup {i} = S
      BY <2>1
    <3>2. QED
      BY <1>1, <1>4, <1>5, <2>1, <3>1, HeldAfterMove
  <2>2. CASE i \notin S
    BY <1>1, <1>4, <1>5, <2>2, HeldAfterTaking
  <2>3. QED
    BY <2>1, <2>2
<1>7. i \in Instructions(fn) \cup Strangers
  BY <1>1, <1>2, MemberFacts, MemberSplits
<1>8. S \cup {i} = (Instructions(fn) \cup Taken)'
  <2>1. CASE Touched
    <3>1. Taken = Strangers /\ Taken' = Strangers
      BY <1>1, <2>1 DEF Taken, Touched, Strangers
    <3>2. QED
      BY <1>1, <1>3, <1>7, <3>1 DEF Instructions
  <2>2. CASE ~Touched
    <3>1. /\ Taken = {loopInvariantInstructions[m] : m \in 1 .. moved} \ Instructions(fn)
          /\ Taken' = {loopInvariantInstructions[m] : m \in 1 .. moved + 1} \ Instructions(fn)
      BY <1>1, <2>2 DEF Taken, Touched, Instructions
    <3>2. {loopInvariantInstructions[m] : m \in 1 .. moved + 1} =
            {loopInvariantInstructions[m] : m \in 1 .. moved} \cup {i}
      <4>1. 1 .. moved + 1 = (1 .. moved) \cup {moved + 1}
        BY <1>1
      <4>2. QED
        BY <1>2, <4>1
    <3>3. QED
      BY <1>1, <1>3, <3>1, <3>2 DEF Instructions
  <2>3. QED
    BY <2>1, <2>2
<1>9. QED
  BY <1>1, <1>6, <1>8 DEF HeldInv, HoldsOnce, Blocks

LEMMA HeldExamine ==
  ASSUME TInv, HeldInv, Examine
  PROVE  HeldInv'
<1>1. /\ pc = "populate" /\ runs > 0 /\ fn \in Functions /\ turn \in 1 .. Len(fn.loops)
      /\ bitr <= Len(L.blocks) /\ itr <= Len(placed[L.blocks[bitr]])
      /\ UNCHANGED fn /\ UNCHANGED placed /\ UNCHANGED turn /\ UNCHANGED pc /\ UNCHANGED runs
  BY FunctionFacts DEF Examine, TInv, TypeOK
<1>2. PICK S : S = Instructions(fn) \cup Taken
  OBVIOUS
<1>3. placed \in [Blocks(fn) -> Seq(S)]
  BY <1>1, <1>2, HeldTyped DEF HeldInv, TInv, TypeOK
<1>4. bitr \in 1 .. Len(L.blocks) /\ L.blocks[bitr] \in Blocks(fn)
  BY <1>1, LoopFacts DEF TInv, TypeOK
<1>5. PICK I : I = placed[L.blocks[bitr]][itr]
  OBVIOUS
<1>6. I \in S
  <2>1. placed[L.blocks[bitr]] \in Seq(S)
    BY <1>3, <1>4
  <2>2. itr \in 1 .. Len(placed[L.blocks[bitr]])
    BY <1>1, <1>4, <2>1 DEF TInv, TypeOK
  <2>3. QED
    BY <1>5, <2>1, <2>2
<1>7. Touched => Strangers' = Strangers
  <2>1. SUFFICES ASSUME Touched PROVE Strangers' = Strangers
    OBVIOUS
  <2>2. I \in Instructions(fn) \cup Strangers
    BY <1>2, <1>6, <2>1, TakenCases
  <2>3. CASE loopInvariantInstructions' = loopInvariantInstructions
    BY <1>1, <2>3 DEF Strangers, Instructions
  <2>4. CASE loopInvariantInstructions' = Append(loopInvariantInstructions, I)
    <3>1. /\ ToSet(loopInvariantInstructions)' = Member \cup {I}
          /\ ToSet(loopInvariantInstructions) = Member
      BY <2>4, AppendedMember, MemberFacts
    <3>2. QED
      BY <1>1, <2>2, <3>1 DEF Strangers, Instructions
  <2>5. QED
    BY <1>5, <2>3, <2>4 DEF Examine
<1>8. Taken' = Taken
  <2>1. CASE Touched
    <3>1. Taken = Strangers /\ Taken' = Strangers'
      BY <1>1, <2>1 DEF Taken, Touched
    <3>2. QED
      BY <1>7, <2>1, <3>1
  <2>2. CASE ~Touched
    BY <1>1, <2>2 DEF Taken, Touched
  <2>3. QED
    BY <2>1, <2>2
<1>9. QED
  BY <1>1, <1>8 DEF HeldInv, HoldsOnce, Blocks, Instructions

LEMMA HeldLoopDone ==
  ASSUME TInv, HeldInv, LoopDone
  PROVE  HeldInv'
<1>1. /\ pc = "move" /\ pc' = "loop" /\ runs > 0 /\ turn \in 1 .. Len(fn.loops)
      /\ moved = Len(loopInvariantInstructions) /\ turn' = turn + 1
      /\ UNCHANGED fn /\ UNCHANGED placed /\ UNCHANGED runs
      /\ UNCHANGED loopInvariantInstructions /\ fn \in Functions /\ turn \in Nat
      /\ L.preheader \in Blocks(fn)
  BY FunctionFacts DEF LoopDone, TInv, TypeOK
<1>2. Taken' = Strangers
  <2>1. fn.loops[turn].preheader # 0 /\ turn \in 1 .. turn' - 1
    BY <1>1 DEF L, Blocks
  <2>2. Strangers' = Strangers /\ Touched'
    BY <1>1, <2>1 DEF Touched, Strangers, Instructions
  <2>3. QED
    BY <2>2 DEF Taken, Touched
<1>3. Taken = Strangers
  <2>1. CASE Touched
    BY <2>1, TakenCases
  <2>2. CASE ~Touched
    <3>1. Taken = Member \ Instructions(fn)
      BY <1>1, <2>2, TakenCases DEF Member
    <3>2. QED
      BY <3>1, MemberFacts DEF Strangers
  <2>3. QED
    BY <2>1, <2>2
<1>4. Taken' = Taken
  BY <1>2, <1>3
<1>5. QED
  BY <1>1, <1>4 DEF HeldInv, HoldsOnce, Blocks, Instructions

LEMMA HeldNext == TInv /\ HeldInv /\ [Next]_vars => HeldInv'
<1>. SUFFICES ASSUME TInv, HeldInv, [Next]_vars PROVE HeldInv'
  OBVIOUS
<1>1. ASSUME NEW f \in Functions, StartFunction(f) PROVE HeldInv'
  <2>1. fn' = f /\ placed' = f.insts /\ turn' = 1 /\ pc' = "loop"
    BY <1>1 DEF StartFunction
  <2>2. Taken' = {}
    BY <2>1 DEF Taken
  <2>3. HoldsOnce(f, f.insts, Instructions(f))
    BY FunctionFacts DEF EachOnce
  <2>4. QED
    BY <2>1, <2>2, <2>3 DEF HeldInv, HoldsOnce, Blocks, Instructions
<1>2. CASE SkipLoop
  <2>1. /\ pc = "loop" /\ L.preheader = 0 /\ turn' = turn + 1 /\ turn \in Nat
        /\ UNCHANGED fn /\ UNCHANGED placed /\ UNCHANGED runs /\ UNCHANGED pc
        /\ UNCHANGED loopInvariantInstructions /\ runs > 0
    BY <1>2 DEF SkipLoop, TInv, TypeOK
  <2>2. Touched' <=> Touched
    <3>1. \A k \in 1 .. turn' - 1 : k \in 1 .. turn - 1 \/ k = turn
      BY <2>1
    <3>2. 1 .. turn - 1 \subseteq 1 .. turn' - 1
      BY <2>1
    <3>3. QED
      BY <2>1, <3>1, <3>2 DEF Touched, L
  <2>3. Taken' = Taken
    BY <2>1, <2>2 DEF Taken, Touched, Strangers, Instructions
  <2>4. QED
    BY <2>1, <2>3 DEF HeldInv, HoldsOnce, Blocks, Instructions
<1>3. CASE StartLoop \/ NextBlock \/ FunctionDone
  <2>1. /\ UNCHANGED fn /\ UNCHANGED placed /\ UNCHANGED runs /\ UNCHANGED turn
        /\ UNCHANGED loopInvariantInstructions /\ pc # "move" /\ pc' # "move"
    BY <1>3 DEF StartLoop, NextBlock, FunctionDone
  <2>2. Taken' = Taken
    BY <2>1 DEF Taken, Strangers, Instructions
  <2>3. QED
    BY <2>1, <2>2 DEF HeldInv, HoldsOnce, Blocks, Instructions
<1>4. CASE StartMoves
  <2>1. /\ UNCHANGED fn /\ UNCHANGED placed /\ UNCHANGED runs /\ UNCHANGED turn
        /\ UNCHANGED loopInvariantInstructions /\ pc # "move" /\ moved' = 0
    BY <1>4 DEF StartMoves
  <2>2. {loopInvariantInstructions'[m] : m \in 1 .. moved'} = {}
    BY <2>1
  <2>3. Taken' = Taken
    BY <2>1, <2>2 DEF Taken, Strangers, Instructions
  <2>4. QED
    BY <2>1, <2>3 DEF HeldInv, HoldsOnce, Blocks, Instructions
<1>5. CASE UNCHANGED vars
  BY <1>5 DEF vars, HeldInv, HoldsOnce, Taken, Strangers, Instructions, Blocks
<1>6. QED
  BY <1>1, <1>2, <1>3, <1>4, <1>5, HeldExamine, HeldMove, HeldLoopDone, UpcomingFunctions
  DEF Next, RunOnLoop

(***************************************************************************)
(* Whatever functions the object is run on, one after the other, and       *)
(* whatever their loops: an instruction of an earlier function is taken    *)
(* along when it has been hoisted there, and only to a function with a     *)
(* preheader to move it to; every instruction of the function at work      *)
(* stands at one place after each moveBefore (licm.cpp:85, 140-143).       *)
(***************************************************************************)
THEOREM NothingIsLost == Spec => []HoistedCodeIsTakenAlong
<1>1. Init => HeldInv
  BY DEF Init, HeldInv
<1>2. HeldInv => HoistedCodeIsTakenAlong
  BY DEF HeldInv, HoistedCodeIsTakenAlong
<1>3. QED
  BY <1>1, <1>2, HeldNext, TInductive, PTL DEF Spec

-----------------------------------------------------------------------------
(***************************************************************************)
(* An instruction whose operands all stand outside the loop goes to the    *)
(* end of the preheader: SSA form stays.                                   *)
(***************************************************************************)
LEMMA HoistKeepsForm ==
  ASSUME NEW f, IsFunction(f), Visited(f) \subseteq Blocks(f),
         NEW loop, IsLoop(f, loop), loop.preheader # 0,
         NEW S, placed \in [Blocks(f) -> Seq(S)], InSSAForm(f, placed),
         NEW i, NEW b0 \in ToSet(loop.blocks), NEW k0,
         StandsOnly(Blocks(f), i, b0, k0),
         i \in Instructions(f), i \notin f.phis,
         \A d \in ToSet(loop.blocks) : ToSet(placed[d]) \cap f.ops[i] = {}
  PROVE  InSSAForm(f, MoveToEnd(i, loop.preheader))
<1>. DEFINE new == MoveToEnd(i, loop.preheader)
            ph == loop.preheader
<1>1. /\ ph \in Visited(f) /\ ph \notin ToSet(loop.blocks) /\ ph \in Blocks(f)
      /\ b0 \in Visited(f) /\ b0 \in Blocks(f) /\ ph # b0
      /\ Dominates(f, ph, b0)
  BY LoopBlocks, PreheaderDominates DEF IsLoop
<1>2. ~ Dominates(f, b0, ph)
  BY <1>1, AntisymmetricDominance
<1>3. PICK B : B = Blocks(f)
  OBVIOUS
<1>4. new \in [B -> Seq(S)]
  BY <1>1, <1>3, MoveLemma
<1>5. PICK end \in Nat : Moved(B, new, b0, k0, ph, end)
  BY <1>1, <1>3, MoveLemma
<1>. HIDE DEF new, ph
<1>6. /\ k0 \in DOMAIN placed[b0] /\ placed[b0][k0] = i /\ k0 \in Nat
      /\ \A b \in B : \A k \in DOMAIN placed[b] : k \in Nat
      /\ \A b \in B : \A k \in DOMAIN placed[b] : placed[b][k] = i => b = b0 /\ k = k0
  <2>1. \A b \in B : placed[b] \in Seq(S)
    BY <1>3
  <2>2. \A b \in B : \A k \in DOMAIN placed[b] : k \in Nat
    BY <2>1
  <2>3. QED
    BY <1>1, <1>3, <2>2 DEF StandsOnly
<1>7. ASSUME NEW op, NEW d \in B, NEW j, Stands(placed, op, d, j), op # i
      PROVE  /\ Stands(new, op, d, Shifted(b0, k0, d, j))
             /\ d = ph => Shifted(b0, k0, d, j) < end
  <2>1. j \in DOMAIN placed[d] /\ ~ (d = b0 /\ j = k0) /\ placed[d][j] = op
    BY <1>6, <1>7 DEF Stands
  <2>2. Stands(new, op, d, Shifted(b0, k0, d, j))
    BY <1>5, <2>1 DEF Moved
  <2>3. ASSUME d = ph PROVE Shifted(b0, k0, d, j) < end
    <3>1. PICK k : k = Shifted(b0, k0, d, j)
      OBVIOUS
    <3>2. k \in DOMAIN new[ph] /\ new[ph][k] = op /\ new[ph][end] = i
      BY <1>5, <1>6, <2>2, <2>3, <3>1 DEF Stands, Moved
    <3>3. k # end
      BY <1>7, <3>2
    <3>4. k < end
      BY <1>1, <1>3, <1>5, <3>2, <3>3 DEF Moved
    <3>5. QED
      BY <3>1, <3>4
  <2>4. QED
    BY <2>2, <2>3
<1>8. Stands(new, i, ph, end)
  BY <1>5, <1>6 DEF Moved
<1>9. ASSUME NEW op \in f.ops[i] PROVE DefinedBefore(f, new, op, ph, end)
  <2>1. DefinedBefore(f, placed, op, b0, k0)
    <3>1. placed[b0][k0] \notin f.phis /\ op \in f.ops[placed[b0][k0]]
      BY <1>6, <1>9
    <3>2. k0 \in {j \in DOMAIN placed[b0] : placed[b0][j] \in Instructions(f)}
      BY <1>6
    <3>3. QED
      BY <1>1, <3>1, <3>2 DEF InSSAForm
  <2>2. PICK d \in B : \E j \in DOMAIN placed[d] :
          Stands(placed, op, d, j) /\ IF d = b0 THEN j < k0 ELSE Dominates(f, d, b0)
    BY <1>3, <2>1 DEF DefinedBefore
  <2>3. PICK j \in DOMAIN placed[d] :
          Stands(placed, op, d, j) /\ IF d = b0 THEN j < k0 ELSE Dominates(f, d, b0)
    BY <2>2
  <2>4. d \notin ToSet(loop.blocks)
    <3>1. op \in ToSet(placed[d])
      BY <2>3 DEF Stands, ToSet
    <3>2. QED
      BY <3>1
  <2>5. d # b0 /\ Dominates(f, d, b0) /\ Dominates(f, d, ph)
    BY <2>3, <2>4, OutsideDominators DEF ph
  <2>6. op # i
    BY <1>6, <2>3, <2>5 DEF Stands
  <2>7. PICK k : k = Shifted(b0, k0, d, j)
    OBVIOUS
  <2>8. Stands(new, op, d, k) /\ (d = ph => k < end)
    BY <1>7, <2>3, <2>6, <2>7
  <2>9. k \in DOMAIN new[d]
    BY <2>8 DEF Stands
  <2>10. IF d = ph THEN k < end ELSE Dominates(f, d, ph)
    BY <2>5, <2>8
  <2>11. QED
    BY <1>3, <2>8, <2>9, <2>10 DEF DefinedBefore
<1>10. ASSUME NEW b \in Visited(f), NEW old \in DOMAIN placed[b], ~ (b = b0 /\ old = k0),
              placed[b][old] \in Instructions(f), placed[b][old] \notin f.phis,
              NEW op \in f.ops[placed[b][old]]
       PROVE  DefinedBefore(f, new, op, b, Shifted(b0, k0, b, old))
  <2>1. PICK d \in B : \E j \in DOMAIN placed[d] :
          Stands(placed, op, d, j) /\ IF d = b THEN j < old ELSE Dominates(f, d, b)
    BY <1>3, <1>10 DEF InSSAForm, DefinedBefore
  <2>2. PICK j \in DOMAIN placed[d] :
          Stands(placed, op, d, j) /\ IF d = b THEN j < old ELSE Dominates(f, d, b)
    BY <2>1
  <2>3. CASE op = i
    <3>1. d = b0
      BY <1>6, <2>2, <2>3 DEF Stands
    <3>2. b # ph /\ Dominates(f, ph, b)
      BY <1>1, <1>2, <2>2, <3>1, TransitiveDominance
    <3>3. end \in DOMAIN new[ph]
      BY <1>8 DEF Stands
    <3>4. QED
      BY <1>1, <1>8, <2>3, <3>2, <3>3 DEF DefinedBefore
  <2>4. CASE op # i
    <3>1. PICK k : k = Shifted(b0, k0, d, j)
      OBVIOUS
    <3>2. Stands(new, op, d, k) /\ k \in DOMAIN new[d]
      BY <1>7, <2>2, <2>4, <3>1 DEF Stands
    <3>3. CASE d = b
      <4>1. j < old /\ j \in Nat /\ old \in Nat
        BY <1>3, <1>6, <1>10, <2>2, <3>3
      <4>2. ~ (d = b0 /\ j = k0)
        BY <1>6, <2>2, <2>4 DEF Stands
      <4>3. k < Shifted(b0, k0, b, old)
        BY <1>6, <1>10, <3>1, <3>3, <4>1, <4>2 DEF Shifted
      <4>4. QED
        BY <1>3, <3>2, <3>3, <4>3 DEF DefinedBefore
    <3>4. CASE d # b
      BY <1>3, <2>2, <3>2, <3>4 DEF DefinedBefore
    <3>5. QED
      BY <3>3, <3>4
  <2>5. QED
    BY <2>3, <2>4
<1>11. ASSUME NEW op, NEW p, DefinedAtEndOf(f, placed, op, p)
       PROVE  DefinedAtEndOf(f, new, op, p)
  <2>1. PICK d \in B : op \in ToSet(placed[d]) /\ Dominates(f, d, p)
    BY <1>3, <1>11 DEF DefinedAtEndOf
  <2>2. PICK j \in DOMAIN placed[d] : placed[d][j] = op
    BY <2>1 DEF ToSet
  <2>3. CASE op = i
    <3>1. d = b0
      BY <1>6, <2>2, <2>3
    <3>2. Dominates(f, ph, p)
      BY <1>1, <2>1, <3>1, TransitiveDominance
    <3>3. op \in ToSet(new[ph])
      BY <1>8, <2>3 DEF Stands, ToSet
    <3>4. QED
      BY <1>1, <3>2, <3>3 DEF DefinedAtEndOf
  <2>4. CASE op # i
    <3>1. PICK k : k = Shifted(b0, k0, d, j)
      OBVIOUS
    <3>2. Stands(new, op, d, k)
      BY <1>7, <2>2, <2>4, <3>1 DEF Stands
    <3>3. op \in ToSet(new[d])
      BY <3>2 DEF Stands, ToSet
    <3>4. QED
      BY <1>3, <2>1, <3>3 DEF DefinedAtEndOf
  <2>5. QED
    BY <2>3, <2>4
<1>12. ASSUME NEW b \in Visited(f), NEW k \in DOMAIN new[b],
              new[b][k] \in Instructions(f)
       PROVE  IF new[b][k] \in f.phis
                THEN \A in \in f.incoming[new[b][k]] : DefinedAtEndOf(f, new, in[2], in[1])
                ELSE \A op \in f.ops[new[b][k]] : DefinedBefore(f, new, op, b, k)
  <2>1. CASE b = ph /\ k = end
    BY <1>8, <1>9, <2>1 DEF Stands
  <2>2. CASE ~ (b = ph /\ k = end)
    <3>1. PICK old \in DOMAIN placed[b] : /\ ~ (b = b0 /\ old = k0)
                                          /\ k = Shifted(b0, k0, b, old)
                                          /\ new[b][k] = placed[b][old]
      BY <1>3, <1>5, <2>2 DEF Moved
    <3>2. CASE placed[b][old] \in f.phis
      <4>1. \A in \in f.incoming[placed[b][old]] : DefinedAtEndOf(f, placed, in[2], in[1])
        BY <1>12, <3>1, <3>2 DEF InSSAForm
      <4>2. QED
        BY <1>11, <3>1, <3>2, <4>1
    <3>3. CASE placed[b][old] \notin f.phis
      BY <1>10, <1>12, <3>1, <3>3
    <3>4. QED
      BY <3>2, <3>3
  <2>3. QED
    BY <2>1, <2>2
<1>13. QED
  BY <1>12 DEF InSSAForm, new

-----------------------------------------------------------------------------
LEMMA OneBlock ==
  ASSUME NEW f, NEW code, EachOnce(f, code), NEW b \in Blocks(f), NEW c \in Blocks(f),
         NEW i, i \in ToSet(code[b]), i \in ToSet(code[c])
  PROVE  b = c
BY DEF EachOnce, HoldsOnce, ToSet

\* The loop at work is the only one with a preheader.
LEMMA LoopAtWork ==
  ASSUME TInv, runs = 1, pc \in {"populate", "move"}
  PROVE  /\ fn \in Functions /\ turn \in 1 .. Len(fn.loops) /\ L = fn.loops[turn]
         /\ L.preheader # 0 /\ L.preheader \in Blocks(fn)
         /\ L.preheader \notin ToSet(L.blocks)
         /\ ToSet(L.blocks) \subseteq Blocks(fn)
         /\ Simple(fn) => \A k \in 1 .. Len(fn.loops) : k # turn => fn.loops[k].preheader = 0
<1>1. /\ fn \in Functions /\ turn \in 1 .. Len(fn.loops) /\ L.preheader \in Blocks(fn)
  BY FunctionFacts DEF TInv, TypeOK
<1>2. L = fn.loops[turn]
  BY DEF L
<1>3. 0 \notin Blocks(fn)
  BY DEF Blocks
<1>4. IsLoop(fn, L) /\ IsFunction(fn) /\ Visited(fn) \subseteq Blocks(fn)
  BY <1>1, FunctionFacts, LoopFacts
<1>5. ToSet(L.blocks) \subseteq Blocks(fn)
  BY <1>4, LoopBlocks
<1>6. L.preheader \notin ToSet(L.blocks)
  BY <1>1, <1>3, <1>4 DEF IsLoop
<1>7. Simple(fn) => \A k \in 1 .. Len(fn.loops) : k # turn => fn.loops[k].preheader = 0
  BY <1>1, <1>2, <1>3, FunctionFacts DEF Simple
<1>8. QED
  BY <1>1, <1>2, <1>3, <1>5, <1>6, <1>7

(***************************************************************************)
(* In reverse post-order nothing uses an instruction of the loop that      *)
(* comes later, phi nodes aside.                                           *)
(***************************************************************************)
LEMMA LaterIsNotUsed ==
  ASSUME NEW f \in Functions, NEW loop, IsLoop(f, loop), loop.preheader # 0,
         NEW n \in 1 .. Len(loop.blocks), NEW k \in DOMAIN f.insts[loop.blocks[n]],
         NEW n0 \in 1 .. Len(loop.blocks), NEW k0 \in DOMAIN f.insts[loop.blocks[n0]],
         n < n0 \/ (n = n0 /\ k < k0),
         f.insts[loop.blocks[n]][k] \in f.safe
  PROVE  f.insts[loop.blocks[n0]][k0] \notin f.ops[f.insts[loop.blocks[n]][k]]
<1>. DEFINE b == loop.blocks[n]
            b0 == loop.blocks[n0]
<1>1. /\ IsFunction(f) /\ EachOnce(f, f.insts) /\ InSSAForm(f, f.insts)
      /\ f.insts[b][k] \notin f.phis
      /\ Visited(f) \subseteq Blocks(f)
      /\ f.insts \in [Blocks(f) -> Seq(Instructions(f))]
  BY FunctionFacts
<1>2. b \in Visited(f) /\ b0 \in Blocks(f) /\ (b = b0 => n = n0) /\ b \in Blocks(f)
  BY <1>1, LoopBlocks
<1>3. k \in Nat /\ k0 \in Nat /\ n \in Nat /\ n0 \in Nat
  <2>1. f.insts[b] \in Seq(Instructions(f)) /\ f.insts[b0] \in Seq(Instructions(f))
    BY <1>1, <1>2
  <2>2. QED
    BY <2>1
<1>4. SUFFICES ASSUME f.insts[b0][k0] \in f.ops[f.insts[b][k]] PROVE FALSE
  OBVIOUS
<1>5. DefinedBefore(f, f.insts, f.insts[b0][k0], b, k)
  BY <1>1, <1>2, <1>4 DEF InSSAForm
<1>6. PICK d \in Blocks(f) : \E j \in DOMAIN f.insts[d] :
        Stands(f.insts, f.insts[b0][k0], d, j) /\ IF d = b THEN j < k ELSE Dominates(f, d, b)
  BY <1>5 DEF DefinedBefore
<1>7. PICK j \in DOMAIN f.insts[d] :
        Stands(f.insts, f.insts[b0][k0], d, j) /\ IF d = b THEN j < k ELSE Dominates(f, d, b)
  BY <1>6
<1>8. d = b0 /\ j = k0
  BY <1>1, <1>2, <1>7 DEF EachOnce, HoldsOnce, Stands
<1>9. CASE d = b
  BY <1>2, <1>3, <1>7, <1>8, <1>9
<1>10. CASE d # b
  <2>1. Dominates(f, loop.blocks[n0], loop.blocks[n])
    BY <1>7, <1>8, <1>10
  <2>2. n0 <= n
    BY <1>1, <2>1, OrderOfBlocks
  <2>3. QED
    BY <1>3, <1>8, <1>10, <2>2
<1>11. QED
  BY <1>9, <1>10

LEMMA OrderExamine ==
  ASSUME TInv, OnceInv, runs = 1, Simple(fn), InOrder, Examine
  PROVE  AlongTheBlocks'
<1>1. /\ pc = "populate" /\ AlongTheBlocks /\ MemberInOrder /\ placed = fn.insts
      /\ itr' = itr + 1 /\ UNCHANGED fn /\ UNCHANGED turn /\ UNCHANGED placed
      /\ UNCHANGED bitr /\ L' = L
  BY DEF InOrder, Examine, AlongTheBlocks, L
<1>2. /\ fn \in Functions /\ turn \in 1 .. Len(fn.loops) /\ L = fn.loops[turn]
      /\ L.preheader # 0 /\ ToSet(L.blocks) \subseteq Blocks(fn)
  BY <1>1, LoopAtWork
<1>3. /\ IsFunction(fn) /\ IsLoop(fn, L) /\ EachOnce(fn, fn.insts)
      /\ placed \in [Blocks(fn) -> Seq(Instructions(fn))]
      /\ DOMAIN fn.loops = 1 .. Len(fn.loops)
  BY <1>1, <1>2, LoopFacts, FunctionFacts
<1>4. /\ Len(L.blocks) \in Nat
      /\ \A n \in 1 .. Len(L.blocks) : L.blocks[n] \in Blocks(fn) /\ L.blocks[n] \in ToSet(L.blocks)
      /\ \A m, n \in 1 .. Len(L.blocks) : L.blocks[m] = L.blocks[n] => m = n
  BY <1>2, <1>3, LoopBlocks
<1>5. \A b \in Blocks(fn) : Len(placed[b]) \in Nat /\ DOMAIN placed[b] = 1 .. Len(placed[b])
  BY <1>3
<1>6. bitr \in 1 .. Len(L.blocks) /\ itr \in DOMAIN placed[L.blocks[bitr]]
      /\ bitr \in Nat /\ itr \in Nat
  <2>1. bitr \in 1 .. Len(L.blocks)
    BY <1>1, <1>4 DEF Examine, TInv, TypeOK
  <2>2. L.blocks[bitr] \in Blocks(fn)
    BY <1>4, <2>1
  <2>3. itr \in 1 .. Len(placed[L.blocks[bitr]])
    BY <1>1, <1>5, <2>1, <2>2 DEF Examine, TInv, TypeOK
  <2>4. QED
    BY <1>5, <2>1, <2>2, <2>3
<1>. DEFINE I == placed[L.blocks[bitr]][itr]
            C == loopInvariantInstructions
<1>7. \A n, k \in Nat : Examined(n, k)' <=> Examined(n, k) \/ (n = bitr /\ k = itr)
  BY <1>1, <1>6 DEF Examined
<1>8. OriginallyIn(fn, L)' = OriginallyIn(fn, L) /\ OriginallyIn(fn, L) = InLoop(L)
  BY <1>1 DEF OriginallyIn, InLoop
<1>9. I \in OriginallyIn(fn, L)
  <2>1. I \in ToSet(placed[L.blocks[bitr]]) /\ L.blocks[bitr] \in ToSet(L.blocks)
    BY <1>4, <1>6 DEF ToSet
  <2>2. QED
    BY <1>1, <2>1 DEF OriginallyIn
<1>10. /\ Len(C) \in Nat /\ ToSet(C) = Member
       /\ \A m \in 1 .. Len(C) : C[m] \in Member
  BY MemberFacts
<1>11. \A n \in 1 .. Len(L.blocks) : \A k \in DOMAIN placed[L.blocks[n]] : n \in Nat /\ k \in Nat
  BY <1>4, <1>5
<1>12. ASSUME ~ (I \in fn.binops \cup fn.phis /\ IsInvariant(I, LoopInstructions(L)))
       PROVE  AlongTheBlocks'
  <2>1. C' = C /\ Member' = Member
    <3>1. Strangers = {}
      BY DEF OnceInv, Strangers
    <3>2. QED
      BY <1>12, <3>1 DEF Examine, Member
  <2>2. MemberInOrder'
    BY <1>1, <1>8, <2>1 DEF MemberInOrder, Earlier
  <2>3. I \in fn.safe \ Member => LeftOut(I)
    <3>1. SUFFICES ASSUME I \in fn.safe \ Member PROVE LeftOut(I)
      OBVIOUS
    <3>2. I \in fn.binops \cup fn.phis
      BY <1>2, <3>1, FunctionFacts
    <3>3. PICK op \in fn.ops[I] : op \in LoopInstructions(L) /\ op \notin ToSet(C)
      BY <1>12, <3>1, <3>2 DEF IsInvariant
    <3>4. QED
      BY <1>8, <1>10, <3>3 DEF LeftOut, LoopInstructions
  <2>4. ASSUME NEW n \in 1 .. Len(L.blocks), NEW k \in DOMAIN placed[L.blocks[n]]
        PROVE  /\ placed[L.blocks[n]][k] \in Member => Examined(n, k)'
               /\ Examined(n, k)' /\ placed[L.blocks[n]][k] \in fn.safe \ Member
                    => LeftOut(placed[L.blocks[n]][k])
    <3>1. n \in Nat /\ k \in Nat
      BY <1>11
    <3>2. /\ placed[L.blocks[n]][k] \in Member => Examined(n, k)
          /\ Examined(n, k) /\ placed[L.blocks[n]][k] \in fn.safe \ Member
               => LeftOut(placed[L.blocks[n]][k])
      BY <1>1 DEF AlongTheBlocks
    <3>3. CASE n = bitr /\ k = itr
      BY <1>7, <2>3, <3>1, <3>2, <3>3
    <3>4. CASE ~ (n = bitr /\ k = itr)
      BY <1>7, <3>1, <3>2, <3>4
    <3>5. QED
      BY <3>3, <3>4
  <2>5. \A i : LeftOut(i)' <=> LeftOut(i)
    BY <1>1, <1>8, <2>1 DEF LeftOut
  <2>6. QED
    BY <1>1, <2>1, <2>2, <2>4, <2>5 DEF AlongTheBlocks
<1>13. ASSUME I \in fn.binops \cup fn.phis /\ IsInvariant(I, LoopInstructions(L))
       PROVE  AlongTheBlocks'
  <2>1. C' = Append(C, I) /\ I \in fn.safe
    BY <1>13 DEF Examine, IsInvariant
  <2>2. PICK e : e = I
    OBVIOUS
  <2>3. /\ Len(C') = Len(C) + 1 /\ C'[Len(C) + 1] = e
        /\ \A m \in 1 .. Len(C) : C'[m] = C[m]
        /\ Member' = Member \cup {e}
    BY <2>1, <2>2, AppendedMember
  <2>4. e \notin Member
    <3>1. SUFFICES ASSUME I \in Member PROVE FALSE
      BY <2>2
    <3>2. Examined(bitr, itr)
      BY <1>1, <1>6, <3>1 DEF AlongTheBlocks
    <3>3. QED
      BY <1>6, <3>2 DEF Examined
  <2>5. fn.ops[e] \cap OriginallyIn(fn, L) \subseteq Member
    <3>1. fn.ops[I] \cap OriginallyIn(fn, L) \subseteq fn.binops \cup fn.phis
      BY <1>2, <1>3, <1>9, <2>1 DEF Simple
    <3>2. fn.ops[I] \cap OriginallyIn(fn, L) \subseteq LoopInstructions(L)
      BY <1>8, <3>1 DEF LoopInstructions
    <3>3. QED
      BY <1>10, <1>13, <2>2, <3>2 DEF IsInvariant
  <2>. HIDE DEF C, I
  <2>6. \A m \in 1 .. Len(C) : Earlier(m)' = Earlier(m)
    <3>1. TAKE m \in 1 .. Len(C)
    <3>2. \A j \in 1 .. m - 1 : j \in 1 .. Len(C)
      BY <1>10
    <3>3. QED
      BY <2>3, <3>2 DEF Earlier, C
  <2>7. ASSUME NEW m, m = Len(C) + 1 PROVE Earlier(m)' = Member
    <3>1. m - 1 = Len(C)
      BY <1>10, <2>7
    <3>2. Earlier(m)' = {C'[j] : j \in 1 .. Len(C)}
      BY <3>1 DEF Earlier, C
    <3>3. QED
      BY <2>3, <3>2 DEF Member, C
  <2>8. MemberInOrder'
    <3>1. \A m \in 1 .. Len(C') : m = Len(C) + 1 \/ m \in 1 .. Len(C)
      BY <1>10, <2>3
    <3>2. Member' \subseteq fn.safe \cap OriginallyIn(fn, L)
      BY <1>1, <1>9, <2>1, <2>2, <2>3 DEF MemberInOrder, C
    <3>3. \A j, m \in 1 .. Len(C') : C'[j] = C'[m] => j = m
      BY <1>1, <1>10, <2>3, <2>4, <3>1 DEF MemberInOrder, C
    <3>4. ASSUME NEW m \in 1 .. Len(C')
          PROVE  fn.ops[C'[m]] \cap OriginallyIn(fn, L) \subseteq Earlier(m)'
      <4>1. CASE m = Len(C) + 1
        BY <2>3, <2>5, <2>7, <4>1
      <4>2. CASE m \in 1 .. Len(C)
        BY <1>1, <2>3, <2>6, <4>2 DEF MemberInOrder, C
      <4>3. QED
        BY <3>1, <4>1, <4>2
    <3>5. QED
      BY <1>1, <1>8, <3>2, <3>3, <3>4 DEF MemberInOrder, C
  <2>9. \A i : LeftOut(i)' <=> (fn.ops[i] \cap OriginallyIn(fn, L)) \ (Member \cup {e}) # {}
    BY <1>1, <1>8, <2>3 DEF LeftOut
  <2>10. ASSUME NEW n \in 1 .. Len(L.blocks), NEW k \in DOMAIN placed[L.blocks[n]]
         PROVE  /\ placed[L.blocks[n]][k] \in Member' => Examined(n, k)'
                /\ Examined(n, k)' /\ placed[L.blocks[n]][k] \in fn.safe \ Member'
                     => LeftOut(placed[L.blocks[n]][k])'
    <3>0. PICK i : i = placed[L.blocks[n]][k]
      OBVIOUS
    <3>1. n \in Nat /\ k \in Nat /\ L.blocks[n] \in Blocks(fn) /\ L.blocks[bitr] \in Blocks(fn)
      BY <1>4, <1>6, <1>11
    <3>2. /\ i \in Member => Examined(n, k)
          /\ Examined(n, k) /\ i \in fn.safe \ Member => LeftOut(i)
      BY <1>1, <3>0 DEF AlongTheBlocks
    <3>3. i = e => n = bitr /\ k = itr
      <4>1. SUFFICES ASSUME i = I PROVE n = bitr /\ k = itr
        BY <2>2
      <4>0. PICK b, c : b = L.blocks[n] /\ c = L.blocks[bitr]
        OBVIOUS
      <4>2. L.blocks[n] = L.blocks[bitr] /\ k = itr
        <5>1. EachOnce(fn, placed)
          BY <1>1, <1>3
        <5>2. b \in Blocks(fn) /\ c \in Blocks(fn) /\ k \in DOMAIN placed[b]
              /\ itr \in DOMAIN placed[c] /\ placed[b][k] = placed[c][itr]
          BY <1>6, <3>0, <3>1, <4>0, <4>1 DEF I
        <5>3. b = c /\ k = itr
          BY <5>1, <5>2 DEF EachOnce, HoldsOnce
        <5>4. QED
          BY <4>0, <5>3
      <4>3. QED
        BY <1>4, <1>6, <4>2
    <3>4. i \in Member' => Examined(n, k)'
      BY <1>7, <2>3, <3>1, <3>2, <3>3
    <3>5. ASSUME Examined(n, k)', i \in fn.safe \ Member' PROVE LeftOut(i)'
      <4>1. i \notin Member /\ i # e /\ i \in fn.safe
        BY <2>3, <3>5
      <4>2. Examined(n, k)
        <5>1. ~ (n = bitr /\ k = itr)
          BY <2>2, <3>0, <4>1 DEF I
        <5>2. QED
          BY <1>7, <3>1, <3>5, <5>1
      <4>3. PICK op \in fn.ops[i] \cap OriginallyIn(fn, L) : op \notin Member
        BY <3>2, <4>1, <4>2 DEF LeftOut
      <4>4. op # e
        <5>1. n < bitr \/ (n = bitr /\ k < itr)
          BY <4>2 DEF Examined
        <5>2. I \notin fn.ops[i]
          BY <1>1, <1>2, <1>3, <1>6, <3>0, <4>1, <5>1, LaterIsNotUsed DEF I
        <5>3. QED
          BY <2>2, <4>3, <5>2
      <4>5. QED
        BY <2>9, <4>3, <4>4
    <3>6. QED
      BY <1>1, <3>0, <3>4, <3>5
  <2>11. QED
    BY <1>1, <2>8, <2>10 DEF AlongTheBlocks
<1>14. QED
  BY <1>12, <1>13

LEMMA OrderStartMoves ==
  ASSUME TInv, OnceInv, runs = 1, Simple(fn), InOrder, StartMoves
  PROVE  AlongTheMoves'
<1>1. /\ pc = "populate" /\ AlongTheBlocks /\ MemberInOrder /\ placed = fn.insts
      /\ bitr > Len(L.blocks)
      /\ UNCHANGED fn /\ UNCHANGED turn /\ UNCHANGED placed /\ moved' = 0
      /\ UNCHANGED loopInvariantInstructions /\ L' = L
  BY DEF InOrder, StartMoves, AlongTheBlocks, L
<1>2. /\ fn \in Functions /\ turn \in 1 .. Len(fn.loops) /\ L = fn.loops[turn]
      /\ L.preheader # 0
  BY <1>1, LoopAtWork
<1>3. /\ IsFunction(fn) /\ IsLoop(fn, L)
      /\ ToSet(L.blocks) = {L.blocks[n] : n \in 1 .. Len(L.blocks)}
      /\ Len(L.blocks) \in Nat
  <2>1. IsFunction(fn) /\ IsLoop(fn, L)
    BY <1>2, LoopFacts
  <2>2. QED
    BY <2>1, LoopBlocks
<1>4. bitr \in Nat
  BY <1>1, <1>3 DEF TInv, TypeOK
<1>5. ASSUME NEW i \in (OriginallyIn(fn, L) \cap fn.safe) \ Member PROVE LeftOut(i)
  <2>1. PICK b \in ToSet(L.blocks) : i \in ToSet(placed[b])
    BY <1>1 DEF OriginallyIn
  <2>2. PICK n \in 1 .. Len(L.blocks) : L.blocks[n] = b
    BY <1>3
  <2>3. PICK k \in DOMAIN placed[b] : placed[b][k] = i
    BY <2>1 DEF ToSet
  <2>4. Examined(n, k)
    BY <1>1, <1>3, <1>4 DEF Examined
  <2>5. QED
    BY <1>1, <2>2, <2>3, <2>4 DEF AlongTheBlocks
<1>6. \A b \in Blocks(fn) : \A i \in ToSet(placed[b]) :
        i \notin Earlier(moved + 1)' /\ i \in ToSet(fn.insts[b])
  BY <1>1 DEF Earlier
<1>7. /\ MemberInOrder' = MemberInOrder /\ Member' = Member
      /\ OriginallyIn(fn, L)' = OriginallyIn(fn, L)
      /\ \A i : LeftOut(i)' = LeftOut(i)
  BY <1>1 DEF MemberInOrder, Member, OriginallyIn, LeftOut, Earlier
<1>8. QED
  BY <1>1, <1>5, <1>6, <1>7 DEF AlongTheMoves

LEMMA OrderMove ==
  ASSUME TInv, OnceInv, runs = 1, Simple(fn), InOrder, MoveInvariant
  PROVE  InSSAForm(fn, placed)' /\ AlongTheMoves'
<1>. DEFINE C == loopInvariantInstructions
<1>1. /\ pc = "move" /\ AlongTheMoves /\ MemberInOrder /\ InSSAForm(fn, placed)
      /\ moved < Len(C) /\ moved' = moved + 1
      /\ UNCHANGED fn /\ UNCHANGED turn
      /\ UNCHANGED C /\ L' = L
  BY DEF InOrder, MoveInvariant, AlongTheMoves, L
<1>2. PICK I : I = C[moved + 1]
  OBVIOUS
<1>3. placed' = MoveToEnd(I, L.preheader)
  BY <1>2 DEF MoveInvariant
<1>4. /\ fn \in Functions /\ turn \in 1 .. Len(fn.loops) /\ L = fn.loops[turn]
      /\ L.preheader # 0 /\ L.preheader \in Blocks(fn)
      /\ L.preheader \notin ToSet(L.blocks) /\ ToSet(L.blocks) \subseteq Blocks(fn)
  BY <1>1, LoopAtWork
<1>5. /\ IsFunction(fn) /\ IsLoop(fn, L) /\ EachOnce(fn, fn.insts)
      /\ fn.safe \cap fn.phis = {} /\ Visited(fn) \subseteq Blocks(fn)
  BY <1>4, LoopFacts, FunctionFacts
<1>6. placed \in [Blocks(fn) -> Seq(Instructions(fn))] /\ EachOnce(fn, placed)
  BY OnceTyped DEF OnceInv
<1>7. /\ Len(C) \in Nat /\ moved \in Nat /\ moved + 1 \in 1 .. Len(C)
      /\ I \in Member /\ I \in fn.safe /\ I \in OriginallyIn(fn, L)
  <2>1. Len(C) \in Nat /\ moved \in Nat
    BY MemberFacts DEF TInv, TypeOK
  <2>2. moved + 1 \in 1 .. Len(C)
    BY <1>1, <2>1
  <2>3. I \in Member
    BY <1>2, <2>2 DEF Member
  <2>4. QED
    BY <1>1, <2>1, <2>2, <2>3 DEF MemberInOrder
<1>8. I \notin Earlier(moved + 1)
  <2>1. SUFFICES ASSUME NEW j \in 1 .. (moved + 1) - 1, C[j] = I PROVE FALSE
    BY DEF Earlier
  <2>2. j \in 1 .. Len(C) /\ j # moved + 1
    BY <1>7
  <2>3. QED
    BY <1>1, <1>2, <1>7, <2>1, <2>2 DEF MemberInOrder
<1>9. \A x : x \in Earlier(moved + 1)' <=> x \in Earlier(moved + 1) \/ x = I
  <2>1. \A j : j \in 1 .. (moved + 2) - 1 <=> j \in 1 .. (moved + 1) - 1 \/ j = moved + 1
    BY <1>7
  <2>2. Earlier(moved + 1)' = {C[j] : j \in 1 .. (moved + 2) - 1}
    BY <1>1, <1>7 DEF Earlier
  <2>3. QED
    BY <1>2, <2>1, <2>2 DEF Earlier
<1>. HIDE DEF C
<1>10. PICK b0 \in Blocks(fn) : I \in ToSet(placed[b0])
  <2>1. I \in Instructions(fn)
    BY <1>4, <1>7 DEF OriginallyIn, Instructions
  <2>2. QED
    BY <1>6, <2>1 DEF EachOnce, HoldsOnce
<1>11. PICK k0 \in DOMAIN placed[b0] : placed[b0][k0] = I
  BY <1>10 DEF ToSet
<1>12. StandsOnly(Blocks(fn), I, b0, k0)
  BY <1>6, <1>11 DEF StandsOnly, EachOnce, HoldsOnce
<1>13. b0 \in ToSet(L.blocks)
  <2>1. I \in ToSet(fn.insts[b0])
    BY <1>1, <1>8, <1>10 DEF AlongTheMoves
  <2>2. PICK b \in ToSet(L.blocks) : I \in ToSet(fn.insts[b])
    BY <1>7 DEF OriginallyIn
  <2>3. QED
    BY <1>4, <1>5, <2>1, <2>2, OneBlock
<1>14. ASSUME NEW d \in ToSet(L.blocks), NEW op \in ToSet(placed[d]), op \in fn.ops[I] PROVE FALSE
  <2>1. d \in Blocks(fn) /\ d # L.preheader
    BY <1>4
  <2>2. op \notin Earlier(moved + 1) /\ op \in ToSet(fn.insts[d])
    BY <1>1, <2>1 DEF AlongTheMoves
  <2>3. op \in OriginallyIn(fn, L)
    BY <2>2 DEF OriginallyIn
  <2>4. fn.ops[I] \cap OriginallyIn(fn, L) \subseteq Earlier(moved + 1)
    BY <1>1, <1>2, <1>7 DEF MemberInOrder, C
  <2>5. QED
    BY <1>14, <2>2, <2>3, <2>4
<1>15. InSSAForm(fn, MoveToEnd(I, L.preheader))
  <2>1. \A d \in ToSet(L.blocks) : ToSet(placed[d]) \cap fn.ops[I] = {}
    BY <1>14
  <2>2. I \in Instructions(fn)
    BY <1>4, <1>7 DEF OriginallyIn, Instructions
  <2>3. I \notin fn.phis
    BY <1>5, <1>7
  <2>4. QED
    BY <1>1, <1>4, <1>5, <1>6, <1>12, <1>13, <2>1, <2>2, <2>3, HoistKeepsForm
<1>16. ASSUME NEW b \in Blocks(fn), NEW i \in ToSet(placed'[b])
       PROVE  IF i \in Earlier(moved + 1)' THEN b = L.preheader ELSE i \in ToSet(fn.insts[b])
  <2>1. PICK B : B = Blocks(fn)
    OBVIOUS
  <2>2. PICK end \in Nat : Moved(B, placed', b0, k0, L.preheader, end)
    <3>1. placed \in [B -> Seq(Instructions(fn))] /\ StandsOnly(B, I, b0, k0) /\ L.preheader \in B
      BY <1>4, <1>6, <1>12, <2>1
    <3>2. QED
      BY <1>3, <3>1, MoveLemma
  <2>3. PICK k \in DOMAIN placed'[b] : placed'[b][k] = i
    BY <1>16 DEF ToSet
  <2>4. CASE b = L.preheader /\ k = end
    BY <1>9, <1>11, <2>2, <2>3, <2>4 DEF Moved, Stands
  <2>5. CASE ~ (b = L.preheader /\ k = end)
    <3>1. PICK old \in DOMAIN placed[b] : ~ (b = b0 /\ old = k0) /\ placed[b][old] = i
      BY <2>1, <2>2, <2>3, <2>5 DEF Moved
    <3>2. i # I
      BY <1>12, <3>1 DEF StandsOnly
    <3>3. i \in ToSet(placed[b])
      BY <3>1 DEF ToSet
    <3>4. IF i \in Earlier(moved + 1) THEN b = L.preheader ELSE i \in ToSet(fn.insts[b])
      BY <1>1, <3>3 DEF AlongTheMoves
    <3>5. QED
      BY <1>9, <3>2, <3>4
  <2>6. QED
    BY <2>4, <2>5
<1>17. /\ MemberInOrder' = MemberInOrder /\ Member' = Member
       /\ OriginallyIn(fn, L)' = OriginallyIn(fn, L)
       /\ \A i : LeftOut(i)' = LeftOut(i)
  BY <1>1 DEF MemberInOrder, Member, OriginallyIn, LeftOut, Earlier, C
<1>18. QED
  BY <1>1, <1>3, <1>15, <1>16, <1>17 DEF AlongTheMoves

LEMMA OrderLoopDone ==
  ASSUME TInv, OnceInv, runs = 1, Simple(fn), InOrder, LoopDone
  PROVE  BetweenLoops'
<1>1. /\ pc = "move" /\ AlongTheMoves /\ MemberInOrder
      /\ moved = Len(loopInvariantInstructions) /\ turn' = turn + 1
      /\ UNCHANGED fn /\ UNCHANGED placed /\ UNCHANGED loopInvariantInstructions
  BY DEF InOrder, LoopDone, AlongTheMoves
<1>2. /\ fn \in Functions /\ turn \in 1 .. Len(fn.loops) /\ L = fn.loops[turn]
      /\ L.preheader # 0 /\ L.preheader \in Blocks(fn)
      /\ L.preheader \notin ToSet(L.blocks) /\ ToSet(L.blocks) \subseteq Blocks(fn)
      /\ \A k \in 1 .. Len(fn.loops) : k # turn => fn.loops[k].preheader = 0
  BY <1>1, LoopAtWork
<1>3. /\ EachOnce(fn, fn.insts) /\ EachOnce(fn, placed)
      /\ Len(fn.loops) \in Nat /\ turn \in Nat
  BY <1>2, FunctionFacts DEF OnceInv
<1>4. Earlier(moved + 1) = Member
  <2>1. Len(loopInvariantInstructions) \in Nat
    BY MemberFacts
  <2>2. (moved + 1) - 1 = Len(loopInvariantInstructions)
    BY <1>1, <2>1
  <2>3. Earlier(moved + 1) = {loopInvariantInstructions[j] : j \in 1 .. (moved + 1) - 1}
    BY DEF Earlier
  <2>4. QED
    BY <2>2, <2>3 DEF Member
<1>5. ASSUME NEW b \in ToSet(L.blocks), NEW i \in ToSet(placed[b])
      PROVE  i \notin Member /\ i \in OriginallyIn(fn, L)
  <2>1. b \in Blocks(fn) /\ b # L.preheader
    BY <1>2
  <2>2. i \notin Member /\ i \in ToSet(fn.insts[b])
    BY <1>1, <1>4, <2>1 DEF AlongTheMoves
  <2>3. QED
    BY <2>2 DEF OriginallyIn
<1>6. ASSUME NEW op \in OriginallyIn(fn, L) \ Member PROVE op \in InLoop(L)
  <2>1. PICK b \in ToSet(L.blocks) : op \in ToSet(fn.insts[b])
    BY DEF OriginallyIn
  <2>2. op \in Instructions(fn)
    BY <1>2, <2>1 DEF Instructions
  <2>3. PICK c \in Blocks(fn) : op \in ToSet(placed[c])
    BY <1>3, <2>2 DEF EachOnce, HoldsOnce
  <2>4. op \in ToSet(fn.insts[c])
    BY <1>1, <1>4, <1>6, <2>3 DEF AlongTheMoves
  <2>5. b = c
    BY <1>2, <1>3, <2>1, <2>4, OneBlock
  <2>6. QED
    BY <2>1, <2>3, <2>5 DEF InLoop
<1>7. ASSUME NEW i \in InLoop(L) \cap fn.safe PROVE fn.ops[i] \cap InLoop(L) # {}
  <2>1. i \in (OriginallyIn(fn, L) \cap fn.safe) \ Member
    BY <1>5 DEF InLoop
  <2>2. LeftOut(i)
    BY <1>1, <2>1 DEF AlongTheMoves
  <2>3. PICK op \in fn.ops[i] : op \in OriginallyIn(fn, L) \ Member
    BY <2>2 DEF LeftOut
  <2>4. QED
    BY <1>6, <2>3
<1>8. \A k \in 1 .. Len(fn.loops) : DoneWith(k)
  BY <1>2, <1>7 DEF DoneWith
<1>9. \A k : DoneWith(k)' = DoneWith(k)
  BY <1>1 DEF DoneWith, InLoop
<1>10. /\ \A k \in turn + 1 .. Len(fn.loops) : k \in 1 .. Len(fn.loops) /\ k # turn
       /\ \A k \in 1 .. (turn + 1) - 1 : k \in 1 .. Len(fn.loops)
  BY <1>2, <1>3
<1>11. QED
  BY <1>1, <1>2, <1>8, <1>9, <1>10 DEF BetweenLoops

LEMMA OrderStartFunction ==
  ASSUME TInv, NEW f \in Functions, StartFunction(f), runs' = 1
  PROVE  InOrder'
<1>1. runs = 0 /\ loopInvariantInstructions' = << >>
  BY DEF StartFunction, TInv, TypeOK
<1>2. fn' = f /\ placed' = f.insts /\ turn' = 1 /\ pc' = "loop"
  BY DEF StartFunction
<1>3. InSSAForm(f, f.insts)
  BY FunctionFacts
<1>4. BetweenLoops'
  BY <1>1, <1>2 DEF BetweenLoops
<1>5. QED
  BY <1>2, <1>3, <1>4 DEF InOrder

LEMMA OrderSkipLoop ==
  ASSUME TInv, runs = 1, InOrder, SkipLoop
  PROVE  BetweenLoops'
<1>1. /\ BetweenLoops /\ turn <= Len(fn.loops) /\ L.preheader = 0
      /\ turn' = turn + 1 /\ UNCHANGED fn /\ UNCHANGED placed
      /\ UNCHANGED loopInvariantInstructions
  BY DEF SkipLoop, InOrder
<1>2. turn \in 1 .. Len(fn.loops) /\ Len(fn.loops) \in Nat /\ L = fn.loops[turn]
  BY <1>1, FunctionFacts DEF TInv, TypeOK, L
<1>3. DoneWith(turn)
  BY <1>1, <1>2 DEF DoneWith
<1>4. \A k : DoneWith(k)' = DoneWith(k)
  BY <1>1 DEF DoneWith, InLoop
<1>5. /\ \A k \in turn + 1 .. Len(fn.loops) : k \in turn .. Len(fn.loops)
      /\ \A k \in 1 .. (turn + 1) - 1 : k \in 1 .. turn - 1 \/ k = turn
  BY <1>2
<1>6. QED
  BY <1>1, <1>3, <1>4, <1>5 DEF BetweenLoops

LEMMA OrderStartLoop ==
  ASSUME TInv, OnceInv, runs = 1, InOrder, StartLoop
  PROVE  AlongTheBlocks'
<1>1. /\ BetweenLoops /\ turn <= Len(fn.loops) /\ L.preheader # 0
      /\ UNCHANGED turn /\ UNCHANGED fn /\ UNCHANGED placed /\ bitr' = 1 /\ itr' = 1
      /\ UNCHANGED loopInvariantInstructions /\ L' = L
  BY DEF StartLoop, InOrder, L
<1>2. /\ turn \in turn .. Len(fn.loops) /\ L = fn.loops[turn] /\ fn \in Functions
      /\ turn \in 1 .. Len(fn.loops)
  BY <1>1, FunctionFacts DEF TInv, TypeOK, L
<1>3. loopInvariantInstructions = << >> /\ placed = fn.insts
  BY <1>1, <1>2 DEF BetweenLoops
<1>4. Member' = {} /\ Len(loopInvariantInstructions') = 0
  BY <1>1, <1>3 DEF Member
<1>5. MemberInOrder'
  BY <1>4 DEF MemberInOrder
<1>6. ASSUME NEW n \in 1 .. Len(L.blocks), NEW k \in DOMAIN placed[L.blocks[n]]
      PROVE  ~ Examined(n, k)'
  <2>1. Len(L.blocks) \in Nat /\ L.blocks[n] \in Blocks(fn)
    BY <1>2, LoopFacts
  <2>2. placed[L.blocks[n]] \in Seq(Instructions(fn))
    BY <2>1, OnceTyped
  <2>3. n \in Nat /\ n >= 1 /\ k \in Nat /\ k >= 1
    BY <2>1, <2>2
  <2>4. QED
    BY <1>1, <2>3 DEF Examined
<1>7. QED
  BY <1>1, <1>3, <1>4, <1>5, <1>6 DEF AlongTheBlocks

LEMMA OrderNextBlock ==
  ASSUME TInv, OnceInv, runs = 1, InOrder, NextBlock
  PROVE  AlongTheBlocks'
<1>1. /\ pc = "populate" /\ AlongTheBlocks /\ bitr <= Len(L.blocks)
      /\ itr > Len(placed[L.blocks[bitr]])
      /\ UNCHANGED turn /\ UNCHANGED fn /\ UNCHANGED placed /\ bitr' = bitr + 1 /\ itr' = 1
      /\ UNCHANGED loopInvariantInstructions /\ L' = L
  BY DEF NextBlock, InOrder, L
<1>2. fn \in Functions /\ turn \in 1 .. Len(fn.loops)
  BY <1>1, LoopAtWork
<1>3. Len(L.blocks) \in Nat /\ bitr \in 1 .. Len(L.blocks)
      /\ \A n \in 1 .. Len(L.blocks) : L.blocks[n] \in Blocks(fn)
  BY <1>1, <1>2, LoopFacts DEF TInv, TypeOK
<1>4. \A b \in Blocks(fn) : Len(placed[b]) \in Nat /\ DOMAIN placed[b] = 1 .. Len(placed[b])
  BY OnceTyped
<1>5. itr \in Nat
  BY <1>1, <1>3, <1>4 DEF TInv, TypeOK
<1>6. ASSUME NEW n \in 1 .. Len(L.blocks), NEW k \in DOMAIN placed[L.blocks[n]]
      PROVE  Examined(n, k)' <=> Examined(n, k)
  <2>1. n \in Nat /\ k \in 1 .. Len(placed[L.blocks[n]]) /\ Len(placed[L.blocks[n]]) \in Nat
    BY <1>3, <1>4
  <2>2. n = bitr => k < itr
    BY <1>1, <1>5, <2>1
  <2>3. k >= 1 /\ k \in Nat
    BY <2>1
  <2>4. QED
    BY <1>1, <1>3, <1>5, <2>1, <2>2, <2>3 DEF Examined
<1>7. /\ MemberInOrder' = MemberInOrder /\ Member' = Member
      /\ \A i : LeftOut(i)' = LeftOut(i)
  BY <1>1 DEF MemberInOrder, Member, OriginallyIn, LeftOut, Earlier
<1>8. QED
  BY <1>1, <1>6, <1>7 DEF AlongTheBlocks

LEMMA OrderInit == Init => OrderInv
BY DEF Init, OrderInv

LEMMA OrderNext == TInv /\ OnceInv /\ OrderInv /\ [Next]_vars => OrderInv'
<1>. SUFFICES ASSUME TInv, OnceInv, OrderInv, [Next]_vars, runs' = 1, Simple(fn')
              PROVE  InOrder'
  BY DEF OrderInv
<1>1. ASSUME NEW f \in Functions, StartFunction(f) PROVE InOrder'
  BY <1>1, OrderStartFunction
<1>. DEFINE Same == /\ UNCHANGED fn /\ UNCHANGED placed /\ runs = 1 /\ Simple(fn) /\ InOrder
                    /\ InSSAForm(fn, placed)
<1>2. CASE SkipLoop
  <2>1. Same /\ pc' = "loop"
    BY <1>2 DEF SkipLoop, OrderInv, InOrder
  <2>2. BetweenLoops'
    BY <1>2, <2>1, OrderSkipLoop
  <2>3. QED
    BY <2>1, <2>2 DEF InOrder
<1>3. CASE StartLoop
  <2>1. Same /\ pc' = "populate"
    BY <1>3 DEF StartLoop, OrderInv, InOrder
  <2>2. AlongTheBlocks'
    BY <1>3, <2>1, OrderStartLoop
  <2>3. QED
    BY <2>1, <2>2 DEF InOrder
<1>4. CASE Examine
  <2>1. Same /\ pc' = "populate"
    BY <1>4 DEF Examine, OrderInv, InOrder
  <2>2. AlongTheBlocks'
    BY <1>4, <2>1, OrderExamine
  <2>3. QED
    BY <2>1, <2>2 DEF InOrder
<1>5. CASE NextBlock
  <2>1. Same /\ pc' = "populate"
    BY <1>5 DEF NextBlock, OrderInv, InOrder
  <2>2. AlongTheBlocks'
    BY <1>5, <2>1, OrderNextBlock
  <2>3. QED
    BY <2>1, <2>2 DEF InOrder
<1>6. CASE StartMoves
  <2>1. Same /\ pc' = "move"
    BY <1>6 DEF StartMoves, OrderInv, InOrder
  <2>2. AlongTheMoves'
    BY <1>6, <2>1, OrderStartMoves
  <2>3. QED
    BY <2>1, <2>2 DEF InOrder
<1>7. CASE MoveInvariant
  <2>1. UNCHANGED fn /\ runs = 1 /\ Simple(fn) /\ InOrder /\ pc' = "move"
    BY <1>7 DEF MoveInvariant, OrderInv
  <2>2. InSSAForm(fn, placed)' /\ AlongTheMoves'
    BY <1>7, <2>1, OrderMove
  <2>3. QED
    BY <2>1, <2>2 DEF InOrder
<1>8. CASE LoopDone
  <2>1. Same /\ pc' = "loop"
    BY <1>8 DEF LoopDone, OrderInv, InOrder
  <2>2. BetweenLoops'
    BY <1>8, <2>1, OrderLoopDone
  <2>3. QED
    BY <2>1, <2>2 DEF InOrder
<1>9. CASE FunctionDone
  <2>1. Same /\ pc' = "idle" /\ pc = "loop" /\ turn > Len(fn.loops)
    BY <1>9 DEF FunctionDone, OrderInv, InOrder
  <2>2. turn \in Nat /\ Len(fn.loops) \in Nat
    BY <2>1, FunctionFacts DEF TInv, TypeOK
  <2>3. \A k \in 1 .. Len(fn.loops) : k \in 1 .. turn - 1
    BY <2>1, <2>2
  <2>4. \A k \in 1 .. Len(fn.loops) : DoneWith(k)
    BY <2>1, <2>3 DEF InOrder, BetweenLoops
  <2>5. \A k : DoneWith(k)' = DoneWith(k)
    BY <2>1 DEF DoneWith, InLoop
  <2>6. QED
    BY <2>1, <2>4, <2>5 DEF InOrder
<1>10. CASE UNCHANGED vars
  <2>1. /\ UNCHANGED fn /\ UNCHANGED runs /\ UNCHANGED turn /\ UNCHANGED placed
        /\ UNCHANGED loopInvariantInstructions /\ UNCHANGED bitr /\ UNCHANGED itr
        /\ UNCHANGED moved /\ UNCHANGED pc
    BY <1>10 DEF vars
  <2>2. /\ MemberInOrder' = MemberInOrder /\ Member' = Member /\ L' = L
        /\ OriginallyIn(fn, L)' = OriginallyIn(fn, L)
        /\ \A i : LeftOut(i)' = LeftOut(i)
        /\ \A k : DoneWith(k)' = DoneWith(k)
        /\ \A n, k : Examined(n, k)' = Examined(n, k)
        /\ Earlier(moved + 1)' = Earlier(moved + 1)
    BY <2>1 DEF MemberInOrder, Member, OriginallyIn, LeftOut, Earlier, DoneWith, InLoop,
                Examined, L
  <2>3. BetweenLoops' = BetweenLoops
    BY <2>1, <2>2 DEF BetweenLoops
  <2>4. AlongTheBlocks' = AlongTheBlocks
    BY <2>1, <2>2 DEF AlongTheBlocks
  <2>5. AlongTheMoves' = AlongTheMoves
    BY <2>1, <2>2 DEF AlongTheMoves
  <2>6. InOrder
    BY <2>1 DEF OrderInv
  <2>7. QED
    BY <2>1, <2>2, <2>3, <2>4, <2>5, <2>6 DEF InOrder
<1>11. QED
  BY <1>1, <1>2, <1>3, <1>4, <1>5, <1>6, <1>7, <1>8, <1>9, <1>10,
     UpcomingFunctions DEF Next, RunOnLoop

LEMMA OrderInductive == Spec => []OrderInv
BY OrderInit, OrderNext, TInductive, OnceInductive, PTL DEF Spec

-----------------------------------------------------------------------------
(***************************************************************************)
(* On the first function of the object, when it is a simple one, every     *)
(* definition dominates its uses after each moveBefore: populate... leaves *)
(* the vector in topological order (licm.cpp:75-76, 140-143).              *)
(***************************************************************************)
THEOREM FormIsKept ==
  Spec => [](runs <= 1 /\ (runs = 1 => Simple(fn)) => DefinitionsDominateUses)
<1>1. TInv /\ OrderInv =>
        (runs <= 1 /\ (runs = 1 => Simple(fn)) => DefinitionsDominateUses)
  <2>1. SUFFICES ASSUME TInv, OrderInv, runs <= 1, runs > 0, runs = 1 => Simple(fn)
                 PROVE  InSSAForm(fn, placed)
    BY DEF DefinitionsDominateUses
  <2>2. runs = 1
    BY <2>1 DEF TInv, TypeOK
  <2>3. QED
    BY <2>1, <2>2 DEF OrderInv, InOrder
<1>2. QED
  BY <1>1, TInductive, OrderInductive, PTL

(***************************************************************************)
(* On such a function one pass over the blocks in reverse post-order finds *)
(* every invariant computation (licm.cpp:74-90).                           *)
(***************************************************************************)
THEOREM OnePassSuffices ==
  Spec => [](runs <= 1 /\ (runs = 1 => Simple(fn)) => NothingInvariantIsLeft)
<1>1. TInv /\ OrderInv =>
        (runs <= 1 /\ (runs = 1 => Simple(fn)) => NothingInvariantIsLeft)
  <2>1. SUFFICES ASSUME TInv, OrderInv, runs <= 1, runs > 0, runs = 1 => Simple(fn),
                        pc = "idle"
                 PROVE  \A k \in DOMAIN fn.loops : DoneWith(k)
    BY DEF NothingInvariantIsLeft, Finished, DoneWith
  <2>2. runs = 1 /\ fn \in Functions
    BY <2>1 DEF TInv, TypeOK
  <2>3. QED
    BY <2>1, <2>2, FunctionFacts DEF OrderInv, InOrder
<1>2. QED
  BY <1>1, TInductive, OrderInductive, PTL
=============================================================================
