-------------------------------- MODULE CFG --------------------------------
(***************************************************************************)
(* The control-flow graph of one LLVM function, as the passes of this      *)
(* repository see it through predecessors(), successors(), po_iterator and *)
(* isa<ReturnInst>.  LLVM itself is external: only what the passes read is *)
(* kept.                                                                   *)
(*                                                                         *)
(* A function is a record                                                  *)
(*    n      the number of basic blocks; block k is the k-th block of F,   *)
(*           so block 1 is F.getEntryBlock()                               *)
(*    succs  block -> the sequence of its successors, in terminator order  *)
(*    ret    the blocks that hold a ReturnInst                             *)
(*    po     the blocks po_iterator yields from the entry, in its order    *)
(* and possibly further fields a particular pass reads.                    *)
(***************************************************************************)
EXTENDS Naturals, Sequences

Blocks(f) == 1 .. f.n

Entry == 1

Successors(f, b) == {f.succs[b][i] : i \in 1 .. Len(f.succs[b])}

Predecessors(f, b) == {p \in Blocks(f) : b \in Successors(f, p)}

\* The blocks the post-order traversal visits: unreachable blocks are not in it.
Visited(f) == {f.po[i] : i \in 1 .. Len(f.po)}

(***************************************************************************)
(* What the LLVM verifier and po_iterator guarantee about a function, as   *)
(* far as the proofs need it: the entry block has no predecessor, and the  *)
(* traversal meets each reachable block once, hence contains the entry, is *)
(* closed under successors and yields each other block before one that     *)
(* leads to it, the block it was entered from.                             *)
(***************************************************************************)
IsFunction(f) ==
  /\ f.n \in Nat \ {0}
  /\ f.succs \in [Blocks(f) -> Seq(Blocks(f))]
  /\ f.ret \subseteq Blocks(f)
  /\ f.po \in Seq(Blocks(f))
  /\ \A i, j \in 1 .. Len(f.po) : f.po[i] = f.po[j] => i = j
  /\ Predecessors(f, Entry) = {}
  /\ Entry \in Visited(f)
  /\ \A b \in Visited(f) : Successors(f, b) \subseteq Visited(f)
  /\ \A i \in 1 .. Len(f.po) :
       f.po[i] = Entry \/ \E j \in i + 1 .. Len(f.po) : f.po[i] \in Successors(f, f.po[j])

\* No path can come back to a block it has left.
Acyclic(f) ==
  \A i, j \in 1 .. Len(f.po) : f.po[j] \in Successors(f, f.po[i]) => j < i

(***************************************************************************)
(* Loop-connectedness at least d: some path that meets no block twice has  *)
(* d edges or more that run against reverse post-order.  The path is the   *)
(* sequence p of the positions its blocks have in the traversal, and r     *)
(* picks the d edges.                                                      *)
(***************************************************************************)
LoopConnected(f, d) ==
  \E k \in 1 .. Len(f.po) : \E p \in [1 .. k -> 1 .. Len(f.po)] :
    /\ \A i, j \in 1 .. k : p[i] = p[j] => i = j
    /\ \A i \in 1 .. k - 1 : f.po[p[i + 1]] \in Successors(f, f.po[p[i]])
    /\ \E r \in [1 .. d -> {i \in 1 .. k - 1 : p[i] <= p[i + 1]}] :
         \A x, y \in 1 .. d : r[x] = r[y] => x = y

-----------------------------------------------------------------------------
(***************************************************************************)
(* Reference definition of dominance, independent of any dataflow          *)
(* equation: d dominates b iff no path from the entry to b avoids d.  The  *)
(* witness is the set S of blocks that can be reached while avoiding d (or *)
(* any superset closed in the same way): b is not in it.                   *)
(***************************************************************************)
Avoids(f, d, S) ==
  /\ d \notin S
  /\ Entry \in S \cup {d}
  /\ \A x \in S : Successors(f, x) \subseteq S \cup {d}

Dominates(f, d, b) ==
  \E S \in SUBSET Blocks(f) : Avoids(f, d, S) /\ b \notin S

Dominators(f, b) == {d \in Blocks(f) : Dominates(f, d, b)}

(***************************************************************************)
(* m is the immediate dominator of b: it strictly dominates b, and every   *)
(* other strict dominator of b dominates m.                                *)
(***************************************************************************)
IsImmediateDominator(f, m, b) ==
  /\ m \in Dominators(f, b) \ {b}
  /\ Dominators(f, b) \ {b} \subseteq Dominators(f, m)
=============================================================================
