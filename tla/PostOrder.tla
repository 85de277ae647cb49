----------------------------- MODULE PostOrder -----------------------------
(***************************************************************************)
(* LLVM's po_iterator and small sets of control-flow graphs, for the model *)
(* modules.  po_iterator is library code: depth first from the entry, the  *)
(* successors of a block tried in terminator order, a block yielded when   *)
(* all its successors have been entered.                                   *)
(***************************************************************************)
EXTENDS CFG, SequencesExt

PostOrderOf(n, succs) ==
  LET \* the blocks finished, in order, once b is entered with `seen` entered before
      Finish[b \in 1 .. n, seen \in SUBSET (1 .. n)] ==
        LET Try(acc, s) ==
              LET known == seen \cup {b} \cup ToSet(acc)
              IN  IF s \in known THEN acc ELSE acc \o Finish[s, known]
        IN  Append(FoldLeft(Try, << >>, succs[b]), b)
  IN  Finish[Entry, {}]

FunctionOf(n, succs, ret) ==
  [n |-> n, succs |-> succs, ret |-> ret, po |-> PostOrderOf(n, succs)]

\* Terminators with at most two distinct targets; a branch to the entry is illegal.
Terminators(n) == {s \in BoundedSeq(2 .. n, 2) : IsInjective(s)}

SuccessorMaps(n) == [1 .. n -> Terminators(n)]

Leaves(n, succs) == {b \in 1 .. n : succs[b] = << >>}

\* Every function of n blocks in which a block without successors returns.
FunctionsOfSize(n) ==
  {FunctionOf(n, succs, Leaves(n, succs)) : succs \in SuccessorMaps(n)}

AllReachable(f) == Visited(f) = Blocks(f)
=============================================================================
