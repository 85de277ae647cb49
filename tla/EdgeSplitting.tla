---------------------------- MODULE EdgeSplitting ----------------------------
(***************************************************************************)
(* What PRE does to the control-flow graph before it looks at the code.    *)
(***************************************************************************)
EXTENDS PostOrder

Joins(f) == {b \in Blocks(f) : Cardinality(Predecessors(f, b)) >= 2}

(***************************************************************************)
(* PRE::Preprocess: every edge into a join is split, by a new block that   *)
(* holds a branch and nothing else.  SplitEdge gives it to an edge that is *)
(* not critical too, by cutting its source before the terminator.          *)
(***************************************************************************)
Preprocess(f) ==
  LET toSplit == SetToSeq({e \in Blocks(f) \X Joins(f) : e[2] \in Successors(f, e[1])})
      newBlock(p, b) == f.n + CHOOSE k \in DOMAIN toSplit : toSplit[k] = <<p, b>>
      target(p, b) == IF b \in Joins(f) THEN newBlock(p, b) ELSE b
  IN  FunctionOf(f.n + Len(toSplit),
                 [p \in 1 .. f.n + Len(toSplit) |->
                    IF p > f.n THEN <<toSplit[p - f.n][2]>>
                    ELSE [i \in DOMAIN f.succs[p] |-> target(p, f.succs[p][i])]],
                 f.ret)
=============================================================================
