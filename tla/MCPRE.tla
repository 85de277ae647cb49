---- MODULE MCPRE ----
(***************************************************************************)
(* Instances of partial redundancy elimination for TLC.                    *)
(***************************************************************************)
EXTENDS PRE

Arg(k) == <<"a", 0, k>>
Cond(b) == <<"c", b, 0>>
Ins(b, k) == <<"i", b, k>>

(***************************************************************************)
(* A function: for each block the operands of its instructions.  An        *)
(* opcode of arithmetic makes a BinaryOperator; branches are decided by    *)
(* the arguments Cond(b).                                                  *)
(***************************************************************************)
Arithmetic == {"+", "*"}

Program(f, text) ==
  LET is == {Ins(b, k) : <<b, k>> \in {p \in Blocks(f) \X (1 .. 4) : p[2] <= Len(text[p[1]])}}
      operandsOf == [v \in is |-> text[v[2]][v[3]]]
  IN  [n |-> f.n, succs |-> f.succs, ret |-> f.ret, po |-> f.po,
       code |-> [b \in Blocks(f) |-> [k \in DOMAIN text[b] |-> Ins(b, k)]],
       operands |-> operandsOf,
       binops |-> {v \in is : operandsOf[v][1] \in Arithmetic},
       args |-> {Arg(1), Arg(2)} \cup {Cond(b) : b \in Blocks(f)},
       cond |-> [b \in {x \in Blocks(f) : Len(f.succs[x]) = 2} |-> Cond(b)]]

\* Evaluated, and used at once.
Eval(b, k, exp) == <<exp, <<"use", Ins(b, k)>>>>

\* One expression in the blocks of S, on an operand defined in block d by an
\* instruction with opcode op, before it is evaluated there; d = 0: on an
\* argument.
OneExpression(f, S, d, op) ==
  LET defining == IF op = "load" THEN <<op, Arg(1)>> ELSE <<op, Arg(1), Arg(1)>>
      operand == IF d = 0 THEN Arg(1) ELSE Ins(d, 1)
      Text(b) == (IF b = d THEN <<defining>> ELSE << >>) \o
                 (IF b \in S THEN Eval(b, IF b = d THEN 2 ELSE 1, <<"+", operand, Arg(2)>>) ELSE << >>)
  IN  Program(f, [b \in Blocks(f) |-> Text(b)])

\* Functions without loops, their blocks numbered along the edges.
Forward(n) ==
  {f \in {FunctionOf(n, succs, Leaves(n, succs)) :
            succs \in [1 .. n -> {s \in Terminators(n) : Len(s) = 2 => s[1] < s[2]}]} :
     AllReachable(f) /\ \A b \in Blocks(f) : \A s \in Successors(f, b) : s > b}

ArgumentsOnly(fs) == UNION {{OneExpression(f, S, 0, "load") : S \in SUBSET Blocks(f) \ {{}}} : f \in fs}

OperandDefined(fs) ==
  UNION {{OneExpression(f, S, d, op) :
            op \in {"load", "*"}, S \in SUBSET {b \in Blocks(f) : Dominates(f, d, b)} \ {{}}} :
          <<f, d>> \in fs \X {1, 2}}

\* Functions with a loop, in which some path returns.
Loops == {f \in FunctionsOfSize(3) : AllReachable(f) /\ f.ret # {} /\ ~Acyclic(f)}

\* Two occurrences of an expression in one block, then the other, whose operand
\* is the first; again after a diamond.
Chained ==
  LET f == FunctionOf(4, <<<<2, 3>>, <<4>>, <<4>>, << >>>>, {4})
      twice(b) == <<<<"+", Arg(1), Arg(2)>>, <<"+", Arg(1), Arg(2)>>,
                    <<"*", Ins(b, 1), Arg(2)>>, <<"use", Ins(b, 3), Ins(b, 2)>>>>
  IN  {Program(f, [b \in Blocks(f) |-> IF b \in S THEN twice(b) ELSE << >>]) :
         S \in SUBSET Blocks(f)}

\* Both branches of a loop-free function evaluate the expression twice on one
\* path, but the second branch does not know whether the first was taken.
Again ==
  LET f == FunctionOf(8, <<<<2, 3>>, <<4>>, <<5>>, <<5>>, <<6, 7>>, <<8>>, << >>, << >>>>, {7, 8})
  IN  {OneExpression(f, {2, 4, 6, 8}, 0, "load")}

Small == ArgumentsOnly({f \in Forward(5) : Cardinality(Joins(f)) = 2})
         \cup OperandDefined(Forward(4) \cup Loops) \cup Chained \cup ArgumentsOnly(Loops) \cup Again

InLoop == ArgumentsOnly(Loops)
====
