---- MODULE MCDeadCodeElimination ----
(***************************************************************************)
(* Instances of the DeadCodeElimination pass for TLC.                      *)
(***************************************************************************)
EXTENDS DeadCodeElimination, PostOrder

WithCode(f, insts, ops, phis, live) ==
  [n |-> f.n, succs |-> f.succs, ret |-> f.ret, po |-> f.po,
   insts |-> insts, ops |-> ops, phis |-> phis, live |-> live]

\* What SSA form lets the k-th instruction of block b use: what comes earlier
\* in the block or in a block that dominates it; a phi node may use what is
\* defined at the end of a predecessor.
DefinedAtEnd(f, insts, b) == UNION {ToSet(insts[d]) : d \in Dominators(f, b)}

Usable(f, insts, phis, b, k) ==
  IF insts[b][k] \in phis
    THEN UNION {DefinedAtEnd(f, insts, p) : p \in Predecessors(f, b)}
    ELSE DefinedAtEnd(f, insts, b) \ {insts[b][j] : j \in k .. Len(insts[b])}

UsePairs(f, insts, phis) ==
  UNION {{<<insts[b][k], j>> : j \in Usable(f, insts, phis, b, k)} :
           <<b, k>> \in {p \in Blocks(f) \X (1 .. 2) : p[2] <= Len(insts[p[1]])}}

\* Every choice of operands and of live instructions, given the rest.  A phi
\* node has no effects.
CodesOf(f, insts, phis) ==
  LET is == UNION {ToSet(insts[b]) : b \in Blocks(f)}
  IN  {WithCode(f, insts, [i \in is |-> {j \in is : <<i, j>> \in uses}], phis, live) :
         uses \in SUBSET UsePairs(f, insts, phis), live \in SUBSET (is \ phis)}

Chain == FunctionOf(2, <<<<2>>, << >>>>, {2})

\* A loop: entry, a header that is its own latch, exit.
Loop == FunctionOf(3, <<<<2>>, <<2, 3>>, << >>>>, {3})

\* Blocks laid out against the flow of control: 1 -> 3 -> 2.
BackwardsLayout == FunctionOf(3, <<<<3>>, << >>, <<2>>>>, {2})

SmallCodes ==
  CodesOf(Chain, << <<"u", "v">>, <<"w", "x">> >>, {}) \cup
  CodesOf(Loop, << <<"u">>, <<"p", "x">>, <<"y">> >>, {"p"}) \cup
  CodesOf(BackwardsLayout, << <<"u">>, <<"w", "x">>, <<"v">> >>, {})

\* A function without effects and with instructions of its own, to be run before
\* or after another.
Companion ==
  {f \in CodesOf(Loop, << << >>, <<"q", "z">>, << >> >>, {"q"}) : f.live = {}}

\* A block no path leads to.
WithUnreachable ==
  CodesOf(FunctionOf(3, <<<<2>>, << >>, <<2>>>>, {2}), << <<"u">>, <<"v">>, << >> >>, {})

AllCodes == SmallCodes \cup Companion \cup WithUnreachable
====
