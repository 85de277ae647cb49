---- MODULE MCLICM ----
(***************************************************************************)
(* Instances of the loop passes for TLC.                                   *)
(***************************************************************************)
EXTENDS LoopPasses

WithLoops(f, insts, ops, incoming, kinds, loops) ==
  [n |-> f.n, succs |-> f.succs, ret |-> f.ret, po |-> f.po,
   insts |-> insts, ops |-> ops, incoming |-> incoming,
   phis |-> kinds.phis, binops |-> kinds.binops, safe |-> kinds.safe, loops |-> loops]

\* What SSA form lets the k-th instruction of block b use.
Usable(f, insts, b, k) ==
  UNION {ToSet(insts[d]) : d \in Dominators(f, b) \ {b}} \cup
  {insts[b][j] : j \in 1 .. k - 1}

UsePairs(f, insts, users) ==
  UNION {{<<insts[b][k], j>> : j \in Usable(f, insts, b, k)} :
           <<b, k>> \in {p \in Blocks(f) \X (1 .. 3) :
                           p[2] <= Len(insts[p[1]]) /\ insts[p[1]][p[2]] \in users}}

(***************************************************************************)
(* The functions with the given blocks and loops: every choice of the      *)
(* operands of the instructions in `users`, of what the phi node p gets    *)
(* from the latch (a value from outside, or of the loop's first or last    *)
(* instructions), and of the BinaryOperators that are safe.                *)
(***************************************************************************)
CodesOf(f, insts, users, latch, kinds, loops) ==
  LET is == UNION {ToSet(insts[b]) : b \in Blocks(f)}
      atLatch == UNION {ToSet(insts[d]) : d \in Dominators(f, latch)}
  IN  {WithLoops(f, insts,
         [i \in is |-> IF i = "p" THEN {v} ELSE {j \in is : <<i, j>> \in uses}],
         [i \in {"p"} |-> {<<latch, v>>}],
         [phis |-> {"p"}, binops |-> kinds.binops, safe |-> kinds.binops \ unsafe],
         loops) :
           uses \in SUBSET UsePairs(f, insts, users),
           v \in atLatch \ {"p", "y"},
           unsafe \in SUBSET kinds.divisions}

\* entry, preheader, header, body that is the latch, exit.
While == FunctionOf(5, <<<<2>>, <<3>>, <<4, 5>>, <<3>>, << >>>>, {5})
WhileLoop == <<[blocks |-> <<3, 4>>, preheader |-> 2]>>

\* The same, the body branching around one block before the latch.
Branching ==
  FunctionOf(6, <<<<2>>, <<3, 6>>, <<4, 5>>, <<5>>, <<2, 6>>, << >>>>, {6})
BranchingLoop == <<[blocks |-> <<2, 3, 4, 5>>, preheader |-> 1]>>

\* entry, outer header, inner preheader, inner header that is its own latch,
\* outer latch, exit; p is the outer loop's phi node.
Nest == FunctionOf(6, <<<<2>>, <<3>>, <<4>>, <<4, 5>>, <<2, 6>>, << >>>>, {6})

OneLoop ==
  CodesOf(While, << << >>, <<"a">>, <<"p", "x">>, <<"y", "z">>, <<"r">> >>,
          {"x", "y", "z"}, 4,
          [binops |-> {"x", "y", "z"}, divisions |-> {"x", "y"}], WhileLoop)
  \cup
  CodesOf(Branching, << <<"a">>, <<"p">>, <<"x">>, <<"y">>, <<"z">>, <<"r">> >>,
          {"x", "y", "z"}, 5,
          [binops |-> {"x", "y", "z"}, divisions |-> {"y"}], BranchingLoop)
  \cup
  CodesOf(While, << << >>, <<"a">>, <<"p">>, <<"y">>, << >> >>,
          {"y"}, 4,
          [binops |-> {"a", "y"}, divisions |-> {}], <<[blocks |-> <<3, 4>>, preheader |-> 0]>>)

\* Functions the same object is run on before or after: a loop, or two nested
\* ones, of instructions of their own, some with nothing to hoist.
Others ==
  LET Kinds(f, insts, us, vs, loops) ==
        WithLoops(f, insts,
          [i \in {"b", "q", "u", "v"} |->
             CASE i = "u" -> us [] i = "v" -> vs [] i = "q" -> {"v"} [] OTHER -> {}],
          [i \in {"q"} |-> {<<CHOOSE b \in Blocks(f) : "v" \in ToSet(insts[b]), "v">>}],
          [phis |-> {"q"}, binops |-> {"u", "v"}, safe |-> {"u", "v"}], loops)
  IN  {Kinds(While, << << >>, <<"b">>, <<"q", "u">>, <<"v">>, << >> >>, us, vs, WhileLoop) :
         us \in SUBSET {"b", "q"}, vs \in SUBSET {"q", "u"}}
      \cup
      {Kinds(Nest, << <<"b">>, <<"q">>, << >>, <<"u">>, <<"v">>, << >> >>, us, vs,
             <<[blocks |-> <<4>>, preheader |-> 3], [blocks |-> <<2, 3, 4, 5>>, preheader |-> 1]>>) :
         us \in SUBSET {"b"}, vs \in SUBSET {"q", "u"}}

InTurn == OneLoop \cup Others

\* The loop body computes x by an instruction that is no BinaryOperator.
LoadInLoop ==
  CodesOf(While, << << >>, <<"a">>, <<"p", "x">>, <<"y">>, << >> >>,
          {"y"}, 4, [binops |-> {"y"}, divisions |-> {}], WhileLoop)

Nested ==
  CodesOf(Nest, << <<"a">>, <<"p">>, << >>, <<"y">>, <<"z">>, << >> >>,
          {"y"}, 5, [binops |-> {"y", "z"}, divisions |-> {}],
          <<[blocks |-> <<4>>, preheader |-> 3], [blocks |-> <<2, 3, 4, 5>>, preheader |-> 1]>>)

-----------------------------------------------------------------------------
\* Functions for both passes.
Arg(k) == <<"a", 0, k>>
Ins(b, k) == <<"i", b, k>>

\* A function: for each block the operands of its instructions, a phi node's
\* as <<"phi", value, block, value, block>>.
Program(n, succs, text, cond, loops) ==
  LET is == {Ins(b, k) : <<b, k>> \in {p \in (1 .. n) \X (1 .. 4) : p[2] <= Len(text[p[1]])}}
      Text(v) == text[v[2]][v[3]]
      phis == {v \in is : Text(v)[1] = "phi"}
  IN  [n |-> n, succs |-> succs,
       code |-> [b \in 1 .. n |-> [k \in DOMAIN text[b] |-> Ins(b, k)]],
       operands |-> [v \in is \ phis |-> Text(v)],
       incoming |-> [v \in phis |-> <<<<Text(v)[2], Text(v)[3]>>,
                                      <<Text(v)[4], Text(v)[5]>>>>],
       pure |-> {v \in is : Text(v)[1] \in Arithmetic \cup {"icmp"}},
       args |-> {Arg(1), Arg(2)}, cond |-> cond, loops |-> loops]

\* entry, header, body, exit.  The header loads what decides the branch, at an
\* address computed from z; the phi node p goes through the body, and ends with
\* the value `next`.
MemoryLoop(x, y, next, op, z) ==
  Program(4, <<<<2>>, <<3, 4>>, <<2>>, << >>>>,
    << <<<<"+", Arg(1), Arg(2)>>>>,
       <<<<"phi", Ins(1, 1), 1, next, 3>>, <<"*", z, Ins(1, 1)>>, <<"load", Ins(2, 2)>>>>,
       <<<<op, x, Arg(2)>>, <<"*", y, Ins(3, 1)>>, <<"call", Ins(2, 1), Ins(3, 2)>>>>,
       <<<<"call", Ins(1, 1), Arg(1)>>>> >>,
    [b \in {2} |-> Ins(2, 3)],
    <<[header |-> 2, blocks |-> {2, 3}, parents |-> {}]>>)

\* Two loops, one in the other; the inner one's code uses arguments only.
MemoryNest ==
  Program(7, <<<<2>>, <<3, 7>>, <<4>>, <<5, 6>>, <<4>>, <<2>>, << >>>>,
    << << >>,
       <<<<"phi", Arg(1), 1, Ins(6, 1), 6>>, <<"load", Arg(1)>>>>,
       << >>,
       <<<<"phi", Ins(2, 1), 3, Ins(5, 1), 5>>, <<"load", Arg(2)>>>>,
       <<<<"*", Arg(1), Arg(2)>>, <<"call", Ins(4, 1), Ins(5, 1)>>>>,
       <<<<"+", Arg(1), Ins(2, 1)>>, <<"call", Ins(6, 1)>>>>,
       <<<<"call", Arg(1)>>>> >>,
    [b \in {2} |-> Ins(2, 2)] @@ [b \in {4} |-> Ins(4, 2)],
    <<[header |-> 4, blocks |-> {4, 5}, parents |-> {2}],
      [header |-> 2, blocks |-> {2, 3, 4, 5, 6}, parents |-> {}]>>)

\* Loops of other forms: a header that is its own latch, two latches, a header
\* that does not branch, and no preheader.
OtherForms ==
  LET Code(b) == IF b = 2 THEN <<<<"load", Arg(1)>>>> ELSE <<<<"load", Arg(2)>>>>
      Loop(succs, cond, blocks) ==
        Program(5, succs, [b \in 1 .. 5 |-> Code(b)], [b \in cond |-> Ins(b, 1)],
                <<[header |-> 2, blocks |-> blocks, parents |-> {}]>>)
  IN  {Loop(<<<<2>>, <<2, 3>>, <<4>>, <<5>>, << >>>>, {2}, {2}),
       Loop(<<<<2>>, <<3, 5>>, <<2, 4>>, <<2>>, << >>>>, {2, 3}, {2, 3, 4}),
       Loop(<<<<2>>, <<3>>, <<4, 5>>, <<2>>, << >>>>, {3}, {2, 3, 4}),
       Loop(<<<<2, 4>>, <<3, 5>>, <<2>>, <<5>>, << >>>>, {1, 2}, {2, 3})}

\* The address comes from outside, or from a phi node that keeps its value.
MemoryLoops ==
  LET xs == {Arg(1), Ins(1, 1), Ins(2, 1)}
      ys == xs \cup {Ins(3, 1)}
  IN  {MemoryNest} \cup OtherForms \cup
      {MemoryLoop(x, y, next, op, Arg(1)) :
         x \in xs, y \in ys, next \in {Arg(1), Ins(1, 1), Ins(3, 1), Ins(3, 2)}, op \in {"+", "/"}}
      \cup
      {MemoryLoop(x, y, Ins(2, 1), "+", Ins(2, 1)) : x \in xs, y \in ys}

\* Which of the first effects return true.
Answers == {{<<"effect", k, 0>> : k \in S} : S \in SUBSET (1 .. 6)}

\* for (p = a1; p < a2; p += a2) call(p); the condition holds once.
CountingLoop ==
  {Program(4, <<<<2>>, <<3, 4>>, <<2>>, << >>>>,
     << << >>,
        <<<<"phi", Arg(1), 1, Ins(3, 2), 3>>, <<"icmp", Ins(2, 1), Arg(2)>>>>,
        <<<<"call", Ins(2, 1)>>, <<"+", Ins(2, 1), Arg(2)>>>>,
        <<<<"call", Ins(2, 1)>>>> >>,
     [b \in {2} |-> Ins(2, 2)],
     <<[header |-> 2, blocks |-> {2, 3}, parents |-> {}]>>)}

Once == {{<<"icmp", Arg(1), Arg(2)>>}}

NoFunctions == {}

-----------------------------------------------------------------------------
Rotation == INSTANCE LandingPadProofs

\* The hypothesis of the theorems about the landing pad.
ASSUME MemoryLoopsAreWhileLoops ==
  \A f \in MemoryLoops \ OtherForms : Rotation!WhileLoops(f)
====
