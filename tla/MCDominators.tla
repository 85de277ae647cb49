---- MODULE MCDominators ----
(***************************************************************************)
(* Instances of the Dominators pass for TLC.                               *)
(***************************************************************************)
EXTENDS DominatorsProofs, PostOrder

WithNames(f, name) ==
  [n |-> f.n, succs |-> f.succs, ret |-> f.ret, po |-> f.po, name |-> name]

\* Names in the order of the blocks, and in reverse.
Forth == <<"a", "b", "c", "d", "e", "f", "g", "h", "i">>
Named(f) == WithNames(f, [b \in Blocks(f) |-> Forth[b]])
NamedInReverse(f) == WithNames(f, [b \in Blocks(f) |-> Forth[f.n + 1 - b]])

\* Every function of two and three blocks, those of three in both namings, and
\* those of four blocks whose entry goes to block 2 or to 2 and 3 and whose
\* other terminators name their targets in ascending order.
Ascending(succs) ==
  \A b \in DOMAIN succs : Len(succs[b]) = 2 => succs[b][1] < succs[b][2]

FourBlocks ==
  {FunctionOf(4, succs, Leaves(4, succs)) :
     succs \in {s \in SuccessorMaps(4) : Ascending(s) /\ s[1] \in {<<2>>, <<2, 3>>}}}

SmallFunctions ==
  {Named(f) : f \in FunctionsOfSize(2) \cup FunctionsOfSize(3) \cup FourBlocks} \cup
  {NamedInReverse(f) : f \in FunctionsOfSize(3)}

\* The entry branches to both ends of a chain of seven blocks, each of which
\* branches to its neighbours in the chain; the far end also returns.
Ladder ==
  LET succs == <<<<2, 8>>, <<3>>, <<4, 2>>, <<5, 3>>, <<6, 4>>, <<7, 5>>, <<8, 6>>,
                 <<7, 9>>, << >>>>
  IN  {Named(FunctionOf(9, succs, {9}))}
====
