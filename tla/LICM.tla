-------------------------------- MODULE LICM --------------------------------
(***************************************************************************)
(* The loop-invariant-code-motion pass (LICM/src/licm.cpp): one LoopPass   *)
(* object that LLVM's loop pass manager runs on every loop of every        *)
(* function.                                                               *)
(*                                                                         *)
(* Functions carry more fields than CFG asks for:                          *)
(*    insts     block -> the sequence of its instructions, terminator left *)
(*              out                                                        *)
(*    ops       instruction -> the instructions it uses; for a phi node    *)
(*              the instructions that flow in                              *)
(*    incoming  phi node -> set of <<predecessor, instruction>>            *)
(*    phis      the phi nodes                                              *)
(*    binops    its instructions that are BinaryOperators                  *)
(*    safe      the binops that isSafeToSpeculativelyExecute holds of (it  *)
(*              holds of no phi node)                                      *)
(*    loops     the loops, in the order the pass manager runs them: inner  *)
(*              before outer.  A loop is a record [blocks, preheader]:     *)
(*              its blocks as a sequence in the order of LoopInfo, reverse *)
(*              post-order, and its preheader, 0 when it has none          *)
(***************************************************************************)
EXTENDS CFG, SequencesExt

CONSTANTS
  Functions,   \* the functions the pass manager may run the pass on
  Followers,   \* those of them that may come after another one
  MaxRuns      \* bound on the functions one pass object sees

VARIABLES
  fn,       \* the function of the current or the last run
  runs,     \* functions started
  turn,     \* the loop whose turn it is, counted in fn.loops
  placed,   \* block -> sequence of instructions, as the pass has left it
  loopInvariantInstructions,   \* the member, a sequence
  bitr,     \* populateLoopInvariantInstructions: the block of the loop,
  itr,      \* and the instruction in that block
  moved,    \* how many of the member's instructions the current loop has moved
  pc        \* "idle", "loop", "populate" or "move"

vars == <<fn, runs, turn, placed, loopInvariantInstructions, bitr, itr, moved, pc>>

Instructions(f) == UNION {ToSet(f.insts[b]) : b \in Blocks(f)}

(***************************************************************************)
(* What LoopInfo guarantees: its blocks, each of them once, can be reached *)
(* from the header, the first, each by an edge from one before it; control *)
(* enters a loop with a preheader only from there, through the header.     *)
(***************************************************************************)
IsLoop(f, loop) ==
  LET inside == ToSet(loop.blocks)
  IN  /\ loop.blocks \in Seq(Visited(f)) /\ loop.blocks # << >>
      /\ IsInjective(loop.blocks)
      /\ \A m \in 2 .. Len(loop.blocks) : \E j \in 1 .. m - 1 :
           loop.blocks[m] \in Successors(f, loop.blocks[j])
      /\ loop.preheader # 0 =>
           /\ loop.preheader \in Visited(f) \ inside
           /\ loop.blocks[1] \in Successors(f, loop.preheader)
           /\ \A p \in Visited(f) \ inside :
                p # loop.preheader => Successors(f, p) \cap inside = {}

\* Instruction i stands in block b of the code at position k.
Stands(code, i, b, k) == k \in DOMAIN code[b] /\ code[b][k] = i

DefinedBefore(f, code, op, b, k) ==
  \E d \in Blocks(f) : \E j \in DOMAIN code[d] :
    Stands(code, op, d, j) /\ IF d = b THEN j < k ELSE Dominates(f, d, b)

DefinedAtEndOf(f, code, op, b) ==
  \E d \in Blocks(f) : op \in ToSet(code[d]) /\ Dominates(f, d, b)

\* SSA form, for the instructions of the function: in blocks that can be reached,
\* definitions dominate uses, and what flows into a phi node is defined at the
\* end of the predecessor.
InSSAForm(f, code) ==
  \A b \in Visited(f) : \A k \in {j \in DOMAIN code[b] : code[b][j] \in Instructions(f)} :
    LET i == code[b][k] IN
      IF i \in f.phis
        THEN \A in \in f.incoming[i] : DefinedAtEndOf(f, code, in[2], in[1])
        ELSE \A op \in f.ops[i] : DefinedBefore(f, code, op, b, k)

\* The code holds the instructions in S, each at one place, and no others.
HoldsOnce(f, code, S) ==
  /\ UNION {ToSet(code[b]) : b \in Blocks(f)} = S
  /\ \A b, c \in Blocks(f) : \A j \in DOMAIN code[b], k \in DOMAIN code[c] :
       code[b][j] = code[c][k] => b = c /\ j = k

EachOnce(f, code) == HoldsOnce(f, code, Instructions(f))

ASSUME FunctionsAssumption ==
  \A f \in Functions :
    /\ IsFunction(f)
    /\ f.insts \in [Blocks(f) -> Seq(Instructions(f))]
    /\ EachOnce(f, f.insts) /\ InSSAForm(f, f.insts)
    /\ f.ops \in [Instructions(f) -> SUBSET Instructions(f)]
    /\ f.safe \subseteq f.binops /\ f.phis \cap f.binops = {}
    /\ f.loops \in Seq({f.loops[k] : k \in DOMAIN f.loops})
    /\ \A k \in DOMAIN f.loops : IsLoop(f, f.loops[k])

ASSUME BoundsAssumption == MaxRuns \in Nat \ {0} /\ Followers \subseteq Functions

-----------------------------------------------------------------------------
L == fn.loops[turn]

\* The instructions that stand in the loop.
InLoop(loop) == UNION {ToSet(placed[b]) : b \in ToSet(loop.blocks)}

\* getLoopInstructions leaves out whatever is neither a BinaryOperator nor a
\* phi node.
LoopInstructions(loop) == InLoop(loop) \cap (fn.binops \cup fn.phis)

\* Slip: the precondition is not tested.
IsInvariantUnsafe(i, loopInstructions) ==
  /\ i \in fn.binops
  /\ \A op \in fn.ops[i] : op \in loopInstructions => op \in ToSet(loopInvariantInstructions)

\* Slip: the operands are not looked at.
IsInvariantSafeOnly(i, loopInstructions) == i \in fn.safe

\* Slip: no third condition.
IsInvariantFromOutside(i, loopInstructions) ==
  i \in fn.safe /\ fn.ops[i] \cap loopInstructions = {}

\* isInvariant: an operand counts as defined outside the loop when it is not in
\* loopInstructions.
IsInvariant(i, loopInstructions) ==
  /\ i \in fn.safe
  /\ \A op \in fn.ops[i] : op \in loopInstructions => op \in ToSet(loopInvariantInstructions)

\* Hoisted in the functions the object has been run on before.
Strangers == ToSet(loopInvariantInstructions) \ Instructions(fn)

\* Slip: the instruction is inserted but not removed.
MoveToEndCopying(i, block) == [placed EXCEPT ![block] = Append(@, i)]

\* inv->moveBefore(preHeader->getTerminator())
MoveToEnd(i, block) ==
  LET without == [b \in DOMAIN placed |-> RemoveFirst(placed[b], i)]
  IN  [without EXCEPT ![block] = Append(@, i)]

-----------------------------------------------------------------------------
Init ==
  /\ fn = << >> /\ runs = 0
  /\ turn = 1 /\ placed = << >>
  /\ loopInvariantInstructions = << >>
  /\ bitr = 1 /\ itr = 1 /\ moved = 0
  /\ pc = "idle"

\* The pass manager turns to a function it has not had before.
StartFunction(f) ==
  /\ pc = "idle"
  /\ runs < MaxRuns
  /\ Instructions(f) \cap ToSet(loopInvariantInstructions) = {}
  /\ fn' = f /\ runs' = runs + 1
  /\ turn' = 1 /\ placed' = f.insts
  /\ pc' = "loop"
  /\ UNCHANGED <<loopInvariantInstructions, bitr, itr, moved>>

\* runOnLoop for a loop without a preheader.
SkipLoop ==
  /\ pc = "loop"
  /\ turn <= Len(fn.loops)
  /\ L.preheader = 0
  /\ turn' = turn + 1
  /\ UNCHANGED <<fn, runs, placed, loopInvariantInstructions, bitr, itr, moved, pc>>

\* runOnLoop calls populateLoopInvariantInstructions.  The member is not
\* cleared.
StartLoop ==
  /\ pc = "loop"
  /\ turn <= Len(fn.loops)
  /\ L.preheader # 0
  /\ bitr' = 1 /\ itr' = 1
  /\ pc' = "populate"
  /\ UNCHANGED <<fn, runs, turn, placed, loopInvariantInstructions, moved>>

\* The next instruction of the loop is appended if it is invariant.  One that
\* an inner loop has taken in from another function always is: what it uses of
\* that function is not in this loop, or has been taken in with it.
Examine ==
  /\ pc = "populate"
  /\ bitr <= Len(L.blocks)
  /\ itr <= Len(placed[L.blocks[bitr]])
  /\ LET I == placed[L.blocks[bitr]][itr]
     IN  loopInvariantInstructions' =
           IF \/ I \in fn.binops \cup fn.phis /\ IsInvariant(I, LoopInstructions(L))
              \/ I \in Strangers
             THEN Append(loopInvariantInstructions, I) ELSE loopInvariantInstructions
  /\ itr' = itr + 1
  /\ UNCHANGED <<fn, runs, turn, placed, bitr, moved, pc>>

NextBlock ==
  /\ pc = "populate"
  /\ bitr <= Len(L.blocks)
  /\ itr > Len(placed[L.blocks[bitr]])
  /\ bitr' = bitr + 1 /\ itr' = 1
  /\ UNCHANGED <<fn, runs, turn, placed, loopInvariantInstructions, moved, pc>>

\* Slip: only what was found in this function is moved.
StartMovesOfOwn ==
  /\ pc = "populate"
  /\ bitr > Len(L.blocks)
  /\ moved' = Len(SelectSeq(loopInvariantInstructions, LAMBDA i : i \in Strangers))
  /\ pc' = "move"
  /\ UNCHANGED <<fn, runs, turn, placed, loopInvariantInstructions, bitr, itr>>

\* The loop that moves begins.
StartMoves ==
  /\ pc = "populate"
  /\ bitr > Len(L.blocks)
  /\ moved' = 0
  /\ pc' = "move"
  /\ UNCHANGED <<fn, runs, turn, placed, loopInvariantInstructions, bitr, itr>>

\* Slip: the iterator is not advanced.
MoveInvariantAgain ==
  /\ pc = "move"
  /\ moved < Len(loopInvariantInstructions)
  /\ placed' = MoveToEnd(loopInvariantInstructions[moved + 1], L.preheader)
  /\ UNCHANGED <<fn, runs, turn, loopInvariantInstructions, bitr, itr, moved, pc>>

\* Every instruction in the member is moved, whichever loop put it there.
MoveInvariant ==
  /\ pc = "move"
  /\ moved < Len(loopInvariantInstructions)
  /\ moved' = moved + 1
  /\ placed' = MoveToEnd(loopInvariantInstructions[moved + 1], L.preheader)
  /\ UNCHANGED <<fn, runs, turn, loopInvariantInstructions, bitr, itr, pc>>

\* runOnLoop returns.
LoopDone ==
  /\ pc = "move"
  /\ moved = Len(loopInvariantInstructions)
  /\ turn' = turn + 1
  /\ pc' = "loop"
  /\ UNCHANGED <<fn, runs, placed, loopInvariantInstructions, bitr, itr, moved>>

FunctionDone ==
  /\ pc = "loop"
  /\ turn > Len(fn.loops)
  /\ pc' = "idle"
  /\ UNCHANGED <<fn, runs, turn, placed, loopInvariantInstructions, bitr, itr, moved>>

RunOnLoop ==
  \/ SkipLoop \/ StartLoop \/ Examine \/ NextBlock \/ StartMoves
  \/ MoveInvariant \/ LoopDone \/ FunctionDone

Upcoming == IF runs = 0 THEN Functions ELSE Followers

Next == RunOnLoop \/ \E f \in Upcoming : StartFunction(f)

Spec == Init /\ [][Next]_vars

FairSpec == Spec /\ WF_vars(RunOnLoop)

-----------------------------------------------------------------------------
Finished == runs > 0 /\ pc = "idle"

(***************************************************************************)
(* Types; the member holds nothing of the function that may not be         *)
(* executed speculatively, and the iterators stay in the loop.             *)
(***************************************************************************)
TypeOK ==
  /\ pc \in {"idle", "loop", "populate", "move"}
  /\ runs \in 0 .. MaxRuns
  /\ moved \in 0 .. Len(loopInvariantInstructions)
  /\ pc # "idle" => runs > 0
  /\ runs > 0 => /\ placed \in [Blocks(fn) -> Seq(Instructions(fn)
                                                   \cup ToSet(loopInvariantInstructions))]
                 /\ turn \in 1 .. Len(fn.loops) + 1
                 /\ ToSet(loopInvariantInstructions) \cap Instructions(fn) \subseteq fn.safe
  /\ pc \in {"populate", "move"} => turn <= Len(fn.loops) /\ L.preheader \in Blocks(fn)
  /\ pc = "populate" =>
       /\ bitr \in 1 .. Len(L.blocks) + 1
       /\ itr \in 1 .. IF bitr > Len(L.blocks) THEN 1 ELSE Len(placed[L.blocks[bitr]]) + 1

(***************************************************************************)
(* The vector is in topological order (licm.cpp:75-76): at every moment of *)
(* the moves, each instruction stands after the definitions it uses, and   *)
(* what flows into a phi node is defined at the end of the predecessor.    *)
(* Code taken in from an earlier function, which it was moved away from,   *)
(* is left to HoistedCodeIsTakenAlong; it does not disturb the rest.       *)
(***************************************************************************)
DefinitionsDominateUses == runs > 0 => InSSAForm(fn, placed)

(***************************************************************************)
(* One pass over the blocks finds every invariant computation: when the    *)
(* function is done, a loop with a preheader holds no safe BinaryOperator  *)
(* whose operands are all defined outside the loop.                        *)
(***************************************************************************)
NothingInvariantIsLeft ==
  Finished =>
    \A k \in DOMAIN fn.loops : fn.loops[k].preheader # 0 =>
      \A i \in InLoop(fn.loops[k]) \cap fn.safe : fn.ops[i] \cap InLoop(fn.loops[k]) # {}

\* Code of earlier functions that stands in this one: what has been moved, all
\* of the member's once a loop with a preheader is done.
Taken ==
  IF \E k \in 1 .. turn - 1 : fn.loops[k].preheader # 0 THEN Strangers
  ELSE IF pc = "move" THEN {loopInvariantInstructions[m] : m \in 1 .. moved} \ Instructions(fn)
  ELSE {}

(***************************************************************************)
(* How far an object reaches that outlives a function (licm.cpp:85 and     *)
(* 140-142 never clear the member): whatever was hoisted before, in any    *)
(* function, is taken to the next loop with a preheader, each instruction  *)
(* to one place.  Nothing else of another function comes in, a function    *)
(* without such a loop is left alone, and of its own code each function    *)
(* the object works on keeps every instruction.                            *)
(***************************************************************************)
HoistedCodeIsTakenAlong ==
  runs > 0 => HoldsOnce(fn, placed, Instructions(fn) \cup Taken)

(***************************************************************************)
(* Each function the pass manager starts on comes to its end.              *)
(***************************************************************************)
FunctionEnds == pc = "loop" ~> pc = "idle"
=============================================================================
