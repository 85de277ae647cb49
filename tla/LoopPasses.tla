----------------------------- MODULE LoopPasses -----------------------------
(***************************************************************************)
(* The two loop passes in the order their README asks for: LICM runs on    *)
(* what the landing-pad transformation has made of a function.  LICM alone *)
(* may be run on a function as well.                                       *)
(***************************************************************************)
EXTENDS LICM, PostOrder, LoopForms

CONSTANTS
  Sources,   \* the functions both passes are run on
  Truths,    \* sets of conditions that hold, see Execution
  Fuel       \* blocks an execution may take

VARIABLE l    \* with those of LoopForms, the landing-pad transformation

padVars == <<source, prog, at, l, step>>
allVars == <<vars, padVars>>

Pad == INSTANCE LandingPad

ASSUME SourcesAssumption ==
  \A f \in Sources :
    /\ {DOMAIN f.succs, DOMAIN f.code} = {1 .. f.n}
    /\ \A k \in DOMAIN f.loops : \A j \in f.loops[k].parents : k < j

ASSUME ExecutionAssumption == Fuel \in Nat

-----------------------------------------------------------------------------
Arithmetic == {"+", "*", "/"}

\* Slip: the block with the guard, one before the landing pad.
GuardOf(f, loop) ==
  IF Preheader(f, loop) = 0 THEN 0
  ELSE CHOOSE p \in Predecessors(f, Preheader(f, loop)) : TRUE

PreheaderOf(f, loop) == Preheader(f, loop)

(***************************************************************************)
(* A program as LICM sees it.  LoopInfo is computed anew: blocks in reverse *)
(* post-order, and the preheader the loop has now.  Division is the one    *)
(* BinaryOperator that may not be executed speculatively.                  *)
(***************************************************************************)
AsFunction(f) ==
  LET is == UNION {ToSet(f.code[b]) : b \in 1 .. f.n}
      g == FunctionOf(f.n, f.succs, Leaves(f.n, f.succs))
      phis == DOMAIN f.incoming
      binops == {i \in is \ phis : f.operands[i][1] \in Arithmetic}
  IN  [n |-> f.n, succs |-> g.succs, ret |-> g.ret, po |-> g.po,
       insts |-> f.code,
       ops |-> [i \in is |-> is \cap IF i \in phis THEN {e[1] : e \in ToSet(f.incoming[i])}
                                                   ELSE ToSet(Tail(f.operands[i]))],
       incoming |-> [i \in phis |-> {<<e[2], e[1]>> : e \in
                                       {x \in ToSet(f.incoming[i]) : x[1] \in is}}],
       phis |-> phis, binops |-> binops,
       safe |-> {i \in binops : f.operands[i][1] # "/"},
       loops |-> [k \in DOMAIN f.loops |->
                    [blocks |-> SelectSeq(Reverse(g.po), LAMBDA b : b \in f.loops[k].blocks),
                     preheader |-> PreheaderOf(f, f.loops[k])]]]

StartOnRotated == runs = 0 /\ Rotated /\ StartFunction(AsFunction(prog)) /\ UNCHANGED padVars

StartAlone(f) == step = "idle" /\ at = 0 /\ StartFunction(f) /\ UNCHANGED padVars

Rotate(f) == runs = 0 /\ Pad!StartFunction(f) /\ UNCHANGED vars

Transform == Pad!RunOnLoop /\ UNCHANGED vars

Hoist == RunOnLoop /\ UNCHANGED padVars

BothInit == Init /\ Pad!Init

BothNext ==
  \/ Transform \/ Hoist \/ StartOnRotated
  \/ \E f \in Sources : Rotate(f)
  \/ \E f \in Upcoming : StartAlone(f)

BothSpec == BothInit /\ [][BothNext]_allVars

\* Each pass is a call that goes on to its end, and opt runs the second after
\* the first.
BothFairSpec == BothSpec /\ WF_allVars(Transform \/ Hoist \/ StartOnRotated)

-----------------------------------------------------------------------------
BothDone == Finished /\ Rotated

Optimised == [prog EXCEPT !.code = placed]

(***************************************************************************)
(* Rotation and motion leave the function's effects alone: under the same  *)
(* answers of the outside world the same calls and loads happen, in the    *)
(* same order and on the same operands, until it returns (the comment at   *)
(* landing-pad.cpp:187-189 promises the correctness of the original).      *)
(***************************************************************************)
SameEffects ==
  BothDone =>
    \A true \in Truths :
      LET before == Pad!Execution(source, true, Fuel)
          after  == Pad!Execution(Optimised, true, Fuel)
      IN  before.trace = after.trace /\ before.block = after.block

\* The block an instruction comes from is passed in each round of its loops.
EveryRound(i) ==
  \A k \in DOMAIN source.loops : \A b \in source.loops[k].blocks :
    i \in ToSet(source.code[b]) => Dominates(source, b, Latch(source, source.loops[k]))

(***************************************************************************)
(* What the landing pad is for (landing-pad.h:21-24): code is hoisted to   *)
(* where control only comes when the loop runs at least once.  What the    *)
(* original function does not compute, because the loop is not entered, is *)
(* not computed now, even though it may stand in front of the loop.        *)
(***************************************************************************)
NothingComputedInVain ==
  BothDone =>
    \A true \in Truths :
      \A i \in source.pure :
        EveryRound(i) /\ i \in DOMAIN Pad!Execution(Optimised, true, Fuel).env
          => i \in DOMAIN Pad!Execution(source, true, Fuel).env

(***************************************************************************)
(* Any other function comes through both passes.                           *)
(***************************************************************************)
PassesEnd == step = "loop" ~> BothDone \/ step \in {"crashed", "endless"}
=============================================================================
