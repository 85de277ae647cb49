----------------------------- MODULE LoopForms ------------------------------
(***************************************************************************)
(* A function under the landing-pad transformation (see LandingPad), what  *)
(* LoopInfo says of the form of its loops, and what is asked of it between *)
(* two loops.                                                              *)
(***************************************************************************)
EXTENDS CFG, SequencesExt

VARIABLES
  source,    \* the function as it came
  prog,      \* the function as it is now
  at,        \* position of the current loop
  step       \* "idle", "loop", "latch", "preheader", "exit", "endless" or "crashed"

\* Loop::getLoopPreheader, Loop::getLoopLatch: null, here 0, when there is none.
Preheader(f, loop) ==
  LET outside == Predecessors(f, loop.header) \ loop.blocks
  IN  IF Cardinality(outside) = 1 /\ \A p \in outside : Len(f.succs[p]) = 1
        THEN CHOOSE p \in outside : TRUE ELSE 0

Latch(f, loop) ==
  LET back == Predecessors(f, loop.header) \cap loop.blocks
  IN  IF Cardinality(back) = 1 THEN CHOOSE p \in back : TRUE ELSE 0

\* The last loop has been run.
Rotated == step = "idle" /\ at > 0

-----------------------------------------------------------------------------
\* A loop with a preheader, one latch behind its header, and a header that
\* branches: the form the transformation can work on (landing-pad.cpp:35-54).
InForm(f, loop) ==
  /\ Preheader(f, loop) # 0
  /\ Latch(f, loop) \notin {0, loop.header}
  /\ Len(f.succs[loop.header]) = 2

(***************************************************************************)
(* Rotating an inner loop leaves the loops around it in form, though their *)
(* latch or the inner preheader is cut in two: they are not skipped for    *)
(* lack of a preheader, and no null pointer is met.                        *)
(***************************************************************************)
OuterLoopsStayInForm ==
  step = "loop" =>
    \A k \in at .. Len(prog.loops) :
      InForm(source, source.loops[k]) => InForm(prog, prog.loops[k])

\* Each phi node has one entry for each predecessor of its block, no other.
PhisInStep(f) ==
  \A b \in Blocks(f) : \A phi \in ToSet(f.code[b]) \cap DOMAIN f.incoming :
    LET entries == f.incoming[phi]
    IN  /\ {entries[k][2] : k \in DOMAIN entries} = Predecessors(f, b)
        /\ \A j, k \in DOMAIN entries : entries[j][2] = entries[k][2] => j = k

(***************************************************************************)
(* Splitting, rotating and joining keep phi nodes and predecessors in      *)
(* step: so it is after every loop, the nodes made at its exit included    *)
(* (the comment at landing-pad.cpp:132-138 says who comes to the exit).    *)
(***************************************************************************)
PhisStayInStep ==
  step = "loop" \/ Rotated => PhisInStep(prog)
=============================================================================
