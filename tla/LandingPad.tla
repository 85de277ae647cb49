----------------------------- MODULE LandingPad -----------------------------
(***************************************************************************)
(* The landing-pad transformation (LICM/src/landing-pad.cpp), a LoopPass   *)
(* that turns `while` loops into guarded `do` loops with a block to hoist  *)
(* to: the loop condition is copied to the latch and moved to the          *)
(* preheader, and phi nodes join the two ways out.                         *)
(*                                                                         *)
(* A function is a program (see Execution; cond is the condition of the    *)
(* terminator, succs[b][1] its operand 2, the true destination, and        *)
(* succs[b][2] its operand 1) with the fields n and loops.  The loops are  *)
(* in the order the pass manager runs them, inner before outer, each a     *)
(* record [header, blocks, parents] as LoopInfo has them, blocks a set and *)
(* parents the positions of the loops around it.  The clone of the k-th    *)
(* instruction of header h is <<"clone", h, k>>, the phi node made for its *)
(* k-th phi node <<"exit", h, k>>.                                         *)
(***************************************************************************)
EXTENDS Execution, LoopForms

CONSTANT Sources    \* the functions the pass may be run on

VARIABLE l    \* the header and blocks of the current loop, the locals preheader and latch

vars == <<source, prog, at, l, step>>

-----------------------------------------------------------------------------
\* getFirstNonPHI, getFirstInsertionPt: how many phi nodes a block starts with.
LeadingPhis(f, b) ==
  CHOOSE k \in 0 .. Len(f.code[b]) :
    /\ \A j \in 1 .. k : f.code[b][j] \in DOMAIN f.incoming
    /\ k < Len(f.code[b]) => f.code[b][k + 1] \notin DOMAIN f.incoming

HeaderPhis(f, loop) == SubSeq(f.code[loop.header], 1, LeadingPhis(f, loop.header))

HeaderRest(f, loop) ==
  SubSeq(f.code[loop.header], LeadingPhis(f, loop.header) + 1, Len(f.code[loop.header]))

\* Slip: the value that comes round the loop.
InitialOfLatch(f, phi) == Last(f.incoming[phi])[1]

\* phi->getIncomingValue(0), taken to be the one from the preheader.
Initial(f, phi) == f.incoming[phi][1][1]

\* The instructions `is` and the terminators of `bs` use sub[v] for v.
ReplaceUses(f, is, bs, sub) ==
  LET Now(v) == IF v \in DOMAIN sub THEN sub[v] ELSE v
  IN  [f EXCEPT
         !.operands = [i \in DOMAIN @ |-> IF i \notin is THEN @[i] ELSE
                         [k \in DOMAIN @[i] |-> IF k = 1 THEN @[i][1] ELSE Now(@[i][k])]],
         !.incoming = [i \in DOMAIN @ |-> IF i \notin is THEN @[i] ELSE
                         [k \in DOMAIN @[i] |-> <<Now(@[i][k][1]), @[i][k][2]>>]],
         !.cond = [b \in DOMAIN @ |-> IF b \in bs THEN Now(@[b]) ELSE @[b]]]

\* Slip: the new block is not added to the loops around.
AddedToNone(k, parents) == FALSE

\* addBasicBlockToLoop: the parent, and the loops around it.
AddedTo(k, parents) == k \in parents

\* Slip: the phi nodes further on keep the name.
KeptName(f, b, new, i, from) == from

\* splitBasicBlock has the phi nodes of b's successors name the new block.
NewName(f, b, new, i, from) ==
  IF from = b /\ \E s \in Successors(f, b) : i \in ToSet(f.code[s]) THEN new ELSE from

WithBlock(loop, b) == [loop EXCEPT !.blocks = @ \cup {b}]

\* splitBasicBlock: a block cut behind its first `kept` instructions.  The new
\* block gets what follows.
SplitBlock(f, b, kept, parents) ==
  LET new == f.n + 1
  IN  [f EXCEPT
         !.n = new,
         !.succs = Append([@ EXCEPT ![b] = <<new>>], @[b]),
         !.code = Append([@ EXCEPT ![b] = SubSeq(f.code[b], 1, kept)],
                         SubSeq(@[b], kept + 1, Len(@[b]))),
         !.cond = [c \in (DOMAIN @ \ {b}) \cup (IF b \in DOMAIN @ THEN {new} ELSE {}) |->
                     IF c = new THEN @[b] ELSE @[c]],
         !.incoming = [i \in DOMAIN @ |-> [k \in DOMAIN @[i] |->
                         <<@[i][k][1], NewName(f, b, new, i, @[i][k][2])>>]],
         !.loops = [k \in DOMAIN @ |->
                      IF AddedTo(k, parents) THEN WithBlock(@[k], new) ELSE @[k]]]

\* Slip: the clones keep the operands of the originals.
CloneOrSelf(f, loop) == << >>

\* cloneMap.
CloneOf(f, loop) ==
  LET rest == HeaderRest(f, loop)
  IN  [v \in ToSet(rest) |-> <<"clone", loop.header, CHOOSE k \in DOMAIN rest : rest[k] = v>>]

\* The header's code but its phi nodes is cloned behind the latch's, terminator
\* included; whatever in the latch uses an instruction cloned uses the clone.
MoveCondFromHeaderToLatch(f, loop) ==
  LET rest == HeaderRest(f, loop)
      clones == [k \in DOMAIN rest |-> <<"clone", loop.header, k>>]
      new == ToSet(clones)
      cloned == [f EXCEPT
         !.succs[loop.latch] = <<loop.header, f.succs[loop.header][2]>>,
         !.code[loop.latch] = @ \o clones,
         !.operands = [i \in DOMAIN @ \cup new |-> IF i \in new THEN @[rest[i[3]]] ELSE @[i]],
         !.pure = @ \cup {c \in new : rest[c[3]] \in @},
         !.cond = [b \in DOMAIN @ \cup {loop.latch} |-> IF b = loop.latch THEN @[loop.header] ELSE @[b]]]
  IN  ReplaceUses(cloned, ToSet(cloned.code[loop.latch]), {loop.latch}, CloneOf(f, loop))

\* The header's code but its phi nodes moves to the preheader, terminator
\* included, and uses the initial values of the phi nodes there.
MoveCondFromHeaderToPreheader(f, loop, landingPad) ==
  LET moved == [f EXCEPT
         !.succs[loop.preheader] = <<landingPad, f.succs[loop.header][2]>>,
         !.succs[loop.header] = <<f.succs[loop.header][1]>>,
         !.code[loop.preheader] = @ \o HeaderRest(f, loop),
         !.code[loop.header] = HeaderPhis(f, loop),
         !.cond = [b \in (DOMAIN @ \ {loop.header}) \cup {loop.preheader} |->
                     IF b = loop.preheader THEN @[loop.header] ELSE @[b]]]
  IN  ReplaceUses(moved, ToSet(moved.code[loop.preheader]), {loop.preheader},
                  [phi \in ToSet(HeaderPhis(f, loop)) |-> Initial(f, phi)])

\* The blocks whose uses of the header's phi nodes are updated.
OutsideLoop(f, loop) == 1 .. f.n \ loop.blocks

\* phiAtExit, for each phi node of the header.
AtExit(f, loop) ==
  LET phis == HeaderPhis(f, loop)
  IN  [phi \in ToSet(phis) |-> <<"exit", loop.header, CHOOSE k \in DOMAIN phis : phis[k] = phi>>]

\* Slip: from the latch only.
LatchEntries(f, loop, incoming) ==
  LET joins == AtExit(f, loop)
  IN  incoming @@ [i \in {joins[phi] : phi \in DOMAIN joins} |->
                     <<<<CHOOSE phi \in DOMAIN joins : joins[phi] = i, loop.latch>>>>]

\* Each comes from the latch with the header's node, from the preheader with
\* what that one starts from.
JoinEntries(f, loop, incoming) ==
  LET joins == AtExit(f, loop)
      JoinOf(i) == CHOOSE phi \in DOMAIN joins : joins[phi] = i
      new == {joins[phi] : phi \in DOMAIN joins}
  IN  [i \in DOMAIN incoming \cup new |->
         IF i \in new THEN <<<<JoinOf(i), loop.latch>>, <<Initial(f, JoinOf(i)), loop.preheader>>>>
                      ELSE incoming[i]]

\* A block in front of the exit, with a phi node for each of the header.
JoinPreheaderAndLatchAtExit(f, loop) ==
  LET exit == f.succs[loop.preheader][2]
      split == SplitBlock(f, exit, 0, loop.parents)
      users == UNION {ToSet(split.code[b]) : b \in OutsideLoop(split, loop)}
      phis == HeaderPhis(f, loop)
  IN  [ReplaceUses(split, users, OutsideLoop(split, loop), AtExit(f, loop)) EXCEPT
         !.code[exit] = Reverse([k \in DOMAIN phis |-> AtExit(f, loop)[phis[k]]]),
         !.incoming = JoinEntries(f, loop, @)]

-----------------------------------------------------------------------------
Init == source = << >> /\ prog = << >> /\ at = 0 /\ l = << >> /\ step = "idle"

\* The pass manager turns to a function, once.
StartFunction(f) ==
  /\ step = "idle" /\ at = 0
  /\ source' = f /\ prog' = f /\ at' = 1
  /\ step' = "loop"
  /\ UNCHANGED l

More == step = "loop" /\ at <= Len(prog.loops)

Current == prog.loops[at]

\* Slip: the same loop again.
SkipLoopAgain ==
  /\ More /\ Preheader(prog, Current) = 0
  /\ UNCHANGED vars

\* runOnLoop for a loop without a preheader.
SkipLoop ==
  /\ More /\ Preheader(prog, Current) = 0
  /\ at' = at + 1
  /\ UNCHANGED <<source, prog, l, step>>

\* The landing pad is cut off the preheader; its place is kept as the last block.
SplitPreheader ==
  /\ More /\ Preheader(prog, Current) # 0
  /\ l' = [header |-> Current.header, blocks |-> Current.blocks, parents |-> Current.parents,
           preheader |-> Preheader(prog, Current), latch |-> Latch(prog, Current)]
  /\ prog' = SplitBlock(prog, l'.preheader, Len(prog.code[l'.preheader]), l'.parents)
  /\ step' = "latch"
  /\ UNCHANGED <<source, at>>

\* Without a latch a null pointer is dereferenced; a header that is the latch
\* grows while it is walked; an unconditional terminator has no operand 2.
CloneToLatch ==
  /\ step = "latch"
  /\ IF l.latch # 0 /\ l.latch # l.header /\ Len(prog.succs[l.header]) = 2
       THEN prog' = MoveCondFromHeaderToLatch(prog, l) /\ step' = "preheader"
       ELSE /\ step' = IF l.latch = l.header /\ HeaderRest(prog, l) # << >>
                         THEN "endless" ELSE "crashed"
            /\ UNCHANGED prog
  /\ UNCHANGED <<source, at, l>>

MoveToPreheader ==
  /\ step = "preheader"
  /\ prog' = MoveCondFromHeaderToPreheader(prog, l, prog.n)
  /\ step' = "exit"
  /\ UNCHANGED <<source, at, l>>

JoinAtExit ==
  /\ step = "exit"
  /\ prog' = JoinPreheaderAndLatchAtExit(prog, l)
  /\ at' = at + 1 /\ step' = "loop"
  /\ UNCHANGED <<source, l>>

\* The last loop has been run.
FunctionDone ==
  /\ step = "loop" /\ at > Len(prog.loops)
  /\ step' = "idle"
  /\ UNCHANGED <<source, prog, at, l>>

RunOnLoop ==
  SkipLoop \/ SplitPreheader \/ CloneToLatch \/ MoveToPreheader \/ JoinAtExit \/ FunctionDone

Next == RunOnLoop \/ \E f \in Sources : StartFunction(f)

Spec == Init /\ [][Next]_vars
=============================================================================
