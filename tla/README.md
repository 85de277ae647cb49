# Dataflow passes, modelled

A TLA+ model of the LLVM passes of this repository: an iterative dataflow
framework, a Dominators pass, a dead-code-elimination pass, a
loop-invariant-code-motion pass and partial redundancy elimination. TLC checks
the models on small control-flow graphs and executes the code before and after a
transformation. TLAPS proves, for every graph and every code: that the framework's
convergence test means what it says and that its answer is the extremal one; that
the Dominators pass computes dominance; that dead code elimination erases nothing an
effect needs; that LICM keeps definitions above uses and finds every invariant in one
pass, under the hypotheses its findings show to be needed; that rotating a
loop keeps phi nodes in step with the graph and leaves the loops still to come fit to be
rotated; and that partial redundancy elimination inserts only where every path needs the
expression and supplies each occurrence it replaces.

Everything here is sequential code called by LLVM's pass managers. What makes it
hard is not concurrency: it is iteration to a fixed point with vectors updated in
place, a cap on sweeps that nobody looks at afterwards, transfer functions that
change the sets they read, pass objects that live longer than the functions they
run on, and transformations that move or erase instructions in an order the code
relies on without saying so.

## The system

| Component | State it keeps | Operations | Correct when |
|---|---|---|---|
| Dataflow framework, `Dataflow/` | `result`: four vectors per block; traversal vectors; during `run` the saved vectors, `iter`, `converged` | constructor, `run` (initialize, visit a block, convergence test, cap) | it ends; what it calls converged is stable and is the extremal solution |
| Dominators pass, `Dominators/` | `domainToBitMap`, `bitToDomainMap`, `infoMap`, `domMap`, all kept from function to function | `runOnFunction`, `getDomMap`, `getImmediateDominator` | the map holds exactly the dominators of each block |
| Dead code elimination, `DCE/` | `domain` (never emptied), bit maps, `infoMap` | `runOnFunction`: `setupDomain`, `populateInfoMap`, analysis, `eliminateDeadCode` | nothing an effect needs is erased; dead code is |
| Loop-invariant code motion, `LICM/src/licm.cpp` | `loopInvariantInstructions` (never emptied) | `runOnLoop` | definitions still dominate uses; nothing invariant stays behind; no function loses an instruction of its own |
| Landing-pad transformation, `LICM/src/landing-pad.cpp` | none; changes the loop's blocks, phi nodes, terminators and `LoopInfo` | `runOnLoop`: split, clone to latch, move to preheader, join at exit | effects are those of the original loop; phi nodes match predecessors; loops around stay in form |
| PRE analyses, `PRE/src/{anticipated,available,postponable,used}.cpp` | gen/kill sets; the result of the analysis before | four runs of the framework | each is the extremal solution of its equations |
| PRE code motion, `PRE/src/pre.cpp` | `earliest`, `latest`, `toInsert`, `toReplace`, reaching temporaries | edge splitting, insertion, replacement | effects stay the same; no placement computes less often, none keeps temporaries alive for less |
| PRE support, `PRE/src/pre-support.cpp` | none | equality and order of expressions, printing | — |

How they interact: each analysis is a subclass of `Dataflow` that supplies
`transferFn` and `meetFn`. A client fills an info map (gen and kill set per
block), constructs an object for one function, calls `run` and reads `result`.
PRE chains four such runs, each handed a result of an earlier one. LICM expects
its input to have been through the landing-pad transformation and shares nothing
else with it. LLVM calls one pass object for every function (or every loop,
inner before outer) of a module; the members of the object carry over.

Hard behaviours, each listed at its line in `PROJECT.json` under `hazards`: the
in-place sweep against the convergence test (`dataflow.cpp:123`), the cap of five
sweeps (`:182`), blocks without an info-map entry (`:67`), `flip()` on a member
(`anticipated.cpp:8`, `available.cpp:10`, `postponable.cpp:7`), members kept
between functions (`dominators.cpp:129`, `deadCodeElimination.cpp:187`,
`licm.cpp:85`), deletion order (`deadCodeElimination.cpp:96`), one-pass
discovery of invariants (`licm.cpp:77`), code that is copied to run at another
moment (`landing-pad.cpp:67`), control flow redirected in several steps
(`landing-pad.cpp:151`), chains of analyses that read each other's vectors
(`pre.cpp:201`), and values renamed while they are being looked up (`pre.cpp:383`).

## Modules

| Module | Models |
|---|---|
| `CFG` | A function as the passes see it: successors, the blocks `po_iterator` yields, returns. Dominance by paths, as reference definition. |
| `Transfers` | `transferFn` and `meetFn` of the subclasses, side effects on the block's sets included. |
| `Dataflow` | The framework. One action per step of `run`: `Construct`, `Initialize`, `VisitBlock`, `EndSweep`, `Discard`. |
| `DataflowBasics` | The framework is well typed, for subclasses whose vectors stay in the domain; theorems about it on loop-free functions, for subclasses that flip their sets. |
| `DataflowProofs` | Theorems about the framework, for subclasses that leave the sets they read alone. |
| `Dominators` | The pass over several functions, with an instance of `Dataflow` inside. |
| `DominanceProofs` | Facts about dominance on any graph; no module of the model but `CFG`. |
| `DominatorsProofs` | Theorems about the pass. |
| `DeadCodeElimination` | The pass over several functions, with an instance of `Dataflow` inside. |
| `DeadCodeEliminationProofs` | Theorems about the pass. |
| `LICM` | The pass over every loop of several functions. |
| `LICMProofs` | Theorems about the pass. |
| `LoopForms` | A function the landing-pad transformation works on: `getLoopPreheader`, `getLoopLatch`, and what is asked of loops and phi nodes between two loops. |
| `LandingPad` | The landing-pad transformation over every loop of a function. |
| `LandingPadProofs` | Theorems about the transformation, for functions whose loops are while loops. |
| `LoopPasses` | Both loop passes in the order `LICM/README` asks for, on one function; LICM alone as well. |
| `EdgeSplitting` | `PRE::Preprocess`. |
| `PRE` | Partial redundancy elimination, from `Init` to the last replacement, with four instances of `Dataflow` on shared variables. |
| `PREProofs` | Theorems about the analyses, the insertion and the topological sort. |
| `Execution` | What code computes, by symbolic execution: the yardstick for `PRE` and `LoopPasses`. |
| `PostOrder` | `po_iterator`, and the small functions the model modules are made of. |
| `MC...` | Instances for TLC. |

How state and actions correspond to the code. In `Dataflow`, a `BitVector` is the
set of positions that hold 1; `result`, `iter`, `converged` are the variables of
that name, `prev` is `prevInput` or `prevOutput` (only the one the test reads is
kept), `idx` is the iterator over the traversal and `pc` is where in `run` the
call is. `VisitBlock` is lines 122-156 for one block: save, collect the meet
inputs, meet, transfer. Predecessors that cannot be reached take part in the
meet with their initial vector, as in the code. `Initialize` goes to `crashed`
where the code dereferences a null pointer. `dir`, `boundaryCond`, `initCond` and
the two functions are constants of the module, so every client is an instance.

In `Dominators` and `DeadCodeElimination` the variables of the `Dataflow` object
are the pass's own, and the pass's actions are conjunctions of an action of the
instance and what happens to the members: `RunOnFunction` is everything up to
`dfa->run`, `Analyse` is `run`, and the last action reads the result and discards
the object. Erasing is modelled one instruction at a time. Instructions that are
not erased are `present`; a use is a pair of instructions, so `use_empty` speaks
of `present` only.

In `LICM` blocks are sequences of instructions (`placed`), and a move appends to
the preheader. Loops come from the function, inner before outer (`turn` counts them),
with the block order of `LoopInfo`. `StartLoop` calls
`populateLoopInvariantInstructions`, which is walked instruction by instruction
(`bitr` and `itr` are its iterators, `Examine` and `NextBlock` its two loops);
`StartMoves` and `MoveInvariant` are the loop that moves. The next function finds the
member as the last one left it: its instructions from elsewhere (`Strangers`) go to the
first preheader there is. What `LoopInfo` guarantees
of a loop and its preheader is `IsLoop`.

`LandingPad` keeps the whole function, blocks, terminators, phi nodes and loops, in
`prog`, and changes it in the four steps of `runOnLoop` (`SplitPreheader`,
`CloneToLatch`, `MoveToPreheader`, `JoinAtExit`), each an operator named after the
function of the source. `CloneToLatch` ends in `crashed` where the code dereferences
a null pointer or asks an unconditional branch for its operand 2, and in `endless`
where it walks a list it is growing. `LoopPasses` hands the result to `LICM` through
`AsFunction`, which computes what LICM reads (blocks in reverse post-order, the
preheader the loop has now), as LLVM computes `LoopInfo` anew.

`PRE` runs its four analyses in the variables of one `Dataflow` object after
another: `ConstructAnalysis` builds the object with the vectors the subclass is
handed (`Member`), `Analyse` is `run`, and `GetAnticipated`, `GetEarliest`,
`GetLatest` and `GetPoints` read the result and compute the next vectors. `InsertOCP`
inserts the temporaries, and each `VisitBlock` is one turn of the topological sort:
phi nodes first, then replacement, then what the successors are told. In-degrees count
predecessors in the model and edges in the code, so the functions are those whose
terminators name no block twice.

`Execution` runs a program block by block. Values are terms over the arguments; an
instruction with an effect adds its operands to a trace and returns an unknown value
named by its place in the trace. Two programs do the same when their traces agree
for every choice of the conditions that hold.

Definitions whose comment starts with *Slip* are not part of the model: each is
a plausible mistake in the definition it stands before, and `PROJECT.json` names
a property that TLC finds violated when it takes that definition's place.

## Runs

| Run | Shows | Distinct states |
|---|---|---|
| `used` | the framework with the equations of UsedExpressions ends, is stable when converged, gives the least solution, moves one way and settles within loop-connectedness + 2 sweeps | 53 513 |
| `dominators` | no dominator lost, converged is exact, the map and the immediate dominators are right also for a second function that uses the names again, runs are answered | 178 065 |
| `dominators_ladder` | nine blocks defeat the cap of five sweeps (finding) | |
| `dce` | nothing needed is erased, what is left over lost its last user too late, a second function is not mixed up with the first, only a block that cannot be reached makes the pass crash, otherwise it returns | 99 265 |
| `dce_faint` | the vector read as the faint value calls everything faint (finding) | |
| `licm` | both loop passes: effects stay, nothing is computed for a loop that is not entered, after each loop phi nodes are in step with the graph and outer loops in form, the passes end; LICM: definitions dominate uses at every step, nothing invariant is left, each function comes to its end; over two functions handed to one object: what was hoisted before comes along, each instruction to one place and to a preheader, nothing else does, and neither function loses any of its own | 98 932 |
| `licm_load` | an operand loaded in the loop counts as outside (finding) | |
| `licm_nested` | the outer loop moves what the inner loop found (finding) | |
| `landing_pad` | a rotated counting loop makes one round too many (finding) | |
| `pre` | effects stay unless a temporary stands in front of its operand, which without loops happens in one case only: a block that defines the operand and evaluates the expression; without loops insertions are down-safe, occurrences to be replaced are supplied from every side exactly once, and the placement is computationally and lifetime optimal; the sort's bookkeeping is right, it leaves out exactly the blocks loops lead to, and the pass returns | 181 111 |
| `pre_loop` | redundant occurrences in and after a loop are not replaced (finding) | |
| `pre_phi` | a phi node of temporaries with an entry for its own block (finding) | |

Runs with `CHECK_DEADLOCK FALSE` stop because a function is handed to a pass at most
`MaxRuns` times (`dominators`, `dce`, `licm`) or once (`pre`, the landing pad), or
because the pass has crashed; the framework's own run goes on for ever and checks
deadlock.

Bounds and why they are enough:

* Graphs. Dominators runs on every function of two and three blocks with at most two
  successors each (unreachable blocks, self loops and irreducible loops are all
  there), in two namings, and on 686 of four blocks; a first counterexample to an
  equation or to the order of a sweep needs a join, a cycle and something after it.
  The cap cannot be met at that size, which `SettlesByNesting` states;
  `dominators_ladder` is the function that meets it. Terminators with more than two
  targets add joins, not new kinds of them.
* `used` runs on what `PRE::Preprocess` makes of every function of three blocks. The
  equations treat bits independently, so one bit is enough. Gen and kill sets are
  those of one expression in SSA form: it occurs somewhere, below the definitions of
  its at most two operands. The `latest` vectors are arbitrary up to two blocks, which
  includes more than PRE can produce.
* `pre`: one expression, in every set of blocks, on every loop-free function of five
  blocks with two joins and on every function of three blocks with a loop; with an
  operand defined in block 1 or 2, by arithmetic or by a load, and evaluated in any set
  of the blocks that definition dominates, its own included, on every loop-free function
  of four blocks and on those with a loop; and chains of expressions where replacing one
  changes the next. Nine and more blocks
  after edge splitting, up to two bits. Branches go either way, `2 * n` blocks of an
  execution are compared.
* `licm`, both passes: a while loop whose body computes two values from any of the
  arguments, an invariant, the phi node and each other, 96 variants with and without
  division; the same with a condition that reads a phi node which keeps its value, twelve
  variants; two nested loops, and the forms the transformation cannot work on; each
  with all answers of the first six effects, which decide the branches, so that a
  loop runs no, one, two or three rounds (`Fuel`, thirty blocks, is more than any of
  them takes).
* DCE: every choice of operands SSA form allows and of live instructions on a
  chain, on a loop with a phi node, and on a layout against the flow of control:
  the three relations a user can have to what it uses in the order of deletion.
  Each is run alone, before and after a second function without effects.
* LICM alone: one loop of two and one of four blocks, up to three instructions that can
  be invariant, each with any operands SSA form allows; the phi node takes
  from the latch a value from outside or one of the loop's first or last instructions.
  A loop without preheader is skipped. The functions that come second (`Followers`) are
  24, with instructions of their own: a while loop or two nested loops, with one, two or
  no instruction to hoist; a function with nothing to hoist leaves the member alone, and
  in the nested ones what the inner loop's preheader is given is met again by the outer
  loop. Each of them also comes first.
* `MaxRuns = 2` where state carries over: what the second function meets is what
  any number of earlier ones could have left, up to more of the same.
* `MaxSweeps = 5` is the code's own `iterations`.

Fairness. `FairSpec` adds weak fairness of the steps of a call that is under
way: `run`, `runOnFunction` and `runOnLoop` are plain loops in one thread, and a
thread that is called keeps running. Nothing is assumed about being called.

What the findings say. `dominators_ladder`: five
sweeps are not enough and the vectors are published all the same. `dce_faint`:
the transfer of a backward analysis writes `bbOutput`, so the vector read is
still the initial one; only the test of `use_empty` keeps the elimination sound
(`NeededIsKept`). `licm_load`,
`licm_nested`: two ways an instruction is moved above the definition it uses. The
member vector that causes the second also carries instructions from one function
into the next. `HoistedCodeIsTakenAlong` says exactly how far that goes; what an
instruction means in a function it was not written for is no question, so that
`DefinitionsDominateUses` speaks of the function's own code. In the run `licm` a function
has one loop with a preheader, or two of which the outer one finds in front of itself
all that the inner one hoisted uses. `landing_pad`: the clone of the
condition in the latch is not given the value that comes round the loop, so it asks
about the round that is ending. `pre_loop`: a block is visited when all its
predecessors have been, so a loop and whatever follows it are left as they were, with
the temporaries in them. `pre_phi`: a block's own temporary is counted among the
definitions that reach it. That code which cannot be reached makes DCE dereference a
null pointer is part of `CrashesOnUnreachableOnly`.

What the passing runs leave out, because the findings say what happens there:

* `pre`: a function where a block re-inserts a temporary (`Reinserted`) is exempt from
  the effects and optimality, and expressions that are not `Regular` from optimality
  only. Temporaries are created at the first insertion point of their block
  (`pre.cpp:284-289`). Where the block defines an operand below that point, or in a loop
  before the definition, the temporary computes from what is not there yet (`TooEarly`),
  and effects change; `SameEffects` says that without loops they change then and only
  then, and `OperandsAreDefined` that a loop-free function meets it only in a block which
  evaluates the expression itself after it has defined the operand. `Regular` is the form the comment at `pre.cpp:117` asks for and the code does
  not establish: one statement to a block.
* `licm`, both passes: the condition of a loop is loaded in its header and reads no
  phi node whose value changes, and a header's values but the phi node's are used by the
  condition only; the preheader's value comes first in each phi node (with
  the other order the latch's is taken for it, and `SameEffects` is violated, as the
  mutant `InitialOfLatch` shows); the exit of a loop has no phi node. That nothing is computed in vain
  is asked of rotated loops only.

What the elimination does not promise: `LeftoverLostItsUserLater` is the strongest
statement that holds; an instruction that lost its last user after its own turn
stays, and needs another run of the pass.

## Proofs

All proofs are about the modules TLC runs, with their constants left open: any
control-flow graph, any code in SSA form, any number of functions, any cap on sweeps
unless one is named. Invariants were checked by TLC before they were proved.

### The framework

What is assumed of a subclass is an assumption of the module, so that TLC evaluates it
where the module is extended (`used`), and a theorem to prove where the module is
instantiated (`DominatorsProofs`, `DeadCodeEliminationProofs`, `PREProofs`).

* `DataflowBasics`: `Typing`, from `TransferTyped` and `MeetTyped` (vectors stay in the
  domain).
* `DataflowProofs`, from `TransferAssumption` (the transfer leaves gen, kill and the
  meet side alone and applied again changes nothing), `TransferMonotone` and `MeetAssumption`:
  * `Stability`. The property alone is not inductive: in the middle of a sweep some
    visited blocks have read vectors that have changed since. `IInv` adds, for each
    position the sweep has passed (`Settled`), that the block is a fixed point of its own
    transfer and that its meet side is the meet of what each neighbour offered *then*: the
    value saved for a neighbour visited at that position or later, the present value of
    one visited before. At the end of a sweep the test says saved and present values are
    equal, so both descriptions agree for all blocks at once.
  * `OneWayTraffic`: no visit undoes what an earlier one did.
  * `Extremality`: what the vectors have passed on the way, no solution lies behind; with
    stability the answer of a converged run is the extremal solution.
  * `LoopFree`: on a function without loops every neighbour is visited first, so two
    sweeps settle everything and the cap is never met.
  * `Nesting`, from `BitByBit`: a run that is cut off, or comes to another sweep, has a path
    through the blocks, none of them twice, that goes against the order once for every
    sweep but the first. `BitByBit` says that a transfer holds a bit where the block sets
    it, or passes on what the meet has, and that the meet departs from the initial
    condition where one of its inputs does; the run `used` evaluates it. `NInv` follows each
    bit: a block that moved it in this sweep had it carried along such a path, against the
    order once for each sweep completed (`MovedAreCarried`), and where a block has yet to
    follow a neighbour, the neighbour moved in this sweep, or in the last one after the
    block was visited (`LagIsExplained`). That a path can be extended without meeting a
    block twice is because all its blocks have moved the bit and the new one has not.
* `DataflowBasics`, without `TransferAssumption`: three analyses of PRE flip a set of the block in place, and every
  second visit reads its complement. `FlipAssumption` says what such a transfer does:
  it may change gen and kill, and doing it twice changes them back. Without loops the
  answer is right all the same, provided the cap is odd, as five is
  (`SolvedAllTheSame`, `LoopFreeExtremal`). `SweepInv` follows the parity: in an odd
  sweep the sets are those of the info map and each block passed is solved; an even
  sweep computes from complements, but the vectors it *started* from are the solution,
  so that it either changes nothing or is followed by an odd one. For loops there is no
  such argument: the two kinds of sweeps may never agree, and then the cap decides.

### Dominators

For every function whose blocks have distinct names (`DistinctNames`; blocks that share
a name, such as the empty name clang leaves when value names are off, share a bit and an
entry of the map, which cannot tell them apart).

* `Soundness`, by induction over steps: a true dominator of a block, other than the
  block, dominates all its predecessors, and vectors of predecessors hold all their
  dominators. `DInv` adds what the members hold of the current function and that blocks
  that cannot be reached keep the full vector, which is their set of dominators.
* `Exactness`: by `Stability` the vectors solve the equations; by the lemma `CutSet`,
  the blocks whose vector lacks `d` are closed under successors other than `d`, hence
  every `d` in a vector is a dominator.
* `Answers`, `ImmediateAnswers` and `SearchFindsOne`: what clients are told is right if
  every run converges (`AlwaysConverges`). The hypothesis is needed: the finding
  `dominators_ladder` is a function whose run does not. `LoopFreeAnswers` needs none.
  That a block has one immediate dominator is `OneImmediateDominator` of
  `DominanceProofs`.
* `Settling` is `Nesting` for the pass. `ShallowAnswers` replaces the hypothesis by one
  about the functions alone, that none has a loop-free path with `MaxSweeps - 1` edges
  against the order: up to four blocks that is every function, with five sweeps.
* `Typing`, and `Refinement`: the pass implements the framework's `Spec`
  (`UsesFramework`); this is also how the framework's theorems apply to it. It is proved
  and not model-checked: TLC would compare each call with the inputs of all functions.

### Dead code elimination

`CInv` is the invariant, in five parts: the framework's (`P!TInv`), what the members hold
of the current function (`MembersOK`), that the vectors read later are still the initial
ones (`VectorsOK`), what is queued and erased so far (`DeletionOK`), and what a turn that
is over has left behind (`TurnsOK`).

* `Safety`: nothing an effect depends on is erased, for every function after any others
  and whatever the analysis says, because `use_empty` is asked at the moment of erasing
  and no operand of what is present is missing. `AnalysisIsIdle` is the reason it must
  be so: every instruction that is not live is collected.
* `Leftovers`, `OwnBits`, `Crashes`, `Typing` and `Refinement`, one for each of the other
  invariants of the run `dce` and for the object inside.

### Loop-invariant code motion

* `Typing`, for every sequence of functions.
* `NothingIsLost`: `HoistedCodeIsTakenAlong`, for every sequence of functions with any
  loops. `Taken` names the instructions of earlier functions that should stand in this
  one at each moment: none, those moved so far, or all the member holds of them.
  `HeldInv` is the property itself, relative to the typing of `Typing`; what there is to
  show is that a move either shifts an instruction that stands in one place
  (`HeldAfterMove`) or brings in one that stands nowhere (`HeldAfterTaking`), and that
  the member takes in only what is found in the function.
* `FormIsKept` and `OnePassSuffices`: on a first function that is `Simple`, every
  definition dominates its uses after every single move, and one pass over the blocks in
  reverse post-order finds every invariant computation. `OrderInv` says of the
  instructions found so far that each one's operands from the loop stand before it in the
  member, that nothing in the part of the loop walked so far has been missed, and, once
  they are being moved, that those moved stand in that order at the end of the preheader.

The hypotheses of the last two are those without which they are false, or were not
proved: a first function, because the member still holds what earlier ones left; two loops
that are worked on are the finding `licm_nested`; an operand that `getLoopInstructions`
leaves out is the finding `licm_load`.

### Landing-pad transformation

For functions whose loops are `WhileLoops`: typed, with loops as `LoopInfo` has them, and

* each loop is entered and left through its header only as far as the transformation is
  concerned: control comes into the other blocks from inside, the header decides between
  body and exit, and a block that goes back to the header goes nowhere else (`IsNatural`;
  this is what moving the condition relies on, `landing-pad.cpp:35`);
* the exit has no other predecessor and no phi node, and does not lead back to the header
  (`HasOwnExit`): with a phi node there the entries would be wrong, which is listed as a
  hazard (`:152`);
* phi nodes come first in the header, and no value has the name of one to be made
  (`HasHeader`);
* a loop around another holds its header and its exit, and is run later (`AreNested`);
* each phi node stands in one block, with one entry for each predecessor.

Nothing is said of how many loops there are, how they are nested or follow one another,
what else is in them, or how many ways they have out other than through the header. The
run `licm` evaluates the hypothesis for its functions but those that are there because
they are of another form (`MemoryLoopsAreWhileLoops`).

* `FormKept`: `OuterLoopsStayInForm`. The property alone is not inductive: between two
  loops the program is not one that a loop's form can be told of. `RotationInv` says for
  every step which program it was that the steps so far were applied to (`Split`,
  `Copied`, `Moved` of some `f`), that the loops from the present one on were while loops
  in it (`Sound(f, at)`), and that those in form at the start were in form in it
  (`KeepsForm`). Hence one lemma does the work, `JoinedIsSound`: all four steps applied
  to a program whose loops from `k` on are while loops leave one whose loops from `k + 1`
  on are. It rests on the graph after the four steps (`AfterJoin`,
  `PredecessorsTurned`: where control came from the exit it comes from the block behind
  it, and all other edges but those of four blocks are what they were), on the code
  (`JoinedCode`) and on the loops (`JoinedLoops`: those around have two blocks more). In
  form or not is decided for a later loop by whether its header lies within the one
  rotated or beside it (`StaysInForm`).
* `PhisKept`: `PhisStayInStep`, by the same invariant. Entries are renamed three times:
  the preheader becomes the landing pad in the header's nodes, the exit becomes the block
  behind it in those further on, and the nodes made have the latch and the preheader,
  which are by then the two ways to the exit (`JoinedPhis`).
* `NoNullPointer`: the pass comes to harm only in a loop that was out of form before it
  began. A loop without a preheader is skipped whatever else is wrong with it.

### Partial redundancy elimination

Which functions: those of `FunctionsAssumption`; `SplittingAssumption` says that what
edge splitting makes of one is a function again and that `po_iterator` traverses it,
which is a fact about LLVM, evaluated by TLC in the three runs.

* `OnlyReached`: code that cannot be reached stops the pass in its first analysis
  (`ScopeInv`), so that later invariants may speak of all blocks.
* `Typing`: `SortInv` says of each block how many of its predecessors have had their turn:
  they are the ones that told it of a definition, and its in-degree counts the others.
* `ExactlyTheLoops`: a set of blocks each of which waits for another in the set is never
  entered, and in the end those left are such a set. `LoopFreeVisitsAll` follows: among
  blocks without loops there is a first one.
* `DownSafety` and `EveryWayIsSupplied`, for functions without loops and an odd cap.
  The four analyses are instances of `DataflowBasics`, each of which ends with the
  solution of its equations; `FlowInv` says what is kept of it when the object is gone:
  anticipated means every path goes on to evaluate the expression before it changes
  (`NeededOK`); what is anticipated and not earliest has been anticipated before on
  every path (`Carried`); latest blocks are cut from those an earliest one is postponed
  to (`Chosen`); and what is replaced is inserted in the block or supplied by each
  predecessor (`Supplied`). `HandedInv` takes the last into the traversal: each block
  that has had its turn has told its successors of all it holds. `SortInv` turns "has
  told" into "has told once": the list is as long as there are predecessors.

### Only model-checked

* Liveness (`RunEnds`, `RunIsAnswered`, `RunReturns`, `FunctionEnds`, `PassesEnd`):
  fairness is beyond the prover.
* `SameEffects`, `ComputationallyOptimal` and `LifetimeOptimal` of PRE and
  `SameEffects` and `NothingComputedInVain` of the loop passes: executions, path weights
  and down-safe sets are recursive over the data.
* What `getExpressions` collects (a fold): the theorems about PRE hold whatever it is.

## Not modelled

* LLVM: use lists, the pass managers, the verifier and `isSafeToSpeculativelyExecute`
  are taken as given, in the few facts `IsFunction` and the functions' fields state;
  `Execution` says what instructions mean as far as the passes rely on it.
* Memory: objects are never freed in the code (`new` without `delete`), and
  addresses used again after an erasure are left out. So is a second function in the
  same `PRE` object: its members are written before they are read.
* PRE on functions with phi nodes of their own; switch and invoke terminators in the
  loop passes; phi nodes at a loop's exit and header values used outside the loop.
* `Expression::operator<`, which orders a map, and printing, debug information and
  command-line registration.

## Plan

1. Proofs: `EveryWayIsSupplied` taken on to the phi node made of the list
   (`JoinsAreWellFormed` without loops and where no block re-inserts a temporary). The
   entries that later replacements rewrite are computed by a fold over a block's code:
   what a fold computes for every input is induction over data.
2. `LandingPad`: the order of incoming values and phi nodes at the exit as inputs, with
   the properties that then hold.
3. PRE on functions with phi nodes, once the statement of what an operand defined by
   one may kill is settled.
