------------------------------ MODULE Dataflow ------------------------------
(***************************************************************************)
(* The iterative dataflow framework (Dataflow/src/dataflow.cpp): an object *)
(* of class Dataflow is constructed for one function and run on it once.   *)
(* Every analysis of the repository is a subclass that supplies transferFn *)
(* and meetFn; here they are constant operators, so that one module stands *)
(* for all subclasses.                                                     *)
(*                                                                         *)
(* A BitVector is the set of positions that hold 1, a subset of the domain *)
(* of the run.  What a client hands over is one record, an input:          *)
(*    fn       the function (see CFG)                                      *)
(*    domain   the set of bit positions, of size domainSize                *)
(*    infoMap  block -> [genSet, killSet], for the blocks it has           *)
(*    member   block -> the vector the subclass keeps of its own           *)
(*             (anticipated, earliest or latest in PRE)                    *)
(***************************************************************************)
EXTENDS CFG

CONSTANTS
  Inputs,               \* the inputs clients run the framework on
  dir,                  \* "FORWARD" or "BACKWARD"
  boundaryCond,         \* "empty" or "full"
  initCond,             \* "empty" or "full"
  MaxSweeps,            \* `iterations`, 5 in the code
  meetFn(_),            \* a set of vectors -> their meet
  transferFn(_, _, _)   \* domain, own vector, block properties -> properties

VARIABLES
  input,      \* what the current object was constructed and run with
  result,     \* block -> [bbInput, bbOutput, genSet, killSet]
  prev,       \* prevInput or prevOutput: the one the convergence test reads
  idx,        \* position of the sweep in the traversal
  iter,       \* sweeps completed
  converged,
  pc          \* "idle", "initialize", "sweep", "done" or "crashed"

vars == <<input, result, prev, idx, iter, converged, pc>>

IsInput(in) ==
  /\ IsFunction(in.fn)
  /\ DOMAIN in.infoMap \subseteq Blocks(in.fn)
  /\ in.infoMap \in [DOMAIN in.infoMap ->
                       [genSet : SUBSET in.domain, killSet : SUBSET in.domain]]
  /\ in.member \in [Blocks(in.fn) -> SUBSET in.domain]

ASSUME InputsAssumption == \A in \in Inputs : IsInput(in)

ASSUME FrameworkAssumption ==
  /\ dir \in {"FORWARD", "BACKWARD"}
  /\ boundaryCond \in {"empty", "full"}
  /\ initCond \in {"empty", "full"}
  /\ MaxSweeps \in Nat \ {0}

-----------------------------------------------------------------------------
F == input.fn

Props(domain) == [bbInput : SUBSET domain, bbOutput : SUBSET domain,
                  genSet : SUBSET domain, killSet : SUBSET domain]

\* Slip: full and empty mistaken for each other.
VectorInverted(cond) == IF cond = "full" THEN {} ELSE input.domain

Vector(cond) == IF cond = "full" THEN input.domain ELSE {}

\* A return makes a block EXIT even when it is the entry block.
BlockType(b) ==
  IF b \in F.ret THEN "EXIT" ELSE IF b = Entry THEN "ENTRY" ELSE "REGULAR"

InitialProps(b) ==
  [bbInput  |-> IF dir = "BACKWARD" THEN Vector(initCond)
                ELSE IF BlockType(b) = "ENTRY" THEN Vector(boundaryCond) ELSE {},
   bbOutput |-> IF dir = "FORWARD" THEN Vector(initCond)
                ELSE IF BlockType(b) = "EXIT" THEN Vector(boundaryCond) ELSE {},
   genSet   |-> input.infoMap[b].genSet,
   killSet  |-> input.infoMap[b].killSet]

\* Slip: the two traversal vectors swapped.
TraversalBackwards(i) ==
  IF dir = "FORWARD" THEN F.po[i] ELSE F.po[Len(F.po) + 1 - i]

\* Position i of rpoTraversal or poTraversal.
Traversal(i) == IF dir = "FORWARD" THEN F.po[Len(F.po) + 1 - i] ELSE F.po[i]

\* The blocks whose vectors meet at b.
Neighbours(b) ==
  IF dir = "FORWARD" THEN Predecessors(F, b) ELSE Successors(F, b)

\* The vector a block offers its neighbours, which is also the one compared
\* for convergence, and the vector the meet is stored in.
FlowSide(p) == IF dir = "FORWARD" THEN p.bbOutput ELSE p.bbInput
MeetSide(p) == IF dir = "FORWARD" THEN p.bbInput ELSE p.bbOutput

WithMeet(p, v) ==
  IF dir = "FORWARD" THEN [p EXCEPT !.bbInput = v] ELSE [p EXCEPT !.bbOutput = v]

\* Slip: the meet reads the other vector of each neighbour.
MeetInputsOfOtherSide(b) == {MeetSide(result[q]) : q \in Neighbours(b)}

MeetInputs(b) == {FlowSide(result[q]) : q \in Neighbours(b)}

\* A block without neighbours keeps what initialize gave it.
AfterMeet(b) ==
  IF Neighbours(b) = {} THEN result[b] ELSE WithMeet(result[b], meetFn(MeetInputs(b)))

Visit(b) == transferFn(input.domain, input.member[b], AfterMeet(b))

\* Slip: the test gives up at the first block that did not change.
UnchangedSomewhere == \E b \in DOMAIN prev : FlowSide(result[b]) = prev[b]

\* The convergence test: no block's flow side changed in the sweep.
Unchanged == \A b \in DOMAIN prev : FlowSide(result[b]) = prev[b]

-----------------------------------------------------------------------------
Init ==
  /\ input = << >> /\ result = << >> /\ prev = << >>
  /\ idx = 1 /\ iter = 0 /\ converged = FALSE
  /\ pc = "idle"

\* new Analysis(...), then run(F, infoMap) is called.
Construct(in) ==
  /\ pc = "idle"
  /\ input' = in
  /\ pc' = "initialize"
  /\ UNCHANGED <<result, prev, idx, iter, converged>>

\* The client has read the result and never looks at the object again.
Discard ==
  /\ pc = "done"
  /\ input' = << >> /\ result' = << >> /\ prev' = << >>
  /\ idx' = 1 /\ iter' = 0 /\ converged' = FALSE
  /\ pc' = "idle"

\* infoMap[&BB] is the null pointer for a block the client left out, and is
\* dereferenced.
Initialize ==
  /\ pc = "initialize"
  /\ IF Blocks(F) \subseteq DOMAIN input.infoMap
       THEN /\ result' = [b \in Blocks(F) |-> InitialProps(b)]
            /\ pc' = "sweep"
       ELSE /\ pc' = "crashed"
            /\ UNCHANGED result
  /\ UNCHANGED <<input, prev, idx, iter, converged>>

\* Slip: the vectors before the visit are not saved.
VisitBlockUnsaved ==
  /\ pc = "sweep"
  /\ idx <= Len(F.po)
  /\ result' = [result EXCEPT ![Traversal(idx)] = Visit(Traversal(idx))]
  /\ idx' = idx + 1
  /\ UNCHANGED <<input, prev, iter, converged, pc>>

\* Slip: the iterator is not advanced.
VisitBlockAgain ==
  /\ pc = "sweep"
  /\ idx <= Len(F.po)
  /\ result' = [result EXCEPT ![Traversal(idx)] = Visit(Traversal(idx))]
  /\ UNCHANGED <<input, prev, idx, iter, converged, pc>>

VisitBlock ==
  /\ pc = "sweep"
  /\ idx <= Len(F.po)
  /\ LET b == Traversal(idx) IN
       /\ prev' = [x \in DOMAIN prev \cup {b} |->
                     IF x = b THEN FlowSide(result[b]) ELSE prev[x]]
       /\ result' = [result EXCEPT ![b] = Visit(b)]
  /\ idx' = idx + 1
  /\ UNCHANGED <<input, iter, converged, pc>>

EndSweep ==
  /\ pc = "sweep"
  /\ idx > Len(F.po)
  /\ converged' = Unchanged
  /\ iter' = iter + 1
  /\ idx' = 1
  /\ pc' = IF converged' \/ iter' = MaxSweeps THEN "done" ELSE "sweep"
  /\ UNCHANGED <<input, result, prev>>

Run == Initialize \/ VisitBlock \/ EndSweep

Next == Run \/ Discard \/ \E in \in Inputs : Construct(in)

Spec == Init /\ [][Next]_vars

\* run() is called by the client and is a plain loop: once started it goes on.
FairSpec == Spec /\ WF_vars(Run)

-----------------------------------------------------------------------------
(***************************************************************************)
(* Types.  Before initialize the result map is empty; a sweep leaves prev  *)
(* with an entry for each block it has passed.                             *)
(***************************************************************************)
TypeOK ==
  /\ pc \in {"idle", "initialize", "sweep", "done", "crashed"}
  /\ idx \in Nat \ {0}
  /\ iter \in 0 .. MaxSweeps
  /\ converged \in BOOLEAN
  /\ pc # "idle" => IsInput(input)
  /\ pc \in {"idle", "initialize"} => idx = 1 /\ iter = 0 /\ prev = << >>
  /\ pc = "sweep" => iter < MaxSweeps
  /\ pc \in {"sweep", "done"} =>
       /\ result \in [Blocks(F) -> Props(input.domain)]
       /\ idx <= Len(F.po) + 1
       /\ DOMAIN prev \subseteq Visited(F)
       /\ \A b \in DOMAIN prev : prev[b] \in SUBSET input.domain
       /\ \A k \in 1 .. idx - 1 : Traversal(k) \in DOMAIN prev

(***************************************************************************)
(* What `converged` promises (the comment at dataflow.cpp:159): when run() *)
(* stops because a sweep changed nothing, visiting any block once more     *)
(* would change nothing either.  A sweep compares only one of the two      *)
(* vectors of a block, and updates in place while it compares with values  *)
(* saved at different moments, so this is not what the test itself says.   *)
(***************************************************************************)
StableOnConvergence ==
  pc = "done" /\ converged => \A b \in Visited(F) : Visit(b) = result[b]

(***************************************************************************)
(* Vectors only move away from the initial condition: from full they lose  *)
(* bits, from empty they gain them.  The loop at dataflow.cpp:121 has no   *)
(* other reason to converge.                                               *)
(***************************************************************************)
OneWay ==
  \A b \in DOMAIN result :
    IF initCond = "full"
      THEN FlowSide(result'[b]) \subseteq FlowSide(result[b])
      ELSE FlowSide(result[b]) \subseteq FlowSide(result'[b])

MovesOneWay == [][VisitBlock => OneWay]_vars

(***************************************************************************)
(* The answer the run owes its client, stated without sweeps: the extremal *)
(* solution of the client's equations over the blocks that can be reached, *)
(* with the gen and kill sets of the info map (dataflow.h:40-48), greatest *)
(* when iteration starts from full and least when it starts from empty.    *)
(***************************************************************************)
Equation(sol, b) ==
  LET near == Neighbours(b) \cap Visited(F)
      held == IF near = {} THEN MeetSide(InitialProps(b))
                           ELSE meetFn({sol[q] : q \in near})
  IN  FlowSide(transferFn(input.domain, input.member[b],
                          WithMeet(InitialProps(b), held)))

Solutions ==
  {sol \in [Visited(F) -> SUBSET input.domain] :
     \A b \in Visited(F) : sol[b] = Equation(sol, b)}

IsExtremal(sol) ==
  /\ sol \in Solutions
  /\ \A other \in Solutions : \A b \in Visited(F) :
       IF initCond = "full" THEN other[b] \subseteq sol[b] ELSE sol[b] \subseteq other[b]

Answer == [b \in Visited(F) |-> FlowSide(result[b])]

(***************************************************************************)
(* A converged run answers with the extremal solution.                     *)
(***************************************************************************)
AnswerIsExtremal == pc = "done" /\ converged => IsExtremal(Answer)

(***************************************************************************)
(* A run whose loops are nested d deep settles in d + 1 sweeps and needs   *)
(* one more to see it: a run that stops after more than d + 2 sweeps, or   *)
(* that is cut off after more than d + 1, was on a function with a deeper  *)
(* nest.  This is what makes it sound to give up after five                *)
(* (dataflow.cpp:119) on code that is not too deeply nested.               *)
(***************************************************************************)
SettlesByNesting ==
  pc = "done" =>
    /\ iter > 1 => LoopConnected(F, iter - 2)
    /\ ~ converged => LoopConnected(F, iter - 1)

(***************************************************************************)
(* A run that was started ends, by convergence or by the cap on sweeps.    *)
(***************************************************************************)
RunEnds == pc = "initialize" ~> pc \in {"done", "crashed"}
=============================================================================
