------------------------ MODULE DeadCodeElimination ------------------------
(***************************************************************************)
(* The DeadCodeElimination pass (DCE/src/deadCodeElimination.cpp): faint   *)
(* analysis on the Dataflow framework, then deletion block by block.       *)
(*                                                                         *)
(* Functions carry four fields more than CFG asks for:                     *)
(*    insts  block -> the sequence of its instructions                     *)
(*    ops    instruction -> the set of the instructions it uses            *)
(*    phis   the instructions that are phi nodes                           *)
(*    live   the instructions isLive holds of: terminators, debug          *)
(*           intrinsics, landing pads and whatever may have side effects   *)
(* Operands that are no instructions (constants, arguments) are never in   *)
(* the domain and are left out.                                            *)
(***************************************************************************)
EXTENDS CFG, Transfers, FiniteSets

CONSTANTS
  Functions,   \* the functions the pass manager may run the pass on
  MaxRuns,     \* bound on the functions one pass object sees
  MaxSweeps    \* as in Dataflow

VARIABLES
  fn,        \* the function of the current or the last run
  runs,      \* functions started
  domainToBitMap,   \* instruction of the domain -> its bit, counted from 1;
                    \* the domain is never emptied between functions
  present,   \* the instructions of fn not erased
  blk,       \* the block eliminateDeadCode is at, past F.end() when it is over
  insToDel,  \* positions in blk of what is left of the list collected for it,
             \* which runs from the last position to the first
  input, result, prev, idx, iter, converged, pc   \* the Dataflow object

passVars == <<fn, runs, domainToBitMap, present, blk, insToDel>>
dfaVars == <<input, result, prev, idx, iter, converged, pc>>
vars == <<passVars, dfaVars>>

Positions(f, b) == 1 .. Len(f.insts[b])

Code(f, b) == {f.insts[b][k] : k \in Positions(f, b)}

Instructions(f) == UNION {Code(f, b) : b \in Blocks(f)}

\* The last two conjuncts: each instruction stands at one place, and in code
\* that can be reached only a phi node uses what comes after it in its block.
ASSUME FunctionsAssumption ==
  \A f \in Functions :
    /\ IsFunction(f)
    /\ f.insts \in [Blocks(f) -> Seq(Instructions(f))]
    /\ IsFiniteSet(Instructions(f))
    /\ f.ops \in [Instructions(f) -> SUBSET Instructions(f)]
    /\ f.phis \subseteq Instructions(f) /\ f.live \subseteq Instructions(f)
    /\ \A b, c \in Blocks(f) : \A j \in Positions(f, b), k \in Positions(f, c) :
         f.insts[b][j] = f.insts[c][k] => b = c /\ j = k
    /\ \A b \in Visited(f) : \A j, k \in Positions(f, b) :
         f.insts[b][k] \in f.ops[f.insts[b][j]] /\ f.insts[b][j] \notin f.phis => k < j

ASSUME BoundsAssumption == MaxRuns \in Nat \ {0} /\ MaxSweeps \in Nat \ {0}

-----------------------------------------------------------------------------
NotLive(f) == Instructions(f) \ f.live

\* j comes before i in F.
Before(f, j, i) ==
  \E b, c \in Blocks(f) : \E k \in Positions(f, b), m \in Positions(f, c) :
    /\ f.insts[b][k] = j /\ f.insts[c][m] = i
    /\ b < c \/ (b = c /\ k < m)

\* setupDomain appends the instructions that are not live, in the order of F.
IndexOf(f, i) == Cardinality({j \in NotLive(f) : Before(f, j, i)}) + 1

\* domainToBitMap, which populateInfoMap assigns afresh for the whole domain.
Extended(toBit, f) ==
  [i \in DOMAIN toBit \cup NotLive(f) |->
     IF i \in NotLive(f) THEN Cardinality(DOMAIN toBit) + IndexOf(f, i) ELSE toBit[i]]

\* The bits of those of the given instructions that find(domain) finds.
Bits(toBit, is) == {toBit[i] : i \in is \cap DOMAIN toBit}

(***************************************************************************)
(* The gen and kill set of a block: its instructions from last to first.   *)
(* An instruction kills what it uses, and first of all what flows into the *)
(* phi nodes it uses; it generates itself unless it is killed already.     *)
(***************************************************************************)
ViaPhis(f, i) == UNION {f.ops[p] : p \in f.ops[i] \cap f.phis}

KilledAfter(f, b, k) ==
  UNION {f.ops[f.insts[b][j]] \cup ViaPhis(f, f.insts[b][j]) :
           j \in {j \in Positions(f, b) : j > k}}

KillSet(f, b) == KilledAfter(f, b, 0)

GenSet(f, b) ==
  {f.insts[b][k] : k \in {k \in Positions(f, b) :
     f.insts[b][k] \notin KilledAfter(f, b, k) \cup ViaPhis(f, f.insts[b][k])}}

\* Slip: bits counted from the first instruction of this function.
InputOfRecounted(f, toBit) ==
  LET own == [i \in NotLive(f) |-> IndexOf(f, i)]
  IN  [fn |-> f, domain |-> 1 .. Cardinality(DOMAIN toBit),
       infoMap |-> [b \in Visited(f) |-> [genSet |-> Bits(own, GenSet(f, b)),
                                          killSet |-> Bits(own, KillSet(f, b))]],
       member |-> [b \in Blocks(f) |-> {}]]

\* Slip: no entry for a block without instructions.
InputOfNonEmpty(f, toBit) ==
  [fn |-> f, domain |-> 1 .. Cardinality(DOMAIN toBit),
   infoMap |-> [b \in {c \in Visited(f) : Code(f, c) # {}} |->
                  [genSet |-> Bits(toBit, GenSet(f, b)),
                   killSet |-> Bits(toBit, KillSet(f, b))]],
   member |-> [b \in Blocks(f) |-> {}]]

\* populateInfoMap visits blocks in post-order, hence only those that can be
\* reached from the entry.
InputOf(f, toBit) ==
  [fn |-> f, domain |-> 1 .. Cardinality(DOMAIN toBit),
   infoMap |-> [b \in Visited(f) |-> [genSet |-> Bits(toBit, GenSet(f, b)),
                                      killSet |-> Bits(toBit, KillSet(f, b))]],
   member |-> [b \in Blocks(f) |-> {}]]

\* The maps a domain of instructions of these functions may have.
BitMaps ==
  UNION {[S -> 1 .. Cardinality(S)] : S \in SUBSET UNION {NotLive(f) : f \in Functions}}

DFA == INSTANCE Dataflow WITH
         Inputs <- {InputOf(f, toBit) : f \in Functions, toBit \in BitMaps},
         dir <- "BACKWARD", boundaryCond <- "full", initCond <- "full",
         meetFn <- IntersectionMeet, transferFn <- FaintTransfer

-----------------------------------------------------------------------------
Init ==
  /\ fn = << >> /\ runs = 0
  /\ domainToBitMap = << >>
  /\ present = {} /\ blk = 0 /\ insToDel = {}
  /\ DFA!Init

\* setupDomain, populateInfoMap and dce->run: domain keeps the instructions of
\* functions seen before, so their bits are in every vector.  The pass manager
\* hands over each function once, with instructions of its own.
RunOnFunction(f) ==
  /\ runs < MaxRuns
  /\ pc = "idle"
  /\ DOMAIN domainToBitMap \cap Instructions(f) = {}
  /\ runs > 0 => Instructions(fn) \cap Instructions(f) = {}
  /\ fn' = f /\ runs' = runs + 1
  /\ domainToBitMap' = Extended(domainToBitMap, f)
  /\ present' = Instructions(f) /\ blk' = 0 /\ insToDel' = {}
  /\ DFA!Construct(InputOf(f, domainToBitMap'))

Analyse == DFA!Run /\ UNCHANGED passVars

\* Slip: whatever is faint is erased.
UseEmptyIgnored(i) == TRUE

\* No instruction still there uses i.
UseEmpty(i) == \A j \in present : i \notin fn.ops[j]

\* Slip: live instructions are not skipped.
CollectedWithLive(b) == Positions(fn, b)

\* The instructions of the block that are not live and whose bit is set in
\* faintVal.
Collected(b) ==
  LET faintVal == result[b].bbInput
  IN  {k \in Positions(fn, b) : /\ fn.insts[b][k] \notin fn.live
                                /\ Bits(domainToBitMap, {fn.insts[b][k]}) \cap faintVal # {}}

EnterBlock ==
  /\ pc = "done"
  /\ insToDel = {}
  /\ blk < fn.n
  /\ blk' = blk + 1
  /\ insToDel' = Collected(blk + 1)
  /\ UNCHANGED <<fn, runs, domainToBitMap, present, dfaVars>>

\* Slip: the block is walked from first to last.
DeleteForward ==
  \E k \in insToDel :
    /\ \A j \in insToDel : k <= j
    /\ LET i == fn.insts[blk][k]
       IN  present' = IF UseEmpty(i) THEN present \ {i} ELSE present
    /\ insToDel' = insToDel \ {k}
    /\ UNCHANGED <<fn, runs, domainToBitMap, blk, dfaVars>>

\* Slip: an instruction in use stays at the head of the list.
DeleteRetrying ==
  \E k \in insToDel :
    /\ \A j \in insToDel : j <= k
    /\ LET i == fn.insts[blk][k]
       IN  IF UseEmpty(i) THEN present' = present \ {i} /\ insToDel' = insToDel \ {k}
                          ELSE UNCHANGED <<present, insToDel>>
    /\ UNCHANGED <<fn, runs, domainToBitMap, blk, dfaVars>>

\* use_empty, then eraseFromParent.  With no use left, replaceAllUsesWith
\* changes nothing.
Delete ==
  \E k \in insToDel :
    /\ \A j \in insToDel : j <= k
    /\ LET i == fn.insts[blk][k]
       IN  present' = IF UseEmpty(i) THEN present \ {i} ELSE present
    /\ insToDel' = insToDel \ {k}
    /\ UNCHANGED <<fn, runs, domainToBitMap, blk, dfaVars>>

Return ==
  /\ pc = "done"
  /\ blk = fn.n
  /\ insToDel = {}
  /\ DFA!Discard
  /\ UNCHANGED passVars

EliminateDeadCode == EnterBlock \/ Delete \/ Return

Next == Analyse \/ EliminateDeadCode \/ \E f \in Functions : RunOnFunction(f)

Spec == Init /\ [][Next]_vars

FairSpec == Spec /\ WF_vars(Analyse \/ EliminateDeadCode)

-----------------------------------------------------------------------------
\* runOnFunction has returned.
Returned == runs > 0 /\ pc = "idle"

(***************************************************************************)
(* Types; the analysis runs on the bits the domain has now, and what is    *)
(* queued for deletion is still there and is not live.                     *)
(***************************************************************************)
TypeOK ==
  /\ DFA!TypeOK
  /\ runs \in 0 .. MaxRuns
  /\ \A i \in DOMAIN domainToBitMap :
       domainToBitMap[i] \in 1 .. Cardinality(DOMAIN domainToBitMap)
  /\ pc # "idle" => runs > 0 /\ input = InputOf(fn, domainToBitMap)
  /\ runs > 0 => /\ blk \in 0 .. fn.n
                 /\ present \subseteq Instructions(fn)
                 /\ NotLive(fn) \subseteq DOMAIN domainToBitMap
                 /\ insToDel # {} => blk > 0 /\ insToDel \subseteq Positions(fn, blk)
                 /\ \A k \in insToDel : fn.insts[blk][k] \in present \ fn.live

\* What the function's effects depend on: the live instructions, what they
\* use, what those use, and so on.
Closed(f, S) == f.live \subseteq S /\ \A i \in S : f.ops[i] \subseteq S

Needed(f) ==
  {i \in Instructions(f) : \A S \in SUBSET Instructions(f) : Closed(f, S) => i \in S}

(***************************************************************************)
(* Whatever the analysis says, nothing an effect of the function depends   *)
(* on is erased (deadCodeElimination.cpp:96-102), and no instruction is    *)
(* left with an operand that is gone.                                      *)
(***************************************************************************)
NeededIsKept ==
  runs > 0 => /\ Needed(fn) \subseteq present
              /\ \A i \in present : fn.ops[i] \subseteq present

(***************************************************************************)
(* What the pass does remove: an instruction that is left over although    *)
(* nothing uses it any more lost its last user after its own turn, that is *)
(* in a later block of F, or as a phi node of its own block, which comes   *)
(* before it.  Other chains within a block go entirely, because users come *)
(* before what they use in the list (deadCodeElimination.cpp:77, 96).      *)
(***************************************************************************)
LeftoverLostItsUserLater ==
  Returned =>
    \A b \in Blocks(fn) : \A i \in (Code(fn, b) \cap present) \ fn.live :
      UseEmpty(i) =>
        \E c \in b .. fn.n : \E j \in Code(fn, c) \ present :
          i \in fn.ops[j] /\ (c = b => j \in fn.phis)

(***************************************************************************)
(* The domain is never emptied (line 65), yet the sets of a function speak *)
(* of its own instructions only, at the positions they have by now.        *)
(***************************************************************************)
BitsAreOwn ==
  pc \in {"sweep", "done"} =>
    \A b \in Blocks(fn) : \A i \in DOMAIN domainToBitMap :
      domainToBitMap[i] \in result[b].genSet \cup result[b].killSet => i \in Instructions(fn)

(***************************************************************************)
(* A function handed to the pass is finished, unless the pass crashed.     *)
(***************************************************************************)
RunReturns == pc = "initialize" ~> (Returned \/ pc = "crashed")

(***************************************************************************)
(* "check the faint value for this basic block" (line 72): what the vector *)
(* read there calls faint is nothing an effect of the function needs.      *)
(***************************************************************************)
FaintValueIsFaint ==
  pc = "done" /\ converged =>
    \A b \in Blocks(fn) : result[b].bbInput \cap Bits(domainToBitMap, Needed(fn)) = {}

(***************************************************************************)
(* "It also initializes the gen and kill set for each basic block" (lines  *)
(* 110-112) is true of the blocks that can be reached: the framework's     *)
(* null dereference (dataflow.cpp:67) is met on functions with a block     *)
(* that cannot, and on no other, whatever earlier functions have left.     *)
(***************************************************************************)
CrashesOnUnreachableOnly ==
  /\ pc = "crashed" => Visited(fn) # Blocks(fn)
  /\ pc \in {"sweep", "done"} => Visited(fn) = Blocks(fn)
=============================================================================
