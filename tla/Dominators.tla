----------------------------- MODULE Dominators -----------------------------
(***************************************************************************)
(* The Dominators pass (Dominators/src/dominators.cpp): one pass object    *)
(* whose members outlive the functions it runs on, and the Dataflow object *)
(* of the current function.                                                *)
(*                                                                         *)
(* Functions carry one field more than CFG asks for: name, the name of     *)
(* each block.  A bit position is the index of a block in F, counted from  *)
(* 1.  infoMap, keyed by block pointers, is overwritten for every block of *)
(* the current function, so its older entries are never read: it is part   *)
(* of the input of the Dataflow object and not a variable of its own.      *)
(***************************************************************************)
EXTENDS CFG, Transfers

CONSTANTS
  Functions,   \* the functions the pass manager may run the pass on
  MaxRuns,     \* bound on the functions one pass object sees
  MaxSweeps    \* as in Dataflow

VARIABLES
  domainToBitMap,   \* block name -> bit position
  bitToDomainMap,   \* bit position -> block name
  domMap,           \* block name -> names of its dominators
  fn,               \* the function of the current or the last run
  runs,             \* functions started
  input, result, prev, idx, iter, converged, pc   \* the Dataflow object

members == <<domainToBitMap, bitToDomainMap, domMap, fn, runs>>
dfaVars == <<input, result, prev, idx, iter, converged, pc>>
vars == <<members, dfaVars>>

ASSUME FunctionsAssumption ==
  \A f \in Functions : IsFunction(f) /\ DOMAIN f.name = Blocks(f)

ASSUME BoundsAssumption == MaxRuns \in Nat \ {0} /\ MaxSweeps \in Nat \ {0}

Names(f) == {f.name[b] : b \in Blocks(f)}

\* domainToBitMap[blk] = idx is assigned in the order of F: the last one stays.
PositionOf(f, nm) ==
  CHOOSE k \in Blocks(f) : f.name[k] = nm /\ \A j \in Blocks(f) : f.name[j] = nm => j <= k

Positions(f) == [nm \in Names(f) |-> PositionOf(f, nm)]

\* map[k] = entries[k] for each k that has an entry; other keys stay.  (Not @@,
\* which the provers cannot expand.)
Assign(map, entries) ==
  [k \in DOMAIN map \cup DOMAIN entries |->
     IF k \in DOMAIN entries THEN entries[k] ELSE map[k]]

\* populateInfoMap, given the domainToBitMap it has just updated.
InputOf(f, toBit) ==
  [fn |-> f, domain |-> Blocks(f),
   infoMap |-> [b \in Blocks(f) |-> [genSet |-> {toBit[f.name[b]]}, killSet |-> {}]],
   member |-> [b \in Blocks(f) |-> {}]]

DFA == INSTANCE Dataflow WITH
         Inputs <- {InputOf(f, Positions(f)) : f \in Functions},
         dir <- "FORWARD", boundaryCond <- "empty", initCond <- "full",
         meetFn <- IntersectionMeet, transferFn <- DominatorsTransfer

-----------------------------------------------------------------------------
Init ==
  /\ domainToBitMap = << >> /\ bitToDomainMap = << >> /\ domMap = << >>
  /\ fn = << >>
  /\ runs = 0
  /\ DFA!Init

\* Slip: bitToDomainMap is not kept in step.
RunOnFunctionOneMap(f) ==
  /\ runs < MaxRuns
  /\ runs' = runs + 1
  /\ fn' = f
  /\ domainToBitMap' = Assign(domainToBitMap, Positions(f))
  /\ DFA!Construct(InputOf(f, domainToBitMap'))
  /\ UNCHANGED <<bitToDomainMap, domMap>>

\* runOnFunction up to dfa->run: the members keep what earlier functions left.
RunOnFunction(f) ==
  /\ runs < MaxRuns
  /\ runs' = runs + 1
  /\ fn' = f
  /\ domainToBitMap' = Assign(domainToBitMap, Positions(f))
  /\ bitToDomainMap' = Assign(bitToDomainMap, f.name)
  /\ DFA!Construct(InputOf(f, domainToBitMap'))
  /\ UNCHANGED domMap

Analyse == DFA!Run /\ UNCHANGED members

\* The names at the positions a vector holds.
NamesAt(vector) == {bitToDomainMap[k] : k \in vector}

\* Blocks that share a name write the same entry, in the order of their
\* addresses: any one of them may be the last.
LastWriters(f) ==
  {W \in SUBSET Blocks(f) :
     /\ {f.name[b] : b \in W} = Names(f)
     /\ \A b, c \in W : f.name[b] = f.name[c] => b = c}

DomEntries(f, W) ==
  [nm \in Names(f) |-> NamesAt(result[CHOOSE b \in W : f.name[b] = nm].bbOutput)]

\* Slip: map::insert, which leaves the entries of earlier functions alone.
GenerateDomMapInserting ==
  /\ pc = "done"
  /\ \E W \in LastWriters(fn) :
       domMap' = [nm \in DOMAIN domMap \cup Names(fn) |->
                    IF nm \in DOMAIN domMap THEN domMap[nm] ELSE DomEntries(fn, W)[nm]]
  /\ DFA!Discard
  /\ UNCHANGED <<domainToBitMap, bitToDomainMap, fn, runs>>

GenerateDomMap ==
  /\ pc = "done"
  /\ \E W \in LastWriters(fn) : domMap' = Assign(domMap, DomEntries(fn, W))
  /\ DFA!Discard
  /\ UNCHANGED <<domainToBitMap, bitToDomainMap, fn, runs>>

Next == Analyse \/ GenerateDomMap \/ \E f \in Functions : RunOnFunction(f)

Spec == Init /\ [][Next]_vars

\* runOnFunction is one call: once begun it goes on to its end.
FairSpec == Spec /\ WF_vars(Analyse \/ GenerateDomMap)

-----------------------------------------------------------------------------
\* Slip: the arguments of contains swapped.
ImmediateDominatorsSwapped(nm) ==
  {d \in domMap[nm] \ {nm} : domMap[d] \subseteq domMap[nm] \ {nm}}

\* getImmediateDominator returns the first of these, or "" if there is none.
ImmediateDominators(nm) ==
  {d \in domMap[nm] \ {nm} : domMap[nm] \ {nm} \subseteq domMap[d]}

\* A run has ended and the map of its function can be asked for.
Answered == runs > 0 /\ pc = "idle"

(***************************************************************************)
(* Types.                                                                  *)
(***************************************************************************)
TypeOK ==
  /\ DFA!TypeOK
  /\ runs \in 0 .. MaxRuns
  /\ runs > 0 => IsFunction(fn) /\ DOMAIN fn.name = Blocks(fn)
  /\ pc # "idle" => runs > 0 /\ input = InputOf(fn, domainToBitMap)
  /\ runs > 0 =>
       /\ Names(fn) \subseteq DOMAIN domainToBitMap
       /\ \A k \in Blocks(fn) : k \in DOMAIN bitToDomainMap /\ bitToDomainMap[k] = fn.name[k]

(***************************************************************************)
(* At every moment of the analysis a block's vector holds all its true     *)
(* dominators (dominators.h:20-22): iteration only removes blocks that can *)
(* be avoided, also when it is cut short.  A name two blocks share breaks  *)
(* the correspondence, so this is about functions with distinct names.     *)
(***************************************************************************)
NoDominatorLost ==
  pc \in {"sweep", "done"} =>
    \A b, d \in Blocks(fn) : Dominates(fn, d, b) => d \in result[b].bbOutput

(***************************************************************************)
(* If the analysis stops by convergence, a block's vector is exactly the   *)
(* set of its dominators (dominators.h:20-22), also for a block that       *)
(* cannot be reached, which every block dominates.                         *)
(***************************************************************************)
ConvergedIsExact ==
  pc = "done" /\ converged =>
    \A b \in Blocks(fn) : result[b].bbOutput = Dominators(fn, b)

(***************************************************************************)
(* What a caller of getDomMap is promised (dominators.h:32-41): after each *)
(* run, and whatever functions the same pass object has seen before, the   *)
(* value of a block's name is the set of names of its dominators.          *)
(***************************************************************************)
DomMapIsDominance ==
  Answered =>
    \A b \in Blocks(fn) : domMap[fn.name[b]] = {fn.name[d] : d \in Dominators(fn, b)}

(***************************************************************************)
(* The search of getImmediateDominator finds at most one name, whatever    *)
(* order it looks in: the immediate dominator of a block that can be       *)
(* reached (dominators.cpp:70-85), and none for the entry.                 *)
(***************************************************************************)
ImmediateDominatorIsUnique ==
  Answered =>
    \A b \in Visited(fn) :
      ImmediateDominators(fn.name[b]) =
        {fn.name[m] : m \in {m \in Blocks(fn) : IsImmediateDominator(fn, m, b)}}

(***************************************************************************)
(* A run settles in as many sweeps as its loops are deep, plus the one     *)
(* that sees it: the cap of five (dataflow.cpp:119) is then not met.       *)
(***************************************************************************)
SettlesByNesting == DFA!SettlesByNesting

(***************************************************************************)
(* The Dataflow object the pass drives only ever does what the framework   *)
(* does.                                                                   *)
(***************************************************************************)
UsesFramework == DFA!Spec

(***************************************************************************)
(* A function handed to the pass gets its answer.                          *)
(***************************************************************************)
RunIsAnswered == pc = "initialize" ~> Answered
=============================================================================
