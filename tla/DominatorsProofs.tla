-------------------------- MODULE DominatorsProofs --------------------------
(***************************************************************************)
(* The Dominators pass computes dominance, for every function whose blocks *)
(* have names of their own.                                                *)
(***************************************************************************)
EXTENDS Dominators, DominanceProofs

ASSUME DistinctNames ==
  \A f \in Functions : \A i, j \in Blocks(f) : f.name[i] = f.name[j] => i = j

P == INSTANCE DataflowProofs WITH
       Inputs <- {InputOf(f, Positions(f)) : f \in Functions},
       dir <- "FORWARD", boundaryCond <- "empty", initCond <- "full",
       meetFn <- IntersectionMeet, transferFn <- DominatorsTransfer

-----------------------------------------------------------------------------
\* What populateInfoMap makes of a function: each block generates itself.
Plain(f) ==
  [fn |-> f, domain |-> Blocks(f),
   infoMap |-> [b \in Blocks(f) |-> [genSet |-> {b}, killSet |-> {}]],
   member |-> [b \in Blocks(f) |-> {}]]

LEMMA PositionsLemma ==
  ASSUME NEW f \in Functions, NEW b \in Blocks(f)
  PROVE  f.name[b] \in DOMAIN Positions(f) /\ Positions(f)[f.name[b]] = b
<1>1. f.name[b] \in Names(f)
  BY DEF Names
<1>2. b <= b /\ \A j \in Blocks(f) : f.name[j] = f.name[b] => j = b
  BY DistinctNames DEF Blocks
<1>3. \E k \in Blocks(f) :
        f.name[k] = f.name[b] /\ \A j \in Blocks(f) : f.name[j] = f.name[b] => j <= k
  BY <1>2
<1>4. PositionOf(f, f.name[b]) = b
  BY <1>2, <1>3 DEF PositionOf
<1>5. QED
  BY <1>1, <1>4 DEF Positions

LEMMA InputLemma ==
  ASSUME NEW f \in Functions, NEW toBit,
         \A b \in Blocks(f) : toBit[f.name[b]] = b
  PROVE  InputOf(f, toBit) = Plain(f)
  BY DEF InputOf, Plain

LEMMA InputsLemma ==
  ASSUME NEW in \in {InputOf(f, Positions(f)) : f \in Functions}
  PROVE  \E f \in Functions : in = Plain(f)
  BY PositionsLemma, InputLemma

-----------------------------------------------------------------------------
(***************************************************************************)
(* The pass meets the assumptions under which the framework is proved.     *)
(***************************************************************************)
LEMMA SameCFG ==
  /\ P!Entry = Entry
  /\ \A f : P!Blocks(f) = Blocks(f) /\ P!Visited(f) = Visited(f)
  /\ \A f, b : P!Predecessors(f, b) = Predecessors(f, b)
  /\ \A f : P!IsFunction(f) = IsFunction(f) /\ P!Acyclic(f) = Acyclic(f)
<1>1. P!Entry = Entry
  BY DEF P!Entry, Entry
<1>2. \A f : P!Blocks(f) = Blocks(f)
  BY DEF P!Blocks, Blocks
<1>3. \A f : P!Visited(f) = Visited(f)
  BY DEF P!Visited, Visited
<1>4. \A f, b : P!Successors(f, b) = Successors(f, b)
  BY DEF P!Successors, Successors
<1>5. \A f, b : P!Predecessors(f, b) = Predecessors(f, b)
  BY <1>2, <1>4 DEF P!Predecessors, Predecessors
<1>6. \A f : P!IsFunction(f) = IsFunction(f)
  BY <1>1, <1>2, <1>3, <1>4, <1>5 DEF P!IsFunction, IsFunction
<1>7. \A f : P!Acyclic(f) = Acyclic(f)
  BY <1>4 DEF P!Acyclic, Acyclic
<1>8. QED
  BY <1>1, <1>2, <1>3, <1>5, <1>6, <1>7

LEMMA InputsAreWellFormed == P!InputsAssumption
<1>. SUFFICES ASSUME NEW in \in {InputOf(f, Positions(f)) : f \in Functions}
              PROVE  P!IsInput(in)
  BY DEF P!InputsAssumption
<1>1. PICK f \in Functions : in = Plain(f)
  BY InputsLemma
<1>2. in.fn = f /\ in.domain = Blocks(f)
  BY <1>1 DEF Plain
<1>3. P!IsFunction(in.fn)
  BY <1>2, FunctionsAssumption, SameCFG
<1>4. /\ DOMAIN in.infoMap = Blocks(f)
      /\ in.infoMap \in [Blocks(f) -> [genSet : SUBSET Blocks(f), killSet : SUBSET Blocks(f)]]
      /\ in.member \in [Blocks(f) -> SUBSET Blocks(f)]
  BY <1>1 DEF Plain
<1>5. QED
  BY <1>2, <1>3, <1>4, SameCFG DEF P!IsInput

LEMMA FrameworkIsSetUp == P!FrameworkAssumption
  BY BoundsAssumption DEF P!FrameworkAssumption

LEMMA TransferIsTyped == P!TransferTyped
<1>. SUFFICES ASSUME NEW in \in {InputOf(f, Positions(f)) : f \in Functions},
                     NEW b, NEW p \in P!Props(in.domain)
              PROVE  DominatorsTransfer(in.domain, in.member[b], p) \in P!Props(in.domain)
  BY DEF P!TransferTyped
<1>1. QED
  BY DEF P!Props, DominatorsTransfer

LEMMA TransferBehaves == P!TransferAssumption
  BY DEF P!TransferAssumption, P!Props, P!MeetSide, DominatorsTransfer

LEMMA TransferIsMonotone == P!TransferMonotone
  BY DEF P!TransferMonotone, P!Props, P!MeetSide, P!FlowSide, DominatorsTransfer

LEMMA MeetIsTyped == P!MeetTyped
  BY DEF P!MeetTyped, IntersectionMeet

LEMMA MeetBehaves == P!MeetAssumption
<1>. SUFFICES ASSUME NEW U, NEW vs \in (SUBSET SUBSET U) \ {{}},
                     NEW ws \in (SUBSET SUBSET U) \ {{}}
              PROVE  /\ /\ \A v \in vs : \E w \in ws : v \subseteq w
                        /\ \A w \in ws : \E v \in vs : v \subseteq w
                        => IntersectionMeet(vs) \subseteq IntersectionMeet(ws)
                     /\ IntersectionMeet(vs \cup {U}) = IntersectionMeet(vs)
  BY DEF P!MeetAssumption
<1>1. ASSUME \A v \in vs : \E w \in ws : v \subseteq w,
             \A w \in ws : \E v \in vs : v \subseteq w
      PROVE  IntersectionMeet(vs) \subseteq IntersectionMeet(ws)
  BY <1>1 DEF IntersectionMeet
<1>2. IntersectionMeet(vs \cup {U}) = IntersectionMeet(vs)
  BY DEF IntersectionMeet
<1>3. QED
  BY <1>1, <1>2

\* All of them, for the lemmas of the framework to be applied.
LEMMA FrameworkApplies ==
  /\ P!InputsAssumption /\ P!FrameworkAssumption
  /\ P!TransferTyped /\ P!TransferAssumption /\ P!TransferMonotone
  /\ P!MeetTyped /\ P!MeetAssumption
  BY InputsAreWellFormed, FrameworkIsSetUp, TransferIsTyped, TransferBehaves,
     TransferIsMonotone, MeetIsTyped, MeetBehaves

-----------------------------------------------------------------------------
(***************************************************************************)
(* A solution of the equations that holds d at b has d dominate b: the     *)
(* blocks whose vector lacks d are closed under successors other than d.   *)
(***************************************************************************)
LEMMA CutSet ==
  ASSUME NEW f, IsFunction(f), Visited(f) \subseteq Blocks(f),
         NEW out,
         \A x \in Visited(f) : x \in out[x],
         out[Entry] = {Entry},
         \A x \in Visited(f) \ {Entry} : \A y \in out[x] \ {x} :
           \A p \in Predecessors(f, x) : y \in out[p],
         NEW b \in Visited(f), NEW d \in out[b]
  PROVE  Dominates(f, d, b)
<1>. DEFINE S == {x \in Visited(f) : d \notin out[x]}
<1>1. S \in SUBSET Blocks(f) /\ b \notin S /\ d \notin S
  OBVIOUS
<1>2. Entry \in S \cup {d}
  BY DEF IsFunction
<1>3. ASSUME NEW x \in S, NEW y \in Successors(f, x)
      PROVE  y \in S \cup {d}
  <2>1. y \in Visited(f) /\ x \in Predecessors(f, y)
    BY <1>3 DEF IsFunction, Predecessors
  <2>2. y # Entry
    BY <2>1 DEF IsFunction
  <2>3. QED
    BY <2>1, <2>2
<1>4. QED
  BY <1>1, <1>2, <1>3 DEF Dominates, Avoids

-----------------------------------------------------------------------------
(***************************************************************************)
(* The inductive invariant: what the framework keeps (P!IInv), what the    *)
(* members hold of the current function, and that no dominator is lost.    *)
(***************************************************************************)
MembersOK ==
  /\ runs \in 0 .. MaxRuns
  /\ runs > 0 =>
       /\ fn \in Functions
       /\ \A b \in Blocks(fn) :
            /\ fn.name[b] \in DOMAIN domainToBitMap
            /\ domainToBitMap[fn.name[b]] = b
            /\ b \in DOMAIN bitToDomainMap
            /\ bitToDomainMap[b] = fn.name[b]
  /\ pc # "idle" => runs > 0 /\ input = Plain(fn)

VectorsOK ==
  pc \in {"sweep", "done"} =>
    /\ \A b \in Blocks(fn) : result[b].genSet = {b}
    /\ result[Entry].bbInput = {}
    /\ \A b \in Blocks(fn) \ Visited(fn) : result[b].bbOutput = Blocks(fn)

DInv == P!IInv /\ MembersOK /\ VectorsOK /\ NoDominatorLost

\* What DInv says of a state in which the analysis is under way.
LEMMA RunningFacts ==
  ASSUME DInv, pc \in {"initialize", "sweep", "done"}
  PROVE  /\ fn \in Functions /\ IsFunction(fn) /\ input = Plain(fn)
         /\ P!F = fn /\ input.domain = Blocks(fn)
         /\ Visited(fn) \subseteq Blocks(fn)
         /\ Entry \in Blocks(fn)
         /\ pc # "initialize" => result \in [Blocks(fn) -> P!Props(Blocks(fn))]
<1>1. fn \in Functions /\ IsFunction(fn) /\ input = Plain(fn)
  BY FunctionsAssumption DEF DInv, MembersOK
<1>2. P!F = fn /\ input.domain = Blocks(fn)
  BY <1>1 DEF P!F, Plain
<1>3. Visited(fn) \subseteq Blocks(fn)
  BY <1>1 DEF Visited, IsFunction
<1>4. pc # "initialize" => result \in [Blocks(fn) -> P!Props(Blocks(fn))]
  BY <1>2, SameCFG DEF DInv, P!IInv, P!SInv, P!TInv, P!TypeOK
<1>5. QED
  BY <1>1, <1>2, <1>3, <1>4 DEF IsFunction

(***************************************************************************)
(* What the framework's steps are, for this subclass.                      *)
(***************************************************************************)
LEMMA StepsLemma ==
  /\ DFA!Init => P!Init
  /\ \A in : DFA!Construct(in) => P!Construct(in)
  /\ DFA!Discard => P!Discard
  /\ DFA!Initialize => P!Initialize
  /\ DFA!EndSweep => P!EndSweep
  /\ DFA!VisitBlock => P!VisitBlock
<1>1. DFA!Init => P!Init
  BY DEF DFA!Init, P!Init
<1>2. \A in : DFA!Construct(in) => P!Construct(in)
  BY DEF DFA!Construct, P!Construct
<1>3. DFA!Discard => P!Discard
  BY DEF DFA!Discard, P!Discard
<1>4. DFA!Initialize => P!Initialize
  BY DEF DFA!Initialize, P!Initialize, DFA!F, P!F, DFA!Blocks, P!Blocks,
         DFA!InitialProps, P!InitialProps, DFA!BlockType, P!BlockType,
         DFA!Vector, P!Vector, DFA!Entry, P!Entry
<1>5. DFA!EndSweep => P!EndSweep
  BY DEF DFA!EndSweep, P!EndSweep, DFA!F, P!F, DFA!Unchanged, P!Unchanged,
         DFA!FlowSide, P!FlowSide
<1>6. DFA!VisitBlock => P!VisitBlock
  BY DEF DFA!VisitBlock, P!VisitBlock, DFA!F, P!F, DFA!Traversal, P!Traversal,
         DFA!FlowSide, P!FlowSide, DFA!Visit, P!Visit, DFA!AfterMeet, P!AfterMeet,
         DFA!Neighbours, P!Neighbours, DFA!Predecessors, P!Predecessors,
         DFA!Successors, P!Successors, DFA!Blocks, P!Blocks,
         DFA!MeetInputs, P!MeetInputs, DFA!WithMeet, P!WithMeet
<1>7. QED
  BY <1>1, <1>2, <1>3, <1>4, <1>5, <1>6

\* One visit, for this subclass.
LEMMA VisitFacts ==
  ASSUME DInv, pc \in {"sweep", "done"}, NEW b \in Blocks(fn)
  PROVE  /\ P!Visit(b).genSet = {b}
         /\ P!Visit(b).bbOutput = P!Visit(b).bbInput \cup {b}
         /\ Predecessors(fn, b) = {} => P!Visit(b).bbInput = result[b].bbInput
         /\ Predecessors(fn, b) # {} =>
              P!Visit(b).bbInput =
                IntersectionMeet({result[q].bbOutput : q \in Predecessors(fn, b)})
<1>. DEFINE a == P!AfterMeet(b)
<1>1. result[b] \in P!Props(Blocks(fn)) /\ result[b].genSet = {b}
  BY RunningFacts DEF DInv, VectorsOK
<1>2. P!Neighbours(b) = Predecessors(fn, b)
  BY RunningFacts, SameCFG DEF P!Neighbours
<1>3. P!MeetInputs(b) = {result[q].bbOutput : q \in Predecessors(fn, b)}
  BY <1>2 DEF P!MeetInputs, P!FlowSide
<1>4. /\ a.genSet = {b}
      /\ Predecessors(fn, b) = {} => a.bbInput = result[b].bbInput
      /\ Predecessors(fn, b) # {} => a.bbInput = IntersectionMeet(P!MeetInputs(b))
      /\ a = [a EXCEPT !.bbInput = a.bbInput]
      /\ DOMAIN a = {"bbInput", "bbOutput", "genSet", "killSet"}
  BY <1>1, <1>2 DEF P!AfterMeet, P!WithMeet, P!Props
<1>5. P!Visit(b) = [a EXCEPT !.bbOutput = a.bbInput \cup a.genSet]
  BY DEF P!Visit, DominatorsTransfer
<1>6. QED
  BY <1>3, <1>4, <1>5

-----------------------------------------------------------------------------
LEMMA DInit == Init => DInv
<1>. SUFFICES ASSUME Init PROVE DInv
  OBVIOUS
<1>1. P!IInv
  BY StepsLemma, P!InitLemma, FrameworkApplies DEF Init
<1>2. runs = 0 /\ pc = "idle"
  BY DEF Init, DFA!Init
<1>3. QED
  BY <1>1, <1>2, BoundsAssumption DEF DInv, MembersOK, VectorsOK, NoDominatorLost

LEMMA DRunOnFunction ==
  ASSUME DInv, NEW f \in Functions, RunOnFunction(f)
  PROVE  DInv'
<1>1. /\ runs < MaxRuns /\ runs' = runs + 1 /\ fn' = f
      /\ domainToBitMap' = Assign(domainToBitMap, Positions(f))
      /\ bitToDomainMap' = Assign(bitToDomainMap, f.name)
      /\ DFA!Construct(InputOf(f, domainToBitMap'))
  BY DEF RunOnFunction
<1>2. \A b \in Blocks(f) :
        /\ f.name[b] \in DOMAIN domainToBitMap'
        /\ domainToBitMap'[f.name[b]] = b
  BY <1>1, PositionsLemma DEF Assign
<1>3. \A b \in Blocks(f) :
        b \in DOMAIN bitToDomainMap' /\ bitToDomainMap'[b] = f.name[b]
  BY <1>1, FunctionsAssumption DEF Assign
<1>4. InputOf(f, domainToBitMap') = Plain(f)
  BY <1>2, InputLemma
<1>5. pc' = "initialize" /\ input' = Plain(f)
  BY <1>1, <1>4 DEF DFA!Construct
<1>6. InputOf(f, Positions(f)) = Plain(f)
  BY PositionsLemma, InputLemma
<1>7. P!IInv'
  BY <1>1, <1>4, <1>6, StepsLemma, P!ConstructLemma, FrameworkApplies DEF DInv
<1>8. runs' \in 0 .. MaxRuns
  BY <1>1, BoundsAssumption DEF DInv, MembersOK
<1>9. QED
  BY <1>1, <1>2, <1>3, <1>5, <1>7, <1>8 DEF DInv, MembersOK, VectorsOK, NoDominatorLost

LEMMA DGenerateDomMap == DInv /\ GenerateDomMap => DInv'
<1>. SUFFICES ASSUME DInv, GenerateDomMap PROVE DInv'
  OBVIOUS
<1>1. /\ DFA!Discard /\ pc' = "idle"
      /\ UNCHANGED <<domainToBitMap, bitToDomainMap, fn, runs>>
  BY DEF GenerateDomMap, DFA!Discard
<1>2. P!IInv'
  BY <1>1, StepsLemma, P!DiscardLemma, FrameworkApplies
<1>3. QED
  BY <1>1, <1>2 DEF DInv, MembersOK, VectorsOK, NoDominatorLost

LEMMA DInitialize == DInv /\ DFA!Initialize /\ UNCHANGED members => DInv'
<1>. SUFFICES ASSUME DInv, DFA!Initialize, UNCHANGED members PROVE DInv'
  OBVIOUS
<1>1. P!Initialize
  BY StepsLemma
<1>2. P!IInv'
  BY <1>1, P!InitializeLemma, FrameworkApplies DEF DInv
<1>3. /\ pc = "initialize" /\ pc' \in {"sweep", "crashed"} /\ input' = input
      /\ fn' = fn
  BY <1>1 DEF P!Initialize, members
<1>4. MembersOK'
  BY <1>3 DEF DInv, MembersOK, members
<1>5. ASSUME pc' = "sweep"
      PROVE  \A b \in Blocks(fn) : /\ result'[b].genSet = {b}
                                   /\ result'[b].bbInput = {}
                                   /\ result'[b].bbOutput = Blocks(fn)
  <2>1. /\ P!F = fn /\ input = Plain(fn)
    BY <1>3, RunningFacts
  <2>2. result' = [b \in Blocks(fn) |-> P!InitialProps(b)]
    BY <1>1, <1>5, <2>1, SameCFG DEF P!Initialize
  <2>3. \A b \in Blocks(fn) : /\ P!InitialProps(b).genSet = {b}
                              /\ P!InitialProps(b).bbInput = {}
                              /\ P!InitialProps(b).bbOutput = Blocks(fn)
    BY <2>1 DEF P!InitialProps, P!Vector, Plain
  <2>4. QED
    BY <2>2, <2>3
<1>6. VectorsOK'
  BY <1>3, <1>5, RunningFacts DEF VectorsOK
<1>7. NoDominatorLost'
  BY <1>3, <1>5 DEF NoDominatorLost
<1>8. QED
  BY <1>2, <1>4, <1>6, <1>7 DEF DInv

LEMMA DVisitBlock == DInv /\ DFA!VisitBlock /\ UNCHANGED members => DInv'
<1>. SUFFICES ASSUME DInv, DFA!VisitBlock, UNCHANGED members PROVE DInv'
  OBVIOUS
<1>. DEFINE c == P!Traversal(idx)
<1>1. P!VisitBlock
  BY StepsLemma
<1>2. P!IInv'
  BY <1>1, P!VisitBlockLemma, FrameworkApplies DEF DInv
<1>3. /\ pc = "sweep" /\ pc' = "sweep" /\ input' = input /\ fn' = fn
      /\ idx <= Len(P!F.po)
      /\ result' = [result EXCEPT ![c] = P!Visit(c)]
  BY <1>1 DEF P!VisitBlock, members
<1>4. /\ IsFunction(fn) /\ P!F = fn /\ Entry \in Blocks(fn)
      /\ Visited(fn) \subseteq Blocks(fn)
      /\ result \in [Blocks(fn) -> P!Props(Blocks(fn))]
  BY <1>3, RunningFacts
<1>5. c \in Visited(fn) /\ c \in Blocks(fn)
  <2>1. idx \in Nat \ {0} /\ Len(fn.po) \in Nat
    BY <1>4 DEF DInv, P!IInv, P!SInv, P!TInv, P!TypeOK, IsFunction
  <2>2. Len(fn.po) + 1 - idx \in 1 .. Len(fn.po)
    BY <1>3, <1>4, <2>1
  <2>3. QED
    BY <1>4, <2>2 DEF P!Traversal, Visited
<1>6. MembersOK'
  BY <1>3 DEF DInv, MembersOK, members
<1>7. \A b \in Blocks(fn) : result'[b] = IF b = c THEN P!Visit(c) ELSE result[b]
  BY <1>3, <1>4
<1>8. VectorsOK'
  <2>1. \A b \in Blocks(fn) : result'[b].genSet = {b}
    BY <1>3, <1>5, <1>7, VisitFacts DEF DInv, VectorsOK
  <2>2. result'[Entry].bbInput = {}
    BY <1>3, <1>4, <1>5, <1>7, VisitFacts DEF DInv, VectorsOK, IsFunction
  <2>3. \A b \in Blocks(fn) \ Visited(fn) : result'[b].bbOutput = Blocks(fn)
    BY <1>3, <1>5, <1>7 DEF DInv, VectorsOK
  <2>4. QED
    BY <1>3, <2>1, <2>2, <2>3 DEF VectorsOK
<1>9. NoDominatorLost'
  <2>1. ASSUME NEW d \in Blocks(fn), Dominates(fn, d, c), d # c
        PROVE  d \in P!Visit(c).bbOutput
    <3>1. c # Entry
      BY <2>1, EntryDominance
    <3>2. Predecessors(fn, c) # {}
      BY <1>4, <1>5, <3>1, BlocksLemma
    <3>3. \A q \in Predecessors(fn, c) : d \in result[q].bbOutput
      BY <1>3, <2>1, PredecessorDominance DEF DInv, NoDominatorLost, Predecessors
    <3>4. d \in IntersectionMeet({result[q].bbOutput : q \in Predecessors(fn, c)})
      BY <3>2, <3>3 DEF IntersectionMeet
    <3>5. QED
      BY <1>3, <1>5, <3>2, <3>4, VisitFacts
  <2>2. c \in P!Visit(c).bbOutput
    BY <1>3, <1>5, VisitFacts
  <2>3. QED
    BY <1>3, <1>7, <2>1, <2>2 DEF DInv, NoDominatorLost
<1>10. QED
  BY <1>2, <1>6, <1>8, <1>9 DEF DInv

LEMMA DEndSweep == DInv /\ DFA!EndSweep /\ UNCHANGED members => DInv'
<1>. SUFFICES ASSUME DInv, DFA!EndSweep, UNCHANGED members PROVE DInv'
  OBVIOUS
<1>1. P!EndSweep
  BY StepsLemma
<1>2. P!IInv'
  BY <1>1, P!EndSweepLemma, FrameworkApplies DEF DInv
<1>3. /\ pc = "sweep" /\ pc' \in {"sweep", "done"}
      /\ UNCHANGED <<input, result, fn>>
  BY <1>1 DEF P!EndSweep, members
<1>4. MembersOK'
  BY <1>3 DEF DInv, MembersOK, members
<1>5. VectorsOK' /\ NoDominatorLost'
  BY <1>3 DEF DInv, VectorsOK, NoDominatorLost
<1>6. QED
  BY <1>2, <1>4, <1>5 DEF DInv

LEMMA DStutter == DInv /\ UNCHANGED vars => DInv'
<1>. SUFFICES ASSUME DInv, UNCHANGED vars PROVE DInv'
  OBVIOUS
<1>1. UNCHANGED P!vars
  BY DEF vars, dfaVars, P!vars
<1>2. P!IInv'
  BY <1>1, P!StutterLemma, FrameworkApplies DEF DInv
<1>3. QED
  BY <1>2 DEF DInv, MembersOK, VectorsOK, NoDominatorLost, vars, members, dfaVars

(***************************************************************************)
(* DInv is inductive.                                                      *)
(***************************************************************************)
THEOREM DInductive == Spec => []DInv
<1>1. DInv /\ [Next]_vars => DInv'
  <2>. SUFFICES ASSUME DInv, [Next]_vars PROVE DInv'
    OBVIOUS
  <2>1. CASE Analyse
    <3>1. DFA!Initialize \/ DFA!VisitBlock \/ DFA!EndSweep
      BY <2>1 DEF Analyse, DFA!Run
    <3>2. UNCHANGED members
      BY <2>1 DEF Analyse
    <3>3. QED
      BY <3>1, <3>2, DInitialize, DVisitBlock, DEndSweep
  <2>2. CASE GenerateDomMap
    BY <2>2, DGenerateDomMap
  <2>3. ASSUME NEW f \in Functions, RunOnFunction(f) PROVE DInv'
    BY <2>3, DRunOnFunction
  <2>4. CASE UNCHANGED vars
    BY <2>4, DStutter
  <2>5. QED
    BY <2>1, <2>2, <2>3, <2>4 DEF Next
<1>2. QED
  BY <1>1, DInit, PTL DEF Spec

(***************************************************************************)
(* A true dominator is never missing from a block's vector, at any moment  *)
(* of any run, however many sweeps the cap allows.                         *)
(***************************************************************************)
THEOREM Soundness == Spec => []NoDominatorLost
<1>1. DInv => NoDominatorLost
  BY DEF DInv
<1>2. QED
  BY <1>1, DInductive, PTL

LEMMA ExactVectors == DInv => ConvergedIsExact
<1>. SUFFICES ASSUME DInv, pc = "done", converged, NEW b \in Blocks(fn)
              PROVE  result[b].bbOutput = Dominators(fn, b)
  BY DEF ConvergedIsExact
<1>. DEFINE out == [x \in Blocks(fn) |-> result[x].bbOutput]
<1>1. /\ IsFunction(fn) /\ P!F = fn /\ Entry \in Blocks(fn)
      /\ Visited(fn) \subseteq Blocks(fn)
      /\ result \in [Blocks(fn) -> P!Props(Blocks(fn))]
  BY RunningFacts
<1>2. result[b].bbOutput \subseteq Blocks(fn)
  BY <1>1 DEF P!Props
<1>3. Dominators(fn, b) \subseteq result[b].bbOutput
  BY DEF DInv, NoDominatorLost, Dominators
<1>4. CASE b \notin Visited(fn)
  <2>1. Dominators(fn, b) = Blocks(fn)
    BY <1>1, <1>4, UnreachableDominance DEF Dominators
  <2>2. QED
    BY <1>2, <1>3, <2>1
<1>5. CASE b \in Visited(fn)
  <2>1. \A x \in Visited(fn) : P!Visit(x) = result[x]
    BY <1>1, SameCFG DEF DInv, P!IInv, P!SInv, P!StableOnConvergence
  <2>2. \A x \in Visited(fn) : out[x] = result[x].bbInput \cup {x}
    BY <1>1, <2>1, VisitFacts
  <2>3. out[Entry] = {Entry}
    BY <1>1, <2>2 DEF DInv, VectorsOK, IsFunction
  <2>4. ASSUME NEW x \in Visited(fn) \ {Entry}, NEW y \in out[x] \ {x},
               NEW p \in Predecessors(fn, x)
        PROVE  y \in out[p]
    <3>1. y \in P!Visit(x).bbInput
      BY <2>1, <2>2
    <3>2. y \in IntersectionMeet({result[q].bbOutput : q \in Predecessors(fn, x)})
      BY <1>1, <3>1, VisitFacts
    <3>3. p \in Blocks(fn)
      BY DEF Predecessors
    <3>4. QED
      BY <3>2, <3>3 DEF IntersectionMeet
  <2>5. \A d \in out[b] : Dominates(fn, d, b)
    BY <1>1, <1>5, <2>2, <2>3, <2>4, CutSet
  <2>6. QED
    BY <1>2, <1>3, <2>5 DEF Dominators
<1>6. QED
  BY <1>4, <1>5

(***************************************************************************)
(* If the analysis converges it has computed dominance.                    *)
(***************************************************************************)
THEOREM Exactness == Spec => []ConvergedIsExact
  BY ExactVectors, DInductive, PTL

(***************************************************************************)
(* The members stay in step with the current function, whatever functions  *)
(* the pass object has seen before.                                        *)
(***************************************************************************)
THEOREM Typing == Spec => []TypeOK
<1>1. ASSUME DInv PROVE TypeOK
  <2>1. DFA!TypeOK
    <3>1. P!TypeOK
      BY <1>1 DEF DInv, P!IInv, P!SInv, P!TInv
    <3>2. QED
      BY <3>1
         DEF P!TypeOK, DFA!TypeOK, P!IsInput, DFA!IsInput, P!IsFunction, DFA!IsFunction,
             P!Blocks, DFA!Blocks, P!Props, DFA!Props, P!F, DFA!F, P!Visited, DFA!Visited,
             P!Traversal, DFA!Traversal, P!Predecessors, DFA!Predecessors,
             P!Successors, DFA!Successors, P!Entry, DFA!Entry
  <2>2. runs > 0 => IsFunction(fn) /\ DOMAIN fn.name = Blocks(fn)
    BY <1>1, FunctionsAssumption DEF DInv, MembersOK
  <2>3. pc # "idle" => runs > 0 /\ input = InputOf(fn, domainToBitMap)
    BY <1>1, InputLemma DEF DInv, MembersOK
  <2>4. runs > 0 => /\ Names(fn) \subseteq DOMAIN domainToBitMap
                    /\ \A k \in Blocks(fn) :
                         k \in DOMAIN bitToDomainMap /\ bitToDomainMap[k] = fn.name[k]
    BY <1>1 DEF DInv, MembersOK, Names
  <2>5. QED
    BY <1>1, <2>1, <2>2, <2>3, <2>4 DEF TypeOK, DInv, MembersOK
<1>2. QED
  BY <1>1, DInductive, PTL

(***************************************************************************)
(* The pass implements the framework's specification: whatever it does to  *)
(* the Dataflow object is a step of that object or leaves it alone.        *)
(***************************************************************************)
THEOREM Refinement == Spec => UsesFramework
<1>1. Init => DFA!Init
  BY DEF Init
<1>2. DInv /\ [Next]_vars => [DFA!Next]_(DFA!vars)
  <2>. SUFFICES ASSUME DInv, [Next]_vars PROVE [DFA!Next]_(DFA!vars)
    OBVIOUS
  <2>1. CASE Analyse
    BY <2>1 DEF Analyse, DFA!Next
  <2>2. CASE GenerateDomMap
    BY <2>2 DEF GenerateDomMap, DFA!Next
  <2>3. ASSUME NEW f \in Functions, RunOnFunction(f) PROVE DFA!Next
    <3>1. \A b \in Blocks(f) : Assign(domainToBitMap, Positions(f))[f.name[b]] = b
      BY PositionsLemma DEF Assign
    <3>2. InputOf(f, domainToBitMap') = InputOf(f, Positions(f))
      BY <2>3, <3>1, PositionsLemma, InputLemma DEF RunOnFunction
    <3>3. QED
      BY <2>3, <3>2 DEF RunOnFunction, DFA!Next
  <2>4. CASE UNCHANGED vars
    BY <2>4 DEF vars, dfaVars, DFA!vars
  <2>5. QED
    BY <2>1, <2>2, <2>3, <2>4 DEF Next
<1>3. QED
  BY <1>1, <1>2, DInductive, PTL DEF Spec, UsesFramework, DFA!Spec

-----------------------------------------------------------------------------
(***************************************************************************)
(* What the pass answers.  With names of their own, blocks and names are   *)
(* the same thing.                                                         *)
(***************************************************************************)
LEMMA GeneratedEntries ==
  ASSUME DInv, GenerateDomMap, NEW b \in Blocks(fn)
  PROVE  domMap'[fn.name[b]] = {fn.name[k] : k \in result[b].bbOutput}
<1>1. /\ pc = "done" /\ runs > 0 /\ fn \in Functions
      /\ \A k \in Blocks(fn) : bitToDomainMap[k] = fn.name[k]
      /\ result[b].bbOutput \subseteq Blocks(fn)
  BY RunningFacts DEF GenerateDomMap, DInv, MembersOK, P!Props
<1>2. PICK W \in LastWriters(fn) : domMap' = Assign(domMap, DomEntries(fn, W))
  BY DEF GenerateDomMap
<1>3. b \in W /\ W \subseteq Blocks(fn)
  <2>1. PICK x \in W : fn.name[x] = fn.name[b]
    BY <1>2 DEF LastWriters, Names
  <2>2. QED
    BY <1>1, <1>2, <2>1, DistinctNames DEF LastWriters
<1>4. (CHOOSE x \in W : fn.name[x] = fn.name[b]) = b
  BY <1>1, <1>3, DistinctNames
<1>5. fn.name[b] \in Names(fn)
  BY DEF Names
<1>6. domMap'[fn.name[b]] = NamesAt(result[b].bbOutput)
  BY <1>2, <1>4, <1>5 DEF Assign, DomEntries
<1>7. QED
  BY <1>1, <1>6 DEF NamesAt

\* A name stands for one block, so sets of names compare as sets of blocks.
NamesOf(f, A) == {f.name[k] : k \in A}

LEMMA NamesCompare ==
  ASSUME NEW f \in Functions, NEW A \in SUBSET Blocks(f), NEW B \in SUBSET Blocks(f)
  PROVE  /\ NamesOf(f, A) \subseteq NamesOf(f, B) <=> A \subseteq B
         /\ \A b \in Blocks(f) : NamesOf(f, A) \ {f.name[b]} = NamesOf(f, A \ {b})
  BY DistinctNames DEF NamesOf

LEMMA UniqueFromExact == DInv /\ DomMapIsDominance => ImmediateDominatorIsUnique
<1>. SUFFICES ASSUME DInv, DomMapIsDominance, Answered, NEW b \in Visited(fn)
              PROVE  ImmediateDominators(fn.name[b]) =
                       NamesOf(fn, {m \in Blocks(fn) : IsImmediateDominator(fn, m, b)})
  BY DEF ImmediateDominatorIsUnique, NamesOf
<1>. DEFINE D(x) == Dominators(fn, x)
            Strict == D(b) \ {b}
<1>1. fn \in Functions /\ b \in Blocks(fn)
  BY BlocksLemma, FunctionsAssumption DEF DInv, MembersOK, Answered
<1>2. \A x \in Blocks(fn) :
        domMap[fn.name[x]] = NamesOf(fn, D(x)) /\ D(x) \in SUBSET Blocks(fn)
  BY DEF DomMapIsDominance, Dominators, NamesOf
<1>3. Strict \in SUBSET Blocks(fn)
  BY <1>1, <1>2
<1>4. {m \in Blocks(fn) : IsImmediateDominator(fn, m, b)} =
        {m \in Strict : Strict \subseteq D(m)}
  BY <1>3 DEF IsImmediateDominator
<1>. HIDE DEF D
<1>5. domMap[fn.name[b]] \ {fn.name[b]} = NamesOf(fn, Strict)
  BY <1>1, <1>2, NamesCompare
<1>. HIDE DEF Strict
<1>6. \A m \in Blocks(fn) :
        NamesOf(fn, Strict) \subseteq domMap[fn.name[m]] <=> Strict \subseteq D(m)
  BY <1>1, <1>2, <1>3, NamesCompare
<1>7. ImmediateDominators(fn.name[b]) =
        {d \in NamesOf(fn, Strict) : NamesOf(fn, Strict) \subseteq domMap[d]}
  BY <1>5 DEF ImmediateDominators
<1>8. {d \in NamesOf(fn, Strict) : NamesOf(fn, Strict) \subseteq domMap[d]} =
        NamesOf(fn, {m \in Strict : Strict \subseteq D(m)})
  <2>. DEFINE S == NamesOf(fn, Strict)
  <2>1. \A d : d \in S <=> \E m \in Strict : d = fn.name[m]
    BY DEF NamesOf
  <2>. HIDE DEF S
  <2>2. {d \in S : S \subseteq domMap[d]} = {fn.name[m] : m \in {m \in Strict : Strict \subseteq D(m)}}
    BY <1>3, <1>6, <2>1 DEF S
  <2>3. QED
    BY <2>2 DEF S, NamesOf
<1>9. QED
  BY <1>4, <1>7, <1>8

(***************************************************************************)
(* If every run converges, the answers are dominance by name, after each   *)
(* function and whatever functions the pass object has seen before, ...    *)
(***************************************************************************)
AlwaysConverges == pc = "done" => converged

LEMMA AnswerStep ==
  DInv /\ AlwaysConverges /\ DomMapIsDominance /\ [Next]_vars => DomMapIsDominance'
<1>. SUFFICES ASSUME DInv, AlwaysConverges, DomMapIsDominance, [Next]_vars
              PROVE  DomMapIsDominance'
  OBVIOUS
<1>1. CASE Analyse
  <2>1. pc' # "idle"
    BY <1>1 DEF Analyse, DFA!Run, DFA!Initialize, DFA!VisitBlock, DFA!EndSweep
  <2>2. QED
    BY <2>1 DEF DomMapIsDominance, Answered
<1>2. CASE GenerateDomMap
  <2>1. fn' = fn /\ pc = "done" /\ converged
    BY <1>2 DEF GenerateDomMap, AlwaysConverges
  <2>2. \A b \in Blocks(fn) : result[b].bbOutput = Dominators(fn, b)
    BY <2>1, ExactVectors DEF ConvergedIsExact
  <2>3. \A b \in Blocks(fn) : domMap'[fn.name[b]] = {fn.name[k] : k \in Dominators(fn, b)}
    BY <1>2, <2>2, GeneratedEntries
  <2>4. QED
    BY <2>1, <2>3 DEF DomMapIsDominance
<1>3. ASSUME NEW f \in Functions, RunOnFunction(f) PROVE DomMapIsDominance'
  <2>1. pc' = "initialize"
    BY <1>3 DEF RunOnFunction, DFA!Construct
  <2>2. QED
    BY <2>1 DEF DomMapIsDominance, Answered
<1>4. CASE UNCHANGED vars
  BY <1>4 DEF vars, members, dfaVars, DomMapIsDominance, Answered
<1>5. QED
  BY <1>1, <1>2, <1>3, <1>4 DEF Next

(***************************************************************************)
(* If every run converges, what getDomMap hands out is dominance, for the  *)
(* function the pass was last run on (dominators.cpp:38-46).               *)
(***************************************************************************)
THEOREM Answers == Spec /\ []AlwaysConverges => []DomMapIsDominance
<1>1. Init => DomMapIsDominance
  BY DEF Init, DomMapIsDominance, Answered
<1>2. QED
  BY <1>1, AnswerStep, DInductive, PTL DEF Spec

(***************************************************************************)
(* ... and getImmediateDominator finds the immediate dominator and no      *)
(* other name.                                                             *)
(***************************************************************************)
THEOREM ImmediateAnswers == Spec /\ []AlwaysConverges => []ImmediateDominatorIsUnique
  BY Answers, UniqueFromExact, DInductive, PTL

(***************************************************************************)
(* Functions without loops need no such hypothesis: every run on them      *)
(* converges if the cap allows a second sweep.                             *)
(***************************************************************************)
THEOREM LoopFreeAnswers ==
  ASSUME \A f \in Functions : Acyclic(f), MaxSweeps > 1
  PROVE  Spec => []DomMapIsDominance /\ []ImmediateDominatorIsUnique
<1>1. DInv => AlwaysConverges
  <2>. SUFFICES ASSUME DInv, pc = "done" PROVE converged
    BY DEF AlwaysConverges
  <2>1. P!F = fn /\ fn \in Functions
    BY RunningFacts
  <2>2. Acyclic(P!F)
    BY <2>1
  <2>3. P!OneSweepIsEnough
    BY DEF DInv, P!IInv
  <2>4. QED
    BY <2>2, <2>3, SameCFG, BoundsAssumption DEF P!OneSweepIsEnough
<1>2. Spec => []AlwaysConverges
  BY <1>1, DInductive, PTL
<1>3. QED
  BY <1>2, Answers, ImmediateAnswers, PTL

(***************************************************************************)
(* getImmediateDominator is a function: once the map is right, the search  *)
(* for a block that can be reached finds exactly one name, and none for    *)
(* the entry.                                                              *)
(***************************************************************************)
FindsOne ==
  Answered =>
    /\ ImmediateDominators(fn.name[Entry]) = {}
    /\ \A b \in Visited(fn) \ {Entry} :
         \E m \in Blocks(fn) : /\ IsImmediateDominator(fn, m, b)
                               /\ ImmediateDominators(fn.name[b]) = {fn.name[m]}

(***************************************************************************)
(* So the order of the names the search goes by (dominators.cpp:91) does   *)
(* not matter.                                                             *)
(***************************************************************************)
THEOREM SearchFindsOne == Spec /\ []AlwaysConverges => []FindsOne
<1>1. DInv /\ ImmediateDominatorIsUnique => FindsOne
  <2>. SUFFICES ASSUME DInv, ImmediateDominatorIsUnique, Answered PROVE FindsOne
    BY DEF FindsOne
  <2>1. fn \in Functions /\ IsFunction(fn) /\ Entry \in Visited(fn)
    BY FunctionsAssumption DEF DInv, MembersOK, Answered, IsFunction
  <2>2. \A b \in Visited(fn) :
          ImmediateDominators(fn.name[b]) =
            {fn.name[m] : m \in {m \in Blocks(fn) : IsImmediateDominator(fn, m, b)}}
    BY DEF ImmediateDominatorIsUnique
  <2>3. \A m : ~ IsImmediateDominator(fn, m, Entry)
    BY EntryDominance DEF IsImmediateDominator, Dominators
  <2>4. ImmediateDominators(fn.name[Entry]) = {}
    BY <2>1, <2>2, <2>3
  <2>5. ASSUME NEW b \in Visited(fn) \ {Entry}
        PROVE  \E m \in Blocks(fn) : /\ IsImmediateDominator(fn, m, b)
                                     /\ ImmediateDominators(fn.name[b]) = {fn.name[m]}
    <3>1. PICK m \in Blocks(fn) : \A x : IsImmediateDominator(fn, x, b) <=> x = m
      BY <2>1, OneImmediateDominator
    <3>2. {x \in Blocks(fn) : IsImmediateDominator(fn, x, b)} = {m}
      BY <3>1
    <3>3. QED
      BY <2>2, <3>1, <3>2
  <2>6. QED
    BY <2>4, <2>5 DEF FindsOne
<1>2. QED
  BY <1>1, ImmediateAnswers, DInductive, PTL

-----------------------------------------------------------------------------
(***************************************************************************)
(* How many sweeps the pass needs.  Its transfer adds one bit and its meet *)
(* is an intersection, so bits are independent and P!NInv is preserved.    *)
(***************************************************************************)
LEMMA BitsAreIndependent == P!BitByBit
<1>. SUFFICES ASSUME NEW in \in {InputOf(f, Positions(f)) : f \in Functions},
                     NEW d \in in.domain
              PROVE  /\ \A b \in P!Blocks(in.fn) :
                          \A p \in P!Props(in.domain) : \A q \in P!Props(in.domain) :
                            /\ p.genSet = q.genSet
                            /\ p.killSet = q.killSet
                            /\ d \in P!MeetSide(p) <=> d \in P!MeetSide(q)
                            => (d \in P!FlowSide(DominatorsTransfer(in.domain, in.member[b], p))
                                 <=> d \in P!FlowSide(DominatorsTransfer(in.domain, in.member[b], q)))
                     /\ \A vs \in (SUBSET SUBSET in.domain) \ {{}} :
                          d \in IntersectionMeet(vs) <=> \A v \in vs : d \in v
  BY DEF P!BitByBit
<1>1. ASSUME NEW b, NEW p \in P!Props(in.domain), NEW q \in P!Props(in.domain),
             p.genSet = q.genSet, d \in P!MeetSide(p) <=> d \in P!MeetSide(q)
      PROVE  d \in P!FlowSide(DominatorsTransfer(in.domain, in.member[b], p))
               <=> d \in P!FlowSide(DominatorsTransfer(in.domain, in.member[b], q))
  BY <1>1 DEF P!Props, P!MeetSide, P!FlowSide, DominatorsTransfer
<1>2. \A vs \in (SUBSET SUBSET in.domain) \ {{}} :
        d \in IntersectionMeet(vs) <=> \A v \in vs : d \in v
  BY DEF IntersectionMeet
<1>3. QED
  BY <1>1, <1>2

LEMMA NestingStep == DInv /\ P!NInv /\ [Next]_vars => P!NInv'
<1>. SUFFICES ASSUME DInv, P!NInv, [Next]_vars PROVE P!NInv'
  OBVIOUS
<1>1. CASE Analyse
  <2>1. P!Run
    BY <1>1, StepsLemma DEF Analyse, DFA!Run, P!Run
  <2>2. QED
    BY <2>1, P!NInitialize, P!NVisitBlock, P!NEndSweep, FrameworkApplies,
       BitsAreIndependent DEF P!Run, DInv
<1>2. CASE GenerateDomMap
  <2>1. pc' \notin {"sweep", "done"}
    BY <1>2 DEF GenerateDomMap, DFA!Discard
  <2>2. QED
    BY <2>1, P!NIdle, FrameworkApplies
<1>3. ASSUME NEW f \in Functions, RunOnFunction(f) PROVE P!NInv'
  <2>1. pc' \notin {"sweep", "done"}
    BY <1>3 DEF RunOnFunction, DFA!Construct
  <2>2. QED
    BY <2>1, P!NIdle, FrameworkApplies
<1>4. CASE UNCHANGED vars
  <2>1. UNCHANGED P!vars
    BY <1>4 DEF vars, dfaVars, P!vars
  <2>2. QED
    BY <2>1, P!NStutter, FrameworkApplies
<1>5. QED
  BY <1>1, <1>2, <1>3, <1>4 DEF Next

LEMMA NestingInductive == Spec => []P!NInv
<1>1. Init => P!NInv
  BY DEF Init, DFA!Init, P!NInv, P!SweepsAreCounted, P!SettlesByNesting, P!CutAtCap
<1>2. QED
  BY <1>1, NestingStep, DInductive, PTL DEF Spec

(***************************************************************************)
(* The sweeps of a run are bounded by how the loops of its function are    *)
(* nested, whatever the function.                                          *)
(***************************************************************************)
THEOREM Settling == Spec => []SettlesByNesting
<1>1. P!NInv => SettlesByNesting
  <2>1. \A f, d : P!LoopConnected(f, d) <=> DFA!LoopConnected(f, d)
    BY Zenon DEF P!LoopConnected, DFA!LoopConnected, P!Successors, DFA!Successors
  <2>2. QED
    BY <2>1 DEF P!NInv, P!SettlesByNesting, SettlesByNesting, DFA!SettlesByNesting, P!F, DFA!F
<1>2. QED
  BY <1>1, NestingInductive, PTL

(***************************************************************************)
(* If no function has a path with MaxSweeps - 1 edges against the order (4 *)
(* for the cap of five at dataflow.cpp:121) every run converges, and the   *)
(* answers are dominance with no further hypothesis, loops and all.        *)
(***************************************************************************)
THEOREM ShallowAnswers ==
  ASSUME \A f \in Functions : ~ LoopConnected(f, MaxSweeps - 1)
  PROVE  Spec => []DomMapIsDominance /\ []ImmediateDominatorIsUnique
<1>1. DInv /\ P!NInv => AlwaysConverges
  <2>. SUFFICES ASSUME DInv, P!NInv, pc = "done", ~ converged PROVE FALSE
    BY DEF AlwaysConverges
  <2>1. fn \in Functions /\ P!F = fn
    BY RunningFacts
  <2>2. LoopConnected(fn, iter - 1)
    <3>1. P!LoopConnected(P!F, iter - 1)
      BY DEF P!NInv, P!SettlesByNesting
    <3>2. \A f, d : P!LoopConnected(f, d) <=> LoopConnected(f, d)
      BY Zenon DEF P!LoopConnected, LoopConnected, P!Successors, Successors
    <3>3. QED
      BY <2>1, <3>1, <3>2
  <2>3. iter = MaxSweeps
    BY DEF P!NInv, P!CutAtCap
  <2>4. QED
    BY <2>1, <2>2, <2>3
<1>2. Spec => []AlwaysConverges
  BY <1>1, NestingInductive, DInductive, PTL
<1>3. QED
  BY <1>2, Answers, ImmediateAnswers, PTL
=============================================================================
