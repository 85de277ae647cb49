--------------------- MODULE DeadCodeEliminationProofs ---------------------
(***************************************************************************)
(* Dead code elimination keeps what the function's effects depend on, for  *)
(* every function and every sequence of functions the pass object sees.    *)
(***************************************************************************)
EXTENDS DeadCodeElimination, FiniteSetTheorems, TLAPS

P == INSTANCE DataflowBasics WITH
       Inputs <- {InputOf(f, toBit) : f \in Functions, toBit \in BitMaps},
       dir <- "BACKWARD", boundaryCond <- "full", initCond <- "full",
       meetFn <- IntersectionMeet, transferFn <- FaintTransfer

-----------------------------------------------------------------------------
(***************************************************************************)
(* The order of F is a strict total order on its instructions, because     *)
(* each of them stands at one place.                                       *)
(***************************************************************************)
LEMMA CodeLemma ==
  ASSUME NEW f \in Functions
  PROVE  /\ f.n \in Nat \ {0} /\ Visited(f) \subseteq Blocks(f)
         /\ \A b \in Blocks(f) : Len(f.insts[b]) \in Nat
         /\ \A b \in Blocks(f) : \A k \in Positions(f, b) : f.insts[b][k] \in Instructions(f)
         /\ \A i \in Instructions(f) : \E b \in Blocks(f) : \E k \in Positions(f, b) :
              i = f.insts[b][k]
<1>1. IsFunction(f) /\ f.insts \in [Blocks(f) -> Seq(Instructions(f))]
  BY FunctionsAssumption
<1>2. Visited(f) \subseteq Blocks(f)
  BY <1>1 DEF IsFunction, Visited
<1>3. \A b \in Blocks(f) : Len(f.insts[b]) \in Nat
  BY <1>1
<1>4. \A b \in Blocks(f) : \A k \in Positions(f, b) : f.insts[b][k] \in Instructions(f)
  BY <1>1 DEF Positions
<1>5. \A i \in Instructions(f) : \E b \in Blocks(f) : \E k \in Positions(f, b) :
        i = f.insts[b][k]
  BY DEF Instructions, Code
<1>6. QED
  BY <1>1, <1>2, <1>3, <1>4, <1>5 DEF IsFunction

LEMMA OrderLemma ==
  ASSUME NEW f \in Functions
  PROVE  /\ \A i \in Instructions(f) : ~ Before(f, i, i)
         /\ \A i, j \in Instructions(f) : i = j \/ Before(f, i, j) \/ Before(f, j, i)
         /\ \A i, j, k \in Instructions(f) :
              Before(f, i, j) /\ Before(f, j, k) => Before(f, i, k)
<1>1. \A b \in Blocks(f) : b \in Nat /\ \A k \in Positions(f, b) : k \in Nat
  BY CodeLemma DEF Blocks, Positions
<1>2. \A b, c \in Blocks(f) : \A j \in Positions(f, b), k \in Positions(f, c) :
        f.insts[b][j] = f.insts[c][k] => b = c /\ j = k
  BY FunctionsAssumption
<1>3. \A i \in Instructions(f) : ~ Before(f, i, i)
  BY <1>1, <1>2 DEF Before
<1>4. \A i, j \in Instructions(f) : i = j \/ Before(f, i, j) \/ Before(f, j, i)
  <2>1. TAKE i, j \in Instructions(f)
  <2>2. PICK b \in Blocks(f) : \E k \in Positions(f, b) : i = f.insts[b][k]
    BY CodeLemma
  <2>3. PICK k \in Positions(f, b) : i = f.insts[b][k]
    BY <2>2
  <2>4. PICK c \in Blocks(f) : \E m \in Positions(f, c) : j = f.insts[c][m]
    BY CodeLemma
  <2>5. PICK m \in Positions(f, c) : j = f.insts[c][m]
    BY <2>4
  <2>6. b < c \/ c < b \/ (b = c /\ (k < m \/ m < k \/ k = m))
    BY <1>1
  <2>7. QED
    BY <2>3, <2>5, <2>6 DEF Before
<1>5. ASSUME NEW i \in Instructions(f), NEW j \in Instructions(f), NEW k \in Instructions(f),
             Before(f, i, j), Before(f, j, k)
      PROVE  Before(f, i, k)
  <2>. DEFINE Apart(b, x, c, y) == b < c \/ (b = c /\ x < y)
  <2>1. PICK b \in Blocks(f), c \in Blocks(f) :
          \E x \in Positions(f, b), y \in Positions(f, c) :
            f.insts[b][x] = i /\ f.insts[c][y] = j /\ Apart(b, x, c, y)
    BY <1>5 DEF Before
  <2>2. PICK x \in Positions(f, b), y \in Positions(f, c) :
          f.insts[b][x] = i /\ f.insts[c][y] = j /\ Apart(b, x, c, y)
    BY <2>1
  <2>3. PICK d \in Blocks(f), e \in Blocks(f) :
          \E z \in Positions(f, d), w \in Positions(f, e) :
            f.insts[d][z] = j /\ f.insts[e][w] = k /\ Apart(d, z, e, w)
    BY <1>5 DEF Before
  <2>4. PICK z \in Positions(f, d), w \in Positions(f, e) :
          f.insts[d][z] = j /\ f.insts[e][w] = k /\ Apart(d, z, e, w)
    BY <2>3
  <2>5. c = d /\ y = z
    BY <1>2, <2>2, <2>4
  <2>6. Apart(b, x, e, w)
    BY <1>1, <2>2, <2>4, <2>5
  <2>7. QED
    BY <2>2, <2>4, <2>6 DEF Before
<1>6. QED
  BY <1>3, <1>4, <1>5

(***************************************************************************)
(* setupDomain numbers the instructions that are not live one by one.      *)
(***************************************************************************)
LEMMA IndexLemma ==
  ASSUME NEW f \in Functions
  PROVE  /\ IsFiniteSet(NotLive(f)) /\ Cardinality(NotLive(f)) \in Nat
         /\ \A i \in NotLive(f) : IndexOf(f, i) \in 1 .. Cardinality(NotLive(f))
         /\ \A i, j \in NotLive(f) : IndexOf(f, i) = IndexOf(f, j) => i = j
<1>. DEFINE Earlier(i) == {j \in NotLive(f) : Before(f, j, i)}
<1>1. IsFiniteSet(NotLive(f)) /\ Cardinality(NotLive(f)) \in Nat
  BY FunctionsAssumption, FS_Subset, FS_CardinalityType DEF NotLive
<1>2. NotLive(f) \subseteq Instructions(f)
  BY DEF NotLive
<1>3. \A i \in NotLive(f) : /\ IsFiniteSet(Earlier(i)) /\ Cardinality(Earlier(i)) \in Nat
                            /\ Cardinality(Earlier(i)) + 1 <= Cardinality(NotLive(f))
  <2>1. TAKE i \in NotLive(f)
  <2>2. i \notin Earlier(i) /\ Earlier(i) \cup {i} \in SUBSET NotLive(f)
    BY <1>2, OrderLemma
  <2>3. IsFiniteSet(Earlier(i)) /\ Cardinality(Earlier(i)) \in Nat
    BY <1>1, FS_Subset, FS_CardinalityType
  <2>. HIDE DEF Earlier
  <2>4. Cardinality(Earlier(i) \cup {i}) = Cardinality(Earlier(i)) + 1
    BY <2>2, <2>3, FS_AddElement
  <2>5. Cardinality(Earlier(i) \cup {i}) <= Cardinality(NotLive(f))
    BY <1>1, <2>2, FS_Subset
  <2>6. QED
    BY <2>3, <2>4, <2>5
<1>4. ASSUME NEW i \in NotLive(f), NEW j \in NotLive(f), Before(f, i, j)
      PROVE  Cardinality(Earlier(i)) < Cardinality(Earlier(j))
  <2>1. i \notin Earlier(i) /\ Earlier(i) \cup {i} \in SUBSET Earlier(j)
    BY <1>2, <1>4, OrderLemma
  <2>. HIDE DEF Earlier
  <2>2. Cardinality(Earlier(i) \cup {i}) = Cardinality(Earlier(i)) + 1
    BY <1>3, <2>1, FS_AddElement
  <2>3. Cardinality(Earlier(i) \cup {i}) <= Cardinality(Earlier(j))
    BY <1>3, <2>1, FS_Subset
  <2>4. QED
    BY <1>3, <2>2, <2>3
<1>5. \A i, j \in NotLive(f) : i = j \/ Before(f, i, j) \/ Before(f, j, i)
  BY <1>2, OrderLemma
<1>6. \A i : IndexOf(f, i) = Cardinality(Earlier(i)) + 1
  BY DEF IndexOf
<1>. HIDE DEF Earlier
<1>7. \A i, j \in NotLive(f) : Cardinality(Earlier(i)) = Cardinality(Earlier(j)) => i = j
  BY <1>3, <1>4, <1>5
<1>8. QED
  BY <1>1, <1>3, <1>6, <1>7

\* What domain and domainToBitMap are between functions.
BitsOK(toBit) ==
  /\ DOMAIN toBit \subseteq UNION {NotLive(f) : f \in Functions}
  /\ IsFiniteSet(DOMAIN toBit)
  /\ toBit \in [DOMAIN toBit -> 1 .. Cardinality(DOMAIN toBit)]
  /\ \A i, j \in DOMAIN toBit : toBit[i] = toBit[j] => i = j

LEMMA ExtendedLemma ==
  ASSUME NEW toBit, BitsOK(toBit), NEW f \in Functions,
         DOMAIN toBit \cap Instructions(f) = {}
  PROVE  BitsOK(Extended(toBit, f))
<1>. DEFINE new  == Extended(toBit, f)
            size == Cardinality(DOMAIN toBit)
            all  == DOMAIN toBit \cup NotLive(f)
<1>1. /\ IsFiniteSet(DOMAIN toBit) /\ size \in Nat
      /\ \A i \in DOMAIN toBit : toBit[i] \in 1 .. size
  BY FS_CardinalityType DEF BitsOK
<1>2. DOMAIN toBit \cap NotLive(f) = {}
  BY DEF NotLive
<1>3. IsFiniteSet(all) /\ Cardinality(all) = size + Cardinality(NotLive(f))
  <2>1. IsFiniteSet(all)
    BY <1>1, IndexLemma, FS_Union
  <2>2. Cardinality(all) = size + Cardinality(NotLive(f)) - Cardinality(DOMAIN toBit \cap NotLive(f))
    BY <1>1, IndexLemma, FS_Union
  <2>3. Cardinality(DOMAIN toBit \cap NotLive(f)) = 0
    BY <1>2, FS_EmptySet
  <2>4. QED
    BY <1>1, <2>1, <2>2, <2>3, IndexLemma
<1>4. /\ DOMAIN new = all
      /\ \A i \in NotLive(f) : new[i] = size + IndexOf(f, i)
      /\ \A i \in DOMAIN toBit : new[i] = toBit[i]
  BY <1>2 DEF Extended
<1>5. new = [i \in all |-> new[i]]
  BY DEF Extended
<1>6. \A i \in all : new[i] \in 1 .. Cardinality(all)
  <2>1. ASSUME NEW i \in NotLive(f) PROVE new[i] \in 1 .. Cardinality(all)
    BY <1>1, <1>3, <1>4, IndexLemma
  <2>2. ASSUME NEW i \in DOMAIN toBit PROVE new[i] \in 1 .. Cardinality(all)
    BY <1>1, <1>3, <1>4, IndexLemma
  <2>3. QED
    BY <2>1, <2>2
<1>7. \A i, j \in all : new[i] = new[j] => i = j
  <2>1. ASSUME NEW i \in NotLive(f), NEW j \in DOMAIN toBit PROVE new[i] # new[j]
    BY <1>1, <1>4, IndexLemma
  <2>2. ASSUME NEW i \in NotLive(f), NEW j \in NotLive(f), new[i] = new[j] PROVE i = j
    BY <1>1, <1>4, <2>2, IndexLemma
  <2>3. ASSUME NEW i \in DOMAIN toBit, NEW j \in DOMAIN toBit, new[i] = new[j] PROVE i = j
    BY <1>4, <2>3 DEF BitsOK
  <2>4. QED
    BY <2>1, <2>2, <2>3
<1>8. all \subseteq UNION {NotLive(g) : g \in Functions}
  BY DEF BitsOK
<1>. HIDE DEF new, all
<1>9. BitsOK(new)
  BY <1>3, <1>4, <1>5, <1>6, <1>7, <1>8 DEF BitsOK
<1>10. QED
  BY <1>9 DEF new

-----------------------------------------------------------------------------
(***************************************************************************)
(* The pass meets the assumptions under which the framework is typed.      *)
(***************************************************************************)
LEMMA SameCFG ==
  /\ P!Entry = Entry
  /\ \A f : P!Blocks(f) = Blocks(f) /\ P!Visited(f) = Visited(f)
  /\ \A f : P!IsFunction(f) = IsFunction(f)
<1>1. P!Entry = Entry
  BY DEF P!Entry, Entry
<1>2. \A f : P!Blocks(f) = Blocks(f)
  BY DEF P!Blocks, Blocks
<1>3. \A f : P!Visited(f) = Visited(f)
  BY DEF P!Visited, Visited
<1>4. \A f, b : P!Successors(f, b) = Successors(f, b)
  BY DEF P!Successors, Successors
<1>5. \A f, b : P!Predecessors(f, b) = Predecessors(f, b)
  BY <1>2, <1>4 DEF P!Predecessors, Predecessors
<1>6. \A f : P!IsFunction(f) = IsFunction(f)
  BY <1>1, <1>2, <1>3, <1>4, <1>5 DEF P!IsFunction, IsFunction
<1>7. QED
  BY <1>1, <1>2, <1>3, <1>6

LEMMA InputTyped ==
  ASSUME NEW f \in Functions, NEW toBit \in BitMaps
  PROVE  P!IsInput(InputOf(f, toBit))
<1>. DEFINE in == InputOf(f, toBit)
<1>1. \A i \in DOMAIN toBit : toBit[i] \in 1 .. Cardinality(DOMAIN toBit)
  BY DEF BitMaps
<1>2. \A is : Bits(toBit, is) \subseteq 1 .. Cardinality(DOMAIN toBit)
  BY <1>1 DEF Bits
<1>3. /\ in.fn = f /\ in.domain = 1 .. Cardinality(DOMAIN toBit)
      /\ in.infoMap = [b \in Visited(f) |-> [genSet |-> Bits(toBit, GenSet(f, b)),
                                             killSet |-> Bits(toBit, KillSet(f, b))]]
      /\ in.member = [b \in Blocks(f) |-> {}]
  BY DEF InputOf
<1>. HIDE DEF in
<1>4. IsFunction(f) /\ Visited(f) \subseteq Blocks(f)
  BY FunctionsAssumption, CodeLemma
<1>5. in.infoMap \in [Visited(f) -> [genSet : SUBSET in.domain, killSet : SUBSET in.domain]]
  BY <1>2, <1>3
<1>6. P!IsInput(in)
  BY <1>3, <1>4, <1>5, SameCFG DEF P!IsInput
<1>7. QED
  BY <1>6 DEF in

LEMMA FrameworkApplies ==
  /\ P!InputsAssumption /\ P!FrameworkAssumption
  /\ P!TransferTyped /\ P!MeetTyped
<1>1. P!InputsAssumption
  BY InputTyped DEF P!InputsAssumption
<1>2. P!FrameworkAssumption
  BY BoundsAssumption DEF P!FrameworkAssumption
<1>3. P!TransferTyped
  <2>. SUFFICES ASSUME NEW U, NEW m, NEW p \in P!Props(U)
                PROVE  FaintTransfer(U, m, p) \in P!Props(U)
    BY DEF P!TransferTyped
  <2>1. QED
    BY DEF P!Props, FaintTransfer
<1>4. P!MeetTyped
  BY DEF P!MeetTyped, IntersectionMeet
<1>5. QED
  BY <1>1, <1>2, <1>3, <1>4

LEMMA KnownInput ==
  ASSUME NEW f \in Functions, NEW toBit, BitsOK(toBit)
  PROVE  InputOf(f, toBit) \in {InputOf(g, t) : g \in Functions, t \in BitMaps}
  BY DEF BitsOK, BitMaps

LEMMA StepsLemma ==
  /\ DFA!Init => P!Init
  /\ \A in : DFA!Construct(in) => P!Construct(in)
  /\ DFA!Discard => P!Discard
  /\ DFA!Initialize => P!Initialize
  /\ DFA!EndSweep => P!EndSweep
  /\ DFA!VisitBlock => P!VisitBlock
<1>1. DFA!Init => P!Init
  BY DEF DFA!Init, P!Init
<1>2. \A in : DFA!Construct(in) => P!Construct(in)
  BY DEF DFA!Construct, P!Construct
<1>3. DFA!Discard => P!Discard
  BY DEF DFA!Discard, P!Discard
<1>4. DFA!Initialize => P!Initialize
  BY DEF DFA!Initialize, P!Initialize, DFA!F, P!F, DFA!Blocks, P!Blocks,
         DFA!InitialProps, P!InitialProps, DFA!BlockType, P!BlockType,
         DFA!Vector, P!Vector, DFA!Entry, P!Entry
<1>5. DFA!EndSweep => P!EndSweep
  BY DEF DFA!EndSweep, P!EndSweep, DFA!F, P!F, DFA!Unchanged, P!Unchanged,
         DFA!FlowSide, P!FlowSide
<1>6. DFA!VisitBlock => P!VisitBlock
  BY DEF DFA!VisitBlock, P!VisitBlock, DFA!F, P!F, DFA!Traversal, P!Traversal,
         DFA!FlowSide, P!FlowSide, DFA!Visit, P!Visit, DFA!AfterMeet, P!AfterMeet,
         DFA!Neighbours, P!Neighbours, DFA!Predecessors, P!Predecessors,
         DFA!Successors, P!Successors, DFA!Blocks, P!Blocks,
         DFA!MeetInputs, P!MeetInputs, DFA!WithMeet, P!WithMeet
<1>7. QED
  BY <1>1, <1>2, <1>3, <1>4, <1>5, <1>6

-----------------------------------------------------------------------------
(***************************************************************************)
(* The inductive invariant, part by part: what the members hold of the     *)
(* current function; what the analysis leaves in the vectors, which is     *)
(* nothing, because it is a backward analysis that writes bbOutput; what   *)
(* has been deleted so far.                                                *)
(***************************************************************************)
MembersOK ==
  /\ runs \in 0 .. MaxRuns
  /\ BitsOK(domainToBitMap)
  /\ runs > 0 => fn \in Functions /\ NotLive(fn) \subseteq DOMAIN domainToBitMap
  /\ pc # "idle" => runs > 0 /\ input = InputOf(fn, domainToBitMap)

VectorsOK ==
  /\ pc \in {"sweep", "done"} =>
       /\ Visited(fn) = Blocks(fn)
       /\ \A b \in Blocks(fn) :
            /\ result[b].bbInput = 1 .. Cardinality(DOMAIN domainToBitMap)
            /\ result[b].genSet = Bits(domainToBitMap, GenSet(fn, b))
            /\ result[b].killSet = Bits(domainToBitMap, KillSet(fn, b))
  /\ pc = "crashed" => Visited(fn) # Blocks(fn)

DeletionOK ==
  /\ runs = 0 => insToDel = {}
  /\ runs > 0 =>
       /\ blk \in 0 .. fn.n
       /\ fn.live \subseteq present /\ present \subseteq Instructions(fn)
       /\ \A i \in present : fn.ops[i] \subseteq present
       /\ \A c \in Blocks(fn) : c > blk => Code(fn, c) \subseteq present
       /\ blk > 0 => pc \in {"done", "idle"}
       /\ pc = "idle" => insToDel = {} /\ blk = fn.n
       /\ insToDel # {} => blk > 0 /\ insToDel \subseteq Positions(fn, blk)
       /\ \A k \in insToDel : fn.insts[blk][k] \in present \ fn.live

(***************************************************************************)
(* Every instruction of a block that is not live gets its turn, in         *)
(* descending order.  One that is left over after its turn has a user, or  *)
(* lost one later.                                                         *)
(***************************************************************************)
TurnOver(b, k) == b < blk \/ (b = blk /\ \A m \in insToDel : m < k)

LostLater(b, i) ==
  \E c \in b .. fn.n : \E j \in Code(fn, c) \ present :
    i \in fn.ops[j] /\ (c = b => j \in fn.phis)

TurnsOK ==
  runs > 0 =>
    /\ \A k \in Positions(fn, blk) :
         blk > 0 /\ fn.insts[blk][k] \notin fn.live => k \in insToDel \/ TurnOver(blk, k)
    /\ \A b \in Blocks(fn) : \A k \in Positions(fn, b) :
         fn.insts[b][k] \in present \ fn.live /\ TurnOver(b, k) =>
           ~ UseEmpty(fn.insts[b][k]) \/ LostLater(b, fn.insts[b][k])

CInv == P!TInv /\ MembersOK /\ VectorsOK /\ DeletionOK /\ TurnsOK

\* What CInv says of a state in which an object is in use.
LEMMA RunningFacts ==
  ASSUME CInv, pc # "idle"
  PROVE  /\ runs > 0 /\ fn \in Functions /\ IsFunction(fn)
         /\ input = InputOf(fn, domainToBitMap) /\ P!F = fn
         /\ input.domain = 1 .. Cardinality(DOMAIN domainToBitMap)
         /\ Visited(fn) \subseteq Blocks(fn)
         /\ pc \in {"sweep", "done"} => result \in [Blocks(fn) -> P!Props(input.domain)]
<1>1. /\ runs > 0 /\ fn \in Functions /\ IsFunction(fn)
      /\ input = InputOf(fn, domainToBitMap)
  BY FunctionsAssumption DEF CInv, MembersOK
<1>2. P!F = fn /\ input.domain = 1 .. Cardinality(DOMAIN domainToBitMap)
  BY <1>1 DEF P!F, InputOf
<1>3. Visited(fn) \subseteq Blocks(fn)
  BY <1>1, CodeLemma
<1>4. pc \in {"sweep", "done"} => result \in [Blocks(fn) -> P!Props(input.domain)]
  BY <1>2, SameCFG DEF CInv, P!TInv, P!TypeOK
<1>5. QED
  BY <1>1, <1>2, <1>3, <1>4

LEMMA CInit == Init => CInv
<1>. SUFFICES ASSUME Init PROVE CInv
  OBVIOUS
<1>1. P!TInv
  BY StepsLemma, P!TInit, FrameworkApplies DEF Init
<1>2. runs = 0 /\ pc = "idle" /\ domainToBitMap = << >> /\ insToDel = {}
  BY DEF Init, DFA!Init
<1>3. BitsOK(<< >>)
  <2>1. DOMAIN << >> = {}
    OBVIOUS
  <2>2. << >> \in [DOMAIN << >> -> 1 .. Cardinality(DOMAIN << >>)]
    BY <2>1
  <2>3. QED
    BY <2>1, <2>2, FS_EmptySet DEF BitsOK
<1>4. QED
  BY <1>1, <1>2, <1>3, BoundsAssumption
     DEF CInv, MembersOK, VectorsOK, DeletionOK, TurnsOK

LEMMA CRunOnFunction ==
  ASSUME CInv, NEW f \in Functions, RunOnFunction(f)
  PROVE  CInv'
<1>1. /\ runs < MaxRuns /\ runs' = runs + 1 /\ fn' = f /\ pc = "idle"
      /\ domainToBitMap' = Extended(domainToBitMap, f)
      /\ DOMAIN domainToBitMap \cap Instructions(f) = {}
      /\ present' = Instructions(f) /\ blk' = 0 /\ insToDel' = {}
      /\ DFA!Construct(InputOf(f, domainToBitMap'))
  BY DEF RunOnFunction
<1>2. BitsOK(domainToBitMap')
  BY <1>1, ExtendedLemma DEF CInv, MembersOK
<1>3. NotLive(f) \subseteq DOMAIN domainToBitMap'
  BY <1>1 DEF Extended
<1>4. pc' = "initialize" /\ input' = InputOf(f, domainToBitMap')
  BY <1>1 DEF DFA!Construct
<1>5. P!TInv'
  BY <1>1, <1>2, KnownInput, StepsLemma, P!TConstruct, FrameworkApplies DEF CInv
<1>6. runs' \in 0 .. MaxRuns /\ runs' > 0
  BY <1>1, BoundsAssumption DEF CInv, MembersOK
<1>7. MembersOK' /\ VectorsOK'
  BY <1>1, <1>2, <1>3, <1>4, <1>6 DEF MembersOK, VectorsOK
<1>8. DeletionOK'
  <2>1. /\ f.live \subseteq Instructions(f) /\ f.n \in Nat
        /\ f.ops \in [Instructions(f) -> SUBSET Instructions(f)]
    BY FunctionsAssumption, CodeLemma
  <2>2. \A c \in Blocks(f) : Code(f, c) \subseteq Instructions(f)
    BY DEF Instructions
  <2>3. QED
    BY <1>1, <1>4, <2>1, <2>2 DEF DeletionOK
<1>9. TurnsOK'
  BY <1>1 DEF TurnsOK, TurnOver, Blocks
<1>10. QED
  BY <1>5, <1>7, <1>8, <1>9 DEF CInv

\* Steps of the analysis leave the members alone, and what is deleted.
LEMMA CAnalyse ==
  ASSUME CInv, UNCHANGED passVars, pc # "idle", blk = 0,
         pc' # "idle", input' = input
  PROVE  MembersOK' /\ DeletionOK' /\ TurnsOK'
<1>1. /\ fn' = fn /\ runs' = runs /\ domainToBitMap' = domainToBitMap
      /\ present' = present /\ blk' = blk /\ insToDel' = insToDel
  BY DEF passVars
<1>2. MembersOK'
  BY <1>1 DEF CInv, MembersOK
<1>3. DeletionOK'
  BY <1>1 DEF CInv, DeletionOK
<1>4. TurnsOK'
  BY <1>1 DEF TurnsOK, TurnOver, Blocks
<1>5. QED
  BY <1>2, <1>3, <1>4

LEMMA CInitialize == CInv /\ DFA!Initialize /\ UNCHANGED passVars => CInv'
<1>. SUFFICES ASSUME CInv, DFA!Initialize, UNCHANGED passVars PROVE CInv'
  OBVIOUS
<1>1. P!Initialize
  BY StepsLemma
<1>2. P!TInv'
  BY <1>1, P!TInitialize, FrameworkApplies DEF CInv
<1>3. /\ pc = "initialize" /\ pc' \in {"sweep", "crashed"} /\ input' = input
      /\ pc' = "sweep" <=> Blocks(fn) \subseteq DOMAIN input.infoMap
      /\ pc' = "sweep" => result' = [b \in Blocks(fn) |-> P!InitialProps(b)]
  <2>1. pc = "initialize"
    BY <1>1 DEF P!Initialize
  <2>2. P!F = fn
    BY <2>1, RunningFacts
  <2>3. QED
    BY <1>1, <2>1, <2>2, SameCFG DEF P!Initialize
<1>4. /\ fn' = fn /\ domainToBitMap' = domainToBitMap /\ IsFunction(fn)
      /\ fn \in Functions /\ runs > 0 /\ input = InputOf(fn, domainToBitMap)
      /\ Visited(fn) \subseteq Blocks(fn) /\ input.domain = 1 .. Cardinality(DOMAIN domainToBitMap)
  BY <1>3, RunningFacts DEF passVars
<1>5. DOMAIN input.infoMap = Visited(fn)
  BY <1>4 DEF InputOf
<1>6. ASSUME pc' = "sweep", NEW b \in Blocks(fn)
      PROVE  /\ result'[b].bbInput = 1 .. Cardinality(DOMAIN domainToBitMap)
             /\ result'[b].genSet = Bits(domainToBitMap, GenSet(fn, b))
             /\ result'[b].killSet = Bits(domainToBitMap, KillSet(fn, b))
  <2>1. b \in Visited(fn)
    BY <1>3, <1>5, <1>6
  <2>2. /\ input.infoMap[b].genSet = Bits(domainToBitMap, GenSet(fn, b))
        /\ input.infoMap[b].killSet = Bits(domainToBitMap, KillSet(fn, b))
    BY <1>4, <2>1 DEF InputOf
  <2>3. result'[b] = P!InitialProps(b)
    BY <1>3, <1>6
  <2>4. QED
    BY <1>4, <2>2, <2>3 DEF P!InitialProps, P!Vector
<1>7. VectorsOK'
  BY <1>3, <1>4, <1>5, <1>6 DEF VectorsOK
<1>8. blk = 0
  BY <1>3, <1>4 DEF CInv, DeletionOK, Blocks
<1>9. QED
  BY <1>2, <1>3, <1>7, <1>8, CAnalyse DEF CInv

\* A visit writes neither the vector that is read as the faint value nor the
\* sets of the block.
LEMMA VisitKeeps ==
  ASSUME CInv, pc \in {"sweep", "done"}, NEW b \in Blocks(fn)
  PROVE  /\ P!Visit(b).bbInput = result[b].bbInput
         /\ P!Visit(b).genSet = result[b].genSet
         /\ P!Visit(b).killSet = result[b].killSet
<1>1. result[b] \in P!Props(input.domain)
  BY RunningFacts
<1>2. /\ P!AfterMeet(b).bbInput = result[b].bbInput
      /\ P!AfterMeet(b).genSet = result[b].genSet
      /\ P!AfterMeet(b).killSet = result[b].killSet
      /\ DOMAIN P!AfterMeet(b) = {"bbInput", "bbOutput", "genSet", "killSet"}
  BY <1>1 DEF P!AfterMeet, P!WithMeet, P!Props
<1>. DEFINE a == P!AfterMeet(b)
<1>3. P!Visit(b) = FaintTransfer(input.domain, input.member[b], a)
  BY DEF P!Visit
<1>. HIDE DEF a
<1>4. QED
  BY <1>2, <1>3 DEF FaintTransfer, a

LEMMA CVisitBlock == CInv /\ DFA!VisitBlock /\ UNCHANGED passVars => CInv'
<1>. SUFFICES ASSUME CInv, DFA!VisitBlock, UNCHANGED passVars PROVE CInv'
  OBVIOUS
<1>. DEFINE c == P!Traversal(idx)
<1>1. P!VisitBlock
  BY StepsLemma
<1>2. P!TInv'
  BY <1>1, P!TVisitBlock, FrameworkApplies DEF CInv
<1>3. /\ pc = "sweep" /\ pc' = "sweep" /\ input' = input
      /\ result' = [result EXCEPT ![c] = P!Visit(c)]
  BY <1>1 DEF P!VisitBlock
<1>4. /\ fn' = fn /\ domainToBitMap' = domainToBitMap
      /\ runs > 0 /\ result \in [Blocks(fn) -> P!Props(input.domain)]
  BY <1>3, RunningFacts DEF passVars
<1>5. \A b \in Blocks(fn) : result'[b] = IF b = c THEN P!Visit(b) ELSE result[b]
  BY <1>3, <1>4
<1>6. \A b \in Blocks(fn) : /\ result'[b].bbInput = result[b].bbInput
                            /\ result'[b].genSet = result[b].genSet
                            /\ result'[b].killSet = result[b].killSet
  BY <1>3, <1>5, VisitKeeps
<1>7. VectorsOK'
  BY <1>3, <1>4, <1>6 DEF CInv, VectorsOK
<1>8. blk = 0
  BY <1>3, <1>4 DEF CInv, DeletionOK, Blocks
<1>9. QED
  BY <1>2, <1>3, <1>7, <1>8, CAnalyse DEF CInv

LEMMA CEndSweep == CInv /\ DFA!EndSweep /\ UNCHANGED passVars => CInv'
<1>. SUFFICES ASSUME CInv, DFA!EndSweep, UNCHANGED passVars PROVE CInv'
  OBVIOUS
<1>1. P!EndSweep
  BY StepsLemma
<1>2. P!TInv'
  BY <1>1, P!TEndSweep, FrameworkApplies DEF CInv
<1>3. /\ pc = "sweep" /\ pc' \in {"sweep", "done"}
      /\ input' = input /\ result' = result
  BY <1>1 DEF P!EndSweep
<1>4. fn' = fn /\ domainToBitMap' = domainToBitMap /\ runs > 0
  BY <1>3, RunningFacts DEF passVars
<1>5. VectorsOK'
  BY <1>3, <1>4 DEF CInv, VectorsOK
<1>6. blk = 0
  BY <1>3, <1>4 DEF CInv, DeletionOK, Blocks
<1>7. QED
  BY <1>2, <1>3, <1>5, <1>6, CAnalyse DEF CInv

\* The rest of the pass runs while the object is done and leaves it alone.
LEMMA SameAnalysis ==
  ASSUME CInv, UNCHANGED dfaVars, fn' = fn, runs' = runs, domainToBitMap' = domainToBitMap
  PROVE  P!TInv' /\ MembersOK' /\ VectorsOK'
<1>1. UNCHANGED P!vars /\ pc' = pc /\ input' = input /\ result' = result
  BY DEF dfaVars, P!vars
<1>2. P!TInv'
  BY <1>1, P!TStutter, FrameworkApplies DEF CInv
<1>3. QED
  BY <1>1, <1>2 DEF CInv, MembersOK, VectorsOK

\* Everything that is not live is collected: every bit of faintVal is set.
LEMMA CollectedLemma ==
  ASSUME CInv, pc = "done", NEW b \in Blocks(fn)
  PROVE  Collected(b) = {k \in Positions(fn, b) : fn.insts[b][k] \notin fn.live}
<1>1. ASSUME NEW k \in Positions(fn, b), fn.insts[b][k] \notin fn.live
      PROVE  Bits(domainToBitMap, {fn.insts[b][k]}) \cap result[b].bbInput # {}
  <2>. DEFINE i == fn.insts[b][k]
  <2>1. i \in DOMAIN domainToBitMap
    BY <1>1, RunningFacts, CodeLemma DEF CInv, MembersOK, NotLive
  <2>2. domainToBitMap[i] \in result[b].bbInput
    BY <2>1 DEF CInv, MembersOK, BitsOK, VectorsOK
  <2>3. QED
    BY <2>1, <2>2 DEF Bits
<1>2. QED
  BY <1>1 DEF Collected

LEMMA CEnterBlock == CInv /\ EnterBlock => CInv'
<1>. SUFFICES ASSUME CInv, EnterBlock PROVE CInv'
  OBVIOUS
<1>1. /\ pc = "done" /\ insToDel = {} /\ blk < fn.n
      /\ blk' = blk + 1 /\ insToDel' = Collected(blk + 1)
      /\ fn' = fn /\ runs' = runs /\ domainToBitMap' = domainToBitMap /\ present' = present
      /\ UNCHANGED dfaVars /\ pc' = pc
  BY DEF EnterBlock, dfaVars
<1>2. P!TInv' /\ MembersOK' /\ VectorsOK'
  BY <1>1, SameAnalysis
<1>3. runs > 0 /\ fn \in Functions /\ blk \in 0 .. fn.n /\ fn.n \in Nat
  BY <1>1, RunningFacts, CodeLemma DEF CInv, DeletionOK
<1>4. blk + 1 \in Blocks(fn)
  BY <1>1, <1>3 DEF Blocks
<1>5. insToDel' = {k \in Positions(fn, blk + 1) : fn.insts[blk + 1][k] \notin fn.live}
  BY <1>1, <1>4, CollectedLemma
<1>6. \A k \in insToDel' : fn.insts[blk + 1][k] \in present \ fn.live
  <2>1. Code(fn, blk + 1) \subseteq present
    BY <1>1, <1>3, <1>4 DEF CInv, DeletionOK
  <2>2. QED
    BY <1>5, <2>1 DEF Code
<1>7. DeletionOK'
  BY <1>1, <1>3, <1>5, <1>6 DEF CInv, DeletionOK, Blocks
<1>8. TurnsOK'
  <2>1. ASSUME NEW k \in Positions(fn, blk + 1), fn.insts[blk + 1][k] \notin fn.live
        PROVE  k \in insToDel'
    BY <1>5, <2>1
  <2>2. ASSUME NEW b \in Blocks(fn), NEW k \in Positions(fn, b),
               fn.insts[b][k] \in present \ fn.live, TurnOver(b, k)'
        PROVE  b < blk \/ b = blk
    <3>1. ASSUME b = blk + 1 PROVE FALSE
      <4>1. k \in insToDel'
        BY <2>1, <2>2, <3>1
      <4>2. k < k
        BY <1>1, <1>3, <2>2, <3>1, <4>1 DEF TurnOver, Blocks
      <4>3. QED
        BY <4>2, CodeLemma, <1>3 DEF Positions
    <3>2. QED
      BY <1>1, <1>3, <2>2, <3>1 DEF TurnOver, Blocks
  <2>3. ASSUME NEW b \in Blocks(fn), NEW k \in Positions(fn, b),
               fn.insts[b][k] \in present \ fn.live, TurnOver(b, k)'
        PROVE  ~ UseEmpty(fn.insts[b][k]) \/ LostLater(b, fn.insts[b][k])
    <3>1. TurnOver(b, k)
      BY <1>1, <2>2, <2>3 DEF TurnOver
    <3>2. QED
      BY <1>3, <2>3, <3>1 DEF CInv, TurnsOK
  <2>4. \A i : /\ UseEmpty(i)' = UseEmpty(i)
               /\ \A b : LostLater(b, i)' = LostLater(b, i)
    BY <1>1 DEF UseEmpty, LostLater
  <2>5. QED
    BY <1>1, <1>3, <2>1, <2>3, <2>4 DEF TurnsOK
<1>9. QED
  BY <1>2, <1>7, <1>8 DEF CInv

LEMMA CDelete == CInv /\ Delete => CInv'
<1>. SUFFICES ASSUME CInv, Delete PROVE CInv'
  OBVIOUS
<1>1. PICK k0 \in insToDel :
        /\ \A j \in insToDel : j <= k0
        /\ present' = IF UseEmpty(fn.insts[blk][k0])
                        THEN present \ {fn.insts[blk][k0]} ELSE present
        /\ insToDel' = insToDel \ {k0}
        /\ UNCHANGED <<fn, runs, domainToBitMap, blk, dfaVars>>
  BY DEF Delete
<1>. DEFINE i0 == fn.insts[blk][k0]
<1>2. /\ fn' = fn /\ runs' = runs /\ domainToBitMap' = domainToBitMap /\ blk' = blk
      /\ UNCHANGED dfaVars /\ pc' = pc
  BY <1>1 DEF dfaVars
<1>3. P!TInv' /\ MembersOK' /\ VectorsOK'
  BY <1>2, SameAnalysis
<1>4. runs > 0
  BY <1>1 DEF CInv, DeletionOK, MembersOK
<1>5. fn \in Functions /\ blk \in 0 .. fn.n /\ fn.n \in Nat /\ blk > 0
  BY <1>1, <1>4, CodeLemma DEF CInv, MembersOK, DeletionOK
<1>6. /\ pc = "done" /\ blk \in Blocks(fn) /\ Visited(fn) = Blocks(fn)
      /\ insToDel \subseteq Positions(fn, blk)
  BY <1>1, <1>4, <1>5 DEF CInv, DeletionOK, VectorsOK, Blocks
<1>7. \A b \in Blocks(fn) : \A k \in Positions(fn, b) :
        fn.insts[b][k] = i0 => b = blk /\ k = k0
  BY <1>5, <1>6, FunctionsAssumption
<1>8. i0 \in Code(fn, blk) /\ i0 \in present \ fn.live
  BY <1>4, <1>6 DEF CInv, DeletionOK, Code
<1>. HIDE DEF i0
<1>9. /\ present' = IF UseEmpty(i0) THEN present \ {i0} ELSE present
      /\ present' \subseteq present
  BY <1>1 DEF i0
<1>10. DeletionOK'
  <2>1. fn.live \subseteq present' /\ present' \subseteq Instructions(fn)
    BY <1>4, <1>8, <1>9 DEF CInv, DeletionOK
  <2>2. \A i \in present' : fn.ops[i] \subseteq present'
    BY <1>4, <1>9 DEF CInv, DeletionOK, UseEmpty
  <2>3. ASSUME NEW c \in Blocks(fn), c > blk PROVE Code(fn, c) \subseteq present'
    <3>1. Code(fn, c) \subseteq present
      BY <1>4, <2>3 DEF CInv, DeletionOK
    <3>2. i0 \notin Code(fn, c)
      BY <1>5, <1>7, <2>3 DEF Code, Blocks
    <3>3. QED
      BY <1>9, <3>1, <3>2
  <2>4. \A k \in insToDel' : fn.insts[blk][k] \in present' \ fn.live
    <3>1. \A k \in insToDel' : k \in insToDel /\ fn.insts[blk][k] # i0
      BY <1>1, <1>6, <1>7
    <3>2. QED
      BY <1>4, <1>9, <3>1 DEF CInv, DeletionOK
  <2>5. blk' \in 0 .. fn.n /\ pc' = "done" /\ insToDel' \subseteq Positions(fn, blk)
    BY <1>1, <1>2, <1>5, <1>6
  <2>6. QED
    BY <1>2, <1>4, <1>5, <2>1, <2>2, <2>3, <2>4, <2>5 DEF DeletionOK, Blocks
<1>11. TurnsOK'
  <2>1. ASSUME NEW k \in Positions(fn, blk), fn.insts[blk][k] \notin fn.live
        PROVE  k \in insToDel' \/ TurnOver(blk, k)'
    <3>1. k \in insToDel \/ \A m \in insToDel : m < k
      BY <1>4, <1>5, <2>1 DEF CInv, TurnsOK, TurnOver
    <3>2. \A m \in insToDel' : m \in insToDel /\ m < k0
      <4>1. \A m \in insToDel : m \in Nat /\ k0 \in Nat
        BY <1>5, <1>6, CodeLemma DEF Positions
      <4>2. QED
        BY <1>1, <4>1
    <3>3. QED
      BY <1>1, <1>2, <3>1, <3>2 DEF TurnOver
  <2>2. ASSUME NEW b \in Blocks(fn), NEW k \in Positions(fn, b),
               fn.insts[b][k] \in present' \ fn.live, TurnOver(b, k)'
        PROVE  ~ UseEmpty(fn.insts[b][k])' \/ LostLater(b, fn.insts[b][k])'
    <3>. DEFINE i == fn.insts[b][k]
    <3>1. CASE b = blk /\ k = k0
      <4>1. i = i0
        BY <3>1 DEF i0
      <4>2. ~ UseEmpty(i) /\ present' = present
        BY <1>9, <2>2, <4>1
      <4>3. QED
        BY <1>2, <4>2 DEF UseEmpty
    <3>2. CASE ~ (b = blk /\ k = k0)
      <4>1. TurnOver(b, k)
        <5>1. CASE b = blk
          <6>1. k \notin insToDel
            <7>1. k \in insToDel => k < k
              BY <1>1, <1>2, <2>2, <3>2, <5>1, <1>5 DEF TurnOver
            <7>2. k \in Nat
              BY <1>5, CodeLemma DEF Positions
            <7>3. QED
              BY <7>1, <7>2
          <6>2. QED
            BY <1>4, <1>5, <2>2, <5>1, <6>1 DEF CInv, TurnsOK, TurnOver
        <5>2. CASE b # blk
          BY <1>2, <2>2, <5>2 DEF TurnOver
        <5>3. QED
          BY <5>1, <5>2
      <4>2. ~ UseEmpty(i) \/ LostLater(b, i)
        BY <1>4, <1>9, <2>2, <4>1 DEF CInv, TurnsOK
      <4>3. LostLater(b, i) => LostLater(b, i)'
        BY <1>2, <1>9 DEF LostLater
      <4>4. ASSUME ~ UseEmpty(i) PROVE ~ UseEmpty(i)' \/ LostLater(b, i)'
        <5>1. PICK j \in present : i \in fn.ops[j]
          BY <4>4 DEF UseEmpty
        <5>2. CASE j \in present'
          BY <1>2, <5>1, <5>2 DEF UseEmpty
        <5>3. CASE j \notin present'
          <6>1. j = i0 /\ i0 \notin present'
            BY <1>9, <5>3
          <6>2. blk \in b .. fn.n
            BY <1>5, <4>1 DEF TurnOver, Blocks
          <6>3. blk = b => i0 \in fn.phis
            <7>. SUFFICES ASSUME blk = b, i0 \notin fn.phis PROVE FALSE
              OBVIOUS
            <7>1. k0 < k
              BY <1>5, <4>1 DEF TurnOver
            <7>2. k < k0
              BY <1>5, <1>6, <5>1, <6>1, FunctionsAssumption DEF i0
            <7>3. k \in Nat /\ k0 \in Nat
              BY <1>5, <1>6, CodeLemma DEF Positions
            <7>4. QED
              BY <7>1, <7>2, <7>3
          <6>4. QED
            BY <1>2, <1>8, <5>1, <6>1, <6>2, <6>3 DEF LostLater
        <5>4. QED
          BY <5>2, <5>3
      <4>5. QED
        BY <4>2, <4>3, <4>4
    <3>3. QED
      BY <3>1, <3>2
  <2>3. QED
    BY <1>2, <2>1, <2>2 DEF TurnsOK
<1>12. QED
  BY <1>3, <1>10, <1>11 DEF CInv

LEMMA CReturn == CInv /\ Return => CInv'
<1>. SUFFICES ASSUME CInv, Return PROVE CInv'
  OBVIOUS
<1>1. /\ pc = "done" /\ blk = fn.n /\ insToDel = {}
      /\ DFA!Discard /\ pc' = "idle" /\ UNCHANGED passVars
  BY DEF Return, DFA!Discard
<1>2. P!TInv'
  BY <1>1, StepsLemma, P!TDiscard, FrameworkApplies
<1>3. /\ fn' = fn /\ runs' = runs /\ domainToBitMap' = domainToBitMap
      /\ present' = present /\ blk' = blk /\ insToDel' = insToDel
  BY <1>1 DEF passVars
<1>4. MembersOK' /\ VectorsOK'
  BY <1>1, <1>3 DEF CInv, MembersOK, VectorsOK
<1>5. DeletionOK'
  BY <1>1, <1>3 DEF CInv, DeletionOK
<1>6. TurnsOK'
  BY <1>3 DEF CInv, TurnsOK, TurnOver, UseEmpty, LostLater
<1>7. QED
  BY <1>2, <1>4, <1>5, <1>6 DEF CInv

LEMMA CStutter == CInv /\ UNCHANGED vars => CInv'
<1>. SUFFICES ASSUME CInv, UNCHANGED vars PROVE CInv'
  OBVIOUS
<1>1. /\ fn' = fn /\ runs' = runs /\ domainToBitMap' = domainToBitMap
      /\ present' = present /\ blk' = blk /\ insToDel' = insToDel
      /\ UNCHANGED dfaVars /\ pc' = pc
  BY DEF vars, passVars, dfaVars
<1>2. P!TInv' /\ MembersOK' /\ VectorsOK'
  BY <1>1, SameAnalysis
<1>3. DeletionOK'
  BY <1>1 DEF CInv, DeletionOK
<1>4. TurnsOK'
  BY <1>1 DEF CInv, TurnsOK, TurnOver, UseEmpty, LostLater
<1>5. QED
  BY <1>2, <1>3, <1>4 DEF CInv

LEMMA CNext == CInv /\ [Next]_vars => CInv'
<1>. SUFFICES ASSUME CInv, [Next]_vars PROVE CInv'
  OBVIOUS
<1>1. CASE Analyse
  BY <1>1, CInitialize, CVisitBlock, CEndSweep DEF Analyse, DFA!Run
<1>2. CASE EliminateDeadCode
  BY <1>2, CEnterBlock, CDelete, CReturn DEF EliminateDeadCode
<1>3. ASSUME NEW f \in Functions, RunOnFunction(f) PROVE CInv'
  BY <1>3, CRunOnFunction
<1>4. CASE UNCHANGED vars
  BY <1>4, CStutter
<1>5. QED
  BY <1>1, <1>2, <1>3, <1>4 DEF Next

(***************************************************************************)
(* CInv holds in every state of the pass (deadCodeElimination.cpp:57-102   *)
(* on top of the framework), whatever the functions and their order.       *)
(***************************************************************************)
THEOREM CInductive == Spec => []CInv
  BY CInit, CNext, PTL DEF Spec

-----------------------------------------------------------------------------
(***************************************************************************)
(* Nothing an effect needs is erased, and no operand dangles               *)
(* (deadCodeElimination.cpp:96-102), whatever the analysis says.           *)
(***************************************************************************)
THEOREM Safety == Spec => []NeededIsKept
<1>1. CInv => NeededIsKept
  <2>. SUFFICES ASSUME CInv, runs > 0 PROVE NeededIsKept
    BY DEF NeededIsKept
  <2>1. Closed(fn, present) /\ present \in SUBSET Instructions(fn)
    BY DEF CInv, DeletionOK, Closed
  <2>2. QED
    BY <2>1 DEF Needed, Closed, NeededIsKept
<1>2. QED
  BY <1>1, CInductive, PTL

(***************************************************************************)
(* An instruction left over without a use lost its last user after its own *)
(* turn (deadCodeElimination.cpp:77, 96): the traversal and the order of   *)
(* the list leave nothing else behind.                                     *)
(***************************************************************************)
THEOREM Leftovers == Spec => []LeftoverLostItsUserLater
<1>1. CInv => LeftoverLostItsUserLater
  <2>. SUFFICES ASSUME CInv, Returned, NEW b \in Blocks(fn),
                       NEW i \in (Code(fn, b) \cap present) \ fn.live, UseEmpty(i)
                PROVE  LostLater(b, i)
    BY DEF LeftoverLostItsUserLater, LostLater
  <2>1. runs > 0 /\ insToDel = {} /\ blk = fn.n
    BY DEF Returned, CInv, DeletionOK
  <2>2. PICK k \in Positions(fn, b) : i = fn.insts[b][k]
    BY DEF Code
  <2>3. b < blk \/ b = blk
    <3>1. fn.n \in Nat
      BY <2>1, CodeLemma DEF CInv, MembersOK
    <3>2. QED
      BY <2>1, <3>1 DEF Blocks
  <2>4. TurnOver(b, k)
    BY <2>1, <2>3 DEF TurnOver
  <2>5. QED
    BY <2>1, <2>2, <2>4 DEF CInv, TurnsOK
<1>2. QED
  BY <1>1, CInductive, PTL

(***************************************************************************)
(* The sets of a function speak of its own instructions, although the      *)
(* domain is never emptied (deadCodeElimination.cpp:65): the numbering     *)
(* gives each instruction of all functions so far a bit of its own.        *)
(***************************************************************************)
THEOREM OwnBits == Spec => []BitsAreOwn
<1>1. CInv => BitsAreOwn
  <2>. SUFFICES ASSUME CInv, pc \in {"sweep", "done"}, NEW b \in Blocks(fn),
                       NEW i \in DOMAIN domainToBitMap,
                       domainToBitMap[i] \in result[b].genSet \cup result[b].killSet
                PROVE  i \in Instructions(fn)
    BY DEF BitsAreOwn
  <2>1. fn \in Functions
    BY RunningFacts
  <2>2. i \in GenSet(fn, b) \cup KillSet(fn, b)
    <3>1. domainToBitMap[i] \in Bits(domainToBitMap, GenSet(fn, b))
                                  \cup Bits(domainToBitMap, KillSet(fn, b))
      BY DEF CInv, VectorsOK
    <3>2. PICK j \in (GenSet(fn, b) \cup KillSet(fn, b)) \cap DOMAIN domainToBitMap :
            domainToBitMap[j] = domainToBitMap[i]
      BY <3>1 DEF Bits
    <3>3. i = j
      BY <3>2 DEF CInv, MembersOK, BitsOK
    <3>4. QED
      BY <3>2, <3>3
  <2>3. GenSet(fn, b) \subseteq Instructions(fn)
    BY <2>1, CodeLemma DEF GenSet
  <2>4. KillSet(fn, b) \subseteq Instructions(fn)
    <3>1. \A k \in Positions(fn, b) : fn.insts[b][k] \in Instructions(fn)
      BY <2>1, CodeLemma
    <3>2. /\ fn.ops \in [Instructions(fn) -> SUBSET Instructions(fn)]
          /\ fn.phis \subseteq Instructions(fn)
      BY <2>1, FunctionsAssumption
    <3>3. \A j \in Instructions(fn) : ViaPhis(fn, j) \subseteq Instructions(fn)
      BY <3>2 DEF ViaPhis
    <3>4. QED
      BY <3>1, <3>2, <3>3 DEF KillSet, KilledAfter
  <2>5. QED
    BY <2>2, <2>3, <2>4
<1>2. QED
  BY <1>1, CInductive, PTL

(***************************************************************************)
(* The null dereference in the framework (dataflow.cpp:67) is met on a     *)
(* function with an unreachable block and on no other.                     *)
(***************************************************************************)
THEOREM Crashes == Spec => []CrashesOnUnreachableOnly
<1>1. CInv => CrashesOnUnreachableOnly
  BY DEF CInv, VectorsOK, CrashesOnUnreachableOnly
<1>2. QED
  BY <1>1, CInductive, PTL

(***************************************************************************)
(* Types, of the pass and of the framework object under it.                *)
(***************************************************************************)
THEOREM Typing == Spec => []TypeOK
<1>1. P!TypeOK => DFA!TypeOK
  BY DEF P!TypeOK, DFA!TypeOK, P!IsInput, DFA!IsInput, P!IsFunction, DFA!IsFunction,
         P!F, DFA!F, P!Blocks, DFA!Blocks, P!Visited, DFA!Visited, P!Props, DFA!Props,
         P!Entry, DFA!Entry, P!Predecessors, DFA!Predecessors,
         P!Successors, DFA!Successors, P!Traversal, DFA!Traversal
<1>2. CInv => TypeOK
  <2>. SUFFICES ASSUME CInv PROVE TypeOK
    OBVIOUS
  <2>1. DFA!TypeOK
    BY <1>1 DEF CInv, P!TInv
  <2>2. \A i \in DOMAIN domainToBitMap :
          domainToBitMap[i] \in 1 .. Cardinality(DOMAIN domainToBitMap)
    BY DEF CInv, MembersOK, BitsOK
  <2>3. QED
    BY <2>1, <2>2 DEF CInv, MembersOK, DeletionOK, TypeOK
<1>3. QED
  BY <1>2, CInductive, PTL

(***************************************************************************)
(* The vector read as the faint value (deadCodeElimination.cpp:72) is the  *)
(* one the transfer function never writes: every bit of it is set, so that *)
(* whatever is not live is collected, as if there were no analysis.        *)
(***************************************************************************)
EverythingIsCollected ==
  pc = "done" =>
    \A b \in Blocks(fn) : Collected(b) = {k \in Positions(fn, b) : fn.insts[b][k] \notin fn.live}

(***************************************************************************)
(* Holds for every function, through any sequence of functions.            *)
(***************************************************************************)
THEOREM AnalysisIsIdle == Spec => []EverythingIsCollected
<1>1. CInv => EverythingIsCollected
  BY CollectedLemma DEF EverythingIsCollected
<1>2. QED
  BY <1>1, CInductive, PTL

(***************************************************************************)
(* The pass uses the framework as its specification says: every step       *)
(* constructs, runs or discards a Dataflow object, or leaves it alone.     *)
(***************************************************************************)
THEOREM Refinement == Spec => DFA!Spec
<1>1. Init => DFA!Init
  BY DEF Init
<1>2. CInv /\ [Next]_vars => [DFA!Next]_DFA!vars
  <2>. SUFFICES ASSUME CInv, [Next]_vars PROVE DFA!Next \/ UNCHANGED DFA!vars
    OBVIOUS
  <2>1. CASE Analyse
    BY <2>1 DEF Analyse, DFA!Next
  <2>2. CASE Return
    BY <2>2 DEF Return, DFA!Next
  <2>3. CASE EnterBlock \/ Delete \/ UNCHANGED vars
    BY <2>3 DEF EnterBlock, Delete, vars, dfaVars, DFA!vars
  <2>4. ASSUME NEW f \in Functions, RunOnFunction(f) PROVE DFA!Next
    <3>1. /\ domainToBitMap' = Extended(domainToBitMap, f)
          /\ DOMAIN domainToBitMap \cap Instructions(f) = {}
          /\ DFA!Construct(InputOf(f, domainToBitMap'))
      BY <2>4 DEF RunOnFunction
    <3>2. BitsOK(domainToBitMap')
      BY <3>1, ExtendedLemma DEF CInv, MembersOK
    <3>3. QED
      BY <3>1, <3>2, KnownInput DEF DFA!Next
  <2>5. QED
    BY <2>1, <2>2, <2>3, <2>4 DEF Next, EliminateDeadCode
<1>3. QED
  BY <1>1, <1>2, CInductive, PTL DEF Spec, DFA!Spec
=============================================================================
