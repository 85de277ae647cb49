--------------------------- MODULE DataflowBasics ---------------------------
(***************************************************************************)
(* What the framework guarantees to every subclass of the repository: its  *)
(* state is well typed, if vectors stay inside the domain.  And what it    *)
(* guarantees to a subclass whose transferFn flips a set of the block in   *)
(* place: on every second visit that one reads the complement of what the  *)
(* client put into the info map.  Without loops that does no harm,         *)
(* provided the cap on sweeps is odd, as 5 is.                             *)
(***************************************************************************)
EXTENDS Dataflow, DominanceProofs

ASSUME TransferTyped ==
  \A in \in Inputs : \A b \in Blocks(in.fn) : \A p \in Props(in.domain) :
    transferFn(in.domain, in.member[b], p) \in Props(in.domain)

ASSUME MeetTyped ==
  \A in \in Inputs : \A vs \in (SUBSET SUBSET in.domain) \ {{}} :
    meetFn(vs) \in SUBSET in.domain

-----------------------------------------------------------------------------
(***************************************************************************)
(* The traversal meets exactly the visited blocks, each of them once.      *)
(***************************************************************************)
LEMMA TraversalLemma ==
  ASSUME IsFunction(F)
  PROVE  /\ Visited(F) \subseteq Blocks(F)
         /\ Len(F.po) \in Nat
         /\ \A i \in 1 .. Len(F.po) : Traversal(i) \in Visited(F)
         /\ \A i, j \in 1 .. Len(F.po) : Traversal(i) = Traversal(j) => i = j
         /\ \A b \in Visited(F) : \E i \in 1 .. Len(F.po) : Traversal(i) = b
<1>1. F.po \in Seq(Blocks(F)) /\ Len(F.po) \in Nat
  BY DEF IsFunction
<1>2. \A i \in 1 .. Len(F.po) : F.po[i] \in Blocks(F)
  BY <1>1
<1>3. \A i, j \in 1 .. Len(F.po) : F.po[i] = F.po[j] => i = j
  BY DEF IsFunction
<1>4. \A i \in 1 .. Len(F.po) : Len(F.po) + 1 - i \in 1 .. Len(F.po)
  BY <1>1
<1>5. Visited(F) \subseteq Blocks(F)
  BY <1>2 DEF Visited
<1>6. \A i \in 1 .. Len(F.po) : Traversal(i) \in Visited(F)
  BY <1>4 DEF Traversal, Visited
<1>7. \A i, j \in 1 .. Len(F.po) : Traversal(i) = Traversal(j) => i = j
  <2>1. TAKE i, j \in 1 .. Len(F.po)
  <2>2. Len(F.po) + 1 - i = Len(F.po) + 1 - j => i = j
    BY <1>1
  <2>3. QED
    BY <1>3, <1>4, <2>2 DEF Traversal
<1>8. \A b \in Visited(F) : \E i \in 1 .. Len(F.po) : Traversal(i) = b
  <2>1. TAKE b \in Visited(F)
  <2>2. PICK k \in 1 .. Len(F.po) : F.po[k] = b
    BY DEF Visited
  <2>3. Len(F.po) + 1 - (Len(F.po) + 1 - k) = k
    BY <1>1
  <2>4. QED
    BY <1>4, <2>2, <2>3 DEF Traversal
<1>9. QED
  BY <1>1, <1>5, <1>6, <1>7, <1>8

LEMMA NeighboursLemma ==
  ASSUME IsFunction(F), NEW b \in Blocks(F)
  PROVE  Neighbours(b) \subseteq Blocks(F)
<1>1. F.succs[b] \in Seq(Blocks(F))
  BY DEF IsFunction
<1>2. Successors(F, b) \subseteq Blocks(F)
  BY <1>1 DEF Successors
<1>3. QED
  BY <1>2 DEF Neighbours, Predecessors

(***************************************************************************)
(* The two sides of a block's properties.                                  *)
(***************************************************************************)
LEMMA SidesLemma ==
  ASSUME NEW D, NEW p \in Props(D), NEW v \in SUBSET D
  PROVE  /\ FlowSide(p) \in SUBSET D
         /\ MeetSide(p) \in SUBSET D
         /\ WithMeet(p, v) \in Props(D)
         /\ MeetSide(WithMeet(p, v)) = v
         /\ MeetSide(p) = v => WithMeet(p, v) = p
  BY DEF Props, FlowSide, MeetSide, WithMeet

LEMMA VisitTyped ==
  ASSUME IsFunction(F), input \in Inputs,
         result \in [Blocks(F) -> Props(input.domain)],
         NEW b \in Blocks(F)
  PROVE  /\ AfterMeet(b) \in Props(input.domain)
         /\ Neighbours(b) # {} => MeetSide(AfterMeet(b)) = meetFn(MeetInputs(b))
         /\ Visit(b) \in Props(input.domain)
<1>1. CASE Neighbours(b) = {}
  BY <1>1, TransferTyped DEF AfterMeet, Visit, F
<1>2. CASE Neighbours(b) # {}
  <2>1. MeetInputs(b) \in (SUBSET SUBSET input.domain) \ {{}}
    BY <1>2, NeighboursLemma, SidesLemma DEF MeetInputs
  <2>2. meetFn(MeetInputs(b)) \in SUBSET input.domain
    BY <2>1, MeetTyped
  <2>3. /\ AfterMeet(b) \in Props(input.domain)
        /\ MeetSide(AfterMeet(b)) = meetFn(MeetInputs(b))
    BY <1>2, <2>2, SidesLemma DEF AfterMeet
  <2>4. QED
    BY <2>3, TransferTyped DEF Visit, F
<1>3. QED
  BY <1>1, <1>2

-----------------------------------------------------------------------------
(***************************************************************************)
(* TypeOK is inductive together with: the object is run on an input that   *)
(* a client may hand over.                                                 *)
(***************************************************************************)
InputOK == pc # "idle" => input \in Inputs

TInv == TypeOK /\ InputOK

\* What TInv says of an object that is being run or has been.
LEMMA TFacts ==
  ASSUME TInv, pc # "idle"
  PROVE  /\ input \in Inputs /\ IsInput(input) /\ IsFunction(F)
         /\ Len(F.po) \in Nat /\ idx \in Nat \ {0} /\ iter \in 0 .. MaxSweeps
         /\ pc \in {"sweep", "done"} =>
              /\ result \in [Blocks(F) -> Props(input.domain)]
              /\ idx <= Len(F.po) + 1
              /\ DOMAIN prev \subseteq Visited(F)
              /\ \A k \in 1 .. idx - 1 : Traversal(k) \in DOMAIN prev
              /\ \A x \in DOMAIN prev : prev[x] \in SUBSET input.domain
         /\ pc = "sweep" => iter < MaxSweeps
<1>1. input \in Inputs /\ IsInput(input) /\ IsFunction(F)
  BY DEF TInv, TypeOK, InputOK, IsInput, F
<1>2. Len(F.po) \in Nat
  BY <1>1 DEF IsFunction
<1>3. QED
  BY <1>1, <1>2 DEF TInv, TypeOK

LEMMA TInit == Init => TInv
<1>1. Init => pc = "idle" /\ idx = 1 /\ iter = 0 /\ prev = << >> /\ converged \in BOOLEAN
  BY DEF Init
<1>2. QED
  BY <1>1, FrameworkAssumption DEF TInv, TypeOK, InputOK

LEMMA TConstruct ==
  ASSUME TInv, NEW in \in Inputs, Construct(in)
  PROVE  TInv'
  BY InputsAssumption, FrameworkAssumption DEF Construct, TInv, TypeOK, InputOK

LEMMA TDiscard == Discard => TInv'
<1>1. Discard => /\ pc' = "idle" /\ idx' = 1 /\ iter' = 0 /\ prev' = << >>
                 /\ converged' \in BOOLEAN
  BY DEF Discard
<1>2. QED
  BY <1>1, FrameworkAssumption DEF TInv, TypeOK, InputOK

LEMMA TInitialize == TInv /\ Initialize => TInv'
<1>. SUFFICES ASSUME TInv, Initialize PROVE TInv'
  OBVIOUS
<1>1. /\ pc = "initialize" /\ idx = 1 /\ iter = 0 /\ prev = << >> /\ converged \in BOOLEAN
      /\ input \in Inputs /\ IsInput(input) /\ IsFunction(F) /\ Len(F.po) \in Nat
  BY TFacts DEF Initialize, TInv, TypeOK
<1>2. /\ pc' \in {"sweep", "crashed"}
      /\ UNCHANGED <<input, prev, idx, iter, converged>>
  BY DEF Initialize
<1>3. ASSUME pc' = "sweep" PROVE result' \in [Blocks(F) -> Props(input.domain)]
  <2>1. /\ Blocks(F) \subseteq DOMAIN input.infoMap
        /\ result' = [b \in Blocks(F) |-> InitialProps(b)]
    BY <1>3 DEF Initialize
  <2>2. \A b \in Blocks(F) : InitialProps(b) \in Props(input.domain)
    BY <1>1, <2>1 DEF InitialProps, Props, Vector, IsInput
  <2>3. QED
    BY <2>1, <2>2
<1>4. QED
  BY <1>1, <1>2, <1>3, FrameworkAssumption DEF TInv, TypeOK, InputOK, F

LEMMA TVisitBlock == TInv /\ VisitBlock => TInv'
<1>. SUFFICES ASSUME TInv, VisitBlock PROVE TInv'
  OBVIOUS
<1>. DEFINE c == Traversal(idx)
<1>1. /\ pc = "sweep" /\ idx <= Len(F.po)
      /\ result' = [result EXCEPT ![c] = Visit(c)]
      /\ prev' = [x \in DOMAIN prev \cup {c} |->
                    IF x = c THEN FlowSide(result[c]) ELSE prev[x]]
      /\ idx' = idx + 1
      /\ input' = input /\ iter' = iter /\ converged' = converged /\ pc' = pc
  BY DEF VisitBlock
<1>2. /\ input \in Inputs /\ IsFunction(F) /\ Len(F.po) \in Nat /\ idx \in Nat \ {0}
      /\ result \in [Blocks(F) -> Props(input.domain)]
      /\ DOMAIN prev \subseteq Visited(F)
      /\ \A k \in 1 .. idx - 1 : Traversal(k) \in DOMAIN prev
      /\ \A x \in DOMAIN prev : prev[x] \in SUBSET input.domain
  BY <1>1, TFacts
<1>3. F' = F /\ \A k : Traversal(k)' = Traversal(k)
  BY <1>1 DEF F, Traversal
<1>4. c \in Visited(F) /\ c \in Blocks(F)
  BY <1>1, <1>2, TraversalLemma
<1>5. result' \in [Blocks(F) -> Props(input.domain)]
  BY <1>1, <1>2, <1>4, VisitTyped
<1>6. /\ DOMAIN prev' \subseteq Visited(F)
      /\ \A x \in DOMAIN prev' : prev'[x] \in SUBSET input.domain
  BY <1>1, <1>2, <1>4, SidesLemma
<1>7. ASSUME NEW k \in 1 .. idx' - 1
      PROVE  Traversal(k) \in DOMAIN prev'
  <2>1. k \in 1 .. idx - 1 \/ k = idx
    BY <1>1, <1>2, <1>7
  <2>2. QED
    BY <1>1, <1>2, <2>1
<1>8. idx' \in Nat \ {0} /\ idx' <= Len(F.po) + 1
  BY <1>1, <1>2
<1>9. QED
  BY <1>1, <1>3, <1>5, <1>6, <1>7, <1>8 DEF TInv, TypeOK, InputOK, F

LEMMA TEndSweep == TInv /\ EndSweep => TInv'
<1>. SUFFICES ASSUME TInv, EndSweep PROVE TInv'
  OBVIOUS
<1>1. /\ pc = "sweep" /\ UNCHANGED <<input, result, prev>>
      /\ idx' = 1 /\ iter' = iter + 1 /\ converged' = Unchanged
      /\ pc' = IF converged' \/ iter' = MaxSweeps THEN "done" ELSE "sweep"
  BY DEF EndSweep
<1>2. /\ IsInput(input) /\ Len(F.po) \in Nat
      /\ result \in [Blocks(F) -> Props(input.domain)]
      /\ DOMAIN prev \subseteq Visited(F)
      /\ \A x \in DOMAIN prev : prev[x] \in SUBSET input.domain
      /\ input \in Inputs /\ iter \in 0 .. MaxSweeps /\ iter < MaxSweeps
  BY <1>1, TFacts
<1>3. pc' \in {"sweep", "done"} /\ (pc' = "sweep" => iter' # MaxSweeps)
  BY <1>1
<1>4. iter' \in 0 .. MaxSweeps /\ (pc' = "sweep" => iter' < MaxSweeps)
  BY <1>1, <1>2, <1>3, FrameworkAssumption
<1>5. converged' \in BOOLEAN
  BY <1>1 DEF Unchanged
<1>6. F' = F
  BY <1>1 DEF F
<1>7. QED
  BY <1>1, <1>2, <1>3, <1>4, <1>5, <1>6 DEF TInv, TypeOK, InputOK

LEMMA TStutter == TInv /\ UNCHANGED vars => TInv'
  BY DEF vars, TInv, TypeOK, InputOK, F, Traversal

\* One step of run() or of its client.
LEMMA TNext == TInv /\ [Next]_vars => TInv'
<1>. SUFFICES ASSUME TInv, [Next]_vars PROVE TInv'
  OBVIOUS
<1>1. CASE Run
  BY <1>1, TInitialize, TVisitBlock, TEndSweep DEF Run
<1>2. CASE Discard
  BY <1>2, TDiscard
<1>3. ASSUME NEW in \in Inputs, Construct(in) PROVE TInv'
  BY <1>3, TConstruct
<1>4. CASE UNCHANGED vars
  BY <1>4, TStutter
<1>5. QED
  BY <1>1, <1>2, <1>3, <1>4 DEF Next

(***************************************************************************)
(* The framework's state is well typed for every subclass that is, whether *)
(* or not its transfer function changes the sets it reads.                 *)
(***************************************************************************)
THEOREM Typing == Spec => []TypeOK
<1>1. TInv => TypeOK
  BY DEF TInv
<1>2. QED
  BY <1>1, TInit, TNext, PTL DEF Spec

-----------------------------------------------------------------------------
(***************************************************************************)
(* A subclass that flips, or does not: transferFn leaves the meet side     *)
(* alone, reads nothing but it and the gen and kill sets, and applied a    *)
(* second time has those two back where they were.                         *)
(***************************************************************************)
FlipAssumption ==
  \A in \in Inputs : \A b \in Blocks(in.fn) : \A p, q \in Props(in.domain) :
    LET Transfer(x) == transferFn(in.domain, in.member[b], x)
    IN  /\ MeetSide(Transfer(p)) = MeetSide(p)
        /\ p.genSet = q.genSet /\ p.killSet = q.killSet /\ MeetSide(p) = MeetSide(q)
           => FlowSide(Transfer(p)) = FlowSide(Transfer(q))
        /\ p.genSet = q.genSet /\ p.killSet = q.killSet
           => /\ Transfer(p).genSet = Transfer(q).genSet
              /\ Transfer(p).killSet = Transfer(q).killSet
        /\ Transfer(Transfer(p)).genSet = p.genSet
        /\ Transfer(Transfer(p)).killSet = p.killSet

-----------------------------------------------------------------------------
\* What a first visit would make of vector v at block b.
FirstTransfer(b, v) ==
  transferFn(input.domain, input.member[b], WithMeet(InitialProps(b), v))

\* The sets of the info map, and what a visit turns them into.
Fresh(b) ==
  /\ result[b].genSet = InitialProps(b).genSet
  /\ result[b].killSet = InitialProps(b).killSet

Flipped(b) ==
  LET q == transferFn(input.domain, input.member[b], InitialProps(b))
  IN  result[b].genSet = q.genSet /\ result[b].killSet = q.killSet

\* What block b holds when its neighbours offer the vectors vs.
HeldAt(b, vs) == IF Neighbours(b) = {} THEN MeetSide(InitialProps(b)) ELSE meetFn(vs)

(***************************************************************************)
(* Block b satisfies the equations the client meant: its meet side is the  *)
(* meet of what its neighbours offer, or the initial vector if it has      *)
(* none, and its flow side is the transfer of that with the sets of the    *)
(* info map.                                                               *)
(***************************************************************************)
MeetOK(b) == MeetSide(result[b]) = HeldAt(b, MeetInputs(b))

FlowOK(b) == FlowSide(result[b]) = FlowSide(FirstTransfer(b, MeetSide(result[b])))

Solved(b) == MeetOK(b) /\ FlowOK(b)

\* No loops, and no code that cannot be reached.
Plain == Acyclic(F) /\ Blocks(F) \subseteq Visited(F)

OddCap == MaxSweeps % 2 = 1

(***************************************************************************)
(* A run that ends, ends with the solution.                                *)
(***************************************************************************)
AnswerIsSolution == pc = "done" /\ Plain /\ OddCap => \A b \in Blocks(F) : Solved(b)

-----------------------------------------------------------------------------
(***************************************************************************)
(* In the odd sweeps the sets are those of the info map and every block    *)
(* passed is solved, for its neighbours come before it.  In the even ones  *)
(* the vectors the sweep started from, saved or still there, are the       *)
(* solution; what is computed from flipped sets only counts if it is the   *)
(* same.                                                                   *)
(***************************************************************************)
InOdd == iter % 2 = 0

Passed(b) == \E k \in 1 .. idx - 1 : Traversal(k) = b

Before(b) == IF Passed(b) THEN prev[b] ELSE FlowSide(result[b])

MapOK == pc \in {"sweep", "done"} => Blocks(F) \subseteq DOMAIN input.infoMap

SetsOK ==
  \A b \in Blocks(F) : IF Passed(b) <=> InOdd THEN Flipped(b) ELSE Fresh(b)

EndsOK ==
  \A b \in Blocks(F) : Neighbours(b) = {} => MeetSide(result[b]) = MeetSide(InitialProps(b))

PassedOK == \A b \in Blocks(F) : Passed(b) => MeetOK(b) /\ (InOdd => FlowOK(b))

BeforeOK ==
  ~ InOdd => \A b \in Blocks(F) :
    Before(b) = FlowSide(FirstTransfer(b, HeldAt(b, {Before(q) : q \in Neighbours(b)})))

SweepInv == pc = "sweep" /\ Plain => SetsOK /\ EndsOK /\ PassedOK /\ BeforeOK

FInv == TInv /\ MapOK /\ SweepInv /\ AnswerIsSolution

-----------------------------------------------------------------------------
\* Every second sweep is an odd one.
LEMMA ParityLemma ==
  ASSUME NEW n \in Nat
  PROVE  (n + 1) % 2 = 0 <=> n % 2 # 0
  OBVIOUS

\* In a function without loops the neighbours of a block come before it.
LEMMA NeighboursFirst ==
  ASSUME IsFunction(F), Plain, NEW j \in 1 .. Len(F.po), NEW q \in Neighbours(Traversal(j))
  PROVE  \E k \in 1 .. j - 1 : Traversal(k) = q
<1>. DEFINE n == Len(F.po)
<1>1. n \in Nat /\ Traversal(j) \in Blocks(F)
  BY TraversalLemma
<1>2. q \in Blocks(F)
  BY <1>1, NeighboursLemma
<1>3. PICK x \in 1 .. n : F.po[x] = q
  BY <1>2 DEF Plain, Visited
<1>. HIDE DEF n
<1>4. CASE dir = "FORWARD"
  <2>1. n + 1 - j \in 1 .. n /\ Traversal(j) = F.po[n + 1 - j]
    BY <1>1, <1>4 DEF Traversal, n
  <2>2. F.po[n + 1 - j] \in Successors(F, F.po[x])
    BY <1>3, <1>4, <2>1 DEF Neighbours, Predecessors
  <2>3. n + 1 - j < x
    BY <1>3, <2>1, <2>2 DEF Plain, Acyclic, n
  <2>4. n + 1 - x \in 1 .. j - 1 /\ n + 1 - (n + 1 - x) = x
    BY <1>1, <1>3, <2>3
  <2>5. Traversal(n + 1 - x) = q
    BY <1>3, <1>4, <2>4 DEF Traversal, n
  <2>6. QED
    BY <2>4, <2>5
<1>5. CASE dir # "FORWARD"
  <2>1. Traversal(j) = F.po[j] /\ Traversal(x) = q
    BY <1>3, <1>5 DEF Traversal
  <2>2. F.po[x] \in Successors(F, F.po[j])
    BY <1>3, <1>5, <2>1 DEF Neighbours
  <2>3. x < j
    BY <1>3, <2>2 DEF Plain, Acyclic, n
  <2>4. QED
    BY <1>3, <2>1, <2>3
<1>6. QED
  BY <1>4, <1>5

LEMMA InitialTyped ==
  ASSUME TInv, MapOK, pc \in {"sweep", "done"}, NEW b \in Blocks(F)
  PROVE  InitialProps(b) \in Props(input.domain)
<1>1. b \in DOMAIN input.infoMap /\ IsInput(input)
  BY TFacts DEF MapOK
<1>2. /\ input.infoMap[b].genSet \in SUBSET input.domain
      /\ input.infoMap[b].killSet \in SUBSET input.domain
  BY <1>1 DEF IsInput
<1>3. QED
  BY <1>2 DEF InitialProps, Props, Vector

LEMMA WithMeetSets ==
  ASSUME NEW D, NEW p \in Props(D), NEW v
  PROVE  WithMeet(p, v).genSet = p.genSet /\ WithMeet(p, v).killSet = p.killSet
  BY DEF WithMeet, Props

(***************************************************************************)
(* The assumption, for the block that is visited.                          *)
(***************************************************************************)
LEMMA TransferLemma ==
  ASSUME FlipAssumption, input \in Inputs, NEW b \in Blocks(F),
         NEW p \in Props(input.domain), NEW q \in Props(input.domain),
         NEW tp, tp = transferFn(input.domain, input.member[b], p),
         NEW tq, tq = transferFn(input.domain, input.member[b], q)
  PROVE  /\ tp \in Props(input.domain)
         /\ MeetSide(tp) = MeetSide(p)
         /\ p.genSet = q.genSet /\ p.killSet = q.killSet /\ MeetSide(p) = MeetSide(q)
            => FlowSide(tp) = FlowSide(tq)
         /\ p.genSet = q.genSet /\ p.killSet = q.killSet
            => tp.genSet = tq.genSet /\ tp.killSet = tq.killSet
         /\ transferFn(input.domain, input.member[b], tp).genSet = p.genSet
         /\ transferFn(input.domain, input.member[b], tp).killSet = p.killSet
  BY TransferTyped DEF F, FlipAssumption

-----------------------------------------------------------------------------
LEMMA FInitialize == FInv /\ Initialize => FInv'
<1>. SUFFICES ASSUME FInv, Initialize PROVE FInv'
  OBVIOUS
<1>1. /\ pc = "initialize" /\ UNCHANGED <<input, prev, idx, iter, converged>>
      /\ pc' \in {"sweep", "crashed"}
      /\ pc' = "sweep" => /\ Blocks(F) \subseteq DOMAIN input.infoMap
                          /\ result' = [b \in Blocks(F) |-> InitialProps(b)]
  BY DEF Initialize
<1>2. TInv' /\ idx = 1 /\ iter = 0
  BY <1>1, TInitialize DEF FInv, TInv, TypeOK
<1>3. /\ F' = F /\ \A b : InitialProps(b)' = InitialProps(b)
      /\ \A b : Neighbours(b)' = Neighbours(b)
  BY <1>1 DEF F, InitialProps, BlockType, Vector, Neighbours
<1>4. MapOK' /\ AnswerIsSolution'
  BY <1>1, <1>3 DEF MapOK, AnswerIsSolution
<1>5. ASSUME pc' = "sweep" PROVE SetsOK' /\ EndsOK' /\ PassedOK' /\ BeforeOK'
  <2>1. \A b \in Blocks(F) : result'[b] = InitialProps(b)
    BY <1>1, <1>5
  <2>2. \A b : ~ Passed(b)'
    BY <1>1, <1>2 DEF Passed
  <2>3. InOdd'
    BY <1>1, <1>2 DEF InOdd
  <2>4. SetsOK'
    BY <1>3, <2>1, <2>2, <2>3 DEF SetsOK, Fresh
  <2>5. EndsOK'
    BY <1>3, <2>1 DEF EndsOK, MeetSide
  <2>6. PassedOK' /\ BeforeOK'
    BY <2>2, <2>3 DEF PassedOK, BeforeOK
  <2>7. QED
    BY <2>4, <2>5, <2>6
<1>6. QED
  BY <1>2, <1>4, <1>5 DEF FInv, SweepInv

(***************************************************************************)
(* One visit.                                                              *)
(***************************************************************************)
Visiting(c) ==
  /\ FInv /\ Plain /\ pc = "sweep" /\ idx \in 1 .. Len(F.po) /\ c = Traversal(idx)
  /\ result' = [result EXCEPT ![c] = Visit(c)]
  /\ prev' = [x \in DOMAIN prev \cup {c} |-> IF x = c THEN FlowSide(result[c]) ELSE prev[x]]
  /\ idx' = idx + 1
  /\ input' = input /\ iter' = iter /\ converged' = converged /\ pc' = pc

LEMMA VisitingFacts ==
  ASSUME NEW c, Visiting(c)
  PROVE  /\ input \in Inputs /\ IsFunction(F) /\ Len(F.po) \in Nat
         /\ SetsOK /\ EndsOK /\ PassedOK /\ BeforeOK
         /\ result \in [Blocks(F) -> Props(input.domain)]
         /\ c \in Blocks(F) /\ ~ Passed(c)
         /\ \A x : Passed(x) => x \in Blocks(F) /\ x \in DOMAIN prev
         /\ \A x : Passed(x)' <=> Passed(x) \/ x = c
         /\ \A x : Passed(x) \/ x = c => \A q \in Neighbours(x) : Passed(q) /\ q # c
<1>1. /\ FInv /\ Plain /\ pc = "sweep" /\ idx \in 1 .. Len(F.po) /\ c = Traversal(idx)
      /\ idx' = idx + 1 /\ input' = input
  BY DEF Visiting
<1>2. /\ input \in Inputs /\ IsFunction(F) /\ Len(F.po) \in Nat
      /\ SetsOK /\ EndsOK /\ PassedOK /\ BeforeOK
      /\ result \in [Blocks(F) -> Props(input.domain)]
      /\ \A k \in 1 .. idx - 1 : Traversal(k) \in DOMAIN prev
  BY <1>1, TFacts DEF FInv, SweepInv
<1>3. /\ Visited(F) \subseteq Blocks(F)
      /\ \A i \in 1 .. Len(F.po) : Traversal(i) \in Visited(F)
      /\ \A i, j \in 1 .. Len(F.po) : Traversal(i) = Traversal(j) => i = j
  BY <1>2, TraversalLemma
<1>4. \A k \in 1 .. idx - 1 : k \in 1 .. Len(F.po) /\ k # idx
  BY <1>1, <1>2
<1>5. ~ Passed(c)
  BY <1>1, <1>3, <1>4 DEF Passed
<1>6. \A x : Passed(x) => x \in Blocks(F) /\ x \in DOMAIN prev
  BY <1>2, <1>3, <1>4 DEF Passed
<1>7. ASSUME NEW x PROVE Passed(x)' <=> Passed(x) \/ x = c
  <2>1. \A k : Traversal(k)' = Traversal(k)
    BY <1>1 DEF Traversal, F
  <2>2. Passed(x)' <=> \E k \in 1 .. idx : Traversal(k) = x
    BY <1>1, <2>1 DEF Passed
  <2>3. \A k : k \in 1 .. idx <=> k \in 1 .. idx - 1 \/ k = idx
    BY <1>1
  <2>4. QED
    BY <1>1, <2>2, <2>3 DEF Passed
<1>8. ASSUME NEW x, Passed(x) \/ x = c, NEW q \in Neighbours(x)
      PROVE  Passed(q) /\ q # c
  <2>1. PICK j \in 1 .. Len(F.po) : j <= idx /\ Traversal(j) = x
    BY <1>1, <1>4, <1>8 DEF Passed
  <2>2. PICK k \in 1 .. j - 1 : Traversal(k) = q
    BY <1>1, <1>2, <1>8, <2>1, NeighboursFirst
  <2>3. k \in 1 .. idx - 1
    BY <1>1, <2>1, <2>2
  <2>4. Passed(q)
    BY <2>2, <2>3 DEF Passed
  <2>5. QED
    BY <1>5, <2>4
<1>9. QED
  BY <1>1, <1>2, <1>3, <1>5, <1>6, <1>7, <1>8

\* What a visit leaves at the block.
LEMMA VisitedBlock ==
  ASSUME FlipAssumption, NEW c, Visiting(c)
  PROVE  /\ result'[c] \in Props(input.domain)
         /\ MeetSide(result'[c]) = HeldAt(c, MeetInputs(c))
         /\ InOdd => FlowSide(result'[c]) = FlowSide(FirstTransfer(c, MeetSide(result'[c])))
         /\ InOdd => LET q == transferFn(input.domain, input.member[c], InitialProps(c))
                     IN  result'[c].genSet = q.genSet /\ result'[c].killSet = q.killSet
         /\ ~ InOdd => /\ result'[c].genSet = InitialProps(c).genSet
                       /\ result'[c].killSet = InitialProps(c).killSet
<1>1. /\ input \in Inputs /\ IsFunction(F)
      /\ SetsOK /\ EndsOK
      /\ result \in [Blocks(F) -> Props(input.domain)]
      /\ c \in Blocks(F) /\ ~ Passed(c)
  BY VisitingFacts
<1>2. /\ TInv /\ MapOK /\ pc = "sweep" /\ result' = [result EXCEPT ![c] = Visit(c)]
  BY DEF Visiting, FInv
<1>3. PICK A, v, init, D, m : /\ A = AfterMeet(c) /\ v = Visit(c) /\ init = InitialProps(c)
                              /\ D = input.domain /\ m = input.member[c]
  OBVIOUS
<1>4. /\ A \in Props(D) /\ v \in Props(D) /\ init \in Props(D)
      /\ Neighbours(c) # {} => MeetSide(A) = meetFn(MeetInputs(c))
  BY <1>1, <1>2, <1>3, VisitTyped, InitialTyped
<1>5. v = transferFn(D, m, A) /\ result'[c] = v
  BY <1>1, <1>2, <1>3 DEF Visit
<1>6. MeetSide(A) = HeldAt(c, MeetInputs(c))
  BY <1>1, <1>3, <1>4 DEF AfterMeet, HeldAt, EndsOK
<1>7. A.genSet = result[c].genSet /\ A.killSet = result[c].killSet
  <2>1. result[c] \in Props(D)
    BY <1>1, <1>3
  <2>2. QED
    BY <1>3, <2>1 DEF AfterMeet, WithMeet, Props
<1>8. PICK w, tw, ti : /\ w = WithMeet(init, MeetSide(A)) /\ tw = transferFn(D, m, w)
                       /\ ti = transferFn(D, m, init)
  OBVIOUS
<1>9. /\ w \in Props(D) /\ MeetSide(w) = MeetSide(A)
      /\ w.genSet = init.genSet /\ w.killSet = init.killSet
  <2>1. MeetSide(A) \in SUBSET D
    BY <1>4, SidesLemma
  <2>2. QED
    BY <1>4, <1>8, <2>1, SidesLemma, WithMeetSets
<1>10. MeetSide(v) = MeetSide(A)
  BY <1>1, <1>3, <1>4, <1>5, TransferLemma
<1>11. CASE InOdd
  <2>1. result[c].genSet = init.genSet /\ result[c].killSet = init.killSet
    BY <1>1, <1>3, <1>11 DEF SetsOK, Fresh
  <2>2. FlowSide(v) = FlowSide(tw)
    BY <1>1, <1>3, <1>4, <1>5, <1>7, <1>8, <1>9, <2>1, TransferLemma
  <2>3. v.genSet = ti.genSet /\ v.killSet = ti.killSet
    BY <1>1, <1>3, <1>4, <1>5, <1>7, <1>8, <2>1, TransferLemma
  <2>4. tw = FirstTransfer(c, MeetSide(v))
    BY <1>3, <1>8, <1>10 DEF FirstTransfer
  <2>5. QED
    BY <1>3, <1>4, <1>5, <1>6, <1>8, <1>10, <1>11, <2>2, <2>3, <2>4
<1>12. CASE ~ InOdd
  <2>1. result[c].genSet = ti.genSet /\ result[c].killSet = ti.killSet
    BY <1>1, <1>3, <1>8, <1>12 DEF SetsOK, Flipped
  <2>2. ti \in Props(D)
    BY <1>1, <1>3, <1>4, <1>8, TransferLemma
  <2>3. PICK tti : tti = transferFn(D, m, ti)
    OBVIOUS
  <2>4. tti.genSet = init.genSet /\ tti.killSet = init.killSet
    BY <1>1, <1>3, <1>4, <1>8, <2>3, TransferLemma
  <2>5. v.genSet = tti.genSet /\ v.killSet = tti.killSet
    BY <1>1, <1>3, <1>4, <1>5, <1>7, <2>1, <2>2, <2>3, TransferLemma
  <2>6. QED
    BY <1>3, <1>4, <1>5, <1>6, <1>10, <1>12, <2>4, <2>5
<1>13. QED
  BY <1>11, <1>12

LEMMA FVisitPlain ==
  ASSUME FlipAssumption, NEW c, Visiting(c)
  PROVE  SetsOK' /\ EndsOK' /\ PassedOK' /\ BeforeOK'
<1>1. /\ SetsOK /\ EndsOK /\ PassedOK /\ BeforeOK
      /\ result \in [Blocks(F) -> Props(input.domain)]
      /\ c \in Blocks(F) /\ ~ Passed(c)
      /\ \A x : Passed(x) => x \in Blocks(F) /\ x \in DOMAIN prev
      /\ \A x : Passed(x)' <=> Passed(x) \/ x = c
      /\ \A x : Passed(x) \/ x = c => \A q \in Neighbours(x) : Passed(q) /\ q # c
  BY VisitingFacts
<1>2. /\ input' = input /\ iter' = iter
      /\ prev' = [x \in DOMAIN prev \cup {c} |-> IF x = c THEN FlowSide(result[c]) ELSE prev[x]]
      /\ result' = [result EXCEPT ![c] = Visit(c)]
  BY DEF Visiting
<1>3. \A x \in Blocks(F) : x # c => result'[x] = result[x]
  BY <1>1, <1>2
<1>4. /\ F' = F /\ (InOdd' <=> InOdd)
      /\ \A b : InitialProps(b)' = InitialProps(b)
      /\ \A b : Neighbours(b)' = Neighbours(b)
      /\ \A b, v : HeldAt(b, v)' = HeldAt(b, v)
      /\ \A b, v : FirstTransfer(b, v)' = FirstTransfer(b, v)
  BY <1>2 DEF F, InOdd, InitialProps, BlockType, Vector, Neighbours, HeldAt, FirstTransfer
<1>5. ASSUME NEW x, Passed(x) \/ x = c PROVE MeetInputs(x)' = MeetInputs(x)
  <2>1. \A q \in Neighbours(x) : q \in Blocks(F) /\ q # c
    BY <1>1, <1>5
  <2>2. \A q \in Neighbours(x) : FlowSide(result'[q]) = FlowSide(result[q])
    BY <1>3, <2>1
  <2>3. MeetInputs(x)' = {FlowSide(result'[q]) : q \in Neighbours(x)}
    BY <1>4 DEF MeetInputs, FlowSide
  <2>4. QED
    BY <2>2, <2>3 DEF MeetInputs
<1>6. /\ MeetSide(result'[c]) = HeldAt(c, MeetInputs(c))
      /\ InOdd => FlowSide(result'[c]) = FlowSide(FirstTransfer(c, MeetSide(result'[c])))
  BY VisitedBlock
<1>7. SetsOK'
  <2>1. ASSUME NEW x \in Blocks(F)
        PROVE  (IF Passed(x) <=> InOdd THEN Flipped(x) ELSE Fresh(x))'
    <3>1. CASE x = c
      <4>1. CASE InOdd
        <5>1. Flipped(c)'
          BY <1>2, <1>4, <4>1, VisitedBlock DEF Flipped
        <5>2. QED
          BY <1>1, <1>4, <3>1, <4>1, <5>1
      <4>2. CASE ~ InOdd
        <5>1. Fresh(c)'
          BY <1>2, <1>4, <4>2, VisitedBlock DEF Fresh
        <5>2. QED
          BY <1>1, <1>4, <3>1, <4>2, <5>1
      <4>3. QED
        BY <4>1, <4>2
    <3>2. CASE x # c
      <4>1. (Flipped(x)' <=> Flipped(x)) /\ (Fresh(x)' <=> Fresh(x))
        BY <1>2, <1>3, <1>4, <3>2 DEF Flipped, Fresh
      <4>2. QED
        BY <1>1, <1>4, <3>2, <4>1 DEF SetsOK
    <3>3. QED
      BY <3>1, <3>2
  <2>2. QED
    BY <1>4, <2>1 DEF SetsOK
<1>8. EndsOK'
  <2>1. ASSUME NEW x \in Blocks(F), Neighbours(x) = {}
        PROVE  MeetSide(result'[x]) = MeetSide(InitialProps(x))
    <3>1. CASE x = c
      BY <1>6, <2>1, <3>1 DEF HeldAt
    <3>2. CASE x # c
      BY <1>1, <1>3, <2>1, <3>2 DEF EndsOK
    <3>3. QED
      BY <3>1, <3>2
  <2>2. QED
    BY <1>4, <2>1 DEF EndsOK, MeetSide
<1>9. PassedOK'
  <2>1. ASSUME NEW x \in Blocks(F), Passed(x) \/ x = c
        PROVE  /\ MeetSide(result'[x]) = HeldAt(x, MeetInputs(x))
               /\ InOdd => FlowSide(result'[x]) = FlowSide(FirstTransfer(x, MeetSide(result'[x])))
    <3>1. CASE x = c
      BY <1>6, <3>1
    <3>2. CASE x # c
      BY <1>1, <1>3, <2>1, <3>2 DEF PassedOK, MeetOK, FlowOK
    <3>3. QED
      BY <3>1, <3>2
  <2>2. ASSUME NEW x \in Blocks(F), Passed(x)'
        PROVE  MeetOK(x)' /\ (InOdd' => FlowOK(x)')
    <3>1. Passed(x) \/ x = c
      BY <1>1, <2>2
    <3>2. MeetOK(x)'
      BY <1>4, <1>5, <2>1, <3>1 DEF MeetOK, MeetSide
    <3>3. InOdd' => FlowOK(x)'
      BY <1>4, <2>1, <3>1 DEF FlowOK, MeetSide, FlowSide
    <3>4. QED
      BY <3>2, <3>3
  <2>3. QED
    BY <1>4, <2>2 DEF PassedOK
<1>10. BeforeOK'
  <2>1. ASSUME NEW x \in Blocks(F) PROVE Before(x)' = Before(x)
    <3>1. CASE x = c
      <4>1. prev'[c] = FlowSide(result[c])
        BY <1>2
      <4>2. QED
        BY <1>1, <3>1, <4>1 DEF Before
    <3>2. CASE x # c /\ Passed(x)
      <4>1. prev'[x] = prev[x]
        BY <1>1, <1>2, <3>2
      <4>2. QED
        BY <1>1, <3>2, <4>1 DEF Before
    <3>3. CASE x # c /\ ~ Passed(x)
      BY <1>1, <1>3, <3>3 DEF Before, FlowSide
    <3>4. QED
      BY <3>1, <3>2, <3>3
  <2>2. \A x \in Blocks(F) : Neighbours(x) \subseteq Blocks(F)
    BY VisitingFacts, NeighboursLemma
  <2>3. ASSUME NEW x \in Blocks(F)
        PROVE  {Before(q) : q \in Neighbours(x)}' = {Before(q) : q \in Neighbours(x)}
    BY <1>4, <2>1, <2>2
  <2>4. ASSUME ~ InOdd, NEW x \in Blocks(F)
        PROVE  Before(x)' = FlowSide(FirstTransfer(x, HeldAt(x, {Before(q) : q \in Neighbours(x)}')))
    BY <1>1, <2>1, <2>3, <2>4 DEF BeforeOK
  <2>5. QED
    BY <1>4, <2>4 DEF BeforeOK, FlowSide
<1>11. QED
  BY <1>7, <1>8, <1>9, <1>10

LEMMA FVisitBlock ==
  ASSUME FlipAssumption PROVE FInv /\ VisitBlock => FInv'
<1>. SUFFICES ASSUME FInv, VisitBlock PROVE FInv'
  OBVIOUS
<1>1. /\ pc = "sweep" /\ pc' = pc /\ input' = input /\ TInv'
  BY TVisitBlock DEF VisitBlock, FInv
<1>2. MapOK' /\ AnswerIsSolution'
  BY <1>1 DEF FInv, MapOK, AnswerIsSolution, F
<1>3. ASSUME Plain PROVE SetsOK' /\ EndsOK' /\ PassedOK' /\ BeforeOK'
  <2>1. PICK c : c = Traversal(idx)
    OBVIOUS
  <2>2. idx \in Nat \ {0} /\ Len(F.po) \in Nat
    BY <1>1, TFacts DEF FInv
  <2>3. Visiting(c)
    BY <1>3, <2>1, <2>2 DEF VisitBlock, Visiting
  <2>4. QED
    BY <2>3, FVisitPlain
<1>4. Plain' <=> Plain
  BY <1>1 DEF Plain, F
<1>5. QED
  BY <1>1, <1>2, <1>3, <1>4 DEF FInv, SweepInv

(***************************************************************************)
(* The end of a sweep.  After an odd one every block is solved; after an   *)
(* even one, the vectors from before it are, and are compared with.        *)
(***************************************************************************)
LEMMA EndOfSweep ==
  ASSUME FInv, pc = "sweep", Plain, idx > Len(F.po)
  PROVE  /\ \A b \in Blocks(F) : Passed(b) /\ MeetOK(b)
         /\ InOdd => \A b \in Blocks(F) : FlowOK(b) /\ Flipped(b)
         /\ ~ InOdd => \A b \in Blocks(F) : Fresh(b)
         /\ ~ InOdd /\ Unchanged => \A b \in Blocks(F) : FlowOK(b)
<1>1. /\ SetsOK /\ EndsOK /\ PassedOK /\ BeforeOK
      /\ IsFunction(F) /\ idx <= Len(F.po) + 1 /\ Len(F.po) \in Nat /\ idx \in Nat
      /\ \A k \in 1 .. idx - 1 : Traversal(k) \in DOMAIN prev
  BY TFacts DEF FInv, SweepInv
<1>2. idx - 1 = Len(F.po)
  BY <1>1
<1>3. ASSUME NEW b \in Blocks(F) PROVE Passed(b) /\ b \in DOMAIN prev
  <2>1. PICK k \in 1 .. Len(F.po) : Traversal(k) = b
    BY <1>1, <1>3, TraversalLemma DEF Plain
  <2>2. QED
    BY <1>1, <1>2, <2>1 DEF Passed
<1>4. \A b \in Blocks(F) : MeetOK(b) /\ (InOdd => FlowOK(b))
  BY <1>1, <1>3 DEF PassedOK
<1>5. \A b \in Blocks(F) : IF InOdd THEN Flipped(b) ELSE Fresh(b)
  BY <1>1, <1>3 DEF SetsOK
<1>6. ASSUME ~ InOdd, Unchanged, NEW b \in Blocks(F) PROVE FlowOK(b)
  <2>1. \A q \in Blocks(F) : Before(q) = FlowSide(result[q])
    BY <1>3, <1>6 DEF Unchanged, Before
  <2>2. Neighbours(b) \subseteq Blocks(F)
    BY <1>1, NeighboursLemma
  <2>3. {Before(q) : q \in Neighbours(b)} = MeetInputs(b)
    BY <2>1, <2>2 DEF MeetInputs
  <2>4. MeetSide(result[b]) = HeldAt(b, MeetInputs(b))
    BY <1>4 DEF MeetOK
  <2>5. Before(b) = FlowSide(FirstTransfer(b, HeldAt(b, {Before(q) : q \in Neighbours(b)})))
    BY <1>1, <1>6 DEF BeforeOK
  <2>6. QED
    BY <2>1, <2>3, <2>4, <2>5 DEF FlowOK
<1>7. QED
  BY <1>3, <1>4, <1>5, <1>6

LEMMA FEndSweep == FInv /\ EndSweep => FInv'
<1>. SUFFICES ASSUME FInv, EndSweep PROVE FInv'
  OBVIOUS
<1>1. /\ pc = "sweep" /\ idx > Len(F.po) /\ UNCHANGED <<input, result, prev>>
      /\ idx' = 1 /\ iter' = iter + 1 /\ converged' = Unchanged
      /\ pc' = IF converged' \/ iter' = MaxSweeps THEN "done" ELSE "sweep"
  BY DEF EndSweep
<1>2. iter \in Nat /\ TInv'
  BY <1>1, TFacts, TEndSweep DEF FInv
<1>3. InOdd' <=> ~ InOdd
  BY <1>1, <1>2, ParityLemma DEF InOdd
<1>4. /\ F' = F /\ (Plain' <=> Plain)
      /\ \A b : InitialProps(b)' = InitialProps(b)
      /\ \A b : Neighbours(b)' = Neighbours(b) /\ MeetInputs(b)' = MeetInputs(b)
      /\ \A b, v : HeldAt(b, v)' = HeldAt(b, v)
      /\ \A b, v : FirstTransfer(b, v)' = FirstTransfer(b, v)
  BY <1>1 DEF F, Plain, InitialProps, BlockType, Vector, Neighbours, MeetInputs, FlowSide,
              HeldAt, FirstTransfer
<1>5. MapOK'
  BY <1>1, <1>4 DEF FInv, MapOK
<1>6. \A b : /\ MeetOK(b)' <=> MeetOK(b)
             /\ FlowOK(b)' <=> FlowOK(b)
             /\ Fresh(b)' <=> Fresh(b)
             /\ Flipped(b)' <=> Flipped(b)
  BY <1>1, <1>4 DEF MeetOK, FlowOK, Fresh, Flipped, MeetSide, FlowSide
<1>7. \A b : ~ Passed(b)'
  BY <1>1 DEF Passed
<1>8. AnswerIsSolution'
  <2>1. ASSUME pc' = "done", Plain, OddCap, NEW b \in Blocks(F) PROVE MeetOK(b) /\ FlowOK(b)
    <3>1. CASE InOdd
      BY <1>1, <2>1, <3>1, EndOfSweep
    <3>2. CASE ~ InOdd
      <4>1. iter' # MaxSweeps
        BY <1>3, <2>1, <3>2 DEF InOdd, OddCap
      <4>2. converged'
        BY <1>1, <2>1, <4>1
      <4>3. Unchanged
        BY <1>1, <4>2
      <4>4. QED
        BY <1>1, <2>1, <3>2, <4>3, EndOfSweep
    <3>3. QED
      BY <3>1, <3>2
  <2>2. QED
    BY <1>4, <1>6, <2>1 DEF AnswerIsSolution, Solved, OddCap
<1>9. ASSUME Plain PROVE SetsOK' /\ EndsOK' /\ PassedOK' /\ BeforeOK'
  <2>1. /\ EndsOK
        /\ InOdd => \A b \in Blocks(F) : MeetOK(b) /\ FlowOK(b) /\ Flipped(b)
        /\ ~ InOdd => \A b \in Blocks(F) : Fresh(b)
    BY <1>1, <1>9, EndOfSweep DEF FInv, SweepInv
  <2>2. SetsOK'
    BY <1>3, <1>4, <1>6, <1>7, <2>1 DEF SetsOK
  <2>3. EndsOK'
    BY <1>1, <1>4, <2>1 DEF EndsOK, MeetSide
  <2>4. PassedOK'
    BY <1>7 DEF PassedOK
  <2>5. BeforeOK'
    <3>1. \A b : Before(b)' = FlowSide(result[b])
      BY <1>1, <1>7 DEF Before, FlowSide
    <3>2. \A b : {Before(q) : q \in Neighbours(b)}' = MeetInputs(b)
      BY <1>4, <3>1 DEF MeetInputs
    <3>3. ASSUME InOdd, NEW b \in Blocks(F)
          PROVE  FlowSide(result[b]) = FlowSide(FirstTransfer(b, HeldAt(b, MeetInputs(b))))
      BY <2>1, <3>3 DEF MeetOK, FlowOK
    <3>4. QED
      BY <1>3, <1>4, <3>1, <3>2, <3>3 DEF BeforeOK, FlowSide
  <2>6. QED
    BY <2>2, <2>3, <2>4, <2>5
<1>10. QED
  BY <1>2, <1>4, <1>5, <1>8, <1>9 DEF FInv, SweepInv

LEMMA FConstruct ==
  ASSUME FInv, NEW in \in Inputs, Construct(in)
  PROVE  FInv'
<1>1. pc' = "initialize" /\ TInv'
  BY TConstruct DEF Construct, FInv
<1>2. QED
  BY <1>1 DEF FInv, MapOK, SweepInv, AnswerIsSolution

LEMMA FDiscard == FInv /\ Discard => FInv'
<1>. SUFFICES ASSUME FInv, Discard PROVE FInv'
  OBVIOUS
<1>1. pc' = "idle" /\ TInv'
  BY TDiscard DEF Discard
<1>2. QED
  BY <1>1 DEF FInv, MapOK, SweepInv, AnswerIsSolution

LEMMA FStutter == FInv /\ UNCHANGED vars => FInv'
<1>. SUFFICES ASSUME FInv, UNCHANGED vars PROVE FInv'
  OBVIOUS
<1>1. UNCHANGED <<input, result, prev, idx, iter, converged, pc>> /\ TInv'
  BY TStutter DEF vars, FInv
<1>2. /\ F' = F /\ (Plain' <=> Plain) /\ (InOdd' <=> InOdd) /\ (OddCap' <=> OddCap)
      /\ \A b : InitialProps(b)' = InitialProps(b)
      /\ \A b : Neighbours(b)' = Neighbours(b) /\ MeetInputs(b)' = MeetInputs(b)
      /\ \A b : (Passed(b)' <=> Passed(b)) /\ Before(b)' = Before(b)
      /\ \A b, v : HeldAt(b, v)' = HeldAt(b, v)
      /\ \A b, v : FirstTransfer(b, v)' = FirstTransfer(b, v)
  BY <1>1 DEF F, Plain, InOdd, OddCap, InitialProps, BlockType, Vector, Neighbours, MeetInputs,
              FlowSide, HeldAt, FirstTransfer, Passed, Before, Traversal
<1>3. \A b : /\ MeetOK(b)' <=> MeetOK(b)
             /\ FlowOK(b)' <=> FlowOK(b)
             /\ Fresh(b)' <=> Fresh(b)
             /\ Flipped(b)' <=> Flipped(b)
  BY <1>1, <1>2 DEF MeetOK, FlowOK, Fresh, Flipped, MeetSide, FlowSide
<1>4. MapOK' /\ AnswerIsSolution'
  BY <1>1, <1>2, <1>3 DEF FInv, MapOK, AnswerIsSolution, Solved
<1>5. ASSUME pc = "sweep", Plain PROVE SetsOK' /\ EndsOK' /\ PassedOK' /\ BeforeOK'
  <2>1. SetsOK /\ EndsOK /\ PassedOK /\ BeforeOK
    BY <1>5 DEF FInv, SweepInv
  <2>2. SetsOK' /\ PassedOK'
    BY <1>2, <1>3, <2>1 DEF SetsOK, PassedOK
  <2>3. EndsOK'
    BY <1>1, <1>2, <2>1 DEF EndsOK, MeetSide
  <2>4. \A b : {Before(q) : q \in Neighbours(b)}' = {Before(q) : q \in Neighbours(b)}
    BY <1>2
  <2>5. BeforeOK'
    BY <1>2, <2>1, <2>4 DEF BeforeOK, FlowSide
  <2>6. QED
    BY <2>2, <2>3, <2>5
<1>6. QED
  BY <1>1, <1>2, <1>4, <1>5 DEF FInv, SweepInv

LEMMA FNext ==
  ASSUME FlipAssumption PROVE FInv /\ [Next]_vars => FInv'
<1>. SUFFICES ASSUME FInv, [Next]_vars PROVE FInv'
  OBVIOUS
<1>1. CASE Run
  BY <1>1, FInitialize, FVisitBlock, FEndSweep DEF Run
<1>2. CASE Discard
  BY <1>2, FDiscard
<1>3. ASSUME NEW in \in Inputs, Construct(in) PROVE FInv'
  BY <1>3, FConstruct
<1>4. CASE UNCHANGED vars
  BY <1>4, FStutter
<1>5. QED
  BY <1>1, <1>2, <1>3, <1>4 DEF Next

LEMMA FInit == Init => FInv
<1>1. Init => TInv /\ pc = "idle"
  BY TInit DEF Init
<1>2. QED
  BY <1>1 DEF FInv, MapOK, SweepInv, AnswerIsSolution

(***************************************************************************)
(* On a function without loops a run ends with the solution of the         *)
(* equations the client meant, although transferFn flips its sets at every *)
(* visit: the first sweep computes it, an even sweep that says otherwise   *)
(* is followed by an odd one, and the cap is odd.                          *)
(***************************************************************************)
THEOREM SolvedAllTheSame ==
  ASSUME FlipAssumption PROVE Spec => []AnswerIsSolution
<1>1. FInv => AnswerIsSolution
  BY DEF FInv
<1>2. FInv /\ [Next]_vars => FInv'
  BY FNext
<1>3. QED
  BY <1>1, <1>2, FInit, PTL DEF Spec

-----------------------------------------------------------------------------
(***************************************************************************)
(* Without loops there is one solution only.                               *)
(***************************************************************************)
LEMMA FirstPosition ==
  ASSUME NEW n \in Nat, NEW T, T \subseteq 1 .. n, T # {}
  PROVE  \E m \in T : \A k \in T : m <= k
<1>. DEFINE U == {n + 1 - k : k \in T}
<1>1. \A k \in T : n + 1 - k \in 1 .. n /\ n + 1 - (n + 1 - k) = k
  OBVIOUS
<1>2. U \subseteq 1 .. n /\ U # {}
  BY <1>1
<1>3. PICK x \in U : \A y \in U : y <= x
  BY <1>2, LargestPosition
<1>4. PICK m \in T : x = n + 1 - m
  BY <1>3
<1>5. \A k \in T : n + 1 - k <= n + 1 - m
  BY <1>3, <1>4
<1>6. QED
  BY <1>5

LEMMA OneSolution ==
  ASSUME IsFunction(F), Plain, NEW s \in Solutions, NEW t \in Solutions
  PROVE  \A b \in Visited(F) : s[b] = t[b]
<1>. DEFINE Differ == {k \in 1 .. Len(F.po) : s[Traversal(k)] # t[Traversal(k)]}
<1>1. /\ Len(F.po) \in Nat /\ Visited(F) = Blocks(F)
      /\ \A k \in 1 .. Len(F.po) : Traversal(k) \in Visited(F)
      /\ \A b \in Visited(F) : \E k \in 1 .. Len(F.po) : Traversal(k) = b
  BY TraversalLemma DEF Plain
<1>2. SUFFICES ASSUME Differ # {} PROVE FALSE
  BY <1>1
<1>3. PICK m \in Differ : \A k \in Differ : m <= k
  BY <1>1, <1>2, FirstPosition
<1>4. PICK b : b = Traversal(m)
  OBVIOUS
<1>5. b \in Visited(F) /\ s[b] # t[b]
  BY <1>1, <1>3, <1>4
<1>6. ASSUME NEW q \in Neighbours(b) PROVE s[q] = t[q]
  <2>1. PICK k \in 1 .. m - 1 : Traversal(k) = q
    BY <1>4, NeighboursFirst
  <2>2. k \in 1 .. Len(F.po) /\ k \notin Differ
    BY <1>1, <1>3, <2>1
  <2>3. QED
    BY <2>1, <2>2
<1>7. {s[q] : q \in Neighbours(b) \cap Visited(F)} = {t[q] : q \in Neighbours(b) \cap Visited(F)}
  BY <1>6
<1>8. Equation(s, b) = Equation(t, b)
  BY <1>7 DEF Equation
<1>9. QED
  BY <1>5, <1>8 DEF Solutions

LEMMA SolvedIsExtremal ==
  ASSUME TInv, pc = "done", Plain, \A b \in Blocks(F) : Solved(b)
  PROVE  IsExtremal(Answer)
<1>1. /\ IsFunction(F) /\ input \in Inputs
      /\ result \in [Blocks(F) -> Props(input.domain)]
  BY TFacts
<1>2. Visited(F) = Blocks(F)
  BY <1>1, TraversalLemma DEF Plain
<1>3. Answer \in [Visited(F) -> SUBSET input.domain]
  BY <1>1, <1>2, SidesLemma DEF Answer
<1>4. ASSUME NEW b \in Visited(F) PROVE Answer[b] = Equation(Answer, b)
  <2>1. Neighbours(b) \cap Visited(F) = Neighbours(b)
    BY <1>1, <1>2, NeighboursLemma
  <2>2. {Answer[q] : q \in Neighbours(b)} = MeetInputs(b)
    BY <2>1 DEF Answer, MeetInputs
  <2>3. Solved(b)
    BY <1>2
  <2>4. FlowSide(result[b]) = FlowSide(FirstTransfer(b, HeldAt(b, MeetInputs(b))))
    BY <2>3 DEF Solved, MeetOK, FlowOK
  <2>5. Equation(Answer, b) = FlowSide(FirstTransfer(b, HeldAt(b, MeetInputs(b))))
    BY <2>1, <2>2 DEF Equation, FirstTransfer, HeldAt
  <2>6. QED
    BY <2>4, <2>5 DEF Answer
<1>5. Answer \in Solutions
  BY <1>3, <1>4 DEF Solutions
<1>6. QED
  BY <1>1, <1>5, OneSolution DEF IsExtremal

(***************************************************************************)
(* In other words: the extremal one, converged or not.                     *)
(***************************************************************************)
THEOREM LoopFreeExtremal ==
  ASSUME FlipAssumption
  PROVE  Spec => [](pc = "done" /\ Plain /\ OddCap => IsExtremal(Answer))
<1>1. FInv => (pc = "done" /\ Plain /\ OddCap => IsExtremal(Answer))
  BY SolvedIsExtremal DEF FInv, AnswerIsSolution
<1>2. FInv /\ [Next]_vars => FInv'
  BY FNext
<1>3. QED
  BY <1>1, <1>2, FInit, PTL DEF Spec
=============================================================================
