--------------------------- MODULE DataflowProofs ---------------------------
(***************************************************************************)
(* What the framework guarantees to every subclass whose transferFn and    *)
(* meetFn behave, for every function and domain.                           *)
(***************************************************************************)
EXTENDS DataflowBasics

(***************************************************************************)
(* A well-behaved subclass: transferFn leaves the meet side and the gen    *)
(* and kill sets alone, computes the flow side from them, and is monotone. *)
(* Dominators and UsedExpressions are; the subclasses that flip a set of   *)
(* the block in place and the faint analysis, which writes the meet side,  *)
(* are not.                                                                *)
(***************************************************************************)
ASSUME TransferAssumption ==
  \A in \in Inputs : \A b \in Blocks(in.fn) : \A p \in Props(in.domain) :
    LET q == transferFn(in.domain, in.member[b], p)
    IN  /\ MeetSide(q) = MeetSide(p)
        /\ q.genSet = p.genSet
        /\ q.killSet = p.killSet
        /\ transferFn(in.domain, in.member[b], q) = q

ASSUME TransferMonotone ==
  \A in \in Inputs : \A b \in Blocks(in.fn) : \A p, q \in Props(in.domain) :
    /\ p.genSet = q.genSet
    /\ p.killSet = q.killSet
    /\ MeetSide(p) \subseteq MeetSide(q)
    => FlowSide(transferFn(in.domain, in.member[b], p))
         \subseteq FlowSide(transferFn(in.domain, in.member[b], q))

(***************************************************************************)
(* The meet is monotone, and the vector iteration starts from adds nothing *)
(* to it.                                                                  *)
(***************************************************************************)
ASSUME MeetAssumption ==
  \A in \in Inputs : \A vs, ws \in (SUBSET SUBSET in.domain) \ {{}} :
    /\ /\ \A v \in vs : \E w \in ws : v \subseteq w
       /\ \A w \in ws : \E v \in vs : v \subseteq w
       => meetFn(vs) \subseteq meetFn(ws)
    /\ meetFn(vs \cup {IF initCond = "full" THEN in.domain ELSE {}}) = meetFn(vs)

-----------------------------------------------------------------------------
(***************************************************************************)
(* Within a sweep, a block already visited is unchanged by its own         *)
(* transfer, and its meet side holds the meet of what its neighbours       *)
(* offered at that moment: the saved value of a neighbour visited later    *)
(* (or of the block itself), the current value of any other.               *)
(***************************************************************************)
Offered(q, j) ==
  IF \E k \in j .. idx - 1 : Traversal(k) = q THEN prev[q] ELSE FlowSide(result[q])

Settled(j) ==
  LET b == Traversal(j) IN
    /\ transferFn(input.domain, input.member[b], result[b]) = result[b]
    /\ Neighbours(b) # {} =>
         MeetSide(result[b]) = meetFn({Offered(q, j) : q \in Neighbours(b)})

SweepOK == pc = "sweep" => \A j \in 1 .. idx - 1 : Settled(j)

SInv == TInv /\ SweepOK /\ StableOnConvergence

(***************************************************************************)
(* One visit: it yields well-typed properties that the transfer leaves     *)
(* alone, and the meet side is the meet of what the neighbours offer.      *)
(***************************************************************************)
LEMMA VisitLemma ==
  ASSUME IsFunction(F), input \in Inputs,
         result \in [Blocks(F) -> Props(input.domain)],
         NEW b \in Blocks(F)
  PROVE  /\ AfterMeet(b) \in Props(input.domain)
         /\ Visit(b) \in Props(input.domain)
         /\ transferFn(input.domain, input.member[b], Visit(b)) = Visit(b)
         /\ MeetSide(Visit(b)) = MeetSide(AfterMeet(b))
         /\ Neighbours(b) # {} => MeetSide(Visit(b)) = meetFn(MeetInputs(b))
  BY VisitTyped, TransferAssumption DEF Visit, F

-----------------------------------------------------------------------------
LEMMA SInit == Init => SInv
  BY TInit DEF Init, SInv, SweepOK, StableOnConvergence

LEMMA SConstruct ==
  ASSUME SInv, NEW in \in Inputs, Construct(in)
  PROVE  SInv'
  BY TConstruct DEF Construct, SInv, SweepOK, StableOnConvergence

LEMMA SDiscard == Discard => SInv'
  BY TDiscard DEF Discard, SInv, SweepOK, StableOnConvergence

LEMMA SInitialize == SInv /\ Initialize => SInv'
<1>. SUFFICES ASSUME SInv, Initialize PROVE SInv'
  OBVIOUS
<1>1. TInv' /\ idx = 1 /\ idx' = 1 /\ pc' \in {"sweep", "crashed"}
  BY TInitialize DEF Initialize, SInv, TInv, TypeOK
<1>2. QED
  BY <1>1 DEF SInv, SweepOK, StableOnConvergence

LEMMA SVisitBlock == SInv /\ VisitBlock => SInv'
<1>. SUFFICES ASSUME SInv, VisitBlock PROVE SInv'
  OBVIOUS
<1>. DEFINE c == Traversal(idx)
<1>1. /\ IsFunction(F) /\ input \in Inputs
      /\ result \in [Blocks(F) -> Props(input.domain)]
      /\ idx \in 1 .. Len(F.po) /\ Len(F.po) \in Nat
      /\ \A k \in 1 .. idx - 1 : Traversal(k) \in DOMAIN prev
  BY TFacts DEF SInv, VisitBlock
<1>2. c \in Visited(F) /\ c \in Blocks(F)
  BY <1>1, TraversalLemma
<1>3. /\ Visit(c) \in Props(input.domain)
      /\ transferFn(input.domain, input.member[c], Visit(c)) = Visit(c)
      /\ Neighbours(c) # {} => MeetSide(Visit(c)) = meetFn(MeetInputs(c))
  BY <1>1, <1>2, VisitLemma
<1>4. /\ result' = [result EXCEPT ![c] = Visit(c)]
      /\ prev' = [x \in DOMAIN prev \cup {c} |->
                    IF x = c THEN FlowSide(result[c]) ELSE prev[x]]
      /\ idx' = idx + 1 /\ pc = "sweep"
      /\ input' = input /\ iter' = iter /\ converged' = converged /\ pc' = pc
  BY DEF VisitBlock
<1>5. F' = F /\ \A k : Traversal(k)' = Traversal(k)
  BY <1>4 DEF F, Traversal
<1>6. \A b : Neighbours(b)' = Neighbours(b)
  BY <1>4 DEF Neighbours, F
<1>7. TInv'
  BY TVisitBlock DEF SInv
<1>8. StableOnConvergence'
  BY <1>4 DEF SInv, StableOnConvergence
<1>9. ASSUME NEW j \in 1 .. idx' - 1
      PROVE  Settled(j)'
  <2>1. CASE j = idx
    <3>1. \A q \in Neighbours(c) : Offered(q, j)' = FlowSide(result[q])
      <4>1. TAKE q \in Neighbours(c)
      <4>2. \A k \in j .. idx' - 1 : k = idx
        BY <1>1, <1>4, <2>1
      <4>3. idx \in j .. idx' - 1
        BY <1>1, <1>4, <2>1
      <4>4. CASE q = c
        BY <1>4, <1>5, <4>2, <4>3, <4>4 DEF Offered
      <4>5. CASE q # c
        <5>1. q \in Blocks(F)
          BY <1>1, <1>2, NeighboursLemma
        <5>2. result'[q] = result[q]
          BY <1>1, <1>4, <4>5, <5>1
        <5>3. FlowSide(result'[q]) = FlowSide(result[q])
          BY <5>2
        <5>4. (FlowSide(result[q]))' = FlowSide(result[q])
          BY <5>2 DEF FlowSide
        <5>5. QED
          BY <1>4, <1>5, <4>2, <4>5, <5>4 DEF Offered
      <4>6. QED
        BY <4>4, <4>5
    <3>2. result'[c] = Visit(c)
      BY <1>1, <1>2, <1>4
    <3>3. Traversal(j)' = c
      BY <1>5, <2>1
    <3>4. {Offered(q, j)' : q \in Neighbours(c)} = MeetInputs(c)
      BY <3>1 DEF MeetInputs
    <3>5. QED
      BY <1>3, <1>4, <1>6, <3>2, <3>3, <3>4 DEF Settled, MeetSide
  <2>2. CASE j # idx
    <3>. DEFINE b == Traversal(j)
    <3>1. j \in 1 .. idx - 1 /\ Settled(j)
      BY <1>1, <1>4, <2>2 DEF SInv, SweepOK
    <3>2. b \in Blocks(F) /\ b # c
      BY <1>1, <3>1, TraversalLemma
    <3>3. result'[b] = result[b]
      BY <1>1, <1>4, <3>2
    <3>4. \A q \in Neighbours(b) : Offered(q, j)' = Offered(q, j)
      <4>1. TAKE q \in Neighbours(b)
      <4>2. q \in Blocks(F)
        BY <1>1, <3>2, NeighboursLemma
      <4>3. \A k \in j .. idx - 1 : Traversal(k) # c
        BY <1>1, <3>1, TraversalLemma
      <4>4. \A k \in j .. idx' - 1 : k \in j .. idx - 1 \/ k = idx
        BY <1>1, <1>4, <3>1
      <4>5. idx \in j .. idx' - 1 /\ \A k \in j .. idx - 1 : k \in j .. idx' - 1
        BY <1>1, <1>4, <3>1
      <4>6. CASE q = c
        <5>1. Offered(q, j) = FlowSide(result[c])
          BY <4>3, <4>6 DEF Offered
        <5>2. Offered(q, j)' = FlowSide(result[c])
          BY <1>4, <1>5, <4>5, <4>6 DEF Offered
        <5>3. QED
          BY <5>1, <5>2
      <4>7. CASE q # c
        <5>1. result'[q] = result[q]
          BY <1>1, <1>4, <4>2, <4>7
        <5>2. (FlowSide(result[q]))' = FlowSide(result[q])
          BY <5>1 DEF FlowSide
        <5>3. (\E k \in j .. idx' - 1 : Traversal(k) = q)
                <=> (\E k \in j .. idx - 1 : Traversal(k) = q)
          BY <4>4, <4>5, <4>7
        <5>4. (\E k \in j .. idx - 1 : Traversal(k) = q) => prev'[q] = prev[q]
          <6>1. SUFFICES ASSUME NEW k \in j .. idx - 1, Traversal(k) = q
                         PROVE  prev'[q] = prev[q]
            OBVIOUS
          <6>2. k \in 1 .. idx - 1
            BY <1>1, <3>1
          <6>3. QED
            BY <1>1, <1>4, <4>7, <6>1, <6>2
        <5>5. QED
          BY <1>5, <5>2, <5>3, <5>4 DEF Offered
      <4>8. QED
        BY <4>6, <4>7
    <3>5. Traversal(j)' = b
      BY <1>5
    <3>6. QED
      BY <1>4, <1>6, <3>1, <3>3, <3>4, <3>5 DEF Settled, MeetSide
  <2>3. QED
    BY <2>1, <2>2
<1>10. SweepOK'
  BY <1>9 DEF SweepOK
<1>11. QED
  BY <1>7, <1>8, <1>10 DEF SInv

\* A settled block whose neighbours still hold what they offered.
LEMMA SettledVisit ==
  ASSUME SInv, pc = "sweep", NEW j \in 1 .. idx - 1,
         \A q \in Neighbours(Traversal(j)) : Offered(q, j) = FlowSide(result[q])
  PROVE  Visit(Traversal(j)) = result[Traversal(j)]
<1>. DEFINE b == Traversal(j)
<1>1. /\ IsFunction(F) /\ Len(F.po) \in Nat /\ idx \in Nat /\ idx <= Len(F.po) + 1
      /\ result \in [Blocks(F) -> Props(input.domain)]
  BY TFacts DEF SInv
<1>2. Settled(j) /\ b \in Blocks(F)
  BY <1>1, TraversalLemma DEF SInv, SweepOK
<1>3. {Offered(q, j) : q \in Neighbours(b)} = MeetInputs(b)
  BY DEF MeetInputs
<1>4. Neighbours(b) # {} => MeetSide(result[b]) = meetFn(MeetInputs(b))
  BY <1>2, <1>3 DEF Settled
<1>5. result[b] \in Props(input.domain) /\ MeetSide(result[b]) \in SUBSET input.domain
  BY <1>1, <1>2 DEF MeetSide, Props
<1>6. AfterMeet(b) = result[b]
  BY <1>4, <1>5, SidesLemma DEF AfterMeet
<1>7. QED
  BY <1>2, <1>6 DEF Settled, Visit

(***************************************************************************)
(* A sweep that changed nothing: the saved value of every neighbour is its *)
(* current value, so each block holds the meet of what it is offered now.  *)
(***************************************************************************)
LEMMA SEndSweep == SInv /\ EndSweep => SInv'
<1>. SUFFICES ASSUME SInv, EndSweep PROVE SInv'
  OBVIOUS
<1>1. /\ IsFunction(F) /\ input \in Inputs
      /\ result \in [Blocks(F) -> Props(input.domain)]
      /\ pc = "sweep" /\ idx = Len(F.po) + 1 /\ Len(F.po) \in Nat
      /\ \A k \in 1 .. idx - 1 : Traversal(k) \in DOMAIN prev
  BY TFacts DEF SInv, EndSweep
<1>2. /\ input' = input /\ result' = result /\ prev' = prev
      /\ idx' = 1 /\ iter' = iter + 1
      /\ converged' = Unchanged
      /\ pc' = IF converged' \/ iter' = MaxSweeps THEN "done" ELSE "sweep"
  BY DEF EndSweep
<1>3. pc' \in {"sweep", "done"} /\ (pc' = "sweep" => iter' # MaxSweeps)
  BY <1>2
<1>4. TInv'
  BY TEndSweep DEF SInv
<1>5. SweepOK'
  BY <1>1, <1>2 DEF SweepOK
<1>6. ASSUME converged', NEW b \in Visited(F)
      PROVE  Visit(b) = result[b]
  <2>1. PICK j \in 1 .. Len(F.po) : Traversal(j) = b
    BY <1>1, TraversalLemma
  <2>3. \A q \in Neighbours(b) : Offered(q, j) = FlowSide(result[q])
    <3>1. TAKE q \in Neighbours(b)
    <3>2. ASSUME NEW k \in j .. idx - 1, Traversal(k) = q
          PROVE  prev[q] = FlowSide(result[q])
      <4>1. k \in 1 .. idx - 1
        BY <1>1, <2>1
      <4>2. q \in DOMAIN prev
        BY <1>1, <3>2, <4>1
      <4>3. Unchanged
        BY <1>2, <1>6
      <4>4. QED
        BY <4>2, <4>3 DEF Unchanged
    <3>3. QED
      BY <3>2 DEF Offered
  <2>4. QED
    BY <1>1, <2>1, <2>3, SettledVisit
<1>7. StableOnConvergence'
  <2>1. \A b : Visit(b)' = Visit(b)
    BY <1>2 DEF Visit, AfterMeet, MeetInputs, Neighbours, F, FlowSide, WithMeet
  <2>2. QED
    BY <1>2, <1>6, <2>1 DEF StableOnConvergence, F
<1>8. QED
  BY <1>4, <1>5, <1>7 DEF SInv

LEMMA SStutter == SInv /\ UNCHANGED vars => SInv'
<1>. SUFFICES ASSUME SInv, UNCHANGED vars PROVE SInv'
  OBVIOUS
<1>. USE DEF vars
<1>1. TInv'
  BY TStutter DEF SInv, vars
<1>3. SweepOK'
  <2>1. F' = F /\ \A b : Neighbours(b)' = Neighbours(b)
    BY DEF F, Neighbours
  <2>2. \A k : Traversal(k)' = Traversal(k)
    BY DEF F, Traversal
  <2>3. \A q, j : Offered(q, j)' = Offered(q, j)
    BY <2>2 DEF Offered, FlowSide
  <2>4. \A j : Settled(j)' = Settled(j)
    BY <2>1, <2>2, <2>3 DEF Settled, MeetSide
  <2>5. QED
    BY <2>4 DEF SInv, SweepOK
<1>4. StableOnConvergence'
  <2>1. \A b : Neighbours(b)' = Neighbours(b)
    BY DEF F, Neighbours
  <2>2. \A b : MeetInputs(b)' = MeetInputs(b)
    BY <2>1 DEF MeetInputs, FlowSide
  <2>3. \A b : Visit(b)' = Visit(b)
    BY <2>1, <2>2 DEF Visit, AfterMeet, WithMeet
  <2>4. QED
    BY <2>3 DEF SInv, StableOnConvergence, F
<1>5. QED
  BY <1>1, <1>3, <1>4 DEF SInv


-----------------------------------------------------------------------------
(***************************************************************************)
(* Without loops every neighbour of a block comes before it in the         *)
(* traversal, so that one sweep settles all blocks and the next sees it.   *)
(***************************************************************************)
OneSweepIsEnough ==
  pc \in {"sweep", "done"} /\ Acyclic(F) =>
    /\ iter >= 1 => \A b \in Visited(F) : Visit(b) = result[b]
    /\ pc = "sweep" /\ iter >= 1 =>
         /\ iter = 1
         /\ \A k \in 1 .. idx - 1 : prev[Traversal(k)] = FlowSide(result[Traversal(k)])
    /\ pc = "done" => iter \in 1 .. 2 /\ (converged \/ MaxSweeps = 1)

LEMMA NeighboursComeFirst ==
  ASSUME IsFunction(F), Acyclic(F), NEW i \in 1 .. Len(F.po), NEW k \in 1 .. Len(F.po),
         Traversal(k) \in Neighbours(Traversal(i))
  PROVE  k < i
<1>1. Len(F.po) \in Nat
  BY DEF IsFunction
<1>2. CASE dir = "FORWARD"
  <2>1. Traversal(i) \in Successors(F, Traversal(k))
    BY <1>2 DEF Neighbours, Predecessors
  <2>2. Len(F.po) + 1 - i < Len(F.po) + 1 - k
    BY <1>1, <1>2, <2>1 DEF Traversal, Acyclic
  <2>3. QED
    BY <1>1, <2>2
<1>3. CASE dir # "FORWARD"
  BY <1>3 DEF Neighbours, Traversal, Acyclic
<1>4. QED
  BY <1>2, <1>3

LEMMA AfterFirstSweep ==
  ASSUME SInv, pc = "sweep", idx > Len(F.po), Acyclic(F), NEW b \in Visited(F)
  PROVE  Visit(b) = result[b]
<1>1. IsFunction(F) /\ Len(F.po) \in Nat /\ idx = Len(F.po) + 1
  BY TFacts DEF SInv
<1>2. PICK j \in 1 .. Len(F.po) : Traversal(j) = b
  BY <1>1, TraversalLemma
<1>3. ASSUME NEW q \in Neighbours(b) PROVE Offered(q, j) = FlowSide(result[q])
  <2>1. \A k \in j .. idx - 1 : Traversal(k) # q
    BY <1>1, <1>2, <1>3, NeighboursComeFirst
  <2>2. QED
    BY <2>1 DEF Offered
<1>4. QED
  BY <1>1, <1>2, <1>3, SettledVisit

LEMMA OVisitBlock == SInv /\ OneSweepIsEnough /\ VisitBlock => OneSweepIsEnough'
<1>. SUFFICES ASSUME SInv, OneSweepIsEnough, VisitBlock,
                     Acyclic(F)', iter' >= 1
              PROVE  /\ \A b \in Visited(F) : Visit(b)' = result'[b]
                     /\ iter' = 1
                     /\ \A k \in 1 .. idx' - 1 :
                          prev'[Traversal(k)] = FlowSide(result[Traversal(k)])'
  BY DEF OneSweepIsEnough, VisitBlock, F, Traversal
<1>. DEFINE c == Traversal(idx)
<1>1. /\ pc = "sweep" /\ idx <= Len(F.po) /\ idx' = idx + 1
      /\ result' = [result EXCEPT ![c] = Visit(c)]
      /\ prev' = [x \in DOMAIN prev \cup {c} |->
                    IF x = c THEN FlowSide(result[c]) ELSE prev[x]]
      /\ UNCHANGED <<input, iter>> /\ F' = F
  BY DEF VisitBlock, F
<1>2. /\ Acyclic(F) /\ iter = 1
      /\ \A b \in Visited(F) : Visit(b) = result[b]
      /\ \A k \in 1 .. idx - 1 : prev[Traversal(k)] = FlowSide(result[Traversal(k)])
  BY <1>1 DEF OneSweepIsEnough
<1>3. /\ IsFunction(F) /\ Len(F.po) \in Nat /\ idx \in Nat \ {0}
      /\ result \in [Blocks(F) -> Props(input.domain)]
      /\ \A k \in 1 .. idx - 1 : Traversal(k) \in DOMAIN prev
  BY <1>1, TFacts DEF SInv
<1>4. c \in Visited(F)
  BY <1>1, <1>3, TraversalLemma
<1>5. result' = result
  BY <1>1, <1>2, <1>3, <1>4
<1>6. \A b \in Visited(F) : Visit(b)' = result'[b]
  <2>1. input' = input
    BY <1>1
  <2>2. \A b : Visit(b)' = Visit(b)
    BY <1>5, <2>1 DEF Visit, AfterMeet, MeetInputs, Neighbours, FlowSide, WithMeet, F
  <2>3. QED
    BY <1>2, <1>5, <2>2
<1>7. ASSUME NEW k \in 1 .. idx' - 1
      PROVE  prev'[Traversal(k)] = FlowSide(result[Traversal(k)])'
  <2>1. k \in 1 .. idx - 1 \/ k = idx
    BY <1>1, <1>3, <1>7
  <2>2. FlowSide(result[Traversal(k)])' = FlowSide(result[Traversal(k)])
    BY <1>1, <1>5 DEF FlowSide, Traversal, F
  <2>3. QED
    BY <1>1, <1>2, <1>3, <2>1, <2>2
<1>8. QED
  BY <1>1, <1>2, <1>6, <1>7

LEMMA OEndSweep == SInv /\ OneSweepIsEnough /\ EndSweep => OneSweepIsEnough'
<1>. SUFFICES ASSUME SInv, OneSweepIsEnough, EndSweep, Acyclic(F)'
              PROVE  OneSweepIsEnough'
  BY DEF OneSweepIsEnough
<1>1. /\ pc = "sweep" /\ idx > Len(F.po) /\ UNCHANGED <<input, result, prev>>
      /\ idx' = 1 /\ iter' = iter + 1 /\ converged' = Unchanged /\ F' = F
      /\ pc' = IF converged' \/ iter' = MaxSweeps THEN "done" ELSE "sweep"
  BY DEF EndSweep, F
<1>2. /\ IsFunction(F) /\ Len(F.po) \in Nat /\ idx = Len(F.po) + 1
      /\ DOMAIN prev \subseteq Visited(F) /\ iter \in 0 .. MaxSweeps
      /\ MaxSweeps \in Nat
  BY <1>1, TFacts, FrameworkAssumption DEF SInv
<1>3. \A b \in Visited(F) : Visit(b)' = result'[b]
  <2>1. \A b \in Visited(F) : Visit(b) = result[b]
    BY <1>1, AfterFirstSweep
  <2>2. QED
    BY <1>1, <2>1 DEF Visit, AfterMeet, MeetInputs, Neighbours, FlowSide, WithMeet, F
<1>4. CASE iter = 0
  <2>1. iter' = 1
    BY <1>1, <1>4
  <2>2. QED
    BY <1>1, <1>2, <1>3, <2>1 DEF OneSweepIsEnough
<1>5. CASE iter # 0
  <2>1. /\ iter = 1
        /\ \A k \in 1 .. idx - 1 : prev[Traversal(k)] = FlowSide(result[Traversal(k)])
    BY <1>1, <1>2, <1>5 DEF OneSweepIsEnough
  <2>2. Unchanged
    BY <1>2, <2>1, TraversalLemma DEF Unchanged
  <2>3. pc' = "done" /\ converged' /\ iter' = 2
    BY <1>1, <2>1, <2>2
  <2>4. QED
    BY <1>1, <1>3, <2>3 DEF OneSweepIsEnough
<1>6. QED
  BY <1>4, <1>5

-----------------------------------------------------------------------------
(***************************************************************************)
(* The equations of a block as a function of what it holds on its meet     *)
(* side: a visit computes it from what the neighbours offer now, and no    *)
(* flow side of an earlier moment has a say.                               *)
(***************************************************************************)
\* v is at least as far from the vector iteration starts from as u is.
Onward(u, v) == IF initCond = "full" THEN v \subseteq u ELSE u \subseteq v

Held(b) ==
  IF Neighbours(b) = {} THEN MeetSide(InitialProps(b)) ELSE meetFn(MeetInputs(b))

FromHeld(b, v) ==
  FlowSide(transferFn(input.domain, input.member[b], WithMeet(InitialProps(b), v)))

\* What initialize gives a block and no visit changes.
InitialKept ==
  pc \in {"sweep", "done"} =>
    /\ \A b \in Blocks(F) : /\ InitialProps(b) \in Props(input.domain)
                            /\ result[b].genSet = InitialProps(b).genSet
                            /\ result[b].killSet = InitialProps(b).killSet
    /\ \A b \in Visited(F) :
         Neighbours(b) = {} => MeetSide(result[b]) = MeetSide(InitialProps(b))
    /\ \A b \in Blocks(F) \ Visited(F) : FlowSide(result[b]) = Vector(initCond)

\* A visit moves a block's vector one way, and never past a solution.
MovesTowardsSolutions ==
  pc \in {"sweep", "done"} =>
    \A b \in Visited(F) : /\ Onward(FlowSide(result[b]), FlowSide(Visit(b)))
                          /\ \A sol \in Solutions : Onward(FlowSide(result[b]), sol[b])

LEMMA MeetOnward ==
  ASSUME input \in Inputs, NEW N, N # {},
         NEW f \in [N -> SUBSET input.domain], NEW g \in [N -> SUBSET input.domain],
         \A q \in N : Onward(f[q], g[q])
  PROVE  Onward(meetFn({f[q] : q \in N}), meetFn({g[q] : q \in N}))
<1>. DEFINE vs == {f[q] : q \in N}
            ws == {g[q] : q \in N}
<1>1. /\ vs \in (SUBSET SUBSET input.domain) \ {{}}
      /\ ws \in (SUBSET SUBSET input.domain) \ {{}}
  OBVIOUS
<1>2. CASE initCond = "full"
  <2>1. /\ \A w \in ws : \E v \in vs : w \subseteq v
        /\ \A v \in vs : \E w \in ws : w \subseteq v
    BY <1>2 DEF Onward
  <2>. HIDE DEF vs, ws
  <2>2. meetFn(ws) \subseteq meetFn(vs)
    BY <1>1, <2>1, MeetAssumption
  <2>3. QED
    BY <1>2, <2>2 DEF Onward, vs, ws
<1>3. CASE initCond # "full"
  <2>1. /\ \A v \in vs : \E w \in ws : v \subseteq w
        /\ \A w \in ws : \E v \in vs : v \subseteq w
    BY <1>3 DEF Onward
  <2>. HIDE DEF vs, ws
  <2>2. meetFn(vs) \subseteq meetFn(ws)
    BY <1>1, <2>1, MeetAssumption
  <2>3. QED
    BY <1>3, <2>2 DEF Onward, vs, ws
<1>4. QED
  BY <1>2, <1>3

LEMMA TransferOnward ==
  ASSUME input \in Inputs, NEW b \in Blocks(F),
         NEW p \in Props(input.domain), NEW q \in Props(input.domain),
         p.genSet = q.genSet, p.killSet = q.killSet, Onward(MeetSide(p), MeetSide(q))
  PROVE  Onward(FlowSide(transferFn(input.domain, input.member[b], p)),
                FlowSide(transferFn(input.domain, input.member[b], q)))
  BY TransferMonotone DEF Onward, F

LEMMA FromHeldOnward ==
  ASSUME input \in Inputs, NEW b \in Blocks(F), InitialProps(b) \in Props(input.domain),
         NEW v \in SUBSET input.domain, NEW w \in SUBSET input.domain, Onward(v, w)
  PROVE  Onward(FromHeld(b, v), FromHeld(b, w))
<1>1. /\ WithMeet(InitialProps(b), v) \in Props(input.domain)
      /\ WithMeet(InitialProps(b), w) \in Props(input.domain)
      /\ MeetSide(WithMeet(InitialProps(b), v)) = v
      /\ MeetSide(WithMeet(InitialProps(b), w)) = w
  BY SidesLemma
<1>2. /\ WithMeet(InitialProps(b), v).genSet = WithMeet(InitialProps(b), w).genSet
      /\ WithMeet(InitialProps(b), v).killSet = WithMeet(InitialProps(b), w).killSet
  BY DEF WithMeet, InitialProps
<1>3. QED
  BY <1>1, <1>2, TransferOnward DEF FromHeld

LEMMA HeldTyped ==
  ASSUME SInv, InitialKept, pc \in {"sweep", "done"}, NEW b \in Blocks(F)
  PROVE  Held(b) \in SUBSET input.domain
<1>1. /\ IsFunction(F) /\ input \in Inputs
      /\ result \in [Blocks(F) -> Props(input.domain)]
  BY TFacts DEF SInv
<1>2. CASE Neighbours(b) = {}
  BY <1>2, SidesLemma DEF Held, InitialKept
<1>3. CASE Neighbours(b) # {}
  <2>1. MeetInputs(b) \in (SUBSET SUBSET input.domain) \ {{}}
    BY <1>1, <1>3, NeighboursLemma, SidesLemma DEF MeetInputs
  <2>2. QED
    BY <1>1, <1>3, <2>1, MeetTyped DEF Held
<1>4. QED
  BY <1>2, <1>3

LEMMA VisitComputes ==
  SInv /\ InitialKept /\ pc \in {"sweep", "done"} =>
    \A b \in Visited(F) : FlowSide(Visit(b)) = FromHeld(b, Held(b))
<1>. SUFFICES ASSUME SInv, InitialKept, pc \in {"sweep", "done"}, NEW b \in Visited(F)
              PROVE  FlowSide(Visit(b)) = FromHeld(b, Held(b))
  OBVIOUS
<1>. DEFINE p == AfterMeet(b)
            q == WithMeet(InitialProps(b), Held(b))
<1>1. /\ IsFunction(F) /\ input \in Inputs /\ b \in Blocks(F)
      /\ result \in [Blocks(F) -> Props(input.domain)]
      /\ InitialProps(b) \in Props(input.domain)
  BY TFacts, TraversalLemma DEF SInv, InitialKept
<1>2. p \in Props(input.domain) /\ MeetSide(p) = Held(b)
  BY <1>1, VisitTyped DEF Held, AfterMeet, InitialKept
<1>3. p.genSet = InitialProps(b).genSet /\ p.killSet = InitialProps(b).killSet
  <2>1. p.genSet = result[b].genSet /\ p.killSet = result[b].killSet
    BY <1>1 DEF AfterMeet, WithMeet, Props
  <2>2. QED
    BY <1>1, <2>1 DEF InitialKept
<1>4. /\ q \in Props(input.domain) /\ MeetSide(q) = Held(b)
      /\ q.genSet = InitialProps(b).genSet /\ q.killSet = InitialProps(b).killSet
  BY <1>1, HeldTyped, SidesLemma DEF WithMeet, Props
<1>5. /\ Onward(FlowSide(Visit(b)), FromHeld(b, Held(b)))
      /\ Onward(FromHeld(b, Held(b)), FlowSide(Visit(b)))
  <2>1. Onward(MeetSide(p), MeetSide(q)) /\ Onward(MeetSide(q), MeetSide(p))
    BY <1>2, <1>4 DEF Onward
  <2>. HIDE DEF p, q
  <2>2. /\ Onward(FlowSide(transferFn(input.domain, input.member[b], p)),
                  FlowSide(transferFn(input.domain, input.member[b], q)))
        /\ Onward(FlowSide(transferFn(input.domain, input.member[b], q)),
                  FlowSide(transferFn(input.domain, input.member[b], p)))
    BY <1>1, <1>2, <1>3, <1>4, <2>1, TransferOnward
  <2>3. QED
    BY <2>2 DEF Visit, FromHeld, p, q
<1>6. QED
  BY <1>5 DEF Onward

(***************************************************************************)
(* The same of what a candidate solution holds: neighbours that cannot be  *)
(* reached keep the start vector, which adds nothing to a meet.            *)
(***************************************************************************)
HeldIn(sol, b) ==
  LET near == Neighbours(b) \cap Visited(F)
  IN  IF near = {} THEN MeetSide(InitialProps(b)) ELSE meetFn({sol[q] : q \in near})

LEMMA EquationHeld ==
  \A sol, b : Equation(sol, b) = FromHeld(b, HeldIn(sol, b))
  BY DEF Equation, FromHeld, HeldIn

LEMMA NearLemma ==
  ASSUME IsFunction(F), NEW b \in Visited(F)
  PROVE  Neighbours(b) \cap Visited(F) = {} <=> Neighbours(b) = {}
<1>1. CASE dir = "FORWARD"
  BY <1>1, BlocksLemma DEF IsFunction, Neighbours
<1>2. CASE dir # "FORWARD"
  BY <1>2 DEF IsFunction, Neighbours
<1>3. QED
  BY <1>1, <1>2

LEMMA HeldByAnswer ==
  ASSUME SInv, InitialKept, pc \in {"sweep", "done"}, NEW b \in Visited(F)
  PROVE  Held(b) = HeldIn(Answer, b)
<1>. DEFINE near == Neighbours(b) \cap Visited(F)
            far  == Neighbours(b) \ Visited(F)
            vs   == {FlowSide(result[q]) : q \in near}
<1>1. /\ IsFunction(F) /\ input \in Inputs /\ b \in Blocks(F)
      /\ result \in [Blocks(F) -> Props(input.domain)]
  BY TFacts, TraversalLemma DEF SInv
<1>2. CASE near = {}
  BY <1>1, <1>2, NearLemma DEF Held, HeldIn
<1>3. CASE near # {}
  <2>1. Neighbours(b) \subseteq Blocks(F)
    BY <1>1, NeighboursLemma
  <2>2. vs \in (SUBSET SUBSET input.domain) \ {{}}
    BY <1>1, <1>3, <2>1, SidesLemma
  <2>3. \A q \in far : FlowSide(result[q]) = Vector(initCond)
    BY <2>1 DEF InitialKept
  <2>4. MeetInputs(b) = IF far = {} THEN vs ELSE vs \cup {Vector(initCond)}
    BY <2>3 DEF MeetInputs
  <2>5. {Answer[q] : q \in near} = vs
    BY DEF Answer
  <2>. HIDE DEF vs
  <2>6. meetFn(MeetInputs(b)) = meetFn(vs)
    BY <1>1, <2>2, <2>4, MeetAssumption DEF Vector
  <2>7. QED
    BY <1>3, <2>5, <2>6 DEF Held, HeldIn
<1>4. QED
  BY <1>2, <1>3

LEMMA VisitFlowTyped ==
  SInv /\ pc \in {"sweep", "done"} =>
    \A b \in Visited(F) : FlowSide(Visit(b)) \in SUBSET input.domain
  BY TFacts, TraversalLemma, VisitTyped, SidesLemma DEF SInv

\* The first half of InitialKept and MovesTowardsSolutions: a fresh object.
LEMMA FreshObject ==
  ASSUME SInv, Initialize, pc' = "sweep"
  PROVE  /\ input' = input /\ F' = F
         /\ \A b \in Blocks(F) :
              /\ InitialProps(b)' = InitialProps(b)
              /\ result'[b] = InitialProps(b)
              /\ InitialProps(b) \in Props(input.domain)
              /\ FlowSide(InitialProps(b)) = Vector(initCond)
<1>1. /\ Blocks(F) \subseteq DOMAIN input.infoMap
      /\ result' = [b \in Blocks(F) |-> InitialProps(b)]
      /\ input' = input
  BY DEF Initialize
<1>2. IsInput(input)
  BY TFacts DEF SInv, Initialize
<1>3. \A b \in Blocks(F) : InitialProps(b) \in Props(input.domain)
  BY <1>1, <1>2 DEF InitialProps, Props, Vector, IsInput
<1>4. \A b : InitialProps(b)' = InitialProps(b)
  BY <1>1 DEF InitialProps, Vector, BlockType, F
<1>5. \A b : FlowSide(InitialProps(b)) = Vector(initCond)
  BY FrameworkAssumption DEF FlowSide, InitialProps
<1>6. QED
  BY <1>1, <1>3, <1>4, <1>5 DEF F

LEMMA KInitialize == SInv /\ Initialize => InitialKept'
<1>. SUFFICES ASSUME SInv, Initialize, pc' = "sweep" PROVE InitialKept'
  BY DEF InitialKept, Initialize
<1>. USE FreshObject
<1>1. Visited(F) \subseteq Blocks(F)
  BY TFacts, TraversalLemma DEF SInv, Initialize
<1>2. \A b \in Blocks(F) : /\ FlowSide(result[b])' = Vector(initCond)'
                           /\ MeetSide(result[b])' = MeetSide(InitialProps(b))'
                           /\ (result[b].genSet = InitialProps(b).genSet)'
                           /\ (result[b].killSet = InitialProps(b).killSet)'
                           /\ (InitialProps(b) \in Props(input.domain))'
  BY DEF FlowSide, MeetSide, Vector
<1>3. QED
  BY <1>1, <1>2 DEF InitialKept

LEMMA MInitialize == SInv /\ Initialize => MovesTowardsSolutions'
<1>. SUFFICES ASSUME SInv, Initialize, pc' = "sweep" PROVE MovesTowardsSolutions'
  BY DEF MovesTowardsSolutions, Initialize
<1>1. SInv'
  BY SInitialize
<1>2. (\A b \in Visited(F) : FlowSide(Visit(b)) \in SUBSET input.domain)'
  <2>1. (SInv /\ pc \in {"sweep", "done"} =>
          \A b \in Visited(F) : FlowSide(Visit(b)) \in SUBSET input.domain)'
    BY VisitFlowTyped, PTL
  <2>2. QED
    BY <1>1, <2>1
<1>3. Visited(F) \subseteq Blocks(F)
  BY TFacts, TraversalLemma DEF SInv, Initialize
<1>4. \A b \in Blocks(F) : FlowSide(result[b])' = Vector(initCond)'
  BY FreshObject DEF FlowSide, Vector
<1>5. \A v \in SUBSET input'.domain : Onward(Vector(initCond)', v)
  BY DEF Onward, Vector
<1>6. (\A sol \in Solutions : \A b \in Visited(F) : sol[b] \in SUBSET input.domain)'
  BY DEF Solutions
<1>7. Visited(F)' = Visited(F)
  BY FreshObject DEF Visited, F
<1>8. QED
  BY <1>2, <1>3, <1>4, <1>5, <1>6, <1>7 DEF MovesTowardsSolutions, Onward

\* A step that visits a block, or none.
LEMMA Progress ==
  ASSUME SInv, SInv', InitialKept, InitialKept', MovesTowardsSolutions,
         pc \in {"sweep", "done"}, pc' \in {"sweep", "done"}, input' = input,
         \A b \in Visited(F) :
           FlowSide(result[b])' \in {FlowSide(result[b]), FlowSide(Visit(b))},
         \A b \in Blocks(F) \ Visited(F) : FlowSide(result[b])' = FlowSide(result[b])
  PROVE  MovesTowardsSolutions'
<1>1. /\ IsFunction(F) /\ input \in Inputs /\ Visited(F) \subseteq Blocks(F)
      /\ result \in [Blocks(F) -> Props(input.domain)]
      /\ result' \in [Blocks(F) -> Props(input.domain)]
      /\ \A b \in Blocks(F) : InitialProps(b) \in Props(input.domain)
  <2>1. F' = F
    BY DEF F
  <2>2. result' \in [Blocks(F) -> Props(input.domain)]
    BY <2>1 DEF SInv, TInv, TypeOK
  <2>3. QED
    BY <2>2, TFacts, TraversalLemma DEF SInv, InitialKept
<1>2. /\ F' = F
      /\ \A b : Neighbours(b)' = Neighbours(b) /\ InitialProps(b)' = InitialProps(b)
  BY DEF F, Neighbours, InitialProps, Vector, BlockType
<1>3. \A b \in Blocks(F) : /\ FlowSide(result[b]) \in SUBSET input.domain
                           /\ FlowSide(result[b])' \in SUBSET input.domain
                           /\ Onward(FlowSide(result[b]), FlowSide(result[b])')
  <2>1. TAKE b \in Blocks(F)
  <2>2. FlowSide(result[b]) \in SUBSET input.domain
    BY <1>1, SidesLemma
  <2>3. FlowSide(result[b])' \in SUBSET input.domain
    BY <1>1 DEF FlowSide, Props
  <2>4. Onward(FlowSide(result[b]), FlowSide(result[b])')
    BY DEF MovesTowardsSolutions, Onward
  <2>5. QED
    BY <2>2, <2>3, <2>4
<1>4. \A b \in Visited(F) : FlowSide(Visit(b)) = FromHeld(b, Held(b))
  BY VisitComputes
<1>5. \A b \in Visited(F) : FlowSide(Visit(b))' = FromHeld(b, Held(b)')
  <2>1. (SInv /\ InitialKept /\ pc \in {"sweep", "done"} =>
          \A b \in Visited(F) : FlowSide(Visit(b)) = FromHeld(b, Held(b)))'
    BY VisitComputes, PTL
  <2>2. \A b, v : FromHeld(b, v)' = FromHeld(b, v')
    BY <1>2 DEF FromHeld, FlowSide, WithMeet
  <2>3. QED
    BY <1>2, <2>1, <2>2 DEF Visited
<1>6. \A b \in Visited(F) : Onward(Held(b), Held(b)')
  <2>1. TAKE b \in Visited(F)
  <2>2. CASE Neighbours(b) = {}
    BY <1>2, <2>2 DEF Held, MeetSide, Onward
  <2>3. CASE Neighbours(b) # {}
    <3>. DEFINE f == [q \in Neighbours(b) |-> FlowSide(result[q])]
                g == [q \in Neighbours(b) |-> FlowSide(result[q])']
    <3>1. Neighbours(b) \subseteq Blocks(F)
      BY <1>1, NeighboursLemma
    <3>2. /\ f \in [Neighbours(b) -> SUBSET input.domain]
          /\ g \in [Neighbours(b) -> SUBSET input.domain]
          /\ \A q \in Neighbours(b) : Onward(f[q], g[q])
      BY <1>3, <3>1
    <3>3. /\ {f[q] : q \in Neighbours(b)} = MeetInputs(b)
          /\ {g[q] : q \in Neighbours(b)} = MeetInputs(b)'
      BY <1>2 DEF MeetInputs
    <3>. HIDE DEF f, g
    <3>4. Onward(meetFn(MeetInputs(b)), meetFn(MeetInputs(b)'))
      BY <1>1, <2>3, <3>2, <3>3, MeetOnward
    <3>5. QED
      BY <1>2, <2>3, <3>4 DEF Held
  <2>4. QED
    BY <2>2, <2>3
<1>7. \A b \in Visited(F) : Onward(FlowSide(Visit(b)), FlowSide(Visit(b))')
  <2>1. TAKE b \in Visited(F)
  <2>2. Held(b) \in SUBSET input.domain
    BY <1>1, HeldTyped
  <2>3. Held(b)' \in SUBSET input.domain
    <3>1. CASE Neighbours(b) = {}
      BY <1>1, <1>2, <3>1, SidesLemma DEF Held, MeetSide
    <3>2. CASE Neighbours(b) # {}
      <4>1. MeetInputs(b)' \in (SUBSET SUBSET input.domain) \ {{}}
        BY <1>1, <1>2, <1>3, <3>2, NeighboursLemma DEF MeetInputs
      <4>2. meetFn(MeetInputs(b)') \in SUBSET input.domain
        BY <1>1, <4>1, MeetTyped
      <4>3. QED
        BY <1>2, <3>2, <4>2 DEF Held
    <3>3. QED
      BY <3>1, <3>2
  <2>4. Onward(FromHeld(b, Held(b)), FromHeld(b, Held(b)'))
    BY <1>1, <1>6, <2>2, <2>3, FromHeldOnward
  <2>5. QED
    BY <1>4, <1>5, <2>4
<1>8. ASSUME NEW b \in Visited(F)
      PROVE  Onward(FlowSide(result[b])', FlowSide(Visit(b))')
  <2>1. Onward(FlowSide(result[b]), FlowSide(Visit(b)))
    BY DEF MovesTowardsSolutions
  <2>2. Onward(FlowSide(Visit(b)), FlowSide(Visit(b))')
    BY <1>7
  <2>3. FlowSide(result[b])' \in {FlowSide(result[b]), FlowSide(Visit(b))}
    OBVIOUS
  <2>4. QED
    BY <2>1, <2>2, <2>3 DEF Onward
<1>9. ASSUME NEW b \in Visited(F), NEW sol \in Solutions
      PROVE  Onward(FlowSide(result[b])', sol[b])
  <2>. DEFINE near == Neighbours(b) \cap Visited(F)
              f    == [q \in near |-> Answer[q]]
              g    == [q \in near |-> sol[q]]
  <2>1. sol \in [Visited(F) -> SUBSET input.domain] /\ sol[b] = FromHeld(b, HeldIn(sol, b))
    BY EquationHeld DEF Solutions
  <2>2. Held(b) = HeldIn(Answer, b)
    BY HeldByAnswer
  <2>3. HeldIn(sol, b) \in SUBSET input.domain
    <3>1. CASE near = {}
      BY <1>1, <3>1, SidesLemma DEF HeldIn
    <3>2. CASE near # {}
      <4>1. {sol[q] : q \in near} \in (SUBSET SUBSET input.domain) \ {{}}
        BY <2>1, <3>2
      <4>2. QED
        BY <1>1, <3>2, <4>1, MeetTyped DEF HeldIn
    <3>3. QED
      BY <3>1, <3>2
  <2>4. Onward(HeldIn(Answer, b), HeldIn(sol, b))
    <3>1. CASE near = {}
      BY <3>1 DEF HeldIn, Onward
    <3>2. CASE near # {}
      <4>1. /\ f \in [near -> SUBSET input.domain]
            /\ g \in [near -> SUBSET input.domain]
            /\ \A q \in near : Onward(f[q], g[q])
        BY <1>1, <1>3, <2>1 DEF MovesTowardsSolutions, Answer
      <4>2. /\ {f[q] : q \in near} = {Answer[q] : q \in near}
            /\ {g[q] : q \in near} = {sol[q] : q \in near}
        OBVIOUS
      <4>3. near # {}
        BY <3>2
      <4>. HIDE DEF f, g, near
      <4>4. Onward(meetFn({f[q] : q \in near}), meetFn({g[q] : q \in near}))
        BY <1>1, <4>1, <4>3, MeetOnward
      <4>5. QED
        BY <4>2, <4>3, <4>4 DEF HeldIn, near
    <3>3. QED
      BY <3>1, <3>2
  <2>5. Onward(FlowSide(Visit(b)), sol[b])
    <3>1. Held(b) \in SUBSET input.domain
      BY <1>1, HeldTyped
    <3>2. Onward(FromHeld(b, Held(b)), FromHeld(b, HeldIn(sol, b)))
      BY <1>1, <2>2, <2>3, <2>4, <3>1, FromHeldOnward
    <3>3. QED
      BY <1>4, <2>1, <3>2
  <2>6. Onward(FlowSide(result[b]), sol[b])
    BY DEF MovesTowardsSolutions
  <2>7. FlowSide(result[b])' \in {FlowSide(result[b]), FlowSide(Visit(b))}
    OBVIOUS
  <2>8. QED
    BY <2>5, <2>6, <2>7 DEF Onward
<1>10. Solutions' = Solutions
  <2>1. \A sol, b : Equation(sol, b)' = Equation(sol, b)
    BY <1>2 DEF Equation, Visited, FlowSide, MeetSide, WithMeet
  <2>2. QED
    BY <1>2, <2>1 DEF Solutions, Visited
<1>11. QED
  <2>1. Visited(F)' = Visited(F)
    BY <1>2 DEF Visited
  <2>2. \A u, v : Onward(u, v)' = Onward(u', v')
    BY DEF Onward
  <2>3. QED
    BY <1>8, <1>9, <1>10, <2>1 DEF MovesTowardsSolutions, Onward

LEMMA KVisitBlock == SInv /\ InitialKept /\ VisitBlock => InitialKept'
<1>. SUFFICES ASSUME SInv, InitialKept, VisitBlock PROVE InitialKept'
  OBVIOUS
<1>. DEFINE c == Traversal(idx)
<1>1. /\ pc = "sweep" /\ idx <= Len(F.po)
      /\ result' = [result EXCEPT ![c] = Visit(c)]
      /\ input' = input /\ pc' = pc
  BY DEF VisitBlock
<1>2. /\ IsFunction(F) /\ input \in Inputs /\ Visited(F) \subseteq Blocks(F)
      /\ result \in [Blocks(F) -> Props(input.domain)] /\ c \in Visited(F)
  BY <1>1, TFacts, TraversalLemma DEF SInv
<1>3. /\ F' = F /\ Visited(F)' = Visited(F)
      /\ \A b : Neighbours(b)' = Neighbours(b) /\ InitialProps(b)' = InitialProps(b)
  BY <1>1 DEF F, Visited, Neighbours, InitialProps, Vector, BlockType
<1>4. \A b \in Blocks(F) : result'[b] = IF b = c THEN Visit(c) ELSE result[b]
  BY <1>1, <1>2
<1>5. /\ Visit(c).genSet = InitialProps(c).genSet
      /\ Visit(c).killSet = InitialProps(c).killSet
      /\ Neighbours(c) = {} => MeetSide(Visit(c)) = MeetSide(InitialProps(c))
  <2>1. /\ AfterMeet(c).genSet = result[c].genSet
        /\ AfterMeet(c).killSet = result[c].killSet
    BY <1>2 DEF AfterMeet, WithMeet, Props
  <2>2. /\ Visit(c).genSet = AfterMeet(c).genSet
        /\ Visit(c).killSet = AfterMeet(c).killSet
        /\ MeetSide(Visit(c)) = MeetSide(AfterMeet(c))
    BY <1>2, VisitTyped, TransferAssumption DEF Visit, F
  <2>3. Neighbours(c) = {} => AfterMeet(c) = result[c]
    BY DEF AfterMeet
  <2>4. QED
    BY <1>1, <1>2, <2>1, <2>2, <2>3 DEF InitialKept
<1>6. \A b \in Blocks(F) \ Visited(F) : FlowSide(result[b])' = Vector(initCond)'
  BY <1>1, <1>2, <1>4 DEF InitialKept, FlowSide, Vector
<1>7. \A b \in Visited(F) :
        Neighbours(b) = {} => MeetSide(result[b])' = MeetSide(InitialProps(b))'
  BY <1>1, <1>2, <1>3, <1>4, <1>5 DEF InitialKept, MeetSide
<1>8. \A b \in Blocks(F) : /\ InitialProps(b) \in Props(input.domain)
                           /\ result'[b].genSet = InitialProps(b).genSet
                           /\ result'[b].killSet = InitialProps(b).killSet
  BY <1>1, <1>4, <1>5 DEF InitialKept
<1>9. QED
  BY <1>1, <1>3, <1>6, <1>7, <1>8 DEF InitialKept

LEMMA KSame ==
  ASSUME InitialKept, pc \in {"sweep", "done"} \/ pc' \notin {"sweep", "done"},
         input' = input, result' = result
  PROVE  InitialKept'
<1>1. /\ F' = F /\ Visited(F)' = Visited(F)
      /\ \A b : Neighbours(b)' = Neighbours(b) /\ InitialProps(b)' = InitialProps(b)
  BY DEF F, Visited, Neighbours, InitialProps, Vector, BlockType
<1>2. \A p : FlowSide(p)' = FlowSide(p') /\ MeetSide(p)' = MeetSide(p')
  BY DEF FlowSide, MeetSide
<1>3. QED
  BY <1>1, <1>2 DEF InitialKept, FlowSide, MeetSide, Vector

LEMMA MVisitBlock ==
  SInv /\ InitialKept /\ MovesTowardsSolutions /\ VisitBlock => MovesTowardsSolutions'
<1>. SUFFICES ASSUME SInv, InitialKept, MovesTowardsSolutions, VisitBlock
              PROVE  MovesTowardsSolutions'
  OBVIOUS
<1>. DEFINE c == Traversal(idx)
<1>1. /\ pc = "sweep" /\ idx <= Len(F.po)
      /\ result' = [result EXCEPT ![c] = Visit(c)]
      /\ input' = input /\ pc' = pc
  BY DEF VisitBlock
<1>2. /\ IsFunction(F) /\ Visited(F) \subseteq Blocks(F) /\ c \in Visited(F)
      /\ result \in [Blocks(F) -> Props(input.domain)]
  BY <1>1, TFacts, TraversalLemma DEF SInv
<1>3. \A b \in Blocks(F) :
        FlowSide(result[b])' = IF b = c THEN FlowSide(Visit(c)) ELSE FlowSide(result[b])
  BY <1>1, <1>2 DEF FlowSide
<1>4. SInv' /\ InitialKept'
  BY SVisitBlock, KVisitBlock
<1>5. \A b \in Visited(F) :
        FlowSide(result[b])' \in {FlowSide(result[b]), FlowSide(Visit(b))}
  BY <1>2, <1>3
<1>6. \A b \in Blocks(F) \ Visited(F) : FlowSide(result[b])' = FlowSide(result[b])
  BY <1>2, <1>3
<1>7. QED
  BY <1>1, <1>4, <1>5, <1>6, Progress

LEMMA MSame ==
  ASSUME SInv, SInv', InitialKept, MovesTowardsSolutions,
         pc \in {"sweep", "done"} \/ pc' \notin {"sweep", "done"},
         input' = input, result' = result
  PROVE  MovesTowardsSolutions'
<1>1. CASE pc' \notin {"sweep", "done"}
  BY <1>1 DEF MovesTowardsSolutions
<1>2. CASE pc \in {"sweep", "done"} /\ pc' \in {"sweep", "done"}
  <2>1. \A b : FlowSide(result[b])' = FlowSide(result[b])
    BY DEF FlowSide
  <2>2. InitialKept'
    BY <1>2, KSame
  <2>3. QED
    BY <1>2, <2>1, <2>2, Progress
<1>3. QED
  BY <1>1, <1>2

-----------------------------------------------------------------------------
(***************************************************************************)
(* The inductive invariant, action by action.                              *)
(***************************************************************************)
IInv == SInv /\ OneSweepIsEnough /\ InitialKept /\ MovesTowardsSolutions

\* Nothing is claimed of an object that is not being run.
LEMMA Outside ==
  ASSUME SInv', pc' \notin {"sweep", "done"}
  PROVE  IInv'
  BY DEF IInv, OneSweepIsEnough, InitialKept, MovesTowardsSolutions

LEMMA InitLemma == Init => IInv
  BY SInit DEF Init, IInv, OneSweepIsEnough, InitialKept, MovesTowardsSolutions

LEMMA ConstructLemma ==
  ASSUME IInv, NEW in \in Inputs, Construct(in)
  PROVE  IInv'
  BY SConstruct, Outside DEF Construct, IInv

LEMMA DiscardLemma == Discard => IInv'
  BY SDiscard, Outside DEF Discard

LEMMA InitializeLemma == IInv /\ Initialize => IInv'
<1>. SUFFICES ASSUME SInv, Initialize PROVE IInv'
  BY DEF IInv
<1>1. pc' \in {"sweep", "crashed"} /\ iter' = 0
  BY DEF Initialize, SInv, TInv, TypeOK
<1>2. OneSweepIsEnough'
  BY <1>1 DEF OneSweepIsEnough
<1>3. QED
  BY <1>2, SInitialize, KInitialize, MInitialize DEF IInv

LEMMA VisitBlockLemma == IInv /\ VisitBlock => IInv'
  BY SVisitBlock, OVisitBlock, KVisitBlock, MVisitBlock DEF IInv

LEMMA EndSweepLemma == IInv /\ EndSweep => IInv'
<1>. SUFFICES ASSUME IInv, EndSweep PROVE IInv'
  OBVIOUS
<1>1. pc = "sweep" /\ input' = input /\ result' = result
  BY DEF EndSweep
<1>2. SInv' /\ OneSweepIsEnough'
  BY SEndSweep, OEndSweep DEF IInv
<1>3. InitialKept' /\ MovesTowardsSolutions'
  BY <1>1, <1>2, KSame, MSame DEF IInv
<1>4. QED
  BY <1>2, <1>3 DEF IInv

LEMMA StutterLemma == IInv /\ UNCHANGED vars => IInv'
<1>. SUFFICES ASSUME IInv, UNCHANGED vars PROVE IInv'
  OBVIOUS
<1>1. /\ input' = input /\ result' = result /\ prev' = prev /\ idx' = idx
      /\ iter' = iter /\ converged' = converged /\ pc' = pc
  BY DEF vars
<1>2. SInv'
  BY SStutter DEF IInv
<1>3. OneSweepIsEnough'
  <2>1. F' = F /\ Visited(F)' = Visited(F) /\ \A k : Traversal(k)' = Traversal(k)
    BY <1>1 DEF F, Visited, Traversal
  <2>2. \A b : Visit(b)' = Visit(b) /\ FlowSide(result[b])' = FlowSide(result[b])
    BY <1>1 DEF Visit, AfterMeet, MeetInputs, Neighbours, FlowSide, WithMeet, F
  <2>3. QED
    BY <1>1, <2>1, <2>2 DEF IInv, OneSweepIsEnough, FlowSide
<1>4. InitialKept' /\ MovesTowardsSolutions'
  <2>1. pc \in {"sweep", "done"} \/ pc' \notin {"sweep", "done"}
    BY <1>1
  <2>2. QED
    BY <1>1, <1>2, <2>1, KSame, MSame DEF IInv
<1>5. QED
  BY <1>2, <1>3, <1>4 DEF IInv

-----------------------------------------------------------------------------
(***************************************************************************)
(* IInv is inductive.                                                      *)
(***************************************************************************)
THEOREM Inductive == Spec => []IInv
<1>1. IInv /\ [Next]_vars => IInv'
  <2>. SUFFICES ASSUME IInv, [Next]_vars PROVE IInv'
    OBVIOUS
  <2>1. CASE Initialize
    BY <2>1, InitializeLemma
  <2>2. CASE VisitBlock
    BY <2>2, VisitBlockLemma
  <2>3. CASE EndSweep
    BY <2>3, EndSweepLemma
  <2>4. CASE Discard
    BY <2>4, DiscardLemma
  <2>5. ASSUME NEW in \in Inputs, Construct(in) PROVE IInv'
    BY <2>5, ConstructLemma
  <2>6. CASE UNCHANGED vars
    BY <2>6, StutterLemma
  <2>7. QED
    BY <2>1, <2>2, <2>3, <2>4, <2>5, <2>6 DEF Next, Run
<1>2. QED
  BY <1>1, InitLemma, PTL DEF Spec

(***************************************************************************)
(* A run that stops by convergence (dataflow.cpp:159-178) stops in a state *)
(* no further visit changes, for every function, domain and direction.     *)
(***************************************************************************)
THEOREM Stability == Spec => []StableOnConvergence
<1>1. IInv => StableOnConvergence
  BY DEF IInv, SInv
<1>2. QED
  BY <1>1, Inductive, PTL

(***************************************************************************)
(* No visit gives a block back a bit (or takes one it has gained) that an  *)
(* earlier visit settled: the loop at dataflow.cpp:121 moves one way only. *)
(***************************************************************************)
THEOREM OneWayTraffic == Spec => MovesOneWay
<1>1. IInv /\ [Next]_vars => [VisitBlock => OneWay]_vars
  <2>. SUFFICES ASSUME IInv, VisitBlock PROVE OneWay
    OBVIOUS
  <2>. DEFINE c == Traversal(idx)
  <2>1. pc = "sweep" /\ idx <= Len(F.po) /\ result' = [result EXCEPT ![c] = Visit(c)]
    BY DEF VisitBlock
  <2>2. /\ result \in [Blocks(F) -> Props(input.domain)] /\ c \in Visited(F)
    BY <2>1, TFacts, TraversalLemma DEF IInv, SInv
  <2>3. Onward(FlowSide(result[c]), FlowSide(Visit(c)))
    BY <2>1, <2>2 DEF IInv, MovesTowardsSolutions
  <2>4. \A b \in DOMAIN result : FlowSide(result'[b]) =
          IF b = c THEN FlowSide(Visit(c)) ELSE FlowSide(result[b])
    BY <2>1
  <2>5. QED
    BY <2>3, <2>4 DEF OneWay, Onward
<1>2. QED
  BY <1>1, Inductive, PTL DEF Spec, MovesOneWay

(***************************************************************************)
(* A run that stops by convergence answers with the extremal solution of   *)
(* the client's equations: the greatest when iteration starts from full    *)
(* vectors and the least when it starts from empty ones.                   *)
(***************************************************************************)
THEOREM Extremality == Spec => []AnswerIsExtremal
<1>1. IInv => AnswerIsExtremal
  <2>. SUFFICES ASSUME IInv, pc = "done", converged PROVE IsExtremal(Answer)
    BY DEF AnswerIsExtremal
  <2>1. /\ IsFunction(F) /\ Visited(F) \subseteq Blocks(F)
        /\ result \in [Blocks(F) -> Props(input.domain)]
    BY TFacts, TraversalLemma DEF IInv, SInv
  <2>2. Answer \in [Visited(F) -> SUBSET input.domain]
    BY <2>1, SidesLemma DEF Answer
  <2>3. ASSUME NEW b \in Visited(F) PROVE Answer[b] = Equation(Answer, b)
    <3>1. Visit(b) = result[b]
      BY DEF IInv, SInv, StableOnConvergence
    <3>2. FlowSide(Visit(b)) = FromHeld(b, Held(b)) /\ Held(b) = HeldIn(Answer, b)
      BY VisitComputes, HeldByAnswer DEF IInv
    <3>3. QED
      BY <3>1, <3>2, EquationHeld DEF Answer
  <2>4. \A other \in Solutions : \A b \in Visited(F) : Onward(Answer[b], other[b])
    BY DEF IInv, MovesTowardsSolutions, Answer
  <2>5. QED
    BY <2>2, <2>3, <2>4 DEF IsExtremal, Solutions, Onward
<1>2. QED
  BY <1>1, Inductive, PTL

(***************************************************************************)
(* A function without loops is done after the second sweep, so that the    *)
(* cap at dataflow.cpp:121 never cuts it short.                            *)
(***************************************************************************)
SettlesAtOnce ==
  pc = "done" /\ Acyclic(F) /\ MaxSweeps > 1 => converged /\ iter <= 2

(***************************************************************************)
(* Holds for every monotone subclass, forward or backward.                 *)
(***************************************************************************)
THEOREM LoopFree == Spec => []SettlesAtOnce
<1>1. IInv => SettlesAtOnce
  BY FrameworkAssumption DEF IInv, OneSweepIsEnough, SettlesAtOnce
<1>2. QED
  BY <1>1, Inductive, PTL

-----------------------------------------------------------------------------
(***************************************************************************)
(* How many sweeps a run needs.  A subclass is BitByBit if what a visit    *)
(* does to a bit depends on that bit alone: the transfer looks at no other *)
(* bit of the meet side, and the meet is the intersection of the vectors   *)
(* offered when iteration starts from full, their union when it starts     *)
(* from empty.  All subclasses of the repository are, the faint analysis   *)
(* aside.                                                                  *)
(***************************************************************************)
BitByBit ==
  \A in \in Inputs : \A d \in in.domain :
    /\ \A b \in Blocks(in.fn) : \A p, q \in Props(in.domain) :
         /\ p.genSet = q.genSet
         /\ p.killSet = q.killSet
         /\ d \in MeetSide(p) <=> d \in MeetSide(q)
         => (d \in FlowSide(transferFn(in.domain, in.member[b], p))
               <=> d \in FlowSide(transferFn(in.domain, in.member[b], q)))
    /\ \A vs \in (SUBSET SUBSET in.domain) \ {{}} :
         d \in meetFn(vs) <=> IF initCond = "full" THEN \A v \in vs : d \in v
                                                   ELSE \E v \in vs : d \in v

\* The bits of a vector that have moved away from the vector iteration starts from.
Apart(v) == IF initCond = "full" THEN input.domain \ v ELSE v

\* Positions of the traversal: those whose block has moved bit d, ...
Moved(d) == {i \in 1 .. Len(F.po) : d \in Apart(FlowSide(result[Traversal(i)]))}

\* ... and those whose block offers its vector to that of another.
Feeds(i, j) == Traversal(i) \in Neighbours(Traversal(j))

\* The block at i moves bit d of its own accord, or if all it is offered has moved.
Source(i, d) ==
  LET b == Traversal(i)
  IN  d \in Apart(FromHeld(b, IF Neighbours(b) = {} THEN MeetSide(InitialProps(b))
                                                    ELSE Vector(initCond)))

Passes(i, d) == d \in Apart(FromHeld(Traversal(i), input.domain \ Vector(initCond)))

(***************************************************************************)
(* A bit is carried to position j against the order of the sweep k times:  *)
(* along a path of positions from m that meets none of them twice.         *)
(***************************************************************************)
Along(w, l, j, k) ==
  /\ w[l] = j
  /\ \A x, y \in 1 .. l : w[x] = w[y] => x = y
  /\ \A x \in 1 .. l - 1 : Feeds(w[x], w[x + 1])
  /\ \E r \in [1 .. k -> {x \in 1 .. l - 1 : w[x + 1] <= w[x]}] :
       \A x, y \in 1 .. k : r[x] = r[y] => x = y

Carried(m, j, k) == \E l \in Nat \ {0} : \E w \in [1 .. l -> m] : Along(w, l, j, k)

(***************************************************************************)
(* The invariant of a sweep, for each bit.  A source has moved it once it  *)
(* was visited; a block that moved it in this sweep had it carried against *)
(* the order once per sweep completed; and where a block has yet to follow *)
(* a neighbour, the neighbour has moved it in this sweep, or moved it in   *)
(* the last one after the block was visited.                               *)
(***************************************************************************)
SourcesMove ==
  \A d \in input.domain : \A i \in 1 .. Len(F.po) :
    Source(i, d) /\ (iter > 0 \/ i < idx) => i \in Moved(d)

SavedStay ==
  \A i \in 1 .. idx - 1 : Apart(prev[Traversal(i)]) \subseteq Apart(FlowSide(result[Traversal(i)]))

MovedAreCarried ==
  \A d \in input.domain : \A i \in 1 .. idx - 1 :
    i \in Moved(d) /\ d \notin Apart(prev[Traversal(i)]) => Carried(Moved(d), i, iter)

LagIsExplained ==
  \A d \in input.domain : \A i \in (1 .. Len(F.po)) \ Moved(d) : \A j \in Moved(d) :
    Passes(i, d) /\ Feeds(j, i) =>
      /\ j < idx => Carried(Moved(d), j, iter)
      /\ j >= idx => iter > 0 /\ Carried(Moved(d), j, iter - 1)
      /\ (i < idx \/ j >= idx) => i <= j
      /\ i < idx => j < idx

SweepsAreCounted ==
  pc = "sweep" =>
    /\ SourcesMove /\ SavedStay /\ MovedAreCarried /\ LagIsExplained
    /\ iter > 0 => LoopConnected(F, iter - 1)

\* A run that is cut off has used up its sweeps.
CutAtCap == pc = "done" /\ ~ converged => iter = MaxSweeps

NInv == SweepsAreCounted /\ SettlesByNesting /\ CutAtCap

-----------------------------------------------------------------------------
(***************************************************************************)
(* Lemmas about paths.  A path of one position, ...                        *)
(***************************************************************************)
LEMMA CarriedStart ==
  ASSUME NEW m, NEW j \in m
  PROVE  Carried(m, j, 0)
<1>. DEFINE w == [x \in 1 .. 1 |-> j]
            r == [x \in 1 .. 0 |-> x]
<1>1. w \in [1 .. 1 -> m] /\ w[1] = j
  OBVIOUS
<1>2. r \in [1 .. 0 -> {x \in 1 .. 1 - 1 : w[x + 1] <= w[x]}]
  OBVIOUS
<1>3. /\ \A x, y \in 1 .. 1 : w[x] = w[y] => x = y
      /\ \A x \in 1 .. 1 - 1 : Feeds(w[x], w[x + 1])
      /\ \A x, y \in 1 .. 0 : r[x] = r[y] => x = y
  OBVIOUS
<1>. HIDE DEF w, r
<1>4. \E s \in [1 .. 0 -> {x \in 1 .. 1 - 1 : w[x + 1] <= w[x]}] :
        \A x, y \in 1 .. 0 : s[x] = s[y] => x = y
  BY <1>2, <1>3
<1>5. Along(w, 1, j, 0)
  BY <1>1, <1>3, <1>4 DEF Along
<1>6. 1 \in Nat \ {0}
  OBVIOUS
<1>7. QED
  BY <1>1, <1>5, <1>6 DEF Carried

\* ... one that stays when more blocks move, or is claimed to turn less often, ...
LEMMA CarriedStays ==
  ASSUME NEW m, NEW n, m \subseteq n, NEW j, NEW k \in Nat, NEW h \in 0 .. k,
         Carried(m, j, k)
  PROVE  Carried(n, j, h)
<1>0. PICK l \in Nat \ {0} : \E w \in [1 .. l -> m] : Along(w, l, j, k)
  BY DEF Carried
<1>a. PICK w \in [1 .. l -> m] : Along(w, l, j, k)
  BY <1>0
<1>1. /\ w[l] = j
      /\ \A x, y \in 1 .. l : w[x] = w[y] => x = y
      /\ \A x \in 1 .. l - 1 : Feeds(w[x], w[x + 1])
      /\ \E r \in [1 .. k -> {x \in 1 .. l - 1 : w[x + 1] <= w[x]}] :
           \A x, y \in 1 .. k : r[x] = r[y] => x = y
  BY <1>a DEF Along
<1>2. PICK r \in [1 .. k -> {x \in 1 .. l - 1 : w[x + 1] <= w[x]}] :
        \A x, y \in 1 .. k : r[x] = r[y] => x = y
  BY <1>1
<1>. DEFINE s == [x \in 1 .. h |-> r[x]]
<1>3. 1 .. h \subseteq 1 .. k
  OBVIOUS
<1>4. /\ s \in [1 .. h -> {x \in 1 .. l - 1 : w[x + 1] <= w[x]}]
      /\ \A x, y \in 1 .. h : s[x] = s[y] => x = y
  BY <1>2, <1>3
<1>5. w \in [1 .. l -> n]
  OBVIOUS
<1>. HIDE DEF s
<1>6. Along(w, l, j, h)
  BY <1>1, <1>4 DEF Along
<1>7. QED
  BY <1>5, <1>6 DEF Carried

\* ... one that goes on to a block that had not moved, turning once more if
\* that block comes no later in the traversal, ...
LEMMA CarriedOn ==
  ASSUME NEW m, NEW i, i \notin m, NEW j, Feeds(j, i), NEW k \in Nat,
         NEW h \in {k, k + 1}, h = k + 1 => i <= j, Carried(m, j, k)
  PROVE  Carried(m \cup {i}, i, h)
<1>0. PICK l \in Nat \ {0} : \E w \in [1 .. l -> m] : Along(w, l, j, k)
  BY DEF Carried
<1>a. PICK w \in [1 .. l -> m] : Along(w, l, j, k)
  BY <1>0
<1>1. /\ w[l] = j
      /\ \A x, y \in 1 .. l : w[x] = w[y] => x = y
      /\ \A x \in 1 .. l - 1 : Feeds(w[x], w[x + 1])
      /\ \E r \in [1 .. k -> {x \in 1 .. l - 1 : w[x + 1] <= w[x]}] :
           \A x, y \in 1 .. k : r[x] = r[y] => x = y
  BY <1>a DEF Along
<1>2. PICK r \in [1 .. k -> {x \in 1 .. l - 1 : w[x + 1] <= w[x]}] :
        \A x, y \in 1 .. k : r[x] = r[y] => x = y
  BY <1>1
<1>. DEFINE v == [x \in 1 .. l + 1 |-> IF x <= l THEN w[x] ELSE i]
            turns == {x \in 1 .. (l + 1) - 1 : v[x + 1] <= v[x]}
            s == [x \in 1 .. h |-> IF x <= k THEN r[x] ELSE l]
<1>3. /\ l + 1 \in Nat \ {0}
      /\ v \in [1 .. l + 1 -> m \cup {i}]
      /\ v[l + 1] = i
      /\ \A x \in 1 .. l : v[x] = w[x]
  OBVIOUS
<1>4. ASSUME NEW x \in 1 .. l + 1, NEW y \in 1 .. l + 1, v[x] = v[y]
      PROVE  x = y
  <2>1. x \in 1 .. l \/ x = l + 1
    OBVIOUS
  <2>2. y \in 1 .. l \/ y = l + 1
    OBVIOUS
  <2>3. \A z \in 1 .. l : w[z] # i
    OBVIOUS
  <2>4. QED
    BY <1>1, <1>3, <1>4, <2>1, <2>2, <2>3
<1>5. ASSUME NEW x \in 1 .. (l + 1) - 1
      PROVE  Feeds(v[x], v[x + 1])
  <2>1. CASE x = l
    BY <1>1, <1>3, <2>1
  <2>2. CASE x # l
    <3>1. x \in 1 .. l - 1 /\ x \in 1 .. l /\ x + 1 \in 1 .. l
      BY <2>2
    <3>2. QED
      BY <1>1, <1>3, <3>1
  <2>3. QED
    BY <2>1, <2>2
<1>6. \A x \in 1 .. k : r[x] \in 1 .. l - 1 /\ r[x] \in turns
  <2>1. TAKE x \in 1 .. k
  <2>2. r[x] \in 1 .. l - 1 /\ w[r[x] + 1] <= w[r[x]]
    BY <1>2
  <2>3. r[x] \in 1 .. l /\ r[x] + 1 \in 1 .. l /\ r[x] \in 1 .. (l + 1) - 1
    BY <2>2
  <2>4. v[r[x]] = w[r[x]] /\ v[r[x] + 1] = w[r[x] + 1]
    BY <1>3, <2>3
  <2>5. QED
    BY <2>2, <2>3, <2>4
<1>7. ASSUME h = k + 1 PROVE l \in turns
  <2>1. l \in 1 .. (l + 1) - 1 /\ l \in 1 .. l
    OBVIOUS
  <2>2. v[l + 1] <= v[l]
    BY <1>1, <1>3, <1>7, <2>1
  <2>3. QED
    BY <2>1, <2>2
<1>. HIDE DEF v, turns
<1>8. \A x \in 1 .. h : s[x] \in turns
  <2>1. TAKE x \in 1 .. h
  <2>2. CASE x <= k
    BY <1>6, <2>2
  <2>3. CASE ~ (x <= k)
    BY <1>7, <2>3
  <2>4. QED
    BY <2>2, <2>3
<1>9. s \in [1 .. h -> turns]
  BY <1>8
<1>10. ASSUME NEW x \in 1 .. h, NEW y \in 1 .. h, s[x] = s[y]
       PROVE  x = y
  <2>1. \A z \in 1 .. k : r[z] # l
    BY <1>6
  <2>2. (x \in 1 .. k \/ x = k + 1) /\ (y \in 1 .. k \/ y = k + 1)
    OBVIOUS
  <2>3. QED
    BY <1>2, <1>10, <2>1, <2>2
<1>. HIDE DEF s
<1>11. \E t \in [1 .. h -> turns] : \A x, y \in 1 .. h : t[x] = t[y] => x = y
  BY <1>9, <1>10
<1>12. Along(v, l + 1, i, h)
  BY <1>3, <1>4, <1>5, <1>11 DEF turns, Along
<1>13. QED
  BY <1>3, <1>12 DEF Carried

\* (A path that meets no position twice is no longer than the traversal.)
LEMMA NoRoom ==
  ASSUME NEW k \in Nat, NEW n \in Nat, NEW w \in [1 .. k -> 1 .. n],
         \A x, y \in 1 .. k : w[x] = w[y] => x = y
  PROVE  k <= n
<1>. SUFFICES ASSUME n < k PROVE FALSE
  OBVIOUS
<1>1. /\ IsFiniteSet(1 .. k) /\ Cardinality(1 .. k) = IF 1 > k THEN 0 ELSE k - 1 + 1
      /\ IsFiniteSet(1 .. n) /\ Cardinality(1 .. n) = IF 1 > n THEN 0 ELSE n - 1 + 1
  BY FS_Interval
<1>2. Cardinality(1 .. n) < Cardinality(1 .. k)
  BY <1>1
<1>3. \E x, y \in 1 .. k : x # y /\ w[x] = w[y]
  BY <1>1, <1>2, FS_PigeonHole, Zenon
<1>4. QED
  BY <1>3

LEMMA ConnectedBy ==
  ASSUME NEW f, NEW d, NEW k \in 1 .. Len(f.po), NEW p \in [1 .. k -> 1 .. Len(f.po)],
         \A i, j \in 1 .. k : p[i] = p[j] => i = j,
         \A i \in 1 .. k - 1 : f.po[p[i + 1]] \in Successors(f, f.po[p[i]]),
         \E r \in [1 .. d -> {i \in 1 .. k - 1 : p[i] <= p[i + 1]}] :
           \A x, y \in 1 .. d : r[x] = r[y] => x = y
  PROVE  LoopConnected(f, d)
  BY Zenon DEF LoopConnected

\* ... and what it says of the graph: reversed for a backward analysis, it is
\* a path of the function.
LEMMA CarriedConnects ==
  ASSUME IsFunction(F), NEW m \in SUBSET (1 .. Len(F.po)), NEW j, NEW k \in Nat,
         Carried(m, j, k)
  PROVE  LoopConnected(F, k)
<1>0. PICK l \in Nat \ {0} : \E w \in [1 .. l -> m] : Along(w, l, j, k)
  BY DEF Carried
<1>a. PICK w \in [1 .. l -> m] : Along(w, l, j, k)
  BY <1>0
<1>1. /\ w[l] = j
      /\ \A x, y \in 1 .. l : w[x] = w[y] => x = y
      /\ \A x \in 1 .. l - 1 : Feeds(w[x], w[x + 1])
      /\ \E r \in [1 .. k -> {x \in 1 .. l - 1 : w[x + 1] <= w[x]}] :
           \A x, y \in 1 .. k : r[x] = r[y] => x = y
  BY <1>a DEF Along
<1>2. PICK r \in [1 .. k -> {x \in 1 .. l - 1 : w[x + 1] <= w[x]}] :
        \A x, y \in 1 .. k : r[x] = r[y] => x = y
  BY <1>1
<1>. DEFINE N == Len(F.po)
<1>3. N \in Nat
  BY DEF IsFunction
<1>4. l \in 1 .. N
  <2>1. w \in [1 .. l -> 1 .. N]
    OBVIOUS
  <2>. HIDE DEF N
  <2>2. l <= N
    BY <1>1, <1>3, <2>1, NoRoom
  <2>3. QED
    BY <1>3, <2>2
<1>5. CASE dir = "FORWARD"
  <2>. DEFINE p == [x \in 1 .. l |-> N + 1 - w[x]]
  <2>0. \A x \in 1 .. l : w[x] \in 1 .. N /\ N + 1 - w[x] \in 1 .. N
    <3>1. TAKE x \in 1 .. l
    <3>2. w[x] \in 1 .. N
      OBVIOUS
    <3>3. QED
      BY <1>3, <3>2
  <2>1. p \in [1 .. l -> 1 .. N]
    BY <2>0
  <2>2. \A x, y \in 1 .. l : p[x] = p[y] => x = y
    <3>1. TAKE x, y \in 1 .. l
    <3>2. w[x] \in 1 .. N /\ w[y] \in 1 .. N
      OBVIOUS
    <3>3. p[x] = p[y] => w[x] = w[y]
      BY <1>3, <3>2
    <3>4. QED
      BY <1>1, <3>3
  <2>3. ASSUME NEW x \in 1 .. l - 1
        PROVE  F.po[p[x + 1]] \in Successors(F, F.po[p[x]])
    <3>1. x \in 1 .. l /\ x + 1 \in 1 .. l
      OBVIOUS
    <3>2. Feeds(w[x], w[x + 1])
      BY <1>1
    <3>3. QED
      BY <1>5, <3>1, <3>2 DEF Feeds, Traversal, Neighbours, Predecessors
  <2>4. \A x \in 1 .. l - 1 : w[x + 1] <= w[x] => p[x] <= p[x + 1]
    <3>1. TAKE x \in 1 .. l - 1
    <3>2. x \in 1 .. l /\ x + 1 \in 1 .. l
      OBVIOUS
    <3>3. w[x] \in 1 .. N /\ w[x + 1] \in 1 .. N
      BY <3>2
    <3>4. QED
      BY <1>3, <3>2, <3>3
  <2>. HIDE DEF p
  <2>5. r \in [1 .. k -> {x \in 1 .. l - 1 : p[x] <= p[x + 1]}]
    BY <1>2, <2>4
  <2>6. \E s \in [1 .. k -> {x \in 1 .. l - 1 : p[x] <= p[x + 1]}] :
          \A x, y \in 1 .. k : s[x] = s[y] => x = y
    BY <1>2, <2>5
  <2>7. QED
    BY <1>4, <2>1, <2>2, <2>3, <2>6, ConnectedBy
<1>6. CASE dir # "FORWARD"
  <2>. DEFINE p == [x \in 1 .. l |-> w[l + 1 - x]]
              s == [x \in 1 .. k |-> l - r[x]]
  <2>1. \A x \in 1 .. l : l + 1 - x \in 1 .. l
    OBVIOUS
  <2>2. p \in [1 .. l -> 1 .. N]
    BY <2>1
  <2>3. \A x, y \in 1 .. l : p[x] = p[y] => x = y
    <3>1. TAKE x, y \in 1 .. l
    <3>2. p[x] = p[y] => l + 1 - x = l + 1 - y
      BY <1>1, <2>1
    <3>3. QED
      BY <3>2
  <2>4. \A x \in 1 .. l - 1 : /\ l - x \in 1 .. l - 1
                              /\ p[x] = w[(l - x) + 1]
                              /\ p[x + 1] = w[l - x]
    <3>1. TAKE x \in 1 .. l - 1
    <3>2. l - x \in 1 .. l - 1 /\ x \in 1 .. l /\ x + 1 \in 1 .. l
      OBVIOUS
    <3>3. l + 1 - x = (l - x) + 1 /\ l + 1 - (x + 1) = l - x
      OBVIOUS
    <3>4. QED
      BY <3>2, <3>3
  <2>5. ASSUME NEW x \in 1 .. l - 1
        PROVE  F.po[p[x + 1]] \in Successors(F, F.po[p[x]])
    <3>1. Feeds(w[l - x], w[(l - x) + 1])
      BY <1>1, <2>4
    <3>2. QED
      BY <1>6, <2>4, <3>1 DEF Feeds, Traversal, Neighbours
  <2>6. \A x \in 1 .. k : s[x] \in 1 .. l - 1 /\ p[s[x]] <= p[s[x] + 1]
    <3>1. TAKE x \in 1 .. k
    <3>2. r[x] \in 1 .. l - 1 /\ w[r[x] + 1] <= w[r[x]]
      BY <1>2
    <3>3. l - r[x] \in 1 .. l - 1 /\ l - (l - r[x]) = r[x]
      BY <3>2
    <3>4. QED
      BY <2>4, <3>2, <3>3
  <2>. HIDE DEF p
  <2>7. s \in [1 .. k -> {x \in 1 .. l - 1 : p[x] <= p[x + 1]}]
    BY <2>6
  <2>8. \A x, y \in 1 .. k : s[x] = s[y] => x = y
    <3>1. TAKE x, y \in 1 .. k
    <3>2. r[x] \in 1 .. l - 1 /\ r[y] \in 1 .. l - 1
      BY <1>2
    <3>3. s[x] = s[y] => r[x] = r[y]
      BY <3>2
    <3>4. QED
      BY <1>2, <3>3
  <2>. HIDE DEF s
  <2>9. \E t \in [1 .. k -> {x \in 1 .. l - 1 : p[x] <= p[x + 1]}] :
          \A x, y \in 1 .. k : t[x] = t[y] => x = y
    BY <2>7, <2>8
  <2>10. QED
    BY <1>4, <2>2, <2>3, <2>5, <2>9, ConnectedBy
<1>7. QED
  BY <1>5, <1>6

-----------------------------------------------------------------------------
(***************************************************************************)
(* One visit, bit by bit: a bit is moved exactly if the block moves it of  *)
(* its own accord or passes it on from a neighbour that has moved it.      *)
(***************************************************************************)
LEMMA FromHeldBit ==
  ASSUME BitByBit, input \in Inputs, NEW b \in Blocks(F),
         InitialProps(b) \in Props(input.domain), NEW d \in input.domain,
         NEW v \in SUBSET input.domain, NEW u \in SUBSET input.domain, d \in v <=> d \in u
  PROVE  d \in FromHeld(b, v) <=> d \in FromHeld(b, u)
<1>. DEFINE p == WithMeet(InitialProps(b), v)
            q == WithMeet(InitialProps(b), u)
<1>1. /\ p \in Props(input.domain) /\ q \in Props(input.domain)
      /\ MeetSide(p) = v /\ MeetSide(q) = u
  BY SidesLemma
<1>2. p.genSet = q.genSet /\ p.killSet = q.killSet
  BY DEF WithMeet, InitialProps
<1>. HIDE DEF p, q
<1>3. d \in FlowSide(transferFn(input.domain, input.member[b], p))
        <=> d \in FlowSide(transferFn(input.domain, input.member[b], q))
  BY <1>1, <1>2 DEF BitByBit, F
<1>4. QED
  BY <1>3 DEF FromHeld, p, q

LEMMA HeldBit ==
  ASSUME BitByBit, SInv, InitialKept, pc \in {"sweep", "done"}, NEW d \in input.domain,
         NEW i \in 1 .. Len(F.po), Neighbours(Traversal(i)) # {}
  PROVE  d \in Apart(Held(Traversal(i))) <=> \E j \in Moved(d) : Feeds(j, i)
<1>. DEFINE b == Traversal(i)
<1>1. /\ IsFunction(F) /\ input \in Inputs /\ b \in Blocks(F)
      /\ result \in [Blocks(F) -> Props(input.domain)]
      /\ Neighbours(b) \subseteq Blocks(F) /\ Visited(F) \subseteq Blocks(F)
  BY TFacts, TraversalLemma, NeighboursLemma DEF SInv
<1>2. /\ MeetInputs(b) \in (SUBSET SUBSET input.domain) \ {{}}
      /\ Held(b) = meetFn(MeetInputs(b))
  <2>1. MeetInputs(b) \in (SUBSET SUBSET input.domain) \ {{}}
    BY <1>1, SidesLemma DEF MeetInputs
  <2>2. QED
    BY <2>1 DEF Held
<1>3. d \in Apart(Held(b)) <=> \E q \in Neighbours(b) : d \in Apart(FlowSide(result[q]))
  <2>1. d \in Held(b) <=> IF initCond = "full" THEN \A v \in MeetInputs(b) : d \in v
                                               ELSE \E v \in MeetInputs(b) : d \in v
    BY <1>1, <1>2 DEF BitByBit
  <2>2. QED
    BY <2>1 DEF Apart, MeetInputs
<1>4. ASSUME NEW q \in Neighbours(b), d \in Apart(FlowSide(result[q]))
      PROVE  \E j \in Moved(d) : Feeds(j, i)
  <2>1. q \in Visited(F)
    <3>1. ASSUME q \notin Visited(F) PROVE FALSE
      <4>1. FlowSide(result[q]) = Vector(initCond)
        BY <1>1, <3>1 DEF InitialKept
      <4>2. QED
        BY <1>4, <4>1 DEF Apart, Vector
    <3>2. QED
      BY <3>1
  <2>2. PICK j \in 1 .. Len(F.po) : Traversal(j) = q
    BY <1>1, <2>1, TraversalLemma
  <2>3. QED
    BY <1>4, <2>2 DEF Moved, Feeds
<1>5. QED
  BY <1>3, <1>4 DEF Moved, Feeds

LEMMA VisitBit ==
  ASSUME BitByBit, SInv, InitialKept, pc \in {"sweep", "done"}, NEW d \in input.domain,
         NEW i \in 1 .. Len(F.po)
  PROVE  d \in Apart(FlowSide(Visit(Traversal(i))))
           <=> Source(i, d) \/ (Passes(i, d) /\ \E j \in Moved(d) : Feeds(j, i))
<1>. DEFINE b == Traversal(i)
            S == Vector(initCond)
            T == input.domain \ S
<1>1. /\ IsFunction(F) /\ input \in Inputs /\ b \in Visited(F) /\ b \in Blocks(F)
      /\ InitialProps(b) \in Props(input.domain)
  BY TFacts, TraversalLemma DEF SInv, InitialKept
<1>2. FlowSide(Visit(b)) = FromHeld(b, Held(b)) /\ Held(b) \in SUBSET input.domain
  BY <1>1, VisitComputes, HeldTyped
<1>3. CASE Neighbours(b) = {}
  BY <1>2, <1>3 DEF Held, Source, Feeds
<1>4. CASE Neighbours(b) # {}
  <2>1. S \in SUBSET input.domain /\ T \in SUBSET input.domain
    BY DEF Vector
  <2>2. d \in Apart(T) /\ d \notin Apart(S)
    BY <2>1, FrameworkAssumption DEF Apart, Vector
  <2>3. \A v \in SUBSET input.domain : \A u \in SUBSET input.domain :
          (d \in v <=> d \in u) => (d \in Apart(FromHeld(b, v)) <=> d \in Apart(FromHeld(b, u)))
    BY <1>1, FromHeldBit DEF Apart
  <2>4. \A v, u : d \in Apart(v) <=> d \in Apart(u) => (d \in v <=> d \in u)
    BY DEF Apart
  <2>5. CASE d \in Apart(Held(b))
    <3>1. d \in Held(b) <=> d \in T
      BY <2>2, <2>5 DEF Apart
    <3>2. d \in Apart(FromHeld(b, Held(b))) <=> Passes(i, d)
      BY <1>2, <2>1, <2>3, <3>1 DEF Passes
    <3>3. Source(i, d) => Passes(i, d)
      <4>1. Onward(S, T)
        BY <2>1, FrameworkAssumption DEF Onward, Vector
      <4>2. Onward(FromHeld(b, S), FromHeld(b, T))
        BY <1>1, <2>1, <4>1, FromHeldOnward
      <4>3. QED
        BY <1>4, <4>2 DEF Source, Passes, Onward, Apart
    <3>4. \E j \in Moved(d) : Feeds(j, i)
      BY <1>4, <2>5, HeldBit
    <3>5. QED
      BY <1>2, <3>2, <3>3, <3>4
  <2>6. CASE d \notin Apart(Held(b))
    <3>1. d \in Held(b) <=> d \in S
      BY <2>2, <2>6 DEF Apart
    <3>2. d \in Apart(FromHeld(b, Held(b))) <=> Source(i, d)
      BY <1>2, <1>4, <2>1, <2>3, <3>1 DEF Source
    <3>3. ~ \E j \in Moved(d) : Feeds(j, i)
      BY <1>4, <2>6, HeldBit
    <3>4. QED
      BY <1>2, <3>2, <3>3
  <2>7. QED
    BY <2>5, <2>6
<1>5. QED
  BY <1>3, <1>4

-----------------------------------------------------------------------------
(***************************************************************************)
(* The invariant of a sweep, action by action.                             *)
(***************************************************************************)
LEMMA SameGraph ==
  ASSUME input' = input
  PROVE  /\ F' = F
         /\ \A i : Traversal(i)' = Traversal(i)
         /\ \A i, j : Feeds(i, j)' <=> Feeds(i, j)
         /\ \A i, d : Source(i, d)' <=> Source(i, d)
         /\ \A i, d : Passes(i, d)' <=> Passes(i, d)
         /\ \A v : Apart(v)' = Apart(v)
         /\ \A m, j, k : Carried(m, j, k)' <=> Carried(m, j, k)
         /\ \A k : LoopConnected(F, k)' <=> LoopConnected(F, k)
<1>1. F' = F /\ \A i : Traversal(i)' = Traversal(i)
  BY DEF F, Traversal
<1>2. \A b : Neighbours(b)' = Neighbours(b)
  BY DEF F, Neighbours
<1>3. \A i, j : Feeds(i, j)' <=> Feeds(i, j)
  BY <1>1, <1>2 DEF Feeds
<1>4. \A b : InitialProps(b)' = InitialProps(b)
  BY <1>1 DEF InitialProps, Vector, BlockType
<1>5. \A b, v : FromHeld(b, v)' = FromHeld(b, v)
  BY <1>4 DEF FromHeld, FlowSide, WithMeet
<1>6. (\A v : Apart(v)' = Apart(v)) /\ Vector(initCond)' = Vector(initCond)
  BY DEF Apart, Vector
<1>7. \A i, d : Source(i, d)' <=> Source(i, d)
  BY <1>1, <1>2, <1>4, <1>5, <1>6 DEF Source, MeetSide
<1>8. \A i, d : Passes(i, d)' <=> Passes(i, d)
  BY <1>1, <1>5, <1>6 DEF Passes
<1>9. \A w, l, j, k : Along(w, l, j, k)' <=> Along(w, l, j, k)
  BY <1>3 DEF Along
<1>10. \A m, j, k : Carried(m, j, k)' <=> Carried(m, j, k)
  BY <1>9 DEF Carried
<1>11. \A k : LoopConnected(F, k)' <=> LoopConnected(F, k)
  BY <1>1 DEF LoopConnected
<1>12. QED
  BY <1>1, <1>3, <1>6, <1>7, <1>8, <1>10, <1>11

\* What a visit does to a bit, position by position.
LEMMA VisitMoves ==
  ASSUME BitByBit, IInv, NInv, VisitBlock, NEW d \in input.domain
  PROVE  /\ pc = "sweep" /\ idx \in 1 .. Len(F.po) /\ iter \in Nat
         /\ Moved(d) \subseteq Moved(d)' /\ Moved(d)' \subseteq Moved(d) \cup {idx}
         /\ idx \in Moved(d)' <=>
              Source(idx, d) \/ (Passes(idx, d) /\ \E j \in Moved(d) : Feeds(j, idx))
         /\ idx \in Moved(d)' \ Moved(d) => Carried(Moved(d)', idx, iter)
<1>. DEFINE c == Traversal(idx)
<1>1. /\ pc = "sweep" /\ idx <= Len(F.po) /\ input' = input
      /\ result' = [result EXCEPT ![c] = Visit(c)]
  BY DEF VisitBlock
<1>2. /\ IsFunction(F) /\ Visited(F) \subseteq Blocks(F) /\ Len(F.po) \in Nat
      /\ idx \in 1 .. Len(F.po) /\ c \in Visited(F) /\ iter \in Nat
      /\ result \in [Blocks(F) -> Props(input.domain)]
      /\ \A i \in 1 .. Len(F.po) : /\ Traversal(i) \in Visited(F)
                                   /\ Traversal(i) = c => i = idx
  BY <1>1, TFacts, TraversalLemma DEF IInv, SInv
<1>3. /\ F' = F /\ (\A i : Traversal(i)' = Traversal(i)) /\ \A v : Apart(v)' = Apart(v)
  BY <1>1, SameGraph
<1>4. \A i \in 1 .. Len(F.po) : FlowSide(result[Traversal(i)])' =
        IF i = idx THEN FlowSide(Visit(c)) ELSE FlowSide(result[Traversal(i)])
  BY <1>1, <1>2, <1>3 DEF FlowSide
<1>5. Moved(d)' = {i \in 1 .. Len(F.po) : d \in Apart(FlowSide(result[Traversal(i)])')}
  BY <1>3 DEF Moved, Apart
<1>6. \A i \in 1 .. Len(F.po) : i # idx => (i \in Moved(d)' <=> i \in Moved(d))
  BY <1>4, <1>5 DEF Moved
<1>7. idx \in Moved(d)' <=> d \in Apart(FlowSide(Visit(c)))
  BY <1>2, <1>4, <1>5
<1>8. idx \in Moved(d) => idx \in Moved(d)'
  <2>1. Onward(FlowSide(result[c]), FlowSide(Visit(c)))
    BY <1>1, <1>2 DEF IInv, MovesTowardsSolutions
  <2>2. QED
    BY <1>7, <2>1 DEF Moved, Onward, Apart
<1>9. Moved(d) \subseteq Moved(d)' /\ Moved(d)' \subseteq Moved(d) \cup {idx}
  <2>1. Moved(d) \subseteq 1 .. Len(F.po) /\ Moved(d)' \subseteq 1 .. Len(F.po)
    BY <1>5 DEF Moved
  <2>2. QED
    BY <1>6, <1>8, <2>1
<1>10. idx \in Moved(d)' <=>
         Source(idx, d) \/ (Passes(idx, d) /\ \E j \in Moved(d) : Feeds(j, idx))
  BY <1>1, <1>2, <1>7, VisitBit DEF IInv
<1>11. ASSUME idx \in Moved(d)' \ Moved(d)
       PROVE  Carried(Moved(d)', idx, iter)
  <2>0. SourcesMove /\ LagIsExplained
    BY <1>1 DEF NInv, SweepsAreCounted
  <2>1. CASE Source(idx, d)
    <3>1. iter = 0
      BY <1>2, <1>11, <2>0, <2>1 DEF SourcesMove
    <3>2. QED
      BY <1>11, <3>1, CarriedStart
  <2>2. CASE Passes(idx, d) /\ \E j \in Moved(d) : Feeds(j, idx)
    <3>1. PICK j \in Moved(d) : Feeds(j, idx)
      BY <2>2
    <3>2. j \in 1 .. Len(F.po) /\ Moved(d)' = Moved(d) \cup {idx}
      BY <1>9, <1>11 DEF Moved
    <3>3. idx \in (1 .. Len(F.po)) \ Moved(d)
      BY <1>2, <1>11
    <3>4. CASE j < idx
      <4>1. Carried(Moved(d), j, iter)
        BY <2>0, <2>2, <3>1, <3>3, <3>4 DEF LagIsExplained
      <4>2. iter \in {iter, iter + 1} /\ iter # iter + 1
        BY <1>2
      <4>3. Carried(Moved(d) \cup {idx}, idx, iter)
        BY <1>2, <1>11, <3>1, <4>1, <4>2, CarriedOn
      <4>4. QED
        BY <3>2, <4>3
    <3>5. CASE ~ (j < idx)
      <4>1. j >= idx
        BY <1>2, <3>2, <3>5
      <4>2. iter > 0 /\ Carried(Moved(d), j, iter - 1)
        BY <2>0, <2>2, <3>1, <3>3, <4>1 DEF LagIsExplained
      <4>3. iter - 1 \in Nat /\ iter \in {iter - 1, iter - 1 + 1} /\ idx <= j
        BY <1>2, <3>2, <4>1, <4>2
      <4>4. Carried(Moved(d) \cup {idx}, idx, iter)
        BY <1>11, <3>1, <4>2, <4>3, CarriedOn
      <4>5. QED
        BY <3>2, <4>4
    <3>6. QED
      BY <3>4, <3>5
  <2>3. QED
    BY <1>10, <1>11, <2>1, <2>2
<1>12. QED
  BY <1>1, <1>2, <1>9, <1>10, <1>11

LEMMA NVisitBlock == BitByBit /\ IInv /\ NInv /\ VisitBlock => NInv'
<1>. SUFFICES ASSUME BitByBit, IInv, NInv, VisitBlock PROVE NInv'
  OBVIOUS
<1>. DEFINE c == Traversal(idx)
<1>1. /\ pc = "sweep" /\ pc' = pc /\ input' = input /\ idx' = idx + 1 /\ iter' = iter
      /\ idx <= Len(F.po)
      /\ result' = [result EXCEPT ![c] = Visit(c)]
      /\ prev' = [x \in DOMAIN prev \cup {c} |->
                    IF x = c THEN FlowSide(result[c]) ELSE prev[x]]
  BY DEF VisitBlock
<1>2. /\ IsFunction(F) /\ Visited(F) \subseteq Blocks(F) /\ Len(F.po) \in Nat
      /\ idx \in 1 .. Len(F.po) /\ c \in Visited(F) /\ iter \in Nat
      /\ result \in [Blocks(F) -> Props(input.domain)]
      /\ \A k \in 1 .. idx - 1 : Traversal(k) \in DOMAIN prev
      /\ \A i \in 1 .. Len(F.po) : /\ Traversal(i) \in Visited(F)
                                   /\ Traversal(i) = c => i = idx
  BY <1>1, TFacts, TraversalLemma DEF IInv, SInv
<1>3. /\ F' = F /\ (\A i : Traversal(i)' = Traversal(i)) /\ (\A v : Apart(v)' = Apart(v))
      /\ \A i, j : Feeds(i, j)' <=> Feeds(i, j)
      /\ \A i, d : Source(i, d)' <=> Source(i, d)
      /\ \A i, d : Passes(i, d)' <=> Passes(i, d)
      /\ \A m, j, k : Carried(m, j, k)' <=> Carried(m, j, k)
      /\ \A k : LoopConnected(F, k)' <=> LoopConnected(F, k)
  BY <1>1, SameGraph
<1>4. SourcesMove /\ SavedStay /\ MovedAreCarried /\ LagIsExplained
  BY <1>1 DEF NInv, SweepsAreCounted
<1>5. \A d \in input.domain :
        /\ Moved(d) \subseteq Moved(d)' /\ Moved(d)' \subseteq Moved(d) \cup {idx}
        /\ Moved(d) \subseteq 1 .. Len(F.po)
        /\ idx \in Moved(d)' <=>
             Source(idx, d) \/ (Passes(idx, d) /\ \E j \in Moved(d) : Feeds(j, idx))
        /\ idx \in Moved(d)' \ Moved(d) => Carried(Moved(d)', idx, iter)
  BY VisitMoves DEF Moved
<1>6. ASSUME NEW d \in input.domain, NEW j, NEW k \in Nat, Carried(Moved(d), j, k)
      PROVE  Carried(Moved(d)', j, k)
  <2>1. k \in 0 .. k
    OBVIOUS
  <2>2. QED
    BY <1>5, <1>6, <2>1, CarriedStays
<1>7. ASSUME NEW d \in input.domain, NEW i \in 1 .. Len(F.po),
             Source(i, d), iter > 0 \/ i < idx'
      PROVE  i \in Moved(d)'
  <2>1. CASE i = idx
    BY <1>5, <1>7, <2>1
  <2>2. CASE i # idx
    <3>1. iter > 0 \/ i < idx
      BY <1>1, <1>2, <1>7, <2>2
    <3>2. i \in Moved(d)
      BY <1>4, <1>7, <3>1 DEF SourcesMove
    <3>3. QED
      BY <1>5, <3>2
  <2>3. QED
    BY <2>1, <2>2
<1>8. ASSUME NEW i \in 1 .. idx' - 1
      PROVE  /\ Apart(prev'[Traversal(i)]) \subseteq Apart(FlowSide(result[Traversal(i)])')
             /\ i = idx => prev'[Traversal(i)] = FlowSide(result[c])
             /\ i # idx => i \in 1 .. idx - 1 /\ prev'[Traversal(i)] = prev[Traversal(i)]
  <2>1. CASE i = idx
    <3>1. FlowSide(result[Traversal(i)])' = FlowSide(Visit(c))
      BY <1>1, <1>2, <1>3, <2>1 DEF FlowSide
    <3>2. Onward(FlowSide(result[c]), FlowSide(Visit(c)))
      BY <1>1, <1>2 DEF IInv, MovesTowardsSolutions
    <3>3. Traversal(i) = c /\ prev'[c] = FlowSide(result[c])
      BY <1>1, <2>1
    <3>4. Apart(prev'[Traversal(i)]) \subseteq Apart(FlowSide(result[Traversal(i)])')
      BY <3>1, <3>2, <3>3 DEF Onward, Apart
    <3>5. QED
      BY <2>1, <3>3, <3>4
  <2>2. CASE i # idx
    <3>1. i \in 1 .. idx - 1 /\ i \in 1 .. Len(F.po)
      BY <1>1, <1>2, <2>2
    <3>2. Traversal(i) # c /\ Traversal(i) \in DOMAIN prev
      BY <1>2, <2>2, <3>1
    <3>3. prev'[Traversal(i)] = prev[Traversal(i)] /\ result'[Traversal(i)] = result[Traversal(i)]
      BY <1>1, <1>2, <3>1, <3>2
    <3>4. FlowSide(result[Traversal(i)])' = FlowSide(result[Traversal(i)])
      BY <1>3, <3>3 DEF FlowSide
    <3>5. QED
      BY <1>4, <2>2, <3>1, <3>3, <3>4 DEF SavedStay
  <2>3. QED
    BY <2>1, <2>2
<1>9. ASSUME NEW d \in input.domain, NEW i \in 1 .. idx' - 1,
             i \in Moved(d)', d \notin Apart(prev'[Traversal(i)])
      PROVE  Carried(Moved(d)', i, iter)
  <2>1. CASE i = idx
    <3>1. idx \notin Moved(d)
      BY <1>8, <1>9, <2>1 DEF Moved
    <3>2. QED
      BY <1>5, <1>9, <2>1, <3>1
  <2>2. CASE i # idx
    <3>1. i \in 1 .. idx - 1 /\ i \in Moved(d) /\ d \notin Apart(prev[Traversal(i)])
      BY <1>5, <1>8, <1>9, <2>2
    <3>2. Carried(Moved(d), i, iter)
      BY <1>4, <3>1 DEF MovedAreCarried
    <3>3. QED
      BY <1>2, <1>6, <3>2
  <2>3. QED
    BY <2>1, <2>2
<1>10. ASSUME NEW d \in input.domain, NEW i \in (1 .. Len(F.po)) \ Moved(d)',
              NEW j \in Moved(d)', Passes(i, d), Feeds(j, i)
       PROVE  /\ j < idx' => Carried(Moved(d)', j, iter)
              /\ j >= idx' => iter > 0 /\ Carried(Moved(d)', j, iter - 1)
              /\ (i < idx' \/ j >= idx') => i <= j
              /\ i < idx' => j < idx'
  <2>0. j \in 1 .. Len(F.po) /\ i \in (1 .. Len(F.po)) \ Moved(d)
    BY <1>2, <1>5
  <2>1. i # idx
    <3>1. SUFFICES ASSUME i = idx PROVE FALSE
      OBVIOUS
    <3>2. j \in Moved(d)
      BY <1>5, <1>10, <3>1
    <3>3. QED
      BY <1>5, <1>10, <3>1, <3>2
  <2>2. CASE j \in Moved(d)
    <3>1. /\ j < idx => Carried(Moved(d), j, iter)
          /\ j >= idx => iter > 0 /\ Carried(Moved(d), j, iter - 1)
          /\ (i < idx \/ j >= idx) => i <= j
          /\ i < idx => j < idx
      BY <1>4, <1>10, <2>0, <2>2 DEF LagIsExplained
    <3>2. j # idx
      BY <1>2, <2>0, <2>1, <3>1
    <3>3. /\ j < idx' <=> j < idx
          /\ j >= idx' <=> j >= idx
          /\ i < idx' <=> i < idx
      BY <1>1, <1>2, <2>0, <2>1, <3>2
    <3>4. iter > 0 => iter - 1 \in Nat
      BY <1>2
    <3>5. QED
      BY <1>2, <1>6, <3>1, <3>3, <3>4
  <2>3. CASE j \notin Moved(d)
    <3>1. j = idx
      BY <1>5, <1>10, <2>3
    <3>2. Carried(Moved(d)', j, iter)
      BY <1>5, <1>10, <2>3, <3>1
    <3>3. /\ j < idx' /\ ~ (j >= idx')
          /\ i < idx' => i <= j
      BY <1>1, <1>2, <2>0, <2>1, <3>1
    <3>4. QED
      BY <3>2, <3>3
  <2>4. QED
    BY <2>2, <2>3
<1>11. SourcesMove'
  BY <1>1, <1>3, <1>7 DEF SourcesMove
<1>12. SavedStay'
  BY <1>3, <1>8 DEF SavedStay, Apart
<1>13. MovedAreCarried'
  BY <1>1, <1>3, <1>9 DEF MovedAreCarried, Apart
<1>14. LagIsExplained'
  BY <1>1, <1>3, <1>10 DEF LagIsExplained
<1>15. iter' > 0 => LoopConnected(F, iter - 1)'
  BY <1>1, <1>3 DEF NInv, SweepsAreCounted
<1>16. QED
  BY <1>1, <1>11, <1>12, <1>13, <1>14, <1>15 DEF NInv, SweepsAreCounted, SettlesByNesting, CutAtCap

LEMMA NEndSweep == BitByBit /\ IInv /\ NInv /\ EndSweep => NInv'
<1>. SUFFICES ASSUME IInv, NInv, EndSweep PROVE NInv'
  OBVIOUS
<1>1. /\ pc = "sweep" /\ idx > Len(F.po) /\ input' = input /\ result' = result /\ prev' = prev
      /\ idx' = 1 /\ iter' = iter + 1 /\ converged' = Unchanged
      /\ pc' = IF converged' \/ iter' = MaxSweeps THEN "done" ELSE "sweep"
  BY DEF EndSweep
<1>2. /\ IsFunction(F) /\ Visited(F) \subseteq Blocks(F) /\ Len(F.po) \in Nat /\ iter \in Nat
      /\ idx = Len(F.po) + 1
      /\ result \in [Blocks(F) -> Props(input.domain)]
      /\ DOMAIN prev \subseteq Visited(F)
      /\ \A x \in DOMAIN prev : prev[x] \in SUBSET input.domain
  BY <1>1, TFacts, TraversalLemma DEF IInv, SInv
<1>3. /\ F' = F /\ (\A i : Traversal(i)' = Traversal(i)) /\ (\A v : Apart(v)' = Apart(v))
      /\ \A i, j : Feeds(i, j)' <=> Feeds(i, j)
      /\ \A i, d : Source(i, d)' <=> Source(i, d)
      /\ \A i, d : Passes(i, d)' <=> Passes(i, d)
      /\ \A m, j, k : Carried(m, j, k)' <=> Carried(m, j, k)
      /\ \A k : LoopConnected(F, k)' <=> LoopConnected(F, k)
  BY <1>1, SameGraph
<1>4. /\ SourcesMove /\ SavedStay /\ MovedAreCarried /\ LagIsExplained
      /\ iter > 0 => LoopConnected(F, iter - 1)
  BY <1>1 DEF NInv, SweepsAreCounted
<1>5. \A d : Moved(d)' = Moved(d) /\ Moved(d) \subseteq 1 .. Len(F.po)
  BY <1>1, <1>3 DEF Moved, FlowSide
<1>6. SourcesMove'
  BY <1>1, <1>2, <1>3, <1>4, <1>5 DEF SourcesMove
<1>7. SavedStay' /\ MovedAreCarried'
  BY <1>1 DEF SavedStay, MovedAreCarried
<1>8. LagIsExplained'
  <2>1. ASSUME NEW d \in input.domain, NEW i \in (1 .. Len(F.po)) \ Moved(d),
               NEW j \in Moved(d), Passes(i, d), Feeds(j, i)
        PROVE  Carried(Moved(d), j, iter) /\ i <= j /\ ~ (i < 1) /\ ~ (j < 1)
    <3>1. i < idx /\ j < idx /\ i \in 1 .. Len(F.po) /\ j \in 1 .. Len(F.po)
      BY <1>2, <1>5
    <3>2. QED
      BY <1>4, <2>1, <3>1 DEF LagIsExplained
  <2>2. iter' - 1 = iter /\ iter' > 0
    BY <1>1, <1>2
  <2>3. QED
    BY <1>1, <1>3, <1>5, <2>1, <2>2 DEF LagIsExplained
<1>9. ASSUME ~ converged' PROVE LoopConnected(F, iter)
  <2>1. PICK b \in DOMAIN prev : FlowSide(result[b]) # prev[b]
    BY <1>1, <1>9 DEF Unchanged
  <2>2. PICK i \in 1 .. Len(F.po) : Traversal(i) = b
    BY <1>2, TraversalLemma
  <2>3. i \in 1 .. idx - 1
    BY <1>2
  <2>4. /\ FlowSide(result[b]) \in SUBSET input.domain
        /\ prev[b] \in SUBSET input.domain
        /\ Apart(prev[b]) \subseteq Apart(FlowSide(result[b]))
    BY <1>2, <1>4, <2>2, <2>3, SidesLemma DEF SavedStay
  <2>5. PICK d \in input.domain : d \in Apart(FlowSide(result[b])) /\ d \notin Apart(prev[b])
    BY <2>1, <2>4 DEF Apart
  <2>6. Carried(Moved(d), i, iter)
    BY <1>4, <2>2, <2>3, <2>5 DEF MovedAreCarried, Moved
  <2>7. QED
    BY <1>2, <1>5, <2>6, CarriedConnects
<1>10. iter' > 1 => iter > 0 /\ iter' - 2 = iter - 1
  BY <1>1, <1>2
<1>11. iter' - 1 = iter
  BY <1>1, <1>2
<1>12. SettlesByNesting'
  BY <1>3, <1>4, <1>9, <1>10, <1>11 DEF SettlesByNesting
<1>13. SweepsAreCounted'
  BY <1>1, <1>3, <1>6, <1>7, <1>8, <1>9, <1>11 DEF SweepsAreCounted
<1>14. CutAtCap'
  BY <1>1 DEF CutAtCap
<1>15. QED
  BY <1>12, <1>13, <1>14 DEF NInv

LEMMA NInitialize == IInv /\ Initialize => NInv'
<1>. SUFFICES ASSUME IInv, Initialize, pc' = "sweep" PROVE NInv'
  BY DEF Initialize, NInv, SweepsAreCounted, SettlesByNesting, CutAtCap
<1>1. idx' = 1 /\ iter' = 0
  BY DEF Initialize, IInv, SInv, TInv, TypeOK
<1>2. /\ input' = input /\ F' = F
      /\ \A b \in Blocks(F) : /\ result'[b] = InitialProps(b)
                              /\ FlowSide(InitialProps(b)) = Vector(initCond)
  BY FreshObject DEF IInv
<1>3. IsFunction(F) /\ Len(F.po) \in Nat /\ Visited(F) \subseteq Blocks(F)
  BY TFacts, TraversalLemma DEF IInv, SInv, Initialize
<1>4. \A i \in 1 .. Len(F.po) : FlowSide(result[Traversal(i)])' = Vector(initCond)
  BY <1>2, <1>3, TraversalLemma DEF FlowSide, Traversal
<1>5. \A d : Moved(d)' = {}
  BY <1>2, <1>4 DEF Moved, Apart, Vector
<1>6. SourcesMove' /\ SavedStay' /\ MovedAreCarried'
  BY <1>1, <1>2, <1>3 DEF SourcesMove, SavedStay, MovedAreCarried
<1>7. LagIsExplained'
  BY <1>5 DEF LagIsExplained
<1>8. QED
  BY <1>1, <1>6, <1>7 DEF NInv, SweepsAreCounted, SettlesByNesting, CutAtCap

LEMMA NStutter == NInv /\ UNCHANGED vars => NInv'
<1>. SUFFICES ASSUME NInv, UNCHANGED vars PROVE NInv'
  OBVIOUS
<1>1. /\ input' = input /\ result' = result /\ prev' = prev /\ idx' = idx
      /\ iter' = iter /\ converged' = converged /\ pc' = pc
  BY DEF vars
<1>2. /\ F' = F /\ (\A i : Traversal(i)' = Traversal(i)) /\ (\A v : Apart(v)' = Apart(v))
      /\ \A i, j : Feeds(i, j)' <=> Feeds(i, j)
      /\ \A i, d : Source(i, d)' <=> Source(i, d)
      /\ \A i, d : Passes(i, d)' <=> Passes(i, d)
      /\ \A m, j, k : Carried(m, j, k)' <=> Carried(m, j, k)
      /\ \A k : LoopConnected(F, k)' <=> LoopConnected(F, k)
  BY <1>1, SameGraph
<1>3. \A d : Moved(d)' = Moved(d)
  BY <1>1, <1>2 DEF Moved, FlowSide
<1>4. SourcesMove' <=> SourcesMove
  BY <1>1, <1>2, <1>3 DEF SourcesMove
<1>5. SavedStay' <=> SavedStay
  BY <1>1, <1>2 DEF SavedStay, FlowSide
<1>6. MovedAreCarried' <=> MovedAreCarried
  BY <1>1, <1>2, <1>3 DEF MovedAreCarried
<1>7. LagIsExplained' <=> LagIsExplained
  BY <1>1, <1>2, <1>3 DEF LagIsExplained
<1>8. QED
  BY <1>1, <1>2, <1>4, <1>5, <1>6, <1>7 DEF NInv, SweepsAreCounted, SettlesByNesting, CutAtCap

LEMMA NIdle == pc' \notin {"sweep", "done"} => NInv'
  BY DEF NInv, SweepsAreCounted, SettlesByNesting, CutAtCap

\* One step of run() or of its client.
LEMMA NNext == BitByBit /\ IInv /\ NInv /\ [Next]_vars => NInv'
<1>. SUFFICES ASSUME BitByBit, IInv, NInv, [Next]_vars PROVE NInv'
  OBVIOUS
<1>1. CASE Run
  BY <1>1, NInitialize, NVisitBlock, NEndSweep DEF Run
<1>2. CASE Discard
  BY <1>2, NIdle DEF Discard
<1>3. ASSUME NEW in \in Inputs, Construct(in) PROVE NInv'
  BY <1>3, NIdle DEF Construct
<1>4. CASE UNCHANGED vars
  BY <1>4, NStutter
<1>5. QED
  BY <1>1, <1>2, <1>3, <1>4 DEF Next

(***************************************************************************)
(* The sweeps a run takes are bounded by how its loops are nested, for     *)
(* every monotone subclass whose bits are independent: after a sweep that  *)
(* still changed something, the function has a path with as many edges     *)
(* against the order as sweeps came before it (dataflow.cpp:119-184).      *)
(***************************************************************************)
THEOREM Nesting ==
  ASSUME BitByBit
  PROVE  Spec => []SettlesByNesting
<1>1. Init => NInv
  BY DEF Init, NInv, SweepsAreCounted, SettlesByNesting, CutAtCap
<1>2. IInv /\ NInv /\ [Next]_vars => NInv'
  BY NNext
<1>3. NInv => SettlesByNesting
  BY DEF NInv
<1>4. QED
  BY <1>1, <1>2, <1>3, Inductive, PTL DEF Spec
=============================================================================
