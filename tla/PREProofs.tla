------------------------------ MODULE PREProofs ------------------------------
(***************************************************************************)
(* Theorems about partial redundancy elimination: which functions get      *)
(* through the analyses, that without loops insertions are down-safe and   *)
(* occurrences are supplied, and what the topological sort does.           *)
(***************************************************************************)
EXTENDS PRE, DominanceProofs

-----------------------------------------------------------------------------
(***************************************************************************)
(* Lemmas about sequences and sets.                                        *)
(***************************************************************************)
LEMMA ToSetLemma ==
  ASSUME NEW S, NEW s \in Seq(S)
  PROVE  /\ ToSet(s) = {s[k] : k \in 1 .. Len(s)}
         /\ ToSet(s) \subseteq S
  BY DEF ToSet

\* The first of a queue leaves it.
LEMMA TailLemma ==
  ASSUME NEW S, NEW q \in Seq(S), q # << >>, IsInjective(q)
  PROVE  /\ Head(q) \in S /\ Head(q) \in ToSet(q)
         /\ Tail(q) \in Seq(S) /\ IsInjective(Tail(q))
         /\ ToSet(Tail(q)) = ToSet(q) \ {Head(q)}
<1>1. /\ Len(q) \in Nat \ {0} /\ Head(q) = q[1] /\ Tail(q) \in Seq(S)
      /\ Len(Tail(q)) = Len(q) - 1
      /\ \A k \in 1 .. Len(q) - 1 : Tail(q)[k] = q[k + 1]
  OBVIOUS
<1>2. DOMAIN q = 1 .. Len(q) /\ DOMAIN Tail(q) = 1 .. Len(q) - 1
  BY <1>1
<1>3. \A i, j \in 1 .. Len(q) : q[i] = q[j] => i = j
  BY <1>2 DEF IsInjective
<1>4. IsInjective(Tail(q))
  BY <1>1, <1>2, <1>3 DEF IsInjective
<1>5. ToSet(q) = {q[k] : k \in 1 .. Len(q)}
  BY ToSetLemma
<1>6. ToSet(Tail(q)) = {Tail(q)[k] : k \in 1 .. Len(q) - 1}
  BY <1>1, ToSetLemma
<1>7. ASSUME NEW x \in ToSet(Tail(q)) PROVE x \in ToSet(q) \ {q[1]}
  <2>1. PICK k \in 1 .. Len(q) - 1 : Tail(q)[k] = x
    BY <1>6
  <2>2. k + 1 \in 1 .. Len(q) /\ k + 1 # 1 /\ 1 \in 1 .. Len(q)
    BY <1>1
  <2>3. x = q[k + 1]
    BY <1>1, <2>1
  <2>4. QED
    BY <1>3, <1>5, <2>2, <2>3
<1>8. ASSUME NEW x \in ToSet(q) \ {q[1]} PROVE x \in ToSet(Tail(q))
  <2>1. PICK k \in 1 .. Len(q) : q[k] = x
    BY <1>5
  <2>2. k # 1
    BY <2>1
  <2>3. k - 1 \in 1 .. Len(q) - 1 /\ (k - 1) + 1 = k
    BY <1>1, <2>2
  <2>4. Tail(q)[k - 1] = x
    BY <1>1, <2>1, <2>3
  <2>5. QED
    BY <1>6, <2>3, <2>4
<1>9. QED
  BY <1>1, <1>4, <1>5, <1>7, <1>8

\* Two queues without a common block make one.
LEMMA ConcatenationLemma ==
  ASSUME NEW S, NEW q \in Seq(S), NEW r \in Seq(S), IsInjective(q), IsInjective(r),
         ToSet(q) \cap ToSet(r) = {}
  PROVE  /\ q \o r \in Seq(S) /\ IsInjective(q \o r)
         /\ ToSet(q \o r) = ToSet(q) \cup ToSet(r)
<1>. DEFINE m == Len(q)
            n == Len(r)
<1>1. /\ m \in Nat /\ n \in Nat /\ q \o r \in Seq(S) /\ Len(q \o r) = m + n
      /\ \A k \in 1 .. m + n : (q \o r)[k] = IF k <= m THEN q[k] ELSE r[k - m]
  OBVIOUS
<1>2. DOMAIN q = 1 .. m /\ DOMAIN r = 1 .. n /\ DOMAIN (q \o r) = 1 .. m + n
  BY <1>1
<1>3. /\ \A i, j \in 1 .. m : q[i] = q[j] => i = j
      /\ \A i, j \in 1 .. n : r[i] = r[j] => i = j
  BY <1>2 DEF IsInjective
<1>4. ToSet(q) = {q[k] : k \in 1 .. m} /\ ToSet(r) = {r[k] : k \in 1 .. n}
  BY ToSetLemma
<1>5. ToSet(q \o r) = {(q \o r)[k] : k \in 1 .. m + n}
  BY <1>1, ToSetLemma
<1>6. \A k \in 1 .. m + n : k > m => k - m \in 1 .. n
  BY <1>1
<1>. HIDE DEF m, n
<1>7. \A i \in 1 .. m, j \in 1 .. n : q[i] # r[j]
  BY <1>4
<1>8. ASSUME NEW i \in 1 .. m + n, NEW j \in 1 .. m + n, (q \o r)[i] = (q \o r)[j]
      PROVE  i = j
  <2>1. CASE i <= m /\ j <= m
    BY <1>1, <1>3, <1>8, <2>1
  <2>2. CASE i > m /\ j > m
    <3>1. r[i - m] = r[j - m]
      BY <1>1, <1>8, <2>2
    <3>2. i - m = j - m
      BY <1>3, <1>6, <2>2, <3>1
    <3>3. QED
      BY <1>1, <3>2
  <2>3. CASE i <= m /\ j > m
    <3>1. i \in 1 .. m /\ j - m \in 1 .. n
      BY <1>1, <1>6, <2>3
    <3>2. q[i] = r[j - m]
      BY <1>1, <1>8, <2>3
    <3>3. QED
      BY <1>7, <3>1, <3>2
  <2>4. CASE i > m /\ j <= m
    <3>1. j \in 1 .. m /\ i - m \in 1 .. n
      BY <1>1, <1>6, <2>4
    <3>2. q[j] = r[i - m]
      BY <1>1, <1>8, <2>4
    <3>3. QED
      BY <1>7, <3>1, <3>2
  <2>5. QED
    BY <1>1, <2>1, <2>2, <2>3, <2>4
<1>9. ToSet(q \o r) \subseteq ToSet(q) \cup ToSet(r)
  BY <1>1, <1>4, <1>5, <1>6
<1>10. ASSUME NEW x \in ToSet(q) PROVE x \in ToSet(q \o r)
  <2>1. PICK k \in 1 .. m : q[k] = x
    BY <1>4
  <2>2. k \in 1 .. m + n /\ k <= m
    BY <1>1
  <2>3. QED
    BY <1>1, <1>5, <2>1, <2>2
<1>11. ASSUME NEW x \in ToSet(r) PROVE x \in ToSet(q \o r)
  <2>1. PICK k \in 1 .. n : r[k] = x
    BY <1>4
  <2>2. k + m \in 1 .. m + n /\ (k + m) - m = k /\ ~ (k + m <= m)
    BY <1>1
  <2>3. (q \o r)[k + m] = x
    BY <1>1, <2>1, <2>2
  <2>4. QED
    BY <1>5, <2>2, <2>3
<1>12. QED
  BY <1>1, <1>2, <1>8, <1>9, <1>10, <1>11 DEF IsInjective

\* A list of a set names all of it.
LEMMA SetToSeqsLemma ==
  ASSUME NEW S, IsFiniteSet(S), NEW q \in SetToSeqs(S)
  PROVE  q \in Seq(S) /\ IsInjective(q) /\ ToSet(q) = S
<1>. DEFINE n == Cardinality(S)
<1>1. n \in Nat
  BY FS_CardinalityType
<1>2. q \in [1 .. n -> S] /\ \A i, j \in 1 .. n : i # j => q[i] # q[j]
  BY DEF SetToSeqs
<1>3. q \in Injection(1 .. n, S)
  BY <1>2 DEF Injection, IsInjective
<1>4. Cardinality(1 .. n) = n
  BY <1>1, FS_Interval
<1>5. q \in Surjection(1 .. n, S)
  BY <1>3, <1>4, FS_Injection
<1>6. S = {q[k] : k \in 1 .. n}
  BY <1>2, <1>5 DEF Surjection
<1>7. q \in Seq(S) /\ Len(q) = n
  BY <1>1, <1>2
<1>8. QED
  BY <1>3, <1>6, <1>7, ToSetLemma DEF Injection

\* An entry put at the end of a list.
LEMMA AppendLemma ==
  ASSUME NEW S, NEW s \in Seq(S), NEW e \in S
  PROVE  /\ Append(s, e) \in Seq(S) /\ Len(Append(s, e)) = Len(s) + 1
         /\ \A k \in DOMAIN Append(s, e) :
              IF k \in DOMAIN s THEN Append(s, e)[k] = s[k] ELSE Append(s, e)[k] = e
  OBVIOUS

-----------------------------------------------------------------------------
(***************************************************************************)
(* What gets through the analyses.  The first of them dereferences a null  *)
(* pointer when a block has no gen and kill sets, and populateInfoMap only *)
(* makes them for blocks that can be reached: whatever comes after it is   *)
(* about a function all of whose blocks can be.                            *)
(***************************************************************************)
Later == {"available", "postponable", "used", "insert", "replace", "end"}

ScopeInv ==
  /\ stage \in {"start", "anticipated"} \cup Later
  /\ stage = "start" => pc = "idle"
  /\ stage # "start" => IsFunction(fn)
  /\ pc # "idle" => input.fn = fn /\ DOMAIN input.infoMap = Visited(fn)
  /\ pc \in {"sweep", "done"} \/ stage \in Later => Blocks(fn) \subseteq Visited(fn)

LEMMA ScopeInit == Init => ScopeInv
  BY DEF Init, Anticipated!Init, ScopeInv, Later

LEMMA ScopeRunOnFunction ==
  ASSUME ScopeInv, NEW f \in Functions, RunOnFunction(f)
  PROVE  ScopeInv'
<1>1. /\ stage = "start" /\ stage' = "anticipated" /\ pc = "idle" /\ pc' = "idle"
      /\ fn' = Preprocessed(f)
  BY DEF RunOnFunction, ScopeInv, dfaVars
<1>2. IsFunction(fn')
  BY <1>1, SplittingAssumption
<1>3. QED
  BY <1>1, <1>2 DEF ScopeInv, Later

LEMMA ScopeConstruct == ScopeInv /\ ConstructAnalysis => ScopeInv'
<1>. SUFFICES ASSUME ScopeInv, ConstructAnalysis PROVE ScopeInv'
  OBVIOUS
<1>1. /\ pc = "idle" /\ pc' = "initialize" /\ fn' = fn /\ stage' = stage /\ stage # "start"
      /\ input' = [fn |-> fn, domain |-> DOMAIN domain, infoMap |-> InfoMap,
                   member |-> [b \in Blocks(fn) |-> Member(b)]]
  BY DEF ConstructAnalysis, Anticipated!Construct
<1>2. input'.fn = fn /\ input'.infoMap = InfoMap
  BY <1>1
<1>3. DOMAIN input'.infoMap = Visited(fn)
  BY <1>2 DEF InfoMap
<1>4. QED
  BY <1>1, <1>2, <1>3 DEF ScopeInv

\* A step of an analysis, whichever it is.
RunStep ==
  /\ pc \in {"initialize", "sweep"} /\ pc' # "idle" /\ input' = input
  /\ pc = "initialize" /\ pc' # "crashed" => Blocks(input.fn) \subseteq DOMAIN input.infoMap

LEMMA AnticipatedSteps == Anticipated!Run => RunStep
<1>1. Anticipated!Initialize => RunStep
  BY DEF Anticipated!Initialize, Anticipated!F, Anticipated!Blocks, Blocks, RunStep
<1>2. Anticipated!VisitBlock => RunStep
  <2>1. Anticipated!VisitBlock => pc = "sweep" /\ pc' = pc /\ input' = input
    BY DEF Anticipated!VisitBlock
  <2>2. QED
    BY <2>1 DEF RunStep
<1>3. Anticipated!EndSweep => RunStep
  <2>1. Anticipated!EndSweep => pc = "sweep" /\ pc' \in {"done", "sweep"} /\ input' = input
    BY DEF Anticipated!EndSweep
  <2>2. QED
    BY <2>1 DEF RunStep
<1>4. QED
  BY <1>1, <1>2, <1>3 DEF Anticipated!Run

LEMMA WillBeAvailableSteps == WillBeAvailable!Run => RunStep
<1>1. WillBeAvailable!Initialize => RunStep
  BY DEF WillBeAvailable!Initialize, WillBeAvailable!F, WillBeAvailable!Blocks, Blocks, RunStep
<1>2. WillBeAvailable!VisitBlock => RunStep
  <2>1. WillBeAvailable!VisitBlock => pc = "sweep" /\ pc' = pc /\ input' = input
    BY DEF WillBeAvailable!VisitBlock
  <2>2. QED
    BY <2>1 DEF RunStep
<1>3. WillBeAvailable!EndSweep => RunStep
  <2>1. WillBeAvailable!EndSweep => pc = "sweep" /\ pc' \in {"done", "sweep"} /\ input' = input
    BY DEF WillBeAvailable!EndSweep
  <2>2. QED
    BY <2>1 DEF RunStep
<1>4. QED
  BY <1>1, <1>2, <1>3 DEF WillBeAvailable!Run

LEMMA PostponableSteps == Postponable!Run => RunStep
<1>1. Postponable!Initialize => RunStep
  BY DEF Postponable!Initialize, Postponable!F, Postponable!Blocks, Blocks, RunStep
<1>2. Postponable!VisitBlock => RunStep
  <2>1. Postponable!VisitBlock => pc = "sweep" /\ pc' = pc /\ input' = input
    BY DEF Postponable!VisitBlock
  <2>2. QED
    BY <2>1 DEF RunStep
<1>3. Postponable!EndSweep => RunStep
  <2>1. Postponable!EndSweep => pc = "sweep" /\ pc' \in {"done", "sweep"} /\ input' = input
    BY DEF Postponable!EndSweep
  <2>2. QED
    BY <2>1 DEF RunStep
<1>4. QED
  BY <1>1, <1>2, <1>3 DEF Postponable!Run

LEMMA UsedSteps == Used!Run => RunStep
<1>1. Used!Initialize => RunStep
  BY DEF Used!Initialize, Used!F, Used!Blocks, Blocks, RunStep
<1>2. Used!VisitBlock => RunStep
  <2>1. Used!VisitBlock => pc = "sweep" /\ pc' = pc /\ input' = input
    BY DEF Used!VisitBlock
  <2>2. QED
    BY <2>1 DEF RunStep
<1>3. Used!EndSweep => RunStep
  <2>1. Used!EndSweep => pc = "sweep" /\ pc' \in {"done", "sweep"} /\ input' = input
    BY DEF Used!EndSweep
  <2>2. QED
    BY <2>1 DEF RunStep
<1>4. QED
  BY <1>1, <1>2, <1>3 DEF Used!Run

LEMMA AnalyseSteps ==
  ASSUME Analyse
  PROVE  /\ stage \in {"anticipated", "available", "postponable", "used"}
         /\ UNCHANGED <<fn, stage, domain, vectors, ir, sort>>
         /\ RunStep
  BY AnticipatedSteps, WillBeAvailableSteps, PostponableSteps, UsedSteps DEF Analyse

LEMMA ScopeAnalyse == ScopeInv /\ Analyse => ScopeInv'
<1>. SUFFICES ASSUME ScopeInv, Analyse PROVE ScopeInv'
  OBVIOUS
<1>1. /\ fn' = fn /\ stage' = stage /\ input' = input /\ stage # "start"
      /\ pc \in {"initialize", "sweep"} /\ pc' # "idle"
      /\ pc = "initialize" /\ pc' # "crashed" => Blocks(input.fn) \subseteq DOMAIN input.infoMap
  BY AnalyseSteps DEF RunStep
<1>2. input.fn = fn /\ DOMAIN input.infoMap = Visited(fn)
  BY <1>1 DEF ScopeInv
<1>3. pc' \in {"sweep", "done"} => Blocks(fn) \subseteq Visited(fn)
  BY <1>1, <1>2 DEF ScopeInv
<1>4. QED
  BY <1>1, <1>2, <1>3 DEF ScopeInv

\* The end of an analysis, whichever it is.
LEMMA LeaveSteps ==
  ASSUME GetAnticipated \/ GetEarliest \/ GetLatest \/ GetPoints
  PROVE  /\ stage \in {"anticipated", "available", "postponable", "used"}
         /\ stage' \in {"available", "postponable", "used", "insert"}
         /\ pc = "done" /\ pc' = "idle"
         /\ UNCHANGED <<fn, domain, ir, sort>>
  BY DEF GetAnticipated, GetEarliest, GetLatest, GetPoints, Leave, Anticipated!Discard

LEMMA ScopeLeave ==
  ASSUME ScopeInv, GetAnticipated \/ GetEarliest \/ GetLatest \/ GetPoints
  PROVE  ScopeInv'
<1>1. /\ stage' \in {"available", "postponable", "used", "insert"}
      /\ pc = "done" /\ pc' = "idle" /\ fn' = fn
      /\ stage \in {"anticipated", "available", "postponable", "used"}
  BY LeaveSteps
<1>2. Blocks(fn) \subseteq Visited(fn) /\ IsFunction(fn)
  BY <1>1 DEF ScopeInv
<1>3. QED
  BY <1>1, <1>2 DEF ScopeInv, Later

LEMMA ScopeMotion == ScopeInv /\ LazyCodeMotion => ScopeInv'
<1>. SUFFICES ASSUME ScopeInv, LazyCodeMotion PROVE ScopeInv'
  OBVIOUS
<1>1. /\ UNCHANGED <<fn, input, pc>>
      /\ stage \in {"insert", "replace"} /\ stage' \in {"replace", "end"}
  BY DEF LazyCodeMotion, InsertOCP, VisitBlock, Return, dfaVars
<1>2. QED
  BY <1>1 DEF ScopeInv, Later

LEMMA ScopeNext == ScopeInv /\ [Next]_vars => ScopeInv'
<1>. SUFFICES ASSUME ScopeInv, [Next]_vars PROVE ScopeInv'
  OBVIOUS
<1>1. CASE Pass
  BY <1>1, ScopeConstruct, ScopeAnalyse, ScopeLeave, ScopeMotion DEF Pass
<1>2. CASE \E f \in Functions : RunOnFunction(f)
  BY <1>2, ScopeRunOnFunction
<1>3. CASE UNCHANGED vars
  BY <1>3 DEF vars, dfaVars, ScopeInv
<1>4. QED
  BY <1>1, <1>2, <1>3 DEF Next

-----------------------------------------------------------------------------
(***************************************************************************)
(* The topological sort.  It keeps no record of the blocks it has been at: *)
(* they are those that wait for nobody and are not queued.  An in-degree   *)
(* counts the predecessors it has not been at, and a block has been told   *)
(* of a definition at most once by each of the others.                     *)
(***************************************************************************)
Sorted == {b \in Blocks(fn) : inDeg[b] = 0} \ ToSet(Q)

Told(b) == Predecessors(fn, b) \cap Sorted
Awaited(b) == Predecessors(fn, b) \ Sorted

QueueOK ==
  /\ Q \in Seq(Blocks(fn)) /\ IsInjective(Q)
  /\ \A b \in ToSet(Q) : inDeg[b] = 0

DegreesOK == inDeg = [b \in Blocks(fn) |-> Cardinality(Awaited(b))]

ListsOK(s, b) ==
  \A i \in DOMAIN domain :
    /\ s[i] \in Seq(ToSet(s[i]))
    /\ Len(s[i]) <= Cardinality(Told(b))
    /\ \A k \in DOMAIN s[i] : s[i][k][2] \in Told(b)

StateOK == \A b \in Blocks(fn) : ListsOK(state[b], b)

SortInv == stage \in {"replace", "end"} => QueueOK /\ DegreesOK /\ StateOK

LEMMA PredecessorsLemma ==
  ASSUME IsFunction(fn), NEW b \in Blocks(fn)
  PROVE  /\ IsFiniteSet(Predecessors(fn, b)) /\ Cardinality(Predecessors(fn, b)) \in Nat
         /\ IsFiniteSet(Awaited(b)) /\ Cardinality(Awaited(b)) \in Nat
         /\ IsFiniteSet(Told(b)) /\ Cardinality(Told(b)) \in Nat
         /\ Cardinality(Told(b)) + Cardinality(Awaited(b)) = Cardinality(Predecessors(fn, b))
<1>. DEFINE P == Predecessors(fn, b)
<1>1. IsFiniteSet(Blocks(fn)) /\ P \in SUBSET Blocks(fn)
  BY BlocksLemma DEF Predecessors
<1>2. IsFiniteSet(P)
  BY <1>1, FS_Subset
<1>. HIDE DEF P
<1>3. /\ IsFiniteSet(P \ Sorted) /\ IsFiniteSet(P \cap Sorted)
      /\ Cardinality(P \ Sorted) = Cardinality(P) - Cardinality(P \cap Sorted)
  <2>1. P \cap Sorted \in SUBSET P
    OBVIOUS
  <2>2. IsFiniteSet(P \cap Sorted)
    BY <1>2, <2>1, FS_Subset
  <2>3. QED
    BY <1>2, <2>2, FS_Difference
<1>4. Cardinality(P) \in Nat /\ Cardinality(P \ Sorted) \in Nat /\ Cardinality(P \cap Sorted) \in Nat
  BY <1>2, <1>3, FS_CardinalityType
<1>5. QED
  BY <1>2, <1>3, <1>4 DEF P, Awaited, Told

LEMMA SortInsert == ScopeInv /\ InsertOCP => SortInv'
<1>. SUFFICES ASSUME ScopeInv, InsertOCP PROVE SortInv'
  OBVIOUS
<1>1. /\ stage = "insert" /\ fn' = fn /\ domain' = domain /\ Q' = <<Entry>>
      /\ inDeg' = [b \in Blocks(fn) |-> Cardinality(Predecessors(fn, b))]
      /\ state' = [b \in Blocks(fn) |-> [i \in DOMAIN domain |-> << >>]]
  BY DEF InsertOCP
<1>2. IsFunction(fn) /\ Blocks(fn) \subseteq Visited(fn)
  BY <1>1 DEF ScopeInv, Later
<1>3. Entry \in Blocks(fn) /\ \A b \in Blocks(fn) \ {Entry} : Predecessors(fn, b) # {}
  BY <1>2, BlocksLemma
<1>4. \A b \in Blocks(fn) : /\ IsFiniteSet(Predecessors(fn, b))
                            /\ Cardinality(Predecessors(fn, b)) \in Nat
  BY <1>2, PredecessorsLemma
<1>5. \A b \in Blocks(fn) : inDeg'[b] = 0 <=> b = Entry
  <2>1. Predecessors(fn, Entry) = {}
    BY <1>2 DEF IsFunction
  <2>2. QED
    BY <1>1, <1>3, <1>4, <2>1, FS_EmptySet
<1>6. ToSet(Q') = {Entry} /\ Q' \in Seq(Blocks(fn)) /\ IsInjective(Q')
  BY <1>1, <1>3 DEF ToSet, IsInjective
<1>7. Sorted' = {}
  BY <1>1, <1>5, <1>6 DEF Sorted
<1>8. \A b : Awaited(b)' = Predecessors(fn, b) /\ Told(b)' = {}
  BY <1>1, <1>7 DEF Awaited, Told
<1>9. QueueOK'
  BY <1>1, <1>3, <1>5, <1>6 DEF QueueOK
<1>10. DegreesOK'
  BY <1>1, <1>8 DEF DegreesOK
<1>11. StateOK'
  <2>1. ASSUME NEW b \in Blocks(fn), NEW i \in DOMAIN domain
        PROVE  /\ state'[b][i] = << >>
               /\ state'[b][i] \in Seq(ToSet(state'[b][i]))
               /\ Len(state'[b][i]) = 0 /\ DOMAIN state'[b][i] = {}
    <3>1. state'[b][i] = << >>
      BY <1>1
    <3>2. << >> \in Seq(ToSet(<< >>)) /\ Len(<< >>) = 0 /\ DOMAIN << >> = {}
      OBVIOUS
    <3>3. QED
      BY <3>1, <3>2
  <2>2. \A b : Cardinality(Told(b)') = 0
    BY <1>8, FS_EmptySet
  <2>3. QED
    BY <1>1, <2>1, <2>2 DEF StateOK, ListsOK
<1>12. QED
  BY <1>9, <1>10, <1>11 DEF SortInv

(***************************************************************************)
(* One turn.  What it does to the sort, apart from the values.             *)
(***************************************************************************)
Turn(b, R) ==
  /\ Q \in Seq(Blocks(fn)) /\ Q # << >> /\ b = Head(Q)
  /\ R = {x \in Successors(fn, b) : inDeg[x] = 1}
  /\ \E q \in SetToSeqs(R) : Q' = Tail(Q) \o q
  /\ inDeg' = [x \in Blocks(fn) |-> IF x \in Successors(fn, b) THEN inDeg[x] - 1 ELSE inDeg[x]]
  /\ fn' = fn /\ domain' = domain

LEMMA VisitTurns ==
  ASSUME ScopeInv, SortInv, VisitBlock
  PROVE  Turn(Head(Q), {x \in Successors(fn, Head(Q)) : inDeg[x] = 1})
<1>. DEFINE b == Head(Q)
            R == {x \in Successors(fn, b) : inDeg[x] = 1}
<1>1. /\ stage = "replace" /\ Q # << >> /\ fn' = fn /\ domain' = domain
      /\ inDeg' = [x \in Blocks(fn) |-> IF x \in Successors(fn, b) THEN inDeg[x] - 1 ELSE inDeg[x]]
      /\ Q' \in {Tail(Q) \o q : q \in Released(b)}
  BY DEF VisitBlock
<1>2. Q \in Seq(Blocks(fn))
  BY <1>1 DEF SortInv, QueueOK
<1>3. Released(b) \subseteq SetToSeqs(R)
  BY DEF Released, Ready
<1>4. \E q \in SetToSeqs(R) : Q' = Tail(Q) \o q
  BY <1>1, <1>3
<1>5. QED
  BY <1>1, <1>2, <1>4 DEF Turn

LEMMA TurnLemma ==
  ASSUME IsFunction(fn), QueueOK, DegreesOK, NEW b, NEW R, Turn(b, R)
  PROVE  /\ b \in Blocks(fn) /\ b \notin Sorted
         /\ QueueOK' /\ DegreesOK'
         /\ Sorted' = Sorted \cup {b}
<1>1. /\ Q \in Seq(Blocks(fn)) /\ IsInjective(Q) /\ Q # << >> /\ b = Head(Q)
      /\ \A x \in ToSet(Q) : inDeg[x] = 0
      /\ fn' = fn
  BY DEF QueueOK, Turn
<1>2. /\ b \in Blocks(fn) /\ b \in ToSet(Q)
      /\ Tail(Q) \in Seq(Blocks(fn)) /\ IsInjective(Tail(Q))
      /\ ToSet(Tail(Q)) = ToSet(Q) \ {b}
  BY <1>1, TailLemma
<1>3. b \notin Sorted
  BY <1>2 DEF Sorted
<1>. DEFINE near == Successors(fn, b)
<1>4. IsFiniteSet(Blocks(fn)) /\ near \subseteq Blocks(fn)
  BY <1>2, BlocksLemma
<1>5. \A x \in near : b \in Predecessors(fn, x)
  BY <1>2 DEF Predecessors
<1>6. \A x \in Blocks(fn) \ near : b \notin Predecessors(fn, x)
  BY DEF Predecessors
<1>. HIDE DEF near
<1>7. \A x \in Blocks(fn) : inDeg[x] \in Nat /\ IsFiniteSet(Awaited(x)) /\ inDeg[x] = Cardinality(Awaited(x))
  BY PredecessorsLemma DEF DegreesOK
<1>8. \A x \in near : b \in Awaited(x) /\ inDeg[x] # 0
  <2>1. TAKE x \in near
  <2>2. b \in Awaited(x)
    BY <1>3, <1>5 DEF Awaited
  <2>3. QED
    BY <1>4, <1>7, <2>2, FS_EmptySet
<1>9. R = {x \in near : inDeg[x] = 1}
  BY DEF Turn, near
<1>10. /\ R \subseteq Blocks(fn) /\ IsFiniteSet(R) /\ R \cap ToSet(Q) = {}
  <2>1. R \in SUBSET Blocks(fn)
    BY <1>4, <1>9
  <2>2. QED
    BY <1>1, <1>4, <1>9, <2>1, FS_Subset
<1>11. PICK q \in SetToSeqs(R) : Q' = Tail(Q) \o q
  BY DEF Turn
<1>12. q \in Seq(R) /\ IsInjective(q) /\ ToSet(q) = R
  BY <1>10, SetToSeqsLemma
<1>13. q \in Seq(Blocks(fn))
  BY <1>10, <1>12
<1>14. Q' \in Seq(Blocks(fn)) /\ IsInjective(Q') /\ ToSet(Q') = (ToSet(Q) \ {b}) \cup R
  <2>1. ToSet(Tail(Q)) \cap ToSet(q) = {}
    BY <1>2, <1>10, <1>12
  <2>2. /\ Tail(Q) \o q \in Seq(Blocks(fn)) /\ IsInjective(Tail(Q) \o q)
        /\ ToSet(Tail(Q) \o q) = ToSet(Tail(Q)) \cup ToSet(q)
    <3>1. PICK t, S : t = Tail(Q) /\ S = Blocks(fn)
      OBVIOUS
    <3>2. /\ t \in Seq(S) /\ q \in Seq(S) /\ IsInjective(t) /\ IsInjective(q)
          /\ ToSet(t) \cap ToSet(q) = {}
      BY <1>2, <1>12, <1>13, <2>1, <3>1
    <3>3. /\ t \o q \in Seq(S) /\ IsInjective(t \o q)
          /\ ToSet(t \o q) = ToSet(t) \cup ToSet(q)
      BY <3>2, ConcatenationLemma
    <3>4. QED
      BY <3>1, <3>3
  <2>3. QED
    BY <1>2, <1>11, <1>12, <2>2
<1>15. \A x \in Blocks(fn) : inDeg'[x] = IF x \in near THEN inDeg[x] - 1 ELSE inDeg[x]
  BY DEF Turn, near
<1>16. \A x \in Blocks(fn) : inDeg'[x] = 0 <=> x \in R \/ inDeg[x] = 0
  BY <1>7, <1>8, <1>9, <1>15
<1>17. QueueOK'
  <2>1. \A x \in ToSet(Q') : x \in Blocks(fn) /\ (x \in R \/ inDeg[x] = 0)
    BY <1>1, <1>10, <1>14, ToSetLemma
  <2>2. QED
    BY <1>1, <1>14, <1>16, <2>1 DEF QueueOK
<1>18. Sorted' = Sorted \cup {b}
  <2>1. Sorted' = {x \in Blocks(fn) : inDeg'[x] = 0} \ ToSet(Q')
    BY <1>1 DEF Sorted
  <2>2. inDeg[b] = 0 /\ b \notin R
    BY <1>1, <1>2, <1>10
  <2>3. ASSUME NEW x \in Blocks(fn)
        PROVE  x \in Sorted' <=> x \in Sorted \/ x = b
    <3>1. x \in Sorted' <=> (x \in R \/ inDeg[x] = 0) /\ x \notin (ToSet(Q) \ {b}) \cup R
      BY <1>14, <1>16, <2>1
    <3>2. x \in Sorted <=> inDeg[x] = 0 /\ x \notin ToSet(Q)
      BY DEF Sorted
    <3>3. QED
      BY <1>2, <1>9, <2>2, <3>1, <3>2
  <2>4. Sorted' \subseteq Blocks(fn) /\ Sorted \subseteq Blocks(fn)
    BY <2>1 DEF Sorted
  <2>5. QED
    BY <1>2, <2>3, <2>4
<1>19. DegreesOK'
  <2>1. ASSUME NEW x \in Blocks(fn) PROVE inDeg'[x] = Cardinality(Awaited(x)')
    <3>1. Awaited(x)' = Awaited(x) \ {b}
      BY <1>1, <1>18 DEF Awaited
    <3>2. CASE x \in near
      <4>1. Cardinality(Awaited(x) \ {b}) = Cardinality(Awaited(x)) - 1
        BY <1>7, <1>8, <3>2, FS_RemoveElement
      <4>2. QED
        BY <1>7, <1>15, <3>1, <3>2, <4>1
    <3>3. CASE x \notin near
      <4>1. Awaited(x)' = Awaited(x)
        BY <1>6, <3>1, <3>3 DEF Awaited
      <4>2. QED
        BY <1>7, <1>15, <3>3, <4>1
    <3>4. QED
      BY <3>2, <3>3
  <2>2. inDeg' = [x \in Blocks(fn) |-> inDeg'[x]]
    BY DEF Turn
  <2>3. QED
    BY <1>1, <2>1, <2>2 DEF DegreesOK
<1>20. QED
  BY <1>2, <1>3, <1>17, <1>18, <1>19

\* What the successors are told: once each, by a block just visited.
LEMMA TellLemma ==
  ASSUME IsFunction(fn), QueueOK, DegreesOK, StateOK, NEW b, NEW R, Turn(b, R),
         NEW with,
         state' = [x \in Blocks(fn) |-> [i \in DOMAIN domain |->
                     IF x \in Successors(fn, b) /\ i \in DOMAIN with
                       THEN Append(state[x][i], <<with[i], b>>) ELSE state[x][i]]]
  PROVE  StateOK'
<1>1. /\ b \in Blocks(fn) /\ b \notin Sorted /\ Sorted' = Sorted \cup {b}
      /\ fn' = fn /\ domain' = domain
  BY TurnLemma DEF Turn
<1>2. SUFFICES ASSUME NEW x \in Blocks(fn) PROVE ListsOK(state[x], x)'
  BY <1>1 DEF StateOK
<1>3. /\ IsFiniteSet(Told(x)) /\ Cardinality(Told(x)) \in Nat
      /\ Told(x)' = IF x \in Successors(fn, b) THEN Told(x) \cup {b} ELSE Told(x)
      /\ b \notin Told(x)
  BY <1>1, PredecessorsLemma DEF Told, Predecessors
<1>4. /\ Cardinality(Told(x)') \in Nat /\ Cardinality(Told(x)) <= Cardinality(Told(x)')
      /\ x \in Successors(fn, b) => Cardinality(Told(x)') = Cardinality(Told(x)) + 1
  <2>1. Cardinality(Told(x) \cup {b}) = Cardinality(Told(x)) + 1
    BY <1>3, FS_AddElement
  <2>2. QED
    BY <1>3, <2>1
<1>5. ASSUME NEW i \in DOMAIN domain
      PROVE  /\ state'[x][i] \in Seq(ToSet(state'[x][i]))
             /\ Len(state'[x][i]) <= Cardinality(Told(x)')
             /\ \A k \in DOMAIN state'[x][i] : state'[x][i][k][2] \in Told(x)'
  <2>. DEFINE s == state[x][i]
              e == <<with[i], b>>
  <2>1. /\ s \in Seq(ToSet(s)) /\ Len(s) <= Cardinality(Told(x))
        /\ \A k \in DOMAIN s : s[k][2] \in Told(x)
    BY DEF StateOK, ListsOK
  <2>2. CASE x \in Successors(fn, b) /\ i \in DOMAIN with
    <3>1. state'[x][i] = Append(s, e)
      BY <2>2
    <3>2. PICK S : S = ToSet(s) \cup {e}
      OBVIOUS
    <3>3. s \in Seq(S) /\ e \in S
      BY <2>1, <3>2
    <3>. HIDE DEF s, e
    <3>4. /\ Append(s, e) \in Seq(S) /\ Len(Append(s, e)) = Len(s) + 1
          /\ \A k \in DOMAIN Append(s, e) :
               IF k \in DOMAIN s THEN Append(s, e)[k] = s[k] ELSE Append(s, e)[k] = e
      BY <3>3, AppendLemma
    <3>5. Append(s, e) \in Seq(ToSet(Append(s, e)))
      <4>1. PICK t \in Seq(S) : t = Append(s, e)
        BY <3>4
      <4>2. t \in Seq(ToSet(t))
        <5>1. ToSet(t) = {t[k] : k \in 1 .. Len(t)}
          BY ToSetLemma
        <5>2. QED
          BY <5>1
      <4>3. QED
        BY <4>1, <4>2
    <3>6. Len(s) \in Nat
      BY <2>1
    <3>7. Len(Append(s, e)) <= Cardinality(Told(x)')
      BY <1>3, <1>4, <2>1, <2>2, <3>4, <3>6
    <3>8. e[2] = b
      BY DEF e
    <3>9. \A k \in DOMAIN Append(s, e) : Append(s, e)[k][2] \in Told(x)'
      BY <1>3, <2>1, <2>2, <3>4, <3>8
    <3>10. QED
      BY <3>1, <3>5, <3>7, <3>9
  <2>3. CASE ~ (x \in Successors(fn, b) /\ i \in DOMAIN with)
    <3>1. state'[x][i] = s
      BY <2>3
    <3>2. Len(s) \in Nat /\ Told(x) \subseteq Told(x)'
      BY <1>3, <2>1
    <3>. HIDE DEF s
    <3>3. Len(s) <= Cardinality(Told(x)')
      BY <1>3, <1>4, <2>1, <3>2
    <3>4. QED
      BY <2>1, <3>1, <3>2, <3>3
  <2>4. QED
    BY <2>2, <2>3
<1>6. QED
  BY <1>1, <1>5 DEF ListsOK

LEMMA SortVisit ==
  ASSUME ScopeInv, SortInv, VisitBlock
  PROVE  SortInv'
<1>. DEFINE with0 == ReplaceWith(Head(Q))
<1>1. PICK b, R, with : /\ b = Head(Q) /\ with = with0
                        /\ R = {x \in Successors(fn, b) : inDeg[x] = 1}
  OBVIOUS
<1>2. stage = "replace" /\ stage' = stage /\ fn' = fn
  BY DEF VisitBlock
<1>3. QueueOK /\ DegreesOK /\ StateOK /\ IsFunction(fn)
  BY <1>2 DEF SortInv, ScopeInv
<1>4. Turn(b, R)
  BY <1>1, VisitTurns
<1>5. state' = [x \in Blocks(fn) |-> [i \in DOMAIN domain |->
                  IF x \in Successors(fn, b) /\ i \in DOMAIN with
                    THEN Append(state[x][i], <<with[i], b>>) ELSE state[x][i]]]
  BY <1>1 DEF VisitBlock
<1>6. QueueOK' /\ DegreesOK'
  BY <1>3, <1>4, TurnLemma
<1>7. StateOK'
  BY <1>3, <1>4, <1>5, TellLemma
<1>8. QED
  BY <1>6, <1>7 DEF SortInv

\* Until it is over, nothing but a turn touches the sort.
LEMMA SortKept ==
  ASSUME SortInv, fn' = fn, domain' = domain, UNCHANGED sort,
         stage' \in {"replace", "end"} => stage \in {"replace", "end"}
  PROVE  SortInv'
<1>1. state' = state /\ Q' = Q /\ inDeg' = inDeg
  BY DEF sort
<1>2. Sorted' = Sorted
  BY <1>1 DEF Sorted
<1>3. \A b : Told(b)' = Told(b) /\ Awaited(b)' = Awaited(b)
  BY <1>2 DEF Told, Awaited
<1>4. SUFFICES ASSUME QueueOK, DegreesOK, StateOK
               PROVE  QueueOK' /\ DegreesOK' /\ StateOK'
  BY DEF SortInv
<1>5. QueueOK'
  BY <1>1, <1>4 DEF QueueOK
<1>6. DegreesOK'
  BY <1>1, <1>3, <1>4 DEF DegreesOK
<1>7. StateOK'
  BY <1>1, <1>3, <1>4 DEF StateOK, ListsOK
<1>8. QED
  BY <1>5, <1>6, <1>7

LEMMA SortNext == ScopeInv /\ SortInv /\ [Next]_vars => SortInv'
<1>. SUFFICES ASSUME ScopeInv, SortInv, [Next]_vars PROVE SortInv'
  OBVIOUS
<1>1. CASE ConstructAnalysis
  BY <1>1, SortKept DEF ConstructAnalysis
<1>2. CASE Analyse
  BY <1>2, AnalyseSteps, SortKept
<1>3. CASE GetAnticipated \/ GetEarliest \/ GetLatest \/ GetPoints
  <2>1. /\ stage' \in {"available", "postponable", "used", "insert"}
        /\ UNCHANGED <<fn, domain, ir, sort>>
    BY <1>3, LeaveSteps
  <2>2. QED
    BY <2>1 DEF SortInv
<1>4. CASE InsertOCP
  BY <1>4, SortInsert
<1>5. CASE VisitBlock
  BY <1>5, SortVisit
<1>6. CASE Return
  <2>1. stage = "replace" /\ UNCHANGED <<fn, domain, sort>>
    BY <1>6 DEF Return
  <2>2. QED
    BY <2>1, SortKept
<1>7. CASE \E f \in Functions : RunOnFunction(f)
  <2>1. stage' = "anticipated"
    BY <1>7 DEF RunOnFunction
  <2>2. QED
    BY <2>1 DEF SortInv
<1>8. CASE UNCHANGED vars
  <2>1. UNCHANGED <<fn, stage, domain, sort>>
    BY <1>8 DEF vars
  <2>2. QED
    BY <2>1, SortKept
<1>9. QED
  BY <1>1, <1>2, <1>3, <1>4, <1>5, <1>6, <1>7, <1>8 DEF Next, Pass, LazyCodeMotion

(***************************************************************************)
(* The invariant says what TypeOK promises.                                *)
(***************************************************************************)
LEMMA SortTypes == ScopeInv /\ SortInv => TypeOK
<1>. SUFFICES ASSUME ScopeInv, SortInv PROVE TypeOK
  OBVIOUS
<1>1. stage \in {"start", "anticipated", "available", "postponable", "used",
                 "insert", "replace", "end"}
  BY DEF ScopeInv, Later
<1>2. SUFFICES ASSUME stage \in {"replace", "end"}
               PROVE  /\ IsInjective(Q)
                      /\ \A b \in ToSet(Q) : inDeg[b] = 0
                      /\ \A b \in Blocks(fn) :
                           /\ inDeg[b] \in Nat
                           /\ \A i \in DOMAIN domain :
                                /\ Len(state[b][i]) + inDeg[b] <= Cardinality(Predecessors(fn, b))
                                /\ \A k \in DOMAIN state[b][i] :
                                     /\ state[b][i][k][2] \in Predecessors(fn, b) \ ToSet(Q)
                                     /\ inDeg[state[b][i][k][2]] = 0
  BY <1>1 DEF TypeOK
<1>3. QueueOK /\ DegreesOK /\ StateOK /\ IsFunction(fn)
  BY <1>2 DEF SortInv, ScopeInv
<1>4. ASSUME NEW b \in Blocks(fn)
      PROVE  /\ inDeg[b] \in Nat
             /\ \A i \in DOMAIN domain :
                  /\ Len(state[b][i]) + inDeg[b] <= Cardinality(Predecessors(fn, b))
                  /\ \A k \in DOMAIN state[b][i] :
                       /\ state[b][i][k][2] \in Predecessors(fn, b) \ ToSet(Q)
                       /\ inDeg[state[b][i][k][2]] = 0
  <2>1. /\ inDeg[b] = Cardinality(Awaited(b)) /\ inDeg[b] \in Nat
        /\ Cardinality(Told(b)) \in Nat
        /\ Cardinality(Told(b)) + inDeg[b] = Cardinality(Predecessors(fn, b))
    BY <1>3, PredecessorsLemma DEF DegreesOK
  <2>2. ASSUME NEW i \in DOMAIN domain
        PROVE  Len(state[b][i]) + inDeg[b] <= Cardinality(Predecessors(fn, b))
    <3>1. state[b][i] \in Seq(ToSet(state[b][i])) /\ Len(state[b][i]) <= Cardinality(Told(b))
      BY <1>3 DEF StateOK, ListsOK
    <3>2. Len(state[b][i]) \in Nat
      BY <3>1
    <3>3. QED
      BY <2>1, <3>1, <3>2
  <2>3. \A p \in Told(b) : p \in Predecessors(fn, b) \ ToSet(Q) /\ inDeg[p] = 0
    BY DEF Told, Sorted
  <2>4. ASSUME NEW i \in DOMAIN domain, NEW k \in DOMAIN state[b][i]
        PROVE  state[b][i][k][2] \in Told(b)
    BY <1>3 DEF StateOK, ListsOK
  <2>5. QED
    BY <2>1, <2>2, <2>3, <2>4
<1>5. QED
  BY <1>3, <1>4 DEF QueueOK

(***************************************************************************)
(* Through the whole pass, on every function, a queued block waits for     *)
(* nothing and each visited predecessor has been heard at most once        *)
(* (pre.cpp:310-419).                                                      *)
(***************************************************************************)
THEOREM Typing == Spec => []TypeOK
<1>1. Init => ScopeInv /\ SortInv
  BY ScopeInit DEF Init, SortInv
<1>2. ScopeInv /\ SortInv /\ [Next]_vars => (ScopeInv /\ SortInv)'
  BY ScopeNext, SortNext
<1>3. QED
  BY <1>1, <1>2, SortTypes, PTL DEF Spec

-----------------------------------------------------------------------------
(***************************************************************************)
(* Which blocks are visited.                                               *)
(***************************************************************************)
LoopsInv ==
  /\ stage \in {"replace", "end"} =>
       \A C \in SUBSET Blocks(fn) : IsWaiting(C) => C \subseteq Unvisited
  /\ stage = "end" => Q = << >>

\* A block has not been visited as long as it waits for a predecessor.
LEMMA WaitingLemma ==
  ASSUME IsFunction(fn), DegreesOK, NEW b \in Blocks(fn)
  PROVE  b \in Unvisited <=> Awaited(b) # {}
<1>1. /\ IsFiniteSet(Awaited(b)) /\ Cardinality(Awaited(b)) \in Nat
      /\ inDeg[b] = Cardinality(Awaited(b))
  BY PredecessorsLemma DEF DegreesOK
<1>2. Cardinality(Awaited(b)) = 0 <=> Awaited(b) = {}
  BY <1>1, FS_EmptySet
<1>3. QED
  BY <1>1, <1>2 DEF Unvisited

WaitingOK == \A b \in Blocks(fn) : b \in Unvisited <=> Awaited(b) # {}

LEMMA WaitingIsAwaiting == IsFunction(fn) /\ DegreesOK => WaitingOK
  BY WaitingLemma DEF WaitingOK

LEMMA LoopsInsert == ScopeInv /\ InsertOCP => LoopsInv'
<1>. SUFFICES ASSUME ScopeInv, InsertOCP PROVE LoopsInv'
  OBVIOUS
<1>1. /\ stage = "insert" /\ stage' = "replace" /\ fn' = fn
      /\ inDeg' = [b \in Blocks(fn) |-> Cardinality(Predecessors(fn, b))]
  BY DEF InsertOCP
<1>2. IsFunction(fn)
  BY <1>1 DEF ScopeInv
<1>3. ASSUME NEW C \in SUBSET Blocks(fn), IsWaiting(C), NEW b \in C
      PROVE  inDeg'[b] > 0
  <2>1. Predecessors(fn, b) # {} /\ b \in Blocks(fn)
    BY <1>3 DEF IsWaiting
  <2>2. IsFiniteSet(Predecessors(fn, b)) /\ Cardinality(Predecessors(fn, b)) \in Nat
    BY <1>2, <2>1, PredecessorsLemma
  <2>3. Cardinality(Predecessors(fn, b)) # 0
    BY <2>1, <2>2, FS_EmptySet
  <2>4. QED
    BY <1>1, <2>1, <2>2, <2>3
<1>4. QED
  BY <1>1, <1>3 DEF LoopsInv, IsWaiting, Unvisited

LEMMA LoopsVisit ==
  ASSUME ScopeInv, SortInv, LoopsInv, VisitBlock
  PROVE  LoopsInv'
<1>1. PICK b, R : b = Head(Q) /\ R = {x \in Successors(fn, b) : inDeg[x] = 1}
  OBVIOUS
<1>2. stage = "replace" /\ stage' = stage /\ fn' = fn
  BY DEF VisitBlock
<1>3. QueueOK /\ DegreesOK /\ IsFunction(fn)
  BY <1>2 DEF SortInv, ScopeInv
<1>4. Turn(b, R)
  BY <1>1, VisitTurns
<1>5. DegreesOK' /\ Sorted' = Sorted \cup {b}
  BY <1>3, <1>4, TurnLemma
<1>6. inDeg[b] = 0
  <2>1. Q # << >> /\ Q \in Seq(Blocks(fn)) /\ IsInjective(Q)
    BY <1>3, <1>4 DEF Turn, QueueOK
  <2>2. QED
    BY <1>1, <1>3, <2>1, TailLemma DEF QueueOK
<1>7. ASSUME NEW C \in SUBSET Blocks(fn), IsWaiting(C)
      PROVE  C \subseteq Unvisited'
  <2>1. C \subseteq Unvisited
    BY <1>2, <1>7 DEF LoopsInv
  <2>2. C \cap Sorted' = {}
    BY <1>5, <1>6, <2>1 DEF Unvisited, Sorted
  <2>3. \A x \in Blocks(fn) : x \in Unvisited' <=> Awaited(x)' # {}
    <3>1. IsFunction(fn)'
      BY <1>2, <1>3
    <3>2. WaitingOK'
      BY <1>5, <3>1, WaitingIsAwaiting, PTL
    <3>3. QED
      BY <1>2, <3>2 DEF WaitingOK
  <2>4. \A x : Awaited(x)' = Predecessors(fn, x) \ Sorted'
    BY <1>2 DEF Awaited
  <2>5. QED
    BY <1>7, <2>2, <2>3, <2>4 DEF IsWaiting
<1>8. QED
  BY <1>2, <1>7 DEF LoopsInv, IsWaiting

LEMMA LoopsKept ==
  ASSUME LoopsInv, UNCHANGED <<fn, sort>>,
         stage' \in {"replace", "end"} => stage \in {"replace", "end"},
         stage' = "end" => Q = << >>
  PROVE  LoopsInv'
  BY DEF sort, LoopsInv, IsWaiting, Unvisited

LEMMA LoopsNext == ScopeInv /\ SortInv /\ LoopsInv /\ [Next]_vars => LoopsInv'
<1>. SUFFICES ASSUME ScopeInv, SortInv, LoopsInv, [Next]_vars PROVE LoopsInv'
  OBVIOUS
<1>1. CASE ConstructAnalysis
  BY <1>1, LoopsKept DEF ConstructAnalysis, LoopsInv
<1>2. CASE Analyse
  BY <1>2, AnalyseSteps, LoopsKept DEF LoopsInv
<1>3. CASE GetAnticipated \/ GetEarliest \/ GetLatest \/ GetPoints
  BY <1>3, LeaveSteps DEF LoopsInv
<1>4. CASE InsertOCP
  BY <1>4, LoopsInsert
<1>5. CASE VisitBlock
  BY <1>5, LoopsVisit
<1>6. CASE Return
  BY <1>6, LoopsKept DEF Return
<1>7. CASE \E f \in Functions : RunOnFunction(f)
  BY <1>7 DEF RunOnFunction, LoopsInv
<1>8. CASE UNCHANGED vars
  BY <1>8, LoopsKept DEF vars, LoopsInv
<1>9. QED
  BY <1>1, <1>2, <1>3, <1>4, <1>5, <1>6, <1>7, <1>8 DEF Next, Pass, LazyCodeMotion

Inv == ScopeInv /\ SortInv /\ LoopsInv

LEMMA InvHolds == Spec => []Inv
<1>1. Init => Inv
  BY ScopeInit DEF Init, SortInv, LoopsInv, Inv
<1>2. Inv /\ [Next]_vars => Inv'
  BY ScopeNext, SortNext, LoopsNext DEF Inv
<1>3. QED
  BY <1>1, <1>2, PTL DEF Spec

\* At the end whoever still waits, waits for one that does.
LEMMA LeftWaiting == Inv /\ Done => IsWaiting(Unvisited)
<1>. SUFFICES ASSUME Inv, Done PROVE IsWaiting(Unvisited)
  OBVIOUS
<1>1. stage = "end" /\ Q = << >> /\ DegreesOK /\ IsFunction(fn)
  BY DEF Inv, Done, ScopeInv, SortInv, LoopsInv
<1>2. ToSet(Q) = {}
  BY <1>1 DEF ToSet
<1>3. ASSUME NEW p \in Blocks(fn) \ Sorted PROVE p \in Unvisited
  <2>1. inDeg[p] \in Nat
    BY <1>1, PredecessorsLemma DEF DegreesOK
  <2>2. QED
    BY <1>2, <2>1 DEF Sorted, Unvisited
<1>4. ASSUME NEW b \in Unvisited PROVE Predecessors(fn, b) \cap Unvisited # {}
  <2>1. b \in Blocks(fn)
    BY DEF Unvisited
  <2>2. PICK p \in Awaited(b) : TRUE
    BY <1>1, <2>1, WaitingLemma
  <2>3. QED
    BY <1>3, <2>2 DEF Awaited, Predecessors
<1>5. QED
  BY <1>4 DEF IsWaiting

(***************************************************************************)
(* For every function the traversal leaves out loops and what they lead    *)
(* to, and nothing else (pre.cpp:326-419).                                 *)
(***************************************************************************)
THEOREM ExactlyTheLoops == Spec => []LoopsAreLeftOut
<1>1. Inv => LoopsAreLeftOut
  BY LeftWaiting DEF Inv, LoopsInv, LoopsAreLeftOut, Done
<1>2. QED
  BY <1>1, InvHolds, PTL

\* Among blocks that wait for one another there is no first.
LEMMA EveryTurn == Inv /\ Done /\ Acyclic(fn) => Unvisited = {}
<1>. SUFFICES ASSUME Inv, Done, Acyclic(fn), Unvisited # {} PROVE FALSE
  OBVIOUS
<1>1. IsWaiting(Unvisited) /\ IsFunction(fn) /\ Blocks(fn) \subseteq Visited(fn)
  BY LeftWaiting DEF Inv, Done, ScopeInv, Later
<1>. DEFINE Places == {i \in 1 .. Len(fn.po) : fn.po[i] \in Unvisited}
<1>2. Len(fn.po) \in Nat
  BY <1>1 DEF IsFunction
<1>3. \A b \in Unvisited : \E i \in Places : fn.po[i] = b
  BY <1>1 DEF Visited, Unvisited
<1>4. Places # {}
  BY <1>3
<1>5. PICK m \in Places : \A k \in Places : k <= m
  BY <1>2, <1>4, LargestPosition
<1>6. PICK p \in Predecessors(fn, fn.po[m]) : p \in Unvisited
  BY <1>1, <1>5 DEF IsWaiting
<1>7. PICK j \in Places : fn.po[j] = p
  BY <1>3, <1>6
<1>8. m < j
  BY <1>5, <1>6, <1>7 DEF Acyclic, Predecessors
<1>9. QED
  BY <1>2, <1>5, <1>7, <1>8

(***************************************************************************)
(* On a function without loops every block is visited: each redundant      *)
(* occurrence gets its turn (pre.cpp:377-403).                             *)
(***************************************************************************)
THEOREM LoopFreeVisitsAll == Spec => [](Done /\ Acyclic(fn) => Unvisited = {})
  BY InvHolds, EveryTurn, PTL

(***************************************************************************)
(* A function with code that cannot be reached never comes to code motion: *)
(* the first analysis stops on it.                                         *)
(***************************************************************************)
THEOREM OnlyReached ==
  Spec => [](stage \in {"insert", "replace", "end"} => Blocks(fn) \subseteq Visited(fn))
<1>1. Inv => (stage \in {"insert", "replace", "end"} => Blocks(fn) \subseteq Visited(fn))
  BY DEF Inv, ScopeInv, Later
<1>2. QED
  BY <1>1, InvHolds, PTL

-----------------------------------------------------------------------------
(***************************************************************************)
(* The analyses.  All but the last flip a set of each block in place at    *)
(* every visit; DataflowBasics says what they answer nevertheless.         *)
(***************************************************************************)
AnalysisInput(f, m) ==
  LET g == Preprocessed(f)
      dom == GetExpressions(g)
  IN  [fn |-> g, domain |-> DOMAIN dom,
       infoMap |-> [b \in Visited(g) |-> GenKill(g, dom, b)], member |-> m]

VectorsFor(g) == [Blocks(g) -> SUBSET DOMAIN GetExpressions(g)]

AnalysisInputs ==
  UNION {{AnalysisInput(f, m) : m \in VectorsFor(Preprocessed(f))} : f \in Functions}

A == INSTANCE DataflowBasics WITH
       Inputs <- AnalysisInputs,
       dir <- "BACKWARD", boundaryCond <- "empty", initCond <- "full",
       meetFn <- IntersectionMeet, transferFn <- AnticipatedTransfer

V == INSTANCE DataflowBasics WITH
       Inputs <- AnalysisInputs,
       dir <- "FORWARD", boundaryCond <- "empty", initCond <- "full",
       meetFn <- IntersectionMeet, transferFn <- AvailableTransfer

P == INSTANCE DataflowBasics WITH
       Inputs <- AnalysisInputs,
       dir <- "FORWARD", boundaryCond <- "empty", initCond <- "full",
       meetFn <- IntersectionMeet, transferFn <- PostponableTransfer

U == INSTANCE DataflowBasics WITH
       Inputs <- AnalysisInputs,
       dir <- "BACKWARD", boundaryCond <- "empty", initCond <- "empty",
       meetFn <- UnionMeet, transferFn <- UsedTransfer

\* All four read a function as this module does.
LEMMA SameCFGA ==
  /\ \A f : A!Blocks(f) = Blocks(f) /\ A!Visited(f) = Visited(f)
  /\ \A f, b : A!Successors(f, b) = Successors(f, b)
  /\ \A f, b : A!Predecessors(f, b) = Predecessors(f, b)
  /\ \A f : A!IsFunction(f) = IsFunction(f) /\ A!Acyclic(f) = Acyclic(f)
<1>1. A!Entry = Entry /\ \A f : A!Blocks(f) = Blocks(f)
  BY DEF A!Entry, Entry, A!Blocks, Blocks
<1>2. \A f : A!Visited(f) = Visited(f)
  BY DEF A!Visited, Visited
<1>3. \A f, b : A!Successors(f, b) = Successors(f, b)
  BY DEF A!Successors, Successors
<1>4. \A f, b : A!Predecessors(f, b) = Predecessors(f, b)
  BY <1>1, <1>3 DEF A!Predecessors, Predecessors
<1>5. \A f : A!IsFunction(f) = IsFunction(f)
  BY <1>1, <1>2, <1>3, <1>4 DEF A!IsFunction, IsFunction
<1>6. \A f : A!Acyclic(f) = Acyclic(f)
  BY <1>3 DEF A!Acyclic, Acyclic
<1>7. QED
  BY <1>1, <1>2, <1>3, <1>4, <1>5, <1>6

LEMMA SameCFGV ==
  /\ \A f : V!Blocks(f) = Blocks(f) /\ V!Visited(f) = Visited(f)
  /\ \A f, b : V!Successors(f, b) = Successors(f, b)
  /\ \A f, b : V!Predecessors(f, b) = Predecessors(f, b)
  /\ \A f : V!IsFunction(f) = IsFunction(f) /\ V!Acyclic(f) = Acyclic(f)
<1>1. V!Entry = Entry /\ \A f : V!Blocks(f) = Blocks(f)
  BY DEF V!Entry, Entry, V!Blocks, Blocks
<1>2. \A f : V!Visited(f) = Visited(f)
  BY DEF V!Visited, Visited
<1>3. \A f, b : V!Successors(f, b) = Successors(f, b)
  BY DEF V!Successors, Successors
<1>4. \A f, b : V!Predecessors(f, b) = Predecessors(f, b)
  BY <1>1, <1>3 DEF V!Predecessors, Predecessors
<1>5. \A f : V!IsFunction(f) = IsFunction(f)
  BY <1>1, <1>2, <1>3, <1>4 DEF V!IsFunction, IsFunction
<1>6. \A f : V!Acyclic(f) = Acyclic(f)
  BY <1>3 DEF V!Acyclic, Acyclic
<1>7. QED
  BY <1>1, <1>2, <1>3, <1>4, <1>5, <1>6

LEMMA SameCFGP ==
  /\ \A f : P!Blocks(f) = Blocks(f) /\ P!Visited(f) = Visited(f)
  /\ \A f, b : P!Successors(f, b) = Successors(f, b)
  /\ \A f, b : P!Predecessors(f, b) = Predecessors(f, b)
  /\ \A f : P!IsFunction(f) = IsFunction(f) /\ P!Acyclic(f) = Acyclic(f)
<1>1. P!Entry = Entry /\ \A f : P!Blocks(f) = Blocks(f)
  BY DEF P!Entry, Entry, P!Blocks, Blocks
<1>2. \A f : P!Visited(f) = Visited(f)
  BY DEF P!Visited, Visited
<1>3. \A f, b : P!Successors(f, b) = Successors(f, b)
  BY DEF P!Successors, Successors
<1>4. \A f, b : P!Predecessors(f, b) = Predecessors(f, b)
  BY <1>1, <1>3 DEF P!Predecessors, Predecessors
<1>5. \A f : P!IsFunction(f) = IsFunction(f)
  BY <1>1, <1>2, <1>3, <1>4 DEF P!IsFunction, IsFunction
<1>6. \A f : P!Acyclic(f) = Acyclic(f)
  BY <1>3 DEF P!Acyclic, Acyclic
<1>7. QED
  BY <1>1, <1>2, <1>3, <1>4, <1>5, <1>6

LEMMA SameCFGU ==
  /\ \A f : U!Blocks(f) = Blocks(f) /\ U!Visited(f) = Visited(f)
  /\ \A f, b : U!Successors(f, b) = Successors(f, b)
  /\ \A f, b : U!Predecessors(f, b) = Predecessors(f, b)
  /\ \A f : U!IsFunction(f) = IsFunction(f) /\ U!Acyclic(f) = Acyclic(f)
<1>1. U!Entry = Entry /\ \A f : U!Blocks(f) = Blocks(f)
  BY DEF U!Entry, Entry, U!Blocks, Blocks
<1>2. \A f : U!Visited(f) = Visited(f)
  BY DEF U!Visited, Visited
<1>3. \A f, b : U!Successors(f, b) = Successors(f, b)
  BY DEF U!Successors, Successors
<1>4. \A f, b : U!Predecessors(f, b) = Predecessors(f, b)
  BY <1>1, <1>3 DEF U!Predecessors, Predecessors
<1>5. \A f : U!IsFunction(f) = IsFunction(f)
  BY <1>1, <1>2, <1>3, <1>4 DEF U!IsFunction, IsFunction
<1>6. \A f : U!Acyclic(f) = Acyclic(f)
  BY <1>3 DEF U!Acyclic, Acyclic
<1>7. QED
  BY <1>1, <1>2, <1>3, <1>4, <1>5, <1>6

LEMMA InputFacts ==
  ASSUME NEW in \in AnalysisInputs
  PROVE  /\ IsFunction(in.fn)
         /\ DOMAIN in.infoMap = Visited(in.fn) /\ Visited(in.fn) \subseteq Blocks(in.fn)
         /\ in.infoMap \in [DOMAIN in.infoMap ->
                              [genSet : SUBSET in.domain, killSet : SUBSET in.domain]]
         /\ in.member \in [Blocks(in.fn) -> SUBSET in.domain]
<1>1. PICK f \in Functions : \E m \in VectorsFor(Preprocessed(f)) : in = AnalysisInput(f, m)
  BY DEF AnalysisInputs
<1>2. PICK m \in VectorsFor(Preprocessed(f)) : in = AnalysisInput(f, m)
  BY <1>1
<1>. DEFINE g == Preprocessed(f)
            dom == GetExpressions(g)
<1>3. /\ in.fn = g /\ in.domain = DOMAIN dom /\ in.member = m
      /\ in.infoMap = [b \in Visited(g) |-> GenKill(g, dom, b)]
  BY <1>2 DEF AnalysisInput
<1>4. IsFunction(g)
  BY SplittingAssumption
<1>5. \A b : GenKill(g, dom, b) \in [genSet : SUBSET DOMAIN dom, killSet : SUBSET DOMAIN dom]
  BY DEF GenKill
<1>6. in.infoMap \in [Visited(g) -> [genSet : SUBSET DOMAIN dom, killSet : SUBSET DOMAIN dom]]
  BY <1>3, <1>5
<1>7. Visited(g) \subseteq Blocks(g)
  BY <1>4 DEF IsFunction, Visited
<1>8. m \in [Blocks(g) -> SUBSET DOMAIN dom]
  BY DEF VectorsFor
<1>. HIDE DEF g, dom
<1>9. QED
  BY <1>3, <1>4, <1>6, <1>7, <1>8

LEMMA AnticipatedApplies ==
  /\ A!InputsAssumption /\ A!FrameworkAssumption
  /\ A!TransferTyped /\ A!MeetTyped /\ A!FlipAssumption
<1>1. A!InputsAssumption
  BY InputFacts, SameCFGA DEF A!InputsAssumption, A!IsInput
<1>2. A!FrameworkAssumption
  BY BoundsAssumption DEF A!FrameworkAssumption
<1>3. A!TransferTyped
  BY DEF A!TransferTyped, A!Props, AnticipatedTransfer
<1>4. A!MeetTyped
  BY DEF A!MeetTyped, IntersectionMeet
<1>5. A!FlipAssumption
  <2>. SUFFICES ASSUME NEW D, NEW m, NEW p \in A!Props(D), NEW q \in A!Props(D),
                       NEW tp, tp = AnticipatedTransfer(D, m, p),
                       NEW tq, tq = AnticipatedTransfer(D, m, q)
                PROVE  /\ tp.bbOutput = p.bbOutput
                       /\ p.genSet = q.genSet /\ p.killSet = q.killSet
                          /\ p.bbOutput = q.bbOutput => tp.bbInput = tq.bbInput
                       /\ p.genSet = q.genSet /\ p.killSet = q.killSet
                          => tp.genSet = tq.genSet /\ tp.killSet = tq.killSet
                       /\ AnticipatedTransfer(D, m, tp).genSet = p.genSet
                       /\ AnticipatedTransfer(D, m, tp).killSet = p.killSet
    BY DEF A!FlipAssumption, A!MeetSide, A!FlowSide
  <2>1. /\ tp \in A!Props(D) /\ tp.bbOutput = p.bbOutput /\ tp.genSet = p.genSet
        /\ tp.killSet = D \ p.killSet
        /\ tp.bbInput = ((D \ p.killSet) \cap p.bbOutput) \cup p.genSet
    BY DEF AnticipatedTransfer, A!Props
  <2>2. /\ tq.genSet = q.genSet /\ tq.killSet = D \ q.killSet
        /\ tq.bbInput = ((D \ q.killSet) \cap q.bbOutput) \cup q.genSet
    BY DEF AnticipatedTransfer, A!Props
  <2>3. /\ AnticipatedTransfer(D, m, tp).genSet = tp.genSet
        /\ AnticipatedTransfer(D, m, tp).killSet = D \ tp.killSet
    BY <2>1 DEF AnticipatedTransfer, A!Props
  <2>4. p.killSet \subseteq D
    BY DEF A!Props
  <2>5. QED
    BY <2>1, <2>2, <2>3, <2>4
<1>6. QED
  BY <1>1, <1>2, <1>3, <1>4, <1>5

LEMMA WillBeAvailableApplies ==
  /\ V!InputsAssumption /\ V!FrameworkAssumption
  /\ V!TransferTyped /\ V!MeetTyped /\ V!FlipAssumption
<1>1. V!InputsAssumption
  BY InputFacts, SameCFGV DEF V!InputsAssumption, V!IsInput
<1>2. V!FrameworkAssumption
  BY BoundsAssumption DEF V!FrameworkAssumption
<1>3. V!TransferTyped
  <2>. SUFFICES ASSUME NEW in \in AnalysisInputs, NEW b \in Blocks(in.fn),
                       NEW p \in V!Props(in.domain)
                PROVE  AvailableTransfer(in.domain, in.member[b], p) \in V!Props(in.domain)
    BY SameCFGV DEF V!TransferTyped
  <2>1. in.member[b] \in SUBSET in.domain
    BY InputFacts
  <2>2. QED
    BY <2>1 DEF V!Props, AvailableTransfer
<1>4. V!MeetTyped
  BY DEF V!MeetTyped, IntersectionMeet
<1>5. V!FlipAssumption
  <2>. SUFFICES ASSUME NEW D, NEW m, NEW p \in V!Props(D), NEW q \in V!Props(D),
                       NEW tp, tp = AvailableTransfer(D, m, p),
                       NEW tq, tq = AvailableTransfer(D, m, q)
                PROVE  /\ tp.bbInput = p.bbInput
                       /\ p.genSet = q.genSet /\ p.killSet = q.killSet
                          /\ p.bbInput = q.bbInput => tp.bbOutput = tq.bbOutput
                       /\ p.genSet = q.genSet /\ p.killSet = q.killSet
                          => tp.genSet = tq.genSet /\ tp.killSet = tq.killSet
                       /\ AvailableTransfer(D, m, tp).genSet = p.genSet
                       /\ AvailableTransfer(D, m, tp).killSet = p.killSet
    BY DEF V!FlipAssumption, V!MeetSide, V!FlowSide
  <2>1. /\ DOMAIN tp = DOMAIN p
        /\ tp.bbInput = p.bbInput /\ tp.genSet = p.genSet
        /\ tp.killSet = D \ p.killSet
        /\ tp.bbOutput = (D \ p.killSet) \cap (m \cup p.bbInput)
    BY DEF AvailableTransfer, V!Props
  <2>2. /\ tq.genSet = q.genSet /\ tq.killSet = D \ q.killSet
        /\ tq.bbOutput = (D \ q.killSet) \cap (m \cup q.bbInput)
    BY DEF AvailableTransfer, V!Props
  <2>3. /\ AvailableTransfer(D, m, tp).genSet = tp.genSet
        /\ AvailableTransfer(D, m, tp).killSet = D \ tp.killSet
    BY <2>1 DEF AvailableTransfer, V!Props
  <2>4. p.killSet \subseteq D
    BY DEF V!Props
  <2>5. QED
    BY <2>1, <2>2, <2>3, <2>4
<1>6. QED
  BY <1>1, <1>2, <1>3, <1>4, <1>5

LEMMA PostponableApplies ==
  /\ P!InputsAssumption /\ P!FrameworkAssumption
  /\ P!TransferTyped /\ P!MeetTyped /\ P!FlipAssumption
<1>1. P!InputsAssumption
  BY InputFacts, SameCFGP DEF P!InputsAssumption, P!IsInput
<1>2. P!FrameworkAssumption
  BY BoundsAssumption DEF P!FrameworkAssumption
<1>3. P!TransferTyped
  <2>. SUFFICES ASSUME NEW in \in AnalysisInputs, NEW b \in Blocks(in.fn),
                       NEW p \in P!Props(in.domain)
                PROVE  PostponableTransfer(in.domain, in.member[b], p) \in P!Props(in.domain)
    BY SameCFGP DEF P!TransferTyped
  <2>1. in.member[b] \in SUBSET in.domain
    BY InputFacts
  <2>2. QED
    BY <2>1 DEF P!Props, PostponableTransfer
<1>4. P!MeetTyped
  BY DEF P!MeetTyped, IntersectionMeet
<1>5. P!FlipAssumption
  <2>. SUFFICES ASSUME NEW D, NEW m, NEW p \in P!Props(D), NEW q \in P!Props(D),
                       NEW tp, tp = PostponableTransfer(D, m, p),
                       NEW tq, tq = PostponableTransfer(D, m, q)
                PROVE  /\ tp.bbInput = p.bbInput
                       /\ p.genSet = q.genSet /\ p.killSet = q.killSet
                          /\ p.bbInput = q.bbInput => tp.bbOutput = tq.bbOutput
                       /\ p.genSet = q.genSet /\ p.killSet = q.killSet
                          => tp.genSet = tq.genSet /\ tp.killSet = tq.killSet
                       /\ PostponableTransfer(D, m, tp).genSet = p.genSet
                       /\ PostponableTransfer(D, m, tp).killSet = p.killSet
    BY DEF P!FlipAssumption, P!MeetSide, P!FlowSide
  <2>1. /\ DOMAIN tp = DOMAIN p
        /\ tp.bbInput = p.bbInput /\ tp.killSet = p.killSet
        /\ tp.genSet = D \ p.genSet
        /\ tp.bbOutput = (m \cup p.bbInput) \cap (D \ p.genSet)
    BY DEF PostponableTransfer, P!Props
  <2>2. /\ tq.killSet = q.killSet /\ tq.genSet = D \ q.genSet
        /\ tq.bbOutput = (m \cup q.bbInput) \cap (D \ q.genSet)
    BY DEF PostponableTransfer, P!Props
  <2>3. /\ PostponableTransfer(D, m, tp).killSet = tp.killSet
        /\ PostponableTransfer(D, m, tp).genSet = D \ tp.genSet
    BY <2>1 DEF PostponableTransfer, P!Props
  <2>4. p.genSet \subseteq D
    BY DEF P!Props
  <2>5. QED
    BY <2>1, <2>2, <2>3, <2>4
<1>6. QED
  BY <1>1, <1>2, <1>3, <1>4, <1>5

LEMMA UsedApplies ==
  /\ U!InputsAssumption /\ U!FrameworkAssumption
  /\ U!TransferTyped /\ U!MeetTyped /\ U!FlipAssumption
<1>1. U!InputsAssumption
  BY InputFacts, SameCFGU DEF U!InputsAssumption, U!IsInput
<1>2. U!FrameworkAssumption
  BY BoundsAssumption DEF U!FrameworkAssumption
<1>3. U!TransferTyped
  BY DEF U!TransferTyped, U!Props, UsedTransfer
<1>4. U!MeetTyped
  BY DEF U!MeetTyped, UnionMeet
<1>5. U!FlipAssumption
  <2>. SUFFICES ASSUME NEW D, NEW m, NEW p \in U!Props(D), NEW q \in U!Props(D),
                       NEW tp, tp = UsedTransfer(D, m, p),
                       NEW tq, tq = UsedTransfer(D, m, q)
                PROVE  /\ tp.bbOutput = p.bbOutput
                       /\ p.genSet = q.genSet /\ p.killSet = q.killSet
                          /\ p.bbOutput = q.bbOutput => tp.bbInput = tq.bbInput
                       /\ p.genSet = q.genSet /\ p.killSet = q.killSet
                          => tp.genSet = tq.genSet /\ tp.killSet = tq.killSet
                       /\ UsedTransfer(D, m, tp).genSet = p.genSet
                       /\ UsedTransfer(D, m, tp).killSet = p.killSet
    BY DEF U!FlipAssumption, U!MeetSide, U!FlowSide
  <2>1. /\ DOMAIN tp = DOMAIN p
        /\ tp.bbOutput = p.bbOutput /\ tp.genSet = p.genSet /\ tp.killSet = p.killSet
        /\ tp.bbInput = (D \ m) \cap (p.genSet \cup p.bbOutput)
    BY DEF UsedTransfer, U!Props
  <2>2. /\ tq.genSet = q.genSet /\ tq.killSet = q.killSet
        /\ tq.bbInput = (D \ m) \cap (q.genSet \cup q.bbOutput)
    BY DEF UsedTransfer, U!Props
  <2>3. /\ UsedTransfer(D, m, tp).genSet = tp.genSet
        /\ UsedTransfer(D, m, tp).killSet = tp.killSet
    BY <2>1 DEF UsedTransfer, U!Props
  <2>4. QED
    BY <2>1, <2>2, <2>3
<1>6. QED
  BY <1>1, <1>2, <1>3, <1>4, <1>5

\* The steps of the pass are steps of these instances.
LEMMA AnticipatedMaps ==
  /\ Anticipated!Run => A!Run
  /\ \A in : Anticipated!Construct(in) => A!Construct(in)
<1>1. Anticipated!Initialize => A!Initialize
  BY DEF Anticipated!Initialize, A!Initialize, Anticipated!F, A!F,
         Anticipated!Blocks, A!Blocks, Anticipated!InitialProps, A!InitialProps,
         Anticipated!BlockType, A!BlockType, Anticipated!Vector, A!Vector,
         Anticipated!Entry, A!Entry
<1>2. Anticipated!EndSweep => A!EndSweep
  BY DEF Anticipated!EndSweep, A!EndSweep, Anticipated!F, A!F,
         Anticipated!Unchanged, A!Unchanged, Anticipated!FlowSide, A!FlowSide
<1>3. Anticipated!VisitBlock => A!VisitBlock
  BY DEF Anticipated!VisitBlock, A!VisitBlock, Anticipated!F, A!F,
         Anticipated!Traversal, A!Traversal, Anticipated!FlowSide, A!FlowSide,
         Anticipated!Visit, A!Visit, Anticipated!AfterMeet, A!AfterMeet,
         Anticipated!Neighbours, A!Neighbours, Anticipated!Successors, A!Successors,
         Anticipated!MeetInputs, A!MeetInputs, Anticipated!WithMeet, A!WithMeet
<1>4. \A in : Anticipated!Construct(in) => A!Construct(in)
  BY DEF Anticipated!Construct, A!Construct
<1>5. QED
  BY <1>1, <1>2, <1>3, <1>4 DEF Anticipated!Run, A!Run

LEMMA WillBeAvailableMaps ==
  /\ WillBeAvailable!Run => V!Run
  /\ \A in : Anticipated!Construct(in) => V!Construct(in)
<1>1. WillBeAvailable!Initialize => V!Initialize
  BY DEF WillBeAvailable!Initialize, V!Initialize, WillBeAvailable!F, V!F,
         WillBeAvailable!Blocks, V!Blocks, WillBeAvailable!InitialProps, V!InitialProps,
         WillBeAvailable!BlockType, V!BlockType, WillBeAvailable!Vector, V!Vector,
         WillBeAvailable!Entry, V!Entry
<1>2. WillBeAvailable!EndSweep => V!EndSweep
  BY DEF WillBeAvailable!EndSweep, V!EndSweep, WillBeAvailable!F, V!F,
         WillBeAvailable!Unchanged, V!Unchanged, WillBeAvailable!FlowSide, V!FlowSide
<1>3. WillBeAvailable!VisitBlock => V!VisitBlock
  BY DEF WillBeAvailable!VisitBlock, V!VisitBlock, WillBeAvailable!F, V!F,
         WillBeAvailable!Traversal, V!Traversal, WillBeAvailable!FlowSide, V!FlowSide,
         WillBeAvailable!Visit, V!Visit, WillBeAvailable!AfterMeet, V!AfterMeet,
         WillBeAvailable!Neighbours, V!Neighbours, WillBeAvailable!Predecessors, V!Predecessors,
         WillBeAvailable!Successors, V!Successors, WillBeAvailable!Blocks, V!Blocks,
         WillBeAvailable!MeetInputs, V!MeetInputs, WillBeAvailable!WithMeet, V!WithMeet
<1>4. \A in : Anticipated!Construct(in) => V!Construct(in)
  BY DEF Anticipated!Construct, V!Construct
<1>5. QED
  BY <1>1, <1>2, <1>3, <1>4 DEF WillBeAvailable!Run, V!Run

LEMMA PostponableMaps ==
  /\ Postponable!Run => P!Run
  /\ \A in : Anticipated!Construct(in) => P!Construct(in)
<1>1. Postponable!Initialize => P!Initialize
  BY DEF Postponable!Initialize, P!Initialize, Postponable!F, P!F,
         Postponable!Blocks, P!Blocks, Postponable!InitialProps, P!InitialProps,
         Postponable!BlockType, P!BlockType, Postponable!Vector, P!Vector,
         Postponable!Entry, P!Entry
<1>2. Postponable!EndSweep => P!EndSweep
  BY DEF Postponable!EndSweep, P!EndSweep, Postponable!F, P!F,
         Postponable!Unchanged, P!Unchanged, Postponable!FlowSide, P!FlowSide
<1>3. Postponable!VisitBlock => P!VisitBlock
  BY DEF Postponable!VisitBlock, P!VisitBlock, Postponable!F, P!F,
         Postponable!Traversal, P!Traversal, Postponable!FlowSide, P!FlowSide,
         Postponable!Visit, P!Visit, Postponable!AfterMeet, P!AfterMeet,
         Postponable!Neighbours, P!Neighbours, Postponable!Predecessors, P!Predecessors,
         Postponable!Successors, P!Successors, Postponable!Blocks, P!Blocks,
         Postponable!MeetInputs, P!MeetInputs, Postponable!WithMeet, P!WithMeet
<1>4. \A in : Anticipated!Construct(in) => P!Construct(in)
  BY DEF Anticipated!Construct, P!Construct
<1>5. QED
  BY <1>1, <1>2, <1>3, <1>4 DEF Postponable!Run, P!Run

LEMMA UsedMaps ==
  /\ Used!Run => U!Run
  /\ \A in : Anticipated!Construct(in) => U!Construct(in)
<1>1. Used!Initialize => U!Initialize
  BY DEF Used!Initialize, U!Initialize, Used!F, U!F,
         Used!Blocks, U!Blocks, Used!InitialProps, U!InitialProps,
         Used!BlockType, U!BlockType, Used!Vector, U!Vector,
         Used!Entry, U!Entry
<1>2. Used!EndSweep => U!EndSweep
  BY DEF Used!EndSweep, U!EndSweep, Used!F, U!F,
         Used!Unchanged, U!Unchanged, Used!FlowSide, U!FlowSide
<1>3. Used!VisitBlock => U!VisitBlock
  BY DEF Used!VisitBlock, U!VisitBlock, Used!F, U!F,
         Used!Traversal, U!Traversal, Used!FlowSide, U!FlowSide,
         Used!Visit, U!Visit, Used!AfterMeet, U!AfterMeet,
         Used!Neighbours, U!Neighbours, Used!Successors, U!Successors,
         Used!MeetInputs, U!MeetInputs, Used!WithMeet, U!WithMeet
<1>4. \A in : Anticipated!Construct(in) => U!Construct(in)
  BY DEF Anticipated!Construct, U!Construct
<1>5. QED
  BY <1>1, <1>2, <1>3, <1>4 DEF Used!Run, U!Run

-----------------------------------------------------------------------------
(***************************************************************************)
(* What the analyses are run on, and what they hand to each other.  The    *)
(* vectors are read after the analysis that computed them has finished, so *)
(* what its equations say of them has to be kept.                          *)
(***************************************************************************)
FunctionInv ==
  stage # "start" => \E f \in Functions : fn = Preprocessed(f) /\ domain = GetExpressions(fn)

CurrentInput(m) ==
  [fn |-> fn, domain |-> DOMAIN domain, infoMap |-> InfoMap, member |-> m]

IdleOK == pc = "idle" => idx = 1 /\ iter = 0 /\ prev = << >> /\ converged = FALSE

AnalysisInv ==
  /\ IdleOK
  /\ stage = "anticipated" =>
       A!FInv /\ (pc # "idle" => input = CurrentInput([b \in Blocks(fn) |-> {}]))
  /\ stage = "available" =>
       V!FInv /\ (pc # "idle" => input = CurrentInput([b \in Blocks(fn) |-> anticipated[b]]))
  /\ stage = "postponable" =>
       P!FInv /\ (pc # "idle" => input = CurrentInput([b \in Blocks(fn) |-> earliest[b]]))
  /\ stage = "used" =>
       U!FInv /\ (pc # "idle" => input = CurrentInput([b \in Blocks(fn) |-> latest[b]]))

\* Without loops, and with an odd cap on sweeps.
Settles == Acyclic(fn) /\ MaxSweeps % 2 = 1

\* A path from block b meets no block that kills i before one that generates it.
Needed(ant, b, i) ==
  \/ i \in InfoMap[b].genSet
  \/ /\ i \notin InfoMap[b].killSet
     /\ Successors(fn, b) # {}
     /\ \A s \in Successors(fn, b) : i \in ant[s]

AllNeeded(ant) == \A b \in Blocks(fn) : \A i \in ant[b] : Needed(ant, b, i)

GeneratedIsNeeded(ant) == \A b \in Blocks(fn) : InfoMap[b].genSet \subseteq ant[b]

\* Vectors such that what b holds was anticipated or held by each predecessor:
\* where the expressions have been anticipated before.
Carried(av) ==
  \A b \in Blocks(fn) : \A i \in av[b] :
    /\ Predecessors(fn, b) # {}
    /\ \A p \in Predecessors(fn, b) : i \in anticipated[p] \cup av[p]

\* Vectors from which the latest ones have been chosen.
Chosen(pl) ==
  \A b \in Blocks(fn) :
    /\ earliest[b] \subseteq pl[b]
    /\ latest[b] = {i \in pl[b] : \/ i \in InfoMap[b].genSet
                                 \/ \E s \in Successors(fn, b) : i \notin pl[s]}

(***************************************************************************)
(* Vectors S of expressions the blocks are supplied with: each predecessor *)
(* inserts them or is supplied with them itself, and no block replaces     *)
(* anything else but what it inserts.                                      *)
(***************************************************************************)
Supplied(S) ==
  /\ S \in VectorsFor(fn)
  /\ \A b \in Blocks(fn) : toReplace[b] \subseteq toInsert[b] \cup S[b]
  /\ \A b \in Blocks(fn) : \A i \in S[b] :
       /\ Predecessors(fn, b) # {}
       /\ \A p \in Predecessors(fn, b) : i \in toInsert[p] \cup S[p]

AnticipatedOK == anticipated \in VectorsFor(fn)

NeededOK == Settles => AllNeeded(anticipated) /\ GeneratedIsNeeded(anticipated)

EarliestOK ==
  /\ \A b \in Blocks(fn) : earliest[b] \subseteq anticipated[b]
  /\ Settles => \E av : /\ Carried(av)
                        /\ \A b \in Blocks(fn) : anticipated[b] \ av[b] \subseteq earliest[b]

LatestOK ==
  /\ latest \in VectorsFor(fn)
  /\ Settles => \A b \in Blocks(fn) : latest[b] \subseteq anticipated[b]
  /\ \E pl : Chosen(pl)

PointsOK ==
  /\ \A b \in Blocks(fn) : toInsert[b] \subseteq latest[b]
  /\ Settles => \E S : Supplied(S)

VectorsInv ==
  /\ stage \in Later => AnticipatedOK /\ NeededOK
  /\ stage \in Later \ {"available"} => EarliestOK
  /\ stage \in Later \ {"available", "postponable"} => LatestOK
  /\ stage \in Later \ {"available", "postponable", "used"} => PointsOK

FlowInv == ScopeInv /\ FunctionInv /\ AnalysisInv /\ VectorsInv

LEMMA IdleInvariants == IdleOK /\ pc = "idle" => A!FInv /\ V!FInv /\ P!FInv /\ U!FInv
<1>. SUFFICES ASSUME IdleOK, pc = "idle" PROVE A!FInv /\ V!FInv /\ P!FInv /\ U!FInv
  OBVIOUS
<1>1. idx = 1 /\ iter = 0 /\ prev = << >> /\ converged \in BOOLEAN
  BY DEF IdleOK
<1>2. idx \in Nat \ {0} /\ iter \in 0 .. MaxSweeps
  BY <1>1, BoundsAssumption
<1>3. A!FInv
  <2>1. A!TInv
    BY <1>1, <1>2 DEF A!TInv, A!TypeOK, A!InputOK
  <2>2. QED
    BY <2>1 DEF A!FInv, A!MapOK, A!SweepInv, A!AnswerIsSolution
<1>4. V!FInv
  <2>1. V!TInv
    BY <1>1, <1>2 DEF V!TInv, V!TypeOK, V!InputOK
  <2>2. QED
    BY <2>1 DEF V!FInv, V!MapOK, V!SweepInv, V!AnswerIsSolution
<1>5. P!FInv
  <2>1. P!TInv
    BY <1>1, <1>2 DEF P!TInv, P!TypeOK, P!InputOK
  <2>2. QED
    BY <2>1 DEF P!FInv, P!MapOK, P!SweepInv, P!AnswerIsSolution
<1>6. U!FInv
  <2>1. U!TInv
    BY <1>1, <1>2 DEF U!TInv, U!TypeOK, U!InputOK
  <2>2. QED
    BY <2>1 DEF U!FInv, U!MapOK, U!SweepInv, U!AnswerIsSolution
<1>7. QED
  BY <1>3, <1>4, <1>5, <1>6

LEMMA IdleInvariantsNext ==
  (IdleOK /\ pc = "idle")' => A!FInv' /\ V!FInv' /\ P!FInv' /\ U!FInv'
  BY IdleInvariants, PTL

LEMMA CurrentInputLemma ==
  ASSUME FunctionInv, stage # "start", NEW m \in VectorsFor(fn)
  PROVE  CurrentInput(m) \in AnalysisInputs
<1>1. PICK f \in Functions : fn = Preprocessed(f) /\ domain = GetExpressions(fn)
  BY DEF FunctionInv
<1>2. CurrentInput(m) = AnalysisInput(f, m)
  BY <1>1 DEF CurrentInput, AnalysisInput, InfoMap
<1>3. QED
  BY <1>1, <1>2 DEF AnalysisInputs

-----------------------------------------------------------------------------
\* What the anticipated analysis answers with.
LEMMA AnticipatedAnswer ==
  ASSUME FlowInv, stage = "anticipated", pc = "done"
  PROVE  /\ [b \in Blocks(fn) |-> result[b].bbInput] \in VectorsFor(fn)
         /\ Settles => /\ AllNeeded([b \in Blocks(fn) |-> result[b].bbInput])
                       /\ GeneratedIsNeeded([b \in Blocks(fn) |-> result[b].bbInput])
<1>1. A!FInv /\ input = CurrentInput([b \in Blocks(fn) |-> {}])
  BY DEF FlowInv, AnalysisInv
<1>2. /\ A!F = fn /\ input.fn = fn /\ input.domain = DOMAIN domain /\ input.infoMap = InfoMap
      /\ DOMAIN domain = DOMAIN GetExpressions(fn)
  BY <1>1 DEF A!F, CurrentInput, FlowInv, FunctionInv
<1>3. /\ result \in [Blocks(fn) -> A!Props(DOMAIN domain)]
      /\ IsFunction(fn) /\ Blocks(fn) \subseteq Visited(fn)
  BY <1>1, <1>2, SameCFGA DEF A!FInv, A!TInv, A!TypeOK, FlowInv, ScopeInv
<1>4. \A b \in Blocks(fn) : result[b].bbInput \in SUBSET DOMAIN domain
  BY <1>3 DEF A!Props
<1>5. [b \in Blocks(fn) |-> result[b].bbInput] \in VectorsFor(fn)
  BY <1>2, <1>4 DEF VectorsFor
<1>6. ASSUME Settles, NEW b \in Blocks(fn)
      PROVE  /\ Successors(fn, b) = {} => result[b].bbOutput = {}
             /\ Successors(fn, b) # {} =>
                  \A s \in Successors(fn, b) : result[b].bbOutput \subseteq result[s].bbInput
             /\ result[b].bbInput =
                  ((DOMAIN domain \ InfoMap[b].killSet) \cap result[b].bbOutput)
                    \cup InfoMap[b].genSet
  <2>1. A!Plain /\ A!OddCap
    BY <1>2, <1>3, <1>6, SameCFGA DEF A!Plain, A!OddCap, Settles
  <2>2. A!Solved(b)
    BY <1>1, <1>2, <1>6, <2>1, SameCFGA DEF A!FInv, A!AnswerIsSolution
  <2>3. A!Neighbours(b) = Successors(fn, b)
    BY <1>2, SameCFGA DEF A!Neighbours
  <2>4. A!MeetSide(result[b]) = result[b].bbOutput /\ A!FlowSide(result[b]) = result[b].bbInput
    BY DEF A!MeetSide, A!FlowSide
  <2>5. PICK init : init = A!InitialProps(b)
    OBVIOUS
  <2>6. /\ init.bbOutput = {} /\ init.genSet = InfoMap[b].genSet
        /\ init.killSet = InfoMap[b].killSet
        /\ DOMAIN init = {"bbInput", "bbOutput", "genSet", "killSet"}
    BY <1>2, <2>5 DEF A!InitialProps, A!BlockType, A!Vector
  <2>7. result[b].bbOutput = A!HeldAt(b, A!MeetInputs(b))
    BY <2>2, <2>4 DEF A!Solved, A!MeetOK
  <2>8. A!MeetSide(init) = {}
    BY <2>6 DEF A!MeetSide
  <2>9. A!MeetInputs(b) = {result[s].bbInput : s \in Successors(fn, b)}
    BY <2>3 DEF A!MeetInputs, A!FlowSide
  <2>10. /\ Successors(fn, b) = {} => result[b].bbOutput = {}
         /\ Successors(fn, b) # {} => result[b].bbOutput = IntersectionMeet(A!MeetInputs(b))
    BY <2>3, <2>5, <2>7, <2>8 DEF A!HeldAt
  <2>11. PICK w : w = A!WithMeet(init, result[b].bbOutput)
    OBVIOUS
  <2>12. /\ w.bbOutput = result[b].bbOutput /\ w.genSet = init.genSet /\ w.killSet = init.killSet
         /\ DOMAIN w = {"bbInput", "bbOutput", "genSet", "killSet"}
    BY <2>6, <2>11 DEF A!WithMeet
  <2>13. result[b].bbInput =
           A!FlowSide(AnticipatedTransfer(DOMAIN domain, input.member[b], w))
    BY <1>2, <2>2, <2>4, <2>5, <2>11 DEF A!Solved, A!FlowOK, A!FirstTransfer
  <2>14. A!FlowSide(AnticipatedTransfer(DOMAIN domain, input.member[b], w)) =
           ((DOMAIN domain \ w.killSet) \cap w.bbOutput) \cup w.genSet
    BY <2>12 DEF A!FlowSide, AnticipatedTransfer
  <2>15. ASSUME NEW s \in Successors(fn, b) PROVE result[b].bbOutput \subseteq result[s].bbInput
    BY <2>9, <2>10, <2>15 DEF IntersectionMeet
  <2>16. QED
    BY <2>6, <2>10, <2>12, <2>13, <2>14, <2>15
<1>7. ASSUME Settles, NEW b \in Blocks(fn), NEW i \in result[b].bbInput
      PROVE  Needed([x \in Blocks(fn) |-> result[x].bbInput], b, i)
  <2>1. Successors(fn, b) \subseteq Blocks(fn)
    BY <1>3, <1>7 DEF IsFunction, Successors
  <2>2. QED
    BY <1>6, <1>7, <2>1 DEF Needed
<1>8. ASSUME Settles, NEW b \in Blocks(fn)
      PROVE  InfoMap[b].genSet \subseteq result[b].bbInput
  BY <1>6, <1>8
<1>9. QED
  BY <1>5, <1>7, <1>8 DEF AllNeeded, GeneratedIsNeeded

\* What the available analysis answers with.
LEMMA WillBeAvailableAnswer ==
  ASSUME FlowInv, stage = "available", pc = "done", Settles, NEW b \in Blocks(fn)
  PROVE  /\ Predecessors(fn, b) = {} => result[b].bbInput = {}
         /\ \A p \in Predecessors(fn, b) :
              result[b].bbInput \subseteq anticipated[p] \cup result[p].bbInput
<1>1. V!FInv /\ input = CurrentInput([x \in Blocks(fn) |-> anticipated[x]])
  BY DEF FlowInv, AnalysisInv
<1>2. /\ V!F = fn /\ input.fn = fn /\ input.domain = DOMAIN domain /\ input.infoMap = InfoMap
      /\ \A x \in Blocks(fn) : input.member[x] = anticipated[x]
  BY <1>1 DEF V!F, CurrentInput
<1>3. IsFunction(fn) /\ Blocks(fn) \subseteq Visited(fn)
  BY DEF FlowInv, ScopeInv
<1>4. V!Plain /\ V!OddCap
  BY <1>2, <1>3, SameCFGV DEF V!Plain, V!OddCap, Settles
<1>5. \A x \in Blocks(fn) : V!Solved(x)
  BY <1>1, <1>2, <1>4, SameCFGV DEF V!FInv, V!AnswerIsSolution
<1>6. \A x : V!Neighbours(x) = Predecessors(fn, x)
  BY <1>2, SameCFGV DEF V!Neighbours
<1>7. \A x : /\ V!MeetSide(result[x]) = result[x].bbInput
             /\ V!FlowSide(result[x]) = result[x].bbOutput
  BY DEF V!MeetSide, V!FlowSide
<1>8. ASSUME NEW x \in Blocks(fn), NEW init, init = V!InitialProps(x)
      PROVE  /\ init.bbInput = {}
             /\ DOMAIN init = {"bbInput", "bbOutput", "genSet", "killSet"}
  BY <1>2, <1>8 DEF V!InitialProps, V!BlockType, V!Vector
<1>9. ASSUME NEW p \in Blocks(fn)
      PROVE  result[p].bbOutput \subseteq anticipated[p] \cup result[p].bbInput
  <2>1. PICK init : init = V!InitialProps(p)
    OBVIOUS
  <2>2. PICK w : w = V!WithMeet(init, result[p].bbInput)
    OBVIOUS
  <2>3. /\ w.bbInput = result[p].bbInput
        /\ DOMAIN w = {"bbInput", "bbOutput", "genSet", "killSet"}
    BY <1>8, <2>1, <2>2 DEF V!WithMeet
  <2>4. result[p].bbOutput =
          V!FlowSide(AvailableTransfer(DOMAIN domain, input.member[p], w))
    BY <1>2, <1>5, <1>7, <2>1, <2>2 DEF V!Solved, V!FlowOK, V!FirstTransfer
  <2>5. V!FlowSide(AvailableTransfer(DOMAIN domain, input.member[p], w)) =
          (DOMAIN domain \ w.killSet) \cap (input.member[p] \cup w.bbInput)
    BY <2>3 DEF V!FlowSide, AvailableTransfer
  <2>6. QED
    BY <1>2, <2>3, <2>4, <2>5
<1>10. result[b].bbInput = V!HeldAt(b, V!MeetInputs(b))
  BY <1>5, <1>7 DEF V!Solved, V!MeetOK
<1>11. V!MeetSide(V!InitialProps(b)) = {}
  BY <1>8 DEF V!MeetSide
<1>12. V!MeetInputs(b) = {result[p].bbOutput : p \in Predecessors(fn, b)}
  BY <1>6 DEF V!MeetInputs, V!FlowSide
<1>13. /\ Predecessors(fn, b) = {} => result[b].bbInput = {}
       /\ Predecessors(fn, b) # {} => result[b].bbInput = IntersectionMeet(V!MeetInputs(b))
  BY <1>6, <1>10, <1>11 DEF V!HeldAt
<1>14. ASSUME NEW p \in Predecessors(fn, b)
       PROVE  result[b].bbInput \subseteq anticipated[p] \cup result[p].bbInput
  <2>1. p \in Blocks(fn)
    BY DEF Predecessors
  <2>2. result[b].bbInput \subseteq result[p].bbOutput
    BY <1>12, <1>13, <1>14 DEF IntersectionMeet
  <2>3. QED
    BY <1>9, <2>1, <2>2
<1>15. QED
  BY <1>13, <1>14

LEMMA PostponableTyped ==
  ASSUME FlowInv, stage = "postponable", pc = "done", NEW b \in Blocks(fn)
  PROVE  result[b].bbInput \subseteq DOMAIN domain
<1>1. P!FInv /\ input = CurrentInput([x \in Blocks(fn) |-> earliest[x]])
  BY DEF FlowInv, AnalysisInv
<1>2. P!F = fn /\ input.domain = DOMAIN domain
  BY <1>1 DEF P!F, CurrentInput
<1>3. result \in [Blocks(fn) -> P!Props(DOMAIN domain)]
  BY <1>1, <1>2, SameCFGP DEF P!FInv, P!TInv, P!TypeOK
<1>4. QED
  BY <1>3 DEF P!Props

\* What the postponable analysis answers with.
LEMMA PostponableAnswer ==
  ASSUME FlowInv, stage = "postponable", pc = "done", Settles, NEW b \in Blocks(fn)
  PROVE  /\ Predecessors(fn, b) = {} => result[b].bbInput = {}
         /\ \A p \in Predecessors(fn, b) :
              result[b].bbInput \subseteq (earliest[p] \cup result[p].bbInput) \ InfoMap[p].genSet
<1>1. P!FInv /\ input = CurrentInput([x \in Blocks(fn) |-> earliest[x]])
  BY DEF FlowInv, AnalysisInv
<1>2. /\ P!F = fn /\ input.fn = fn /\ input.domain = DOMAIN domain /\ input.infoMap = InfoMap
      /\ \A x \in Blocks(fn) : input.member[x] = earliest[x]
  BY <1>1 DEF P!F, CurrentInput
<1>3. /\ result \in [Blocks(fn) -> P!Props(DOMAIN domain)]
      /\ IsFunction(fn) /\ Blocks(fn) \subseteq Visited(fn)
  BY <1>1, <1>2, SameCFGP DEF P!FInv, P!TInv, P!TypeOK, FlowInv, ScopeInv
<1>4. P!Plain /\ P!OddCap
  BY <1>2, <1>3, SameCFGP DEF P!Plain, P!OddCap, Settles
<1>5. \A x \in Blocks(fn) : P!Solved(x)
  BY <1>1, <1>2, <1>4, SameCFGP DEF P!FInv, P!AnswerIsSolution
<1>6. \A x : P!Neighbours(x) = Predecessors(fn, x)
  BY <1>2, SameCFGP DEF P!Neighbours
<1>7. \A x : /\ P!MeetSide(result[x]) = result[x].bbInput
             /\ P!FlowSide(result[x]) = result[x].bbOutput
  BY DEF P!MeetSide, P!FlowSide
<1>8. ASSUME NEW x \in Blocks(fn), NEW init, init = P!InitialProps(x)
      PROVE  /\ init.bbInput = {} /\ init.genSet = InfoMap[x].genSet
             /\ DOMAIN init = {"bbInput", "bbOutput", "genSet", "killSet"}
  BY <1>2, <1>8 DEF P!InitialProps, P!BlockType, P!Vector
<1>9. ASSUME NEW p \in Blocks(fn)
      PROVE  result[p].bbOutput \subseteq (earliest[p] \cup result[p].bbInput) \ InfoMap[p].genSet
  <2>1. PICK init : init = P!InitialProps(p)
    OBVIOUS
  <2>2. PICK w : w = P!WithMeet(init, result[p].bbInput)
    OBVIOUS
  <2>3. /\ w.bbInput = result[p].bbInput /\ w.genSet = InfoMap[p].genSet
        /\ DOMAIN w = {"bbInput", "bbOutput", "genSet", "killSet"}
    BY <1>8, <2>1, <2>2 DEF P!WithMeet
  <2>4. result[p].bbOutput =
          P!FlowSide(PostponableTransfer(DOMAIN domain, input.member[p], w))
    BY <1>2, <1>5, <1>7, <2>1, <2>2 DEF P!Solved, P!FlowOK, P!FirstTransfer
  <2>5. P!FlowSide(PostponableTransfer(DOMAIN domain, input.member[p], w)) =
          (input.member[p] \cup w.bbInput) \cap (DOMAIN domain \ w.genSet)
    BY <2>3 DEF P!FlowSide, PostponableTransfer
  <2>6. QED
    BY <1>2, <2>3, <2>4, <2>5
<1>10. result[b].bbInput = P!HeldAt(b, P!MeetInputs(b))
  BY <1>5, <1>7 DEF P!Solved, P!MeetOK
<1>11. P!MeetSide(P!InitialProps(b)) = {}
  BY <1>8 DEF P!MeetSide
<1>12. P!MeetInputs(b) = {result[p].bbOutput : p \in Predecessors(fn, b)}
  BY <1>6 DEF P!MeetInputs, P!FlowSide
<1>13. /\ Predecessors(fn, b) = {} => result[b].bbInput = {}
       /\ Predecessors(fn, b) # {} => result[b].bbInput = IntersectionMeet(P!MeetInputs(b))
  BY <1>6, <1>10, <1>11 DEF P!HeldAt
<1>14. ASSUME NEW p \in Predecessors(fn, b)
       PROVE  result[b].bbInput \subseteq (earliest[p] \cup result[p].bbInput) \ InfoMap[p].genSet
  <2>1. p \in Blocks(fn)
    BY DEF Predecessors
  <2>2. result[b].bbInput \subseteq result[p].bbOutput
    BY <1>12, <1>13, <1>14 DEF IntersectionMeet
  <2>3. QED
    BY <1>9, <2>1, <2>2
<1>15. QED
  BY <1>13, <1>14

(***************************************************************************)
(* What can be postponed to a block is anticipated there: it was at the    *)
(* predecessors, the blocks before this one, and none of them generates    *)
(* it.                                                                     *)
(***************************************************************************)
LEMMA PostponedIsAnticipated ==
  ASSUME FlowInv, stage = "postponable", pc = "done", Settles, NEW b \in Blocks(fn)
  PROVE  result[b].bbInput \subseteq anticipated[b]
<1>. DEFINE Bad == {k \in 1 .. Len(fn.po) : ~ result[fn.po[k]].bbInput \subseteq anticipated[fn.po[k]]}
<1>1. /\ IsFunction(fn) /\ Blocks(fn) \subseteq Visited(fn) /\ Len(fn.po) \in Nat
      /\ \A k \in 1 .. Len(fn.po) : fn.po[k] \in Blocks(fn)
      /\ AllNeeded(anticipated) /\ \A x \in Blocks(fn) : earliest[x] \subseteq anticipated[x]
  BY DEF FlowInv, ScopeInv, VectorsInv, NeededOK, EarliestOK, Later, IsFunction
<1>2. SUFFICES ASSUME Bad # {} PROVE FALSE
  BY <1>1 DEF Visited
<1>3. PICK m \in Bad : \A k \in Bad : k <= m
  BY <1>1, <1>2, LargestPosition
<1>4. PICK x \in Blocks(fn) : x = fn.po[m]
  BY <1>1, <1>3
<1>5. PICK i \in result[x].bbInput : i \notin anticipated[x]
  BY <1>3, <1>4
<1>6. PICK p \in Predecessors(fn, x) : TRUE
  BY <1>5, PostponableAnswer
<1>7. p \in Blocks(fn) /\ x \in Successors(fn, p)
  BY <1>6 DEF Predecessors
<1>8. PICK j \in 1 .. Len(fn.po) : fn.po[j] = p
  BY <1>1, <1>7 DEF Visited
<1>9. m < j
  BY <1>3, <1>4, <1>7, <1>8 DEF Settles, Acyclic
<1>10. result[p].bbInput \subseteq anticipated[p]
  <2>1. j \notin Bad
    BY <1>3, <1>8, <1>9
  <2>2. QED
    BY <1>8, <2>1
<1>11. i \in earliest[p] \cup result[p].bbInput /\ i \notin InfoMap[p].genSet
  BY <1>5, <1>6, PostponableAnswer
<1>12. i \in anticipated[p]
  BY <1>1, <1>7, <1>10, <1>11
<1>13. Needed(anticipated, p, i)
  BY <1>1, <1>7, <1>12 DEF AllNeeded
<1>14. QED
  BY <1>5, <1>7, <1>11, <1>13 DEF Needed

\* What the used analysis answers with.
LEMMA UsedAnswer ==
  ASSUME FlowInv, stage = "used", pc = "done", Settles, NEW b \in Blocks(fn)
  PROVE  /\ \A s \in Successors(fn, b) : result[s].bbInput \subseteq result[b].bbOutput
         /\ result[b].bbInput =
              (DOMAIN domain \ latest[b]) \cap (InfoMap[b].genSet \cup result[b].bbOutput)
         /\ result[b].bbInput \subseteq DOMAIN domain
         /\ result[b].bbOutput \subseteq DOMAIN domain
<1>1. U!FInv /\ input = CurrentInput([x \in Blocks(fn) |-> latest[x]])
  BY DEF FlowInv, AnalysisInv
<1>2. /\ U!F = fn /\ input.fn = fn /\ input.domain = DOMAIN domain /\ input.infoMap = InfoMap
      /\ \A x \in Blocks(fn) : input.member[x] = latest[x]
  BY <1>1 DEF U!F, CurrentInput
<1>3. /\ result \in [Blocks(fn) -> U!Props(DOMAIN domain)]
      /\ IsFunction(fn) /\ Blocks(fn) \subseteq Visited(fn)
  BY <1>1, <1>2, SameCFGU DEF U!FInv, U!TInv, U!TypeOK, FlowInv, ScopeInv
<1>4. U!Plain /\ U!OddCap
  BY <1>2, <1>3, SameCFGU DEF U!Plain, U!OddCap, Settles
<1>5. U!Solved(b)
  BY <1>1, <1>2, <1>4, SameCFGU DEF U!FInv, U!AnswerIsSolution
<1>6. U!Neighbours(b) = Successors(fn, b)
  BY <1>2, SameCFGU DEF U!Neighbours
<1>7. /\ U!MeetSide(result[b]) = result[b].bbOutput
      /\ U!FlowSide(result[b]) = result[b].bbInput
  BY DEF U!MeetSide, U!FlowSide
<1>8. PICK init : init = U!InitialProps(b)
  OBVIOUS
<1>9. /\ init.genSet = InfoMap[b].genSet
      /\ DOMAIN init = {"bbInput", "bbOutput", "genSet", "killSet"}
  BY <1>2, <1>8 DEF U!InitialProps
<1>10. PICK w : w = U!WithMeet(init, result[b].bbOutput)
  OBVIOUS
<1>11. /\ w.bbOutput = result[b].bbOutput /\ w.genSet = InfoMap[b].genSet
       /\ DOMAIN w = {"bbInput", "bbOutput", "genSet", "killSet"}
  BY <1>9, <1>10 DEF U!WithMeet
<1>12. result[b].bbInput = U!FlowSide(UsedTransfer(DOMAIN domain, input.member[b], w))
  BY <1>2, <1>5, <1>7, <1>8, <1>10 DEF U!Solved, U!FlowOK, U!FirstTransfer
<1>13. U!FlowSide(UsedTransfer(DOMAIN domain, input.member[b], w)) =
         (DOMAIN domain \ input.member[b]) \cap (w.genSet \cup w.bbOutput)
  BY <1>11 DEF U!FlowSide, UsedTransfer
<1>14. U!MeetInputs(b) = {result[s].bbInput : s \in Successors(fn, b)}
  BY <1>6 DEF U!MeetInputs, U!FlowSide
<1>15. ASSUME NEW s \in Successors(fn, b) PROVE result[s].bbInput \subseteq result[b].bbOutput
  <2>1. result[b].bbOutput = UnionMeet(U!MeetInputs(b))
    BY <1>5, <1>6, <1>7, <1>15 DEF U!Solved, U!MeetOK, U!HeldAt
  <2>2. QED
    BY <1>14, <1>15, <2>1 DEF UnionMeet
<1>16. result[b].bbInput \subseteq DOMAIN domain /\ result[b].bbOutput \subseteq DOMAIN domain
  BY <1>3 DEF U!Props
<1>17. QED
  BY <1>2, <1>11, <1>12, <1>13, <1>15, <1>16

(***************************************************************************)
(* What is replaced and not inserted was available and is not placeable,   *)
(* so the predecessors' was placed, or was theirs already.                 *)
(***************************************************************************)
LEMMA ReplacedIsSupplied ==
  ASSUME FlowInv, stage = "used", pc = "done", Settles, GetPoints
  PROVE  \E S : Supplied(S)'
<1>1. /\ toInsert' = [b \in Blocks(fn) |-> result[b].bbOutput \cap latest[b]]
      /\ toReplace' = [b \in Blocks(fn) |->
           InfoMap[b].genSet \cap (result[b].bbOutput \cup (DOMAIN domain \ latest[b]))]
      /\ fn' = fn /\ domain' = domain
  BY DEF GetPoints, Leave
<1>2. /\ NeededOK /\ EarliestOK /\ LatestOK /\ DOMAIN domain = DOMAIN GetExpressions(fn)
      /\ IsFunction(fn)
  BY DEF FlowInv, VectorsInv, FunctionInv, Later, ScopeInv
<1>3. PICK av : Carried(av) /\ \A b \in Blocks(fn) : anticipated[b] \ av[b] \subseteq earliest[b]
  BY <1>2 DEF EarliestOK
<1>4. PICK pl : Chosen(pl)
  BY <1>2 DEF LatestOK
<1>5. PICK S : S = [b \in Blocks(fn) |-> {i \in result[b].bbInput \cap av[b] : i \notin pl[b]}]
  OBVIOUS
<1>6. S \in VectorsFor(fn)
  <2>1. \A b \in Blocks(fn) : S[b] \in SUBSET DOMAIN GetExpressions(fn)
    BY <1>2, <1>5, UsedAnswer
  <2>2. QED
    BY <1>5, <2>1 DEF VectorsFor
<1>7. ASSUME NEW b \in Blocks(fn), NEW i \in toReplace'[b]
      PROVE  i \in toInsert'[b] \cup S[b]
  <2>1. i \in InfoMap[b].genSet /\ i \in result[b].bbOutput \cup (DOMAIN domain \ latest[b])
    BY <1>1, <1>7
  <2>2. CASE i \in latest[b]
    BY <1>1, <2>1, <2>2
  <2>3. CASE i \notin latest[b]
    <3>1. i \notin pl[b] /\ i \notin earliest[b]
      BY <1>4, <2>1, <2>3 DEF Chosen
    <3>2. i \in DOMAIN domain
      BY <2>1, UsedAnswer
    <3>3. i \in result[b].bbInput
      BY <2>1, <2>3, <3>2, UsedAnswer
    <3>4. i \in anticipated[b]
      BY <1>2, <2>1 DEF NeededOK, GeneratedIsNeeded
    <3>5. i \in av[b]
      BY <1>3, <3>1, <3>4
    <3>6. QED
      BY <1>5, <3>1, <3>3, <3>5
  <2>4. QED
    BY <2>2, <2>3
<1>8. ASSUME NEW b \in Blocks(fn), NEW i \in S[b]
      PROVE  /\ Predecessors(fn, b) # {}
             /\ \A p \in Predecessors(fn, b) : i \in toInsert'[p] \cup S[p]
  <2>1. i \in result[b].bbInput /\ i \in av[b] /\ i \notin pl[b]
    BY <1>5, <1>8
  <2>2. Predecessors(fn, b) # {}
    BY <1>3, <2>1 DEF Carried
  <2>3. ASSUME NEW p \in Predecessors(fn, b) PROVE i \in toInsert'[p] \cup S[p]
    <3>1. p \in Blocks(fn) /\ b \in Successors(fn, p)
      BY DEF Predecessors
    <3>2. i \in anticipated[p] \cup av[p]
      BY <1>3, <2>1 DEF Carried
    <3>3. i \in result[p].bbOutput /\ i \in DOMAIN domain
      BY <2>1, <3>1, UsedAnswer
    <3>4. CASE i \in latest[p]
      BY <1>1, <3>1, <3>3, <3>4
    <3>5. CASE i \notin latest[p]
      <4>1. i \in result[p].bbInput
        BY <3>1, <3>3, <3>5, UsedAnswer
      <4>2. i \notin pl[p] /\ i \notin earliest[p]
        BY <1>4, <2>1, <3>1, <3>5 DEF Chosen
      <4>3. i \in av[p]
        BY <1>3, <3>1, <3>2, <4>2
      <4>4. QED
        BY <1>5, <3>1, <4>1, <4>2, <4>3
    <3>6. QED
      BY <3>4, <3>5
  <2>4. QED
    BY <2>2, <2>3
<1>9. VectorsFor(fn)' = VectorsFor(fn)
  BY <1>1 DEF VectorsFor
<1>10. Supplied(S)'
  BY <1>1, <1>6, <1>7, <1>8, <1>9 DEF Supplied
<1>11. QED
  BY <1>10

-----------------------------------------------------------------------------
LEMMA FlowInit == Init => FlowInv
<1>1. Init => /\ stage = "start" /\ pc = "idle"
              /\ idx = 1 /\ iter = 0 /\ prev = << >> /\ converged = FALSE
  BY DEF Init, Anticipated!Init
<1>2. QED
  BY <1>1, ScopeInit DEF FlowInv, FunctionInv, AnalysisInv, IdleOK, VectorsInv, Later

\* What the invariant says of a vector depends on the function, the domain and
\* the vectors computed so far.
LEMMA SameFunction ==
  ASSUME fn' = fn, domain' = domain
  PROVE  /\ InfoMap' = InfoMap /\ (Settles' <=> Settles)
         /\ VectorsFor(fn)' = VectorsFor(fn)
         /\ \A m : CurrentInput(m)' = CurrentInput(m)
         /\ \A ant : AllNeeded(ant)' <=> AllNeeded(ant)
         /\ \A ant : GeneratedIsNeeded(ant)' <=> GeneratedIsNeeded(ant)
<1>1. InfoMap' = InfoMap
  BY DEF InfoMap
<1>2. QED
  BY <1>1 DEF CurrentInput, AllNeeded, GeneratedIsNeeded, Needed, Settles, VectorsFor

LEMMA SameAnticipated ==
  ASSUME fn' = fn, domain' = domain, anticipated' = anticipated
  PROVE  (AnticipatedOK' <=> AnticipatedOK) /\ (NeededOK' <=> NeededOK)
  BY SameFunction DEF AnticipatedOK, NeededOK

LEMMA SameEarliest ==
  ASSUME fn' = fn, domain' = domain, anticipated' = anticipated, earliest' = earliest
  PROVE  EarliestOK' <=> EarliestOK
<1>1. \A av : Carried(av)' <=> Carried(av)
  BY DEF Carried
<1>2. QED
  BY <1>1, SameFunction DEF EarliestOK

LEMMA SameLatest ==
  ASSUME fn' = fn, domain' = domain, UNCHANGED <<anticipated, earliest, latest>>
  PROVE  LatestOK' <=> LatestOK
<1>1. \A pl : Chosen(pl)' <=> Chosen(pl)
  BY SameFunction DEF Chosen
<1>2. QED
  BY <1>1, SameFunction DEF LatestOK

LEMMA SamePoints ==
  ASSUME fn' = fn, domain' = domain, UNCHANGED <<latest, toInsert, toReplace>>
  PROVE  /\ PointsOK' <=> PointsOK
         /\ \A S : Supplied(S)' <=> Supplied(S)
<1>1. \A S : Supplied(S)' <=> Supplied(S)
  BY SameFunction DEF Supplied
<1>2. QED
  BY <1>1, SameFunction DEF PointsOK

LEMMA SameVectors ==
  ASSUME VectorsInv, fn' = fn, domain' = domain, vectors' = vectors, stage' = stage
  PROVE  VectorsInv'
<1>1. UNCHANGED <<anticipated, earliest, latest, toInsert, toReplace>>
  BY DEF vectors
<1>2. QED
  BY <1>1, SameAnticipated, SameEarliest, SameLatest, SamePoints DEF VectorsInv

LEMMA FlowRunOnFunction ==
  ASSUME FlowInv, NEW f \in Functions, RunOnFunction(f)
  PROVE  FlowInv'
<1>1. ScopeInv'
  BY ScopeRunOnFunction DEF FlowInv
<1>2. /\ stage' = "anticipated" /\ fn' = Preprocessed(f) /\ domain' = GetExpressions(fn')
      /\ UNCHANGED dfaVars /\ pc = "idle"
  BY DEF RunOnFunction, FlowInv, ScopeInv
<1>3. FunctionInv'
  BY <1>2 DEF FunctionInv
<1>4. IdleOK' /\ (pc = "idle")'
  BY <1>2 DEF FlowInv, AnalysisInv, IdleOK, dfaVars
<1>5. AnalysisInv'
  BY <1>2, <1>4, IdleInvariantsNext DEF AnalysisInv
<1>6. QED
  BY <1>1, <1>2, <1>3, <1>5 DEF FlowInv, VectorsInv, Later

LEMMA FlowConstruct == FlowInv /\ ConstructAnalysis => FlowInv'
<1>. SUFFICES ASSUME FlowInv, ConstructAnalysis PROVE FlowInv'
  OBVIOUS
<1>. DEFINE m == [b \in Blocks(fn) |-> Member(b)]
<1>1. /\ Anticipated!Construct(CurrentInput(m)) /\ stage # "start"
      /\ UNCHANGED <<fn, stage, domain, vectors, ir, sort>>
  BY DEF ConstructAnalysis, CurrentInput
<1>2. /\ pc = "idle" /\ pc' = "initialize" /\ input' = CurrentInput(m)
  BY <1>1 DEF Anticipated!Construct
<1>3. ScopeInv' /\ FunctionInv' /\ VectorsInv'
  <2>1. VectorsInv'
    <3>1. fn' = fn /\ domain' = domain /\ vectors' = vectors /\ stage' = stage
      BY <1>1
    <3>2. QED
      BY <3>1, SameVectors DEF FlowInv
  <2>2. ScopeInv'
    BY ScopeConstruct DEF FlowInv
  <2>3. FunctionInv'
    BY <1>1 DEF FlowInv, FunctionInv
  <2>4. QED
    BY <2>1, <2>2, <2>3
<1>4. IdleOK'
  BY <1>2 DEF IdleOK
<1>5. ASSUME stage = "anticipated"
      PROVE  A!FInv' /\ input' = CurrentInput([b \in Blocks(fn) |-> {}])'
  <2>1. m = [b \in Blocks(fn) |-> {}]
    BY <1>5 DEF Member
  <2>2. m \in VectorsFor(fn)
    BY <1>5, <2>1 DEF VectorsFor
  <2>3. CurrentInput(m) \in AnalysisInputs
    BY <1>1, <2>2, CurrentInputLemma DEF FlowInv
  <2>4. A!FInv'
    BY <1>1, <1>5, <2>3, AnticipatedMaps, AnticipatedApplies, A!FConstruct
       DEF FlowInv, AnalysisInv
  <2>5. QED
    BY <1>1, <1>2, <2>1, <2>4, SameFunction DEF vectors
<1>6. ASSUME stage = "available"
      PROVE  V!FInv' /\ input' = CurrentInput([b \in Blocks(fn) |-> anticipated[b]])'
  <2>1. m = [b \in Blocks(fn) |-> anticipated[b]]
    BY <1>6 DEF Member
  <2>2. m \in VectorsFor(fn)
    BY <1>6, <2>1 DEF VectorsFor, FlowInv, VectorsInv, AnticipatedOK, Later
  <2>3. CurrentInput(m) \in AnalysisInputs
    BY <1>1, <2>2, CurrentInputLemma DEF FlowInv
  <2>4. V!FInv'
    BY <1>1, <1>6, <2>3, WillBeAvailableMaps, WillBeAvailableApplies, V!FConstruct
       DEF FlowInv, AnalysisInv
  <2>5. QED
    BY <1>1, <1>2, <2>1, <2>4, SameFunction DEF vectors
<1>7. ASSUME stage = "postponable"
      PROVE  P!FInv' /\ input' = CurrentInput([b \in Blocks(fn) |-> earliest[b]])'
  <2>1. m = [b \in Blocks(fn) |-> earliest[b]]
    BY <1>7 DEF Member
  <2>2. m \in VectorsFor(fn)
    BY <1>7, <2>1 DEF VectorsFor,
                         FlowInv, VectorsInv, AnticipatedOK, EarliestOK, Later
  <2>3. CurrentInput(m) \in AnalysisInputs
    BY <1>1, <2>2, CurrentInputLemma DEF FlowInv
  <2>4. P!FInv'
    BY <1>1, <1>7, <2>3, PostponableMaps, PostponableApplies, P!FConstruct
       DEF FlowInv, AnalysisInv
  <2>5. QED
    BY <1>1, <1>2, <2>1, <2>4, SameFunction DEF vectors
<1>8. ASSUME stage = "used"
      PROVE  U!FInv' /\ input' = CurrentInput([b \in Blocks(fn) |-> latest[b]])'
  <2>1. m = [b \in Blocks(fn) |-> latest[b]]
    BY <1>8 DEF Member
  <2>2. m \in VectorsFor(fn)
    BY <1>8, <2>1 DEF VectorsFor, FlowInv, VectorsInv, LatestOK, Later
  <2>3. CurrentInput(m) \in AnalysisInputs
    BY <1>1, <2>2, CurrentInputLemma DEF FlowInv
  <2>4. U!FInv'
    BY <1>1, <1>8, <2>3, UsedMaps, UsedApplies, U!FConstruct
       DEF FlowInv, AnalysisInv
  <2>5. QED
    BY <1>1, <1>2, <2>1, <2>4, SameFunction DEF vectors
<1>9. AnalysisInv'
  BY <1>1, <1>4, <1>5, <1>6, <1>7, <1>8 DEF AnalysisInv
<1>10. QED
  BY <1>3, <1>9 DEF FlowInv

LEMMA FlowAnalyse == FlowInv /\ Analyse => FlowInv'
<1>. SUFFICES ASSUME FlowInv, Analyse PROVE FlowInv'
  OBVIOUS
<1>1. /\ UNCHANGED <<fn, stage, domain, vectors, ir, sort>>
      /\ pc # "idle" /\ pc' # "idle" /\ input' = input
  BY AnalyseSteps DEF RunStep
<1>2. ScopeInv' /\ FunctionInv' /\ VectorsInv' /\ IdleOK'
  <2>1. VectorsInv'
    <3>1. fn' = fn /\ domain' = domain /\ vectors' = vectors /\ stage' = stage
      BY <1>1
    <3>2. QED
      BY <3>1, SameVectors DEF FlowInv
  <2>2. ScopeInv'
    BY ScopeAnalyse DEF FlowInv
  <2>3. FunctionInv' /\ IdleOK'
    BY <1>1 DEF FlowInv, FunctionInv, IdleOK
  <2>4. QED
    BY <2>1, <2>2, <2>3
<1>3. ASSUME stage = "anticipated"
      PROVE  A!FInv' /\ input' = CurrentInput([b \in Blocks(fn) |-> {}])'
  <2>1. A!Run
    BY <1>3, AnticipatedMaps DEF Analyse
  <2>2. A!FInv'
    BY <1>3, <2>1, AnticipatedApplies, A!FNext DEF A!Next, FlowInv, AnalysisInv
  <2>3. QED
    BY <1>1, <1>3, <2>2, SameFunction DEF FlowInv, AnalysisInv, vectors
<1>4. ASSUME stage = "available"
      PROVE  V!FInv' /\ input' = CurrentInput([b \in Blocks(fn) |-> anticipated[b]])'
  <2>1. V!Run
    BY <1>4, WillBeAvailableMaps DEF Analyse
  <2>2. V!FInv'
    BY <1>4, <2>1, WillBeAvailableApplies, V!FNext DEF V!Next, FlowInv, AnalysisInv
  <2>3. QED
    BY <1>1, <1>4, <2>2, SameFunction DEF FlowInv, AnalysisInv, vectors
<1>5. ASSUME stage = "postponable"
      PROVE  P!FInv' /\ input' = CurrentInput([b \in Blocks(fn) |-> earliest[b]])'
  <2>1. P!Run
    BY <1>5, PostponableMaps DEF Analyse
  <2>2. P!FInv'
    BY <1>5, <2>1, PostponableApplies, P!FNext DEF P!Next, FlowInv, AnalysisInv
  <2>3. QED
    BY <1>1, <1>5, <2>2, SameFunction DEF FlowInv, AnalysisInv, vectors
<1>6. ASSUME stage = "used"
      PROVE  U!FInv' /\ input' = CurrentInput([b \in Blocks(fn) |-> latest[b]])'
  <2>1. U!Run
    BY <1>6, UsedMaps DEF Analyse
  <2>2. U!FInv'
    BY <1>6, <2>1, UsedApplies, U!FNext DEF U!Next, FlowInv, AnalysisInv
  <2>3. QED
    BY <1>1, <1>6, <2>2, SameFunction DEF FlowInv, AnalysisInv, vectors
<1>7. AnalysisInv'
  BY <1>1, <1>2, <1>3, <1>4, <1>5, <1>6 DEF AnalysisInv
<1>8. QED
  BY <1>2, <1>7 DEF FlowInv

\* What stays as it is when an analysis is left behind.
LEMMA FlowLeave ==
  ASSUME FlowInv, GetAnticipated \/ GetEarliest \/ GetLatest \/ GetPoints
  PROVE  /\ ScopeInv' /\ FunctionInv' /\ AnalysisInv'
         /\ fn' = fn /\ domain' = domain /\ pc = "done"
<1>1. /\ stage \in {"anticipated", "available", "postponable", "used"}
      /\ stage' \in {"available", "postponable", "used", "insert"}
      /\ pc = "done" /\ pc' = "idle" /\ fn' = fn /\ domain' = domain
      /\ Anticipated!Discard
  BY LeaveSteps DEF GetAnticipated, GetEarliest, GetLatest, GetPoints, Leave
<1>2. ScopeInv' /\ FunctionInv'
  BY <1>1, ScopeLeave DEF FlowInv, FunctionInv
<1>3. IdleOK' /\ (pc = "idle")'
  BY <1>1 DEF Anticipated!Discard, IdleOK
<1>4. AnalysisInv'
  BY <1>1, <1>3, IdleInvariantsNext DEF AnalysisInv
<1>5. QED
  BY <1>1, <1>2, <1>4

LEMMA FlowGetAnticipated == FlowInv /\ GetAnticipated => FlowInv'
<1>. SUFFICES ASSUME FlowInv, GetAnticipated PROVE FlowInv'
  OBVIOUS
<1>1. /\ stage = "anticipated" /\ stage' = "available"
      /\ anticipated' = [b \in Blocks(fn) |-> result[b].bbInput]
  BY DEF GetAnticipated, Leave
<1>2. AnticipatedOK' /\ NeededOK'
  BY <1>1, FlowLeave, AnticipatedAnswer, SameFunction DEF AnticipatedOK, NeededOK
<1>3. VectorsInv'
  BY <1>1, <1>2 DEF VectorsInv
<1>4. QED
  BY <1>3, FlowLeave DEF FlowInv

LEMMA FlowGetEarliest == FlowInv /\ GetEarliest => FlowInv'
<1>. SUFFICES ASSUME FlowInv, GetEarliest PROVE FlowInv'
  OBVIOUS
<1>1. /\ stage = "available" /\ stage' = "postponable" /\ anticipated' = anticipated
      /\ earliest' = [b \in Blocks(fn) |-> Earliest(b)]
      /\ fn' = fn /\ domain' = domain /\ pc = "done"
  BY FlowLeave DEF GetEarliest, Leave
<1>2. AnticipatedOK' /\ NeededOK'
  BY <1>1, SameAnticipated DEF FlowInv, VectorsInv, Later
<1>3. \A b \in Blocks(fn) : earliest'[b] = anticipated[b] \ result[b].bbInput
  BY <1>1 DEF Earliest
<1>4. ASSUME Settles PROVE \E av : /\ Carried(av)'
                                  /\ \A b \in Blocks(fn) : anticipated[b] \ av[b] \subseteq earliest'[b]
  <2>1. PICK av : av = [b \in Blocks(fn) |-> result[b].bbInput]
    OBVIOUS
  <2>2. ASSUME NEW b \in Blocks(fn), NEW i \in av[b], NEW p \in Predecessors(fn, b)
        PROVE  i \in anticipated[p] \cup av[p]
    <3>1. p \in Blocks(fn)
      BY DEF Predecessors
    <3>2. QED
      BY <1>1, <1>4, <2>1, <2>2, <3>1, WillBeAvailableAnswer
  <2>3. ASSUME NEW b \in Blocks(fn), NEW i \in av[b] PROVE Predecessors(fn, b) # {}
    BY <1>1, <1>4, <2>1, <2>3, WillBeAvailableAnswer
  <2>4. Carried(av)'
    BY <1>1, <2>2, <2>3 DEF Carried
  <2>5. QED
    BY <1>3, <2>1, <2>4
<1>5. EarliestOK'
  BY <1>1, <1>3, <1>4, SameFunction DEF EarliestOK
<1>6. VectorsInv'
  BY <1>1, <1>2, <1>5 DEF VectorsInv, Later
<1>7. QED
  BY <1>6, FlowLeave DEF FlowInv

LEMMA FlowGetLatest == FlowInv /\ GetLatest => FlowInv'
<1>. SUFFICES ASSUME FlowInv, GetLatest PROVE FlowInv'
  OBVIOUS
<1>1. /\ stage = "postponable" /\ stage' = "used" /\ UNCHANGED <<anticipated, earliest>>
      /\ latest' = [b \in Blocks(fn) |-> Latest(b)]
      /\ fn' = fn /\ domain' = domain /\ pc = "done"
  BY FlowLeave DEF GetLatest, Leave
<1>2. AnticipatedOK /\ EarliestOK /\ AnticipatedOK' /\ NeededOK' /\ EarliestOK'
  BY <1>1, SameAnticipated, SameEarliest DEF FlowInv, VectorsInv, Later
<1>3. \A b \in Blocks(fn) : latest'[b] \subseteq earliest[b] \cup result[b].bbInput
  BY <1>1 DEF Latest, Placeable
<1>4. ASSUME Settles, NEW b \in Blocks(fn) PROVE latest'[b] \subseteq anticipated[b]
  <2>1. result[b].bbInput \subseteq anticipated[b]
    BY <1>1, <1>4, PostponedIsAnticipated
  <2>2. QED
    BY <1>2, <1>3, <2>1 DEF EarliestOK
<1>5. latest' \in VectorsFor(fn)
  <2>1. \A b \in Blocks(fn) : result[b].bbInput \subseteq DOMAIN domain
    BY <1>1, PostponableTyped
  <2>2. DOMAIN domain = DOMAIN GetExpressions(fn)
    BY <1>1 DEF FlowInv, FunctionInv
  <2>3. \A b \in Blocks(fn) : earliest[b] \subseteq DOMAIN domain
    BY <1>2, <2>2 DEF AnticipatedOK, EarliestOK, VectorsFor
  <2>4. \A b \in Blocks(fn) : latest'[b] \in SUBSET DOMAIN GetExpressions(fn)
    BY <1>3, <2>1, <2>2, <2>3
  <2>5. QED
    BY <1>1, <2>4 DEF VectorsFor
<1>6. \E pl : Chosen(pl)'
  <2>1. PICK pl : pl = [b \in Blocks(fn) |-> Placeable(b)]
    OBVIOUS
  <2>2. IsFunction(fn)
    BY <1>1 DEF FlowInv, ScopeInv
  <2>3. \A b \in Blocks(fn) : Successors(fn, b) \subseteq Blocks(fn)
    BY <2>2 DEF IsFunction, Successors
  <2>4. ASSUME NEW b \in Blocks(fn)
        PROVE  /\ earliest[b] \subseteq pl[b]
               /\ latest'[b] = {i \in pl[b] : \/ i \in InfoMap[b].genSet
                                             \/ \E s \in Successors(fn, b) : i \notin pl[s]}
    BY <1>1, <2>1, <2>3 DEF Latest, Placeable
  <2>5. Chosen(pl)'
    BY <1>1, <2>4, SameFunction DEF Chosen
  <2>6. QED
    BY <2>5
<1>7. LatestOK'
  BY <1>1, <1>4, <1>5, <1>6, SameFunction DEF LatestOK
<1>8. VectorsInv'
  BY <1>1, <1>2, <1>7 DEF VectorsInv, Later
<1>9. QED
  BY <1>8, FlowLeave DEF FlowInv

LEMMA FlowGetPoints == FlowInv /\ GetPoints => FlowInv'
<1>. SUFFICES ASSUME FlowInv, GetPoints PROVE FlowInv'
  OBVIOUS
<1>1. /\ stage = "used" /\ stage' = "insert" /\ UNCHANGED <<anticipated, earliest, latest>>
      /\ toInsert' = [b \in Blocks(fn) |-> result[b].bbOutput \cap latest[b]]
      /\ fn' = fn /\ domain' = domain /\ pc = "done"
  BY FlowLeave DEF GetPoints, Leave
<1>2. AnticipatedOK' /\ NeededOK' /\ EarliestOK' /\ LatestOK'
  BY <1>1, SameAnticipated, SameEarliest, SameLatest DEF FlowInv, VectorsInv, Later
<1>3. PointsOK'
  BY <1>1, ReplacedIsSupplied, SameFunction DEF PointsOK
<1>4. VectorsInv'
  BY <1>1, <1>2, <1>3 DEF VectorsInv
<1>5. QED
  BY <1>4, FlowLeave DEF FlowInv

LEMMA FlowMotion == FlowInv /\ LazyCodeMotion => FlowInv'
<1>. SUFFICES ASSUME FlowInv, LazyCodeMotion PROVE FlowInv'
  OBVIOUS
<1>1. /\ UNCHANGED <<fn, domain, vectors, dfaVars>>
      /\ stage \in {"insert", "replace"} /\ stage' \in {"replace", "end"}
  BY DEF LazyCodeMotion, InsertOCP, VisitBlock, Return
<1>2. ScopeInv' /\ FunctionInv'
  BY <1>1, ScopeMotion DEF FlowInv, FunctionInv
<1>3. AnalysisInv'
  BY <1>1 DEF FlowInv, AnalysisInv, IdleOK, dfaVars
<1>4. VectorsInv'
  BY <1>1, SameAnticipated, SameEarliest, SameLatest, SamePoints
     DEF FlowInv, VectorsInv, vectors, Later
<1>5. QED
  BY <1>2, <1>3, <1>4 DEF FlowInv

LEMMA FlowStutter == FlowInv /\ UNCHANGED vars => FlowInv'
<1>. SUFFICES ASSUME FlowInv, UNCHANGED vars PROVE FlowInv'
  OBVIOUS
<1>1. UNCHANGED <<fn, stage, domain, vectors, dfaVars>>
  BY DEF vars
<1>2. ScopeInv' /\ FunctionInv' /\ VectorsInv'
  <2>1. VectorsInv'
    <3>1. fn' = fn /\ domain' = domain /\ vectors' = vectors /\ stage' = stage
      BY <1>1
    <3>2. QED
      BY <3>1, SameVectors DEF FlowInv
  <2>2. ScopeInv' /\ FunctionInv'
    BY <1>1 DEF FlowInv, ScopeInv, FunctionInv, dfaVars
  <2>3. QED
    BY <2>1, <2>2
<1>3. IdleOK' /\ pc' = pc /\ input' = input
  BY <1>1 DEF FlowInv, AnalysisInv, IdleOK, dfaVars
<1>4. stage = "anticipated" => A!FInv'
  BY <1>1, AnticipatedApplies, A!FStutter DEF FlowInv, AnalysisInv, A!vars, dfaVars
<1>5. stage = "available" => V!FInv'
  BY <1>1, WillBeAvailableApplies, V!FStutter DEF FlowInv, AnalysisInv, V!vars, dfaVars
<1>6. stage = "postponable" => P!FInv'
  BY <1>1, PostponableApplies, P!FStutter DEF FlowInv, AnalysisInv, P!vars, dfaVars
<1>7. stage = "used" => U!FInv'
  BY <1>1, UsedApplies, U!FStutter DEF FlowInv, AnalysisInv, U!vars, dfaVars
<1>8. AnalysisInv'
  BY <1>1, <1>3, <1>4, <1>5, <1>6, <1>7, SameFunction DEF FlowInv, AnalysisInv, vectors
<1>9. QED
  BY <1>2, <1>8 DEF FlowInv

LEMMA FlowNext == FlowInv /\ [Next]_vars => FlowInv'
<1>. SUFFICES ASSUME FlowInv, [Next]_vars PROVE FlowInv'
  OBVIOUS
<1>1. CASE Pass
  BY <1>1, FlowConstruct, FlowAnalyse, FlowGetAnticipated, FlowGetEarliest, FlowGetLatest,
     FlowGetPoints, FlowMotion DEF Pass
<1>2. CASE \E f \in Functions : RunOnFunction(f)
  BY <1>2, FlowRunOnFunction
<1>3. CASE UNCHANGED vars
  BY <1>3, FlowStutter
<1>4. QED
  BY <1>1, <1>2, <1>3 DEF Next

LEMMA FlowHolds == Spec => []FlowInv
  BY FlowInit, FlowNext, PTL DEF Spec

(***************************************************************************)
(* Without loops, and with an odd cap on sweeps, no path is made to        *)
(* evaluate what it would not have (pre.cpp:197): wherever a temporary is  *)
(* inserted the expression is anticipated, which means what it says.       *)
(***************************************************************************)
THEOREM DownSafety ==
  ASSUME MaxSweeps % 2 = 1
  PROVE  Spec => []InsertionsAreDownSafe
<1>1. FlowInv => InsertionsAreDownSafe
  <2>. SUFFICES ASSUME FlowInv, stage = "insert", Acyclic(fn), NEW b \in Blocks(fn)
                PROVE  /\ toInsert[b] \subseteq anticipated[b]
                       /\ \A i \in anticipated[b] : Needed(anticipated, b, i)
    BY DEF InsertionsAreDownSafe, Needed
  <2>1. Settles
    BY DEF Settles
  <2>2. QED
    BY <2>1 DEF FlowInv, VectorsInv, NeededOK, LatestOK, PointsOK, Later, AllNeeded
<1>2. QED
  BY <1>1, FlowHolds, PTL

-----------------------------------------------------------------------------
(***************************************************************************)
(* The traversal hands on what the blocks are supplied with: a block that  *)
(* has been visited has told each of its successors of every expression it *)
(* inserts or is supplied with.                                            *)
(***************************************************************************)
Knows(x, i, b) == \E k \in DOMAIN state[x][i] : state[x][i][k][2] = b

HandedOn(S) ==
  \A b \in Sorted : \A i \in (toInsert[b] \cup S[b]) \cap DOMAIN domain :
    \A x \in Successors(fn, b) : Knows(x, i, b)

HandedInv == stage \in {"replace", "end"} => \A S : Supplied(S) => HandedOn(S)

LEMMA NothingSortedYet == ScopeInv /\ InsertOCP => Sorted' = {}
<1>. SUFFICES ASSUME ScopeInv, InsertOCP PROVE Sorted' = {}
  OBVIOUS
<1>1. /\ stage = "insert" /\ fn' = fn /\ Q' = <<Entry>>
      /\ inDeg' = [b \in Blocks(fn) |-> Cardinality(Predecessors(fn, b))]
  BY DEF InsertOCP
<1>2. IsFunction(fn) /\ Blocks(fn) \subseteq Visited(fn)
  BY <1>1 DEF ScopeInv, Later
<1>3. ASSUME NEW b \in Blocks(fn) \ {Entry} PROVE inDeg'[b] # 0
  <2>1. Predecessors(fn, b) # {} /\ IsFiniteSet(Predecessors(fn, b))
    BY <1>2, <1>3, BlocksLemma, PredecessorsLemma
  <2>2. QED
    BY <1>1, <1>3, <2>1, FS_EmptySet
<1>4. ToSet(Q') = {Entry}
  BY <1>1 DEF ToSet
<1>5. QED
  BY <1>1, <1>3, <1>4 DEF Sorted

\* A block that is visited has been told by all its predecessors.
LEMMA HeadIsTold ==
  ASSUME IsFunction(fn), QueueOK, DegreesOK, Q # << >>
  PROVE  Head(Q) \in Blocks(fn) /\ Predecessors(fn, Head(Q)) \subseteq Sorted
<1>1. PICK b : b = Head(Q)
  OBVIOUS
<1>2. Q \in Seq(Blocks(fn)) /\ IsInjective(Q) /\ \A x \in ToSet(Q) : inDeg[x] = 0
  BY DEF QueueOK
<1>3. b \in Blocks(fn) /\ inDeg[b] = 0
  BY <1>1, <1>2, TailLemma
<1>4. IsFiniteSet(Awaited(b)) /\ Cardinality(Awaited(b)) = 0
  BY <1>3, PredecessorsLemma DEF DegreesOK
<1>5. Awaited(b) = {}
  BY <1>4, FS_EmptySet
<1>6. QED
  BY <1>1, <1>3, <1>5 DEF Awaited

\* What a block inserts or has been told of reaches its code.
LEMMA ReachesLemma ==
  ASSUME StateOK, NEW b \in Blocks(fn), NEW i \in DOMAIN domain,
         i \in toInsert[b] \/ \E p : Knows(b, i, p)
  PROVE  i \in DOMAIN ReplaceWith(b)
<1>1. PICK s : s = state[b][i]
  OBVIOUS
<1>2. s \in Seq(ToSet(s))
  BY <1>1 DEF StateOK, ListsOK
<1>3. Reaching(b)[i] = s \o (IF i \in toInsert[b] THEN <<<<<<"T", b, i>>, b>>>> ELSE << >>)
  BY <1>1 DEF Reaching
<1>4. Reaching(b)[i] # << >>
  <2>1. CASE i \in toInsert[b]
    <3>1. PICK e : e = <<<<"T", b, i>>, b>>
      OBVIOUS
    <3>2. Reaching(b)[i] = s \o <<e>>
      BY <1>3, <2>1, <3>1
    <3>3. PICK T : T = ToSet(s) \cup {e}
      OBVIOUS
    <3>4. s \in Seq(T) /\ <<e>> \in Seq(T)
      BY <1>2, <3>3
    <3>5. s \o <<e>> # << >>
      BY <3>4
    <3>6. QED
      BY <3>2, <3>5
  <2>2. CASE i \notin toInsert[b]
    <3>1. Reaching(b)[i] = s \o << >>
      BY <1>3, <2>2
    <3>2. DOMAIN s # {}
      BY <1>1, <2>2 DEF Knows
    <3>3. s \o << >> = s /\ s # << >>
      BY <1>2, <3>2
    <3>4. QED
      BY <3>1, <3>3
  <2>3. QED
    BY <2>1, <2>2
<1>5. QED
  BY <1>4 DEF ReplaceWith

LEMMA HandedVisit ==
  ASSUME ScopeInv, SortInv, HandedInv, VisitBlock
  PROVE  HandedInv'
<1>. DEFINE with0 == ReplaceWith(Head(Q))
<1>1. PICK b, R, with : /\ b = Head(Q) /\ with = with0
                        /\ R = {x \in Successors(fn, b) : inDeg[x] = 1}
  OBVIOUS
<1>2. /\ stage = "replace" /\ fn' = fn /\ domain' = domain /\ vectors' = vectors
      /\ Q # << >>
  BY DEF VisitBlock
<1>3. QueueOK /\ DegreesOK /\ StateOK /\ IsFunction(fn)
  BY <1>2 DEF SortInv, ScopeInv
<1>4. /\ b \in Blocks(fn) /\ Predecessors(fn, b) \subseteq Sorted
      /\ Sorted' = Sorted \cup {b}
  <2>1. Turn(b, R)
    BY <1>1, VisitTurns
  <2>2. QED
    BY <1>1, <1>2, <1>3, <2>1, HeadIsTold, TurnLemma
<1>5. state' = [x \in Blocks(fn) |-> [i \in DOMAIN domain |->
                  IF x \in Successors(fn, b) /\ i \in DOMAIN with
                    THEN Append(state[x][i], <<with[i], b>>) ELSE state[x][i]]]
  BY <1>1 DEF VisitBlock
<1>6. ASSUME NEW x \in Blocks(fn), NEW i \in DOMAIN domain
      PROVE  /\ \A c : Knows(x, i, c) => Knows(x, i, c)'
             /\ x \in Successors(fn, b) /\ i \in DOMAIN with => Knows(x, i, b)'
  <2>1. PICK s, e : s = state[x][i] /\ e = <<with[i], b>>
    OBVIOUS
  <2>2. s \in Seq(ToSet(s)) /\ e[2] = b
    BY <1>3, <2>1 DEF StateOK, ListsOK
  <2>3. CASE x \in Successors(fn, b) /\ i \in DOMAIN with
    <3>1. state'[x][i] = Append(s, e)
      BY <1>5, <2>1, <2>3
    <3>2. PICK T : T = ToSet(s) \cup {e}
      OBVIOUS
    <3>3. s \in Seq(T) /\ e \in T
      BY <2>2, <3>2
    <3>4. /\ DOMAIN s \subseteq DOMAIN Append(s, e)
          /\ \A k \in DOMAIN s : Append(s, e)[k] = s[k]
          /\ Len(s) + 1 \in DOMAIN Append(s, e) /\ Append(s, e)[Len(s) + 1] = e
      BY <3>3
    <3>5. QED
      BY <2>1, <2>2, <3>1, <3>4 DEF Knows
  <2>4. CASE ~ (x \in Successors(fn, b) /\ i \in DOMAIN with)
    BY <1>5, <2>4 DEF Knows
  <2>5. QED
    BY <2>3, <2>4
<1>7. ASSUME NEW S, Supplied(S), NEW c \in Sorted',
             NEW i \in (toInsert[c] \cup S[c]) \cap DOMAIN domain,
             NEW x \in Successors(fn, c)
      PROVE  Knows(x, i, c)'
  <2>1. HandedOn(S)
    BY <1>2, <1>7 DEF HandedInv
  <2>2. c \in Blocks(fn) /\ x \in Blocks(fn)
    <3>1. c \in Blocks(fn)
      BY <1>4, <1>7 DEF Sorted
    <3>2. QED
      BY <1>3, <1>7, <3>1 DEF IsFunction, Successors
  <2>3. CASE c \in Sorted
    BY <1>6, <1>7, <2>1, <2>2, <2>3 DEF HandedOn
  <2>4. CASE c = b
    <3>1. i \in toInsert[b] \/ \E p : Knows(b, i, p)
      <4>1. SUFFICES ASSUME i \in S[b], i \notin toInsert[b] PROVE \E p : Knows(b, i, p)
        BY <1>7, <2>4
      <4>2. PICK p \in Predecessors(fn, b) : i \in toInsert[p] \cup S[p]
        BY <1>4, <1>7, <4>1 DEF Supplied
      <4>3. p \in Sorted /\ b \in Successors(fn, p)
        BY <1>4, <4>2 DEF Predecessors
      <4>4. Knows(b, i, p)
        BY <1>7, <2>1, <4>2, <4>3 DEF HandedOn
      <4>5. QED
        BY <4>4
    <3>2. i \in DOMAIN with
      BY <1>1, <1>3, <1>4, <1>7, <3>1, ReachesLemma
    <3>3. QED
      BY <1>6, <1>7, <2>2, <2>4, <3>2
  <2>5. QED
    BY <1>4, <1>7, <2>3, <2>4
<1>8. \A S : Supplied(S)' <=> Supplied(S)
  BY <1>2, SamePoints DEF vectors
<1>9. toInsert' = toInsert
  BY <1>2 DEF vectors
<1>10. QED
  BY <1>2, <1>7, <1>8, <1>9 DEF HandedInv, HandedOn

LEMMA HandedInsert == ScopeInv /\ InsertOCP => HandedInv'
  BY NothingSortedYet DEF HandedInv, HandedOn

LEMMA HandedKept ==
  ASSUME HandedInv, fn' = fn, domain' = domain, vectors' = vectors, sort' = sort,
         stage' \in {"replace", "end"} => stage \in {"replace", "end"}
  PROVE  HandedInv'
<1>1. state' = state /\ Q' = Q /\ inDeg' = inDeg /\ toInsert' = toInsert
  BY DEF sort, vectors
<1>2. Sorted' = Sorted
  BY <1>1 DEF Sorted
<1>3. \A S : Supplied(S)' <=> Supplied(S)
  BY SamePoints DEF vectors
<1>4. \A S : HandedOn(S)' <=> HandedOn(S)
  BY <1>1, <1>2 DEF HandedOn, Knows
<1>5. QED
  BY <1>3, <1>4 DEF HandedInv

LEMMA HandedNext == ScopeInv /\ SortInv /\ HandedInv /\ [Next]_vars => HandedInv'
<1>. SUFFICES ASSUME ScopeInv, SortInv, HandedInv, [Next]_vars PROVE HandedInv'
  OBVIOUS
<1>1. CASE ConstructAnalysis
  BY <1>1, HandedKept DEF ConstructAnalysis
<1>2. CASE Analyse
  <2>1. fn' = fn /\ domain' = domain /\ vectors' = vectors /\ sort' = sort /\ stage' = stage
    BY <1>2, AnalyseSteps
  <2>2. QED
    BY <2>1, HandedKept
<1>3. CASE GetAnticipated \/ GetEarliest \/ GetLatest \/ GetPoints
  <2>1. stage' \in {"available", "postponable", "used", "insert"}
    BY <1>3, LeaveSteps
  <2>2. QED
    BY <2>1 DEF HandedInv
<1>4. CASE InsertOCP
  BY <1>4, HandedInsert
<1>5. CASE VisitBlock
  BY <1>5, HandedVisit
<1>6. CASE Return
  <2>1. stage = "replace" /\ fn' = fn /\ domain' = domain /\ vectors' = vectors /\ sort' = sort
    BY <1>6 DEF Return
  <2>2. QED
    BY <2>1, HandedKept
<1>7. CASE \E f \in Functions : RunOnFunction(f)
  BY <1>7 DEF RunOnFunction, HandedInv
<1>8. CASE UNCHANGED vars
  <2>1. fn' = fn /\ domain' = domain /\ vectors' = vectors /\ sort' = sort /\ stage' = stage
    BY <1>8 DEF vars
  <2>2. QED
    BY <2>1, HandedKept
<1>9. QED
  BY <1>1, <1>2, <1>3, <1>4, <1>5, <1>6, <1>7, <1>8 DEF Next, Pass, LazyCodeMotion

\* A list that is no longer than the set it goes through is as long as it.
LEMMA ListLengthLemma ==
  ASSUME NEW S, IsFiniteSet(S), NEW s, s \in Seq(ToSet(s)), Len(s) <= Cardinality(S),
         {s[k][2] : k \in DOMAIN s} = S
  PROVE  Len(s) = Cardinality(S)
<1>1. Len(s) \in Nat /\ DOMAIN s = 1 .. Len(s)
  OBVIOUS
<1>2. [k \in 1 .. Len(s) |-> s[k][2]] \in Surjection(1 .. Len(s), S)
  BY <1>1 DEF Surjection
<1>3. Cardinality(S) <= Len(s)
  BY <1>1, <1>2, FS_SurjCardinalityBound DEF ExistsSurjection
<1>4. Cardinality(S) \in Nat
  BY FS_CardinalityType
<1>5. QED
  BY <1>1, <1>3, <1>4

LEMMA EverybodyIsTold ==
  ASSUME MaxSweeps % 2 = 1, Inv, FlowInv, HandedInv
  PROVE  OccurrencesAreReached
<1>. SUFFICES ASSUME Done, Acyclic(fn), NEW b \in Blocks(fn), NEW i \in toReplace[b] \ toInsert[b]
              PROVE  /\ Predecessors(fn, b) # {}
                     /\ {state[b][i][k][2] : k \in DOMAIN state[b][i]} = Predecessors(fn, b)
                     /\ Len(state[b][i]) = Cardinality(Predecessors(fn, b))
  BY DEF OccurrencesAreReached
<1>1. /\ stage = "end" /\ Q = << >> /\ DegreesOK /\ IsFunction(fn) /\ PointsOK /\ Settles
      /\ FunctionInv /\ StateOK
  BY DEF Inv, Done, ScopeInv, SortInv, LoopsInv, FlowInv, VectorsInv, Later, Settles
<1>2. \A p \in Blocks(fn) : p \in Sorted
  <2>1. ToSet(Q) = {}
    BY <1>1 DEF ToSet
  <2>2. Unvisited = {}
    BY EveryTurn
  <2>3. ASSUME NEW p \in Blocks(fn) PROVE inDeg[p] = 0
    <3>1. inDeg[p] \in Nat
      BY <1>1, PredecessorsLemma DEF DegreesOK
    <3>2. QED
      BY <2>2, <3>1 DEF Unvisited
  <2>4. QED
    BY <2>1, <2>3 DEF Sorted
<1>3. PICK S : Supplied(S)
  BY <1>1 DEF PointsOK
<1>4. HandedOn(S)
  BY <1>1, <1>3 DEF HandedInv
<1>5. i \in S[b]
  BY <1>3 DEF Supplied
<1>6. i \in DOMAIN domain
  <2>1. DOMAIN domain = DOMAIN GetExpressions(fn)
    BY <1>1 DEF FunctionInv
  <2>2. QED
    BY <1>3, <1>5, <2>1 DEF Supplied, VectorsFor
<1>7. ASSUME NEW p \in Predecessors(fn, b) PROVE Knows(b, i, p)
  <2>1. p \in Sorted /\ b \in Successors(fn, p)
    BY <1>2 DEF Predecessors
  <2>2. i \in toInsert[p] \cup S[p]
    BY <1>3, <1>5 DEF Supplied
  <2>3. QED
    BY <1>4, <1>6, <2>1, <2>2 DEF HandedOn
<1>8. /\ state[b][i] \in Seq(ToSet(state[b][i]))
      /\ Len(state[b][i]) <= Cardinality(Told(b))
      /\ \A k \in DOMAIN state[b][i] : state[b][i][k][2] \in Told(b)
  BY <1>1, <1>6 DEF StateOK, ListsOK
<1>9. Told(b) = Predecessors(fn, b)
  BY <1>2 DEF Told, Predecessors
<1>10. {state[b][i][k][2] : k \in DOMAIN state[b][i]} = Predecessors(fn, b)
  BY <1>7, <1>8, <1>9 DEF Knows
<1>11. IsFiniteSet(Predecessors(fn, b))
  BY <1>1, PredecessorsLemma
<1>12. Len(state[b][i]) = Cardinality(Predecessors(fn, b))
  BY <1>8, <1>9, <1>10, <1>11, ListLengthLemma
<1>13. QED
  BY <1>3, <1>5, <1>10, <1>12 DEF Supplied

(***************************************************************************)
(* Without loops, and with an odd cap on sweeps, each occurrence that is   *)
(* to be replaced has a definition to be replaced by, whichever way        *)
(* control comes to it: exactly one from each predecessor, if not one of   *)
(* its own block (pre.cpp:299-302, 377-403).                               *)
(***************************************************************************)
THEOREM EveryWayIsSupplied ==
  ASSUME MaxSweeps % 2 = 1
  PROVE  Spec => []OccurrencesAreReached
<1>1. Init => HandedInv
  BY DEF Init, HandedInv
<1>2. Inv /\ HandedInv /\ [Next]_vars => HandedInv'
  BY HandedNext DEF Inv
<1>3. Inv /\ FlowInv /\ HandedInv => OccurrencesAreReached
  BY EverybodyIsTold
<1>4. QED
  BY <1>1, <1>2, <1>3, InvHolds, FlowHolds, PTL DEF Spec
=============================================================================
