--------------------------------- MODULE PRE ---------------------------------
(***************************************************************************)
(* Partial redundancy elimination by lazy code motion (PRE/src/pre.cpp):   *)
(* four runs of the Dataflow framework, each fed by the one before, then   *)
(* the insertion of temporaries and a traversal of the blocks in           *)
(* topological order that replaces redundant occurrences.                  *)
(*                                                                         *)
(* Functions are programs (see Execution) without phi nodes of their own,  *)
(* with the fields of CFG; binops are their BinaryOperators.  An           *)
(* Expression is the opcode and the two operands of a BinaryOperator as    *)
(* they are at the moment.  The temporary for expression i in block b is   *)
(* <<"T", b, i>>, the phi node made there <<"phi", b, i>>.                  *)
(*                                                                         *)
(* One run on one function is modelled: the members that outlive it are    *)
(* written for each block, expression and bit of the function before they  *)
(* are read there.                                                         *)
(***************************************************************************)
EXTENDS Integers, EdgeSplitting, Transfers, Execution

CONSTANTS
  Functions,   \* the functions the pass may be run on
  MaxSweeps    \* as in Dataflow

VARIABLES
  fn,          \* the function after Preprocess
  stage,       \* "start", an analysis, "insert", "replace" or "end"
  domain,      \* sequence of expressions; a bit is a position in it
  anticipated, \* block -> vector, bbInput of that analysis
  earliest, latest, toInsert, toReplace,   \* block -> vector
  code, operands, incoming,                \* of the function, as it is now
  state,       \* _state: block -> bit -> sequence of <<value, block>>
  Q, inDeg,    \* the topological sort
  input, result, prev, idx, iter, converged, pc   \* the Dataflow object

vectors == <<anticipated, earliest, latest, toInsert, toReplace>>
ir == <<code, operands, incoming>>
sort == <<state, Q, inDeg>>
dfaVars == <<input, result, prev, idx, iter, converged, pc>>
vars == <<fn, stage, domain, vectors, ir, sort, dfaVars>>

Instructions(f) == UNION {ToSet(f.code[b]) : b \in Blocks(f)}

ASSUME FunctionsAssumption ==
  \A f \in Functions :
    /\ IsFunction(f)
    /\ DOMAIN f.code = Blocks(f) /\ DOMAIN f.operands = Instructions(f)
    /\ f.binops \subseteq Instructions(f)
    \* An in-degree counts predecessors here, and edges in the code.
    /\ \A b \in Blocks(f) : IsInjective(f.succs[b])

ASSUME BoundsAssumption == MaxSweeps \in Nat \ {0}

-----------------------------------------------------------------------------
\* SplitEdge leaves every instruction where it is: the new blocks only branch.
Preprocessed(f) ==
  LET g == Preprocess(f)
  IN  [n |-> g.n, succs |-> g.succs, ret |-> g.ret, po |-> g.po,
       code |-> [b \in Blocks(g) |-> IF b \in Blocks(f) THEN f.code[b] ELSE << >>],
       operands |-> f.operands, binops |-> f.binops,
       args |-> f.args, cond |-> f.cond]

\* What splitting leaves is a function again, and po_iterator traverses it.
ASSUME SplittingAssumption == \A f \in Functions : IsFunction(Preprocessed(f))

AllCode(f) == FlattenSeq(f.code)

\* getExpressions: each expression once, where it is first met.
GetExpressions(f) ==
  FoldLeft(LAMBDA exps, i :
             IF i \in f.binops /\ f.operands[i] \notin ToSet(exps)
               THEN Append(exps, f.operands[i]) ELSE exps,
           << >>, AllCode(f))

BitOf(dom, exp) == {i \in DOMAIN dom : dom[i] = exp}

\* The expressions instruction v is an operand of.
Using(dom, v) == {i \in DOMAIN dom : v \in {dom[i][2], dom[i][3]}}

\* Gen: what the block evaluates and does not touch an operand of afterwards.
GenKill(f, dom, b) ==
  LET At(k) == f.code[b][k]
      Evaluating == {k \in DOMAIN f.code[b] : At(k) \in f.binops}
  IN  [genSet |-> {e \in DOMAIN dom : \E k \in Evaluating :
                     /\ dom[e] = f.operands[At(k)]
                     /\ \A m \in Evaluating : m >= k => e \notin Using(dom, At(m))},
       killSet |-> {e \in DOMAIN dom : \E k \in Evaluating : e \in Using(dom, At(k))}]

\* populateInfoMap visits the blocks that can be reached.
InfoMap == [b \in Visited(fn) |-> GenKill(fn, domain, b)]

-----------------------------------------------------------------------------
\* The four subclasses on the one framework.  What they are constructed with
\* is found at run time, so Inputs, a constant, is left empty.
Anticipated == INSTANCE Dataflow WITH
  Inputs <- {}, dir <- "BACKWARD", boundaryCond <- "empty", initCond <- "full",
  meetFn <- IntersectionMeet, transferFn <- AnticipatedTransfer

WillBeAvailable == INSTANCE Dataflow WITH
  Inputs <- {}, dir <- "FORWARD", boundaryCond <- "empty", initCond <- "full",
  meetFn <- IntersectionMeet, transferFn <- AvailableTransfer

Postponable == INSTANCE Dataflow WITH
  Inputs <- {}, dir <- "FORWARD", boundaryCond <- "empty", initCond <- "full",
  meetFn <- IntersectionMeet, transferFn <- PostponableTransfer

Used == INSTANCE Dataflow WITH
  Inputs <- {}, dir <- "BACKWARD", boundaryCond <- "empty", initCond <- "empty",
  meetFn <- UnionMeet, transferFn <- UsedTransfer

Init ==
  /\ fn = << >> /\ stage = "start" /\ domain = << >>
  /\ anticipated = << >> /\ earliest = << >> /\ latest = << >>
  /\ toInsert = << >> /\ toReplace = << >>
  /\ code = << >> /\ operands = << >> /\ incoming = << >>
  /\ state = << >> /\ Q = << >> /\ inDeg = << >>
  /\ Anticipated!Init

\* PRE::Init, the member function.
RunOnFunction(f) ==
  /\ stage = "start"
  /\ fn' = Preprocessed(f)
  /\ domain' = GetExpressions(fn')
  /\ code' = fn'.code /\ operands' = fn'.operands
  /\ stage' = "anticipated"
  /\ UNCHANGED <<vectors, incoming, sort, dfaVars>>

\* The vectors the subclass keeps of its own.
Member(b) ==
  CASE stage = "anticipated" -> {}
    [] stage = "available"   -> anticipated[b]
    [] stage = "postponable" -> earliest[b]
    [] stage = "used"        -> latest[b]

ConstructAnalysis ==
  /\ stage \in {"anticipated", "available", "postponable", "used"}
  /\ Anticipated!Construct([fn |-> fn, domain |-> DOMAIN domain, infoMap |-> InfoMap,
                            member |-> [b \in Blocks(fn) |-> Member(b)]])
  /\ UNCHANGED <<fn, stage, domain, vectors, ir, sort>>

Analyse ==
  /\ \/ stage = "anticipated" /\ Anticipated!Run
     \/ stage = "available"   /\ WillBeAvailable!Run
     \/ stage = "postponable" /\ Postponable!Run
     \/ stage = "used"        /\ Used!Run
  /\ UNCHANGED <<fn, stage, domain, vectors, ir, sort>>

\* An analysis has run and its object is left behind.
Leave(analysis, next) ==
  /\ stage = analysis /\ stage' = next
  /\ Anticipated!Discard
  /\ UNCHANGED <<fn, domain, ir, sort>>

GetAnticipated ==
  /\ Leave("anticipated", "available")
  /\ anticipated' = [b \in Blocks(fn) |-> result[b].bbInput]
  /\ UNCHANGED <<earliest, latest, toInsert, toReplace>>

\* Slip: what is available at the end of the block.
EarliestByOutput(b) == anticipated[b] \ result[b].bbOutput

Earliest(b) == anticipated[b] \ result[b].bbInput

\* getWillBeAvailable, getEarliest.
GetEarliest ==
  /\ Leave("available", "postponable")
  /\ earliest' = [b \in Blocks(fn) |-> Earliest(b)]
  /\ UNCHANGED <<anticipated, latest, toInsert, toReplace>>

\* Where the expression may be placed: earliest, or postponed to here.
Placeable(b) == earliest[b] \cup result[b].bbInput

\* Slip: nothing is postponed.
LatestAtOnce(b) == earliest[b]

Latest(b) == {i \in Placeable(b) : \/ i \in InfoMap[b].genSet
                                  \/ \E s \in Successors(fn, b) : i \notin Placeable(s)}

\* getPostponable, getLatest.
GetLatest ==
  /\ Leave("postponable", "used")
  /\ latest' = [b \in Blocks(fn) |-> Latest(b)]
  /\ UNCHANGED <<anticipated, earliest, toInsert, toReplace>>

\* getUsed, getOptimalComputationPoints, getRedundantOccurences.
GetPoints ==
  /\ Leave("used", "insert")
  /\ toInsert' = [b \in Blocks(fn) |-> result[b].bbOutput \cap latest[b]]
  /\ toReplace' = [b \in Blocks(fn) |->
       InfoMap[b].genSet \cap (result[b].bbOutput \cup (DOMAIN domain \ latest[b]))]
  /\ UNCHANGED <<anticipated, earliest, latest>>

(***************************************************************************)
(* No path is made to evaluate what it would not have (the anticipated     *)
(* analysis, pre.cpp:197): on a function without loops an insertion point  *)
(* is one where every path goes on to a block that generates the           *)
(* expression and meets none that kills it before, by the sets of the info *)
(* map.                                                                    *)
(***************************************************************************)
InsertionsAreDownSafe ==
  stage = "insert" /\ Acyclic(fn) =>
    \A b \in Blocks(fn) :
      /\ toInsert[b] \subseteq anticipated[b]
      /\ \A i \in anticipated[b] :
           \/ i \in InfoMap[b].genSet
           \/ /\ i \notin InfoMap[b].killSet
              /\ Successors(fn, b) # {}
              /\ \A s \in Successors(fn, b) : i \in anticipated[s]

-----------------------------------------------------------------------------
Temporaries(b) == {<<"T", b, i>> : i \in toInsert[b]}

\* Slip: behind the block's code.
WithTemporariesBehind(b) == code[b] \o SetToSeq(Temporaries(b))

\* Each in front of the block's code and of those already there.
WithTemporaries(b) ==
  Reverse(SetToSortSeq(Temporaries(b), LAMBDA x, y : x[3] < y[3])) \o code[b]

\* _InsertOCP; then the traversal is set up.
InsertOCP ==
  /\ stage = "insert" /\ stage' = "replace"
  /\ code' = [b \in Blocks(fn) |-> WithTemporaries(b)]
  /\ LET T == UNION {Temporaries(b) : b \in Blocks(fn)}
     IN  operands' = [v \in DOMAIN operands \cup T |->
                        IF v \in T THEN domain[v[3]] ELSE operands[v]]
  /\ state' = [b \in Blocks(fn) |-> [i \in DOMAIN domain |-> << >>]]
  /\ inDeg' = [b \in Blocks(fn) |-> Cardinality(Predecessors(fn, b))]
  /\ Q' = <<Entry>>
  /\ UNCHANGED <<fn, domain, vectors, incoming, dfaVars>>

\* What reaches the code of block b: definitions from the predecessors, in the
\* order they were visited, then the block's own temporary.
Reaching(b) ==
  [i \in DOMAIN domain |->
     state[b][i] \o (IF i \in toInsert[b] THEN <<<<<<"T", b, i>>, b>>>> ELSE << >>)]

\* Several definitions are joined by a phi node.
Joined(b) == {i \in DOMAIN domain : Len(Reaching(b)[i]) > 1}

ReplaceWith(b) ==
  [i \in {j \in DOMAIN domain : Reaching(b)[j] # << >>} |->
     IF i \in Joined(b) THEN <<"phi", b, i>> ELSE Reaching(b)[i][1][1]]

\* ReplaceInstWithValue: every use of i is a use of v from now on, i is erased.
Replace(c, i, v) ==
  LET Now(w) == IF w = i THEN v ELSE w
  IN  [code |-> [b \in DOMAIN c.code |-> SelectSeq(c.code[b], LAMBDA j : j # i)],
       operands |-> [j \in DOMAIN c.operands |->
                       [k \in DOMAIN c.operands[j] |->
                          IF k = 1 THEN c.operands[j][1] ELSE Now(c.operands[j][k])]],
       incoming |-> [p \in DOMAIN c.incoming |->
                       [k \in DOMAIN c.incoming[p] |->
                          <<Now(c.incoming[p][k][1]), c.incoming[p][k][2]>>]]]

\* Instruction i of block b is to be replaced, given the code as it is now.
Redundant(b, i, c) ==
  \E bit \in BitOf(domain, c.operands[i]) \cap toReplace[b] \cap DOMAIN ReplaceWith(b) :
    ReplaceWith(b)[bit] # i

ReplaceOccurrences(b, c) ==
  FoldLeft(LAMBDA acc, i :
             IF i \notin DOMAIN acc.incoming /\ Redundant(b, i, acc)
               THEN Replace(acc, i, ReplaceWith(b)[CHOOSE bit \in BitOf(domain, acc.operands[i]) : TRUE])
               ELSE acc,
           c, c.code[b])

\* The phi nodes of block b are made, before any of its code is looked at.
WithPhis(b) ==
  LET phis == {<<"phi", b, i>> : i \in Joined(b)}
  IN  [code |-> [code EXCEPT ![b] = SetToSortSeq(phis, LAMBDA x, y : x[3] < y[3]) \o @],
       operands |-> operands,
       incoming |-> [p \in DOMAIN incoming \cup phis |->
                       IF p \in phis THEN Reaching(b)[p[3]] ELSE incoming[p]]]

\* Slip: a successor is queued whatever it still waits for.
ReadyAtOnce(x) == inDeg[x] > 0

\* The last predecessor of x is being visited.
Ready(x) == inDeg[x] = 1

\* The successors that are ready, in the order of the terminator of b.
Released(b) ==
  {q \in SetToSeqs({x \in Successors(fn, b) : Ready(x)}) :
     \A i, j \in DOMAIN q : i < j =>
       \E m, n \in DOMAIN fn.succs[b] : m < n /\ fn.succs[b][m] = q[i] /\ fn.succs[b][n] = q[j]}

\* One turn of the topological sort.
VisitBlock ==
  /\ stage = "replace"
  /\ Q # << >>
  /\ LET b == Head(Q)
         c == ReplaceOccurrences(b, WithPhis(b))
         with == ReplaceWith(b)
         near == Successors(fn, b)
     IN  /\ code' = c.code /\ operands' = c.operands /\ incoming' = c.incoming
         /\ inDeg' = [x \in Blocks(fn) |-> IF x \in near THEN inDeg[x] - 1 ELSE inDeg[x]]
         /\ Q' \in {Tail(Q) \o q : q \in Released(b)}
         /\ state' = [x \in Blocks(fn) |-> [i \in DOMAIN domain |->
                        IF x \in near /\ i \in DOMAIN with
                          THEN Append(state[x][i], <<with[i], b>>) ELSE state[x][i]]]
  /\ UNCHANGED <<fn, stage, domain, vectors, dfaVars>>

Return ==
  /\ stage = "replace"
  /\ Q = << >>
  /\ stage' = "end"
  /\ UNCHANGED <<fn, domain, vectors, ir, sort, dfaVars>>

LazyCodeMotion == InsertOCP \/ VisitBlock \/ Return

Pass ==
  \/ ConstructAnalysis \/ Analyse
  \/ GetAnticipated \/ GetEarliest \/ GetLatest \/ GetPoints
  \/ LazyCodeMotion

Next == Pass \/ \E f \in Functions : RunOnFunction(f)

Spec == Init /\ [][Next]_vars

\* runOnFunction is one call: once begun it goes on to its end.
FairSpec == Spec /\ WF_vars(Pass)

-----------------------------------------------------------------------------
Done == stage = "end"

(***************************************************************************)
(* Types, and what the topological sort keeps: a queued block waits for    *)
(* nothing and is queued once, and a block is told of a definition only by *)
(* predecessors that have been visited, each of them once.                 *)
(***************************************************************************)
TypeOK ==
  /\ stage \in {"start", "anticipated", "available", "postponable", "used",
                "insert", "replace", "end"}
  /\ stage \in {"replace", "end"} =>
       /\ IsInjective(Q)
       /\ \A b \in ToSet(Q) : inDeg[b] = 0
       /\ \A b \in Blocks(fn) :
            /\ inDeg[b] \in Nat
            /\ \A i \in DOMAIN domain :
                 /\ Len(state[b][i]) + inDeg[b] <= Cardinality(Predecessors(fn, b))
                 /\ \A k \in DOMAIN state[b][i] :
                      /\ state[b][i][k][2] \in Predecessors(fn, b) \ ToSet(Q)
                      /\ inDeg[state[b][i][k][2]] = 0

(***************************************************************************)
(* The traversal (pre.cpp:326-419) reaches exactly the blocks that no loop *)
(* leads to: those it never visits are the largest set of blocks each of   *)
(* which has a predecessor in the set.                                     *)
(***************************************************************************)
IsWaiting(C) == \A b \in C : Predecessors(fn, b) \cap C # {}

Unvisited == {b \in Blocks(fn) : inDeg[b] > 0}

LoopsAreLeftOut ==
  Done => /\ IsWaiting(Unvisited)
          /\ \A C \in SUBSET Blocks(fn) : IsWaiting(C) => C \subseteq Unvisited

(***************************************************************************)
(* Without loops an occurrence that is to be replaced has a definition     *)
(* whichever way control came (pre.cpp:299-302, 377-403): the block        *)
(* inserts one itself, or every predecessor has handed on one, no          *)
(* predecessor two, and nobody else any: a phi node made of the list has   *)
(* one entry for each way in.  No terminator names a block twice.          *)
(***************************************************************************)
OccurrencesAreReached ==
  Done /\ Acyclic(fn) =>
    \A b \in Blocks(fn) : \A i \in toReplace[b] \ toInsert[b] :
      /\ Predecessors(fn, b) # {}
      /\ {state[b][i][k][2] : k \in DOMAIN state[b][i]} = Predecessors(fn, b)
      /\ Len(state[b][i]) = Cardinality(Predecessors(fn, b))

\* The function as it came, and as it is now.
Before == [succs |-> fn.succs, code |-> fn.code, operands |-> fn.operands,
           incoming |-> << >>, pure |-> fn.binops, args |-> fn.args, cond |-> fn.cond]
After == [succs |-> fn.succs, code |-> code, operands |-> operands, incoming |-> incoming,
          pure |-> DOMAIN operands \ (Instructions(fn) \ fn.binops),
          args |-> fn.args, cond |-> fn.cond]

Conditions == {fn.cond[b] : b \in DOMAIN fn.cond}

\* A block inserts a temporary that one inserted before reaches already.
Reinserted == \E b \in Blocks(fn) : \E i \in toInsert[b] : state[b][i] # << >>

Defines(d, i) == ToSet(fn.code[d]) \cap {domain[i][2], domain[i][3]} # {}

\* The blocks that insert a temporary for i in front of a definition it uses.
TooEarly(i) ==
  {b \in Blocks(fn) : i \in toInsert[b]
                      /\ \E d \in Blocks(fn) : Defines(d, i) /\ (d = b \/ ~Dominates(fn, d, b))}

(***************************************************************************)
(* Without loops a temporary's operands are defined on every way to it, in *)
(* a block before its own (pre.cpp:238-267), though a load does not kill   *)
(* what it is an operand of (pre.cpp:176).  The one exception is a block   *)
(* that defines an operand and then evaluates the expression itself, which *)
(* the comment at pre.cpp:117 wants split and nobody splits.               *)
(***************************************************************************)
OperandsAreDefined ==
  Done /\ Acyclic(fn) =>
    \A i \in DOMAIN domain : \A b \in TooEarly(i) : Defines(b, i) /\ i \in InfoMap[b].genSet

(***************************************************************************)
(* The pass replaces an occurrence by a value that is the same whichever   *)
(* way control came (pre.cpp:377-403): on every path of the function each  *)
(* effect is performed, in the same order and on the same operands, all of *)
(* them defined by then, unless a temporary stands in front of the         *)
(* definition of an operand (pre.cpp:284-289).  Without loops some path    *)
(* uses that temporary, so the exception is exact.  A block that inserts a *)
(* temporary of its own where an older one arrives is left out: see        *)
(* JoinsAreWellFormed.                                                     *)
(***************************************************************************)
SameEffects ==
  Done /\ ~Reinserted =>
    LET Same == \A true \in SUBSET Conditions :
                  Execution(Before, true, 2 * fn.n).trace = Execution(After, true, 2 * fn.n).trace
        InTime == \A i \in DOMAIN domain : TooEarly(i) = {}
    IN  (InTime => Same) /\ (Acyclic(fn) /\ Same => InTime)

-----------------------------------------------------------------------------
\* Reference: where an expression may be evaluated, on paths, without dataflow.
Occurrences(i) == {b \in Blocks(fn) : \E v \in ToSet(fn.code[b]) : fn.operands[v] = domain[i]}

Definitions(i) ==
  {b \in Blocks(fn) : \E v \in ToSet(fn.code[b]) : i \in Using(domain, v)}

\* The blocks where expression i is evaluated now, at their entry or for the
\* block alone.
Evaluations(i) == {b \in Blocks(fn) : \E v \in ToSet(code[b]) \cap DOMAIN operands :
                                        operands[v] = domain[i]}

\* At the entry of b every path goes on to an occurrence, with its operands defined.
DownSafe(i) ==
  LET Safe[b \in Blocks(fn)] ==
        /\ b \notin Definitions(i)
        /\ \/ b \in Occurrences(i)
           \/ Successors(fn, b) # {} /\ \A s \in Successors(fn, b) : Safe[s]
  IN  {b \in Blocks(fn) : Safe[b]}

\* Evaluated at the entry of the blocks in S, expression i is there when it occurs.
Covers(S, i) ==
  LET Has[b \in Blocks(fn)] ==
        \/ b \in S
        \/ /\ b # Entry
           /\ \A p \in Predecessors(fn, b) : p \notin Definitions(i) /\ Has[p]
  IN  \A b \in Occurrences(i) : Has[b]

Placements(i) == {S \in SUBSET DownSafe(i) : Covers(S, i)}

\* The most evaluations more than S, of any path, that R makes.
Excess(R, S) ==
  LET Weight(b) == (IF b \in R THEN 1 ELSE 0) - (IF b \in S THEN 1 ELSE 0)
      Most[b \in Blocks(fn)] ==
        Weight(b) + Max({Most[s] : s \in Successors(fn, b)} \cup
                        (IF Successors(fn, b) = {} THEN {0} ELSE {}))
  IN  Most[Entry]

\* The blocks a value evaluated before them, by S, is still needed in.
LiveAtEntry(S, i) ==
  LET Live[b \in Blocks(fn)] ==
        b \notin S /\ (b \in Occurrences(i) \/ \E s \in Successors(fn, b) : Live[s])
  IN  {b \in Blocks(fn) : Live[b]}

\* The expressions the pass is made for: evaluated once in a block at most and
\* in none that defines an operand, as the comment at pre.cpp:117 asks, and no
\* operand is itself replaced.
Regular(i) ==
  /\ Occurrences(i) \cap Definitions(i) = {}
  /\ \A b \in Blocks(fn) :
       Cardinality({v \in ToSet(fn.code[b]) : fn.operands[v] = domain[i]}) <= 1
  /\ {domain[i][2], domain[i][3]} \subseteq fn.args \cup UNION {ToSet(code[b]) : b \in Blocks(fn)}

(***************************************************************************)
(* Lazy code motion is computationally optimal (the name the pass is       *)
(* registered under, pre.cpp:77, and getOptimalComputationPoints): without *)
(* loops, the expressions are evaluated only where every path needs them,  *)
(* early enough for each occurrence, and no other such placement evaluates *)
(* an expression less often on any path.                                   *)
(***************************************************************************)
ComputationallyOptimal ==
  Done /\ Acyclic(fn) /\ ~Reinserted =>
    \A i \in DOMAIN domain : Regular(i) =>
      /\ Evaluations(i) \in Placements(i)
      /\ \A S \in Placements(i) : Excess(Evaluations(i), S) <= 0

(***************************************************************************)
(* It is lazy: among the placements that evaluate as seldom, none keeps a  *)
(* temporary alive in fewer blocks (getLatest, getUsed).                   *)
(***************************************************************************)
LifetimeOptimal ==
  Done /\ Acyclic(fn) /\ ~Reinserted =>
    \A i \in DOMAIN domain : Regular(i) =>
      \A S \in Placements(i) : Excess(S, Evaluations(i)) <= 0 =>
        LiveAtEntry(Evaluations(i), i) \subseteq LiveAtEntry(S, i)

(***************************************************************************)
(* What the comment at pre.cpp:377 says of the traversal: a redundant      *)
(* occurrence is replaced.                                                 *)
(***************************************************************************)
RedundantOccurrencesAreReplaced ==
  Done =>
    \A b \in Blocks(fn) : \A v \in ToSet(fn.code[b]) \cap fn.binops :
      BitOf(domain, fn.operands[v]) \cap toReplace[b] # {} => v \notin ToSet(code[b])

(***************************************************************************)
(* What the comment at pre.cpp:299-302 says: temporaries are joined where  *)
(* control flow joins.  A phi node has one entry for each predecessor and   *)
(* none for another block.                                                 *)
(***************************************************************************)
JoinsAreWellFormed ==
  Done =>
    \A phi \in DOMAIN incoming :
      /\ \A p \in Predecessors(fn, phi[2]) : Len(Entries(incoming, phi, p)) = 1
      /\ {e[2] : e \in ToSet(incoming[phi])} \subseteq Predecessors(fn, phi[2])

(***************************************************************************)
(* A run of the pass returns, whatever loops the function has.             *)
(***************************************************************************)
RunReturns == stage = "anticipated" ~> Done
=============================================================================
