------------------------------ MODULE Execution ------------------------------
(***************************************************************************)
(* What a piece of LLVM code computes, by symbolic execution: the yardstick *)
(* for passes that rewrite code.  LLVM is external; the passes only use    *)
(* that a BinaryOperator computes a value from its operands and has no     *)
(* effect, that a phi node takes the value that belongs to the block       *)
(* control comes from, and that a branch goes to its first successor when  *)
(* its condition holds.                                                    *)
(*                                                                         *)
(* A value is a triple <<kind, block, number>>.  A program is a record     *)
(*    succs     block -> its successors, as in CFG                         *)
(*    code      block -> its instructions, the terminator left out         *)
(*    operands  instruction -> <<opcode, value, ...>>; not for phi nodes   *)
(*    incoming  phi node -> sequence of <<value, predecessor>>             *)
(*    pure      the instructions without effect                            *)
(*    args      the values given from outside                              *)
(*    cond      block with two successors -> value                         *)
(***************************************************************************)
EXTENDS CFG, SequencesExt

Undefined == <<"undefined", 0, 0>>

ValueIn(env, v) == IF v \in DOMAIN env THEN env[v] ELSE Undefined

Entries(incoming, phi, from) == SelectSeq(incoming[phi], LAMBDA e : e[2] = from)

Bind(env, i, term) == [v \in DOMAIN env \cup {i} |-> IF v = i THEN term ELSE env[v]]

\* s is the execution at the entry of the block, t what has become of it so far.
Execute(P, s, t, i) ==
  IF i \in DOMAIN P.incoming
    THEN LET entries == Entries(P.incoming, i, s.from)
         IN  [t EXCEPT !.env = Bind(@, i, IF entries = << >> THEN Undefined
                                          ELSE ValueIn(s.env, entries[1][1]))]
  ELSE LET ops  == P.operands[i]
           term == [k \in DOMAIN ops |-> IF k = 1 THEN ops[1] ELSE ValueIn(t.env, ops[k])]
       IN  IF i \in P.pure
             THEN [t EXCEPT !.env = Bind(@, i, term)]
             ELSE \* an effect is seen outside; what it returns nobody knows
                  [t EXCEPT !.env = Bind(@, i, <<"effect", Len(t.trace) + 1, 0>>),
                            !.trace = Append(@, term)]

\* One block, then the branch; `true` holds the conditions that are true.
Step(P, true, s) ==
  LET b == s.block
      t == FoldLeft(LAMBDA acc, i : Execute(P, s, acc, i), s, P.code[b])
      next == IF Len(P.succs[b]) < 2 \/ ValueIn(t.env, P.cond[b]) \in true THEN 1 ELSE 2
  IN  IF b = 0 THEN s
      ELSE [t EXCEPT !.from = b,
                     !.block = IF P.succs[b] = << >> THEN 0 ELSE P.succs[b][next]]

\* The execution after at most `fuel` blocks: block 0 when it has returned.
Execution(P, true, fuel) ==
  LET At[k \in 0 .. fuel] ==
        IF k = 0 THEN [block |-> Entry, from |-> 0, trace |-> << >>,
                       env |-> [v \in P.args |-> v]]
                 ELSE Step(P, true, At[k - 1])
  IN  At[fuel]
=============================================================================
