---- MODULE MCUsed ----
(***************************************************************************)
(* The framework with the equations of UsedExpressions, the one analysis   *)
(* whose transfer leaves gen and kill sets alone and whose meet is a union.*)
(* Its latest vectors are arbitrary here, up to two blocks that hold the   *)
(* expression: the class takes whatever it is constructed with.  The       *)
(* equations treat the bits independently, so a domain of one bit shows    *)
(* all there is to see.                                                    *)
(***************************************************************************)
EXTENDS DataflowProofs, Transfers, EdgeSplitting

Bit == {1}

InputOf(g, gen, latest) ==
  [fn |-> g, domain |-> Bit,
   member |-> [b \in Blocks(g) |-> {d \in Bit : b \in latest}],
   infoMap |-> [b \in Visited(g) |-> [genSet |-> {d \in Bit : b \in gen},
                                      killSet |-> {}]]]

\* Functions all of whose blocks can be reached, and some path returns.
Returning(n) == {f \in FunctionsOfSize(n) : AllReachable(f) /\ f.ret # {}}

UsedInputs ==
  UNION {{InputOf(Preprocess(f), gen, latest) :
            gen \in SUBSET Blocks(f) \ {{}},
            latest \in UNION {kSubset(k, Blocks(Preprocess(f))) : k \in 0 .. 2}} :
          f \in Returning(3)}

\* Hypotheses of the theorems: the number of sweeps, and flipping.
ASSUME UsedIsBitByBit == BitByBit

ASSUME UsedFlips == FlipAssumption
====
