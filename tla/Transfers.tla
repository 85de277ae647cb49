----------------------------- MODULE Transfers -----------------------------
(***************************************************************************)
(* transferFn and meetFn of the subclasses of Dataflow.  A transfer takes  *)
(* the domain U of the run, the subclass's own vector m for the block and  *)
(* the block's properties, and returns the properties it leaves behind,    *)
(* all four of them: BitVector::flip() changes the vector it is called on. *)
(***************************************************************************)

\* Slip: bbInput is restored before it is copied.
DominatorsTransferWithoutGen(U, m, p) == [p EXCEPT !.bbOutput = p.bbInput]

\* dominators.cpp: OUT = IN with gen; IN is restored.
DominatorsTransfer(U, m, p) == [p EXCEPT !.bbOutput = p.bbInput \cup p.genSet]

\* deadCodeElimination.cpp: a backward analysis that computes bbOutput from
\* bbInput; kill is a copy, so its flip stays local.
FaintTransfer(U, m, p) ==
  [p EXCEPT !.bbOutput = ((U \ p.killSet) \cap p.bbInput) \cup p.genSet]

\* anticipated.cpp: killSet itself is flipped.
AnticipatedTransfer(U, m, p) ==
  LET kill == U \ p.killSet
  IN  [p EXCEPT !.killSet = kill,
                !.bbInput = (kill \cap p.bbOutput) \cup p.genSet]

\* available.cpp: killSet itself is flipped; m is anticipated[b]->bbInput.
AvailableTransfer(U, m, p) ==
  LET kill == U \ p.killSet
  IN  [p EXCEPT !.killSet = kill,
                !.bbOutput = kill \cap (m \cup p.bbInput)]

\* postponable.cpp: genSet itself is flipped; m is earliest[b].
PostponableTransfer(U, m, p) ==
  LET gen == U \ p.genSet
  IN  [p EXCEPT !.genSet = gen,
                !.bbOutput = (m \cup p.bbInput) \cap gen]

\* used.cpp: the vector flipped is a copy; m is latest[b].
UsedTransfer(U, m, p) ==
  [p EXCEPT !.bbInput = (U \ m) \cap (p.genSet \cup p.bbOutput)]

\* result = inputs[0], then &= (every subclass but used.cpp) or |= the others.
UnionMeet(vectors) == UNION vectors
IntersectionMeet(vectors) == {d \in UNION vectors : \A v \in vectors : d \in v}
=============================================================================
