-------------------------- MODULE MCRevisionedNotes --------------------------
(* TLC's view of RevisionedNotes: editors and the written contents are         *)
(* interchangeable.                                                            *)
EXTENDS RevisionedNotes, TLC

Symmetry == Permutations(Editors) \cup Permutations(Contents \ {Blank})

==============================================================================
