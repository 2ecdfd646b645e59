--------------------------- MODULE MCLabelStores ---------------------------
(* Model values and symmetry for LabelStores. *)
EXTENDS LabelStores, TLC

EveryKind == AllKinds
Symmetry == Permutations(Requests)
=============================================================================
