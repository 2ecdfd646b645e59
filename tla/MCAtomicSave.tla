---------------------------- MODULE MCAtomicSave ----------------------------
(* Model values and bounds for AtomicSave. *)
EXTENDS AtomicSave
=============================================================================
