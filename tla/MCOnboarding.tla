---------------------------- MODULE MCOnboarding ----------------------------
(* Model values and symmetry for Onboarding. *)
EXTENDS Onboarding, TLC

Symmetry == Permutations(Requests) \cup Permutations(Usernames)

\* Every password is one and the same with different blanks around it.
OnePassword ==
    LET plain == CHOOSE w \in Passwords : TRUE IN [w \in Passwords |-> plain]

SetupKinds == {"status", "create_user", "core_config", "analytics", "integration", "authorize"}
EveryKind == AllKinds
=============================================================================
