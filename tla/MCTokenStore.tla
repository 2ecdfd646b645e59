---------------------------- MODULE MCTokenStore ----------------------------
(* Model values and symmetry for TokenStore. *)
EXTENDS TokenStore, TLC

Symmetry ==
    Permutations(Clients) \cup Permutations(Codes) \cup Permutations(RefreshTokens)
    \cup Permutations(AccessTokens) \cup Permutations(Slots)
=============================================================================
