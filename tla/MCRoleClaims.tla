---------------------------- MODULE MCRoleClaims ----------------------------
EXTENDS RoleClaims, TLC

Symmetry == Permutations(Req) \cup Permutations(Name \ {AdminName})

=============================================================================
