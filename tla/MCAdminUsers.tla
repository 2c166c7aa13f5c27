---------------------------- MODULE MCAdminUsers ----------------------------
EXTENDS AdminUsers, TLC

Symmetry == Permutations(User) \cup Permutations(Email) \cup Permutations(Req)

=============================================================================
