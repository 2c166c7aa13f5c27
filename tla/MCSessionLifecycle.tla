------------------------- MODULE MCSessionLifecycle -------------------------
EXTENDS SessionLifecycle, TLC

\* Ids are random and users alike: the model values may be permuted.
Symmetry == Permutations(Sid) \cup Permutations(Pair) \cup Permutations(Req)
=============================================================================
