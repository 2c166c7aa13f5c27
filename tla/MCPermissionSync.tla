-------------------------- MODULE MCPermissionSync --------------------------
EXTENDS LocalInit, TLC

CONSTANTS m1, e1, first, second

Require(n, name) == [at |-> e1, name |-> name, admin |-> TRUE, deps |-> {{n}}]
Open == [at |-> e1, name |-> first, admin |-> FALSE, deps |-> {}]
\* A permission that is declared, gone, and bound to a route with another name;
\* and two releases that do not pass the scan
MCReleases == {{Require(m1, first)}, {Require(m1, second)}, {Open},
               {[Open EXCEPT !.admin = TRUE]}, {Require(m1, first), Require(m1, second)}}
\* The operations that occur together, and how far versions go in each case
MCMaxVersion == [m \in Mixes |-> IF m \subseteq {"sync", "report", "init"} THEN 2 ELSE 3]

Symmetry == Permutations(Req) \cup Permutations(Key) \cup Permutations(App)

=============================================================================
