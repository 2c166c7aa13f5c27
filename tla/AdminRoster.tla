----------------------------- MODULE AdminRoster -----------------------------
(***************************************************************************)
(* What user administration promises about the administrators who can act: *)
(* there is always one, and they come and go one at a time.                *)
(***************************************************************************)
CONSTANT User

VARIABLE admins    \* the active, not blacklisted holders of the admin role

Init == admins \in (SUBSET User) \ {{}}

\* An administrator is enabled or recovered, or given the admin role.
Join(u) == u \notin admins /\ admins' = admins \cup {u}

\* One is disabled or blacklisted, or loses the admin role: never the last.
Leave(u) == u \in admins /\ admins' = admins \ {u} /\ admins' # {}

Next == \E u \in User : Join(u) \/ Leave(u)

Spec == Init /\ [][Next]_admins
=============================================================================
