-------------------------- MODULE MCEmailChallenge --------------------------
EXTENDS EmailChallenge, TLC

CONSTANTS e1, e2, shouted, proxy, client, c1, c2, r1, r2

MCNormalized == [s \in Spelling |-> IF s = shouted THEN e1 ELSE s]
MCForwarded == {<<>>, <<client>>, <<client, proxy>>, <<Garbled, client>>}
Mix(op, email, ip, users, id, r) ==
    [op |-> op, email |-> email, ip |-> ip, user |-> users, id |-> id, req |-> r]
MCMixes == {Mix({"send_register"}, Email, Host, {}, {}, {r1}),
            Mix({"send_register", "register"}, Email, {client}, {e2}, {c1}, {r1}),
            Mix({"send_register", "register", "create", "switch_role"}, {e1}, {client}, {}, {c1}, Req),
            Mix({"send_reset", "reset", "switch"}, {e1}, {client}, {e1}, {c1}, Req),
            Mix(SendOp \cup UseOp, {e1}, {client}, {e1}, {c1}, Req),
            Mix({"send_register", "register"}, {e1}, {client}, {}, {c1, c2}, Req)}
Symmetry == Permutations(Id)

=============================================================================
