---------------------------- MODULE MCJccClient ----------------------------
EXTENDS JccClient, TLC

CONSTANTS main, jcc, records, statistics

\* JCC offers two scopes, and nobody else offers any.
MCScope == {<<jcc, records>>, <<jcc, statistics>>}
\* From now until 1, which is refused from 1 on; from 1 for ever
MCOffer == {[from |-> NoTime, until |-> 1], [from |-> 1, until |-> NoTime]}
One == {<<jcc, records>>}
Mix(ops, apps, scopes, time) == [ops |-> ops, apps |-> apps, scopes |-> scopes, time |-> time]
\* Whatever can be taken away, against tokens issued meanwhile, until the last has expired;
\* then administrators against each other, and threads that call JCC.
MCMixes ==
    {Mix({"issue", "revoke_grant"}, {}, One, 6),
     Mix({"issue", "create_grant"}, {}, One, 7),
     Mix({"issue", "disable_scope", "enable_scope"}, {}, One, 6),
     Mix({"issue", "disable_app", "enable_app"}, {jcc}, One, 6),
     Mix({"issue", "regenerate_secret"}, {main}, One, 6),
     Mix({"issue", "disable_scope"}, {}, MCScope, 0),
     Mix({"create_app", "update_app", "disable_app", "enable_app", "regenerate_secret"}, {main}, {}, 1),
     Mix({"create_scope", "create_grant", "revoke_grant"}, {}, One, 2),
     Mix({"call"}, {}, One, 4), Mix({"call"}, {}, MCScope, 2),
     Mix({"call", "regenerate_secret"}, {main}, One, 1)}
Symmetry == {p @@ q : p \in Permutations(Req \ Thread), q \in Permutations(Thread)}
=============================================================================
