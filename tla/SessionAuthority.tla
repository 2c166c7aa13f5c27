-------------------------- MODULE SessionAuthority --------------------------
(***************************************************************************)
(* What the authentication centre promises about a session, without its   *)
(* two stores, tokens, clocks or transactions: a session opens once, ends  *)
(* once and for good, and a request that arrives after its session has     *)
(* ended is never served.                                                  *)
(***************************************************************************)
CONSTANTS Sid, Req

VARIABLES phase,    \* of each session: "unborn", "open" or "ended"
          serving   \* of each request slot: "none", "timely", "late" or "served"

Init == /\ phase = [s \in Sid |-> "unborn"]
        /\ serving = [r \in Req |-> "none"]

\* A login commits its session.
Open(s) == /\ phase[s] = "unborn"
           /\ phase' = [phase EXCEPT ![s] = "open"]

\* Logout, detected reuse, or an administrator's sweep
End(s) == /\ phase[s] = "open"
          /\ phase' = [phase EXCEPT ![s] = "ended"]

\* A request comes in on behalf of session s.
Arrive(r, s) == /\ serving[r] = "none"
                /\ phase[s] # "unborn"
                /\ serving' = [serving EXCEPT ![r] = IF phase[s] = "open" THEN "timely" ELSE "late"]

\* One that was timely may be served, even though its session may have ended
\* since it arrived ...
Serve(r) == /\ serving[r] = "timely"
            /\ serving' = [serving EXCEPT ![r] = "served"]

\* ... and any one may be dropped, or turned away as if it were late (its access
\* token was logged out, say).
Leave(r)  == serving' = [serving EXCEPT ![r] = "none"]
Reject(r) == /\ serving[r] = "none"
             /\ serving' = [serving EXCEPT ![r] = "late"]

Next == \/ \E s \in Sid : (Open(s) \/ End(s)) /\ UNCHANGED serving
        \/ \E r \in Req : /\ Leave(r) \/ Reject(r) \/ Serve(r) \/ \E s \in Sid : Arrive(r, s)
                          /\ UNCHANGED phase

vars == <<phase, serving>>

Spec == Init /\ [][Next]_vars
=============================================================================
