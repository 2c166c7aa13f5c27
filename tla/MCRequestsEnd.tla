--------------------------- MODULE MCRequestsEnd ---------------------------
(***************************************************************************)
(* Liveness needs a run without symmetry.  This one takes the requests of  *)
(* AdminUsers or those of SessionLifecycle, one family in each behaviour:  *)
(* the other stays as it is at the start.                                  *)
(***************************************************************************)
EXTENDS AdminUsers

CONSTANTS LoginUser, Sid, Pair, NoSid, NoPair, AccessTTL, RefreshTTL, Grace, Stall, SweepOps,
          MaxTime, MaxPwd

VARIABLES now, account, accountLock, session, sessionLock, markedAt, token, delivered, blackUntil,
          request, family

Sessions == INSTANCE SessionLifecycle WITH
    User <- LoginUser, Ops <- SweepOps, userLock <- accountLock, req <- request

sessionVars == <<now, account, accountLock, session, sessionLock, markedAt, token, delivered,
                 blackUntil, request>>
OneStart == \A u \in Founder : roles[u] = {AdminRole} /\ row[u].email = CHOOSE e \in Email : TRUE
EitherInit == /\ Init /\ Sessions!Init
              /\ family \in {"accounts", "sessions"}
              /\ family = "sessions" => OneStart
EitherNext == \/ family = "accounts" /\ Next /\ UNCHANGED <<sessionVars, family>>
              \/ family = "sessions" /\ Sessions!Next /\ UNCHANGED <<vars, family>>
EitherSpec == /\ EitherInit /\ [][EitherNext]_<<vars, sessionVars, family>>
              /\ \/ family = "accounts" /\ Fairness
                 \/ family = "sessions" /\ Sessions!Fairness

\* StoresAgree and SweepIsComplete of SessionLifecycle: the two stores agree, and no sweep
\* that commits misses one of several sessions.
SessionStoresAgree == Sessions!StoresAgree
SessionSweepIsComplete == Sessions!SweepIsComplete

\* Every request ends: nobody waits for ever on the row locks of another, and the deadlocks
\* between administrators are broken.
Busy(r) == ~At(r, "idle") \/ ~Sessions!At(r, "idle")
EveryRequestEnds == \A r \in Req : Busy(r) ~> ~Busy(r)
=============================================================================
