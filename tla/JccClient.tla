----------------------------- MODULE JccClient -----------------------------
(***************************************************************************)
(* The client with which threads of the main application call JCC: a cache *)
(* of service tokens, one for each scope, and a lock under which they are  *)
(* fetched from the token endpoint of ServiceAuth.                         *)
(***************************************************************************)
EXTENDS ServiceAuth

CONSTANTS
    Thread,          \* each has a request of its own at the token endpoint
    Main, Jcc,       \* main_app_id, jcc_app_id
    Configured,      \* main_app_secret
    Margin,          \* REFRESH_MARGIN_SECONDS
    Patience,        \* bound on the time of a fetch (internal_http_timeout_seconds)
    Delay            \* bound on the time from a token in hand to the answer of JCC

ASSUME ClientAssumption ==
    /\ Thread \subseteq Req /\ Main \in App /\ Jcc \in App /\ Code # {} /\ Configured \in Nat
    /\ Margin \in Nat /\ Patience \in Nat /\ Delay \in Nat
    \* With the defaults: a call within 30 seconds, and with its fetch within 300.
    /\ Delay <= Margin /\ Patience + Delay < TTL

VARIABLES
    cache,           \* _cached_tokens
    cacheLock,       \* _cache_lock
    thread

client == <<cache, cacheLock, thread>>
server == <<now, app, scope, grant, lock, token, req, mix>>
clientVars == <<now, app, scope, grant, lock, token, req, mix, cache, cacheLock, thread>>

CachedServiceToken == [value : Token \cup {NoToken}, refreshAt : Nat]
NotCached == [value |-> NoToken, refreshAt |-> 0]
Call == [pc : {"idle", "wait", "fetch", "answer", "use"}, code : Code,
         since : Nat, token : Token \cup {NoToken}]
NoCall == [pc |-> "idle", code |-> CHOOSE c \in Code : TRUE, since |-> 0, token |-> NoToken]

ClientInit ==
    /\ Init
    /\ cache = [c \in Code |-> NotCached]
    /\ cacheLock = NoReq
    /\ thread = [t \in Thread |-> NoCall]

Doing(t, step) == thread[t].pc = step
Fetching(t) == thread[t].pc \in {"fetch", "answer"}
Fresh(code) == cache[code].value # NoToken /\ cache[code].refreshAt > now
Using(code, value) == [NoCall EXCEPT !.pc = "use", !.code = code, !.since = now, !.token = value]

\* Mutant: the life of the token counts from the answer, all of it.
RefreshAtExpiry(since) == now + TTL
\* The life counts from before the request.
RefreshAt(since) == since + (IF TTL > Margin THEN TTL - Margin ELSE 0)

-----------------------------------------------------------------------------
\* list_records, get_resource_statistics: a look at the cache without the lock
StartCall(t, code) ==
    /\ "call" \in mix.ops /\ <<Jcc, code>> \in mix.scopes
    /\ Doing(t, "idle") /\ req[t].pc = "idle"
    /\ thread' = [thread EXCEPT ![t] = IF Fresh(code) THEN Using(code, cache[code].value)
                                       ELSE [NoCall EXCEPT !.pc = "wait", !.code = code]]
    /\ UNCHANGED <<server, cache, cacheLock>>

\* Mutant: whoever has waited fetches.
AcquireAndFetch(t) ==
    /\ Doing(t, "wait") /\ cacheLock = NoReq
    /\ cacheLock' = t
    /\ thread' = [thread EXCEPT ![t].pc = "fetch", ![t].since = now]
    /\ UNCHANGED <<server, cache>>
\* The lock, and a second look at cache and clock
Acquire(t) ==
    LET code == thread[t].code
    IN  /\ Doing(t, "wait") /\ cacheLock = NoReq
        /\ \/ /\ Fresh(code)
              /\ thread' = [thread EXCEPT ![t] = Using(code, cache[code].value)]
              /\ UNCHANGED cacheLock
           \/ /\ ~Fresh(code)
              /\ cacheLock' = t
              /\ thread' = [thread EXCEPT ![t].pc = "fetch", ![t].since = now]
        /\ UNCHANGED <<server, cache>>

\* _fetch_service_token: the request, which the endpoint may refuse (FetchFails)
Post(t) ==
    /\ Doing(t, "fetch")
    /\ StartIssue(t, Main, Configured, Jcc, {thread[t].code})
    /\ thread' = [thread EXCEPT ![t].pc = "answer"]
    /\ UNCHANGED <<now, mix, cache, cacheLock>>
Receive(t) ==
    LET code == thread[t].code
        value == req[t].answer
    IN  /\ Doing(t, "answer") /\ req[t].pc = "idle" /\ value # NoToken
        /\ cache' = [cache EXCEPT ![code] = [value |-> value,
                                             refreshAt |-> RefreshAt(thread[t].since)]]
        /\ cacheLock' = NoReq
        /\ thread' = [thread EXCEPT ![t] = Using(code, value)]
        /\ req' = [req EXCEPT ![t] = Idle]
        /\ UNCHANGED <<now, rows, lock, token, mix>>

\* Mutant: the lock is not released when the fetch fails.
FetchFailsHolding(t) ==
    /\ Fetching(t)
    /\ thread' = [thread EXCEPT ![t] = NoCall]
    /\ req' = [req EXCEPT ![t] = Idle]
    /\ UNCHANGED <<now, rows, lock, token, mix, cache, cacheLock>>
\* An error, or no answer in time: what the endpoint may still do reaches nobody.
FetchFails(t) ==
    /\ Fetching(t)
    /\ cacheLock' = NoReq
    /\ thread' = [thread EXCEPT ![t] = NoCall]
    /\ req' = [req EXCEPT ![t] = Idle]
    /\ UNCHANGED <<now, rows, lock, token, mix, cache>>

\* JCC answers, or fails.
Use(t) ==
    /\ Doing(t, "use")
    /\ thread' = [thread EXCEPT ![t] = NoCall]
    /\ UNCHANGED <<server, cache, cacheLock>>

\* The process that holds the cache is restarted.
Restart ==
    /\ "call" \in mix.ops
    /\ cache' = [c \in Code |-> NotCached]
    /\ cacheLock' = NoReq
    /\ thread' = [t \in Thread |-> NoCall]
    /\ req' = [r \in Req |-> IF r \in Thread THEN Idle ELSE req[r]]
    /\ UNCHANGED <<now, rows, lock, token, mix>>

ClientTick ==
    /\ Tick
    /\ \A t \in Thread : /\ Fetching(t) => now < thread[t].since + Patience
                         /\ Doing(t, "use") => now < thread[t].since + Delay
    /\ UNCHANGED <<mix, client>>

-----------------------------------------------------------------------------
ServerStep == \/ Create
              \/ \E r \in Req \ Thread : Administer(r) \/ Ask(r)
              \/ \E r \in Req : Proceed(r)

ClientNext ==
    \/ ServerStep /\ UNCHANGED <<now, mix, client>>
    \/ \E t \in Thread : \/ \E code \in Code : StartCall(t, code)
                         \/ Acquire(t) \/ Post(t) \/ Receive(t) \/ FetchFails(t) \/ Use(t)
    \/ Restart
    \/ ClientTick

ClientSpec == ClientInit /\ [][ClientNext]_clientVars
-----------------------------------------------------------------------------
(* Properties *)

ClientTypeOK ==
    /\ cache \in [Code -> CachedServiceToken]
    /\ cacheLock \in Thread \cup {NoReq}
    /\ thread \in [Thread -> Call]
    /\ \A t \in Thread : Fetching(t) <=> cacheLock = t

\* A token that a thread has in hand, from the cache or fresh, does not expire before JCC
\* has answered, whatever the fetch took, and with nothing left to the clock skew.
TokensLast == \A t \in Thread : Doing(t, "use") => now < thread[t].token.iat + TTL

\* Threads that find the cache empty or stale at the same time cause one fetch: whoever
\* fetches is alone, for a token that the cache does not have.
OneFetch ==
    \A t \in Thread : Fetching(t) =>
        ~Fresh(thread[t].code) /\ \A u \in Thread : Fetching(u) => u = t
=============================================================================
