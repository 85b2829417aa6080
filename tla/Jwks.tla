------------------------------- MODULE Jwks -------------------------------
(***************************************************************************)
(* The key cache of jwtauth.Middleware (jwtauth/middleware.go): getKey     *)
(* with its cooldown, its negative cache and the singleflight group that   *)
(* coalesces refetches of the JWKS document, against a server that         *)
(* publishes and withdraws signing keys.                                   *)
(*                                                                         *)
(* A key is known by its kid.  now is the one clock; a time that was never *)
(* set (the zero time.Time) is None, and lies infinitely far back.         *)
(***************************************************************************)
EXTENDS Integers, FiniteSets, FiniteSetsExt

CONSTANTS
    Requests, Kids, None,
    CacheTTL,           \* after this long the key set has to be fetched again
    MinRefetchInterval, \* cooldown between two fetches
    NegativeCacheTTL,   \* how long an unknown kid is remembered
    MaxInFlight,        \* bound on one getKey: the HTTP client's timeout
    MaxTime, MaxChanges \* bounds on the clock and on changes of the key set

ASSUME JwksAssumption ==
    /\ CacheTTL \in Nat /\ MinRefetchInterval \in Nat \ {0}
    /\ NegativeCacheTTL \in Nat \ {0} /\ MaxInFlight \in Nat
    /\ None \notin Requests \cup Nat

VARIABLES
    faulty,     \* whether the endpoint may fail
    now,
    published,  \* the key set the server publishes
    since,      \* since[k]: when k was last published or withdrawn
    changes,    \* how often the server has changed the set
    keys, lastFetch, lastRefetchAttempt,
    negativeCache,  \* kid -> when it was last seen unknown, or None
    flight,     \* sf: the request that leads the fetch in progress, or None
    req         \* what each request is doing

cacheVars == <<keys, lastFetch, lastRefetchAttempt, negativeCache>>
serverVars == <<faulty, published, since, changes>>
vars == <<now, serverVars, cacheVars, flight, req>>

PC == {"new", "join", "wait", "lead", "fetch", "got", "lookup", "unknown", "done"}

\* ok: getKey found the kid in the cache when it started.  doc: the key set in
\* the response of the fetch this request leads.
RequestType ==
    [pc: PC, kid: Kids \cup {None}, ok: BOOLEAN, start: Nat, doc: SUBSET Kids,
     out: {None, "served", "notfound", "error"}]

NewRequest ==
    [pc |-> "new", kid |-> None, ok |-> FALSE, start |-> 0, doc |-> {},
     out |-> None]

TypeOK ==
    /\ faulty \in BOOLEAN /\ now \in Nat /\ changes \in Nat
    /\ published \subseteq Kids /\ keys \subseteq Kids
    /\ since \in [Kids -> Nat]
    /\ {lastFetch, lastRefetchAttempt} \subseteq Nat \cup {None}
    /\ negativeCache \in [Kids -> Nat \cup {None}]
    /\ flight \in Requests \cup {None}
    /\ req \in [Requests -> RequestType]

Init ==
    /\ faulty \in BOOLEAN
    /\ now = 0 /\ changes = 0 /\ since = [k \in Kids |-> 0]
    /\ published \in SUBSET Kids \ {{}}
    /\ keys = {} /\ lastFetch = None /\ lastRefetchAttempt = None
    /\ negativeCache = [k \in Kids |-> None]
    /\ flight = None
    /\ req = [r \in Requests |-> NewRequest]

\* time.Since(t) < d
Within(t, d) == t # None /\ now - t < d

Done(kid, out) == [NewRequest EXCEPT !.pc = "done", !.kid = kid, !.out = out]

Finish(r, kid, out) == req' = [req EXCEPT ![r] = Done(kid, out)]

----------------------------------------------------------------------------
\* Fault: an unknown kid causes a fetch only once the cache has expired.
getKeyTrustsCache(r, kid) ==
    LET ok == kid \in keys
        expired == lastFetch = None \/ now - lastFetch > CacheTTL
        fetch == expired /\ ~Within(lastRefetchAttempt, MinRefetchInterval)
    IN  /\ req[r].pc = "new"
        /\ IF fetch
           THEN req' = [req EXCEPT ![r] = [NewRequest EXCEPT
                          !.pc = "join", !.kid = kid, !.ok = ok, !.start = now]]
           ELSE Finish(r, kid, IF ok THEN "served" ELSE "notfound")
        /\ UNCHANGED <<now, serverVars, cacheVars, flight>>

\* The first critical section of getKey, and the decisions taken from it.
getKey(r, kid) ==
    LET ok == kid \in keys
        expired == lastFetch = None \/ now - lastFetch > CacheTTL
        inCooldown == Within(lastRefetchAttempt, MinRefetchInterval)
        negFresh == Within(negativeCache[kid], NegativeCacheTTL)
    IN  /\ req[r].pc = "new"
        /\ \/ /\ ok /\ (~expired \/ inCooldown)
              /\ Finish(r, kid, "served")
           \/ /\ ~ok /\ (negFresh \/ inCooldown)
              /\ Finish(r, kid, "notfound")
           \/ /\ IF ok THEN expired ELSE ~negFresh
              /\ ~inCooldown
              /\ req' = [req EXCEPT ![r] = [NewRequest EXCEPT
                           !.pc = "join", !.kid = kid, !.ok = ok, !.start = now]]
        /\ UNCHANGED <<now, serverVars, cacheVars, flight>>

\* sf.Do: lead a fetch or wait for the one in progress.
Join(r) ==
    /\ req[r].pc = "join"
    /\ req' = [req EXCEPT ![r].pc = IF flight = None THEN "lead" ELSE "wait"]
    /\ flight' = IF flight = None THEN r ELSE flight
    /\ UNCHANGED <<now, serverVars, cacheVars>>

StartFetch(r) ==
    /\ req[r].pc = "lead"
    /\ lastRefetchAttempt' = now
    /\ req' = [req EXCEPT ![r].pc = "fetch"]
    /\ UNCHANGED <<now, serverVars, keys, lastFetch, negativeCache, flight>>

\* The server answers with the keys it publishes at that moment.
Respond(r) ==
    /\ req[r].pc = "fetch" /\ published # {}
    /\ req' = [req EXCEPT ![r].pc = "got", ![r].doc = published]
    /\ UNCHANGED <<now, serverVars, cacheVars, flight>>

Landing(r) == {q \in Requests : q = r \/ req[q].pc = "wait"}

\* The response replaces the key set; everyone looks its kid up again.
StoreKeys(r) ==
    /\ req[r].pc = "got"
    /\ keys' = req[r].doc /\ lastFetch' = now
    /\ negativeCache' = [k \in Kids |-> None]
    /\ req' = [q \in Requests |-> IF q \in Landing(r)
                 THEN [req[q] EXCEPT !.pc = "lookup", !.doc = {}] ELSE req[q]]
    /\ flight' = None
    /\ UNCHANGED <<now, serverVars, lastRefetchAttempt>>

\* Fault: only the leader learns of the failure.
FetchFailsAlone(r) ==
    /\ req[r].pc = "fetch" /\ faulty
    /\ Finish(r, req[r].kid, IF req[r].ok THEN "served" ELSE "error")
    /\ flight' = None
    /\ UNCHANGED <<now, serverVars, cacheVars>>

\* Timeout, bad status, or no usable key: the stale key is used if there is one.
FetchFails(r) ==
    /\ req[r].pc = "fetch" /\ faulty
    /\ req' = [q \in Requests |-> IF q \in Landing(r)
                 THEN Done(req[q].kid, IF req[q].ok THEN "served" ELSE "error")
                 ELSE req[q]]
    /\ flight' = None
    /\ UNCHANGED <<now, serverVars, cacheVars>>

Lookup(r) ==
    /\ req[r].pc = "lookup"
    /\ IF req[r].kid \in keys
       THEN Finish(r, req[r].kid, "served")
       ELSE req' = [req EXCEPT ![r].pc = "unknown"]
    /\ UNCHANGED <<now, serverVars, cacheVars, flight>>

rememberUnknownKid(r) ==
    /\ req[r].pc = "unknown"
    /\ negativeCache' = [k \in Kids |->
                           IF k = req[r].kid THEN now
                           ELSE IF Within(negativeCache[k], NegativeCacheTTL)
                           THEN negativeCache[k] ELSE None]
    /\ Finish(r, req[r].kid, "notfound")
    /\ UNCHANGED <<now, serverVars, keys, lastFetch, lastRefetchAttempt, flight>>

\* The goroutine is done with one token and meets another.
Reuse(r) ==
    /\ req[r].pc = "done"
    /\ req' = [req EXCEPT ![r] = NewRequest]
    /\ UNCHANGED <<now, serverVars, cacheVars, flight>>

\* The server publishes a new signing key or withdraws an old one.  A working
\* endpoint always has a key; a document without one counts as a failure.
Rotate(k) ==
    /\ changes < MaxChanges
    /\ published # {k} \/ faulty
    /\ published' = IF k \in published THEN published \ {k} ELSE published \cup {k}
    /\ since' = [since EXCEPT ![k] = now]
    /\ changes' = changes + 1
    /\ UNCHANGED <<faulty, now, cacheVars, flight, req>>

InFlight(r) == req[r].pc \notin {"new", "done"}

Tick ==
    /\ now < MaxTime
    /\ \A r \in Requests : InFlight(r) => now < req[r].start + MaxInFlight
    /\ now' = now + 1
    /\ UNCHANGED <<serverVars, cacheVars, flight, req>>

Step(r) ==
    \/ Join(r) \/ StartFetch(r) \/ StoreKeys(r) \/ FetchFails(r)
    \/ Lookup(r) \/ rememberUnknownKid(r)

Next ==
    \/ \E r \in Requests :
         \/ Step(r) \/ Respond(r) \/ Reuse(r)
         \/ \E k \in Kids : getKey(r, k)
    \/ \E k \in Kids : Rotate(k)
    \/ Tick

Spec == Init /\ [][Next]_vars

----------------------------------------------------------------------------
\* Request r is answered out in this step.
Answers(r, out) == req[r].pc # "done" /\ req'[r].pc = "done" /\ req'[r].out = out

\* A legitimately rotated kid resolves: if the endpoint works, a published key
\* is reported unknown only in the first moments after its publication or
\* while a fetch is under way (cooldown and negative cache in getKey).
NotFoundOnlyBriefly ==
    [][\A r \in Requests :
         LET k == req'[r].kid IN
         Answers(r, "notfound") /\ k \in published /\ ~faulty =>
            \/ flight # None
            \/ now - since[k] < Max({MinRefetchInterval,
                                     2 * MaxInFlight + NegativeCacheTTL})]_vars

\* A withdrawn key is not trusted for ever: if the endpoint works, it is served
\* only until the cache expires or the fetch that drops it is under way.
WithdrawnKeyExpires ==
    [][\A r \in Requests :
         LET k == req'[r].kid IN
         Answers(r, "served") /\ k \notin published /\ ~faulty =>
            \/ flight # None
            \/ now - since[k] <= Max({MinRefetchInterval, CacheTTL + MaxInFlight,
                                      2 * MaxInFlight})]_vars

\* A published key is reported unknown, and a withdrawn one served, only briefly.
KeysAreCurrent == NotFoundOnlyBriefly /\ WithdrawnKeyExpires

\* "minRefetchInterval is the minimum wall-clock gap between outbound JWKS
\* refetches" (the field's comment).
RefetchGap ==
    [][lastRefetchAttempt' # lastRefetchAttempt /\ lastRefetchAttempt # None =>
         lastRefetchAttempt' - lastRefetchAttempt >= MinRefetchInterval]_vars

\* Nobody waits for a fetch that is over: whoever waits on the singleflight
\* group has a leader that is still fetching and will wake it, also if the
\* endpoint fails (sf.Do in getKey).
WaitersHaveALeader ==
    \A r \in Requests :
        req[r].pc = "wait" =>
            flight # None /\ req[flight].pc \in {"lead", "fetch", "got"}
=============================================================================
