-------------------------- MODULE KeyedRateLimiter --------------------------
(***************************************************************************)
(* httpware.KeyedRateLimiter (httpware/keyed_ratelimit.go): a map from     *)
(* keys to token buckets, the count of the address buckets in it, and the  *)
(* goroutine that evicts idle ones.  A request looks its bucket up under   *)
(* the mutex and takes a token from it afterwards, when the bucket may     *)
(* already have been evicted: buckets are heap objects.  RateLimiter       *)
(* (httpware/ratelimit.go) is the same for tenants only, and takes a token *)
(* only if there is one; a request without a tenant passes it by.          *)
(*                                                                         *)
(* The bucket is golang.org/x/time/rate's.  Tokens are whole and a tick    *)
(* adds Rate of them.                                                      *)
(***************************************************************************)
EXTENDS Integers, FiniteSets, FiniteSetsExt, Functions

CONSTANTS
    Requests,
    Identified, Addresses,  \* tenant and subject keys; client-address keys
    Tenants,                \* the keys of a RateLimiter
    None,
    Rate, Burst,            \* RPS and Burst
    AnonymousRate, AnonymousBurst,
    MaxAnonymousKeys, IdleTTL,
    MaxInFlight,            \* bound on the time between lookup and Reserve
    MaxTime

Keys == Identified \cup Addresses \cup Tenants
RateOf(k) == IF k \in Addresses THEN AnonymousRate ELSE Rate
BurstOf(k) == IF k \in Addresses THEN AnonymousBurst ELSE Burst

ASSUME KeyedRateLimiterAssumption ==
    /\ {Rate, Burst, AnonymousRate, AnonymousBurst, MaxAnonymousKeys, IdleTTL,
        MaxInFlight, MaxTime} \subseteq Nat
    /\ IsFiniteSet(Keys) /\ IsFiniteSet(Requests)
    /\ Tenants \cap (Identified \cup Addresses) = {}
    /\ None \notin Requests \cup Keys \cup Nat

\* A bucket fills up while it is idle, as it does in the ten minutes that are the
\* default unless its burst is 600 times its rate, and no request takes as long
\* from the map to the bucket.  NewKeyedRateLimiter does not insist on it.
IdleTTLFillsBucket ==
    /\ MaxInFlight < IdleTTL
    /\ \A k \in Keys : RateOf(k) * (IdleTTL - MaxInFlight) >= BurstOf(k)

Buckets == 1 .. (Cardinality(Keys) + Cardinality(Requests))

VARIABLES
    served,     \* the keys of this limiter, a KeyedRateLimiter or a RateLimiter
    now,
    keys,       \* the map: key -> bucket, or None
    bucket,     \* the buckets: tokens at time last, lastSeen
    anon,       \* the counter of address buckets
    stopped,    \* Stop has been called
    req,
    admitted    \* history: requests let through per key

vars == <<served, now, keys, bucket, anon, stopped, req, admitted>>

NewRequest == [pc |-> "new", key |-> None, b |-> None, at |-> 0, out |-> None]

TypeOK ==
    /\ served \subseteq Keys
    /\ now \in Nat /\ anon \in Nat /\ stopped \in BOOLEAN
    /\ keys \in [Keys -> Buckets \cup {None}]
    /\ bucket \in [Buckets -> [tokens: Int, last: Nat, lastSeen: Nat]]
    /\ req \in [Requests -> [pc: {"new", "found", "reserved", "done"},
                  key: Keys \cup {None}, b: Buckets \cup {None}, at: Nat,
                  out: {None, "served", "full", "limited"}]]
    /\ admitted \in [Keys -> Nat]

Init ==
    /\ served \in {Identified \cup Addresses, Tenants}
    /\ now = 0 /\ anon = 0 /\ stopped = FALSE
    /\ keys = [k \in Keys |-> None]
    /\ bucket = [b \in Buckets |-> [tokens |-> 0, last |-> 0, lastSeen |-> 0]]
    /\ req = [r \in Requests |-> NewRequest]
    /\ admitted = [k \in Keys |-> 0]

Free == Buckets \ (Range(keys) \cup {req[r].b : r \in Requests})

----------------------------------------------------------------------------
Hold(r, k, b) ==
    req' = [req EXCEPT ![r] = [@ EXCEPT !.pc = "found", !.key = k, !.b = b, !.at = now]]

NewBucket(k) == [tokens |-> BurstOf(k), last |-> now, lastSeen |-> now]

\* Fault: a hit does not count as use.
HitForgetsUse(r, k) ==
    /\ keys[k] # None
    /\ Hold(r, k, keys[k])
    /\ UNCHANGED <<keys, bucket, anon>>

\* limiter, the key has a bucket.
Hit(r, k) ==
    /\ keys[k] # None
    /\ bucket' = [bucket EXCEPT ![keys[k]].lastSeen = now]
    /\ Hold(r, k, keys[k])
    /\ UNCHANGED <<keys, anon>>

Full(k) == k \in Addresses /\ anon >= MaxAnonymousKeys

\* limiter, a new address finds the tier full: refused at once.
Refuse(r, k) ==
    /\ keys[k] = None /\ Full(k)
    /\ req' = [req EXCEPT ![r] = [@ EXCEPT !.pc = "done", !.key = k, !.out = "full"]]
    /\ UNCHANGED <<keys, bucket, anon>>

\* limiter, a bucket is made.
Create(r, k) ==
    /\ keys[k] = None /\ ~Full(k)
    /\ LET b == Min(Free) IN
       /\ keys' = [keys EXCEPT ![k] = b]
       /\ bucket' = [bucket EXCEPT ![b] = NewBucket(k)]
       /\ Hold(r, k, b)
    /\ anon' = IF k \in Addresses THEN anon + 1 ELSE anon

\* RateLimiter.getLimiter.
getLimiter(r, k) == k \in Tenants /\ (Hit(r, k) \/ Create(r, k))

\* KeyedRateLimiter.limiter.
limiter(r, k) == k \notin Tenants /\ (Hit(r, k) \/ Refuse(r, k) \/ Create(r, k))

\* Handler up to the bucket, for a request with key k.
Handler(r, k) ==
    /\ req[r].pc = "new"
    /\ getLimiter(r, k) \/ limiter(r, k)
    /\ UNCHANGED <<served, now, stopped, admitted>>

\* The tokens of a bucket of key k, brought up to date.
Tokens(b, k) ==
    Min({BurstOf(k), bucket[b].tokens + RateOf(k) * (now - bucket[b].last)})

\* RateLimiter.Handler: Allow takes a token if there is one.
Allow(r) ==
    LET b == req[r].b
        k == req[r].key
        ok == Tokens(b, k) > 0
    IN  /\ req[r].pc = "found" /\ k \in Tenants
        /\ bucket' = IF ok THEN [bucket EXCEPT ![b] = [@ EXCEPT
                                   !.tokens = Tokens(b, k) - 1, !.last = now]]
                     ELSE bucket
        /\ admitted' = IF ok THEN [admitted EXCEPT ![k] = @ + 1] ELSE admitted
        /\ req' = [req EXCEPT ![r] = [NewRequest EXCEPT !.pc = "done", !.key = k,
                                        !.out = IF ok THEN "served" ELSE "limited"]]
        /\ UNCHANGED <<served, now, keys, anon, stopped>>

\* Reserve takes a token, on credit if there is none.
Reserve(r) ==
    LET b == req[r].b
        k == req[r].key
        ok == Tokens(b, k) > 0
    IN  /\ req[r].pc = "found" /\ k \notin Tenants
        /\ bucket' = [bucket EXCEPT ![b] = [@ EXCEPT
                        !.tokens = Tokens(b, k) - 1, !.last = now]]
        /\ admitted' = IF ok THEN [admitted EXCEPT ![k] = @ + 1] ELSE admitted
        /\ req' = [req EXCEPT ![r] = IF ok
                     THEN [NewRequest EXCEPT !.pc = "done", !.key = k, !.out = "served"]
                     ELSE [@ EXCEPT !.pc = "reserved"]]
        /\ UNCHANGED <<served, now, keys, anon, stopped>>

\* Cancel gives the credit back; some time later, maybe no longer.
Cancel(r) ==
    LET b == req[r].b
        k == req[r].key
    IN  /\ req[r].pc = "reserved"
        /\ \E back \in IF bucket[b].last = now THEN {1} ELSE {0, 1} :
             bucket' = [bucket EXCEPT ![b] = [@ EXCEPT !.last = now,
                          !.tokens = Min({BurstOf(k), Tokens(b, k) + back})]]
        /\ req' = [req EXCEPT ![r] = [NewRequest EXCEPT !.pc = "done", !.key = k,
                                                        !.out = "limited"]]
        /\ UNCHANGED <<served, now, keys, anon, stopped, admitted>>

Idle == {k \in Keys : keys[k] # None /\ bucket[keys[k]].lastSeen < now - IdleTTL}

\* The rounds of the cleanup goroutines.
evictStale ==
    /\ ~stopped /\ Idle \cap Tenants # {}
    /\ keys' = [k \in Keys |-> IF k \in Idle THEN None ELSE keys[k]]
    /\ UNCHANGED <<served, now, bucket, anon, stopped, req, admitted>>

\* Fault: the counter does not follow the eviction.
evictIdleKeepsCount ==
    /\ ~stopped /\ Idle \ Tenants # {}
    /\ keys' = [k \in Keys |-> IF k \in Idle THEN None ELSE keys[k]]
    /\ UNCHANGED <<served, now, bucket, anon, stopped, req, admitted>>

evictIdle ==
    /\ ~stopped /\ Idle \ Tenants # {}
    /\ keys' = [k \in Keys |-> IF k \in Idle THEN None ELSE keys[k]]
    /\ anon' = anon - Cardinality(Idle \cap Addresses)
    /\ UNCHANGED <<served, now, bucket, stopped, req, admitted>>

Stop ==
    /\ ~stopped /\ stopped' = TRUE
    /\ UNCHANGED <<served, now, keys, bucket, anon, req, admitted>>

Reuse(r) ==
    /\ req[r].pc = "done"
    /\ req' = [req EXCEPT ![r] = NewRequest]
    /\ UNCHANGED <<served, now, keys, bucket, anon, stopped, admitted>>

Tick ==
    /\ now < MaxTime /\ now' = now + 1
    /\ \A r \in Requests : req[r].pc = "found" => now < req[r].at + MaxInFlight
    /\ UNCHANGED <<served, keys, bucket, anon, stopped, req, admitted>>

Next ==
    \/ \E r \in Requests :
         \/ \E k \in served : Handler(r, k)
         \/ Allow(r) \/ Reserve(r) \/ Cancel(r) \/ Reuse(r)
    \/ evictStale \/ evictIdle \/ Stop \/ Tick

Spec == Init /\ [][Next]_vars

----------------------------------------------------------------------------
\* "never lets a request through unlimited": whatever is evicted and created
\* again, a key gets no more than its burst plus its rate over time, provided
\* IdleTTLFillsBucket.
NeverOverLimit ==
    \A k \in Keys : admitted[k] <= BurstOf(k) + RateOf(k) * now

\* The counter that guards the address tier is the number of its buckets,
\* otherwise the tier would stay full for ever or grow without bound.
AnonymousKeysCounted ==
    /\ anon = Cardinality({k \in Addresses : keys[k] # None})
    /\ anon <= MaxAnonymousKeys
=============================================================================
