--------------------------- MODULE ServiceTokens ---------------------------
(***************************************************************************)
(* The service-account token caches of socrate.Client: ServiceToken and    *)
(* InvalidateServiceToken (socrate/client.go), ServiceTokenWithScopes and  *)
(* its LRU of cache entries (socrate/service_token_scopes.go).             *)
(*                                                                         *)
(* A cache entry is a heap object: a caller may hold one that an eviction  *)
(* or an invalidation has taken out of the map.  The scope-less token is   *)
(* the entry Default, which is never dropped.  A scope set is one member   *)
(* of Scopes: normaliseScopes makes order and duplicates irrelevant.       *)
(* Tokens are numbered in the order the server issues them; 0 is none.     *)
(***************************************************************************)
EXTENDS Integers, FiniteSets, FiniteSetsExt, Functions

CONSTANTS
    Callers, Scopes, None,
    MaxScoped,      \* maxScopedServiceTokens
    RenewBefore,    \* serviceTokenRenewBefore
    Lifetime,       \* how long the server's tokens live
    UnknownLifetime,\* unknownTokenLifetime
    MaxTime, MaxTokens, MaxTick \* bounds on clock, tokens and uses

ASSUME ServiceTokensAssumption ==
    /\ MaxScoped \in Nat \ {0} /\ RenewBefore \in Nat /\ Lifetime \in Nat \ {0}
    /\ UnknownLifetime \in 0 .. Lifetime
    /\ IsFiniteSet(Callers) /\ MaxTokens \in Nat
    /\ None \notin Callers \cup Scopes \cup Nat

Unscoped == "unscoped"
Default == 0
Entries == 0 .. (MaxScoped + Cardinality(Callers))

VARIABLES
    now,
    entry,      \* the entries: mutex owner, token, expiry, lastUsed
    scoped,     \* the map from scope sets to entries
    scopedTick,
    issued,     \* how many tokens the server has issued
    realExpiry, \* when each of them expires
    call,       \* what each caller is doing
    invalidate, \* InvalidateServiceToken: "idle", or between its two halves
    floor       \* history: tokens up to floor[cache] were dropped by it

vars == <<now, entry, scoped, scopedTick, issued, realExpiry, call, invalidate, floor>>
serverVars == <<issued, realExpiry>>

EmptyEntry == [owner |-> None, token |-> 0, expiry |-> 0, lastUsed |-> 0]

Idle == [pc |-> "idle", scope |-> None, e |-> Default, sent |-> 0, token |-> 0,
         expiry |-> 0, floor |-> 0]

TypeOK ==
    /\ now \in Nat /\ scopedTick \in Nat /\ issued \in 0 .. MaxTokens
    /\ entry \in [Entries -> [owner: Callers \cup {None}, token: Nat,
                              expiry: Nat, lastUsed: Nat]]
    /\ scoped \in [Scopes -> Entries \cup {None}]
    /\ realExpiry \in [1 .. MaxTokens -> Nat]
    /\ call \in [Callers ->
         [pc: {"idle", "lock", "sent", "answered", "done"},
          scope: Scopes \cup {Unscoped, None}, e: Entries, sent: Nat,
          token: Nat, expiry: Nat, floor: Nat]]
    /\ invalidate \in {"idle", "scoped"}
    /\ floor \in [{"unscoped", "scoped"} -> Nat]

Init ==
    /\ now = 0 /\ scopedTick = 0 /\ issued = 0
    /\ entry = [e \in Entries |-> EmptyEntry]
    /\ scoped = [s \in Scopes |-> None]
    /\ realExpiry = [t \in 1 .. MaxTokens |-> 0]
    /\ call = [c \in Callers |-> Idle]
    /\ invalidate = "idle" /\ floor = [k \in {"unscoped", "scoped"} |-> 0]

Cached == {s \in Scopes : scoped[s] # None}
Held == {call[c].e : c \in {d \in Callers : call[d].pc # "idle"}}
Free == Entries \ (Range(scoped) \cup Held \cup {Default})

----------------------------------------------------------------------------
\* A caller of ServiceToken goes straight to the mutex.
ServiceToken(c) ==
    /\ call[c].pc = "idle"
    /\ call' = [call EXCEPT ![c] = [Idle EXCEPT !.pc = "lock",
                  !.scope = Unscoped, !.floor = floor["unscoped"]]]
    /\ UNCHANGED <<now, entry, scoped, scopedTick, serverVars, invalidate, floor>>

\* The least recently used scope set.
Oldest == CHOOSE s \in Cached :
            \A t \in Cached : entry[scoped[s]].lastUsed <= entry[scoped[t]].lastUsed

\* scopedEntry under scopedMu: use the set's entry, or make one, evicting the
\* least recently used set when the cache is full.
ServiceTokenWithScopes(c, s) ==
    /\ call[c].pc = "idle" /\ scopedTick < MaxTick
    /\ scopedTick' = scopedTick + 1
    /\ LET hit == s \in Cached
           e == IF hit THEN scoped[s] ELSE Min(Free)
           kept == IF ~hit /\ Cardinality(Cached) >= MaxScoped
                   THEN [scoped EXCEPT ![Oldest] = None] ELSE scoped
       IN  /\ entry' = [entry EXCEPT ![e] =
                 [IF hit THEN @ ELSE EmptyEntry EXCEPT !.lastUsed = scopedTick']]
           /\ scoped' = [kept EXCEPT ![s] = e]
           /\ call' = [call EXCEPT ![c] = [Idle EXCEPT !.pc = "lock",
                         !.scope = s, !.e = e, !.floor = floor["scoped"]]]
    /\ UNCHANGED <<now, serverVars, invalidate, floor>>

\* The caller leaves with a token (or with an error, when it is 0), unlocking.
Return(c, token, expiry) ==
    call' = [call EXCEPT ![c] = [@ EXCEPT !.pc = "done", !.token = token,
                                          !.expiry = expiry, !.sent = 0]]

\* The mutex is ours: return the cached token or start an exchange.
Lock(c) ==
    LET e == entry[call[c].e] IN
    /\ call[c].pc = "lock" /\ e.owner = None
    /\ \/ /\ e.token # 0 /\ now + RenewBefore < e.expiry
          /\ Return(c, e.token, e.expiry)
          /\ UNCHANGED entry
       \/ /\ e.token = 0 \/ now + RenewBefore >= e.expiry
          /\ entry' = [entry EXCEPT ![call[c].e].owner = c]
          /\ call' = [call EXCEPT ![c].pc = "sent", ![c].sent = now]
    /\ UNCHANGED <<now, scoped, scopedTick, serverVars, invalidate, floor>>

\* Fault: expires_in is counted from the receipt of the answer.
tokenExpiryFromReceipt(has, sent, real) ==
    IF "exp" \in has /\ real > sent THEN real
    ELSE now + (IF "expires_in" \in has THEN Lifetime ELSE UnknownLifetime)

\* tokenExpiry: the exp claim if it lies ahead, else expires_in counted from the
\* sending, else a short lifetime counted from it.
tokenExpiry(has, sent, real) ==
    IF "exp" \in has /\ real > sent THEN real
    ELSE sent + (IF "expires_in" \in has THEN Lifetime ELSE UnknownLifetime)

\* The server issues a token, at a moment between sending and answer.
Issue(c) ==
    /\ call[c].pc = "sent" /\ issued < MaxTokens
    /\ issued' = issued + 1
    /\ realExpiry' = [realExpiry EXCEPT ![issued'] = now + Lifetime]
    /\ call' = [call EXCEPT ![c].pc = "answered", ![c].token = issued']
    /\ UNCHANGED <<now, entry, scoped, scopedTick, invalidate, floor>>

\* The answer grants every scope: keep the token in the entry and return it.
Store(c) ==
    /\ call[c].pc = "answered"
    /\ \E has \in SUBSET {"exp", "expires_in"} :
         LET t == call[c].token
             expiry == tokenExpiry(has, call[c].sent, realExpiry[t])
         IN  /\ entry' = [entry EXCEPT ![call[c].e] = [@ EXCEPT
                            !.owner = None, !.token = t, !.expiry = expiry]]
             /\ Return(c, t, expiry)
    /\ UNCHANGED <<now, scoped, scopedTick, serverVars, invalidate, floor>>

\* Fault: the error path leaves the mutex locked.
ExchangeFailsLocked(c) ==
    /\ call[c].pc \in {"sent", "answered"}
    /\ Return(c, 0, 0)
    /\ UNCHANGED <<now, entry, scoped, scopedTick, serverVars, invalidate, floor>>

\* A failed exchange, or an answer that lacks a scope, leaves the entry alone.
ExchangeFails(c) ==
    /\ call[c].pc \in {"sent", "answered"}
    /\ entry' = [entry EXCEPT ![call[c].e].owner = None]
    /\ Return(c, 0, 0)
    /\ UNCHANGED <<now, scoped, scopedTick, serverVars, invalidate, floor>>

\* The caller has used the token and may call again.
Done(c) ==
    /\ call[c].pc = "done"
    /\ call' = [call EXCEPT ![c] = Idle]
    /\ UNCHANGED <<now, entry, scoped, scopedTick, serverVars, invalidate, floor>>

----------------------------------------------------------------------------
\* InvalidateServiceToken: first the scope-less token, under its mutex ...
DropDefault ==
    /\ invalidate = "idle" /\ entry[Default].owner = None
    /\ entry' = [entry EXCEPT ![Default].token = 0, ![Default].expiry = 0]
    /\ floor' = [floor EXCEPT !["unscoped"] = issued]
    /\ invalidate' = "scoped"
    /\ UNCHANGED <<now, scoped, scopedTick, serverVars, call>>

\* Fault: the entries are emptied but stay in the map.
DropScopedInPlace ==
    /\ invalidate = "scoped"
    /\ entry' = [e \in Entries |-> IF e \in Range(scoped)
                   THEN [entry[e] EXCEPT !.token = 0, !.expiry = 0] ELSE entry[e]]
    /\ floor' = [floor EXCEPT !["scoped"] = issued]
    /\ invalidate' = "idle"
    /\ UNCHANGED <<now, scoped, scopedTick, serverVars, call>>

\* ... then the map of scoped entries, whoever may be using them.
DropScoped ==
    /\ invalidate = "scoped"
    /\ scoped' = [s \in Scopes |-> None]
    /\ floor' = [floor EXCEPT !["scoped"] = issued]
    /\ invalidate' = "idle"
    /\ UNCHANGED <<now, entry, scopedTick, serverVars, call>>

Tick == now < MaxTime /\ now' = now + 1
        /\ UNCHANGED <<entry, scoped, scopedTick, serverVars, call, invalidate, floor>>

Next ==
    \/ \E c \in Callers :
         \/ ServiceToken(c) \/ Lock(c) \/ Issue(c) \/ Store(c)
         \/ ExchangeFails(c) \/ Done(c)
         \/ \E s \in Scopes : ServiceTokenWithScopes(c, s)
    \/ DropDefault \/ DropScoped \/ Tick

Spec == Init /\ [][Next]_vars

----------------------------------------------------------------------------
\* A token is never believed to live longer than it does: neither the cache nor
\* a caller has an expiry past the server's (tokenExpiry counts from sent).
ExpiryNotOverstated ==
    /\ \A e \in Entries :
         entry[e].token # 0 => entry[e].expiry <= realExpiry[entry[e].token]
    /\ \A c \in Callers :
         call[c].token # 0 => call[c].expiry <= realExpiry[call[c].token]

\* After a peer refused a token, InvalidateServiceToken really gets rid of it:
\* a call that starts afterwards returns a token issued afterwards, whatever
\* exchanges were in progress.
InvalidationIsEffective ==
    \A c \in Callers :
        call[c].pc = "done" /\ call[c].token # 0 => call[c].token > call[c].floor

\* The mutexes and the map agree with the callers: an entry's mutex is held by
\* the one caller in the middle of an exchange for that entry and by no other,
\* on every path, also if the entry has left the map (the deferred unlocks), so
\* nobody queues on it for nothing and an exchange is shared; and no more than
\* MaxScoped scope sets are cached (scopedEntry).
Consistent ==
    /\ TypeOK
    /\ \A e \in Entries, c \in Callers :
         entry[e].owner = c <=> call[c].pc \in {"sent", "answered"} /\ call[c].e = e
    /\ Cardinality(Cached) <= MaxScoped
=============================================================================
