-------------------------- MODULE PostgresGateway --------------------------
(***************************************************************************)
(* The gateway over bff.PostgresStore (bff/postgres_store.go): one row per *)
(* session, shared by every BFF process.  Get decodes the row into a fresh *)
(* *Session, so each request works on a copy of its own, and Put writes    *)
(* the whole copy back.  Each statement is atomic; its error is reported   *)
(* to onError and otherwise ignored.  Processes may crash between steps.   *)
(***************************************************************************)
EXTENDS Gateway

CONSTANTS
    Wiped,          \* the empty data of a tombstone
    TombstoneTTL,   \* PostgresStoreTombstoneTTL
    DbFaults,       \* whether statements may fail
    Crashes         \* whether processes may crash

ASSUME PostgresAssumption ==
    /\ TombstoneTTL \in Nat /\ MaxInFlight <= TombstoneTTL
    /\ Wiped # None /\ Wiped \notin SessionType /\ None \notin SessionType
    /\ DbFaults \in BOOLEAN /\ Crashes \in BOOLEAN

VARIABLES
    data,       \* the row's data column: a session or Wiped; None for no row
    deleted_at, \* the row's deleted_at column: a time, or None for NULL
    ended,      \* history: a Delete has succeeded
    removed,    \* history: a row was removed because its session had expired
    overlapped, \* history: two requests have held the session at once
    active      \* history: when a request last used the session

vars == <<gatewayVars, data, deleted_at, ended, removed, overlapped, active>>
storeVars == <<data, deleted_at, ended, removed>>
historyVars == <<overlapped, active>>

Init ==
    /\ GatewayInit
    /\ data = heap[LoginObject] /\ deleted_at = None
    /\ ended = FALSE /\ removed = FALSE /\ overlapped = FALSE
    /\ active = 0

Row == data # None
Live == Row /\ deleted_at = None

----------------------------------------------------------------------------
(* The statements.  A failed one changes nothing.                          *)

StatementFails == DbFaults /\ UNCHANGED storeVars

\* Fault: the upsert has no WHERE deleted_at IS NULL and revives the row.
PutRevives(o) ==
    /\ data' = heap[o] /\ deleted_at' = None
    /\ UNCHANGED <<ended, removed>>

\* INSERT ... ON CONFLICT (id) DO UPDATE ... WHERE deleted_at IS NULL
Put(o) ==
    /\ data' = IF deleted_at = None THEN heap[o] ELSE data
    /\ UNCHANGED <<deleted_at, ended, removed>>

\* UPDATE ... SET data = '\x', deleted_at = now WHERE id: needs a row.
Delete ==
    /\ data' = IF Row THEN Wiped ELSE data
    /\ deleted_at' = IF Row THEN now ELSE deleted_at
    /\ ended' = TRUE /\ UNCHANGED removed

\* DELETE ... WHERE id, whatever has become of the row since Get read it.
remove ==
    /\ data' = None /\ deleted_at' = None
    /\ removed' = TRUE /\ UNCHANGED ended

\* Sweep, one statement: an old tombstone, or the row of an expired session.
Sweep ==
    /\ \/ /\ deleted_at # None /\ deleted_at < now - TombstoneTTL
          /\ data' = None /\ deleted_at' = None
          /\ UNCHANGED <<ended, removed>>
       \/ Live /\ expired(data, now) /\ remove
    /\ UNCHANGED <<gatewayVars, historyVars>>

----------------------------------------------------------------------------
(* The steps of a request that use the store.                              *)

Get(r) ==
    /\ req[r].pc = "new"
    /\ \/ /\ Live
          /\ heap' = [heap EXCEPT ![r] = data]
          /\ Found(r, r)
          /\ overlapped' = (overlapped \/ \E q \in Requests : Holding(q))
       \/ /\ ~Live \/ DbFaults
          /\ NoSession(r)
          /\ UNCHANGED <<heap, overlapped>>
    /\ UNCHANGED <<now, storeVars, active>>

GetExpired(r) ==
    /\ req[r].pc = "expired"
    /\ remove \/ StatementFails
    /\ NoSession(r)
    /\ UNCHANGED <<now, heap, historyVars>>

\* Fault: EnsureFresh does not write the rotated token through.
PutTokensSkipped(r) ==
    /\ req[r].pc = "put"
    /\ Land(r, "fresh")
    /\ UNCHANGED <<now, heap, idp, storeVars, historyVars>>

\* If the write fails, only this request's copy has the rotated token.
PutTokens(r) ==
    /\ req[r].pc = "put"
    /\ \/ Put(req[r].obj) /\ UNCHANGED idp
       \/ StatementFails /\ idp' = Abandoned({r})
    /\ Land(r, "fresh")
    /\ UNCHANGED <<now, heap, historyVars>>

PutTouch(r) ==
    /\ req[r].pc = "touched"
    /\ Put(req[r].obj) \/ StatementFails
    /\ Answer(r, "forwarded")
    /\ UNCHANGED <<now, heap, flight, idp, historyVars>>

EndSession(r) ==
    /\ req[r].pc \in {"rejected", "logout"}
    /\ Delete \/ StatementFails
    /\ Answer(r, IF req[r].pc = "rejected" THEN "401" ELSE "loggedout")
    /\ UNCHANGED <<now, heap, flight, idp, historyVars>>

Step(r) ==
    \/ /\ GatewayStep(r)
       /\ active' = IF req[r].pc = "fresh" THEN now ELSE active
       /\ UNCHANGED <<storeVars, overlapped>>
    \/ Get(r) \/ GetExpired(r) \/ PutTokens(r) \/ PutTouch(r) \/ EndSession(r)

\* Process i dies with its requests and its singleflight group; browsers send
\* new requests to the process that replaces it.
Crash(i) ==
    /\ Crashes
    /\ LET R == {r \in Requests : req[r].inst = i} IN
       /\ \E r \in R : Holding(r)
       /\ req' = [r \in Requests |-> IF r \in R THEN NewRequest(i) ELSE req[r]]
       /\ idp' = Abandoned(R)
    /\ flight' = [flight EXCEPT ![i] = None]
    /\ UNCHANGED <<now, heap, storeVars, historyVars>>

Next ==
    \/ \E r \in Requests : Step(r)
    \/ GatewayEnvironment /\ UNCHANGED <<storeVars, historyVars>>
    \/ \E i \in Instances : Crash(i)
    \/ Sweep

\* Every goroutine makes progress: statements are bounded by
\* postgresStoreOpTimeout and refreshes by RefreshTimeout.
Spec == Init /\ [][Next]_vars /\ \A r \in Requests : WF_vars(Step(r))

----------------------------------------------------------------------------
TypeOK ==
    /\ GatewayTypeOK
    /\ data \in SessionType \cup {None, Wiped}
    /\ deleted_at \in Nat \cup {None}
    /\ ended \in BOOLEAN /\ removed \in BOOLEAN /\ overlapped \in BOOLEAN
    /\ active \in Nat
    /\ deleted_at # None <=> data = Wiped

----------------------------------------------------------------------------
(* Why the properties below hold: an inductive invariant.                  *)

\* A request works on the copy its Get decoded, and only for so long.
HoldingInv ==
    \A r \in Requests :
        /\ req[r].obj = IF req[r].pc \in {"new", "done"} THEN None ELSE r
        /\ Holding(r) => req[r].start <= now /\ now <= req[r].start + MaxInFlight

\* The row is there until Delete or an expiry; after a Delete, every request
\* that may still Put started before the tombstone, which so outlives it.
RowInv ==
    /\ deleted_at # None => ended /\ deleted_at <= now
    /\ ~ended /\ ~removed => data \in SessionType
    /\ ended /\ ~removed =>
         /\ data \in {None, Wiped}
         /\ \A r \in Requests :
              Holding(r) => deleted_at # None /\ req[r].start <= deleted_at

\* No copy of the session, stored or held, claims use later than the last.
SeenInv ==
    /\ active <= now
    /\ Live => data.lastSeen <= active
    /\ \A r \in Requests :
         /\ Holding(r) => heap[r].lastSeen <= active
         /\ req[r].pc = "touch" => req[r].at <= active

\* Token t is the valid one, or its successor was lost.
Current(t) == t = idp.valid \/ t \in idp.lost

\* While requests come one at a time, the row's refresh token is current but
\* for the time a rotated one is in the air, and so is that of the request's
\* own copy until SetTokens stores the rotated one there.
SequentialInv ==
    ~overlapped =>
        /\ \A q, r \in Requests : Holding(q) /\ Holding(r) => q = r
        /\ \A t \in idp.lost : t < idp.valid
        /\ \A t \in idp.late : t <= idp.valid
        /\ Live => \/ Current(data.refresh)
                   \/ \E r \in Requests : InTheAir(r) /\ data.refresh = req[r].token
        /\ \A r \in Requests :
             /\ Holding(r) /\ ~(InTheAir(r) /\ req[r].pc = "answered")
                  => Current(heap[r].refresh)
             /\ req[r].pc \in {"sent", "answered"} => req[r].token = heap[r].refresh
             /\ InTheAir(r) => /\ req[r].answer.refresh = idp.valid
                               /\ req[r].token < idp.valid
                               /\ \A t \in idp.late : t < idp.valid

IndInv == HoldingInv /\ RowInv /\ SeenInv /\ SequentialInv

----------------------------------------------------------------------------
\* A logout is final: once Delete has succeeded, no Put of a request that was
\* in flight re-creates the session, also after the tombstone is swept, and
\* none of its data is kept.  The one exception is a session that expired:
\* removing its row (remove, Sweep) leaves no tombstone.
DeletedStaysDeleted == ended /\ ~removed => ~Live /\ data \in {None, Wiped}

\* The same without the exception, as PostgresStore.Put says of itself: it
\* "never re-creates a deleted one".
PutNeverRecreates == ended => ~Live

\* The stored refresh token never goes back to one that was spent before: Put
\* "keeps the rotated refresh token rather than the spent one" (EnsureFresh).
StoredTokenNeverRegresses ==
    [][Live /\ Live' => data'.refresh >= data.refresh]_vars

\* An idle session is dead, whatever else has failed: no request, and no
\* logout, gets past SessionFromRequest once nobody has used the session for
\* Idle, also if the Delete that should have ended it was only reported, its
\* touch was lost, or a stale copy was written back (Get, expired).
IdleMeansDead ==
    [][\A r \in Requests :
         req[r].pc = "found" /\ req'[r].pc \in {"loaded", "logout"} /\ Idle > 0
         => now - active < Idle]_vars

\* As long as no two requests held the session at once, a spent refresh token
\* is only presented if its successor was lost: on the way, in a crash or in a
\* failed statement (EnsureFresh).
SequentialSpentOnlyWhenLost == ~overlapped => SpentOnlyWhenLost
=============================================================================
