--------------------------- MODULE MemoryGateway ---------------------------
(***************************************************************************)
(* The gateway over bff.MemoryStore (bff/session.go): a map from session   *)
(* ids to *Session and a map of tombstones, behind one mutex.  Get hands   *)
(* out the pointer that is in the map, so every request works on the same  *)
(* object.                                                                 *)
(***************************************************************************)
EXTENDS Gateway

CONSTANT TombstoneTTL   \* PostgresStoreTombstoneTTL, shared by both stores

\* The store lives in one process.  An hour's tombstone outlives any request.
ASSUME MemoryAssumption ==
    /\ TombstoneTTL \in Nat /\ MaxInFlight <= TombstoneTTL
    /\ \E i \in Instances : Instances = {i}

VARIABLES
    sessions,   \* the map's entry for the id: an object or None
    tombstone,  \* when Delete removed it, or None
    deleted     \* history: Delete has run

vars == <<gatewayVars, sessions, tombstone, deleted>>
storeVars == <<sessions, tombstone, deleted>>

Init ==
    /\ GatewayInit
    /\ sessions = LoginObject /\ tombstone = None /\ deleted = FALSE

----------------------------------------------------------------------------
(* The store's critical sections.                                          *)

\* Fault: Put does not look for a tombstone.
PutIgnoresTombstone(o) == sessions' = o /\ UNCHANGED <<tombstone, deleted>>

Put(o) ==
    /\ sessions' = IF tombstone # None THEN sessions ELSE o
    /\ UNCHANGED <<tombstone, deleted>>

\* Fault: no tombstone is kept.
DeleteWithoutTombstone ==
    sessions' = None /\ deleted' = TRUE /\ UNCHANGED tombstone

Delete ==
    /\ sessions' = None
    /\ tombstone' = now
    /\ deleted' = TRUE

\* An expired session goes without a tombstone.
Sweep ==
    /\ sessions' = IF sessions # None /\ expired(heap[sessions], now)
                   THEN None ELSE sessions
    /\ tombstone' = IF tombstone # None /\ tombstone < now - TombstoneTTL
                    THEN None ELSE tombstone
    /\ <<sessions', tombstone'>> # <<sessions, tombstone>>
    /\ UNCHANGED <<gatewayVars, deleted>>

----------------------------------------------------------------------------
(* The steps of a request that use the store.                              *)

Get(r) ==
    /\ req[r].pc = "new"
    /\ IF sessions = None THEN NoSession(r) ELSE Found(r, sessions)
    /\ UNCHANGED <<now, heap, storeVars>>

\* Get deletes the session it found expired and reports that there is none.
GetExpired(r) ==
    /\ req[r].pc = "expired"
    /\ Delete
    /\ NoSession(r)
    /\ UNCHANGED <<now, heap>>

\* The write-through at the end of a refresh; then the flight lands.
PutTokens(r) ==
    /\ req[r].pc = "put"
    /\ Put(req[r].obj)
    /\ Land(r, "fresh")
    /\ UNCHANGED <<now, heap, idp>>

PutTouch(r) ==
    /\ req[r].pc = "touched"
    /\ Put(req[r].obj)
    /\ Answer(r, "forwarded")
    /\ UNCHANGED <<now, heap, flight, idp>>

\* A rejected refresh token ends the session, and so does a logout.
EndSession(r) ==
    /\ req[r].pc \in {"rejected", "logout"}
    /\ Delete
    /\ Answer(r, IF req[r].pc = "rejected" THEN "401" ELSE "loggedout")
    /\ UNCHANGED <<now, heap, flight, idp>>

Step(r) ==
    \/ GatewayStep(r) /\ UNCHANGED storeVars
    \/ Get(r) \/ GetExpired(r) \/ PutTokens(r) \/ PutTouch(r) \/ EndSession(r)

Next ==
    \/ \E r \in Requests : Step(r)
    \/ GatewayEnvironment /\ UNCHANGED storeVars
    \/ Sweep

\* Every goroutine makes progress: each wait is a mutex or is bounded by
\* RefreshTimeout.  The server, the browser and the sweeper owe nothing.
Spec == Init /\ [][Next]_vars /\ \A r \in Requests : WF_vars(Step(r))

----------------------------------------------------------------------------
TypeOK ==
    /\ GatewayTypeOK
    /\ sessions \in Objects \cup {None}
    /\ tombstone \in Nat \cup {None}
    /\ deleted \in BOOLEAN

\* A logout is final: once Delete has run, no Put of a request that was in
\* flight brings the session back, although tombstones are swept
\* (MemoryStore.Put and Delete).
DeletedStaysDeleted == deleted => sessions = None

\* A session is torn down by a rejected refresh only if it really is dead: the
\* server revoked it or the session lost the one token that would be accepted.
\* No request is logged out because a sibling refreshed first.
RejectedOnlyWhenDead ==
    \A r \in Requests :
        req[r].pc \in {"refused", "rejected"} =>
            idp.revoked \/ heap[LoginObject].refresh \in idp.lost

----------------------------------------------------------------------------
(* Why the three properties hold: the inductive invariant.                 *)

\* A request holds the shared object between Get and its answer, and for no
\* longer than MaxInFlight.
HoldingInv ==
    /\ sessions \in {None, LoginObject}
    /\ \A r \in Requests :
        /\ req[r].obj = IF req[r].pc \in {"new", "done"} THEN None
                        ELSE LoginObject
        /\ Holding(r) => /\ req[r].start <= now
                         /\ now <= req[r].start + MaxInFlight

\* While the tombstone stands, every holder of the object is older than it;
\* once it is swept, nobody holds the object any more.
TombstoneInv ==
    /\ tombstone # None => deleted /\ tombstone <= now
    /\ deleted =>
         /\ sessions = None
         /\ \A r \in Requests :
              Holding(r) => tombstone # None /\ req[r].start <= tombstone

\* One flight at a time, and its leader presents the shared object's token.
FlightInv ==
    \A r \in Requests :
        /\ req[r].pc \in Leading => flight[req[r].inst] = r
        /\ req[r].pc \in {"sent", "answered", "refused"} =>
             req[r].token = heap[LoginObject].refresh

Rotated(r) == req[r].pc = "answered" /\ req[r].answer.refresh # NoToken

\* The shared object has the valid token, or the valid token is in the answer
\* the leader is about to apply, or it is lost for good.
TokenInv ==
    LET mine == heap[LoginObject].refresh IN
    /\ \A t \in idp.lost : t < idp.valid
    /\ \A t \in idp.late : t <= mine
    /\ \/ mine = idp.valid
       \/ mine \in idp.lost
       \/ \E r \in Requests : Rotated(r)
    /\ \A r \in Requests :
         Rotated(r) => /\ req[r].answer.refresh = idp.valid
                       /\ mine < idp.valid /\ mine \notin idp.lost

IndInv ==
    HoldingInv /\ TombstoneInv /\ FlightInv /\ TokenInv /\ RejectedOnlyWhenDead

\* Every variable has its type, and: only requests in flight hold the session
\* object, the tombstone outlives them, a flight has one leader, and the valid
\* refresh token is stored, about to be stored, or lost.
Inv == TypeOK /\ IndInv

----------------------------------------------------------------------------
(* The gateway implements SessionService.  A refresh takes effect when its *)
(* answer is applied: until then the token the server issued is on its way *)
(* and the old one counts as valid.                                        *)

Status == IF deleted THEN "ended" ELSE IF sessions = None THEN "gone" ELSE "live"

Phase == [r \in Requests |->
            IF ~Holding(r) THEN "idle"
            ELSE IF req[r].pc = "rejected" THEN "rejected" ELSE "serving"]

Held == heap[LoginObject].refresh

Valid == IF \E r \in Requests : Rotated(r) THEN Held ELSE idp.valid

Service == INSTANCE SessionService WITH
    status <- Status, phase <- Phase, held <- Held, valid <- Valid,
    revoked <- idp.revoked

\* To its requests the gateway is a session that is refreshed in one step, is
\* over for good once ended, and is refused only when no refresh could succeed
\* (EnsureFresh, ProxyWithSession, MemoryStore).
ImplementsService == Service!Spec
=============================================================================
