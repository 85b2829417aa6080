------------------------ MODULE MemoryGatewayProofs ------------------------
(***************************************************************************)
(* Proofs about MemoryGateway, for any number of requests and any values   *)
(* of the timing constants.                                                *)
(***************************************************************************)
EXTENDS MemoryGateway, GatewayProofs

----------------------------------------------------------------------------
(* Type correctness.                                                       *)

LEMMA TypeInit == Init => TypeOK
  <1> SUFFICES ASSUME Init PROVE TypeOK
    OBVIOUS
  <1>1. GatewayTypeOK
    BY GatewayTypeInit DEF Init
  <1> QED BY Zenon, <1>1 DEF Init, TypeOK, Objects

LEMMA TypeStep ==
    ASSUME TypeOK, HoldingInv, Next
    PROVE  TypeOK'
  <1> GatewayTypeOK
    BY DEF TypeOK
  <1> DEFINE ReqOK == req' \in [Requests -> RequestType]
             FlightOK == flight' \in [Instances -> Requests \cup {None}]
  <1>s. /\ UNCHANGED now => now' \in Nat
        /\ UNCHANGED heap => heap' \in [Objects -> SessionType]
        /\ UNCHANGED req => ReqOK
        /\ UNCHANGED flight => FlightOK
        /\ UNCHANGED idp => idp' \in IdpType
        /\ UNCHANGED storeVars => /\ sessions' \in Objects \cup {None}
                                  /\ tombstone' \in Nat \cup {None}
                                  /\ deleted' \in BOOLEAN
    BY Zenon DEF TypeOK, GatewayTypeOK, storeVars
  <1>t. ASSUME now' \in Nat, heap' \in [Objects -> SessionType], ReqOK, FlightOK,
               idp' \in IdpType, sessions' \in Objects \cup {None},
               tombstone' \in Nat \cup {None}, deleted' \in BOOLEAN
        PROVE  TypeOK'
    BY Zenon, <1>t DEF TypeOK, GatewayTypeOK
  <1> HIDE DEF FlightOK
  <1>n. now \in Nat /\ \A r \in Requests : req[r].obj # None => req[r].obj \in Objects
    BY Zenon, RequestFields DEF TypeOK, GatewayTypeOK
  <1>1. ASSUME NEW r \in Requests, GatewayStep(r), UNCHANGED storeVars
        PROVE  TypeOK'
    <2>1. req[r].pc = "lead" => Holding(r)
      BY GatewayAssumption DEF HoldingInv, Holding
    <2>2. GatewayTypeOK'
      BY Zenon, <1>1, <2>1, GatewayTypeStep
    <2> QED BY Zenon, <1>1, <1>s, <2>2 DEF TypeOK
  <1>2. ASSUME NEW r \in Requests,
               Get(r) \/ GetExpired(r) \/ PutTokens(r) \/ PutTouch(r) \/ EndSession(r)
        PROVE  TypeOK'
    <2>n. ASSUME NoSession(r) PROVE ReqOK
      <3>1. PICK out \in {"passthrough", "401"} : Answer(r, out)
        BY Zenon, <2>n DEF NoSession
      <3>2. out \in Outcome
        BY DEF Outcome
      <3> QED BY Zenon, <3>1, <3>2, AnswerType
    <2>d. ASSUME Delete
          PROVE  /\ sessions' \in Objects \cup {None}
                 /\ tombstone' \in Nat \cup {None} /\ deleted' \in BOOLEAN
      BY Zenon, <1>n, <2>d DEF Delete
    <2>p. ASSUME Put(req[r].obj)
          PROVE  /\ sessions' \in Objects \cup {None}
                 /\ tombstone' \in Nat \cup {None} /\ deleted' \in BOOLEAN
      BY Zenon, <2>p, RequestFields DEF Put, TypeOK
    <2>1. CASE Get(r)
      <3>1. ReqOK
        <4>1. CASE NoSession(r)
          BY <2>n, <4>1
        <4>2. CASE Found(r, sessions)
          <5>1. req' = [req EXCEPT ![r] = [req[r] EXCEPT
                          !.pc = "found", !.obj = sessions, !.start = now]]
            BY <4>2, RequestFields DEF Found
          <5>2. "found" \in PC /\ sessions \in Objects \cup {None}
            BY DEF PC, TypeOK
          <5> QED BY Zenon, <1>n, <5>1, <5>2, RequestFields, RecordUpdates, OneUpdate
        <4> QED BY <2>1, <4>1, <4>2 DEF Get
      <3>2. UNCHANGED <<now, heap, flight, idp, storeVars>>
        BY Zenon, <2>1 DEF Get, NoSession, Found
      <3> QED BY Zenon, <1>s, <1>t, <3>1, <3>2
    <2>2. CASE GetExpired(r)
      BY Zenon, <1>s, <1>t, <2>n, <2>d, <2>2 DEF GetExpired, NoSession
    <2>3. CASE PutTokens(r)
      <3>1. "fresh" \in PC
        BY DEF PC
      <3> QED BY Zenon, <1>s, <1>t, <2>p, <2>3, <3>1, LandType DEF PutTokens, FlightOK
    <2>4. CASE PutTouch(r)
      <3>1. "forwarded" \in Outcome
        BY DEF Outcome
      <3> QED BY Zenon, <1>s, <1>t, <2>p, <2>4, <3>1, AnswerType DEF PutTouch
    <2>5. CASE EndSession(r)
      <3>1. "401" \in Outcome /\ "loggedout" \in Outcome
        BY DEF Outcome
      <3> QED BY Zenon, <1>s, <1>t, <2>d, <2>5, <3>1, AnswerType DEF EndSession
    <2> QED BY <1>2, <2>1, <2>2, <2>3, <2>4, <2>5
  <1>3. ASSUME GatewayEnvironment, UNCHANGED storeVars
        PROVE  TypeOK'
    <2>1. GatewayTypeOK'
      BY <1>3, GatewayTypeEnvironment
    <2> QED BY Zenon, <1>3, <1>s, <2>1 DEF TypeOK
  <1>4. ASSUME Sweep
        PROVE  TypeOK'
    BY Zenon, <1>4 DEF Sweep, gatewayVars, TypeOK, GatewayTypeOK
  <1> QED BY <1>1, <1>2, <1>3, <1>4 DEF Next, Step

----------------------------------------------------------------------------
(* What the invariant can see of a step.  The actions come down to a few   *)
(* shapes, stated on the fields the invariant speaks of.                   *)

Mine == heap[LoginObject].refresh

Steady == UNCHANGED <<now, flight, idp>> /\ Mine' = Mine

\* The states of a request that holds the session and leads no flight.
Aside == {"found", "expired", "logout", "loaded", "stale", "wait",
          "fresh", "touch", "touched", "unavailable"}

\* r goes from one such state to another.
Walks(r) ==
    /\ Others(r) /\ Kept(r)
    /\ req[r].pc \in Aside /\ req'[r].pc \in Aside
    /\ Steady /\ UNCHANGED storeVars

\* r is answered, or comes back as a new request.
Leaves(r) ==
    /\ Others(r) /\ req[r].pc \notin Leading
    /\ req'[r].pc \in {"new", "done"} /\ req'[r].obj = None
    /\ Steady
    /\ \/ UNCHANGED storeVars /\ req[r].pc # "rejected"
       \/ req[r].pc = "touched" /\ Put(req[r].obj)
       \/ req[r].pc \in {"expired", "logout", "rejected"} /\ Delete

Finds(r) ==
    /\ Others(r) /\ sessions # None
    /\ req[r].pc = "new" /\ req'[r].pc = "found"
    /\ req'[r].obj = sessions /\ req'[r].start = now
    /\ Steady /\ UNCHANGED storeVars

Leads(r) ==
    /\ Others(r) /\ Kept(r)
    /\ req[r].pc = "stale" /\ req'[r].pc = "lead"
    /\ flight[req[r].inst] = None /\ flight' = [flight EXCEPT ![req[r].inst] = r]
    /\ UNCHANGED <<now, idp, storeVars>> /\ Mine' = Mine

Sends(r) ==
    /\ Others(r) /\ Kept(r)
    /\ req[r].pc = "lead" /\ req'[r].pc = "sent"
    /\ req'[r].token = heap[req[r].obj].refresh
    /\ Steady /\ UNCHANGED storeVars

Lands(r, pc) ==
    /\ \A q \in Requests :
         /\ Kept(q)
         /\ IF Landed(r, q) THEN req'[q].pc = pc ELSE SameRequest(q)
    /\ UNCHANGED now /\ Mine' = Mine

\* A flight ends well, is refused, or fails and may lose what it had.
LandsWell(r) ==
    /\ Lands(r, "fresh") /\ req[r].pc \in {"lead", "put"} /\ UNCHANGED idp
    /\ UNCHANGED storeVars \/ (req[r].pc = "put" /\ Put(req[r].obj))

LandsRefused(r) ==
    /\ Lands(r, "rejected") /\ req[r].pc = "refused"
    /\ UNCHANGED <<idp, storeVars>>

LandsBadly(r) ==
    /\ Lands(r, "unavailable") /\ req[r].pc \in {"sent", "answered", "refused"}
    /\ idp'.valid = idp.valid /\ idp'.revoked = idp.revoked
    /\ idp'.lost = IF Rotated(r) THEN idp.lost \cup {req[r].token} ELSE idp.lost
    /\ idp'.late = IF req[r].pc = "sent" THEN idp.late \cup {req[r].token}
                   ELSE idp.late
    /\ UNCHANGED storeVars

Sets(r) ==
    /\ Others(r) /\ Kept(r)
    /\ req[r].pc = "answered" /\ req'[r].pc = "put"
    /\ Mine' = IF Rotated(r) THEN req[r].answer.refresh ELSE Mine
    /\ UNCHANGED <<now, flight, idp, storeVars>>

Accepts(r) ==
    /\ Others(r) /\ Kept(r)
    /\ req[r].pc = "sent" /\ req[r].token = idp.valid
    /\ req'[r].pc = "answered" /\ req'[r].token = req[r].token
    /\ idp'.lost = idp.lost /\ idp'.late = idp.late /\ idp'.revoked = idp.revoked
    /\ \/ req'[r].answer.refresh = NoToken /\ idp'.valid = idp.valid
       \/ idp'.valid = idp.valid + 1 /\ req'[r].answer.refresh = idp.valid + 1
    /\ UNCHANGED <<now, flight, storeVars>> /\ Mine' = Mine

Refuses(r) ==
    /\ Others(r) /\ Kept(r) /\ req'[r].token = req[r].token
    /\ req[r].pc = "sent" /\ req'[r].pc = "refused"
    /\ req[r].token # idp.valid \/ idp.revoked
    /\ Steady /\ UNCHANGED storeVars

\* The server handles an abandoned call; it revokes the tokens.
Late ==
    /\ idp.valid \in idp.late
    /\ idp'.valid = idp.valid + 1 /\ idp'.revoked = idp.revoked
    /\ idp'.lost = idp.lost \cup {idp.valid} /\ idp'.late \subseteq idp.late
    /\ UNCHANGED <<now, req, flight, storeVars>> /\ Mine' = Mine

Revokes ==
    /\ idp'.valid = idp.valid /\ idp'.lost = idp.lost /\ idp'.late = idp.late
    /\ idp'.revoked
    /\ UNCHANGED <<now, req, flight, storeVars>> /\ Mine' = Mine

LEMMA LandsEffect ==
    ASSUME TypeOK, NEW r \in Requests, NEW pc, Land(r, pc), UNCHANGED <<now, heap>>
    PROVE  Lands(r, pc)
  <1>1. GatewayTypeOK
    BY DEF TypeOK
  <1> QED BY Zenon, <1>1, LandEffect DEF Lands, Mine

LEMMA FailEffect ==
    ASSUME TypeOK, NEW r \in Requests, RefreshFails(r), UNCHANGED storeVars
    PROVE  LandsBadly(r)
  <1>1. /\ Land(r, "unavailable") /\ UNCHANGED <<now, heap>>
        /\ req[r].pc \in {"sent", "answered", "refused"}
        /\ idp' = Abandoned({r})
    BY DEF RefreshFails
  <1>2. GatewayTypeOK
    BY DEF TypeOK
  <1>3. /\ idp'.valid = idp.valid /\ idp'.revoked = idp.revoked
        /\ \A t : t \in idp'.lost <=>
             t \in idp.lost \/ (Rotated(r) /\ t = req[r].token)
        /\ \A t : t \in idp'.late <=>
             t \in idp.late \/ (req[r].pc = "sent" /\ t = req[r].token)
    BY <1>1, <1>2, AbandonedEffect DEF InTheAir, Rotated
  <1>4. /\ idp'.lost = IF Rotated(r) THEN idp.lost \cup {req[r].token} ELSE idp.lost
        /\ idp'.late = IF req[r].pc = "sent" THEN idp.late \cup {req[r].token}
                       ELSE idp.late
    BY <1>3
  <1>5. Lands(r, "unavailable")
    BY <1>1, LandsEffect
  <1> QED BY <1>1, <1>3, <1>4, <1>5 DEF LandsBadly

RequestShape(r) ==
    \/ Walks(r) \/ Leaves(r) \/ Finds(r) \/ Leads(r) \/ Sends(r)
    \/ LandsWell(r) \/ LandsRefused(r) \/ LandsBadly(r)
    \/ Sets(r) \/ Accepts(r) \/ Refuses(r)

\* A request in a state from "found" on holds the shared object.
LEMMA HoldsShared ==
    ASSUME HoldingInv, NEW r \in Requests, req[r].pc \notin {"new", "done"}
    PROVE  req[r].obj = LoginObject
  BY DEF HoldingInv

\* SetTokens and Touch on the shared object: its token is the answer's, if it
\* has one; Touch leaves it alone.
LEMMA SharedToken ==
    ASSUME TypeOK, NEW r \in Requests, req[r].obj = LoginObject
    PROVE  /\ SetTokens(r) =>
                Mine' = IF req[r].answer.refresh # NoToken THEN req[r].answer.refresh
                        ELSE Mine
           /\ TouchSession(r) => Mine' = Mine
  <1>1. GatewayTypeOK /\ req[r].obj \in Objects
    BY DEF TypeOK, Objects
  <1> QED BY <1>1, HeapEffect DEF Mine

\* Every step has one of the shapes.
LEMMA StepShapes ==
    ASSUME TypeOK, HoldingInv, Next
    PROVE  \/ \E r \in Requests : RequestShape(r)
           \/ Late \/ Revokes \/ Sweep
           \/ Tick /\ UNCHANGED storeVars
  <1> GatewayTypeOK
    BY DEF TypeOK
  <1>1. ASSUME NEW r \in Requests, GatewayStep(r), UNCHANGED storeVars
        PROVE  RequestShape(r)
    <2>1. CASE CheckSession(r)
      <3>1. req[r].pc = "found" /\ UNCHANGED <<now, heap, flight, idp>>
        BY Zenon, <2>1 DEF CheckSession
      <3>2. CASE Answer(r, "403")
        <4>1. Leaves(r)
          BY <1>1, <3>1, <3>2, AnswerEffect DEF Leaves, Leading, Steady, Mine
        <4> QED BY <4>1 DEF RequestShape
      <3>3. CASE Goto(r, "expired") \/ Goto(r, "loaded") \/ Goto(r, "logout")
        <4>1. Walks(r)
          BY <1>1, <3>1, <3>3, GotoEffect DEF Walks, Aside, Steady, Mine
        <4> QED BY <4>1 DEF RequestShape
      <3> QED BY Zenon, <2>1, <3>2, <3>3 DEF CheckSession
    <2>2. CASE EnsureFresh(r)
      <3>1. PICK pc \in {"fresh", "stale"} : Goto(r, pc)
        BY Zenon, <2>2 DEF EnsureFresh
      <3>2. req[r].pc = "loaded" /\ UNCHANGED <<now, heap, flight, idp>>
        BY Zenon, <2>2 DEF EnsureFresh
      <3>3. Walks(r)
        BY <1>1, <3>1, <3>2, GotoEffect DEF Walks, Aside, Steady, Mine
      <3> QED BY <3>3 DEF RequestShape
    <2>3. CASE Join(r)
      <3>1. req[r].pc = "stale" /\ UNCHANGED <<now, heap, idp>>
        BY Zenon, <2>3 DEF Join
      <3>2. CASE flight[req[r].inst] = None
        <4>1. Goto(r, "lead") /\ flight' = [flight EXCEPT ![req[r].inst] = r]
          BY <2>3, <3>2 DEF Join
        <4>2. Leads(r)
          BY <1>1, <3>1, <3>2, <4>1, GotoEffect DEF Leads, Mine
        <4> QED BY <4>2 DEF RequestShape
      <3>3. CASE flight[req[r].inst] # None
        <4>1. Goto(r, "wait") /\ UNCHANGED flight
          BY <2>3, <3>3 DEF Join
        <4>2. Walks(r)
          BY <1>1, <3>1, <4>1, GotoEffect DEF Walks, Aside, Steady, Mine
        <4> QED BY <4>2 DEF RequestShape
      <3> QED BY <3>2, <3>3
    <2>4. CASE Recheck(r)
      <3>1. req[r].pc = "lead" /\ UNCHANGED <<now, heap, idp>>
        BY Zenon, <2>4 DEF Recheck
      <3>2. CASE AccessValid(heap[req[r].obj], now)
        <4>1. Land(r, "fresh")
          BY <2>4, <3>2 DEF Recheck
        <4>2. LandsWell(r)
          BY <1>1, <3>1, <4>1, LandsEffect DEF LandsWell
        <4> QED BY <4>2 DEF RequestShape
      <3>3. CASE ~AccessValid(heap[req[r].obj], now)
        <4>1. Sends(r)
          BY <1>1, <2>4, <3>1, <3>3, SendEffect DEF Sends, Steady, Mine
        <4> QED BY <4>1 DEF RequestShape
      <3> QED BY <3>2, <3>3
    <2>5. CASE RefreshFails(r)
      BY <1>1, <2>5, FailEffect DEF RequestShape
    <2>6. CASE SetTokens(r)
      <3>1. /\ Goto(r, "put") /\ req[r].pc = "answered"
            /\ UNCHANGED <<now, flight, idp>>
        BY Zenon, <2>6 DEF SetTokens
      <3>2. Mine' = IF Rotated(r) THEN req[r].answer.refresh ELSE Mine
        BY <2>6, <3>1, HoldsShared, SharedToken DEF Rotated
      <3>3. Sets(r)
        BY <1>1, <3>1, <3>2, GotoEffect DEF Sets
      <3> QED BY <3>3 DEF RequestShape
    <2>7. CASE Refused(r)
      <3>1. LandsRefused(r)
        BY <1>1, <2>7, LandsEffect DEF Refused, LandsRefused
      <3> QED BY <3>1 DEF RequestShape
    <2>8. CASE BadGateway(r)
      <3>1. Leaves(r)
        BY <1>1, <2>8, AnswerEffect DEF BadGateway, Leaves, Leading, Steady, Mine
      <3> QED BY <3>1 DEF RequestShape
    <2>9. CASE CheckTouch(r)
      <3>1. req[r].pc = "fresh" /\ UNCHANGED <<now, heap, flight, idp>>
        BY Zenon, <2>9 DEF CheckTouch
      <3>2. CASE NeedsTouch(heap[req[r].obj])
        <4>2. Others(r) /\ Kept(r) /\ req'[r].pc = "touch"
          BY <2>9, <3>2, TouchEffect
        <4>3. Walks(r)
          BY <1>1, <3>1, <4>2 DEF Walks, Aside, Steady, Mine
        <4> QED BY <4>3 DEF RequestShape
      <3>3. CASE ~NeedsTouch(heap[req[r].obj])
        <4>1. Answer(r, "forwarded")
          BY <2>9, <3>3 DEF CheckTouch
        <4>2. Leaves(r)
          BY <1>1, <3>1, <4>1, AnswerEffect DEF Leaves, Leading, Steady, Mine
        <4> QED BY <4>2 DEF RequestShape
      <3> QED BY <3>2, <3>3
    <2>10. CASE TouchSession(r)
      <3>1. /\ Goto(r, "touched") /\ req[r].pc = "touch"
            /\ UNCHANGED <<now, flight, idp>>
        BY Zenon, <2>10 DEF TouchSession
      <3>2. Mine' = Mine
        BY <2>10, <3>1, HoldsShared, SharedToken
      <3>3. Walks(r)
        BY <1>1, <3>1, <3>2, GotoEffect DEF Walks, Aside, Steady
      <3> QED BY <3>3 DEF RequestShape
    <2> QED
      BY <1>1, <2>1, <2>2, <2>3, <2>4, <2>5, <2>6, <2>7, <2>8, <2>9, <2>10
      DEF GatewayStep
  <1>2. ASSUME NEW r \in Requests,
               Get(r) \/ GetExpired(r) \/ PutTokens(r) \/ PutTouch(r) \/ EndSession(r)
        PROVE  RequestShape(r)
    <2>1. CASE Get(r)
      <3>1. req[r].pc = "new" /\ UNCHANGED <<now, heap, flight, idp, storeVars>>
        BY Zenon, <2>1 DEF Get, NoSession, Found
      <3>2. CASE sessions = None
        <4>1. PICK out : Answer(r, out)
          BY Zenon, <2>1, <3>2 DEF Get, NoSession
        <4>2. Leaves(r)
          BY <3>1, <4>1, AnswerEffect DEF Leaves, Leading, Steady, Mine
        <4> QED BY <4>2 DEF RequestShape
      <3>3. CASE sessions # None
        <4>2. Others(r) /\ req'[r].pc = "found" /\ req'[r].obj = sessions
              /\ req'[r].start = now
          BY <2>1, <3>3, FoundEffect DEF Get
        <4>3. Finds(r)
          BY <3>1, <3>3, <4>2 DEF Finds, Steady, Mine
        <4> QED BY <4>3 DEF RequestShape
      <3> QED BY <3>2, <3>3
    <2>2. CASE GetExpired(r)
      <3>1. /\ req[r].pc = "expired" /\ Delete /\ UNCHANGED <<now, heap, flight, idp>>
            /\ \E out : Answer(r, out)
        BY Zenon, <2>2 DEF GetExpired, NoSession
      <3>2. Leaves(r)
        BY <3>1, AnswerEffect DEF Leaves, Leading, Steady, Mine
      <3> QED BY <3>2 DEF RequestShape
    <2>3. CASE PutTokens(r)
      <3>1. LandsWell(r)
        BY <2>3, LandsEffect DEF PutTokens, LandsWell
      <3> QED BY <3>1 DEF RequestShape
    <2>4. CASE PutTouch(r)
      <3>1. Leaves(r)
        BY <2>4, AnswerEffect DEF PutTouch, Leaves, Leading, Steady, Mine
      <3> QED BY <3>1 DEF RequestShape
    <2>5. CASE EndSession(r)
      <3>1. /\ req[r].pc \in {"rejected", "logout"} /\ Delete
            /\ UNCHANGED <<now, heap, flight, idp>> /\ \E out : Answer(r, out)
        BY Zenon, <2>5 DEF EndSession
      <3>2. Leaves(r)
        BY <3>1, AnswerEffect DEF Leaves, Leading, Steady, Mine
      <3> QED BY <3>2 DEF RequestShape
    <2> QED BY <1>2, <2>1, <2>2, <2>3, <2>4, <2>5
  <1>3. ASSUME GatewayEnvironment, UNCHANGED storeVars
        PROVE  \/ \E r \in Requests : RequestShape(r)
               \/ Late \/ Revokes \/ Tick
    <2>1. ASSUME NEW r \in Requests, IdpAccept(r) PROVE RequestShape(r)
      <3>1. Accepts(r)
        BY <1>3, <2>1, AcceptEffect DEF Accepts, Mine
      <3> QED BY <3>1 DEF RequestShape
    <2>2. ASSUME NEW r \in Requests, IdpRefuse(r) PROVE RequestShape(r)
      <3>1. Refuses(r)
        BY <1>3, <2>2, GotoEffect DEF IdpRefuse, Refuses, Steady, Mine
      <3> QED BY <3>1 DEF RequestShape
    <2>3. ASSUME NEW r \in Requests, Reuse(r) PROVE RequestShape(r)
      <3>2. Others(r) /\ req'[r].pc = "new" /\ req'[r].obj = None
        BY <2>3, ReuseEffect
      <3>3. Leaves(r)
        BY <1>3, <2>3, <3>2 DEF Reuse, Leaves, Leading, Steady, Mine
      <3> QED BY <3>3 DEF RequestShape
    <2>4. CASE IdpLate
      <3>1. Late
        BY <1>3, <2>4 DEF IdpLate, Late, Mine, TypeOK, GatewayTypeOK, IdpType
      <3> QED BY <3>1
    <2>5. CASE IdpRevoke
      <3>1. Revokes
        BY <1>3, <2>5 DEF IdpRevoke, Revokes, Mine, TypeOK, GatewayTypeOK, IdpType
      <3> QED BY <3>1
    <2> QED BY <1>3, <2>1, <2>2, <2>3, <2>4, <2>5 DEF GatewayEnvironment
  <1> QED BY Zenon, <1>1, <1>2, <1>3 DEF Next, Step

----------------------------------------------------------------------------
(* Each part of the invariant is kept by every shape.                      *)

\* What TypeOK says of the fields the invariant speaks of.
LEMMA Fields ==
    ASSUME TypeOK
    PROVE  /\ now \in Nat /\ tombstone \in Nat \cup {None}
           /\ Mine \in Nat /\ idp.valid \in Nat
           /\ idp.lost \subseteq Nat /\ idp.late \subseteq Nat
           /\ \A r \in Requests :
                /\ req[r].start \in Nat /\ req[r].token \in Nat
                /\ req[r].answer.refresh \in Nat
                /\ req[r].inst \in Instances
  BY DEF TypeOK, GatewayTypeOK, Mine, Objects, SessionType, RequestType,
         TokenSet, IdpType

\* A memory store has one process, so one flight, so one leader.
LEMMA OneLeader ==
    ASSUME TypeOK, FlightInv, NEW q \in Requests, NEW r \in Requests,
           req[q].pc \in Leading, req[r].pc \in Leading
    PROVE  q = r
  <1>1. req[q].inst = req[r].inst
    BY Fields, MemoryAssumption
  <1> QED BY <1>1 DEF FlightInv

\* Get hands out the object the map holds and every answer gives it back; Tick
\* waits for the requests in flight.
LEMMA HoldingStep ==
    ASSUME TypeOK, HoldingInv, Next
    PROVE  HoldingInv'
  <1>1. ASSUME NEW r \in Requests, RequestShape(r)
        PROVE  HoldingInv'
    <2>1. ASSUME NEW q \in Requests, Kept(q),
                 \/ SameRequest(q)
                 \/ req[q].pc \notin {"new", "done"} /\ req'[q].pc \notin {"new", "done"},
                 now' = now
          PROVE  /\ req'[q].obj = IF req'[q].pc \in {"new", "done"} THEN None
                                  ELSE LoginObject
                 /\ Holding(q)' => /\ req'[q].start <= now'
                                   /\ now' <= req'[q].start + MaxInFlight
      BY <2>1 DEF HoldingInv, Holding, Kept, SameRequest
    <2>2. ASSUME Others(r), now' = now
          PROVE  \A q \in Requests \ {r} :
                   /\ req'[q].obj = IF req'[q].pc \in {"new", "done"} THEN None
                                    ELSE LoginObject
                   /\ Holding(q)' => /\ req'[q].start <= now'
                                     /\ now' <= req'[q].start + MaxInFlight
      BY <2>1, <2>2 DEF Others, SameRequest
    <2>3. sessions' \in {None, LoginObject}
      BY <1>1, HoldsShared DEF RequestShape, Walks, Leaves, Finds, Leads, Sends,
         LandsWell, LandsRefused, LandsBadly, Sets, Accepts, Refuses,
         HoldingInv, storeVars, Put, Delete
    <2>4. CASE Walks(r) \/ Leads(r) \/ Sends(r) \/ Sets(r) \/ Accepts(r) \/ Refuses(r)
      <3>1. /\ Others(r) /\ Kept(r) /\ now' = now
            /\ req[r].pc \notin {"new", "done"} /\ req'[r].pc \notin {"new", "done"}
        BY <2>4 DEF Walks, Leads, Sends, Sets, Accepts, Refuses, Aside, Steady
      <3> QED BY <2>1, <2>2, <2>3, <3>1 DEF HoldingInv
    <2>5. CASE Leaves(r)
      <3>1. Others(r) /\ now' = now
            /\ req'[r].pc \in {"new", "done"} /\ req'[r].obj = None
        BY <2>5 DEF Leaves, Steady
      <3> QED BY <2>2, <2>3, <3>1 DEF HoldingInv, Holding
    <2>6. CASE Finds(r)
      <3>1. /\ Others(r) /\ now' = now /\ req'[r].pc = "found"
            /\ req'[r].obj = LoginObject /\ req'[r].start = now
        BY <2>6 DEF Finds, Steady, HoldingInv
      <3>2. now <= now /\ now <= now + MaxInFlight
        BY Fields, GatewayAssumption
      <3> QED BY <2>2, <2>3, <3>1, <3>2 DEF HoldingInv
    <2>7. CASE LandsWell(r) \/ LandsRefused(r) \/ LandsBadly(r)
      <3>1. PICK pc \in {"fresh", "rejected", "unavailable"} :
              Lands(r, pc) /\ req[r].pc \notin {"new", "done"}
        BY <2>7 DEF LandsWell, LandsRefused, LandsBadly
      <3>2. ASSUME NEW q \in Requests
            PROVE  /\ Kept(q) /\ now' = now
                   /\ \/ SameRequest(q)
                      \/ req[q].pc \notin {"new", "done"}
                         /\ req'[q].pc \notin {"new", "done"}
        BY <3>1 DEF Lands, Landed
      <3> QED BY <2>1, <2>3, <3>2 DEF HoldingInv
    <2> QED BY <1>1, <2>4, <2>5, <2>6, <2>7 DEF RequestShape
  <1>2. CASE Late \/ Revokes
    BY <1>2 DEF Late, Revokes, HoldingInv, Holding, storeVars
  <1>3. CASE Sweep
    BY <1>3 DEF Sweep, HoldingInv, Holding, gatewayVars
  <1>4. CASE Tick /\ UNCHANGED storeVars
    <2>1. sessions' = sessions /\ req' = req /\ now' = now + 1
      BY <1>4 DEF Tick, storeVars
    <2>2. ASSUME NEW r \in Requests, Holding(r)
          PROVE  req[r].start <= now + 1 /\ now + 1 <= req[r].start + MaxInFlight
      BY <1>4, <2>2, Fields, GatewayAssumption DEF Tick, HoldingInv
    <2> QED BY <2>1, <2>2 DEF HoldingInv, Holding
  <1> QED BY <1>1, <1>2, <1>3, <1>4, StepShapes

\* A Put is made by a holder, whom the tombstone outlives; so a deleted session
\* is not put back, and Get finds none.
LEMMA TombstoneStep ==
    ASSUME TypeOK, HoldingInv, TombstoneInv, Next
    PROVE  TombstoneInv'
  <1>1. ASSUME NEW r \in Requests, RequestShape(r)
        PROVE  TombstoneInv'
    <2>1. now' = now
      BY <1>1, Zenon DEF RequestShape, Walks, Leaves, Finds, Leads, Sends, Lands,
         LandsWell, LandsRefused, LandsBadly, Sets, Accepts, Refuses, Steady
    <2>2. CASE Finds(r)
      <3>1. ~deleted /\ UNCHANGED storeVars
        BY <2>2 DEF Finds, TombstoneInv
      <3> QED BY <2>1, <3>1 DEF TombstoneInv, storeVars
    <2>3. CASE ~Finds(r)
      <3>1. ASSUME NEW q \in Requests, Holding(q)'
            PROVE  Holding(q) /\ req'[q].start = req[q].start
        <4>1. Kept(q) \/ (Leaves(r) /\ q = r)
          BY <1>1, <2>3, Zenon DEF RequestShape, Walks, Leaves, Leads, Sends, Lands,
             LandsWell, LandsRefused, LandsBadly, Sets, Accepts, Refuses, Others,
             SameRequest
        <4>2. ~(Leaves(r) /\ q = r)
          BY <3>1 DEF Leaves, Holding
        <4> QED BY <3>1, <4>1, <4>2 DEF Kept, Holding
      <3>2. \/ UNCHANGED storeVars
            \/ Put(req[r].obj) /\ req[r].pc \in {"touched", "put"}
            \/ Delete
        BY <1>1, <2>3, Zenon DEF RequestShape, Walks, Leaves, Leads, Sends,
           LandsWell, LandsRefused, LandsBadly, Sets, Accepts, Refuses
      <3>3. CASE UNCHANGED storeVars
        BY <2>1, <3>1, <3>3 DEF TombstoneInv, storeVars
      <3>4. CASE Put(req[r].obj) /\ req[r].pc \in {"touched", "put"}
        <4>1. Holding(r)
          BY <3>4, HoldsShared, GatewayAssumption DEF Holding
        <4>2. deleted => tombstone # None
          BY <4>1 DEF TombstoneInv
        <4>3. /\ UNCHANGED <<tombstone, deleted>>
              /\ deleted => sessions' = sessions
          BY <3>4, <4>2 DEF Put
        <4> QED BY <2>1, <3>1, <4>3 DEF TombstoneInv
      <3>5. CASE Delete
        <4>1. /\ tombstone' = now /\ deleted' /\ sessions' = None
              /\ now # None /\ now <= now
          BY <3>5, Fields, GatewayAssumption DEF Delete
        <4>2. \A q \in Requests : Holding(q)' => req'[q].start <= now
          BY <3>1 DEF HoldingInv
        <4> QED BY <2>1, <4>1, <4>2 DEF TombstoneInv
      <3> QED BY Zenon, <3>2, <3>3, <3>4, <3>5
    <2> QED BY <2>2, <2>3
  <1>2. CASE Late \/ Revokes
    BY <1>2 DEF Late, Revokes, TombstoneInv, Holding, storeVars
  <1>3. CASE Sweep
    <2>1. UNCHANGED <<now, req, deleted>> /\ (deleted => sessions' = None)
      BY <1>3 DEF Sweep, gatewayVars, TombstoneInv
    <2>2. CASE tombstone' = tombstone
      BY <2>1, <2>2 DEF TombstoneInv, Holding
    <2>3. CASE tombstone' # tombstone
      <3>1. tombstone # None /\ tombstone' = None /\ tombstone < now - TombstoneTTL
        BY <1>3, <2>3 DEF Sweep
      <3>2. ASSUME NEW r \in Requests, deleted, Holding(r) PROVE FALSE
        <4>1. now <= req[r].start + MaxInFlight /\ req[r].start <= tombstone
          BY <3>2 DEF HoldingInv, TombstoneInv
        <4> QED BY <3>1, <4>1, Fields, GatewayAssumption, MemoryAssumption
      <3> QED BY <2>1, <3>1, <3>2 DEF TombstoneInv, Holding
    <2> QED BY <2>2, <2>3
  <1>4. CASE Tick /\ UNCHANGED storeVars
    <2>1. UNCHANGED <<req, storeVars>> /\ now' = now + 1
      BY <1>4 DEF Tick
    <2>2. tombstone # None => tombstone <= now + 1
      BY Fields DEF TombstoneInv
    <2> QED BY <2>1, <2>2 DEF TombstoneInv, Holding, storeVars
  <1> QED BY <1>1, <1>2, <1>3, <1>4, StepShapes

\* Leading a flight, one goes on leading it until it lands, and only the leader
\* changes the shared object's token.
LEMMA FlightStep ==
    ASSUME TypeOK, HoldingInv, FlightInv, Next
    PROVE  FlightInv'
  <1> DEFINE Presents(q) == req[q].pc \in {"sent", "answered", "refused"}
  <1>1. ASSUME NEW r \in Requests, RequestShape(r)
        PROVE  FlightInv'
    <2>1. ASSUME NEW q \in Requests \ {r}, SameRequest(q), Mine' = Mine,
                 flight' = flight
          PROVE  /\ req'[q].pc \in Leading => flight'[req'[q].inst] = q
                 /\ Presents(q)' => req'[q].token = Mine'
      BY <2>1 DEF FlightInv, SameRequest, Kept, Mine
    <2>2. CASE Walks(r) \/ Leaves(r) \/ Finds(r)
      <3>1. Others(r) /\ Mine' = Mine /\ flight' = flight /\ req'[r].pc \notin Leading
        BY <2>2 DEF Walks, Leaves, Finds, Steady, Aside, Leading
      <3> QED BY <2>1, <3>1 DEF FlightInv, Others, Mine, Leading
    <2>3. CASE Sends(r) \/ Accepts(r) \/ Refuses(r)
      <3>1. /\ Others(r) /\ Mine' = Mine /\ flight' = flight
            /\ req[r].pc \in Leading /\ Kept(r)
        BY <2>3 DEF Sends, Accepts, Refuses, Steady, Leading
      <3>2. req'[r].token = Mine
        BY <2>3, HoldsShared DEF Sends, Accepts, Refuses, FlightInv, Mine
      <3>3. flight'[req'[r].inst] = r
        BY <3>1 DEF FlightInv, Kept
      <3> QED BY <2>1, <3>1, <3>2, <3>3 DEF FlightInv, Others, Mine
    <2>4. CASE Leads(r)
      <3>1. /\ Others(r) /\ Kept(r) /\ Mine' = Mine
            /\ req'[r].pc = "lead" /\ flight[req[r].inst] = None
            /\ flight' = [flight EXCEPT ![req[r].inst] = r]
        BY <2>4 DEF Leads
      <3>2. flight'[req'[r].inst] = r
        BY <3>1, Fields DEF Kept, TypeOK, GatewayTypeOK
      <3>3. ASSUME NEW q \in Requests \ {r}
            PROVE  /\ req'[q].pc \notin Leading
                   /\ req'[q].pc \notin {"sent", "answered", "refused"}
        <4>1. req[q].inst = req[r].inst
          BY Fields, MemoryAssumption
        <4>2. req[q].pc \notin Leading
          BY <3>1, <4>1, GatewayAssumption DEF FlightInv
        <4> QED BY <3>1, <4>2 DEF Others, SameRequest, Leading
      <3> QED BY <3>1, <3>2, <3>3 DEF FlightInv, Mine
    <2>5. CASE LandsWell(r) \/ LandsRefused(r) \/ LandsBadly(r) \/ Sets(r)
      <3>1. req[r].pc \in Leading
        BY <2>5 DEF LandsWell, LandsRefused, LandsBadly, Sets, Leading
      <3>2. ASSUME NEW q \in Requests \ {r} PROVE req'[q].pc \notin Leading
        <4>1. req[q].pc \notin Leading
          BY <3>1, OneLeader
        <4> QED
          BY <2>5, <4>1 DEF LandsWell, LandsRefused, LandsBadly, Sets, Lands,
             Others, SameRequest, Leading
      <3>3. CASE Sets(r)
        <4>1. /\ req'[r].pc = "put" /\ flight' = flight /\ Kept(r)
          BY <3>3 DEF Sets
        <4>2. flight'[req'[r].inst] = r
          BY <3>1, <4>1 DEF FlightInv, Kept
        <4> QED BY <3>2, <4>1, <4>2 DEF FlightInv, Leading
      <3>4. CASE ~Sets(r)
        <4>1. req'[r].pc \notin Leading
          BY <2>5, <3>4 DEF LandsWell, LandsRefused, LandsBadly, Lands, Landed,
             Leading
        <4> QED BY <3>2, <4>1 DEF FlightInv, Leading
      <3> QED BY <3>3, <3>4
    <2> QED BY <1>1, <2>2, <2>3, <2>4, <2>5 DEF RequestShape
  <1>2. CASE Late \/ Revokes
    BY <1>2 DEF Late, Revokes, FlightInv, Mine
  <1>3. CASE Sweep
    BY <1>3 DEF Sweep, FlightInv, gatewayVars
  <1>4. CASE Tick /\ UNCHANGED storeVars
    BY <1>4 DEF Tick, FlightInv
  <1> QED BY <1>1, <1>2, <1>3, <1>4, StepShapes

\* A step that touches neither the token of the shared object nor a rotated
\* answer keeps TokenInv.
Calm ==
    /\ Mine' = Mine /\ idp'.valid = idp.valid /\ idp'.lost = idp.lost
    /\ \A q \in Requests :
         /\ Rotated(q)' <=> Rotated(q)
         /\ Rotated(q) => req'[q].answer.refresh = req[q].answer.refresh

LEMMA CalmStep ==
    ASSUME TokenInv, Calm, \A t \in idp'.late : t \in idp.late \/ t <= Mine
    PROVE  TokenInv'
  <1>1. \A t \in idp'.lost : t < idp'.valid
    BY DEF Calm, TokenInv
  <1>2. \A t \in idp'.late : t <= Mine'
    BY DEF Calm, TokenInv, Mine
  <1>3. Mine' = idp'.valid \/ Mine' \in idp'.lost \/ \E r \in Requests : Rotated(r)'
    BY DEF Calm, TokenInv, Mine
  <1>4. ASSUME NEW r \in Requests, Rotated(r)'
        PROVE  /\ req'[r].answer.refresh = idp'.valid
               /\ Mine' < idp'.valid /\ Mine' \notin idp'.lost
    BY <1>4 DEF Calm, TokenInv, Mine
  <1> QED BY <1>1, <1>2, <1>3, <1>4 DEF TokenInv, Mine

\* While a request presents the token, only its own answer can hold the valid
\* one.
LEMMA NoOtherAnswer ==
    ASSUME TypeOK, FlightInv, NEW r \in Requests, req[r].pc \in Leading
    PROVE  \A q \in Requests \ {r} : ~Rotated(q)
  BY OneLeader DEF Rotated, Leading

\* The valid token is stored, about to be stored, or lost; a refusal happens
\* only in the last case or after a revocation.
LEMMA TokenStep ==
    ASSUME TypeOK, HoldingInv, FlightInv, TokenInv, RejectedOnlyWhenDead, Next
    PROVE  TokenInv' /\ RejectedOnlyWhenDead'
  <1> DEFINE Dead == idp.revoked \/ Mine \in idp.lost
             Torn(q) == req[q].pc \in {"refused", "rejected"}
  <1>a. ASSUME Dead => Dead', \A q \in Requests : Torn(q)' => Torn(q) \/ Dead
        PROVE  RejectedOnlyWhenDead'
    BY <1>a DEF RejectedOnlyWhenDead, Mine
  <1>1. ASSUME NEW r \in Requests, RequestShape(r)
        PROVE  TokenInv' /\ RejectedOnlyWhenDead'
    <2>1. CASE Walks(r) \/ Leaves(r) \/ Finds(r) \/ Leads(r) \/ Sends(r)
      <3>1. /\ Others(r) /\ Mine' = Mine /\ UNCHANGED idp
            /\ req[r].pc # "answered"
            /\ req'[r].pc \notin {"answered", "refused", "rejected"}
        BY <2>1 DEF Walks, Leaves, Finds, Leads, Sends, Steady, Aside, Leading
      <3>2. Calm
        BY <3>1 DEF Calm, Others, SameRequest, Rotated
      <3>3. TokenInv'
        BY <3>1, <3>2, CalmStep
      <3>4. RejectedOnlyWhenDead'
        BY <1>a, <3>1 DEF Others, SameRequest
      <3> QED BY <3>3, <3>4
    <2>2. CASE Refuses(r)
      <3>1. /\ Others(r) /\ Mine' = Mine /\ UNCHANGED idp
            /\ req[r].pc = "sent" /\ req'[r].pc = "refused"
            /\ req[r].token # idp.valid \/ idp.revoked
        BY <2>2 DEF Refuses, Steady
      <3>2. Calm
        BY <3>1 DEF Calm, Others, SameRequest, Rotated
      <3>3. TokenInv'
        BY <3>1, <3>2, CalmStep
      <3>4. \A q \in Requests : ~Rotated(q)
        BY <3>1, NoOtherAnswer DEF Leading, Rotated
      <3>5. Dead
        BY <3>1, <3>4 DEF FlightInv, TokenInv, Mine
      <3>6. RejectedOnlyWhenDead'
        BY <1>a, <3>1, <3>5
      <3> QED BY <3>3, <3>6
    <2>3. CASE LandsWell(r)
      <3>1. /\ Lands(r, "fresh") /\ Mine' = Mine /\ UNCHANGED idp
            /\ req[r].pc \in {"lead", "put"}
        BY <2>3 DEF LandsWell, Lands
      <3>2. Calm
        BY <3>1 DEF Calm, Lands, Landed, SameRequest, Rotated
      <3>3. TokenInv'
        BY <3>1, <3>2, CalmStep
      <3>4. RejectedOnlyWhenDead'
        BY <1>a, <3>1 DEF Lands, SameRequest
      <3> QED BY <3>3, <3>4
    <2>4. CASE LandsRefused(r)
      <3>1. /\ Lands(r, "rejected") /\ Mine' = Mine /\ UNCHANGED idp
            /\ req[r].pc = "refused"
        BY <2>4 DEF LandsRefused, Lands
      <3>2. Calm
        BY <3>1 DEF Calm, Lands, Landed, SameRequest, Rotated
      <3>3. TokenInv'
        BY <3>1, <3>2, CalmStep
      <3>4. Dead
        BY <3>1 DEF RejectedOnlyWhenDead, Mine
      <3>5. RejectedOnlyWhenDead'
        BY <1>a, <3>1, <3>4
      <3> QED BY <3>3, <3>5
    <2>5. CASE LandsBadly(r)
      <3>1. /\ Lands(r, "unavailable") /\ Mine' = Mine
            /\ req[r].pc \in {"sent", "answered", "refused"}
            /\ idp'.valid = idp.valid /\ idp'.revoked = idp.revoked
            /\ req[r].token = Mine /\ req[r].pc \in Leading
        BY <2>5 DEF LandsBadly, Lands, FlightInv, Mine, Leading
      <3>2. /\ idp'.lost = IF Rotated(r) THEN idp.lost \cup {Mine} ELSE idp.lost
            /\ idp'.late \subseteq idp.late \cup {Mine}
        BY <2>5, <3>1 DEF LandsBadly
      <3>3. RejectedOnlyWhenDead'
        BY <1>a, <3>1, <3>2 DEF Lands, SameRequest
      <3>4. \A t \in idp'.late : t \in idp.late \/ t <= Mine
        BY <3>2, Fields
      <3>5. CASE ~Rotated(r)
        <4>1. Calm
          BY <3>1, <3>2, <3>5 DEF Calm, Lands, Landed, SameRequest, Rotated
        <4> QED BY <3>3, <3>4, <4>1, CalmStep
      <3>6. CASE Rotated(r)
        <4>1. \A q \in Requests : ~Rotated(q)'
          BY <3>1, NoOtherAnswer DEF Lands, SameRequest, Rotated, Landed
        <4>2. Mine < idp.valid
          BY <3>6 DEF TokenInv, Mine
        <4>3. /\ \A t \in idp'.lost : t < idp'.valid
              /\ \A t \in idp'.late : t <= Mine'
              /\ Mine' \in idp'.lost
          BY <3>1, <3>2, <3>4, <3>6, <4>2 DEF TokenInv, Mine
        <4> QED BY <3>3, <4>1, <4>3 DEF TokenInv, Mine
      <3> QED BY <3>5, <3>6
    <2>6. CASE Sets(r)
      <3>1. /\ Others(r) /\ UNCHANGED idp /\ req[r].pc = "answered"
            /\ req'[r].pc = "put"
            /\ Mine' = IF Rotated(r) THEN req[r].answer.refresh ELSE Mine
        BY <2>6 DEF Sets
      <3>2. \A q \in Requests : Torn(q)' => Torn(q)
        BY <3>1 DEF Others, SameRequest
      <3>3. CASE ~Rotated(r)
        <4>1. Calm
          BY <3>1, <3>3 DEF Calm, Others, SameRequest, Rotated
        <4>2. RejectedOnlyWhenDead'
          BY <1>a, <3>1, <3>2, <3>3
        <4> QED BY <3>1, <4>1, <4>2, CalmStep
      <3>4. CASE Rotated(r)
        <4>1. Mine' = idp.valid /\ Mine < idp.valid /\ Mine \notin idp.lost
          BY <3>1, <3>4 DEF TokenInv, Mine
        <4>2. \A q \in Requests : ~Rotated(q)'
          BY <3>1, NoOtherAnswer DEF Others, SameRequest, Rotated, Leading
        <4>3. /\ \A t \in idp'.lost : t < idp'.valid
              /\ \A t \in idp'.late : t <= Mine'
              /\ Mine' = idp'.valid
          BY <3>1, <4>1, Fields DEF TokenInv, Mine
        <4>4. TokenInv'
          BY <4>2, <4>3 DEF TokenInv, Mine
        <4>5. Dead => Dead'
          BY <3>1, <4>1
        <4>6. RejectedOnlyWhenDead'
          BY <1>a, <3>2, <4>5
        <4> QED BY <4>4, <4>6
      <3> QED BY <3>3, <3>4
    <2>7. CASE Accepts(r)
      <3>1. /\ Others(r) /\ Mine' = Mine /\ req[r].pc = "sent"
            /\ req'[r].pc = "answered" /\ Mine = idp.valid
            /\ idp'.lost = idp.lost /\ idp'.late = idp.late
            /\ idp'.revoked = idp.revoked
        BY <2>7 DEF Accepts, FlightInv, Mine
      <3>2. RejectedOnlyWhenDead'
        BY <1>a, <3>1 DEF Others, SameRequest
      <3>3. CASE req'[r].answer.refresh = NoToken /\ idp'.valid = idp.valid
        <4>1. Calm
          BY <3>1, <3>3 DEF Calm, Others, SameRequest, Rotated
        <4> QED BY <3>1, <3>2, <4>1, CalmStep
      <3>4. CASE idp'.valid = idp.valid + 1 /\ req'[r].answer.refresh = idp.valid + 1
        <4>1. \A q \in Requests \ {r} : ~Rotated(q)'
          BY <3>1, NoOtherAnswer DEF Others, SameRequest, Rotated, Leading
        <4>2. /\ \A t \in idp'.lost : t < idp'.valid
              /\ \A t \in idp'.late : t <= Mine'
              /\ Mine' < idp'.valid /\ Mine' \notin idp'.lost
          BY <3>1, <3>4, Fields DEF TokenInv, Mine
        <4>3. Rotated(r)'
          BY <3>1, <3>4, Fields DEF Rotated, NoToken
        <4> QED BY <3>2, <3>4, <4>1, <4>2, <4>3 DEF TokenInv, Mine
      <3> QED BY <2>7, <3>3, <3>4 DEF Accepts
    <2> QED BY <1>1, <2>1, <2>2, <2>3, <2>4, <2>5, <2>6, <2>7 DEF RequestShape
  <1>2. CASE Late
    <2>1. /\ UNCHANGED req /\ Mine' = Mine /\ idp.valid \in idp.late
          /\ idp'.valid = idp.valid + 1 /\ idp'.revoked = idp.revoked
          /\ idp'.lost = idp.lost \cup {idp.valid} /\ idp'.late \subseteq idp.late
      BY <1>2 DEF Late
    <2>2. idp.valid <= Mine
      BY <2>1 DEF TokenInv, Mine
    <2>3. \A q \in Requests : ~Rotated(q)
      BY <2>2, Fields DEF TokenInv, Mine
    <2>4. /\ \A t \in idp'.lost : t < idp'.valid
          /\ \A t \in idp'.late : t <= Mine'
          /\ Mine' \in idp'.lost
      BY <2>1, <2>3, Fields DEF TokenInv, Mine
    <2>5. TokenInv'
      BY <2>1, <2>3, <2>4 DEF TokenInv, Mine, Rotated
    <2>6. RejectedOnlyWhenDead'
      BY <1>a, <2>1
    <2> QED BY <2>5, <2>6
  <1>3. CASE Revokes
    <2>1. /\ UNCHANGED req /\ Mine' = Mine /\ idp'.revoked
          /\ idp'.valid = idp.valid /\ idp'.lost = idp.lost /\ idp'.late = idp.late
      BY <1>3 DEF Revokes
    <2>2. Calm
      BY <2>1 DEF Calm, Rotated
    <2> QED BY <1>a, <2>1, <2>2, CalmStep
  <1>4. CASE Sweep \/ (Tick /\ UNCHANGED storeVars)
    <2>1. UNCHANGED <<heap, req, idp>>
      BY <1>4 DEF Sweep, Tick, gatewayVars
    <2> QED BY <2>1 DEF TokenInv, RejectedOnlyWhenDead, Rotated
  <1> QED BY <1>1, <1>2, <1>3, <1>4, StepShapes

----------------------------------------------------------------------------
(* The inductive invariant and the theorems.                               *)

LEMMA InvInit == Init => IndInv
  <1> SUFFICES ASSUME Init PROVE IndInv
    OBVIOUS
  <1>1. \A r \in Requests : req[r].pc = "new" /\ req[r].obj = None
    BY DEF Init, GatewayInit, NewRequest
  <1>2. heap[LoginObject].refresh = 1
    <2>1. PICK e \in ExpiresIn :
            heap[LoginObject] = NewSession([refresh |-> 1, expiresIn |-> e], 0)
      BY DEF Init, GatewayInit, Objects
    <2>2. NewSession([refresh |-> 1, expiresIn |-> e], 0).refresh = 1
      BY DEF NewSession, applyTokens, NoToken
    <2> QED BY <2>1, <2>2
  <1>3. HoldingInv /\ TombstoneInv
    BY <1>1 DEF Init, HoldingInv, TombstoneInv, Holding
  <1>4. FlightInv /\ RejectedOnlyWhenDead
    BY <1>1 DEF FlightInv, Leading, RejectedOnlyWhenDead
  <1>5. TokenInv
    BY <1>1, <1>2 DEF Init, GatewayInit, TokenInv, Rotated
  <1> QED BY <1>3, <1>4, <1>5 DEF IndInv

LEMMA InvStep == TypeOK /\ IndInv /\ [Next]_vars => TypeOK' /\ IndInv'
  <1>1. ASSUME TypeOK, IndInv, Next PROVE TypeOK' /\ IndInv'
    BY <1>1, TypeStep, HoldingStep, TombstoneStep, FlightStep, TokenStep
    DEF IndInv
  <1>2. ASSUME TypeOK, IndInv, UNCHANGED vars PROVE TypeOK' /\ IndInv'
    BY <1>2
    DEF vars, gatewayVars, TypeOK, GatewayTypeOK, IndInv, HoldingInv, Holding,
        TombstoneInv, FlightInv, TokenInv, Rotated, RejectedOnlyWhenDead
  <1> QED BY <1>1, <1>2

\* The inductive invariant holds in every reachable state of the gateway.
THEOREM Invariance == Spec => []Inv
  BY TypeInit, InvInit, InvStep, PTL DEF Spec, Inv

\* MemoryStore: a logout is final, for any number of requests in flight, if
\* none of them is in flight for longer than a tombstone is kept.
THEOREM LogoutIsFinal == Spec => []DeletedStaysDeleted
  <1>1. Inv => DeletedStaysDeleted
    BY DEF Inv, IndInv, TombstoneInv, DeletedStaysDeleted
  <1> QED BY <1>1, Invariance, PTL

\* EnsureFresh: no flight presents a refresh token that was spent, unless the
\* answer that replaced it was lost.
THEOREM RefreshTokenIsSingleUse == Spec => []SpentOnlyWhenLost
  <1>1. Inv => SpentOnlyWhenLost
    <2> SUFFICES ASSUME TypeOK, IndInv, NEW r \in Requests, req[r].pc = "sent"
                 PROVE  req[r].token = idp.valid \/ req[r].token \in idp.lost
      BY DEF Inv, SpentOnlyWhenLost
    <2>1. \A q \in Requests : ~Rotated(q)
      BY OneLeader DEF IndInv, Rotated, Leading
    <2> QED BY <2>1 DEF IndInv, FlightInv, TokenInv
  <1> QED BY <1>1, Invariance, PTL

\* ProxyWithSession: a rejected refresh ends the session only if the server
\* revoked it or its valid token was lost.
THEOREM NoFalseLogout == Spec => []RejectedOnlyWhenDead
  <1>1. Inv => RejectedOnlyWhenDead
    BY DEF Inv, IndInv
  <1> QED BY <1>1, Invariance, PTL

----------------------------------------------------------------------------
(* The gateway implements SessionService: every step of the gateway is a   *)
(* step of the service or changes nothing of it.                           *)

\* The service's phases in terms of where each request is.
Idling == {"new", "done"}

LEMMA PhaseOf ==
    ASSUME TypeOK, HoldingInv
    PROVE  /\ DOMAIN Phase = Requests
           /\ \A r \in Requests :
                Phase[r] = IF req[r].pc \in Idling THEN "idle"
                           ELSE IF req[r].pc = "rejected" THEN "rejected" ELSE "serving"
  BY GatewayAssumption DEF HoldingInv, Holding, Phase, Idling

\* A request stays in its phase.
Stays(q) ==
    /\ req'[q].pc \in Idling <=> req[q].pc \in Idling
    /\ req'[q].pc = "rejected" <=> req[q].pc = "rejected"

LEMMA PhaseSame ==
    ASSUME TypeOK, HoldingInv, TypeOK', HoldingInv', \A q \in Requests : Stays(q)
    PROVE  Phase' = Phase
  <1>1. \A q \in Requests : Phase'[q] = Phase[q]
    BY PhaseOf DEF Stays, HoldingInv, Holding, Phase, Idling
  <1> QED BY <1>1 DEF Phase

\* A request alone becomes idle, or is admitted.
LEMMA PhaseMoves ==
    ASSUME TypeOK, HoldingInv, TypeOK', HoldingInv', NEW r \in Requests, Others(r)
    PROVE  /\ req'[r].pc \in Idling => Phase' = [Phase EXCEPT ![r] = "idle"]
           /\ req'[r].pc = "found" => Phase' = [Phase EXCEPT ![r] = "serving"]
  <1>1. \A q \in Requests \ {r} : Phase'[q] = Phase[q]
    BY DEF Others, SameRequest, Kept, HoldingInv, Holding, Phase, Idling
  <1>2. /\ req'[r].pc \in Idling => Phase'[r] = "idle"
        /\ req'[r].pc = "found" => Phase'[r] = "serving"
    BY GatewayAssumption DEF HoldingInv, Holding, Phase, Idling
  <1>3. /\ Phase = [q \in Requests |-> Phase[q]]
        /\ Phase' = [q \in Requests |-> Phase'[q]]
    BY DEF Phase
  <1>4. ASSUME NEW x, Phase'[r] = x
        PROVE  Phase' = [Phase EXCEPT ![r] = x]
    <2>1. \A q \in Requests : [Phase EXCEPT ![r] = x][q] = Phase'[q]
      BY <1>1, <1>3, <1>4
    <2> QED BY <1>3, <2>1
  <1> QED BY <1>2, <1>4

LEMMA CredentialSame ==
    ASSUME Mine' = Mine, idp'.valid = idp.valid, idp'.revoked = idp.revoked,
           \A q \in Requests : Rotated(q)' <=> Rotated(q)
    PROVE  UNCHANGED <<Held, Valid, idp.revoked>>
  BY DEF Mine, Held, Valid

\* Nothing of the credential is in the air while r leads and has no answer.
LEMMA NothingRotated ==
    ASSUME TypeOK, FlightInv, NEW r \in Requests, req[r].pc \in Leading, ~Rotated(r)
    PROVE  Valid = idp.valid
  BY NoOtherAnswer DEF Valid

\* Put stores the session unless it was ended.
LEMMA PutStatus ==
    ASSUME HoldingInv, TombstoneInv, Put(LoginObject)
    PROVE  Status' \in {Status, IF Status = "gone" THEN "live" ELSE Status}
  BY GatewayAssumption DEF Put, Status, TombstoneInv, HoldingInv

----------------------------------------------------------------------------
(* Each shape of a step, seen from the service.                            *)

\* A step that changes nothing the service can see.
Unseen ==
    /\ \A q \in Requests : Stays(q) /\ (Rotated(q)' <=> Rotated(q))
    /\ Mine' = Mine /\ idp'.valid = idp.valid /\ idp'.revoked = idp.revoked

LEMMA UnseenStutters ==
    ASSUME TypeOK, HoldingInv, TypeOK', HoldingInv', Unseen
    PROVE  /\ UNCHANGED <<Phase, Held, Valid, idp.revoked>>
           /\ UNCHANGED storeVars => UNCHANGED Service!vars
  <1>1. UNCHANGED <<Held, Valid, idp.revoked>>
    BY CredentialSame DEF Unseen
  <1>2. Phase' = Phase
    BY PhaseSame DEF Unseen
  <1>3. UNCHANGED storeVars => Status' = Status
    BY DEF Status, storeVars
  <1> QED BY <1>1, <1>2, <1>3 DEF Service!vars

\* A request that moves on within its service.
LEMMA UnseenShapes ==
    ASSUME TypeOK, NEW r \in Requests,
           Walks(r) \/ Leads(r) \/ Sends(r) \/ Refuses(r) \/ LandsWell(r)
    PROVE  Unseen
  <1>1. CASE Walks(r) \/ Leads(r) \/ Sends(r) \/ Refuses(r)
    <2>1. Others(r) /\ Mine' = Mine /\ UNCHANGED idp
      BY <1>1 DEF Walks, Leads, Sends, Refuses, Steady
    <2>2. /\ req[r].pc \notin {"new", "done", "rejected", "answered"}
          /\ req'[r].pc \notin {"new", "done", "rejected", "answered"}
      BY <1>1 DEF Walks, Leads, Sends, Refuses, Aside
    <2> QED BY <2>1, <2>2 DEF Unseen, Stays, Idling, Rotated, Others, SameRequest
  <1>2. CASE LandsWell(r)
    <2>1. Mine' = Mine /\ UNCHANGED idp
      BY <1>2 DEF LandsWell, Lands
    <2>2. ASSUME NEW q \in Requests
          PROVE  Stays(q) /\ (Rotated(q)' <=> Rotated(q))
      <3>1. CASE Landed(r, q)
        <4>1. req[q].pc \in {"lead", "put", "wait"} /\ req'[q].pc = "fresh"
          BY <1>2, <3>1 DEF LandsWell, Lands, Landed
        <4> QED BY <4>1 DEF Stays, Idling, Rotated
      <3>2. CASE ~Landed(r, q)
        BY <1>2, <3>2 DEF LandsWell, Lands, SameRequest, Stays, Rotated
      <3> QED BY <3>1, <3>2
    <2> QED BY <2>1, <2>2 DEF Unseen
  <1> QED BY <1>1, <1>2

\* A request is answered: it leaves, with or without storing the session, or
\* it ends it.
LEMMA LeavesRefines ==
    ASSUME TypeOK, IndInv, TypeOK', IndInv', NEW r \in Requests, Leaves(r)
    PROVE  [Service!Next]_(Service!vars)
  <1>1. HoldingInv /\ TombstoneInv /\ HoldingInv'
    BY DEF IndInv
  <1>2. UNCHANGED <<Held, Valid, idp.revoked>>
    <2>1. ~Rotated(r) /\ ~Rotated(r)'
      BY DEF Leaves, Leading, Rotated
    <2>2. \A q \in Requests : Rotated(q)' <=> Rotated(q)
      BY <2>1 DEF Leaves, Others, SameRequest, Rotated
    <2> QED BY <2>2, CredentialSame DEF Leaves, Steady
  <1>3. Phase' = [Phase EXCEPT ![r] = "idle"]
    BY <1>1, PhaseMoves DEF Leaves, Idling
  <1>4. CASE UNCHANGED storeVars /\ req[r].pc \in Idling
    <2>1. Stays(r)
      BY <1>4 DEF Leaves, Stays, Idling
    <2>2. Phase' = Phase
      BY <1>1, <2>1, PhaseSame DEF Leaves, Others, SameRequest, Stays
    <2>3. Status' = Status
      BY <1>4 DEF Status, storeVars
    <2> QED BY <1>2, <2>2, <2>3 DEF Service!vars
  <1>5. CASE UNCHANGED storeVars /\ req[r].pc \notin Idling /\ req[r].pc # "rejected"
    <2>1. Phase[r] = "serving"
      BY <1>1, <1>5, PhaseOf
    <2>2. Status' = Status
      BY <1>5 DEF Status, storeVars
    <2>3. Service!Store(r)
      BY <1>2, <1>3, <2>1, <2>2 DEF Service!Store
    <2> QED BY <2>3 DEF Service!Next
  <1>6. CASE req[r].pc = "touched" /\ Put(req[r].obj)
    <2>1. Phase[r] = "serving"
      BY <1>1, <1>6, PhaseOf DEF Idling
    <2>2. Status' \in {Status, IF Status = "gone" THEN "live" ELSE Status}
      BY <1>1, <1>6, HoldsShared, PutStatus
    <2>3. Service!Store(r)
      BY <1>2, <1>3, <2>1, <2>2 DEF Service!Store
    <2> QED BY <2>3 DEF Service!Next
  <1>7. CASE req[r].pc \in {"expired", "logout", "rejected"} /\ Delete
    <2>1. Phase[r] \in {"serving", "rejected"}
      BY <1>1, <1>7, PhaseOf DEF Idling
    <2>2. Status' = "ended"
      BY <1>7 DEF Delete, Status
    <2>3. Service!End(r)
      BY <1>2, <1>3, <2>1, <2>2 DEF Service!End
    <2> QED BY <2>3 DEF Service!Next
  <1> QED BY <1>4, <1>5, <1>6, <1>7 DEF Leaves

\* A request finds the session.
LEMMA FindsRefines ==
    ASSUME TypeOK, IndInv, TypeOK', IndInv', NEW r \in Requests, Finds(r)
    PROVE  Service!Next
  <1>1. HoldingInv /\ TombstoneInv /\ HoldingInv'
    BY DEF IndInv
  <1>2. UNCHANGED <<Held, Valid, idp.revoked>>
    <2>1. \A q \in Requests : Rotated(q)' <=> Rotated(q)
      BY DEF Finds, Others, SameRequest, Rotated
    <2> QED BY <2>1, CredentialSame DEF Finds, Steady
  <1>3. Phase' = [Phase EXCEPT ![r] = "serving"] /\ Phase[r] = "idle"
    BY <1>1, PhaseMoves, PhaseOf DEF Finds, Idling
  <1>4. Status = "live" /\ Status' = Status
    BY <1>1 DEF Finds, Status, TombstoneInv, storeVars
  <1>5. Service!Admit(r)
    BY <1>2, <1>3, <1>4 DEF Service!Admit
  <1> QED BY <1>5 DEF Service!Next

\* The end of a flight that succeeded may store the session.
LEMMA LandsWellRefines ==
    ASSUME TypeOK, IndInv, TypeOK', IndInv', NEW r \in Requests, LandsWell(r)
    PROVE  [Service!Next]_(Service!vars)
  <1>1. HoldingInv /\ TombstoneInv /\ HoldingInv'
    BY DEF IndInv
  <1>2. UNCHANGED <<Phase, Held, Valid, idp.revoked>>
        /\ (UNCHANGED storeVars => UNCHANGED Service!vars)
    BY <1>1, UnseenShapes, UnseenStutters
  <1>3. CASE req[r].pc = "put" /\ Put(req[r].obj)
    <2>1. Phase[r] = "serving"
      BY <1>1, <1>3, PhaseOf DEF Idling
    <2>2. Status' \in {Status, IF Status = "gone" THEN "live" ELSE Status}
      BY <1>1, <1>3, HoldsShared, PutStatus
    <2>3. Service!Store(r)
      BY <1>2, <2>1, <2>2 DEF Service!Store
    <2> QED BY <2>3 DEF Service!Next
  <1> QED BY <1>2, <1>3 DEF LandsWell

\* The flight is refused: the leader and its followers are told so, and no
\* refresh could have succeeded.
LEMMA LandsRefusedRefines ==
    ASSUME TypeOK, IndInv, TypeOK', IndInv', NEW r \in Requests, LandsRefused(r)
    PROVE  Service!Next
  <1>1. HoldingInv /\ FlightInv /\ TokenInv /\ RejectedOnlyWhenDead /\ HoldingInv'
    BY DEF IndInv
  <1>2. req[r].pc = "refused" /\ req[r].pc \in Leading /\ ~Rotated(r)
    BY DEF LandsRefused, Leading, Rotated
  <1>3. ~Service!Usable
    <2>1. Valid = idp.valid
      BY <1>1, <1>2, NothingRotated
    <2>2. idp.revoked \/ Held \in idp.lost
      BY <1>1, <1>2 DEF RejectedOnlyWhenDead, Held
    <2>3. Held \in idp.lost => Held # Valid
      BY <1>1, <2>1, Fields DEF TokenInv, Mine, Held
    <2> QED BY <2>2, <2>3 DEF Service!Usable
  <1>4. ASSUME NEW q \in Requests
        PROVE  /\ Phase'[q] = IF Landed(r, q) THEN "rejected" ELSE Phase[q]
               /\ Landed(r, q) => Phase[q] = "serving"
               /\ Rotated(q)' <=> Rotated(q)
    <2>1. CASE Landed(r, q)
      <3>1. req[q].pc \in {"refused", "wait"} /\ req'[q].pc = "rejected"
        BY <1>2, <2>1 DEF LandsRefused, Lands, Landed
      <3>2. Phase[q] = "serving"
        BY <1>1, <3>1, PhaseOf DEF Idling
      <3>3. Phase'[q] = "rejected"
        BY <1>1, <3>1, GatewayAssumption DEF HoldingInv, Holding, Phase
      <3> QED BY <2>1, <3>1, <3>2, <3>3 DEF Rotated
    <2>2. CASE ~Landed(r, q)
      <3>1. SameRequest(q)
        BY <2>2 DEF LandsRefused, Lands
      <3> QED BY <2>2, <3>1 DEF SameRequest, Kept, Phase, Holding, Rotated
    <2> QED BY <2>1, <2>2
  <1>5. UNCHANGED <<Held, Valid, idp.revoked, Status>>
    <2>1. UNCHANGED <<Held, Valid, idp.revoked>>
      BY <1>4, CredentialSame DEF LandsRefused, Lands
    <2> QED BY <2>1 DEF LandsRefused, storeVars, Status
  <1>6. Service!Reject
    <2> DEFINE R == {q \in Requests : Landed(r, q)}
    <2>1. R \in SUBSET {q \in Requests : Phase[q] = "serving"}
      BY <1>4
    <2>2. Phase' = [q \in Requests |-> IF q \in R THEN "rejected" ELSE Phase[q]]
      <3>1. Phase' = [q \in Requests |-> Phase'[q]]
        BY DEF Phase
      <3> QED BY <1>4, <3>1
    <2> HIDE DEF R
    <2> QED BY <1>3, <1>5, <2>1, <2>2 DEF Service!Reject
  <1> QED BY <1>6 DEF Service!Next

\* The flight fails: what was in the air is lost.
LEMMA LandsBadlyRefines ==
    ASSUME TypeOK, IndInv, TypeOK', IndInv', NEW r \in Requests, LandsBadly(r)
    PROVE  [Service!Next]_(Service!vars)
  <1>1. HoldingInv /\ FlightInv /\ TokenInv /\ HoldingInv'
    BY DEF IndInv
  <1>2. /\ req[r].pc \in {"sent", "answered", "refused"} /\ req[r].pc \in Leading
        /\ Held' = Held /\ Mine' = Mine
        /\ idp'.valid = idp.valid /\ idp'.revoked = idp.revoked
        /\ UNCHANGED storeVars
    BY DEF LandsBadly, Lands, Leading, Mine, Held
  <1>3. ASSUME NEW q \in Requests
        PROVE  Stays(q) /\ (q # r => ~Rotated(q)) /\ ~Rotated(q)'
    <2>1. q # r => ~Rotated(q)
      BY <1>1, <1>2, NoOtherAnswer
    <2>2. CASE Landed(r, q)
      <3>1. /\ req[q].pc \in {"sent", "answered", "refused", "wait"}
            /\ req'[q].pc = "unavailable"
        BY <1>2, <2>2 DEF LandsBadly, Lands, Landed
      <3> QED BY <2>1, <3>1 DEF Stays, Idling, Rotated
    <2>3. CASE ~Landed(r, q)
      BY <2>1, <2>3 DEF LandsBadly, Lands, Landed, SameRequest, Stays, Rotated
    <2> QED BY <2>2, <2>3
  <1>4. Phase' = Phase /\ Status' = Status
    BY <1>1, <1>2, <1>3, PhaseSame DEF Status, storeVars
  <1>5. CASE Rotated(r)
    <2>1. Valid = Held /\ Valid' = idp.valid
      BY <1>2, <1>3, <1>5 DEF Valid
    <2>2. idp.valid > Held
      BY <1>1, <1>5, Fields DEF TokenInv, Mine, Held
    <2>3. Service!Lose
      BY <1>2, <1>4, <2>1, <2>2 DEF Service!Lose
    <2> QED BY <2>3 DEF Service!Next
  <1>6. CASE ~Rotated(r)
    <2>1. Valid' = Valid
      BY <1>2, <1>3, <1>6 DEF Valid
    <2> QED BY <1>2, <1>4, <2>1 DEF Service!vars
  <1> QED BY <1>5, <1>6

\* The server accepts the token, which nobody sees until the answer is
\* applied; then the refresh has taken place.
LEMMA ExchangeRefines ==
    ASSUME TypeOK, IndInv, TypeOK', IndInv', NEW r \in Requests,
           Accepts(r) \/ Sets(r)
    PROVE  [Service!Next]_(Service!vars)
  <1>1. HoldingInv /\ FlightInv /\ TokenInv /\ HoldingInv'
    BY DEF IndInv
  <1>2. /\ req[r].pc \in {"sent", "answered"} /\ req'[r].pc \in {"answered", "put"}
        /\ req[r].pc \in Leading /\ Others(r)
        /\ idp'.revoked = idp.revoked /\ UNCHANGED storeVars
    BY DEF Accepts, Sets, Leading
  <1>3. Phase' = Phase /\ Status' = Status
    <2>1. \A q \in Requests : Stays(q)
      BY <1>2 DEF Others, SameRequest, Stays, Idling
    <2> QED BY <1>1, <1>2, <2>1, PhaseSame DEF Status, storeVars
  <1>4. \A q \in Requests \ {r} : ~Rotated(q) /\ ~Rotated(q)'
    BY <1>1, <1>2, NoOtherAnswer DEF Others, SameRequest, Rotated
  <1>5. CASE Accepts(r)
    <2>1. ~Rotated(r) /\ Held' = Held /\ Held = idp.valid
      BY <1>1, <1>5 DEF Accepts, Rotated, FlightInv, Held, Mine
    <2>2. Valid = Held
      BY <1>1, <1>2, <2>1, NothingRotated
    <2>3. Valid' = Held'
      <3>1. CASE Rotated(r)'
        BY <3>1 DEF Valid
      <3>2. CASE ~Rotated(r)'
        <4>1. idp'.valid = idp.valid
          BY <1>5, <3>2, Fields DEF Accepts, Rotated, NoToken
        <4> QED BY <1>4, <2>1, <3>2, <4>1 DEF Valid
      <3> QED BY <3>1, <3>2
    <2> QED BY <1>2, <1>3, <2>1, <2>2, <2>3 DEF Service!vars
  <1>6. CASE Sets(r)
    <2>1. ~Rotated(r)' /\ idp' = idp
      BY <1>6 DEF Sets, Rotated
    <2>2. Valid' = idp.valid
      BY <1>4, <2>1 DEF Valid
    <2>3. CASE Rotated(r)
      <3>1. Valid = Held /\ Held' = idp.valid /\ idp.valid > Held
        BY <1>1, <1>6, <2>3, Fields DEF Sets, TokenInv, Valid, Held, Mine
      <3>2. Service!Refresh
        BY <1>2, <1>3, <2>2, <3>1 DEF Service!Refresh
      <3> QED BY <3>2 DEF Service!Next
    <2>4. CASE ~Rotated(r)
      <3>1. Held' = Held /\ Valid = idp.valid
        BY <1>1, <1>2, <1>6, <2>4, NothingRotated DEF Sets, Held, Mine
      <3> QED BY <1>2, <1>3, <2>2, <3>1 DEF Service!vars
    <2> QED BY <2>3, <2>4
  <1> QED BY <1>5, <1>6

\* The steps of nobody's request.
LEMMA EnvironmentRefines ==
    ASSUME TypeOK, IndInv, TypeOK', IndInv',
           Late \/ Revokes \/ Sweep \/ (Tick /\ UNCHANGED storeVars)
    PROVE  [Service!Next]_(Service!vars)
  <1>1. HoldingInv /\ TokenInv /\ HoldingInv'
    BY DEF IndInv
  <1>2. req' = req /\ Mine' = Mine /\ deleted' = deleted
    BY DEF Late, Revokes, Sweep, Tick, gatewayVars, storeVars, Mine
  <1>3. \A q \in Requests : Stays(q) /\ (Rotated(q)' <=> Rotated(q))
    BY <1>2 DEF Stays, Rotated
  <1>4. Phase' = Phase /\ Held' = Held
    BY <1>1, <1>2, <1>3, PhaseSame DEF Held, Mine
  <1>5. CASE Late
    <2>1. Held = idp.valid /\ \A q \in Requests : ~Rotated(q)
      BY <1>1, <1>5, Fields DEF Late, TokenInv, Held, Mine
    <2>2. Valid = idp.valid /\ Valid' = idp.valid + 1 /\ Status' = Status
      BY <1>3, <1>5, <2>1 DEF Late, Valid, Status, storeVars
    <2>3. Service!Lose
      BY <1>4, <1>5, <2>1, <2>2, Fields DEF Late, Service!Lose
    <2> QED BY <2>3 DEF Service!Next
  <1>6. CASE Revokes
    <2>1. Valid' = Valid /\ Status' = Status
      BY <1>3, <1>4, <1>6 DEF Revokes, Valid, Status, storeVars
    <2>2. idp'.revoked = TRUE
      BY <1>6 DEF Revokes, TypeOK, GatewayTypeOK, IdpType
    <2>3. Service!Revoke
      BY <1>4, <2>1, <2>2 DEF Service!Revoke
    <2> QED BY <2>3 DEF Service!Next
  <1>7. CASE Sweep \/ (Tick /\ UNCHANGED storeVars)
    <2>1. idp' = idp
      BY <1>7 DEF Sweep, Tick, gatewayVars
    <2>2. UNCHANGED <<Held, Valid, idp.revoked>>
      BY <1>2, <1>3, <2>1, CredentialSame
    <2>3. sessions' \in {sessions, None}
      BY <1>7 DEF Sweep, Tick, storeVars
    <2>4. Status' = Status \/ (Status = "live" /\ Status' = "gone")
      BY <1>2, <2>3 DEF Status
    <2>5. CASE Status' = Status
      BY <1>4, <2>2, <2>5 DEF Service!vars
    <2>6. CASE Status = "live" /\ Status' = "gone"
      <3>1. Service!Expire
        BY <1>4, <2>2, <2>6 DEF Service!Expire
      <3> QED BY <3>1 DEF Service!Next
    <2> QED BY <2>4, <2>5, <2>6
  <1> QED BY <1>5, <1>6, <1>7

----------------------------------------------------------------------------
LEMMA InitRefines == Init => Service!Init
  <1> SUFFICES ASSUME Init PROVE Service!Init
    OBVIOUS
  <1>1. \A r \in Requests : req[r].pc = "new" /\ req[r].obj = None
    BY DEF Init, GatewayInit, NewRequest
  <1>2. Status = "live"
    BY GatewayAssumption DEF Init, Status
  <1>3. Phase = [r \in Requests |-> "idle"]
    BY <1>1 DEF Phase, Holding
  <1>4. Held = 1
    <2>1. PICK e \in ExpiresIn :
            heap[LoginObject] = NewSession([refresh |-> 1, expiresIn |-> e], 0)
      BY DEF Init, GatewayInit, Objects
    <2>2. NewSession([refresh |-> 1, expiresIn |-> e], 0).refresh = 1
      BY DEF NewSession, applyTokens, NoToken
    <2> QED BY <2>1, <2>2 DEF Held
  <1>5. Valid = 1 /\ idp.revoked = FALSE
    BY <1>1 DEF Init, GatewayInit, Valid, Rotated
  <1> QED BY <1>2, <1>3, <1>4, <1>5 DEF Service!Init

LEMMA StepRefines ==
    Inv /\ Inv' /\ [Next]_vars => [Service!Next]_(Service!vars)
  <1> SUFFICES ASSUME TypeOK, IndInv, TypeOK', IndInv', [Next]_vars
               PROVE  [Service!Next]_(Service!vars)
    BY DEF Inv
  <1>1. HoldingInv /\ HoldingInv'
    BY DEF IndInv
  <1>2. ASSUME NEW r \in Requests, RequestShape(r)
        PROVE  [Service!Next]_(Service!vars)
    <2>1. CASE Walks(r) \/ Leads(r) \/ Sends(r) \/ Refuses(r)
      <3>1. UNCHANGED storeVars
        BY <2>1 DEF Walks, Leads, Sends, Refuses
      <3> QED BY <1>1, <2>1, <3>1, UnseenShapes, UnseenStutters
    <2> QED
      BY Zenon, <1>2, <2>1, LeavesRefines, FindsRefines, LandsWellRefines,
         LandsRefusedRefines, LandsBadlyRefines, ExchangeRefines
      DEF RequestShape
  <1>3. CASE Next
    BY Zenon, <1>1, <1>2, <1>3, StepShapes, EnvironmentRefines
  <1>4. CASE UNCHANGED vars
    BY <1>4 DEF vars, gatewayVars, Service!vars, Status, Phase, Held, Valid,
                Holding, Rotated
  <1> QED BY <1>3, <1>4

\* To its requests the gateway over MemoryStore is the session service: refresh
\* in one step, an end that is final, a refusal only when no refresh could
\* succeed.
THEOREM GatewayImplementsService == Spec => ImplementsService
  BY InitRefines, StepRefines, Invariance, PTL
  DEF Spec, ImplementsService, Service!Spec
=============================================================================
