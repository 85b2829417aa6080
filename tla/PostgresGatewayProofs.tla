----------------------- MODULE PostgresGatewayProofs -----------------------
(***************************************************************************)
(* Proofs about PostgresGateway, for any number of requests and processes, *)
(* any values of the timing constants, and with or without failing         *)
(* statements and crashes.                                                 *)
(***************************************************************************)
EXTENDS PostgresGateway, GatewayProofs

----------------------------------------------------------------------------
(* What the invariant can see of a step.                                   *)

\* The states of a request that holds the session, but for those in which its
\* record has more to say: "sent", "answered", "put" and "touch".
Plain == {"found", "expired", "logout", "loaded", "stale", "wait", "lead",
          "refused", "fresh", "touched", "rejected", "unavailable"}

OtherCopies(r) == \A q \in Requests \ {r} : heap'[q] = heap[q]

\* r goes on to such a state; past Get only with a session that has not expired.
Walks(r) ==
    /\ Others(r) /\ Kept(r)
    /\ req[r].pc \in Plain \cup {"sent"} /\ req'[r].pc \in Plain
    /\ req[r].pc = "found" /\ req'[r].pc # "expired" => ~expired(heap[r], now)
    /\ UNCHANGED <<now, heap, idp, storeVars, historyVars>>

Uses(r) ==
    /\ Others(r) /\ Kept(r)
    /\ req[r].pc = "fresh" /\ req'[r].pc = "touch" /\ req'[r].at = now
    /\ active' = now
    /\ UNCHANGED <<now, heap, idp, storeVars, overlapped>>

Slides(r) ==
    /\ Others(r) /\ Kept(r) /\ OtherCopies(r)
    /\ req[r].pc = "touch" /\ req'[r].pc = "touched"
    /\ heap'[r].refresh = heap[r].refresh /\ heap'[r].lastSeen = req[r].at
    /\ UNCHANGED <<now, idp, storeVars, historyVars>>

Sets(r) ==
    /\ Others(r) /\ Kept(r) /\ OtherCopies(r)
    /\ req[r].pc = "answered" /\ req'[r].pc = "put"
    /\ req'[r].token = req[r].token /\ req'[r].answer = req[r].answer
    /\ heap'[r].refresh = IF InTheAir(r) THEN req[r].answer.refresh
                          ELSE heap[r].refresh
    /\ heap'[r].lastSeen = heap[r].lastSeen
    /\ UNCHANGED <<now, idp, storeVars, historyVars>>

Leaves(r) ==
    /\ Others(r)
    /\ req[r].pc \in Plain \cup {"new", "done"}
    /\ req'[r].pc \in {"new", "done"} /\ req'[r].obj = None
    /\ \/ UNCHANGED storeVars
       \/ req[r].pc = "touched" /\ Put(r)
       \/ req[r].pc \in {"rejected", "logout"} /\ Delete
       \/ req[r].pc = "expired" /\ remove
    /\ active' \in {active, now}
    /\ UNCHANGED <<now, heap, idp, overlapped>>

Finds(r) ==
    /\ Others(r) /\ OtherCopies(r)
    /\ Live /\ heap'[r] = data
    /\ req[r].pc = "new" /\ req'[r].pc = "found"
    /\ req'[r].obj = r /\ req'[r].start = now
    /\ overlapped' = (overlapped \/ \E q \in Requests : Holding(q))
    /\ UNCHANGED <<now, idp, storeVars, active>>

Sends(r) ==
    /\ Others(r) /\ Kept(r)
    /\ req[r].pc = "lead" /\ req'[r].pc = "sent"
    /\ req'[r].token = heap[r].refresh
    /\ UNCHANGED <<now, heap, idp, storeVars, historyVars>>

Accepts(r) ==
    /\ Others(r) /\ Kept(r)
    /\ req[r].pc = "sent" /\ req[r].token = idp.valid
    /\ req'[r].pc = "answered" /\ req'[r].token = req[r].token
    /\ idp'.lost = idp.lost /\ idp'.late = idp.late
    /\ \/ req'[r].answer.refresh = NoToken /\ idp'.valid = idp.valid
       \/ idp'.valid = idp.valid + 1 /\ req'[r].answer.refresh = idp.valid + 1
    /\ UNCHANGED <<now, heap, storeVars, historyVars>>

\* The flight of r ends without an answer, with the answer stored, or with
\* nobody left to store it.
Lands(r) ==
    /\ \A q \in Requests :
         /\ Kept(q)
         /\ IF Landed(r, q) THEN req'[q].pc \in {"fresh", "rejected", "unavailable"}
            ELSE SameRequest(q)
    /\ req[r].pc \in Leading
    /\ \/ req[r].pc \in {"lead", "refused"} /\ UNCHANGED <<idp, storeVars>>
       \/ req[r].pc = "put" /\ Put(r) /\ UNCHANGED idp
       \/ idp' = Abandoned({r}) /\ UNCHANGED storeVars
    /\ UNCHANGED <<now, heap, historyVars>>

Dies(i) ==
    /\ \A q \in Requests :
         IF req[q].inst = i THEN req'[q].pc = "new" /\ req'[q].obj = None
         ELSE SameRequest(q)
    /\ idp' = Abandoned({r \in Requests : req[r].inst = i})
    /\ \E r \in Requests : req[r].inst = i /\ Holding(r)
    /\ UNCHANGED <<now, heap, storeVars, historyVars>>

RequestShape(r) ==
    \/ Walks(r) \/ Uses(r) \/ Slides(r) \/ Sets(r) \/ Leaves(r) \/ Finds(r)
    \/ Sends(r) \/ Accepts(r) \/ Lands(r)

Outside ==
    (IdpLate \/ IdpRevoke \/ Tick) /\ UNCHANGED <<storeVars, historyVars>>

\* The copy a request works on is its own.
LEMMA OwnCopy ==
    ASSUME HoldingInv, NEW r \in Requests, req[r].pc \notin {"new", "done"}
    PROVE  req[r].obj = r /\ r \in Objects /\ Holding(r)
  BY GatewayAssumption DEF HoldingInv, Objects, Holding

LEMMA GatewayShapes ==
    ASSUME TypeOK, HoldingInv, NEW r \in Requests, GatewayStep(r),
           active' = IF req[r].pc = "fresh" THEN now ELSE active,
           UNCHANGED <<storeVars, overlapped>>
    PROVE  RequestShape(r)
  <1> GatewayTypeOK
    BY DEF TypeOK
  <1>h. req[r].pc # "fresh" => UNCHANGED historyVars
    BY DEF historyVars
  <1>1. CASE CheckSession(r)
    <2>1. req[r].pc = "found" /\ UNCHANGED <<now, heap, flight, idp>>
      BY Zenon, <1>1 DEF CheckSession
    <2>2. req[r].obj = r
      BY <2>1, OwnCopy
    <2>3. CASE Answer(r, "403")
      <3>1. Leaves(r)
        BY <2>1, <2>3, AnswerEffect DEF Leaves, Plain
      <3> QED BY <3>1 DEF RequestShape
    <2>4. CASE ~Answer(r, "403")
      <3>1. PICK pc \in {"expired", "loaded", "logout"} :
              Goto(r, pc) /\ (pc # "expired" => ~expired(heap[r], now))
        BY Zenon, <1>1, <2>2, <2>4 DEF CheckSession
      <3>2. Others(r) /\ Kept(r) /\ req'[r].pc = pc
        BY <3>1, GotoEffect
      <3>3. Walks(r)
        BY <1>h, <2>1, <3>1, <3>2 DEF Walks, Plain
      <3> QED BY <3>3 DEF RequestShape
    <2> QED BY <2>3, <2>4
  <1>2. CASE EnsureFresh(r) \/ Join(r)
    <2>1. PICK pc \in {"fresh", "stale", "lead", "wait"} : Goto(r, pc)
      BY Zenon, <1>2 DEF EnsureFresh, Join
    <2>2. req[r].pc \in {"loaded", "stale"} /\ UNCHANGED <<now, heap, idp>>
      BY <1>2 DEF EnsureFresh, Join
    <2>3. Others(r) /\ Kept(r) /\ req'[r].pc = pc
      BY <2>1, GotoEffect
    <2>4. Walks(r)
      BY <1>h, <2>1, <2>2, <2>3 DEF Walks, Plain
    <2> QED BY <2>4 DEF RequestShape
  <1>l. ASSUME NEW pc \in {"fresh", "rejected", "unavailable"}, Land(r, pc)
        PROVE  \A q \in Requests :
                 /\ Kept(q)
                 /\ IF Landed(r, q)
                    THEN req'[q].pc \in {"fresh", "rejected", "unavailable"}
                    ELSE SameRequest(q)
    BY Zenon, <1>l, LandEffect
  <1>3. CASE Recheck(r)
    <2>1. req[r].pc = "lead" /\ req[r].obj = r /\ UNCHANGED <<now, heap, idp>>
      BY <1>3, OwnCopy DEF Recheck
    <2>2. CASE AccessValid(heap[req[r].obj], now)
      <3>1. Land(r, "fresh")
        BY <1>3, <2>2 DEF Recheck
      <3>2. Lands(r)
        BY <1>h, <1>l, <2>1, <3>1 DEF Lands, Leading
      <3> QED BY <3>2 DEF RequestShape
    <2>3. CASE ~AccessValid(heap[req[r].obj], now)
      <3>1. Sends(r)
        BY <1>3, <1>h, <2>1, <2>3, SendEffect DEF Sends
      <3> QED BY <3>1 DEF RequestShape
    <2> QED BY <2>2, <2>3
  <1>4. CASE RefreshFails(r)
    <2>1. /\ Land(r, "unavailable") /\ UNCHANGED <<now, heap>>
          /\ req[r].pc \in {"sent", "answered", "refused"}
          /\ idp' = Abandoned({r})
      BY <1>4 DEF RefreshFails
    <2>2. Lands(r)
      BY <1>h, <1>l, <2>1 DEF Lands, Leading
    <2> QED BY <2>2 DEF RequestShape
  <1>5. CASE Refused(r)
    <2>1. /\ Land(r, "rejected") /\ UNCHANGED <<now, heap, idp>>
          /\ req[r].pc = "refused"
      BY <1>5 DEF Refused
    <2>2. Lands(r)
      BY <1>h, <1>l, <2>1 DEF Lands, Leading
    <2> QED BY <2>2 DEF RequestShape
  <1>6. CASE SetTokens(r)
    <2>1. /\ Goto(r, "put") /\ req[r].pc = "answered"
          /\ UNCHANGED <<now, flight, idp>>
      BY Zenon, <1>6 DEF SetTokens
    <2>2. /\ req[r].obj = r /\ r \in Objects /\ Requests \subseteq Objects
      BY <2>1, OwnCopy DEF Objects
    <2>3. /\ Others(r) /\ Kept(r) /\ req'[r].pc = "put"
          /\ req'[r].token = req[r].token /\ req'[r].answer = req[r].answer
      BY <2>1, GotoEffect
    <2>4. /\ OtherCopies(r)
          /\ heap'[r].refresh = IF InTheAir(r) THEN req[r].answer.refresh
                                ELSE heap[r].refresh
          /\ heap'[r].lastSeen = heap[r].lastSeen
      BY <1>6, <2>1, <2>2, HeapEffect DEF OtherCopies, InTheAir
    <2>5. Sets(r)
      BY <1>h, <2>1, <2>3, <2>4 DEF Sets
    <2> QED BY <2>5 DEF RequestShape
  <1>7. CASE TouchSession(r)
    <2>1. /\ Goto(r, "touched") /\ req[r].pc = "touch"
          /\ UNCHANGED <<now, flight, idp>>
      BY Zenon, <1>7 DEF TouchSession
    <2>2. /\ req[r].obj = r /\ r \in Objects /\ Requests \subseteq Objects
      BY <2>1, OwnCopy DEF Objects
    <2>3. Others(r) /\ Kept(r) /\ req'[r].pc = "touched"
      BY <2>1, GotoEffect
    <2>4. /\ OtherCopies(r)
          /\ heap'[r].refresh = heap[r].refresh /\ heap'[r].lastSeen = req[r].at
      BY <1>7, <2>2, HeapEffect DEF OtherCopies
    <2>5. Slides(r)
      BY <1>h, <2>1, <2>3, <2>4 DEF Slides
    <2> QED BY <2>5 DEF RequestShape
  <1>8. CASE BadGateway(r)
    <2>1. Leaves(r)
      BY <1>8, AnswerEffect DEF BadGateway, Leaves, Plain
    <2> QED BY <2>1 DEF RequestShape
  <1>9. CASE CheckTouch(r)
    <2>1. req[r].pc = "fresh" /\ UNCHANGED <<now, heap, flight, idp>>
      BY Zenon, <1>9 DEF CheckTouch
    <2>2. CASE NeedsTouch(heap[req[r].obj])
      <3>1. Uses(r)
        BY <1>9, <2>1, <2>2, TouchEffect DEF Uses
      <3> QED BY <3>1 DEF RequestShape
    <2>3. CASE ~NeedsTouch(heap[req[r].obj])
      <3>1. Answer(r, "forwarded")
        BY <1>9, <2>3 DEF CheckTouch
      <3>2. Leaves(r)
        BY <2>1, <3>1, AnswerEffect DEF Leaves, Plain
      <3> QED BY <3>2 DEF RequestShape
    <2> QED BY <2>2, <2>3
  <1> QED
    BY <1>1, <1>2, <1>3, <1>4, <1>5, <1>6, <1>7, <1>8, <1>9 DEF GatewayStep

LEMMA StoreShapes ==
    ASSUME TypeOK, HoldingInv, NEW r \in Requests,
           Get(r) \/ GetExpired(r) \/ PutTokens(r) \/ PutTouch(r) \/ EndSession(r)
    PROVE  RequestShape(r)
  <1> GatewayTypeOK
    BY DEF TypeOK
  <1>n. NoSession(r) => \E out : Answer(r, out)
    BY Zenon DEF NoSession
  <1>1. CASE Get(r)
    <2>1. req[r].pc = "new" /\ UNCHANGED <<now, flight, idp, storeVars, active>>
      BY Zenon, <1>1 DEF Get, NoSession, Found
    <2>2. CASE NoSession(r) /\ UNCHANGED <<heap, overlapped>>
      <3>1. Leaves(r)
        BY <1>n, <2>1, <2>2, AnswerEffect DEF Leaves
      <3> QED BY <3>1 DEF RequestShape
    <2>3. CASE /\ Live /\ Found(r, r) /\ heap' = [heap EXCEPT ![r] = data]
               /\ overlapped' = (overlapped \/ \E q \in Requests : Holding(q))
      <3>1. OtherCopies(r) /\ heap'[r] = data
        BY <2>3 DEF OtherCopies, Objects, GatewayTypeOK
      <3>2. /\ Others(r) /\ req'[r].pc = "found" /\ req'[r].obj = r
            /\ req'[r].start = now
        BY <2>3, FoundEffect
      <3>3. Finds(r)
        BY <2>1, <2>3, <3>1, <3>2 DEF Finds
      <3> QED BY <3>3 DEF RequestShape
    <2> QED BY Zenon, <1>1, <2>2, <2>3 DEF Get
  <1>2. CASE GetExpired(r)
    <2>1. /\ req[r].pc = "expired" /\ UNCHANGED <<now, heap, idp, historyVars>>
          /\ remove \/ UNCHANGED storeVars
          /\ \E out : Answer(r, out)
      BY Zenon, <1>2, <1>n DEF GetExpired, NoSession, StatementFails
    <2>2. Leaves(r)
      BY <2>1, AnswerEffect DEF Leaves, Plain, historyVars
    <2> QED BY <2>2 DEF RequestShape
  <1>3. CASE PutTokens(r)
    <2>1. /\ req[r].pc = "put" /\ Land(r, "fresh")
          /\ UNCHANGED <<now, heap, historyVars>>
          /\ \/ Put(req[r].obj) /\ UNCHANGED idp
             \/ UNCHANGED storeVars /\ idp' = Abandoned({r})
      BY Zenon, <1>3 DEF PutTokens, StatementFails
    <2>2. req[r].obj = r
      BY <2>1, OwnCopy
    <2>3. \A q \in Requests :
            /\ Kept(q)
            /\ IF Landed(r, q) THEN req'[q].pc = "fresh" ELSE SameRequest(q)
      BY Zenon, <2>1, LandEffect
    <2>4. Lands(r)
      BY <2>1, <2>2, <2>3 DEF Lands, Leading
    <2> QED BY <2>4 DEF RequestShape
  <1>4. CASE PutTouch(r)
    <2>1. /\ req[r].pc = "touched" /\ Answer(r, "forwarded")
          /\ UNCHANGED <<now, heap, idp, historyVars>>
          /\ Put(req[r].obj) \/ UNCHANGED storeVars
      BY Zenon, <1>4 DEF PutTouch, StatementFails
    <2>2. req[r].obj = r
      BY <2>1, OwnCopy
    <2>3. Leaves(r)
      BY <2>1, <2>2, AnswerEffect DEF Leaves, Plain, historyVars
    <2> QED BY <2>3 DEF RequestShape
  <1>5. CASE EndSession(r)
    <2>1. /\ req[r].pc \in {"rejected", "logout"}
          /\ UNCHANGED <<now, heap, idp, historyVars>>
          /\ Delete \/ UNCHANGED storeVars
          /\ \E out : Answer(r, out)
      BY Zenon, <1>5 DEF EndSession, StatementFails
    <2>2. Leaves(r)
      BY <2>1, AnswerEffect DEF Leaves, Plain, historyVars
    <2> QED BY <2>2 DEF RequestShape
  <1> QED BY <1>1, <1>2, <1>3, <1>4, <1>5

\* Every step has one of the shapes.
LEMMA StepShapes ==
    ASSUME TypeOK, HoldingInv, Next
    PROVE  \/ \E r \in Requests : RequestShape(r)
           \/ \E i \in Instances : Dies(i)
           \/ Outside \/ Sweep
  <1> GatewayTypeOK
    BY DEF TypeOK
  <1>1. ASSUME NEW r \in Requests, Step(r)
        PROVE  RequestShape(r)
    BY Zenon, <1>1, GatewayShapes, StoreShapes DEF Step
  <1>2. ASSUME GatewayEnvironment, UNCHANGED <<storeVars, historyVars>>
        PROVE  Outside \/ \E r \in Requests : RequestShape(r)
    <2>1. ASSUME NEW r \in Requests, IdpAccept(r) PROVE RequestShape(r)
      <3>1. Accepts(r)
        BY <1>2, <2>1, AcceptEffect DEF Accepts
      <3> QED BY <3>1 DEF RequestShape
    <2>2. ASSUME NEW r \in Requests, IdpRefuse(r) PROVE RequestShape(r)
      <3>1. /\ Goto(r, "refused") /\ req[r].pc = "sent"
            /\ UNCHANGED <<now, heap, flight, idp>>
        BY Zenon, <2>2 DEF IdpRefuse
      <3>2. Walks(r)
        BY <1>2, <3>1, GotoEffect DEF Walks, Plain
      <3> QED BY <3>2 DEF RequestShape
    <2>3. ASSUME NEW r \in Requests, Reuse(r) PROVE RequestShape(r)
      <3>1. Leaves(r)
        BY <1>2, <2>3, ReuseEffect, Zenon DEF Reuse, Leaves, historyVars
      <3> QED BY <3>1 DEF RequestShape
    <2> QED BY Zenon, <1>2, <2>1, <2>2, <2>3 DEF GatewayEnvironment, Outside
  <1>3. ASSUME NEW i \in Instances, Crash(i)
        PROVE  Dies(i)
    <2> DEFINE R == {r \in Requests : req[r].inst = i}
    <2>1. /\ \E r \in R : Holding(r)
          /\ req' = [r \in Requests |-> IF r \in R THEN NewRequest(i) ELSE req[r]]
          /\ idp' = Abandoned(R)
          /\ UNCHANGED <<now, heap, storeVars, historyVars>>
      BY Zenon, <1>3 DEF Crash
    <2>2. NewRequest(i).pc = "new" /\ NewRequest(i).obj = None
      BY DEF NewRequest
    <2>3. \A q \in Requests :
            IF req[q].inst = i THEN req'[q].pc = "new" /\ req'[q].obj = None
            ELSE req'[q] = req[q]
      BY <2>1, <2>2
    <2>4. \A q \in Requests :
            IF req[q].inst = i THEN req'[q].pc = "new" /\ req'[q].obj = None
            ELSE SameRequest(q)
      BY Zenon, <2>3 DEF SameRequest, Kept
    <2> QED BY Zenon, <2>1, <2>4 DEF Dies
  <1> QED BY Zenon, <1>1, <1>2, <1>3 DEF Next

----------------------------------------------------------------------------
(* Type correctness.                                                       *)

LEMMA TypeInit == Init => TypeOK
  <1> SUFFICES ASSUME Init PROVE TypeOK
    OBVIOUS
  <1>1. GatewayTypeOK
    BY GatewayTypeInit DEF Init
  <1>2. data \in SessionType /\ deleted_at = None
    BY <1>1 DEF Init, GatewayTypeOK, Objects
  <1>3. active \in Nat /\ now \in Nat
    BY DEF Init, GatewayInit
  <1> QED BY Zenon, <1>1, <1>2, <1>3, PostgresAssumption DEF Init, TypeOK

\* The types of the store.
RowOK ==
    /\ data \in SessionType \cup {None, Wiped}
    /\ deleted_at \in Nat \cup {None}
    /\ ended \in BOOLEAN /\ removed \in BOOLEAN
    /\ deleted_at # None <=> data = Wiped

LEMMA RowTypes ==
    ASSUME TypeOK
    PROVE  /\ RowOK
           /\ UNCHANGED storeVars => RowOK'
           /\ \A o \in Objects : Put(o) => RowOK'
           /\ Delete => RowOK'
           /\ remove => RowOK'
  <1>1. RowOK /\ now \in Nat /\ now # None
    BY GatewayAssumption DEF TypeOK, RowOK, GatewayTypeOK
  <1>2. ASSUME NEW o \in Objects, Put(o) PROVE RowOK'
    <2>1. heap[o] \in SessionType /\ heap[o] # Wiped
      BY PostgresAssumption DEF TypeOK, GatewayTypeOK
    <2>2. CASE deleted_at = None
      BY Zenon, <1>1, <1>2, <2>1, <2>2 DEF Put, RowOK
    <2>3. CASE deleted_at # None
      BY Zenon, <1>1, <1>2, <2>3 DEF Put, RowOK
    <2> QED BY <2>2, <2>3
  <1>3. ASSUME Delete PROVE RowOK'
    <2>1. CASE Row
      BY Zenon, <1>1, <1>3, <2>1 DEF Delete, RowOK
    <2>2. CASE ~Row
      BY Zenon, <1>1, <1>3, <2>2 DEF Delete, RowOK
    <2> QED BY <2>1, <2>2
  <1>4. ASSUME remove PROVE RowOK'
    BY Zenon, <1>1, <1>4, PostgresAssumption DEF remove, RowOK
  <1>5. ASSUME UNCHANGED storeVars PROVE RowOK'
    BY Zenon, <1>1, <1>5 DEF storeVars, RowOK
  <1> QED BY Zenon, <1>1, <1>2, <1>3, <1>4, <1>5

LEMMA TypeStep ==
    ASSUME TypeOK, HoldingInv, Next
    PROVE  TypeOK'
  <1> GatewayTypeOK
    BY DEF TypeOK
  <1>t. ASSUME GatewayTypeOK', RowOK', overlapped' \in BOOLEAN, active' \in Nat
        PROVE  TypeOK'
    BY Zenon, <1>t DEF TypeOK, RowOK
  <1>n. now \in Nat /\ active \in Nat /\ overlapped \in BOOLEAN
    BY DEF TypeOK, GatewayTypeOK
  <1>h. UNCHANGED historyVars => overlapped' \in BOOLEAN /\ active' \in Nat
    BY Zenon, <1>n DEF historyVars
  <1>1. ASSUME NEW r \in Requests, GatewayStep(r),
               active' = IF req[r].pc = "fresh" THEN now ELSE active,
               UNCHANGED <<storeVars, overlapped>>
        PROVE  TypeOK'
    <2>1. req[r].pc = "lead" => Holding(r)
      BY OwnCopy
    <2>2. GatewayTypeOK'
      BY Zenon, <1>1, <2>1, GatewayTypeStep
    <2>3. overlapped' \in BOOLEAN /\ active' \in Nat
      BY Zenon, <1>1, <1>n
    <2> QED BY Zenon, <1>1, <1>t, <2>2, <2>3, RowTypes
  <1>2. ASSUME NEW r \in Requests,
               Get(r) \/ GetExpired(r) \/ PutTokens(r) \/ PutTouch(r) \/ EndSession(r)
        PROVE  TypeOK'
    <2>s. ASSUME now' \in Nat, heap' \in [Objects -> SessionType],
                 req' \in [Requests -> RequestType],
                 flight' \in [Instances -> Requests \cup {None}], idp' \in IdpType,
                 RowOK', overlapped' \in BOOLEAN, active' \in Nat
          PROVE  TypeOK'
      BY Zenon, <1>t, <2>s DEF GatewayTypeOK
    <2>u. /\ UNCHANGED now => now' \in Nat
          /\ UNCHANGED heap => heap' \in [Objects -> SessionType]
          /\ UNCHANGED flight => flight' \in [Instances -> Requests \cup {None}]
          /\ UNCHANGED idp => idp' \in IdpType
      BY Zenon DEF GatewayTypeOK
    <2>o. {"passthrough", "401", "403", "forwarded", "loggedout"} \subseteq Outcome
      BY DEF Outcome
    <2>a. ASSUME NEW out \in {"passthrough", "401", "403", "forwarded", "loggedout"},
                 Answer(r, out)
          PROVE  req' \in [Requests -> RequestType]
      BY Zenon, <2>a, <2>o, AnswerType
    <2>n. ASSUME NoSession(r) PROVE req' \in [Requests -> RequestType]
      BY Zenon, <2>n, <2>a DEF NoSession
    <2>1. CASE Get(r)
      <3>1. UNCHANGED <<now, flight, idp, storeVars, active>>
        BY Zenon, <2>1 DEF Get, NoSession, Found
      <3>2. CASE NoSession(r) /\ UNCHANGED <<heap, overlapped>>
        BY Zenon, <1>n, <2>n, <2>s, <2>u, <3>1, <3>2, RowTypes
      <3>3. CASE /\ Live /\ Found(r, r) /\ heap' = [heap EXCEPT ![r] = data]
                 /\ overlapped' = (overlapped \/ \E q \in Requests : Holding(q))
        <4>1. data \in SessionType
          BY <3>3, RowTypes DEF RowOK, Live, Row
        <4>2. heap' \in [Objects -> SessionType]
          BY Zenon, <3>3, <4>1 DEF GatewayTypeOK
        <4>3. req' = [req EXCEPT ![r] = [req[r] EXCEPT
                        !.pc = "found", !.obj = r, !.start = now]]
          BY <3>3, RequestFields DEF Found
        <4>4. "found" \in PC /\ r \in Objects \cup {None}
          BY DEF PC, Objects
        <4>5. req' \in [Requests -> RequestType]
          BY Zenon, <1>n, <4>3, <4>4, RequestFields, RecordUpdates, OneUpdate
        <4>6. overlapped' \in BOOLEAN
          BY Zenon, <1>n, <3>3
        <4> QED BY Zenon, <1>n, <2>s, <2>u, <3>1, <4>2, <4>5, <4>6, RowTypes
      <3> QED BY Zenon, <2>1, <3>2, <3>3 DEF Get
    <2>2. CASE GetExpired(r)
      BY Zenon, <1>h, <2>n, <2>s, <2>u, <2>2, RowTypes
      DEF GetExpired, NoSession, StatementFails
    <2>3. CASE PutTokens(r)
      <3>1. "fresh" \in PC /\ {r} \in SUBSET Requests
        BY DEF PC
      <3>2. req[r].obj \in Objects
        BY <2>3, OwnCopy DEF PutTokens
      <3>3. idp' \in IdpType
        BY Zenon, <2>3, <2>u, <3>1, AbandonedType DEF PutTokens
      <3> QED BY Zenon, <1>h, <2>s, <2>u, <2>3, <3>1, <3>2, <3>3, LandType, RowTypes
          DEF PutTokens, StatementFails
    <2>4. CASE PutTouch(r)
      <3>1. req[r].obj \in Objects
        BY <2>4, OwnCopy DEF PutTouch
      <3> QED BY Zenon, <1>h, <2>a, <2>s, <2>u, <2>4, <3>1, RowTypes
          DEF PutTouch, StatementFails
    <2>5. CASE EndSession(r)
      BY Zenon, <1>h, <2>a, <2>s, <2>u, <2>5, RowTypes DEF EndSession, StatementFails
    <2> QED BY <1>2, <2>1, <2>2, <2>3, <2>4, <2>5
  <1>3. ASSUME GatewayEnvironment, UNCHANGED <<storeVars, historyVars>>
        PROVE  TypeOK'
    BY Zenon, <1>3, <1>h, <1>t, GatewayTypeEnvironment, RowTypes
  <1>4. ASSUME NEW i \in Instances, Crash(i)
        PROVE  TypeOK'
    <2> DEFINE R == {r \in Requests : req[r].inst = i}
    <2>1. /\ req' = [r \in Requests |-> IF r \in R THEN NewRequest(i) ELSE req[r]]
          /\ idp' = Abandoned(R) /\ flight' = [flight EXCEPT ![i] = None]
          /\ UNCHANGED <<now, heap, storeVars, historyVars>>
      BY Zenon, <1>4 DEF Crash
    <2>2. \A r \in Requests : req[r] \in RequestType /\ NewRequest(i) \in RequestType
      BY RequestFields, RequestTypes
    <2>3. req' \in [Requests -> RequestType]
      BY Zenon, <2>1, <2>2
    <2>4. idp' \in IdpType
      BY Zenon, <2>1, AbandonedType
    <2>5. GatewayTypeOK'
      BY Zenon, <2>1, <2>3, <2>4 DEF GatewayTypeOK
    <2> QED BY Zenon, <1>h, <1>t, <2>1, <2>5, RowTypes
  <1>5. ASSUME Sweep
        PROVE  TypeOK'
    <2>1. UNCHANGED <<now, heap, req, flight, idp, historyVars>>
      BY Zenon, <1>5 DEF Sweep, gatewayVars
    <2>2. GatewayTypeOK'
      BY Zenon, <2>1 DEF GatewayTypeOK
    <2>3. RowOK'
      BY Zenon, <1>5, RowTypes, PostgresAssumption DEF Sweep, RowOK
    <2> QED BY Zenon, <1>h, <1>t, <2>1, <2>2, <2>3
  <1> QED BY Zenon, <1>1, <1>2, <1>3, <1>4, <1>5 DEF Next, Step

\* What the arithmetic of the invariant needs to know of the types.
LEMMA Fields ==
    ASSUME TypeOK
    PROVE  /\ now \in Nat /\ active \in Nat
           /\ deleted_at # None => deleted_at \in Nat
           /\ idp.valid \in Nat /\ idp.lost \subseteq Nat /\ idp.late \subseteq Nat
           /\ \A r \in Requests :
                /\ req[r].start \in Nat /\ req[r].at \in Nat /\ req[r].token \in Nat
                /\ req[r].answer.refresh \in Nat
                /\ heap[r] \in SessionType
                /\ heap[r].refresh \in Nat /\ heap[r].lastSeen \in Nat
           /\ Live => /\ data \in SessionType
                      /\ data.refresh \in Nat /\ data.lastSeen \in Nat
  <1> GatewayTypeOK
    BY DEF TypeOK
  <1>1. now \in Nat /\ active \in Nat /\ (deleted_at # None => deleted_at \in Nat)
    BY DEF TypeOK, GatewayTypeOK
  <1>2. idp.valid \in Nat /\ idp.lost \subseteq Nat /\ idp.late \subseteq Nat
    BY DEF GatewayTypeOK, IdpType
  <1>3. ASSUME NEW r \in Requests
        PROVE  /\ req[r].start \in Nat /\ req[r].at \in Nat /\ req[r].token \in Nat
               /\ req[r].answer.refresh \in Nat
               /\ heap[r] \in SessionType
               /\ heap[r].refresh \in Nat /\ heap[r].lastSeen \in Nat
    <2>1. heap[r] \in SessionType
      BY DEF GatewayTypeOK, Objects
    <2> QED BY <2>1, RequestFields DEF TokenSet, SessionType
  <1>4. ASSUME Live
        PROVE  /\ data \in SessionType
               /\ data.refresh \in Nat /\ data.lastSeen \in Nat
    <2>1. data \in SessionType
      BY <1>4 DEF TypeOK, Live, Row
    <2> QED BY <2>1 DEF SessionType
  <1> QED BY Zenon, <1>1, <1>2, <1>3, <1>4

----------------------------------------------------------------------------
(* Each part of the invariant is preserved.                                *)

LEMMA HoldingStep ==
    ASSUME TypeOK, HoldingInv, Next
    PROVE  HoldingInv'
  <1>1. ASSUME NEW r \in Requests, RequestShape(r)
        PROVE  HoldingInv'
    <2>1. ASSUME NEW q \in Requests, Kept(q), now' = now,
                 req'[q].pc \in {"new", "done"} <=> req[q].pc \in {"new", "done"}
          PROVE  /\ req'[q].obj = IF req'[q].pc \in {"new", "done"} THEN None ELSE q
                 /\ Holding(q)' => /\ req'[q].start <= now'
                                   /\ now' <= req'[q].start + MaxInFlight
      BY <2>1 DEF HoldingInv, Holding, Kept
    <2>2. ASSUME Others(r), now' = now, NEW q \in Requests \ {r}
          PROVE  /\ req'[q].obj = IF req'[q].pc \in {"new", "done"} THEN None ELSE q
                 /\ Holding(q)' => /\ req'[q].start <= now'
                                   /\ now' <= req'[q].start + MaxInFlight
      <3>1. Kept(q) /\ req'[q].pc = req[q].pc
        BY <2>2 DEF Others, SameRequest
      <3> QED BY <2>1, <2>2, <3>1
    <2>3. CASE \/ Walks(r) \/ Uses(r) \/ Slides(r) \/ Sets(r) \/ Sends(r)
               \/ Accepts(r)
      <3>1. /\ Others(r) /\ Kept(r) /\ now' = now
            /\ req[r].pc \notin {"new", "done"} /\ req'[r].pc \notin {"new", "done"}
        BY <2>3 DEF Walks, Uses, Slides, Sets, Sends, Accepts, Plain
      <3> QED BY Zenon, <2>1, <2>2, <3>1 DEF HoldingInv
    <2>4. CASE Leaves(r)
      <3>1. /\ Others(r) /\ now' = now
            /\ req'[r].pc \in {"new", "done"} /\ req'[r].obj = None
        BY <2>4 DEF Leaves
      <3> QED BY <2>2, <3>1 DEF HoldingInv, Holding
    <2>5. CASE Finds(r)
      <3>1. /\ Others(r) /\ now' = now /\ req'[r].pc = "found"
            /\ req'[r].obj = r /\ req'[r].start = now
        BY <2>5 DEF Finds
      <3>2. now <= now /\ now <= now + MaxInFlight
        BY Fields, GatewayAssumption
      <3> QED BY <2>2, <3>1, <3>2 DEF HoldingInv
    <2>6. CASE Lands(r)
      <3>1. ASSUME NEW q \in Requests
            PROVE  /\ Kept(q) /\ now' = now
                   /\ req'[q].pc \in {"new", "done"} <=> req[q].pc \in {"new", "done"}
        BY <2>6 DEF Lands, Landed, SameRequest, Leading
      <3> QED BY <2>1, <3>1 DEF HoldingInv
    <2> QED BY <1>1, <2>3, <2>4, <2>5, <2>6 DEF RequestShape
  <1>2. ASSUME NEW i \in Instances, Dies(i)
        PROVE  HoldingInv'
    BY <1>2 DEF Dies, HoldingInv, Holding, SameRequest, Kept
  <1>3. CASE Sweep
    BY <1>3 DEF Sweep, HoldingInv, Holding, gatewayVars
  <1>4. CASE Outside
    <2>1. CASE Tick
      <3>1. req' = req /\ now' = now + 1
        BY <2>1 DEF Tick
      <3>2. ASSUME NEW r \in Requests, Holding(r)
            PROVE  req[r].start <= now + 1 /\ now + 1 <= req[r].start + MaxInFlight
        BY <2>1, <3>2, Fields, GatewayAssumption DEF Tick, HoldingInv
      <3> QED BY <3>1, <3>2 DEF HoldingInv, Holding
    <2>2. CASE IdpLate \/ IdpRevoke
      BY <2>2 DEF IdpLate, IdpRevoke, HoldingInv, Holding
    <2> QED BY <1>4, <2>1, <2>2 DEF Outside
  <1> QED BY <1>1, <1>2, <1>3, <1>4, StepShapes

\* After a request's step, who holds the session has held it since before, or
\* has just found it.
LEMMA StillHolding ==
    ASSUME HoldingInv, NEW r \in Requests, RequestShape(r),
           NEW q \in Requests, Holding(q)'
    PROVE  \/ Holding(q) /\ req'[q].start = req[q].start
           \/ Finds(r) /\ q = r
  <1>1. \/ Finds(r) /\ q = r
        \/ Leaves(r) /\ q = r
        \/ Kept(q)
    BY Zenon DEF RequestShape, Walks, Uses, Slides, Sets, Leaves, Finds, Sends,
       Accepts, Lands, Others, SameRequest
  <1>2. ~(Leaves(r) /\ q = r)
    BY DEF Leaves, Holding
  <1> QED BY <1>1, <1>2 DEF Kept, Holding

\* A Put is made by a holder, whom the tombstone outlives.
LEMMA RowStep ==
    ASSUME TypeOK, HoldingInv, RowInv, Next
    PROVE  RowInv'
  <1>1. ASSUME NEW r \in Requests, RequestShape(r)
        PROVE  RowInv'
    <2>1. now' = now
      BY Zenon, <1>1 DEF RequestShape, Walks, Uses, Slides, Sets, Leaves, Finds,
         Sends, Accepts, Lands
    <2>2. CASE UNCHANGED storeVars
      <3>1. deleted_at' = deleted_at /\ data' = data /\ ended' = ended
            /\ removed' = removed
        BY <2>2 DEF storeVars
      <3>2. ASSUME ended, ~removed PROVE ~Finds(r)
        BY <3>2 DEF Finds, RowInv, Live, Row, TypeOK
      <3>3. ASSUME ended', ~removed', NEW q \in Requests, Holding(q)'
            PROVE  deleted_at' # None /\ req'[q].start <= deleted_at'
        BY <1>1, <3>1, <3>2, <3>3, StillHolding DEF RowInv
      <3> QED BY <2>1, <3>1, <3>3 DEF RowInv
    <2>3. CASE ~UNCHANGED storeVars
      <3>1. /\ req[r].pc \notin {"new", "done"}
            /\ Put(r) \/ Delete \/ remove
            /\ ~Finds(r)
        BY Zenon, <1>1, <2>3 DEF RequestShape, Walks, Uses, Slides, Sets, Leaves,
           Finds, Sends, Accepts, Lands
      <3>2. Holding(r) /\ now \in Nat /\ now # None
        BY <3>1, OwnCopy, Fields, GatewayAssumption
      <3>3. CASE Put(r)
        <4>1. heap[r] \in SessionType
          BY Fields
        <4>2. ASSUME ended, ~removed PROVE data' = data
          BY <3>2, <3>3, <4>2 DEF Put, RowInv
        <4>3. UNCHANGED <<deleted_at, ended, removed>>
          BY <3>3 DEF Put
        <4>4. ~ended /\ ~removed => data' \in SessionType
          BY <3>3, <4>1 DEF Put, RowInv
        <4>5. ASSUME ended, ~removed, NEW q \in Requests, Holding(q)'
              PROVE  deleted_at # None /\ req'[q].start <= deleted_at
          BY <1>1, <3>1, <4>5, StillHolding DEF RowInv
        <4> QED BY <2>1, <4>2, <4>3, <4>4, <4>5 DEF RowInv
      <3>4. CASE Delete
        <4>1. ended' /\ removed' = removed
          BY <3>4 DEF Delete
        <4>2. CASE Row
          <5>1. data' = Wiped /\ deleted_at' = now
            BY <3>4, <4>2 DEF Delete
          <5>2. ASSUME NEW q \in Requests, Holding(q)'
                PROVE  req'[q].start <= now
            BY <1>1, <3>1, <5>2, StillHolding DEF HoldingInv
          <5> QED BY <2>1, <3>2, <4>1, <5>1, <5>2, PostgresAssumption DEF RowInv
        <4>3. CASE ~Row
          <5>1. removed
            BY <3>2, <4>3, PostgresAssumption DEF Row, RowInv, TypeOK
          <5>2. data' = data /\ deleted_at' = deleted_at
            BY <3>4, <4>3 DEF Delete
          <5> QED BY <2>1, <4>1, <5>1, <5>2 DEF RowInv
        <4> QED BY <4>2, <4>3
      <3>5. CASE remove
        BY <3>5 DEF remove, RowInv
      <3> QED BY <3>1, <3>3, <3>4, <3>5
    <2> QED BY <2>2, <2>3
  <1>2. ASSUME NEW i \in Instances, Dies(i)
        PROVE  RowInv'
    <2>1. now' = now /\ UNCHANGED storeVars
      BY <1>2 DEF Dies
    <2>2. \A q \in Requests : Holding(q)' => Holding(q) /\ req'[q].start = req[q].start
      BY <1>2 DEF Dies, Holding, SameRequest, Kept
    <2> QED BY <2>1, <2>2 DEF RowInv, storeVars
  <1>3. CASE Sweep
    <2>1. now' = now /\ req' = req
      BY <1>3 DEF Sweep, gatewayVars
    <2>2. CASE remove
      BY <2>2 DEF remove, RowInv
    <2>3. CASE ~remove
      <3>1. /\ deleted_at # None /\ deleted_at < now - TombstoneTTL
            /\ data' = None /\ deleted_at' = None
            /\ UNCHANGED <<ended, removed>>
        BY Zenon, <1>3, <2>3 DEF Sweep
      <3>2. ended
        BY <3>1 DEF RowInv
      <3>3. ASSUME ~removed, NEW q \in Requests, Holding(q)
            PROVE  FALSE
        <4>1. req[q].start <= deleted_at /\ now <= req[q].start + MaxInFlight
          BY <3>2, <3>3 DEF RowInv, HoldingInv
        <4> QED BY <3>1, <4>1, Fields, PostgresAssumption, GatewayAssumption
      <3> QED BY <2>1, <3>1, <3>2, <3>3 DEF RowInv, Holding
    <2> QED BY <2>2, <2>3
  <1>4. CASE Outside
    <2>1. UNCHANGED storeVars /\ req' = req /\ (now' = now \/ now' = now + 1)
      BY <1>4 DEF Outside, IdpLate, IdpRevoke, Tick
    <2>2. deleted_at # None => deleted_at <= now'
      BY <2>1, Fields DEF RowInv
    <2> QED BY <2>1, <2>2 DEF RowInv, Holding, storeVars
  <1> QED BY <1>1, <1>2, <1>3, <1>4, StepShapes

\* What a request's step leaves of the row: what was there, the request's own
\* copy, or nothing that Get would find.
LEMMA LiveAfter ==
    ASSUME TypeOK, NEW r \in Requests, RequestShape(r), Live'
    PROVE  \/ Live /\ data' = data
           \/ /\ data' = heap[r] /\ req[r].pc \in {"touched", "put"}
              /\ Leaves(r) \/ Lands(r)
  <1>1. \/ UNCHANGED storeVars
        \/ /\ req[r].pc \in {"touched", "put"} /\ Put(r)
           /\ Leaves(r) \/ Lands(r)
        \/ Delete \/ remove
    BY Zenon DEF RequestShape, Walks, Uses, Slides, Sets, Leaves, Finds, Sends,
       Accepts, Lands
  <1>2. CASE UNCHANGED storeVars
    BY <1>2 DEF storeVars, Live, Row
  <1>3. CASE /\ req[r].pc \in {"touched", "put"} /\ Put(r)
             /\ Leaves(r) \/ Lands(r)
    BY <1>3 DEF Put, Live, Row
  <1>4. CASE Delete
    BY <1>4, Fields, GatewayAssumption DEF Delete, Live, Row
  <1>5. CASE remove
    BY <1>5 DEF remove, Live, Row
  <1> QED BY <1>1, <1>2, <1>3, <1>4, <1>5

\* Other requests keep their copies and, unless they are told the result of a
\* flight, their records.
LEMMA OthersAfter ==
    ASSUME NEW r \in Requests, RequestShape(r), NEW q \in Requests, q # r
    PROVE  /\ heap'[q] = heap[q] /\ req'[q].obj = req[q].obj
           /\ \/ SameRequest(q)
              \/ /\ Lands(r) /\ Landed(r, q) /\ req[q].pc = "wait"
                 /\ req'[q].pc \in {"fresh", "rejected", "unavailable"}
  <1>1. OtherCopies(r) \/ heap' = heap
    BY Zenon DEF RequestShape, Walks, Uses, Slides, Sets, Leaves, Finds, Sends,
       Accepts, Lands
  <1>2. Others(r) \/ Lands(r)
    BY Zenon DEF RequestShape, Walks, Uses, Slides, Sets, Leaves, Finds, Sends,
       Accepts
  <1>3. CASE Others(r)
    BY Zenon, <1>1, <1>3 DEF Others, SameRequest, Kept, OtherCopies
  <1>4. CASE Lands(r)
    BY <1>1, <1>4 DEF Lands, Landed, SameRequest, Kept, OtherCopies
  <1> QED BY <1>2, <1>3, <1>4

LEMMA SeenStep ==
    ASSUME TypeOK, HoldingInv, HoldingInv', SeenInv, Next
    PROVE  SeenInv'
  <1>n. now \in Nat /\ active \in Nat /\ active <= now
    BY Zenon, Fields DEF SeenInv
  <1>1. ASSUME NEW r \in Requests, RequestShape(r)
        PROVE  SeenInv'
    <2>1. now' = now /\ active' \in {active, now}
      BY Zenon, <1>1 DEF RequestShape, Walks, Uses, Slides, Sets, Leaves, Finds,
         Sends, Accepts, Lands, historyVars
    <2>2. active <= active' /\ active' <= now' /\ active' \in Nat
      BY <1>n, <2>1
    <2>m. \A t \in Nat : t <= active => t <= active'
      BY <1>n, <2>2
    <2>3. Live' => data'.lastSeen <= active'
      <3> SUFFICES ASSUME Live' PROVE data'.lastSeen <= active'
        OBVIOUS
      <3>1. CASE Live /\ data' = data
        BY <2>m, <3>1, Fields DEF SeenInv
      <3>2. CASE data' = heap[r] /\ req[r].pc \in {"touched", "put"}
        <4>1. Holding(r)
          BY <3>2, OwnCopy
        <4> QED BY <2>m, <3>2, <4>1, Fields DEF SeenInv
      <3> QED BY <1>1, <3>1, <3>2, LiveAfter
    <2>4. ASSUME NEW q \in Requests, q # r
          PROVE  /\ Holding(q)' => heap'[q].lastSeen <= active'
                 /\ req'[q].pc = "touch" => req'[q].at <= active'
      <3>1. /\ heap'[q] = heap[q] /\ req'[q].obj = req[q].obj
            /\ req'[q].pc = "touch" => req[q].pc = "touch" /\ req'[q].at = req[q].at
        BY <1>1, <2>4, OthersAfter DEF SameRequest
      <3>2. /\ Holding(q) => heap[q].lastSeen <= active'
            /\ req[q].pc = "touch" => req[q].at <= active'
        BY <2>m, Fields DEF SeenInv
      <3> QED BY <3>1, <3>2 DEF Holding
    <2>5. /\ Holding(r)' => heap'[r].lastSeen <= active'
          /\ req'[r].pc = "touch" => req'[r].at <= active'
      <3>1. Holding(r) => heap[r].lastSeen <= active'
        BY <2>m, Fields DEF SeenInv
      <3>2. CASE Walks(r) \/ Sends(r) \/ Accepts(r) \/ Lands(r) \/ Sets(r)
        <4>1. /\ heap'[r].lastSeen = heap[r].lastSeen /\ Kept(r)
              /\ req'[r].pc # "touch"
          BY Zenon, <3>2 DEF Walks, Sends, Accepts, Lands, Landed, Sets, Plain
        <4> QED BY Zenon, <3>1, <4>1 DEF Kept, Holding
      <3>3. CASE Uses(r)
        <4>1. heap' = heap /\ Kept(r) /\ req'[r].at = now /\ active' = now
          BY <3>3 DEF Uses
        <4> QED BY SMTT(30), <1>n, <3>1, <4>1 DEF Kept, Holding
      <3>4. CASE Slides(r)
        <4>1. /\ heap'[r].lastSeen = req[r].at /\ req'[r].pc = "touched"
              /\ req[r].pc = "touch"
          BY SMTT(30), <3>4 DEF Slides
        <4>2. req[r].at <= active'
          BY SMTT(30), <2>m, <4>1, Fields DEF SeenInv
        <4> QED BY SMTT(30), <4>1, <4>2
      <3>5. CASE Leaves(r)
        BY SMTT(30), <3>5 DEF Leaves, Holding
      <3>6. CASE Finds(r)
        <4>1. /\ Live /\ heap'[r] = data /\ req'[r].pc = "found"
          BY Zenon, <3>6 DEF Finds
        <4>2. data.lastSeen <= active'
          BY <2>m, <4>1, Fields DEF SeenInv
        <4> QED BY SMTT(30), <4>1, <4>2
      <3> QED BY <1>1, <3>2, <3>3, <3>4, <3>5, <3>6 DEF RequestShape
    <2> QED BY <2>2, <2>3, <2>4, <2>5 DEF SeenInv
  <1>2. ASSUME NEW i \in Instances, Dies(i)
        PROVE  SeenInv'
    <2>1. UNCHANGED <<now, heap, active, data, deleted_at>>
      BY <1>2 DEF Dies, storeVars, historyVars
    <2>2. \A q \in Requests :
            /\ Holding(q)' => Holding(q)
            /\ req'[q].pc = "touch" => req[q].pc = "touch" /\ req'[q].at = req[q].at
      BY <1>2 DEF Dies, Holding, SameRequest, Kept
    <2> QED BY Zenon, <2>1, <2>2 DEF SeenInv, Live, Row
  <1>3. CASE Sweep
    <2>1. UNCHANGED <<now, heap, req, active>> /\ ~Live'
      BY <1>3 DEF Sweep, remove, gatewayVars, historyVars, Live, Row
    <2> QED BY <2>1 DEF SeenInv, Holding
  <1>4. CASE Outside
    <2>1. /\ UNCHANGED <<heap, req, active, data, deleted_at>>
          /\ now' = now \/ now' = now + 1
      BY <1>4 DEF Outside, IdpLate, IdpRevoke, Tick, storeVars, historyVars
    <2>2. active <= now'
      BY SMTT(30), <1>n, <2>1
    <2> QED BY <2>1, <2>2 DEF SeenInv, Live, Row, Holding
  <1> QED BY <1>1, <1>2, <1>3, <1>4, StepShapes

\* SequentialInv when at most r holds the session.
Alone(r) ==
    /\ \A t \in idp.lost : t < idp.valid
    /\ \A t \in idp.late : t <= idp.valid
    /\ Live => Current(data.refresh) \/ (InTheAir(r) /\ data.refresh = req[r].token)
    /\ Holding(r) /\ ~(InTheAir(r) /\ req[r].pc = "answered")
         => Current(heap[r].refresh)
    /\ req[r].pc \in {"sent", "answered"} => req[r].token = heap[r].refresh
    /\ InTheAir(r) => /\ req[r].answer.refresh = idp.valid
                      /\ req[r].token < idp.valid
                      /\ \A t \in idp.late : t < idp.valid

LEMMA AloneIsSequential ==
    ASSUME HoldingInv, NEW r \in Requests, \A q \in Requests \ {r} : ~Holding(q)
    PROVE  /\ SequentialInv /\ ~overlapped => Alone(r)
           /\ Alone(r) => SequentialInv
  <1>1. \A q \in Requests \ {r} :
          ~InTheAir(q) /\ req[q].pc \notin {"sent", "answered"}
    BY OwnCopy DEF InTheAir
  <1> QED BY <1>1 DEF SequentialInv, Alone

LEMMA SequentialAlone ==
    ASSUME TypeOK, TypeOK', HoldingInv, NEW r \in Requests, RequestShape(r),
           Alone(r), ~overlapped'
    PROVE  Alone(r)'
  <1>f. /\ idp.valid \in Nat /\ idp.lost \subseteq Nat /\ idp.late \subseteq Nat
        /\ req[r].token \in Nat /\ req[r].answer.refresh \in Nat
        /\ heap[r].refresh \in Nat
    BY Zenon, Fields
  <1>a. ASSUME Holding(r), Current(heap[r].refresh)
        PROVE  heap[r].refresh <= idp.valid
    BY <1>a, <1>f DEF Alone, Current
  <1>s. UNCHANGED storeVars => (Live' <=> Live) /\ data' = data
    BY DEF storeVars, Live, Row
  <1>i. UNCHANGED idp => \A t : Current(t)' <=> Current(t)
    BY Zenon DEF Current
  <1>1. CASE Walks(r) \/ Uses(r) \/ Slides(r)
    <2>1. /\ req[r].pc \notin {"new", "done", "answered", "put"}
          /\ req'[r].pc \notin {"sent", "answered", "put"}
          /\ heap'[r].refresh = heap[r].refresh
          /\ UNCHANGED <<idp, storeVars>>
      BY <1>1 DEF Walks, Uses, Slides, Plain
    <2>2. ~InTheAir(r) /\ ~InTheAir(r)' /\ Holding(r)
      BY Zenon, <2>1, OwnCopy DEF InTheAir
    <2> QED BY Zenon, <1>s, <1>i, <2>1, <2>2 DEF Alone
  <1>2. CASE Sends(r)
    <2>1. /\ req[r].pc = "lead" /\ req'[r].pc = "sent"
          /\ req'[r].token = heap[r].refresh
          /\ UNCHANGED <<heap, idp, storeVars>>
      BY Zenon, <1>2 DEF Sends
    <2>2. ~InTheAir(r) /\ ~InTheAir(r)' /\ Holding(r)
      BY <2>1, OwnCopy DEF InTheAir
    <2> QED BY Zenon, <1>s, <1>i, <2>1, <2>2 DEF Alone
  <1>3. CASE Sets(r)
    <2>1. /\ req[r].pc = "answered" /\ req'[r].pc = "put"
          /\ req'[r].token = req[r].token /\ req'[r].answer = req[r].answer
          /\ heap'[r].refresh = IF InTheAir(r) THEN req[r].answer.refresh
                                ELSE heap[r].refresh
          /\ UNCHANGED <<idp, storeVars>>
      BY Zenon, <1>3 DEF Sets
    <2>2. (InTheAir(r)' <=> InTheAir(r)) /\ Holding(r)
      BY Zenon, <2>1, OwnCopy DEF InTheAir
    <2>3. Current(heap'[r].refresh)
      BY Zenon, <2>1, <2>2 DEF Alone, Current
    <2> QED BY Zenon, <1>s, <1>i, <2>1, <2>2, <2>3 DEF Alone
  <1>4. CASE Leaves(r)
    <2>1. /\ req[r].pc \notin {"answered", "put"} /\ req'[r].pc \in {"new", "done"}
          /\ req'[r].obj = None /\ UNCHANGED <<heap, idp>>
      BY Zenon, <1>4 DEF Leaves, Plain
    <2>2. ~InTheAir(r) /\ ~InTheAir(r)' /\ ~Holding(r)'
      BY Zenon, <2>1 DEF InTheAir, Holding
    <2>3. Live' => Current(data'.refresh)
      <3> SUFFICES ASSUME Live' PROVE Current(data'.refresh)
        BY Zenon
      <3>1. CASE Live /\ data' = data
        BY Zenon, <2>2, <3>1 DEF Alone
      <3>2. CASE data' = heap[r] /\ req[r].pc \in {"touched", "put"}
        BY <2>2, <3>2, OwnCopy DEF Alone
      <3> QED BY <3>1, <3>2, LiveAfter
    <2> QED BY Zenon, <1>i, <2>1, <2>2, <2>3 DEF Alone
  <1>5. CASE Finds(r)
    <2>1. /\ Live /\ heap'[r] = data /\ req[r].pc = "new" /\ req'[r].pc = "found"
          /\ UNCHANGED <<idp, storeVars>>
      BY <1>5 DEF Finds
    <2>2. ~InTheAir(r) /\ ~InTheAir(r)'
      BY <2>1 DEF InTheAir
    <2> QED BY Zenon, <1>s, <1>i, <2>1, <2>2 DEF Alone
  <1>6. CASE Accepts(r)
    <2>1. /\ req[r].pc = "sent" /\ req[r].token = idp.valid
          /\ req'[r].pc = "answered" /\ req'[r].token = req[r].token
          /\ idp'.lost = idp.lost /\ idp'.late = idp.late
          /\ UNCHANGED <<heap, storeVars>>
      BY <1>6 DEF Accepts
    <2>2. ~InTheAir(r) /\ Holding(r)
      BY <2>1, OwnCopy DEF InTheAir
    <2>3. heap[r].refresh = idp.valid
      BY Zenon, <2>1 DEF Alone
    <2>4. CASE req'[r].answer.refresh = NoToken /\ idp'.valid = idp.valid
      <3>1. ~InTheAir(r)' /\ \A t : Current(t)' <=> Current(t)
        BY Zenon, <2>1, <2>4 DEF InTheAir, Current
      <3> QED BY <1>s, <2>1, <2>2, <2>3, <2>4, <3>1 DEF Alone
    <2>5. CASE idp'.valid = idp.valid + 1 /\ req'[r].answer.refresh = idp.valid + 1
      <3>1. InTheAir(r)'
        BY <1>f, <2>1, <2>5 DEF InTheAir, NoToken
      <3>2. Live => Current(data.refresh)' \/ data.refresh = req'[r].token
        BY Zenon, <1>s, <2>1, <2>2 DEF Alone, Current
      <3>3. /\ \A t \in idp'.lost : t < idp'.valid
            /\ \A t \in idp'.late : t < idp'.valid /\ t <= idp'.valid
            /\ req'[r].token < idp'.valid
        <4>1. /\ \A t \in idp.lost : t < idp.valid
              /\ \A t \in idp.late : t <= idp.valid
          BY Zenon DEF Alone
        <4>2. \A t \in Nat : (t <= idp.valid => t < idp.valid + 1)
                              /\ (t < idp.valid => t < idp.valid + 1 /\ t <= idp.valid + 1)
                              /\ (t < idp.valid + 1 => t <= idp.valid + 1)
          BY <1>f
        <4>3. \A t \in idp.lost \cup idp.late : t \in Nat
          BY Zenon, <1>f
        <4>4. idp.valid < idp.valid + 1
          BY <1>f
        <4> QED BY Zenon, <2>1, <2>5, <4>1, <4>2, <4>3, <4>4
      <3> QED BY Zenon, <1>s, <2>1, <2>3, <2>5, <3>1, <3>2, <3>3 DEF Alone
    <2> QED BY <1>6, <2>4, <2>5 DEF Accepts
  <1>7. CASE Lands(r)
    <2>1. /\ req[r].pc \in Leading /\ UNCHANGED heap
          /\ req'[r].pc \in {"fresh", "rejected", "unavailable"}
      BY Zenon, <1>7 DEF Lands, Landed
    <2>2. ~InTheAir(r)' /\ Holding(r)
      BY <2>1, OwnCopy DEF InTheAir, Leading
    <2>3. CASE UNCHANGED idp /\ ~(idp' = Abandoned({r}) /\ UNCHANGED storeVars)
      <3>1. Current(heap[r].refresh)
        BY Zenon, <1>7, <2>2, <2>3 DEF Lands, Alone, InTheAir
      <3>2. Live' => Current(data'.refresh)
        <4> SUFFICES ASSUME Live' PROVE Current(data'.refresh)
          BY SMTT(30)
        <4>1. CASE req[r].pc \in {"lead", "refused"} /\ UNCHANGED storeVars
          BY <1>s, <4>1 DEF Alone, InTheAir
        <4>2. CASE req[r].pc = "put" /\ Put(r)
          <5>1. data' = heap[r]
            BY Zenon, <4>2 DEF Put, Live, Row
          <5> QED BY <3>1, <5>1
        <4> QED BY Zenon, <1>7, <2>3, <4>1, <4>2 DEF Lands
      <3> QED BY Zenon, <1>i, <2>1, <2>2, <2>3, <3>1, <3>2 DEF Alone
    <2>4. CASE idp' = Abandoned({r}) /\ UNCHANGED storeVars
      <3> GatewayTypeOK
        BY Zenon DEF TypeOK
      <3>1. /\ idp'.valid = idp.valid
            /\ \A t : t \in idp'.lost <=>
                 t \in idp.lost \/ (InTheAir(r) /\ t = req[r].token)
            /\ \A t : t \in idp'.late <=>
                 t \in idp.late \/ (req[r].pc = "sent" /\ t = req[r].token)
        BY SMTT(30), <2>4, AbandonedEffect
      <3>2. \A t \in idp'.lost : t < idp'.valid
        BY Zenon, <3>1 DEF Alone
      <3>3. \A t \in idp'.late : t <= idp'.valid
        <4>1. req[r].pc = "sent" => req[r].token <= idp.valid
          BY Zenon, <1>a, <2>2 DEF Alone, InTheAir
        <4> QED BY Zenon, <3>1, <4>1 DEF Alone
      <3>4. \A t : Current(t) \/ (InTheAir(r) /\ t = req[r].token) => Current(t)'
        BY <3>1 DEF Current
      <3>5. Current(heap[r].refresh)'
        BY Zenon, <2>1, <2>2, <3>4 DEF Alone
      <3>6. Live' => Current(data.refresh)'
        BY <1>s, <2>4, <3>4 DEF Alone
      <3>7. heap' = heap /\ data' = data
        BY <1>s, <2>1, <2>4
      <3> QED BY Zenon, <2>1, <2>2, <3>2, <3>3, <3>5, <3>6, <3>7 DEF Alone, Current
    <2> QED BY Zenon, <1>7, <2>3, <2>4 DEF Lands
  <1> QED BY <1>1, <1>2, <1>3, <1>4, <1>5, <1>6, <1>7 DEF RequestShape

LEMMA SequentialStep ==
    ASSUME TypeOK, TypeOK', HoldingInv, HoldingInv', SequentialInv, Next
    PROVE  SequentialInv'
  <1>1. ASSUME NEW r \in Requests, RequestShape(r), ~overlapped'
        PROVE  SequentialInv'
    <2>1. ~overlapped /\ (Finds(r) => \A q \in Requests : ~Holding(q))
      <3>1. overlapped' = overlapped \/ Finds(r)
        BY Zenon, <1>1 DEF RequestShape, Walks, Uses, Slides, Sets, Leaves, Sends,
           Accepts, Lands, historyVars
      <3>2. Finds(r) => overlapped' = (overlapped \/ \E q \in Requests : Holding(q))
        BY Zenon DEF Finds
      <3>3. overlapped \in BOOLEAN /\ overlapped' \in BOOLEAN
        BY Zenon DEF TypeOK
      <3> QED BY Zenon, <1>1, <3>1, <3>2, <3>3
    <2>2. CASE \A q \in Requests \ {r} : ~Holding(q)
      <3>1. \A q \in Requests \ {r} : ~Holding(q)'
        BY <1>1, <2>2, OthersAfter DEF Holding
      <3>2. Alone(r)
        BY <2>1, <2>2, AloneIsSequential
      <3>3. Alone(r)'
        BY <1>1, <3>2, SequentialAlone
      <3>4. \A q \in Requests \ {r} :
              ~InTheAir(q)' /\ req'[q].pc \notin {"sent", "answered"}
        <4>1. \A q \in Requests : Holding(q)' \/ req'[q].pc \in {"new", "done"}
          BY SMTT(30), GatewayAssumption DEF HoldingInv, Holding
        <4> QED BY <3>1, <4>1 DEF InTheAir
      <3> QED BY Zenon, <3>1, <3>3, <3>4 DEF SequentialInv, Alone
    <2>3. ASSUME NEW p \in Requests, p # r, Holding(p)
          PROVE  SequentialInv'
      <3>1. ~Holding(r)
        BY Zenon, <2>1, <2>3 DEF SequentialInv
      <3>2. req[r].pc \in {"new", "done"}
        BY Zenon, <3>1, OwnCopy
      <3>3. Leaves(r)
        BY Zenon, <1>1, <2>1, <2>3, <3>2 DEF RequestShape, Walks, Uses, Slides, Sets,
           Finds, Sends, Accepts, Lands, Leading, Plain
      <3>4. /\ UNCHANGED <<heap, idp, data, deleted_at>>
            /\ req'[r].pc \in {"new", "done"} /\ req'[r].obj = None
            /\ \A q \in Requests \ {r} : SameRequest(q)
        BY Zenon, <3>2, <3>3 DEF Leaves, Others, storeVars
      <3>5. \A q \in Requests :
              /\ Holding(q)' <=> Holding(q)
              /\ InTheAir(q)' <=> InTheAir(q)
              /\ req'[q].pc \in {"sent", "answered"} <=>
                   req[q].pc \in {"sent", "answered"}
              /\ req'[q].pc = "answered" <=> req[q].pc = "answered"
              /\ Holding(q) => req'[q].token = req[q].token
                               /\ req'[q].answer = req[q].answer
        BY Zenon, <3>1, <3>2, <3>4 DEF SameRequest, Kept, Holding, InTheAir
      <3>6. \A q \in Requests :
              InTheAir(q) \/ req[q].pc \in {"sent", "answered"} => Holding(q)
        BY OwnCopy DEF InTheAir
      <3>7. (Live' <=> Live) /\ \A t : Current(t)' <=> Current(t)
        BY Zenon, <3>4 DEF Live, Row, Current
      <3> QED BY Zenon, <2>1, <3>4, <3>5, <3>6, <3>7 DEF SequentialInv
    <2> QED BY <2>2, <2>3
  <1>2. ASSUME NEW i \in Instances, Dies(i), ~overlapped'
        PROVE  SequentialInv'
    <2> DEFINE R == {r \in Requests : req[r].inst = i}
    <2> GatewayTypeOK
      BY Zenon DEF TypeOK
    <2>1. /\ UNCHANGED <<heap, data, deleted_at, overlapped>>
          /\ idp' = Abandoned(R)
      BY Zenon, <1>2 DEF Dies, storeVars, historyVars
    <2>2. \A q \in Requests : Holding(q) => q \in R
      BY Zenon, <1>2, <2>1 DEF Dies, SequentialInv
    <2>3. \A q \in Requests : ~Holding(q)'
      BY <1>2, <2>2 DEF Dies, SameRequest, Kept, Holding
    <2>4. \A q \in Requests : ~InTheAir(q)' /\ req'[q].pc \notin {"sent", "answered"}
      <3>1. \A q \in Requests : req'[q].pc \in {"new", "done"}
        BY <2>3, GatewayAssumption DEF HoldingInv, Holding
      <3> QED BY <3>1 DEF InTheAir
    <2>5. \A q \in Requests :
            /\ InTheAir(q) => q \in R /\ req[q].token < idp.valid
            /\ req[q].pc = "sent" => req[q].token <= idp.valid
      <3>1. ASSUME NEW q \in Requests, InTheAir(q)
            PROVE  q \in R /\ req[q].token < idp.valid
        <4>1. Holding(q)
          BY Zenon, <3>1, OwnCopy DEF InTheAir
        <4> QED BY <1>2, <2>1, <2>2, <3>1, <4>1 DEF SequentialInv
      <3>2. ASSUME NEW q \in Requests, req[q].pc = "sent"
            PROVE  req[q].token <= idp.valid
        <4>1. Holding(q) /\ ~InTheAir(q)
          BY Zenon, <3>2, OwnCopy DEF InTheAir
        <4>2. Current(req[q].token)
          BY <1>2, <2>1, <3>2, <4>1 DEF SequentialInv
        <4> QED BY <1>2, <2>1, <4>2, Fields DEF SequentialInv, Current
      <3> QED BY <3>1, <3>2
    <2>6. /\ idp'.valid = idp.valid
          /\ \A t : t \in idp'.lost <=>
               t \in idp.lost \/ \E q \in R : InTheAir(q) /\ t = req[q].token
          /\ \A t : t \in idp'.late <=>
               t \in idp.late \/ \E q \in R : req[q].pc = "sent" /\ t = req[q].token
      BY <2>1, AbandonedEffect
    <2>7. \A t \in idp'.lost : t < idp'.valid
      <3>1. \A t \in idp.lost : t < idp.valid
        BY <1>2, <2>1 DEF SequentialInv
      <3> QED BY <2>5, <2>6, <3>1
    <2>8. \A t \in idp'.late : t <= idp'.valid
      <3>1. \A t \in idp.late : t <= idp.valid
        BY <1>2, <2>1 DEF SequentialInv
      <3> QED BY <2>5, <2>6, <3>1
    <2>9. Live' => Current(data.refresh)'
      <3>1. Live => \/ Current(data.refresh)
                    \/ \E q \in Requests : InTheAir(q) /\ data.refresh = req[q].token
        BY <1>2, <2>1 DEF SequentialInv
      <3>2. ASSUME NEW t,
                   Current(t) \/ \E q \in Requests : InTheAir(q) /\ t = req[q].token
            PROVE  t = idp'.valid \/ t \in idp'.lost
        BY <2>5, <2>6, <3>2 DEF Current
      <3>3. Live' => Live /\ data' = data
        BY <2>1 DEF Live, Row
      <3> SUFFICES ASSUME Live'
                   PROVE  data'.refresh = idp'.valid \/ data'.refresh \in idp'.lost
        BY Zenon DEF Current
      <3> QED BY Zenon, <3>1, <3>2, <3>3
    <2> QED BY Zenon, <2>3, <2>4, <2>7, <2>8, <2>9 DEF SequentialInv
  <1>3. CASE Sweep
    <2>1. UNCHANGED <<heap, req, idp, overlapped>> /\ ~Live'
      BY <1>3 DEF Sweep, remove, gatewayVars, historyVars, Live, Row
    <2> QED BY Zenon, <2>1 DEF SequentialInv, Holding, InTheAir, Current
  <1>4. ASSUME Outside, ~overlapped'
        PROVE  SequentialInv'
    <2> GatewayTypeOK
      BY DEF TypeOK
    <2>1. UNCHANGED <<heap, req, data, deleted_at, overlapped>>
      BY Zenon, <1>4 DEF Outside, IdpLate, IdpRevoke, Tick, storeVars, historyVars
    <2>2. CASE IdpLate
      <3>1. /\ idp.valid \in idp.late /\ idp'.valid = idp.valid + 1
            /\ idp'.lost = idp.lost \cup {idp.valid}
            /\ idp'.late = idp.late \ {idp.valid}
        BY Zenon, <2>2, LateEffect DEF IdpLate
      <3>2. idp.valid \in Nat /\ ~(idp.valid < idp.valid)
            /\ idp.lost \subseteq Nat /\ idp.late \subseteq Nat
        <4>1. idp.valid \in Nat /\ idp.lost \subseteq Nat /\ idp.late \subseteq Nat
          BY Zenon, Fields
        <4> QED BY <4>1
      <3>3. /\ \A t \in idp.lost : t < idp.valid
            /\ \A t \in idp.late : t <= idp.valid
            /\ \A r \in Requests : InTheAir(r) => \A t \in idp.late : t < idp.valid
        BY Zenon, <1>4, <2>1 DEF SequentialInv
      <3>4. \A r \in Requests : ~InTheAir(r)
        BY Zenon, <3>1, <3>2, <3>3
      <3>5. \A t : Current(t) => Current(t)'
        BY Zenon, <3>1 DEF Current
      <3>6. /\ \A t \in idp'.lost : t < idp'.valid
            /\ \A t \in idp'.late : t <= idp'.valid
        <4>1. \A t \in Nat : (t < idp.valid => t < idp.valid + 1)
                              /\ (t <= idp.valid => t <= idp.valid + 1)
          BY <3>2
        <4>2. idp.valid < idp.valid + 1
          BY <3>2
        <4>3. \A t \in idp'.lost : t \in idp.lost \/ t = idp.valid
          BY Zenon, <3>1
        <4>4. \A t \in idp'.late : t \in idp.late
          BY Zenon, <3>1
        <4>5. \A t \in idp.lost \cup idp.late : t \in Nat
          BY Zenon, <3>2
        <4> QED BY Zenon, <3>1, <3>3, <4>1, <4>2, <4>3, <4>4, <4>5
      <3> QED BY <2>1, <3>4, <3>5, <3>6 DEF SequentialInv, Holding, InTheAir, Live, Row
    <2>3. CASE IdpRevoke \/ Tick
      <3>1. /\ idp'.valid = idp.valid /\ idp'.lost = idp.lost
            /\ idp'.late = idp.late
        BY Zenon, <2>3, RevokeEffect DEF Tick
      <3> QED BY <2>1, <3>1 DEF SequentialInv, Holding, InTheAir, Live, Row, Current
    <2> QED BY <1>4, <2>2, <2>3 DEF Outside
  <1>5. overlapped' => SequentialInv'
    BY DEF SequentialInv
  <1> QED BY <1>1, <1>2, <1>3, <1>4, <1>5, StepShapes

----------------------------------------------------------------------------
(* The theorems.                                                           *)

LEMMA InvInit == Init => IndInv
  <1> SUFFICES ASSUME Init PROVE IndInv
    OBVIOUS
  <1>1. TypeOK
    BY Zenon, TypeInit
  <1>2. \A r \in Requests : req[r].pc = "new" /\ req[r].obj = None
    BY DEF Init, GatewayInit, NewRequest
  <1>3. HoldingInv /\ \A r \in Requests : ~Holding(r) /\ ~InTheAir(r)
    BY <1>2 DEF HoldingInv, Holding, InTheAir
  <1>4. data \in SessionType /\ RowInv
    BY <1>1 DEF Init, RowInv, TypeOK, GatewayTypeOK, Objects
  <1>5. data.refresh = 1 /\ data.lastSeen = 0
    <2>1. PICK e \in ExpiresIn :
            heap = [o \in Objects |-> NewSession([refresh |-> 1, expiresIn |-> e], 0)]
      BY DEF Init, GatewayInit
    <2>2. data = NewSession([refresh |-> 1, expiresIn |-> e], 0)
      BY <2>1 DEF Init, Objects
    <2> QED BY <2>2 DEF NewSession, applyTokens, NoToken
  <1>6. SeenInv
    BY SMTT(30), <1>2, <1>3, <1>5 DEF SeenInv, Init, GatewayInit
  <1>7. SequentialInv
    BY Zenon, <1>2, <1>3, <1>5 DEF SequentialInv, Current, Init, GatewayInit
  <1> QED BY <1>3, <1>4, <1>6, <1>7 DEF IndInv

LEMMA InvStep == TypeOK /\ IndInv /\ [Next]_vars => TypeOK' /\ IndInv'
  <1> SUFFICES ASSUME TypeOK, IndInv, [Next]_vars PROVE TypeOK' /\ IndInv'
    OBVIOUS
  <1>1. CASE Next
    BY <1>1, TypeStep, HoldingStep, RowStep, SeenStep, SequentialStep DEF IndInv
  <1>2. CASE UNCHANGED vars
    <2>1. TypeOK'
      BY Zenon, <1>2 DEF vars, gatewayVars, TypeOK, GatewayTypeOK
    <2>2. HoldingInv' /\ RowInv' /\ SeenInv'
      BY Zenon, <1>2 DEF vars, gatewayVars, IndInv, HoldingInv, RowInv, SeenInv,
         Holding, Live, Row
    <2>3. SequentialInv'
      BY Zenon, <1>2 DEF vars, gatewayVars, IndInv, SequentialInv, Holding, Live, Row,
         Current, InTheAir
    <2> QED BY <2>1, <2>2, <2>3 DEF IndInv
  <1> QED BY <1>1, <1>2

\* The inductive invariant holds in every reachable state of the gateway over
\* PostgresStore.
THEOREM Invariance == Spec => [](TypeOK /\ IndInv)
  BY TypeInit, InvInit, InvStep, PTL DEF Spec

\* PostgresStore: a logout is final for any number of requests in flight on any
\* number of processes, whichever of them crash, whichever statements fail and
\* whenever tombstones are swept, if none is in flight for longer than a
\* tombstone is kept and no row was removed as expired.
THEOREM LogoutIsFinal == Spec => []DeletedStaysDeleted
  <1>1. TypeOK /\ IndInv => DeletedStaysDeleted
    BY DEF TypeOK, IndInv, RowInv, DeletedStaysDeleted, Live, Row
  <1> QED BY <1>1, Invariance, PTL

\* EnsureFresh over PostgresStore: while requests come one at a time, a spent
\* refresh token is only presented if its successor was lost.
THEOREM SequentialRefreshIsSafe == Spec => []SequentialSpentOnlyWhenLost
  <1>1. TypeOK /\ IndInv => SequentialSpentOnlyWhenLost
    <2> SUFFICES ASSUME TypeOK, IndInv, ~overlapped,
                        NEW r \in Requests, req[r].pc = "sent"
                 PROVE  req[r].token = idp.valid \/ req[r].token \in idp.lost
      BY DEF SequentialSpentOnlyWhenLost, SpentOnlyWhenLost
    <2>1. Holding(r) /\ ~InTheAir(r)
      BY OwnCopy DEF IndInv, InTheAir
    <2> QED BY <2>1 DEF IndInv, SequentialInv, Current
  <1> QED BY <1>1, Invariance, PTL

\* SessionFromRequest over PostgresStore: a session nobody has used for Idle
\* lets no request and no logout past Get, whatever was lost or written back.
THEOREM IdleSessionIsDead == Spec => IdleMeansDead
  <1> DEFINE A == \A r \in Requests :
                    req[r].pc = "found" /\ req'[r].pc \in {"loaded", "logout"}
                    /\ Idle > 0 => now - active < Idle
  <1>1. TypeOK /\ IndInv /\ [Next]_vars => [A]_vars
    <2> SUFFICES ASSUME TypeOK, IndInv, Next, NEW r \in Requests, Idle > 0,
                        req[r].pc = "found", req'[r].pc \in {"loaded", "logout"}
                 PROVE  now - active < Idle
      OBVIOUS
    <2>1. Walks(r)
      <3>1. ASSUME NEW q \in Requests, RequestShape(q) PROVE Walks(r)
        <4>1. q = r
          BY Zenon, <3>1, OthersAfter DEF SameRequest
        <4> QED BY Zenon, <3>1, <4>1 DEF RequestShape, Walks, Uses, Slides, Sets, Leaves,
                Finds, Sends, Accepts, Lands, Leading
      <3>2. ASSUME NEW i \in Instances PROVE ~Dies(i)
        BY DEF Dies, SameRequest
      <3>3. ~Outside /\ ~Sweep
        BY DEF Outside, IdpLate, IdpRevoke, Tick, Sweep, gatewayVars
      <3> QED BY Zenon, <3>1, <3>2, <3>3, StepShapes DEF IndInv
    <2>2. ~expired(heap[r], now)
      BY <2>1 DEF Walks
    <2>3. heap[r].lastSeen <= active
      BY OwnCopy DEF IndInv, SeenInv
    <2> QED BY <2>2, <2>3, Fields, SessionAssumption DEF expired
  <1> QED BY <1>1, Invariance, PTL DEF Spec, IdleMeansDead
=============================================================================
