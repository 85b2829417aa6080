--------------------------- MODULE GatewayProofs ---------------------------
(***************************************************************************)
(* Facts about the steps of Gateway that the proofs over both stores rest  *)
(* on: the steps keep the types, and what each leaves in the records of    *)
(* the requests and of the token endpoint.                                 *)
(***************************************************************************)
EXTENDS Gateway, TLAPS

----------------------------------------------------------------------------
(* Type correctness.                                                       *)

\* The session operators return sessions (applyTokens, Touch).
LEMMA SessionTypes ==
    ASSUME NEW s \in SessionType, NEW t \in Nat
    PROVE  /\ Touch(s, t) \in SessionType
           /\ \A ts \in TokenSet : applyTokens(s, ts, t) \in SessionType
  <1>1. Touch(s, t) \in SessionType
    BY DEF Touch, SessionType
  <1>2. ASSUME NEW ts \in TokenSet
        PROVE  applyTokens(s, ts, t) \in SessionType
    <2> DEFINE refresh == IF ts.refresh # NoToken THEN ts.refresh ELSE s.refresh
               expiry == IF ts.expiresIn > 0 THEN t + ts.expiresIn ELSE s.expiry
    <2>1. refresh \in Nat /\ expiry \in Nat
      BY DEF SessionType, TokenSet
    <2>2. applyTokens(s, ts, t)
            = [s EXCEPT !.refresh = refresh, !.expiry = expiry]
      BY DEF applyTokens, SessionType
    <2> HIDE DEF refresh, expiry
    <2> QED BY <2>1, <2>2, Zenon DEF SessionType
  <1> QED BY <1>1, <1>2

LEMMA RequestTypes ==
    /\ \A i \in Instances : NewRequest(i) \in RequestType
    /\ NoAnswer \in TokenSet /\ NoToken \in Nat
  BY DEF NewRequest, RequestType, NoAnswer, TokenSet, PC, Outcome, NoToken

\* The ways a step changes the record of a request keep its type.
LEMMA RecordUpdates ==
    ASSUME NEW x \in RequestType, NEW pc \in PC, NEW n \in Nat
    PROVE  /\ [x EXCEPT !.pc = pc] \in RequestType
           /\ [x EXCEPT !.pc = pc, !.token = n] \in RequestType
           /\ [x EXCEPT !.pc = pc, !.at = n] \in RequestType
           /\ \A out \in Outcome : [x EXCEPT !.pc = pc, !.out = out] \in RequestType
           /\ \A o \in Objects \cup {None} :
                [x EXCEPT !.pc = pc, !.obj = o, !.start = n] \in RequestType
           /\ \A a \in TokenSet :
                /\ [x EXCEPT !.pc = pc, !.answer = a] \in RequestType
                /\ [x EXCEPT !.pc = pc, !.token = n, !.answer = a] \in RequestType
  BY Zenon DEF RequestType

\* What GatewayTypeOK says of the record of one request.
LEMMA RequestFields ==
    ASSUME GatewayTypeOK, NEW r \in Requests
    PROVE  /\ req[r] \in RequestType /\ DOMAIN req = Requests
           /\ req[r].pc \in PC /\ req[r].inst \in Instances
           /\ req[r].obj \in Objects \cup {None}
           /\ req[r].start \in Nat /\ req[r].at \in Nat
           /\ req[r].token \in Nat /\ req[r].answer \in TokenSet
  BY DEF GatewayTypeOK, RequestType

\* Replacing one request's record by one of the right type.
LEMMA OneUpdate ==
    ASSUME GatewayTypeOK, NEW r \in Requests, NEW x \in RequestType,
           req' = [req EXCEPT ![r] = x]
    PROVE  req' \in [Requests -> RequestType]
  BY Zenon DEF GatewayTypeOK

LEMMA AnswerType ==
    ASSUME GatewayTypeOK, NEW r \in Requests, NEW out \in Outcome, Answer(r, out)
    PROVE  req' \in [Requests -> RequestType]
  <1> DEFINE x == [NewRequest(req[r].inst) EXCEPT !.pc = "done", !.out = out]
  <1>1. x \in RequestType
    <2>1. NewRequest(req[r].inst) \in RequestType /\ "done" \in PC
      BY RequestFields, RequestTypes DEF PC
    <2> QED BY Zenon, <2>1, RecordUpdates, RequestTypes
  <1>2. req' = [req EXCEPT ![r] = x]
    BY RequestFields DEF Answer
  <1> HIDE DEF x
  <1> QED BY Zenon, <1>1, <1>2, OneUpdate

LEMMA GotoType ==
    ASSUME GatewayTypeOK, NEW r \in Requests, NEW pc \in PC, Goto(r, pc)
    PROVE  req' \in [Requests -> RequestType]
  <1>1. [req[r] EXCEPT !.pc = pc] \in RequestType
    BY Zenon, RequestFields, RecordUpdates, RequestTypes
  <1>2. req' = [req EXCEPT ![r] = [req[r] EXCEPT !.pc = pc]]
    BY RequestFields DEF Goto
  <1> QED BY Zenon, <1>1, <1>2, OneUpdate

LEMMA LandType ==
    ASSUME GatewayTypeOK, NEW r \in Requests, NEW pc \in PC, Land(r, pc)
    PROVE  /\ req' \in [Requests -> RequestType]
           /\ flight' \in [Instances -> Requests \cup {None}]
  <1>1. \A q \in Requests :
          /\ req[q] \in RequestType
          /\ [req[q] EXCEPT !.pc = pc, !.token = NoToken, !.answer = NoAnswer]
                 \in RequestType
    BY Zenon, RequestFields, RecordUpdates, RequestTypes
  <1>2. req' \in [Requests -> RequestType]
    BY <1>1, Zenon DEF Land
  <1>3. flight' \in [Instances -> Requests \cup {None}]
    BY Zenon DEF Land, GatewayTypeOK
  <1> QED BY <1>2, <1>3

LEMMA GatewayTypeInit == GatewayInit => GatewayTypeOK
  <1> SUFFICES ASSUME GatewayInit PROVE GatewayTypeOK
    OBVIOUS
  <1>1. heap \in [Objects -> SessionType]
    <2>1. PICK e \in ExpiresIn :
            heap = [o \in Objects |-> NewSession([refresh |-> 1, expiresIn |-> e], 0)]
      BY DEF GatewayInit
    <2>2. [refresh |-> 1, expiresIn |-> e] \in TokenSet
      BY GatewayAssumption DEF TokenSet
    <2>3. [refresh |-> NoToken, expiry |-> 0, created |-> 0, lastSeen |-> 0]
            \in SessionType
      BY DEF SessionType, NoToken
    <2>4. NewSession([refresh |-> 1, expiresIn |-> e], 0) \in SessionType
      BY <2>2, <2>3, SessionTypes DEF NewSession
    <2> QED BY <2>1, <2>4
  <1>2. req \in [Requests -> RequestType]
    BY RequestTypes DEF GatewayInit
  <1>3. idp \in IdpType
    BY DEF GatewayInit, IdpType
  <1> QED BY Zenon, <1>1, <1>2, <1>3 DEF GatewayInit, GatewayTypeOK

LEMMA AbandonedType ==
    ASSUME GatewayTypeOK, NEW R \in SUBSET Requests
    PROVE  Abandoned(R) \in IdpType
  <1> DEFINE lost == {req[q].token : q \in {p \in R : InTheAir(p)}}
             late == {req[q].token : q \in {p \in R : req[p].pc = "sent"}}
  <1>1. lost \subseteq Nat /\ late \subseteq Nat
    BY RequestFields
  <1>2. Abandoned(R) = [idp EXCEPT !.lost = @ \cup lost, !.late = @ \cup late]
    BY DEF Abandoned
  <1> HIDE DEF lost, late
  <1> QED BY Zenon, <1>1, <1>2 DEF IdpType, GatewayTypeOK

LEMMA GatewayTypeStep ==
    ASSUME GatewayTypeOK, NEW r \in Requests, GatewayStep(r),
           req[r].pc = "lead" => Holding(r)
    PROVE  GatewayTypeOK'
  <1> DEFINE ReqOK == req' \in [Requests -> RequestType]
             FlightOK == flight' \in [Instances -> Requests \cup {None}]
  <1>s. /\ UNCHANGED now => now' \in Nat
        /\ UNCHANGED heap => heap' \in [Objects -> SessionType]
        /\ UNCHANGED req => ReqOK
        /\ UNCHANGED flight => FlightOK
        /\ UNCHANGED idp => idp' \in IdpType
    BY Zenon DEF GatewayTypeOK
  <1>t. ASSUME now' \in Nat, heap' \in [Objects -> SessionType], ReqOK, FlightOK,
               idp' \in IdpType
        PROVE  GatewayTypeOK'
    BY Zenon, <1>t DEF GatewayTypeOK
  <1> HIDE DEF FlightOK
  <1>n. now \in Nat
    BY DEF GatewayTypeOK
  <1>1. CASE CheckSession(r)
    <2>1. ReqOK
      <3>1. \/ Goto(r, "expired") \/ Goto(r, "loaded") \/ Goto(r, "logout")
            \/ Answer(r, "403")
        BY Zenon, <1>1 DEF CheckSession
      <3>2. /\ "expired" \in PC /\ "loaded" \in PC /\ "logout" \in PC
            /\ "403" \in Outcome
        BY DEF PC, Outcome
      <3> QED BY Zenon, <3>1, <3>2, GotoType, AnswerType
    <2> QED BY Zenon, <1>s, <1>t, <1>1, <2>1 DEF CheckSession
  <1>2. CASE EnsureFresh(r)
    <2>1. ReqOK
      <3>1. PICK pc \in {"fresh", "stale"} : Goto(r, pc)
        BY Zenon, <1>2 DEF EnsureFresh
      <3>2. pc \in PC
        BY DEF PC
      <3> QED BY Zenon, <3>1, <3>2, GotoType
    <2> QED BY Zenon, <1>s, <1>t, <1>2, <2>1 DEF EnsureFresh
  <1>3. CASE Join(r)
    <2>1. ReqOK
      <3>1. PICK pc \in {"lead", "wait"} : Goto(r, pc)
        BY Zenon, <1>3 DEF Join
      <3>2. pc \in PC
        BY DEF PC
      <3> QED BY Zenon, <3>1, <3>2, GotoType
    <2>2. FlightOK
      BY Zenon, <1>3, RequestFields DEF Join, FlightOK, GatewayTypeOK
    <2> QED BY Zenon, <1>s, <1>t, <1>3, <2>1, <2>2 DEF Join
  <1>4. CASE Recheck(r)
    <2>1. CASE AccessValid(heap[req[r].obj], now)
      <3>1. Land(r, "fresh") /\ "fresh" \in PC
        BY <1>4, <2>1 DEF Recheck, PC
      <3> QED BY Zenon, <1>s, <1>t, <1>4, <3>1, LandType DEF Recheck, FlightOK
    <2>2. CASE ~AccessValid(heap[req[r].obj], now)
      <3> DEFINE token == heap[req[r].obj].refresh
      <3>1. token \in Nat
        <4>1. req[r].obj \in Objects
          BY <1>4, RequestFields DEF Recheck, Holding
        <4> QED BY <4>1 DEF GatewayTypeOK, SessionType
      <3>2. req' = [req EXCEPT ![r] = [req[r] EXCEPT
                                         !.pc = "sent", !.token = token]]
        BY <1>4, <2>2, RequestFields DEF Recheck
      <3> HIDE DEF token
      <3>3. "sent" \in PC
        BY DEF PC
      <3>4. ReqOK
        BY Zenon, <3>1, <3>2, <3>3, RequestFields, RecordUpdates, OneUpdate
      <3>5. UNCHANGED <<now, heap, flight, idp>>
        BY <1>4, <2>2 DEF Recheck
      <3> QED BY Zenon, <1>s, <1>t, <3>4, <3>5
    <2> QED BY <2>1, <2>2
  <1>5. CASE RefreshFails(r)
    <2>1. idp' \in IdpType
      BY <1>5, AbandonedType DEF RefreshFails
    <2>2. "unavailable" \in PC
      BY DEF PC
    <2> QED BY Zenon, <1>s, <1>t, <1>5, <2>1, <2>2, LandType
        DEF RefreshFails, FlightOK
  <1>6. CASE SetTokens(r)
    <2>1. heap' \in [Objects -> SessionType]
      <3>1. heap[req[r].obj] \in SessionType \/ req[r].obj \notin Objects
        BY DEF GatewayTypeOK
      <3>2. req[r].answer \in TokenSet
        BY RequestFields
      <3> QED BY Zenon, <1>n, <1>6, <3>1, <3>2, SessionTypes
          DEF SetTokens, GatewayTypeOK
    <2>2. "put" \in PC
      BY DEF PC
    <2> QED BY Zenon, <1>s, <1>t, <1>6, <2>1, <2>2, GotoType DEF SetTokens
  <1>7. CASE Refused(r)
    <2>1. "rejected" \in PC
      BY DEF PC
    <2> QED BY Zenon, <1>s, <1>t, <1>7, <2>1, LandType DEF Refused, FlightOK
  <1>8. CASE BadGateway(r)
    <2>1. "502" \in Outcome
      BY DEF Outcome
    <2> QED BY Zenon, <1>s, <1>t, <1>8, <2>1, AnswerType DEF BadGateway
  <1>9. CASE CheckTouch(r)
    <2>1. CASE NeedsTouch(heap[req[r].obj])
      <3>1. req' = [req EXCEPT ![r] = [req[r] EXCEPT !.pc = "touch", !.at = now]]
        BY <1>9, <2>1, RequestFields DEF CheckTouch
      <3>2. "touch" \in PC
        BY DEF PC
      <3>3. ReqOK
        BY Zenon, <1>n, <3>1, <3>2, RequestFields, RecordUpdates, OneUpdate
      <3> QED BY Zenon, <1>s, <1>t, <1>9, <3>3 DEF CheckTouch
    <2>2. CASE ~NeedsTouch(heap[req[r].obj])
      <3>1. "forwarded" \in Outcome
        BY DEF Outcome
      <3> QED BY Zenon, <1>s, <1>t, <1>9, <2>2, <3>1, AnswerType
          DEF CheckTouch
    <2> QED BY <2>1, <2>2
  <1>10. CASE TouchSession(r)
    <2>1. heap' \in [Objects -> SessionType]
      <3>1. heap[req[r].obj] \in SessionType \/ req[r].obj \notin Objects
        BY DEF GatewayTypeOK
      <3>2. req[r].at \in Nat
        BY RequestFields
      <3> QED BY Zenon, <1>10, <3>1, <3>2, SessionTypes
          DEF TouchSession, GatewayTypeOK
    <2>2. "touched" \in PC
      BY DEF PC
    <2> QED BY Zenon, <1>s, <1>t, <1>10, <2>1, <2>2, GotoType
        DEF TouchSession
  <1> QED
    BY <1>1, <1>2, <1>3, <1>4, <1>5, <1>6, <1>7, <1>8, <1>9, <1>10
    DEF GatewayStep

LEMMA GatewayTypeEnvironment ==
    ASSUME GatewayTypeOK, GatewayEnvironment
    PROVE  GatewayTypeOK'
  <1> DEFINE ReqOK == req' \in [Requests -> RequestType]
             FlightOK == flight' \in [Instances -> Requests \cup {None}]
  <1>s. /\ UNCHANGED now => now' \in Nat
        /\ UNCHANGED heap => heap' \in [Objects -> SessionType]
        /\ UNCHANGED req => ReqOK
        /\ UNCHANGED flight => FlightOK
        /\ UNCHANGED idp => idp' \in IdpType
    BY Zenon DEF GatewayTypeOK
  <1>t. ASSUME now' \in Nat, heap' \in [Objects -> SessionType], ReqOK, FlightOK,
               idp' \in IdpType
        PROVE  GatewayTypeOK'
    BY Zenon, <1>t DEF GatewayTypeOK
  <1> HIDE DEF FlightOK
  <1>n. now \in Nat
    BY DEF GatewayTypeOK
  <1>1. ASSUME NEW r \in Requests, IdpAccept(r)
        PROVE  GatewayTypeOK'
    <2>1. PICK rotate \in RotateAnswers, e \in ExpiresIn :
            /\ idp' = [idp EXCEPT !.valid = IF rotate THEN @ + 1 ELSE @]
            /\ req' = [req EXCEPT ![r] = [@ EXCEPT !.pc = "answered",
                        !.answer = [refresh |-> IF rotate THEN idp.valid + 1
                                                ELSE NoToken,
                                    expiresIn |-> e]]]
      BY Zenon, <1>1 DEF IdpAccept
    <2> DEFINE valid == IF rotate THEN idp.valid + 1 ELSE idp.valid
               a == [refresh |-> IF rotate THEN idp.valid + 1 ELSE NoToken,
                     expiresIn |-> e]
    <2>2. valid \in Nat /\ a \in TokenSet
      BY GatewayAssumption DEF TokenSet, IdpType, NoToken, GatewayTypeOK
    <2>3. /\ idp' = [idp EXCEPT !.valid = valid]
          /\ req' = [req EXCEPT ![r] = [req[r] EXCEPT !.pc = "answered",
                                                      !.answer = a]]
      BY <2>1, RequestFields
    <2> HIDE DEF valid, a
    <2>4. idp' \in IdpType
      BY Zenon, <2>2, <2>3 DEF IdpType, GatewayTypeOK
    <2>5. "answered" \in PC
      BY DEF PC
    <2>6. ReqOK
      BY Zenon, <2>2, <2>3, <2>5, RequestTypes, RequestFields, RecordUpdates, OneUpdate
    <2> QED BY Zenon, <1>s, <1>t, <1>1, <2>4, <2>6 DEF IdpAccept
  <1>2. ASSUME NEW r \in Requests, IdpRefuse(r)
        PROVE  GatewayTypeOK'
    <2>1. "refused" \in PC
      BY DEF PC
    <2> QED BY Zenon, <1>s, <1>t, <1>2, <2>1, GotoType DEF IdpRefuse
  <1>3. ASSUME NEW r \in Requests, Reuse(r)
        PROVE  GatewayTypeOK'
    BY Zenon, <1>s, <1>t, <1>3, RequestTypes, OneUpdate DEF Reuse
  <1>4. CASE IdpLate
    <2>1. idp.valid + 1 \in Nat /\ idp.lost \cup {idp.valid} \in SUBSET Nat
          /\ idp.late \ {idp.valid} \in SUBSET Nat
      BY DEF IdpType, GatewayTypeOK
    <2>2. idp' \in IdpType
      BY Zenon, <1>4, <2>1 DEF IdpLate, IdpType, GatewayTypeOK
    <2> QED BY Zenon, <1>s, <1>t, <1>4, <2>2 DEF IdpLate
  <1>5. CASE IdpRevoke
    <2>1. idp' \in IdpType
      BY Zenon, <1>5 DEF IdpRevoke, IdpType, GatewayTypeOK
    <2> QED BY Zenon, <1>s, <1>t, <1>5, <2>1 DEF IdpRevoke
  <1>6. CASE Tick
    <2>1. now' \in Nat
      BY <1>n, <1>6 DEF Tick
    <2> QED BY Zenon, <1>s, <1>t, <1>6, <2>1 DEF Tick
  <1> QED BY <1>1, <1>2, <1>3, <1>4, <1>5, <1>6 DEF GatewayEnvironment

----------------------------------------------------------------------------
(* What a step leaves in the records, field by field.                      *)

\* What a request keeps for as long as it holds the session.
Kept(q) ==
    /\ req'[q].inst = req[q].inst
    /\ req'[q].obj = req[q].obj
    /\ req'[q].start = req[q].start

SameRequest(q) ==
    /\ req'[q].pc = req[q].pc /\ Kept(q) /\ req'[q].at = req[q].at
    /\ req'[q].token = req[q].token /\ req'[q].answer = req[q].answer

Others(r) == \A q \in Requests \ {r} : SameRequest(q)

\* q is told the result of the flight that r leads.
Landed(r, q) == q = r \/ (req[q].pc = "wait" /\ req[q].inst = req[r].inst)

LEMMA GotoEffect ==
    ASSUME GatewayTypeOK, NEW r \in Requests, NEW pc, Goto(r, pc)
    PROVE  /\ Others(r) /\ Kept(r) /\ req'[r].pc = pc
           /\ req'[r].token = req[r].token /\ req'[r].answer = req[r].answer
  BY DEF Goto, Others, SameRequest, Kept, GatewayTypeOK, RequestType

LEMMA AnswerEffect ==
    ASSUME GatewayTypeOK, NEW r \in Requests, NEW out, Answer(r, out)
    PROVE  Others(r) /\ req'[r].pc = "done" /\ req'[r].obj = None
  BY DEF Answer, NewRequest, Others, SameRequest, Kept, GatewayTypeOK, RequestType

LEMMA FoundEffect ==
    ASSUME GatewayTypeOK, NEW r \in Requests, NEW o, Found(r, o)
    PROVE  /\ Others(r) /\ req'[r].pc = "found" /\ req'[r].obj = o
           /\ req'[r].start = now /\ UNCHANGED <<flight, idp>>
  <1>1. req' = [req EXCEPT ![r] = [req[r] EXCEPT
                  !.pc = "found", !.obj = o, !.start = now]]
    BY RequestFields DEF Found
  <1> QED BY <1>1 DEF Found, Others, SameRequest, Kept, GatewayTypeOK, RequestType

LEMMA TouchEffect ==
    ASSUME GatewayTypeOK, NEW r \in Requests, CheckTouch(r),
           NeedsTouch(heap[req[r].obj])
    PROVE  /\ Others(r) /\ Kept(r) /\ req'[r].pc = "touch" /\ req'[r].at = now
  <1>1. req' = [req EXCEPT ![r] = [req[r] EXCEPT !.pc = "touch", !.at = now]]
    BY RequestFields DEF CheckTouch
  <1> QED BY <1>1 DEF Others, SameRequest, Kept, GatewayTypeOK, RequestType

LEMMA ReuseEffect ==
    ASSUME GatewayTypeOK, NEW r \in Requests, Reuse(r)
    PROVE  Others(r) /\ req'[r].pc = "new" /\ req'[r].obj = None
  <1>1. PICK i \in Instances : req' = [req EXCEPT ![r] = NewRequest(i)]
    BY Zenon DEF Reuse
  <1> QED BY <1>1 DEF NewRequest, Others, SameRequest, Kept, GatewayTypeOK,
                      RequestType

LEMMA LandEffect ==
    ASSUME GatewayTypeOK, NEW r \in Requests, NEW pc, Land(r, pc)
    PROVE  \A q \in Requests :
             /\ Kept(q)
             /\ IF Landed(r, q) THEN req'[q].pc = pc ELSE SameRequest(q)
  <1>1. ASSUME NEW q \in Requests
        PROVE  Kept(q) /\ IF Landed(r, q) THEN req'[q].pc = pc ELSE SameRequest(q)
    <2>1. CASE Landed(r, q)
      <3>1. req'[q] = [req[q] EXCEPT !.pc = pc, !.token = NoToken,
                                     !.answer = NoAnswer]
        BY Zenon, <2>1 DEF Land, Landed
      <3>2. req[q] \in RequestType
        BY RequestFields
      <3>3. req'[q].pc = pc
        BY <3>1, <3>2 DEF RequestType
      <3>4. Kept(q)
        BY <3>1, <3>2 DEF Kept, RequestType
      <3> QED BY Zenon, <2>1, <3>3, <3>4
    <2>2. CASE ~Landed(r, q)
      <3>1. req'[q] = req[q]
        BY Zenon, <2>2 DEF Land, Landed
      <3> QED BY Zenon, <2>2, <3>1 DEF SameRequest, Kept
    <2> QED BY Zenon, <2>1, <2>2
  <1> QED BY Zenon, <1>1

LEMMA SendEffect ==
    ASSUME GatewayTypeOK, NEW r \in Requests, Recheck(r),
           ~AccessValid(heap[req[r].obj], now)
    PROVE  /\ Others(r) /\ Kept(r) /\ req'[r].pc = "sent"
           /\ req'[r].token = heap[req[r].obj].refresh
           /\ UNCHANGED <<now, heap, flight, idp>>
  <1> DEFINE token == heap[req[r].obj].refresh
  <1>1. req' = [req EXCEPT ![r] = [req[r] EXCEPT !.pc = "sent", !.token = token]]
        /\ UNCHANGED <<now, heap, flight, idp>>
    BY RequestFields DEF Recheck
  <1> HIDE DEF token
  <1>2. Others(r) /\ Kept(r) /\ req'[r].pc = "sent" /\ req'[r].token = token
    BY <1>1 DEF Others, SameRequest, Kept, GatewayTypeOK, RequestType
  <1> QED BY <1>1, <1>2 DEF token

LEMMA AcceptEffect ==
    ASSUME GatewayTypeOK, NEW r \in Requests, IdpAccept(r)
    PROVE  /\ Others(r) /\ Kept(r)
           /\ req[r].pc = "sent" /\ req[r].token = idp.valid
           /\ req'[r].pc = "answered" /\ req'[r].token = req[r].token
           /\ idp'.lost = idp.lost /\ idp'.late = idp.late
           /\ idp'.revoked = idp.revoked
           /\ \/ req'[r].answer.refresh = NoToken /\ idp'.valid = idp.valid
              \/ idp'.valid = idp.valid + 1 /\ req'[r].answer.refresh = idp.valid + 1
           /\ UNCHANGED <<now, heap, flight>>
  <1>1. PICK rotate \in RotateAnswers, e \in ExpiresIn :
          /\ idp' = [idp EXCEPT !.valid = IF rotate THEN @ + 1 ELSE @]
          /\ req' = [req EXCEPT ![r] = [@ EXCEPT !.pc = "answered",
                      !.answer = [refresh |-> IF rotate THEN idp.valid + 1
                                              ELSE NoToken,
                                  expiresIn |-> e]]]
    BY Zenon DEF IdpAccept
  <1> DEFINE a == [refresh |-> IF rotate THEN idp.valid + 1 ELSE NoToken,
                   expiresIn |-> e]
  <1>2. req' = [req EXCEPT ![r] = [req[r] EXCEPT !.pc = "answered", !.answer = a]]
    BY <1>1, RequestFields
  <1>3. a.refresh = IF rotate THEN idp.valid + 1 ELSE NoToken
    OBVIOUS
  <1> HIDE DEF a
  <1>4. /\ Others(r) /\ Kept(r) /\ req'[r].pc = "answered"
        /\ req'[r].token = req[r].token /\ req'[r].answer = a
    BY <1>2 DEF Others, SameRequest, Kept, GatewayTypeOK, RequestType
  <1>5. /\ idp'.lost = idp.lost /\ idp'.late = idp.late
        /\ idp'.revoked = idp.revoked
        /\ idp'.valid = IF rotate THEN idp.valid + 1 ELSE idp.valid
    BY <1>1 DEF GatewayTypeOK, IdpType
  <1>6. /\ req[r].pc = "sent" /\ req[r].token = idp.valid
        /\ UNCHANGED <<now, heap, flight>>
    BY DEF IdpAccept
  <1> QED BY <1>3, <1>4, <1>5, <1>6

\* Giving up on requests loses what they had in the air, and leaves their
\* unanswered calls to the server.
LEMMA AbandonedEffect ==
    ASSUME GatewayTypeOK, NEW R
    PROVE  /\ Abandoned(R).valid = idp.valid
           /\ Abandoned(R).revoked = idp.revoked
           /\ \A t : t \in Abandoned(R).lost <=>
                t \in idp.lost \/ \E q \in R : InTheAir(q) /\ t = req[q].token
           /\ \A t : t \in Abandoned(R).late <=>
                t \in idp.late \/ \E q \in R : req[q].pc = "sent" /\ t = req[q].token
  <1> DEFINE lost == {req[q].token : q \in {p \in R : InTheAir(p)}}
             late == {req[q].token : q \in {p \in R : req[p].pc = "sent"}}
  <1>1. Abandoned(R) = [idp EXCEPT !.lost = @ \cup lost, !.late = @ \cup late]
    BY DEF Abandoned
  <1>2. \A t : t \in lost <=> \E q \in R : InTheAir(q) /\ t = req[q].token
    OBVIOUS
  <1>3. \A t : t \in late <=> \E q \in R : req[q].pc = "sent" /\ t = req[q].token
    OBVIOUS
  <1> HIDE DEF lost, late
  <1>4. /\ Abandoned(R).valid = idp.valid /\ Abandoned(R).revoked = idp.revoked
        /\ Abandoned(R).lost = idp.lost \cup lost
        /\ Abandoned(R).late = idp.late \cup late
    BY <1>1 DEF GatewayTypeOK, IdpType
  <1> QED BY <1>2, <1>3, <1>4

LEMMA LateEffect ==
    ASSUME GatewayTypeOK, IdpLate
    PROVE  /\ idp'.valid = idp.valid + 1 /\ idp'.revoked = idp.revoked
           /\ idp'.lost = idp.lost \cup {idp.valid}
           /\ idp'.late = idp.late \ {idp.valid}
  BY DEF IdpLate, GatewayTypeOK, IdpType

LEMMA RevokeEffect ==
    ASSUME GatewayTypeOK, IdpRevoke
    PROVE  /\ idp'.valid = idp.valid /\ idp'.revoked = TRUE
           /\ idp'.lost = idp.lost /\ idp'.late = idp.late
  BY DEF IdpRevoke, GatewayTypeOK, IdpType

\* SetTokens and Touch on the object a request holds.
LEMMA HeapEffect ==
    ASSUME GatewayTypeOK, NEW r \in Requests, req[r].obj \in Objects
    PROVE  /\ SetTokens(r) =>
                /\ heap'[req[r].obj].refresh =
                     IF req[r].answer.refresh # NoToken THEN req[r].answer.refresh
                     ELSE heap[req[r].obj].refresh
                /\ heap'[req[r].obj].lastSeen = heap[req[r].obj].lastSeen
           /\ TouchSession(r) =>
                /\ heap'[req[r].obj].refresh = heap[req[r].obj].refresh
                /\ heap'[req[r].obj].lastSeen = req[r].at
           /\ SetTokens(r) \/ TouchSession(r) =>
                \A o \in Objects \ {req[r].obj} : heap'[o] = heap[o]
  <1> DEFINE o == req[r].obj
  <1>1. o \in Objects /\ heap[o] \in SessionType /\ heap \in [Objects -> SessionType]
    BY DEF GatewayTypeOK
  <1>2. ASSUME SetTokens(r)
        PROVE  /\ heap'[o] = applyTokens(heap[o], req[r].answer, now)
               /\ \A p \in Objects \ {o} : heap'[p] = heap[p]
    BY <1>1, <1>2 DEF SetTokens
  <1>3. ASSUME TouchSession(r)
        PROVE  /\ heap'[o] = Touch(heap[o], req[r].at)
               /\ \A p \in Objects \ {o} : heap'[p] = heap[p]
    BY <1>1, <1>3 DEF TouchSession
  <1> HIDE DEF o
  <1>4. SetTokens(r) =>
          /\ heap'[o].refresh = IF req[r].answer.refresh # NoToken
                                THEN req[r].answer.refresh ELSE heap[o].refresh
          /\ heap'[o].lastSeen = heap[o].lastSeen
    BY <1>1, <1>2, Zenon DEF applyTokens, SessionType
  <1>5. TouchSession(r) =>
          heap'[o].refresh = heap[o].refresh /\ heap'[o].lastSeen = req[r].at
    BY <1>1, <1>3 DEF Touch, SessionType
  <1> QED BY <1>2, <1>3, <1>4, <1>5 DEF o
=============================================================================
