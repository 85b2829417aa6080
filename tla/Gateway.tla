------------------------------ MODULE Gateway ------------------------------
(***************************************************************************)
(* The request path of bff.Gateway (bff/gateway.go): ProxyWithSession with *)
(* EnsureFresh, the singleflight group that coalesces refreshes, and the   *)
(* token endpoint as the gateway sees it (socrate.Client.RefreshToken).    *)
(*                                                                         *)
(* One browser session is modelled: the store, the tombstones and the      *)
(* singleflight group are keyed by its id and no step mixes two ids.  Many *)
(* requests carry its cookie at the same time.  Session objects are Go     *)
(* heap objects, because what distinguishes the two stores is whether two  *)
(* requests hold the same *Session.                                        *)
(*                                                                         *)
(* The module has no store.  MemoryGateway and PostgresGateway extend it   *)
(* and conjoin each step below with what their store does in it.           *)
(***************************************************************************)
EXTENDS Session, FiniteSets

CONSTANTS
    Requests,       \* goroutines that serve requests for the session
    Instances,      \* BFF processes; each has its own singleflight group
    LoginObject,    \* the *Session that the login handler built
    None,
    TouchInterval,  \* Gateway.TouchInterval; negative persists every touch
    AllowPassthrough,
    ExpiresIn,      \* the values of expires_in the server may send
    RotateAnswers,  \* whether an answer carries a rotated refresh token
    MaxInFlight,    \* bound on the time between a Get and the last Put
    MaxTime, MaxToken \* bounds of the model on the clock and on rotations

ASSUME GatewayAssumption ==
    /\ TouchInterval \in Int
    /\ AllowPassthrough \in BOOLEAN
    /\ ExpiresIn \subseteq Nat
    /\ RotateAnswers \subseteq BOOLEAN
    /\ MaxInFlight \in Nat /\ MaxTime \in Nat /\ MaxToken \in Nat
    /\ LoginObject \notin Requests
    /\ None \notin Requests \cup {LoginObject} \cup Nat

VARIABLES
    now,
    heap,       \* session objects: the login's, and one copy per request
    req,        \* what each request is doing
    flight,     \* refreshGroup: the request whose refresh is in progress
    idp         \* the token endpoint

gatewayVars == <<now, heap, req, flight, idp>>

Objects == Requests \cup {LoginObject}

\* Where a request is: Get ("new".."expired"), EnsureFresh ("loaded".."put")
\* with the flight it leads ("lead".."put"), the touch ("fresh".."touched").
PC == {"new", "found", "expired", "logout", "loaded", "stale", "wait",
       "lead", "sent", "answered", "refused", "put",
       "fresh", "touch", "touched", "rejected", "unavailable", "done"}

Leading == {"lead", "sent", "answered", "refused", "put"}

Outcome == {None, "forwarded", "passthrough", "401", "403", "502", "loggedout"}

NoAnswer == [refresh |-> NoToken, expiresIn |-> 0]

\* A request that has not read the store yet, served by instance i.
NewRequest(i) ==
    [pc |-> "new", inst |-> i, obj |-> None, start |-> 0, at |-> 0,
     token |-> NoToken, answer |-> NoAnswer, out |-> None]

RequestType ==
    [pc: PC, inst: Instances, obj: Objects \cup {None}, start: Nat, at: Nat,
     token: Nat, answer: TokenSet, out: Outcome]

\* valid is the one refresh token the server would accept now, lost the spent
\* tokens whose successor never reached the session, late the tokens of calls
\* the gateway gave up on while the server had yet to handle them.
IdpType == [valid: Nat, revoked: BOOLEAN, lost: SUBSET Nat, late: SUBSET Nat]

GatewayTypeOK ==
    /\ now \in Nat
    /\ heap \in [Objects -> SessionType]
    /\ req \in [Requests -> RequestType]
    /\ flight \in [Instances -> Requests \cup {None}]
    /\ idp \in IdpType

GatewayInit ==
    /\ now = 0
    /\ \E e \in ExpiresIn :
         heap = [o \in Objects |->
                   NewSession([refresh |-> 1, expiresIn |-> e], 0)]
    /\ req \in [Requests -> {NewRequest(i) : i \in Instances}]
    /\ flight = [i \in Instances |-> None]
    /\ idp = [valid |-> 1, revoked |-> FALSE, lost |-> {}, late |-> {}]

Holding(r) == req[r].obj # None

----------------------------------------------------------------------------
(* Steps of a request.  Each changes the request's own record, and leaves  *)
(* to the extending module what it does to heap and store.                 *)

Answer(r, out) == req' = [req EXCEPT ![r] = [NewRequest(@.inst) EXCEPT
                                                !.pc = "done", !.out = out]]

Goto(r, pc) == req' = [req EXCEPT ![r].pc = pc]

\* SessionFromRequest found no session: fail closed unless told otherwise.
NoSession(r) ==
    /\ Answer(r, IF AllowPassthrough THEN "passthrough" ELSE "401")
    /\ UNCHANGED <<flight, idp>>

\* The store has a session for the id: the request now holds object o.
Found(r, o) ==
    /\ req' = [req EXCEPT ![r] = [@ EXCEPT !.pc = "found", !.obj = o,
                                           !.start = now]]
    /\ UNCHANGED <<flight, idp>>

\* Fault: Get leaves expired sessions to the sweeper.
CheckSessionTrustsSweep(r) ==
    /\ req[r].pc = "found"
    /\ Goto(r, "loaded") \/ Goto(r, "logout") \/ Answer(r, "403")
    /\ UNCHANGED <<now, heap, flight, idp>>

\* The rest of Get and the CSRF check.  An expired session still has to be
\* deleted; a request with a bad CSRF token is answered at once; a logout goes
\* on to Store.Delete and any other request to EnsureFresh.
CheckSession(r) ==
    /\ req[r].pc = "found"
    /\ IF expired(heap[req[r].obj], now)
       THEN Goto(r, "expired")
       ELSE \/ Goto(r, "loaded")
            \/ Goto(r, "logout")
            \/ Answer(r, "403")
    /\ UNCHANGED <<now, heap, flight, idp>>

\* EnsureFresh, before the singleflight group.
EnsureFresh(r) ==
    /\ req[r].pc = "loaded"
    /\ Goto(r, IF AccessValid(heap[req[r].obj], now) THEN "fresh" ELSE "stale")
    /\ UNCHANGED <<now, heap, flight, idp>>

\* Fault: no singleflight, everyone refreshes.
JoinAlwaysLeads(r) ==
    /\ req[r].pc = "stale"
    /\ Goto(r, "lead") /\ flight' = [flight EXCEPT ![req[r].inst] = r]
    /\ UNCHANGED <<now, heap, idp>>

\* refreshGroup.Do: lead a new flight or wait for the one in progress.
Join(r) ==
    /\ req[r].pc = "stale"
    /\ LET i == req[r].inst IN
       IF flight[i] = None
       THEN Goto(r, "lead") /\ flight' = [flight EXCEPT ![i] = r]
       ELSE Goto(r, "wait") /\ UNCHANGED flight
    /\ UNCHANGED <<now, heap, idp>>

\* Fault: the waiters of the flight are not told.
LandForgetsWaiters(r, pc) ==
    /\ req' = [req EXCEPT ![r] = [@ EXCEPT !.pc = pc, !.token = NoToken,
                                           !.answer = NoAnswer]]
    /\ flight' = [flight EXCEPT ![req[r].inst] = None]

\* The flight that r leads ends: r and everyone waiting get its result.
Land(r, pc) ==
    /\ req' = [q \in Requests |->
                 IF q = r \/ (req[q].pc = "wait" /\ req[q].inst = req[r].inst)
                 THEN [req[q] EXCEPT !.pc = pc, !.token = NoToken,
                                     !.answer = NoAnswer]
                 ELSE req[q]]
    /\ flight' = [flight EXCEPT ![req[r].inst] = None]

\* The leader looks at its own session again, then spends its refresh token.
Recheck(r) ==
    /\ req[r].pc = "lead"
    /\ LET s == heap[req[r].obj] IN
       IF AccessValid(s, now)
       THEN Land(r, "fresh")
       ELSE /\ req' = [req EXCEPT ![r] = [@ EXCEPT !.pc = "sent",
                                                   !.token = s.refresh]]
            /\ UNCHANGED flight
    /\ UNCHANGED <<now, heap, idp>>

\* The token endpoint, external: it accepts the valid token once.
IdpAccept(r) ==
    /\ req[r].pc = "sent"
    /\ req[r].token = idp.valid /\ ~idp.revoked
    /\ \E rotate \in RotateAnswers, e \in ExpiresIn :
         /\ rotate => idp.valid < MaxToken
         /\ idp' = [idp EXCEPT !.valid = IF rotate THEN @ + 1 ELSE @]
         /\ req' = [req EXCEPT ![r] = [@ EXCEPT !.pc = "answered",
                      !.answer = [refresh |-> IF rotate THEN idp.valid + 1
                                              ELSE NoToken,
                                  expiresIn |-> e]]]
    /\ UNCHANGED <<now, heap, flight>>

\* invalid_grant for a spent or revoked token: IsFatalRefreshError.
IdpRefuse(r) ==
    /\ req[r].pc = "sent"
    /\ req[r].token # idp.valid \/ idp.revoked
    /\ Goto(r, "refused")
    /\ UNCHANGED <<now, heap, flight, idp>>

\* The flight that r leads holds the only copy of a rotated refresh token.
InTheAir(r) ==
    req[r].pc \in {"answered", "put"} /\ req[r].answer.refresh # NoToken

\* The endpoint once nobody is left to hear its answers to the requests R.
Abandoned(R) ==
    [idp EXCEPT
        !.lost = @ \cup {req[r].token : r \in {q \in R : InTheAir(q)}},
        !.late = @ \cup {req[r].token : r \in {q \in R : req[q].pc = "sent"}}]

\* Fault: every error of a refresh is taken for a refusal.
RefreshFailsFatal(r) ==
    /\ req[r].pc \in {"sent", "answered", "refused"}
    /\ Land(r, "rejected")
    /\ idp' = Abandoned({r})
    /\ UNCHANGED <<now, heap>>

\* Timeout, network error, 5xx: a transient error for the whole flight.  If the
\* server had rotated, its answer is lost; if it had not handled the call, it
\* may yet do so.
RefreshFails(r) ==
    /\ req[r].pc \in {"sent", "answered", "refused"}
    /\ Land(r, "unavailable")
    /\ idp' = Abandoned({r})
    /\ UNCHANGED <<now, heap>>

\* The server gets to an abandoned call.
IdpLate ==
    /\ idp.valid \in idp.late /\ ~idp.revoked /\ idp.valid < MaxToken
    /\ idp' = [idp EXCEPT !.valid = @ + 1, !.lost = @ \cup {idp.valid},
                          !.late = @ \ {idp.valid}]
    /\ UNCHANGED <<now, heap, req, flight>>

\* An administrator revokes the user's tokens.
IdpRevoke ==
    /\ ~idp.revoked
    /\ idp' = [idp EXCEPT !.revoked = TRUE]
    /\ UNCHANGED <<now, heap, req, flight>>

\* SetTokens on the leader's session; Store.Put is the next step.
SetTokens(r) ==
    /\ req[r].pc = "answered"
    /\ heap' = [heap EXCEPT ![req[r].obj] =
                  applyTokens(@, req[r].answer, now)]
    /\ Goto(r, "put")
    /\ UNCHANGED <<now, flight, idp>>

\* The flight was rejected; EnsureFresh hands the fatal error to everyone.
Refused(r) ==
    /\ req[r].pc = "refused"
    /\ Land(r, "rejected")
    /\ UNCHANGED <<now, heap, idp>>

\* A transient failure answers 502 and keeps the session.
BadGateway(r) ==
    /\ req[r].pc = "unavailable"
    /\ Answer(r, "502")
    /\ UNCHANGED <<now, heap, flight, idp>>

\* ProxyWithSession reads the clock and the idle timestamp, and forwards the
\* request unless the timestamp is due to slide.
NeedsTouch(s) == TouchInterval < 0 \/ now - s.lastSeen >= TouchInterval

CheckTouch(r) ==
    /\ req[r].pc = "fresh"
    /\ IF NeedsTouch(heap[req[r].obj])
       THEN req' = [req EXCEPT ![r] = [@ EXCEPT !.pc = "touch", !.at = now]]
       ELSE Answer(r, "forwarded")
    /\ UNCHANGED <<now, heap, flight, idp>>

\* Session.Touch with the time read before; Store.Put is the next step.
TouchSession(r) ==
    /\ req[r].pc = "touch"
    /\ heap' = [heap EXCEPT ![req[r].obj] = Touch(@, req[r].at)]
    /\ Goto(r, "touched")
    /\ UNCHANGED <<now, flight, idp>>

\* The goroutine is done; the browser may send another request anywhere.
Reuse(r) ==
    /\ req[r].pc = "done"
    /\ \E i \in Instances : req' = [req EXCEPT ![r] = NewRequest(i)]
    /\ UNCHANGED <<now, heap, flight, idp>>

\* Time passes, but no request outlives MaxInFlight between its Get and its
\* last Put: RefreshTimeout and the statement timeout bound every wait.
Tick ==
    /\ now < MaxTime
    /\ \A r \in Requests : Holding(r) => now < req[r].start + MaxInFlight
    /\ now' = now + 1
    /\ UNCHANGED <<heap, req, flight, idp>>

\* The steps that do not involve the store.
GatewayStep(r) ==
    \/ CheckSession(r) \/ EnsureFresh(r) \/ Join(r) \/ Recheck(r)
    \/ RefreshFails(r) \/ SetTokens(r) \/ Refused(r) \/ BadGateway(r)
    \/ CheckTouch(r) \/ TouchSession(r)

GatewayEnvironment ==
    \/ \E r \in Requests : IdpAccept(r) \/ IdpRefuse(r) \/ Reuse(r)
    \/ IdpLate \/ IdpRevoke \/ Tick

----------------------------------------------------------------------------
\* The refresh token is single-use: a flight never presents a token that was
\* exchanged before, unless the answer to that exchange was lost on the way
\* (refreshGroup and the second AccessValid check in EnsureFresh).
SpentOnlyWhenLost ==
    \A r \in Requests :
        req[r].pc = "sent" =>
            req[r].token = idp.valid \/ req[r].token \in idp.lost

\* Every request that got hold of the session is answered, whatever the token
\* endpoint does: nobody waits for ever on a refresh in flight (EnsureFresh
\* bounds the refresh by RefreshTimeout).
EveryRequestAnswered ==
    \A r \in Requests : Holding(r) ~> ~Holding(r)
=============================================================================
