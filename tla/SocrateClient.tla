--------------------------- MODULE SocrateClient ---------------------------
(***************************************************************************)
(* A socrate.Client shared by concurrent callers (socrate/client.go): the  *)
(* lookup of the numeric application ID and its unsynchronised cache, and  *)
(* the one request of an operation of SocrateOperations, through lost      *)
(* answers, refusals and servers that do not have the route.               *)
(*                                                                         *)
(* The IDs our application has had are 1 .. app: an application that is    *)
(* deleted and registered again gets the next one.  Other is the ID of     *)
(* another application of the same server, which its list may name before  *)
(* ours, after it or alone.  resolvedAppID is a Go string, two words       *)
(* written without a lock: a read during a write may find the old value,   *)
(* the new one, or a mixture (Torn).                                       *)
(***************************************************************************)
EXTENDS SocrateOperations, FiniteSets, Sequences

CONSTANTS
    Callers,
    OperationsOf,   \* the operations each caller uses
    Unset, Other, Torn, \* no ID, another application's, a half-written one
    MaxApp          \* bound on registrations of the application

ASSUME SocrateClientAssumption ==
    /\ OperationsOf \in [Callers -> SUBSET AllOperations] /\ MaxApp \in Nat \ {0}
    /\ Cardinality({Unset, Other, Torn}) = 3 /\ {Unset, Other, Torn} \cap Nat = {}

VARIABLES
    configured,     \* ClientConfig.AppID is set
    hasSecret,      \* ClientConfig.ClientSecret is set
    app,            \* the server's current ID of our application
    resolvedAppID,
    call            \* what each caller is doing

vars == <<configured, hasSecret, app, resolvedAppID, call>>
config == <<configured, hasSecret>>

IDs == 1 .. MaxApp
Idle == [pc |-> "idle", op |-> ListApps, jwt |-> FALSE, path |-> Unset, status |-> 0,
         body |-> "text", apps |-> <<>>, why |-> "none", effects |-> 0, open |-> 0,
         result |-> "none"]

\* Lists of applications, as /api/admin/apps has them.
AppLists == Seq([ID: IDs \cup {Other}, ClientID: {"ours", "theirs"}])

Reasons == {"none", "done", "absent", "exists", "unauthorised", "noRoute",
            "invalid", "limited", "used", "unavailable", "failed"}
Results == {"none", "value", "error", "absent", "exists", "notInApp", "invalid",
            "rejected", "limited", "used", "denied", "unavailable"}

TypeOK ==
    /\ configured \in BOOLEAN /\ hasSecret \in BOOLEAN
    /\ app \in IDs /\ resolvedAppID \in IDs \cup {Unset, Other}
    /\ call \in [Callers ->
         [pc: {"idle", "appID", "lookup", "listed", "store", "send", "sent",
               "answered", "done"},
          op: AllOperations, jwt: BOOLEAN, path: IDs \cup {Unset, Other, Torn},
          status: Nat, body: AnyBody, apps: AppLists, why: Reasons,
          effects: 0 .. 1, open: 0 .. 1, result: Results]]

\* NewClient.
NewClient ==
    /\ configured \in BOOLEAN /\ hasSecret \in BOOLEAN /\ app = 1
    /\ resolvedAppID = IF configured THEN 1 ELSE Unset
    /\ call = [c \in Callers |-> Idle]

----------------------------------------------------------------------------
Begin(c) ==
    /\ call[c].pc = "idle"
    /\ \E op \in OperationsOf[c], jwt \in BOOLEAN :
         /\ op.cred = "user" \/ ~jwt
         /\ call' = [call EXCEPT ![c] = [Idle EXCEPT !.op = op, !.jwt = jwt,
                       !.pc = IF op.app THEN "appID" ELSE "send"]]
    /\ UNCHANGED <<config, app, resolvedAppID>>

\* A caller leaves with a result; every body it still reads is closed.
Return(c, result) ==
    call' = [call EXCEPT ![c] = [@ EXCEPT !.pc = "done", !.result = result, !.open = 0]]

\* The IDs other callers are writing, and what a read of resolvedAppID gives.
Writing(c) == {call[d].path : d \in {e \in Callers \ {c} : call[e].pc = "store"}}
Readable(c, id) == {id} \cup Writing(c) \cup (IF Writing(c) = {} THEN {} ELSE {Torn})

\* getAppID, getAppIDAsService: the cached ID, or a lookup.
getAppID(c) ==
    /\ call[c].pc = "appID"
    /\ \E id \in Readable(c, resolvedAppID) :
         call' = [call EXCEPT ![c].path = id,
                              ![c].pc = IF id = Unset THEN "lookup" ELSE "send"]
    /\ UNCHANGED <<config, app, resolvedAppID>>

\* doWithJWT needs a JWT in the context; doWithServiceToken a service token,
\* which needs the secret and may not be had; a public call needs nothing.
Authenticates(c) ==
    LET cred == call[c].op.cred IN
    (cred = "user" => call[c].jwt) /\ (cred \in {"service", "secret"} => hasSecret)

\* The request cannot be made: no JWT, no secret, no service token.
NotSent(c) ==
    /\ call[c].pc \in {"lookup", "send"}
    /\ ~Authenticates(c) \/ call[c].op.cred = "service"
    /\ Return(c, "error")
    /\ UNCHANGED <<config, app, resolvedAppID>>

\* The server's list of applications: ours, with the ID it has now, or (after a
\* deletion) not, and the other one before it, after it or not at all.
Lists ==
    LET ours == [ID |-> app, ClientID |-> "ours"]
        theirs == [ID |-> Other, ClientID |-> "theirs"]
    IN  {<<>>, <<ours>>, <<theirs>>, <<ours, theirs>>, <<theirs, ours>>}

\* The answer to the lookup: a list, or a refusal.
ListAnswered(c) ==
    /\ call[c].pc = "lookup" /\ Authenticates(c)
    /\ \E answer \in {<<200, "object", apps>> : apps \in Lists}
             \cup {<<200, "text", <<>>>>, <<401, "error", <<>>>>, <<500, "text", <<>>>>} :
         call' = [call EXCEPT ![c] = [@ EXCEPT !.pc = "listed", !.open = 1,
                    !.status = answer[1], !.body = answer[2], !.apps = answer[3]]]
    /\ UNCHANGED <<config, app, resolvedAppID>>

\* Fault: the first application of the list is taken for ours.
FoundAny(apps) == DOMAIN apps

\* parseAppID: the places of the list with the client's ClientID.
Found(apps) == {i \in DOMAIN apps : apps[i].ClientID = "ours"}

\* parseAppID: the ID is that of the first such place, if there is one.
parseAppID(c) ==
    /\ call[c].pc = "listed" /\ call[c].status = 200 /\ call[c].body = "object"
    /\ \E i \in Found(call[c].apps) :
         /\ \A j \in Found(call[c].apps) : i <= j
         /\ call' = [call EXCEPT ![c] = [@ EXCEPT !.pc = "store", !.open = 0,
                       !.path = call[c].apps[i].ID, !.apps = <<>>]]
    /\ UNCHANGED <<config, app, resolvedAppID>>

\* parseAppID: anything else is an error ...
ListRefused(c) ==
    /\ call[c].pc = "listed"
    /\ call[c].status # 200 \/ call[c].body # "object" \/ Found(call[c].apps) = {}
    /\ ~(call[c].status = 401 /\ call[c].op.cred = "service")
    /\ Return(c, "error")
    /\ UNCHANGED <<config, app, resolvedAppID>>

\* ... but getAppIDAsService leaves at a 401 before the body is read and closed.
ListUnauthorised(c) ==
    /\ call[c].pc = "listed" /\ call[c].status = 401 /\ call[c].op.cred = "service"
    /\ call' = [call EXCEPT ![c] = [@ EXCEPT !.pc = "done", !.result = "error"]]
    /\ UNCHANGED <<config, app, resolvedAppID>>

\* The end of the assignment to resolvedAppID, and its reading back.
StoreAppID(c) ==
    /\ call[c].pc = "store"
    /\ resolvedAppID' = call[c].path
    /\ \E id \in Readable(c, resolvedAppID') :
         call' = [call EXCEPT ![c].pc = "send", ![c].path = id]
    /\ UNCHANGED <<config, app>>

----------------------------------------------------------------------------
\* doHTTP: the request goes out.
Send(c) ==
    /\ call[c].pc = "send" /\ Authenticates(c)
    /\ call' = [call EXCEPT ![c].pc = "sent"]
    /\ UNCHANGED <<config, app, resolvedAppID>>

\* How Socrate, or a proxy before it, answers: a reason, a status and a body.
Refusals(op) ==
    {<<"unauthorised", 401, "error">>, <<"absent", 404, "error">>,
     <<"invalid", 400, "error">>, <<"limited", 429, "error">>,
     <<"used", 422, "error">>, <<"unavailable", 503, "object">>,
     <<"failed", 502, "text">>,
     IF op = Signup THEN <<"exists", 400, "taken">> ELSE <<"exists", 409, "error">>}
    \cup IF op.newer THEN {<<"noRoute", s, "text">> : s \in {404, 405}} ELSE {}

Handle(c) ==
    /\ call[c].pc = "sent" /\ call[c].effects = 0
    /\ \/ \E s \in call[c].op.ok, b \in {"object", "array", "text"} :
            call' = [call EXCEPT ![c] = [@ EXCEPT !.pc = "answered", !.why = "done",
                       !.status = s, !.body = b, !.effects = call[c].effects + 1, !.open = 1]]
       \/ \E r \in Refusals(call[c].op) :
            call' = [call EXCEPT ![c] = [@ EXCEPT !.pc = "answered", !.why = r[1],
                       !.status = r[2], !.body = r[3], !.open = 1]]
    /\ UNCHANGED <<config, app, resolvedAppID>>

\* Fault: a request whose answer is lost is sent again.
LoseResends(c) ==
    /\ call[c].pc \in {"lookup", "sent", "answered"}
    /\ call' = [call EXCEPT ![c] = [@ EXCEPT !.pc = "sent", !.open = 0,
                  !.why = "none", !.status = 0, !.body = "text"]]
    /\ UNCHANGED <<config, app, resolvedAppID>>

\* The connection fails, the context ends, the timeout strikes or the body is
\* cut or too long, before or after the server has acted.
Lose(c) ==
    /\ call[c].pc \in {"lookup", "listed", "sent", "answered"}
    /\ call[c].pc # "lookup" \/ Authenticates(c)
    /\ ~(call[c].pc = "listed" /\ call[c].status = 401 /\ call[c].op.cred = "service")
    /\ Return(c, "error")
    /\ UNCHANGED <<config, app, resolvedAppID>>

\* decodeJSON and its inline forms: what the method makes of the answer.
Outcome(op, status, body) ==
    IF status \in op.ok
    THEN IF body \in op.decodes THEN "value" ELSE "error"
    ELSE IF \E n \in op.named : n.status = status /\ body \in n.bodies
         THEN (CHOOSE n \in op.named : n.status = status /\ body \in n.bodies).is
         ELSE "error"

Decode(c) ==
    /\ call[c].pc = "answered"
    /\ Return(c, Outcome(call[c].op, call[c].status, call[c].body))
    /\ UNCHANGED <<config, app, resolvedAppID>>

Again(c) ==
    /\ call[c].pc = "done"
    /\ call' = [call EXCEPT ![c] = Idle]
    /\ UNCHANGED <<config, app, resolvedAppID>>

\* The application is deleted and registered again.
Reregister == app < MaxApp /\ app' = app + 1 /\ UNCHANGED <<config, resolvedAppID, call>>

Next ==
    \/ Reregister
    \/ \E c \in Callers :
         \/ Begin(c) \/ getAppID(c) \/ NotSent(c) \/ ListAnswered(c) \/ parseAppID(c)
         \/ ListRefused(c) \/ ListUnauthorised(c) \/ StoreAppID(c) \/ Send(c)
         \/ Handle(c) \/ Lose(c) \/ Decode(c) \/ Again(c)

Spec == NewClient /\ [][Next]_vars

----------------------------------------------------------------------------
\* What a result other than an error tells the caller about the server.
Meaning(op, result) ==
    CASE result = "value" -> {"done"}
      [] result = "absent" -> IF op = GetCurrentUserProfile
                              THEN {"absent", "unauthorised"} ELSE {"absent"}
      [] result = "notInApp" -> {"absent"}
      [] result \in {"invalid", "rejected"} -> {"invalid"}
      [] result = "denied" -> {"unauthorised"}
      [] OTHER -> {result}

\* No operation misreports the server: a nil user is a user that is not there
\* and never a route the server does not have, ErrUserAlreadyExists is an
\* existing user, and so on for every result that is not a plain error.
ResultsAreTrue ==
    \A c \in Callers : call[c].pc = "done" /\ call[c].result # "error"
        => call[c].why \in Meaning(call[c].op, call[c].result)

\* No call acts twice, whatever is lost: doHTTP sends once, and a caller that
\* is given an error can only fear that its call did act.
ActsAtMostOnce ==
    [][\A c \in Callers : call[c].effects = 1 => call'[c].pc \notin {"send", "sent"}]_vars

\* A finished call has closed every body it was given, except at the 401 that
\* answers the lookup of a service-account call.
BodiesClosed ==
    \A c \in Callers : call[c].pc = "done" /\ call[c].open > 0
        => call[c].op.cred = "service" /\ call[c].status = 401 /\ ~configured

\* An application's users are only sought under an ID that is, or was, ours,
\* though the server lists the other application too, before ours or without it
\* (parseAppID compares every ClientID).
NeverAnotherApp == resolvedAppID # Other /\ \A c \in Callers : call[c].path # Other

\* With ClientConfig.AppID set no call, user or service, looks the ID up.
NoLookupWhenConfigured ==
    configured => \A c \in Callers : call[c].pc \notin {"lookup", "listed", "store"}

\* "Is the client safe to share across goroutines? Yes.": no request is made
\* with a half-written application ID.
SafeToShare == \A c \in Callers : call[c].pc = "sent" => call[c].path # Torn
=============================================================================
