--------------------------- MODULE Authorisation ---------------------------
(***************************************************************************)
(* One request on its way through the access-control chain of a service:   *)
(* jwtauth.Middleware.Handler (jwtauth/middleware.go), then RequireTenant  *)
(* and RBAC.Require (httpware), Gate.Require and PolicyService.IsAllowed   *)
(* (tiering).  The middleware is built by New from any list of options.    *)
(*                                                                         *)
(* The checks of one request are separate steps: fetching a key and asking *)
(* the revocation checker block, so time passes and the token may be       *)
(* revoked between them.  The key lookup itself is module Jwks.            *)
(***************************************************************************)
EXTENDS Integers, SequencesExt

CONSTANTS
    OptionLists,    \* the lists of options New may be given
    Tokens,         \* the bearer tokens a request may carry
    Routes,         \* [perm, minPlan, plans]: how the route is protected
    RoleMap,        \* the permissions of each role
    Tenants,
    Blank,          \* an empty or blank string
    None,           \* a claim or a context value that is absent
    NilID,          \* the zero UUID
    NotUUID, NotString,
    Leeway, MaxTime

VARIABLES
    opts,       \* the options New was given
    m,          \* the middleware
    route,
    now,
    revoked,    \* whether the token's session has been ended at the issuer
    req

vars == <<opts, m, route, now, revoked, req>>

----------------------------------------------------------------------------
(* Options of New.                                                         *)

WithAudience(mw, v) ==
    [mw EXCEPT !.audiences = {v} \ {Blank}, !.audienceSet = v # Blank]

\* Fault: an empty set disables the check.
WithAudiencesOptional(mw, vs) ==
    [mw EXCEPT !.audiences = vs \ {Blank}, !.audienceSet = vs \ {Blank} # {}]

WithAudiences(mw, vs) ==
    [mw EXCEPT !.audiences = vs \ {Blank}, !.audienceSet = TRUE]

WithTenantClaim(mw, v) ==
    [mw EXCEPT !.tenantClaim = v, !.tenantClaimSet = TRUE]

RequireScopes(mw, vs) ==
    [mw EXCEPT !.requiredScopes = vs \ {Blank}, !.requiredScopesSet = TRUE]

WithRevocationCheck(mw) == [mw EXCEPT !.revocationCheck = TRUE]

\* The options are applied in order.
New(os) ==
    LET apply(mw, o) ==
          CASE o.opt = "WithAudience"        -> WithAudience(mw, o.v)
            [] o.opt = "WithAudiences"       -> WithAudiences(mw, o.v)
            [] o.opt = "WithTenantClaim"     -> WithTenantClaim(mw, o.v)
            [] o.opt = "RequireScopes"       -> RequireScopes(mw, o.v)
            [] o.opt = "WithRevocationCheck" -> WithRevocationCheck(mw)
    IN  FoldLeft(apply,
          [audiences |-> {}, audienceSet |-> FALSE,
           tenantClaim |-> Blank, tenantClaimSet |-> FALSE,
           requiredScopes |-> {}, requiredScopesSet |-> FALSE,
           revocationCheck |-> FALSE], os)

----------------------------------------------------------------------------
(* Claims.  A scope claim is a set of scopes, None or NotString.           *)

\* scopeClaims: the union of scope and scp; NotString is the error.
scopeClaims(t) ==
    IF NotString \in {t.scope, t.scp}
    THEN NotString
    ELSE UNION ({t.scope, t.scp} \ {None})

\* missingScopes returns a non-nil slice.
missingScopes(t) ==
    \/ m.requiredScopes = {}
    \/ scopeClaims(t) = NotString
    \/ ~ m.requiredScopes \subseteq scopeClaims(t)

\* TenantID of the validated claims.
tenantOf(t) == IF m.tenantClaimSet THEN t.named ELSE t.tenantID

\* validateToken accepts the token.
validateToken(t) ==
    /\ t.signed /\ t.exp # None /\ now < t.exp + Leeway
    /\ t.tenantID # NotString
    /\ m.audienceSet => t.aud \cap m.audiences # {}
    /\ m.tenantClaimSet => m.tenantClaim # Blank /\ t.named # NotString

acceptedAudiences(t) ==
    IF m.audienceSet THEN t.aud \cap m.audiences ELSE t.aud \ {Blank}

----------------------------------------------------------------------------
(* Plans, lowest first; a repeated name counts where it first occurs.      *)

Index(plans, p) == SelectInSeq(plans, LAMBDA q : q = p)

TierAtLeast(plans, current, required) ==
    /\ Index(plans, current) # 0 /\ Index(plans, required) # 0
    /\ Index(plans, current) >= Index(plans, required)

Normalise(plans, p) == IF Index(plans, p) # 0 THEN p ELSE Head(plans)

GetUserPlan(plan) == IF plan = None THEN "freemium" ELSE plan

\* The column of a FeaturePolicy.
DefaultPlanSelector(plan) ==
    IF plan \in {"pro", "enterprise"} THEN plan ELSE "freemium"

----------------------------------------------------------------------------
Nobody == [tenant |-> None, aud |-> {}, scopes |-> {}, role |-> None,
           plan |-> None]

Idle == [pc |-> "idle", token |-> None, ctx |-> Nobody, out |-> None,
         at |-> 0,              \* history: when the token was validated
         ended |-> FALSE,       \* history: revoked when the request arrived
         checker |-> None,      \* history: the tenant the checker was shown,
                                \* or that it failed
         policy |-> None]       \* the rules and the column of IsAllowed

Init ==
    /\ opts \in OptionLists /\ m = New(opts)
    /\ route \in Routes
    /\ now = 0 /\ revoked = FALSE /\ req = Idle

Reject(code) == req' = [req EXCEPT !.pc = "done", !.out = code]

\* A request with a bearer token arrives, or one without (None).
Arrive(t) ==
    /\ req.pc = "idle"
    /\ req' = [req EXCEPT !.pc = "validate", !.token = t, !.ended = revoked]
    /\ UNCHANGED <<opts, m, route, now, revoked>>

\* extractBearer and validateToken.
Validate ==
    /\ req.pc = "validate"
    /\ IF req.token # None /\ validateToken(req.token)
       THEN req' = [req EXCEPT !.pc = "revocation", !.at = now]
       ELSE Reject(401)
    /\ UNCHANGED <<opts, m, route, now, revoked>>

\* The revocation checker, if any: an error of its own refuses the token too.
CheckRevocation ==
    /\ req.pc = "revocation"
    /\ \/ ~ m.revocationCheck /\ req' = [req EXCEPT !.pc = "admit"]
       \/ /\ m.revocationCheck /\ ~ revoked
          /\ req' = [req EXCEPT !.pc = "admit", !.checker = tenantOf(req.token)]
       \/ m.revocationCheck /\ revoked /\ Reject(401)
       \/ /\ m.revocationCheck
          /\ req' = [req EXCEPT !.pc = "done", !.out = 401, !.checker = "failed"]
    /\ UNCHANGED <<opts, m, route, now, revoked>>

\* The rest of Handler: scopes, tenant, and the identity for the handlers.
Admit ==
    /\ req.pc = "admit"
    /\ LET t == req.token
       IN  IF m.requiredScopesSet /\ missingScopes(t)
           THEN Reject(403)
           ELSE IF tenantOf(t) = NotUUID
           THEN Reject(401)
           ELSE req' = [req EXCEPT !.pc = "tenant",
                  !.ctx = [tenant |-> tenantOf(t), aud |-> acceptedAudiences(t),
                           scopes |-> IF scopeClaims(t) = NotString THEN {}
                                      ELSE scopeClaims(t),
                           role |-> t.role, plan |-> t.plan]]
    /\ UNCHANGED <<opts, m, route, now, revoked>>

RequireTenant ==
    /\ req.pc = "tenant"
    /\ IF req.ctx.tenant \in {None, NilID}
       THEN Reject(401)
       ELSE req' = [req EXCEPT !.pc = "rbac"]
    /\ UNCHANGED <<opts, m, route, now, revoked>>

hasPermission(role, perm) ==
    role \in DOMAIN RoleMap /\ perm \in RoleMap[role]

RBACRequire ==
    /\ req.pc = "rbac"
    /\ IF hasPermission(req.ctx.role, route.perm)
       THEN req' = [req EXCEPT !.pc = "gate"]
       ELSE Reject(403)
    /\ UNCHANGED <<opts, m, route, now, revoked>>

GateRequire ==
    /\ req.pc = "gate"
    /\ LET userPlan == Normalise(route.plans, GetUserPlan(req.ctx.plan))
       IN  IF TierAtLeast(route.plans, userPlan, route.minPlan)
           THEN req' = [req EXCEPT !.pc = "handler"]
           ELSE Reject(403)
    /\ UNCHANGED <<opts, m, route, now, revoked>>

\* The handler asks IsAllowed about a feature whose rules are the columns
\* that allow it, or that cannot be read (None): then it is denied.
IsAllowed(rules) ==
    /\ req.pc = "handler"
    /\ LET column == DefaultPlanSelector(
                       Normalise(route.plans, GetUserPlan(req.ctx.plan)))
       IN  req' = [req EXCEPT !.pc = "done", !.out = 200, !.policy =
                     [rules |-> rules, column |-> column,
                      allowed |-> rules # None /\ column \in rules]]
    /\ UNCHANGED <<opts, m, route, now, revoked>>

\* The issuer ends the session of the token.
Revoke ==
    /\ ~ revoked /\ revoked' = TRUE
    /\ UNCHANGED <<opts, m, route, now, req>>

Tick ==
    /\ now < MaxTime /\ now' = now + 1
    /\ UNCHANGED <<opts, m, route, revoked, req>>

Next ==
    \/ \E t \in Tokens \cup {None} : Arrive(t)
    \/ Validate \/ CheckRevocation \/ Admit
    \/ RequireTenant \/ RBACRequire \/ GateRequire
    \/ \E rules \in {None, {}, {"freemium"}, {"pro", "enterprise"}} :
         IsAllowed(rules)
    \/ Revoke \/ Tick

Spec == Init /\ [][Next]_vars

----------------------------------------------------------------------------
TypeOK ==
    /\ m.audienceSet \in BOOLEAN /\ Blank \notin m.audiences \cup m.requiredScopes
    /\ now \in 0 .. MaxTime /\ revoked \in BOOLEAN
    /\ req.pc \in {"idle", "validate", "revocation", "admit", "tenant", "rbac",
                   "gate", "handler", "done"}
    /\ req.at \in 0 .. MaxTime /\ req.out \in {None, 200, 401, 403}
    /\ req.ctx.tenant \in Tenants \cup {None, NilID}

\* What the options promise, read off the list: the last of a kind counts.
LastOf(kinds) ==
    LET of == SelectSeq(opts, LAMBDA o : o.opt \in kinds)
    IN  IF of = <<>> THEN None ELSE Last(of)

AudienceMeant(t) ==
    LET o == LastOf({"WithAudience", "WithAudiences"})
    IN  \/ o = None
        \/ o # None /\ o.opt = "WithAudience" /\ o.v \in t.aud \cup {Blank}
        \/ o # None /\ o.opt = "WithAudiences" /\ (o.v \ {Blank}) \cap t.aud # {}

ScopesMeant(t) ==
    LET o == LastOf({"RequireScopes"})
        claims == {t.scope, t.scp}
    IN  o # None => /\ o.v \ {Blank} # {} /\ NotString \notin claims
                    /\ \A s \in o.v \ {Blank} : \E c \in claims \ {None} : s \in c

TenantMeant(t) ==
    LET o == LastOf({"WithTenantClaim"})
    IN  IF o = None THEN t.tenantID ELSE IF o.v = Blank THEN None ELSE t.named

RankOf(p) == LET k == {i \in DOMAIN route.plans : route.plans[i] = p}
             IN  IF k = {} THEN 1 ELSE CHOOSE i \in k : \A j \in k : i <= j

\* The token entitles its bearer to the route, whenever it is looked at.
Entitled(t) ==
    /\ t # None
    /\ t.signed /\ t.exp # None
    /\ AudienceMeant(t) /\ ScopesMeant(t) /\ TenantMeant(t) \in Tenants
    /\ hasPermission(t.role, route.perm)
    /\ route.minPlan \in Range(route.plans)
    /\ RankOf(GetUserPlan(t.plan)) >= RankOf(route.minPlan)

Served == req.pc = "handler" \/ req.out = 200

\* Only an entitled request reaches the handler, with a token that was live when
\* it was validated and, if there is a revocation checker, that the checker had
\* found live, for a session not ended before the request came.  The chain is
\* spread over Handler, RequireTenant, RBAC.Require and Gate.Require, and the
\* options that carry no usable value (jwtauth/middleware.go:211, 273, 297) must
\* close it, not open it.
ServedIsEntitled ==
    Served =>
        /\ Entitled(req.token) /\ req.at < req.token.exp + Leeway
        /\ LastOf({"WithRevocationCheck"}) # None => ~req.ended /\ req.checker # None

\* The claims do not decode into SocrateClaims, whose TenantID is a string
\* (jwtauth/middleware.go:64), whichever claim the tenant is read from.
Undecodable(t) == t.tenantID = NotString

\* A request is refused only for a reason: the bearer is not entitled, the token
\* ran out, its session was ended, the checker failed, or the token does not
\* decode.  The last is a reason that the documentation of WithTenantClaim does
\* not give: see PlainTenantIgnored.
RefusedForCause ==
    req.out \in {401, 403} =>
        \/ ~ Entitled(req.token)
        \/ now >= req.token.exp + Leeway
        \/ Undecodable(req.token)
        \/ LastOf({"WithRevocationCheck"}) # None
           /\ (revoked \/ req.checker = "failed")

\* "With this option, the named claim replaces SocrateClaims.TenantID [...] and a
\* plain tenant_id claim is ignored" (jwtauth/middleware.go:266-268): no refusal
\* of an entitled, live token comes from its plain tenant_id.  Not so when that
\* claim is no string, for it is decoded before it is replaced.
PlainTenantIgnored ==
    req.out \in {401, 403} /\ LastOf({"WithTenantClaim"}) # None =>
        \/ ~ Entitled(req.token)
        \/ now >= req.token.exp + Leeway
        \/ LastOf({"WithRevocationCheck"}) # None
           /\ (revoked \/ req.checker = "failed")

\* The handlers, the revocation checker and the options agree on one tenant,
\* and the handlers see no audience the token was not accepted for
\* (jwtauth/middleware.go:266-268, 485).
OneIdentity ==
    Served =>
        /\ req.ctx.tenant = TenantMeant(req.token)
        /\ req.checker \in {None, req.ctx.tenant}
        /\ req.ctx.aud \subseteq req.token.aud
        /\ LastOf({"WithAudience", "WithAudiences"}) # None
              => \A a \in req.ctx.aud :
                   LET o == LastOf({"WithAudience", "WithAudiences"})
                   IN  IF o.opt = "WithAudience" THEN o.v \in {a, Blank}
                       ELSE a \in o.v

\* A feature is allowed only to a plan its rules allow, when the registry's plans
\* are the three columns: PolicyService.ruleFor and Gate.Require place an unknown
\* plan alike, and unreadable rules deny (tiering/policy_service.go:102-110).
AllowedByItsPlan ==
    req.out = 200 /\ req.policy.allowed
      /\ Range(route.plans) = {"freemium", "pro", "enterprise"} =>
        /\ req.policy.rules # None
        /\ route.plans[RankOf(GetUserPlan(req.token.plan))] \in req.policy.rules

\* DefaultPlanSelector "maps freemium->Freemium, pro->Pro, else->Enterprise"
\* (tiering/policy.go:93).
SelectorAsDocumented ==
    req.out = 200 =>
        LET plan == Normalise(route.plans, GetUserPlan(req.ctx.plan))
        IN  req.policy.column =
              CASE plan = "freemium" -> "freemium"
                [] plan = "pro"      -> "pro"
                [] OTHER             -> "enterprise"
=============================================================================
