----------------------------- MODULE MCJwtauth -----------------------------
(***************************************************************************)
(* The two halves of jwtauth, the key cache (Jwks) and the chain a request *)
(* takes with its validated token (Authorisation), and the fixtures that   *)
(* its tests and mocks are held to (Conformance).  They share no state, so *)
(* one part moves in each behaviour and the others rest.                   *)
(***************************************************************************)
EXTENDS Jwks, SequencesExt, ConformanceCases

CONSTANTS Blank, NilID, NotUUID, NotString

VARIABLES half, opts, m, route, clock, revoked, carried,
          pc, name, p, q, doc, edited, diffs, token

chainVars == <<opts, m, route, clock, revoked, carried>>
docVars == <<pc, name, p, q, doc, edited, diffs, token>>

----------------------------------------------------------------------------
(* The instance of the chain.                                              *)

AllOptions ==
         {[opt |-> "WithAudience", v |-> v] : v \in {Blank, "app"}}
    \cup {[opt |-> "WithAudiences", v |-> v] : v \in {{Blank}, {"app", "job"}}}
    \cup {[opt |-> "WithTenantClaim", v |-> v] : v \in {Blank, "named"}}
    \cup {[opt |-> "RequireScopes", v |-> v] : v \in {{Blank}, {"read", Blank}}}
    \cup {[opt |-> "WithRevocationCheck", v |-> Blank]}

\* Up to two options in either order, and two full configurations.
SmallOptionLists ==
    SeqOf(AllOptions, 2) \cup
    { <<[opt |-> "WithAudience", v |-> "app"],
        [opt |-> "WithTenantClaim", v |-> v],
        [opt |-> "RequireScopes", v |-> {"read"}],
        [opt |-> "WithRevocationCheck", v |-> Blank]>> : v \in {Blank, "named"} }

GoodToken == [signed |-> TRUE, exp |-> 1, aud |-> {"app", "web"},
              scope |-> {"read"}, scp |-> None, tenantID |-> "t1",
              named |-> "t2", role |-> "editor", plan |-> "pro"]

Variants(f) ==
    CASE f = "signed"   -> {FALSE}
      [] f = "exp"      -> {None, 0}
      [] f = "aud"      -> {{}, {"web"}}
      [] f = "scope"    -> {None, NotString}
      [] f = "scp"      -> {{"read", "write"}, NotString}
      [] f = "tenantID" -> {None, NilID, NotUUID, NotString}
      [] f = "named"    -> {None, NilID, NotUUID, NotString}
      [] f = "role"     -> {None, "viewer", "guest"}
      [] f = "plan"     -> {None, "freemium", "enterprise", "ultimate", "gold"}

\* Tokens that differ from a good one in one claim, or in two that are read
\* together.
NearTokens ==
    LET one(t, F) == UNION {{[t EXCEPT ![f] = v] : v \in Variants(f)} : f \in F}
        both(f, g) == UNION {one(t, {g}) : t \in one(GoodToken, {f})}
    IN  {GoodToken} \cup one(GoodToken, DOMAIN GoodToken)
        \cup both("tenantID", "named") \cup both("scope", "scp")
        \cup both("role", "plan") \cup both("aud", "exp")

SmallRoleMap == [editor |-> {"read", "write"}, viewer |-> {"read"}]

SmallRoutes ==
    LET default == <<"freemium", "pro", "enterprise">>
    IN  { [perm |-> "write", minPlan |-> "freemium", plans |-> default],
          [perm |-> "read", minPlan |-> "misspelt", plans |-> default],
          [perm |-> "write", minPlan |-> "pro",
           plans |-> <<"starter", "pro", "starter", "ultimate">>] }

Chain == INSTANCE Authorisation WITH
    OptionLists <- SmallOptionLists, Tokens <- NearTokens,
    Routes <- SmallRoutes, RoleMap <- SmallRoleMap, Tenants <- {"t1", "t2"},
    Leeway <- 1, MaxTime <- 1, now <- clock, req <- carried

Docs == INSTANCE Conformance WITH
    LoadParams <- MCLoadParams, MatchParams <- MCMatchParams,
    SigningKeys <- MCSigningKeys,
    Decimals <- {"42", "7", "99"}, UUIDs <- {"uuid", "uuid2"},
    JWSs <- {"a.b.c", "d.e.f", "g.h.i"}, Emails <- {"user@example.com", "a@b"},
    Thumbprints <- {"random32", "thumbprint"},
    B64s <- {"random12", "random16", "random32", "hash16", "thumbprint", "n1", "n2"},
    Clock <- 20, MaxEdits <- 1

----------------------------------------------------------------------------
AtRest(v) == v = None

MCInit ==
    /\ Init /\ Docs!Init
    /\ half \in {"keys", "chain", "docs"}
    /\ half # "keys" => published = Kids /\ ~faulty
    /\ IF half = "chain" THEN Chain!Init
       ELSE /\ AtRest(opts) /\ AtRest(m) /\ AtRest(route)
            /\ AtRest(clock) /\ AtRest(revoked) /\ AtRest(carried)

MCNext ==
    \/ half = "keys" /\ Next /\ UNCHANGED <<half, chainVars, docVars>>
    \/ half = "chain" /\ Chain!Next /\ UNCHANGED <<half, vars, docVars>>
    \/ half = "docs" /\ Docs!Next /\ UNCHANGED <<half, vars, chainVars>>

MCSpec == MCInit /\ [][MCNext]_<<half, vars, chainVars, docVars>>

Symmetry == Permutations(Requests) \cup Permutations(Kids)

----------------------------------------------------------------------------
(* The properties of chain and fixtures, stated and explained in           *)
(* Authorisation, in Conformance and in Jwks.                              *)

\* Only an entitled request with a live, unrevoked token reaches the handler,
\* and a request is refused only for a reason (one of them, a plain tenant_id that
\* is no string under WithTenantClaim, is against the documentation: see
\* PlainTenantIgnored of Authorisation, which does not hold); handlers, revocation checker and options agree on its tenant and audiences;
\* and a feature is allowed only to a plan whose rules allow it.
ServedIffEntitled ==
    half = "chain" => /\ Chain!ServedIsEntitled /\ Chain!RefusedForCause
                      /\ Chain!OneIdentity /\ Chain!AllowedByItsPlan

\* Match accepts what Load makes, and what Sign makes verifies against the key
\* set that Load makes.
FixturesAgree == half = "docs" => Docs!LoadedMatches /\ Docs!SignedVerifies

\* Match lists every difference.
DriftIsListed == half = "docs" => Docs!DriftIsListed

\* Both halves stay well-formed, and nobody waits for a key fetch that is over:
\* whoever joined one has a leader that is still fetching (sf.Do in getKey).
Consistent ==
    /\ half = "keys" => TypeOK /\ WaitersHaveALeader
    /\ half = "chain" => Chain!TypeOK
=============================================================================
