------------------------------ MODULE Fixtures ------------------------------
(***************************************************************************)
(* JSON documents and the fixtures of package conformance: the shapes of   *)
(* Socrate's tokens and responses with placeholders for what varies.       *)
(*                                                                         *)
(* A JSON value is a record with one field, named for its type.  A string, *)
(* and a key, is the sequence of its pieces: the code only ever replaces,  *)
(* compares and recognises whole pieces, such as <issuer> in a URL or <ns> *)
(* in a key.  A string that is a whole placeholder is Ph(kind, arg).       *)
(*                                                                         *)
(* Of the 25 fixtures these 9 have every placeholder in every position;    *)
(* claims that repeat the form of another one are left out.                *)
(***************************************************************************)
EXTENDS Integers, Sequences, TLC

Str(s) == [string |-> s]
Word(w) == Str(<<w>>)
Num(n) == [number |-> n]
Bool(b) == [bool |-> b]
Arr(a) == [array |-> a]
Obj(f) == [object |-> f]
Null == [null |-> "null"]
Ph(kind, arg) == [placeholder |-> kind, arg |-> arg]
P(kind) == Ph(kind, "")

Is(type, v) == type \in DOMAIN v

\* The members r of an object, and members in the claim namespace.
Members(r) == [k \in {<<n>> : n \in DOMAIN r} |-> r[k[1]]]
Namespaced(r) == [k \in {<<"<ns>", n>> : n \in DOMAIN r} |-> r[k[2]]]
Both(f, g) == [k \in DOMAIN f \cup DOMAIN g |-> IF k \in DOMAIN f THEN f[k] ELSE g[k]]

accessAudienceDual == Members(
    [acr |-> Word("pwd"), amr |-> Arr(<<Word("pwd")>>),
     app_roles |-> P("app_roles"), aud |-> Arr(<<P("client_id"), P("audience")>>),
     auth_time |-> P("auth_time"), exp |-> P("exp"), iat |-> P("iat"),
     iss |-> P("issuer"), jti |-> P("jti"), nbf |-> P("nbf"),
     roles |-> Arr(<<P("role")>>), scope |-> Ph("scope", "openid"),
     sub |-> P("sub"), token_version |-> P("token_version")])

accessCustomClaims == Both(
    Namespaced([client |-> P("client_id"), tenant_id |-> P("tenant_id"),
                department |-> Ph("attribute", "department")]),
    Members([exp |-> P("exp"), iat |-> P("iat"), sub |-> P("sub")]))

accessClientCredentialsDpop == Members(
    [aud |-> Arr(<<P("client_id")>>), cnf |-> Obj(Members([jkt |-> P("jkt")])),
     exp |-> P("exp"), iat |-> P("iat"), scope |-> Ph("scope", "api"),
     sub |-> P("app_sub")])

idTokenAuthorizationCode == Members(
    [at_hash |-> P("at_hash"), email |-> P("email"), email_verified |-> Bool(TRUE),
     exp |-> P("exp"), iat |-> P("iat"), name |-> P("name"),
     nonce |-> P("nonce"), sub |-> P("sub")])

refreshTokenAuthorizationCode == Members(
    [exp |-> P("refresh_exp"), iat |-> P("iat"), role |-> P("role"),
     ver |-> P("token_version")])

tokenResponseAuthorizationCode == Members(
    [access_token |-> P("access_token"), expires_in |-> P("expires_in"),
     id_token |-> P("id_token"), refresh_token |-> P("refresh_token"),
     token_type |-> Word("Bearer")])

discovery == Members(
    [issuer |-> P("issuer"), token_endpoint |-> Str(<<"<issuer>", "/oauth/token">>),
     response_types_supported |-> Arr(<<Word("code")>>),
     authorization_response_iss_parameter_supported |-> Bool(TRUE)])

jwks == Members(
    [keys |-> Arr(<<Obj(Members([alg |-> Word("RS256"), e |-> Word("AQAB"),
                                 kid |-> P("kid"), n |-> P("n")]))>>)])

jose_header == Members([alg |-> Word("RS256"), kid |-> P("kid"), typ |-> Word("JWT")])

\* The embedded files by name.
fixtureFS ==
    "access/audience_dual" :> accessAudienceDual
    @@ "access/custom_claims" :> accessCustomClaims
    @@ "access/client_credentials_dpop" :> accessClientCredentialsDpop
    @@ "id_token/authorization_code" :> idTokenAuthorizationCode
    @@ "refresh_token/authorization_code" :> refreshTokenAuthorizationCode
    @@ "token_response/authorization_code" :> tokenResponseAuthorizationCode
    @@ "discovery" :> discovery
    @@ "jwks" :> jwks
    @@ "jose_header" :> jose_header

\* Params with no field set.
Unset == [Issuer |-> <<>>, ClientID |-> <<>>, Audiences |-> <<>>,
          Subject |-> <<>>, AppID |-> <<>>, Role |-> <<>>, Email |-> <<>>,
          Name |-> <<>>, Scope |-> <<>>, Nonce |-> <<>>, TenantID |-> <<>>,
          Attributes |-> [nil |-> TRUE, of |-> <<>>],
          ClaimsNamespace |-> <<>>, TokenVersion |-> 0, JKT |-> <<>>,
          Now |-> 0, AuthTime |-> 0, TTL |-> 0, RefreshTTL |-> 0,
          AccessToken |-> <<>>, RefreshToken |-> <<>>, IDToken |-> <<>>,
          Keys |-> <<>>]
=============================================================================
