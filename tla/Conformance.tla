---------------------------- MODULE Conformance ----------------------------
(***************************************************************************)
(* Package conformance: Load fills a fixture's placeholders from Params,   *)
(* Sign makes a token of the result, and Match says where a document       *)
(* differs from the fixture (conformance.go, match.go).                    *)
(*                                                                         *)
(* The two directions are written independently in the code, placeholder   *)
(* by placeholder; the module runs them one after the other, with a caller *)
(* in between that edits the document the way a server might drift.        *)
(*                                                                         *)
(* An empty string, an empty list and 0 are unset fields of Params.  Times *)
(* and durations are in half seconds; Unix truncates.  Random values are   *)
(* fixed strings of the form they have.                                    *)
(***************************************************************************)
EXTENDS Fixtures, FiniteSets, SequencesExt

CONSTANTS
    LoadParams,         \* the Params that are passed to Load and Sign
    MatchParams(_),     \* the Params passed to Match after Load with p
    SigningKeys,        \* the keys passed to Sign
    Decimals, UUIDs, JWSs, Emails, Thumbprints, B64s, \* strings by their form
    Clock,              \* time.Now
    MaxEdits            \* bound on the caller's changes to a document

VARIABLES
    pc,
    name, p, q,     \* the fixture, the Params of Load and of Match
    doc,            \* the document, an object's members, or an error
    edited,         \* the keys the caller has changed
    diffs,          \* the paths that Match reports
    token           \* what Sign returned: header, claims, the key's modulus

vars == <<pc, name, p, q, doc, edited, diffs, token>>

Failed == [error |-> TRUE]
NoToken == [header |-> Failed, claims |-> Failed, n |-> ""]

----------------------------------------------------------------------------
(* Load                                                                    *)

or(v, def) == IF v # <<>> THEN v ELSE def

clientID(r) == or(r.ClientID, <<"my-app">>)
role(r) == or(r.Role, <<"user">>)
ns(r) == or(r.ClaimsNamespace, <<"https://socrate/">>)
issuer(r) == or(r.Issuer, <<"https://socrate.example.com">>)
ttl(r) == IF r.TTL > 0 THEN r.TTL ELSE 4
refreshTTL(r) == IF r.RefreshTTL > 0 THEN r.RefreshTTL ELSE 8
nowOf(r) == IF r.Now = 0 THEN Clock ELSE r.Now

Unix(t) == t \div 2

\* strings.ReplaceAll of the piece old by the string new.
Replaced(s, old, new) ==
    FlattenSeq([i \in DOMAIN s |-> IF s[i] = old THEN new ELSE <<s[i]>>])

TokenOf(r, kind) ==
    CASE kind = "access_token" -> r.AccessToken
      [] kind = "refresh_token" -> r.RefreshToken
      [] kind = "id_token" -> r.IDToken

value(r, kind, arg) ==
    CASE kind = "issuer" -> Str(issuer(r))
      [] kind = "client_id" -> Str(clientID(r))
      [] kind = "sub" -> Str(or(r.Subject, <<"42">>))
      [] kind = "app_sub" -> Str(<<"app:">> \o or(r.AppID, <<"7">>))
      [] kind = "role" -> Str(role(r))
      [] kind = "app_roles" -> Obj(clientID(r) :> Str(role(r)))
      [] kind = "email" -> Str(or(r.Email, <<"user@example.com">>))
      [] kind = "name" -> Str(or(r.Name, <<"Example User">>))
      [] kind = "nonce" -> Str(or(r.Nonce, <<"random12">>))
      [] kind = "tenant_id" -> Str(or(r.TenantID, <<"uuid">>))
      [] kind = "attribute" ->
           LET attrs == IF r.Attributes.nil
                        THEN "department" :> Word("engineering")
                        ELSE r.Attributes.of
           IN  IF arg \in DOMAIN attrs THEN attrs[arg] ELSE Failed
      [] kind = "scope" -> Str(or(r.Scope, <<arg>>))
      [] kind \in {"iat", "nbf"} -> Num(Unix(nowOf(r)))
      [] kind = "auth_time" ->
           Num(Unix(IF r.AuthTime # 0 THEN r.AuthTime ELSE nowOf(r)))
      [] kind = "exp" -> Num(Unix(nowOf(r) + ttl(r)))
      [] kind = "refresh_exp" -> Num(Unix(nowOf(r) + refreshTTL(r)))
      [] kind = "expires_in" -> Num(Unix(ttl(r)))
      [] kind = "jti" -> Word("uuid")
      [] kind = "kid" -> IF r.Keys # <<>> /\ r.Keys[1].ID # <<>>
                         THEN Str(r.Keys[1].ID) ELSE Word("uuid")
      [] kind = "token_version" ->
           Num(IF r.TokenVersion > 0 THEN r.TokenVersion ELSE 1)
      [] kind = "at_hash" -> Word(IF r.AccessToken # <<>> THEN "hash16" ELSE "random16")
      [] kind = "jkt" -> Str(or(r.JKT, <<"random32">>))
      [] kind \in {"access_token", "refresh_token", "id_token"} ->
           IF TokenOf(r, kind) # <<>> THEN Str(TokenOf(r, kind)) ELSE Failed
      [] OTHER -> Failed

RECURSIVE resolve(_, _)
\* The elements that one element of an array becomes.
Element(r, v) ==
    IF v = P("audience")
    THEN LET auds == or(r.Audiences, << <<"https://api.example.com">> >>)
         IN  [i \in DOMAIN auds |-> Str(auds[i])]
    ELSE <<resolve(r, v)>>

\* An error anywhere is the result.
resolve(r, v) ==
    CASE Is("object", v) ->
           LET f == v.object
               key(k) == Replaced(k, "<ns>", ns(r))
               g == [k \in {key(j) : j \in DOMAIN f} |->
                       resolve(r, f[CHOOSE j \in DOMAIN f : key(j) = k])]
           IN  IF Failed \in {g[k] : k \in DOMAIN g} THEN Failed ELSE Obj(g)
      [] Is("array", v) ->
           LET a == FlattenSeq([i \in DOMAIN v.array |-> Element(r, v.array[i])])
           IN  IF Failed \in ToSet(a) THEN Failed ELSE Arr(a)
      [] Is("string", v) -> Str(Replaced(v.string, "<issuer>", issuer(r)))
      [] Is("placeholder", v) -> value(r, v.placeholder, v.arg)
      [] OTHER -> v

\* The key template once per key.
resolveJWKS(r, d) ==
    LET tmpl == d[<<"keys">>].array[1].object
        entry(k) == [m \in DOMAIN tmpl |->
                       CASE tmpl[m] = P("kid") -> Str(k.ID)
                         [] tmpl[m] = P("n") -> Word(k.n)
                         [] OTHER -> tmpl[m]]
        usable(k) == k.private /\ k.ID # <<>> /\ Word(k.e) = entry(k)[<<"e">>]
    IN  IF r.Keys = <<>> \/ \E i \in DOMAIN r.Keys : ~usable(r.Keys[i])
        THEN Failed
        ELSE Obj(Members([keys |-> Arr([i \in DOMAIN r.Keys |->
                                          Obj(entry(r.Keys[i]))])]))

Load(n, r) ==
    LET d == fixtureFS[n] IN
    CASE n \notin DOMAIN fixtureFS -> Failed
      [] n = "jwks" -> resolveJWKS(r, d)
      [] OTHER -> resolve(r, Obj(d))

----------------------------------------------------------------------------
(* Match: the set of the paths at which it reports a difference.           *)

Form(s, words) == Len(s) = 1 /\ s[1] \in words
reDecimal(s) == Form(s, Decimals)
reAppSub(s) == Len(s) = 2 /\ s[1] = "app:" /\ s[2] \in Decimals
reUUID(s) == Form(s, UUIDs)
reB64URL(s) == Form(s, B64s)
reJWS(s) == Form(s, JWSs)
reEmail(s) == Form(s, Emails)
NotEmpty(s) == s # <<>>

\* A string: the exact one if given, otherwise one that Ok accepts.
str(got, Ok(_), exact) ==
    Is("string", got) /\ IF exact # <<>> THEN got.string = exact ELSE Ok(got.string)

integer(got, min) == Is("number", got) /\ got.number >= min

\* app_roles: a role for every client, and for ClientID the Role.
appRoles(r, got) ==
    /\ Is("object", got) /\ DOMAIN got.object # {}
    /\ \A k \in DOMAIN got.object : str(got.object[k], NotEmpty, <<>>)
    /\ r.ClientID # <<>> =>
         /\ r.ClientID \in DOMAIN got.object
         /\ r.Role # <<>> => got.object[r.ClientID] = Str(r.Role)

\* Whether got satisfies the placeholder.
rule(r, kind, arg, got) ==
    CASE kind = "issuer" -> str(got, NotEmpty, r.Issuer)
      [] kind = "client_id" -> str(got, NotEmpty, r.ClientID)
      [] kind = "sub" -> str(got, reDecimal, r.Subject)
      [] kind = "app_sub" ->
           str(got, reAppSub, IF r.AppID # <<>> THEN <<"app:">> \o r.AppID ELSE <<>>)
      [] kind = "role" -> str(got, NotEmpty, r.Role)
      [] kind = "email" -> str(got, reEmail, r.Email)
      [] kind = "name" -> str(got, NotEmpty, r.Name)
      [] kind = "nonce" -> str(got, NotEmpty, r.Nonce)
      [] kind = "tenant_id" -> str(got, reUUID, r.TenantID)
      [] kind \in {"jti", "kid"} -> str(got, reUUID, <<>>)
      [] kind \in {"at_hash", "n"} -> str(got, reB64URL, <<>>)
      [] kind = "jkt" -> str(got, LAMBDA s : Form(s, Thumbprints), r.JKT)
      [] kind \in {"access_token", "refresh_token", "id_token"} ->
           /\ str(got, reJWS, <<>>)
           /\ TokenOf(r, kind) # <<>> => got.string = TokenOf(r, kind)
      [] kind = "scope" -> str(got, NotEmpty, or(r.Scope, <<arg>>))
      [] kind = "attribute" ->
           got # Null /\ (arg \in DOMAIN r.Attributes.of => got = r.Attributes.of[arg])
      [] kind = "token_version" ->
           IF r.TokenVersion > 0 THEN got = Num(r.TokenVersion) ELSE integer(got, 1)
      [] kind = "app_roles" -> appRoles(r, got)
      [] kind \in {"iat", "nbf", "auth_time", "exp", "refresh_exp", "expires_in"} ->
           integer(got, 1)
      [] OTHER -> FALSE

\* A literal string.  Without an Issuer, whatever stands between what precedes
\* and what follows <issuer> will do.
literal(r, w, got) ==
    /\ Is("string", got)
    /\ \/ got.string = (IF r.Issuer # <<>> THEN Replaced(w, "<issuer>", r.Issuer) ELSE w)
       \/ /\ r.Issuer = <<>> /\ "<issuer>" \in ToSet(w)
          /\ LET i == CHOOSE i \in DOMAIN w :
                        w[i] = "<issuer>" /\ \A j \in 1 .. i - 1 : w[j] # "<issuer>"
             IN  /\ IsPrefix(SubSeq(w, 1, i - 1), got.string)
                 /\ IsSuffix(SubSeq(w, i + 1, Len(w)), got.string)
                 /\ Len(got.string) > Len(w) - 1

RECURSIVE match(_, _, _, _)
At(path) == Append(path, <<"[]">>)   \* an element of an array

\* Every element of g against the one template.
matchEach(r, path, w, g) ==
    UNION {match(r, At(path), w, g[i]) : i \in DOMAIN g}

\* The elements of w, one by one.
matchFixed(r, path, w, g) ==
    UNION {match(r, At(path), w[i], g[i]) : i \in DOMAIN w}

\* Fault: <audience> stands for one entry.
matchAudiencesOne(r, path, rest) ==
    IF Len(rest) # 1 \/ ~str(rest[1], NotEmpty,
                             IF r.Audiences # <<>> THEN r.Audiences[1] ELSE <<>>)
    THEN {path} ELSE {}

\* The registered audiences, or any.
matchAudiences(r, path, rest) ==
    LET text(v) == IF Is("string", v) THEN v.string ELSE <<>>
        bad(j) == IF r.Audiences # <<>> THEN text(rest[j]) # r.Audiences[j]
                  ELSE text(rest[j]) = <<>>
    IN  IF r.Audiences # <<>> /\ Len(rest) # Len(r.Audiences) THEN {path}
        ELSE {At(path) : j \in {i \in DOMAIN rest : bad(i)}}

matchArray(r, path, w, g) ==
    LET n == Len(w) IN
    CASE path = << <<"keys">> >> /\ n = 1 ->     \* jwks is the one with keys
           IF g = <<>> THEN {path} ELSE matchEach(r, path, w[1], g)
      [] P("audience") \in ToSet(Front(w)) -> {path}
      [] n > 0 /\ w[n] = P("audience") ->
           IF Len(g) < n THEN {path}
           ELSE matchFixed(r, path, Front(w), g)
                \cup matchAudiences(r, path, SubSeq(g, n, Len(g)))
      [] OTHER -> IF Len(g) # n THEN {path} ELSE matchFixed(r, path, w, g)

\* Fault: keys that are not in the fixture pass.
matchObjectAllowsExtra(r, path, w, g) ==
    LET key(k) == Replaced(k, "<ns>", ns(r)) IN
    UNION {IF key(k) \in DOMAIN g
           THEN match(r, Append(path, key(k)), w[k], g[key(k)])
           ELSE {Append(path, key(k))} : k \in DOMAIN w}

\* Missing and extra keys, the values of the others, and exp after iat.
matchObject(r, path, w, g) ==
    LET key(k) == Replaced(k, "<ns>", ns(r))
        has(k) == <<k>> \in DOMAIN g /\ Is("number", g[<<k>>])
    IN  UNION {IF key(k) \in DOMAIN g
               THEN match(r, Append(path, key(k)), w[k], g[key(k)])
               ELSE {Append(path, key(k))} : k \in DOMAIN w}
        \cup {Append(path, k) : k \in DOMAIN g \ {key(j) : j \in DOMAIN w}}
        \cup (IF has("iat") /\ has("exp") /\ g[<<"exp">>].number <= g[<<"iat">>].number
              THEN {Append(path, <<"exp">>)} ELSE {})

match(r, path, w, got) ==
    CASE Is("placeholder", w) ->
           IF rule(r, w.placeholder, w.arg, got) THEN {} ELSE {path}
      [] Is("object", w) ->
           IF Is("object", got) THEN matchObject(r, path, w.object, got.object) ELSE {path}
      [] Is("array", w) ->
           IF Is("array", got) THEN matchArray(r, path, w.array, got.array) ELSE {path}
      [] Is("string", w) -> IF literal(r, w.string, got) THEN {} ELSE {path}
      [] OTHER -> IF got = w THEN {} ELSE {path}

Match(n, d, r) == match(r, <<>>, Obj(fixtureFS[n]), d)

----------------------------------------------------------------------------
(* A test that uses the package.                                           *)

Init ==
    /\ pc = "new" /\ name = "" /\ p = Unset /\ q = Unset
    /\ doc = Failed /\ edited = {} /\ diffs = {} /\ token = NoToken

\* Load, and Discovery and JWKS, which are Load with one field set.
CallLoad(n, r) ==
    /\ pc = "new"
    /\ name' = n /\ p' = r
    /\ doc' = Load(n, r)
    /\ pc' = "loaded"
    /\ UNCHANGED <<q, edited, diffs, token>>

TokenFixtures == {n \in DOMAIN fixtureFS :
    n \notin {"token_response/authorization_code", "discovery", "jwks", "jose_header"}}

Sign(n, r, key) ==
    LET claims == Load(n, r)
        header == Load("jose_header", [Unset EXCEPT !.Keys = <<key>>])
    IN  IF n \notin TokenFixtures \/ ~key.private \/ key.ID = <<>> \/ claims = Failed
        THEN NoToken
        ELSE [header |-> header, claims |-> claims, n |-> key.n]

CallSign(n, r, key) ==
    /\ pc = "new"
    /\ name' = n /\ p' = [r EXCEPT !.Keys = <<key>>]
    /\ token' = Sign(n, r, key)
    /\ pc' = "signed"
    /\ UNCHANGED <<q, doc, edited, diffs>>

\* Values that no claim has, and for an array its first element and one more.
Drifted(v) ==
    ({Null, Num(0), Str(<<>>), Arr(<<>>), Obj(<<>>)}
        \cup IF Is("array", v) THEN {v.array[1], Arr(Append(v.array, Null))} ELSE {})
    \ {v}

\* The caller drops, adds or changes a member, or spells its key differently:
\* without the namespace, or with another ending.
Edit(k) ==
    LET d == doc.object
        rest == DOMAIN d \ {k}
        other == IF Len(k) > 1 THEN Tail(k) ELSE Append(k, "2")
    IN  /\ pc = "loaded" /\ Cardinality(edited) < MaxEdits /\ k \notin edited
        /\ \/ /\ doc' = Obj([j \in rest |-> d[j]])
              /\ edited' = edited \cup {k}
           \/ \E v \in Drifted(d[k]) :
                /\ doc' = Obj([d EXCEPT ![k] = v])
                /\ edited' = edited \cup {k}
           \/ /\ other \notin DOMAIN d
              /\ \/ /\ doc' = Obj([j \in rest \cup {other} |-> d[IF j = other THEN k ELSE j]])
                    /\ edited' = edited \cup {k, other}
                 \/ /\ doc' = Obj([j \in DOMAIN d \cup {other} |-> d[IF j = other THEN k ELSE j]])
                    /\ edited' = edited \cup {other}
        /\ UNCHANGED <<pc, name, p, q, diffs, token>>

CallMatch(r) ==
    /\ pc = "loaded" /\ doc # Failed
    /\ q' = r
    /\ diffs' = Match(name, doc, r)
    /\ pc' = "matched"
    /\ UNCHANGED <<name, p, doc, edited, token>>

\* The next test.
Again ==
    /\ pc # "new" /\ (pc = "loaded" => doc = Failed)
    /\ pc' = "new" /\ name' = "" /\ p' = Unset /\ q' = Unset
    /\ doc' = Failed /\ edited' = {} /\ diffs' = {} /\ token' = NoToken

Next ==
    \/ pc = "new" /\ \E n \in DOMAIN fixtureFS, r \in LoadParams :
         \/ CallLoad(n, r)
         \/ \E key \in SigningKeys : CallSign(n, r, key)
    \/ pc = "loaded" /\ \E r \in MatchParams(p) : CallMatch(r)
    \/ doc # Failed /\ \E k \in DOMAIN doc.object : Edit(k)
    \/ Again

Spec == Init /\ [][Next]_vars

----------------------------------------------------------------------------
RECURSIVE Resolved(_)
\* Nothing of the template is left.
Resolved(v) ==
    CASE Is("placeholder", v) -> FALSE
      [] Is("object", v) -> \A k \in DOMAIN v.object :
                               "<ns>" \notin ToSet(k) /\ Resolved(v.object[k])
      [] Is("array", v) -> \A i \in DOMAIN v.array : Resolved(v.array[i])
      [] Is("string", v) -> "<issuer>" \notin ToSet(v.string)
      [] OTHER -> TRUE

\* The Params of Match are those of Load, or leave fields open for which the
\* value loaded is of the form that Socrate's has.
Compatible ==
    LET open(f) == q[f] = Unset[f]
        formed(f, Ok(_)) == open(f) => p[f] = Unset[f] \/ Ok(p[f])
    IN  /\ \A f \in DOMAIN p : open(f) \/ q[f] = p[f]
        /\ q.ClaimsNamespace = p.ClaimsNamespace /\ q.Scope = p.Scope
        /\ formed("Subject", reDecimal) /\ formed("Email", reEmail)
        /\ formed("TenantID", reUUID)
        /\ formed("JKT", LAMBDA s : Form(s, Thumbprints))
        /\ formed("Audiences", LAMBDA a : <<>> \notin ToSet(a))

\* What Load puts into a document whatever q is: tokens and key ids are of
\* their form, an attribute is not null, and a token lives for a second.
Wellformed ==
    /\ \A k \in {"access_token", "refresh_token", "id_token"} :
         TokenOf(p, k) = <<>> \/ reJWS(TokenOf(p, k))
    /\ \A i \in DOMAIN p.Keys : p.Keys[i].ID = <<>> \/ reUUID(p.Keys[i].ID)
    /\ Null \notin {p.Attributes.of[a] : a \in DOMAIN p.Attributes.of}
    /\ ttl(p) >= 2 /\ refreshTTL(p) >= 2

\* The two directions agree: whatever a mock loads, with placeholders filled
\* from Params or by default, is a document without placeholders that Match
\* accepts, with the same Params or with fewer of them pinned (Load, Match).
LoadedMatches ==
    /\ pc = "loaded" /\ doc # Failed /\ edited = {} => Resolved(doc)
    /\ pc = "matched" /\ edited = {} /\ Compatible /\ Wellformed => diffs = {}

\* The claim of a user attribute whose value is not pinned may be anything.
Open(k) ==
    LET free == {j \in DOMAIN fixtureFS[name] :
                   Replaced(j, "<ns>", ns(q)) = k
                   /\ fixtureFS[name][j] = Ph("attribute", "department")}
    IN  free # {} /\ k \in DOMAIN doc.object /\ doc.object[k] # Null
        /\ "department" \notin DOMAIN q.Attributes.of

\* "The error lists every difference found": whatever members are missing,
\* added, misspelt, out of their namespace, of another type, empty or null,
\* each of them is in the list, also when there are several (Match).
DriftIsListed ==
    pc = "matched" /\ ns(q) = ns(p) =>
        \A k \in edited : Open(k) \/ \E d \in diffs : d # <<>> /\ d[1] = k

\* "A placeholder whose Params field is set must equal it exactly" (the comment
\* on Match), for the fields that one placeholder stands for.
PinnedAsDocumented ==
    LET pins == [sub |-> "Subject", email |-> "Email", nonce |-> "Nonce",
                 jkt |-> "JKT", iat |-> "Now", auth_time |-> "AuthTime",
                 expires_in |-> "TTL"]
        want == fixtureFS[name]
    IN  pc = "matched" /\ diffs = {} =>
          \A k \in DOMAIN want :
             LET kind == want[k].placeholder IN
             /\ Is("placeholder", want[k]) /\ kind \in DOMAIN pins
             /\ q[pins[kind]] # Unset[pins[kind]]
             => doc.object[k] = value(q, kind, "")

\* "A resource server validating it against JWKS(key) sees exactly what it
\* would see from Socrate": the key set holds the signing key under the
\* token's kid, and header, claims and key set match their fixtures (Sign).
SignedVerifies ==
    LET keySet == Load("jwks", [Unset EXCEPT !.Keys = p.Keys])
        entries == keySet.object[<<"keys">>].array
    IN  pc = "signed" /\ token # NoToken /\ keySet # Failed =>
          /\ \E i \in DOMAIN entries :
               /\ entries[i].object[<<"kid">>] = token.header.object[<<"kid">>]
               /\ entries[i].object[<<"n">>] = Word(token.n)
          /\ Wellformed => /\ Match("jose_header", token.header, Unset) = {}
                           /\ Match("jwks", keySet, Unset) = {}
                           /\ Match(name, token.claims, p) = {}
=============================================================================
