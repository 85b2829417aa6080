--------------------------- MODULE ConformanceCases -------------------------
(***************************************************************************)
(* The arguments that Load, Match and Sign are called with.                *)
(***************************************************************************)
EXTENDS Fixtures

\* Values of the form Socrate's have, and others.
Usual == [Unset EXCEPT
    !.Issuer = <<"https://socrate.test">>, !.ClientID = <<"app-1">>,
    !.Audiences = << <<"https://api.test">>, <<"https://api2.test">> >>,
    !.Subject = <<"99">>, !.AppID = <<"99">>, !.Role = <<"admin">>,
    !.Email = <<"a@b">>, !.Name = <<"A B">>, !.Scope = <<"api">>,
    !.Nonce = <<"nonce">>, !.TenantID = <<"uuid2">>,
    !.Attributes = [nil |-> FALSE, of |-> [department |-> Num(3)]],
    !.ClaimsNamespace = <<"https://other/">>, !.TokenVersion = 2,
    !.JKT = <<"thumbprint">>, !.Now = 10, !.AuthTime = 5, !.TTL = 3,
    !.RefreshTTL = 2, !.AccessToken = <<"a.b.c">>,
    !.RefreshToken = <<"d.e.f">>, !.IDToken = <<"g.h.i">>,
    !.Keys = <<[ID |-> <<"uuid2">>, private |-> TRUE, e |-> "AQAB", n |-> "n2"],
               [ID |-> <<"uuid">>, private |-> TRUE, e |-> "AQAB", n |-> "n1"]>>]

Odd == [Usual EXCEPT
    !.Audiences = << <<>> >>, !.Subject = <<"user-42">>, !.Email = <<"nobody">>,
    !.TenantID = <<"acme">>,
    !.Attributes = [nil |-> FALSE, of |-> [department |-> Null]],
    !.JKT = <<"short">>, !.TTL = 1, !.RefreshTTL = 1,
    !.AccessToken = <<"opaque">>, !.RefreshToken = <<"opaque">>,
    !.IDToken = <<"opaque">>,
    !.Keys = <<[ID |-> <<"key-1">>, private |-> TRUE, e |-> "AQAB", n |-> "n2"]>>]

\* Attributes without the one that is asked for, a key without an ID.
Lacking == [Usual EXCEPT
    !.Attributes = [nil |-> FALSE, of |-> [team |-> Num(3)]],
    !.Keys = <<[ID |-> <<>>, private |-> TRUE, e |-> "AQAB", n |-> "n2"]>>]

Fields == DOMAIN Unset

\* All fields set, none, or one that differs from the others.
MCLoadParams ==
    {Usual, Unset}
    \cup {[Usual EXCEPT ![f] = r[f]] : f \in Fields, r \in {Unset, Odd, Lacking}}
    \cup {[Unset EXCEPT ![f] = r[f]] : f \in Fields, r \in {Usual, Odd}}

\* All that Load had, nothing, or all but one (any of the usual values, or the
\* one that differs from them); others, and another namespace.
MCMatchParams(r) ==
    {r, Unset, Usual, [Unset EXCEPT !.ClaimsNamespace = r.ClaimsNamespace, !.Scope = r.Scope]}
    \cup {[r EXCEPT ![f] = Unset[f]] :
            f \in {g \in Fields : r = Usual \/ r[g] # Usual[g]}}

MCSigningKeys ==
    {[ID |-> i, private |-> h, e |-> e, n |-> "n1"] :
        i \in {<<"uuid">>, <<"uuid2">>, <<"key-1">>, <<>>}, h \in BOOLEAN,
        e \in {"AQAB", "Aw"}}
=============================================================================
