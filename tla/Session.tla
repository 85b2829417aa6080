------------------------------ MODULE Session ------------------------------
(***************************************************************************)
(* The server-side session of package bff (bff/session.go): the token set, *)
(* the creation time and the idle timestamp of one browser session, and    *)
(* the questions the gateway and the stores ask of it.  Identity, CSRF     *)
(* secret and user profile never change after login and are left out.      *)
(*                                                                         *)
(* Times are natural numbers read from one clock.  Refresh tokens are      *)
(* numbered in the order the server issues them: login gets token 1, and   *)
(* NoToken is the empty string.                                            *)
(***************************************************************************)
EXTENDS Integers

CONSTANTS
    RefreshLeeway,  \* Gateway.RefreshLeeway: refresh this long before expiry
    Idle,           \* sliding idle window of the store, 0 disables it
    Absolute        \* absolute lifetime of a session, 0 disables it

ASSUME SessionAssumption ==
    RefreshLeeway \in Nat /\ Idle \in Nat /\ Absolute \in Nat

NoToken == 0

SessionType == [refresh: Nat, expiry: Nat, created: Nat, lastSeen: Nat]

\* What the token endpoint answers (socrate.TokenSet): refresh_token, which a
\* server that does not rotate leaves out, and expires_in.  It always answers with
\* an access_token, so the access token of a session is never empty.
TokenSet == [refresh: Nat, expiresIn: Nat]

\* Fault: the rotated refresh token is dropped.
applyTokensKeepsOld(s, ts, now) ==
    [s EXCEPT !.expiry = IF ts.expiresIn > 0 THEN now + ts.expiresIn ELSE @]

\* An absent refresh_token keeps the old one, a zero expires_in keeps the old
\* expiry.
applyTokens(s, ts, now) ==
    [s EXCEPT !.refresh = IF ts.refresh # NoToken THEN ts.refresh ELSE @,
              !.expiry  = IF ts.expiresIn > 0 THEN now + ts.expiresIn ELSE @]

\* The session that login stores.
NewSession(ts, now) ==
    applyTokens([refresh |-> NoToken, expiry |-> 0,
                 created |-> now, lastSeen |-> now], ts, now)

Touch(s, now) == [s EXCEPT !.lastSeen = now]

AccessValid(s, now) == now + RefreshLeeway < s.expiry

expired(s, now) ==
    \/ Absolute > 0 /\ now - s.created >= Absolute
    \/ Idle > 0 /\ now - s.lastSeen >= Idle
=============================================================================
