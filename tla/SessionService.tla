-------------------------- MODULE SessionService --------------------------
(***************************************************************************)
(* What bff.Gateway promises the requests of one browser session, without  *)
(* saying how: no store, no clock, no singleflight group and no calls in   *)
(* flight.  A request is admitted while the session is live and leaves     *)
(* with an answer.  A refresh token is exchanged in one step.  A session   *)
(* that expired is gone, and the answer of a request admitted before may   *)
(* bring it back; one that was ended stays ended.                          *)
(***************************************************************************)
EXTENDS Integers

CONSTANT Requests

VARIABLES
    status,     \* of the session: "live", "gone" or "ended"
    phase,      \* of each request: "idle", "serving" or "rejected"
    held, valid, revoked    \* the session's refresh token, the server's view

vars == <<status, phase, held, valid, revoked>>

Init ==
    /\ status = "live"
    /\ phase = [r \in Requests |-> "idle"]
    /\ held = 1 /\ valid = 1 /\ revoked = FALSE

Usable == held = valid /\ ~revoked

Admit(r) ==
    /\ status = "live" /\ phase[r] = "idle"
    /\ phase' = [phase EXCEPT ![r] = "serving"]
    /\ UNCHANGED <<status, held, valid, revoked>>

\* Storing the session, which a request in service may do at any time and with
\* its answer, revives it unless it was ended.
Store(r) ==
    /\ phase[r] = "serving"
    /\ status' \in {status, IF status = "gone" THEN "live" ELSE status}
    /\ phase' \in {phase, [phase EXCEPT ![r] = "idle"]}
    /\ UNCHANGED <<held, valid, revoked>>

Expire ==
    /\ status = "live" /\ status' = "gone"
    /\ UNCHANGED <<phase, held, valid, revoked>>

\* A logout, an expired session, or a rejected token.
End(r) ==
    /\ phase[r] \in {"serving", "rejected"}
    /\ status' = "ended"
    /\ phase' = [phase EXCEPT ![r] = "idle"]
    /\ UNCHANGED <<held, valid, revoked>>

\* The new token is stored as the old one is spent.
Refresh ==
    /\ held = valid /\ valid' > valid /\ held' = valid'
    /\ UNCHANGED <<status, phase, revoked>>

\* The new token never arrives.
Lose ==
    /\ held = valid /\ valid' > valid
    /\ UNCHANGED <<status, phase, held, revoked>>

Revoke ==
    /\ revoked' = TRUE
    /\ UNCHANGED <<status, phase, held, valid>>

\* Requests are told that the token is refused: only when no other would do.
Reject ==
    /\ ~Usable
    /\ \E R \in SUBSET {r \in Requests : phase[r] = "serving"} :
         phase' = [r \in Requests |-> IF r \in R THEN "rejected" ELSE phase[r]]
    /\ UNCHANGED <<status, held, valid, revoked>>

Next ==
    \/ \E r \in Requests : Admit(r) \/ Store(r) \/ End(r)
    \/ Expire \/ Refresh \/ Lose \/ Revoke \/ Reject

Spec == Init /\ [][Next]_vars
=============================================================================
