------------------------------- MODULE MCPep -------------------------------
(***************************************************************************)
(* What a service asks of Socrate before it acts: the decision of the      *)
(* enforcement point (Pep) and the token of the service's own account      *)
(* (ServiceTokens).  They share no state: in each behaviour one is at work *)
(* and nobody uses the other.                                              *)
(***************************************************************************)
EXTENDS ServiceTokens, TLC

VARIABLES asked, cfg, lastMode, pepModeAccepted, server, changes, modesSeen, check

pepVars == <<cfg, lastMode, pepModeAccepted, server, changes, modesSeen, check>>

\* One list of known obligations, where the first unmet one names the denial,
\* and one with an obligation this version does not know.
Enforcer == INSTANCE Pep WITH
    Checks <- Callers, ServerModes <- {"", "shadow", "enforce", "future"},
    Obligations <- {<<"fresh_auth", "mfa">>, <<"other">>},
    MaxChanges <- 1

Symmetry == Permutations(Callers) \cup Permutations(Scopes)

\* A resting enforcement point has some configuration and some server.
MCInit ==
    /\ Init /\ Enforcer!Init
    /\ \/ asked = "decision"
       \/ /\ asked = "token"
          /\ cfg = [MinimumMode |-> "off", FailOpenWhenModeUnknown |-> FALSE]
          /\ server = [mode |-> "shadow", accepts |-> FALSE]

MCNext ==
    \/ asked = "decision" /\ Enforcer!Next /\ UNCHANGED <<asked, vars>>
    \/ asked = "token" /\ Next /\ UNCHANGED <<asked, pepVars>>

MCSpec == MCInit /\ [][MCNext]_<<asked, vars, pepVars>>

----------------------------------------------------------------------------
(* The properties of the enforcement point, stated and explained in Pep.   *)

\* No check ends with the rejection of a request that carried the floor.
FloorNeverCostsADecision ==
    asked = "decision" => Enforcer!FloorNeverCostsADecision

\* Under enforcement only an allowing decision, its obligations met, lets a
\* request through; without it nobody is refused once a mode has been seen.
ModesAreHonoured == Enforcer!EnforcedMeansAllowed /\ Enforcer!ShadowNeverRefuses
=============================================================================
