-------------------------------- MODULE Pep --------------------------------
(***************************************************************************)
(* The policy enforcement point pep.Enforcer (pep/pep.go): concurrent      *)
(* checks that ask Socrate for decisions, apply the rollout mode and the   *)
(* configured floor, and share two atomics, the last mode seen and whether *)
(* the server takes the pep_mode field.                                    *)
(*                                                                         *)
(* A mode is a string; "" is an answer without a mode, "future" a mode     *)
(* this version does not know.  The server may be reconfigured, upgraded,  *)
(* downgraded or down at any time.                                         *)
(***************************************************************************)
EXTENDS Integers, Sequences, SequencesExt

CONSTANTS
    Checks,         \* goroutines that run Check
    None,
    ServerModes,    \* the modes the server may be put in
    Obligations,    \* the obligation lists a decision may carry
    MaxChanges      \* bound on changes of the server

VARIABLES
    cfg,                \* the Config, fixed by New
    lastMode,           \* atomic.Value: None until the first Store
    pepModeAccepted,    \* atomic.Bool
    server,             \* mode, whether it takes pep_mode
    changes,
    modesSeen,          \* history: the modes the server has been in
    check               \* what each goroutine is doing

vars == <<cfg, lastMode, pepModeAccepted, server, changes, modesSeen, check>>
serverVars == <<server, changes, modesSeen>>

modeRank == [off |-> 0, shadow |-> 1, enforce |-> 2]

\* New rejects a floor of enforce that fails open.
Configs ==
    {c \in [MinimumMode: DOMAIN modeRank, FailOpenWhenModeUnknown: BOOLEAN] :
        ~(c.MinimumMode = "enforce" /\ c.FailOpenWhenModeUnknown)}

\* What Decide returns: a decision, a 503 that may carry the mode, a 400, or
\* another error.  Only a decision has meaningful allow and obligations.
NoAnswer == [kind |-> None, mode |-> "", allow |-> FALSE, obligations |-> <<>>,
             accepted |-> FALSE]
Outcomes == {None, "proceed", "unauthenticated", "denied", "elevation_required",
             "mfa_required", "unavailable"}

\* fresh, mfa: what jwtauth verified of the user's token.
NewCheck == [pc |-> "new", sent |-> FALSE, fresh |-> FALSE, mfa |-> FALSE,
             answer |-> NoAnswer, out |-> None]

TypeOK ==
    /\ cfg \in Configs
    /\ lastMode \in ServerModes \cup {None}
    /\ pepModeAccepted \in BOOLEAN
    /\ server \in [mode: ServerModes, accepts: BOOLEAN]
    /\ changes \in 0 .. MaxChanges /\ modesSeen \subseteq ServerModes
    /\ check \in [Checks ->
         [pc: {"new", "asked", "answered", "recorded", "done"},
          sent: BOOLEAN, fresh: BOOLEAN, mfa: BOOLEAN,
          answer: [kind: {None, "ok", "503", "400", "error"},
                   mode: ServerModes \cup {""}, allow: BOOLEAN,
                   obligations: Obligations \cup {<<>>}, accepted: BOOLEAN],
          out: Outcomes]]

Init ==
    /\ cfg \in Configs
    /\ lastMode = None /\ pepModeAccepted = FALSE
    /\ server \in [mode: ServerModes, accepts: BOOLEAN]
    /\ changes = 0 /\ modesSeen = {server.mode}
    /\ check = [c \in Checks |-> NewCheck]

----------------------------------------------------------------------------
\* The stricter of the server's mode and the floor; an unknown one as is.
effectiveMode(mode) ==
    LET r == IF mode \in DOMAIN modeRank THEN modeRank[mode] ELSE 0 IN
    IF mode \notin DOMAIN modeRank \cup {""} THEN mode
    ELSE IF modeRank[cfg.MinimumMode] > r THEN cfg.MinimumMode ELSE mode

Met(c, o) == \/ o = "fresh_auth" /\ check[c].fresh
             \/ o = "mfa" /\ check[c].mfa

\* Fault: an obligation this version does not know is dropped.
unmetObligationDropsOther(c, obligations) ==
    LET unmet == SelectSeq(obligations, LAMBDA o : o # "other" /\ ~Met(c, o)) IN
    IF unmet = <<>> THEN "" ELSE Head(unmet)

\* The first obligation the token does not satisfy, or "".
unmetObligation(c, obligations) ==
    LET unmet == SelectSeq(obligations, LAMBDA o : ~Met(c, o)) IN
    IF unmet = <<>> THEN "" ELSE Head(unmet)

\* The code of a denial in enforce mode.
DenialCode(unmet) ==
    CASE unmet = "fresh_auth" -> "elevation_required"
      [] unmet = "mfa" -> "mfa_required"
      [] OTHER -> "denied"

\* The check returns; of the answer only what is told apart later is kept.
Finish(c, out) ==
    check' = [check EXCEPT ![c] =
                [NewCheck EXCEPT !.pc = "done", !.out = out, !.sent = check[c].sent,
                    !.answer.kind = check[c].answer.kind,
                    !.answer.mode = check[c].answer.mode]]

----------------------------------------------------------------------------
\* Check without a user's token: a wiring error.
NoToken(c) ==
    /\ check[c].pc = "new"
    /\ Finish(c, "unauthenticated")
    /\ UNCHANGED <<cfg, lastMode, pepModeAccepted, serverVars>>

\* decide: report the floor if the server's last answer said it takes it.
Ask(c) ==
    /\ check[c].pc = "new"
    /\ check' = [check EXCEPT ![c] = [@ EXCEPT !.pc = "asked",
                    !.sent = cfg.MinimumMode # "off" /\ pepModeAccepted]]
    /\ UNCHANGED <<cfg, lastMode, pepModeAccepted, serverVars>>

\* Socrate, as socrate.Client.Decide reports it.
Answers(sent) ==
    LET ok == {[kind |-> "ok", mode |-> server.mode, allow |-> a,
                obligations |-> IF a THEN o ELSE <<>>,
                accepted |-> server.accepts] : a \in BOOLEAN, o \in Obligations}
        down == {[NoAnswer EXCEPT !.kind = "503", !.mode = m] :
                    m \in {"", server.mode}}
        other == {[NoAnswer EXCEPT !.kind = k] : k \in {"400", "error"}}
    IN  IF sent /\ ~server.accepts
        THEN down \cup other ELSE ok \cup down \cup other

Decide(c) ==
    /\ check[c].pc = "asked"
    /\ \E a \in Answers(check[c].sent) :
         check' = [check EXCEPT ![c] = [@ EXCEPT !.pc = "answered", !.answer = a]]
    /\ UNCHANGED <<cfg, lastMode, pepModeAccepted, serverVars>>

\* Fault: the rejection of pep_mode is taken for an answer.
RetryNever(c) ==
    /\ check[c].pc = "answered" /\ check[c].sent
    /\ check[c].answer.kind = "400"
    /\ pepModeAccepted' = FALSE
    /\ check' = [check EXCEPT ![c].pc = "recorded"]
    /\ UNCHANGED <<cfg, lastMode, serverVars>>

\* The server rejects the request that carried pep_mode: ask without it.
Retry(c) ==
    /\ check[c].pc = "answered" /\ check[c].sent
    /\ check[c].answer.kind = "400"
    /\ pepModeAccepted' = FALSE
    /\ check' = [check EXCEPT ![c] = [@ EXCEPT !.pc = "asked", !.sent = FALSE,
                                               !.answer = NoAnswer]]
    /\ UNCHANGED <<cfg, lastMode, serverVars>>

\* The end of decide; the mode is recorded in a later step.  The user's token
\* says how they signed in, which only an obligation asks for.
Record(c) ==
    LET a == check[c].answer IN
    /\ check[c].pc = "answered"
    /\ ~(check[c].sent /\ a.kind = "400")
    /\ pepModeAccepted' = IF a.kind = "ok" THEN a.accepted ELSE pepModeAccepted
    /\ \E fresh, mfa \in IF a.obligations = <<>> THEN {FALSE} ELSE BOOLEAN :
         check' = [check EXCEPT ![c] = [@ EXCEPT !.pc = "recorded",
                                           !.fresh = fresh, !.mfa = mfa]]
    /\ UNCHANGED <<cfg, lastMode, serverVars>>

\* A decision, under the mode in force.
Apply(c) ==
    LET a == check[c].answer
        unmet == IF a.allow THEN unmetObligation(c, a.obligations) ELSE ""
        mode == effectiveMode(a.mode)
    IN  /\ check[c].pc = "recorded" /\ a.kind = "ok"
        /\ lastMode' = a.mode
        /\ Finish(c, IF (a.allow /\ unmet = "") \/ mode \in {"off", "shadow"}
                     THEN "proceed" ELSE DenialCode(unmet))
        /\ UNCHANGED <<cfg, pepModeAccepted, serverVars>>

\* unavailable: no decision, so the answer's mode or the last one decides.
Unavailable(c) ==
    LET a == check[c].answer
        seen == IF a.mode # "" THEN a.mode
                ELSE IF lastMode # None THEN lastMode ELSE ""
        mode == IF seen # "" \/ cfg.MinimumMode = "enforce"
                THEN effectiveMode(seen) ELSE ""
    IN  /\ check[c].pc = "recorded" /\ a.kind # "ok"
        /\ lastMode' = IF a.mode # "" THEN a.mode ELSE lastMode
        /\ Finish(c, IF \/ mode \in {"off", "shadow"}
                        \/ mode = "" /\ cfg.FailOpenWhenModeUnknown
                     THEN "proceed" ELSE "unavailable")
        /\ UNCHANGED <<cfg, pepModeAccepted, serverVars>>

Reuse(c) ==
    /\ check[c].pc = "done"
    /\ check' = [check EXCEPT ![c] = NewCheck]
    /\ UNCHANGED <<cfg, lastMode, pepModeAccepted, serverVars>>

\* An operator changes the rollout mode or the server's version.
Change ==
    /\ changes < MaxChanges /\ changes' = changes + 1
    /\ server' \in [mode: ServerModes, accepts: BOOLEAN]
    /\ server' # server
    /\ modesSeen' = modesSeen \cup {server'.mode}
    /\ UNCHANGED <<cfg, lastMode, pepModeAccepted, check>>

Next ==
    \/ \E c \in Checks :
         \/ NoToken(c) \/ Ask(c) \/ Decide(c) \/ Retry(c) \/ Record(c)
         \/ Apply(c) \/ Unavailable(c) \/ Reuse(c)
    \/ Change

Spec == Init /\ [][Next]_vars

----------------------------------------------------------------------------
Lax == {"off", "shadow"}

\* The floor is a floor: under MinimumMode enforce, or against a server that
\* has only ever enforced, a request proceeds only on a decision that allows
\* it with every obligation met.  No outage or race opens the gate once a mode
\* has been seen (check, unavailable, effectiveMode, unmetObligation).
EnforcedMeansAllowed ==
    [][\A c \in Checks :
         LET a == check[c].answer IN
         /\ check[c].pc = "recorded" /\ check'[c].out = "proceed"
         /\ cfg.MinimumMode = "enforce" \/ modesSeen \cap (Lax \cup {""}) = {}
         => \/ /\ a.kind = "ok" /\ a.allow
               /\ \A i \in DOMAIN a.obligations : Met(c, a.obligations[i])
            \/ /\ a.kind # "ok" /\ a.mode = "" /\ lastMode = None
               /\ cfg.FailOpenWhenModeUnknown]_vars

\* A rollout that is not enforced costs nobody a request: if neither the floor
\* nor the server ever asked for more than shadow, a request with a token is
\* refused only before the first mode is seen (unavailable, lastMode).
ShadowNeverRefuses ==
    [][\A c \in Checks :
         /\ check[c].pc = "recorded" /\ check'[c].pc = "done"
         /\ cfg.MinimumMode # "enforce" /\ modesSeen \subseteq Lax
         /\ check'[c].out # "proceed"
         => lastMode = None]_vars

\* "reporting the floor can never cost a decision" (decide): no check ends
\* with the server's rejection of a request that carried pep_mode.
FloorNeverCostsADecision ==
    \A c \in Checks :
        check[c].pc = "done" => ~(check[c].answer.kind = "400" /\ check[c].sent)

\* "an empty one (unknown) counts as off, so only the floor applies": with no
\* floor, a decision without a mode refuses nobody (effectiveMode's comment).
EmptyModeCountsAsOff ==
    \A c \in Checks :
        LET a == check[c].answer IN
        check[c].pc = "done" /\ a.kind = "ok" /\ a.mode = "" /\ cfg.MinimumMode = "off"
            => check[c].out = "proceed"
=============================================================================
