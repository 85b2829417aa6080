-------------------------- MODULE MCSocrateClient --------------------------
(***************************************************************************)
(* The Socrate client: the calls that are one request (SocrateClient) and  *)
(* the one that stays open (EventStream).  They share no state, so in each *)
(* behaviour there are callers, or there is a stream.                      *)
(***************************************************************************)
EXTENDS SocrateClient, SequencesExt

CONSTANT piece

VARIABLES kind, sent, wire, end, cancelled, expired, name, data, delivered, result

streamVars == <<sent, wire, end, cancelled, expired, name, data, delivered, result>>

\* A user and a service operation that concern the application ID.
SharedOperations == {GetUserAsService, ListUsers}

\* One caller does everything, the others what touches the shared ID.
FirstDoesAll ==
    LET first == CHOOSE c \in Callers : TRUE
    IN  [c \in Callers |-> IF c = first THEN AllOperations ELSE SharedOperations]

Stream == INSTANCE EventStream WITH
    EventNames <- {"security_event", "heartbeat"}, Pieces <- {piece},
    MaxData <- 2, MaxEvents <- 2

\* The part that rests: a refused stream, or a client nobody calls.
MCInit ==
    /\ NewClient /\ Stream!Init
    /\ \/ kind = "calls" /\ result = "refused"
       \/ kind = "stream" /\ ~configured /\ ~hasSecret

MCNext ==
    \/ kind = "calls" /\ Next /\ UNCHANGED <<kind, streamVars>>
    \/ kind = "stream" /\ Stream!Next /\ UNCHANGED <<kind, vars>>

\* The goroutine that reads the stream keeps reading.
MCSpec ==
    /\ MCInit /\ [][MCNext]_<<kind, vars, streamVars>>
    /\ WF_<<kind, vars, streamVars>>
         (kind = "stream" /\ Stream!Reader /\ UNCHANGED <<kind, vars>>)

----------------------------------------------------------------------------
(* The properties of the stream, stated and explained in EventStream.      *)

\* handler sees a prefix of the server's events, whole, once and in order, and
\* all of them if the stream returns nil.
DeliveredArePrefix == Stream!DeliveredArePrefix

\* Cancelling the context ends the call.
CancelEnds == Stream!CancelEnds

\* What calls leave behind is in order: every body is closed but the one that
\* BodiesClosed excepts, no ID is another application's, a configured one is
\* never looked up, and the state of callers and stream is well-formed.
Consistent ==
    /\ TypeOK /\ Stream!TypeOK
    /\ BodiesClosed /\ NeverAnotherApp /\ NoLookupWhenConfigured
=============================================================================
