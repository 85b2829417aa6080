------------------------------ MODULE Httpware ------------------------------
(***************************************************************************)
(* One request on its way through a stack of the middleware of httpware    *)
(* and back.  Each layer gets the request and the response writer of the   *)
(* layer around it.  A layer that adds to the context passes a copy of the *)
(* request on (r.WithContext), so what happens to the copy further in      *)
(* cannot be seen further out; a layer that records the status passes its  *)
(* own writer on.  A panic unwinds the layers and runs their deferred      *)
(* calls only.                                                             *)
(*                                                                         *)
(* net/http, the mux and the handler are external.  What refuses a request *)
(* in between (Refusing) is modelled in Authorisation and                  *)
(* KeyedRateLimiter; here it passes the request on, with or without a      *)
(* tenant in the context, or writes its error.                             *)
(***************************************************************************)
EXTENDS Apierror, Sequences, FiniteSets

CONSTANTS
    Stacks,             \* sequences of layers, the outermost first
    Requests,           \* what a client sends: id, body, user
    MaxRequestIDLength,
    Errors,             \* errors a handler may write
    MaxWrites,          \* bound on the headers a handler writes
    MaxTime

Refusing == {"Auth", "RequireTenant", "RateLimiter"}
Recording == {"Logger", "Metrics"}

VARIABLES
    stack, in,
    pc, at,     \* what happens at which layer; the handler is inside the last
    frame,      \* the requests that the layers down to this one were given
    recorded,   \* statusRecorder.statusCode of each recording layer
    header,     \* the header map of the response
    answer,     \* what has been sent, or None
    matched,    \* the copy of the request that the mux wrote the pattern to
    timers,     \* the Timeout layers whose timer runs
    now, gone,  \* time; the client has disconnected
    log, counted, panics,   \* what Logger, Metrics and Recover reported
    read,       \* how the handler's read of the body ended
    flushed,    \* where the handler's Flush ended
    since,      \* history: when the Timeout entered last was entered
    headers     \* history: the statuses that were passed to WriteHeader

vars == <<stack, in, pc, at, frame, recorded, header, answer, matched, timers, now,
          gone, log, counted, panics, read, flushed, since, headers>>

\* The context: request id, tenant, deadline, and whether it ends when the
\* client goes.
Background == [id |-> None, tenant |-> FALSE, deadline |-> None, client |-> TRUE]

Init ==
    /\ stack \in Stacks /\ in \in Requests
    /\ pc = "enter" /\ at = 1
    /\ frame = <<[copy |-> 0, ctx |-> Background, limits |-> {}]>>
    /\ recorded = [i \in DOMAIN stack |-> None]
    /\ header = [id |-> None, secured |-> FALSE]
    /\ answer = None /\ matched = None /\ timers = {}
    /\ now = 0 /\ gone = FALSE
    /\ log = <<>> /\ counted = <<>> /\ panics = 0
    /\ read = None /\ flushed = None /\ headers = <<>> /\ since = None

----------------------------------------------------------------------------
(* The response writer.                                                    *)

Recorders(i) == {j \in 1 .. i - 1 : stack[j].kind \in Recording}

\* Fault: only the recorder next to the writer learns the status.
WriteHeaderNearest(i, code, body) ==
    /\ recorded' = [j \in DOMAIN stack |->
                      IF j \in Recorders(i) /\ Recorders(j) = Recorders(i) \ {j}
                      THEN code ELSE recorded[j]]
    /\ headers' = Append(headers, code)
    /\ answer' = IF answer = None
                 THEN [status |-> code, header |-> header, body |-> {body}]
                 ELSE [answer EXCEPT !.body = @ \cup {body}]

\* statusRecorder.WriteHeader of every recorder around layer i, and net/http's,
\* which sends the first header and ignores the others but not their bodies.
WriteHeader(i, code, body) ==
    /\ recorded' = [j \in DOMAIN stack |->
                      IF j \in Recorders(i) THEN code ELSE recorded[j]]
    /\ headers' = Append(headers, code)
    /\ answer' = IF answer = None
                 THEN [status |-> code, header |-> header, body |-> {body}]
                 ELSE [answer EXCEPT !.body = @ \cup {body}]

Text(message) == [type |-> "text", message |-> message]

Layer == stack[at]
Request == frame[at]

\* next.ServeHTTP(w, r).
Pass(r) ==
    /\ frame' = Append(frame, r)
    /\ at' = at + 1
    /\ pc' = IF at = Len(stack) THEN "handler" ELSE "enter"

\* r.WithContext(ctx).
WithContext(r, ctx) == [r EXCEPT !.copy = at, !.ctx = ctx]

Enter(kind) ==
    /\ pc = "enter" /\ Layer.kind = kind
    /\ since' = IF kind = "Timeout" THEN now ELSE since
    /\ UNCHANGED <<stack, in, now, gone, log, counted, panics, read, flushed>>

\* Recover only defers.
EnterRecover ==
    /\ Enter("Recover") /\ Pass(Request)
    /\ UNCHANGED <<recorded, header, answer, matched, timers, headers>>

EnterSecurityHeaders ==
    /\ Enter("SecurityHeaders") /\ Pass(Request)
    /\ header' = [header EXCEPT !.secured = TRUE]
    /\ UNCHANGED <<recorded, answer, matched, timers, headers>>

\* MaxBytesReader around what is the body so far.
EnterBodyLimit ==
    /\ Enter("BodyLimit")
    /\ Pass([Request EXCEPT !.limits = @ \cup {Layer.max}])
    /\ UNCHANGED <<recorded, header, answer, matched, timers, headers>>

\* Fault: the context keeps its parent's deadline and its cancellation.
TimedShortest(ctx) ==
    [ctx EXCEPT !.deadline =
        IF @ # None /\ @ < now + Layer.d THEN @ ELSE now + Layer.d]

\* WithTimeout(WithoutCancel(ctx), d).
Timed(ctx) == [ctx EXCEPT !.deadline = now + Layer.d, !.client = FALSE]

EnterTimeout ==
    /\ Enter("Timeout")
    /\ timers' = timers \cup {at}
    /\ Pass(WithContext(Request, Timed(Request.ctx)))
    /\ UNCHANGED <<recorded, header, answer, matched, headers>>

ValidRequestID(id) == id.length \in 1 .. MaxRequestIDLength /\ id.clean

\* uuid.New().String().
Generated == [length |-> 36, clean |-> TRUE, by |-> at]

EnterRequestID ==
    LET reqID == IF ValidRequestID(in.id) THEN in.id ELSE Generated
    IN  /\ Enter("RequestID")
        /\ header' = [header EXCEPT !.id = reqID]
        /\ Pass(WithContext(Request, [Request.ctx EXCEPT !.id = reqID]))
        /\ UNCHANGED <<recorded, answer, matched, timers, headers>>

\* Logger makes its recorder and puts its entry into the context.
EnterLogger ==
    /\ Enter("Logger")
    /\ recorded' = [recorded EXCEPT ![at] = 200]
    /\ Pass(WithContext(Request, Request.ctx))
    /\ UNCHANGED <<header, answer, matched, timers, headers>>

EnterMetrics ==
    /\ Enter("Metrics")
    /\ recorded' = [recorded EXCEPT ![at] = 200]
    /\ Pass(Request)
    /\ UNCHANGED <<header, answer, matched, timers, headers>>

\* A ServeMux sets r.Pattern of the request it is given.
EnterMux ==
    /\ Enter("Mux") /\ Pass(Request)
    /\ matched' = Request.copy
    /\ UNCHANGED <<recorded, header, answer, timers, headers>>

\* Auth puts the tenant of the token into the context.
Admit ==
    /\ \E kind \in Refusing : Enter(kind)
    /\ CASE Layer.kind = "Auth" ->
              /\ in.user # "anonymous"
              /\ Pass(WithContext(Request,
                        [Request.ctx EXCEPT !.tenant = (in.user = "tenant")]))
         [] Layer.kind = "RequireTenant" -> Request.ctx.tenant /\ Pass(Request)
         [] OTHER -> Pass(Request)
    /\ UNCHANGED <<recorded, header, answer, matched, timers, headers>>

\* A layer answers by itself.  RateLimiter lets requests without a tenant pass.
Refuse ==
    /\ \E kind \in Refusing : Enter(kind)
    /\ LET e == IF Layer.kind = "RateLimiter"
                THEN AppError("rate_limited", 429, None) ELSE New(401, None)
       IN  /\ CASE Layer.kind = "Auth" -> in.user = "anonymous"
                [] Layer.kind = "RequireTenant" -> ~Request.ctx.tenant
                [] OTHER -> Request.ctx.tenant
           /\ WriteHeader(at, e.StatusCode, WriteJSON(e))
    /\ pc' = "leave" /\ at' = at - 1
    /\ UNCHANGED <<frame, header, matched, timers>>

----------------------------------------------------------------------------
(* The handler: what any handler may do.                                   *)

Handle ==
    /\ at' = IF pc' = pc THEN at ELSE at - 1
    /\ UNCHANGED <<stack, in, frame, header, matched, timers, now, gone,
                   log, counted, panics, since>>

\* Reads the body, through all the limits around it; without any there is
\* nothing to tell.
HandlerReads ==
    /\ pc = "handler" /\ read = None /\ Request.limits # {}
    /\ read' = IF \A max \in Request.limits : in.body <= max
               THEN "whole" ELSE "too large"
    /\ UNCHANGED <<pc, recorded, answer, flushed, headers>>
    /\ Handle

\* Flushes a stream: flushRecorder hands Flush on, statusRecorder has none.
\* net/http sends the header if there was none.
HandlerFlushes ==
    LET reaches == \A j \in Recorders(at) : stack[j].kind = "Metrics" IN
    /\ pc = "handler" /\ flushed = None
    /\ flushed' = IF reaches THEN "sent" ELSE "buffered"
    /\ IF reaches /\ answer = None
       THEN /\ answer' = [status |-> 200, header |-> header, body |-> {}]
            /\ headers' = Append(headers, 200)
       ELSE UNCHANGED <<answer, headers>>
    /\ UNCHANGED <<pc, recorded, read>>
    /\ Handle

\* Answers well, with an error, or with a status that net/http panics on, if it
\* would be the first; all that follow the first it ignores.
HandlerWrites ==
    /\ pc = "handler" /\ Len(headers) < MaxWrites
    /\ \/ WriteHeader(at, 200, Text(Dev)) /\ pc' = pc
       \/ \E e \in Errors : \/ WriteHeader(at, e.StatusCode, WriteJSON(e)) /\ pc' = pc
                            \/ WriteHeader(at, e.StatusCode, WriteProblem(e)) /\ pc' = pc
       \/ /\ recorded' = [j \in DOMAIN stack |->
                            IF j \in Recorders(at) THEN 0 ELSE recorded[j]]
          /\ headers' = Append(headers, 0) /\ answer' = answer
          /\ pc' = IF answer = None THEN "panic" ELSE pc
    /\ UNCHANGED <<read, flushed>>
    /\ Handle

HandlerReturns ==
    /\ pc = "handler" /\ pc' = "leave" /\ Handle
    /\ UNCHANGED <<recorded, answer, read, flushed, headers>>

HandlerPanics ==
    /\ pc = "handler" /\ pc' = "panic" /\ Handle
    /\ UNCHANGED <<recorded, answer, read, flushed, headers>>

----------------------------------------------------------------------------
(* On the way out.  at is the layer whose next has returned or panicked.   *)

Outward ==
    /\ at' = at - 1
    /\ timers' = timers \ {at}
    /\ UNCHANGED <<stack, in, frame, header, matched, now, gone, read, flushed, since>>

\* RoutePattern of the request that layer i was given.
RoutePattern(i) == IF matched = frame[i].copy THEN "pattern" ELSE "unmatched"

\* Logger's line, and what Metrics counts.
Line == [layer |-> at, status |-> recorded[at],
         id |-> Request.ctx.id, tenant |-> Request.ctx.tenant]
Count == [layer |-> at, status |-> recorded[at], route |-> RoutePattern(at)]

\* The code after next.ServeHTTP, and the deferred cancel of Timeout.
Leave ==
    /\ pc = "leave" /\ at \in DOMAIN stack /\ Outward
    /\ log' = IF Layer.kind = "Logger" THEN Append(log, Line) ELSE log
    /\ counted' = IF Layer.kind = "Metrics" THEN Append(counted, Count) ELSE counted
    /\ UNCHANGED <<pc, recorded, answer, panics, headers>>

\* A panic passes a layer that does not recover it.
Unwind ==
    /\ pc = "panic" /\ at \in DOMAIN stack /\ Layer.kind # "Recover" /\ Outward
    /\ UNCHANGED <<pc, recorded, answer, log, counted, panics, headers>>

\* Recover logs it and calls http.Error.
Recovered ==
    /\ pc = "panic" /\ at \in DOMAIN stack /\ Layer.kind = "Recover" /\ Outward
    /\ panics' = panics + 1
    /\ WriteHeader(at, 500, Text(Generic))
    /\ pc' = "leave"
    /\ UNCHANGED <<log, counted>>

\* net/http ends the response: 200 if nothing was written; a panic that gets
\* this far closes the connection.
Finish ==
    /\ pc \in {"leave", "panic"} /\ at = 0
    /\ pc' = IF pc = "leave" THEN "done" ELSE "aborted"
    /\ answer' = IF pc = "leave" /\ answer = None
                 THEN [status |-> 200, header |-> header, body |-> {}] ELSE answer
    /\ UNCHANGED <<stack, in, at, frame, recorded, header, matched, timers, now, gone,
                   log, counted, panics, read, flushed, since, headers>>

Finished == pc \in {"done", "aborted"}

\* On the way out nothing depends on the time or the client any more.
Environment ==
    /\ pc \in {"enter", "handler"}
    /\ \/ now < MaxTime /\ now' = now + 1 /\ gone' = gone
       \/ ~gone /\ gone' = TRUE /\ now' = now
    /\ UNCHANGED <<stack, in, pc, at, frame, recorded, header, answer, matched, timers,
                   log, counted, panics, read, flushed, since, headers>>

Next ==
    \/ EnterRecover \/ EnterSecurityHeaders \/ EnterBodyLimit \/ EnterTimeout
    \/ EnterRequestID \/ EnterLogger \/ EnterMetrics \/ EnterMux
    \/ Admit \/ Refuse
    \/ HandlerReads \/ HandlerFlushes \/ HandlerWrites \/ HandlerReturns \/ HandlerPanics
    \/ Leave \/ Unwind \/ Recovered \/ Finish \/ Environment
    \/ Finished /\ UNCHANGED vars

Spec == Init /\ [][Next]_vars

----------------------------------------------------------------------------
Layers(kind) == {i \in DOMAIN stack : stack[i].kind = kind}
Entered == DOMAIN stack \cap DOMAIN frame
Innermost(S) == CHOOSE i \in S : \A j \in S : j <= i

TypeOK ==
    /\ pc \in {"enter", "handler", "leave", "panic", "done", "aborted"}
    /\ at \in 0 .. Len(stack) + 1 /\ now \in 0 .. MaxTime /\ gone \in BOOLEAN
    /\ Len(frame) \in 1 .. Len(stack) + 1
    /\ timers \subseteq DOMAIN stack /\ panics \in Nat
    /\ read \in {None, "whole", "too large"}
    /\ flushed \in {None, "sent", "buffered"}

\* Logger and Metrics report a request once, whichever layer answered it; only a
\* panic that is recovered further out passes them by.  They report the status that
\* was sent, or, if a header was tried after the one that was sent, the last that
\* was tried: after a panic of a handler that has written, the 500 of Recover that
\* the client does not get.  The line bears the id that is echoed to the client.
ReportedOnce ==
    LET passedBy(i) == panics > 0 /\ i > Innermost(Layers("Recover"))
        lines(i) == SelectSeq(log \o counted, LAMBDA l : l.layer = i)
        sentLast == \A n \in 1 .. Len(headers) - 1 : headers[n] = 0
    IN  pc = "done" =>
          /\ \A i \in Entered : stack[i].kind \in Recording =>
               /\ Len(lines(i)) = IF passedBy(i) THEN 0 ELSE 1
               /\ \A n \in DOMAIN lines(i) : lines(i)[n].status =
                      IF sentLast THEN answer.status ELSE headers[Len(headers)]
          /\ \A n \in DOMAIN log :
               Cardinality(Layers("RequestID")) = 1 /\ log[n].id # None
               => log[n].id = answer.header.id

\* "the configured timeout is the sole cancel source": a handler's context ends
\* when the innermost Timeout around it says so, no sooner for a Timeout further
\* out or a client that goes, and no later.  Every timer is released, panic or not.
OwnDeadline ==
    /\ pc = "handler" =>
         LET ctx == frame[at].ctx
             ended == \/ ctx.deadline # None /\ now >= ctx.deadline
                      \/ ctx.client /\ gone
             t == Innermost(Layers("Timeout"))
         IN  ended = IF Layers("Timeout") = {} THEN gone
                     ELSE now >= since + stack[t].d
    /\ Finished => timers = {}

\* "internal detail cannot leak": no body that is written for a 5xx error, in
\* either format, as the first or after another header, has what the developer
\* wrote; and "a response is identical whether it originates from BadRequest or
\* New(400)".
ErrorBodies ==
    /\ answer # None => \A b \in answer.body :
         b.type \in {"json", "problem"} /\ b.status >= 500
            => b.message # Dev /\ b.details # Dev
    /\ \A e \in Typed(Dev) : New(e.StatusCode, Dev) = e

\* "Apply globally as a default, then override per-route for endpoints that
\* legitimately accept large payloads" (httpware/bodylimit.go): a body that the
\* innermost BodyLimit allows can be read.
OverrideApplies ==
    read = "too large" => in.body > stack[Innermost(Layers("BodyLimit"))].max

----------------------------------------------------------------------------
(* What the documentation says and the code does not do; TLC refutes these. *)

\* statusRecorder is "to capture the written status code" (httpware/logger.go): the
\* status that is logged is the one the client got.  Refuted by a panic after a
\* write, with Recover further in than Logger.
StatusIsSent == pc = "done" => \A n \in DOMAIN log : log[n].status = answer.status

\* "logs a 'request completed' line with status code, duration_ms, and
\* tenant_id" (httpware/logger.go).
LineNamesTenant ==
    pc = "done" /\ in.user = "tenant" => \A n \in DOMAIN log : log[n].tenant

\* "The route label is the net/http ServeMux pattern that matched" (README.md).
RouteIsCounted ==
    pc = "done" /\ matched # None =>
        \A n \in DOMAIN counted : counted[n].route = "pattern"

\* "Streaming responses (SSE) keep working: the wrapper forwards Flush"
\* (httpware/metrics.go).
StreamsAreFlushed == flushed # "buffered"

\* Recover "catches panics in downstream handlers, logs the panic value and full
\* stack trace, and responds with 500" (httpware/recover.go).
PanicIs500 == pc = "done" /\ panics > 0 => answer.status = 500
=============================================================================
