---------------------------- MODULE EventStream ----------------------------
(***************************************************************************)
(* Client.StreamSecurityEvents (socrate/monitoring.go): the reader of the  *)
(* server-sent event stream, line by line, over a connection that may be   *)
(* closed, cut inside an event, or ended by the context or by the timeout  *)
(* of the HTTP client.  An event is a name and the pieces of its data, one *)
(* for each data line; an event without data is not delivered.             *)
(***************************************************************************)
EXTENDS Naturals, Sequences, SequencesExt

CONSTANTS
    EventNames, Pieces,
    MaxData,    \* bound on the data lines of an event
    MaxEvents   \* bound on the events the server sends

Events == [name: EventNames, data: UNION {[1 .. n -> Pieces] : n \in 0 .. MaxData}]

VARIABLES
    sent,       \* the events the server has sent
    wire,       \* the lines that have not been read
    end,        \* how the body ends: "open", "eof" or "error"
    cancelled,  \* the context is cancelled
    expired,    \* the timeout of the HTTP client has ended the body
    name, data, \* the event being read
    delivered,  \* what handler was called with
    result      \* "none" while reading

vars == <<sent, wire, end, cancelled, expired, name, data, delivered, result>>
serverVars == <<sent, end, cancelled, expired>>

NoName == ""
Line(kind, text) == [kind |-> kind, text |-> text]
\* The lines of an event, after a comment.
LinesOf(e) ==
    <<Line("comment", NoName), Line("event", e.name)>>
    \o [i \in DOMAIN e.data |-> Line("data", e.data[i])] \o <<Line("blank", NoName)>>

Results == {"none", "closed", "context", "handler", "readError", "refused"}

TypeOK ==
    /\ sent \in Seq(Events) /\ end \in {"open", "eof", "error"}
    /\ cancelled \in BOOLEAN /\ expired \in BOOLEAN
    /\ name \in EventNames \cup {NoName} /\ data \in Seq(Pieces)
    /\ delivered \in Seq(Events) /\ result \in Results
    /\ \A i \in DOMAIN wire : wire[i].kind \in {"comment", "event", "data", "blank"}

\* The stream is open, or refused with a status other than 200.
Init ==
    /\ sent = <<>> /\ wire = <<>> /\ end = "open" /\ cancelled = FALSE /\ expired = FALSE
    /\ name = NoName /\ data = <<>> /\ delivered = <<>>
    /\ result \in {"none", "refused"}

\* The server sends an event, or closes; the network cuts, anywhere; the caller
\* cancels; the timeout set in NewClient strikes.
Publish == end = "open" /\ Len(sent) < MaxEvents /\ \E e \in Events :
    /\ sent' = Append(sent, e) /\ wire' = wire \o LinesOf(e)
    /\ UNCHANGED <<end, cancelled, expired, name, data, delivered, result>>
Close == end = "open" /\ end' = "eof"
    /\ UNCHANGED <<sent, wire, cancelled, expired, name, data, delivered, result>>
Cut == end = "open" /\ end' = "error" /\ (\E n \in 0 .. Len(wire) : wire' = SubSeq(wire, 1, n))
    /\ UNCHANGED <<sent, cancelled, expired, name, data, delivered, result>>
Cancel == ~cancelled /\ cancelled' = TRUE
    /\ UNCHANGED <<sent, wire, end, expired, name, data, delivered, result>>
Timeout == end = "open" /\ expired' = TRUE /\ end' = "error"
    /\ UNCHANGED <<sent, wire, cancelled, name, data, delivered, result>>

Reading == result = "none"

\* scanner.Scan gives a line, but the context is done.
ScanCancelled ==
    /\ Reading /\ wire # <<>> /\ cancelled
    /\ wire' = Tail(wire) /\ result' = "context"
    /\ UNCHANGED <<serverVars, name, data, delivered>>

\* A line that is not the end of an event: its name, a piece of its data, or
\* something that is skipped.
Scan ==
    /\ Reading /\ wire # <<>> /\ ~cancelled /\ Head(wire).kind # "blank"
    /\ wire' = Tail(wire)
    /\ name' = IF Head(wire).kind = "event" THEN Head(wire).text ELSE name
    /\ data' = IF Head(wire).kind = "data" THEN Append(data, Head(wire).text) ELSE data
    /\ UNCHANGED <<serverVars, delivered, result>>

\* Fault: the builder is not emptied.
dispatchKeepsData ==
    /\ Reading /\ wire # <<>> /\ ~cancelled /\ Head(wire).kind = "blank"
    /\ wire' = Tail(wire) /\ name' = NoName
    /\ delivered' = IF data = <<>> THEN delivered
                    ELSE Append(delivered, [name |-> name, data |-> data])
    /\ UNCHANGED <<serverVars, data, result>>

\* Fault: the request does not carry the context.
ReadCancelledIgnored == FALSE /\ UNCHANGED vars

\* dispatch at a blank line: handler is called and may end the stream.
dispatch ==
    /\ Reading /\ wire # <<>> /\ ~cancelled /\ Head(wire).kind = "blank"
    /\ wire' = Tail(wire) /\ name' = NoName /\ data' = <<>>
    /\ \/ data = <<>> /\ UNCHANGED <<delivered, result>>
       \/ /\ data # <<>>
          /\ delivered' = Append(delivered, [name |-> name, data |-> data])
          /\ result' \in {"none", "handler"}
    /\ UNCHANGED serverVars

\* The body ends: the context's error first, then the read's.
EndOfBody ==
    /\ Reading /\ wire = <<>> /\ end # "open"
    /\ result' = IF cancelled THEN "context" ELSE IF end = "eof" THEN "closed" ELSE "readError"
    /\ UNCHANGED <<serverVars, wire, name, data, delivered>>

\* The cancelled context ends a read that waits for the server.
ReadCancelled ==
    /\ Reading /\ wire = <<>> /\ end = "open" /\ cancelled /\ result' = "context"
    /\ UNCHANGED <<serverVars, wire, name, data, delivered>>

Reader == ScanCancelled \/ Scan \/ dispatch \/ EndOfBody \/ ReadCancelled
Next == Publish \/ Close \/ Cut \/ Cancel \/ Timeout \/ Reader

\* The goroutine of the caller keeps reading.
Spec == Init /\ [][Next]_vars /\ WF_vars(Reader)

----------------------------------------------------------------------------
Deliverable(events) == SelectSeq(events, LAMBDA e : e.data # <<>>)

\* handler sees the server's events, whole, once and in order, wherever the
\* connection is cut: those delivered are a prefix of those sent, and all of them
\* if the server closed the stream and the call returned nil.
DeliveredArePrefix ==
    /\ IsPrefix(delivered, Deliverable(sent))
    /\ result = "closed" => delivered = Deliverable(sent)

\* Cancelling the context ends the call, whether the reader waits or works.
CancelEnds == cancelled ~> result # "none"

\* "invokes handler for each event until ctx is cancelled, the connection
\* closes, or handler returns an error": nothing else ends the stream.
EndsAsDocumented == result = "readError" => ~expired
=============================================================================
