------------------------------- MODULE MCHttp -------------------------------
(***************************************************************************)
(* What a service puts around its handlers: the middleware stack           *)
(* (Httpware), the rate limiters (KeyedRateLimiter), the feature policies  *)
(* (PolicyService) and pagination.  They share no state: in each behaviour *)
(* one of them is in use and the others rest.                              *)
(***************************************************************************)
EXTENDS KeyedRateLimiter, Sequences, TLC

CONSTANTS Readers, Writers, Dev, Generic

VARIABLES used,
    faulty, clock, db, replacedAt, cached, cacheExpiry, mu, reader, writer, acked,
    stack, in, pc, at, frame, recorded, header, answer, matched, timers, time, gone,
    log, counted, panics, read, flushed, since, headers,
    totalItems, asked, page, params, totalPages, seen, repeated

policyVars == <<faulty, clock, db, replacedAt, cached, cacheExpiry, mu,
                reader, writer, acked>>
stackVars == <<stack, in, pc, at, frame, recorded, header, answer, matched, timers,
               time, gone, log, counted, panics, read, flushed, since, headers>>
pageVars == <<totalItems, asked, page, params, totalPages, seen, repeated>>

----------------------------------------------------------------------------
Plain(kind) == [kind |-> kind]
BodyLimit(max) == [kind |-> "BodyLimit", max |-> max]
Timeout(d) == [kind |-> "Timeout", d |-> d]

\* The stack of the repository's README, Metrics as its package documentation
\* mounts it, a route group with its own limits, and a stack whose Recover is
\* further out than what reports.
MCStacks ==
    {<<Plain("RequestID"), Plain("Logger"), Plain("SecurityHeaders"), BodyLimit(2),
       Plain("Recover"), Timeout(1), Plain("Auth"), Plain("RateLimiter")>>,
     <<Plain("Metrics"), Plain("Mux")>>,
     <<Plain("Metrics"), Plain("RequestID"), Plain("Recover"), Plain("Logger"),
       Timeout(2), Timeout(1), Plain("Auth"), Plain("RequireTenant"), Plain("Mux")>>,
     <<Plain("Recover"), Plain("Metrics"), BodyLimit(1), Timeout(1), Plain("Mux"),
       Timeout(2), BodyLimit(2)>>}

Id(length, clean) == [length |-> length, clean |-> clean, by |-> 0]
UsualRequest == [id |-> Id(36, TRUE), body |-> 2, user |-> "tenant"]

\* A usual request, and requests that differ from it in one respect.
MCRequests ==
    {[UsualRequest EXCEPT !.user = u] : u \in {"tenant", "tenantless", "anonymous"}}
    \cup {[UsualRequest EXCEPT !.body = b] : b \in {1, 3}}
    \cup {[UsualRequest EXCEPT !.id = i] :
            i \in {Id(0, TRUE), Id(36, FALSE), Id(129, TRUE)}}

Failure(code, status) ==
    [Code |-> code, StatusCode |-> status, Message |-> Dev, Details |-> Dev]

Stack == INSTANCE Httpware WITH
    Stacks <- MCStacks, Requests <- MCRequests, MaxRequestIDLength <- 128,
    Errors <- {Failure("not_found", 404), Failure("internal_error", 500),
               Failure("error", 504)},
    MaxWrites <- 2, MaxTime <- 2, now <- time

Policy == INSTANCE PolicyService WITH
    now <- clock, CacheTTL <- 2, MaxInFlight <- 1, MaxTime <- 4, MaxVersion <- 2

Pages == INSTANCE Pagination WITH
    MaxInt <- 63, DefaultPerPage <- 2, MaxPerPage <- 3, MaxItems <- 8,
    Sizes <- -1 .. 5, Jumps <- {-70, 0, 9, 32, 70}

\* What the proofs about the policies, the pages and the limits assume holds here.
ASSUME ProofsApply ==
    Policy!PolicyAssumption /\ Pages!PaginationAssumption /\ IdleTTLFillsBucket

MCInit ==
    /\ Init /\ Policy!Init /\ Stack!Init /\ Pages!Init
    /\ used \in {"limiter", "policies", "stack", "pages"}
    /\ used # "limiter" => served = Tenants
    /\ used # "policies" => ~faulty
    /\ used # "stack" => Len(stack) = 2 /\ in = UsualRequest
    /\ used # "pages" => totalItems = 0 /\ asked = 0

MCNext ==
    /\ used' = used
    /\ \/ used = "limiter" /\ Next /\ UNCHANGED <<policyVars, stackVars, pageVars>>
       \/ used = "policies" /\ Policy!Next /\ UNCHANGED <<vars, stackVars, pageVars>>
       \/ used = "stack" /\ Stack!Next /\ UNCHANGED <<vars, policyVars, pageVars>>
       \/ used = "pages" /\ Pages!Next /\ UNCHANGED <<vars, policyVars, stackVars>>

MCSpec == MCInit /\ [][MCNext]_<<used, vars, policyVars, stackVars, pageVars>>

Symmetry == Permutations(Requests) \cup Permutations(Addresses)
            \cup Permutations(Readers)

----------------------------------------------------------------------------
(* The properties, stated and explained in the modules they come from.     *)

\* A read that starts after UpdatePolicy has returned sees the update.
UpdateIsVisible == used = "policies" => Policy!UpdateIsVisible

\* A table another process wrote is seen within the TTL and one query.
StaleOnlyForTTL == Policy!StaleOnlyForTTL

\* Logger and Metrics report every request once, except for a panic recovered
\* further out, with the status that was sent or, if more were tried, the last.
ReportedOnce == used = "stack" => Stack!ReportedOnce

\* The innermost Timeout alone ends a handler's context.
OwnDeadline == used = "stack" => Stack!OwnDeadline

\* No body of a 5xx error shows what the developer wrote (WriteJSON, WriteProblem).
ErrorBodies == used = "stack" => Stack!ErrorBodies

\* An inner BodyLimit overrides an outer one.
OverrideApplies == used = "stack" => Stack!OverrideApplies

\* The pages that are announced are the list, each item once.
PagesAreTheList == used = "pages" => Pages!PagesAreTheList

\* The counter that bounds the address tier agrees with the map (create,
\* evictIdle), and the state of the part in use is well-formed.
Consistent ==
    /\ used = "limiter" => TypeOK /\ AnonymousKeysCounted
    /\ used = "policies" => Policy!TypeOK
    /\ used = "stack" => Stack!TypeOK
    /\ used = "pages" => Pages!PaginationTypeOK
=============================================================================
