----------------------------- MODULE Pagination -----------------------------
(***************************************************************************)
(* pagination/pagination.go, and a client that reads a list through it:    *)
(* it asks for page after page until it has had as many as the last        *)
(* response announced.  Go's int is 64 bits wide; here it has the values   *)
(* MinInt .. MaxInt and wraps in the same way.                             *)
(***************************************************************************)
EXTENDS Integers

CONSTANTS
    MaxInt,
    DefaultPerPage, MaxPerPage,
    Sizes,              \* the numbers a client may give as per_page
    Jumps,              \* pages a client may ask for out of turn
    MaxItems            \* bound on the length of the list

PaginationAssumption ==
    /\ MaxInt \in Nat /\ MaxItems \in 0 .. MaxInt /\ Sizes \subseteq Int
    /\ Jumps \subseteq Int
    /\ MaxPerPage \in 1 .. MaxInt /\ DefaultPerPage \in 1 .. MaxPerPage

VARIABLES
    totalItems,     \* the length of the list
    asked,          \* per_page, as the client gives it
    page,           \* the page it asks for next
    params,         \* what Parse made of the last request
    totalPages,     \* what the last response announced
    seen, repeated  \* the items it has got, those it has got more than once

pageVars == <<totalItems, asked, page, params, totalPages, seen, repeated>>

MinInt == -MaxInt - 1

\* Arithmetic on int: the result modulo its range.
Wrap(n) == ((n - MinInt) % (MaxInt - MinInt + 1)) + MinInt

\* strconv.Atoi with its error ignored: no number reads as 0, and a number that
\* is out of range as the end of the range it is beyond.
Atoi(n) == IF n > MaxInt THEN MaxInt ELSE IF n < MinInt THEN MinInt ELSE n

PageSize(n) ==
    IF n < 1 THEN DefaultPerPage ELSE IF n > MaxPerPage THEN MaxPerPage ELSE n

\* Parse, for the numbers in the query.
Parse(p, n) ==
    LET q == IF Atoi(p) < 1 THEN 1 ELSE Atoi(p)
        t == PageSize(Atoi(n))
    IN  [Page |-> q, PerPage |-> t, Offset |-> Wrap((q - 1) * t)]

\* Fault: a last page that is not full is not counted.
NewPagedResponseFloor(ps, total) == total \div ps.PerPage

\* The TotalPages of NewPagedResponse.
NewPagedResponse(ps, total) ==
    IF total % ps.PerPage > 0 THEN total \div ps.PerPage + 1
                              ELSE total \div ps.PerPage

\* The query of the handler: LIMIT PerPage OFFSET Offset.
Rows(ps) ==
    {i \in 0 .. totalItems - 1 : ps.Offset <= i /\ i < ps.Offset + ps.PerPage}

Init ==
    /\ totalItems \in 0 .. MaxItems /\ asked \in Sizes
    /\ page = 1 /\ params = Parse(1, asked) /\ totalPages = 1
    /\ seen = {} /\ repeated = {}

Get(p) ==
    /\ params' = Parse(p, asked)
    /\ totalPages' = NewPagedResponse(params', totalItems)
    /\ UNCHANGED <<totalItems, asked>>

\* The client asks for the next page.
NextPage ==
    /\ page <= totalPages
    /\ Get(page)
    /\ page' = page + 1
    /\ repeated' = repeated \cup (seen \cap Rows(params'))
    /\ seen' = seen \cup Rows(params')

\* The client looks at some page out of turn.
Jump(p) == Get(p) /\ UNCHANGED <<page, seen, repeated>>

Next == NextPage \/ \E p \in Jumps : Jump(p)

Spec == Init /\ [][Next]_pageVars

----------------------------------------------------------------------------
PaginationTypeOK ==
    /\ totalItems \in 0 .. MaxItems /\ asked \in Sizes
    /\ page \in Nat \ {0} /\ totalPages \in Nat
    /\ params \in [Page : 1 .. MaxInt, PerPage : 1 .. MaxPerPage,
                   Offset : MinInt .. MaxInt]
    /\ seen \subseteq 0 .. totalItems - 1 /\ repeated \subseteq seen

\* The pages 1 .. TotalPages that NewPagedResponse announces are the list: a
\* client that reads them gets every item once.
PagesAreTheList ==
    /\ repeated = {}
    /\ page > totalPages => seen = 0 .. totalItems - 1

\* The offset is that of the page, as the code's arithmetic has it.  Refuted by a
\* page number so large that the product overflows.
OffsetOfPage == params.Offset = (params.Page - 1) * params.PerPage
=============================================================================
