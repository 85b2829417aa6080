--------------------------- MODULE PolicyService ---------------------------
(***************************************************************************)
(* The feature-policy cache of tiering.PolicyService                       *)
(* (tiering/policy_service.go): readers that share one cached list behind  *)
(* a read-write mutex, the refresh that holds the mutex during the         *)
(* database query, and writers that commit first and bust the cache after. *)
(*                                                                         *)
(* A policy table is represented by the number of the write that produced  *)
(* it.  Another process may write to the same database.                    *)
(***************************************************************************)
EXTENDS Integers, FiniteSetsExt

CONSTANTS
    Readers, Writers, None,
    CacheTTL,
    MaxInFlight,    \* bound on the time of one call of all
    MaxTime, MaxVersion

PolicyAssumption ==
    /\ CacheTTL \in Nat /\ MaxInFlight \in Nat /\ MaxVersion \in Nat
    /\ None \notin Readers \cup Nat

VARIABLES
    faulty,         \* whether queries and writes may fail
    now,
    db,             \* the version of the table
    replacedAt,     \* replacedAt[v]: when version v was superseded, or None
    cached, cacheExpiry,
    mu,             \* the reader that holds the write lock, or None
    reader, writer,
    acked           \* history: the last version whose writer has returned

vars == <<faulty, now, db, replacedAt, cached, cacheExpiry, mu, reader, writer, acked>>
cacheVars == <<cached, cacheExpiry>>
dbVars == <<faulty, db, replacedAt>>

NewReader == [pc |-> "new", start |-> 0, floor |-> 0, list |-> None, out |-> None]
NewWriter == [pc |-> "new", version |-> 0]

TypeOK ==
    /\ faulty \in BOOLEAN /\ now \in Nat
    /\ db \in 0 .. MaxVersion /\ acked \in 0 .. MaxVersion
    /\ replacedAt \in [0 .. MaxVersion -> Nat \cup {None}]
    /\ cached \in Nat \cup {None} /\ cacheExpiry \in Nat
    /\ mu \in Readers \cup {None}
    /\ reader \in [Readers -> [pc: {"new", "slow", "list", "listed", "done"},
                     start: Nat, floor: Nat, list: Nat \cup {None},
                     out: Nat \cup {None}]]
    /\ writer \in [Writers -> [pc: {"new", "found", "bust", "done"},
                               version: Nat]]

Init ==
    /\ faulty \in BOOLEAN /\ now = 0 /\ db = 0 /\ acked = 0
    /\ replacedAt = [v \in 0 .. MaxVersion |-> None]
    /\ cached = None /\ cacheExpiry = 0 /\ mu = None
    /\ reader = [r \in Readers |-> NewReader]
    /\ writer = [w \in Writers |-> NewWriter]

----------------------------------------------------------------------------
Fresh == now < cacheExpiry /\ cached # None

Finish(r, out) ==
    reader' = [reader EXCEPT ![r] = [@ EXCEPT !.pc = "done", !.start = 0,
                                              !.list = None, !.out = out]]

\* Fault: the expiry slides with every read.
AllSlides(r) ==
    /\ reader[r].pc = "new" /\ mu = None
    /\ cacheExpiry' = IF Fresh THEN now + CacheTTL ELSE cacheExpiry
    /\ reader' = [reader EXCEPT ![r] = [@ EXCEPT !.floor = acked,
                    !.pc = IF Fresh THEN "done" ELSE "slow",
                    !.start = IF Fresh THEN 0 ELSE now,
                    !.out = IF Fresh THEN cached ELSE None]]
    /\ UNCHANGED <<now, dbVars, cached, mu, writer, acked>>

\* all, under the read lock: the fast path.
All(r) ==
    /\ reader[r].pc = "new" /\ mu = None
    /\ reader' = [reader EXCEPT ![r] = [@ EXCEPT !.floor = acked,
                    !.pc = IF Fresh THEN "done" ELSE "slow",
                    !.start = IF Fresh THEN 0 ELSE now,
                    !.out = IF Fresh THEN cached ELSE None]]
    /\ UNCHANGED <<now, dbVars, cacheVars, mu, writer, acked>>

\* Fault: the lock is not held during the query.
SlowUnlocked(r) ==
    /\ reader[r].pc = "slow" /\ mu = None
    /\ IF Fresh
       THEN Finish(r, cached)
       ELSE reader' = [reader EXCEPT ![r].pc = "list"]
    /\ UNCHANGED <<now, dbVars, cacheVars, mu, writer, acked>>

\* all, under the write lock: check again, else query with the lock held.
Slow(r) ==
    /\ reader[r].pc = "slow" /\ mu = None
    /\ IF Fresh
       THEN Finish(r, cached) /\ UNCHANGED mu
       ELSE /\ reader' = [reader EXCEPT ![r].pc = "list"]
            /\ mu' = r
    /\ UNCHANGED <<now, dbVars, cacheVars, writer, acked>>

\* The query reads the table.
List(r) ==
    /\ reader[r].pc = "list"
    /\ reader' = [reader EXCEPT ![r].pc = "listed", ![r].list = db]
    /\ UNCHANGED <<now, dbVars, cacheVars, mu, writer, acked>>

\* The answer is cached; the lock is released.
Store(r) ==
    /\ reader[r].pc = "listed"
    /\ cached' = reader[r].list /\ cacheExpiry' = now + CacheTTL
    /\ mu' = None
    /\ Finish(r, reader[r].list)
    /\ UNCHANGED <<now, dbVars, writer, acked>>

\* The query fails: a stale list is better than none; None is the error.
ListFails(r) ==
    /\ faulty /\ reader[r].pc \in {"list", "listed"}
    /\ mu' = None
    /\ Finish(r, cached)
    /\ UNCHANGED <<now, dbVars, cacheVars, writer, acked>>

ReaderReuse(r) ==
    /\ reader[r].pc = "done"
    /\ reader' = [reader EXCEPT ![r] = NewReader]
    /\ UNCHANGED <<now, dbVars, cacheVars, mu, writer, acked>>

----------------------------------------------------------------------------
Commit == /\ db < MaxVersion /\ db' = db + 1
          /\ replacedAt' = [replacedAt EXCEPT ![db] = now]
          /\ UNCHANGED faulty

\* UpdatePolicy: the row exists and the rules are valid, or it gives up.
UpdatePolicy(w) ==
    /\ writer[w].pc = "new"
    /\ \E ok \in BOOLEAN :
         writer' = [writer EXCEPT ![w].pc = IF ok THEN "found" ELSE "done"]
    /\ UNCHANGED <<now, dbVars, cacheVars, mu, reader, acked>>

\* Upsert commits; or SeedDefaults does, which changes no existing row.
Upsert(w) ==
    /\ writer[w].pc = "found"
    /\ Commit
    /\ writer' = [writer EXCEPT ![w].pc = "bust", ![w].version = db']
    /\ UNCHANGED <<now, cacheVars, mu, reader, acked>>

SeedDefaults(w) ==
    /\ writer[w].pc = "new"
    /\ writer' = [writer EXCEPT ![w].pc = "bust", ![w].version = db]
    /\ UNCHANGED <<now, dbVars, cacheVars, mu, reader, acked>>

\* Upsert reports an error, though the database may have committed.
UpsertFails(w) ==
    /\ faulty /\ writer[w].pc = "found"
    /\ Commit \/ UNCHANGED dbVars
    /\ writer' = [writer EXCEPT ![w].pc = "done"]
    /\ UNCHANGED <<now, cacheVars, mu, reader, acked>>

\* bust, under the write lock; then UpdatePolicy returns.
Bust(w) ==
    /\ writer[w].pc = "bust" /\ mu = None
    /\ cached' = None /\ cacheExpiry' = 0
    /\ writer' = [writer EXCEPT ![w].pc = "done"]
    /\ acked' = Max({acked, writer[w].version})
    /\ UNCHANGED <<now, dbVars, mu, reader>>

WriterReuse(w) ==
    /\ writer[w].pc = "done"
    /\ writer' = [writer EXCEPT ![w] = NewWriter]
    /\ UNCHANGED <<now, dbVars, cacheVars, mu, reader, acked>>

\* Another process writes to the database; this one's cache does not know.
OtherProcess ==
    /\ Commit
    /\ UNCHANGED <<now, cacheVars, mu, reader, writer, acked>>

Tick ==
    /\ now < MaxTime
    /\ \A r \in Readers : reader[r].pc \in {"new", "done"}
                            \/ now < reader[r].start + MaxInFlight
    /\ now' = now + 1
    /\ UNCHANGED <<dbVars, cacheVars, mu, reader, writer, acked>>

Next ==
    \/ \E r \in Readers :
         All(r) \/ Slow(r) \/ List(r) \/ Store(r) \/ ListFails(r) \/ ReaderReuse(r)
    \/ \E w \in Writers :
         \/ UpdatePolicy(w) \/ Upsert(w) \/ SeedDefaults(w) \/ UpsertFails(w)
         \/ Bust(w) \/ WriterReuse(w)
    \/ OtherProcess \/ Tick

Spec == Init /\ [][Next]_vars

----------------------------------------------------------------------------
\* "The cache is invalidated immediately on every admin write": once
\* UpdatePolicy has returned, no read that starts later sees an older table,
\* even if its refresh fails or another was under way during the write.
UpdateIsVisible ==
    \A r \in Readers :
        reader[r].pc = "done" /\ reader[r].out # None =>
            reader[r].out >= reader[r].floor

\* If the database works, a table written by another process is seen within
\* CacheTTL (plus one query): no list is served long after it was superseded.
StaleOnlyForTTL ==
    [][\A r \in Readers :
         LET v == reader'[r].out IN
         /\ reader[r].pc # "done" /\ reader'[r].pc = "done"
         /\ ~faulty /\ v # None /\ replacedAt[v] # None
         => now - replacedAt[v] <= CacheTTL + MaxInFlight]_vars
=============================================================================
