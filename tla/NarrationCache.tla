--------------------------- MODULE NarrationCache ---------------------------
(***************************************************************************)
(* The LRU and TTL cache of ainarration.NarrationCache                     *)
(* (ainarration/cache.go): a map and a recency list that have to agree,    *)
(* and a Get that looks an entry up under the read lock, decides, and acts *)
(* under the write lock after others may have changed both.                *)
(*                                                                         *)
(* An output is represented by the time it was put in.                     *)
(***************************************************************************)
EXTENDS Integers, Sequences, SequencesExt, FiniteSets

CONSTANTS Getters, Keys, None, MaxSize, TTL, MaxTime

ASSUME NarrationCacheAssumption ==
    /\ MaxSize \in Nat \ {0} /\ TTL \in Nat
    /\ None \notin Keys \cup Nat

VARIABLES
    now,
    entries,    \* key -> createdAt, or None
    order,      \* keys, oldest first
    get         \* the Gets in progress and their results

vars == <<now, entries, order, get>>

Idle == [pc |-> "idle", key |-> None, found |-> None, out |-> None]

TypeOK ==
    /\ now \in Nat
    /\ entries \in [Keys -> Nat \cup {None}]
    /\ order \in Seq(Keys)
    /\ get \in [Getters -> [pc: {"idle", "found", "expired", "hit", "done"},
                            key: Keys \cup {None}, found: Nat \cup {None},
                            out: Nat \cup {None}]]

Init ==
    /\ now = 0 /\ entries = [k \in Keys |-> None] /\ order = <<>>
    /\ get = [g \in Getters |-> Idle]

Cached == {k \in Keys : entries[k] # None}

removeFromOrder(key) == SelectSeq(order, LAMBDA k : k # key)

\* Fault: a key that is not in the list is added to it.
moveToEndAdds(key) == Append(removeFromOrder(key), key)

\* A key that is not in the list stays out of it.
moveToEnd(key) ==
    IF Contains(order, key) THEN Append(removeFromOrder(key), key) ELSE order

----------------------------------------------------------------------------
\* Put, one critical section: replace, or make room and append.  The loop
\* evicts until the map is below MaxSize; one entry suffices, since the map
\* never holds more.
Put(key) ==
    LET full == Cardinality(Cached) >= MaxSize /\ order # <<>>
        kept == IF full THEN [entries EXCEPT ![Head(order)] = None] ELSE entries
    IN  /\ IF key \in Cached
           THEN /\ entries' = [entries EXCEPT ![key] = now]
                /\ order' = moveToEnd(key)
           ELSE /\ entries' = [kept EXCEPT ![key] = now]
                /\ order' = Append(IF full THEN Tail(order) ELSE order, key)
        /\ UNCHANGED <<now, get>>

\* Get, under the read lock.
Look(g, key) ==
    /\ get[g].pc = "idle"
    /\ get' = [get EXCEPT ![g] =
                 IF key \in Cached
                 THEN [Idle EXCEPT !.pc = "found", !.key = key, !.found = entries[key]]
                 ELSE [Idle EXCEPT !.pc = "done", !.key = key]]
    /\ UNCHANGED <<now, entries, order>>

\* Get, between the locks: is the entry it saw too old?
Decide(g) ==
    /\ get[g].pc = "found"
    /\ get' = [get EXCEPT ![g].pc =
                 IF now - get[g].found > TTL THEN "expired" ELSE "hit"]
    /\ UNCHANGED <<now, entries, order>>

\* Get removes whatever is under the key now, if only just put there.
GetExpired(g) ==
    /\ get[g].pc = "expired"
    /\ entries' = [entries EXCEPT ![get[g].key] = None]
    /\ order' = removeFromOrder(get[g].key)
    /\ get' = [get EXCEPT ![g].pc = "done"]
    /\ UNCHANGED now

\* Get promotes the key, if it is still there, and returns what it saw.
GetHit(g) ==
    /\ get[g].pc = "hit"
    /\ order' = moveToEnd(get[g].key)
    /\ get' = [get EXCEPT ![g].pc = "done", ![g].out = get[g].found]
    /\ UNCHANGED <<now, entries>>

\* The caller has its result and may ask again.
Reuse(g) ==
    /\ get[g].pc = "done"
    /\ get' = [get EXCEPT ![g] = Idle]
    /\ UNCHANGED <<now, entries, order>>

Flush ==
    /\ entries' = [k \in Keys |-> None] /\ order' = <<>>
    /\ UNCHANGED <<now, get>>

Tick == now < MaxTime /\ now' = now + 1 /\ UNCHANGED <<entries, order, get>>

Next ==
    \/ \E k \in Keys : Put(k)
    \/ \E g \in Getters :
         \/ \E k \in Keys : Look(g, k)
         \/ Decide(g) \/ GetExpired(g) \/ GetHit(g) \/ Reuse(g)
    \/ Flush \/ Tick

Spec == Init /\ [][Next]_vars

----------------------------------------------------------------------------
\* The map and the recency list hold the same keys, each once, through every
\* interleaving of Gets with Puts, evictions and flushes, and no more than
\* MaxSize.  Otherwise Put could not make room, or an entry never be evicted.
OrderMatchesEntries ==
    /\ ToSet(order) = Cached
    /\ Len(order) = Cardinality(Cached)
    /\ Len(order) <= MaxSize
=============================================================================
