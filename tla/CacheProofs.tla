---------------------------- MODULE CacheProofs ----------------------------
(***************************************************************************)
(* Proofs about two caches: the keys of the token verifier (Jwks) and the  *)
(* feature policies (PolicyService, as Policy).                            *)
(*                                                                         *)
(* That a change of the key set is followed and that nobody waits in vain: *)
(* for any requests, any kids and any values of the intervals.  Where a    *)
(* key set that was fetched and the published one differ in a kid, the     *)
(* server changed its mind about that kid since it answered.  So all that  *)
(* has to be tracked is how old the answer is at most: what is being       *)
(* stored was asked for by its leader (RequestInv), what is cached was     *)
(* stored at lastFetch, and if the endpoint works it is as new as the last *)
(* attempt (KeysInv).                                                      *)
(*                                                                         *)
(* That an acknowledged update is visible, and that a superseded table is  *)
(* served no longer than the cache lives: for any number of readers and    *)
(* writers and any times.  A refresh holds the lock from before its query  *)
(* until its list is cached, and bust needs the lock (LockInv).  So no     *)
(* update is acknowledged in between, and neither the list nor the cache   *)
(* is ever older than an acknowledged update (VersionInv).  What is cached *)
(* was current when the refresh that cached it began (AgeInv).             *)
(***************************************************************************)
EXTENDS Jwks, TLAPS

----------------------------------------------------------------------------
(* The keys.                                                               *)

Leading == {"lead", "fetch", "got"}

\* S is wrong about k.
Differs(S, k) == k \in S <=> k \notin published

RequestInv(r) ==
    /\ req[r].pc \in Leading => flight = r
    /\ req[r].pc = "wait" => flight # None
    /\ InFlight(r) => /\ req[r].kid \in Kids
                      /\ req[r].start <= now /\ now <= req[r].start + MaxInFlight
    /\ req[r].pc \in {"fetch", "got"} => lastRefetchAttempt # None
    /\ req[r].pc = "got" =>
         \A k \in Kids : Differs(req[r].doc, k) =>
            req[r].start <= since[k] /\ lastRefetchAttempt <= since[k]
    /\ req[r].pc \in {"lookup", "unknown"} =>
         lastFetch # None /\ req[r].start <= lastFetch
    /\ req[r].pc = "unknown" /\ req[r].kid \in published =>
         req[r].start - MaxInFlight <= since[req[r].kid]

ClockInv ==
    /\ \A k \in Kids : since[k] <= now
    /\ lastFetch # None => lastFetch <= now
    /\ lastRefetchAttempt # None => lastRefetchAttempt <= now

KeysInv ==
    /\ lastFetch = None => keys = {}
    /\ lastFetch # None =>
         \A k \in Kids : Differs(keys, k) => lastFetch - MaxInFlight <= since[k]
    /\ ~faulty /\ flight = None /\ lastRefetchAttempt # None =>
         \A k \in Kids : Differs(keys, k) => lastRefetchAttempt <= since[k]

NegativeInv ==
    \A k \in Kids :
        negativeCache[k] # None =>
            /\ negativeCache[k] <= now
            /\ k \in published => negativeCache[k] - 2 * MaxInFlight <= since[k]

IndInv ==
    /\ flight # None => req[flight].pc \in Leading
    /\ ClockInv /\ KeysInv /\ NegativeInv
    /\ \A r \in Requests : RequestInv(r)

----------------------------------------------------------------------------
(* What each step writes.                                                  *)

\* The records of a request that ends, and of one that needs a fetch.
Asking(kid) ==
    [NewRequest EXCEPT !.pc = "join", !.kid = kid, !.ok = kid \in keys, !.start = now]

LEMMA NewRecord == NewRequest \in RequestType /\ NewRequest.pc = "new"
  BY DEF NewRequest, RequestType, PC

LEMMA DoneRecord ==
    ASSUME NEW kid \in Kids \cup {None},
           NEW out \in {None, "served", "notfound", "error"}
    PROVE  /\ Done(kid, out) \in RequestType /\ Done(kid, out).pc = "done"
           /\ Done(kid, out).kid = kid /\ Done(kid, out).out = out
  BY Zenon DEF Done, NewRequest, RequestType, PC

LEMMA AskingRecord ==
    ASSUME TypeOK, NEW kid \in Kids
    PROVE  /\ Asking(kid) \in RequestType /\ Asking(kid).pc = "join"
           /\ Asking(kid).kid = kid /\ Asking(kid).start = now
<1>1. now \in Nat
  BY DEF TypeOK
<1> DEFINE e(ok) == [NewRequest EXCEPT !.pc = "join", !.kid = kid, !.ok = ok, !.start = now]
<1>2. ASSUME NEW ok \in BOOLEAN
      PROVE  /\ e(ok) \in RequestType /\ e(ok).pc = "join"
             /\ e(ok).kid = kid /\ e(ok).start = now
  BY Zenon, <1>1 DEF NewRequest, RequestType, PC
<1>3. Asking(kid) = e(TRUE) \/ Asking(kid) = e(FALSE)
  <2>1. (kid \in keys) = TRUE \/ (kid \in keys) = FALSE
    OBVIOUS
  <2> QED
    BY <2>1, Zenon DEF Asking
<1> HIDE DEF e
<1> QED
  BY Zenon, <1>2, <1>3

\* Only the record of r is written, and it stays a record.
Writes(r) ==
    /\ req' \in [Requests -> RequestType]
    /\ \A q \in Requests \ {r} : req'[q] = req[q]

\* r goes on with the same kid, under the same deadline.
GoesOn(r, pc) ==
    /\ req'[r].pc = pc /\ req'[r].kid = req[r].kid /\ req'[r].start = req[r].start

LEMMA Written ==
    ASSUME TypeOK, NEW r \in Requests, NEW e \in RequestType,
           req' = [req EXCEPT ![r] = e]
    PROVE  Writes(r) /\ req'[r] = e
  BY DEF TypeOK, Writes

LEMMA Ends ==
    ASSUME TypeOK, NEW r \in Requests, NEW kid \in Kids \cup {None},
           NEW out \in {None, "served", "notfound", "error"}, Finish(r, kid, out)
    PROVE  /\ Writes(r) /\ req'[r].pc = "done"
           /\ req'[r].kid = kid /\ req'[r].out = out
<1>1. /\ Done(kid, out) \in RequestType /\ Done(kid, out).pc = "done"
      /\ Done(kid, out).kid = kid /\ Done(kid, out).out = out
  BY DoneRecord, Zenon
<1>2. req' = [req EXCEPT ![r] = Done(kid, out)]
  BY Zenon DEF Finish
<1>3. Writes(r) /\ req'[r] = Done(kid, out)
  BY <1>1, <1>2, Written, Zenon
<1> QED
  BY <1>1, <1>3, Zenon

LEMMA PcWritten ==
    ASSUME TypeOK, NEW r \in Requests, NEW pc \in PC, req' = [req EXCEPT ![r].pc = pc]
    PROVE  Writes(r) /\ GoesOn(r, pc) /\ req'[r].doc = req[r].doc
<1>1. req[r] \in RequestType
  BY DEF TypeOK
<1> DEFINE e == [req[r] EXCEPT !.pc = pc]
<1>2. /\ e \in RequestType /\ e.pc = pc /\ e.kid = req[r].kid
      /\ e.start = req[r].start /\ e.doc = req[r].doc
  BY <1>1 DEF RequestType
<1>3. req' = [req EXCEPT ![r] = e]
  BY DEF TypeOK
<1> HIDE DEF e
<1>4. Writes(r) /\ req'[r] = e
  BY Zenon, <1>2, <1>3, Written
<1> QED
  BY <1>2, <1>4 DEF GoesOn

----------------------------------------------------------------------------
(* The invariant is inductive.                                             *)

LEMMA Initially == Init => TypeOK /\ IndInv
<1> SUFFICES ASSUME Init PROVE TypeOK /\ IndInv
  OBVIOUS
<1>1. NewRequest \in RequestType /\ NewRequest.pc = "new"
  BY NewRecord, Zenon
<1>2. TypeOK
  BY <1>1 DEF Init, TypeOK
<1>3. \A r \in Requests : req[r].pc = "new"
  BY <1>1 DEF Init
<1>4. \A r \in Requests : RequestInv(r)
  BY <1>3 DEF RequestInv, InFlight, Leading
<1>5. ClockInv /\ KeysInv /\ NegativeInv /\ flight = None
  BY DEF Init, ClockInv, KeysInv, NegativeInv
<1> QED
  BY <1>2, <1>4, <1>5 DEF IndInv

LEMMA Typed ==
    ASSUME TypeOK
    PROVE  /\ now \in Nat /\ MaxInFlight \in Nat
           /\ \A k \in Kids : since[k] \in Nat
           /\ lastFetch # None => lastFetch \in Nat
           /\ lastRefetchAttempt # None => lastRefetchAttempt \in Nat
           /\ flight # None => flight \in Requests
           /\ \A r \in Requests : /\ req[r] \in RequestType
                                  /\ req[r].start \in Nat /\ req[r].doc \subseteq Kids
                                  /\ req[r].kid \in Kids \cup {None}
                                  /\ req[r].pc \in PC /\ req[r].ok \in BOOLEAN
<1>1. \A r \in Requests : req[r] \in RequestType
  BY DEF TypeOK
<1>2. \A e \in RequestType : /\ e.start \in Nat /\ e.doc \subseteq Kids
                             /\ e.kid \in Kids \cup {None}
                             /\ e.pc \in PC /\ e.ok \in BOOLEAN
  BY DEF RequestType
<1>3. \A r \in Requests : /\ req[r].start \in Nat /\ req[r].doc \subseteq Kids
                          /\ req[r].kid \in Kids \cup {None}
                          /\ req[r].pc \in PC /\ req[r].ok \in BOOLEAN
  BY <1>1, <1>2, Zenon
<1>4. /\ now \in Nat /\ MaxInFlight \in Nat /\ \A k \in Kids : since[k] \in Nat
      /\ lastFetch # None => lastFetch \in Nat
      /\ lastRefetchAttempt # None => lastRefetchAttempt \in Nat
      /\ flight # None => flight \in Requests
  BY JwksAssumption DEF TypeOK
<1> QED
  BY <1>1, <1>3, <1>4

LEMMA Untouched ==
    ASSUME NEW q \in Requests, RequestInv(q), req'[q] = req[q],
           UNCHANGED <<now, published, since, lastFetch, lastRefetchAttempt, flight>>
    PROVE  RequestInv(q)'
  BY Zenon DEF RequestInv, InFlight, Differs

LEMMA Idle ==
    ASSUME NEW q \in Requests, req'[q].pc \in {"new", "done"}
    PROVE  RequestInv(q)'
  BY DEF RequestInv, InFlight, Leading

\* A step that writes only the record of r.
LEMMA Frame ==
    ASSUME TypeOK, IndInv, NEW r \in Requests, Writes(r),
           UNCHANGED <<now, serverVars, cacheVars, flight>>,
           RequestInv(r)', flight = r => req'[r].pc \in Leading
    PROVE  TypeOK' /\ IndInv'
<1>1. TypeOK'
  BY DEF TypeOK, Writes, serverVars, cacheVars
<1>2. ClockInv' /\ KeysInv' /\ NegativeInv'
  BY DEF IndInv, ClockInv, KeysInv, NegativeInv, Differs, serverVars, cacheVars
<1>3. ASSUME NEW q \in Requests PROVE RequestInv(q)'
  <2>1. CASE q = r
    BY <2>1
  <2>2. CASE q # r
    <3>1. req'[q] = req[q] /\ RequestInv(q)
      BY <2>2 DEF Writes, IndInv
    <3> QED
      BY <3>1, Untouched DEF serverVars, cacheVars
  <2> QED
    BY <2>1, <2>2
<1>4. flight' # None => req'[flight'].pc \in Leading
  BY Typed DEF IndInv, Writes
<1> QED
  BY <1>1, <1>2, <1>3, <1>4 DEF IndInv

LEMMA GetKeyKeeps ==
    ASSUME TypeOK, IndInv, NEW r \in Requests, NEW k \in Kids, getKey(r, k)
    PROVE  TypeOK' /\ IndInv'
<1>1. /\ UNCHANGED <<now, serverVars, cacheVars, flight>> /\ req[r].pc = "new"
      /\ \/ Finish(r, k, "served") \/ Finish(r, k, "notfound")
         \/ req' = [req EXCEPT ![r] = Asking(k)]
  BY Zenon DEF getKey, Asking
<1>2. /\ Writes(r)
      /\ \/ req'[r].pc = "done"
         \/ req'[r].pc = "join" /\ req'[r].kid = k /\ req'[r].start = now
  <2>1. CASE Finish(r, k, "served") \/ Finish(r, k, "notfound")
    BY <2>1, Ends, Zenon
  <2>2. CASE req' = [req EXCEPT ![r] = Asking(k)]
    <3>1. Asking(k) \in RequestType
      BY AskingRecord, Zenon
    <3>2. Writes(r) /\ req'[r] = Asking(k)
      BY <2>2, <3>1, Written, Zenon
    <3> QED
      BY <3>2, AskingRecord, Zenon
  <2> QED
    BY <1>1, <2>1, <2>2
<1>3. RequestInv(r)'
  <2>1. CASE req'[r].pc = "done"
    BY <2>1, Idle
  <2>2. CASE req'[r].pc = "join" /\ req'[r].kid = k /\ req'[r].start = now
    <3>1. now <= now + MaxInFlight /\ now <= now /\ now' = now
      BY <1>1, Typed
    <3> QED
      BY <2>2, <3>1 DEF RequestInv, InFlight, Leading
  <2> QED
    BY <1>2, <2>1, <2>2
<1>4. flight # r
  BY <1>1, JwksAssumption DEF IndInv, Leading
<1> QED
  BY <1>1, <1>2, <1>3, <1>4, Frame

LEMMA JoinKeeps ==
    ASSUME TypeOK, IndInv, NEW r \in Requests, Join(r)
    PROVE  TypeOK' /\ IndInv'
<1>1. /\ req[r].pc = "join" /\ UNCHANGED <<now, serverVars, cacheVars>>
      /\ RequestInv(r) /\ flight # r
  BY JwksAssumption DEF Join, IndInv, Leading
<1>2. /\ req[r].kid \in Kids /\ req[r].start <= now /\ now <= req[r].start + MaxInFlight
  BY <1>1 DEF RequestInv, InFlight
<1>3. CASE flight # None
  <2>1. req' = [req EXCEPT ![r].pc = "wait"] /\ flight' = flight
    BY Zenon, <1>3 DEF Join
  <2>2. Writes(r) /\ GoesOn(r, "wait")
    BY Zenon, <2>1, PcWritten DEF PC
  <2>3. RequestInv(r)'
    BY <1>1, <1>2, <1>3, <2>1, <2>2 DEF RequestInv, InFlight, Leading, GoesOn
  <2> QED
    BY <1>1, <2>1, <2>2, <2>3, Frame
<1>4. CASE flight = None
  <2>1. req' = [req EXCEPT ![r].pc = "lead"] /\ flight' = r
    BY Zenon, <1>4 DEF Join
  <2>2. Writes(r) /\ GoesOn(r, "lead")
    BY Zenon, <2>1, PcWritten DEF PC
  <2>3. TypeOK'
    BY <1>1, <2>1, <2>2 DEF TypeOK, Writes, serverVars, cacheVars
  <2>4. ClockInv' /\ KeysInv' /\ NegativeInv'
    <3>1. r # None
      BY JwksAssumption
    <3> QED
      BY <1>1, <2>1, <3>1
         DEF IndInv, ClockInv, KeysInv, NegativeInv, Differs, serverVars, cacheVars
  <2>5. ASSUME NEW q \in Requests PROVE RequestInv(q)'
    <3>1. CASE q = r
      BY <1>1, <1>2, <2>1, <2>2, <3>1 DEF RequestInv, InFlight, Leading, GoesOn
    <3>2. CASE q # r
      <4>1. req'[q] = req[q] /\ RequestInv(q) /\ q # None
        BY <2>2, <3>2, JwksAssumption DEF Writes, IndInv
      <4>2. req[q].pc \notin Leading /\ req[q].pc # "wait"
        BY <1>4, <4>1 DEF RequestInv
      <4> QED
        BY <1>1, <4>1, <4>2, Zenon
           DEF RequestInv, InFlight, Differs, Leading, serverVars, cacheVars
    <3> QED
      BY <3>1, <3>2
  <2>6. flight' # None => req'[flight'].pc \in Leading
    BY <2>1, <2>2 DEF GoesOn, Leading
  <2> QED
    BY <2>3, <2>4, <2>5, <2>6 DEF IndInv
<1> QED
  BY <1>3, <1>4

LEMMA StartFetchKeeps ==
    ASSUME TypeOK, IndInv, NEW r \in Requests, StartFetch(r)
    PROVE  TypeOK' /\ IndInv'
<1>1. /\ req[r].pc = "lead" /\ lastRefetchAttempt' = now
      /\ UNCHANGED <<now, serverVars, keys, lastFetch, negativeCache, flight>>
      /\ RequestInv(r) /\ now \in Nat /\ None \notin Nat
  BY Typed, JwksAssumption DEF StartFetch, IndInv
<1>2. /\ req[r].kid \in Kids /\ req[r].start <= now /\ now <= req[r].start + MaxInFlight
      /\ flight = r /\ r # None
  BY Zenon, <1>1, JwksAssumption DEF RequestInv, InFlight, Leading
<1>3. Writes(r) /\ GoesOn(r, "fetch")
  BY Zenon, PcWritten DEF StartFetch, PC
<1>4. TypeOK'
  BY <1>1, <1>3 DEF TypeOK, Writes, serverVars
<1>5. ClockInv' /\ KeysInv' /\ NegativeInv'
  <2>1. now <= now
    BY <1>1
  <2> QED
    BY <1>1, <1>2, <2>1 DEF IndInv, ClockInv, KeysInv, NegativeInv, Differs, serverVars
<1>6. ASSUME NEW q \in Requests PROVE RequestInv(q)'
  <2>1. CASE q = r
    BY <1>1, <1>2, <1>3, <2>1 DEF RequestInv, InFlight, Leading, GoesOn
  <2>2. CASE q # r
    <3>1. req'[q] = req[q] /\ RequestInv(q)
      BY <1>3, <2>2 DEF Writes, IndInv
    <3>2. req[q].pc \notin Leading
      BY <1>2, <2>2, <3>1 DEF RequestInv
    <3> QED
      BY <1>1, <3>1, <3>2, Zenon DEF RequestInv, InFlight, Differs, Leading, serverVars
  <2> QED
    BY <2>1, <2>2
<1>7. flight' # None => req'[flight'].pc \in Leading
  BY <1>1, <1>2, <1>3 DEF GoesOn, Leading
<1> QED
  BY <1>4, <1>5, <1>6, <1>7 DEF IndInv

LEMMA RespondKeeps ==
    ASSUME TypeOK, IndInv, NEW r \in Requests, Respond(r)
    PROVE  TypeOK' /\ IndInv'
<1>1. /\ req[r].pc = "fetch" /\ UNCHANGED <<now, serverVars, cacheVars, flight>>
      /\ RequestInv(r) /\ published \subseteq Kids
  BY DEF Respond, IndInv, TypeOK
<1>2. /\ req[r].kid \in Kids /\ req[r].start <= now /\ now <= req[r].start + MaxInFlight
      /\ flight = r /\ lastRefetchAttempt # None
  BY <1>1 DEF RequestInv, InFlight, Leading
<1> DEFINE e == [req[r] EXCEPT !.pc = "got", !.doc = published]
<1>3. /\ e \in RequestType /\ e.pc = "got" /\ e.doc = published
      /\ e.kid = req[r].kid /\ e.start = req[r].start
  <2>1. req[r] \in RequestType
    BY Typed
  <2> QED
    BY Zenon, <1>1, <2>1 DEF RequestType, PC
<1>4. req' = [req EXCEPT ![r] = e]
  BY Zenon DEF Respond, TypeOK
<1> HIDE DEF e
<1>5. Writes(r) /\ req'[r] = e
  BY Zenon, <1>3, <1>4, Written
<1>6. RequestInv(r)'
  BY <1>1, <1>2, <1>3, <1>5
     DEF RequestInv, InFlight, Leading, Differs, serverVars, cacheVars
<1> QED
  BY <1>1, <1>3, <1>5, <1>6, Frame DEF Leading

LEMMA StoreKeysKeeps ==
    ASSUME TypeOK, IndInv, NEW r \in Requests, StoreKeys(r)
    PROVE  TypeOK' /\ IndInv'
<1>1. /\ req[r].pc = "got" /\ keys' = req[r].doc /\ lastFetch' = now
      /\ negativeCache' = [k \in Kids |-> None] /\ flight' = None
      /\ UNCHANGED <<now, serverVars, lastRefetchAttempt>>
      /\ RequestInv(r) /\ now \in Nat /\ None \notin Nat /\ req[r].doc \subseteq Kids
  BY Zenon, Typed, JwksAssumption DEF StoreKeys, IndInv
<1>2. /\ req[r].start <= now /\ now <= req[r].start + MaxInFlight
      /\ flight = r /\ lastRefetchAttempt # None
      /\ \A k \in Kids : Differs(req[r].doc, k) =>
           req[r].start <= since[k] /\ lastRefetchAttempt <= since[k]
      /\ req[r].start \in Nat /\ MaxInFlight \in Nat
  BY <1>1, Typed DEF RequestInv, InFlight, Leading
<1>3. ASSUME NEW q \in Requests
      PROVE  /\ req'[q] \in RequestType
             /\ \/ q # r /\ req[q].pc # "wait" /\ req'[q] = req[q]
                \/ /\ q = r \/ req[q].pc = "wait"
                   /\ GoesOn(q, "lookup")
  <2> DEFINE e == [req[q] EXCEPT !.pc = "lookup", !.doc = {}]
  <2>1. req[q] \in RequestType
    BY Typed
  <2>2. /\ e \in RequestType /\ e.pc = "lookup"
        /\ e.kid = req[q].kid /\ e.start = req[q].start
    BY Zenon, <2>1 DEF RequestType, PC
  <2>3. req'[q] = IF q = r \/ req[q].pc = "wait" THEN e ELSE req[q]
    BY Zenon DEF StoreKeys, Landing
  <2> HIDE DEF e
  <2> QED
    BY <2>1, <2>2, <2>3 DEF GoesOn
<1>4. TypeOK'
  <2>1. req' \in [Requests -> RequestType]
    <3>1. req' = [q \in Requests |-> req'[q]]
      BY Zenon DEF StoreKeys
    <3> QED
      BY Zenon, <1>3, <3>1
  <2> QED
    BY <1>1, <2>1 DEF TypeOK, serverVars
<1>5. ClockInv'
  BY <1>1 DEF IndInv, ClockInv, serverVars
<1>6. KeysInv'
  <2>1. ASSUME NEW k \in Kids, Differs(req[r].doc, k)
        PROVE  now - MaxInFlight <= since[k] /\ lastRefetchAttempt <= since[k]
    <3>1. req[r].start <= since[k] /\ lastRefetchAttempt <= since[k] /\ since[k] \in Nat
      BY <1>2, <2>1, Typed
    <3> QED
      BY <1>1, <1>2, <3>1
  <2>2. \A k \in Kids : Differs(keys, k)' <=> Differs(req[r].doc, k)
    BY <1>1 DEF Differs, serverVars
  <2> QED
    BY <1>1, <2>1, <2>2 DEF KeysInv, serverVars
<1>7. NegativeInv'
  BY <1>1 DEF NegativeInv
<1>8. ASSUME NEW q \in Requests PROVE RequestInv(q)'
  <2>1. RequestInv(q)
    BY DEF IndInv
  <2>2. CASE q # r /\ req[q].pc # "wait" /\ req'[q] = req[q]
    <3>1. req[q].pc \notin Leading
      BY <1>2, <2>1, <2>2 DEF RequestInv
    <3>2. req[q].pc \in {"lookup", "unknown"} => req[q].start <= now
      BY <2>1 DEF RequestInv, InFlight
    <3> QED
      BY <1>1, <2>1, <2>2, <3>1, <3>2
         DEF RequestInv, InFlight, Leading, serverVars
  <2>3. CASE (q = r \/ req[q].pc = "wait") /\ GoesOn(q, "lookup")
    <3>1. /\ req[q].kid \in Kids
          /\ req[q].start <= now /\ now <= req[q].start + MaxInFlight
      BY <1>1, <2>1, <2>3 DEF RequestInv, InFlight
    <3> QED
      BY <1>1, <2>3, <3>1 DEF RequestInv, InFlight, Leading, GoesOn
  <2> QED
    BY <1>3, <2>2, <2>3
<1> QED
  BY <1>1, <1>4, <1>5, <1>6, <1>7, <1>8 DEF IndInv

LEMMA FetchFailsKeeps ==
    ASSUME TypeOK, IndInv, NEW r \in Requests, FetchFails(r)
    PROVE  TypeOK' /\ IndInv'
<1>1. /\ req[r].pc = "fetch" /\ faulty /\ flight' = None
      /\ UNCHANGED <<now, serverVars, cacheVars>> /\ RequestInv(r)
  BY DEF FetchFails, IndInv
<1>2. flight = r
  BY <1>1 DEF RequestInv, Leading
<1>3. ASSUME NEW q \in Requests
      PROVE  /\ req'[q] \in RequestType
             /\ \/ q # r /\ req[q].pc # "wait" /\ req'[q] = req[q]
                \/ req'[q].pc = "done"
  <2> DEFINE out == IF req[q].ok THEN "served" ELSE "error"
  <2>1. req[q] \in RequestType /\ req[q].kid \in Kids \cup {None}
    BY Typed
  <2>2. out \in {None, "served", "notfound", "error"}
    OBVIOUS
  <2>3. req'[q] = IF q = r \/ req[q].pc = "wait" THEN Done(req[q].kid, out) ELSE req[q]
    BY DEF FetchFails, Landing
  <2> HIDE DEF out
  <2>4. Done(req[q].kid, out) \in RequestType /\ Done(req[q].kid, out).pc = "done"
    BY <2>1, <2>2, DoneRecord, Zenon
  <2> QED
    BY <2>1, <2>3, <2>4
<1>4. TypeOK'
  <2>1. req' \in [Requests -> RequestType]
    <3>1. req' = [q \in Requests |-> req'[q]]
      BY DEF FetchFails
    <3> QED
      BY <1>3, <3>1
  <2> QED
    BY <1>1, <2>1 DEF TypeOK, serverVars, cacheVars
<1>5. ClockInv' /\ KeysInv' /\ NegativeInv'
  BY <1>1 DEF IndInv, ClockInv, KeysInv, NegativeInv, Differs, serverVars, cacheVars
<1>6. ASSUME NEW q \in Requests PROVE RequestInv(q)'
  <2>1. CASE q # r /\ req[q].pc # "wait" /\ req'[q] = req[q]
    <3>1. RequestInv(q) /\ req[q].pc \notin Leading
      BY <1>2, <2>1 DEF RequestInv, IndInv
    <3> QED
      BY <1>1, <2>1, <3>1, Zenon
         DEF RequestInv, InFlight, Differs, Leading, serverVars, cacheVars
  <2>2. CASE req'[q].pc = "done"
    BY <2>2, Idle
  <2> QED
    BY <1>3, <2>1, <2>2
<1> QED
  BY <1>1, <1>4, <1>5, <1>6 DEF IndInv

LEMMA LookupKeeps ==
    ASSUME TypeOK, IndInv, NEW r \in Requests, Lookup(r)
    PROVE  TypeOK' /\ IndInv'
<1>1. /\ req[r].pc = "lookup" /\ UNCHANGED <<now, serverVars, cacheVars, flight>>
      /\ RequestInv(r) /\ flight # r
  BY JwksAssumption DEF Lookup, IndInv, Leading
<1>2. /\ req[r].kid \in Kids /\ req[r].start <= now /\ now <= req[r].start + MaxInFlight
      /\ lastFetch # None /\ req[r].start <= lastFetch
  BY <1>1 DEF RequestInv, InFlight
<1>3. CASE req[r].kid \in keys
  <2>1. Writes(r) /\ req'[r].pc = "done"
    <3>1. Finish(r, req[r].kid, "served")
      BY <1>3 DEF Lookup
    <3> QED
      BY <1>2, <3>1, Ends
  <2> QED
    BY <1>1, <2>1, Idle, Frame
<1>4. CASE req[r].kid \notin keys
  <2>1. Writes(r) /\ GoesOn(r, "unknown")
    <3>1. req' = [req EXCEPT ![r].pc = "unknown"]
      BY <1>4 DEF Lookup
    <3> QED
      BY Zenon, <3>1, PcWritten DEF PC
  <2>2. req[r].kid \in published => req[r].start - MaxInFlight <= since[req[r].kid]
    <3> SUFFICES ASSUME req[r].kid \in published
                 PROVE  req[r].start - MaxInFlight <= since[req[r].kid]
      OBVIOUS
    <3>1. lastFetch - MaxInFlight <= since[req[r].kid]
      BY <1>2, <1>4 DEF IndInv, KeysInv, Differs
    <3>2. /\ lastFetch \in Nat /\ req[r].start \in Nat /\ MaxInFlight \in Nat
          /\ since[req[r].kid] \in Nat
      BY <1>2, Typed
    <3> QED
      BY <1>2, <3>1, <3>2
  <2>3. RequestInv(r)'
    BY <1>1, <1>2, <2>1, <2>2
       DEF RequestInv, InFlight, Leading, GoesOn, serverVars, cacheVars
  <2> QED
    BY Zenon, <1>1, <2>1, <2>3, Frame
<1> QED
  BY <1>3, <1>4

LEMMA RememberKeeps ==
    ASSUME TypeOK, IndInv, NEW r \in Requests, rememberUnknownKid(r)
    PROVE  TypeOK' /\ IndInv'
<1>1. /\ req[r].pc = "unknown" /\ Finish(r, req[r].kid, "notfound")
      /\ UNCHANGED <<now, serverVars, keys, lastFetch, lastRefetchAttempt, flight>>
      /\ RequestInv(r) /\ flight # r
  BY JwksAssumption DEF rememberUnknownKid, IndInv, Leading
<1>2. /\ req[r].kid \in Kids /\ req[r].start <= now /\ now <= req[r].start + MaxInFlight
      /\ req[r].kid \in published => req[r].start - MaxInFlight <= since[req[r].kid]
  BY <1>1 DEF RequestInv, InFlight
<1>3. Writes(r) /\ req'[r].pc = "done"
  BY <1>1, <1>2, Ends
<1>4. ASSUME NEW k \in Kids
      PROVE  /\ negativeCache'[k] \in Nat \cup {None}
             /\ k # req[r].kid => negativeCache'[k] \in {negativeCache[k], None}
             /\ k = req[r].kid => negativeCache'[k] = now
  BY Typed DEF rememberUnknownKid, TypeOK
<1>5. TypeOK'
  <2>1. negativeCache' \in [Kids -> Nat \cup {None}]
    <3>1. negativeCache' = [k \in Kids |-> negativeCache'[k]]
      BY DEF rememberUnknownKid
    <3> QED
      BY <1>4, <3>1
  <2> QED
    BY <1>1, <1>3, <2>1 DEF TypeOK, Writes, serverVars
<1>6. ClockInv' /\ KeysInv'
  BY <1>1 DEF IndInv, ClockInv, KeysInv, Differs, serverVars
<1>7. NegativeInv'
  <2> SUFFICES ASSUME NEW k \in Kids, negativeCache'[k] # None
               PROVE  /\ negativeCache'[k] <= now
                      /\ k \in published => negativeCache'[k] - 2 * MaxInFlight <= since[k]
    BY <1>1 DEF NegativeInv, serverVars
  <2>1. CASE k # req[r].kid
    BY <1>4, <2>1 DEF IndInv, NegativeInv
  <2>2. CASE k = req[r].kid
    <3>1. /\ k \in published => req[r].start - MaxInFlight <= since[k]
          /\ negativeCache'[k] = now /\ now \in Nat /\ MaxInFlight \in Nat
          /\ req[r].start \in Nat /\ since[k] \in Nat
      BY <1>2, <1>4, <2>2, Typed
    <3> QED
      BY <1>2, <3>1
  <2> QED
    BY <2>1, <2>2
<1>8. ASSUME NEW q \in Requests PROVE RequestInv(q)'
  <2>1. CASE q = r
    BY <1>3, <2>1, Idle
  <2>2. CASE q # r
    <3>1. req'[q] = req[q] /\ RequestInv(q)
      BY <1>3, <2>2 DEF Writes, IndInv
    <3> QED
      BY <1>1, <3>1, Untouched DEF serverVars
  <2> QED
    BY <2>1, <2>2
<1>9. flight' # None => req'[flight'].pc \in Leading
  BY <1>1, <1>3, Typed DEF IndInv, Writes
<1> QED
  BY <1>5, <1>6, <1>7, <1>8, <1>9 DEF IndInv

LEMMA ReuseKeeps ==
    ASSUME TypeOK, IndInv, NEW r \in Requests, Reuse(r)
    PROVE  TypeOK' /\ IndInv'
<1>1. /\ req[r].pc = "done" /\ UNCHANGED <<now, serverVars, cacheVars, flight>>
      /\ flight # r
  BY JwksAssumption DEF Reuse, IndInv, Leading
<1>2. Writes(r) /\ req'[r].pc = "new"
  BY NewRecord, Written, Zenon DEF Reuse
<1> QED
  BY <1>1, <1>2, Idle, Frame

LEMMA RotateKeeps ==
    ASSUME TypeOK, IndInv, NEW k \in Kids, Rotate(k)
    PROVE  TypeOK' /\ IndInv'
<1>1. /\ UNCHANGED <<faulty, now, cacheVars, flight, req>>
      /\ now \in Nat /\ MaxInFlight \in Nat
  BY Typed DEF Rotate
<1>2. ASSUME NEW j \in Kids
      PROVE  \/ j = k /\ since'[j] = now
             \/ j # k /\ since'[j] = since[j] /\ (j \in published' <=> j \in published)
  BY DEF Rotate, TypeOK
<1>3. TypeOK'
  <2>1. since' \in [Kids -> Nat] /\ changes' \in Nat
    BY <1>1 DEF Rotate, TypeOK
  <2>2. published' \subseteq Kids
    BY DEF Rotate, TypeOK
  <2> QED
    BY <1>1, <2>1, <2>2 DEF TypeOK, cacheVars
<1>4. ClockInv'
  <2>1. \A j \in Kids : since'[j] <= now
    BY <1>1, <1>2 DEF IndInv, ClockInv
  <2> QED
    BY <1>1, <2>1 DEF IndInv, ClockInv, cacheVars
<1>5. KeysInv'
  <2>1. ASSUME NEW j \in Kids, lastFetch # None, Differs(keys, j)'
        PROVE  lastFetch - MaxInFlight <= since'[j]
    <3>1. CASE j = k /\ since'[j] = now
      BY <1>1, <2>1, <3>1, Typed DEF IndInv, ClockInv
    <3>2. CASE j # k /\ since'[j] = since[j] /\ (j \in published' <=> j \in published)
      <4>1. Differs(keys, j)
        BY <1>1, <2>1, <3>2 DEF Differs, cacheVars
      <4> QED
        BY <2>1, <3>2, <4>1 DEF IndInv, KeysInv
    <3> QED
      BY <1>2, <3>1, <3>2
  <2>2. ASSUME NEW j \in Kids, ~faulty, flight = None, lastRefetchAttempt # None,
               Differs(keys, j)'
        PROVE  lastRefetchAttempt <= since'[j]
    <3>1. CASE j = k /\ since'[j] = now
      BY <2>2, <3>1 DEF IndInv, ClockInv
    <3>2. CASE j # k /\ since'[j] = since[j] /\ (j \in published' <=> j \in published)
      <4>1. Differs(keys, j)
        BY <1>1, <2>2, <3>2 DEF Differs, cacheVars
      <4> QED
        BY <2>2, <3>2, <4>1 DEF IndInv, KeysInv
    <3> QED
      BY <1>2, <3>1, <3>2
  <2>3. lastFetch = None => keys = {}
    BY DEF IndInv, KeysInv
  <2> QED
    BY <1>1, <2>1, <2>2, <2>3 DEF KeysInv, cacheVars
<1>6. NegativeInv'
  <2> SUFFICES ASSUME NEW j \in Kids, negativeCache[j] # None
               PROVE  /\ negativeCache[j] <= now
                      /\ j \in published' => negativeCache[j] - 2 * MaxInFlight <= since'[j]
    BY <1>1 DEF NegativeInv, cacheVars
  <2>1. /\ negativeCache[j] <= now /\ negativeCache[j] \in Nat
        /\ j \in published => negativeCache[j] - 2 * MaxInFlight <= since[j]
    BY Zenon DEF IndInv, NegativeInv, TypeOK
  <2> QED
    BY <1>1, <1>2, <2>1
<1>7. ASSUME NEW q \in Requests PROVE RequestInv(q)'
  <2>1. RequestInv(q) /\ req[q].start \in Nat /\ req'[q] = req[q]
    BY <1>1, Typed DEF IndInv
  <2>2. ASSUME req[q].pc = "got", NEW j \in Kids, Differs(req[q].doc, j)'
        PROVE  req[q].start <= since'[j] /\ lastRefetchAttempt <= since'[j]
    <3>1. CASE j = k /\ since'[j] = now
      BY <2>1, <2>2, <3>1 DEF RequestInv, InFlight, IndInv, ClockInv
    <3>2. CASE j # k /\ since'[j] = since[j] /\ (j \in published' <=> j \in published)
      <4>1. Differs(req[q].doc, j)
        BY <1>1, <2>2, <3>2 DEF Differs
      <4> QED
        BY <2>1, <2>2, <3>2, <4>1 DEF RequestInv
    <3> QED
      BY Zenon, <1>2, <3>1, <3>2
  <2>3. ASSUME req[q].pc = "unknown", req[q].kid \in published'
        PROVE  req[q].start - MaxInFlight <= since'[req[q].kid]
    <3>1. req[q].kid \in Kids /\ req[q].start <= now
      BY <2>1, <2>3 DEF RequestInv, InFlight
    <3>2. req[q].kid \in published => req[q].start - MaxInFlight <= since[req[q].kid]
      BY <2>1, <2>3 DEF RequestInv
    <3> QED
      BY <1>1, <1>2, <2>1, <2>3, <3>1, <3>2
  <2> QED
    BY <1>1, <2>1, <2>2, <2>3 DEF RequestInv, InFlight, cacheVars
<1> QED
  BY <1>1, <1>3, <1>4, <1>5, <1>6, <1>7 DEF IndInv

LEMMA TickKeeps ==
    ASSUME TypeOK, IndInv, Tick
    PROVE  TypeOK' /\ IndInv'
<1>1. /\ UNCHANGED <<serverVars, cacheVars, flight, req>> /\ now' = now + 1
      /\ \A r \in Requests : InFlight(r) => now < req[r].start + MaxInFlight
      /\ now \in Nat /\ MaxInFlight \in Nat
  BY Typed DEF Tick
<1>2. TypeOK'
  BY <1>1 DEF TypeOK, serverVars, cacheVars
<1>3. ClockInv'
  BY <1>1, Typed DEF IndInv, ClockInv, serverVars, cacheVars
<1>4. KeysInv'
  BY <1>1 DEF IndInv, KeysInv, Differs, serverVars, cacheVars
<1>5. NegativeInv'
  <2>1. \A k \in Kids : negativeCache[k] # None => negativeCache[k] \in Nat
    BY DEF TypeOK
  <2> QED
    BY <1>1, <2>1 DEF IndInv, NegativeInv, serverVars, cacheVars
<1>6. ASSUME NEW q \in Requests PROVE RequestInv(q)'
  <2>1. RequestInv(q) /\ req[q].start \in Nat
    BY Typed DEF IndInv
  <2>2. InFlight(q) => req[q].start <= now + 1 /\ now + 1 <= req[q].start + MaxInFlight
    BY <1>1, <2>1 DEF RequestInv
  <2> QED
    BY <1>1, <2>1, <2>2, Zenon DEF RequestInv, InFlight, Differs, serverVars, cacheVars
<1> QED
  BY <1>1, <1>2, <1>3, <1>4, <1>5, <1>6 DEF IndInv

LEMMA Inductive == TypeOK /\ IndInv /\ [Next]_vars => (TypeOK /\ IndInv)'
<1> SUFFICES ASSUME TypeOK, IndInv, [Next]_vars PROVE TypeOK' /\ IndInv'
  OBVIOUS
<1>1. CASE UNCHANGED vars
  <2>1. TypeOK'
    BY <1>1 DEF TypeOK, vars, serverVars, cacheVars
  <2>2. ClockInv' /\ KeysInv' /\ NegativeInv'
    BY <1>1 DEF IndInv, ClockInv, KeysInv, NegativeInv, Differs, vars, serverVars, cacheVars
  <2>3. ASSUME NEW q \in Requests PROVE RequestInv(q)'
    BY <1>1, Untouched DEF IndInv, vars, serverVars, cacheVars
  <2> QED
    BY <1>1, <2>1, <2>2, <2>3 DEF IndInv, vars
<1>2. ASSUME NEW r \in Requests, Step(r) PROVE TypeOK' /\ IndInv'
  BY <1>2, JoinKeeps, StartFetchKeeps, StoreKeysKeeps, FetchFailsKeeps, LookupKeeps,
     RememberKeeps, Zenon DEF Step
<1> QED
  BY <1>1, <1>2, RespondKeeps, ReuseKeeps, GetKeyKeeps, RotateKeeps, TickKeeps, Zenon
     DEF Next

----------------------------------------------------------------------------
(* Which answers are given when.                                           *)

LEMMA MaxOfTwo ==
    ASSUME NEW a \in Int, NEW b \in Int
    PROVE  a <= Max({a, b}) /\ b <= Max({a, b}) /\ Max({a, b}) \in Int
  BY DEF Max

LEMMA MaxOfThree ==
    ASSUME NEW a \in Int, NEW b \in Int, NEW c \in Int
    PROVE  /\ a <= Max({a, b, c}) /\ b <= Max({a, b, c}) /\ c <= Max({a, b, c})
           /\ Max({a, b, c}) \in Int
<1> DEFINE S == {a, b, c}
<1>1. \E x \in S : \A y \in S : x >= y
  <2>1. CASE a >= b /\ a >= c
    BY <2>1
  <2>2. CASE b >= a /\ b >= c
    BY <2>2
  <2>3. CASE c >= a /\ c >= b
    BY <2>3
  <2> QED
    BY <2>1, <2>2, <2>3
<1>2. Max(S) \in S /\ \A y \in S : Max(S) >= y
  BY <1>1, Zenon DEF Max
<1> QED
  BY <1>2

\* The steps that answer a request.
LEMMA Cause ==
    ASSUME TypeOK, Next, NEW r \in Requests, req[r].pc # "done", req'[r].pc = "done"
    PROVE  \/ \E k \in Kids : getKey(r, k)
           \/ Lookup(r) \/ rememberUnknownKid(r) \/ faulty
<1>1. ASSUME NEW q \in Requests, q # r, req'[r] = req[r] PROVE FALSE
  BY <1>1
<1>2. ASSUME NEW q \in Requests, NEW k \in Kids, getKey(q, k) PROVE q = r
  BY <1>1, <1>2 DEF getKey, Finish, TypeOK
<1>3. ASSUME NEW q \in Requests, Lookup(q) \/ rememberUnknownKid(q) PROVE q = r
  BY <1>1, <1>3 DEF Lookup, rememberUnknownKid, Finish, TypeOK
<1>4. ASSUME NEW q \in Requests, Join(q) PROVE FALSE
  <2>1. PICK pc \in {"lead", "wait"} : req' = [req EXCEPT ![q].pc = pc]
    BY Zenon, <1>4 DEF Join
  <2>2. Writes(q) /\ GoesOn(q, pc)
    BY Zenon, <2>1, PcWritten DEF PC
  <2> QED
    BY <2>2 DEF Writes, GoesOn
<1>5. ASSUME NEW q \in Requests, StartFetch(q) PROVE FALSE
  <2>1. Writes(q) /\ GoesOn(q, "fetch")
    BY Zenon, <1>5, PcWritten DEF StartFetch, PC
  <2> QED
    BY Zenon, <2>1 DEF Writes, GoesOn
<1>6. ASSUME NEW q \in Requests, Respond(q) PROVE FALSE
  <2>1. req[q] \in RequestType
    BY Typed
  <2>2. req'[q].pc = "got" /\ (q # r => req'[r] = req[r])
    BY <1>6, <2>1 DEF Respond, TypeOK, RequestType
  <2> QED
    BY <2>2
<1>7. ASSUME NEW q \in Requests, StoreKeys(q) PROVE FALSE
  <2>1. req[r] \in RequestType
    BY Typed
  <2>2. \/ req'[r] = [req[r] EXCEPT !.pc = "lookup", !.doc = {}]
        \/ req'[r] = req[r]
    BY Zenon, <1>7 DEF StoreKeys
  <2> QED
    BY Zenon, <2>1, <2>2 DEF RequestType
<1>8. ASSUME NEW q \in Requests, Reuse(q) PROVE FALSE
  <2>1. Writes(q) /\ req'[q].pc = "new"
    BY <1>8, NewRecord, Written, Zenon DEF Reuse
  <2> QED
    BY <2>1 DEF Writes
<1>9. ASSUME NEW q \in Requests, FetchFails(q) PROVE faulty
  BY <1>9 DEF FetchFails
<1>10. ASSUME req' = req PROVE FALSE
  BY <1>10
<1>11. ASSUME NEW q \in Requests, Step(q)
       PROVE  Lookup(r) \/ rememberUnknownKid(r) \/ faulty
  BY <1>11, <1>3, <1>4, <1>5, <1>7, <1>9 DEF Step
<1>12. (\E k \in Kids : Rotate(k)) \/ Tick => req' = req
  BY DEF Rotate, Tick
<1> QED
  BY <1>2, <1>6, <1>8, <1>10, <1>11, <1>12, Zenon DEF Next

\* What getKey knows when it answers without a fetch.
LEMMA GetKeyAnswers ==
    ASSUME TypeOK, NEW r \in Requests, NEW k \in Kids, getKey(r, k), req'[r].pc = "done"
    PROVE  /\ req'[r].kid = k
           /\ req'[r].out = "served" =>
                /\ k \in keys
                /\ \/ lastFetch # None /\ now - lastFetch <= CacheTTL
                   \/ Within(lastRefetchAttempt, MinRefetchInterval)
           /\ req'[r].out = "notfound" =>
                /\ k \notin keys
                /\ \/ Within(negativeCache[k], NegativeCacheTTL)
                   \/ Within(lastRefetchAttempt, MinRefetchInterval)
<1>1. CASE req' = [req EXCEPT ![r] = Asking(k)]
  <2>1. req'[r] = Asking(k)
    BY <1>1, Zenon DEF TypeOK
  <2> QED
    BY <2>1, AskingRecord
<1>2. CASE /\ Finish(r, k, "served") /\ k \in keys
           /\ \/ ~(lastFetch = None \/ now - lastFetch > CacheTTL)
              \/ Within(lastRefetchAttempt, MinRefetchInterval)
  <2>1. req'[r].kid = k /\ req'[r].out = "served"
    BY <1>2, Ends
  <2>2. lastFetch # None => (~(now - lastFetch > CacheTTL) => now - lastFetch <= CacheTTL)
    BY Typed, JwksAssumption
  <2> QED
    BY <1>2, <2>1, <2>2
<1>3. CASE /\ Finish(r, k, "notfound") /\ k \notin keys
           /\ \/ Within(negativeCache[k], NegativeCacheTTL)
              \/ Within(lastRefetchAttempt, MinRefetchInterval)
  <2>1. req'[r].kid = k /\ req'[r].out = "notfound"
    BY <1>3, Ends
  <2> QED
    BY <1>3, <2>1
<1> QED
  BY <1>1, <1>2, <1>3, Zenon DEF getKey, Asking

LEMMA NotFound ==
    ASSUME TypeOK, IndInv, Next, ~faulty, flight = None,
           NEW r \in Requests, Answers(r, "notfound"), req'[r].kid \in published
    PROVE  now - since[req'[r].kid] < Max({MinRefetchInterval,
                                           2 * MaxInFlight + NegativeCacheTTL})
<1> DEFINE k == req'[r].kid
           d == 2 * MaxInFlight + NegativeCacheTTL
<1>1. /\ k \in Kids /\ k \in published
      /\ now \in Nat /\ since[k] \in Nat /\ MaxInFlight \in Nat
      /\ NegativeCacheTTL \in Nat \ {0} /\ MinRefetchInterval \in Int /\ d \in Int
  BY Typed, JwksAssumption DEF TypeOK
<1>2. req[r].pc # "done" /\ req'[r].pc = "done" /\ req'[r].out = "notfound"
  BY DEF Answers
<1>3. MinRefetchInterval <= Max({MinRefetchInterval, d}) /\ d <= Max({MinRefetchInterval, d})
      /\ Max({MinRefetchInterval, d}) \in Int
  BY Zenon, <1>1, MaxOfTwo
<1> SUFFICES now - since[k] < MinRefetchInterval \/ now - since[k] < d
  <2> HIDE DEF k, d
  <2>1. ASSUME now - since[k] < MinRefetchInterval \/ now - since[k] < d
        PROVE  now - since[k] < Max({MinRefetchInterval, d})
    BY <1>1, <1>3, <2>1
  <2> QED
    BY <2>1 DEF k, d
<1> HIDE DEF k
<1>4. ASSUME NEW j \in Kids, getKey(r, j)
      PROVE  now - since[k] < MinRefetchInterval \/ now - since[k] < d
  <2>1. /\ j = k /\ k \notin keys
        /\ \/ Within(negativeCache[k], NegativeCacheTTL)
           \/ Within(lastRefetchAttempt, MinRefetchInterval)
    BY <1>2, <1>4, GetKeyAnswers DEF k
  <2>2. CASE Within(negativeCache[k], NegativeCacheTTL)
    <3>1. /\ negativeCache[k] \in Nat /\ now - negativeCache[k] < NegativeCacheTTL
          /\ negativeCache[k] - 2 * MaxInFlight <= since[k]
      BY <1>1, <2>2 DEF Within, TypeOK, IndInv, NegativeInv
    <3> QED
      BY <1>1, <3>1
  <2>3. CASE Within(lastRefetchAttempt, MinRefetchInterval)
    <3>1. /\ lastRefetchAttempt \in Nat /\ now - lastRefetchAttempt < MinRefetchInterval
          /\ lastRefetchAttempt <= since[k]
      BY <1>1, <2>1, <2>3, Typed DEF Within, IndInv, KeysInv, Differs
    <3> QED
      BY <1>1, <3>1
  <2> QED
    BY <2>1, <2>2, <2>3
<1>5. ~Lookup(r)
  <2>1. ASSUME Lookup(r) PROVE FALSE
    <3>1. req[r].kid \in Kids \cup {None} /\ req[r] \in RequestType
      BY Typed
    <3>2. CASE Finish(r, req[r].kid, "served")
      BY Zenon, <1>2, <3>1, <3>2, Ends
    <3>3. CASE req' = [req EXCEPT ![r].pc = "unknown"]
      BY Zenon, <1>2, <3>3, PcWritten DEF GoesOn, PC
    <3> QED
      BY <2>1, <3>2, <3>3 DEF Lookup
  <2> QED
    BY <2>1
<1>6. ASSUME rememberUnknownKid(r) PROVE now - since[k] < d
  <2>1. req[r].pc = "unknown" /\ Finish(r, req[r].kid, "notfound") /\ RequestInv(r)
    BY <1>6 DEF rememberUnknownKid, IndInv
  <2>2. req[r].kid \in Kids \cup {None} /\ req[r].start \in Nat
    BY Typed
  <2>3. k = req[r].kid
    BY <2>1, <2>2, Ends DEF k
  <2>4. now <= req[r].start + MaxInFlight /\ req[r].start - MaxInFlight <= since[k]
    BY Zenon, <1>1, <2>1, <2>3 DEF RequestInv, InFlight
  <2> QED
    BY <1>1, <2>2, <2>4
<1> QED
  BY <1>2, <1>4, <1>5, <1>6, Cause

LEMMA Withdrawn ==
    ASSUME TypeOK, IndInv, Next, ~faulty, flight = None,
           NEW r \in Requests, Answers(r, "served"), req'[r].kid \notin published
    PROVE  now - since[req'[r].kid] <= Max({MinRefetchInterval, CacheTTL + MaxInFlight,
                                            2 * MaxInFlight})
<1> DEFINE k == req'[r].kid
           c == CacheTTL + MaxInFlight
           d == 2 * MaxInFlight
           m == Max({MinRefetchInterval, c, d})
<1>1. /\ now \in Nat /\ MaxInFlight \in Nat /\ CacheTTL \in Nat
      /\ MinRefetchInterval \in Nat /\ c \in Int /\ d \in Int
  BY Typed, JwksAssumption
<1>2. req[r].pc # "done" /\ req'[r].pc = "done" /\ req'[r].out = "served"
  BY DEF Answers
<1>3. MinRefetchInterval <= m /\ c <= m /\ d <= m /\ m \in Int
  <2> HIDE DEF c, d
  <2>1. MinRefetchInterval \in Int
    BY <1>1
  <2> QED
    BY <1>1, <2>1, MaxOfThree, Zenon
<1> SUFFICES now - since[k] <= m
  OBVIOUS
<1> HIDE DEF k, m
<1>4. ASSUME NEW j \in Kids, getKey(r, j) PROVE now - since[k] <= m
  <2>1. /\ j = k /\ k \in keys /\ k \in Kids /\ since[k] \in Nat
        /\ \/ lastFetch # None /\ now - lastFetch <= CacheTTL
           \/ Within(lastRefetchAttempt, MinRefetchInterval)
    BY <1>2, <1>4, GetKeyAnswers, Typed DEF k
  <2>2. Differs(keys, k)
    BY <2>1 DEF Differs, k
  <2>3. CASE lastFetch # None /\ now - lastFetch <= CacheTTL
    <3>1. lastFetch \in Nat /\ lastFetch - MaxInFlight <= since[k]
      BY <2>1, <2>2, <2>3, Typed DEF IndInv, KeysInv
    <3> QED
      BY <1>1, <1>3, <2>1, <2>3, <3>1
  <2>4. CASE Within(lastRefetchAttempt, MinRefetchInterval)
    <3>1. /\ lastRefetchAttempt \in Nat /\ now - lastRefetchAttempt < MinRefetchInterval
          /\ lastRefetchAttempt <= since[k]
      BY <2>1, <2>2, <2>4, Typed DEF Within, IndInv, KeysInv
    <3> QED
      BY <1>1, <1>3, <2>1, <3>1
  <2> QED
    BY <2>1, <2>3, <2>4
<1>5. ASSUME Lookup(r) PROVE now - since[k] <= m
  <2>1. req[r].pc = "lookup" /\ RequestInv(r)
    BY <1>5 DEF Lookup, IndInv
  <2>2. /\ req[r].kid \in Kids /\ now <= req[r].start + MaxInFlight
        /\ lastFetch # None /\ req[r].start <= lastFetch
    BY <2>1 DEF RequestInv, InFlight
  <2>3. req[r].kid \in keys /\ Finish(r, req[r].kid, "served")
    <3>1. CASE req' = [req EXCEPT ![r].pc = "unknown"]
      BY Zenon, <1>2, <3>1, PcWritten DEF GoesOn, PC
    <3> QED
      BY Zenon, <1>5, <3>1 DEF Lookup
  <2>4. k = req[r].kid
    BY <2>2, <2>3, Ends DEF k
  <2>5. /\ lastFetch \in Nat /\ req[r].start \in Nat /\ since[k] \in Nat
        /\ lastFetch - MaxInFlight <= since[k]
    <3>1. Differs(keys, k)
      BY Zenon, <2>3, <2>4 DEF Differs, k
    <3> QED
      BY Zenon, <2>2, <2>4, <3>1, Typed DEF IndInv, KeysInv
  <2> QED
    BY <1>1, <1>3, <2>2, <2>5
<1>6. ~rememberUnknownKid(r)
  <2>1. req[r].kid \in Kids \cup {None}
    BY Typed
  <2>2. ASSUME Finish(r, req[r].kid, "notfound") PROVE FALSE
    BY <1>2, <2>1, <2>2, Ends
  <2> QED
    BY <2>2 DEF rememberUnknownKid
<1> QED
  BY <1>2, <1>4, <1>5, <1>6, Cause

----------------------------------------------------------------------------
LEMMA Invariance == Spec => [](TypeOK /\ IndInv)
  BY Initially, Inductive, PTL DEF Spec

\* getKey and the singleflight group: whoever waits for a fetch has a leader
\* that is still fetching, for any number of requests, also if fetches fail.
THEOREM NobodyWaitsInVain == Spec => []WaitersHaveALeader
<1>1. TypeOK /\ IndInv => WaitersHaveALeader
  BY DEF IndInv, RequestInv, WaitersHaveALeader, Leading
<1> QED
  BY <1>1, Invariance, PTL

\* getKey: while the endpoint works, a published key is reported unknown only
\* within the cooldown, or the negative cache's lifetime and two calls, of its
\* publication, and a withdrawn one is served only within the cooldown, the
\* cache's lifetime and one call, or two calls, of its withdrawal; or a fetch
\* is under way.
THEOREM RotationIsFollowed == Spec => KeysAreCurrent
<1> DEFINE A == \A r \in Requests :
                  LET k == req'[r].kid IN
                  Answers(r, "notfound") /\ k \in published /\ ~faulty =>
                     \/ flight # None
                     \/ now - since[k] < Max({MinRefetchInterval,
                                              2 * MaxInFlight + NegativeCacheTTL})
           B == \A r \in Requests :
                  LET k == req'[r].kid IN
                  Answers(r, "served") /\ k \notin published /\ ~faulty =>
                     \/ flight # None
                     \/ now - since[k] <= Max({MinRefetchInterval, CacheTTL + MaxInFlight,
                                               2 * MaxInFlight})
<1>1. TypeOK /\ IndInv /\ [Next]_vars => [A]_vars
  BY NotFound, Zenon
<1>2. TypeOK /\ IndInv /\ [Next]_vars => [B]_vars
  BY Withdrawn, Zenon
<1>3. NotFoundOnlyBriefly <=> [][A]_vars
  BY DEF NotFoundOnlyBriefly
<1>4. WithdrawnKeyExpires <=> [][B]_vars
  BY DEF WithdrawnKeyExpires
<1> HIDE DEF A, B
<1>5. Spec => [][A]_vars
  BY <1>1, Invariance, PTL DEF Spec
<1>6. Spec => [][B]_vars
  BY <1>2, Invariance, PTL DEF Spec
<1> QED
  BY <1>3, <1>4, <1>5, <1>6, PTL DEF KeysAreCurrent

----------------------------------------------------------------------------
(* The policy cache.                                                       *)

CONSTANTS Readers, Writers, NoList, MaxAge, MaxQuery, Horizon, MaxVersion

VARIABLES broken, clock, db, replacedAt, cached, cacheExpiry, mu, reader, writer, acked

Policy == INSTANCE PolicyService WITH
    faulty <- broken, now <- clock, None <- NoList, CacheTTL <- MaxAge,
    MaxInFlight <- MaxQuery, MaxTime <- Horizon

Querying(r) == reader[r].pc \in {"list", "listed"}

LockInv == \A r \in Readers : Querying(r) <=> mu = r

\* Every version that anyone holds, against the database and the last update.
VersionInv ==
    /\ acked <= db
    /\ \A w \in Writers : writer[w].version <= db
    /\ cached # NoList => acked <= cached /\ cached <= db
    /\ \A r \in Readers :
         /\ reader[r].floor <= acked
         /\ reader[r].pc = "listed" => /\ reader[r].list # NoList
                                       /\ acked <= reader[r].list
                                       /\ reader[r].list <= db
         /\ reader[r].pc = "done" /\ reader[r].out # NoList =>
              reader[r].floor <= reader[r].out

\* How long ago a version that may still be served was superseded.
AgeInv ==
    /\ \A v \in 0 .. MaxVersion : replacedAt[v] # NoList => v < db
    /\ cacheExpiry <= clock + MaxAge
    /\ cached # NoList /\ replacedAt[cached] # NoList =>
         cacheExpiry <= replacedAt[cached] + MaxQuery + MaxAge
    /\ \A r \in Readers :
         /\ reader[r].pc \notin {"new", "done"} =>
              reader[r].start <= clock /\ clock <= reader[r].start + MaxQuery
         /\ reader[r].pc = "listed" /\ replacedAt[reader[r].list] # NoList =>
              reader[r].start <= replacedAt[reader[r].list]

PolicyInv == Policy!TypeOK /\ LockInv /\ VersionInv /\ AgeInv

ReaderType == [pc: {"new", "slow", "list", "listed", "done"}, start: Nat,
               floor: Nat, list: Nat \cup {NoList}, out: Nat \cup {NoList}]

----------------------------------------------------------------------------
LEMMA LargerOfTwo ==
    ASSUME NEW a \in Nat, NEW b \in Nat
    PROVE  Policy!Max({a, b}) \in {a, b} /\ Policy!Max({a, b}) >= a /\ Policy!Max({a, b}) >= b
<1>1. \E x \in {a, b} : \A y \in {a, b} : x >= y
  OBVIOUS
<1>2. /\ Policy!Max({a, b}) \in {a, b}
      /\ \A y \in {a, b} : Policy!Max({a, b}) >= y
  BY <1>1 DEF Policy!Max
<1> QED
  BY <1>2

LEMMA PolicyInitially == ASSUME Policy!PolicyAssumption PROVE Policy!Init => PolicyInv
<1> SUFFICES ASSUME Policy!Init PROVE PolicyInv
  OBVIOUS
<1>1. Policy!TypeOK
  BY DEF Policy!PolicyAssumption, Policy!Init, Policy!TypeOK, Policy!NewReader,
     Policy!NewWriter
<1>2. LockInv
  BY DEF Policy!PolicyAssumption, Policy!Init, LockInv, Querying, Policy!NewReader
<1>3. VersionInv
  BY DEF Policy!PolicyAssumption, Policy!Init, VersionInv, Policy!NewReader,
     Policy!NewWriter
<1>4. AgeInv
  BY DEF Policy!PolicyAssumption, Policy!Init, AgeInv, Policy!NewReader
<1> QED
  BY <1>1, <1>2, <1>3, <1>4 DEF PolicyInv

\* A step of one reader that touches neither the cache nor the database.
LEMMA ReaderStep ==
    ASSUME Policy!PolicyAssumption, PolicyInv, NEW r \in Readers,
           Policy!All(r) \/ Policy!Slow(r) \/ Policy!List(r) \/ Policy!ReaderReuse(r)
    PROVE  PolicyInv'
<1>1. /\ Policy!TypeOK /\ LockInv /\ VersionInv /\ AgeInv
      /\ MaxAge \in Nat /\ MaxQuery \in Nat /\ MaxVersion \in Nat
      /\ NoList \notin Readers /\ NoList \notin Nat
  BY DEF PolicyInv, Policy!PolicyAssumption
<1>2. UNCHANGED <<clock, broken, db, replacedAt, cached, cacheExpiry, writer, acked>>
  BY DEF Policy!All, Policy!Slow, Policy!List, Policy!ReaderReuse, Policy!dbVars,
     Policy!cacheVars
<1>3. PICK q \in ReaderType :
        /\ reader' = [reader EXCEPT ![r] = q]
        /\ \/ /\ reader[r].pc = "new" /\ q.pc = "slow" /\ UNCHANGED mu
              /\ q.start = clock /\ q.floor = acked
           \/ /\ q.pc = "done" /\ ~Querying(r) /\ q.floor <= acked /\ q.out = cached
              /\ UNCHANGED mu
           \/ /\ reader[r].pc = "slow" /\ q.pc = "list" /\ mu = NoList /\ mu' = r
              /\ q.start = reader[r].start /\ q.floor = reader[r].floor
           \/ /\ reader[r].pc = "list" /\ q.pc = "listed" /\ UNCHANGED mu
              /\ q.start = reader[r].start /\ q.floor = reader[r].floor /\ q.list = db
           \/ reader[r].pc = "done" /\ q = Policy!NewReader /\ UNCHANGED mu
  <2>1. reader[r] \in ReaderType /\ reader \in [Readers -> ReaderType] /\ clock \in Nat
        /\ acked \in Nat /\ db \in Nat /\ cached \in Nat \cup {NoList}
        /\ reader[r].floor <= acked
    BY <1>1 DEF Policy!TypeOK, ReaderType, VersionInv
  <2>2. CASE Policy!All(r) /\ Policy!Fresh
    <3> DEFINE q == [reader[r] EXCEPT !.floor = acked, !.pc = "done", !.start = 0,
                                     !.out = cached]
    <3>1. q.pc = "done" /\ q.floor = acked /\ q.out = cached /\ q \in ReaderType
      BY <2>1, Zenon DEF ReaderType
    <3>2. /\ reader' = [reader EXCEPT ![r] = q] /\ reader[r].pc = "new" /\ UNCHANGED mu
          /\ acked <= acked
      BY <2>1, <2>2 DEF Policy!All
    <3> HIDE DEF q
    <3> QED
      BY <3>1, <3>2, Zenon DEF Querying
  <2>3. CASE Policy!All(r) /\ ~Policy!Fresh
    <3> DEFINE q == [reader[r] EXCEPT !.floor = acked, !.pc = "slow", !.start = clock,
                                     !.out = NoList]
    <3>1. q.pc = "slow" /\ q.start = clock /\ q.floor = acked /\ q \in ReaderType
      BY <2>1, Zenon DEF ReaderType
    <3>2. reader' = [reader EXCEPT ![r] = q] /\ reader[r].pc = "new" /\ UNCHANGED mu
      BY <2>1, <2>3 DEF Policy!All
    <3> HIDE DEF q
    <3> QED
      BY <3>1, <3>2, Zenon
  <2>4. CASE Policy!Slow(r) /\ Policy!Fresh
    <3> DEFINE q == [reader[r] EXCEPT !.pc = "done", !.start = 0, !.list = NoList,
                                     !.out = cached]
    <3>1. q.pc = "done" /\ q.floor = reader[r].floor /\ q.out = cached /\ q \in ReaderType
      BY <2>1, Zenon DEF ReaderType
    <3>2. reader' = [reader EXCEPT ![r] = q] /\ reader[r].pc = "slow" /\ UNCHANGED mu
      BY <2>4 DEF Policy!Slow, Policy!Finish
    <3> HIDE DEF q
    <3> QED
      BY <2>1, <3>1, <3>2, Zenon DEF Querying
  <2>5. CASE Policy!Slow(r) /\ ~Policy!Fresh
    <3> DEFINE q == [reader[r] EXCEPT !.pc = "list"]
    <3>1. /\ q.pc = "list" /\ q.start = reader[r].start /\ q.floor = reader[r].floor
          /\ q \in ReaderType
      BY <2>1 DEF ReaderType
    <3>2. /\ reader' = [reader EXCEPT ![r] = q] /\ reader[r].pc = "slow"
          /\ mu = NoList /\ mu' = r
      BY <2>5 DEF Policy!Slow
    <3> HIDE DEF q
    <3> QED
      BY <3>1, <3>2, Zenon
  <2>6. CASE Policy!List(r)
    <3> DEFINE q == [reader[r] EXCEPT !.pc = "listed", !.list = db]
    <3>1. /\ q.pc = "listed" /\ q.start = reader[r].start /\ q.floor = reader[r].floor
          /\ q.list = db /\ q \in ReaderType
      BY <2>1, Zenon DEF ReaderType
    <3>2. reader' = [reader EXCEPT ![r] = q] /\ reader[r].pc = "list" /\ UNCHANGED mu
      BY <2>1, <2>6, Zenon DEF Policy!List
    <3> HIDE DEF q
    <3> QED
      BY <3>1, <3>2, Zenon
  <2>7. CASE Policy!ReaderReuse(r)
    <3>1. Policy!NewReader \in ReaderType
      BY <1>1 DEF Policy!NewReader, ReaderType
    <3> QED
      BY <2>7, <3>1, Zenon DEF Policy!ReaderReuse
  <2> QED
    BY <2>2, <2>3, <2>4, <2>5, <2>6, <2>7, Zenon
<1>4. \A p \in Readers : reader'[p] = IF p = r THEN q ELSE reader[p]
  BY <1>1, <1>3 DEF Policy!TypeOK
<1>5. Policy!TypeOK'
  BY Zenon, <1>1, <1>2, <1>3 DEF Policy!TypeOK, ReaderType
<1>6. LockInv'
  BY SMTT(30), <1>1, <1>3, <1>4 DEF LockInv, Querying, Policy!NewReader
<1>7. VersionInv'
  <2>1. db \in Nat /\ acked \in Nat /\ cached \in Nat \cup {NoList} /\ q.floor \in Nat
    BY SMTT(30), <1>1 DEF Policy!TypeOK, ReaderType
  <2>2. /\ q.floor <= acked
        /\ q.pc = "listed" => q.list # NoList /\ acked <= q.list /\ q.list <= db
        /\ q.pc = "done" /\ q.out # NoList => q.floor <= q.out
    BY SMTT(30), <1>1, <1>3, <2>1 DEF VersionInv, Policy!NewReader
  <2> QED
    BY Zenon, <1>1, <1>2, <1>4, <2>2 DEF VersionInv
<1>8. AgeInv'
  <2>1. db \in 0 .. MaxVersion /\ replacedAt[db] = NoList /\ clock \in Nat
    BY SMTT(30), <1>1 DEF Policy!TypeOK, AgeInv
  <2>2. /\ q.pc \notin {"new", "done"} => q.start <= clock /\ clock <= q.start + MaxQuery
        /\ q.pc = "listed" => replacedAt[q.list] = NoList
    BY <1>1, <1>3, <2>1 DEF AgeInv, Policy!NewReader
  <2> QED
    BY Zenon, <1>1, <1>2, <1>4, <2>2 DEF AgeInv
<1> QED
  BY <1>5, <1>6, <1>7, <1>8 DEF PolicyInv

\* The refresh ends: its list is cached, or what is cached is served.
LEMMA RefreshStep ==
    ASSUME Policy!PolicyAssumption, PolicyInv, NEW r \in Readers,
           Policy!Store(r) \/ Policy!ListFails(r)
    PROVE  PolicyInv'
<1>1. /\ Policy!TypeOK /\ LockInv /\ VersionInv /\ AgeInv
      /\ MaxAge \in Nat /\ MaxQuery \in Nat /\ MaxVersion \in Nat
      /\ NoList \notin Readers /\ NoList \notin Nat
  BY Zenon DEF PolicyInv, Policy!PolicyAssumption
<1>2. /\ UNCHANGED <<clock, broken, db, replacedAt, writer, acked>>
      /\ Querying(r) /\ mu' = NoList
  BY Zenon DEF Policy!Store, Policy!ListFails, Policy!dbVars, Querying
<1>3. /\ clock \in Nat /\ db \in 0 .. MaxVersion /\ acked \in Nat
      /\ cached \in Nat \cup {NoList} /\ cacheExpiry \in Nat
      /\ reader \in [Readers -> ReaderType] /\ reader[r] \in ReaderType
  BY <1>1 DEF Policy!TypeOK, ReaderType
<1>4. PICK out \in Nat \cup {NoList} :
        /\ reader' = [reader EXCEPT ![r] = [reader[r] EXCEPT !.pc = "done", !.start = 0,
                                               !.list = NoList, !.out = out]]
        /\ \/ /\ reader[r].pc = "listed" /\ out = reader[r].list
              /\ cached' = out /\ cacheExpiry' = clock + MaxAge
           \/ out = cached /\ cached' = cached /\ cacheExpiry' = cacheExpiry
  BY <1>3, Zenon DEF Policy!Store, Policy!ListFails, Policy!Finish, Policy!cacheVars,
     ReaderType
<1> DEFINE q == [reader[r] EXCEPT !.pc = "done", !.start = 0, !.list = NoList, !.out = out]
<1>5. q \in ReaderType /\ q.pc = "done" /\ q.floor = reader[r].floor /\ q.out = out
  BY <1>3, Zenon DEF ReaderType
<1> HIDE DEF q
<1>6. /\ \A p \in Readers : reader'[p] = IF p = r THEN q ELSE reader[p]
      /\ reader' \in [Readers -> ReaderType]
  BY <1>3, <1>4, <1>5 DEF q
<1>7. cached' = out /\ (out # NoList => acked <= out /\ out <= db)
  BY <1>1, <1>4 DEF VersionInv
<1>8. Policy!TypeOK'
  <2>1. cached' \in Nat \cup {NoList} /\ cacheExpiry' \in Nat
    BY <1>1, <1>3, <1>4
  <2> QED
    BY Zenon, <1>1, <1>2, <1>6, <2>1 DEF Policy!TypeOK, ReaderType
<1>9. LockInv'
  BY Zenon, <1>1, <1>2, <1>5, <1>6 DEF LockInv, Querying
<1>10. VersionInv'
  <2>1. reader[r].floor <= acked /\ reader[r].floor \in Nat
    BY <1>1, <1>3 DEF VersionInv, ReaderType
  <2>2. q.floor <= acked /\ (q.out # NoList => q.floor <= q.out)
    BY SMTT(30), <1>3, <1>5, <1>7, <2>1
  <2> QED
    BY <1>1, <1>2, <1>5, <1>6, <1>7, <2>2 DEF VersionInv
<1>11. AgeInv'
  <2>1. cacheExpiry' <= clock + MaxAge
    BY <1>1, <1>3, <1>4 DEF AgeInv
  <2>2. ASSUME cached' # NoList, replacedAt[cached'] # NoList
        PROVE  cacheExpiry' <= replacedAt[cached'] + MaxQuery + MaxAge
    <3>1. CASE cached' = cached /\ cacheExpiry' = cacheExpiry
      BY <1>1, <2>2, <3>1 DEF AgeInv
    <3>2. CASE /\ reader[r].pc = "listed" /\ cached' = reader[r].list
               /\ cacheExpiry' = clock + MaxAge
      <4>1. /\ clock <= reader[r].start + MaxQuery
            /\ reader[r].start <= replacedAt[cached']
        BY <1>1, <2>2, <3>2 DEF AgeInv
      <4>2. replacedAt[cached'] \in Nat /\ reader[r].start \in Nat
        BY <1>1, <1>3, <1>7, <2>2 DEF Policy!TypeOK, ReaderType
      <4> QED
        BY SMTT(30), <1>1, <1>3, <3>2, <4>1, <4>2
    <3> QED
      BY Zenon, <1>4, <3>1, <3>2
  <2> QED
    BY Zenon, <1>1, <1>2, <1>5, <1>6, <2>1, <2>2 DEF AgeInv
<1> QED
  BY <1>8, <1>9, <1>10, <1>11 DEF PolicyInv

\* A writer finds its row, seeds, or is called again.
LEMMA WriterStep ==
    ASSUME Policy!PolicyAssumption, PolicyInv, NEW w \in Writers,
           Policy!UpdatePolicy(w) \/ Policy!SeedDefaults(w) \/ Policy!WriterReuse(w)
    PROVE  PolicyInv'
<1>1. Policy!TypeOK /\ LockInv /\ VersionInv /\ AgeInv /\ MaxVersion \in Nat
  BY DEF PolicyInv, Policy!PolicyAssumption
<1>2. UNCHANGED <<clock, broken, db, replacedAt, cached, cacheExpiry, mu, reader, acked>>
  BY Zenon DEF Policy!UpdatePolicy, Policy!SeedDefaults, Policy!WriterReuse, Policy!dbVars,
     Policy!cacheVars
<1>3. /\ writer' \in [Writers -> [pc: {"new", "found", "bust", "done"}, version: Nat]]
      /\ \A v \in Writers : writer'[v].version \in {writer[v].version, db, 0}
  <2>1. /\ writer \in [Writers -> [pc: {"new", "found", "bust", "done"}, version: Nat]]
        /\ db \in Nat
    BY <1>1 DEF Policy!TypeOK
  <2>2. CASE Policy!UpdatePolicy(w)
    BY <2>1, <2>2 DEF Policy!UpdatePolicy
  <2>3. CASE Policy!SeedDefaults(w)
    BY <2>1, <2>3, Zenon DEF Policy!SeedDefaults
  <2>4. CASE Policy!WriterReuse(w)
    BY <2>1, <2>4 DEF Policy!WriterReuse, Policy!NewWriter
  <2> QED
    BY <2>2, <2>3, <2>4
<1>4. Policy!TypeOK'
  BY Zenon, <1>1, <1>2, <1>3 DEF Policy!TypeOK
<1>5. LockInv' /\ AgeInv'
  BY Zenon, <1>1, <1>2 DEF LockInv, Querying, AgeInv
<1>6. VersionInv'
  <2>1. \A v \in Writers : writer'[v].version <= db
    <3>1. db \in Nat /\ \A v \in Writers : writer[v].version <= db
      BY <1>1 DEF VersionInv, Policy!TypeOK
    <3> QED
      BY <1>3, <3>1
  <2> QED
    BY <1>1, <1>2, <2>1 DEF VersionInv
<1> QED
  BY <1>4, <1>5, <1>6 DEF PolicyInv

\* A new version of the table, from this process or another; or the statement
\* failed and there is none.
LEMMA CommitStep ==
    ASSUME Policy!PolicyAssumption, PolicyInv,
           Policy!OtherProcess \/ \E w \in Writers : Policy!Upsert(w) \/ Policy!UpsertFails(w)
    PROVE  PolicyInv'
<1>1. /\ Policy!TypeOK /\ LockInv /\ VersionInv /\ AgeInv
      /\ MaxAge \in Nat /\ MaxQuery \in Nat /\ MaxVersion \in Nat
      /\ NoList \notin Readers /\ NoList \notin Nat
  BY DEF PolicyInv, Policy!PolicyAssumption
<1>2. UNCHANGED <<clock, cached, cacheExpiry, mu, reader, acked>>
  BY Zenon DEF Policy!OtherProcess, Policy!Upsert, Policy!UpsertFails, Policy!cacheVars
<1>3. /\ clock \in Nat /\ db \in 0 .. MaxVersion /\ acked \in Nat
      /\ replacedAt \in [0 .. MaxVersion -> Nat \cup {NoList}]
      /\ cached \in Nat \cup {NoList} /\ cacheExpiry \in Nat
      /\ reader \in [Readers -> ReaderType]
  BY <1>1 DEF Policy!TypeOK, ReaderType
<1>4. /\ UNCHANGED broken
      /\ db' \in 0 .. MaxVersion
      /\ \/ db' = db /\ replacedAt' = replacedAt
         \/ db' = db + 1 /\ replacedAt' = [replacedAt EXCEPT ![db] = clock]
  <2>1. Policy!Commit \/ UNCHANGED Policy!dbVars
    BY Zenon DEF Policy!OtherProcess, Policy!Upsert, Policy!UpsertFails
  <2> QED
    BY <1>1, <1>3, <2>1 DEF Policy!Commit, Policy!dbVars
<1> DEFINE Versioned ==
      /\ writer' \in [Writers -> [pc: {"new", "found", "bust", "done"}, version: Nat]]
      /\ \A w \in Writers : writer'[w].version <= db'
<1>5. Versioned
  <2>1. /\ writer \in [Writers -> [pc: {"new", "found", "bust", "done"}, version: Nat]]
        /\ \A w \in Writers : writer[w].version <= db
    BY <1>1 DEF Policy!TypeOK, VersionInv
  <2>2. CASE Policy!OtherProcess
    BY <1>3, <1>4, <2>1, <2>2 DEF Policy!OtherProcess
  <2>3. ASSUME NEW w \in Writers, Policy!Upsert(w) PROVE Versioned
    BY <1>3, <1>4, <2>1, <2>3 DEF Policy!Upsert
  <2>4. ASSUME NEW w \in Writers, Policy!UpsertFails(w) PROVE Versioned
    BY <1>3, <1>4, <2>1, <2>4 DEF Policy!UpsertFails
  <2> QED
    BY <2>2, <2>3, <2>4
<1>6. /\ replacedAt' \in [0 .. MaxVersion -> Nat \cup {NoList}]
      /\ \A v \in 0 .. MaxVersion : \/ replacedAt'[v] = replacedAt[v]
                                    \/ v = db /\ db' = db + 1 /\ replacedAt'[v] = clock
  BY <1>3, <1>4, Zenon
<1>7. Policy!TypeOK'
  BY <1>1, <1>2, <1>4, <1>5, <1>6 DEF Policy!TypeOK
<1>8. LockInv'
  BY Zenon, <1>1, <1>2 DEF LockInv, Querying
<1>9. VersionInv'
  <2>1. \A r \in Readers : reader[r].list \in Nat \cup {NoList}
    BY Zenon, <1>3 DEF ReaderType
  <2> QED
    BY <1>1, <1>2, <1>3, <1>4, <1>5, <2>1 DEF VersionInv
<1>10. AgeInv'
  <2>1. \A v \in 0 .. MaxVersion : replacedAt'[v] # NoList => v < db'
    BY <1>1, <1>3, <1>4, <1>6 DEF AgeInv
  <2>2. ASSUME cached # NoList, replacedAt'[cached] # NoList
        PROVE  cacheExpiry <= replacedAt'[cached] + MaxQuery + MaxAge
    <3>1. cached \in 0 .. MaxVersion /\ cacheExpiry <= clock + MaxAge
      BY SMTT(30), <1>1, <1>3, <2>2 DEF VersionInv, AgeInv
    <3>2. CASE replacedAt'[cached] = replacedAt[cached]
      BY <1>1, <2>2, <3>2 DEF AgeInv
    <3>3. CASE replacedAt'[cached] = clock
      BY SMTT(30), <1>1, <1>3, <3>1, <3>3
    <3> QED
      BY Zenon, <1>6, <3>1, <3>2, <3>3
  <2>3. ASSUME NEW r \in Readers, reader[r].pc = "listed",
               replacedAt'[reader[r].list] # NoList
        PROVE  reader[r].start <= replacedAt'[reader[r].list]
    <3>1. reader[r].list \in 0 .. MaxVersion /\ reader[r].start <= clock
      BY SMTT(30), <1>1, <1>3, <2>3 DEF VersionInv, AgeInv, ReaderType
    <3>2. CASE replacedAt'[reader[r].list] = replacedAt[reader[r].list]
      BY Zenon, <1>1, <2>3, <3>2 DEF AgeInv
    <3>3. CASE replacedAt'[reader[r].list] = clock
      BY <3>1, <3>3
    <3> QED
      BY Zenon, <1>6, <3>1, <3>2, <3>3
  <2> QED
    BY <1>1, <1>2, <2>1, <2>2, <2>3 DEF AgeInv
<1> QED
  BY <1>7, <1>8, <1>9, <1>10 DEF PolicyInv

\* bust has the lock: there is no refresh under way, and no cache is left.
LEMMA BustStep ==
    ASSUME Policy!PolicyAssumption, PolicyInv, NEW w \in Writers, Policy!Bust(w)
    PROVE  PolicyInv'
<1>1. /\ Policy!TypeOK /\ LockInv /\ VersionInv /\ AgeInv
      /\ MaxAge \in Nat /\ MaxVersion \in Nat
      /\ NoList \notin Readers /\ NoList \notin Nat
  BY DEF PolicyInv, Policy!PolicyAssumption
<1>2. /\ UNCHANGED <<clock, broken, db, replacedAt, mu, reader>>
      /\ mu = NoList /\ cached' = NoList /\ cacheExpiry' = 0
      /\ writer' = [writer EXCEPT ![w].pc = "done"]
      /\ acked' = Policy!Max({acked, writer[w].version})
  BY DEF Policy!Bust, Policy!dbVars
<1>3. /\ clock \in Nat /\ db \in 0 .. MaxVersion /\ acked \in Nat /\ acked <= db
      /\ writer \in [Writers -> [pc: {"new", "found", "bust", "done"}, version: Nat]]
      /\ writer[w].version \in Nat /\ writer[w].version <= db
  BY <1>1 DEF Policy!TypeOK, VersionInv
<1>4. acked' \in 0 .. MaxVersion /\ acked <= acked' /\ acked' <= db
  <2>1. acked' \in {acked, writer[w].version} /\ acked' >= acked
    BY <1>2, <1>3, LargerOfTwo, Zenon
  <2> QED
    BY <1>1, <1>3, <2>1
<1>5. /\ writer' \in [Writers -> [pc: {"new", "found", "bust", "done"}, version: Nat]]
      /\ \A v \in Writers : writer'[v].version = writer[v].version
  BY <1>2, <1>3
<1>6. Policy!TypeOK'
  BY <1>1, <1>2, <1>4, <1>5 DEF Policy!TypeOK
<1>7. LockInv'
  BY <1>1, <1>2 DEF LockInv, Querying
<1>8. VersionInv'
  <2>1. \A r \in Readers : reader[r].pc # "listed"
    BY <1>1, <1>2 DEF LockInv, Querying
  <2>2. \A r \in Readers : reader[r].floor <= acked'
    BY <1>1, <1>3, <1>4 DEF VersionInv, Policy!TypeOK
  <2> QED
    BY <1>1, <1>2, <1>4, <1>5, <2>1, <2>2, Zenon DEF VersionInv
<1>9. AgeInv'
  BY <1>1, <1>2, <1>3 DEF AgeInv
<1> QED
  BY <1>6, <1>7, <1>8, <1>9 DEF PolicyInv

LEMMA TickStep ==
    ASSUME Policy!PolicyAssumption, PolicyInv, Policy!Tick
    PROVE  PolicyInv'
<1>1. /\ Policy!TypeOK /\ LockInv /\ VersionInv /\ AgeInv
      /\ MaxAge \in Nat /\ MaxQuery \in Nat
  BY DEF PolicyInv, Policy!PolicyAssumption
<1>2. /\ UNCHANGED <<broken, db, replacedAt, cached, cacheExpiry, mu, reader, writer, acked>>
      /\ clock' = clock + 1
      /\ \A r \in Readers : reader[r].pc \in {"new", "done"}
                            \/ clock < reader[r].start + MaxQuery
  BY DEF Policy!Tick, Policy!dbVars, Policy!cacheVars
<1>3. /\ clock \in Nat /\ cacheExpiry \in Nat
      /\ \A r \in Readers : reader[r].start \in Nat
  BY <1>1 DEF Policy!TypeOK
<1>4. Policy!TypeOK'
  BY SMTT(30), <1>1, <1>2, <1>3 DEF Policy!TypeOK
<1>5. LockInv' /\ VersionInv'
  BY Zenon, <1>1, <1>2 DEF LockInv, Querying, VersionInv
<1>6. AgeInv'
  <2>1. cacheExpiry <= clock' + MaxAge
    BY SMTT(30), <1>1, <1>2, <1>3 DEF AgeInv
  <2>2. \A r \in Readers : reader[r].pc \notin {"new", "done"} =>
          reader[r].start <= clock' /\ clock' <= reader[r].start + MaxQuery
    BY <1>1, <1>2, <1>3 DEF AgeInv
  <2> QED
    BY Zenon, <1>1, <1>2, <2>1, <2>2 DEF AgeInv
<1> QED
  BY <1>4, <1>5, <1>6 DEF PolicyInv

LEMMA PolicyInductive ==
    ASSUME Policy!PolicyAssumption
    PROVE  PolicyInv /\ [Policy!Next]_Policy!vars => PolicyInv'
<1> SUFFICES ASSUME PolicyInv, [Policy!Next]_Policy!vars PROVE PolicyInv'
  BY Zenon
<1>1. CASE UNCHANGED Policy!vars
  BY <1>1 DEF Policy!vars, PolicyInv, Policy!TypeOK, LockInv, Querying, VersionInv, AgeInv
<1>2. CASE Policy!Next
  BY <1>2, ReaderStep, RefreshStep, WriterStep, CommitStep, BustStep, TickStep, Zenon
     DEF Policy!Next
<1> QED
  BY <1>1, <1>2

----------------------------------------------------------------------------
\* The invariant of the policy cache.
THEOREM PolicyInvariance == ASSUME Policy!PolicyAssumption PROVE Policy!Spec => []PolicyInv
<1> QED
  BY PolicyInitially, PolicyInductive, PTL DEF Policy!Spec

\* "The cache is invalidated immediately on every admin write" (UpdateIsVisible):
\* bust waits for a refresh that queried before the write, and what that refresh
\* cached goes with the rest.
THEOREM PolicyUpdateIsVisible ==
    ASSUME Policy!PolicyAssumption
    PROVE  Policy!Spec => []Policy!UpdateIsVisible
<1>1. PolicyInv => Policy!UpdateIsVisible
  <2> SUFFICES ASSUME PolicyInv, NEW r \in Readers, reader[r].pc = "done", reader[r].out # NoList
               PROVE  reader[r].out >= reader[r].floor
    BY DEF Policy!UpdateIsVisible
  <2>1. reader[r].floor <= reader[r].out
    BY DEF PolicyInv, VersionInv
  <2>2. reader[r].floor \in Nat /\ reader[r].out \in Nat
    BY Zenon DEF PolicyInv, Policy!TypeOK
  <2> QED
    BY <2>1, <2>2
<1> QED
  BY <1>1, PolicyInvariance, PTL

\* A table that another process superseded is served for the lifetime of the
\* cache, plus one query, and no longer (StaleOnlyForTTL).
THEOREM PolicyStaleOnlyForTTL ==
    ASSUME Policy!PolicyAssumption
    PROVE  Policy!Spec => Policy!StaleOnlyForTTL
<1> DEFINE Served(r) ==
      LET v == reader'[r].out IN
      /\ reader[r].pc # "done" /\ reader'[r].pc = "done"
      /\ ~broken /\ v # NoList /\ replacedAt[v] # NoList
      => clock - replacedAt[v] <= MaxAge + MaxQuery
<1>1. PolicyInv /\ [Policy!Next]_Policy!vars => [\A r \in Readers : Served(r)]_Policy!vars
  <2> SUFFICES ASSUME PolicyInv, Policy!Next, NEW r \in Readers,
                      reader[r].pc # "done", reader'[r].pc = "done", ~broken,
                      reader'[r].out # NoList, replacedAt[reader'[r].out] # NoList
               PROVE  clock - replacedAt[reader'[r].out] <= MaxAge + MaxQuery
    BY Zenon DEF Policy!vars
  <2>1. /\ Policy!TypeOK /\ VersionInv /\ AgeInv /\ MaxAge \in Nat /\ MaxQuery \in Nat
        /\ reader \in [Readers -> ReaderType] /\ clock \in Nat /\ cacheExpiry \in Nat
        /\ MaxVersion \in Nat /\ NoList \notin Nat
    BY DEF PolicyInv, Policy!PolicyAssumption, Policy!TypeOK, ReaderType
  <2>2. Policy!All(r) \/ Policy!Slow(r) \/ Policy!Store(r)
    <3>1. PICK p \in Readers :
            \/ Policy!All(p) \/ Policy!Slow(p) \/ Policy!List(p) \/ Policy!Store(p)
            \/ Policy!ListFails(p) \/ Policy!ReaderReuse(p)
      BY Zenon DEF Policy!Next, Policy!UpdatePolicy, Policy!Upsert, Policy!SeedDefaults,
         Policy!UpsertFails, Policy!Bust, Policy!WriterReuse,
             Policy!OtherProcess, Policy!Tick
    <3>2. p = r
      BY Zenon, <2>1, <3>1 DEF Policy!All, Policy!Slow, Policy!List, Policy!Store,
         Policy!ListFails, Policy!ReaderReuse, Policy!Finish
    <3> QED
      BY <2>1, <3>1, <3>2 DEF Policy!ListFails, Policy!List, Policy!ReaderReuse,
         Policy!NewReader, ReaderType
  <2>3. \/ Policy!Fresh /\ reader'[r].out = cached
        \/ reader[r].pc = "listed" /\ reader'[r].out = reader[r].list
    <3>1. CASE Policy!All(r)
      BY <2>1, <3>1 DEF Policy!All, ReaderType
    <3>2. CASE Policy!Slow(r)
      BY <2>1, <3>2, Zenon DEF Policy!Slow, Policy!Finish, ReaderType
    <3>3. CASE Policy!Store(r)
      BY <2>1, <3>3 DEF Policy!Store, Policy!Finish, ReaderType
    <3> QED
      BY Zenon, <2>2, <3>1, <3>2, <3>3
  <2>4. CASE Policy!Fresh /\ reader'[r].out = cached
    <3>1. cacheExpiry <= replacedAt[cached] + MaxQuery + MaxAge /\ clock < cacheExpiry
      BY Zenon, <2>1, <2>4 DEF AgeInv, Policy!Fresh
    <3>2. replacedAt[cached] \in Nat
      BY SMTT(30), <2>1, <2>4 DEF Policy!TypeOK, VersionInv
    <3>3. \A a, e, t \in Nat : e <= t + MaxQuery + MaxAge /\ a < e
             => a - t <= MaxAge + MaxQuery
      BY <2>1
    <3>4. clock - replacedAt[cached] <= MaxAge + MaxQuery
      BY Zenon, <2>1, <3>1, <3>2, <3>3
    <3> QED
      BY Zenon, <2>4, <3>4
  <2>5. CASE reader[r].pc = "listed" /\ reader'[r].out = reader[r].list
    <3>1. /\ clock <= reader[r].start + MaxQuery
          /\ reader[r].start <= replacedAt[reader[r].list]
      BY Zenon, <2>1, <2>5 DEF AgeInv
    <3>2. replacedAt[reader[r].list] \in Nat /\ reader[r].start \in Nat
      BY <2>1, <2>5 DEF Policy!TypeOK, VersionInv, ReaderType
    <3>3. \A a, b, t \in Nat : a <= b + MaxQuery /\ b <= t => a - t <= MaxAge + MaxQuery
      BY <2>1
    <3>4. clock - replacedAt[reader[r].list] <= MaxAge + MaxQuery
      BY Zenon, <2>1, <3>1, <3>2, <3>3
    <3> QED
      BY Zenon, <2>5, <3>4
  <2> QED
    BY Zenon, <2>3, <2>4, <2>5
<1> QED
  BY <1>1, PolicyInvariance, PTL DEF Policy!Spec, Policy!StaleOnlyForTTL
============================================================================
