------------------------ MODULE ServiceTokensProofs ------------------------
(***************************************************************************)
(* That an invalidation takes effect, that no expiry is overstated and     *)
(* that mutexes and map stay consistent: for any number of callers and     *)
(* scope sets, any size of the cache, any lifetime that is assumed.        *)
(*                                                                         *)
(* An entry's mutex is held by the caller that exchanges for it, so the    *)
(* scope-less token is never dropped during its exchange; the scoped       *)
(* entries are, and leave the map (FreshInv).  An entry that is made is    *)
(* one that nobody holds, as there are more entries than the map and the   *)
(* callers can hold (SomeFree).                                            *)
(***************************************************************************)
EXTENDS ServiceTokens, TLAPS, FiniteSetTheorems, FunctionTheorems, WellFoundedInduction

Exchanging(c) == call[c].pc \in {"sent", "answered"}
Waiting(c) == call[c].pc \in {"lock", "sent", "answered"}
InUse(e) == e = Default \/ \E s \in Scopes : scoped[s] = e

\* The tokens that were dropped from the cache an entry belongs to.
Dropped(e) == IF e = Default THEN floor["unscoped"] ELSE floor["scoped"]

CallType ==
    [pc: {"idle", "lock", "sent", "answered", "done"},
     scope: Scopes \cup {Unscoped, None}, e: Entries, sent: Nat,
     token: Nat, expiry: Nat, floor: Nat]

EntryType == [owner: Callers \cup {None}, token: Nat, expiry: Nat, lastUsed: Nat]

MutexInv ==
    \A e \in Entries, c \in Callers :
        entry[e].owner = c <=> Exchanging(c) /\ call[c].e = e

MapInv ==
    /\ \A s \in Scopes : scoped[s] # Default
    /\ IsFiniteSet(Cached) /\ Cardinality(Cached) <= MaxScoped

\* How long a token that someone has is believed to live.
TokenInv ==
    /\ \A k \in {"unscoped", "scoped"} : floor[k] <= issued
    /\ \A e \in Entries :
         /\ entry[e].token <= issued
         /\ entry[e].token # 0 => entry[e].expiry <= realExpiry[entry[e].token]
    /\ \A c \in Callers :
         /\ call[c].token <= issued /\ call[c].floor <= issued
         /\ call[c].token # 0 => call[c].expiry <= realExpiry[call[c].token]
         /\ call[c].pc \in {"lock", "sent"} => call[c].token = 0
         /\ call[c].pc # "done" => call[c].expiry = 0
         /\ call[c].pc = "sent" => call[c].sent <= now
         /\ call[c].pc = "answered" =>
              call[c].token # 0 /\ call[c].sent + Lifetime <= realExpiry[call[c].token]

\* Which tokens a caller may yet return.
FreshInv ==
    /\ \A e \in Entries : InUse(e) =>
         /\ entry[e].token = 0 \/ entry[e].token > Dropped(e)
         /\ \A d \in Callers :
              call[d].pc = "answered" /\ call[d].e = e => call[d].token > Dropped(e)
    /\ \A c \in Callers : Waiting(c) =>
         /\ entry[call[c].e].token = 0 \/ entry[call[c].e].token > call[c].floor
         /\ \A d \in Callers :
              call[d].pc = "answered" /\ call[d].e = call[c].e =>
                call[d].token > call[c].floor
    /\ InvalidationIsEffective

IInv == TypeOK /\ MutexInv /\ MapInv /\ TokenInv /\ FreshInv

----------------------------------------------------------------------------
LEMMA EntriesAre ==
    /\ Entries \subseteq Nat /\ Default \in Entries /\ IsFiniteSet(Entries)
    /\ Cardinality(Callers) \in Nat
    /\ Cardinality(Entries) = MaxScoped + Cardinality(Callers) + 1
<1>1. Cardinality(Callers) \in Nat /\ MaxScoped \in Nat
  BY ServiceTokensAssumption, FS_CardinalityType
<1> DEFINE n == MaxScoped + Cardinality(Callers)
<1>2. n \in Nat
  BY <1>1
<1>3. IsFiniteSet(0 .. n) /\ Cardinality(0 .. n) = n + 1
  BY <1>2, FS_Interval
<1> QED
  BY <1>1, <1>2, <1>3 DEF Entries, Default

\* A set of naturals that is not empty has a least element.
LEMMA LeastNatural ==
    ASSUME NEW T \in SUBSET Nat, T # {}
    PROVE  \E x \in T : \A y \in T : x <= y
<1> DEFINE R == OpToRel(<, Nat)
<1>1. PICK x \in T : \A y \in T : ~ (<<y, x>> \in R)
  BY NatLessThanWellFounded, WFMin, Zenon
<1>2. \A y \in T : <<y, x>> \in R <=> y < x
  BY DEF OpToRel
<1>3. \A y \in T : ~ (y < x)
  BY <1>1, <1>2, Zenon
<1>4. \A y \in T : x <= y
  BY <1>3
<1> QED
  BY <1>4

LEMMA Initially == Init => IInv
<1> SUFFICES ASSUME Init PROVE IInv
  OBVIOUS
<1>1. TypeOK
  BY ServiceTokensAssumption, EntriesAre
  DEF Init, TypeOK, Idle, EmptyEntry, Default
<1>2. MutexInv
  BY ServiceTokensAssumption DEF Init, MutexInv, Exchanging, Idle, EmptyEntry
<1>3. MapInv
  <2>1. Cached = {}
    BY DEF Init, Cached
  <2> QED
    BY <2>1, ServiceTokensAssumption, FS_EmptySet DEF Init, MapInv, Default
<1>4. TokenInv
  BY DEF Init, TokenInv, Idle, EmptyEntry
<1>5. FreshInv
  BY DEF Init, FreshInv, Waiting, Idle, EmptyEntry, InvalidationIsEffective
<1> QED
  BY <1>1, <1>2, <1>3, <1>4, <1>5 DEF IInv

LEMMA ImageBound ==
    ASSUME NEW S, IsFiniteSet(S), NEW f
    PROVE  /\ IsFiniteSet({f[x] : x \in S})
           /\ Cardinality({f[x] : x \in S}) <= Cardinality(S)
<1> DEFINE T == {f[x] : x \in S}
           g == [x \in S |-> f[x]]
<1>1. g \in Surjection(S, T)
  BY DEF Surjection
<1> QED
  BY <1>1, FS_Surjection

\* scopedEntry finds an entry that nobody holds.
LEMMA SomeFree ==
    ASSUME IInv, NEW c \in Callers, call[c].pc = "idle"
    PROVE  Min(Free) \in Free
<1> DEFINE M == {scoped[s] : s \in Cached}
           A == {d \in Callers : call[d].pc # "idle"}
           f == [d \in Callers |-> call[d].e]
           H == {f[d] : d \in A}
<1>1. IsFiniteSet(M) /\ Cardinality(M) <= MaxScoped /\ Cardinality(M) \in Nat
  <2>1. IsFiniteSet(Cached) /\ Cardinality(Cached) <= MaxScoped
    BY DEF IInv, MapInv
  <2>2. IsFiniteSet(M) /\ Cardinality(M) <= Cardinality(Cached)
    BY <2>1, ImageBound
  <2> QED
    BY <2>1, <2>2, FS_CardinalityType, ServiceTokensAssumption
<1>2. IsFiniteSet(H) /\ Cardinality(H) <= Cardinality(Callers) - 1 /\ Cardinality(H) \in Nat
  <2>1. A \in SUBSET (Callers \ {c})
    OBVIOUS
  <2>2. /\ IsFiniteSet(Callers \ {c})
        /\ Cardinality(Callers \ {c}) = Cardinality(Callers) - 1
    BY FS_RemoveElement, ServiceTokensAssumption, Zenon
  <2>3. IsFiniteSet(A) /\ Cardinality(A) <= Cardinality(Callers) - 1
    BY <2>1, <2>2, FS_Subset
  <2>4. IsFiniteSet(H) /\ Cardinality(H) <= Cardinality(A)
    BY <2>3, ImageBound, Zenon
  <2> QED
    BY <2>3, <2>4, FS_CardinalityType, EntriesAre
<1>3. IsFiniteSet(M \cup H) /\ Cardinality(M \cup H) <= Cardinality(M) + Cardinality(H)
  <2>1. IsFiniteSet(M \cap H)
    <3>1. M \cap H \in SUBSET M
      OBVIOUS
    <3> QED
      BY <1>1, <3>1, FS_Subset
  <2>2. Cardinality(M \cap H) \in Nat
    BY <2>1, FS_CardinalityType
  <2> HIDE DEF M, H
  <2>3. /\ IsFiniteSet(M \cup H)
        /\ Cardinality(M \cup H) =
             Cardinality(M) + Cardinality(H) - Cardinality(M \cap H)
    BY <1>1, <1>2, FS_Union, Zenon
  <2> QED
    BY <1>1, <1>2, <2>2, <2>3
<1>4. IsFiniteSet((M \cup H) \cup {Default})
      /\ Cardinality((M \cup H) \cup {Default}) <= Cardinality(M) + Cardinality(H) + 1
  <2> HIDE DEF M, H
  <2> DEFINE U == M \cup H
  <2>1. Cardinality(U) \in Nat
    BY <1>3, FS_CardinalityType
  <2>2. /\ IsFiniteSet(U \cup {Default})
        /\ Cardinality(U \cup {Default}) =
             IF Default \in U THEN Cardinality(U) ELSE Cardinality(U) + 1
    BY <1>3, FS_AddElement, Zenon
  <2> HIDE DEF U
  <2>3. Cardinality(U \cup {Default}) <= Cardinality(U) + 1
    BY <2>1, <2>2
  <2> QED
    BY <1>1, <1>2, <1>3, <2>1, <2>2, <2>3 DEF U
<1>5. Free # {}
  <2> SUFFICES ASSUME Free = {} PROVE FALSE
    OBVIOUS
  <2>1. H = Held
    BY DEF Held
  <2>2. \A e \in Entries : e \in Range(scoped) => e \in M
    <3>1. None \notin Entries /\ DOMAIN scoped = Scopes
      BY ServiceTokensAssumption, EntriesAre, Zenon DEF IInv, TypeOK
    <3> QED
      BY <3>1, Zenon DEF Range, Cached
  <2>3. Entries \in SUBSET ((M \cup H) \cup {Default})
    <3> HIDE DEF M, H
    <3> QED
      BY <2>1, <2>2 DEF Free
  <2>4. Cardinality(Entries) <= Cardinality((M \cup H) \cup {Default})
    BY <1>4, <2>3, FS_Subset
  <2>5. Cardinality((M \cup H) \cup {Default}) \in Nat
    BY <1>4, FS_CardinalityType
  <2> HIDE DEF M, H
  <2> QED
    BY <1>1, <1>2, <1>4, <2>4, <2>5, EntriesAre, ServiceTokensAssumption
<1>6. PICK x \in Free : \A y \in Free : x <= y
  <2>1. Free \in SUBSET Nat
    BY EntriesAre, Zenon DEF Free
  <2> QED
    BY <1>5, <2>1, LeastNatural
<1> QED
  BY <1>6, Zenon DEF Min

\* A full cache has a least recently used entry.
LEMMA OldestCached ==
    ASSUME IInv, Cardinality(Cached) >= MaxScoped
    PROVE  Oldest \in Cached
<1> DEFINE L(s) == entry[scoped[s]].lastUsed
           T == {L(s) : s \in Cached}
<1>1. Cached # {} /\ T # {}
  BY FS_EmptySet, ServiceTokensAssumption
<1>2. \A s \in Cached : L(s) \in Nat
  BY DEF IInv, TypeOK, Cached
<1>3. PICK x \in T : \A y \in T : x <= y
  <2>1. T \in SUBSET Nat
    BY <1>2
  <2> QED
    BY <1>1, <2>1, LeastNatural, Zenon
<1>4. PICK s \in Cached : \A t \in Cached : L(s) <= L(t)
  BY <1>3
<1> QED
  BY <1>4, Zenon DEF Oldest

----------------------------------------------------------------------------
(* The steps.  q is the caller's record after its step, x the entry's.     *)

LEMMA Records ==
    ASSUME IInv
    PROVE  /\ call \in [Callers -> CallType] /\ entry \in [Entries -> EntryType]
           /\ None \notin Callers /\ Default \in Entries
BY ServiceTokensAssumption, EntriesAre DEF IInv, TypeOK, CallType, EntryType

LEMMA Fields ==
    ASSUME IInv
    PROVE  /\ \A d \in Callers : /\ call[d].e \in Entries /\ call[d].token \in Nat
                                 /\ call[d].floor \in Nat /\ call[d].sent \in Nat
           /\ \A f \in Entries : entry[f].token \in Nat
BY Records DEF CallType, EntryType

LEMMA Numbers ==
    ASSUME IInv
    PROVE  /\ now \in Nat /\ scopedTick \in Nat /\ issued \in Nat /\ MaxTokens \in Nat
           /\ issued <= MaxTokens /\ realExpiry \in [1 .. MaxTokens -> Nat]
           /\ floor["unscoped"] \in Nat /\ floor["scoped"] \in Nat
           /\ Lifetime \in Nat
BY ServiceTokensAssumption DEF IInv, TypeOK

LEMMA ScopedType ==
    ASSUME IInv
    PROVE  scoped \in [Scopes -> Entries \cup {None}]
BY DEF IInv, TypeOK

LEMMA TypesKept ==
    ASSUME IInv, UNCHANGED <<now, scoped, invalidate, floor>>,
           scopedTick' \in Nat, issued' \in 0 .. MaxTokens,
           realExpiry' \in [1 .. MaxTokens -> Nat],
           call' \in [Callers -> CallType], entry' \in [Entries -> EntryType]
    PROVE  TypeOK' /\ MapInv'
<1>1. TypeOK'
  BY DEF IInv, TypeOK, CallType, EntryType
<1>2. MapInv'
  BY DEF IInv, MapInv, Cached
<1> QED
  BY <1>1, <1>2

\* A caller moves on and no entry changes.
LEMMA CallStep ==
    ASSUME IInv, NEW c \in Callers, NEW q \in CallType,
           call' = [call EXCEPT ![c] = q],
           UNCHANGED <<now, entry, scoped, scopedTick, serverVars, invalidate, floor>>,
           call[c].pc \notin {"sent", "answered"}, q.pc \notin {"sent", "answered"},
           q.token <= issued, q.floor <= issued, q.pc # "done" => q.token = 0 /\ q.expiry = 0,
           q.token # 0 => q.expiry <= realExpiry[q.token] /\ q.token > q.floor,
           q.pc = "lock" => q.e = Default /\ q.floor = floor["unscoped"]
    PROVE  IInv'
<1>1. /\ call' \in [Callers -> CallType] /\ call'[c] = q
      /\ \A d \in Callers \ {c} : call'[d] = call[d]
  BY Records
<1>2. TypeOK' /\ MapInv'
  <2>1. scopedTick' \in Nat
    BY DEF IInv, TypeOK
  <2> QED
    <3>1. issued' \in 0 .. MaxTokens /\ realExpiry' \in [1 .. MaxTokens -> Nat]
      BY Numbers DEF serverVars
    <3>2. entry' \in [Entries -> EntryType]
      BY Records
    <3> QED
      BY <1>1, <2>1, <3>1, <3>2, TypesKept
<1>3. MutexInv'
  BY <1>1 DEF IInv, MutexInv, Exchanging
<1>4. TokenInv'
  BY <1>1, ScopedType DEF IInv, TokenInv, serverVars
<1>5. FreshInv'
  <2>1. \A e \in Entries : InUse(e)' <=> InUse(e)
    BY DEF InUse
  <2>2. \A e \in Entries : Dropped(e)' = Dropped(e)
    BY DEF Dropped
  <2>3. \A d \in Callers : call'[d].pc = "answered" => call'[d] = call[d] /\ d # c
    BY <1>1
  <2>4. \A d \in Callers \ {c} : Waiting(d)' <=> Waiting(d)
    BY <1>1 DEF Waiting
  <2>5. Waiting(c)' => call'[c].e = Default /\ call'[c].floor = Dropped(Default)
    BY <1>1 DEF Waiting, Dropped
  <2>6. InUse(Default) /\ Default \in Entries
    BY Records DEF InUse
  <2>7. InvalidationIsEffective'
    BY <1>1, ScopedType DEF IInv, FreshInv, InvalidationIsEffective, CallType
  <2>8. \A e \in Entries : InUse(e)' =>
         /\ entry'[e].token = 0 \/ entry'[e].token > Dropped(e)'
         /\ \A d \in Callers :
              call'[d].pc = "answered" /\ call'[d].e = e => call'[d].token > Dropped(e)'
    BY <2>1, <2>2, <2>3 DEF IInv, FreshInv
  <2>9. ASSUME NEW d \in Callers, Waiting(d)'
        PROVE  /\ entry'[call'[d].e].token = 0 \/ entry'[call'[d].e].token > call'[d].floor
               /\ \A f \in Callers :
                    call'[f].pc = "answered" /\ call'[f].e = call'[d].e =>
                      call'[f].token > call'[d].floor
    <3>1. CASE d = c
      BY <2>3, <2>5, <2>6, <2>9, <3>1 DEF IInv, FreshInv
    <3>2. CASE d # c
      BY <1>1, <2>3, <2>4, <2>9, <3>2 DEF IInv, FreshInv
    <3> QED
      BY <3>1, <3>2
  <2> QED
    BY <2>7, <2>8, <2>9, Zenon DEF FreshInv
<1> QED
  BY <1>2, <1>3, <1>4, <1>5 DEF IInv

LEMMA ServiceTokenStep ==
    ASSUME IInv, NEW c \in Callers, ServiceToken(c)
    PROVE  IInv'
<1> DEFINE q == [Idle EXCEPT !.pc = "lock", !.scope = Unscoped, !.floor = floor["unscoped"]]
<1>1. /\ q \in CallType /\ q.pc = "lock" /\ q.token = 0 /\ q.expiry = 0
      /\ q.e = Default /\ q.floor = floor["unscoped"]
  BY Records, Numbers, Zenon DEF Idle, CallType
<1>2. floor["unscoped"] <= issued /\ 0 <= issued
  BY Numbers DEF IInv, TokenInv
<1>3. /\ call' = [call EXCEPT ![c] = q] /\ call[c].pc = "idle"
      /\ UNCHANGED <<now, entry, scoped, scopedTick, serverVars, invalidate, floor>>
  BY DEF ServiceToken
<1> HIDE DEF q
<1> QED
  BY <1>1, <1>2, <1>3, CallStep, Zenon

LEMMA DoneStep ==
    ASSUME IInv, NEW c \in Callers, Done(c)
    PROVE  IInv'
<1>1. /\ Idle \in CallType /\ Idle.pc = "idle" /\ Idle.token = 0 /\ Idle.expiry = 0
      /\ Idle.floor = 0
  BY Records DEF Idle, CallType
<1>2. 0 <= issued
  BY Numbers
<1>3. /\ call' = [call EXCEPT ![c] = Idle] /\ call[c].pc = "done"
      /\ UNCHANGED <<now, entry, scoped, scopedTick, serverVars, invalidate, floor>>
  BY DEF Done
<1> QED
  BY <1>1, <1>2, <1>3, CallStep, Zenon

\* A caller that waits for an entry, or has the mutex of one, moves on: it locks
\* it, gets its answer, stores it, or unlocks it.
Exchange(c, q, x) ==
    LET e == entry[call[c].e] IN
    /\ call' = [call EXCEPT ![c] = q] /\ entry' = [entry EXCEPT ![call[c].e] = x]
    /\ UNCHANGED <<now, scoped, scopedTick, invalidate, floor>>
    /\ issued' \in issued .. MaxTokens /\ realExpiry' \in [1 .. MaxTokens -> Nat]
    /\ \A t \in 1 .. issued : realExpiry'[t] = realExpiry[t]
    /\ q.e = call[c].e /\ q.floor = call[c].floor /\ q.pc \in {"sent", "answered", "done"}
    /\ \A d \in Callers : x.owner = d <=> d = c /\ q.pc # "done"
    /\ \A d \in Callers \ {c} : e.owner # d
    /\ x.token \in {e.token, call[c].token}
    /\ x.token # 0 => x.expiry <= realExpiry[x.token]
    /\ q.token <= issued' /\ (q.token # 0 => q.expiry <= realExpiry'[q.token])
    /\ q.pc = "sent" => q.token = 0 /\ q.expiry = 0 /\ q.sent <= now
    /\ q.pc = "answered" => /\ q.token > issued /\ q.expiry = 0
                            /\ q.sent + Lifetime <= realExpiry'[q.token]
    /\ q.pc = "done" => q.token \in {0, x.token}

LEMMA ExchangeStep ==
    ASSUME IInv, NEW c \in Callers, Waiting(c), NEW q \in CallType, NEW x \in EntryType,
           Exchange(c, q, x)
    PROVE  IInv'
<1> DEFINE e == call[c].e
<1>a. /\ call' = [call EXCEPT ![c] = q] /\ entry' = [entry EXCEPT ![e] = x]
      /\ UNCHANGED <<now, scoped, scopedTick, invalidate, floor>>
  BY DEF Exchange
<1>b. /\ issued \in Nat /\ issued' \in Nat /\ issued <= issued'
      /\ issued' \in 0 .. MaxTokens /\ realExpiry' \in [1 .. MaxTokens -> Nat]
      /\ \A t \in 1 .. issued : realExpiry'[t] = realExpiry[t]
  BY Numbers DEF Exchange
<1>c. /\ q.e = e /\ q.floor = call[c].floor /\ q.pc \in {"sent", "answered", "done"}
      /\ \A d \in Callers : x.owner = d <=> d = c /\ q.pc # "done"
      /\ \A d \in Callers \ {c} : entry[e].owner # d
  BY DEF Exchange
<1>d. /\ x.token \in {entry[e].token, call[c].token}
      /\ x.token # 0 => x.expiry <= realExpiry[x.token]
  BY DEF Exchange
<1>e. /\ q.token <= issued' /\ (q.token # 0 => q.expiry <= realExpiry'[q.token])
      /\ q.pc = "sent" => q.token = 0 /\ q.expiry = 0 /\ q.sent <= now
      /\ q.pc = "answered" => /\ q.token > issued /\ q.expiry = 0
                              /\ q.sent + Lifetime <= realExpiry'[q.token]
      /\ q.pc = "done" => q.token \in {0, x.token}
  BY DEF Exchange
<1>1. /\ call' \in [Callers -> CallType] /\ call'[c] = q
      /\ \A d \in Callers \ {c} : call'[d] = call[d]
  BY <1>a, Records
<1>2. /\ entry' \in [Entries -> EntryType] /\ entry'[e] = x /\ e \in Entries
      /\ \A f \in Entries \ {e} : entry'[f] = entry[f]
  BY <1>a, Records, Fields
<1>3. TypeOK' /\ MapInv'
  <2>1. scopedTick' \in Nat
    BY <1>a, Numbers
  <2> QED
    BY <1>1, <1>2, <1>a, <1>b, <2>1, TypesKept
<1>4. MutexInv'
  <2> SUFFICES ASSUME NEW f \in Entries, NEW d \in Callers
               PROVE  entry'[f].owner = d <=> Exchanging(d)' /\ call'[d].e = f
    BY DEF MutexInv
  <2>1. entry[f].owner = d <=> Exchanging(d) /\ call[d].e = f
    BY DEF IInv, MutexInv
  <2>2. CASE d = c
    BY <1>1, <1>2, <1>c, <2>1, <2>2 DEF Exchanging
  <2>3. CASE d # c
    BY <1>1, <1>2, <1>c, <2>1, <2>3 DEF Exchanging
  <2> QED
    BY <2>2, <2>3
<1>5. TokenInv'
  <2>1. floor' = floor /\ now' = now
    BY <1>a
  <2>2. \A k \in {"unscoped", "scoped"} : floor'[k] <= issued'
    BY <1>b, <2>1, Numbers DEF IInv, TokenInv
  <2>3. \A f \in Entries :
          /\ entry'[f].token <= issued'
          /\ entry'[f].token # 0 => entry'[f].expiry <= realExpiry'[entry'[f].token]
    <3>1. \A f \in Entries : entry'[f].token \in Nat /\ entry'[f].token <= issued
      <4>1. x.token \in Nat /\ x.token <= issued
        BY <1>2, <1>d, Fields DEF IInv, TokenInv
      <4>2. \A f \in Entries \ {e} : entry'[f].token \in Nat /\ entry'[f].token <= issued
        BY <1>2, Fields DEF IInv, TokenInv
      <4> QED
        BY <1>2, <4>1, <4>2, Zenon
    <3>2. \A f \in Entries : entry'[f].token # 0 =>
            entry'[f].expiry <= realExpiry[entry'[f].token]
      <4>1. \A f \in Entries \ {e} : entry'[f].token # 0 =>
              entry'[f].expiry <= realExpiry[entry'[f].token]
        BY <1>2 DEF IInv, TokenInv
      <4> QED
        BY <1>2, <1>d, <4>1, Zenon
    <3>3. \A f \in Entries : entry'[f].token # 0 =>
            realExpiry'[entry'[f].token] = realExpiry[entry'[f].token]
      BY <1>b, <3>1
    <3>4. \A f \in Entries : entry'[f].token <= issued'
      BY <1>b, <3>1
    <3> QED
      BY <3>2, <3>3, <3>4
  <2>4. call[c].floor <= issued /\ call[c].floor \in Nat
    BY Fields DEF IInv, TokenInv
  <2>5. \A d \in Callers \ {c} :
          /\ call[d].token \in Nat /\ call[d].token <= issued
          /\ call[d].floor \in Nat /\ call[d].floor <= issued
    BY Fields DEF IInv, TokenInv
  <2>6. \A d \in Callers \ {c} : call[d].token # 0 =>
          realExpiry'[call[d].token] = realExpiry[call[d].token]
    BY <1>b, <2>5
  <2>7. \A d \in Callers \ {c} :
         /\ call[d].token <= issued' /\ call[d].floor <= issued'
         /\ call[d].token # 0 => call[d].expiry <= realExpiry'[call[d].token]
         /\ call[d].pc \in {"lock", "sent"} => call[d].token = 0
         /\ call[d].pc # "done" => call[d].expiry = 0
         /\ call[d].pc = "sent" => call[d].sent <= now
         /\ call[d].pc = "answered" =>
              call[d].token # 0 /\ call[d].sent + Lifetime <= realExpiry'[call[d].token]
    BY <1>b, <2>5, <2>6 DEF IInv, TokenInv
  <2>8. /\ q.token <= issued' /\ q.floor <= issued'
        /\ q.token # 0 => q.expiry <= realExpiry'[q.token]
        /\ q.pc \in {"lock", "sent"} => q.token = 0
        /\ q.pc = "sent" => q.sent <= now
        /\ q.pc = "answered" => q.token # 0 /\ q.sent + Lifetime <= realExpiry'[q.token]
        /\ q.pc # "done" => q.expiry = 0
    BY <1>b, <1>c, <1>e, <2>4
  <2> QED
    BY <1>1, <2>1, <2>2, <2>3, <2>7, <2>8 DEF TokenInv
<1>6. FreshInv'
  <2>1. \A f \in Entries : (InUse(f)' <=> InUse(f)) /\ Dropped(f)' = Dropped(f)
    BY <1>a DEF InUse, Dropped
  <2>2. /\ \A f \in Entries : Dropped(f) \in Nat /\ Dropped(f) <= issued
        /\ \A d \in Callers : call[d].floor \in Nat /\ call[d].floor <= issued
        /\ issued \in Nat /\ q.token \in Nat
    <3>1. /\ floor["unscoped"] \in Nat /\ floor["unscoped"] <= issued
          /\ floor["scoped"] \in Nat /\ floor["scoped"] <= issued
          /\ issued \in Nat /\ q.token \in Nat
      BY Numbers DEF IInv, TokenInv, CallType
    <3>2. \A d \in Callers : call[d].floor \in Nat /\ call[d].floor <= issued
      BY Fields DEF IInv, TokenInv
    <3> QED
      BY <3>1, <3>2, Zenon DEF Dropped
  <2>3. call[c].token = 0 \/ call[c].pc = "answered"
    BY DEF IInv, TokenInv, Waiting
  <2>4. InUse(e) => x.token = 0 \/ x.token > Dropped(e)
    BY <1>2, <1>d, <2>3 DEF IInv, FreshInv
  <2>5. \A d \in Callers : Waiting(d) /\ call[d].e = e =>
          x.token = 0 \/ x.token > call[d].floor
    BY <1>2, <1>d, <2>3 DEF IInv, FreshInv
  <2>6. \A d \in Callers : call'[d].pc = "answered" =>
          \/ d # c /\ call[d].pc = "answered" /\ call'[d] = call[d]
          \/ /\ \A f \in Entries : call'[d].token > Dropped(f)
             /\ \A f \in Callers : call'[d].token > call[f].floor
    BY <1>1, <1>e, <2>2
  <2>7. \A d \in Callers : call'[d].e = call[d].e /\ call'[d].floor = call[d].floor
    BY <1>1, <1>c
  <2>8. \A d \in Callers : Waiting(d)' => Waiting(d)
    BY <1>1 DEF Waiting
  <2>9. ASSUME NEW f \in Entries, InUse(f)'
        PROVE  /\ entry'[f].token = 0 \/ entry'[f].token > Dropped(f)'
               /\ \A d \in Callers :
                    call'[d].pc = "answered" /\ call'[d].e = f =>
                      call'[d].token > Dropped(f)'
    <3>1. entry'[f].token = 0 \/ entry'[f].token > Dropped(f)'
      BY <1>2, <2>1, <2>4, <2>9 DEF IInv, FreshInv
    <3> QED
      BY <2>1, <2>6, <2>9, <3>1 DEF IInv, FreshInv
  <2>10. ASSUME NEW d \in Callers, Waiting(d)'
         PROVE  /\ entry'[call'[d].e].token = 0 \/ entry'[call'[d].e].token > call'[d].floor
                /\ \A f \in Callers :
                     call'[f].pc = "answered" /\ call'[f].e = call'[d].e =>
                       call'[f].token > call'[d].floor
    <3>1. Waiting(d) /\ call[d].e \in Entries
      BY <2>8, <2>10, Fields
    <3>2. entry'[call[d].e].token = 0 \/ entry'[call[d].e].token > call[d].floor
      BY <1>2, <2>5, <3>1 DEF IInv, FreshInv
    <3>3. \A f \in Callers : call'[f].pc = "answered" /\ call[f].e = call[d].e =>
            call'[f].token > call[d].floor
      BY <2>6, <3>1 DEF IInv, FreshInv
    <3> QED
      BY <2>7, <3>2, <3>3
  <2>11. InvalidationIsEffective'
    BY <1>1, <1>c, <1>e, <2>5 DEF IInv, FreshInv, InvalidationIsEffective
  <2> QED
    BY <2>9, <2>10, <2>11, Zenon DEF FreshInv
<1> QED
  BY <1>3, <1>4, <1>5, <1>6, Zenon DEF IInv

LEMMA LockStep ==
    ASSUME IInv, NEW c \in Callers, Lock(c)
    PROVE  IInv'
<1> DEFINE e == entry[call[c].e]
           done == [call[c] EXCEPT !.pc = "done", !.token = e.token,
                                   !.expiry = e.expiry, !.sent = 0]
           sent == [call[c] EXCEPT !.pc = "sent", !.sent = now]
           locked == [e EXCEPT !.owner = c]
<1>1. /\ call[c].pc = "lock" /\ e.owner = None /\ Waiting(c)
      /\ UNCHANGED <<now, scoped, scopedTick, serverVars, invalidate, floor>>
  BY DEF Lock, Waiting
<1>2. /\ call[c] \in CallType /\ e \in EntryType /\ call[c].e \in Entries
      /\ e.token \in Nat /\ call[c].floor \in Nat /\ call[c].floor <= issued
      /\ e.token <= issued /\ (e.token # 0 => e.expiry <= realExpiry[e.token])
      /\ e.token # 0 => e.token > call[c].floor
      /\ call[c].token = 0 /\ call[c].expiry = 0
  <2>1. call[c] \in CallType /\ e \in EntryType /\ call[c].e \in Entries
    BY Records, Fields DEF CallType
  <2>2. /\ e.token <= issued /\ (e.token # 0 => e.expiry <= realExpiry[e.token])
        /\ call[c].token = 0 /\ call[c].expiry = 0 /\ call[c].floor <= issued
    BY <1>1, <2>1 DEF IInv, TokenInv
  <2>3. e.token # 0 => e.token > call[c].floor
    BY <1>1 DEF IInv, FreshInv
  <2> QED
    BY <2>1, <2>2, <2>3 DEF CallType, EntryType
<1>3. CASE call' = [call EXCEPT ![c] = done] /\ UNCHANGED entry
  <2>1. /\ done \in CallType /\ done.pc = "done" /\ done.token = e.token
        /\ done.expiry = e.expiry /\ done.floor = call[c].floor
    BY <1>2, Zenon DEF CallType, EntryType
  <2> HIDE DEF done, e
  <2> QED
    BY <1>1, <1>2, <1>3, <2>1, CallStep, Zenon
<1>4. CASE call' = [call EXCEPT ![c] = sent] /\ entry' = [entry EXCEPT ![call[c].e] = locked]
  <2>1. /\ sent \in CallType /\ sent.pc = "sent" /\ sent.token = 0 /\ sent.sent = now
        /\ sent.expiry = 0 /\ sent.floor = call[c].floor /\ sent.e = call[c].e
    BY <1>2, Numbers, Zenon DEF CallType
  <2>2. /\ locked \in EntryType /\ locked.owner = c /\ locked.token = e.token
        /\ locked.expiry = e.expiry
    BY <1>2 DEF EntryType
  <2>3. /\ issued' \in issued .. MaxTokens /\ realExpiry' \in [1 .. MaxTokens -> Nat]
        /\ \A t \in 1 .. issued : realExpiry'[t] = realExpiry[t]
        /\ now <= now /\ 0 <= issued' /\ realExpiry' = realExpiry
        /\ \A d \in Callers : d # None
    BY <1>1, Records, Numbers DEF serverVars
  <2> HIDE DEF sent, locked
  <2>4. Exchange(c, sent, locked)
    BY <1>1, <1>2, <1>4, <2>1, <2>2, <2>3 DEF Exchange
  <2>5. Waiting(c) /\ sent \in CallType /\ locked \in EntryType
    BY <1>1, <2>1, <2>2
  <2> QED
    BY <2>4, <2>5, ExchangeStep
<1> QED
  BY <1>1, <1>3, <1>4, Zenon DEF Lock, Return

\* What is known of a caller in the middle of an exchange.
LEMMA InExchange ==
    ASSUME IInv, NEW c \in Callers, Exchanging(c)
    PROVE  /\ Waiting(c) /\ call[c] \in CallType /\ call[c].e \in Entries
           /\ entry[call[c].e] \in EntryType /\ entry[call[c].e].owner = c
           /\ entry[call[c].e].token # 0 =>
                entry[call[c].e].expiry <= realExpiry[entry[call[c].e].token]
           /\ call[c].expiry = 0 /\ call[c].token <= issued
           /\ call[c].pc = "sent" => call[c].sent <= now
           /\ call[c].pc = "answered" => /\ call[c].token # 0
                                         /\ call[c].sent + Lifetime <= realExpiry[call[c].token]
<1>1. Waiting(c) /\ call[c] \in CallType /\ call[c].e \in Entries
      /\ entry[call[c].e] \in EntryType
  BY Records, Fields DEF Exchanging, Waiting, CallType
<1>2. entry[call[c].e].owner = c
  BY <1>1 DEF IInv, MutexInv
<1> QED
  BY <1>1, <1>2 DEF IInv, TokenInv, Exchanging

LEMMA IssueStep ==
    ASSUME IInv, NEW c \in Callers, Issue(c)
    PROVE  IInv'
<1> DEFINE q == [call[c] EXCEPT !.pc = "answered", !.token = issued']
           x == entry[call[c].e]
<1>1. /\ Exchanging(c) /\ call[c].pc = "sent" /\ issued < MaxTokens /\ issued' = issued + 1
      /\ realExpiry' = [realExpiry EXCEPT ![issued'] = now + Lifetime]
      /\ UNCHANGED <<now, entry, scoped, scopedTick, invalidate, floor>>
  BY DEF Issue, Exchanging
<1>2. /\ call[c] \in CallType /\ x \in EntryType /\ x.owner = c /\ Waiting(c)
      /\ x.token # 0 => x.expiry <= realExpiry[x.token]
      /\ call[c].expiry = 0 /\ call[c].sent <= now /\ call[c].sent \in Nat
      /\ call[c].e \in Entries
  BY <1>1, InExchange DEF CallType
<1>3. /\ issued' \in issued .. MaxTokens /\ issued \in Nat /\ issued' \in Nat
      /\ realExpiry' \in [1 .. MaxTokens -> Nat]
      /\ \A t \in 1 .. issued : realExpiry'[t] = realExpiry[t]
      /\ realExpiry'[issued'] = now + Lifetime
      /\ now \in Nat /\ Lifetime \in Nat
  BY <1>1, Numbers
<1>4. /\ q \in CallType /\ q.pc = "answered" /\ q.token = issued' /\ q.e = call[c].e
      /\ q.floor = call[c].floor /\ q.expiry = 0 /\ q.sent = call[c].sent
  BY <1>2, <1>3, Zenon DEF CallType
<1>5. call' = [call EXCEPT ![c] = q] /\ entry' = [entry EXCEPT ![call[c].e] = x]
  <2>1. call' = [call EXCEPT ![c] = q]
    BY Zenon DEF Issue
  <2>2. entry' = [entry EXCEPT ![call[c].e] = x]
    BY <1>1, <1>2, Records
  <2> QED
    BY <2>1, <2>2
<1> HIDE DEF q
<1>6. /\ q.token <= issued' /\ q.token > issued /\ q.expiry <= realExpiry'[q.token]
      /\ q.sent + Lifetime <= realExpiry'[q.token]
  BY <1>1, <1>2, <1>3, <1>4
<1> HIDE DEF x
<1>7. x.token = entry[call[c].e].token /\ x.owner = entry[call[c].e].owner
  BY DEF x
<1>8. Exchange(c, q, x)
  BY <1>1, <1>2, <1>3, <1>4, <1>5, <1>6, <1>7, Zenon DEF Exchange
<1> QED
  BY <1>2, <1>4, <1>8, ExchangeStep

\* tokenExpiry counts from a moment before the token was issued.
LEMMA ExpirySound ==
    ASSUME NEW has \in SUBSET {"exp", "expires_in"}, NEW sent \in Nat, NEW real \in Nat,
           sent + Lifetime <= real
    PROVE  tokenExpiry(has, sent, real) \in Nat /\ tokenExpiry(has, sent, real) <= real
<1>1. Lifetime \in Nat /\ UnknownLifetime \in 0 .. Lifetime
  BY ServiceTokensAssumption
<1>2. CASE "exp" \in has /\ real > sent
  BY <1>2 DEF tokenExpiry
<1>3. CASE ~("exp" \in has /\ real > sent)
  <2>1. tokenExpiry(has, sent, real) \in {sent + Lifetime, sent + UnknownLifetime}
    BY <1>3 DEF tokenExpiry
  <2> QED
    BY <1>1, <2>1
<1> QED
  BY <1>2, <1>3

LEMMA StoreStep ==
    ASSUME IInv, NEW c \in Callers, Store(c)
    PROVE  IInv'
<1> DEFINE e == entry[call[c].e]
           t == call[c].token
<1>1. /\ Exchanging(c) /\ call[c].pc = "answered"
      /\ UNCHANGED <<now, scoped, scopedTick, serverVars, invalidate, floor>>
  BY DEF Store, Exchanging
<1>2. /\ call[c] \in CallType /\ e \in EntryType /\ e.owner = c /\ Waiting(c)
      /\ call[c].e \in Entries
      /\ t \in Nat /\ t # 0 /\ t <= issued /\ call[c].sent \in Nat
      /\ call[c].sent + Lifetime <= realExpiry[t]
  BY <1>1, InExchange DEF CallType
<1>3. PICK has \in SUBSET {"exp", "expires_in"} :
        LET expiry == tokenExpiry(has, call[c].sent, realExpiry[t])
        IN  /\ entry' = [entry EXCEPT ![call[c].e] =
                           [e EXCEPT !.owner = None, !.token = t, !.expiry = expiry]]
            /\ call' = [call EXCEPT ![c] =
                 [call[c] EXCEPT !.pc = "done", !.token = t, !.expiry = expiry, !.sent = 0]]
  BY Zenon DEF Store, Return
<1> DEFINE expiry == tokenExpiry(has, call[c].sent, realExpiry[t])
           q == [call[c] EXCEPT !.pc = "done", !.token = t, !.expiry = expiry, !.sent = 0]
           x == [e EXCEPT !.owner = None, !.token = t, !.expiry = expiry]
<1>4. expiry \in Nat /\ expiry <= realExpiry[t]
  <2>1. realExpiry[t] \in Nat
    BY <1>2, Numbers
  <2> QED
    BY <1>2, <2>1, ExpirySound
<1> HIDE DEF expiry
<1>5. /\ q \in CallType /\ q.pc = "done" /\ q.token = t /\ q.e = call[c].e
      /\ q.floor = call[c].floor /\ q.expiry = expiry
  BY <1>2, <1>4, Zenon DEF CallType
<1>6. x \in EntryType /\ x.owner = None /\ x.token = t /\ x.expiry = expiry
  BY <1>2, <1>4, Zenon DEF EntryType
<1>7. call' = [call EXCEPT ![c] = q] /\ entry' = [entry EXCEPT ![call[c].e] = x]
  BY <1>3 DEF expiry
<1>8. /\ issued' \in issued .. MaxTokens /\ issued' = issued
      /\ realExpiry' \in [1 .. MaxTokens -> Nat] /\ realExpiry' = realExpiry
      /\ None \notin Callers
  BY <1>1, Records, Numbers DEF serverVars
<1> HIDE DEF q, x
<1>9. Exchange(c, q, x)
  BY <1>1, <1>2, <1>4, <1>5, <1>6, <1>7, <1>8, Zenon DEF Exchange
<1> QED
  BY <1>2, <1>5, <1>6, <1>9, ExchangeStep

LEMMA FailStep ==
    ASSUME IInv, NEW c \in Callers, ExchangeFails(c)
    PROVE  IInv'
<1> DEFINE e == entry[call[c].e]
           q == [call[c] EXCEPT !.pc = "done", !.token = 0, !.expiry = 0, !.sent = 0]
           x == [e EXCEPT !.owner = None]
<1>1. /\ Exchanging(c)
      /\ UNCHANGED <<now, scoped, scopedTick, serverVars, invalidate, floor>>
  BY DEF ExchangeFails, Exchanging
<1>2. /\ call[c] \in CallType /\ e \in EntryType /\ e.owner = c /\ Waiting(c)
      /\ e.token # 0 => e.expiry <= realExpiry[e.token]
  BY <1>1, InExchange
<1>3. /\ q \in CallType /\ q.pc = "done" /\ q.token = 0 /\ q.e = call[c].e
      /\ q.floor = call[c].floor /\ q.expiry = 0
  BY <1>2, Zenon DEF CallType
<1>4. x \in EntryType /\ x.owner = None /\ x.token = e.token /\ x.expiry = e.expiry
  BY <1>2 DEF EntryType
<1>5. call' = [call EXCEPT ![c] = q] /\ entry' = [entry EXCEPT ![call[c].e] = x]
  BY DEF ExchangeFails, Return
<1>6. /\ issued' \in issued .. MaxTokens /\ issued' = issued /\ 0 <= issued
      /\ realExpiry' \in [1 .. MaxTokens -> Nat] /\ realExpiry' = realExpiry
      /\ None \notin Callers
  BY <1>1, Records, Numbers DEF serverVars
<1> HIDE DEF q, x
<1>7. Exchange(c, q, x)
  BY <1>1, <1>2, <1>3, <1>4, <1>5, <1>6, Zenon DEF Exchange
<1> QED
  BY <1>2, <1>3, <1>4, <1>7, ExchangeStep

----------------------------------------------------------------------------
\* ServiceTokenWithScopes: the entry e of the map, or a new one.
LEMMA ScopedStep ==
    ASSUME IInv, NEW c \in Callers, NEW s \in Scopes, ServiceTokenWithScopes(c, s)
    PROVE  IInv'
<1> DEFINE hit == s \in Cached
           e == IF hit THEN scoped[s] ELSE Min(Free)
           x == [IF hit THEN entry[e] ELSE EmptyEntry EXCEPT !.lastUsed = scopedTick']
           q == [Idle EXCEPT !.pc = "lock", !.scope = s, !.e = e, !.floor = floor["scoped"]]
           full == ~hit /\ Cardinality(Cached) >= MaxScoped
           kept == IF full THEN [scoped EXCEPT ![Oldest] = None] ELSE scoped
<1>1. /\ call[c].pc = "idle" /\ scopedTick' = scopedTick + 1
      /\ entry' = [entry EXCEPT ![e] = x] /\ scoped' = [kept EXCEPT ![s] = e]
      /\ call' = [call EXCEPT ![c] = q]
      /\ UNCHANGED <<now, serverVars, invalidate, floor>>
  BY Zenon DEF ServiceTokenWithScopes
<1>2. /\ e \in Entries \ {Default}
      /\ hit => e = scoped[s]
      /\ ~hit => (\A t \in Scopes : scoped[t] # e) /\ \A d \in Callers :
                    call[d].pc # "idle" => call[d].e # e
  <2>1. CASE hit
    BY <2>1, ScopedType DEF Cached, IInv, MapInv
  <2>2. CASE ~hit
    <3>1. e \in Free
      BY <1>1, <2>2, SomeFree
    <3>2. \A t \in Scopes : scoped[t] \in Range(scoped)
      BY ScopedType DEF Range
    <3> HIDE DEF e
    <3> QED
      BY <2>2, <3>1, <3>2, Zenon DEF Free, Held
  <2> QED
    BY <2>1, <2>2
<1>3. /\ \A t \in Scopes : kept[t] \in {scoped[t], None}
      /\ kept \in [Scopes -> Entries \cup {None}]
  BY ScopedType, Zenon
<1>4. /\ scoped' \in [Scopes -> Entries \cup {None}] /\ scoped'[s] = e
      /\ \A t \in Scopes : t # s => scoped'[t] \in {scoped[t], None}
  <2> HIDE DEF kept, e
  <2> QED
    BY <1>1, <1>2, <1>3
<1>5. MapInv'
  <2>1. e # None /\ e # Default /\ IsFiniteSet(Cached) /\ Cardinality(Cached) <= MaxScoped
        /\ MaxScoped \in Nat \ {0} /\ Cardinality(Cached) \in Nat
    <3>1. e # None /\ MaxScoped \in Nat \ {0}
      BY <1>2, EntriesAre, ServiceTokensAssumption, Zenon
    <3> QED
      BY <1>2, <3>1, FS_CardinalityType, Zenon DEF IInv, MapInv
  <2>2. \A t \in Scopes : scoped'[t] # Default
    <3> HIDE DEF e
    <3>1. None # Default /\ \A t \in Scopes : scoped[t] # Default
      BY ServiceTokensAssumption DEF IInv, MapInv, Default
    <3> QED
      BY <1>4, <2>1, <3>1
  <2>3. IsFiniteSet(Cached') /\ Cardinality(Cached') <= MaxScoped
    <3> DEFINE K == {t \in Scopes : kept[t] # None}
    <3>1. Cached' = K \cup {s}
      <4>1. DOMAIN kept = Scopes
        BY <1>3
      <4> HIDE DEF kept, e
      <4> QED
        BY <1>1, <2>1, <4>1 DEF Cached
    <3>2. CASE hit
      <4>1. K \cup {s} = Cached
        BY <3>2 DEF Cached
      <4> QED
        BY <2>1, <3>1, <4>1
    <3>3. CASE ~hit /\ ~full
      <4>1. K = Cached /\ s \notin Cached
        BY <3>3 DEF Cached
      <4>2. IsFiniteSet(Cached \cup {s}) /\ Cardinality(Cached \cup {s}) = Cardinality(Cached) + 1
        BY <2>1, <4>1, FS_AddElement
      <4>3. Cardinality(Cached) < MaxScoped
        BY <2>1, <3>3
      <4> HIDE DEF K
      <4> QED
        BY <2>1, <3>1, <4>1, <4>2, <4>3
    <3>4. CASE full
      <4>1. Oldest \in Cached /\ s \notin Cached
        BY <3>4, OldestCached
      <4>2. K = Cached \ {Oldest}
        BY <3>4, <4>1, ScopedType DEF Cached
      <4> HIDE DEF K
      <4>3. IsFiniteSet(K) /\ Cardinality(K) = Cardinality(Cached) - 1 /\ s \notin K
        BY <2>1, <4>1, <4>2, FS_RemoveElement, Zenon
      <4>4. IsFiniteSet(K \cup {s}) /\ Cardinality(K \cup {s}) = Cardinality(K) + 1
        BY <4>3, FS_AddElement, Zenon
      <4> QED
        BY <2>1, <3>1, <4>3, <4>4
    <3> QED
      BY <3>2, <3>3, <3>4
  <2> QED
    BY <2>2, <2>3 DEF MapInv
<1>6. /\ x \in EntryType
      /\ hit => /\ x.token = entry[e].token /\ x.expiry = entry[e].expiry
                /\ x.owner = entry[e].owner
      /\ ~hit => x.token = 0 /\ x.expiry = 0 /\ x.owner = None
  <2>1. scopedTick' \in Nat /\ entry[e] \in EntryType /\ EmptyEntry \in EntryType
    <3>1. scopedTick' \in Nat
      <4> HIDE DEF e, x, q, kept
      <4> QED
        BY <1>1, Numbers
    <3>2. entry[e] \in EntryType
      BY <1>2, Records
    <3>3. EmptyEntry \in EntryType
      BY DEF EmptyEntry, EntryType
    <3> QED
      BY <3>1, <3>2, <3>3
  <2>2. CASE hit
    <3> HIDE DEF e, hit
    <3> QED
      BY <2>1, <2>2 DEF EntryType
  <2>3. CASE ~hit
    <3> HIDE DEF e, hit
    <3> QED
      BY <2>1, <2>3 DEF EntryType, EmptyEntry
  <2> QED
    BY <2>2, <2>3
<1>7. /\ q \in CallType /\ q.pc = "lock" /\ q.e = e /\ q.floor = floor["scoped"]
      /\ q.token = 0 /\ q.expiry = 0
  <2> HIDE DEF e
  <2> QED
    BY <1>2, Records, Numbers, Zenon DEF Idle, CallType
<1> HIDE DEF e, x, q, hit
<1>8. /\ call' \in [Callers -> CallType] /\ call'[c] = q
      /\ \A d \in Callers \ {c} : call'[d] = call[d]
  BY <1>1, <1>7, Records
<1>9. /\ entry' \in [Entries -> EntryType] /\ entry'[e] = x
      /\ \A f \in Entries \ {e} : entry'[f] = entry[f]
  BY <1>1, <1>2, <1>6, Records
<1>10. TypeOK'
  <2>1. scopedTick' \in Nat
    BY <1>1 DEF IInv, TypeOK
  <2> QED
    BY <1>1, <1>4, <1>8, <1>9, <2>1, Zenon DEF IInv, TypeOK, CallType, EntryType, serverVars
<1>11. MutexInv'
  <2> SUFFICES ASSUME NEW f \in Entries, NEW d \in Callers
               PROVE  entry'[f].owner = d <=> Exchanging(d)' /\ call'[d].e = f
    BY DEF MutexInv
  <2>1. entry[f].owner = d <=> Exchanging(d) /\ call[d].e = f
    BY DEF IInv, MutexInv
  <2>2. /\ d # None
        /\ Exchanging(d)' <=> Exchanging(d)
        /\ Exchanging(d) => call'[d] = call[d]
    BY <1>1, <1>7, <1>8, Records DEF Exchanging
  <2>3. CASE f # e
    BY <1>9, <2>1, <2>2, <2>3
  <2>4. CASE f = e /\ hit
    BY <1>6, <1>9, <2>1, <2>2, <2>4
  <2>5. CASE f = e /\ ~hit
    <3>1. ~(Exchanging(d) /\ call[d].e = f)
      BY <1>2, <2>5 DEF Exchanging
    <3> QED
      BY <1>6, <1>9, <2>2, <2>5, <3>1, Zenon
  <2> QED
    BY <2>3, <2>4, <2>5
<1>12. TokenInv'
  <2>1. /\ UNCHANGED <<now, floor, issued, realExpiry>> /\ issued \in Nat
        /\ floor["scoped"] <= issued
    BY <1>1, Numbers DEF serverVars, IInv, TokenInv
  <2>2. \A f \in Entries :
          /\ entry'[f].token <= issued
          /\ entry'[f].token # 0 => entry'[f].expiry <= realExpiry[entry'[f].token]
    BY <1>2, <1>6, <1>9, <2>1 DEF IInv, TokenInv
  <2>3. q.token <= issued
    BY <1>7, <2>1
  <2> QED
    BY <1>7, <1>8, <2>1, <2>2, <2>3 DEF IInv, TokenInv
<1>13. FreshInv'
  <2>1. \A f \in Entries : InUse(f)' => InUse(f) \/ f = e
    BY <1>2, <1>4, EntriesAre, ServiceTokensAssumption DEF InUse
  <2>2. (\A f \in Entries : Dropped(f)' = Dropped(f)) /\ Dropped(e) = floor["scoped"]
    BY <1>1, <1>2 DEF Dropped
  <2>3. \A d \in Callers : call'[d].pc = "answered" => call'[d] = call[d] /\ d # c
    BY <1>7, <1>8
  <2>4. ASSUME NEW f \in Entries, InUse(f)'
        PROVE  /\ entry'[f].token = 0 \/ entry'[f].token > Dropped(f)
               /\ \A d \in Callers :
                    call'[d].pc = "answered" /\ call'[d].e = f => call'[d].token > Dropped(f)
    <3>1. CASE f # e
      BY <1>9, <2>1, <2>3, <2>4, <3>1 DEF IInv, FreshInv
    <3>2. CASE f = e /\ hit
      <4>1. InUse(e)
        BY <1>2, <3>2 DEF InUse
      <4> QED
        BY <1>2, <1>6, <1>9, <2>3, <3>2, <4>1 DEF IInv, FreshInv
    <3>3. CASE f = e /\ ~hit
      BY <1>2, <1>6, <1>9, <2>3, <3>3
    <3> QED
      BY <3>1, <3>2, <3>3
  <2>5. ASSUME NEW d \in Callers, Waiting(d)'
        PROVE  /\ entry'[call'[d].e].token = 0 \/ entry'[call'[d].e].token > call'[d].floor
               /\ \A f \in Callers :
                    call'[f].pc = "answered" /\ call'[f].e = call'[d].e =>
                      call'[f].token > call'[d].floor
    <3>1. CASE d = c
      <4>1. \A f \in Entries : f = e => InUse(f)'
        BY <1>4 DEF InUse
      <4>2. \A f \in Entries : f = e =>
              /\ entry'[f].token = 0 \/ entry'[f].token > Dropped(f)
              /\ \A g \in Callers :
                   call'[g].pc = "answered" /\ call'[g].e = f => call'[g].token > Dropped(f)
        BY <2>4, <4>1, Zenon
      <4> QED
        BY <1>2, <1>7, <1>8, <2>2, <3>1, <4>2
    <3>2. CASE d # c
      <4>1. Waiting(d) /\ call'[d] = call[d] /\ call[d].e \in Entries /\ call[d].pc # "idle"
        BY <1>8, <2>5, <3>2, Fields, Zenon DEF Waiting, CallType
      <4>2. entry'[call[d].e].token = entry[call[d].e].token
        BY <1>2, <1>6, <1>9, <4>1
      <4> QED
        BY <2>3, <4>1, <4>2 DEF IInv, FreshInv
    <3> QED
      BY <3>1, <3>2
  <2>6. InvalidationIsEffective'
    BY <1>7, <1>8 DEF IInv, FreshInv, InvalidationIsEffective
  <2> QED
    BY <2>2, <2>4, <2>5, <2>6, Zenon DEF FreshInv
<1> QED
  BY <1>5, <1>10, <1>11, <1>12, <1>13, Zenon DEF IInv

----------------------------------------------------------------------------
\* The scope-less token is dropped under its mutex: no exchange for it is under
\* way.
LEMMA DropDefaultStep ==
    ASSUME IInv, DropDefault
    PROVE  IInv'
<1>1. /\ entry[Default].owner = None
      /\ entry' = [entry EXCEPT ![Default] = [@ EXCEPT !.token = 0, !.expiry = 0]]
      /\ floor' = [floor EXCEPT !["unscoped"] = issued] /\ invalidate' = "scoped"
      /\ UNCHANGED <<now, scoped, scopedTick, serverVars, call>>
  BY Zenon DEF DropDefault
<1>2. /\ entry' \in [Entries -> EntryType] /\ Default \in Entries
      /\ entry'[Default].token = 0 /\ entry'[Default].owner = None
      /\ \A f \in Entries \ {Default} : entry'[f] = entry[f]
  BY <1>1, Records, Zenon DEF EntryType
<1>3. /\ floor' \in [{"unscoped", "scoped"} -> Nat]
      /\ floor'["unscoped"] = issued /\ floor'["scoped"] = floor["scoped"]
  BY <1>1, ScopedType DEF IInv, TypeOK
<1>4. \A d \in Callers : ~(Exchanging(d) /\ call[d].e = Default)
  BY <1>1, <1>2, Records DEF IInv, MutexInv
<1>5. TypeOK'
  BY <1>1, <1>2, <1>3, Zenon DEF IInv, TypeOK, CallType, EntryType, serverVars
<1>6. MutexInv'
  <2>1. \A f \in Entries : entry'[f].owner = entry[f].owner
    BY <1>1, <1>2
  <2>2. UNCHANGED call
    BY <1>1
  <2> QED
    BY <2>1, <2>2 DEF IInv, MutexInv, Exchanging
<1>7. MapInv'
  BY <1>1 DEF IInv, MapInv, Cached
<1>8. TokenInv'
  <2>1. UNCHANGED <<now, call, issued, realExpiry>> /\ issued \in Nat
    BY <1>1, Numbers DEF serverVars
  <2>2. \A f \in Entries :
          /\ entry'[f].token <= issued
          /\ entry'[f].token # 0 => entry'[f].expiry <= realExpiry[entry'[f].token]
    BY <1>2, <2>1 DEF IInv, TokenInv
  <2> QED
    BY <1>3, <2>1, <2>2 DEF IInv, TokenInv
<1>9. FreshInv'
  <2>1. UNCHANGED <<scoped, call>>
    BY <1>1
  <2>2. \A f \in Entries : f # Default => Dropped(f)' = Dropped(f)
    BY <1>3 DEF Dropped
  <2>3. \A f \in Entries : InUse(f)' =>
          /\ entry'[f].token = 0 \/ entry'[f].token > Dropped(f)'
          /\ \A d \in Callers :
               call[d].pc = "answered" /\ call[d].e = f => call[d].token > Dropped(f)'
    <3>1. \A f \in Entries : InUse(f)' <=> InUse(f)
      BY <2>1 DEF InUse
    <3>2. \A d \in Callers : ~(call[d].pc = "answered" /\ call[d].e = Default)
      BY <1>4 DEF Exchanging
    <3> QED
      BY <1>2, <2>2, <3>1, <3>2 DEF IInv, FreshInv
  <2>4. \A d \in Callers : call[d].e \in Entries
    BY Fields DEF CallType
  <2>5. \A d \in Callers : Waiting(d) =>
          entry'[call[d].e].token = 0 \/ entry'[call[d].e].token > call[d].floor
    BY <1>2, <2>4 DEF IInv, FreshInv
  <2> QED
    BY <2>1, <2>3, <2>5 DEF IInv, FreshInv, Waiting, InvalidationIsEffective
<1> QED
  BY <1>5, <1>6, <1>7, <1>8, <1>9, Zenon DEF IInv

\* The scoped entries leave the map, whoever holds them.
LEMMA DropScopedStep ==
    ASSUME IInv, DropScoped
    PROVE  IInv'
<1>1. /\ scoped' = [s \in Scopes |-> None] /\ invalidate' = "idle"
      /\ floor' = [floor EXCEPT !["scoped"] = issued]
      /\ UNCHANGED <<now, entry, scopedTick, serverVars, call>>
  BY DEF DropScoped
<1>2. /\ floor' \in [{"unscoped", "scoped"} -> Nat]
      /\ floor'["scoped"] = issued /\ floor'["unscoped"] = floor["unscoped"]
  BY <1>1, ScopedType DEF IInv, TypeOK
<1>3. TypeOK'
  BY <1>1, <1>2 DEF IInv, TypeOK, serverVars
<1>4. MutexInv'
  BY <1>1 DEF IInv, MutexInv, Exchanging
<1>5. MapInv'
  <2>1. Cached' = {}
    BY <1>1 DEF Cached
  <2> QED
    BY <1>1, <2>1, ServiceTokensAssumption, FS_EmptySet DEF MapInv, Default
<1>6. TokenInv'
  BY <1>1, <1>2, ScopedType DEF IInv, TokenInv, serverVars
<1>7. FreshInv'
  <2>1. UNCHANGED <<entry, call>>
    BY <1>1
  <2>2. \A f \in Entries : InUse(f)' => f = Default
    BY <1>1, EntriesAre, ServiceTokensAssumption DEF InUse
  <2>3. Dropped(Default)' = Dropped(Default) /\ InUse(Default) /\ Default \in Entries
    BY <1>2, EntriesAre DEF Dropped, InUse
  <2> QED
    BY <2>1, <2>2, <2>3 DEF IInv, FreshInv, Waiting, InvalidationIsEffective
<1> QED
  BY <1>3, <1>4, <1>5, <1>6, <1>7, Zenon DEF IInv

LEMMA TickStep ==
    ASSUME IInv, Tick \/ UNCHANGED vars
    PROVE  IInv'
<1>1. /\ now' \in Nat /\ now' >= now
      /\ UNCHANGED <<entry, scoped, scopedTick, serverVars, call, invalidate, floor>>
  <2>1. CASE Tick
    BY <2>1, Numbers DEF Tick
  <2>2. CASE UNCHANGED vars
    <3>1. now' = now /\ now >= now
      BY <2>2, Numbers DEF vars
    <3> QED
      BY <2>2, <3>1, Numbers, Zenon DEF vars, serverVars
  <2> QED
    BY <2>1, <2>2
<1>2. TypeOK'
  BY <1>1 DEF IInv, TypeOK, serverVars
<1>3. MutexInv' /\ MapInv'
  BY <1>1 DEF IInv, MutexInv, Exchanging, MapInv, Cached
<1>4. TokenInv'
  <2>1. \A c \in Callers : call[c].sent \in Nat
    BY Fields DEF CallType
  <2>2. \A c \in Callers : call[c].pc = "sent" => call[c].sent <= now'
    BY <1>1, <2>1, Numbers DEF IInv, TokenInv
  <2> QED
    BY <1>1, <2>2 DEF IInv, TokenInv, serverVars
<1>5. FreshInv'
  BY <1>1 DEF IInv, FreshInv, InUse, Dropped, Waiting, InvalidationIsEffective
<1> QED
  BY <1>2, <1>3, <1>4, <1>5, Zenon DEF IInv

LEMMA Inductive == IInv /\ [Next]_vars => IInv'
<1> SUFFICES ASSUME IInv, [Next]_vars PROVE IInv'
  OBVIOUS
<1>1. ASSUME NEW c \in Callers,
             \/ ServiceToken(c) \/ Lock(c) \/ Issue(c) \/ Store(c)
             \/ ExchangeFails(c) \/ Done(c)
             \/ \E s \in Scopes : ServiceTokenWithScopes(c, s)
      PROVE  IInv'
  BY <1>1, ServiceTokenStep, LockStep, IssueStep, StoreStep, FailStep, DoneStep,
     ScopedStep, Zenon
<1>2. CASE DropDefault \/ DropScoped \/ Tick \/ UNCHANGED vars
  BY <1>2, DropDefaultStep, DropScopedStep, TickStep
<1> QED
  BY <1>1, <1>2, Zenon DEF Next

----------------------------------------------------------------------------
\* The inductive invariant.
THEOREM TokenInvariance == Spec => []IInv
BY Initially, Inductive, PTL DEF Spec

\* After InvalidateServiceToken a call returns a token that was issued later,
\* whatever exchange, eviction or other call was under way.
THEOREM TokenInvalidation == Spec => []InvalidationIsEffective
<1>1. IInv => InvalidationIsEffective
  BY DEF IInv, FreshInv
<1> QED
  BY <1>1, TokenInvariance, PTL

\* No token is believed to live longer than it does (tokenExpiry).
THEOREM TokenExpiry == Spec => []ExpiryNotOverstated
<1>1. IInv => ExpiryNotOverstated
  BY DEF IInv, TokenInv, ExpiryNotOverstated
<1> QED
  BY <1>1, TokenInvariance, PTL

\* A mutex is held exactly by the caller in an exchange for its entry, and no
\* more than MaxScoped scope sets are cached (the deferred unlocks, scopedEntry).
THEOREM TokenCacheConsistent == Spec => []Consistent
<1>1. IInv => Consistent
  BY DEF IInv, MutexInv, MapInv, Exchanging, Consistent
<1> QED
  BY <1>1, TokenInvariance, PTL
=============================================================================
