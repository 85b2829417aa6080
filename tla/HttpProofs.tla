------------------------------ MODULE HttpProofs ------------------------------
(***************************************************************************)
(* Proofs about two components of an HTTP service: the rate limiters       *)
(* (KeyedRateLimiter) and the pages of a list (Pagination, as Pages).      *)
(*                                                                         *)
(* That the address tier is counted right, for any keys, requests and      *)
(* limits and evictions at any time; and that no key gets more than its    *)
(* burst and its rate allow, if an idle bucket fills up before it is       *)
(* evicted (IdleTTLFillsBucket).  The first needs only that keys and       *)
(* requests have buckets of their own (BaseInv).  For the second, each     *)
(* bucket has a budget: what its key was admitted, the tokens left and the *)
(* tokens that refused requests have yet to give back are together no more *)
(* than the burst and the rate allow (BudgetInv).  A request that is on    *)
(* its way to a bucket keeps it in the map (RequestInv), so a bucket that  *)
(* is evicted has not been drawn on for so long that its successor owes    *)
(* its burst to the time that passed.                                      *)
(*                                                                         *)
(* That the announced pages are the list: for any list that an int can     *)
(* count, any page size a client gives and any limits.  After page k of    *)
(* size t the client has the items below k * t.  The offset of a page that *)
(* is announced lies within the list, so its product does not overflow.    *)
(***************************************************************************)
EXTENDS KeyedRateLimiter, TLAPS, FiniteSetTheorems, FunctionTheorems, WellFoundedInduction

----------------------------------------------------------------------------
(* The rate limiters.                                                      *)

RequestType ==
    [pc: {"new", "found", "reserved", "done"}, key: Keys \cup {None},
     b: Buckets \cup {None}, at: Nat, out: {None, "served", "full", "limited"}]

BucketType == [tokens: Int, last: Nat, lastSeen: Nat]

\* Each key that is served has a bucket of its own.
MapInv ==
    /\ served \in {Identified \cup Addresses, Tenants}
    /\ \A k \in Keys : keys[k] # None => k \in served
    /\ \A j, k \in Keys : keys[j] = keys[k] /\ keys[k] # None => j = k

\* What a request has in its hands.
HeldInv ==
    \A r \in Requests :
        /\ req[r].pc \in {"new", "done"} => req[r].b = None
        /\ req[r].pc \in {"found", "reserved"} =>
             req[r].key \in Keys /\ req[r].b \in Buckets

\* A request on its way to a bucket finds it in the map still; one that has to
\* give a token back may not.
RequestInv ==
    \A r \in Requests :
        /\ req[r].pc = "found" =>
             /\ keys[req[r].key] = req[r].b
             /\ req[r].at <= bucket[req[r].b].lastSeen
             /\ req[r].at <= now /\ now <= req[r].at + MaxInFlight
        /\ req[r].pc = "reserved" =>
             \A k \in Keys : keys[k] = req[r].b => k = req[r].key

\* What a key earns in t ticks.
Earned(k, t) == RateOf(k) * t

\* The requests that took a token of bucket b on credit.
Owing(b) == {r \in Requests : req[r].pc = "reserved" /\ req[r].b = b}

Budget(k, b) ==
    /\ bucket[b].last <= now
    /\ admitted[k] + bucket[b].tokens + Cardinality(Owing(b))
         <= BurstOf(k) + Earned(k, bucket[b].last)
    /\ admitted[k] <= BurstOf(k) + Earned(k, bucket[b].lastSeen + MaxInFlight)

BudgetInv ==
    \A k \in Keys :
        /\ admitted[k] <= BurstOf(k) + Earned(k, now)
        /\ keys[k] = None => admitted[k] <= Earned(k, now)
        /\ keys[k] # None => Budget(k, keys[k])

\* Whatever the limits.
BaseInv == TypeOK /\ MapInv /\ HeldInv /\ AnonymousKeysCounted

\* If IdleTTLFillsBucket.
IInv == BaseInv /\ RequestInv /\ BudgetInv

----------------------------------------------------------------------------
(* Arithmetic.                                                             *)

LEMMA Products ==
    ASSUME NEW x \in Nat, NEW a \in Int, NEW b \in Int
    PROVE  /\ x * a \in Int
           /\ x * (a - b) = x * a - x * b
           /\ x * (a + b) = x * a + x * b
           /\ a <= b => x * a <= x * b
           /\ a <= 0 => x * a <= 0
  OBVIOUS

LEMMA MinOfTwo ==
    ASSUME NEW a \in Int, NEW b \in Int
    PROVE  Min({a, b}) \in Int /\ Min({a, b}) <= a /\ Min({a, b}) <= b
  BY DEF Min

LEMMA Limits ==
    /\ MaxInFlight \in Nat /\ IdleTTL \in Nat /\ MaxAnonymousKeys \in Nat
    /\ \A k \in Keys : RateOf(k) \in Nat /\ BurstOf(k) \in Nat
BY KeyedRateLimiterAssumption DEF RateOf, BurstOf

LEMMA EarnedType ==
    ASSUME NEW k \in Keys, NEW a \in Int
    PROVE  Earned(k, a) \in Int
  BY Limits, Products DEF Earned

LEMMA EarnedIs ==
    ASSUME NEW k \in Keys, NEW a \in Int, NEW b \in Int
    PROVE  /\ Earned(k, a - b) = Earned(k, a) - Earned(k, b)
           /\ Earned(k, a + b) = Earned(k, a) + Earned(k, b)
           /\ a <= b => Earned(k, a) <= Earned(k, b)
           /\ a <= 0 => Earned(k, a) <= 0
  BY Limits, Products DEF Earned

LEMMA BucketsAre ==
    /\ Buckets \subseteq Nat /\ IsFiniteSet(Buckets) /\ None \notin Buckets
    /\ Cardinality(Keys) \in Nat /\ Cardinality(Requests) \in Nat
    /\ Cardinality(Buckets) = Cardinality(Keys) + Cardinality(Requests)
<1>1. Cardinality(Keys) \in Nat /\ Cardinality(Requests) \in Nat
  BY KeyedRateLimiterAssumption, FS_CardinalityType
<1> DEFINE n == Cardinality(Keys) + Cardinality(Requests)
<1>2. n \in Nat
  BY <1>1
<1>3. IsFiniteSet(1 .. n) /\ Cardinality(1 .. n) = n
  BY <1>2, FS_Interval
<1>4. Buckets \subseteq Nat
  BY <1>2 DEF Buckets
<1> QED
  BY <1>1, <1>2, <1>3, <1>4, KeyedRateLimiterAssumption DEF Buckets

LEMMA SomeRequests ==
    ASSUME NEW S \in SUBSET Requests
    PROVE  IsFiniteSet(S) /\ Cardinality(S) \in Nat
  BY KeyedRateLimiterAssumption, FS_Subset, FS_CardinalityType

LEMMA SomeAddresses ==
    ASSUME NEW S \in SUBSET Addresses
    PROVE  IsFiniteSet(S) /\ Cardinality(S) \in Nat
<1>1. S \in SUBSET Keys
  BY DEF Keys
<1> QED
  BY <1>1, KeyedRateLimiterAssumption, FS_Subset, FS_CardinalityType

\* A bucket that is brought up to date has its burst and what it earned since.
LEMMA TokensBound ==
    ASSUME TypeOK, NEW k \in Keys, NEW b \in Buckets
    PROVE  /\ Tokens(b, k) \in Int /\ Tokens(b, k) <= BurstOf(k)
           /\ Tokens(b, k) <=
                bucket[b].tokens + Earned(k, now) - Earned(k, bucket[b].last)
<1>1. bucket[b].tokens \in Int /\ bucket[b].last \in Nat /\ now \in Nat
  BY DEF TypeOK
<1>2. RateOf(k) \in Nat /\ BurstOf(k) \in Nat
  BY Limits
<1> DEFINE earned == Earned(k, now - bucket[b].last)
<1>3. earned \in Int
  <2>1. now - bucket[b].last \in Int
    BY <1>1
  <2> QED
    BY <2>1, EarnedType
<1>4. earned = Earned(k, now) - Earned(k, bucket[b].last)
  <2>1. now \in Int /\ bucket[b].last \in Int
    BY <1>1
  <2> QED
    BY <2>1, EarnedIs, Zenon
<1>5. bucket[b].tokens + earned \in Int /\ BurstOf(k) \in Int
  BY <1>1, <1>2, <1>3
<1> HIDE DEF earned
<1>6. /\ Min({BurstOf(k), bucket[b].tokens + earned}) \in Int
      /\ Min({BurstOf(k), bucket[b].tokens + earned}) <= BurstOf(k)
      /\ Min({BurstOf(k), bucket[b].tokens + earned}) <= bucket[b].tokens + earned
  BY <1>5, MinOfTwo, Zenon
<1>7. Tokens(b, k) = Min({BurstOf(k), bucket[b].tokens + earned})
  BY DEF Tokens, earned, Earned
<1>8. Earned(k, now) \in Int /\ Earned(k, bucket[b].last) \in Int
  <2>1. now \in Int /\ bucket[b].last \in Int
    BY <1>1
  <2> QED
    BY <2>1, EarnedType, Zenon
<1> QED
  BY <1>1, <1>3, <1>4, <1>6, <1>7, <1>8

----------------------------------------------------------------------------
(* The buckets a new key can have.                                         *)

\* A set of naturals that is not empty has a least element.
LEMMA LeastNatural ==
    ASSUME NEW T \in SUBSET Nat, T # {}
    PROVE  \E x \in T : \A y \in T : x <= y
<1> DEFINE R == OpToRel(<, Nat)
<1>1. PICK x \in T : \A y \in T : ~ (<<y, x>> \in R)
  BY NatLessThanWellFounded, WFMin, Zenon
<1>2. \A y \in T : <<y, x>> \in R <=> y < x
  BY DEF OpToRel
<1>3. \A y \in T : ~ (y < x)
  BY <1>1, <1>2, Zenon
<1>4. \A y \in T : x <= y
  BY <1>3
<1> QED
  BY <1>4

\* At most |S| - 1 values are other than None, if one of S has None.
LEMMA OthersBound ==
    ASSUME NEW S, IsFiniteSet(S), NEW f, NEW x \in S, f[x] = None
    PROVE  /\ IsFiniteSet({f[y] : y \in S} \ {None})
           /\ Cardinality({f[y] : y \in S} \ {None}) \in Nat
           /\ Cardinality({f[y] : y \in S} \ {None}) <= Cardinality(S) - 1
<1> DEFINE D == S \ {x}
           T == {f[y] : y \in D}
           g == [y \in D |-> f[y]]
           W == {f[y] : y \in S} \ {None}
<1>1. IsFiniteSet(D) /\ Cardinality(D) = Cardinality(S) - 1
  BY FS_RemoveElement, Zenon
<1>2. g \in Surjection(D, T)
  BY DEF Surjection
<1>3. IsFiniteSet(T) /\ Cardinality(T) <= Cardinality(D)
  BY <1>1, <1>2, FS_Surjection
<1>4. W \in SUBSET T
  OBVIOUS
<1>5. IsFiniteSet(W) /\ Cardinality(W) <= Cardinality(T)
  BY <1>3, <1>4, FS_Subset
<1>6. Cardinality(W) \in Nat /\ Cardinality(T) \in Nat /\ Cardinality(D) \in Nat
  BY <1>1, <1>3, <1>5, FS_CardinalityType
<1> QED
  BY <1>1, <1>3, <1>5, <1>6

\* limiter makes a bucket that nobody has.
LEMMA SomeFree ==
    ASSUME BaseInv, NEW r \in Requests, req[r].pc = "new", NEW k \in Keys, keys[k] = None
    PROVE  Min(Free) \in Free
<1> DEFINE h == [d \in Requests |-> req[d].b]
           M == {keys[j] : j \in Keys} \ {None}
           H == {h[d] : d \in Requests} \ {None}
<1>1. IsFiniteSet(M) /\ Cardinality(M) \in Nat /\ Cardinality(M) <= Cardinality(Keys) - 1
  <2>1. IsFiniteSet(Keys)
    BY KeyedRateLimiterAssumption
  <2> QED
    BY <2>1, OthersBound
<1>2. /\ IsFiniteSet(H) /\ Cardinality(H) \in Nat
      /\ Cardinality(H) <= Cardinality(Requests) - 1
  <2>1. h[r] = None
    BY DEF BaseInv, HeldInv
  <2>2. IsFiniteSet(Requests)
    BY KeyedRateLimiterAssumption
  <2> HIDE DEF h
  <2> QED
    BY <2>1, <2>2, OthersBound, Zenon
<1>3. /\ IsFiniteSet(M \cup H) /\ Cardinality(M \cup H) \in Nat
      /\ Cardinality(M \cup H) <= Cardinality(M) + Cardinality(H)
  <2>1. IsFiniteSet(M \cap H)
    <3>1. M \cap H \in SUBSET M
      OBVIOUS
    <3> QED
      BY <1>1, <3>1, FS_Subset
  <2>2. Cardinality(M \cap H) \in Nat
    BY <2>1, FS_CardinalityType
  <2> HIDE DEF M, H
  <2>3. /\ IsFiniteSet(M \cup H)
        /\ Cardinality(M \cup H) =
             Cardinality(M) + Cardinality(H) - Cardinality(M \cap H)
    BY <1>1, <1>2, FS_Union, Zenon
  <2>4. Cardinality(M \cup H) \in Nat
    BY <2>3, FS_CardinalityType
  <2> QED
    BY <1>1, <1>2, <2>2, <2>3, <2>4
<1>4. Free # {}
  <2> SUFFICES ASSUME Free = {} PROVE FALSE
    OBVIOUS
  <2>1. Buckets \in SUBSET (M \cup H)
    <3>1. DOMAIN keys = Keys
      BY DEF BaseInv, TypeOK
    <3>2. \A x \in Buckets : x \in Range(keys) => x \in M
      BY <3>1, BucketsAre, Zenon DEF Range
    <3>3. \A x \in Buckets : (\E d \in Requests : x = req[d].b) => x \in H
      BY BucketsAre, Zenon
    <3> HIDE DEF M, H
    <3> QED
      BY <3>2, <3>3 DEF Free
  <2>2. Cardinality(Buckets) <= Cardinality(M \cup H)
    BY <1>3, <2>1, FS_Subset
  <2> HIDE DEF M, H
  <2> QED
    BY <1>1, <1>2, <1>3, <2>2, BucketsAre
<1>5. PICK x \in Free : \A y \in Free : x <= y
  <2>1. Free \in SUBSET Nat
    BY BucketsAre, Zenon DEF Free
  <2> QED
    BY <1>4, <2>1, LeastNatural
<1> QED
  BY <1>5, Zenon DEF Min

\* A bucket that is free is in no entry of the map and in no request's hands.
LEMMA FreeIs ==
    ASSUME TypeOK, NEW b \in Free
    PROVE  /\ b \in Buckets /\ b # None
           /\ \A j \in Keys : keys[j] # b
           /\ \A d \in Requests : req[d].b # b
<1>1. DOMAIN keys = Keys
  BY DEF TypeOK
<1> QED
  BY <1>1, BucketsAre, Zenon DEF Free, Range

----------------------------------------------------------------------------
LEMMA Initially == Init => IInv
<1> SUFFICES ASSUME Init PROVE IInv
  OBVIOUS
<1>1. TypeOK
  <2>1. served \subseteq Keys
    BY DEF Init, Keys
  <2>2. now \in Nat /\ anon \in Nat /\ stopped \in BOOLEAN
    BY Zenon DEF Init
  <2>3. keys \in [Keys -> Buckets \cup {None}]
    BY DEF Init
  <2>4. bucket \in [Buckets -> BucketType] /\ admitted \in [Keys -> Nat]
    BY DEF Init, BucketType
  <2>5. req \in [Requests -> RequestType]
    BY DEF Init, RequestType, NewRequest
  <2> QED
    BY <2>1, <2>2, <2>3, <2>4, <2>5 DEF TypeOK, RequestType, BucketType
<1>2. MapInv
  BY DEF Init, MapInv
<1>3. RequestInv /\ HeldInv
  BY DEF Init, RequestInv, HeldInv, NewRequest
<1>4. BudgetInv
  <2> SUFFICES ASSUME NEW k \in Keys
               PROVE  /\ admitted[k] <= BurstOf(k) + Earned(k, now)
                      /\ admitted[k] <= Earned(k, now)
                      /\ keys[k] = None
    BY DEF BudgetInv
  <2>1. Earned(k, now) = 0
    BY Limits DEF Init, Earned
  <2> QED
    BY <2>1, Limits DEF Init
<1>5. AnonymousKeysCounted
  <2>1. {k \in Addresses : keys[k] # None} = {}
    BY DEF Init, Keys
  <2>2. Cardinality({}) = 0
    BY FS_EmptySet
  <2>3. 0 <= MaxAnonymousKeys
    BY KeyedRateLimiterAssumption
  <2>4. anon = 0
    BY DEF Init
  <2> QED
    BY <2>1, <2>2, <2>3, <2>4 DEF AnonymousKeysCounted
<1> QED
  BY <1>1, <1>2, <1>3, <1>4, <1>5 DEF IInv, BaseInv

\* What the budget of a key that was given a bucket says of its history.
LEMMA Later ==
    ASSUME NEW k \in Keys, NEW a \in Nat, NEW s \in Nat, NEW t \in Nat, s <= t,
           a <= BurstOf(k) + Earned(k, s)
    PROVE  a <= BurstOf(k) + Earned(k, t)
<1>1. RateOf(k) \in Nat /\ BurstOf(k) \in Nat
  BY Limits
<1>2. Earned(k, s) \in Int /\ Earned(k, t) \in Int
  BY EarnedType
<1>3. Earned(k, s) <= Earned(k, t)
  BY EarnedIs
<1> QED
  BY <1>1, <1>2, <1>3

\* A bucket that was idle for IdleTTL owes its burst to the time that passed.
LEMMA IdleFills ==
    ASSUME IdleTTLFillsBucket,
           NEW k \in Keys, NEW a \in Nat, NEW s \in Nat, NEW t \in Nat, s < t - IdleTTL,
           a <= BurstOf(k) + Earned(k, s + MaxInFlight)
    PROVE  a <= Earned(k, t)
<1> DEFINE d == IdleTTL - MaxInFlight
           u == s + MaxInFlight
<1>1. RateOf(k) \in Nat /\ BurstOf(k) \in Nat /\ Earned(k, d) >= BurstOf(k)
      /\ d \in Int /\ u \in Int /\ u + d <= t /\ u + d \in Int
  BY Limits DEF IdleTTLFillsBucket, Earned
<1>2. a <= BurstOf(k) + Earned(k, u)
  OBVIOUS
<1> HIDE DEF d, u
<1>3. Earned(k, u + d) = Earned(k, u) + Earned(k, d)
  BY <1>1, EarnedIs
<1>4. Earned(k, u + d) <= Earned(k, t)
  BY <1>1, EarnedIs
<1>5. Earned(k, u) \in Int /\ Earned(k, d) \in Int /\ Earned(k, t) \in Int
  BY <1>1, EarnedType
<1> QED
  BY <1>1, <1>2, <1>3, <1>4, <1>5

----------------------------------------------------------------------------
(* The records that the actions write.                                     *)

LEMMA Ended ==
    ASSUME NEW k \in Keys, NEW o \in {"served", "full", "limited"}
    PROVE  LET e == [NewRequest EXCEPT !.pc = "done", !.key = k, !.out = o]
           IN  e \in RequestType /\ e.pc = "done" /\ e.b = None
<1>1. NewRequest \in RequestType
  BY DEF RequestType, NewRequest
<1>2. [NewRequest EXCEPT !.pc = "done", !.key = k, !.out = o] \in RequestType
  BY <1>1, Zenon DEF RequestType
<1> QED
  BY <1>2, Zenon DEF NewRequest

LEMMA RequestsTyped ==
    TypeOK <=> /\ served \subseteq Keys
               /\ now \in Nat /\ anon \in Nat /\ stopped \in BOOLEAN
               /\ keys \in [Keys -> Buckets \cup {None}]
               /\ bucket \in [Buckets -> BucketType]
               /\ req \in [Requests -> RequestType]
               /\ admitted \in [Keys -> Nat]
  BY DEF TypeOK, RequestType, BucketType

\* The budgets do not depend on the requests that owe nothing.
LEMMA BudgetsKept ==
    ASSUME BudgetInv, UNCHANGED <<keys, bucket, now, admitted>>,
           \A c : Owing(c)' = Owing(c)
    PROVE  BudgetInv'
<1> SUFFICES ASSUME NEW j \in Keys
             PROVE  /\ admitted[j] <= BurstOf(j) + Earned(j, now)
                    /\ keys[j] = None => admitted[j] <= Earned(j, now)
                    /\ keys[j] # None => Budget(j, keys[j])'
  BY DEF BudgetInv
<1>1. Owing(keys[j])' = Owing(keys[j])
  OBVIOUS
<1>2. Budget(j, keys[j])' <=> Budget(j, keys[j])
  BY <1>1 DEF Budget
<1> QED
  BY <1>2 DEF BudgetInv

----------------------------------------------------------------------------
(* Getting a bucket.                                                       *)

LEMMA HitEffect ==
    ASSUME BaseInv, NEW r \in Requests, NEW k \in served, req[r].pc = "new", Hit(r, k),
           UNCHANGED <<served, now, stopped, admitted>>
    PROVE  /\ BaseInv' /\ k \in Keys /\ keys[k] \in Buckets
           /\ keys' = keys /\ now' = now /\ admitted' = admitted
           /\ req'[r].pc = "found" /\ req'[r].key = k /\ req'[r].b = keys[k]
           /\ req'[r].at = now
           /\ \A d \in Requests \ {r} : req'[d] = req[d]
           /\ bucket'[keys[k]].lastSeen = now
           /\ bucket'[keys[k]].tokens = bucket[keys[k]].tokens
           /\ bucket'[keys[k]].last = bucket[keys[k]].last
           /\ \A c \in Buckets \ {keys[k]} : bucket'[c] = bucket[c]
<1>1. TypeOK /\ MapInv /\ HeldInv /\ AnonymousKeysCounted
  BY DEF BaseInv
<1>2. k \in Keys /\ keys[k] \in Buckets /\ now \in Nat
  BY <1>1 DEF TypeOK, Hit
<1> DEFINE b == keys[k]
<1>3. /\ bucket' = [bucket EXCEPT ![b] = [@ EXCEPT !.lastSeen = now]]
      /\ req' = [req EXCEPT ![r] = [@ EXCEPT !.pc = "found", !.key = k, !.b = b, !.at = now]]
      /\ keys' = keys /\ anon' = anon /\ served' = served /\ now' = now
      /\ stopped' = stopped /\ admitted' = admitted
  BY DEF Hit, Hold
<1>4. /\ req'[r].pc = "found" /\ req'[r].key = k /\ req'[r].b = b /\ req'[r].at = now
      /\ \A d \in Requests \ {r} : req'[d] = req[d]
  BY <1>1, <1>3 DEF TypeOK
<1>5. /\ bucket'[b].lastSeen = now /\ bucket'[b].tokens = bucket[b].tokens
      /\ bucket'[b].last = bucket[b].last
      /\ \A c \in Buckets \ {b} : bucket'[c] = bucket[c]
  BY <1>1, <1>2, <1>3 DEF TypeOK
<1>6. TypeOK'
  <2>1. req' \in [Requests -> RequestType]
    <3>1. req \in [Requests -> RequestType]
      BY <1>1, RequestsTyped
    <3>2. req[r] \in RequestType
      BY <3>1
    <3>3. [req[r] EXCEPT !.pc = "found", !.key = k, !.b = b, !.at = now] \in RequestType
      BY <1>2, <3>2, Zenon DEF RequestType
    <3> QED
      BY <1>3, <3>1, <3>3
  <2>2. bucket' \in [Buckets -> BucketType]
    BY <1>1, <1>2, <1>3 DEF TypeOK, BucketType
  <2> QED
    BY <1>1, <1>3, <2>1, <2>2 DEF TypeOK, RequestType, BucketType
<1>7. MapInv' /\ AnonymousKeysCounted'
  BY <1>1, <1>3 DEF MapInv, AnonymousKeysCounted
<1>8. HeldInv'
  BY <1>1, <1>2, <1>4 DEF HeldInv
<1> QED
  BY <1>2, <1>3, <1>4, <1>5, <1>6, <1>7, <1>8 DEF BaseInv

LEMMA HitKeeps ==
    ASSUME IInv, NEW r \in Requests, NEW k \in served, req[r].pc = "new", Hit(r, k),
           UNCHANGED <<served, now, stopped, admitted>>
    PROVE  IInv'
<1>1. TypeOK /\ HeldInv /\ RequestInv /\ BudgetInv /\ now \in Nat /\ MaxInFlight \in Nat
  BY Limits DEF IInv, BaseInv, TypeOK
<1> DEFINE b == keys[k]
<1>2. /\ BaseInv' /\ k \in Keys /\ b \in Buckets
      /\ keys' = keys /\ now' = now /\ admitted' = admitted
      /\ req'[r].pc = "found" /\ req'[r].key = k /\ req'[r].b = b /\ req'[r].at = now
      /\ \A d \in Requests \ {r} : req'[d] = req[d]
      /\ bucket'[b].lastSeen = now /\ bucket'[b].tokens = bucket[b].tokens
      /\ bucket'[b].last = bucket[b].last
      /\ \A c \in Buckets \ {b} : bucket'[c] = bucket[c]
  BY HitEffect DEF IInv
<1>3. RequestInv'
  <2>1. \A d \in Requests : req[d].at \in Nat
    BY <1>1 DEF TypeOK
  <2> SUFFICES ASSUME NEW d \in Requests
               PROVE  /\ req'[d].pc = "found" =>
                           /\ keys[req'[d].key] = req'[d].b
                           /\ req'[d].at <= bucket'[req'[d].b].lastSeen
                           /\ req'[d].at <= now /\ now <= req'[d].at + MaxInFlight
                      /\ req'[d].pc = "reserved" =>
                           \A j \in Keys : keys[j] = req'[d].b => j = req'[d].key
    BY <1>2 DEF RequestInv
  <2>2. CASE d = r
    BY <1>1, <1>2, <2>2
  <2>3. CASE d # r
    <3>1. req'[d] = req[d]
      BY <1>2, <2>3
    <3>2. req[d].pc = "found" => bucket'[req[d].b].lastSeen \in {bucket[req[d].b].lastSeen, now}
      BY <1>1, <1>2 DEF HeldInv
    <3> QED
      BY <1>1, <2>1, <3>1, <3>2 DEF RequestInv
  <2> QED
    BY <2>2, <2>3
<1>4. BudgetInv'
  <2> SUFFICES ASSUME NEW j \in Keys
               PROVE  /\ admitted[j] <= BurstOf(j) + Earned(j, now)
                      /\ keys[j] = None => admitted[j] <= Earned(j, now)
                      /\ keys[j] # None => Budget(j, keys[j])'
    BY <1>2 DEF BudgetInv
  <2>1. /\ admitted[j] <= BurstOf(j) + Earned(j, now)
        /\ keys[j] = None => admitted[j] <= Earned(j, now)
        /\ keys[j] # None => Budget(j, keys[j])
    BY <1>1 DEF BudgetInv
  <2>2. ASSUME keys[j] # None PROVE Budget(j, keys[j])'
    <3>1. Owing(keys[j])' = Owing(keys[j])
      BY <1>2 DEF Owing
    <3>2. keys[j] \in Buckets
      BY <1>1, <2>2 DEF TypeOK
    <3>3. /\ bucket'[keys[j]].last = bucket[keys[j]].last
          /\ bucket'[keys[j]].tokens = bucket[keys[j]].tokens
          /\ bucket'[keys[j]].lastSeen \in {bucket[keys[j]].lastSeen, now}
      BY <1>2, <3>2
    <3>4. admitted[j] <= BurstOf(j) + Earned(j, now + MaxInFlight)
      <4>1. now + MaxInFlight \in Nat /\ now <= now + MaxInFlight /\ admitted[j] \in Nat
        BY <1>1 DEF TypeOK
      <4> QED
        BY <1>1, <2>1, <4>1, Later
    <3> QED
      BY <1>2, <2>1, <2>2, <3>1, <3>3, <3>4 DEF Budget
  <2> QED
    BY <2>1, <2>2
<1> QED
  BY <1>2, <1>3, <1>4 DEF IInv

LEMMA CreateEffect ==
    ASSUME BaseInv, NEW r \in Requests, NEW k \in served, req[r].pc = "new", Create(r, k),
           UNCHANGED <<served, now, stopped, admitted>>
    PROVE  LET b == Min(Free) IN
           /\ BaseInv' /\ k \in Keys /\ keys[k] = None /\ b \in Buckets /\ b # None
           /\ (\A j \in Keys : keys[j] # b) /\ (\A d \in Requests : req[d].b # b)
           /\ now' = now /\ admitted' = admitted
           /\ req'[r].pc = "found" /\ req'[r].key = k /\ req'[r].b = b /\ req'[r].at = now
           /\ \A d \in Requests \ {r} : req'[d] = req[d]
           /\ bucket'[b] = NewBucket(k)
           /\ \A c \in Buckets \ {b} : bucket'[c] = bucket[c]
           /\ keys'[k] = b /\ \A j \in Keys \ {k} : keys'[j] = keys[j]
<1>1. TypeOK /\ MapInv /\ HeldInv /\ AnonymousKeysCounted
  BY DEF BaseInv
<1>2. k \in Keys /\ keys[k] = None /\ now \in Nat /\ BurstOf(k) \in Nat
  BY <1>1, Limits DEF TypeOK, Create
<1> DEFINE b == Min(Free)
<1>3. /\ keys' = [keys EXCEPT ![k] = b]
      /\ bucket' = [bucket EXCEPT ![b] = NewBucket(k)]
      /\ req' = [req EXCEPT ![r] = [@ EXCEPT !.pc = "found", !.key = k, !.b = b, !.at = now]]
      /\ anon' = IF k \in Addresses THEN anon + 1 ELSE anon
      /\ served' = served /\ now' = now /\ stopped' = stopped /\ admitted' = admitted
  BY DEF Create, Hold
<1>4. /\ b \in Buckets /\ b # None
      /\ \A j \in Keys : keys[j] # b
      /\ \A d \in Requests : req[d].b # b
  BY <1>1, <1>2, SomeFree, FreeIs
<1> HIDE DEF b
<1>5. /\ req'[r].pc = "found" /\ req'[r].key = k /\ req'[r].b = b /\ req'[r].at = now
      /\ \A d \in Requests \ {r} : req'[d] = req[d]
  BY <1>1, <1>3 DEF TypeOK
<1>6. /\ bucket'[b] = NewBucket(k)
      /\ \A c \in Buckets \ {b} : bucket'[c] = bucket[c]
      /\ keys'[k] = b /\ \A j \in Keys \ {k} : keys'[j] = keys[j]
  BY <1>1, <1>2, <1>3, <1>4 DEF TypeOK
<1>7. NewBucket(k) \in BucketType
  BY <1>2 DEF NewBucket, BucketType
<1>8. TypeOK'
  <2>1. req' \in [Requests -> RequestType]
    <3>1. req \in [Requests -> RequestType]
      BY <1>1, RequestsTyped
    <3>2. req[r] \in RequestType
      BY <3>1
    <3>3. [req[r] EXCEPT !.pc = "found", !.key = k, !.b = b, !.at = now] \in RequestType
      BY <1>2, <1>4, <3>2, Zenon DEF RequestType
    <3> QED
      BY <1>3, <3>1, <3>3
  <2>2. bucket' \in [Buckets -> BucketType]
    <3>1. bucket \in [Buckets -> BucketType]
      BY <1>1, RequestsTyped
    <3> QED
      BY <1>3, <1>7, <3>1, Zenon
  <2>3. keys' \in [Keys -> Buckets \cup {None}]
    BY <1>1, <1>3, <1>4 DEF TypeOK
  <2>4. anon' \in Nat
    BY <1>1, <1>3 DEF TypeOK
  <2> QED
    BY <1>1, <1>3, <2>1, <2>2, <2>3, <2>4 DEF TypeOK, RequestType, BucketType
<1>9. MapInv'
  BY <1>1, <1>2, <1>3, <1>4, <1>6 DEF MapInv
<1>10. HeldInv'
  BY <1>1, <1>2, <1>4, <1>5 DEF HeldInv
<1>11. AnonymousKeysCounted'
  <2> DEFINE A == {a \in Addresses : keys[a] # None}
             B == {a \in Addresses : keys'[a] # None}
  <2>1. Addresses \subseteq Keys
    BY DEF Keys
  <2>2. CASE k \in Addresses
    <3>1. B = A \cup {k} /\ k \notin A
      BY <1>2, <1>4, <1>6, <2>1, <2>2
    <3>2. IsFiniteSet(A) /\ A \in SUBSET Addresses
      BY SomeAddresses
    <3>3. Cardinality(A \cup {k}) = Cardinality(A) + 1
      BY <3>1, <3>2, FS_AddElement, Zenon
    <3>4. anon < MaxAnonymousKeys /\ anon \in Nat /\ MaxAnonymousKeys \in Nat
      <4>1. anon \in Nat /\ ~(anon >= MaxAnonymousKeys)
        BY <1>1, <2>2 DEF Create, Full, TypeOK
      <4> QED
        BY <4>1, Limits
    <3> HIDE DEF A, B
    <3>5. anon = Cardinality(A)
      BY <1>1 DEF AnonymousKeysCounted, A
    <3>6. anon' = Cardinality(B) /\ anon' <= MaxAnonymousKeys
      BY <1>3, <2>2, <3>1, <3>3, <3>4, <3>5
    <3> QED
      BY <3>6 DEF AnonymousKeysCounted, B
  <2>3. CASE k \notin Addresses
    <3>1. B = A
      BY <1>6, <2>1, <2>3
    <3> QED
      BY <1>1, <1>3, <2>3, <3>1 DEF AnonymousKeysCounted
  <2> QED
    BY <2>2, <2>3
<1>12. BaseInv'
  BY <1>8, <1>9, <1>10, <1>11 DEF BaseInv
<1> QED
  BY <1>2, <1>3, <1>4, <1>5, <1>6, <1>12 DEF b

LEMMA CreateKeeps ==
    ASSUME IInv, NEW r \in Requests, NEW k \in served, req[r].pc = "new", Create(r, k),
           UNCHANGED <<served, now, stopped, admitted>>
    PROVE  IInv'
<1>1. TypeOK /\ HeldInv /\ RequestInv /\ BudgetInv /\ now \in Nat /\ MaxInFlight \in Nat
  BY Limits DEF IInv, BaseInv, TypeOK
<1> DEFINE b == Min(Free)
<1>2. /\ BaseInv' /\ k \in Keys /\ keys[k] = None /\ b \in Buckets /\ b # None
      /\ (\A j \in Keys : keys[j] # b) /\ (\A d \in Requests : req[d].b # b)
      /\ now' = now /\ admitted' = admitted
      /\ req'[r].pc = "found" /\ req'[r].key = k /\ req'[r].b = b /\ req'[r].at = now
      /\ \A d \in Requests \ {r} : req'[d] = req[d]
      /\ bucket'[b] = NewBucket(k)
      /\ \A c \in Buckets \ {b} : bucket'[c] = bucket[c]
      /\ keys'[k] = b /\ \A j \in Keys \ {k} : keys'[j] = keys[j]
  BY CreateEffect, Zenon DEF IInv
<1> HIDE DEF b
<1>3. /\ NewBucket(k).lastSeen = now /\ NewBucket(k).last = now
      /\ NewBucket(k).tokens = BurstOf(k)
      /\ BurstOf(k) \in Nat /\ RateOf(k) \in Nat
  BY <1>2, Limits DEF NewBucket
<1>4. RequestInv'
  <2> SUFFICES ASSUME NEW d \in Requests
               PROVE  /\ req'[d].pc = "found" =>
                           /\ keys'[req'[d].key] = req'[d].b
                           /\ req'[d].at <= bucket'[req'[d].b].lastSeen
                           /\ req'[d].at <= now /\ now <= req'[d].at + MaxInFlight
                      /\ req'[d].pc = "reserved" =>
                           \A j \in Keys : keys'[j] = req'[d].b => j = req'[d].key
    BY <1>2 DEF RequestInv
  <2>1. CASE d = r
    BY <1>1, <1>2, <1>3, <2>1
  <2>2. CASE d # r
    <3>1. req'[d] = req[d] /\ req[d].b # b
      BY <1>2, <2>2
    <3>2. req[d].pc \in {"found", "reserved"} => req[d].key \in Keys /\ req[d].b \in Buckets
      BY <1>1 DEF HeldInv
    <3>3. req[d].pc = "found" => req[d].key # k
      BY <1>1, <1>2, <3>2, BucketsAre DEF RequestInv
    <3> QED
      BY <1>1, <1>2, <3>1, <3>2, <3>3 DEF RequestInv
  <2> QED
    BY <2>1, <2>2
<1>5. BudgetInv'
  <2>1. \A c : Owing(c)' = Owing(c)
    BY <1>2 DEF Owing
  <2> SUFFICES ASSUME NEW j \in Keys
               PROVE  /\ admitted[j] <= BurstOf(j) + Earned(j, now)
                      /\ keys'[j] = None => admitted[j] <= Earned(j, now)
                      /\ keys'[j] # None => Budget(j, keys[j])'
    BY <1>2 DEF BudgetInv
  <2>2. CASE j = k
    <3>1. Owing(b) = {}
      BY <1>2 DEF Owing
    <3>2. Cardinality(Owing(b)) = 0
      BY <3>1, FS_EmptySet
    <3>3. Owing(keys[k])' = Owing(b)
      BY <1>2, <2>1 DEF Owing
    <3>4. admitted[k] \in Nat /\ admitted[k] <= Earned(k, now)
          /\ admitted[k] <= BurstOf(k) + Earned(k, now)
      BY <1>1, <1>2 DEF BudgetInv, TypeOK
    <3>5. admitted[k] <= BurstOf(k) + Earned(k, now + MaxInFlight)
      <4>1. now + MaxInFlight \in Nat /\ now <= now + MaxInFlight
        BY <1>1
      <4> QED
        BY <1>1, <1>2, <3>4, <4>1, Later
    <3>6. Earned(k, now) \in Int
      <4>1. k \in Keys /\ now \in Int
        BY <1>1, <1>2
      <4> QED
        BY <4>1, EarnedType, Zenon
    <3>7. admitted[k] + BurstOf(k) + 0 <= BurstOf(k) + Earned(k, now)
      BY <1>3, <3>4, <3>6
    <3>8. Budget(k, keys[k])'
      BY <1>1, <1>2, <1>3, <3>2, <3>3, <3>5, <3>7 DEF Budget
    <3> QED
      BY <1>2, <2>2, <3>4, <3>8
  <2>3. CASE j # k
    <3>1. keys'[j] = keys[j] /\ keys[j] # b
      BY <1>2, <2>3
    <3>2. ASSUME keys[j] # None PROVE Budget(j, keys[j])' <=> Budget(j, keys[j])
      <4>1. keys[j] \in Buckets
        BY <1>1, <3>2 DEF TypeOK
      <4>2. bucket'[keys[j]] = bucket[keys[j]]
        BY <1>2, <3>1, <4>1
      <4>3. Owing(keys[j])' = Owing(keys[j])
        BY <2>1, <3>1 DEF Owing
      <4> QED
        BY <1>2, <3>1, <4>2, <4>3 DEF Budget
    <3> QED
      BY <1>1, <3>1, <3>2 DEF BudgetInv
  <2> QED
    BY <2>2, <2>3
<1> QED
  BY <1>2, <1>4, <1>5 DEF IInv

----------------------------------------------------------------------------
(* Drawing on a bucket.                                                    *)

\* A step that draws on bucket b for key k keeps every budget if it keeps this.
LEMMA BudgetsDrawn ==
    ASSUME IInv, NEW k \in Keys, NEW b \in Buckets,
           keys' = keys, now' = now,
           \A c \in Buckets \ {b} : bucket'[c] = bucket[c],
           \A c \in Buckets \ {b} : Owing(c)' = Owing(c),
           \A j \in Keys \ {k} : admitted'[j] = admitted[j],
           \A j \in Keys : keys[j] = b => j = k,
           keys[k] = b => /\ Budget(k, b)'
                          /\ admitted'[k] <= BurstOf(k) + Earned(k, now),
           keys[k] # b => admitted'[k] = admitted[k]
    PROVE  BudgetInv'
<1> SUFFICES ASSUME NEW j \in Keys
             PROVE  /\ admitted'[j] <= BurstOf(j) + Earned(j, now)
                    /\ keys[j] = None => admitted'[j] <= Earned(j, now)
                    /\ keys[j] # None => Budget(j, keys[j])'
  BY DEF BudgetInv
<1>1. TypeOK /\ BudgetInv /\ None \notin Buckets
  BY BucketsAre DEF IInv, BaseInv
<1>2. CASE keys[j] = b
  <2>1. j = k
    BY <1>2
  <2>2. Budget(j, keys[j])' <=> Budget(k, b)'
    BY <1>2, <2>1 DEF Budget, Owing
  <2> QED
    BY <1>1, <1>2, <2>1, <2>2
<1>3. CASE keys[j] # b
  <2>1. admitted'[j] = admitted[j]
    BY <1>3
  <2>2. ASSUME keys[j] # None PROVE Budget(j, keys[j])' <=> Budget(j, keys[j])
    <3>1. keys[j] \in Buckets \ {b}
      BY <1>1, <1>3, <2>2 DEF TypeOK
    <3>2. bucket'[keys[j]] = bucket[keys[j]]
      BY <3>1
    <3>3. Owing(keys[j])' = Owing(keys[j])
      BY <3>1 DEF Owing
    <3> QED
      BY <2>1, <3>2, <3>3 DEF Budget
  <2> QED
    BY <1>1, <2>1, <2>2 DEF BudgetInv
<1> QED
  BY <1>2, <1>3

\* Requests that a draw by r leaves alone: it does not touch lastSeen.
LEMMA RequestsDrawn ==
    ASSUME IInv, NEW r \in Requests, keys' = keys, now' = now,
           \A c \in Buckets : bucket'[c].lastSeen = bucket[c].lastSeen,
           \A d \in Requests \ {r} : req'[d] = req[d],
           \/ req'[r].pc = "done" /\ req'[r].b = None
           \/ /\ req'[r].pc = "reserved" /\ req[r].pc = "found"
              /\ req'[r].key = req[r].key /\ req'[r].b = req[r].b
    PROVE  RequestInv'
<1>1. MapInv /\ HeldInv /\ RequestInv /\ None \notin Buckets
  BY BucketsAre DEF IInv, BaseInv
<1> SUFFICES ASSUME NEW d \in Requests
             PROVE  /\ req'[d].pc = "found" =>
                         /\ keys[req'[d].key] = req'[d].b
                         /\ req'[d].at <= bucket'[req'[d].b].lastSeen
                         /\ req'[d].at <= now /\ now <= req'[d].at + MaxInFlight
                    /\ req'[d].pc = "reserved" =>
                         \A j \in Keys : keys[j] = req'[d].b => j = req'[d].key
  BY DEF RequestInv
<1>2. CASE d # r
  BY <1>1, <1>2 DEF RequestInv, HeldInv
<1>3. CASE d = r /\ req'[r].pc = "done"
  BY <1>3
<1>4. CASE d = r /\ req'[r].pc = "reserved"
  <2>1. req[r].pc = "found" /\ req'[r].key = req[r].key /\ req'[r].b = req[r].b
    BY <1>4
  <2>2. req[r].key \in Keys /\ req[r].b \in Buckets /\ keys[req[r].key] = req[r].b
    BY <1>1, <2>1 DEF RequestInv, HeldInv
  <2>3. \A j \in Keys : keys[j] = req[r].b => j = req[r].key
    BY <1>1, <2>2 DEF MapInv
  <2> QED
    BY <1>4, <2>1, <2>2, <2>3
<1> QED
  BY <1>2, <1>3, <1>4

\* The rest of the invariant does not depend on what was drawn.
LEMMA BaseDrawn ==
    ASSUME BaseInv, NEW r \in Requests, UNCHANGED <<served, now, keys, anon, stopped>>,
           bucket' \in [Buckets -> BucketType], req' \in [Requests -> RequestType],
           admitted' \in [Keys -> Nat],
           \A d \in Requests \ {r} : req'[d] = req[d],
           \/ req'[r].pc \in {"new", "done"} /\ req'[r].b = None
           \/ /\ req'[r].pc = "reserved" /\ req[r].pc = "found"
              /\ req'[r].key = req[r].key /\ req'[r].b = req[r].b
    PROVE  BaseInv'
<1>1. TypeOK /\ MapInv /\ HeldInv /\ AnonymousKeysCounted
  BY DEF BaseInv
<1>2. TypeOK'
  BY <1>1 DEF TypeOK, RequestType, BucketType
<1>3. MapInv' /\ AnonymousKeysCounted'
  BY <1>1 DEF MapInv, AnonymousKeysCounted
<1>4. HeldInv'
  BY <1>1 DEF HeldInv
<1> QED
  BY <1>2, <1>3, <1>4 DEF BaseInv

\* What Allow and Reserve find: the bucket is that of the key, and in budget.
LEMMA FoundIs ==
    ASSUME IInv, NEW r \in Requests, req[r].pc = "found"
    PROVE  LET b == req[r].b
               k == req[r].key
           IN  /\ k \in Keys /\ b \in Buckets /\ keys[k] = b /\ Budget(k, b)
               /\ \A j \in Keys : keys[j] = b => j = k
               /\ now \in Nat /\ now <= bucket[b].lastSeen + MaxInFlight
               /\ bucket[b].lastSeen \in Nat /\ MaxInFlight \in Nat
<1>1. TypeOK /\ MapInv /\ HeldInv /\ RequestInv /\ BudgetInv /\ None \notin Buckets
  BY BucketsAre DEF IInv, BaseInv
<1>2. /\ req[r].key \in Keys /\ req[r].b \in Buckets /\ keys[req[r].key] = req[r].b
      /\ req[r].at <= bucket[req[r].b].lastSeen /\ now <= req[r].at + MaxInFlight
  BY <1>1 DEF RequestInv, HeldInv
<1>3. Budget(req[r].key, req[r].b)
  BY <1>1, <1>2 DEF BudgetInv
<1>4. \A j \in Keys : keys[j] = req[r].b => j = req[r].key
  BY <1>1, <1>2 DEF MapInv
<1>5. now \in Nat /\ req[r].at \in Nat /\ bucket[req[r].b].lastSeen \in Nat
      /\ MaxInFlight \in Nat
  BY <1>1, <1>2, KeyedRateLimiterAssumption DEF TypeOK
<1>6. now <= bucket[req[r].b].lastSeen + MaxInFlight
  BY <1>2, <1>5
<1> QED
  BY <1>2, <1>3, <1>4, <1>5, <1>6

\* The budget of a bucket that is brought up to date.
LEMMA UpToDate ==
    ASSUME IInv, NEW k \in Keys, NEW b \in Buckets, Budget(k, b)
    PROVE  /\ Tokens(b, k) \in Int /\ admitted[k] \in Nat /\ Cardinality(Owing(b)) \in Nat
           /\ Earned(k, now) \in Int /\ BurstOf(k) \in Nat
           /\ admitted[k] + Tokens(b, k) + Cardinality(Owing(b))
                <= BurstOf(k) + Earned(k, now)
<1>1. TypeOK
  BY DEF IInv, BaseInv
<1>2. /\ Tokens(b, k) \in Int
      /\ Tokens(b, k) <=
           bucket[b].tokens + Earned(k, now) - Earned(k, bucket[b].last)
  BY <1>1, TokensBound
<1>3. RateOf(k) \in Nat /\ BurstOf(k) \in Nat
  BY Limits
<1>4. now \in Nat /\ admitted[k] \in Nat /\ bucket[b].tokens \in Int /\ bucket[b].last \in Nat
  BY <1>1 DEF TypeOK
<1>5. Earned(k, now) \in Int /\ Earned(k, bucket[b].last) \in Int
  <2>1. now \in Int /\ bucket[b].last \in Int
    BY <1>4
  <2> QED
    BY <2>1, EarnedType, Zenon
<1>6. Cardinality(Owing(b)) \in Nat
  <2>1. Owing(b) \in SUBSET Requests
    BY DEF Owing
  <2> QED
    BY <2>1, SomeRequests
<1>7. admitted[k] + bucket[b].tokens + Cardinality(Owing(b))
        <= BurstOf(k) + Earned(k, bucket[b].last)
  BY DEF Budget
<1> QED
  BY <1>2, <1>3, <1>4, <1>5, <1>6, <1>7

\* What a draw does to the buckets, what an answer does to the requests.
Drawn(b, n) ==
    /\ bucket'[b].tokens = n /\ bucket'[b].last = now
    /\ \A c \in Buckets : bucket'[c].lastSeen = bucket[c].lastSeen
    /\ \A c \in Buckets \ {b} : bucket'[c] = bucket[c]

Answered(r) ==
    /\ req'[r].pc = "done" /\ req'[r].b = None
    /\ \A d \in Requests \ {r} : req'[d] = req[d]

Owes(r, k, b) ==
    /\ req'[r].pc = "reserved" /\ req'[r].b = b /\ req'[r].key = k
    /\ \A d \in Requests \ {r} : req'[d] = req[d]

\* Allow or Reserve with a token, Reserve without one.
Admits(r, k, b, n) ==
    /\ req[r].pc = "found" /\ req[r].key = k /\ req[r].b = b /\ n = Tokens(b, k) - 1
    /\ bucket' = [bucket EXCEPT ![b] = [@ EXCEPT !.tokens = n, !.last = now]]
    /\ admitted' = [admitted EXCEPT ![k] = @ + 1]
    /\ req' = [req EXCEPT ![r] = [NewRequest EXCEPT !.pc = "done", !.key = k,
                                                   !.out = "served"]]
    /\ UNCHANGED <<served, now, keys, anon, stopped>>

Credits(r, k, b, n) ==
    /\ req[r].pc = "found" /\ req[r].key = k /\ req[r].b = b /\ n = Tokens(b, k) - 1
    /\ bucket' = [bucket EXCEPT ![b] = [@ EXCEPT !.tokens = n, !.last = now]]
    /\ req' = [req EXCEPT ![r] = [@ EXCEPT !.pc = "reserved"]]
    /\ UNCHANGED <<served, now, keys, anon, stopped, admitted>>

\* The bucket of a draw, brought up to date with n tokens.
LEMMA BucketDrawn ==
    ASSUME TypeOK, NEW b \in Buckets, NEW n \in Int,
           bucket' = [bucket EXCEPT ![b] = [@ EXCEPT !.tokens = n, !.last = now]]
    PROVE  bucket' \in [Buckets -> BucketType] /\ Drawn(b, n)
<1>1. bucket \in [Buckets -> BucketType] /\ now \in Nat
  BY RequestsTyped
<1>2. bucket[b] \in BucketType
  BY <1>1
<1>3. [bucket[b] EXCEPT !.tokens = n, !.last = now] \in BucketType
  BY <1>1, <1>2, Zenon DEF BucketType
<1>4. bucket' \in [Buckets -> BucketType]
  BY <1>1, <1>3, Zenon
<1>5. bucket'[b] = [bucket[b] EXCEPT !.tokens = n, !.last = now]
  BY <1>1
<1>6. bucket'[b].tokens = n /\ bucket'[b].last = now
      /\ bucket'[b].lastSeen = bucket[b].lastSeen
  BY <1>2, <1>5, Zenon DEF BucketType
<1>7. \A c \in Buckets \ {b} : bucket'[c] = bucket[c]
  BY <1>1
<1> QED
  BY <1>4, <1>6, <1>7 DEF Drawn

\* A request that gets its answer.
LEMMA Finished ==
    ASSUME TypeOK, NEW r \in Requests, NEW k \in Keys, NEW o \in {"served", "full", "limited"},
           req' = [req EXCEPT ![r] = [NewRequest EXCEPT !.pc = "done", !.key = k, !.out = o]]
    PROVE  req' \in [Requests -> RequestType] /\ Answered(r)
<1> DEFINE e == [NewRequest EXCEPT !.pc = "done", !.key = k, !.out = o]
<1>1. e \in RequestType /\ e.pc = "done" /\ e.b = None
  BY Ended, Zenon
<1>2. req \in [Requests -> RequestType] /\ req' = [req EXCEPT ![r] = e]
  BY RequestsTyped
<1> HIDE DEF e
<1> QED
  BY <1>1, <1>2, Zenon DEF Answered

\* A request that found a token.
LEMMA AdmitsEffect ==
    ASSUME BaseInv, NEW r \in Requests, NEW k, NEW b, NEW n, Admits(r, k, b, n)
    PROVE  /\ BaseInv' /\ Drawn(b, n) /\ Answered(r)
           /\ admitted'[k] = admitted[k] + 1
           /\ \A j \in Keys \ {k} : admitted'[j] = admitted[j]
<1>1. TypeOK /\ HeldInv
  BY DEF BaseInv
<1>2. k \in Keys /\ b \in Buckets
  BY <1>1 DEF HeldInv, Admits
<1>3. n \in Int
  BY <1>1, <1>2, TokensBound DEF Admits
<1>4. bucket' \in [Buckets -> BucketType] /\ Drawn(b, n)
  BY <1>1, <1>2, <1>3, BucketDrawn, Zenon DEF Admits
<1>5. req' \in [Requests -> RequestType] /\ Answered(r)
  BY <1>1, <1>2, Finished, Zenon DEF Admits
<1>6. /\ admitted' \in [Keys -> Nat] /\ admitted'[k] = admitted[k] + 1
      /\ \A j \in Keys \ {k} : admitted'[j] = admitted[j]
  BY <1>1, <1>2 DEF TypeOK, Admits
<1>7. BaseInv'
  BY <1>4, <1>5, <1>6, BaseDrawn DEF Admits, Answered
<1> QED
  BY <1>4, <1>5, <1>6, <1>7

LEMMA AdmitsKeeps ==
    ASSUME IInv, NEW r \in Requests, NEW k, NEW b, NEW n, Admits(r, k, b, n), n >= 0
    PROVE  IInv'
<1>1. /\ k \in Keys /\ b \in Buckets /\ keys[k] = b /\ Budget(k, b)
      /\ \A j \in Keys : keys[j] = b => j = k
      /\ now \in Nat /\ now <= bucket[b].lastSeen + MaxInFlight
      /\ bucket[b].lastSeen \in Nat /\ MaxInFlight \in Nat
  BY FoundIs DEF Admits
<1>2. /\ BaseInv' /\ Drawn(b, n) /\ Answered(r)
      /\ admitted'[k] = admitted[k] + 1
      /\ \A j \in Keys \ {k} : admitted'[j] = admitted[j]
  BY AdmitsEffect, Zenon DEF IInv
<1>3. keys' = keys /\ now' = now
  BY DEF Admits
<1>4. /\ n \in Int /\ admitted[k] \in Nat /\ Cardinality(Owing(b)) \in Nat
      /\ Earned(k, now) \in Int /\ BurstOf(k) \in Nat
      /\ admitted[k] + n + 1 + Cardinality(Owing(b)) <= BurstOf(k) + Earned(k, now)
  <2>1. /\ Tokens(b, k) \in Int /\ admitted[k] \in Nat /\ Cardinality(Owing(b)) \in Nat
        /\ Earned(k, now) \in Int /\ BurstOf(k) \in Nat
        /\ admitted[k] + Tokens(b, k) + Cardinality(Owing(b))
             <= BurstOf(k) + Earned(k, now)
    BY <1>1, UpToDate, Zenon
  <2>2. n = Tokens(b, k) - 1
    BY DEF Admits
  <2> QED
    BY <2>1, <2>2
<1>5. RequestInv'
  BY <1>2, <1>3, RequestsDrawn DEF Drawn, Answered
<1>6. \A c : Owing(c)' = Owing(c)
  BY <1>2 DEF Owing, Answered, Admits
<1>7. admitted'[k] <= BurstOf(k) + Earned(k, now)
  <2>1. admitted'[k] = admitted[k] + 1
    BY <1>2, <1>4
  <2>2. 0 <= n
    BY <1>4
  <2> QED
    BY <1>4, <2>1, <2>2
<1>8. admitted'[k] <= BurstOf(k) + Earned(k, bucket[b].lastSeen + MaxInFlight)
  <2>1. admitted'[k] = admitted[k] + 1
    BY <1>2
  <2>2. admitted'[k] \in Nat
    BY <1>4, <2>1
  <2>3. bucket[b].lastSeen + MaxInFlight \in Nat
    BY <1>1
  <2> QED
    BY <1>1, <1>7, <2>2, <2>3, Later
<1>9. Budget(k, b)'
  <2>1. admitted'[k] = admitted[k] + 1
    BY <1>2
  <2>2. admitted'[k] + n + Cardinality(Owing(b)) <= BurstOf(k) + Earned(k, now)
    BY <1>4, <2>1
  <2>3. /\ bucket'[b].tokens = n /\ bucket'[b].last = now
        /\ bucket'[b].lastSeen = bucket[b].lastSeen
    BY <1>1, <1>2, Zenon DEF Drawn
  <2>4. now <= now /\ Owing(b)' = Owing(b)
    BY <1>1, <1>6
  <2> QED
    BY <1>3, <1>8, <2>2, <2>3, <2>4, Zenon DEF Budget
<1>10. BudgetInv'
  BY <1>1, <1>2, <1>3, <1>6, <1>7, <1>9, BudgetsDrawn DEF Drawn
<1> QED
  BY <1>2, <1>5, <1>10 DEF IInv

\* A request that found no token, and takes one on credit.
LEMMA CreditsEffect ==
    ASSUME BaseInv, NEW r \in Requests, NEW k, NEW b, NEW n, Credits(r, k, b, n)
    PROVE  BaseInv' /\ Drawn(b, n) /\ Owes(r, k, b)
<1>1. TypeOK /\ HeldInv
  BY DEF BaseInv
<1>2. k \in Keys /\ b \in Buckets
  BY <1>1 DEF HeldInv, Credits
<1>3. n \in Int
  BY <1>1, <1>2, TokensBound DEF Credits
<1>4. bucket' \in [Buckets -> BucketType] /\ Drawn(b, n)
  BY <1>1, <1>2, <1>3, BucketDrawn, Zenon DEF Credits
<1>5. req' \in [Requests -> RequestType] /\ Owes(r, k, b)
  <2>1. req \in [Requests -> RequestType] /\ req[r] \in RequestType
    BY <1>1, RequestsTyped
  <2>2. [req[r] EXCEPT !.pc = "reserved"] \in RequestType
    BY <2>1, Zenon DEF RequestType
  <2>3. req' \in [Requests -> RequestType]
    BY <2>1, <2>2, Zenon DEF Credits
  <2>4. req'[r] = [req[r] EXCEPT !.pc = "reserved"]
        /\ \A d \in Requests \ {r} : req'[d] = req[d]
    BY <2>1 DEF Credits
  <2>5. req'[r].pc = "reserved" /\ req'[r].b = b /\ req'[r].key = k
    BY <2>1, <2>4 DEF RequestType, Credits
  <2> QED
    BY <2>3, <2>4, <2>5 DEF Owes
<1>6. admitted' \in [Keys -> Nat]
  BY <1>1 DEF TypeOK, Credits
<1>7. BaseInv'
  BY <1>4, <1>5, <1>6, BaseDrawn DEF Credits, Owes
<1> QED
  BY <1>4, <1>5, <1>7

LEMMA CreditsKeeps ==
    ASSUME IInv, NEW r \in Requests, NEW k, NEW b, NEW n, Credits(r, k, b, n)
    PROVE  IInv'
<1>1. k \in Keys /\ b \in Buckets /\ keys[k] = b /\ Budget(k, b) /\ now \in Nat
      /\ \A j \in Keys : keys[j] = b => j = k
  BY FoundIs DEF Credits
<1>2. BaseInv' /\ Drawn(b, n) /\ Owes(r, k, b)
  BY CreditsEffect, Zenon DEF IInv
<1>3. keys' = keys /\ now' = now /\ admitted' = admitted
  BY DEF Credits
<1>4. /\ n \in Int /\ admitted[k] \in Nat /\ Cardinality(Owing(b)) \in Nat
      /\ Earned(k, now) \in Int /\ BurstOf(k) \in Nat
      /\ admitted[k] + n + (Cardinality(Owing(b)) + 1) <= BurstOf(k) + Earned(k, now)
  <2>1. /\ Tokens(b, k) \in Int /\ admitted[k] \in Nat /\ Cardinality(Owing(b)) \in Nat
        /\ Earned(k, now) \in Int /\ BurstOf(k) \in Nat
        /\ admitted[k] + Tokens(b, k) + Cardinality(Owing(b))
             <= BurstOf(k) + Earned(k, now)
    BY <1>1, UpToDate, Zenon
  <2>2. n = Tokens(b, k) - 1
    BY DEF Credits
  <2> QED
    BY <2>1, <2>2
<1>5. RequestInv'
  BY <1>2, <1>3, RequestsDrawn DEF Drawn, Owes, Credits
<1>6. \A c \in Buckets \ {b} : Owing(c)' = Owing(c)
  BY <1>2 DEF Owing, Owes, Credits
<1>7. Cardinality(Owing(b)') = Cardinality(Owing(b)) + 1
  <2>1. Owing(b)' = Owing(b) \cup {r} /\ r \notin Owing(b)
    BY <1>2 DEF Owing, Owes, Credits
  <2>2. Owing(b) \in SUBSET Requests
    BY DEF Owing
  <2>3. IsFiniteSet(Owing(b))
    BY <2>2, SomeRequests
  <2> QED
    BY <2>1, <2>3, FS_AddElement, Zenon
<1>8. Budget(k, b)'
  <2>1. admitted[k] <= BurstOf(k) + Earned(k, bucket[b].lastSeen + MaxInFlight)
    BY <1>1 DEF Budget
  <2> QED
    BY <1>1, <1>2, <1>3, <1>4, <1>7, <2>1 DEF Budget, Drawn
<1>9. admitted'[k] <= BurstOf(k) + Earned(k, now)
  BY <1>1, <1>3 DEF IInv, BudgetInv
<1>10. BudgetInv'
  BY <1>1, <1>2, <1>3, <1>6, <1>8, <1>9, BudgetsDrawn DEF Drawn
<1> QED
  BY <1>2, <1>5, <1>10 DEF IInv

\* A request that gets its answer, or comes to an end, without a token.
Leaves(r, q) ==
    /\ req[r].pc # "reserved" /\ q.pc \in {"new", "done"} /\ q.b = None
    /\ req' = [req EXCEPT ![r] = q]
    /\ UNCHANGED <<served, now, keys, bucket, anon, stopped, admitted>>

LEMMA LeavesEffect ==
    ASSUME BaseInv, NEW r \in Requests, NEW q \in RequestType, Leaves(r, q)
    PROVE  BaseInv' /\ req'[r] = q /\ \A d \in Requests \ {r} : req'[d] = req[d]
<1>1. TypeOK
  BY DEF BaseInv
<1>2. req \in [Requests -> RequestType] /\ bucket \in [Buckets -> BucketType]
      /\ admitted \in [Keys -> Nat]
  BY <1>1, RequestsTyped
<1>3. req' \in [Requests -> RequestType] /\ req'[r] = q
      /\ \A d \in Requests \ {r} : req'[d] = req[d]
  BY <1>2 DEF Leaves
<1>4. BaseInv'
  BY <1>2, <1>3, BaseDrawn DEF Leaves
<1> QED
  BY <1>3, <1>4

LEMMA LeavesKeeps ==
    ASSUME IInv, NEW r \in Requests, NEW q \in RequestType, Leaves(r, q)
    PROVE  IInv'
<1>1. RequestInv /\ BudgetInv
  BY DEF IInv
<1>2. BaseInv' /\ req'[r] = q /\ \A d \in Requests \ {r} : req'[d] = req[d]
  BY LeavesEffect, Zenon DEF IInv
<1>3. RequestInv'
  BY <1>1, <1>2 DEF RequestInv, Leaves
<1>4. \A c : Owing(c)' = Owing(c)
  BY <1>2 DEF Owing, Leaves
<1>5. BudgetInv'
  BY <1>1, <1>4, BudgetsKept DEF Leaves
<1> QED
  BY <1>2, <1>3, <1>5 DEF IInv

\* A request that gives its credit back, or is too late to.
Returns(r, k, b, n) ==
    /\ req[r].pc = "reserved" /\ req[r].key = k /\ req[r].b = b
    /\ n \in Int /\ n <= Tokens(b, k) + 1
    /\ bucket' = [bucket EXCEPT ![b] = [@ EXCEPT !.tokens = n, !.last = now]]
    /\ req' = [req EXCEPT ![r] = [NewRequest EXCEPT !.pc = "done", !.key = k,
                                                   !.out = "limited"]]
    /\ UNCHANGED <<served, now, keys, anon, stopped, admitted>>

LEMMA CancelReturns ==
    ASSUME BaseInv, NEW r \in Requests, Cancel(r)
    PROVE  \E k \in Keys, b \in Buckets, n \in Int : Returns(r, k, b, n)
<1>1. TypeOK /\ HeldInv /\ req[r].pc = "reserved"
  BY DEF BaseInv, Cancel
<1>2. PICK k \in Keys, b \in Buckets : req[r].key = k /\ req[r].b = b
  BY <1>1 DEF HeldInv
<1>3. PICK back \in {0, 1} :
        bucket' = [bucket EXCEPT ![b] = [@ EXCEPT !.last = now,
                     !.tokens = Min({BurstOf(k), Tokens(b, k) + back})]]
  BY <1>2, Zenon DEF Cancel
<1>4. Tokens(b, k) \in Int /\ BurstOf(k) \in Nat
  BY <1>1, TokensBound, Limits
<1> DEFINE m == Min({BurstOf(k), Tokens(b, k) + back})
<1>5. m \in Int /\ m <= Tokens(b, k) + 1
  <2>1. Tokens(b, k) + back \in Int /\ BurstOf(k) \in Int
        /\ Tokens(b, k) + back <= Tokens(b, k) + 1
    BY <1>4
  <2>2. m \in Int /\ m <= Tokens(b, k) + back
    BY <2>1, MinOfTwo, Zenon
  <2> HIDE DEF m
  <2> QED
    BY <1>4, <2>1, <2>2
<1>6. bucket' = [bucket EXCEPT ![b] = [@ EXCEPT !.tokens = m, !.last = now]]
  <2>1. bucket \in [Buckets -> BucketType] /\ bucket[b] \in BucketType
    BY <1>1, RequestsTyped
  <2>2. bucket' = [bucket EXCEPT ![b] = [bucket[b] EXCEPT !.last = now, !.tokens = m]]
    BY <1>3, <2>1
  <2> HIDE DEF m
  <2>3. [bucket[b] EXCEPT !.last = now, !.tokens = m] =
          [bucket[b] EXCEPT !.tokens = m, !.last = now]
    BY <2>1, Zenon DEF BucketType
  <2> QED
    BY <2>1, <2>2, <2>3, Zenon
<1> HIDE DEF m
<1>7. Returns(r, k, b, m)
  BY <1>1, <1>2, <1>5, <1>6, Zenon DEF Cancel, Returns
<1> QED
  BY <1>5, <1>7

LEMMA ReturnsEffect ==
    ASSUME BaseInv, NEW r \in Requests, NEW k \in Keys, NEW b \in Buckets, NEW n \in Int,
           Returns(r, k, b, n)
    PROVE  BaseInv' /\ Drawn(b, n) /\ Answered(r)
<1>1. TypeOK
  BY DEF BaseInv
<1>2. bucket' \in [Buckets -> BucketType] /\ Drawn(b, n)
  BY <1>1, BucketDrawn, Zenon DEF Returns
<1>3. req' \in [Requests -> RequestType] /\ Answered(r)
  BY <1>1, Finished, Zenon DEF Returns
<1>4. admitted' \in [Keys -> Nat]
  BY <1>1 DEF TypeOK, Returns
<1>5. BaseInv'
  BY <1>2, <1>3, <1>4, BaseDrawn DEF Returns, Answered
<1> QED
  BY <1>2, <1>3, <1>5

LEMMA ReturnsKeeps ==
    ASSUME IInv, NEW r \in Requests, NEW k \in Keys, NEW b \in Buckets, NEW n \in Int,
           Returns(r, k, b, n)
    PROVE  IInv'
<1>1. TypeOK /\ RequestInv /\ BudgetInv
  BY DEF IInv, BaseInv
<1>2. BaseInv' /\ Drawn(b, n) /\ Answered(r)
  BY ReturnsEffect, Zenon DEF IInv
<1>3. keys' = keys /\ now' = now /\ admitted' = admitted
  BY DEF Returns
<1>4. \A j \in Keys : keys[j] = b => j = k
  BY <1>1 DEF Returns, RequestInv
<1>5. RequestInv'
  BY <1>2, <1>3, RequestsDrawn DEF Drawn, Answered
<1>6. \A c \in Buckets \ {b} : Owing(c)' = Owing(c)
  BY <1>2 DEF Owing, Answered, Returns
<1>7. Cardinality(Owing(b)') = Cardinality(Owing(b)) - 1
  <2>1. Owing(b)' = Owing(b) \ {r} /\ r \in Owing(b)
    BY <1>2, BucketsAre DEF Owing, Answered, Returns
  <2>2. Owing(b) \in SUBSET Requests
    BY DEF Owing
  <2>3. IsFiniteSet(Owing(b))
    BY <2>2, SomeRequests
  <2> QED
    BY <2>1, <2>3, FS_RemoveElement, Zenon
<1>8. ASSUME keys[k] = b PROVE Budget(k, b)'
  <2>1. Budget(k, b)
    BY <1>1, <1>8, BucketsAre DEF BudgetInv
  <2>2. /\ Tokens(b, k) \in Int /\ admitted[k] \in Nat /\ Cardinality(Owing(b)) \in Nat
        /\ Earned(k, now) \in Int /\ BurstOf(k) \in Nat
        /\ admitted[k] + Tokens(b, k) + Cardinality(Owing(b))
             <= BurstOf(k) + Earned(k, now)
    BY <2>1, UpToDate, Zenon
  <2>3. n <= Tokens(b, k) + 1
    BY DEF Returns
  <2>4. admitted[k] + n + (Cardinality(Owing(b)) - 1) <= BurstOf(k) + Earned(k, now)
    BY <2>2, <2>3
  <2>5. /\ now \in Nat
        /\ admitted[k] <= BurstOf(k) + Earned(k, bucket[b].lastSeen + MaxInFlight)
    BY <1>1, <2>1, RequestsTyped, Zenon DEF Budget
  <2>6. /\ bucket'[b].tokens = n /\ bucket'[b].last = now
        /\ bucket'[b].lastSeen = bucket[b].lastSeen /\ admitted' = admitted
    BY <1>2, <1>3, Zenon DEF Drawn
  <2> QED
    BY <1>3, <1>7, <2>4, <2>5, <2>6 DEF Budget
<1>9. BudgetInv'
  <2>1. admitted[k] <= BurstOf(k) + Earned(k, now)
    BY <1>1 DEF BudgetInv
  <2> QED
    BY <1>2, <1>3, <1>4, <1>6, <1>8, <2>1, BudgetsDrawn DEF Drawn
<1> QED
  BY <1>2, <1>5, <1>9 DEF IInv

----------------------------------------------------------------------------
(* Evicting, and the passing of time.                                      *)

\* What both cleanup rounds do to the map.
Evicts ==
    /\ keys' = [k \in Keys |-> IF k \in Idle THEN None ELSE keys[k]]
    /\ UNCHANGED <<served, now, bucket, stopped, req, admitted>>

LEMMA EvictsEffect ==
    ASSUME BaseInv, Evicts, anon' \in Nat, AnonymousKeysCounted'
    PROVE  /\ BaseInv'
           /\ \A k \in Idle : keys'[k] = None /\ k \in Keys
           /\ \A k \in Keys \ Idle : keys'[k] = keys[k]
<1>1. TypeOK /\ MapInv /\ HeldInv
  BY DEF BaseInv
<1>2. /\ \A k \in Idle : keys'[k] = None /\ k \in Keys
      /\ \A k \in Keys \ Idle : keys'[k] = keys[k]
  BY DEF Idle, Evicts
<1>3. TypeOK'
  BY <1>1 DEF TypeOK, Evicts
<1>4. MapInv'
  BY <1>1, <1>2 DEF MapInv, Evicts
<1>5. HeldInv'
  BY <1>1 DEF HeldInv, Evicts
<1> QED
  BY <1>2, <1>3, <1>4, <1>5 DEF BaseInv

LEMMA EvictsKeeps ==
    ASSUME IdleTTLFillsBucket, IInv, Evicts, anon' \in Nat, AnonymousKeysCounted'
    PROVE  IInv'
<1>1. TypeOK /\ HeldInv /\ RequestInv /\ BudgetInv
  BY DEF IInv, BaseInv
<1>2. /\ BaseInv'
      /\ \A k \in Idle : keys'[k] = None /\ k \in Keys
      /\ \A k \in Keys \ Idle : keys'[k] = keys[k]
  BY EvictsEffect DEF IInv
<1>3. UNCHANGED <<served, now, bucket, stopped, req, admitted>>
  BY DEF Evicts
<1>4. \A d \in Requests : req[d].pc = "found" => req[d].key \notin Idle
  <2> SUFFICES ASSUME NEW d \in Requests, req[d].pc = "found" PROVE req[d].key \notin Idle
    OBVIOUS
  <2>1. /\ req[d].key \in Keys /\ keys[req[d].key] = req[d].b
        /\ now \in Nat /\ now <= bucket[req[d].b].lastSeen + MaxInFlight
        /\ bucket[req[d].b].lastSeen \in Nat
    BY FoundIs
  <2>2. MaxInFlight \in Nat /\ IdleTTL \in Nat /\ MaxInFlight < IdleTTL
    BY Limits DEF IdleTTLFillsBucket, Earned
  <2> QED
    BY <2>1, <2>2 DEF Idle
<1>5. RequestInv'
  <2>1. \A k \in Keys : keys'[k] \in {keys[k], None}
    BY <1>2
  <2>2. \A d \in Requests : req[d].pc = "found" => keys'[req[d].key] = keys[req[d].key]
    BY <1>1, <1>2, <1>4 DEF HeldInv
  <2> QED
    BY <1>1, <1>3, <2>1, <2>2, BucketsAre DEF RequestInv, HeldInv
<1>6. BudgetInv'
  <2> SUFFICES ASSUME NEW k \in Keys
               PROVE  /\ admitted[k] <= BurstOf(k) + Earned(k, now)
                      /\ keys'[k] = None => admitted[k] <= Earned(k, now)
                      /\ keys'[k] # None => Budget(k, keys[k])'
    BY <1>3 DEF BudgetInv
  <2>1. /\ admitted[k] <= BurstOf(k) + Earned(k, now)
        /\ keys[k] = None => admitted[k] <= Earned(k, now)
        /\ keys[k] # None => Budget(k, keys[k])
    BY <1>1 DEF BudgetInv
  <2>2. CASE k \in Idle
    <3>1. keys[k] \in Buckets /\ bucket[keys[k]].lastSeen < now - IdleTTL /\ keys'[k] = None
      BY <1>1, <1>2, <2>2 DEF Idle, TypeOK
    <3>2. bucket[keys[k]].lastSeen \in Nat /\ now \in Nat /\ admitted[k] \in Nat
      BY <1>1, <3>1 DEF TypeOK
    <3>3. admitted[k] <= BurstOf(k) + Earned(k, bucket[keys[k]].lastSeen + MaxInFlight)
      BY <2>1, <3>1, BucketsAre DEF Budget
    <3>4. admitted[k] <= Earned(k, now)
      BY <3>1, <3>2, <3>3, IdleFills
    <3> QED
      BY <2>1, <3>1, <3>4
  <2>3. CASE k \notin Idle
    <3>1. keys'[k] = keys[k]
      BY <1>2, <2>3
    <3>2. Budget(k, keys[k])' <=> Budget(k, keys[k])
      BY <1>3, <3>1, Zenon DEF Budget, Owing
    <3> QED
      BY <2>1, <3>1, <3>2
  <2> QED
    BY <2>2, <2>3
<1> QED
  BY <1>2, <1>5, <1>6 DEF IInv

LEMMA EvictIdleCounts ==
    ASSUME BaseInv, evictIdle
    PROVE  Evicts /\ anon' \in Nat /\ AnonymousKeysCounted'
<1> DEFINE A == {k \in Addresses : keys[k] # None}
           D == Idle \cap Addresses
<1>1. keys' = [k \in Keys |-> IF k \in Idle THEN None ELSE keys[k]]
      /\ UNCHANGED <<served, now, bucket, stopped, req, admitted>>
      /\ anon' = anon - Cardinality(D)
  BY DEF evictIdle
<1>2. anon = Cardinality(A) /\ anon <= MaxAnonymousKeys /\ anon \in Nat
  BY DEF BaseInv, AnonymousKeysCounted, TypeOK
<1>3. D \subseteq A /\ A \in SUBSET Addresses
  BY DEF Idle
<1>4. {k \in Addresses : keys'[k] # None} = A \ D
  BY <1>1 DEF Keys
<1> HIDE DEF A, D
<1>5. IsFiniteSet(A) /\ IsFiniteSet(D) /\ Cardinality(D) \in Nat /\ Cardinality(A \ D) \in Nat
  <2>1. D \in SUBSET Addresses /\ A \ D \in SUBSET Addresses
    BY <1>3
  <2> QED
    BY <1>3, <2>1, SomeAddresses
<1>6. Cardinality(A \ D) = Cardinality(A) - Cardinality(D)
  <2>1. A \cap D = D
    BY <1>3
  <2> QED
    BY <1>5, <2>1, FS_Difference, Zenon
<1>7. anon' = Cardinality(A \ D) /\ anon' \in Nat /\ anon' <= MaxAnonymousKeys
  BY <1>1, <1>2, <1>5, <1>6, Limits
<1>8. AnonymousKeysCounted'
  BY <1>4, <1>7 DEF AnonymousKeysCounted
<1> QED
  BY <1>1, <1>7, <1>8 DEF Evicts

\* A RateLimiter has tenants only, and its round leaves the counter alone.
LEMMA EvictStaleCounts ==
    ASSUME BaseInv, evictStale
    PROVE  Evicts /\ anon' \in Nat /\ AnonymousKeysCounted'
<1>1. keys' = [k \in Keys |-> IF k \in Idle THEN None ELSE keys[k]]
      /\ UNCHANGED <<served, now, bucket, anon, stopped, req, admitted>>
      /\ Idle \cap Tenants # {}
  BY DEF evictStale
<1>2. TypeOK /\ MapInv /\ AnonymousKeysCounted
  BY DEF BaseInv
<1>3. \A k \in Addresses : k \in Keys /\ keys[k] = None
  <2>1. PICK t \in Tenants : t \in Keys /\ keys[t] # None
    BY <1>1 DEF Idle
  <2>2. t \in served
    BY <1>2, <2>1 DEF MapInv
  <2>3. Tenants \cap (Identified \cup Addresses) = {}
    BY KeyedRateLimiterAssumption
  <2>4. served = Tenants
    BY <1>2, <2>2, <2>3 DEF MapInv
  <2> QED
    BY <1>2, <2>3, <2>4 DEF MapInv, Keys
<1>4. {k \in Addresses : keys'[k] # None} = {k \in Addresses : keys[k] # None}
  BY <1>1, <1>3
<1>5. AnonymousKeysCounted'
  BY <1>1, <1>2, <1>4 DEF AnonymousKeysCounted
<1>6. anon' \in Nat
  BY <1>1, <1>2 DEF TypeOK
<1> QED
  BY <1>1, <1>5, <1>6 DEF Evicts

LEMMA TickEffect ==
    ASSUME BaseInv, Tick
    PROVE  BaseInv'
<1>1. now' \in Nat
  BY DEF Tick, BaseInv, TypeOK
<1>2. TypeOK' /\ MapInv' /\ AnonymousKeysCounted'
  BY <1>1 DEF Tick, BaseInv, TypeOK, MapInv, AnonymousKeysCounted
<1>3. HeldInv'
  BY DEF Tick, BaseInv, HeldInv
<1> QED
  BY <1>2, <1>3 DEF BaseInv

LEMMA TickKeeps ==
    ASSUME IInv, Tick
    PROVE  IInv'
<1>1. TypeOK /\ HeldInv /\ RequestInv /\ BudgetInv
  BY DEF IInv, BaseInv
<1>2. /\ now \in Nat /\ now' = now + 1
      /\ \A r \in Requests : req[r].pc = "found" => now < req[r].at + MaxInFlight
      /\ UNCHANGED <<served, keys, bucket, anon, stopped, req, admitted>>
  BY <1>1 DEF Tick, TypeOK
<1>3. BaseInv'
  BY TickEffect DEF IInv
<1>4. RequestInv'
  <2>1. \A r \in Requests : req[r].at \in Nat
    BY <1>1 DEF TypeOK
  <2>2. \A r \in Requests : req[r].pc = "found" =>
          req[r].at <= now' /\ now' <= req[r].at + MaxInFlight
    BY <1>1, <1>2, <2>1, Limits DEF RequestInv
  <2> QED
    BY <1>1, <1>2, <2>2, Zenon DEF RequestInv
<1>5. BudgetInv'
  <2> SUFFICES ASSUME NEW k \in Keys
               PROVE  /\ admitted[k] <= BurstOf(k) + Earned(k, now')
                      /\ keys[k] = None => admitted[k] <= Earned(k, now')
                      /\ keys[k] # None => Budget(k, keys[k])'
    BY <1>2 DEF BudgetInv
  <2>1. /\ admitted[k] <= BurstOf(k) + Earned(k, now)
        /\ keys[k] = None => admitted[k] <= Earned(k, now)
        /\ keys[k] # None => Budget(k, keys[k])
    BY <1>1 DEF BudgetInv
  <2>2. admitted[k] \in Nat /\ now' \in Nat /\ now <= now'
    BY <1>1, <1>2 DEF TypeOK
  <2>3. Earned(k, now) <= Earned(k, now') /\ Earned(k, now) \in Int
        /\ Earned(k, now') \in Int
    <3>1. now \in Int /\ now' \in Int
      BY <1>2, <2>2
    <3> QED
      BY <2>2, <3>1, EarnedIs, EarnedType, Zenon
  <2>4. admitted[k] <= BurstOf(k) + Earned(k, now')
    BY <1>2, <2>1, <2>2, Later
  <2>5. keys[k] = None => admitted[k] <= Earned(k, now')
    BY <2>1, <2>2, <2>3
  <2>6. ASSUME keys[k] # None PROVE Budget(k, keys[k])'
    <3>1. bucket[keys[k]].last \in Nat
      BY <1>1, <2>6 DEF TypeOK
    <3>2. Owing(keys[k])' = Owing(keys[k])
      BY <1>2 DEF Owing
    <3>3. bucket[keys[k]].last <= now'
      BY <1>2, <2>1, <2>6, <3>1 DEF Budget
    <3>4. /\ admitted' = admitted /\ keys' = keys /\ bucket' = bucket
          /\ Budget(k, keys[k])
      BY <1>2, <2>1, <2>6
    <3> QED
      BY <3>2, <3>3, <3>4 DEF Budget
  <2> QED
    BY <2>4, <2>5, <2>6
<1> QED
  BY <1>3, <1>4, <1>5 DEF IInv

\* Stop, and a step of something else.
LEMMA RestEffect ==
    ASSUME BaseInv, UNCHANGED <<served, now, keys, bucket, anon, req, admitted>>,
           stopped' \in BOOLEAN
    PROVE  BaseInv'
<1>1. TypeOK' /\ MapInv' /\ AnonymousKeysCounted'
  BY DEF BaseInv, TypeOK, MapInv, AnonymousKeysCounted
<1>2. HeldInv'
  BY DEF BaseInv, HeldInv
<1> QED
  BY <1>1, <1>2 DEF BaseInv

LEMMA RestKeeps ==
    ASSUME IInv, UNCHANGED <<served, now, keys, bucket, anon, req, admitted>>,
           stopped' \in BOOLEAN
    PROVE  IInv'
<1>1. BaseInv'
  BY RestEffect DEF IInv
<1>2. RequestInv'
  BY Zenon DEF IInv, RequestInv
<1>3. \A c : Owing(c)' = Owing(c)
  BY DEF Owing
<1>4. BudgetInv'
  BY <1>3, BudgetsKept DEF IInv
<1> QED
  BY <1>1, <1>2, <1>4 DEF IInv

----------------------------------------------------------------------------
(* A step is one of these.                                                 *)

Finds(r, k) ==
    /\ req[r].pc = "new"
    /\ Hit(r, k) \/ Create(r, k)
    /\ UNCHANGED <<served, now, stopped, admitted>>

Rests ==
    UNCHANGED <<served, now, keys, bucket, anon, req, admitted>> /\ stopped' \in BOOLEAN

Shape ==
    \/ \E r \in Requests, k \in served : Finds(r, k)
    \/ \E r \in Requests, q \in RequestType : Leaves(r, q)
    \/ \E r \in Requests, k \in Keys, b \in Buckets, n \in Int :
         (Admits(r, k, b, n) /\ n >= 0) \/ Credits(r, k, b, n) \/ Returns(r, k, b, n)
    \/ Evicts /\ anon' \in Nat /\ AnonymousKeysCounted'
    \/ Tick \/ Rests

LEMMA HandlerShape ==
    ASSUME BaseInv, NEW r \in Requests, NEW k \in served, Handler(r, k)
    PROVE  Shape
<1>1. req[r].pc = "new" /\ UNCHANGED <<served, now, stopped, admitted>>
  BY DEF Handler
<1>2. CASE Hit(r, k) \/ Create(r, k)
  BY <1>1, <1>2, Zenon DEF Shape, Finds
<1>3. CASE Refuse(r, k)
  <2> DEFINE q == [req[r] EXCEPT !.pc = "done", !.key = k, !.out = "full"]
  <2>1. req \in [Requests -> RequestType] /\ req[r] \in RequestType /\ k \in Keys
    BY RequestsTyped DEF BaseInv
  <2>2. q \in RequestType
    BY <2>1, Zenon DEF RequestType
  <2>3. q.pc = "done" /\ q.b = req[r].b
    BY <2>1 DEF RequestType
  <2>4. q.b = None
    BY <1>1, <2>3 DEF BaseInv, HeldInv
  <2>5. req' = [req EXCEPT ![r] = q]
        /\ UNCHANGED <<served, now, keys, bucket, anon, stopped, admitted>>
    BY <1>1, <1>3 DEF Refuse
  <2> HIDE DEF q
  <2>6. Leaves(r, q)
    BY <1>1, <2>3, <2>4, <2>5 DEF Leaves
  <2> QED
    BY <2>2, <2>6, Zenon DEF Shape
<1> QED
  BY <1>2, <1>3 DEF Handler, getLimiter, limiter

LEMMA DrawShape ==
    ASSUME BaseInv, NEW r \in Requests, Allow(r) \/ Reserve(r)
    PROVE  Shape
<1>1. req[r].pc = "found"
  BY DEF Allow, Reserve
<1>2. PICK k \in Keys, b \in Buckets : req[r].key = k /\ req[r].b = b
  BY <1>1 DEF BaseInv, HeldInv
<1>3. Tokens(b, k) \in Int
  BY TokensBound DEF BaseInv
<1>4. PICK n \in Int : n = Tokens(b, k) - 1
  BY <1>3
<1>5. CASE Tokens(b, k) > 0
  <2>1. /\ bucket' = [bucket EXCEPT ![b] = [@ EXCEPT !.tokens = n, !.last = now]]
        /\ admitted' = [admitted EXCEPT ![k] = @ + 1]
        /\ req' = [req EXCEPT ![r] = [NewRequest EXCEPT !.pc = "done", !.key = k,
                                                        !.out = "served"]]
        /\ UNCHANGED <<served, now, keys, anon, stopped>>
    BY <1>2, <1>4, <1>5 DEF Allow, Reserve
  <2>2. n >= 0
    BY <1>3, <1>4, <1>5
  <2>3. Admits(r, k, b, n)
    BY <1>1, <1>2, <1>4, <2>1 DEF Admits
  <2> QED
    BY <2>2, <2>3, Zenon DEF Shape
<1>6. CASE ~(Tokens(b, k) > 0) /\ Reserve(r)
  <2>1. Credits(r, k, b, n)
    BY <1>1, <1>2, <1>4, <1>6 DEF Reserve, Credits
  <2> QED
    BY <2>1, Zenon DEF Shape
<1>7. CASE ~(Tokens(b, k) > 0) /\ Allow(r)
  <2> DEFINE e == [NewRequest EXCEPT !.pc = "done", !.key = k, !.out = "limited"]
  <2>1. req' = [req EXCEPT ![r] = e]
        /\ UNCHANGED <<served, now, keys, bucket, anon, stopped, admitted>>
    BY <1>2, <1>7 DEF Allow
  <2>2. e \in RequestType /\ e.pc = "done" /\ e.b = None
    BY Ended, Zenon
  <2> HIDE DEF e
  <2>3. Leaves(r, e)
    BY <1>1, <2>1, <2>2 DEF Leaves
  <2> QED
    BY <2>2, <2>3, Zenon DEF Shape
<1> QED
  BY <1>5, <1>6, <1>7

LEMMA StepShapes ==
    ASSUME BaseInv, [Next]_vars
    PROVE  Shape
<1>1. ASSUME NEW r \in Requests, NEW k \in served, Handler(r, k) PROVE Shape
  BY <1>1, HandlerShape
<1>2. ASSUME NEW r \in Requests, Allow(r) \/ Reserve(r) PROVE Shape
  BY <1>2, DrawShape
<1>3. ASSUME NEW r \in Requests, Cancel(r) PROVE Shape
  <2>1. \E k \in Keys, b \in Buckets, n \in Int : Returns(r, k, b, n)
    BY <1>3, CancelReturns
  <2> QED
    BY <2>1, Zenon DEF Shape
<1>4. ASSUME NEW r \in Requests, Reuse(r) PROVE Shape
  <2>1. NewRequest \in RequestType /\ NewRequest.pc = "new" /\ NewRequest.b = None
    BY DEF RequestType, NewRequest
  <2>2. Leaves(r, NewRequest)
    BY <1>4, <2>1 DEF Reuse, Leaves
  <2> QED
    BY <2>1, <2>2, Zenon DEF Shape
<1>5. CASE evictStale
  BY <1>5, EvictStaleCounts, Zenon DEF Shape
<1>6. CASE evictIdle
  BY <1>6, EvictIdleCounts, Zenon DEF Shape
<1>7. CASE Stop
  BY <1>7 DEF Stop, Shape, Rests
<1>8. CASE Tick
  BY <1>8, Zenon DEF Shape
<1>9. CASE UNCHANGED vars
  BY <1>9 DEF vars, Shape, Rests, BaseInv, TypeOK
<1> QED
  BY <1>1, <1>2, <1>3, <1>4, <1>5, <1>6, <1>7, <1>8, <1>9 DEF Next

LEMMA BaseInductive == BaseInv /\ [Next]_vars => BaseInv'
<1> SUFFICES ASSUME BaseInv, [Next]_vars PROVE BaseInv'
  OBVIOUS
<1>1. Shape
  BY StepShapes
<1>2. ASSUME NEW r \in Requests, NEW k \in served, Finds(r, k) PROVE BaseInv'
  BY <1>2, HitEffect, CreateEffect, Zenon DEF Finds
<1>3. ASSUME NEW r \in Requests, NEW q \in RequestType, Leaves(r, q) PROVE BaseInv'
  BY <1>3, LeavesEffect, Zenon
<1>4. ASSUME NEW r \in Requests, NEW k \in Keys, NEW b \in Buckets, NEW n \in Int,
             Admits(r, k, b, n) \/ Credits(r, k, b, n) \/ Returns(r, k, b, n)
      PROVE  BaseInv'
  BY <1>4, AdmitsEffect, CreditsEffect, ReturnsEffect, Zenon
<1>5. ASSUME Evicts, anon' \in Nat, AnonymousKeysCounted' PROVE BaseInv'
  BY <1>5, EvictsEffect, Zenon
<1>6. CASE Tick
  BY <1>6, TickEffect
<1>7. CASE Rests
  BY <1>7, RestEffect, Zenon DEF Rests
<1> QED
  BY <1>1, <1>2, <1>3, <1>4, <1>5, <1>6, <1>7, Zenon DEF Shape

LEMMA Inductive ==
    ASSUME IdleTTLFillsBucket
    PROVE  IInv /\ [Next]_vars => IInv'
<1> SUFFICES ASSUME IInv, [Next]_vars PROVE IInv'
  OBVIOUS
<1>1. Shape
  BY StepShapes DEF IInv
<1>2. ASSUME NEW r \in Requests, NEW k \in served, Finds(r, k) PROVE IInv'
  BY <1>2, HitKeeps, CreateKeeps, Zenon DEF Finds
<1>3. ASSUME NEW r \in Requests, NEW q \in RequestType, Leaves(r, q) PROVE IInv'
  BY <1>3, LeavesKeeps, Zenon
<1>4. ASSUME NEW r \in Requests, NEW k \in Keys, NEW b \in Buckets, NEW n \in Int,
             (Admits(r, k, b, n) /\ n >= 0) \/ Credits(r, k, b, n) \/ Returns(r, k, b, n)
      PROVE  IInv'
  BY <1>4, AdmitsKeeps, CreditsKeeps, ReturnsKeeps, Zenon
<1>5. ASSUME Evicts, anon' \in Nat, AnonymousKeysCounted' PROVE IInv'
  BY <1>5, EvictsKeeps, Zenon
<1>6. CASE Tick
  BY <1>6, TickKeeps
<1>7. CASE Rests
  BY <1>7, RestKeeps, Zenon DEF Rests
<1> QED
  BY <1>1, <1>2, <1>3, <1>4, <1>5, <1>6, <1>7, Zenon DEF Shape

----------------------------------------------------------------------------
\* The counter that guards the address tier is the number of its buckets and
\* never exceeds the cap, whatever the limits and whenever buckets are evicted.
THEOREM AddressTierIsBounded == Spec => []AnonymousKeysCounted
<1>1. Init => BaseInv
  BY Initially DEF IInv
<1>2. BaseInv => AnonymousKeysCounted
  BY DEF BaseInv
<1> QED
  BY <1>1, <1>2, BaseInductive, PTL DEF Spec

\* "never lets a request through unlimited": if an idle bucket fills up before it
\* is evicted, no key is ever admitted more than its burst and its rate over
\* time, by KeyedRateLimiter or by RateLimiter, whenever buckets are evicted and
\* however the requests interleave.
THEOREM NoKeyOverItsLimit ==
    ASSUME IdleTTLFillsBucket
    PROVE  Spec => []NeverOverLimit
<1>1. IInv => NeverOverLimit
  BY DEF IInv, BudgetInv, NeverOverLimit, Earned
<1>2. IInv /\ [Next]_vars => IInv'
  BY Inductive
<1> QED
  BY <1>1, <1>2, Initially, PTL DEF Spec

----------------------------------------------------------------------------
(* The pages.                                                              *)

CONSTANTS MaxInt, DefaultPerPage, MaxPerPage, Sizes, Jumps, MaxItems

VARIABLES totalItems, asked, page, params, totalPages, seen, repeated

Pages == INSTANCE Pagination

Size == Pages!PageSize(Pages!Atoi(asked))

TotalPages == Pages!NewPagedResponse(Pages!Parse(1, asked), totalItems)

\* What the client has got before it asks for its next page.
PagesInv ==
    /\ totalItems \in 0 .. MaxItems /\ asked \in Int
    /\ page \in Nat \ {0}
    /\ totalPages = TotalPages \/ (page = 1 /\ totalPages = 1)
    /\ seen = {i \in 0 .. totalItems - 1 : i < (page - 1) * Size}
    /\ repeated = {}

----------------------------------------------------------------------------
LEMMA SizeIsPositive ==
    ASSUME Pages!PaginationAssumption, NEW n \in Int
    PROVE  Pages!PageSize(Pages!Atoi(n)) \in 1 .. MaxPerPage
BY DEF Pages!PaginationAssumption, Pages!PageSize, Pages!Atoi, Pages!MinInt

\* Within the range of int, Wrap changes nothing.
LEMMA WrapWithin ==
    ASSUME MaxInt \in Nat, NEW n \in 0 .. MaxInt
    PROVE  Pages!Wrap(n) = n
<1> DEFINE m == MaxInt - Pages!MinInt + 1
           k == n - Pages!MinInt
<1>1. m \in Nat /\ m > 0 /\ k \in 0 .. m - 1
  BY DEF Pages!MinInt
<1>2. k % m = k
  <2> HIDE DEF m, k
  <2> QED
    BY <1>1
<1> QED
  BY <1>2 DEF Pages!Wrap, Pages!MinInt

\* NewPagedResponse rounds up.
LEMMA PagesCover ==
    ASSUME NEW t \in Nat \ {0}, NEW total \in Nat, NEW ps, ps.PerPage = t
    PROVE  LET n == Pages!NewPagedResponse(ps, total) IN
           /\ n \in Nat /\ total <= n * t
           /\ n # 0 => (n - 1) * t < total
<1> DEFINE d == total \div t
           r == total % t
<1>1. d \in Nat /\ r \in 0 .. t - 1 /\ total = t * d + r
  OBVIOUS
<1> HIDE DEF d, r
<1>2. CASE r > 0
  <2>1. Pages!NewPagedResponse(ps, total) = d + 1
    BY <1>2 DEF Pages!NewPagedResponse, d, r
  <2>2. (d + 1) * t = t * d + t /\ (d + 1 - 1) * t = t * d
    BY <1>1
  <2> QED
    BY <1>1, <1>2, <2>1, <2>2
<1>3. CASE r = 0
  <2>1. Pages!NewPagedResponse(ps, total) = d
    BY <1>3 DEF Pages!NewPagedResponse, d, r
  <2>2. d * t = t * d /\ (d - 1) * t = t * d - t
    BY <1>1
  <2> QED
    BY <1>1, <1>3, <2>1, <2>2
<1> QED
  BY <1>1, <1>2, <1>3

LEMMA ProductMonotone ==
    ASSUME NEW a \in Nat, NEW b \in Nat, NEW t \in Nat, a <= b
    PROVE  a * t <= b * t /\ a * t \in Nat /\ (a + 1) * t = a * t + t
<1>1. PICK c \in Nat : b = a + c
  <2>1. b - a \in Nat /\ b = a + (b - a)
    OBVIOUS
  <2> QED
    BY <2>1
<1>2. b * t = a * t + c * t /\ c * t \in Nat /\ a * t \in Nat
  BY <1>1
<1> QED
  BY <1>2

\* Every response announces the same number of pages.
LEMMA SamePages ==
    ASSUME NEW p
    PROVE  /\ Pages!Parse(p, asked).PerPage = Size
           /\ Pages!NewPagedResponse(Pages!Parse(p, asked), totalItems) = TotalPages
BY DEF Pages!Parse, Pages!NewPagedResponse, TotalPages, Size

\* A page that is announced begins within the list, or is the first.
LEMMA OffsetWithin ==
    ASSUME Pages!PaginationAssumption, PagesInv, page <= totalPages
    PROVE  Pages!Parse(page, asked).Offset = (page - 1) * Size
<1>1. /\ MaxInt \in Nat /\ MaxInt >= 1 /\ totalItems \in 0 .. MaxInt /\ page \in Nat \ {0}
      /\ Size \in Nat \ {0}
  BY SizeIsPositive DEF Pages!PaginationAssumption, PagesInv, Size
<1>2. page - 1 <= (page - 1) * Size /\ (page - 1) * Size \in Nat
  <2>1. 1 <= Size /\ page - 1 \in Nat
    BY <1>1
  <2>2. 1 * (page - 1) <= Size * (page - 1)
    BY <1>1, <2>1, ProductMonotone
  <2> QED
    BY <1>1, <2>1, <2>2
<1>3. page = 1 \/ (page - 1) * Size < totalItems
  <2> SUFFICES ASSUME page # 1 PROVE (page - 1) * Size < totalItems
    OBVIOUS
  <2>1. totalPages = TotalPages
    BY DEF PagesInv
  <2>2. TotalPages \in Nat /\ (TotalPages # 0 => (TotalPages - 1) * Size < totalItems)
    BY <1>1, SamePages, PagesCover DEF TotalPages
  <2>3. (page - 1) * Size <= (TotalPages - 1) * Size
    <3>1. page - 1 \in Nat /\ TotalPages - 1 \in Nat /\ page - 1 <= TotalPages - 1
      BY <1>1, <2>1, <2>2
    <3> QED
      BY <1>1, <3>1, ProductMonotone
  <2>4. TotalPages # 0 /\ (TotalPages - 1) * Size \in Int
    BY <1>1, <2>1, <2>2
  <2> QED
    BY <1>1, <1>2, <2>2, <2>3, <2>4
<1>4. (page - 1) * Size \in 0 .. MaxInt /\ page \in 1 .. MaxInt
  BY <1>1, <1>2, <1>3
<1>5. Pages!Parse(page, asked).Offset = Pages!Wrap((page - 1) * Size)
  <2>1. Pages!Atoi(page) = page /\ ~(page < 1)
    BY <1>1, <1>4 DEF Pages!Atoi, Pages!MinInt
  <2> QED
    BY <2>1 DEF Pages!Parse, Size
<1> QED
  BY <1>1, <1>4, <1>5, WrapWithin

LEMMA PagesInitially == ASSUME Pages!PaginationAssumption PROVE Pages!Init => PagesInv
<1> SUFFICES ASSUME Pages!Init PROVE PagesInv
  OBVIOUS
<1>1. totalItems \in 0 .. MaxItems /\ asked \in Int /\ Sizes \subseteq Int
  BY DEF Pages!Init, Pages!PaginationAssumption
<1>2. Size \in Nat /\ (1 - 1) * Size = 0
  BY <1>1, SizeIsPositive DEF Size
<1> QED
  BY <1>1, <1>2 DEF Pages!Init, PagesInv

LEMMA NextPageStep ==
    ASSUME Pages!PaginationAssumption, PagesInv, Pages!NextPage
    PROVE  PagesInv'
<1> DEFINE P == (page - 1) * Size
<1>1. /\ totalItems \in Nat /\ page \in Nat \ {0} /\ Size \in Nat \ {0} /\ P \in Nat
      /\ seen = {i \in 0 .. totalItems - 1 : i < P} /\ repeated = {}
  <2>1. Size \in Nat \ {0}
    BY SizeIsPositive DEF Pages!PaginationAssumption, PagesInv, Size
  <2>2. page - 1 \in Nat
    BY DEF PagesInv
  <2> QED
    BY <2>1, <2>2, ProductMonotone DEF PagesInv, Pages!PaginationAssumption
<1>2. /\ UNCHANGED <<totalItems, asked>> /\ page' = page + 1
      /\ totalPages' = TotalPages
      /\ params' = Pages!Parse(page, asked) /\ page <= totalPages
      /\ repeated' = repeated \cup (seen \cap Pages!Rows(params'))
      /\ seen' = seen \cup Pages!Rows(params')
  BY SamePages DEF Pages!NextPage, Pages!Get
<1>3. Pages!Rows(params') = {i \in 0 .. totalItems - 1 : P <= i /\ i < P + Size}
  BY <1>2, SamePages, OffsetWithin DEF Pages!Rows
<1>4. (page' - 1) * Size = P + Size
  BY <1>1, <1>2, ProductMonotone
<1> HIDE DEF P
<1>5. repeated' = {} /\ seen' = {i \in 0 .. totalItems - 1 : i < P + Size}
  BY <1>1, <1>2, <1>3
<1>6. Size' = Size /\ TotalPages' = TotalPages
  BY <1>2 DEF Size, TotalPages
<1> QED
  BY <1>1, <1>2, <1>4, <1>5, <1>6 DEF PagesInv

LEMMA PagesInductive ==
    ASSUME Pages!PaginationAssumption
    PROVE  PagesInv /\ [Pages!Next]_(Pages!pageVars) => PagesInv'
<1> SUFFICES ASSUME PagesInv, [Pages!Next]_(Pages!pageVars) PROVE PagesInv'
  OBVIOUS
<1>1. CASE Pages!NextPage
  BY <1>1, NextPageStep
<1>2. ASSUME NEW p \in Jumps, Pages!Jump(p) PROVE PagesInv'
  <2>1. UNCHANGED <<totalItems, asked, page, seen, repeated>> /\ totalPages' = TotalPages
    BY <1>2, SamePages DEF Pages!Jump, Pages!Get
  <2> QED
    BY <2>1 DEF PagesInv, Size, TotalPages
<1>3. CASE UNCHANGED Pages!pageVars
  BY <1>3 DEF Pages!pageVars, PagesInv, Size, TotalPages
<1> QED
  BY <1>1, <1>2, <1>3 DEF Pages!Next

\* A client that reads the announced pages gets every item once (PagesAreTheList),
\* whatever page size it asks for and however NewPagedResponse has to round.
THEOREM PaginationIsComplete ==
    ASSUME Pages!PaginationAssumption
    PROVE  Pages!Spec => []Pages!PagesAreTheList
<1>1. PagesInv => Pages!PagesAreTheList
  <2> SUFFICES ASSUME PagesInv, page > totalPages PROVE seen = 0 .. totalItems - 1
    BY DEF PagesInv, Pages!PagesAreTheList
  <2>1. totalPages = TotalPages /\ totalItems \in Nat /\ page - 1 \in Nat /\ Size \in Nat \ {0}
    BY SizeIsPositive DEF PagesInv, Pages!PaginationAssumption, Size
  <2>2. TotalPages \in Nat /\ totalItems <= TotalPages * Size
    BY <2>1, SamePages, PagesCover DEF TotalPages
  <2>3. TotalPages * Size <= (page - 1) * Size /\ (page - 1) * Size \in Nat
    <3>1. TotalPages <= page - 1
      BY <2>1, <2>2 DEF PagesInv
    <3> QED
      BY <2>1, <2>2, <3>1, ProductMonotone
  <2>4. totalItems <= (page - 1) * Size
    BY <2>1, <2>2, <2>3
  <2>5. seen = {i \in 0 .. totalItems - 1 : i < (page - 1) * Size}
    BY DEF PagesInv
  <2> QED
    BY <2>1, <2>3, <2>4, <2>5
<1> QED
  BY <1>1, PagesInitially, PagesInductive, PTL DEF Pages!Spec
===============================================================================
