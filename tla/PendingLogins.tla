--------------------------- MODULE PendingLogins ---------------------------
(***************************************************************************)
(* A login in flight, from /login to the callback: the pending-login       *)
(* stores (bff/pending_login.go) and the cookie that ties a login to the   *)
(* browser that began it (bff/loginbinding.go).  The two handlers are the  *)
(* application's; their order of calls is that of the integration guide.   *)
(*                                                                         *)
(* RandomToken never repeats, so a login's state also names its nonce.     *)
(* Browsers reload callbacks, open the login in several tabs and pass      *)
(* links on; callbacks are served concurrently, on any instance.  The      *)
(* memory store is bounded; the Postgres store is not, but a statement may *)
(* fail, and may have been executed when it does.                          *)
(***************************************************************************)
EXTENDS Integers, FiniteSets

CONSTANTS
    Browsers, States, Callbacks, None,
    TTL,        \* of the pending login and of its cookie
    Max,        \* the most logins the memory store keeps
    MaxTime

ASSUME PendingLoginsAssumption ==
    /\ TTL \in Nat /\ Max \in Nat \ {0}
    /\ None \notin Browsers \cup States \cup Nat

VARIABLES
    store,      \* which store the application uses
    now,
    pending,    \* state -> when it was created, or None: the store
    owner,      \* history: the browser that began the login of a state
    cookie,     \* browser -> nonce and expiry of its binding cookie
    callback,   \* the callbacks being served
    accepted,   \* history: browsers and times that completed a state's login
    ousted      \* history: the logins whose browser has since begun another one
                \* or has had the callback of another one verified

vars == <<store, now, pending, owner, cookie, callback, accepted, ousted>>

NoCookie == [nonce |-> None, until |-> 0]
NoCallback == [pc |-> "idle", browser |-> None, state |-> None, nonce |-> None,
               late |-> FALSE]  \* history: ousted when it was requested

TypeOK ==
    /\ store \in {"memory", "postgres"}
    /\ now \in Nat
    /\ pending \in [States -> Nat \cup {None}]
    /\ owner \in [States -> Browsers \cup {None}]
    /\ cookie \in [Browsers -> [nonce: States \cup {None}, until: Nat]]
    /\ callback \in [Callbacks ->
         [pc: {"idle", "sent", "taken", "accepted", "refused"},
          browser: Browsers \cup {None}, state: States \cup {None},
          nonce: States \cup {None}, late: BOOLEAN]]
    /\ accepted \in [States -> SUBSET (Callbacks \X Nat)]
    /\ ousted \in SUBSET States

Init ==
    /\ store \in {"memory", "postgres"}
    /\ now = 0 /\ pending = [s \in States |-> None]
    /\ owner = [s \in States |-> None]
    /\ cookie = [b \in Browsers |-> NoCookie]
    /\ callback = [c \in Callbacks |-> NoCallback]
    /\ accepted = [s \in States |-> {}]
    /\ ousted = {}

\* The logins that browser b has begun.
LoginsOf(b) == {s \in States : owner[s] = b}

Stored == {s \in States : pending[s] # None}
AtLimit(n) == store = "memory" /\ n >= Max
Expired(s) == now - pending[s] > TTL
Swept == [s \in States |-> IF s \in Stored /\ Expired(s) THEN None ELSE pending[s]]

----------------------------------------------------------------------------
\* Fault: a full store refuses without dropping what has expired.
PutNeverSweeps(s) ==
    pending' = IF AtLimit(Cardinality(Stored)) THEN pending
               ELSE [pending EXCEPT ![s] = now]

\* Put: a full store drops what has expired and refuses if that is not enough.
Put(s) ==
    LET room == IF AtLimit(Cardinality(Stored)) THEN Swept ELSE pending IN
    pending' = IF AtLimit(Cardinality({t \in States : room[t] # None})) THEN room
               ELSE [room EXCEPT ![s] = now]

\* Fault: the cookie does not live as long as the pending login.
BeginShortLived(b, s) ==
    cookie' = [cookie EXCEPT ![b] = [nonce |-> s, until |-> now + TTL - 1]]

\* LoginBinding.Begin: the cookie replaces the one of an earlier login.
Begin(b, s) ==
    cookie' = [cookie EXCEPT ![b] = [nonce |-> s, until |-> now + TTL]]

\* /login: Begin and Put.  The cookie is set even if Put refuses.
Login(b, s) ==
    /\ owner[s] = None
    /\ Begin(b, s)
    /\ Put(s) \/ (store = "postgres" /\ UNCHANGED pending)
    /\ owner' = [owner EXCEPT ![s] = b]
    /\ ousted' = ousted \cup LoginsOf(b)
    /\ UNCHANGED <<store, now, callback, accepted>>

\* A browser requests the callback of a login, with the cookie it has now.
Request(c, b, s) ==
    /\ callback[c].pc = "idle" /\ owner[s] # None
    /\ callback' = [callback EXCEPT ![c] =
         [pc |-> "sent", browser |-> b, state |-> s,
          nonce |-> IF cookie[b].until >= now THEN cookie[b].nonce ELSE None,
          late |-> s \in ousted]]
    /\ UNCHANGED <<store, now, pending, owner, cookie, accepted, ousted>>

\* Fault: Take reads, and leaves the removal to the sweeper.
TakeKeeps(c) ==
    LET s == callback[c].state IN
    /\ callback[c].pc = "sent"
    /\ callback' = [callback EXCEPT ![c].pc =
                      IF s \in Stored /\ ~Expired(s) THEN "taken" ELSE "refused"]
    /\ UNCHANGED <<store, now, pending, owner, cookie, accepted, ousted>>

\* Take: return and remove in one step; what has expired is removed as well.
Take(c) ==
    LET s == callback[c].state IN
    /\ callback[c].pc = "sent"
    /\ pending' = [pending EXCEPT ![s] = None]
    /\ callback' = [callback EXCEPT ![c].pc =
                      IF s \in Stored /\ ~Expired(s) THEN "taken" ELSE "refused"]
    /\ UNCHANGED <<store, now, owner, cookie, accepted, ousted>>

\* The statement fails, executed or not: the callback is refused.
TakeFails(c) ==
    /\ store = "postgres" /\ callback[c].pc = "sent"
    /\ pending' \in {pending, [pending EXCEPT ![callback[c].state] = None]}
    /\ callback' = [callback EXCEPT ![c].pc = "refused"]
    /\ UNCHANGED <<store, now, owner, cookie, accepted, ousted>>

\* Fault: any binding cookie will do.
VerifyAnyCookie(c) ==
    /\ callback[c].pc = "taken"
    /\ cookie' = [cookie EXCEPT ![callback[c].browser] = NoCookie]
    /\ LET ok == callback[c].nonce # None IN
       /\ callback' = [callback EXCEPT ![c].pc = IF ok THEN "accepted" ELSE "refused"]
       /\ accepted' = IF ok THEN [accepted EXCEPT ![callback[c].state] = @ \cup {<<c, now>>}]
                      ELSE accepted
    /\ ousted' = ousted \cup (LoginsOf(callback[c].browser) \ {callback[c].state})
    /\ UNCHANGED <<store, now, pending, owner>>

\* LoginBinding.Verify: clear the cookie and compare the one that was sent.
Verify(c) ==
    /\ callback[c].pc = "taken"
    /\ cookie' = [cookie EXCEPT ![callback[c].browser] = NoCookie]
    /\ LET s == callback[c].state
           ok == callback[c].nonce = s IN
       /\ callback' = [callback EXCEPT ![c].pc = IF ok THEN "accepted" ELSE "refused"]
       /\ accepted' = IF ok THEN [accepted EXCEPT ![s] = @ \cup {<<c, now>>}]
                      ELSE accepted
    /\ ousted' = ousted \cup (LoginsOf(callback[c].browser) \ {callback[c].state})
    /\ UNCHANGED <<store, now, pending, owner>>

\* The callback has been answered; another may be served.
Done(c) ==
    /\ callback[c].pc \in {"accepted", "refused"}
    /\ callback' = [callback EXCEPT ![c] = NoCallback]
    /\ UNCHANGED <<store, now, pending, owner, cookie, accepted, ousted>>

Sweep ==
    /\ Swept # pending
    /\ pending' = Swept
    /\ UNCHANGED <<store, now, owner, cookie, callback, accepted, ousted>>

Tick == now < MaxTime /\ now' = now + 1
        /\ UNCHANGED <<store, pending, owner, cookie, callback, accepted, ousted>>

Next ==
    \/ \E s \in States, b \in Browsers :
         Login(b, s) \/ \E c \in Callbacks : Request(c, b, s)
    \/ \E c \in Callbacks : Take(c) \/ TakeFails(c) \/ Verify(c) \/ Done(c)
    \/ Sweep \/ Tick

Spec == Init /\ [][Next]_vars

----------------------------------------------------------------------------
\* "a state is accepted at most once even when two instances race on the same
\* callback" (PendingLoginStore, Take).
AcceptedOnce == \A s \in States : Cardinality(accepted[s]) <= 1

\* "only the browser that began the flow can finish it" (LoginBinding).
BoundToBrowser ==
    \A c \in Callbacks :
        callback[c].pc = "accepted" => callback[c].browser = owner[callback[c].state]

\* Verify refuses a login that was taken in time only for a cause: it is finished
\* in another browser, or its own browser had, before the callback was requested,
\* begun another login (Begin replaces the one cookie of a browser) or finished
\* another one (Verify clears it).  Logins of other browsers, however many and
\* whenever, never cost a browser its own.
RefusedForCause ==
    [][\A c \in Callbacks :
         callback[c].pc = "taken" /\ callback'[c].pc = "refused" =>
             callback[c].browser # owner[callback[c].state] \/ callback[c].late]_vars

\* The bound is exact: the memory store never keeps more than max logins, and
\* "new sign-ins fail until older ones finish or expire", that is, a login is
\* refused only if Max others are unexpired (Put).
BoundIsExact ==
    [][store = "memory" =>
         /\ Cardinality({s \in States : pending'[s] # None}) <= Max
         /\ \A s \in States :
              owner[s] = None /\ owner'[s] # None /\ pending'[s] = None
              => Cardinality({t \in Stored : ~Expired(t)}) >= Max]_vars
=============================================================================
