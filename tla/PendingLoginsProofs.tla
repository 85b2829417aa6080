------------------------ MODULE PendingLoginsProofs ------------------------
(***************************************************************************)
(* That a login is accepted once, in the browser that began it, and is     *)
(* refused there only because of another login of that browser: for any    *)
(* number of browsers, logins and callbacks, on either store.              *)
(*                                                                         *)
(* The right to finish the login of a state exists once: as the pending    *)
(* entry, then as a callback that has taken it, then as its acceptance     *)
(* (ClaimInv).  A browser's cookie, and the nonce a callback came with,    *)
(* name a login of that browser (CookieInv).  Unless its browser has begun *)
(* or finished another login, the cookie of a login is there for as long   *)
(* as the pending entry, so a callback that came without it came too late  *)
(* (CauseInv).                                                             *)
(***************************************************************************)
EXTENDS PendingLogins, TLAPS, FiniteSetTheorems

Begun(s) == owner[s] # None
Serving(c) == callback[c].pc # "idle"
Claims(c, s) == callback[c].pc = "taken" /\ callback[c].state = s

\* Who may still finish the login of a state.
ClaimInv ==
    \A s \in States :
        /\ ~Begun(s) => pending[s] = None /\ accepted[s] = {}
        /\ pending[s] # None => /\ accepted[s] = {}
                                /\ \A c \in Callbacks : ~Claims(c, s)
        /\ \A c \in Callbacks : Claims(c, s) =>
              accepted[s] = {} /\ \A d \in Callbacks : Claims(d, s) => d = c
        /\ \A x, y \in accepted[s] : x = y

\* Whose login a nonce names.
CookieInv ==
    /\ \A b \in Browsers : cookie[b].nonce # None => owner[cookie[b].nonce] = b
    /\ \A c \in Callbacks : Serving(c) =>
         /\ callback[c].state \in States /\ callback[c].browser \in Browsers
         /\ Begun(callback[c].state)
         /\ callback[c].nonce # None => owner[callback[c].nonce] = callback[c].browser
         /\ callback[c].pc = "accepted" => callback[c].nonce = callback[c].state

\* What a login can rely on until its browser turns to another one.
CauseInv ==
    /\ \A s \in States : Begun(s) /\ s \notin ousted /\ pending[s] # None =>
         cookie[owner[s]] = [nonce |-> s, until |-> pending[s] + TTL]
    /\ \A c \in Callbacks :
         Serving(c) /\ ~callback[c].late
         /\ callback[c].browser = owner[callback[c].state]
         /\ callback[c].nonce # callback[c].state =>
              /\ callback[c].pc = "sent" /\ pending[callback[c].state] # None
                   => Expired(callback[c].state)
              /\ callback[c].pc # "taken"

IInv == TypeOK /\ ClaimInv /\ CookieInv /\ CauseInv

----------------------------------------------------------------------------
\* Put stores the state or not, and may drop others; the entry is as old as now.
LEMMA PutStores ==
    ASSUME TypeOK, NEW s \in States, Put(s)
    PROVE  /\ pending' \in [States -> Nat \cup {None}]
           /\ pending'[s] \in {now, pending[s], None}
           /\ \A t \in States \ {s} : pending'[t] \in {pending[t], None}
<1> DEFINE room == IF AtLimit(Cardinality(Stored)) THEN Swept ELSE pending
<1>1. /\ room \in [States -> Nat \cup {None}]
      /\ \A t \in States : room[t] \in {pending[t], None}
  BY DEF TypeOK, Swept
<1>2. pending' = room \/ pending' = [room EXCEPT ![s] = now]
  BY DEF Put
<1>3. now \in Nat
  BY DEF TypeOK
<1> QED
  BY <1>1, <1>2, <1>3

\* A callback that moves on keeps what it came with.
LEMMA Moved ==
    ASSUME TypeOK, NEW c \in Callbacks, NEW p \in {"taken", "accepted", "refused"},
           callback' = [callback EXCEPT ![c].pc = p]
    PROVE  /\ callback' \in [Callbacks ->
                [pc: {"idle", "sent", "taken", "accepted", "refused"},
                 browser: Browsers \cup {None}, state: States \cup {None},
                 nonce: States \cup {None}, late: BOOLEAN]]
           /\ callback'[c].pc = p
           /\ \A d \in Callbacks :
                /\ d # c => callback'[d] = callback[d]
                /\ callback'[d].browser = callback[d].browser
                /\ callback'[d].state = callback[d].state
                /\ callback'[d].nonce = callback[d].nonce /\ callback'[d].late = callback[d].late
BY DEF TypeOK

LEMMA Initially == Init => IInv
<1> SUFFICES ASSUME Init PROVE IInv
  OBVIOUS
<1>1. TypeOK
  BY PendingLoginsAssumption DEF Init, TypeOK, NoCookie, NoCallback
<1>2. ClaimInv
  BY DEF Init, ClaimInv, Claims, NoCallback
<1>3. CookieInv
  BY DEF Init, CookieInv, Serving, NoCookie, NoCallback
<1>4. CauseInv
  BY DEF Init, CauseInv, Begun, Serving, NoCallback
<1> QED
  BY <1>1, <1>2, <1>3, <1>4 DEF IInv

\* /login: the state is new, and the cookie and the entry have the same age.
LEMMA LoginStep ==
    ASSUME IInv, NEW s \in States, NEW b \in Browsers, Login(b, s)
    PROVE  IInv'
<1>1. /\ TypeOK /\ ClaimInv /\ CookieInv /\ CauseInv
      /\ TTL \in Nat /\ None \notin Browsers /\ None \notin States /\ None \notin Nat
  BY PendingLoginsAssumption DEF IInv
<1>2. /\ ~Begun(s) /\ owner' = [owner EXCEPT ![s] = b]
      /\ cookie' = [cookie EXCEPT ![b] = [nonce |-> s, until |-> now + TTL]]
      /\ ousted' = ousted \cup LoginsOf(b)
      /\ UNCHANGED <<store, now, callback, accepted>>
  BY DEF Login, Begin, Begun
<1>3. pending[s] = None /\ accepted[s] = {}
  BY <1>1, <1>2 DEF ClaimInv
<1>4. /\ pending' \in [States -> Nat \cup {None}]
      /\ pending'[s] \in {now, None}
      /\ \A t \in States \ {s} : pending'[t] \in {pending[t], None}
  <2>1. CASE Put(s)
    BY <1>1, <1>3, <2>1, PutStores
  <2>2. CASE UNCHANGED pending
    BY <1>1, <1>3, <2>2 DEF TypeOK
  <2> QED
    BY <2>1, <2>2 DEF Login
<1>5. TypeOK'
  <2>1. owner' \in [States -> Browsers \cup {None}]
    BY <1>1, <1>2 DEF TypeOK
  <2>2. cookie' \in [Browsers -> [nonce: States \cup {None}, until: Nat]]
    <3>1. [nonce |-> s, until |-> now + TTL] \in [nonce: States \cup {None}, until: Nat]
      BY <1>1 DEF TypeOK
    <3> QED
      BY <1>1, <1>2, <3>1 DEF TypeOK
  <2>3. ousted' \in SUBSET States
    BY <1>1, <1>2 DEF TypeOK, LoginsOf
  <2> QED
    BY <1>1, <1>2, <1>4, <2>1, <2>2, <2>3 DEF TypeOK
<1>6. \A t \in States : owner'[t] = IF t = s THEN b ELSE owner[t]
  BY <1>1, <1>2 DEF TypeOK
<1>7. \A c \in Callbacks : Serving(c) => callback[c].state # s
  BY <1>1, <1>2 DEF CookieInv, Begun
<1>8. ClaimInv'
  <2>1. \A c \in Callbacks : ~Claims(c, s)
    BY <1>7 DEF Claims, Serving
  <2>2. \A t \in States : Begun(t)' <=> (t = s \/ Begun(t))
    BY <1>1, <1>6 DEF Begun
  <2>3. \A c \in Callbacks, t \in States : Claims(c, t)' <=> Claims(c, t)
    BY <1>2 DEF Claims
  <2> QED
    BY <1>1, <1>2, <1>3, <1>4, <2>1, <2>2, <2>3 DEF ClaimInv
<1>9. CookieInv'
  <2>1. \A a \in Browsers : cookie'[a] = IF a = b THEN [nonce |-> s, until |-> now + TTL]
                                         ELSE cookie[a]
    BY <1>1, <1>2 DEF TypeOK
  <2>2. \A t \in States : owner[t] # None => owner'[t] = owner[t]
    BY <1>2, <1>6 DEF Begun
  <2>3. ASSUME NEW a \in Browsers, cookie'[a].nonce # None
        PROVE  owner'[cookie'[a].nonce] = a
    BY <1>1, <1>6, <2>1, <2>2, <2>3 DEF CookieInv, TypeOK
  <2>4. ASSUME NEW c \in Callbacks, Serving(c)'
        PROVE  /\ callback[c].state \in States /\ callback[c].browser \in Browsers
               /\ Begun(callback[c].state)'
               /\ callback[c].nonce # None =>
                    owner'[callback[c].nonce] = callback[c].browser
               /\ callback[c].pc = "accepted" => callback[c].nonce = callback[c].state
    BY <1>1, <1>2, <2>2, <2>4 DEF CookieInv, TypeOK, Serving, Begun
  <2> QED
    BY <1>2, <2>3, <2>4 DEF CookieInv, Serving
<1>10. CauseInv'
  <2>1. ASSUME NEW t \in States, Begun(t)', t \notin ousted', pending'[t] # None
        PROVE  cookie'[owner'[t]] = [nonce |-> t, until |-> pending'[t] + TTL]
    <3>1. CASE t = s
      <4>1. owner'[s] = b /\ cookie'[b] = [nonce |-> s, until |-> now + TTL]
        BY <1>1, <1>2, <1>6 DEF TypeOK
      <4> QED
        BY <1>4, <2>1, <3>1, <4>1
    <3>2. CASE t # s
      <4>1. owner'[t] = owner[t] /\ Begun(t) /\ owner[t] \in Browsers
        BY <1>1, <1>6, <2>1, <3>2 DEF Begun, TypeOK
      <4>2. t \notin ousted /\ owner[t] # b
        BY <1>2, <2>1 DEF LoginsOf
      <4>3. pending'[t] = pending[t] /\ pending[t] # None
        BY <1>4, <2>1, <3>2
      <4>4. cookie[owner[t]] = [nonce |-> t, until |-> pending[t] + TTL]
        BY <1>1, <4>1, <4>2, <4>3, Zenon DEF CauseInv
      <4>5. cookie'[owner[t]] = cookie[owner[t]]
        BY <1>1, <1>2, <4>1, <4>2 DEF TypeOK
      <4> QED
        BY <4>1, <4>3, <4>4, <4>5
    <3> QED
      BY <3>1, <3>2
  <2>2. ASSUME NEW c \in Callbacks, Serving(c), ~callback[c].late,
               callback[c].browser = owner'[callback[c].state],
               callback[c].nonce # callback[c].state
        PROVE  /\ callback[c].pc = "sent" /\ pending'[callback[c].state] # None
                    => Expired(callback[c].state)'
               /\ callback[c].pc # "taken"
    <3>1. callback[c].state \in States /\ callback[c].state # s
      BY <1>1, <1>7, <2>2 DEF CookieInv
    <3>2. /\ owner'[callback[c].state] = owner[callback[c].state]
          /\ pending'[callback[c].state] # None =>
               pending'[callback[c].state] = pending[callback[c].state]
      BY <1>4, <1>6, <3>1
    <3>3. /\ callback[c].pc = "sent" /\ pending[callback[c].state] # None
               => Expired(callback[c].state)
          /\ callback[c].pc # "taken"
      BY <1>1, <2>2, <3>2 DEF CauseInv
    <3> QED
      BY <1>2, <3>2, <3>3 DEF Expired
  <2> QED
    BY <1>2, <2>1, <2>2 DEF CauseInv, Serving
<1> QED
  BY <1>5, <1>8, <1>9, <1>10 DEF IInv

\* A callback comes with the cookie its browser has, unless that has expired.
LEMMA RequestStep ==
    ASSUME IInv, NEW s \in States, NEW b \in Browsers, NEW c \in Callbacks,
           Request(c, b, s)
    PROVE  IInv'
<1> DEFINE n == IF cookie[b].until >= now THEN cookie[b].nonce ELSE None
<1>1. /\ TypeOK /\ ClaimInv /\ CookieInv /\ CauseInv
      /\ TTL \in Nat /\ None \notin Browsers /\ None \notin States /\ None \notin Nat
  BY PendingLoginsAssumption DEF IInv
<1>2. /\ callback[c].pc = "idle" /\ Begun(s)
      /\ callback' = [callback EXCEPT ![c] =
           [pc |-> "sent", browser |-> b, state |-> s, nonce |-> n,
            late |-> s \in ousted]]
      /\ UNCHANGED <<store, now, pending, owner, cookie, accepted, ousted>>
  BY DEF Request, Begun
<1>3. n \in States \cup {None} /\ n \in {cookie[b].nonce, None}
  BY <1>1 DEF TypeOK
<1>4. \A d \in Callbacks : callback'[d] =
        IF d = c THEN [pc |-> "sent", browser |-> b, state |-> s, nonce |-> n,
                       late |-> s \in ousted]
        ELSE callback[d]
  BY <1>1, <1>2 DEF TypeOK
<1>5. TypeOK'
  <2> HIDE DEF n
  <2> QED
    BY <1>1, <1>2, <1>3 DEF TypeOK
<1>6. ClaimInv'
  <2>1. \A d \in Callbacks, t \in States : Claims(d, t)' <=> Claims(d, t)
    BY <1>2, <1>4 DEF Claims
  <2> QED
    BY <1>1, <1>2, <2>1 DEF ClaimInv, Begun
<1>7. CookieInv'
  <2> HIDE DEF n
  <2> QED
    BY <1>1, <1>2, <1>3, <1>4 DEF CookieInv, Serving, Begun
<1>8. CauseInv'
  <2>1. ASSUME s \notin ousted, n # s, b = owner[s], pending[s] # None PROVE Expired(s)
    <3>1. cookie[b] = [nonce |-> s, until |-> pending[s] + TTL]
      BY <1>1, <1>2, <2>1 DEF CauseInv
    <3>2. ~(pending[s] + TTL >= now)
      BY <2>1, <3>1
    <3> QED
      BY <1>1, <2>1, <3>2 DEF Expired, TypeOK
  <2> HIDE DEF n
  <2>2. ASSUME NEW d \in Callbacks, Serving(d)', ~callback'[d].late,
               callback'[d].browser = owner[callback'[d].state],
               callback'[d].nonce # callback'[d].state
        PROVE  /\ callback'[d].pc = "sent" /\ pending[callback'[d].state] # None
                    => Expired(callback'[d].state)
               /\ callback'[d].pc # "taken"
    <3>1. CASE d = c
      <4> DEFINE l == s \in ousted
      <4>0. callback'[d] = [pc |-> "sent", browser |-> b, state |-> s, nonce |-> n,
                            late |-> l]
        BY <1>4, <3>1
      <4> HIDE DEF l
      <4>1. /\ callback'[d].pc = "sent" /\ callback'[d].state = s
            /\ callback'[d].browser = b /\ callback'[d].nonce = n
            /\ callback'[d].late = l
        BY <4>0
      <4> USE DEF l
      <4> QED
        BY <2>1, <2>2, <4>1
    <3>2. CASE d # c
      <4>1. callback'[d] = callback[d] /\ Serving(d)
        BY <1>4, <2>2, <3>2 DEF Serving
      <4> QED
        BY <1>1, <2>2, <4>1 DEF CauseInv
    <3> QED
      BY <3>1, <3>2
  <2>3. \A t \in States : Begun(t)' <=> Begun(t)
    BY <1>2 DEF Begun
  <2> QED
    BY <1>1, <1>2, <2>2, <2>3 DEF CauseInv, Expired
<1> QED
  BY <1>5, <1>6, <1>7, <1>8 DEF IInv

\* Take moves the right from the entry to the callback, or drops it.
LEMMA TakeStep ==
    ASSUME IInv, NEW c \in Callbacks, Take(c) \/ TakeFails(c)
    PROVE  IInv'
<1> DEFINE s == callback[c].state
<1>1. /\ TypeOK /\ ClaimInv /\ CookieInv /\ CauseInv
      /\ TTL \in Nat /\ None \notin Browsers /\ None \notin States /\ None \notin Nat
  BY PendingLoginsAssumption DEF IInv
<1>2. callback[c].pc = "sent" /\ UNCHANGED <<store, now, owner, cookie, accepted, ousted>>
  BY DEF Take, TakeFails
<1>3. s \in States /\ Begun(s)
  BY <1>1, <1>2 DEF CookieInv, Serving
<1>4. PICK p \in {"taken", "refused"} :
        /\ callback' = [callback EXCEPT ![c].pc = p]
        /\ \/ pending' = [pending EXCEPT ![s] = None]
           \/ p = "refused" /\ pending' = pending
        /\ p = "taken" => pending[s] # None /\ ~Expired(s)
                          /\ pending' = [pending EXCEPT ![s] = None]
  BY <1>3 DEF Take, TakeFails, Stored
<1>5. /\ pending' \in [States -> Nat \cup {None}]
      /\ \A t \in States : pending'[t] \in {pending[t], None}
      /\ p = "taken" => pending'[s] = None
  BY <1>1, <1>3, <1>4 DEF TypeOK
<1>6. /\ callback' \in [Callbacks ->
           [pc: {"idle", "sent", "taken", "accepted", "refused"},
            browser: Browsers \cup {None}, state: States \cup {None},
            nonce: States \cup {None}, late: BOOLEAN]]
      /\ callback'[c].pc = p
      /\ \A d \in Callbacks :
           /\ d # c => callback'[d] = callback[d]
           /\ callback'[d].browser = callback[d].browser
           /\ callback'[d].state = callback[d].state
           /\ callback'[d].nonce = callback[d].nonce /\ callback'[d].late = callback[d].late
  <2>1. p \in {"taken", "accepted", "refused"}
    OBVIOUS
  <2> QED
    BY <1>1, <1>4, <2>1, Moved, Zenon
<1> HIDE DEF s
<1>7. TypeOK'
  BY <1>1, <1>2, <1>5, <1>6 DEF TypeOK
<1>8. ClaimInv'
  <2>1. \A d \in Callbacks, t \in States :
          Claims(d, t)' => Claims(d, t) \/ (d = c /\ t = s /\ p = "taken")
    BY <1>6 DEF Claims, s
  <2>2. p = "taken" => accepted[s] = {} /\ \A d \in Callbacks : ~Claims(d, s)
    BY <1>1, <1>3, <1>4 DEF ClaimInv
  <2>3. \A t \in States : Begun(t)' <=> Begun(t)
    BY <1>2 DEF Begun
  <2> QED
    BY <1>1, <1>2, <1>5, <2>1, <2>2, <2>3 DEF ClaimInv
<1>9. CookieInv'
  BY <1>1, <1>2, <1>6 DEF CookieInv, Serving, Begun
<1>10. CauseInv'
  <2>1. ASSUME NEW t \in States, Begun(t)', t \notin ousted', pending'[t] # None
        PROVE  cookie'[owner'[t]] = [nonce |-> t, until |-> pending'[t] + TTL]
    BY <1>1, <1>2, <1>5, <2>1 DEF CauseInv, Begun
  <2>2. ASSUME NEW d \in Callbacks, Serving(d)', ~callback[d].late,
               callback[d].browser = owner[callback[d].state],
               callback[d].nonce # callback[d].state
        PROVE  /\ callback'[d].pc = "sent" /\ pending'[callback[d].state] # None
                    => Expired(callback[d].state)'
               /\ callback'[d].pc # "taken"
    <3>1. Serving(d)
      BY <1>2, <1>6, <2>2 DEF Serving
    <3>2. /\ callback[d].pc = "sent" /\ pending[callback[d].state] # None
               => Expired(callback[d].state)
          /\ callback[d].pc # "taken" /\ callback[d].state \in States
      BY <1>1, <2>2, <3>1 DEF CauseInv, CookieInv
    <3>3. CASE d = c
      BY <1>2, <1>4, <1>6, <3>2, <3>3 DEF s
    <3>4. CASE d # c
      BY <1>2, <1>5, <1>6, <3>2, <3>4 DEF Expired
    <3> QED
      BY <3>3, <3>4
  <2> QED
    BY <1>2, <1>6, <2>1, <2>2 DEF CauseInv
<1> QED
  BY <1>7, <1>8, <1>9, <1>10 DEF IInv

\* Verify moves it from the callback to the acceptance, or drops it.
LEMMA VerifyStep ==
    ASSUME IInv, NEW c \in Callbacks, Verify(c)
    PROVE  IInv'
<1> DEFINE s == callback[c].state
           b == callback[c].browser
<1>1. /\ TypeOK /\ ClaimInv /\ CookieInv /\ CauseInv
      /\ TTL \in Nat /\ None \notin Browsers /\ None \notin States /\ None \notin Nat
  BY PendingLoginsAssumption DEF IInv
<1>2. /\ callback[c].pc = "taken" /\ UNCHANGED <<store, now, pending, owner>>
      /\ cookie' = [cookie EXCEPT ![b] = NoCookie]
      /\ ousted' = ousted \cup (LoginsOf(b) \ {s})
  BY DEF Verify
<1>3. /\ s \in States /\ b \in Browsers
      /\ pending[s] = None /\ accepted[s] = {}
      /\ \A d \in Callbacks : Claims(d, s) => d = c
  <2>1. Serving(c) /\ Claims(c, s)
    BY <1>2 DEF Serving, Claims
  <2>2. s \in States /\ b \in Browsers
    BY <1>1, <2>1 DEF CookieInv
  <2> QED
    BY <1>1, <2>1, <2>2, Zenon DEF ClaimInv
<1>4. PICK p \in {"accepted", "refused"} :
        /\ callback' = [callback EXCEPT ![c].pc = p]
        /\ p = "accepted" => /\ callback[c].nonce = s
                             /\ accepted' = [accepted EXCEPT ![s] = @ \cup {<<c, now>>}]
        /\ p = "refused" => accepted' = accepted
  BY Zenon DEF Verify
<1>5. /\ callback' \in [Callbacks ->
           [pc: {"idle", "sent", "taken", "accepted", "refused"},
            browser: Browsers \cup {None}, state: States \cup {None},
            nonce: States \cup {None}, late: BOOLEAN]]
      /\ callback'[c].pc = p
      /\ \A d \in Callbacks :
           /\ d # c => callback'[d] = callback[d]
           /\ callback'[d].browser = callback[d].browser
           /\ callback'[d].state = callback[d].state
           /\ callback'[d].nonce = callback[d].nonce /\ callback'[d].late = callback[d].late
  <2>1. p \in {"taken", "accepted", "refused"}
    OBVIOUS
  <2> QED
    BY <1>1, <1>4, <2>1, Moved, Zenon
<1>6. /\ accepted' \in [States -> SUBSET (Callbacks \X Nat)]
      /\ \A t \in States : t # s => accepted'[t] = accepted[t]
      /\ accepted'[s] \in {{}, {<<c, now>>}}
  <2>1. accepted \in [States -> SUBSET (Callbacks \X Nat)] /\ <<c, now>> \in Callbacks \X Nat
    BY <1>1 DEF TypeOK
  <2>2. CASE p = "refused"
    BY <1>3, <1>4, <2>1, <2>2
  <2>3. CASE p = "accepted"
    <3>1. accepted' = [accepted EXCEPT ![s] = {<<c, now>>}]
      BY <1>3, <1>4, <2>3
    <3> QED
      BY <1>3, <2>1, <3>1
  <2> QED
    BY <2>2, <2>3
<1>7. /\ cookie' \in [Browsers -> [nonce: States \cup {None}, until: Nat]]
      /\ \A a \in Browsers : cookie'[a] \in {cookie[a], NoCookie}
      /\ NoCookie.nonce = None
  BY <1>1, <1>2, <1>3 DEF TypeOK, NoCookie
<1> HIDE DEF s, b
<1>8. TypeOK'
  <2>1. ousted' \in SUBSET States
    BY <1>1, <1>2 DEF TypeOK, LoginsOf
  <2> QED
    BY <1>1, <1>2, <1>5, <1>6, <1>7, <2>1 DEF TypeOK
<1>9. ClaimInv'
  <2>1. \A d \in Callbacks, t \in States : Claims(d, t)' => d # c /\ Claims(d, t)
    BY <1>5 DEF Claims
  <2>2. \A d \in Callbacks, t \in States : t = s => ~Claims(d, t)'
    BY <1>3, <2>1, Zenon
  <2>3. \A t \in States : Begun(t)' <=> Begun(t)
    BY <1>2 DEF Begun
  <2>4. Begun(s)
    BY <1>1, <1>2 DEF CookieInv, Serving, s
  <2> QED
    BY <1>1, <1>2, <1>3, <1>6, <2>1, <2>2, <2>3, <2>4 DEF ClaimInv
<1>10. CookieInv'
  BY <1>1, <1>2, <1>4, <1>5, <1>7 DEF CookieInv, Serving, Begun, s
<1>11. CauseInv'
  <2>1. ASSUME NEW t \in States, Begun(t)', t \notin ousted', pending'[t] # None
        PROVE  cookie'[owner'[t]] = [nonce |-> t, until |-> pending'[t] + TTL]
    <3>1. Begun(t) /\ t \notin ousted /\ t # s /\ owner[t] # b
      BY <1>2, <1>3, <2>1 DEF Begun, LoginsOf
    <3>2. cookie'[owner[t]] = cookie[owner[t]]
      BY <1>1, <1>2, <3>1 DEF TypeOK, Begun
    <3> QED
      BY <1>1, <1>2, <2>1, <3>1, <3>2 DEF CauseInv
  <2>2. ASSUME NEW d \in Callbacks, Serving(d)', ~callback[d].late,
               callback[d].browser = owner[callback[d].state],
               callback[d].nonce # callback[d].state
        PROVE  /\ callback'[d].pc = "sent" /\ pending[callback[d].state] # None
                    => Expired(callback[d].state)
               /\ callback'[d].pc # "taken"
    <3>1. CASE d = c
      BY <1>5, <3>1
    <3>2. CASE d # c
      <4>1. Serving(d) /\ callback'[d] = callback[d]
        BY <1>5, <2>2, <3>2 DEF Serving
      <4> QED
        BY <1>1, <2>2, <4>1 DEF CauseInv
    <3> QED
      BY <3>1, <3>2
  <2> QED
    BY <1>2, <1>5, <2>1, <2>2 DEF CauseInv, Expired
<1> QED
  BY <1>8, <1>9, <1>10, <1>11 DEF IInv

\* What has expired may be dropped, a callback be over and time pass.
LEMMA OtherStep ==
    ASSUME IInv, (\E c \in Callbacks : Done(c)) \/ Sweep \/ Tick
    PROVE  IInv'
<1>1. /\ TypeOK /\ ClaimInv /\ CookieInv /\ CauseInv
      /\ TTL \in Nat /\ None \notin Browsers /\ None \notin States /\ None \notin Nat
  BY PendingLoginsAssumption DEF IInv
<1>2. /\ UNCHANGED <<store, owner, cookie, accepted, ousted>>
      /\ now' \in Nat /\ now' >= now
      /\ pending' \in [States -> Nat \cup {None}]
      /\ \A t \in States : pending'[t] \in {pending[t], None}
  BY <1>1 DEF Done, Sweep, Tick, Swept, TypeOK
<1>3. /\ callback' \in [Callbacks ->
           [pc: {"idle", "sent", "taken", "accepted", "refused"},
            browser: Browsers \cup {None}, state: States \cup {None},
            nonce: States \cup {None}, late: BOOLEAN]]
      /\ \A d \in Callbacks : callback'[d] = callback[d] \/ ~Serving(d)'
  <2>1. CASE callback' = callback
    BY <1>1, <2>1 DEF TypeOK
  <2>2. CASE \E c \in Callbacks : Done(c)
    <3>1. PICK c \in Callbacks : callback' = [callback EXCEPT ![c] = NoCallback]
      BY <2>2 DEF Done
    <3>2. NoCallback \in
            [pc: {"idle", "sent", "taken", "accepted", "refused"},
             browser: Browsers \cup {None}, state: States \cup {None},
             nonce: States \cup {None}, late: BOOLEAN] /\ NoCallback.pc = "idle"
      BY DEF NoCallback
    <3> QED
      BY <1>1, <3>1, <3>2 DEF TypeOK, Serving
  <2> QED
    BY <2>1, <2>2 DEF Sweep, Tick
<1>4. TypeOK'
  BY <1>1, <1>2, <1>3 DEF TypeOK
<1>5. ClaimInv'
  <2>1. \A d \in Callbacks, t \in States : Claims(d, t)' => Claims(d, t)
    BY <1>3 DEF Claims, Serving
  <2>2. \A t \in States : Begun(t)' <=> Begun(t)
    BY <1>2 DEF Begun
  <2> QED
    BY <1>1, <1>2, <2>1, <2>2 DEF ClaimInv
<1>6. CookieInv'
  BY <1>1, <1>2, <1>3 DEF CookieInv, Serving, Begun
<1>7. CauseInv'
  <2>1. ASSUME NEW t \in States, Begun(t)', t \notin ousted', pending'[t] # None
        PROVE  cookie'[owner'[t]] = [nonce |-> t, until |-> pending'[t] + TTL]
    BY <1>1, <1>2, <2>1 DEF CauseInv, Begun
  <2>2. \A c \in Callbacks : Serving(c)' => callback'[c] = callback[c] /\ Serving(c)
    BY <1>3 DEF Serving
  <2>3. ASSUME NEW c \in Callbacks, Serving(c), ~callback[c].late,
               callback[c].browser = owner[callback[c].state],
               callback[c].nonce # callback[c].state
        PROVE  /\ callback[c].pc = "sent" /\ pending'[callback[c].state] # None
                    => now' - pending'[callback[c].state] > TTL
               /\ callback[c].pc # "taken"
    <3>1. /\ callback[c].pc = "sent" /\ pending[callback[c].state] # None
               => now - pending[callback[c].state] > TTL
          /\ callback[c].pc # "taken" /\ callback[c].state \in States
      BY <1>1, <2>3 DEF CauseInv, CookieInv, Expired
    <3> QED
      BY <1>1, <1>2, <3>1 DEF TypeOK
  <2> QED
    BY <1>2, <2>1, <2>2, <2>3 DEF CauseInv, Expired
<1> QED
  BY <1>4, <1>5, <1>6, <1>7 DEF IInv

LEMMA Inductive == IInv /\ [Next]_vars => IInv'
<1> SUFFICES ASSUME IInv, [Next]_vars PROVE IInv'
  OBVIOUS
<1>1. CASE UNCHANGED vars
  BY <1>1 DEF vars, IInv, TypeOK, ClaimInv, CookieInv, CauseInv, Begun,
              Serving, Claims, Expired
<1>2. CASE Next
  BY <1>2, LoginStep, RequestStep, TakeStep, VerifyStep, OtherStep, Zenon DEF Next
<1> QED
  BY <1>1, <1>2

----------------------------------------------------------------------------
\* The invariant of the pending logins, for any constants.
THEOREM LoginInvariance == Spec => []IInv
<1> QED
  BY Initially, Inductive, PTL DEF Spec

\* A login is accepted once (AcceptedOnce): Take returns and removes the entry in
\* one step, so that the right to finish a login exists once.
THEOREM LoginAcceptedOnce == Spec => []AcceptedOnce
<1>1. IInv => AcceptedOnce
  <2> SUFFICES ASSUME IInv, NEW s \in States PROVE Cardinality(accepted[s]) <= 1
    BY DEF AcceptedOnce
  <2>1. \A x, y \in accepted[s] : x = y
    BY DEF IInv, ClaimInv
  <2>2. CASE accepted[s] = {}
    BY <2>2, FS_EmptySet
  <2>3. CASE accepted[s] # {}
    <3>1. PICK x \in accepted[s] : accepted[s] = {x}
      BY <2>1, <2>3, Zenon
    <3> QED
      BY <3>1, FS_Singleton
  <2> QED
    BY <2>2, <2>3
<1> QED
  BY <1>1, LoginInvariance, PTL

\* Only the browser that began a login finishes it (BoundToBrowser): the nonce
\* that Verify compares is from a cookie that Begin gave to that browser.
THEOREM LoginBoundToBrowser == Spec => []BoundToBrowser
<1>1. IInv => BoundToBrowser
  <2> SUFFICES ASSUME IInv, NEW c \in Callbacks, callback[c].pc = "accepted"
               PROVE  callback[c].browser = owner[callback[c].state]
    BY DEF BoundToBrowser
  <2>1. /\ callback[c].nonce = callback[c].state /\ callback[c].state \in States
        /\ callback[c].nonce # None => owner[callback[c].nonce] = callback[c].browser
    BY DEF IInv, CookieInv, Serving
  <2> QED
    BY <2>1, PendingLoginsAssumption
<1> QED
  BY <1>1, LoginInvariance, PTL

\* Verify refuses the browser that began a login only if that browser had begun or
\* finished another login before it requested the callback (RefusedForCause):
\* cookie and entry expire together, and nothing another browser does reaches it.
THEOREM LoginRefusedForCause == Spec => RefusedForCause
<1>1. IInv /\ [Next]_vars =>
        [\A c \in Callbacks :
           callback[c].pc = "taken" /\ callback'[c].pc = "refused" =>
             callback[c].browser # owner[callback[c].state] \/ callback[c].late]_vars
  <2> SUFFICES ASSUME IInv, Next, NEW c \in Callbacks,
                      callback[c].pc = "taken", callback'[c].pc = "refused",
                      callback[c].browser = owner[callback[c].state]
               PROVE  callback[c].late
    BY DEF vars
  <2>1. callback[c].nonce # callback[c].state
    <3>1. callback \in [Callbacks -> [pc: {"idle", "sent", "taken", "accepted", "refused"},
              browser: Browsers \cup {None}, state: States \cup {None},
              nonce: States \cup {None}, late: BOOLEAN]]
      BY DEF IInv, TypeOK
    <3>2. PICK d \in Callbacks : Take(d) \/ TakeFails(d) \/ Verify(d) \/ Done(d)
                                 \/ \E b \in Browsers, s \in States : Request(d, b, s)
      BY DEF Next, Login, Sweep, Tick
    <3>3. d = c /\ Verify(c)
      BY <3>1, <3>2 DEF Request, Take, TakeFails, Verify, Done, NoCallback
    <3> QED
      BY <3>1, <3>3 DEF Verify
  <2> QED
    BY <2>1 DEF IInv, CauseInv, Serving
<1> QED
  BY <1>1, LoginInvariance, PTL DEF Spec, RefusedForCause
=============================================================================
