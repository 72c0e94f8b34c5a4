-------------------------- MODULE RateLimitProofs --------------------------
(***************************************************************************)
(* The guarantees of the rate limiter for every limit, every number of     *)
(* identities, requests and minutes, and every combination of failures.    *)
(***************************************************************************)
EXTENDS RateLimit, TLAPS

(* An idle request is a request, and a request names a slot.               *)
LEMMA IdleType == Idle \in Request
<1>1. (CHOOSE i \in Identities : TRUE) \in Identities
  BY LimitAssumption
<1>2. 0 \in Windows
  BY LimitAssumption DEF Windows
<1> QED BY <1>1, <1>2 DEF Idle, Request

(* The key of a request is one of the counters' keys.                      *)
LEMMA KeyIsSlot ==
    ASSUME NEW q \in Request
    PROVE  /\ KeyOf(q) = SlotOf(q) /\ SlotOf(q) \in Slot
           /\ SlotOf(q)[2] = q.window /\ q.window \in Windows
BY DEF Request, KeyOf, SlotOf, ratelimit_key, Slot

(* What INCR and EXPIRE leave under a key.                                 *)
LEMMA IncrementedType ==
    ASSUME NEW c \in Counter \union {None}
    PROVE  /\ Incremented(c) \in Counter
           /\ Incremented(c).count = IF c = None THEN 1 ELSE c.count + 1
           /\ c # None => Incremented(c).left = c.left /\ Incremented(c).leaked = c.leaked
<1>1. ASSUME NEW b \in BOOLEAN PROVE [count |-> 1, left |-> None, leaked |-> b] \in Counter
  BY DEF Counter
<1>2. FALSE \in BOOLEAN
  OBVIOUS
<1>3. CASE c = None
  BY <1>1, <1>2, <1>3, Zenon DEF Incremented
<1>4. CASE c # None
  BY <1>4 DEF Incremented, Counter
<1> QED BY <1>3, <1>4

(* A counter that INCR creates is well formed.                             *)
LEMMA FreshCounter ==
    ASSUME NEW b \in BOOLEAN
    PROVE  LET c == [count |-> 1, left |-> None, leaked |-> b] IN
           c \in Counter /\ c.count = 1 /\ c.left = None /\ c.leaked = b
BY DEF Counter

(* Telling a request its outcome keeps the tallies' types.                 *)
LEMMA ToldType ==
    ASSUME NEW t \in Tally, NEW n \in Nat
    PROVE  /\ Told(t, n) \in Tally
           /\ Told(t, n).made = t.made + 1 /\ Told(t, n).quota = t.quota
           /\ Told(t, n).granted = IF n > rate_limit_per_minute THEN t.granted ELSE t.granted + 1
           /\ Told(t, n).refused = IF n > rate_limit_per_minute THEN t.refused + 1 ELSE t.refused
<1>1. t.made + 1 \in Nat /\ t.granted \in Nat /\ t.refused \in Nat /\ t.quota \in Nat
  BY DEF Tally
<1> QED BY <1>1 DEF Told, Tally, Refused

(* The ageing of a counter keeps its type.                                 *)
LEMMA OlderType ==
    ASSUME NEW c \in Counter \union {None}
    PROVE  /\ Older(c) \in Counter \union {None}
           /\ Older(c) # None => /\ c # None /\ Older(c).count = c.count
                                 /\ Older(c).leaked = c.leaked
                                 /\ c.left = None => Older(c).left = None
                                 /\ c.left # None => Older(c).left # None /\ Older(c).left = c.left - 1
           /\ Older(c) = None /\ c # None => c.left = 1
<1>1. CASE c = None
  BY <1>1 DEF Older
<1>2. CASE c # None /\ c.left = None
  BY <1>2, NoneAssumption DEF Older
<1>3. CASE c # None /\ c.left # None
  <2>1. c.left \in 1..ExpireTicks /\ ExpireTicks \in Nat /\ None \notin Nat
    BY <1>3, LimitAssumption DEF Counter
  <2>2. CASE c.left = 1
    BY <1>3, <2>2 DEF Older
  <2>3. CASE c.left # 1
    <3>1. c.left - 1 \in 1..ExpireTicks /\ c.left - 1 # None
      BY <2>1, <2>3
    <3>2. /\ [c EXCEPT !.left = c.left - 1] \in Counter
          /\ [c EXCEPT !.left = c.left - 1].count = c.count
          /\ [c EXCEPT !.left = c.left - 1].leaked = c.leaked
          /\ [c EXCEPT !.left = c.left - 1].left = c.left - 1
      BY <1>3, <3>1 DEF Counter
    <3>3. Older(c) = [c EXCEPT !.left = c.left - 1]
      BY <1>3, <2>3 DEF Older
    <3>4. Older(c) # None
      BY <3>2, <3>3, NoneAssumption
    <3>5. Older(c) \in Counter /\ Older(c).count = c.count /\ Older(c).leaked = c.leaked
      BY <3>2, <3>3, Zenon
    <3>6. Older(c).left = c.left - 1
      BY <3>2, <3>3
    <3> QED BY <1>3, <3>1, <3>4, <3>5, <3>6
  <2> QED BY <2>2, <2>3
<1> QED BY <1>1, <1>2, <1>3

----------------------------------------------------------------------------
(* A step that replaces one counter, one tally and one request by others   *)
(* of their types preserves the types.                                     *)
LEMMA TypeStep == TypeOK /\ [Next]_vars => TypeOK'
<1> SUFFICES ASSUME TypeOK, [Next]_vars PROVE TypeOK'
  OBVIOUS
<1>a. /\ \A r \in Requests : req[r] \in Request
      /\ \A s \in Slot : counter[s] \in Counter \union {None} /\ tally[s] \in Tally
  BY DEF TypeOK
<1>b. ASSUME NEW r \in Requests, Finish(r) PROVE req' \in [Requests -> Request]
  BY <1>b, IdleType DEF Finish, TypeOK
<1>c. \A r \in Requests : /\ KeyOf(req[r]) = SlotOf(req[r]) /\ SlotOf(req[r]) \in Slot
  BY <1>a, KeyIsSlot
<1>1. ASSUME NEW r \in Requests, NEW i \in Identities, Start(r, i) PROVE TypeOK'
  <2>1. [pc |-> "incr", identity |-> i, window |-> window, held |-> 0] \in Request
    BY DEF Request, TypeOK
  <2> QED BY <1>1, <2>1 DEF Start, TypeOK
<1>2. ASSUME NEW r \in Requests, Incr(r) PROVE TypeOK'
  <2> DEFINE c == Incremented(counter[KeyOf(req[r])])
  <2>1. c \in Counter /\ c.count \in Nat
    BY <1>a, <1>c, IncrementedType DEF Counter
  <2>2. Told(tally[SlotOf(req[r])], c.count) \in Tally
    BY <1>a, <1>c, <2>1, ToldType
  <2>3. [req[r] EXCEPT !.pc = "expire"] \in Request
    BY <1>a DEF Request
  <2>4. req' \in [Requests -> Request]
    BY <1>2, <1>b, <2>3 DEF Incr, TypeOK
  <2> QED BY <1>2, <1>c, <2>1, <2>2, <2>4 DEF Incr, TypeOK
<1>3. ASSUME NEW r \in Requests, IncrFails(r) PROVE TypeOK'
  <2> DEFINE k == KeyOf(req[r])
  <2>1. req' \in [Requests -> Request]
    BY <1>3, <1>b DEF IncrFails
  <2>2. CASE UNCHANGED <<counter, tally>>
    BY <1>3, <2>1, <2>2 DEF IncrFails, TypeOK
  <2>3. CASE ~ UNCHANGED <<counter, tally>>
    <3> DEFINE c == IF counter[k] = None THEN [count |-> 1, left |-> None, leaked |-> TRUE]
                    ELSE Incremented(counter[k])
               t == [tally[k] EXCEPT !.made = tally[k].made + 1]
    <3>1. c \in Counter
      BY <1>a, <1>c, IncrementedType, FreshCounter
    <3>2. t \in Tally
      BY <1>a, <1>c DEF Tally
    <3>3. counter' = [counter EXCEPT ![k] = c] /\ tally' = [tally EXCEPT ![k] = t]
      BY <1>3, <1>c, <2>3 DEF IncrFails
    <3> HIDE DEF c, t
    <3> QED BY <1>3, <1>c, <2>1, <3>1, <3>2, <3>3 DEF IncrFails, TypeOK
  <2> QED BY <2>2, <2>3
<1>4. ASSUME NEW r \in Requests, Expire(r) PROVE TypeOK'
  <2>1. ASSUME NEW c \in Counter, NEW n \in 1..ExpireTicks
        PROVE  [c EXCEPT !.left = n] \in Counter
    BY DEF Counter
  <2>2. ExpireTicks \in 1..ExpireTicks
    BY LimitAssumption
  <2>3. counter' \in [Slot -> Counter \union {None}]
    BY <1>4, <1>a, <1>c, <2>1, <2>2 DEF Expire, TypeOK
  <2> QED BY <1>4, <1>b, <2>3 DEF Expire, TypeOK
<1>5. ASSUME NEW r \in Requests, RequestLost(r) PROVE TypeOK'
  <2>1. ASSUME NEW c \in Counter PROVE [c EXCEPT !.leaked = TRUE] \in Counter
    <3>1. \A b \in BOOLEAN : [c EXCEPT !.leaked = b] \in Counter
      BY DEF Counter
    <3> QED BY <3>1, Zenon
  <2>3. counter' \in [Slot -> Counter \union {None}]
    BY <1>5, <1>a, <1>c, <2>1 DEF RequestLost, TypeOK
  <2> QED BY <1>5, <1>b, <2>3 DEF RequestLost, TypeOK
<1>6. ASSUME NEW s \in Slot, Evict(s) PROVE TypeOK'
  <2>1. [tally[s] EXCEPT !.quota = tally[s].quota + rate_limit_per_minute] \in Tally
    BY <1>a, LimitAssumption DEF Tally
  <2> QED BY <1>6, <2>1 DEF Evict, TypeOK
<1>7. CASE Tick
  <2>1. \A r \in Requests : [req[r] EXCEPT !.held = req[r].held + 1] \in Request
    BY <1>a DEF Request
  <2>2. req' \in [Requests -> Request]
    BY <1>7, <1>a, <2>1 DEF Tick
  <2>3. counter' \in [Slot -> Counter \union {None}]
    BY <1>7, <1>a, OlderType DEF Tick
  <2>4. age' \in [Windows -> Nat]
    BY <1>7 DEF Tick, TypeOK
  <2> QED BY <1>7, <2>2, <2>3, <2>4 DEF Tick, TypeOK
<1>8. CASE UNCHANGED vars
  BY <1>8 DEF vars, TypeOK
<1> QED BY <1>1, <1>2, <1>3, <1>4, <1>5, <1>6, <1>7, <1>8 DEF Next, Quiet

(* The limiter starts in its types.                                        *)
LEMMA TypeInit == Init => TypeOK
<1>1. 0 \in Windows
  BY LimitAssumption DEF Windows
<1> QED BY <1>1, IdleType, LimitAssumption DEF Init, TypeOK, Tally

----------------------------------------------------------------------------
(* The parts of the inductive invariant.                                   *)

(* The current minute is not over, and later ones have not begun.          *)
Clock ==
    /\ age[window] < WindowTicks
    /\ \A w \in Windows : w > window => age[w] = 0

(* A request inside the middleware began in its minute and has waited no   *)
(* longer than MaxHeld.                                                    *)
Live ==
    \A r \in Requests : req[r].pc # "idle" =>
        /\ req[r].window <= window
        /\ age[req[r].window] < WindowTicks + req[r].held
        /\ req[r].held <= MaxHeld

(* When a counter goes: not before the last request of its minute, and     *)
(* not much later; without an expiry, somebody is about to set one or      *)
(* somebody failed to.                                                     *)
Lifetime ==
    \A s \in Slot : counter[s] # None =>
        /\ s[2] <= window
        /\ counter[s].left # None =>
                /\ ExpireTicks <= age[s[2]] + counter[s].left
                /\ age[s[2]] + counter[s].left < WindowTicks + MaxHeld + ExpireTicks
        /\ counter[s].left = None =>
                \/ counter[s].leaked
                \/ \E r \in Requests : req[r].pc = "expire" /\ SlotOf(req[r]) = s

(* What a counter says has been handed out of one limit.                   *)
Spent(c) == IF c.count < rate_limit_per_minute THEN c.count ELSE rate_limit_per_minute

(* The grants of a slot against its quota, and a whole limit left where a  *)
(* request can still create the counter.                                   *)
SlotQuota(c, t, a) ==
    /\ t.granted <= t.quota
    /\ c = None => t.granted + rate_limit_per_minute <= t.quota \/ a >= WindowTicks + MaxHeld
    /\ c # None => t.granted + rate_limit_per_minute <= t.quota + Spent(c)

Quotas == \A s \in Slot : SlotQuota(counter[s], tally[s], age[s[2]])

SlotOwn(c, t) ==
    /\ t.refused <= t.made
    /\ t.refused > 0 => t.refused + rate_limit_per_minute <= t.made
    /\ c # None => t.refused + Spent(c) <= t.made

Own == \A s \in Slot : SlotOwn(counter[s], tally[s])

----------------------------------------------------------------------------
(* What an INCR does to a slot a request can still reach.                  *)
LEMMA IncrSlot ==
    ASSUME NEW c \in Counter \union {None}, NEW t \in Tally, NEW a \in Nat,
           a < WindowTicks + MaxHeld, SlotQuota(c, t, a), SlotOwn(c, t),
           NEW d \in Counter, d.count = IF c = None THEN 1 ELSE c.count + 1
    PROVE  /\ SlotQuota(d, Told(t, d.count), a) /\ SlotOwn(d, Told(t, d.count))
           /\ SlotQuota(d, [t EXCEPT !.made = t.made + 1], a)
           /\ SlotOwn(d, [t EXCEPT !.made = t.made + 1])
<1> DEFINE u == [t EXCEPT !.made = t.made + 1]
<1>1. /\ u.made = t.made + 1 /\ u.granted = t.granted /\ u.refused = t.refused
      /\ u.quota = t.quota
  BY DEF Tally
<1>2. /\ t.made \in Nat /\ t.granted \in Nat /\ t.refused \in Nat /\ t.quota \in Nat
      /\ d.count \in Nat \ {0} /\ rate_limit_per_minute \in Nat
      /\ c # None => c.count \in Nat \ {0}
      /\ WindowTicks \in Nat /\ MaxHeld \in Nat /\ d # None
  BY LimitAssumption, NoneAssumption DEF Tally, Counter
<1>3. /\ Told(t, d.count).made = t.made + 1 /\ Told(t, d.count).quota = t.quota
      /\ Told(t, d.count).granted =
            IF d.count > rate_limit_per_minute THEN t.granted ELSE t.granted + 1
      /\ Told(t, d.count).refused =
            IF d.count > rate_limit_per_minute THEN t.refused + 1 ELSE t.refused
  BY <1>2, ToldType
<1> HIDE DEF u
<1>4. CASE c = None
  BY <1>1, <1>2, <1>3, <1>4 DEF SlotQuota, SlotOwn, Spent
<1>5. CASE c # None
  BY <1>1, <1>2, <1>3, <1>5 DEF SlotQuota, SlotOwn, Spent
<1> QED BY <1>4, <1>5 DEF u

----------------------------------------------------------------------------
(* Only Tick moves the clock; a request that begins does so in the current *)
(* minute.                                                                 *)
LEMMA ClockStep == TypeOK /\ Clock /\ Live /\ [Next]_vars => Clock' /\ Live'
<1> SUFFICES ASSUME TypeOK, Clock, Live, [Next]_vars PROVE Clock' /\ Live'
  OBVIOUS
<1>a. /\ \A r \in Requests : req[r] \in Request /\ req[r].held \in Nat /\ req[r].window \in Windows
      /\ window \in Windows /\ window \in Nat /\ \A w \in Windows : age[w] \in Nat /\ w \in Nat
      /\ WindowTicks \in Nat \ {0} /\ MaxHeld \in Nat
  BY LimitAssumption DEF TypeOK, Request, Windows
<1>b. ASSUME NEW r \in Requests, Finish(r), UNCHANGED <<window, age>> PROVE Clock' /\ Live'
  <2>1. \A p \in Requests : req'[p] = req[p] \/ req'[p].pc = "idle"
    BY <1>b DEF Finish, Idle, TypeOK
  <2> QED BY <1>b, <2>1 DEF Clock, Live
<1>1. ASSUME NEW r \in Requests, NEW i \in Identities, Start(r, i) PROVE Clock' /\ Live'
  <2>1. \A p \in Requests :
            req'[p] = req[p] \/ (req'[p].pc = "incr" /\ req'[p].window = window /\ req'[p].held = 0)
    BY <1>1 DEF Start, TypeOK
  <2> QED BY <1>1, <1>a, <2>1 DEF Start, Clock, Live
<1>2. ASSUME NEW r \in Requests, Incr(r) PROVE Clock' /\ Live'
  <2>1. CASE Finish(r)
    BY <1>2, <1>b, <2>1 DEF Incr
  <2>2. CASE req' = [req EXCEPT ![r].pc = "expire"]
    <3>1. \A p \in Requests : /\ req'[p].pc # "idle" => req[p].pc # "idle"
                              /\ req'[p].window = req[p].window /\ req'[p].held = req[p].held
      BY <1>2, <1>a, <2>2 DEF Incr, Request, TypeOK
    <3> QED BY <1>2, <3>1 DEF Incr, Clock, Live
  <2> QED BY <1>2, <2>1, <2>2 DEF Incr
<1>3. ASSUME NEW r \in Requests, IncrFails(r) \/ Expire(r) \/ RequestLost(r) PROVE Clock' /\ Live'
  BY <1>3, <1>b DEF IncrFails, Expire, RequestLost
<1>4. ASSUME NEW s \in Slot, Evict(s) PROVE Clock' /\ Live'
  BY <1>4 DEF Evict, Clock, Live
<1>5. CASE Tick
  <2>1. \A w \in Windows : age'[w] = IF w <= window THEN age[w] + 1 ELSE 0
    BY <1>5 DEF Tick
  <2>2. window' \in Windows /\ window' = IF age[window] + 1 = WindowTicks THEN window + 1 ELSE window
    BY <1>5 DEF Tick
  <2>3. Clock'
    <3>1. age'[window'] < WindowTicks
      BY <1>a, <2>1, <2>2 DEF Clock
    <3>2. \A w \in Windows : w > window' => age'[w] = 0
      BY <1>a, <2>1, <2>2
    <3> QED BY <3>1, <3>2 DEF Clock
  <2>4. \A r \in Requests : req'[r].pc # "idle" =>
            /\ req[r].pc # "idle" /\ req'[r].window = req[r].window
            /\ req'[r].held = req[r].held + 1 /\ req[r].held < MaxHeld
    BY <1>5, <1>a DEF Tick, Request
  <2>5. Live'
    <3> SUFFICES ASSUME NEW r \in Requests, req'[r].pc # "idle"
                 PROVE  /\ req'[r].window <= window' /\ age'[req'[r].window] < WindowTicks + req'[r].held
                        /\ req'[r].held <= MaxHeld
      BY DEF Live
    <3>1. /\ req[r].window <= window /\ age[req[r].window] < WindowTicks + req[r].held
          /\ age'[req[r].window] = age[req[r].window] + 1
      BY <1>a, <2>1, <2>4 DEF Live
    <3>2. req[r].window \in Nat /\ window \in Nat /\ (window' = window + 1 \/ window' = window)
      BY <1>a, <2>2
    <3>3. req[r].window <= window'
      BY <3>1, <3>2
    <3>4. req'[r].window = req[r].window /\ req'[r].held = req[r].held + 1 /\ req[r].held < MaxHeld
      BY <2>4
    <3>5. age[req[r].window] \in Nat /\ req[r].held \in Nat
      BY <1>a
    <3>6. age'[req'[r].window] = age[req[r].window] + 1
      BY <3>1, <3>4
    <3>7. age[req[r].window] + 1 < WindowTicks + (req[r].held + 1)
      BY <1>a, <3>1, <3>5
    <3>8. req[r].held + 1 <= MaxHeld
      BY <1>a, <3>4, <3>5
    <3> QED BY <3>3, <3>4, <3>6, <3>7, <3>8
  <2> QED BY <2>3, <2>5
<1>6. CASE UNCHANGED vars
  BY <1>6 DEF vars, Clock, Live
<1> QED BY <1>1, <1>2, <1>3, <1>4, <1>5, <1>6 DEF Next, Quiet

(* Quotas and Own change with the slot of an INCR, an eviction or a Tick.  *)
LEMMA QuotaStep ==
    TypeOK /\ Clock /\ Live /\ Lifetime /\ Quotas /\ Own /\ [Next]_vars => Quotas' /\ Own'
<1> SUFFICES ASSUME TypeOK, Clock, Live, Lifetime, Quotas, Own, [Next]_vars PROVE Quotas' /\ Own'
  OBVIOUS
<1>a. /\ \A r \in Requests : req[r] \in Request /\ req[r].held \in Nat
      /\ \A s \in Slot : /\ counter[s] \in Counter \union {None} /\ tally[s] \in Tally
                         /\ s[2] \in Windows /\ age[s[2]] \in Nat /\ s[2] \in Nat
      /\ window \in Nat
  BY DEF TypeOK, Request, Slot, Windows
<1>b. /\ WindowTicks \in Nat \ {0} /\ MaxHeld \in Nat /\ ExpireTicks \in Nat
      /\ WindowTicks + MaxHeld <= ExpireTicks /\ rate_limit_per_minute \in Nat
  BY LimitAssumption
<1>c. \A r \in Requests : KeyOf(req[r]) = SlotOf(req[r]) /\ SlotOf(req[r]) \in Slot
                          /\ SlotOf(req[r])[2] = req[r].window
  BY <1>a, KeyIsSlot
<1>d. ASSUME NEW k \in Slot, NEW c, NEW t, UNCHANGED age,
             counter' = [counter EXCEPT ![k] = c], tally' = [tally EXCEPT ![k] = t],
             SlotQuota(c, t, age[k[2]]), SlotOwn(c, t)
      PROVE  Quotas' /\ Own'
  <2>1. \A s \in Slot : s # k => counter'[s] = counter[s] /\ tally'[s] = tally[s]
    BY <1>d DEF TypeOK
  <2>2. counter'[k] = c /\ tally'[k] = t
    BY <1>d DEF TypeOK
  <2> QED BY <1>d, <2>1, <2>2 DEF Quotas, Own
<1>e. ASSUME UNCHANGED <<age, tally>>,
             \A s \in Slot : /\ counter[s] = None <=> counter'[s] = None
                             /\ counter'[s] # None => counter'[s].count = counter[s].count
      PROVE  Quotas' /\ Own'
  BY <1>e DEF Quotas, Own, SlotQuota, SlotOwn, Spent
<1>f. ASSUME NEW r \in Requests, req[r].pc = "incr"
      PROVE  age[SlotOf(req[r])[2]] < WindowTicks + MaxHeld
  BY <1>a, <1>b, <1>c, <1>f DEF Live
<1>1. ASSUME NEW r \in Requests, NEW i \in Identities, Start(r, i) PROVE Quotas' /\ Own'
  BY <1>1 DEF Start, Quotas, Own
<1>2. ASSUME NEW r \in Requests, Incr(r) PROVE Quotas' /\ Own'
  <2> DEFINE k == SlotOf(req[r])
             c == Incremented(counter[k])
             t == Told(tally[k], c.count)
  <2>1. k \in Slot /\ KeyOf(req[r]) = k /\ counter[k] \in Counter \union {None} /\ tally[k] \in Tally
        /\ age[k[2]] \in Nat
    BY <1>a, <1>c
  <2>2. c \in Counter /\ c.count = IF counter[k] = None THEN 1 ELSE counter[k].count + 1
    BY <2>1, IncrementedType
  <2>3. age[k[2]] < WindowTicks + MaxHeld
    BY <1>2, <1>f DEF Incr
  <2>4. SlotQuota(counter[k], tally[k], age[k[2]]) /\ SlotOwn(counter[k], tally[k])
    BY <2>1 DEF Quotas, Own
  <2>5. counter' = [counter EXCEPT ![k] = c] /\ tally' = [tally EXCEPT ![k] = t] /\ UNCHANGED age
    BY <1>2, <2>1 DEF Incr
  <2> HIDE DEF k, c
  <2>6. SlotQuota(c, t, age[k[2]]) /\ SlotOwn(c, t)
    BY <2>1, <2>2, <2>3, <2>4, IncrSlot
  <2> QED BY <1>d, <2>1, <2>5, <2>6
<1>3. ASSUME NEW r \in Requests, IncrFails(r) PROVE Quotas' /\ Own'
  <2>1. CASE UNCHANGED <<counter, tally>>
    BY <1>3, <1>e, <2>1 DEF IncrFails
  <2>2. CASE ~ UNCHANGED <<counter, tally>>
    <3> DEFINE k == SlotOf(req[r])
               c == IF counter[k] = None THEN [count |-> 1, left |-> None, leaked |-> TRUE]
                    ELSE Incremented(counter[k])
               t == [tally[k] EXCEPT !.made = tally[k].made + 1]
    <3>1. k \in Slot /\ KeyOf(req[r]) = k /\ counter[k] \in Counter \union {None} /\ tally[k] \in Tally
          /\ age[k[2]] \in Nat
      BY <1>a, <1>c
    <3>2. c \in Counter /\ c.count = IF counter[k] = None THEN 1 ELSE counter[k].count + 1
      BY <3>1, IncrementedType, FreshCounter
    <3>3. age[k[2]] < WindowTicks + MaxHeld
      BY <1>3, <1>f DEF IncrFails
    <3>4. SlotQuota(counter[k], tally[k], age[k[2]]) /\ SlotOwn(counter[k], tally[k])
      BY <3>1 DEF Quotas, Own
    <3>5. counter' = [counter EXCEPT ![k] = c] /\ tally' = [tally EXCEPT ![k] = t] /\ UNCHANGED age
      BY <1>3, <2>2, <3>1 DEF IncrFails
    <3> HIDE DEF k, c
    <3>6. SlotQuota(c, t, age[k[2]]) /\ SlotOwn(c, t)
      BY <3>1, <3>2, <3>3, <3>4, IncrSlot
    <3> QED BY <1>d, <3>1, <3>5, <3>6
  <2> QED BY <2>1, <2>2
<1>4. ASSUME NEW r \in Requests, Expire(r) PROVE Quotas' /\ Own'
  <2>1. \A c \in Counter : /\ [c EXCEPT !.left = ExpireTicks].count = c.count
                           /\ [c EXCEPT !.left = ExpireTicks] # None
    <3>1. \A c \in Counter, n \in 1..ExpireTicks : [c EXCEPT !.left = n] \in Counter
      BY DEF Counter
    <3>2. \A c \in Counter : [c EXCEPT !.left = ExpireTicks].count = c.count
      BY DEF Counter
    <3>3. ExpireTicks \in 1..ExpireTicks
      BY <1>b
    <3> QED BY <3>1, <3>2, <3>3, NoneAssumption
  <2> QED BY <1>4, <1>a, <1>c, <1>e, <2>1 DEF Expire, TypeOK
<1>5. ASSUME NEW r \in Requests, RequestLost(r) PROVE Quotas' /\ Own'
  <2>1. \A c \in Counter : /\ [c EXCEPT !.leaked = TRUE].count = c.count
                           /\ [c EXCEPT !.leaked = TRUE] # None
    <3>1. \A c \in Counter, b \in BOOLEAN : /\ [c EXCEPT !.leaked = b] \in Counter
                                            /\ [c EXCEPT !.leaked = b].count = c.count
      BY DEF Counter
    <3> QED BY <3>1, NoneAssumption, Zenon
  <2> QED BY <1>5, <1>a, <1>c, <1>e, <2>1 DEF RequestLost, TypeOK
<1>6. ASSUME NEW s \in Slot, Evict(s) PROVE Quotas' /\ Own'
  <2> DEFINE t == [tally[s] EXCEPT !.quota = tally[s].quota + rate_limit_per_minute]
  <2>1. /\ t.quota = tally[s].quota + rate_limit_per_minute /\ t.granted = tally[s].granted
        /\ t.made = tally[s].made /\ t.refused = tally[s].refused
        /\ tally[s].granted \in Nat /\ tally[s].quota \in Nat
    BY <1>a DEF Tally
  <2>2. SlotQuota(counter[s], tally[s], age[s[2]]) /\ SlotOwn(counter[s], tally[s])
    BY DEF Quotas, Own
  <2>3. counter' = [counter EXCEPT ![s] = None] /\ tally' = [tally EXCEPT ![s] = t] /\ UNCHANGED age
    BY <1>6 DEF Evict
  <2> HIDE DEF t
  <2>4. SlotQuota(None, t, age[s[2]]) /\ SlotOwn(None, t)
    BY <1>b, <2>1, <2>2 DEF SlotQuota, SlotOwn
  <2> QED BY <1>d, <2>3, <2>4
<1>7. CASE Tick
  <2>1. \A s \in Slot : counter'[s] = Older(counter[s]) /\ tally'[s] = tally[s]
                        /\ age'[s[2]] = IF s[2] <= window THEN age[s[2]] + 1 ELSE 0
    BY <1>7, <1>a DEF Tick
  <2> SUFFICES ASSUME NEW s \in Slot
               PROVE  SlotQuota(counter'[s], tally'[s], age'[s[2]]) /\ SlotOwn(counter'[s], tally'[s])
    BY DEF Quotas, Own
  <2>2. SlotQuota(counter[s], tally[s], age[s[2]]) /\ SlotOwn(counter[s], tally[s])
    BY DEF Quotas, Own
  <2>3. CASE counter'[s] # None
    BY <1>a, <2>1, <2>2, <2>3, OlderType DEF SlotQuota, SlotOwn, Spent
  <2>4. CASE counter[s] = None
    <3>1. counter'[s] = None
      BY <2>1, <2>4 DEF Older
    <3>2. age[s[2]] >= WindowTicks + MaxHeld => age'[s[2]] >= WindowTicks + MaxHeld
      BY <1>a, <1>b, <2>1 DEF Clock
    <3> QED BY <2>1, <2>2, <2>4, <3>1, <3>2 DEF SlotQuota, SlotOwn
  <2>5. CASE counter[s] # None /\ counter'[s] = None
    <3>1. counter[s].left = 1 /\ 1 # None
      BY <1>a, <2>1, <2>5, OlderType, LimitAssumption
    <3>2. age'[s[2]] >= WindowTicks + MaxHeld
      BY <1>a, <1>b, <2>1, <2>5, <3>1 DEF Lifetime
    <3> QED BY <2>1, <2>2, <2>5, <3>2 DEF SlotQuota, SlotOwn
  <2> QED BY <2>3, <2>4, <2>5
<1>8. CASE UNCHANGED vars
  BY <1>8, <1>e DEF vars
<1> QED BY <1>1, <1>2, <1>3, <1>4, <1>5, <1>6, <1>7, <1>8 DEF Next, Quiet

(* A slot's Lifetime follows from its counter, its age and the requests    *)
(* about to set its expiry.                                                *)
SlotLife(s, c, a, w, rs) ==
    c # None =>
        /\ s[2] <= w
        /\ c.left # None => /\ ExpireTicks <= a + c.left
                            /\ a + c.left < WindowTicks + MaxHeld + ExpireTicks
        /\ c.left = None => c.leaked \/ \E r \in Requests : rs[r].pc = "expire" /\ SlotOf(rs[r]) = s

(* Every step keeps the bound on the life of a counter whose EXPIRE was    *)
(* not lost.                                                               *)
LEMMA LifetimeStep == TypeOK /\ Clock /\ Live /\ Lifetime /\ [Next]_vars => Lifetime'
<1> SUFFICES ASSUME TypeOK, Clock, Live, Lifetime, [Next]_vars PROVE Lifetime'
  OBVIOUS
<1>a. /\ \A r \in Requests : req[r] \in Request /\ req[r].held \in Nat
      /\ \A s \in Slot : /\ counter[s] \in Counter \union {None}
                         /\ s[2] \in Windows /\ age[s[2]] \in Nat /\ s[2] \in Nat
      /\ window \in Nat /\ None \notin Nat
  BY LimitAssumption DEF TypeOK, Request, Slot, Windows
<1>b. /\ WindowTicks \in Nat \ {0} /\ MaxHeld \in Nat /\ ExpireTicks \in Nat
      /\ WindowTicks + MaxHeld <= ExpireTicks
  BY LimitAssumption
<1>c. \A r \in Requests : /\ KeyOf(req[r]) = SlotOf(req[r]) /\ SlotOf(req[r]) \in Slot
                          /\ SlotOf(req[r])[2] = req[r].window
  BY <1>a, KeyIsSlot
<1>d. \A s \in Slot : SlotLife(s, counter[s], age[s[2]], window, req)
  BY DEF Lifetime, SlotLife
<1>e. ASSUME \A s \in Slot : SlotLife(s, counter'[s], age'[s[2]], window', req') PROVE Lifetime'
  BY <1>e DEF Lifetime, SlotLife
<1>f. \A r \in Requests : req[r].pc # "idle" =>
          req[r].window <= window /\ age[req[r].window] < WindowTicks + MaxHeld
  BY <1>a, <1>b, <1>c DEF Live
<1> HIDE DEF Lifetime
\* A step that leaves slot s and its setters alone.
<1>g. ASSUME NEW s \in Slot, UNCHANGED <<window, age>>, counter'[s] = counter[s],
             \A r \in Requests : req[r].pc = "expire" /\ SlotOf(req[r]) = s => req'[r] = req[r]
      PROVE  SlotLife(s, counter'[s], age'[s[2]], window', req')
  BY <1>d, <1>g DEF SlotLife
<1>h. ASSUME NEW r \in Requests, Finish(r) PROVE \A p \in Requests : p # r => req'[p] = req[p]
  BY <1>h DEF Finish, TypeOK
<1>1. ASSUME NEW r \in Requests, NEW i \in Identities, Start(r, i) PROVE Lifetime'
  <2>1. \A p \in Requests : req[p].pc = "expire" => req'[p] = req[p]
    BY <1>1 DEF Start, TypeOK
  <2> QED BY <1>1, <1>e, <1>g, <2>1 DEF Start
<1>2. ASSUME NEW r \in Requests, Incr(r) PROVE Lifetime'
  <2> DEFINE k == SlotOf(req[r])
             c == Incremented(counter[k])
  <2>1. k \in Slot /\ KeyOf(req[r]) = k /\ counter[k] \in Counter \union {None} /\ k[2] = req[r].window
    BY <1>a, <1>c
  <2>2. counter' = [counter EXCEPT ![k] = c] /\ UNCHANGED <<age, window>> /\ req[r].pc = "incr"
    BY <1>2, <2>1 DEF Incr
  <2>3. \A p \in Requests : p # r => req'[p] = req[p]
    BY <1>2, <1>h DEF Incr, TypeOK
  <2>4. \A p \in Requests : req[p].pc = "expire" => req'[p] = req[p]
    BY <2>2, <2>3
  <2>5. counter'[k] = c /\ \A s \in Slot : s # k => counter'[s] = counter[s]
    BY <2>1, <2>2 DEF TypeOK
  <2>6. SlotLife(k, counter'[k], age'[k[2]], window', req')
    <3>1. CASE counter[k] = None
      <4>1. c.left = None /\ c.count = 1
        BY <3>1 DEF Incremented
      <4>2. req' = [req EXCEPT ![r].pc = "expire"]
        BY <1>2, <2>1, <4>1 DEF Incr
      <4>3. req'[r].pc = "expire" /\ SlotOf(req'[r]) = k
        BY <1>a, <4>2 DEF TypeOK, Request, SlotOf
      <4>4. k[2] <= window
        BY <1>f, <2>1, <2>2
      <4> HIDE DEF k, c
      <4> QED BY <2>2, <2>5, <4>1, <4>3, <4>4 DEF SlotLife
    <3>2. CASE counter[k] # None
      <4>1. c.left = counter[k].left /\ c.leaked = counter[k].leaked
        BY <2>1, <3>2, IncrementedType
      <4>2. SlotLife(k, counter[k], age[k[2]], window, req)
        BY <1>d, <2>1
      <4> HIDE DEF k, c
      <4> QED BY <2>2, <2>4, <2>5, <3>2, <4>1, <4>2 DEF SlotLife
    <3> QED BY <3>1, <3>2
  <2> HIDE DEF k, c
  <2>7. \A s \in Slot : s # k => SlotLife(s, counter'[s], age'[s[2]], window', req')
    BY <1>g, <2>2, <2>4, <2>5
  <2> QED BY <1>e, <2>6, <2>7
<1>3. ASSUME NEW r \in Requests, IncrFails(r) PROVE Lifetime'
  <2> DEFINE k == SlotOf(req[r])
  <2>1. k \in Slot /\ KeyOf(req[r]) = k /\ counter[k] \in Counter \union {None} /\ k[2] = req[r].window
    BY <1>a, <1>c
  <2>2. UNCHANGED <<age, window>> /\ req[r].pc = "incr"
    BY <1>3 DEF IncrFails
  <2>3. \A p \in Requests : p # r => req'[p] = req[p]
    BY <1>3, <1>h DEF IncrFails
  <2>4. \A p \in Requests : req[p].pc = "expire" => req'[p] = req[p]
    BY <2>2, <2>3
  <2>5. CASE UNCHANGED <<counter, tally>>
    BY <1>e, <1>g, <2>2, <2>4, <2>5
  <2>6. CASE ~ UNCHANGED <<counter, tally>>
    <3> DEFINE c == IF counter[k] = None THEN [count |-> 1, left |-> None, leaked |-> TRUE]
                    ELSE Incremented(counter[k])
    <3>1. counter' = [counter EXCEPT ![k] = c]
      BY <1>3, <2>1, <2>6 DEF IncrFails
    <3>2. counter'[k] = c /\ \A s \in Slot : s # k => counter'[s] = counter[s]
      BY <2>1, <3>1 DEF TypeOK
    <3>3. SlotLife(k, c, age'[k[2]], window', req')
      <4>1. CASE counter[k] = None
        <5>1. c.left = None /\ c.leaked
          BY <4>1, FreshCounter
        <5>2. k[2] <= window
          BY <1>f, <2>1, <2>2
        <5> HIDE DEF k, c
        <5> QED BY <2>2, <5>1, <5>2 DEF SlotLife
      <4>2. CASE counter[k] # None
        <5>1. c.left = counter[k].left /\ c.leaked = counter[k].leaked
          BY <2>1, <4>2, IncrementedType
        <5>2. SlotLife(k, counter[k], age[k[2]], window, req)
          BY <1>d, <2>1
        <5> HIDE DEF k, c
        <5> QED BY <2>2, <2>4, <4>2, <5>1, <5>2 DEF SlotLife
      <4> QED BY <4>1, <4>2
    <3> HIDE DEF k, c
    <3>4. \A s \in Slot : s # k => SlotLife(s, counter'[s], age'[s[2]], window', req')
      BY <1>g, <2>2, <2>4, <3>2
    <3> QED BY <1>e, <3>2, <3>3, <3>4
  <2> QED BY <2>5, <2>6
\* A request that stops being a setter has set the expiry or left a leak.
<1>i. ASSUME NEW r \in Requests, Finish(r), UNCHANGED <<window, age>>,
             \A s \in Slot : s # SlotOf(req[r]) => counter'[s] = counter[s],
             SlotLife(SlotOf(req[r]), counter'[SlotOf(req[r])], age[SlotOf(req[r])[2]], window, req')
      PROVE  Lifetime'
  <2>1. \A s \in Slot : s # SlotOf(req[r]) => SlotLife(s, counter'[s], age'[s[2]], window', req')
    BY <1>g, <1>h, <1>i
  <2> QED BY <1>e, <1>i, <2>1
<1>4. ASSUME NEW r \in Requests, Expire(r) PROVE Lifetime'
  <2> DEFINE k == SlotOf(req[r])
  <2>1. /\ k \in Slot /\ KeyOf(req[r]) = k /\ counter[k] \in Counter \union {None}
        /\ k[2] <= window /\ age[k[2]] < WindowTicks + MaxHeld /\ age[k[2]] \in Nat
    BY <1>4, <1>a, <1>c, <1>f DEF Expire
  <2>2. UNCHANGED <<age, window>> /\ Finish(r)
    BY <1>4 DEF Expire
  <2>3. CASE counter[k] = None
    BY <1>4, <1>i, <2>1, <2>2, <2>3 DEF Expire, SlotLife
  <2>4. CASE counter[k] # None
    <3> DEFINE c == [counter[k] EXCEPT !.left = ExpireTicks]
    <3>1. counter' = [counter EXCEPT ![k] = c]
      BY <1>4, <2>1, <2>4 DEF Expire
    <3>2. counter'[k] = c /\ \A s \in Slot : s # k => counter'[s] = counter[s]
      BY <2>1, <3>1 DEF TypeOK
    <3>3. c.left = ExpireTicks
      BY <2>1, <2>4 DEF Counter
    <3> HIDE DEF k, c
    <3>4. SlotLife(k, c, age[k[2]], window, req')
      BY <1>a, <1>b, <2>1, <3>3 DEF SlotLife
    <3> QED BY <1>i, <2>2, <3>2, <3>4 DEF k
  <2> QED BY <2>3, <2>4
<1>5. ASSUME NEW r \in Requests, RequestLost(r) PROVE Lifetime'
  <2> DEFINE k == SlotOf(req[r])
  <2>1. k \in Slot /\ KeyOf(req[r]) = k /\ counter[k] \in Counter \union {None}
    BY <1>a, <1>c
  <2>2. UNCHANGED <<age, window>> /\ Finish(r)
    BY <1>5 DEF RequestLost
  <2>3. CASE counter[k] = None
    BY <1>5, <1>i, <2>1, <2>2, <2>3 DEF RequestLost, SlotLife
  <2>4. CASE req[r].pc # "expire"
    <3>1. counter' = counter
      BY <1>5, <2>4 DEF RequestLost
    <3>2. \A p \in Requests : req[p].pc = "expire" => req'[p] = req[p]
      BY <1>h, <2>2, <2>4
    <3> QED BY <1>e, <1>g, <2>2, <3>1, <3>2
  <2>5. CASE req[r].pc = "expire" /\ counter[k] # None
    <3> DEFINE c == [counter[k] EXCEPT !.leaked = TRUE]
    <3>1. counter' = [counter EXCEPT ![k] = c]
      BY <1>5, <2>1, <2>5 DEF RequestLost
    <3>2. counter'[k] = c /\ \A s \in Slot : s # k => counter'[s] = counter[s]
      BY <2>1, <3>1 DEF TypeOK
    <3>3. \A b \in BOOLEAN : LET d == [counter[k] EXCEPT !.leaked = b] IN
              d.leaked = b /\ d.left = counter[k].left
      BY <2>1, <2>5 DEF Counter
    <3>4. c.leaked /\ c.left = counter[k].left
      BY <3>3, Zenon
    <3>5. SlotLife(k, counter[k], age[k[2]], window, req)
      BY <1>d, <2>1
    <3> HIDE DEF k, c
    <3>6. SlotLife(k, c, age[k[2]], window, req')
      BY <2>5, <3>4, <3>5 DEF SlotLife
    <3> QED BY <1>i, <2>2, <3>2, <3>6 DEF k
  <2> QED BY <2>3, <2>4, <2>5
<1>6. ASSUME NEW k \in Slot, Evict(k) PROVE Lifetime'
  <2>1. counter'[k] = None /\ \A s \in Slot : s # k => counter'[s] = counter[s]
    BY <1>6 DEF Evict, TypeOK
  <2>2. UNCHANGED <<age, window, req>>
    BY <1>6 DEF Evict
  <2>3. SlotLife(k, counter'[k], age'[k[2]], window', req')
    BY <2>1 DEF SlotLife
  <2>4. \A s \in Slot : s # k => SlotLife(s, counter'[s], age'[s[2]], window', req')
    BY <1>g, <2>1, <2>2
  <2> QED BY <1>e, <2>3, <2>4
<1>7. CASE Tick
  <2>1. /\ \A s \in Slot : /\ counter'[s] = Older(counter[s])
                           /\ age'[s[2]] = IF s[2] <= window THEN age[s[2]] + 1 ELSE 0
        /\ window' \in Nat /\ window <= window'
    BY <1>7, <1>a DEF Tick, Windows, TypeOK
  <2>2. \A r \in Requests : req[r].pc = "expire" => req'[r].pc = "expire" /\ SlotOf(req'[r]) = SlotOf(req[r])
    BY <1>7, <1>a DEF Tick, Request, SlotOf
  <2> SUFFICES ASSUME NEW s \in Slot, counter'[s] # None
               PROVE  SlotLife(s, counter'[s], age'[s[2]], window', req')
    BY <1>e DEF SlotLife
  <2>3. /\ counter[s] # None /\ counter'[s].leaked = counter[s].leaked
        /\ counter[s].left = None => counter'[s].left = None
        /\ counter[s].left # None => counter'[s].left # None /\ counter'[s].left = counter[s].left - 1
    BY <1>a, <2>1, OlderType
  <2>4. SlotLife(s, counter[s], age[s[2]], window, req)
    BY <1>d
  <2>5. /\ s[2] <= window /\ s[2] <= window' /\ age'[s[2]] = age[s[2]] + 1
    BY <1>a, <2>1, <2>3, <2>4 DEF SlotLife
  <2>6. CASE counter[s].left = None
    BY <2>2, <2>3, <2>4, <2>5, <2>6 DEF SlotLife
  <2>7. CASE counter[s].left # None
    <3>1. counter[s].left \in Nat
      BY <1>a, <1>b, <2>3, <2>7 DEF Counter
    <3>2. age'[s[2]] + counter'[s].left = age[s[2]] + counter[s].left
      BY <1>a, <2>3, <2>5, <2>7, <3>1
    <3> QED BY <2>3, <2>4, <2>5, <2>7, <3>2 DEF SlotLife
  <2> QED BY <2>6, <2>7
<1>8. CASE UNCHANGED vars
  BY <1>8, <1>e, <1>g DEF vars
<1> QED BY <1>1, <1>2, <1>3, <1>4, <1>5, <1>6, <1>7, <1>8 DEF Next, Quiet

----------------------------------------------------------------------------
(* The inductive invariant: the types, the clock, how long requests and    *)
(* counters live, and the accounts of every slot.                          *)
IInv == TypeOK /\ Clock /\ Live /\ Lifetime /\ Quotas /\ Own

(* The limiter starts in the inductive invariant.                          *)
LEMMA InitInvariant == Init => IInv
<1> SUFFICES ASSUME Init PROVE IInv
  OBVIOUS
<1>1. TypeOK
  BY TypeInit
<1>2. /\ 0 \in Windows /\ WindowTicks \in Nat \ {0} /\ rate_limit_per_minute \in Nat
  BY LimitAssumption DEF Windows
<1>3. Clock
  BY <1>2 DEF Init, Clock
<1>4. Live
  BY DEF Init, Live, Idle
<1>5. Lifetime
  BY DEF Init, Lifetime
<1>6. Quotas /\ Own
  BY <1>2 DEF Init, Quotas, Own, SlotQuota, SlotOwn
<1> QED BY <1>1, <1>3, <1>4, <1>5, <1>6 DEF IInv

(* Every behaviour of the rate limiter keeps the inductive invariant.      *)
THEOREM Invariance == Spec => []IInv
<1>1. IInv /\ [Next]_vars => IInv'
  BY TypeStep, ClockStep, LifetimeStep, QuotaStep DEF IInv
<1> QED BY InitInvariant, <1>1, PTL DEF Spec

(* The counters, requests and tallies of dispatch keep their types, for    *)
(* every limit and every set of identities and failures.                   *)
THEOREM TypeCorrect == Spec => []TypeOK
<1>1. IInv => TypeOK
  BY DEF IInv
<1> QED BY Invariance, <1>1, PTL

(* INCR and EXPIRE keep every identity within its limit per minute,        *)
(* whatever interleaves between the two awaits, as long as Redis keeps the *)
(* counter.                                                                *)
THEOREM QuotaHolds == Spec => []QuotaPerWindow
<1>1. IInv => QuotaPerWindow
  BY DEF IInv, Quotas, SlotQuota, QuotaPerWindow
<1> QED BY Invariance, <1>1, PTL

(* No identity is refused on account of another one's requests, nor of     *)
(* its own in another minute.                                              *)
THEOREM NoNoisyNeighbour == Spec => []RefusedOverOwnLimit
<1>1. IInv => RefusedOverOwnLimit
  BY DEF IInv, Own, SlotOwn, RefusedOverOwnLimit
<1> QED BY Invariance, <1>1, PTL

(* A counter without an expiry is one whose creator failed or died between *)
(* INCR and EXPIRE; every other one goes in time.                          *)
THEOREM LeaksOnly == Spec => []OnlyLeaksOutlive
<1>1. IInv => OnlyLeaksOutlive
  <2> SUFFICES ASSUME IInv, NEW s \in Slot, counter[s] # None,
                      age[s[2]] >= WindowTicks + MaxHeld + ExpireTicks
               PROVE  counter[s].leaked
    BY DEF OnlyLeaksOutlive
  <2>1. /\ counter[s] \in Counter /\ age[s[2]] \in Nat /\ WindowTicks \in Nat
        /\ MaxHeld \in Nat /\ ExpireTicks \in Nat
    BY LimitAssumption DEF IInv, TypeOK, Slot
  <2>2. counter[s].left = None
    BY <2>1 DEF IInv, Lifetime, Counter
  <2>3. ASSUME NEW r \in Requests, req[r].pc = "expire", SlotOf(req[r]) = s PROVE FALSE
    <3>1. req[r].window = s[2] /\ req[r].held \in Nat
      BY <2>3 DEF IInv, TypeOK, Request, SlotOf
    <3>2. age[req[r].window] < WindowTicks + req[r].held /\ req[r].held <= MaxHeld
      BY <2>3 DEF IInv, Live
    <3> QED BY <2>1, <3>1, <3>2
  <2> QED BY <2>2, <2>3 DEF IInv, Lifetime
<1> QED BY Invariance, <1>1, PTL
============================================================================
