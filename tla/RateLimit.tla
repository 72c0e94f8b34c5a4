----------------------------- MODULE RateLimit -----------------------------
(***************************************************************************)
(* RateLimitMiddleware (app/middleware.py): a counter in Redis per API key *)
(* and minute, raised with INCR and given a life time with EXPIRE by the   *)
(* request that creates it.  The two calls are separate awaits; requests   *)
(* of all the instances interleave between them.                           *)
(*                                                                         *)
(* Requests the middleware lets through unseen (limiting disabled, an      *)
(* exempt path, no API key) change nothing and are left out.               *)
(*                                                                         *)
(* A Tick lets one unit of time pass.  age[w] is the time since minute w   *)
(* began.  The variable tally is history no guard reads.                   *)
(***************************************************************************)
EXTENDS Naturals

CONSTANTS
    Identities,             \* hash_api_key(api_key)[:16]
    Requests,               \* requests that can be inside the middleware at once
    None,
    rate_limit_per_minute,  \* settings.rate_limit_per_minute
    WindowTicks,            \* the 60 of time.time() // 60
    ExpireTicks,            \* the 120 of client.expire(key, 120)
    Failures,               \* the failures that may happen, a subset of FailureKinds
    MaxWindow,              \* bound on the minutes of a behaviour
    MaxRequests,            \* bound on the requests of a behaviour
    MaxHeld                 \* bound on the ticks a request waits for Redis

FailureKinds == {"redis", "crash", "eviction"}

(* The code's 120 seconds are a minute more than the window, so that a     *)
(* request may wait for Redis for up to a minute.  With a positive limit   *)
(* the creator of a counter is granted whether or not its EXPIRE fails.    *)
ASSUME LimitAssumption ==
    /\ rate_limit_per_minute \in Nat \ {0}
    /\ WindowTicks \in Nat \ {0}
    /\ ExpireTicks \in Nat
    /\ MaxWindow \in Nat /\ MaxRequests \in Nat /\ MaxHeld \in Nat
    /\ WindowTicks + MaxHeld <= ExpireTicks
    /\ Failures \subseteq FailureKinds
    /\ Identities # {}
    /\ None \notin Nat

VARIABLES
    window,     \* int(time.time() // 60)
    age,        \* age[w]: ticks since minute w began, 0 if it has not
    counter,    \* counter[s]: the Redis value under the key of slot s, or None
    req,        \* req[r]: the request in slot r
    sent,       \* requests so far
    tally       \* tally[s]: what the requests of slot s were told

vars == <<window, age, counter, req, sent, tally>>

Windows == 0..MaxWindow

(* An identity and a minute.  The key of the code names both.              *)
Slot == Identities \X Windows

(* Mutant: one counter per minute for everybody.                           *)
ratelimit_key_Shared(identity, w) == <<CHOOSE i \in Identities : TRUE, w>>

ratelimit_key(identity, w) == <<identity, w>>

(* `left' is None until the EXPIRE; `leaked' is history: the request that  *)
(* was to send it is gone.                                                 *)
Counter == [count : Nat \ {0}, left : (1..ExpireTicks) \union {None}, leaked : BOOLEAN]

ASSUME NoneAssumption == None \notin Counter

Request == [pc : {"idle", "incr", "expire"}, identity : Identities, window : Windows,
            held : Nat]

(* made: INCRs; granted and refused: verdicts; quota: the limit once, and  *)
(* once more for every counter Redis lost.                                 *)
Tally == [made : Nat, granted : Nat, refused : Nat, quota : Nat]

SlotOf(q) == <<q.identity, q.window>>

KeyOf(q) == ratelimit_key(q.identity, q.window)

Idle == [pc |-> "idle", identity |-> CHOOSE i \in Identities : TRUE, window |-> 0, held |-> 0]

Init ==
    /\ window = 0
    /\ age = [w \in Windows |-> 0]
    /\ counter = [s \in Slot |-> None]
    /\ req = [r \in Requests |-> Idle]
    /\ sent = 0
    /\ tally = [s \in Slot |-> [made |-> 0, granted |-> 0, refused |-> 0,
                                quota |-> rate_limit_per_minute]]

----------------------------------------------------------------------------
(* dispatch reads the clock; everything after is another await.            *)
Start(r, i) ==
    /\ req[r].pc = "idle"
    /\ sent < MaxRequests
    /\ sent' = sent + 1
    /\ req' = [req EXCEPT ![r] = [pc |-> "incr", identity |-> i, window |-> window, held |-> 0]]
    /\ UNCHANGED <<window, age, counter, tally>>

Finish(r) == req' = [req EXCEPT ![r] = Idle]

(* INCR creates the key at 1 with no expiry, or raises it.                 *)
Incremented(c) ==
    IF c = None THEN [count |-> 1, left |-> None, leaked |-> FALSE]
    ELSE [c EXCEPT !.count = c.count + 1]

Refused(count) == count > rate_limit_per_minute

Told(t, count) ==
    [made |-> t.made + 1,
     granted |-> IF Refused(count) THEN t.granted ELSE t.granted + 1,
     refused |-> IF Refused(count) THEN t.refused + 1 ELSE t.refused,
     quota |-> t.quota]

(* Mutant: the EXPIRE is for the request that saw the counter at 0.        *)
Incr_NoExpire(r) ==
    LET q == req[r]
        c == Incremented(counter[KeyOf(q)])
    IN
    /\ q.pc = "incr"
    /\ counter' = [counter EXCEPT ![KeyOf(q)] = c]
    /\ tally' = [tally EXCEPT ![SlotOf(q)] = Told(tally[SlotOf(q)], c.count)]
    /\ Finish(r)
    /\ UNCHANGED <<window, age, sent>>

(* The INCR and its answer.  With a count other than 1 the verdict follows *)
(* at once; the creator's own verdict, fixed by its count, follows its     *)
(* EXPIRE.                                                                 *)
Incr(r) ==
    LET q == req[r]
        c == Incremented(counter[KeyOf(q)])
    IN
    /\ q.pc = "incr"
    /\ counter' = [counter EXCEPT ![KeyOf(q)] = c]
    /\ tally' = [tally EXCEPT ![SlotOf(q)] = Told(tally[SlotOf(q)], c.count)]
    /\ IF c.count = 1 THEN req' = [req EXCEPT ![r].pc = "expire"] ELSE Finish(r)
    /\ UNCHANGED <<window, age, sent>>

(* The INCR raises: the request passes (fail open).  Redis may have run it *)
(* all the same; a counter it created then stays without an expiry.        *)
IncrFails(r) ==
    LET q == req[r]
        c == counter[KeyOf(q)]
    IN
    /\ q.pc = "incr"
    /\ "redis" \in Failures
    /\ \/ UNCHANGED <<counter, tally>>
       \/ /\ counter' = [counter EXCEPT ![KeyOf(q)] =
                IF c = None THEN [count |-> 1, left |-> None, leaked |-> TRUE] ELSE Incremented(c)]
          /\ tally' = [tally EXCEPT ![SlotOf(q)].made = tally[SlotOf(q)].made + 1]
    /\ Finish(r)
    /\ UNCHANGED <<window, age, sent>>

(* Mutant: the counter lives for one window only.                          *)
Expire_OneWindow(r) ==
    LET k == KeyOf(req[r]) IN
    /\ req[r].pc = "expire"
    /\ counter' = IF counter[k] = None THEN counter
                  ELSE [counter EXCEPT ![k] = [counter[k] EXCEPT !.left = WindowTicks]]
    /\ Finish(r)
    /\ UNCHANGED <<window, age, sent, tally>>

(* EXPIRE; of a key that is gone by now it is a no-op.                     *)
Expire(r) ==
    LET k == KeyOf(req[r]) IN
    /\ req[r].pc = "expire"
    /\ counter' = IF counter[k] = None THEN counter
                  ELSE [counter EXCEPT ![k] = [counter[k] EXCEPT !.left = ExpireTicks]]
    /\ Finish(r)
    /\ UNCHANGED <<window, age, sent, tally>>

(* The EXPIRE raises (the request passes), or the instance dies.           *)
RequestLost(r) ==
    LET k == KeyOf(req[r]) IN
    /\ \/ req[r].pc = "expire" /\ "redis" \in Failures
       \/ req[r].pc # "idle" /\ "crash" \in Failures
    /\ counter' = IF req[r].pc = "expire" /\ counter[k] # None
                  THEN [counter EXCEPT ![k] = [counter[k] EXCEPT !.leaked = TRUE]] ELSE counter
    /\ Finish(r)
    /\ UNCHANGED <<window, age, sent, tally>>

----------------------------------------------------------------------------
(* allkeys-lru eviction, a flush or a restart of Redis: the slot counts    *)
(* from 1 again.                                                           *)
Evict(s) ==
    /\ "eviction" \in Failures
    /\ counter[s] # None
    /\ counter' = [counter EXCEPT ![s] = None]
    /\ tally' = [tally EXCEPT ![s].quota = tally[s].quota + rate_limit_per_minute]
    /\ UNCHANGED <<window, age, req, sent>>

(* Mutant: Redis keeps the counter for the tick in which it expires.       *)
Older_OffByOne(c) ==
    IF c = None THEN None
    ELSE IF c.left = None THEN c
    ELSE IF c.left = 0 THEN None
    ELSE [c EXCEPT !.left = c.left - 1]

Older(c) ==
    IF c = None THEN None
    ELSE IF c.left = None THEN c
    ELSE IF c.left = 1 THEN None
    ELSE [c EXCEPT !.left = c.left - 1]

(* One unit of time passes; the next minute begins after WindowTicks.  No  *)
(* request waits for Redis for more than MaxHeld ticks.                    *)
Tick ==
    /\ \A r \in Requests : req[r].pc # "idle" => req[r].held < MaxHeld
    /\ window' = IF age[window] + 1 = WindowTicks THEN window + 1 ELSE window
    /\ window' \in Windows
    /\ age' = [w \in Windows |-> IF w <= window THEN age[w] + 1 ELSE 0]
    /\ counter' = [s \in Slot |-> Older(counter[s])]
    /\ req' = [r \in Requests |->
            IF req[r].pc = "idle" THEN req[r] ELSE [req[r] EXCEPT !.held = req[r].held + 1]]
    /\ UNCHANGED <<sent, tally>>

(* The end of a bounded behaviour.                                         *)
Quiet ==
    /\ sent = MaxRequests
    /\ \A r \in Requests : req[r].pc = "idle"
    /\ UNCHANGED vars

Next ==
    \/ \E r \in Requests :
        \/ \E i \in Identities : Start(r, i)
        \/ Incr(r) \/ IncrFails(r) \/ Expire(r) \/ RequestLost(r)
    \/ \E s \in Slot : Evict(s)
    \/ Tick
    \/ Quiet

Spec == Init /\ [][Next]_vars

----------------------------------------------------------------------------
(* Properties.                                                             *)

(* The variables stay in the record types above (dispatch).                *)
TypeOK ==
    /\ window \in Windows
    /\ age \in [Windows -> Nat]
    /\ counter \in [Slot -> Counter \union {None}]
    /\ req \in [Requests -> Request]
    /\ sent \in Nat
    /\ tally \in [Slot -> Tally]

(* However the INCRs and EXPIREs of the instances interleave, and however  *)
(* late a request's INCR reaches Redis, the requests an identity is        *)
(* granted by their count in one minute stay within the limit, or one      *)
(* limit more for every counter Redis evicted: no counter expires while a  *)
(* request of its minute can still be counted.                             *)
QuotaPerWindow == \A s \in Slot : tally[s].granted <= tally[s].quota

(* No noisy neighbour: an identity is refused only after it used up the    *)
(* limit itself, so at least `limit' of its own requests of that minute    *)
(* were not refused.                                                       *)
RefusedOverOwnLimit ==
    \A s \in Slot : tally[s].refused > 0 =>
        tally[s].refused + rate_limit_per_minute <= tally[s].made

(* The keys in Redis do not pile up: a counter that outlives its minute by *)
(* more than the wait for Redis and the expiry lost its EXPIRE to a        *)
(* failure or a crash between the two calls.                               *)
OnlyLeaksOutlive ==
    \A s \in Slot :
        counter[s] # None /\ age[s[2]] >= WindowTicks + MaxHeld + ExpireTicks => counter[s].leaked
============================================================================
