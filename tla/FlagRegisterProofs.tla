------------------------- MODULE FlagRegisterProofs -------------------------
(***************************************************************************)
(* The cache protocol implements FlagRegister, a register per scope with   *)
(* one published copy that is outdated for a bounded time: for every set   *)
(* of tenants, environments and requests, every TTL and every failure.     *)
(***************************************************************************)
EXTENDS FlagCacheProofs

(* What the refinement needs beside the invariant of the protocol: a       *)
(* loader's delay is bounded, in its hand and in the entry it SET, and a   *)
(* flag set that can no longer be SET does not age.                        *)
Delays ==
    /\ \A r \in Readers : reader[r].held <= MaxHeld
    /\ \A r \in Readers : reader[r].pc # "store" => reader[r].staleFor = 0
    /\ \A k \in Scope : cache[k] # None => cache[k].lag <= MaxHeld

(* Every step keeps the delays bounded: Tick stops at MaxHeld, and Store   *)
(* hands the loader's delay on.                                            *)
LEMMA DelaysStep == TypeOK /\ Delays /\ [Next]_vars => Delays'
<1> SUFFICES ASSUME TypeOK, Delays, [Next]_vars PROVE Delays'
  OBVIOUS
<1>1. ASSUME NEW r \in Readers
      PROVE  reader'[r].held <= MaxHeld /\ (reader'[r].pc # "store" => reader'[r].staleFor = 0)
  <2>0. /\ reader[r] \in Reader /\ reader[r].held <= MaxHeld /\ MaxHeld \in Nat
        /\ reader[r].pc # "store" => reader[r].staleFor = 0
        /\ IdleReader.held = 0 /\ IdleReader.staleFor = 0
    BY CacheAssumption DEF TypeOK, Delays, IdleReader
  <2>1. CASE reader'[r] = reader[r]
    BY <2>0, <2>1
  <2>2. ASSUME NEW s \in Scope, StartEvaluate(r, s)
        PROVE  reader'[r].held = 0 /\ reader'[r].staleFor = 0
    BY <2>2, <2>0, IdleTypes DEF StartEvaluate, TypeOK, Reader
  <2>3. CASE Respond(r) \/ ReaderLost(r)
    BY <2>0, <2>3 DEF Respond, ReaderLost, TypeOK
  <2>4. CASE LookupHit(r) \/ LookupMiss(r)
    BY <2>0, <2>4 DEF LookupHit, LookupMiss, TypeOK, Reader
  <2>5. CASE Load(r) \/ Store(r) \/ StoreFails(r)
    BY <2>0, <2>5 DEF Load, Store, StoreFails, TypeOK, Reader
  <2>6. CASE Tick
    <3>1. reader'[r] = Hold(reader[r]) /\ (reader[r].pc = "store" => reader[r].held < MaxHeld)
      BY <2>6 DEF Tick
    <3>2. CASE reader[r].pc # "store"
      BY <2>0, <3>1, <3>2 DEF Hold
    <3>3. CASE reader[r].pc = "store"
      <4>1. reader'[r].held = reader[r].held + 1 /\ reader'[r].pc = "store"
        BY <2>0, <3>1, <3>3 DEF Hold, Reader
      <4>2. reader[r].held \in Nat
        BY <2>0 DEF Reader
      <4> QED BY <2>0, <3>1, <3>3, <4>1, <4>2
    <3> QED BY <3>2, <3>3
  <2>7. ASSUME NEW q \in Readers, q # r, ReaderStep(q) \/ \E s \in Scope : StartEvaluate(q, s)
        PROVE  reader'[r] = reader[r]
    BY <2>7 DEF TypeOK, ReaderStep, LookupHit, LookupMiss, Load, Store, StoreFails, Respond,
                ReaderLost, StartEvaluate
  <2>8. ASSUME NEW q \in Readers, ReaderStep(q) \/ \E s \in Scope : StartEvaluate(q, s)
        PROVE  reader'[r].held <= MaxHeld /\ (reader'[r].pc # "store" => reader'[r].staleFor = 0)
    <3>1. CASE q # r
      BY <2>1, <2>7, <2>8, <3>1
    <3>2. CASE q = r
      BY <2>0, <2>2, <2>3, <2>4, <2>5, <2>8, <3>2 DEF ReaderStep
    <3> QED BY <3>1, <3>2
  <2>9. CASE reader' = reader
    BY <2>1, <2>9
  <2> QED BY <2>6, <2>8, <2>9 DEF Next, vars, WriterStep, Commit, Refresh, Invalidate,
          InvalidateFails, Acknowledge, WriterLost, Write, StartWrite, Evict
<1>2. ASSUME NEW k \in Scope, cache'[k] # None PROVE cache'[k].lag <= MaxHeld
  <2>1. CASE cache'[k] = cache[k]
    BY <1>2, <2>1 DEF Delays
  <2>2. CASE cache[k] \in Entry /\ cache[k] # None /\ cache'[k] = Noted(cache[k])
    BY <2>2 DEF Delays, Noted, Entry
  <2>3. CASE cache[k] \in Entry /\ cache[k].left # 1 /\ cache'[k] = Age(cache[k])
    BY <1>2, <2>3 DEF Delays, Age, Entry
  <2>4. ASSUME NEW r \in Readers, Store(r), k = KeyOf(reader[r].scope)
        PROVE  cache'[k].lag <= MaxHeld
    BY <2>4 DEF Delays, Store, TypeOK
  <2> QED BY <1>2, <2>1, <2>2, <2>3, <2>4, EntryStep
<1> QED BY <1>1, <1>2 DEF Delays

(* Entries and loaded flag sets are never at the saturation of their       *)
(* clocks, so that the protocol's clock runs like the register's.          *)
LEMMA NeverSaturated ==
    ASSUME IInv, Delays
    PROVE  /\ \A k \in Scope : cache[k] # None =>
                  cache[k].staleFor <= cache_ttl_seconds + MaxHeld - 1
           /\ \A r \in Readers : reader[r].staleFor <= MaxHeld
<1>1. ASSUME NEW k \in Scope, cache[k] # None
      PROVE  cache[k].staleFor <= cache_ttl_seconds + MaxHeld - 1
  <2>1. cache[k] \in Entry /\ cache[k].lag <= MaxHeld
    BY <1>1 DEF IInv, TypeOK, Delays
  <2>2. cache[k].staleFor + cache[k].left <= cache_ttl_seconds + cache[k].lag
    BY <1>1 DEF IInv, StalenessBounded
  <2>3. /\ cache[k].left \in Nat /\ cache[k].left >= 1 /\ cache[k].staleFor \in Nat
        /\ cache[k].lag \in Nat /\ cache_ttl_seconds \in Nat /\ MaxHeld \in Nat
    BY <2>1, CacheAssumption DEF Entry
  <2> QED BY <2>1, <2>2, <2>3
<1>2. ASSUME NEW r \in Readers PROVE reader[r].staleFor <= MaxHeld
  <2>1. reader[r] \in Reader /\ reader[r].held <= MaxHeld
    BY DEF IInv, TypeOK, Delays
  <2>2. reader[r].staleFor \in Nat /\ reader[r].held \in Nat /\ MaxHeld \in Nat
    BY <2>1, CacheAssumption DEF Reader
  <2>3. reader[r].staleFor <= reader[r].held \/ reader[r].staleFor = 0
    BY DEF IInv, Loading, Delays
  <2> QED BY <2>1, <2>2, <2>3
<1> QED BY <1>1, <1>2

----------------------------------------------------------------------------
(* The two components of the mapping, and that None is none of their       *)
(* values.                                                                 *)
LEMMA MappingTypes ==
    ASSUME TypeOK
    PROVE  /\ \A s \in Scope : Published[s] = CopyOf(cache[s])
           /\ \A s \in Scope : Published[s] = None <=> cache[s] = None
           /\ \A r \in Readers : InHand[r] = AnswerOf(reader[r])
           /\ \A r \in Readers : InHand[r] = None <=> reader[r].pc \notin {"store", "respond"}
<1>1. ASSUME NEW s \in Scope, cache[s] # None PROVE CopyOf(cache[s]) # None
  <2>1. cache[s] \in Entry
    BY <1>1 DEF TypeOK
  <2>2. [version |-> cache[s].version, staleFor |-> cache[s].staleFor] \in Register!Copy
    BY <2>1 DEF Entry, Register!Copy
  <2> QED BY <1>1, <2>2, NoneAssumption DEF CopyOf
<1>2. ASSUME NEW r \in Readers, reader[r].pc \in {"store", "respond"}
      PROVE  AnswerOf(reader[r]) # None
  <2>1. reader[r] \in Reader
    BY DEF TypeOK
  <2>2. \A b \in BOOLEAN : [scope |-> reader[r].scope, version |-> reader[r].version, final |-> b,
                             staleFor |-> reader[r].staleFor] \in Register!Answer
    BY <2>1 DEF Reader, Register!Answer, Register!Scope, Scope
  <2> QED BY <1>2, <2>2, NoneAssumption DEF AnswerOf
<1>3. \A s \in Scope : Published[s] = CopyOf(cache[s])
  BY DEF Published
<1>4. \A r \in Readers : InHand[r] = AnswerOf(reader[r])
  BY DEF InHand
<1> QED BY <1>1, <1>2, <1>3, <1>4 DEF CopyOf, AnswerOf

(* Steps that change neither entries nor loaded sets.                      *)
LEMMA SameMapping ==
    ASSUME UNCHANGED version,
           \A s \in Scope : CopyOf(cache[s])' = CopyOf(cache[s]),
           \A r \in Readers : AnswerOf(reader[r])' = AnswerOf(reader[r])
    PROVE  UNCHANGED Register!vars
BY DEF Register!vars, Published, InHand

(* An evaluation request is answered from the register (Load), from the    *)
(* copy (LookupHit), and may publish what it read (Store).                 *)
LEMMA ReaderSimulation ==
    ASSUME IInv, Delays, NEW r \in Readers, ReaderStep(r)
    PROVE  [Register!Next]_(Register!vars)
<1> DEFINE q == reader[r]
<1>0. /\ TypeOK /\ q \in Reader /\ q.scope \in Scope /\ q.of = q.scope /\ KeyOf(q.scope) = q.scope
      /\ q.pc # "store" => q.staleFor = 0
      /\ reader \in [Readers -> Reader]
  BY KeyOfScope DEF IInv, TypeOK, OwnScope, Delays, Reader
<1>a. Register!Scope = Scope
  BY DEF Register!Scope, Scope
<1>1. CASE LookupHit(r)
  <2>1. /\ q.pc = "lookup" /\ cache[q.scope] # None /\ version' = version /\ cache' = cache
        /\ reader' = [reader EXCEPT ![r].pc = "respond", ![r].of = cache[q.scope].of,
                                    ![r].version = cache[q.scope].version]
    BY <1>0, <1>1 DEF LookupHit
  <2>2. /\ reader'[r].pc = "respond" /\ reader'[r].scope = q.scope
        /\ reader'[r].version = cache[q.scope].version /\ reader'[r].staleFor = 0
    BY <1>0, <2>1 DEF Reader
  <2>3. AnswerOf(reader'[r]) = Register!Given(q.scope, Published[q.scope].version, TRUE)
    <3>1. Published[q.scope].version = cache[q.scope].version
      <4>1. Published[q.scope] = CopyOf(cache[q.scope])
        BY <1>0, MappingTypes
      <4> QED BY <2>1, <4>1 DEF CopyOf
    <3>2. (reader'[r].pc = "respond") = TRUE
      BY <2>2
    <3> QED BY <2>2, <3>1, <3>2 DEF AnswerOf, Register!Given
  <2>4. InHand' = [InHand EXCEPT ![r] = Register!Given(q.scope, Published[q.scope].version, TRUE)]
    BY <1>0, <2>1, <2>3 DEF InHand
  <2>5. Published' = Published
    BY <2>1 DEF Published
  <2>6. Register!ReadCopy(r, q.scope)
    BY <1>0, <2>1, <2>4, <2>5, MappingTypes DEF Register!ReadCopy
  <2> QED BY <1>0, <1>a, <2>6 DEF Register!Next
<1>2. CASE LookupMiss(r)
  <2>1. version' = version /\ cache' = cache /\ \A x \in Readers : AnswerOf(reader[x])' = AnswerOf(reader[x])
    BY <1>0, <1>2 DEF LookupMiss, AnswerOf
  <2> QED BY <2>1, SameMapping
<1>3. CASE Load(r)
  <2>1. PICK final \in BOOLEAN : final = ~cache_enabled
    BY CacheAssumption
  <2>2. /\ q.pc = "load" /\ version' = version /\ cache' = cache
        /\ \A x \in Readers \ {r} : reader'[x] = reader[x]
        /\ reader'[r].pc = (IF cache_enabled THEN "store" ELSE "respond")
        /\ reader'[r].scope = q.scope
        /\ reader'[r].version = version[q.scope] /\ reader'[r].staleFor = 0
    BY <1>0, <1>3 DEF Load, Reader
  <2>3. AnswerOf(reader'[r]) = Register!Given(q.scope, version[q.scope], final)
    BY <2>1, <2>2 DEF AnswerOf, Register!Given
  <2>4. InHand' = [InHand EXCEPT ![r] = Register!Given(q.scope, version[q.scope], final)]
    BY <2>2, <2>3 DEF InHand
  <2>5. Published' = Published
    BY <2>2 DEF Published
  <2>6. Register!Read(r, q.scope, final)
    BY <1>0, <2>2, <2>4, <2>5, MappingTypes DEF Register!Read
  <2> QED BY <1>0, <1>a, <2>6 DEF Register!Next
<1>4. CASE Store(r) \/ StoreFails(r)
  <2>1. /\ q.pc = "store" /\ version' = version
        /\ \A x \in Readers \ {r} : reader'[x] = reader[x]
        /\ reader'[r].pc = "respond" /\ reader'[r].scope = q.scope
        /\ reader'[r].version = q.version /\ reader'[r].staleFor = 0
    BY <1>0, <1>4 DEF Store, StoreFails, Reader
  <2>2. /\ InHand[r] # None /\ ~InHand[r].final /\ InHand[r].scope = q.scope
        /\ InHand[r].version = q.version /\ InHand[r].staleFor = q.staleFor
    <3>1. (q.pc = "respond") = FALSE
      BY <2>1
    <3>2. InHand[r] = AnswerOf(q) /\ InHand[r] # None
      BY <1>0, <2>1, MappingTypes
    <3>3. InHand[r] = [scope |-> q.scope, version |-> q.version, final |-> FALSE,
                       staleFor |-> q.staleFor]
      BY <2>1, <3>1, <3>2 DEF AnswerOf
    <3> QED BY <3>2, <3>3
  <2>3. AnswerOf(reader'[r]) = Register!Given(q.scope, q.version, TRUE)
    BY <2>1 DEF AnswerOf, Register!Given
  <2>4. InHand' = [InHand EXCEPT ![r] = Register!Given(q.scope, q.version, TRUE)]
    BY <2>1, <2>3 DEF InHand
  <2>5. Register!Settle(r)
    BY <2>2, <2>4 DEF Register!Settle
  <2>6. CASE Store(r)
    <3>1. cache' = [cache EXCEPT ![q.scope] =
                [version |-> q.version, of |-> q.of, left |-> cache_ttl_seconds, lag |-> q.held,
                 late |-> q.version < version[q.of], missed |-> FALSE, staleFor |-> q.staleFor]]
      BY <1>0, <2>6 DEF Store
    <3>2. cache'[q.scope] \in Entry /\ cache'[q.scope].version = q.version
          /\ cache'[q.scope].staleFor = q.staleFor
      BY <1>0, <3>1, CacheAssumption DEF TypeOK, Entry, Reader
    <3>3. CopyOf(cache'[q.scope]) = [version |-> q.version, staleFor |-> q.staleFor]
      BY <3>2, NoneAssumption DEF CopyOf
    <3>4. \A s \in Scope \ {q.scope} : cache'[s] = cache[s]
      BY <1>0, <3>1 DEF TypeOK
    <3>5. Published' = [Published EXCEPT ![q.scope] = [version |-> q.version, staleFor |-> q.staleFor]]
      BY <3>3, <3>4 DEF Published
    <3>6. Register!Publish(r)
      BY <2>1, <2>2, <2>5, <3>5 DEF Register!Publish
    <3> QED BY <3>6 DEF Register!Next
  <2>7. CASE StoreFails(r)
    <3>1. Published' = Published
      BY <2>7 DEF Published, StoreFails
    <3>2. Register!Keep(r)
      BY <2>1, <2>5, <3>1 DEF Register!Keep
    <3> QED BY <3>2 DEF Register!Next
  <2> QED BY <1>4, <2>6, <2>7
<1>5. CASE Respond(r) \/ ReaderLost(r)
  <2>1. version' = version /\ cache' = cache /\ reader' = [reader EXCEPT ![r] = IdleReader]
    BY <1>5 DEF Respond, ReaderLost
  <2>2. AnswerOf(reader'[r]) = None
    BY <1>0, <2>1 DEF AnswerOf, IdleReader
  <2>3. InHand' = [InHand EXCEPT ![r] = None]
    BY <1>0, <2>1, <2>2 DEF InHand
  <2>4. Published' = Published
    BY <2>1 DEF Published
  <2>5. CASE InHand[r] # None
    <3>1. Register!Done(r)
      BY <2>1, <2>3, <2>4, <2>5 DEF Register!Done
    <3> QED BY <3>1 DEF Register!Next
  <2>6. CASE InHand[r] = None
    <3>1. InHand' = InHand
      BY <2>3, <2>6 DEF InHand
    <3> QED BY <2>1, <2>4, <3>1 DEF Register!vars
  <2> QED BY <2>5, <2>6
<1> QED BY <1>1, <1>2, <1>3, <1>4, <1>5 DEF ReaderStep

(* A commit changes the register, a DEL withdraws copies, and everything   *)
(* else a CRUD handler does is invisible, the DEL that fails included.     *)
LEMMA WriterSimulation ==
    ASSUME IInv, NEW w \in Writers, WriterStep(w)
    PROVE  [Register!Next]_(Register!vars)
<1> DEFINE q == writer[w]
<1>0. TypeOK /\ q \in Writer /\ q.tenant \in Tenants /\ (q.config_changes => q.environment # None)
  BY DEF IInv, TypeOK, Named, Writer
<1>a. Register!Scope = Scope
  BY DEF Register!Scope, Scope
<1>b. reader' = reader
  BY DEF WriterStep, Commit, Refresh, Invalidate, InvalidateFails, Acknowledge, WriterLost
<1>c. InHand' = InHand
  BY <1>b DEF InHand
<1>1. CASE Commit(w)
  <2>1. Changed(q) \in SUBSET Environments
    BY <1>0, InvalidationCoversChange
  <2>2. /\ version' = [s \in Scope |-> IF s[1] = q.tenant /\ s[2] \in Changed(q)
                                      THEN version[s] + 1 ELSE version[s]]
        /\ Published' = Published
    BY <1>1 DEF Commit, Published
  <2>3. Register!Change(q.tenant, Changed(q))
    BY <1>a, <1>c, <2>2 DEF Register!Change
  <2> QED BY <1>0, <2>1, <2>3 DEF Register!Next
<1>2. CASE Invalidate(w)
  <2>1. CASE cache' = cache
    BY <1>2, <1>b, <2>1, SameMapping DEF Invalidate
  <2>2. CASE cache' = [k \in Scope |-> IF k \in InvalidatedKeys(q) THEN None ELSE cache[k]]
    <3>1. \A s \in Scope : CopyOf(cache[s])' =
              IF s \in InvalidatedKeys(q) THEN None ELSE CopyOf(cache[s])
      BY <2>2 DEF CopyOf
    <3>2. Published' = [s \in Scope |-> IF s \in Scope \intersect InvalidatedKeys(q) THEN None
                                        ELSE Published[s]]
      BY <3>1 DEF Published
    <3>3. Register!Withdraw(Scope \intersect InvalidatedKeys(q))
      BY <1>2, <1>a, <1>c, <3>2 DEF Register!Withdraw, Invalidate
    <3>4. Scope \intersect InvalidatedKeys(q) \in SUBSET Register!Scope
      BY <1>a
    <3> QED BY <3>3, <3>4 DEF Register!Next
  <2> QED BY <1>2, <2>1, <2>2 DEF Invalidate
<1>3. CASE version' = version /\ (cache' = cache \/ cache' = MarkMissed(q))
  <2>1. \A s \in Scope : CopyOf(cache[s])' = CopyOf(cache[s])
    <3>1. CASE cache' = cache
      BY <3>1
    <3>2. CASE cache' = MarkMissed(q)
      <4> SUFFICES ASSUME NEW s \in Scope PROVE CopyOf(cache'[s]) = CopyOf(cache[s])
        OBVIOUS
      <4>1. cache'[s] = cache[s] \/ (cache[s] \in Entry /\ cache'[s] = Noted(cache[s]))
        <5>1. cache[s] \in Entry \union {None}
          BY <1>0 DEF TypeOK
        <5>2. cache'[s] = IF s \in InvalidatedKeys(q) /\ cache[s] # None
                          THEN Noted(cache[s]) ELSE cache[s]
          BY <3>2 DEF MarkMissed, Noted
        <5> QED BY <5>1, <5>2
      <4>2. CASE cache[s] \in Entry /\ cache'[s] = Noted(cache[s])
        <5>1. /\ cache'[s] \in Entry /\ cache'[s].version = cache[s].version
              /\ cache'[s].staleFor = cache[s].staleFor
          BY <4>2 DEF Noted, Entry
        <5> QED BY <4>2, <5>1, NoneAssumption DEF CopyOf
      <4> QED BY <4>1, <4>2
    <3> QED BY <1>3, <3>1, <3>2
  <2> QED BY <1>3, <1>b, <2>1, SameMapping
<1> QED BY <1>1, <1>2, <1>3
        DEF WriterStep, Refresh, InvalidateFails, Acknowledge, WriterLost

(* Expiry at the TTL and the ageing of what is published: one unit of time *)
(* of the register, in which no copy passes the bound.                     *)
LEMMA TickSimulation ==
    ASSUME IInv, Delays, IInv', Delays', Tick
    PROVE  Register!Pass
<1> DEFINE gone == {s \in Scope : cache[s] # None /\ cache[s].left = 1}
<1>0. /\ TypeOK /\ TypeOK' /\ version' = version /\ Register!Scope = Scope
      /\ \A s \in Scope : cache'[s] = Age(cache[s])
      /\ \A r \in Readers : reader'[r] = Hold(reader[r])
  BY DEF IInv, Tick, Register!Scope, Scope
<1>a. cache_ttl_seconds \in Nat /\ MaxHeld \in Nat
  BY CacheAssumption
<1>1. ASSUME NEW s \in Scope
      PROVE  CopyOf(cache'[s]) =
                IF Published[s] = None \/ s \in gone THEN None
                ELSE [version |-> Published[s].version,
                      staleFor |-> Register!Outdated(s, Published[s])]
  <2>1. CASE cache[s] = None \/ cache[s].left = 1
    BY <1>0, <2>1, MappingTypes DEF Age, CopyOf
  <2>2. CASE cache[s] # None /\ cache[s].left # 1
    <3>1. cache[s] \in Entry /\ cache[s].of = s /\ version[s] \in Nat
      BY <1>0, <2>2, KeyOfScope DEF TypeOK, IInv, OwnScope, Entry
    <3>2. /\ Published[s] = [version |-> cache[s].version, staleFor |-> cache[s].staleFor]
          /\ Published[s] # None /\ s \notin gone
      BY <1>0, <2>2, MappingTypes DEF CopyOf
    <3>3. /\ cache'[s].version = cache[s].version /\ cache'[s].staleFor = Outdated(cache[s])
      BY <1>0, <2>2, <3>1 DEF Age, Entry
    <3>4. cache'[s] # None
      <4>1. Outdated(cache[s]) \in Nat /\ cache[s].left - 1 \in 1..cache_ttl_seconds
        BY <1>a, <2>2, <3>1 DEF Outdated, Entry
      <4>2. [cache[s] EXCEPT !.left = cache[s].left - 1, !.staleFor = Outdated(cache[s])] \in Entry
        BY <3>1, <4>1 DEF Entry
      <4> QED BY <1>0, <2>2, <4>2, NoneAssumption DEF Age
    <3>5. Outdated(cache[s]) = Register!Outdated(s, Published[s])
      <4>1. cache[s].staleFor < StaleCap
        <5>1. cache[s].staleFor <= cache_ttl_seconds + MaxHeld - 1 /\ cache[s].staleFor \in Nat
          BY <2>2, <3>1, NeverSaturated DEF Entry
        <5> QED BY <1>a, <5>1 DEF StaleCap
      <4> QED BY <3>1, <3>2, <4>1 DEF Outdated, Register!Outdated
    <3> QED BY <3>2, <3>3, <3>4, <3>5 DEF CopyOf
  <2> QED BY <2>1, <2>2
<1>2. Published' = [s \in Scope |->
          IF Published[s] = None \/ s \in gone THEN None
          ELSE [version |-> Published[s].version, staleFor |-> Register!Outdated(s, Published[s])]]
  BY <1>1 DEF Published
<1>3. ASSUME NEW s \in Scope, Published'[s] # None
      PROVE  Published'[s].staleFor <= cache_ttl_seconds + MaxHeld - 1
  <2>1. cache'[s] # None /\ Published'[s] = CopyOf(cache'[s])
    BY <1>3 DEF Published, CopyOf
  <2>2. cache'[s].staleFor <= cache_ttl_seconds + MaxHeld - 1
    <3>1. /\ cache'[s] \in Entry /\ cache'[s].lag <= MaxHeld
          /\ cache'[s].staleFor + cache'[s].left <= cache_ttl_seconds + cache'[s].lag
      BY <1>0, <2>1 DEF TypeOK, Delays, IInv, StalenessBounded
    <3>2. /\ cache'[s].left \in Nat /\ cache'[s].left >= 1
          /\ cache'[s].staleFor \in Nat /\ cache'[s].lag \in Nat
      BY <1>a, <3>1 DEF Entry
    <3> QED BY <1>a, <3>1, <3>2
  <2> QED BY <2>1, <2>2 DEF CopyOf
<1>4. ASSUME NEW r \in Readers
      PROVE  AnswerOf(reader'[r]) =
                IF InHand[r] = None \/ InHand[r].final THEN InHand[r]
                ELSE [scope |-> InHand[r].scope, version |-> InHand[r].version, final |-> FALSE,
                      staleFor |-> Register!Outdated(InHand[r].scope, InHand[r])]
  <2>1. /\ reader[r] \in Reader /\ reader'[r] = Hold(reader[r]) /\ InHand[r] = AnswerOf(reader[r])
        /\ reader[r].of = reader[r].scope /\ reader[r].scope \in Scope
    BY <1>0, MappingTypes DEF TypeOK, IInv, OwnScope, Reader
  <2>2. CASE reader[r].pc \notin {"store", "respond"}
    BY <2>1, <2>2 DEF Hold, AnswerOf
  <2>3. CASE reader[r].pc = "respond"
    <3>1. (reader[r].pc = "respond") = TRUE
      BY <2>3
    <3>2. InHand[r] = [scope |-> reader[r].scope, version |-> reader[r].version, final |-> TRUE,
                       staleFor |-> reader[r].staleFor]
      BY <2>1, <2>3, <3>1 DEF AnswerOf
    <3>3. InHand[r].final
      BY <3>2
    <3>4. AnswerOf(reader'[r]) = InHand[r]
      BY <2>1, <2>3 DEF Hold
    <3> QED BY <3>3, <3>4
  <2>4. CASE reader[r].pc = "store"
    <3>1. (reader[r].pc = "respond") = FALSE
      BY <2>4
    <3>2. InHand[r] = [scope |-> reader[r].scope, version |-> reader[r].version, final |-> FALSE,
                       staleFor |-> reader[r].staleFor]
      BY <2>1, <2>4, <3>1 DEF AnswerOf
    <3>3. ~InHand[r].final /\ InHand[r] # None
      <4>1. ~InHand[r].final
        BY <3>2
      <4>2. InHand[r] # None
        BY <1>0, <2>4, MappingTypes
      <4> QED BY <4>1, <4>2
    <3>4. /\ reader'[r].pc = "store" /\ reader'[r].scope = reader[r].scope
          /\ reader'[r].version = reader[r].version /\ reader'[r].staleFor = Outdated(reader[r])
      BY <2>1, <2>4 DEF Hold, Reader
    <3>5. Outdated(reader[r]) = Register!Outdated(InHand[r].scope, InHand[r])
      <4>1. reader[r].staleFor < StaleCap
        <5>1. reader[r].staleFor <= MaxHeld /\ reader[r].staleFor \in Nat
          BY <2>1, NeverSaturated DEF Reader
        <5> QED BY <1>a, <5>1 DEF StaleCap
      <4> QED BY <2>1, <3>2, <4>1 DEF Outdated, Register!Outdated
    <3>6. (reader'[r].pc = "respond") = FALSE
      BY <3>4
    <3>7. AnswerOf(reader'[r]) = [scope |-> InHand[r].scope, version |-> InHand[r].version,
              final |-> FALSE, staleFor |-> Register!Outdated(InHand[r].scope, InHand[r])]
      <4>1. AnswerOf(reader'[r]) = [scope |-> reader'[r].scope, version |-> reader'[r].version,
                final |-> FALSE, staleFor |-> reader'[r].staleFor]
        BY <3>4, <3>6 DEF AnswerOf
      <4>2. InHand[r].scope = reader[r].scope /\ InHand[r].version = reader[r].version
        BY <3>2
      <4> QED BY <3>4, <3>5, <4>1, <4>2
    <3> QED BY <3>3, <3>7
  <2> QED BY <2>2, <2>3, <2>4
<1>5. InHand' = [r \in Readers |->
          IF InHand[r] = None \/ InHand[r].final THEN InHand[r]
          ELSE [scope |-> InHand[r].scope, version |-> InHand[r].version, final |-> FALSE,
                staleFor |-> Register!Outdated(InHand[r].scope, InHand[r])]]
  BY <1>4 DEF InHand
<1>6. gone \in SUBSET Scope
  OBVIOUS
<1> HIDE DEF gone
<1> QED BY <1>0, <1>2, <1>3, <1>5, <1>6 DEF Register!Pass

----------------------------------------------------------------------------
(* Every behaviour of get_flag_set, set_flag_set and invalidate is one of  *)
(* the register: an evaluation serves the committed flag set of its own    *)
(* scope or a copy of it that has been outdated for less than              *)
(* cache_ttl_seconds plus the delay of its loader.                         *)
THEOREM CacheImplementsRegister == Spec => ImplementsRegister
<1>1. Init => Register!Init
  <2> SUFFICES ASSUME Init PROVE Register!Init
    OBVIOUS
  <2>1. Published = [s \in Scope |-> None]
    BY DEF Init, Published, CopyOf
  <2>2. InHand = [r \in Readers |-> None]
    BY DEF Init, InHand, AnswerOf, IdleReader
  <2> QED BY <2>1, <2>2 DEF Init, Register!Init, Register!Scope, Scope
<1>2. Init => Delays
  BY CacheAssumption DEF Init, Delays, IdleReader
<1>3. Spec => []Delays
  <2>1. IInv /\ Delays /\ [Next]_vars => Delays'
    BY DelaysStep DEF IInv
  <2> QED BY <1>2, <2>1, Invariance, PTL DEF Spec
<1>4. IInv /\ Delays /\ IInv' /\ Delays' /\ [Next]_vars => [Register!Next]_(Register!vars)
  <2> SUFFICES ASSUME IInv, Delays, IInv', Delays', [Next]_vars
               PROVE  [Register!Next]_(Register!vars)
    OBVIOUS
  <2>1. ASSUME NEW r \in Readers, ReaderStep(r) PROVE [Register!Next]_(Register!vars)
    BY <2>1, ReaderSimulation
  <2>2. ASSUME NEW r \in Readers, NEW s \in Scope, StartEvaluate(r, s)
        PROVE  [Register!Next]_(Register!vars)
    <3>1. version' = version /\ cache' = cache
      BY <2>2 DEF StartEvaluate
    <3>2. \A x \in Readers : AnswerOf(reader[x])' = AnswerOf(reader[x])
      BY <2>2, IdleTypes DEF StartEvaluate, AnswerOf, IInv, TypeOK, Reader
    <3> QED BY <3>1, <3>2, SameMapping
  <2>3. ASSUME NEW w \in Writers, WriterStep(w) PROVE [Register!Next]_(Register!vars)
    BY <2>3, WriterSimulation
  <2>4. ASSUME NEW w \in Writers, Write(w) PROVE [Register!Next]_(Register!vars)
    BY <2>4, SameMapping DEF Write, StartWrite
  <2>5. ASSUME NEW k \in Scope, Evict(k) PROVE [Register!Next]_(Register!vars)
    <3>1. version' = version /\ InHand' = InHand
      BY <2>5 DEF Evict, InHand
    <3>2. Published' = [s \in Scope |-> IF s \in {k} THEN None ELSE Published[s]]
      BY <2>5 DEF Evict, Published, CopyOf, IInv, TypeOK
    <3>3. Register!Withdraw({k}) /\ {k} \in SUBSET Register!Scope
      BY <3>1, <3>2 DEF Register!Withdraw, Register!Scope, Scope
    <3> QED BY <3>3 DEF Register!Next
  <2>6. CASE Tick
    BY <2>6, TickSimulation DEF Register!Next
  <2>7. CASE UNCHANGED vars
    BY <2>7, SameMapping DEF vars
  <2> QED BY <2>1, <2>2, <2>3, <2>4, <2>5, <2>6, <2>7 DEF Next
<1> QED BY <1>1, <1>3, <1>4, Invariance, PTL DEF Spec, ImplementsRegister, Register!Spec
============================================================================
