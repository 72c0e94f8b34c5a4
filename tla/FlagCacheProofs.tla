-------------------------- MODULE FlagCacheProofs --------------------------
(***************************************************************************)
(* The safety properties of FlagCache for every set of tenants,            *)
(* environments and concurrent requests, every TTL and every bound.        *)
(***************************************************************************)
EXTENDS FlagCache, TLAPS

(* The idle records are records of their types (evaluate.py, flags.py: a   *)
(* request slot with no request in it).                                    *)
LEMMA IdleTypes == SomeScope \in Scope /\ IdleReader \in Reader /\ IdleWriter \in Writer
<1>1. \E s : s \in Scope
  <2>1. PICK t \in Tenants, e \in Environments : TRUE
    BY CacheAssumption
  <2>2. <<t, e>> \in Scope
    BY DEF Scope
  <2> QED BY <2>2
<1>2. SomeScope \in Scope
  BY <1>1 DEF SomeScope
<1>3. SomeScope[1] \in Tenants
  BY <1>2 DEF Scope
<1>4. IdleReader \in Reader
  BY <1>2 DEF IdleReader, Reader
<1>5. IdleWriter \in Writer
  BY <1>3 DEF IdleWriter, Writer
<1> QED BY <1>2, <1>4, <1>5

(* cache._key is one-to-one: the key of a scope is that scope's alone.     *)
LEMMA KeyOfScope == \A s \in Scope : KeyOf(s) = s /\ KeyOf(s) \in Scope
BY DEF KeyOf, cache_key, Scope

(* The keys invalidate() deletes are keys of the request's tenant, and     *)
(* they cover every flag set the request changes.                          *)
LEMMA InvalidationCoversChange ==
    ASSUME NEW q \in Writer, q.config_changes => q.environment # None
    PROVE  /\ Changed(q) \subseteq Environments
           /\ Changed(q) \subseteq Invalidated(q)
           /\ Invalidated(q) \subseteq Environments
           /\ InvalidatedKeys(q) = {q.tenant} \X Invalidated(q)
<1>1. q.environment \in Environments \union {None} /\ q.tenant \in Tenants
  BY DEF Writer
<1>2. Changed(q) \subseteq Environments /\ Changed(q) \subseteq Invalidated(q)
  BY <1>1 DEF Changed, Invalidated
<1>3. Invalidated(q) \subseteq Environments
  BY <1>1 DEF Invalidated
<1>4. InvalidatedKeys(q) = {q.tenant} \X Invalidated(q)
  BY DEF InvalidatedKeys, cache_key
<1> QED BY <1>2, <1>3, <1>4

(* Ageing an entry leaves an entry with a positive time to live, or none.  *)
LEMMA AgeType == \A x \in Entry : Age(x) \in Entry \union {None}
<1> SUFFICES ASSUME NEW x \in Entry, x.left # 1
             PROVE  [x EXCEPT !.left = x.left - 1, !.staleFor = Outdated(x)] \in Entry
  BY DEF Age
<1>1. Outdated(x) \in Nat
  BY DEF Outdated, Entry
<1>2. x.left - 1 \in 1..cache_ttl_seconds
  BY CacheAssumption DEF Entry
<1> QED BY <1>1, <1>2 DEF Entry

(* Ageing a loader leaves a loader.                                        *)
LEMMA HoldType == \A q \in Reader : Hold(q) \in Reader
<1> SUFFICES ASSUME NEW q \in Reader
             PROVE  [q EXCEPT !.held = q.held + 1, !.staleFor = Outdated(q)] \in Reader
  BY DEF Hold
<1>1. Outdated(q) \in Nat /\ q.held + 1 \in Nat
  BY DEF Outdated, Reader
<1> QED BY <1>1 DEF Reader

----------------------------------------------------------------------------
(* Every step keeps the variables in their types.                          *)
LEMMA TypeStep == TypeOK /\ [Next]_vars => TypeOK'
<1> SUFFICES ASSUME TypeOK, [Next]_vars PROVE TypeOK'
  OBVIOUS
<1> USE CacheAssumption, IdleTypes, KeyOfScope
<1>1. ASSUME NEW r \in Readers, NEW s \in Scope, StartEvaluate(r, s) PROVE TypeOK'
  <2>1. [IdleReader EXCEPT !.pc = IF cache_enabled THEN "lookup" ELSE "load",
                           !.scope = s, !.of = s, !.floor = acked[s]] \in Reader
    BY <1>1 DEF TypeOK, Reader
  <2> QED BY <1>1, <2>1 DEF StartEvaluate, TypeOK
<1>2. ASSUME NEW r \in Readers, ReaderStep(r) PROVE TypeOK'
  <2>1. CASE LookupHit(r)
    <3>1. reader[r] \in Reader /\ cache[reader[r].scope] \in Entry
      BY <2>1 DEF LookupHit, TypeOK, Reader
    <3>2. PICK x \in Entry : x = cache[reader[r].scope]
      BY <3>1
    <3>3. reader'[r] \in Reader
      BY <2>1, <3>1, <3>2 DEF LookupHit, TypeOK, Reader, Entry
    <3>4. reader' \in [Readers -> Reader]
      BY <2>1, <3>3 DEF LookupHit, TypeOK
    <3> QED BY <2>1, <3>4 DEF LookupHit, TypeOK
  <2>2. CASE LookupMiss(r)
    BY <2>2 DEF LookupMiss, TypeOK, Reader
  <2>3. CASE Load(r)
    <3>1. reader[r] \in Reader /\ version[reader[r].scope] \in Nat
      BY DEF TypeOK, Reader
    <3>2. \A p \in {"store", "respond"} :
              [reader[r] EXCEPT !.pc = p, !.version = version[reader[r].scope],
                                !.held = 0, !.staleFor = 0] \in Reader
      BY <3>1 DEF Reader
    <3>3. reader' \in [Readers -> Reader]
      BY <2>3, <3>1, <3>2 DEF Load, TypeOK
    <3> QED BY <2>3, <3>3 DEF Load, TypeOK
  <2>4. CASE Store(r)
    <3>1. reader[r] \in Reader
      BY DEF TypeOK
    <3>2. [version |-> reader[r].version, of |-> reader[r].of, left |-> cache_ttl_seconds,
           lag |-> reader[r].held, late |-> reader[r].version < version[reader[r].of],
           missed |-> FALSE, staleFor |-> reader[r].staleFor] \in Entry
      BY <3>1 DEF TypeOK, Reader, Entry
    <3>3. cache' \in [Scope -> Entry \union {None}]
      BY <2>4, <3>2 DEF Store, TypeOK
    <3>4. reader' \in [Readers -> Reader]
      BY <2>4, <3>1 DEF Store, TypeOK, Reader
    <3> QED BY <2>4, <3>3, <3>4 DEF Store, TypeOK
  <2>5. CASE StoreFails(r)
    <3>1. reader[r] \in Reader
      BY DEF TypeOK
    <3>2. [reader[r] EXCEPT !.pc = "respond", !.held = 0, !.staleFor = 0] \in Reader
      BY <3>1 DEF Reader
    <3>3. reader' \in [Readers -> Reader]
      BY <2>5, <3>2 DEF StoreFails, TypeOK
    <3> QED BY <2>5, <3>3 DEF StoreFails, TypeOK
  <2>6. CASE Respond(r) \/ ReaderLost(r)
    BY <2>6 DEF Respond, ReaderLost, TypeOK
  <2> QED BY <1>2, <2>1, <2>2, <2>3, <2>4, <2>5, <2>6 DEF ReaderStep
<1>3. ASSUME NEW w \in Writers, Write(w) PROVE TypeOK'
  <2>1. PICK t \in Tenants, f \in BOOLEAN, c \in BOOLEAN, e \in Environments \union {None} :
            StartWrite(w, t, f, c, e)
    BY <1>3 DEF Write
  <2>2. [IdleWriter EXCEPT !.pc = "commit", !.tenant = t, !.flag_changes = f,
                           !.config_changes = c, !.environment = e] \in Writer
    BY DEF Writer
  <2> QED BY <2>1, <2>2 DEF StartWrite, TypeOK
<1>4. ASSUME NEW w \in Writers, WriterStep(w) PROVE TypeOK'
  <2>0. \A q \in Writer : MarkMissed(q) \in [Scope -> Entry \union {None}]
    BY DEF TypeOK, MarkMissed, Entry
  <2>1. CASE Commit(w)
    <3>1. writer[w] \in Writer
      BY DEF TypeOK
    <3>2. \A e \in Environments : version[<<writer[w].tenant, e>>] \in Nat
      BY <3>1 DEF TypeOK, Writer, Scope
    <3>3. version' \in [Scope -> Nat]
      BY <2>1 DEF Commit, TypeOK
    <3>4. writer' \in [Writers -> Writer]
      <4>1. [e \in Environments |-> IF e \in Changed(writer[w])
                 THEN version[<<writer[w].tenant, e>>] + 1 ELSE 0] \in [Environments -> Nat]
        BY <3>2
      <4> QED BY <2>1, <3>1, <4>1 DEF Commit, TypeOK, Writer
    <3> QED BY <2>1, <3>3, <3>4 DEF Commit, TypeOK
  <2>2. CASE Refresh(w)
    BY <2>2 DEF Refresh, TypeOK, Writer
  <2>3. CASE Invalidate(w)
    BY <2>3 DEF Invalidate, TypeOK, Writer
  <2>4. CASE InvalidateFails(w)
    BY <2>0, <2>4 DEF InvalidateFails, TypeOK, Writer
  <2>5. CASE Acknowledge(w)
    BY <2>5 DEF Acknowledge, TypeOK, Writer, Scope
  <2>6. CASE WriterLost(w)
    BY <2>0, <2>6 DEF WriterLost, TypeOK
  <2> QED BY <1>4, <2>1, <2>2, <2>3, <2>4, <2>5, <2>6 DEF WriterStep
<1>5. ASSUME NEW k \in Scope, Evict(k) PROVE TypeOK'
  BY <1>5 DEF Evict, TypeOK
<1>6. CASE Tick
  <2>2. ASSUME NEW k \in Scope PROVE Age(cache[k]) \in Entry \union {None}
    BY AgeType DEF TypeOK, Age
  <2>3. ASSUME NEW r \in Readers PROVE Hold(reader[r]) \in Reader
    BY HoldType DEF TypeOK
  <2> QED BY <1>6, <2>2, <2>3 DEF Tick, TypeOK
<1>7. CASE UNCHANGED vars
  BY <1>7 DEF vars, TypeOK
<1> QED BY <1>1, <1>2, <1>3, <1>4, <1>5, <1>6, <1>7 DEF Next

(* The state of the cache protocol is well typed in every reachable state. *)
THEOREM TypeCorrect == Spec => []TypeOK
<1>1. Init => TypeOK
  BY IdleTypes DEF Init, TypeOK
<1> QED BY <1>1, TypeStep, PTL DEF Spec

----------------------------------------------------------------------------
(* The parts of the inductive invariant that are not properties of their   *)
(* own.                                                                    *)

(* FlagUpdate lets no request change a config row it does not name.        *)
Named == \A w \in Writers : writer[w].config_changes => writer[w].environment # None

(* With the cache disabled nothing is ever looked up or stored.            *)
CacheOff ==
    ~cache_enabled => /\ \A k \in Scope : cache[k] = None
                      /\ \A r \in Readers : reader[r].pc \notin {"lookup", "store"}

(* A loader with a query result in hand is never ahead of what is          *)
(* committed, and counts as outdated only once a commit has overtaken it.  *)
Loading ==
    \A r \in Readers : reader[r].pc = "store" =>
        /\ reader[r].version <= version[reader[r].of]
        /\ reader[r].staleFor <= reader[r].held
        /\ reader[r].staleFor > 0 => reader[r].version < version[reader[r].of]

(* An entry that was current when it was stored uses up its TTL from then. *)
FreshBound ==
    \A k \in Scope : cache[k] # None =>
        (~cache[k].late => cache[k].staleFor + cache[k].left <= cache_ttl_seconds)

(* A change is answered after it is committed, and an evaluation expects   *)
(* no more than was answered when it began.                                *)
Answered ==
    /\ \A s \in Scope : acked[s] <= version[s]
    /\ \A w \in Writers, e \in Environments :
            writer[w].wrote[e] <= version[<<writer[w].tenant, e>>]
    /\ \A r \in Readers : reader[r].floor <= version[reader[r].scope]

----------------------------------------------------------------------------
Noted(x) == [x EXCEPT !.missed = TRUE]

(* What one step can do to the Redis entry under a key: remove it, leave   *)
(* it, note that its invalidation was lost, age it, or replace it by what  *)
(* a loader holds.                                                         *)
LEMMA EntryStep ==
    ASSUME TypeOK, [Next]_vars, NEW k \in Scope
    PROVE  \/ cache'[k] = None
           \/ cache'[k] = cache[k]
           \/ cache[k] \in Entry /\ cache[k] # None /\ cache'[k] = Noted(cache[k])
           \/ Tick /\ cache[k] \in Entry /\ cache[k].left # 1 /\ cache'[k] = Age(cache[k])
           \/ \E r \in Readers : Store(r) /\ k = KeyOf(reader[r].scope)
<1> DEFINE Goal == \/ cache'[k] = None
                   \/ cache'[k] = cache[k]
                   \/ cache[k] \in Entry /\ cache[k] # None /\ cache'[k] = Noted(cache[k])
                   \/ /\ Tick /\ cache[k] \in Entry /\ cache[k].left # 1
                      /\ cache'[k] = Age(cache[k])
                   \/ \E r \in Readers : Store(r) /\ k = KeyOf(reader[r].scope)
<1> SUFFICES Goal
  OBVIOUS
<1>1. ASSUME NEW r \in Readers, Store(r) PROVE Goal
  BY <1>1, KeyOfScope DEF Store, TypeOK, Reader
<1>2. ASSUME NEW r \in Readers, ReaderStep(r), ~Store(r) PROVE Goal
  <2>1. cache' = cache
    BY <1>2 DEF ReaderStep, LookupHit, LookupMiss, Load, StoreFails, Respond, ReaderLost
  <2> QED BY <2>1
<1>3. ASSUME NEW r \in Readers, NEW s \in Scope, StartEvaluate(r, s) PROVE Goal
  BY <1>3 DEF StartEvaluate
<1>4. ASSUME NEW w \in Writers, WriterStep(w) PROVE Goal
  <2>1. CASE cache' = cache
    BY <2>1
  <2>2. CASE Invalidate(w)
    BY <2>2 DEF Invalidate
  <2>3. CASE cache' = MarkMissed(writer[w])
    BY <2>3 DEF MarkMissed, TypeOK, Noted
  <2> QED BY <1>4, <2>1, <2>2, <2>3
          DEF WriterStep, Commit, Refresh, InvalidateFails, Acknowledge, WriterLost
<1>5. ASSUME NEW w \in Writers, Write(w) PROVE Goal
  BY <1>5 DEF Write, StartWrite
<1>6. ASSUME NEW j \in Scope, Evict(j) PROVE Goal
  BY <1>6 DEF Evict, TypeOK
<1>7. CASE Tick
  BY <1>7 DEF Tick, TypeOK, Age
<1>8. CASE UNCHANGED vars
  BY <1>8 DEF vars
<1> QED BY <1>1, <1>2, <1>3, <1>4, <1>5, <1>6, <1>7, <1>8 DEF Next

(* Committed versions only grow, and only a commit that changes a scope    *)
(* moves the scope's version.                                              *)
LEMMA VersionStep ==
    ASSUME TypeOK, [Next]_vars, NEW s \in Scope
    PROVE  /\ version'[s] \in Nat /\ version[s] <= version'[s]
           /\ version'[s] # version[s] => \E w \in Writers :
                  Commit(w) /\ s[1] = writer[w].tenant /\ s[2] \in Changed(writer[w])
<1>1. ASSUME NEW w \in Writers, Commit(w)
      PROVE  /\ version'[s] \in Nat /\ version[s] <= version'[s]
             /\ version'[s] # version[s] =>
                    s[1] = writer[w].tenant /\ s[2] \in Changed(writer[w])
  <2>1. version[s] \in Nat
    BY DEF TypeOK
  <2>2. version'[s] = IF s[1] = writer[w].tenant /\ s[2] \in Changed(writer[w])
                      THEN version[s] + 1 ELSE version[s]
    BY <1>1 DEF Commit
  <2> QED BY <2>1, <2>2
<1>2. CASE ~ \E w \in Writers : Commit(w)
  <2>1. version' = version
    BY <1>2 DEF Next, vars, ReaderStep, LookupHit, LookupMiss, Load, Store, StoreFails, Respond,
        ReaderLost, StartEvaluate, WriterStep, Refresh, Invalidate, InvalidateFails, Acknowledge,
        WriterLost, Write, StartWrite, Evict, Tick
  <2> QED BY <2>1 DEF TypeOK
<1> QED BY <1>1, <1>2

(* What one step can do to a request slot of the evaluation endpoints, as  *)
(* far as a loaded flag set is concerned.                                  *)
LEMMA LoaderStep ==
    ASSUME TypeOK, [Next]_vars, NEW r \in Readers
    PROVE  \/ reader'[r] = reader[r]
           \/ reader'[r].pc # "store"
           \/ Load(r)
           \/ Tick /\ reader'[r] = Hold(reader[r])
<1> DEFINE Goal == \/ reader'[r] = reader[r]
                   \/ reader'[r].pc # "store"
                   \/ Load(r)
                   \/ Tick /\ reader'[r] = Hold(reader[r])
<1> SUFFICES Goal
  OBVIOUS
<1>1. ASSUME NEW q \in Readers, ReaderStep(q) \/ \E s \in Scope : StartEvaluate(q, s) PROVE Goal
  <2>1. CASE q # r
    <3>1. reader'[r] = reader[r]
      BY <1>1, <2>1 DEF TypeOK, ReaderStep, LookupHit, LookupMiss, Load, Store, StoreFails,
                        Respond, ReaderLost, StartEvaluate
    <3> QED BY <3>1
  <2>2. CASE q = r /\ ~Load(r)
    <3>1. IdleReader.pc = "idle" /\ reader[r] \in Reader
      BY DEF IdleReader, TypeOK
    <3>2. CASE \E s \in Scope : StartEvaluate(r, s)
      BY <3>1, <3>2, IdleTypes DEF StartEvaluate, TypeOK, Reader
    <3>3. CASE Respond(r) \/ ReaderLost(r)
      BY <3>1, <3>3 DEF Respond, ReaderLost, TypeOK
    <3>4. CASE LookupHit(r) \/ LookupMiss(r)
      BY <3>1, <3>4 DEF LookupHit, LookupMiss, TypeOK, Reader
    <3>5. CASE Store(r) \/ StoreFails(r)
      BY <3>1, <3>5 DEF Store, StoreFails, TypeOK, Reader
    <3> QED BY <1>1, <2>2, <3>2, <3>3, <3>4, <3>5 DEF ReaderStep
  <2> QED BY <2>1, <2>2
<1>2. CASE Tick
  BY <1>2 DEF Tick
<1>3. CASE reader' = reader
  BY <1>3
<1> QED BY <1>1, <1>2, <1>3 DEF Next, vars, WriterStep, Commit, Refresh, Invalidate, InvalidateFails,
        Acknowledge, WriterLost, Write, StartWrite, Evict

----------------------------------------------------------------------------
(* Every step keeps Named.                                                 *)
LEMMA NamedStep == TypeOK /\ Named /\ [Next]_vars => Named'
<1> SUFFICES ASSUME TypeOK, Named, [Next]_vars, NEW w \in Writers
             PROVE  writer'[w].config_changes => writer'[w].environment # None
  BY DEF Named
<1>1. CASE writer'[w] = writer[w]
  BY <1>1 DEF Named
<1>2. CASE Write(w)
  <2>1. PICK t \in Tenants, f \in BOOLEAN, c \in BOOLEAN, e \in Environments \union {None} :
            StartWrite(w, t, f, c, e)
    BY <1>2 DEF Write
  <2>2. writer'[w] = [IdleWriter EXCEPT !.pc = "commit", !.tenant = t, !.flag_changes = f,
                                        !.config_changes = c, !.environment = e]
    BY <2>1 DEF StartWrite, TypeOK
  <2>3. writer'[w].config_changes = c /\ writer'[w].environment = e
    BY <2>2 DEF IdleWriter
  <2> QED BY <2>1, <2>3 DEF StartWrite
<1>3. CASE WriterStep(w)
  <2>1. writer[w] \in Writer /\ ~IdleWriter.config_changes
    BY DEF TypeOK, IdleWriter
  <2>2. \/ writer'[w] = IdleWriter
        \/ /\ writer'[w].config_changes = writer[w].config_changes
           /\ writer'[w].environment = writer[w].environment
    <3>1. CASE Commit(w)
      BY <2>1, <3>1 DEF Commit, TypeOK, Writer
    <3>2. CASE Refresh(w) \/ Invalidate(w) \/ InvalidateFails(w)
      BY <2>1, <3>2 DEF Refresh, Invalidate, InvalidateFails, TypeOK, Writer
    <3>3. CASE Acknowledge(w) \/ WriterLost(w)
      BY <3>3 DEF Acknowledge, WriterLost, TypeOK
    <3> QED BY <1>3, <3>1, <3>2, <3>3 DEF WriterStep
  <2> QED BY <2>1, <2>2 DEF Named
<1>4. ASSUME NEW v \in Writers, v # w, WriterStep(v) \/ Write(v) PROVE writer'[w] = writer[w]
  BY <1>4 DEF TypeOK, WriterStep, Commit, Refresh, Invalidate, InvalidateFails, Acknowledge,
              WriterLost, Write, StartWrite
<1>5. CASE writer' = writer
  BY <1>1, <1>5
<1> QED BY <1>1, <1>2, <1>3, <1>4, <1>5 DEF Next, vars, ReaderStep, LookupHit, LookupMiss, Load,
        Store, StoreFails, Respond, ReaderLost, StartEvaluate, Evict, Tick

(* Every step keeps OwnScope.                                              *)
LEMMA OwnScopeStep == TypeOK /\ OwnScope /\ [Next]_vars => OwnScope'
<1> SUFFICES ASSUME TypeOK, OwnScope, [Next]_vars PROVE OwnScope'
  OBVIOUS
<1>1. ASSUME NEW k \in Scope, cache'[k] # None PROVE KeyOf(cache'[k].of) = k
  <2>1. CASE cache'[k] = cache[k]
    BY <1>1, <2>1 DEF OwnScope
  <2>2. CASE cache[k] \in Entry /\ cache[k] # None /\ cache'[k] = Noted(cache[k])
    <3>1. cache'[k].of = cache[k].of
      BY <2>2 DEF Entry, Noted
    <3> QED BY <2>2, <3>1 DEF OwnScope
  <2>3. CASE cache[k] \in Entry /\ cache[k].left # 1 /\ cache'[k] = Age(cache[k])
    <3>1. cache[k] # None
      BY <1>1, <2>3 DEF Age
    <3>2. cache'[k].of = cache[k].of
      BY <2>3, <3>1 DEF Entry, Age
    <3> QED BY <3>1, <3>2 DEF OwnScope
  <2>4. ASSUME NEW r \in Readers, Store(r), k = KeyOf(reader[r].scope)
        PROVE  KeyOf(cache'[k].of) = k
    <3>1. cache'[k].of = reader[r].of
      BY <2>4, KeyOfScope DEF Store, TypeOK, Reader
    <3> QED BY <2>4, <3>1 DEF OwnScope
  <2> QED BY <1>1, <2>1, <2>2, <2>3, <2>4, EntryStep
<1>2. ASSUME NEW r \in Readers PROVE reader'[r].of = reader'[r].scope
  <2>0. reader[r] \in Reader /\ IdleReader.of = IdleReader.scope /\ reader[r].of = reader[r].scope
    BY DEF TypeOK, IdleReader, OwnScope
  <2>1. CASE reader'[r] = reader[r]
    BY <2>0, <2>1
  <2>2. CASE LookupHit(r)
    <3>1. KeyOf(cache[KeyOf(reader[r].scope)].of) = KeyOf(reader[r].scope)
      BY <2>0, <2>2, KeyOfScope DEF LookupHit, OwnScope, Reader
    <3>2. cache[KeyOf(reader[r].scope)].of \in Scope /\ reader[r].scope \in Scope
      BY <2>0, <2>2, KeyOfScope DEF LookupHit, TypeOK, Entry, Reader
    <3>3. cache[KeyOf(reader[r].scope)].of = reader[r].scope
      BY <3>1, <3>2, KeyOfScope
    <3> QED BY <2>0, <2>2, <3>3 DEF LookupHit, TypeOK, Reader
  <2>3. CASE LookupMiss(r) \/ Load(r) \/ Store(r) \/ StoreFails(r)
    BY <2>0, <2>3 DEF LookupMiss, Load, Store, StoreFails, TypeOK, Reader
  <2>4. CASE Respond(r) \/ ReaderLost(r)
    BY <2>0, <2>4 DEF Respond, ReaderLost, TypeOK
  <2>5. ASSUME NEW s \in Scope, StartEvaluate(r, s) PROVE reader'[r].of = reader'[r].scope
    BY <2>5, IdleTypes DEF StartEvaluate, TypeOK, Reader
  <2>6. CASE Tick
    BY <2>0, <2>6 DEF Tick, Hold, Reader
  <2>7. ASSUME NEW q \in Readers, q # r, ReaderStep(q) \/ \E s \in Scope : StartEvaluate(q, s)
        PROVE  reader'[r] = reader[r]
    BY <2>7 DEF TypeOK, ReaderStep, LookupHit, LookupMiss, Load, Store, StoreFails, Respond,
                ReaderLost, StartEvaluate
  <2>8. CASE reader' = reader
    BY <2>1, <2>8
  <2> QED BY <2>1, <2>2, <2>3, <2>4, <2>5, <2>6, <2>7, <2>8 DEF Next, vars, ReaderStep, WriterStep,
          Commit, Refresh, Invalidate, InvalidateFails, Acknowledge, WriterLost, Write, StartWrite,
          Evict
<1> QED BY <1>1, <1>2 DEF OwnScope

(* Every step keeps CacheOff.                                              *)
LEMMA CacheOffStep == TypeOK /\ CacheOff /\ [Next]_vars => CacheOff'
<1> SUFFICES ASSUME TypeOK, CacheOff, [Next]_vars, ~cache_enabled
             PROVE  /\ \A k \in Scope : cache'[k] = None
                    /\ \A r \in Readers : reader'[r].pc \notin {"lookup", "store"}
  BY DEF CacheOff
<1>0. /\ \A k \in Scope : cache[k] = None
      /\ \A r \in Readers : reader[r].pc \notin {"lookup", "store"}
  BY DEF CacheOff
<1>1. ASSUME NEW k \in Scope PROVE cache'[k] = None
  <2>1. ~ \E r \in Readers : Store(r)
    BY <1>0 DEF Store
  <2> QED BY <1>0, <2>1, EntryStep DEF Age
<1>2. ASSUME NEW r \in Readers PROVE reader'[r].pc \notin {"lookup", "store"}
  <2>0. reader[r] \in Reader /\ IdleReader.pc = "idle"
    BY DEF TypeOK, IdleReader
  <2>1. CASE reader'[r] = reader[r]
    BY <1>0, <2>1
  <2>2. CASE ReaderStep(r)
    <3>1. CASE Load(r)
      BY <2>0, <3>1 DEF Load, TypeOK, Reader
    <3>2. CASE Respond(r) \/ ReaderLost(r)
      BY <2>0, <3>2 DEF Respond, ReaderLost, TypeOK
    <3> QED BY <1>0, <2>2, <3>1, <3>2 DEF ReaderStep, LookupHit, LookupMiss, Store, StoreFails
  <2>3. ASSUME NEW s \in Scope, StartEvaluate(r, s)
        PROVE  reader'[r].pc \notin {"lookup", "store"}
    BY <2>3, IdleTypes DEF StartEvaluate, TypeOK, Reader
  <2>4. CASE Tick
    BY <1>0, <2>4 DEF Tick, Hold
  <2>5. ASSUME NEW q \in Readers, q # r, ReaderStep(q) \/ \E s \in Scope : StartEvaluate(q, s)
        PROVE  reader'[r] = reader[r]
    BY <2>5 DEF TypeOK, ReaderStep, LookupHit, LookupMiss, Load, Store, StoreFails, Respond,
                ReaderLost, StartEvaluate
  <2>6. CASE reader' = reader
    BY <2>1, <2>6
  <2> QED BY <2>1, <2>2, <2>3, <2>4, <2>5, <2>6 DEF Next, vars, WriterStep, Commit, Refresh,
          Invalidate, InvalidateFails, Acknowledge, WriterLost, Write, StartWrite, Evict
<1> QED BY <1>1, <1>2

(* Every step keeps Loading: only Load puts a flag set in hand, and what   *)
(* it puts there is current.                                               *)
LEMMA LoadingStep == TypeOK /\ OwnScope /\ Loading /\ [Next]_vars => Loading'
<1> SUFFICES ASSUME TypeOK, OwnScope, Loading, [Next]_vars, NEW r \in Readers,
                    reader'[r].pc = "store"
             PROVE  /\ reader'[r].version <= version'[reader'[r].of]
                    /\ reader'[r].staleFor <= reader'[r].held
                    /\ reader'[r].staleFor > 0 => reader'[r].version < version'[reader'[r].of]
  BY DEF Loading
<1>0. reader[r] \in Reader /\ reader[r].of \in Scope /\ version[reader[r].of] \in Nat
  BY DEF TypeOK, Reader
<1>1. CASE reader'[r] = reader[r]
  <2>1. version[reader[r].of] <= version'[reader[r].of] /\ version'[reader[r].of] \in Nat
    BY <1>0, VersionStep
  <2> QED BY <1>0, <1>1, <2>1 DEF Loading, Reader
<1>2. CASE Load(r)
  <2>1. /\ reader'[r].of = reader[r].of /\ reader'[r].version = version[reader[r].of]
        /\ reader'[r].held = 0 /\ reader'[r].staleFor = 0
    BY <1>0, <1>2 DEF Load, TypeOK, Reader, OwnScope
  <2> QED BY <1>0, <1>2, <2>1 DEF Load
<1>3. CASE Tick /\ reader'[r] = Hold(reader[r])
  <2>1. reader[r].pc = "store" /\ version' = version
    BY <1>0, <1>3 DEF Tick, Hold, Reader
  <2>2. /\ reader'[r].of = reader[r].of /\ reader'[r].version = reader[r].version
        /\ reader'[r].held = reader[r].held + 1 /\ reader'[r].staleFor = Outdated(reader[r])
    BY <1>0, <1>3, <2>1 DEF Hold, Reader
  <2> QED BY <1>0, <2>1, <2>2 DEF Loading, Outdated, Reader
<1> QED BY <1>1, <1>2, <1>3, LoaderStep

(* Every step keeps the two bounds on how long an entry is stale.          *)
LEMMA BoundStep ==
    TypeOK /\ Loading /\ FreshBound /\ StalenessBounded /\ [Next]_vars
        => FreshBound' /\ StalenessBounded'
<1> SUFFICES ASSUME TypeOK, Loading, FreshBound, StalenessBounded, [Next]_vars,
                    NEW k \in Scope, cache'[k] # None
             PROVE  /\ ~cache'[k].late => cache'[k].staleFor + cache'[k].left <= cache_ttl_seconds
                    /\ cache'[k].staleFor + cache'[k].left <= cache_ttl_seconds + cache'[k].lag
  BY DEF FreshBound, StalenessBounded
<1>0. cache[k] # None =>
          /\ cache[k] \in Entry
          /\ ~cache[k].late => cache[k].staleFor + cache[k].left <= cache_ttl_seconds
          /\ cache[k].staleFor + cache[k].left <= cache_ttl_seconds + cache[k].lag
  BY DEF FreshBound, StalenessBounded, TypeOK
<1>1. CASE cache'[k] = cache[k]
  BY <1>0, <1>1
<1>2. CASE cache[k] \in Entry /\ cache[k] # None /\ cache'[k] = Noted(cache[k])
  <2>1. /\ cache'[k].late = cache[k].late /\ cache'[k].staleFor = cache[k].staleFor
        /\ cache'[k].left = cache[k].left /\ cache'[k].lag = cache[k].lag
    BY <1>2 DEF Noted, Entry
  <2> QED BY <1>0, <1>2, <2>1
<1>3. CASE cache[k] \in Entry /\ cache[k].left # 1 /\ cache'[k] = Age(cache[k])
  <2>1. cache[k] # None
    BY <1>3 DEF Age
  <2>2. /\ cache'[k].late = cache[k].late /\ cache'[k].lag = cache[k].lag
        /\ cache'[k].left = cache[k].left - 1 /\ cache'[k].staleFor = Outdated(cache[k])
    BY <1>3, <2>1 DEF Age, Entry
  <2>3. Outdated(cache[k]) \in Nat /\ Outdated(cache[k]) <= cache[k].staleFor + 1
    BY <1>3 DEF Outdated, Entry
  <2>4. /\ cache[k].left \in Nat /\ cache[k].staleFor \in Nat /\ cache[k].lag \in Nat
        /\ cache_ttl_seconds \in Nat
    BY <1>3, CacheAssumption DEF Entry
  <2> QED BY <1>0, <2>1, <2>2, <2>3, <2>4
<1>4. ASSUME NEW r \in Readers, Store(r), k = KeyOf(reader[r].scope)
      PROVE  /\ ~cache'[k].late => cache'[k].staleFor + cache'[k].left <= cache_ttl_seconds
             /\ cache'[k].staleFor + cache'[k].left <= cache_ttl_seconds + cache'[k].lag
  <2>1. reader[r] \in Reader
    BY DEF TypeOK
  <2>2. /\ cache'[k].late = (reader[r].version < version[reader[r].of])
        /\ cache'[k].lag = reader[r].held /\ cache'[k].left = cache_ttl_seconds
        /\ cache'[k].staleFor = reader[r].staleFor
    BY <1>4, <2>1 DEF Store, TypeOK
  <2>3. /\ reader[r].staleFor <= reader[r].held
        /\ reader[r].staleFor > 0 => reader[r].version < version[reader[r].of]
    BY <1>4 DEF Loading, Store
  <2>4. reader[r].staleFor \in Nat /\ reader[r].held \in Nat /\ cache_ttl_seconds \in Nat
    BY <2>1, CacheAssumption DEF Reader
  <2>5. ~cache'[k].late => reader[r].staleFor = 0
    <3>1. reader[r].staleFor > 0 => cache'[k].late
      BY <2>2, <2>3, Zenon
    <3>2. ~(reader[r].staleFor > 0) => reader[r].staleFor = 0
      BY <2>4
    <3> QED BY <3>1, <3>2
  <2>6. ~cache'[k].late => cache'[k].staleFor + cache'[k].left <= cache_ttl_seconds
    BY <2>2, <2>4, <2>5
  <2>7. cache'[k].staleFor + cache'[k].left <= cache_ttl_seconds + cache'[k].lag
    BY <2>2, <2>3, <2>4
  <2> QED BY <2>6, <2>7
<1> QED BY <1>1, <1>2, <1>3, <1>4, EntryStep

(* A handler past its commit stays a pending invalidation of its keys,     *)
(* unless it deletes them or notes that they were missed.                  *)
LEMMA PendingStep ==
    ASSUME TypeOK, CacheOff, [Next]_vars, NEW w \in Writers, NEW k \in Scope,
           PendingInvalidation(w, k)
    PROVE  \/ PendingInvalidation(w, k)'
           \/ cache'[k] = None
           \/ cache[k] \in Entry /\ cache'[k] = Noted(cache[k])
<1> DEFINE Goal == \/ PendingInvalidation(w, k)'
                   \/ cache'[k] = None
                   \/ cache[k] \in Entry /\ cache'[k] = Noted(cache[k])
<1> SUFFICES Goal
  OBVIOUS
<1>0. writer[w] \in Writer /\ writer[w].pc \in {"refresh", "invalidate"}
  BY DEF TypeOK, PendingInvalidation
<1>1. CASE writer'[w] = writer[w]
  BY <1>1 DEF PendingInvalidation, InvalidatedKeys, Invalidated
<1>2. CASE Refresh(w)
  <2>1. /\ writer'[w].pc = "invalidate" /\ writer'[w].tenant = writer[w].tenant
        /\ writer'[w].flag_changes = writer[w].flag_changes
        /\ writer'[w].environment = writer[w].environment
    BY <1>0, <1>2 DEF Refresh, TypeOK, Writer
  <2> QED BY <2>1 DEF PendingInvalidation, InvalidatedKeys, Invalidated
<1>3. CASE Invalidate(w)
  BY <1>3, CacheAssumption DEF Invalidate, PendingInvalidation, CacheOff
<1>4. CASE cache' = MarkMissed(writer[w])
  BY <1>4 DEF MarkMissed, Noted, PendingInvalidation, TypeOK
<1>5. CASE WriterStep(w) \/ Write(w)
  BY <1>0, <1>2, <1>3, <1>4, <1>5 DEF WriterStep, Commit, InvalidateFails, Acknowledge, WriterLost,
                                      Write, StartWrite
<1>6. ASSUME NEW v \in Writers, v # w, WriterStep(v) \/ Write(v) PROVE writer'[w] = writer[w]
  BY <1>6 DEF TypeOK, WriterStep, Commit, Refresh, Invalidate, InvalidateFails, Acknowledge,
              WriterLost, Write, StartWrite
<1>7. CASE writer' = writer
  BY <1>1, <1>7
<1> QED BY <1>1, <1>5, <1>6, <1>7 DEF Next, vars, ReaderStep, LookupHit, LookupMiss, Load, Store,
        StoreFails, Respond, ReaderLost, StartEvaluate, Evict, Tick

(* Every step keeps StaleHasCause.                                         *)
LEMMA StaleHasCauseStep ==
    TypeOK /\ Named /\ OwnScope /\ CacheOff /\ Loading /\ StaleHasCause /\ [Next]_vars
        => StaleHasCause'
<1> SUFFICES ASSUME TypeOK, Named, OwnScope, CacheOff, Loading, StaleHasCause, [Next]_vars,
                    TypeOK', NEW k \in Scope, cache'[k] # None, ~cache'[k].late,
                    ~cache'[k].missed, cache'[k].version < version'[cache'[k].of]
             PROVE  \E w \in Writers : PendingInvalidation(w, k)'
  BY TypeStep DEF StaleHasCause, Stale
<1>0. cache'[k] \in Entry
  BY DEF TypeOK
<1>1. ASSUME cache[k] # None, cache[k] \in Entry, cache'[k].of = cache[k].of,
             cache'[k].version = cache[k].version, cache'[k].late = cache[k].late,
             cache'[k].missed = cache[k].missed
      PROVE  \E w \in Writers : PendingInvalidation(w, k)'
  <2>1. cache[k].of \in Scope /\ cache[k].version \in Nat /\ KeyOf(cache[k].of) = k
    BY <1>1 DEF OwnScope, Entry
  <2>2. cache[k].of = k
    BY <2>1, KeyOfScope
  <2>3. CASE Stale(k)
    <3>1. PICK w \in Writers : PendingInvalidation(w, k)
      BY <1>1, <2>3 DEF StaleHasCause
    <3>2. cache'[k] # Noted(cache[k])
      BY <1>0, <1>1 DEF Noted, Entry
    <3> QED BY <3>1, <3>2, PendingStep
  <2>4. CASE ~Stale(k)
    <3>1. version'[k] # version[k]
      BY <1>1, <2>1, <2>2, <2>4 DEF Stale, TypeOK
    <3>2. PICK w \in Writers :
              Commit(w) /\ k[1] = writer[w].tenant /\ k[2] \in Changed(writer[w])
      BY <3>1, VersionStep
    <3>3. writer[w] \in Writer /\ (writer[w].config_changes => writer[w].environment # None)
      BY DEF TypeOK, Named
    <3>4. k \in InvalidatedKeys(writer[w])
      BY <3>2, <3>3, InvalidationCoversChange DEF Scope
    <3>5. /\ writer'[w].pc = "refresh" /\ writer'[w].tenant = writer[w].tenant
          /\ writer'[w].flag_changes = writer[w].flag_changes
          /\ writer'[w].environment = writer[w].environment
      BY <3>2, <3>3 DEF Commit, TypeOK, Writer
    <3>6. PendingInvalidation(w, k)'
      BY <3>4, <3>5 DEF PendingInvalidation, InvalidatedKeys, Invalidated
    <3> QED BY <3>6
  <2> QED BY <2>3, <2>4
<1>2. CASE cache'[k] = cache[k]
  BY <1>0, <1>1, <1>2
<1>3. CASE cache[k] \in Entry /\ cache[k] # None /\ cache'[k] = Noted(cache[k])
  BY <1>0, <1>3 DEF Noted, Entry
<1>4. CASE cache[k] \in Entry /\ cache[k].left # 1 /\ cache'[k] = Age(cache[k])
  <2>1. cache[k] # None
    BY <1>4 DEF Age
  <2>2. /\ cache'[k].of = cache[k].of /\ cache'[k].version = cache[k].version
        /\ cache'[k].late = cache[k].late /\ cache'[k].missed = cache[k].missed
    BY <1>4, <2>1 DEF Age, Entry
  <2> QED BY <1>1, <1>4, <2>1, <2>2
<1>5. ASSUME NEW r \in Readers, Store(r), k = KeyOf(reader[r].scope) PROVE FALSE
  <2>1. reader[r] \in Reader
    BY DEF TypeOK
  <2>2. /\ cache'[k].late = (reader[r].version < version[reader[r].of])
        /\ cache'[k].of = reader[r].of /\ cache'[k].version = reader[r].version
        /\ version' = version
    BY <1>5, <2>1 DEF Store, TypeOK
  <2> QED BY <2>2, Zenon
<1> QED BY <1>2, <1>3, <1>4, <1>5, EntryStep

(* What one step can do to what an evaluation expects: keep it, start over *)
(* with what has been answered by now, or end.                             *)
LEMMA FloorStep ==
    ASSUME TypeOK, [Next]_vars, NEW r \in Readers
    PROVE  \/ /\ reader'[r].scope = reader[r].scope /\ reader'[r].floor = reader[r].floor
              /\ reader'[r].pc = "respond" =>
                    \/ reader[r].pc = "respond" /\ reader'[r].version = reader[r].version
                    \/ Load(r) /\ reader'[r].version = version[reader[r].scope]
                    \/ reader[r].pc \in {"lookup", "store"}
           \/ reader'[r].floor = 0 /\ reader'[r].pc = "idle" /\ reader'[r].scope \in Scope
           \/ /\ reader'[r].scope \in Scope /\ reader'[r].floor = acked[reader'[r].scope]
              /\ reader'[r].pc # "respond"
<1>0. /\ reader[r] \in Reader /\ IdleReader.floor = 0 /\ IdleReader.pc = "idle"
      /\ IdleReader.scope \in Scope
  BY IdleTypes DEF TypeOK, IdleReader
<1>1. CASE reader'[r] = reader[r]
  BY <1>1
<1>2. CASE LookupHit(r) \/ LookupMiss(r) \/ Store(r) \/ StoreFails(r)
  BY <1>0, <1>2 DEF LookupHit, LookupMiss, Store, StoreFails, TypeOK, Reader
<1>3. CASE Load(r)
  <2>1. /\ reader'[r].scope = reader[r].scope /\ reader'[r].floor = reader[r].floor
        /\ reader'[r].version = version[reader[r].scope]
    BY <1>0, <1>3 DEF Load, TypeOK, Reader
  <2> QED BY <1>3, <2>1
<1>4. CASE Respond(r) \/ ReaderLost(r)
  BY <1>0, <1>4 DEF Respond, ReaderLost, TypeOK
<1>5. ASSUME NEW s \in Scope, StartEvaluate(r, s)
      PROVE  /\ reader'[r].scope \in Scope /\ reader'[r].floor = acked[reader'[r].scope]
             /\ reader'[r].pc # "respond"
  BY <1>5, IdleTypes DEF StartEvaluate, TypeOK, Reader
<1>6. CASE Tick
  BY <1>0, <1>6 DEF Tick, Hold, Reader
<1>7. ASSUME NEW q \in Readers, q # r, ReaderStep(q) \/ \E s \in Scope : StartEvaluate(q, s)
      PROVE  reader'[r] = reader[r]
  BY <1>7 DEF TypeOK, ReaderStep, LookupHit, LookupMiss, Load, Store, StoreFails, Respond,
              ReaderLost, StartEvaluate
<1>8. CASE reader' = reader
  BY <1>1, <1>8
<1>9. CASE \E q \in Readers : ReaderStep(q) \/ \E s \in Scope : StartEvaluate(q, s)
  BY <1>1, <1>2, <1>3, <1>4, <1>5, <1>7, <1>9 DEF ReaderStep
<1> QED BY <1>6, <1>8, <1>9 DEF Next, vars, WriterStep, Commit, Refresh, Invalidate,
        InvalidateFails, Acknowledge, WriterLost, Write, StartWrite, Evict

(* Every step keeps Answered.                                              *)
LEMMA AnsweredStep == TypeOK /\ Named /\ Answered /\ [Next]_vars => Answered'
<1> SUFFICES ASSUME TypeOK, Named, Answered, [Next]_vars PROVE Answered'
  OBVIOUS
<1>0. \A s \in Scope : /\ version[s] \in Nat /\ version'[s] \in Nat /\ acked[s] \in Nat
                       /\ version[s] <= version'[s]
  BY VersionStep DEF TypeOK
<1>1. ASSUME NEW s \in Scope PROVE acked'[s] <= version'[s]
  <2>1. CASE acked' = acked
    BY <1>0, <2>1 DEF Answered
  <2>2. ASSUME NEW w \in Writers, Acknowledge(w) PROVE acked'[s] <= version'[s]
    <3>1. acked'[s] = acked[s] \/ (s[1] = writer[w].tenant /\ acked'[s] = writer[w].wrote[s[2]])
      BY <2>2 DEF Acknowledge
    <3>2. s[2] \in Environments /\ s = <<s[1], s[2]>>
      BY DEF Scope
    <3>3. s[1] = writer[w].tenant => writer[w].wrote[s[2]] <= version[s]
      BY <3>2 DEF Answered
    <3>4. writer[w].wrote[s[2]] \in Nat
      BY <3>2 DEF TypeOK, Writer
    <3> QED BY <1>0, <3>1, <3>3, <3>4 DEF Answered
  <2> QED BY <2>1, <2>2 DEF Next, vars, ReaderStep, LookupHit, LookupMiss, Load, Store, StoreFails,
          Respond, ReaderLost, StartEvaluate, WriterStep, Commit, Refresh, Invalidate,
          InvalidateFails, WriterLost, Write, StartWrite, Evict, Tick
<1>2. ASSUME NEW w \in Writers, NEW e \in Environments
      PROVE  writer'[w].wrote[e] <= version'[<<writer'[w].tenant, e>>]
  <2>0. /\ writer[w] \in Writer /\ IdleWriter \in Writer /\ IdleWriter.wrote[e] = 0
        /\ \A t \in Tenants : <<t, e>> \in Scope
    BY IdleTypes DEF TypeOK, IdleWriter, Scope
  <2>1. CASE writer'[w].wrote = writer[w].wrote /\ writer'[w].tenant = writer[w].tenant
    <3>1. writer[w].tenant \in Tenants /\ writer[w].wrote[e] \in Nat
      BY <2>0 DEF Writer
    <3> QED BY <1>0, <2>0, <2>1, <3>1 DEF Answered
  <2>2. CASE writer'[w].wrote[e] = 0 /\ writer'[w].tenant \in Tenants
    BY <1>0, <2>0, <2>2
  <2>3. CASE Acknowledge(w) \/ WriterLost(w)
    <3>1. writer'[w] = IdleWriter
      BY <2>3 DEF Acknowledge, WriterLost, TypeOK
    <3> QED BY <2>0, <2>2, <3>1 DEF Writer
  <2>4. CASE Write(w)
    <3>1. PICK t \in Tenants, f \in BOOLEAN, c \in BOOLEAN, x \in Environments \union {None} :
              StartWrite(w, t, f, c, x)
      BY <2>4 DEF Write
    <3>2. writer'[w] = [IdleWriter EXCEPT !.pc = "commit", !.tenant = t, !.flag_changes = f,
                                          !.config_changes = c, !.environment = x]
      BY <3>1 DEF StartWrite, TypeOK
    <3>3. writer'[w].wrote = IdleWriter.wrote /\ writer'[w].tenant = t
      BY <2>0, <3>2 DEF Writer
    <3> QED BY <2>0, <2>2, <3>3
  <2>5. CASE Refresh(w) \/ Invalidate(w) \/ InvalidateFails(w)
    BY <2>0, <2>1, <2>5 DEF Refresh, Invalidate, InvalidateFails, TypeOK, Writer
  <2>6. CASE Commit(w)
    <3>1. writer'[w].tenant = writer[w].tenant /\ writer[w].tenant \in Tenants
      BY <2>0, <2>6 DEF Commit, TypeOK, Writer
    <3>2. writer'[w].wrote = [x \in Environments |-> IF x \in Changed(writer[w])
                                  THEN version[<<writer[w].tenant, x>>] + 1 ELSE 0]
      BY <2>0, <2>6 DEF Commit, TypeOK, Writer
    <3>3. <<writer[w].tenant, e>> \in Scope
      BY <2>0, <3>1
    <3>4. e \in Changed(writer[w]) =>
              version'[<<writer[w].tenant, e>>] = version[<<writer[w].tenant, e>>] + 1
      BY <2>6, <3>3 DEF Commit
    <3> QED BY <1>0, <3>1, <3>2, <3>3, <3>4
  <2>7. ASSUME NEW v \in Writers, v # w, WriterStep(v) \/ Write(v) PROVE writer'[w] = writer[w]
    BY <2>7 DEF TypeOK, WriterStep, Commit, Refresh, Invalidate, InvalidateFails, Acknowledge,
                WriterLost, Write, StartWrite
  <2>8. CASE writer' = writer
    BY <2>1, <2>8
  <2>9. CASE \E v \in Writers : WriterStep(v) \/ Write(v)
    BY <2>1, <2>3, <2>4, <2>5, <2>6, <2>7, <2>9 DEF WriterStep
  <2> QED BY <2>8, <2>9 DEF Next, vars, ReaderStep, LookupHit, LookupMiss, Load, Store, StoreFails,
          Respond, ReaderLost, StartEvaluate, Evict, Tick
<1>3. ASSUME NEW r \in Readers PROVE reader'[r].floor <= version'[reader'[r].scope]
  <2>1. reader[r].scope \in Scope /\ reader[r].floor \in Nat
    BY DEF TypeOK, Reader
  <2> QED BY <1>0, <2>1, FloorStep DEF Answered
<1> QED BY <1>1, <1>2, <1>3 DEF Answered

(* Every step keeps ReadYourWrites when the cache is disabled.             *)
LEMMA ReadYourWritesStep ==
    TypeOK /\ CacheOff /\ Answered /\ ~cache_enabled /\ ReadYourWrites /\ [Next]_vars
        => ReadYourWrites'
<1> SUFFICES ASSUME TypeOK, CacheOff, Answered, ~cache_enabled, ReadYourWrites, [Next]_vars,
                    NEW r \in Readers, reader'[r].pc = "respond"
             PROVE  reader'[r].version >= reader'[r].floor
  BY DEF ReadYourWrites
<1>1. reader[r].pc \notin {"lookup", "store"}
  BY DEF CacheOff
<1>2. reader[r].floor <= version[reader[r].scope] /\ reader[r].floor \in Nat
      /\ version[reader[r].scope] \in Nat
  BY DEF Answered, TypeOK, Reader
<1> QED BY <1>1, <1>2, FloorStep DEF ReadYourWrites

----------------------------------------------------------------------------
(* The inductive invariant: StaleHasCause needs to know that entries sit   *)
(* under their own key, that requests name what they change and that a     *)
(* disabled cache is empty; the bounds need to know when the flag set a    *)
(* loader holds became outdated.                                           *)
IInv ==
    /\ TypeOK
    /\ Named
    /\ OwnScope
    /\ CacheOff
    /\ Loading
    /\ FreshBound
    /\ StalenessBounded
    /\ StaleHasCause
    /\ Answered
    /\ ~cache_enabled => ReadYourWrites

(* IInv holds in every reachable state of the cache protocol.              *)
THEOREM Invariance == Spec => []IInv
<1>1. Init => IInv
  <2> SUFFICES ASSUME Init PROVE IInv
    OBVIOUS
  <2>1. TypeOK
    BY IdleTypes DEF Init, TypeOK
  <2>2. \A k \in Scope : cache[k] = None /\ version[k] = 0 /\ acked[k] = 0
    BY DEF Init
  <2>3. \A r \in Readers : /\ reader[r].pc = "idle" /\ reader[r].of = reader[r].scope
                           /\ reader[r].floor = 0 /\ reader[r].scope \in Scope
    BY IdleTypes DEF Init, IdleReader
  <2>4. \A w \in Writers : ~writer[w].config_changes
    BY DEF Init, IdleWriter
  <2>5. \A w \in Writers, e \in Environments :
            writer[w].wrote[e] = 0 /\ <<writer[w].tenant, e>> \in Scope
    BY IdleTypes DEF Init, IdleWriter, Scope
  <2>6. Answered
    BY <2>2, <2>3, <2>5 DEF Answered
  <2>7. StaleHasCause
    BY <2>2 DEF StaleHasCause, Stale
  <2>8. Named /\ OwnScope /\ CacheOff /\ Loading /\ ReadYourWrites
    BY <2>2, <2>3, <2>4 DEF Named, OwnScope, CacheOff, Loading, ReadYourWrites
  <2>9. FreshBound /\ StalenessBounded
    BY <2>2 DEF FreshBound, StalenessBounded
  <2> QED BY <2>1, <2>6, <2>7, <2>8, <2>9 DEF IInv
<1>2. IInv /\ [Next]_vars => IInv'
  BY TypeStep, NamedStep, OwnScopeStep, CacheOffStep, LoadingStep, BoundStep, StaleHasCauseStep,
     AnsweredStep, ReadYourWritesStep DEF IInv
<1> QED BY <1>1, <1>2, PTL DEF Spec

(* No interleaving of get_flag_set, set_flag_set and invalidate, and no    *)
(* failure, makes an evaluation serve another scope's flag set.            *)
THEOREM ScopeIsolation == Spec => []OwnScope
<1>1. IInv => OwnScope
  BY DEF IInv
<1> QED BY <1>1, Invariance, PTL

(* Every stale entry was stored late, missed its invalidation, or has a    *)
(* handler between its commit and its DEL.                                 *)
THEOREM StaleEntriesHaveCause == Spec => []StaleHasCause
<1>1. IInv => StaleHasCause
  BY DEF IInv
<1> QED BY <1>1, Invariance, PTL

(* cache_ttl_seconds bounds the effect of a lost invalidation, as the      *)
(* comment in invalidate() claims.                                         *)
THEOREM MissedInvalidationIsBounded == Spec => []MissedInvalidationBounded
<1>1. IInv => MissedInvalidationBounded
  BY DEF IInv, FreshBound, MissedInvalidationBounded, Stale
<1> QED BY <1>1, Invariance, PTL

(* cache_ttl_seconds plus the time from query to SET bounds the staleness  *)
(* of every entry set_flag_set stores.                                     *)
THEOREM StalenessIsBounded == Spec => []StalenessBounded
<1>1. IInv => StalenessBounded
  BY DEF IInv
<1> QED BY <1>1, Invariance, PTL

(* With CACHE_ENABLED=false an evaluation that starts after a write was    *)
(* answered serves that write.                                             *)
THEOREM UncachedReadsAreCurrent == Spec => [](~cache_enabled => ReadYourWrites)
<1>1. IInv => (~cache_enabled => ReadYourWrites)
  BY DEF IInv
<1> QED BY <1>1, Invariance, PTL
============================================================================
