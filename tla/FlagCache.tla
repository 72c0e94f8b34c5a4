----------------------------- MODULE FlagCache -----------------------------
(***************************************************************************)
(* The cache-aside protocol between the evaluation endpoints, the flag     *)
(* CRUD endpoints, PostgreSQL and Redis (app/cache.py,                     *)
(* app/routers/evaluate.py and the tails of the handlers in                *)
(* app/routers/flags.py).                                                  *)
(*                                                                         *)
(* The compiled flag set of one (tenant, environment) is abstracted to its *)
(* version: how many committed changes it reflects.  Every await of the    *)
(* handlers that touches a datastore is a step of its own, so all the      *)
(* interleavings of requests on all the instances are behaviours.          *)
(*                                                                         *)
(* Time is relative: a Tick lets one unit pass everywhere.  An entry has   *)
(* `left' units before Redis expires it.  What a property needs to know of *)
(* the past is carried by auxiliary fields no guard reads: `of', `lag',    *)
(* `late', `missed' and `staleFor' of an entry or of a loaded flag set,    *)
(* `floor' of an evaluation, `wrote' of a write, and the variable acked.   *)
(***************************************************************************)
EXTENDS Naturals

CONSTANTS
    Tenants,            \* tenant ids
    Environments,       \* models.Environment: three of them in the code
    Readers,            \* evaluation requests that can be in flight at once
    Writers,            \* CRUD requests that can be in flight at once
    None,               \* Python's None: no environment, no entry
    cache_enabled,      \* settings.cache_enabled
    cache_ttl_seconds,  \* settings.cache_ttl_seconds, in ticks
    Failures,           \* the failures that may happen, a subset of FailureKinds
    MaxVersion,         \* bound on the commits that change one flag set
    MaxHeld             \* bound on the ticks between a loader's query and its SET

FailureKinds == {"redis", "database", "crash"}

ASSUME CacheAssumption ==
    /\ cache_enabled \in BOOLEAN
    /\ cache_ttl_seconds \in Nat \ {0}
    /\ Failures \subseteq FailureKinds
    /\ MaxVersion \in Nat
    /\ MaxHeld \in Nat
    /\ Tenants # {} /\ Environments # {}

VARIABLES
    version,    \* version[t, e]: the committed flag set of tenant t in e
    cache,      \* cache[k]: the Redis entry under key k, or None
    reader,     \* reader[r]: the evaluation request r
    writer,     \* writer[w]: the CRUD request w
    acked       \* acked[t, e]: newest version whose writer has answered its client

vars == <<version, cache, reader, writer, acked>>

(* A flag set belongs to a scope; `_key' names the Redis key of a scope.   *)
Scope == Tenants \X Environments

(* Mutant: the key leaves the tenant out.                                  *)
cache_key_NoTenant(tenant, environment) == <<CHOOSE t \in Tenants : TRUE, environment>>

cache_key(tenant, environment) == <<tenant, environment>>

KeyOf(s) == cache_key(s[1], s[2])

----------------------------------------------------------------------------
Entry == [version : Nat, of : Scope, left : 1..cache_ttl_seconds, lag : Nat,
          late : BOOLEAN, missed : BOOLEAN, staleFor : Nat]

Reader == [pc : {"idle", "lookup", "load", "store", "respond"}, scope : Scope,
           of : Scope, version : Nat, held : Nat, staleFor : Nat, floor : Nat]

Writer == [pc : {"idle", "commit", "refresh", "invalidate", "respond"},
           tenant : Tenants, flag_changes : BOOLEAN, config_changes : BOOLEAN,
           environment : Environments \union {None},
           wrote : [Environments -> Nat]]

(* The flag sets a request changes: a flag-level change (create, archive,  *)
(* name, description, default_value) reaches every environment, a change   *)
(* of a config row only its own.  A new name or description is counted as  *)
(* a change although the compiled set does not hold it.                    *)
Changed(q) == IF q.flag_changes THEN Environments
              ELSE IF q.config_changes THEN {q.environment} ELSE {}

(* Mutant: the environment of the request wins over a flag-level change.   *)
Invalidated_OwnEnvironment(q) ==
    IF q.environment = None THEN Environments ELSE {q.environment}

(* The environments whose keys invalidate() deletes for a request.         *)
Invalidated(q) ==
    LET environment == IF q.flag_changes THEN None ELSE q.environment
    IN  IF environment = None THEN Environments ELSE {environment}

InvalidatedKeys(q) == {cache_key(q.tenant, e) : e \in Invalidated(q)}

(* The committed flag set has moved on from what the entry under k holds.  *)
Stale(k) == cache[k] # None /\ cache[k].version < version[cache[k].of]

PendingInvalidation(w, k) ==
    /\ writer[w].pc \in {"refresh", "invalidate"}
    /\ k \in InvalidatedKeys(writer[w])

----------------------------------------------------------------------------
SomeScope == CHOOSE s \in Scope : TRUE

IdleReader == [pc |-> "idle", scope |-> SomeScope, of |-> SomeScope, version |-> 0,
               held |-> 0, staleFor |-> 0, floor |-> 0]

IdleWriter == [pc |-> "idle", tenant |-> SomeScope[1], flag_changes |-> FALSE,
               config_changes |-> FALSE, environment |-> None,
               wrote |-> [e \in Environments |-> 0]]

Init ==
    /\ version = [s \in Scope |-> 0]
    /\ cache = [k \in Scope |-> None]
    /\ reader = [r \in Readers |-> IdleReader]
    /\ writer = [w \in Writers |-> IdleWriter]
    /\ acked = [s \in Scope |-> 0]

----------------------------------------------------------------------------
(* Evaluation requests: evaluate_flags, evaluate_bulk, _load_flag_set.     *)

(* The request is authenticated and its tenant_id is the key's; from here  *)
(* on the scope is (api_key.tenant_id, payload.environment).  With the     *)
(* cache disabled get_flag_set returns None without a lookup.              *)
StartEvaluate(r, s) ==
    /\ reader[r].pc = "idle"
    /\ reader' = [reader EXCEPT ![r] =
            [IdleReader EXCEPT !.pc = IF cache_enabled THEN "lookup" ELSE "load",
                               !.scope = s, !.of = s, !.floor = acked[s]]]
    /\ UNCHANGED <<version, cache, writer, acked>>

(* Mutant: a hit renews the TTL (GETEX in place of GET).                   *)
LookupHit_RenewsTTL(r) ==
    LET k == KeyOf(reader[r].scope) IN
    /\ reader[r].pc = "lookup"
    /\ cache[k] # None
    /\ reader' = [reader EXCEPT ![r].pc = "respond", ![r].of = cache[k].of,
                                ![r].version = cache[k].version]
    /\ cache' = [cache EXCEPT ![k].left = cache_ttl_seconds]
    /\ UNCHANGED <<version, writer, acked>>

(* get_flag_set finds the key and decodes it.                              *)
LookupHit(r) ==
    LET entry == cache[KeyOf(reader[r].scope)] IN
    /\ reader[r].pc = "lookup"
    /\ entry # None
    /\ reader' = [reader EXCEPT ![r].pc = "respond", ![r].of = entry.of,
                                ![r].version = entry.version]
    /\ UNCHANGED <<version, cache, writer, acked>>

(* get_flag_set returns None: the key is absent, or Redis fails, or the    *)
(* entry does not decode.  None of them is an error to the caller.         *)
LookupMiss(r) ==
    /\ reader[r].pc = "lookup"
    /\ cache[KeyOf(reader[r].scope)] = None \/ "redis" \in Failures
    /\ reader' = [reader EXCEPT ![r].pc = "load"]
    /\ UNCHANGED <<version, cache, writer, acked>>

(* Mutant: the query runs on a replica that is one commit behind.           *)
Load_Replica(r) ==
    LET v == version[reader[r].scope] IN
    /\ reader[r].pc = "load"
    /\ reader' = [reader EXCEPT ![r].pc = IF cache_enabled THEN "store" ELSE "respond",
                                ![r].version = IF v = 0 THEN 0 ELSE v - 1,
                                ![r].held = 0, ![r].staleFor = 0]
    /\ UNCHANGED <<version, cache, writer, acked>>

(* The join over flags and configs: one statement, hence one snapshot of   *)
(* what is committed.  With the cache disabled set_flag_set is a no-op.    *)
Load(r) ==
    /\ reader[r].pc = "load"
    /\ reader' = [reader EXCEPT ![r].pc = IF cache_enabled THEN "store" ELSE "respond",
                                ![r].version = version[reader[r].scope],
                                ![r].held = 0, ![r].staleFor = 0]
    /\ UNCHANGED <<version, cache, writer, acked>>

(* Mutant: the entry lives one unit longer than the TTL.                   *)
Store_LongerTTL(r) ==
    LET q == reader[r] IN
    /\ q.pc = "store"
    /\ cache' = [cache EXCEPT ![KeyOf(q.scope)] =
            [version |-> q.version, of |-> q.of, left |-> cache_ttl_seconds + 1,
             lag |-> q.held, late |-> q.version < version[q.of],
             missed |-> FALSE, staleFor |-> q.staleFor]]
    /\ reader' = [reader EXCEPT ![r].pc = "respond", ![r].held = 0, ![r].staleFor = 0]
    /\ UNCHANGED <<version, writer, acked>>

(* set_flag_set: SET key payload EX ttl.                                   *)
Store(r) ==
    LET q == reader[r] IN
    /\ q.pc = "store"
    /\ cache' = [cache EXCEPT ![KeyOf(q.scope)] =
            [version |-> q.version, of |-> q.of, left |-> cache_ttl_seconds,
             lag |-> q.held, late |-> q.version < version[q.of],
             missed |-> FALSE, staleFor |-> q.staleFor]]
    /\ reader' = [reader EXCEPT ![r].pc = "respond", ![r].held = 0, ![r].staleFor = 0]
    /\ UNCHANGED <<version, writer, acked>>

(* The SET raises; set_flag_set logs and the loaded set is still served.   *)
StoreFails(r) ==
    /\ reader[r].pc = "store"
    /\ "redis" \in Failures
    /\ reader' = [reader EXCEPT ![r].pc = "respond", ![r].held = 0, ![r].staleFor = 0]
    /\ UNCHANGED <<version, cache, writer, acked>>

(* evaluate_all is pure: the answer is a function of the set in hand.      *)
Respond(r) ==
    /\ reader[r].pc = "respond"
    /\ reader' = [reader EXCEPT ![r] = IdleReader]
    /\ UNCHANGED <<version, cache, writer, acked>>

(* The request dies: the query raises (a 500), or its instance is killed.  *)
ReaderLost(r) ==
    /\ \/ reader[r].pc = "load" /\ "database" \in Failures
       \/ reader[r].pc # "idle" /\ "crash" \in Failures
    /\ reader' = [reader EXCEPT ![r] = IdleReader]
    /\ UNCHANGED <<version, cache, writer, acked>>

----------------------------------------------------------------------------
(* CRUD requests: create_flag, update_flag, archive_flag.                  *)

(* The handler has read the rows and knows what it will change: f, flag     *)
(* columns; c, columns of the config row of environment e.  create and     *)
(* archive are requests with f and no environment; a PUT that changes      *)
(* nothing has neither and still commits and invalidates.  FlagUpdate      *)
(* refuses a change of a config row whose environment it does not name.    *)
StartWrite(w, t, f, c, e) ==
    /\ writer[w].pc = "idle"
    /\ c => e # None
    /\ writer' = [writer EXCEPT ![w] =
            [IdleWriter EXCEPT !.pc = "commit", !.tenant = t, !.flag_changes = f,
                               !.config_changes = c, !.environment = e]]
    /\ UNCHANGED <<version, cache, reader, acked>>

(* Mutant: the handler answers after its commit without invalidating.      *)
Commit_NoInvalidation(w) ==
    LET q == writer[w] IN
    /\ q.pc = "commit"
    /\ \A e \in Changed(q) : version[<<q.tenant, e>>] < MaxVersion
    /\ version' = [s \in Scope |-> IF s[1] = q.tenant /\ s[2] \in Changed(q)
                                  THEN version[s] + 1 ELSE version[s]]
    /\ writer' = [writer EXCEPT ![w].pc = "respond"]
    /\ UNCHANGED <<cache, reader, acked>>

(* await db.commit().  A commit that takes effect although its answer is   *)
(* lost is this step followed by WriterLost.                               *)
Commit(w) ==
    LET q == writer[w] IN
    /\ q.pc = "commit"
    /\ \A e \in Changed(q) : version[<<q.tenant, e>>] < MaxVersion
    /\ version' = [s \in Scope |-> IF s[1] = q.tenant /\ s[2] \in Changed(q)
                                  THEN version[s] + 1 ELSE version[s]]
    /\ writer' = [writer EXCEPT ![w].pc = "refresh",
            ![w].wrote = [e \in Environments |->
                    IF e \in Changed(q) THEN version[<<q.tenant, e>>] + 1 ELSE 0]]
    /\ UNCHANGED <<cache, reader, acked>>

(* await db.refresh(flag)                                                  *)
Refresh(w) ==
    /\ writer[w].pc = "refresh"
    /\ writer' = [writer EXCEPT ![w].pc = "invalidate"]
    /\ UNCHANGED <<version, cache, reader, acked>>

(* await cache.invalidate(...): one DEL of every key of the scope.         *)
Invalidate(w) ==
    /\ writer[w].pc = "invalidate"
    /\ cache' = IF cache_enabled
                THEN [k \in Scope |-> IF k \in InvalidatedKeys(writer[w])
                                      THEN None ELSE cache[k]]
                ELSE cache
    /\ writer' = [writer EXCEPT ![w].pc = "respond"]
    /\ UNCHANGED <<version, reader, acked>>

MarkMissed(q) ==
    [k \in Scope |-> IF k \in InvalidatedKeys(q) /\ cache[k] # None
                     THEN [cache[k] EXCEPT !.missed = TRUE] ELSE cache[k]]

(* The DEL raises; invalidate logs and the write is still acknowledged.    *)
InvalidateFails(w) ==
    /\ writer[w].pc = "invalidate"
    /\ cache_enabled
    /\ "redis" \in Failures
    /\ cache' = MarkMissed(writer[w])
    /\ writer' = [writer EXCEPT ![w].pc = "respond"]
    /\ UNCHANGED <<version, reader, acked>>

(* The response leaves: from now on the client may rely on the change.     *)
Acknowledge(w) ==
    LET q == writer[w] IN
    /\ q.pc = "respond"
    /\ acked' = [s \in Scope |-> IF s[1] = q.tenant /\ acked[s] < q.wrote[s[2]]
                                THEN q.wrote[s[2]] ELSE acked[s]]
    /\ writer' = [writer EXCEPT ![w] = IdleWriter]
    /\ UNCHANGED <<version, cache, reader>>

(* The request dies before its answer: the commit or the refresh raises (a *)
(* 500 either way), or the instance is killed.  Once the commit is done    *)
(* the invalidation is simply never attempted.                             *)
WriterLost(w) ==
    /\ \/ writer[w].pc \in {"commit", "refresh"} /\ "database" \in Failures
       \/ writer[w].pc # "idle" /\ "crash" \in Failures
    /\ cache' = IF writer[w].pc \in {"refresh", "invalidate"}
                THEN MarkMissed(writer[w]) ELSE cache
    /\ writer' = [writer EXCEPT ![w] = IdleWriter]
    /\ UNCHANGED <<version, reader, acked>>

----------------------------------------------------------------------------
(* Redis and time.                                                         *)

(* allkeys-lru eviction, a flush, or a restart of the single-node instance *)
Evict(k) ==
    /\ cache[k] # None
    /\ cache' = [cache EXCEPT ![k] = None]
    /\ UNCHANGED <<version, reader, writer, acked>>

(* The auxiliary clock of an outdated flag set.  It saturates past every   *)
(* value a property compares it with.                                      *)
StaleCap == cache_ttl_seconds + MaxHeld + 1

Outdated(x) ==
    IF x.version < version[x.of] /\ x.staleFor < StaleCap THEN x.staleFor + 1 ELSE x.staleFor

(* Mutant: the entry is still served in the second in which it expires.    *)
Age_OffByOne(entry) ==
    IF entry = None THEN None
    ELSE IF entry.left = 0 THEN None
    ELSE [entry EXCEPT !.left = entry.left - 1, !.staleFor = Outdated(entry)]

Age(entry) ==
    IF entry = None THEN None
    ELSE IF entry.left = 1 THEN None
    ELSE [entry EXCEPT !.left = entry.left - 1, !.staleFor = Outdated(entry)]

Hold(q) ==
    IF q.pc # "store" THEN q
    ELSE [q EXCEPT !.held = q.held + 1, !.staleFor = Outdated(q)]

(* One unit of time passes.  It may not carry a loader past MaxHeld ticks. *)
Tick ==
    /\ \A r \in Readers : reader[r].pc = "store" => reader[r].held < MaxHeld
    /\ cache' = [k \in Scope |-> Age(cache[k])]
    /\ reader' = [r \in Readers |-> Hold(reader[r])]
    /\ UNCHANGED <<version, writer, acked>>

----------------------------------------------------------------------------
ReaderStep(r) ==
    \/ LookupHit(r) \/ LookupMiss(r) \/ Load(r) \/ Store(r) \/ StoreFails(r)
    \/ Respond(r) \/ ReaderLost(r)

WriterStep(w) ==
    \/ Commit(w) \/ Refresh(w) \/ Invalidate(w) \/ InvalidateFails(w)
    \/ Acknowledge(w) \/ WriterLost(w)

Write(w) ==
    \E t \in Tenants, f \in BOOLEAN, c \in BOOLEAN, e \in Environments \union {None} :
        StartWrite(w, t, f, c, e)

Next ==
    \/ \E r \in Readers : ReaderStep(r) \/ \E s \in Scope : StartEvaluate(r, s)
    \/ \E w \in Writers : WriterStep(w) \/ Write(w)
    \/ \E k \in Scope : Evict(k)
    \/ Tick

Spec == Init /\ [][Next]_vars

(* Time passes, and a request that has been accepted keeps running.  No    *)
(* client has to send a request, and Redis never has to evict.             *)
Fairness ==
    /\ WF_vars(Tick)
    /\ \A r \in Readers : WF_vars(ReaderStep(r))
    /\ \A w \in Writers : WF_vars(WriterStep(w))

FairSpec == Spec /\ Fairness

----------------------------------------------------------------------------
(* Properties.                                                             *)

(* The variables stay in the record types above (cache.py, evaluate.py).   *)
TypeOK ==
    /\ version \in [Scope -> Nat]
    /\ cache \in [Scope -> Entry \union {None}]
    /\ reader \in [Readers -> Reader]
    /\ writer \in [Writers -> Writer]
    /\ acked \in [Scope -> Nat]

(* What is cached under a key and what an evaluation serves was compiled   *)
(* for the tenant and the environment of that key and of that request:     *)
(* no interleaving of get_flag_set, set_flag_set and invalidate mixes      *)
(* scopes.                                                                 *)
OwnScope ==
    /\ \A k \in Scope : cache[k] # None => KeyOf(cache[k].of) = k
    /\ \A r \in Readers : reader[r].of = reader[r].scope

(* A stale entry always has one of three causes: it was SET from a query   *)
(* that a commit overtook, its invalidation was lost (a failed DEL, or a   *)
(* handler that died after its commit), or a handler that will delete its  *)
(* key is still between its commit and its DEL.                            *)
StaleHasCause ==
    \A k \in Scope : Stale(k) =>
        \/ cache[k].late
        \/ cache[k].missed
        \/ \E w \in Writers : PendingInvalidation(w, k)

(* The claim beside the failed DEL in invalidate(): an entry that was      *)
(* current when it was SET is stale for at most cache_ttl_seconds, however *)
(* its invalidation was lost.                                              *)
MissedInvalidationBounded ==
    \A k \in Scope : Stale(k) /\ ~cache[k].late =>
        cache[k].staleFor + cache[k].left <= cache_ttl_seconds

(* The bound for every entry, the ones SET from an overtaken query         *)
(* included: cache_ttl_seconds plus the time its loader took from the      *)
(* query to the SET.                                                       *)
StalenessBounded ==
    \A k \in Scope : cache[k] # None =>
        cache[k].staleFor + cache[k].left <= cache_ttl_seconds + cache[k].lag

(* An evaluation that starts after a write was answered does not serve the *)
(* flag set from before that write (evaluate_flags after update_flag).     *)
ReadYourWrites ==
    \A r \in Readers : reader[r].pc = "respond" => reader[r].version >= reader[r].floor

(* Once the writes end, no stale entry is left in Redis: the TTL removes   *)
(* what invalidate() did not.                                              *)
Convergence == <>[](\A k \in Scope : ~Stale(k))

(* The register with one bounded copy per scope that the cache implements: *)
(* the copy of a scope is its Redis entry, the answer of a request is the  *)
(* flag set in its hand (final once it can no longer be SET).  A copy is   *)
(* outdated for less than the TTL plus the delay of its loader.            *)
CopyOf(entry) ==
    IF entry = None THEN None ELSE [version |-> entry.version, staleFor |-> entry.staleFor]

AnswerOf(q) ==
    IF q.pc \notin {"store", "respond"} THEN None
    ELSE [scope |-> q.scope, version |-> q.version, final |-> q.pc = "respond",
          staleFor |-> q.staleFor]

Published == [s \in Scope |-> CopyOf(cache[s])]

InHand == [r \in Readers |-> AnswerOf(reader[r])]

Register == INSTANCE FlagRegister WITH
    Requests <- Readers, Bound <- cache_ttl_seconds + MaxHeld - 1,
    copy <- Published, answer <- InHand

(* None is no flag set.                                                    *)
ASSUME NoneAssumption == None \notin Entry \union Register!Copy \union Register!Answer

(* Every behaviour of get_flag_set, set_flag_set and invalidate, with all  *)
(* their failures, is one of the register: each evaluation is answered     *)
(* with its own scope's committed set or its copy, and the copy is SET     *)
(* from a recent read and gone before the bound.                           *)
ImplementsRegister == Register!Spec
============================================================================
