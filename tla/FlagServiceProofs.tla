------------------------- MODULE FlagServiceProofs -------------------------
(***************************************************************************)
(* The tenant boundary for every set of tenants, keys and concurrent       *)
(* requests: the service with registration and API keys implements the     *)
(* cache protocol, hence has all its invariants, and keeps each request    *)
(* within the tenant of its key.                                           *)
(***************************************************************************)
EXTENDS FlagService, FlagCacheProofs

(* A request that is not refused works for the tenant it names, and holds  *)
(* a key of that tenant (require_tenant, _assert_tenant_matches).          *)
LEMMA Admitted ==
    ASSUME NEW k, NEW t \in Tenants, require_tenant(k, t) # None
    PROVE  k # None /\ api_keys[k] = t /\ require_tenant(k, t) = t
BY ServiceAssumption DEF require_tenant, authenticate

(* The tables of tenants and keys are none of the cache protocol's, and    *)
(* every step of the service is one of its steps, or leaves it alone.      *)
LEMMA ServiceStepIsCacheStep == [ServiceNext]_allVars => [Next]_vars
<1> SUFFICES ASSUME [ServiceNext]_allVars PROVE [Next]_vars
  OBVIOUS
<1>1. ASSUME NEW t \in Tenants, NEW k \in Keys, create_tenant(t, k) PROVE UNCHANGED vars
  BY <1>1 DEF create_tenant
<1>2. CASE CommitTenant \/ TenantCreated \/ RegistrationLost
  BY <1>2 DEF CommitTenant, TenantCreated, RegistrationLost
<1>3. ASSUME NEW k \in held \union {None}, NEW t \in Tenants, NEW r \in Readers, Evaluate(r, k, t)
      PROVE  Next
  <2>1. require_tenant(k, t) = t
    BY <1>3, Admitted DEF Evaluate, Admit
  <2>2. PICK e \in Environments : StartEvaluate(r, <<t, e>>)
    BY <1>3, <2>1 DEF Evaluate
  <2>3. <<t, e>> \in Scope
    BY DEF Scope
  <2> QED BY <2>2, <2>3 DEF Next
<1>4. ASSUME NEW k \in held \union {None}, NEW t \in Tenants, NEW w \in Writers,
             ChangeFlags(w, k, t)
      PROVE  Next
  <2>1. require_tenant(k, t) = t
    BY <1>4, Admitted DEF ChangeFlags, Admit
  <2>2. Write(w)
    BY <1>4, <2>1 DEF ChangeFlags, Write
  <2> QED BY <2>2 DEF Next
<1>5. ASSUME NEW p \in Slots, HandlerStep(p) PROVE Next
  BY <1>5 DEF HandlerStep, Slots, Next
<1>6. CASE (\E k \in Scope : Evict(k)) /\ UNCHANGED serviceVars
  BY <1>6 DEF Next
<1>7. CASE Tick /\ UNCHANGED serviceVars
  BY <1>7 DEF Next
<1>8. CASE UNCHANGED allVars
  BY <1>8 DEF allVars
<1> QED
  BY <1>1, <1>2, <1>3, <1>4, <1>5, <1>6, <1>7, <1>8 DEF ServiceNext

(* The service implements the cache protocol of FlagCache: whatever is     *)
(* proved of the protocol holds behind authentication too.                 *)
THEOREM ServiceImplementsCache == ServiceSpec => Spec
<1>1. ServiceInit => Init
  BY DEF ServiceInit
<1> QED BY <1>1, ServiceStepIsCacheStep, PTL DEF ServiceSpec, Spec

(* The invariants of the cache protocol hold in the service.               *)
THEOREM ServiceKeepsScopes == ServiceSpec => []OwnScope
BY ServiceImplementsCache, ScopeIsolation, PTL

(* In the composed service, too, an entry is stale only because its SET    *)
(* was overtaken by a commit, or an invalidation was lost or is still to   *)
(* come.                                                                   *)
THEOREM ServiceStaleEntriesHaveCause == ServiceSpec => []StaleHasCause
BY ServiceImplementsCache, StaleEntriesHaveCause, PTL

----------------------------------------------------------------------------
(* A registration that is still to commit has an id and a key nobody has;  *)
(* one that has committed is in both tables.                               *)
Registering ==
    /\ register.pc # "idle" => register.tenant \in Tenants /\ register.key \in Keys
    /\ register.pc = "commit" =>
            register.tenant \notin tenants /\ api_keys[register.key] = None
    /\ register.pc = "refresh" =>
            register.tenant \in tenants /\ api_keys[register.key] = register.tenant

(* Only a key that was shown opens a session.                              *)
SessionsHeld == \A p \in Slots : session[p] # None => session[p] \in held

(* The inductive invariant of the service: with Registering, the fresh key *)
(* of a commit is in no session and was never shown.                       *)
SInv ==
    /\ TypeOK /\ OwnScope
    /\ ServiceTypeOK /\ Registering /\ SessionsHeld /\ KeyConfinement /\ TenantsHaveKeys

(* A step of an evaluation is about that request alone, which keeps its    *)
(* scope until it ends.                                                    *)
LEMMA ReaderSteps ==
    ASSUME TypeOK, NEW r \in Readers, ReaderStep(r)
    PROVE  /\ reader[r].pc # "idle"
           /\ \A x \in Readers \ {r} : reader'[x] = reader[x]
           /\ reader'[r].pc # "idle" => reader'[r].scope = reader[r].scope
           /\ writer' = writer /\ version' = version
<1>1. CASE LookupHit(r)
  BY <1>1 DEF LookupHit, TypeOK, Reader
<1>2. CASE LookupMiss(r)
  BY <1>2 DEF LookupMiss, TypeOK, Reader
<1>3. CASE Load(r)
  BY <1>3 DEF Load, TypeOK, Reader
<1>4. CASE Store(r)
  BY <1>4 DEF Store, TypeOK, Reader
<1>5. CASE StoreFails(r)
  BY <1>5 DEF StoreFails, TypeOK, Reader
<1>6. CASE Respond(r)
  BY <1>6, IdleTypes DEF Respond, TypeOK, Reader, IdleReader
<1>7. CASE ReaderLost(r)
  BY <1>7, IdleTypes DEF ReaderLost, TypeOK, Reader, IdleReader
<1> QED BY <1>1, <1>2, <1>3, <1>4, <1>5, <1>6, <1>7 DEF ReaderStep

(* A step of a CRUD request is about that request alone, which keeps its   *)
(* tenant until it ends, and changes only flag sets of that tenant.        *)
LEMMA WriterSteps ==
    ASSUME TypeOK, NEW w \in Writers, WriterStep(w)
    PROVE  /\ writer[w].pc # "idle"
           /\ \A x \in Writers \ {w} : writer'[x] = writer[x]
           /\ writer'[w].pc # "idle" => writer'[w].tenant = writer[w].tenant
           /\ reader' = reader
           /\ \A s \in Scope : version'[s] # version[s] => s[1] = writer[w].tenant
<1>1. CASE Commit(w)
  <2>1. \A s \in Scope : version'[s] # version[s] => s[1] = writer[w].tenant
    BY <1>1 DEF Commit
  <2>2. writer[w].pc # "idle" /\ reader' = reader
    BY <1>1 DEF Commit
  <2>3. \A x \in Writers \ {w} : writer'[x] = writer[x]
    BY <1>1 DEF Commit, TypeOK
  <2>4. writer'[w].tenant = writer[w].tenant
    BY <1>1 DEF Commit, TypeOK, Writer
  <2> QED BY <2>1, <2>2, <2>3, <2>4
<1>2. CASE Refresh(w)
  BY <1>2 DEF Refresh, TypeOK, Writer
<1>3. CASE Invalidate(w)
  BY <1>3 DEF Invalidate, TypeOK, Writer
<1>4. CASE InvalidateFails(w)
  BY <1>4 DEF InvalidateFails, TypeOK, Writer
<1>5. CASE Acknowledge(w)
  BY <1>5, IdleTypes DEF Acknowledge, TypeOK, Writer, IdleWriter
<1>6. CASE WriterLost(w)
  BY <1>6, IdleTypes DEF WriterLost, TypeOK, Writer, IdleWriter
<1> QED BY <1>1, <1>2, <1>3, <1>4, <1>5, <1>6 DEF WriterStep

(* At the start nobody is registered and nobody has a key.                 *)
LEMMA InitSInv == ServiceInit => SInv
<1> SUFFICES ASSUME ServiceInit PROVE SInv
  OBVIOUS
<1>1. TypeOK /\ OwnScope
  <2>1. TypeOK
    BY CacheAssumption, IdleTypes DEF ServiceInit, Init, TypeOK
  <2>2. OwnScope
    BY DEF ServiceInit, Init, OwnScope, IdleReader
  <2> QED BY <2>1, <2>2
<1>2. \A p \in Slots : ~Busy(p) /\ session[p] = None
  BY DEF ServiceInit, Init, Slots, Busy, IdleReader, IdleWriter
<1>3. ServiceTypeOK
  BY <1>2 DEF ServiceTypeOK, ServiceInit, Register0
<1>4. Registering /\ TenantsHaveKeys
  BY DEF Registering, TenantsHaveKeys, ServiceInit, Register0
<1>5. SessionsHeld /\ KeyConfinement
  BY <1>2 DEF SessionsHeld, KeyConfinement, Slots
<1> QED BY <1>1, <1>3, <1>4, <1>5 DEF SInv

(* Registration: POST /tenants leaves every session as it is and gives     *)
(* away no key that opens a tenant already.                                *)
LEMMA RegistrationStep ==
    ASSUME SInv, UNCHANGED <<vars, session>>,
           \/ \E t \in Tenants, k \in Keys : create_tenant(t, k)
           \/ CommitTenant \/ TenantCreated \/ RegistrationLost
    PROVE  ServiceTypeOK' /\ Registering' /\ SessionsHeld' /\ KeyConfinement' /\ TenantsHaveKeys'
<1> USE ServiceAssumption
<1>0. /\ version' = version /\ cache' = cache /\ reader' = reader /\ writer' = writer
      /\ session' = session
  BY DEF vars
<1>1. \A p : Busy(p)' = Busy(p)
  BY <1>0 DEF Busy
<1>2. ASSUME NEW t \in Tenants, NEW k \in Keys, create_tenant(t, k)
      PROVE  ServiceTypeOK' /\ Registering' /\ SessionsHeld' /\ KeyConfinement' /\ TenantsHaveKeys'
  <2>1. /\ tenants' = tenants /\ api_keys' = api_keys /\ held' = held /\ lost' = lost
        /\ register' = [pc |-> "commit", tenant |-> t, key |-> k]
        /\ register.pc = "idle" /\ t \notin tenants /\ api_keys[k] = None
    BY <1>2 DEF create_tenant
  <2>2. ServiceTypeOK'
    BY <1>0, <1>1, <2>1 DEF SInv, ServiceTypeOK
  <2>3. Registering'
    BY <2>1 DEF Registering
  <2>4. SessionsHeld' /\ KeyConfinement'
    BY <1>0, <1>1, <2>1 DEF SInv, SessionsHeld, KeyConfinement, authenticate
  <2>5. TenantsHaveKeys'
    BY <2>1 DEF SInv, TenantsHaveKeys
  <2> QED BY <2>2, <2>3, <2>4, <2>5
<1>3. CASE CommitTenant
  <2>1. /\ held' = held /\ lost' = lost /\ tenants' = tenants \union {register.tenant}
        /\ api_keys' = [api_keys EXCEPT ![register.key] = register.tenant]
        /\ register' = [pc |-> "refresh", tenant |-> register.tenant, key |-> register.key]
        /\ register.pc = "commit"
    BY <1>3 DEF CommitTenant
  <2>2. /\ register.tenant \in Tenants /\ register.key \in Keys
        /\ api_keys[register.key] = None
    BY <2>1 DEF SInv, Registering
  <2>3. ServiceTypeOK'
    BY <1>0, <1>1, <2>1, <2>2 DEF SInv, ServiceTypeOK
  <2>4. /\ \A k \in Keys : api_keys[k] # None => api_keys'[k] = api_keys[k]
        /\ api_keys'[register.key] = register.tenant
    BY <2>1, <2>2 DEF SInv, ServiceTypeOK
  <2>5. Registering'
    BY <2>1, <2>2, <2>4 DEF Registering
  <2>6. SessionsHeld'
    BY <1>0, <2>1 DEF SInv, SessionsHeld
  <2>7. \A k \in held : k \in Keys /\ api_keys[k] \in tenants /\ api_keys[k] # None
    BY DEF SInv, TenantsHaveKeys, ServiceTypeOK
  <2>8. \A p \in Slots : Busy(p) => authenticate(session[p])' = authenticate(session[p])
    <3> SUFFICES ASSUME NEW p \in Slots, Busy(p)
                 PROVE  authenticate(session[p])' = authenticate(session[p])
      OBVIOUS
    <3>1. session[p] # None /\ session[p] \in held
      BY DEF SInv, ServiceTypeOK, SessionsHeld
    <3> QED BY <1>0, <2>4, <2>7, <3>1 DEF authenticate
  <2>9. KeyConfinement'
    BY <1>0, <1>1, <2>8 DEF SInv, KeyConfinement, Slots
  <2>10. TenantsHaveKeys'
    BY <2>1, <2>4, <2>7 DEF SInv, TenantsHaveKeys
  <2> QED BY <2>3, <2>5, <2>6, <2>9, <2>10
<1>4. CASE TenantCreated
  <2>1. /\ tenants' = tenants /\ api_keys' = api_keys /\ lost' = lost
        /\ held' = held \union {register.key} /\ register' = Register0
        /\ register.pc = "refresh"
    BY <1>4 DEF TenantCreated
  <2>2. /\ register.tenant \in tenants /\ register.key \in Keys
        /\ api_keys[register.key] = register.tenant
    BY <2>1 DEF SInv, Registering
  <2>3. ServiceTypeOK'
    BY <1>0, <1>1, <2>1, <2>2 DEF SInv, ServiceTypeOK, Register0
  <2>4. Registering'
    BY <2>1 DEF Registering, Register0
  <2>5. SessionsHeld' /\ KeyConfinement'
    BY <1>0, <1>1, <2>1 DEF SInv, SessionsHeld, KeyConfinement, authenticate
  <2>6. TenantsHaveKeys'
    BY <2>1, <2>2 DEF SInv, TenantsHaveKeys
  <2> QED BY <2>3, <2>4, <2>5, <2>6
<1>5. CASE RegistrationLost
  <2>1. /\ tenants' = tenants /\ api_keys' = api_keys /\ held' = held
        /\ register' = Register0 /\ register.pc # "idle"
        /\ lost' = IF register.pc = "refresh" THEN lost \union {register.tenant} ELSE lost
    BY <1>5 DEF RegistrationLost
  <2>2. ServiceTypeOK'
    BY <1>0, <1>1, <2>1 DEF SInv, ServiceTypeOK, Register0, Registering
  <2>3. Registering'
    BY <2>1 DEF Registering, Register0
  <2>4. SessionsHeld' /\ KeyConfinement'
    BY <1>0, <1>1, <2>1 DEF SInv, SessionsHeld, KeyConfinement, authenticate
  <2>5. TenantsHaveKeys'
    BY <2>1 DEF SInv, TenantsHaveKeys
  <2> QED BY <2>2, <2>3, <2>4, <2>5
<1> QED BY <1>2, <1>3, <1>4, <1>5

(* Admission and the handlers: what a request does between its admission   *)
(* and its answer stays with the tenant of its key.                        *)
LEMMA RequestStep ==
    ASSUME SInv, TypeOK', OwnScope', UNCHANGED <<tenants, api_keys, register, held, lost>>,
           \/ \E k \in held \union {None}, t \in Tenants :
                \/ \E r \in Readers : Evaluate(r, k, t)
                \/ \E w \in Writers : ChangeFlags(w, k, t)
           \/ \E p \in Slots : HandlerStep(p)
    PROVE  ServiceTypeOK' /\ SessionsHeld' /\ KeyConfinement'
<1> USE ServiceAssumption
<1>0. /\ tenants' = tenants /\ api_keys' = api_keys /\ register' = register
      /\ held' = held /\ lost' = lost
  OBVIOUS
<1>1. ASSUME NEW k \in held \union {None}, NEW t \in Tenants, NEW r \in Readers, Evaluate(r, k, t)
      PROVE  ServiceTypeOK' /\ SessionsHeld' /\ KeyConfinement'
  <2>1. k \in held /\ k # None /\ api_keys[k] = t /\ require_tenant(k, t) = t
    BY <1>1, Admitted DEF Evaluate, Admit
  <2>2. PICK e \in Environments : StartEvaluate(r, <<t, e>>)
    BY <1>1, <2>1 DEF Evaluate
  <2>3. session' = [session EXCEPT ![r] = k] /\ r \in Slots /\ k \in Keys
    BY <1>1, <2>1 DEF Evaluate, Admit, Slots, SInv, ServiceTypeOK
  <2>4. /\ writer' = writer
        /\ \A x \in Readers \ {r} : reader'[x] = reader[x]
        /\ reader'[r].pc # "idle" /\ reader'[r].scope[1] = t
    BY <2>2, IdleTypes DEF StartEvaluate, SInv, TypeOK, Reader
  <2>5. /\ session'[r] = k /\ \A p \in Slots \ {r} : session'[p] = session[p]
        /\ session' \in [Slots -> Keys \union {None}]
    BY <2>3 DEF SInv, ServiceTypeOK
  <2>6. Busy(r)' /\ \A p \in Slots \ {r} : Busy(p)' = Busy(p)
    BY <2>4 DEF Busy, Slots
  <2>7. ServiceTypeOK'
    BY <1>0, <2>1, <2>3, <2>5, <2>6 DEF SInv, ServiceTypeOK
  <2>8. SessionsHeld'
    BY <1>0, <2>1, <2>5 DEF SInv, SessionsHeld
  <2>9. authenticate(session[r])' = t
    BY <1>0, <2>1, <2>5 DEF authenticate
  <2>10. \A p \in Slots \ {r} : authenticate(session[p])' = authenticate(session[p])
    BY <1>0, <2>5 DEF authenticate
  <2>11. KeyConfinement'
    BY <2>3, <2>4, <2>6, <2>9, <2>10 DEF SInv, KeyConfinement, OwnScope, Slots
  <2> QED BY <2>7, <2>8, <2>11
<1>2. ASSUME NEW k \in held \union {None}, NEW t \in Tenants, NEW w \in Writers,
             ChangeFlags(w, k, t)
      PROVE  ServiceTypeOK' /\ SessionsHeld' /\ KeyConfinement'
  <2>1. k \in held /\ k # None /\ api_keys[k] = t /\ require_tenant(k, t) = t
    BY <1>2, Admitted DEF ChangeFlags, Admit
  <2>2. PICK f \in BOOLEAN, c \in BOOLEAN, e \in Environments \union {None} :
            StartWrite(w, t, f, c, e)
    BY <1>2, <2>1 DEF ChangeFlags
  <2>3. session' = [session EXCEPT ![w] = k] /\ w \in Slots /\ k \in Keys
    BY <1>2, <2>1 DEF ChangeFlags, Admit, Slots, SInv, ServiceTypeOK
  <2>4. /\ reader' = reader
        /\ \A x \in Writers \ {w} : writer'[x] = writer[x]
        /\ writer'[w].pc # "idle" /\ writer'[w].tenant = t
    BY <2>2, IdleTypes DEF StartWrite, SInv, TypeOK, Writer
  <2>5. /\ session'[w] = k /\ \A p \in Slots \ {w} : session'[p] = session[p]
        /\ session' \in [Slots -> Keys \union {None}]
    BY <2>3 DEF SInv, ServiceTypeOK
  <2>6. Busy(w)' /\ \A p \in Slots \ {w} : Busy(p)' = Busy(p)
    BY <2>4 DEF Busy, Slots
  <2>7. ServiceTypeOK'
    BY <1>0, <2>1, <2>3, <2>5, <2>6 DEF SInv, ServiceTypeOK
  <2>8. SessionsHeld'
    BY <1>0, <2>1, <2>5 DEF SInv, SessionsHeld
  <2>9. authenticate(session[w])' = t
    BY <1>0, <2>1, <2>5 DEF authenticate
  <2>10. \A p \in Slots \ {w} : authenticate(session[p])' = authenticate(session[p])
    BY <1>0, <2>5 DEF authenticate
  <2>11. KeyConfinement'
    BY <2>3, <2>4, <2>6, <2>9, <2>10 DEF SInv, KeyConfinement, Slots
  <2> QED BY <2>7, <2>8, <2>11
<1>3. ASSUME NEW p \in Slots, HandlerStep(p)
      PROVE  ServiceTypeOK' /\ SessionsHeld' /\ KeyConfinement'
  <2>1. session' = IF Busy(p)' THEN session ELSE [session EXCEPT ![p] = None]
    BY <1>3 DEF HandlerStep
  <2>2. /\ Busy(p) /\ \A x \in Slots \ {p} : Busy(x)' = Busy(x)
        /\ \A r \in Readers : Busy(r)' => reader'[r].scope = reader[r].scope
        /\ \A w \in Writers : Busy(w)' => writer'[w].tenant = writer[w].tenant
    <3>1. CASE p \in Readers
      <4>1. ReaderStep(p)
        BY <1>3, <3>1 DEF HandlerStep
      <4> QED BY <3>1, <4>1, ReaderSteps DEF SInv, Busy, Slots
    <3>2. CASE p \in Writers
      <4>1. WriterStep(p)
        BY <1>3, <3>2 DEF HandlerStep
      <4> QED BY <3>2, <4>1, WriterSteps DEF SInv, Busy, Slots
    <3> QED BY <3>1, <3>2 DEF Slots
  <2>3. /\ session' \in [Slots -> Keys \union {None}]
        /\ \A x \in Slots : session'[x] = IF x = p /\ ~Busy(p)' THEN None ELSE session[x]
    BY <2>1 DEF SInv, ServiceTypeOK
  <2>4. \A x \in Slots : Busy(x)' <=> session'[x] # None
    BY <2>2, <2>3 DEF SInv, ServiceTypeOK
  <2>5. ServiceTypeOK'
    BY <1>0, <2>3, <2>4 DEF SInv, ServiceTypeOK
  <2>6. SessionsHeld'
    BY <1>0, <2>3 DEF SInv, SessionsHeld
  <2>7. \A x \in Slots : Busy(x)' => Busy(x) /\ authenticate(session[x])' = authenticate(session[x])
    BY <1>0, <2>2, <2>3 DEF authenticate
  <2>8. KeyConfinement'
    BY <2>2, <2>7 DEF SInv, KeyConfinement, OwnScope, Slots
  <2> QED BY <2>5, <2>6, <2>8
<1> QED BY <1>1, <1>2, <1>3

(* The clock, evictions and steps of nobody disturb no session: a loader   *)
(* that ages keeps its scope.                                              *)
LEMMA OtherStep ==
    ASSUME SInv, TypeOK', OwnScope', UNCHANGED serviceVars,
           (\E k \in Scope : Evict(k)) \/ Tick \/ UNCHANGED vars
    PROVE  ServiceTypeOK' /\ SessionsHeld' /\ KeyConfinement'
<1>0. /\ tenants' = tenants /\ api_keys' = api_keys /\ register' = register
      /\ session' = session /\ held' = held /\ lost' = lost
  BY DEF serviceVars
<1>1. /\ writer' = writer
      /\ \A r \in Readers : reader'[r].pc = reader[r].pc /\ reader'[r].scope = reader[r].scope
  <2>1. CASE \E k \in Scope : Evict(k)
    BY <2>1 DEF Evict
  <2>2. CASE Tick
    <3>1. \A r \in Readers : reader[r] \in Reader /\ reader'[r] = Hold(reader[r])
      BY <2>2 DEF Tick, SInv, TypeOK
    <3>2. \A q \in Reader : Hold(q).pc = q.pc /\ Hold(q).scope = q.scope
      BY DEF Hold, Reader
    <3> QED BY <2>2, <3>1, <3>2 DEF Tick
  <2>3. CASE UNCHANGED vars
    BY <2>3 DEF vars
  <2> QED BY <2>1, <2>2, <2>3
<1>2. \A p \in Slots : Busy(p)' = Busy(p)
  BY <1>1 DEF Busy, Slots
<1>3. ServiceTypeOK'
  BY <1>0, <1>2 DEF SInv, ServiceTypeOK
<1>4. SessionsHeld'
  BY <1>0 DEF SInv, SessionsHeld
<1>5. KeyConfinement'
  BY <1>0, <1>1, <1>2 DEF SInv, KeyConfinement, OwnScope, Slots, authenticate
<1> QED BY <1>3, <1>4, <1>5

(* Registration, authentication and every handler keep the inductive       *)
(* invariant of the service.                                               *)
LEMMA NextSInv == SInv /\ [ServiceNext]_allVars => SInv'
<1> SUFFICES ASSUME SInv, [ServiceNext]_allVars PROVE SInv'
  OBVIOUS
<1>1. TypeOK' /\ OwnScope'
  BY ServiceStepIsCacheStep, TypeStep, OwnScopeStep DEF SInv
<1>2. ASSUME UNCHANGED <<tenants, api_keys, register, held, lost>>
      PROVE  Registering' /\ TenantsHaveKeys'
  BY <1>2 DEF SInv, Registering, TenantsHaveKeys
<1>3. CASE \/ \E t \in Tenants, k \in Keys : create_tenant(t, k)
           \/ CommitTenant \/ TenantCreated \/ RegistrationLost
  <2>1. UNCHANGED <<vars, session>>
    BY <1>3 DEF create_tenant, CommitTenant, TenantCreated, RegistrationLost
  <2> QED BY <1>1, <1>3, <2>1, RegistrationStep DEF SInv
<1>4. CASE \/ \E k \in held \union {None}, t \in Tenants :
                \/ \E r \in Readers : Evaluate(r, k, t)
                \/ \E w \in Writers : ChangeFlags(w, k, t)
           \/ \E p \in Slots : HandlerStep(p)
  <2>1. UNCHANGED <<tenants, api_keys, register, held, lost>>
    BY <1>4 DEF Evaluate, ChangeFlags, Admit, HandlerStep
  <2>2. ServiceTypeOK' /\ SessionsHeld' /\ KeyConfinement'
    BY <1>1, <1>4, <2>1, RequestStep
  <2> QED BY <1>1, <1>2, <2>1, <2>2 DEF SInv
<1>5. CASE UNCHANGED serviceVars /\ ((\E k \in Scope : Evict(k)) \/ Tick \/ UNCHANGED vars)
  <2>1. UNCHANGED <<tenants, api_keys, register, held, lost>>
    BY <1>5 DEF serviceVars
  <2>2. ServiceTypeOK' /\ SessionsHeld' /\ KeyConfinement'
    BY <1>1, <1>5, OtherStep
  <2> QED BY <1>1, <1>2, <2>1, <2>2 DEF SInv
<1> QED BY <1>3, <1>4, <1>5 DEF ServiceNext, allVars

(* Every reachable state of the service satisfies the inductive invariant. *)
LEMMA ServiceInvariance == ServiceSpec => []SInv
BY InitSInv, NextSInv, PTL DEF ServiceSpec

----------------------------------------------------------------------------
(* Sessions, keys and registrations keep their types, and a handler of     *)
(* evaluate.py or flags.py runs exactly while its session is open.         *)
THEOREM ServiceTypeCorrect == ServiceSpec => []ServiceTypeOK
<1>1. SInv => ServiceTypeOK
  BY DEF SInv
<1> QED BY <1>1, ServiceInvariance, PTL

(* Tenant isolation: however registrations, evaluations, CRUD requests and *)
(* the cache interleave, a handler works on flag sets of the tenant that   *)
(* the request's API key was minted for (security.py, the routers).        *)
THEOREM TenantIsolation == ServiceSpec => []KeyConfinement
<1>1. SInv => KeyConfinement
  BY DEF SInv
<1> QED BY <1>1, ServiceInvariance, PTL

(* A key that create_tenant showed opens its tenant, and only a            *)
(* registration in progress or lost leaves a tenant without such a key.    *)
THEOREM RegistrationIsAtomic == ServiceSpec => []TenantsHaveKeys
<1>1. SInv => TenantsHaveKeys
  BY DEF SInv
<1> QED BY <1>1, ServiceInvariance, PTL

(* No step changes a tenant's committed flags but that of a request with a *)
(* key of this tenant that was handed out.                                 *)
THEOREM OnlyKeyHoldersWrite == ServiceSpec => ChangesAreAuthorized
<1> DEFINE Authorized == \A s \in Scope : version'[s] # version[s] =>
                             \E w \in Writers : session[w] \in held /\ api_keys[session[w]] = s[1]
<1>1. SInv /\ [ServiceNext]_allVars => [Authorized]_allVars
  <2> SUFFICES ASSUME SInv, ServiceNext PROVE Authorized
    OBVIOUS
  <2>1. ASSUME NEW w \in Writers, HandlerStep(w), w \notin Readers PROVE Authorized
    <3>1. WriterStep(w)
      BY <2>1 DEF HandlerStep
    <3>2. Busy(w) /\ w \in Slots
      BY <2>1, <3>1, WriterSteps DEF SInv, Busy, Slots
    <3>3. session[w] \in held /\ api_keys[session[w]] = writer[w].tenant
      BY <3>2 DEF SInv, ServiceTypeOK, SessionsHeld, KeyConfinement, authenticate
    <3> QED BY <3>1, <3>3, WriterSteps DEF SInv
  <2>2. ASSUME NEW r \in Readers, HandlerStep(r) PROVE version' = version
    BY <2>2, ReaderSteps DEF HandlerStep, SInv
  <2>3. ASSUME ~ \E p \in Slots : HandlerStep(p) PROVE version' = version
    BY <2>3 DEF ServiceNext, create_tenant, CommitTenant, TenantCreated, RegistrationLost, vars,
       Evaluate, StartEvaluate, ChangeFlags, StartWrite, Evict, Tick
  <2> QED BY <2>1, <2>2, <2>3 DEF Slots
<1> QED BY <1>1, ServiceInvariance, PTL DEF ServiceSpec, ChangesAreAuthorized
============================================================================
