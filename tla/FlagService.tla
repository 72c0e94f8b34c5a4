---------------------------- MODULE FlagService ----------------------------
(***************************************************************************)
(* Tenancy over the cache protocol: registration of tenants                *)
(* (app/routers/tenants.py), API keys and the ownership checks of every    *)
(* route (app/security.py, _assert_tenant_matches), composed with the      *)
(* evaluation and CRUD requests of FlagCache.                              *)
(*                                                                         *)
(* A request names a tenant, in its path or in its body, and presents an   *)
(* API key.  Its handler runs only once both agree, and then works for the *)
(* tenant of the key.                                                      *)
(***************************************************************************)
EXTENDS FlagCache

CONSTANT Keys       \* generate_api_key: raw keys; their hashes are distinct

ASSUME ServiceAssumption ==
    /\ Readers \intersect Writers = {}
    /\ None \notin Keys \union Tenants

VARIABLES
    tenants,    \* the committed rows of the table tenants
    api_keys,   \* api_keys[k]: the tenant of the committed row with k's hash, or None
    register,   \* the POST /tenants request in flight
    session,    \* session[p]: the API key of the request in slot p, or None
    held,       \* the keys that were shown to an operator
    lost        \* history: tenants whose registration died after its commit

serviceVars == <<tenants, api_keys, register, session, held, lost>>

allVars == <<vars, serviceVars>>

Slots == Readers \union Writers

Register0 == [pc |-> "idle", tenant |-> None, key |-> None]

ServiceInit ==
    /\ Init
    /\ tenants = {}
    /\ api_keys = [k \in Keys |-> None]
    /\ register = Register0
    /\ session = [p \in Slots |-> None]
    /\ held = {}
    /\ lost = {}

----------------------------------------------------------------------------
(* Registration.                                                           *)

(* require_admin has passed; the new id and the new key are random, hence  *)
(* fresh.  Nothing is visible before the commit.                           *)
create_tenant(t, k) ==
    /\ register.pc = "idle"
    /\ t \notin tenants
    /\ api_keys[k] = None
    /\ register' = [pc |-> "commit", tenant |-> t, key |-> k]
    /\ UNCHANGED <<vars, tenants, api_keys, session, held, lost>>

(* Mutant: the key is shown before it is stored.                           *)
CommitTenant_ShowsFirst ==
    /\ register.pc = "commit"
    /\ tenants' = tenants \union {register.tenant}
    /\ held' = held \union {register.key}
    /\ register' = [pc |-> "refresh", tenant |-> register.tenant, key |-> register.key]
    /\ UNCHANGED <<vars, api_keys, session, lost>>

(* One transaction inserts the tenant and its key.                         *)
CommitTenant ==
    /\ register.pc = "commit"
    /\ tenants' = tenants \union {register.tenant}
    /\ api_keys' = [api_keys EXCEPT ![register.key] = register.tenant]
    /\ register' = [pc |-> "refresh", tenant |-> register.tenant, key |-> register.key]
    /\ UNCHANGED <<vars, session, held, lost>>

(* The answer carries the raw key, the only time it is shown.              *)
TenantCreated ==
    /\ register.pc = "refresh"
    /\ held' = held \union {register.key}
    /\ register' = Register0
    /\ UNCHANGED <<vars, tenants, api_keys, session, lost>>

(* The commit or the refresh raises, or the instance dies: after the       *)
(* commit the tenant stays, and its key is known to nobody.  (Failures is  *)
(* about the requests of the cache protocol, not about this one.)          *)
RegistrationLost ==
    /\ register.pc # "idle"
    /\ lost' = IF register.pc = "refresh" THEN lost \union {register.tenant} ELSE lost
    /\ register' = Register0
    /\ UNCHANGED <<vars, tenants, api_keys, session, held>>

----------------------------------------------------------------------------
(* Requests with an API key.  A key is never revoked and the lookup is one *)
(* query, so arrival, authentication and the ownership check are one step; *)
(* a refused request changes nothing and is a stuttering step.             *)

Busy(p) == IF p \in Readers THEN reader[p].pc # "idle" ELSE writer[p].pc # "idle"

(* authenticate: the tenant of the row with the key's hash, as committed   *)
(* at the SELECT; None, a 401, without a key or without a row.             *)
authenticate(k) == IF k = None THEN None ELSE api_keys[k]

(* Mutant: any valid key is good for the tenant in the path.               *)
require_tenant_PathOnly(k, tenant_id) ==
    IF authenticate(k) = None THEN None ELSE tenant_id

(* require_tenant and _assert_tenant_matches: the tenant a handler works   *)
(* for, or None where the request is refused (401, 403, 404).              *)
require_tenant(k, tenant_id) ==
    IF authenticate(k) = tenant_id THEN authenticate(k) ELSE None

Admit(p, k, tenant_id) ==
    /\ session[p] = None
    /\ require_tenant(k, tenant_id) # None
    /\ session' = [session EXCEPT ![p] = k]
    /\ UNCHANGED <<tenants, api_keys, register, held, lost>>

(* POST /evaluate and /evaluate/bulk: the tenant is named in the body.     *)
Evaluate(r, k, tenant_id) ==
    /\ Admit(r, k, tenant_id)
    /\ \E e \in Environments : StartEvaluate(r, <<require_tenant(k, tenant_id), e>>)

(* POST, PUT and DELETE of /tenants/{id}/flags.                            *)
ChangeFlags(w, k, tenant_id) ==
    /\ Admit(w, k, tenant_id)
    /\ \E f, c \in BOOLEAN, e \in Environments \union {None} :
            StartWrite(w, require_tenant(k, tenant_id), f, c, e)

(* Mutant: a finished request leaves its credentials behind.             *)
HandlerStep_KeepsSession(p) ==
    /\ IF p \in Readers THEN ReaderStep(p) ELSE WriterStep(p)
    /\ UNCHANGED serviceVars

(* A step of an admitted request; its last one closes the session.         *)
HandlerStep(p) ==
    /\ IF p \in Readers THEN ReaderStep(p) ELSE WriterStep(p)
    /\ session' = IF Busy(p)' THEN session ELSE [session EXCEPT ![p] = None]
    /\ UNCHANGED <<tenants, api_keys, register, held, lost>>

----------------------------------------------------------------------------
ServiceNext ==
    \/ \E t \in Tenants, k \in Keys : create_tenant(t, k)
    \/ CommitTenant \/ TenantCreated \/ RegistrationLost
    \/ \E k \in held \union {None}, t \in Tenants :
        \/ \E r \in Readers : Evaluate(r, k, t)
        \/ \E w \in Writers : ChangeFlags(w, k, t)
    \/ \E p \in Slots : HandlerStep(p)
    \/ (\E k \in Scope : Evict(k)) /\ UNCHANGED serviceVars
    \/ Tick /\ UNCHANGED serviceVars

ServiceSpec == ServiceInit /\ [][ServiceNext]_allVars

----------------------------------------------------------------------------
(* Properties.                                                             *)

(* Sessions, keys and registrations stay in their types (security.py,      *)
(* tenants.py), and a handler runs exactly while its session is open.      *)
ServiceTypeOK ==
    /\ tenants \subseteq Tenants /\ lost \subseteq tenants
    /\ api_keys \in [Keys -> Tenants \union {None}]
    /\ register \in [pc : {"idle", "commit", "refresh"}, tenant : Tenants \union {None},
                     key : Keys \union {None}]
    /\ session \in [Slots -> Keys \union {None}]
    /\ held \subseteq Keys
    /\ \A p \in Slots : Busy(p) <=> session[p] # None

(* Tenant isolation across all routes: whatever tenant a request names and *)
(* whatever else is in flight, a handler serves, caches and changes flag   *)
(* sets of the tenant its API key was minted for only.                     *)
KeyConfinement ==
    /\ \A r \in Readers : Busy(r) =>
        reader[r].scope[1] = authenticate(session[r]) /\ reader[r].of[1] = authenticate(session[r])
    /\ \A w \in Writers : Busy(w) => writer[w].tenant = authenticate(session[w])

(* A committed flag set changes only in a step of a request that holds a   *)
(* key of its tenant.                                                      *)
ChangesAreAuthorized ==
    [][\A s \in Scope : version'[s] # version[s] =>
        \E w \in Writers : session[w] \in held /\ api_keys[session[w]] = s[1]]_allVars

(* A key that was shown opens a committed tenant, and a tenant no shown    *)
(* key opens is one whose registration is still to answer, or died between *)
(* its commit and its answer.                                              *)
TenantsHaveKeys ==
    /\ \A k \in held : api_keys[k] \in tenants
    /\ \A t \in tenants \ lost :
        \/ \E k \in held : api_keys[k] = t
        \/ register.pc = "refresh" /\ register.tenant = t
============================================================================
