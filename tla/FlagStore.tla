----------------------------- MODULE FlagStore -----------------------------
(***************************************************************************)
(* Flag CRUD and the audit trail of one tenant: the handlers of            *)
(* app/routers/flags.py over the tables of app/models.py, run by           *)
(* concurrent requests.                                                    *)
(*                                                                         *)
(* A request holds one PostgreSQL transaction at the default isolation     *)
(* level, READ COMMITTED, from its first statement (the api_keys lookup)   *)
(* on.  Each SELECT sees what is committed when it runs.  The ORM computes *)
(* on the copies it read and writes at the commit, as UPDATEs of the       *)
(* changed columns alone; UPDATEs of a row queue on its lock until the     *)
(* commit, so writing and committing is one step here.                     *)
(*                                                                         *)
(* What follows the commit (db.refresh, cache.invalidate) leaves these     *)
(* tables alone: it is the subject of module FlagCache.                    *)
(***************************************************************************)
EXTENDS FlagValues

CONSTANTS
    Environments,   \* models.Environment
    Keys,           \* flag keys
    Requests,       \* CRUD requests that can be in flight at once
    Creates,        \* bodies of POST: records of FlagCreate
    Updates,        \* bodies of PUT: records of FlagUpdate
    MaxRules,       \* ck_config_rules_max and ck_config_rules_size (50 rules, 8 KB)
    MaxRequests     \* bound on the requests of a behaviour

FlagColumns == {"name", "description", "default_value", "archived_at"}

ConfigColumns == {"enabled", "value", "rollout_percentage", "targeting_rules"}

(* A body of POST, and a body of PUT: `sent' maps the fields the client    *)
(* sent (model_fields_set) to their values, None for an explicit null.     *)
Creatable == FlagColumns \ {"archived_at"}

FlagCreate == [type : FlagType, sent : [Creatable -> Column]]

Sendable == Creatable \union ConfigColumns

IsFlagUpdate(p) ==
    /\ p.environment \in Environments \union {None}
    /\ DOMAIN p.sent \subseteq Sendable
    /\ \A c \in DOMAIN p.sent : p.sent[c] \in Column
    /\ \A c \in {"default_value", "value"} \intersect DOMAIN p.sent :
            p.sent[c] # None => Len(p.sent[c]) = 1

ASSUME StoreAssumption ==
    /\ Creates \subseteq FlagCreate
    /\ \A p \in Creates :
            p.sent["default_value"] # None /\ Len(p.sent["default_value"]) = 1
    /\ \A p \in Updates : IsFlagUpdate(p)
    /\ MaxRules \in Nat /\ MaxRequests \in Nat
    /\ None \notin Environments \union Seq(Scalar)

VARIABLES
    flags,  \* flags[k]: the rows of flag k in flags and flag_environment_configs, or None
    audit,  \* flag_audit_log, in the order of the commits
    req,    \* req[r]: the request in slot r
    clock,  \* now(): one tick per transaction
    seen    \* history variable: the rows its flag has had since request r began

vars == <<flags, audit, req, clock, seen>>

Row == [type : FlagType,
        flag : [FlagColumns -> Column],
        config : [Environments -> [ConfigColumns -> Column]]]

ASSUME RowAssumption == None \notin Row \union [FlagColumns -> Column]

----------------------------------------------------------------------------
(* FlagUpdate.check_environment_present                                    *)
check_environment_present(p) ==
    DOMAIN p.sent \intersect ConfigColumns # {} => p.environment # None

(* The fields of a body update_flag takes over.  An explicit null of name, *)
(* enabled, rollout_percentage or targeting_rules is skipped.              *)
FlagSent(p) ==
    {c \in DOMAIN p.sent \intersect FlagColumns : c = "name" => p.sent[c] # None}

ConfigSent(p) ==
    IF p.environment = None THEN {}
    ELSE {c \in DOMAIN p.sent \intersect ConfigColumns : c # "value" => p.sent[c] # None}

(* The 422 of update_flag: default_value or value not of the flag's type.  *)
TypeMismatch(p, type) ==
    \E c \in (FlagSent(p) \union ConfigSent(p)) \intersect {"default_value", "value"} :
        ~value_matches_type(p.sent[c], type)

(* _drop_unchanged: the fields that differ from the entity the ORM read.   *)
drop_unchanged(entity, changes, sent) == {c \in changes : ~PyEq(entity[c], sent[c])}

Assign(entity, changes, sent) ==
    [c \in DOMAIN entity |-> IF c \in changes THEN sent[c] ELSE entity[c]]

(* UPDATEs of the changed columns of a flag and of one of its configs.     *)
Written(row, flag_changes, environment, config_changes, sent) ==
    [type |-> row.type,
     flag |-> Assign(row.flag, flag_changes, sent),
     config |-> [e \in Environments |->
        IF e = environment THEN Assign(row.config[e], config_changes, sent) ELSE row.config[e]]]

(* The CHECK constraint a changed config row can break.                    *)
BreaksCheck(changes, sent) ==
    "targeting_rules" \in changes /\ Len(sent["targeting_rules"]) > MaxRules

(* A FlagAuditLog row.  created_at is now(), the start of the transaction. *)
Record(q, environment, action, old, new) ==
    [key |-> q.key, environment |-> environment, action |-> action,
     old_value |-> old, new_value |-> new, created_at |-> q.started]

NoColumns == [c \in {} |-> None]

----------------------------------------------------------------------------
Idle == [pc |-> "idle"]

Init ==
    /\ flags = [k \in Keys |-> None]
    /\ audit = <<>>
    /\ req = [r \in Requests |-> Idle]
    /\ clock = 0
    /\ seen = [r \in Requests |-> {}]

(* The rows (None before a create commits) that were current at some       *)
(* moment since the request in a slot began.  No handler reads this.       *)
Observe ==
    seen' = [r \in Requests |->
        IF req'[r] = Idle THEN {} ELSE seen[r] \union {flags'[req'[r].key]}]

(* A request passes validation and authentication: its transaction starts. *)
(* The other outcomes (401, 404 for a foreign tenant, 422) touch no table. *)
Begin(r, op, k, payload) ==
    /\ req[r] = Idle
    /\ clock < MaxRequests
    /\ clock' = clock + 1
    /\ req' = [req EXCEPT ![r] = [pc |-> op, op |-> op, key |-> k, payload |-> payload,
                                  started |-> clock + 1, flag |-> None, config |-> None]]
    /\ UNCHANGED <<flags, audit>>
    /\ Observe

BeginCreate(r, k, p) ==
    value_matches_type(p.sent["default_value"], p.type) /\ Begin(r, "create", k, p)

BeginUpdate(r, k, p) == check_environment_present(p) /\ Begin(r, "update", k, p)

BeginArchive(r, k) == Begin(r, "archive", k, None)

Finish(r) == req' = [req EXCEPT ![r] = Idle]

(* The instance dies or the database drops the connection: rolled back.    *)
Lost(r) ==
    /\ req[r] # Idle
    /\ Finish(r)
    /\ UNCHANGED <<flags, audit, clock>>
    /\ Observe

----------------------------------------------------------------------------
(* create_flag                                                             *)

Claimed(k) == \E r \in Requests : req[r].pc = "seed" /\ req[r].key = k

(* Mutant: no unique constraint on (tenant_id, key).                       *)
Flush_NoConstraint(r) ==
    /\ req[r].pc = "create"
    /\ req' = [req EXCEPT ![r].pc = "seed"]
    /\ UNCHANGED <<flags, audit, clock>>
    /\ Observe

(* Mutant: the conflict with a committed row is retried instead of a 409.  *)
Flush_Retries(r) ==
    /\ req[r].pc = "create"
    /\ ~Claimed(req[r].key)
    /\ flags[req[r].key] = None
    /\ req' = [req EXCEPT ![r].pc = "seed"]
    /\ UNCHANGED <<flags, audit, clock>>
    /\ Observe

(* db.flush() inserts the flag row.  An uncommitted row with the same key  *)
(* makes it wait for the other transaction; a committed one is a 409.      *)
Flush(r) ==
    /\ req[r].pc = "create"
    /\ ~Claimed(req[r].key)
    /\ IF flags[req[r].key] = None THEN req' = [req EXCEPT ![r].pc = "seed"] ELSE Finish(r)
    /\ UNCHANGED <<flags, audit, clock>>
    /\ Observe

(* The row of a new flag, with a seeded config per environment.            *)
seed_config(p) ==
    [c \in ConfigColumns |->
        CASE c = "enabled"            -> Bool(0)
          [] c = "value"              -> seed_value(p.type, p.sent["default_value"])
          [] c = "rollout_percentage" -> Number(100)
          [] c = "targeting_rules"    -> <<>>]

NewRow(p) ==
    [type |-> p.type,
     flag |-> [c \in FlagColumns |-> IF c = "archived_at" THEN None ELSE p.sent[c]],
     config |-> [e \in Environments |-> seed_config(p)]]

(* The rows, the audit record and the commit.  (key and type are in the    *)
(* record too; they never change.)                                         *)
CommitCreate(r) ==
    LET q == req[r]
        new_value == [c \in {"name", "default_value"} |-> q.payload.sent[c]]
    IN
    /\ q.pc = "seed"
    /\ flags' = [flags EXCEPT ![q.key] = NewRow(q.payload)]
    /\ audit' = audit \o <<Record(q, None, "flag.created", NoColumns, new_value)>>
    /\ Finish(r)
    /\ UNCHANGED clock
    /\ Observe

----------------------------------------------------------------------------
(* update_flag and archive_flag                                            *)

(* _get_flag_or_404: the SELECT of the flag row.                           *)
ReadFlag(r) ==
    LET row == flags[req[r].key] IN
    /\ req[r].pc \in {"update", "archive"}
    /\ IF row = None THEN Finish(r)
       ELSE req' = [req EXCEPT ![r].pc = "configs", ![r].flag = row.flag]
    /\ UNCHANGED <<flags, audit, clock>>
    /\ Observe

(* The SELECT of its configs (lazy="selectin"), a statement of its own.    *)
(* db.get finds them in the session.  An archived flag is not archived     *)
(* again: archive_flag answers without a commit.                           *)
ReadConfigs(r) ==
    LET q == req[r] IN
    /\ q.pc = "configs"
    /\ \/ /\ q.op = "update"
          /\ req' = [req EXCEPT ![r].pc = "commit",
                ![r].config = IF q.payload.environment = None THEN None
                              ELSE flags[q.key].config[q.payload.environment]]
       \/ /\ q.op = "archive" /\ q.flag["archived_at"] = None
          /\ req' = [req EXCEPT ![r].pc = "commit"]
       \/ /\ q.op = "archive" /\ q.flag["archived_at"] # None
          /\ Finish(r)
    /\ UNCHANGED <<flags, audit, clock>>
    /\ Observe

FlagChanges(q) == drop_unchanged(q.flag, FlagSent(q.payload), q.payload.sent)

ConfigChanges(q) == drop_unchanged(q.config, ConfigSent(q.payload), q.payload.sent)

(* The 422, or the 500 of a broken CHECK constraint: nothing is written,   *)
(* the flag-level part of the body included.                               *)
Reject(r) ==
    LET q == req[r] IN
    /\ q.pc = "commit" /\ q.op = "update"
    /\ \/ TypeMismatch(q.payload, flags[q.key].type)
       \/ BreaksCheck(ConfigChanges(q), q.payload.sent)
    /\ Finish(r)
    /\ UNCHANGED <<flags, audit, clock>>
    /\ Observe

(* Mutant: the old values are read after the entity has been assigned.     *)
Recorded_AfterAssign(q, entity, environment, action, changes) ==
    IF changes = {} THEN <<>>
    ELSE <<Record(q, environment, action, [c \in changes |-> q.payload.sent[c]],
                  [c \in changes |-> q.payload.sent[c]])>>

(* One record of a scope's changed columns, their old values taken from    *)
(* the copy the request read.                                              *)
Recorded(q, entity, environment, action, changes) ==
    IF changes = {} THEN <<>>
    ELSE <<Record(q, environment, action, [c \in changes |-> entity[c]],
                  [c \in changes |-> q.payload.sent[c]])>>

(* Mutant: the environment-level change is not recorded.                   *)
CommitUpdate_NoConfigRecord(r) ==
    LET q == req[r]
        p == q.payload
    IN
    /\ q.pc = "commit" /\ q.op = "update"
    /\ ~TypeMismatch(p, flags[q.key].type)
    /\ ~BreaksCheck(ConfigChanges(q), p.sent)
    /\ flags' = [flags EXCEPT ![q.key] =
            Written(@, FlagChanges(q), p.environment, ConfigChanges(q), p.sent)]
    /\ audit' = audit \o Recorded(q, q.flag, None, "flag.updated", FlagChanges(q))
    /\ Finish(r)
    /\ UNCHANGED clock
    /\ Observe

(* Mutant: the change is made, and recorded, in another environment too.   *)
CommitUpdate_Spills(r) ==
    LET q == req[r]
        p == q.payload
        other == CHOOSE e \in Environments : e # p.environment
    IN
    /\ q.pc = "commit" /\ q.op = "update"
    /\ ~TypeMismatch(p, flags[q.key].type)
    /\ ~BreaksCheck(ConfigChanges(q), p.sent)
    /\ flags' = [flags EXCEPT ![q.key] =
            LET row == Written(@, FlagChanges(q), p.environment, ConfigChanges(q), p.sent)
            IN  IF p.environment = None THEN row
                ELSE Written(row, {}, other, ConfigChanges(q), p.sent)]
    /\ audit' = audit \o Recorded(q, q.flag, None, "flag.updated", FlagChanges(q))
                      \o Recorded(q, q.config, p.environment, "config.updated", ConfigChanges(q))
                      \o Recorded(q, q.config, other, "config.updated", ConfigChanges(q))
    /\ Finish(r)
    /\ UNCHANGED clock
    /\ Observe

(* Mutant: the flag-level part is committed before the value is checked.   *)
CommitUpdate_HalfStored(r) ==
    LET q == req[r]
        p == q.payload
        checked == IF TypeMismatch(p, flags[q.key].type) THEN {} ELSE ConfigChanges(q)
    IN
    /\ q.pc = "commit" /\ q.op = "update"
    /\ ~BreaksCheck(checked, p.sent)
    /\ flags' = [flags EXCEPT ![q.key] =
            Written(@, FlagChanges(q), p.environment, checked, p.sent)]
    /\ audit' = audit \o Recorded(q, q.flag, None, "flag.updated", FlagChanges(q))
                      \o Recorded(q, q.config, p.environment, "config.updated", checked)
    /\ Finish(r)
    /\ UNCHANGED clock
    /\ Observe

(* update_flag: each scope with a change is written and recorded.          *)
CommitUpdate(r) ==
    LET q == req[r]
        p == q.payload
    IN
    /\ q.pc = "commit" /\ q.op = "update"
    /\ ~TypeMismatch(p, flags[q.key].type)
    /\ ~BreaksCheck(ConfigChanges(q), p.sent)
    /\ flags' = [flags EXCEPT ![q.key] =
            Written(@, FlagChanges(q), p.environment, ConfigChanges(q), p.sent)]
    /\ audit' = audit \o Recorded(q, q.flag, None, "flag.updated", FlagChanges(q))
                      \o Recorded(q, q.config, p.environment, "config.updated", ConfigChanges(q))
    /\ Finish(r)
    /\ UNCHANGED clock
    /\ Observe

(* archive_flag: the time is the application's, one per request.           *)
CommitArchive(r) ==
    LET q == req[r]
        archived == [c \in {"archived_at"} |-> String(q.started)]
    IN
    /\ q.pc = "commit" /\ q.op = "archive"
    /\ flags' = [flags EXCEPT ![q.key] = Written(@, {"archived_at"}, None, {}, archived)]
    /\ audit' = audit \o <<Record(q, None, "flag.archived",
                                  [c \in {"archived_at"} |-> None], archived)>>
    /\ Finish(r)
    /\ UNCHANGED clock
    /\ Observe

----------------------------------------------------------------------------
RequestStep(r) ==
    \/ Flush(r) \/ CommitCreate(r)
    \/ ReadFlag(r) \/ ReadConfigs(r) \/ Reject(r) \/ CommitUpdate(r) \/ CommitArchive(r)

Arrive(r) ==
    \E k \in Keys :
        \/ \E p \in Creates : BeginCreate(r, k, p)
        \/ \E p \in Updates : BeginUpdate(r, k, p)
        \/ BeginArchive(r, k)

(* No client sends anything more: the end of a bounded behaviour.  A state *)
(* in which requests only wait for each other is a deadlock.               *)
Quiet ==
    /\ clock = MaxRequests
    /\ \A r \in Requests : req[r] = Idle
    /\ UNCHANGED vars

Next == (\E r \in Requests : RequestStep(r) \/ Arrive(r) \/ Lost(r)) \/ Quiet

Spec == Init /\ [][Next]_vars

(* A request that has been accepted keeps running.                         *)
FairSpec == Spec /\ \A r \in Requests : WF_vars(RequestStep(r))

----------------------------------------------------------------------------
(* Properties.                                                             *)

(* The value of a column: of the flag row when environment is None.        *)
Cell(row, environment, c) ==
    IF environment = None THEN row.flag[c] ELSE row.config[environment][c]

Stored(k, environment, c) == Cell(flags[k], environment, c)

ColumnsOf(environment) == IF environment = None THEN FlagColumns ELSE ConfigColumns

Scopes == Environments \union {None}

(* The committed records of a flag that name a column.                     *)
Naming(k, environment, c) ==
    {i \in DOMAIN audit : /\ audit[i].key = k /\ audit[i].environment = environment
                         /\ c \in DOMAIN audit[i].new_value}

(* Rows, records and requests are well formed (models.py).                 *)
TypeOK ==
    /\ flags \in [Keys -> Row \union {None}]
    /\ clock \in 0..MaxRequests
    /\ \A r \in Requests : req[r] # Idle =>
            /\ req[r].key \in Keys
            /\ req[r].started \in 1..clock
            /\ req[r].flag = None <=> req[r].pc \in {"create", "seed", "update", "archive"}
    /\ \A i \in DOMAIN audit :
            /\ audit[i].key \in Keys
            /\ audit[i].environment \in Scopes
            /\ audit[i].created_at \in 1..clock
            /\ DOMAIN audit[i].new_value \subseteq ColumnsOf(audit[i].environment)
            /\ DOMAIN audit[i].old_value \subseteq DOMAIN audit[i].new_value

HasType(v, type) == v # None /\ Len(v) = 1 /\ v[1].type = type

(* default_value and value have the declared type of the flag in every     *)
(* committed state (_value_matches_type at the write paths, _seed_value).  *)
ValuesMatchType ==
    \A k \in Keys : flags[k] # None =>
        /\ HasType(flags[k].flag["default_value"], flags[k].type)
        /\ \A e \in Environments : HasType(flags[k].config[e]["value"], flags[k].type)

(* The audit trail accounts for what is stored: a column holds the new     *)
(* value of the last committed record that names it, and an environment no *)
(* record has enabled is dark, whatever requests overlapped.               *)
AuditReplays ==
    \A k \in Keys, e \in Scopes : flags[k] # None =>
        /\ \A c \in ColumnsOf(e) : \A i \in Naming(k, e, c) :
                (\A j \in Naming(k, e, c) : j <= i) =>
                    Stored(k, e, c) = audit[i].new_value[c]
        /\ e # None /\ Naming(k, e, "enabled") = {} => Stored(k, e, "enabled") = Bool(0)

(* A flag's trail begins with its one flag.created record: of concurrent   *)
(* creators of a key exactly one succeeds (uq_flags_tenant_key).           *)
CreatedOnce ==
    \A i \in DOMAIN audit :
        audit[i].action = "flag.created" <=> ~ \E j \in 1..(i - 1) : audit[j].key = audit[i].key

(* The old values of a record were stored, all of them at one moment while *)
(* the request that recorded them ran: no record starts from a row the     *)
(* flag never had, from half of one and half of another, or from one that  *)
(* had been replaced before the request came.                              *)
OldValuesWereStored ==
    [][\A i \in DOMAIN audit' \ DOMAIN audit : \E r \in Requests :
            /\ req[r] # Idle /\ req'[r] = Idle /\ req[r].key = audit'[i].key
            /\ \E row \in seen[r] : \A c \in DOMAIN audit'[i].old_value :
                    /\ row # None
                    /\ audit'[i].old_value[c] = Cell(row, audit'[i].environment, c)]_vars

(* "Only the fields you send are changed": a step changes a stored column  *)
(* only as the commit of a request that sent that value for it, or that    *)
(* archives the flag.  In particular no PUT brings an archived flag back,  *)
(* and a PUT that has a value of the wrong type changes nothing, not even  *)
(* the other scope of its body.                                            *)
OnlySentColumnsChange ==
    [][\A k \in Keys, e \in Scopes : \A c \in ColumnsOf(e) :
            flags[k] # None /\ Stored(k, e, c)' # Stored(k, e, c) =>
                \E r \in Requests :
                    /\ req[r] # Idle /\ req'[r] = Idle /\ req[r].key = k
                    /\ \/ req[r].op = "archive" /\ c = "archived_at"
                       \/ /\ req[r].op = "update"
                          /\ ~TypeMismatch(req[r].payload, flags[k].type)
                          /\ e \in {None, req[r].payload.environment}
                          /\ c \in DOMAIN req[r].payload.sent
                          /\ Stored(k, e, c)' = req[r].payload.sent[c]]_vars

(* Every accepted request is answered, a creator that waits for another    *)
(* one's uncommitted row included.                                         *)
RequestsFinish == \A r \in Requests : req[r] # Idle ~> req[r] = Idle

(* What a successful PUT sent is stored when it commits.                   *)
SentValuesStored ==
    [][\A r \in Requests : CommitUpdate(r) =>
            LET q == req[r] IN
            /\ \A c \in FlagSent(q.payload) : flags'[q.key].flag[c] = q.payload.sent[c]
            /\ \A c \in ConfigSent(q.payload) :
                    flags'[q.key].config[q.payload.environment][c] = q.payload.sent[c]]_vars
============================================================================
