-------------------------- MODULE FlagStoreProofs --------------------------
(***************************************************************************)
(* The audit trail and the stored rows of FlagStore, for every set of      *)
(* keys, environments, bodies and concurrent requests.                     *)
(***************************************************************************)
EXTENDS FlagStore, SequenceTheorems, TLAPS

(* A partial map from columns to values: old_value and new_value.          *)
Change == UNION {[S -> Column] : S \in SUBSET (FlagColumns \union ConfigColumns)}

AuditRow == [key : Keys, environment : Scopes,
             action : {"flag.created", "flag.updated", "config.updated", "flag.archived"},
             old_value : Change, new_value : Change, created_at : Nat]

Active == [pc : {"create", "seed", "update", "archive", "configs", "commit"},
           op : {"create", "update", "archive"}, key : Keys,
           payload : Creates \union Updates \union {None}, started : Nat,
           flag : [FlagColumns -> Column] \union {None},
           config : [ConfigColumns -> Column] \union {None}]

----------------------------------------------------------------------------
(* The parts of the inductive invariant that are not properties of their   *)
(* own.                                                                    *)

(* What a request holds at each point of its handler.                      *)
Handling(q, now) ==
    /\ q \in Active
    /\ q.started \in 1..now
    /\ q.op = "create" => /\ q.payload \in Creates
                          /\ value_matches_type(q.payload.sent["default_value"], q.payload.type)
    /\ q.op = "update" => q.payload \in Updates
    /\ q.op = "create" <=> q.pc \in {"create", "seed"}
    /\ q.pc \in {"update", "archive"} => q.op = q.pc
    /\ q.flag = None <=> q.pc \in {"create", "seed", "update", "archive"}
    /\ q.pc = "commit" /\ q.op = "update" /\ q.payload.environment # None =>
           q.config \in [ConfigColumns -> Column]

InFlight == /\ req \in [Requests -> Active \union {Idle}]
            /\ \A r \in Requests : req[r] # Idle => Handling(req[r], clock)

(* A record is well formed and not from the future.                        *)
Sound(a, now) ==
    /\ a \in AuditRow
    /\ a.created_at \in 1..now
    /\ DOMAIN a.new_value \subseteq ColumnsOf(a.environment)
    /\ DOMAIN a.old_value \subseteq DOMAIN a.new_value

Trail == audit \in Seq(AuditRow) /\ \A i \in DOMAIN audit : Sound(audit[i], clock)

Table == flags \in [Keys -> Row \union {None}] /\ clock \in 0..MaxRequests

(* A row that was read is never deleted, and of the uncommitted rows of a  *)
(* key there is one at most, while no committed one exists.                *)
Rows ==
    /\ \A r \in Requests : req[r].pc \in {"configs", "commit"} => flags[req[r].key] # None
    /\ \A r \in Requests : req[r].pc = "seed" => flags[req[r].key] = None
    /\ \A r, s \in Requests :
            req[r].pc = "seed" /\ req[s].pc = "seed" /\ req[r].key = req[s].key => r = s

(* A flag exists iff it has a history.                                     *)
History == \A k \in Keys : flags[k] # None <=> \E i \in DOMAIN audit : audit[i].key = k

IInv ==
    /\ Table /\ InFlight /\ Trail /\ Rows /\ History
    /\ ValuesMatchType /\ AuditReplays /\ CreatedOnce

----------------------------------------------------------------------------
(* Facts about values, rows and records.                                   *)

(* The literals are well-formed values.                                    *)
LEMMA Literals ==
    /\ \A b \in 0..1 : Bool(b) \in Seq(Scalar) /\ Len(Bool(b)) = 1 /\ Bool(b)[1].type = "boolean"
    /\ \A n \in Nat : Number(n) \in Seq(Scalar) /\ String(n) \in Seq(Scalar)
BY DEF Bool, Number, String, Scalar

(* The seed of a well-typed default is well typed.                         *)
LEMMA SeedHasType ==
    ASSUME NEW type \in FlagType, NEW v \in Seq(Scalar), HasType(v, type)
    PROVE  seed_value(type, v) \in Seq(Scalar) /\ HasType(seed_value(type, v), type)
<1>1. v[1] \in Scalar /\ Len(v) = 1 /\ v[1].type = type
  BY DEF HasType
<1>2. CASE type = "boolean"
  <2>1. v[1].repr \in 0..1
    BY <1>1, <1>2 DEF Scalar
  <2>2. 1 - v[1].repr \in 0..1
    BY <2>1
  <2>3. seed_value(type, v) = Bool(1 - v[1].repr)
    BY <1>2 DEF seed_value
  <2> QED
    BY <2>2, <2>3, <1>2, Literals, StoreAssumption DEF HasType
<1>3. CASE type # "boolean"
  BY <1>3 DEF seed_value
<1> QED
  BY <1>2, <1>3

(* A map over some columns is a possible old_value or new_value.           *)
LEMMA PartialMaps ==
    ASSUME NEW S \in SUBSET (FlagColumns \union ConfigColumns), NEW f \in [S -> Column]
    PROVE  f \in Change /\ DOMAIN f = S
BY DEF Change

(* The elements of s \o t, by position.                                    *)
LEMMA Concatenation ==
    ASSUME NEW S, NEW s \in Seq(S), NEW t \in Seq(S)
    PROVE  /\ s \o t \in Seq(S)
           /\ DOMAIN s = 1..Len(s) /\ DOMAIN t = 1..Len(t)
           /\ DOMAIN (s \o t) = 1..(Len(s) + Len(t))
           /\ \A i \in 1..Len(s) : (s \o t)[i] = s[i]
           /\ \A i \in 1..Len(t) : (s \o t)[Len(s) + i] = t[i]
OBVIOUS

(* The row of a new flag is well formed and well typed.                    *)
LEMMA NewRowTypes ==
    ASSUME NEW p \in Creates, value_matches_type(p.sent["default_value"], p.type)
    PROVE  /\ NewRow(p) \in Row
           /\ HasType(NewRow(p).flag["default_value"], NewRow(p).type)
           /\ \A e \in Environments :
                  /\ HasType(NewRow(p).config[e]["value"], NewRow(p).type)
                  /\ NewRow(p).config[e]["enabled"] = Bool(0)
<1> DEFINE v == p.sent["default_value"]
<1>1. p.type \in FlagType /\ p.sent \in [Creatable -> Column]
  BY StoreAssumption DEF FlagCreate
<1>2. v \in Seq(Scalar) /\ HasType(v, p.type)
  BY <1>1, StoreAssumption DEF HasType, value_matches_type, Column, Creatable, FlagColumns
<1>3. seed_value(p.type, v) \in Seq(Scalar) /\ HasType(seed_value(p.type, v), p.type)
  BY <1>1, <1>2, SeedHasType
<1>4. /\ Bool(0) \in Column /\ Number(100) \in Column /\ <<>> \in Column
      /\ seed_value(p.type, v) \in Column
  BY <1>3, Literals DEF Column
<1> HIDE DEF v
<1>5. /\ seed_config(p) \in [ConfigColumns -> Column]
      /\ seed_config(p)["value"] = seed_value(p.type, v)
      /\ seed_config(p)["enabled"] = Bool(0)
  BY <1>4 DEF seed_config, ConfigColumns, v
<1>6. [c \in FlagColumns |-> IF c = "archived_at" THEN None ELSE p.sent[c]] \in [FlagColumns -> Column]
  BY <1>1 DEF Column, Creatable, FlagColumns
<1> QED
  BY <1>1, <1>2, <1>3, <1>5, <1>6 DEF NewRow, Row, v, FlagColumns

(* Assigning well-formed values keeps an entity well formed.               *)
LEMMA AssignTypes ==
    ASSUME NEW S, NEW entity \in [S -> Column], NEW changes \in SUBSET S, NEW sent,
           \A c \in changes : sent[c] \in Column
    PROVE  /\ Assign(entity, changes, sent) \in [S -> Column]
           /\ \A c \in changes : Assign(entity, changes, sent)[c] = sent[c]
           /\ \A c \in S \ changes : Assign(entity, changes, sent)[c] = entity[c]
BY DEF Assign

(* What a write of some columns leaves in a row.                           *)
WrittenAs(new, row, F, environment, C, sent) ==
    /\ new \in Row /\ new.type = row.type
    /\ \A c \in F : new.flag[c] = sent[c]
    /\ \A c \in FlagColumns \ F : new.flag[c] = row.flag[c]
    /\ \A c \in C : new.config[environment][c] = sent[c]
    /\ \A e \in Environments : \A c \in ConfigColumns :
            e # environment \/ c \notin C => new.config[e][c] = row.config[e][c]

(* A write of some columns leaves a well-formed row with those columns set *)
(* and the others as they were.                                            *)
LEMMA WrittenRow ==
    ASSUME NEW row \in Row, NEW sent, NEW environment \in Scopes,
           NEW F \in SUBSET FlagColumns, NEW C \in SUBSET ConfigColumns,
           \A c \in F \union C : sent[c] \in Column,
           environment = None => C = {}
    PROVE  WrittenAs(Written(row, F, environment, C, sent), row, F, environment, C, sent)
<1> DEFINE flag == Assign(row.flag, F, sent)
           config == [e \in Environments |-> IF e = environment THEN Assign(row.config[e], C, sent)
                                             ELSE row.config[e]]
<1>1. /\ row.type \in FlagType /\ row.flag \in [FlagColumns -> Column]
      /\ row.config \in [Environments -> [ConfigColumns -> Column]]
  BY DEF Row
<1>2. /\ flag \in [FlagColumns -> Column]
      /\ \A c \in F : flag[c] = sent[c]
      /\ \A c \in FlagColumns \ F : flag[c] = row.flag[c]
  <2>1. \A c \in F : sent[c] \in Column
    OBVIOUS
  <2>2. ASSUME NEW entity \in [FlagColumns -> Column]
        PROVE  /\ Assign(entity, F, sent) \in [FlagColumns -> Column]
               /\ \A c \in F : Assign(entity, F, sent)[c] = sent[c]
               /\ \A c \in FlagColumns \ F : Assign(entity, F, sent)[c] = entity[c]
    BY <2>1, AssignTypes
  <2> QED
    BY <1>1, <2>2
<1>3. ASSUME NEW e \in Environments
      PROVE  /\ Assign(row.config[e], C, sent) \in [ConfigColumns -> Column]
             /\ \A c \in C : Assign(row.config[e], C, sent)[c] = sent[c]
             /\ \A c \in ConfigColumns \ C : Assign(row.config[e], C, sent)[c] = row.config[e][c]
  <2>1. row.config[e] \in [ConfigColumns -> Column]
    BY <1>1
  <2>2. \A c \in C : sent[c] \in Column
    OBVIOUS
  <2>3. ASSUME NEW entity \in [ConfigColumns -> Column]
        PROVE  /\ Assign(entity, C, sent) \in [ConfigColumns -> Column]
               /\ \A c \in C : Assign(entity, C, sent)[c] = sent[c]
               /\ \A c \in ConfigColumns \ C : Assign(entity, C, sent)[c] = entity[c]
    BY <2>2, AssignTypes
  <2> QED
    BY <2>1, <2>3
<1>4. config \in [Environments -> [ConfigColumns -> Column]]
  BY <1>1, <1>3
<1>5. Written(row, F, environment, C, sent) = [type |-> row.type, flag |-> flag, config |-> config]
  BY DEF Written
<1>6. environment # None => environment \in Environments
  BY DEF Scopes
<1>7. /\ \A c \in C : config[environment][c] = sent[c]
      /\ \A e \in Environments : \A c \in ConfigColumns :
             e # environment \/ c \notin C => config[e][c] = row.config[e][c]
  BY <1>3, <1>6
<1> HIDE DEF flag, config
<1> QED
  BY <1>1, <1>2, <1>4, <1>5, <1>7 DEF Row, WrittenAs

----------------------------------------------------------------------------
(* Steps that leave the tables alone.                                      *)

(* A free slot is told apart from every request.                           *)
LEMMA IdleIsNotActive == Idle.pc = "idle" /\ Idle \notin Active
BY DEF Idle, Active

(* A step that leaves both tables alone keeps what is invariant about      *)
(* them, also when the clock moves on.                                     *)
LEMMA TablesKept ==
    ASSUME IInv, flags' = flags, audit' = audit, clock' \in Nat, clock <= clock',
           clock' <= MaxRequests
    PROVE  /\ Table' /\ Trail' /\ History'
           /\ ValuesMatchType' /\ AuditReplays' /\ CreatedOnce'
<1>1. Table'
  BY StoreAssumption DEF IInv, Table
<1>2. Trail'
  BY DEF IInv, Table, Trail, Sound
<1>3. History'
  BY DEF IInv, History
<1>4. ValuesMatchType'
  BY DEF IInv, ValuesMatchType
<1>5. AuditReplays'
  BY DEF IInv, AuditReplays, Naming, Stored
<1>6. CreatedOnce'
  BY DEF IInv, CreatedOnce
<1> QED
  BY <1>1, <1>2, <1>3, <1>4, <1>5, <1>6

(* Request r is the only one whose slot changes.                           *)
OnlySlot(r) ==
    /\ req' \in [Requests -> Active \union {Idle}]
    /\ \A s \in Requests : s # r => req'[s] = req[s]

(* Writing a slot writes that slot only.                                   *)
LEMMA SlotWritten ==
    ASSUME IInv, NEW r \in Requests, NEW q \in Active \union {Idle},
           req' = [req EXCEPT ![r] = q]
    PROVE  OnlySlot(r) /\ req'[r] = q
BY DEF IInv, InFlight, OnlySlot

(* A slot that is freed or whose request is in order keeps every slot in   *)
(* order.                                                                  *)
LEMMA SlotKept ==
    ASSUME IInv, NEW r \in Requests, OnlySlot(r),
           req'[r] = Idle \/ Handling(req'[r], clock'),
           clock' \in Nat, clock <= clock'
    PROVE  InFlight'
<1>1. ASSUME NEW s \in Requests, req'[s] # Idle
      PROVE  Handling(req'[s], clock')
  <2>1. CASE s = r
    BY <1>1, <2>1
  <2>2. CASE s # r
    <3>1. req'[s] = req[s] /\ Handling(req[s], clock)
      BY <1>1, <2>2 DEF IInv, InFlight, OnlySlot
    <3> QED
      BY <3>1 DEF Handling, IInv, Table
  <2> QED
    BY <2>1, <2>2
<1> QED
  BY <1>1 DEF InFlight, OnlySlot

(* A slot that is freed, or that moves on to a row it may rely on.         *)
LEMMA StepKeepsInvariant ==
    ASSUME IInv, NEW r \in Requests, OnlySlot(r),
           req'[r] = Idle \/ Handling(req'[r], clock'),
           flags' = flags, audit' = audit,
           clock' \in Nat, clock <= clock', clock' <= MaxRequests,
           req'[r].pc \in {"configs", "commit"} => flags[req'[r].key] # None,
           req'[r].pc = "seed" =>
               /\ flags[req'[r].key] = None
               /\ \A s \in Requests : req[s].pc = "seed" => req[s].key # req'[r].key
    PROVE  IInv'
<1>1. InFlight'
  BY SlotKept
<1>2. Rows'
  BY DEF IInv, Rows, OnlySlot
<1> QED
  BY <1>1, <1>2, TablesKept DEF IInv

(* The start of a transaction keeps the invariant.                         *)
LEMMA BeginStep ==
    ASSUME IInv, NEW r \in Requests, Arrive(r)
    PROVE  IInv'
<1>1. clock \in Nat /\ MaxRequests \in Nat
  BY StoreAssumption DEF IInv, Table
<1>2. ASSUME NEW op \in {"create", "update", "archive"}, NEW k \in Keys,
             NEW payload \in Creates \union Updates \union {None},
             Begin(r, op, k, payload),
             op = "create" => /\ payload \in Creates
                              /\ value_matches_type(payload.sent["default_value"], payload.type),
             op = "update" => payload \in Updates
      PROVE  IInv'
  <2> DEFINE q == [pc |-> op, op |-> op, key |-> k, payload |-> payload,
                   started |-> clock + 1, flag |-> None, config |-> None]
  <2>1. /\ req' = [req EXCEPT ![r] = q] /\ flags' = flags /\ audit' = audit
        /\ clock' = clock + 1 /\ clock < MaxRequests
    BY <1>2 DEF Begin
  <2>2. Handling(q, clock')
    BY <1>1, <1>2, <2>1 DEF Handling, Active
  <2>3. q.pc \notin {"configs", "commit", "seed"}
    OBVIOUS
  <2>4. q \in Active
    BY <2>2 DEF Handling
  <2> HIDE DEF q
  <2>5. OnlySlot(r) /\ req'[r] = q
    BY <2>1, <2>4, SlotWritten
  <2> QED
    BY <1>1, <2>1, <2>2, <2>3, <2>5, StepKeepsInvariant
<1>3. PICK k \in Keys : \/ \E p \in Creates : BeginCreate(r, k, p)
                        \/ \E p \in Updates : BeginUpdate(r, k, p)
                        \/ BeginArchive(r, k)
  BY DEF Arrive
<1>4. CASE \E p \in Creates : BeginCreate(r, k, p)
  BY <1>2, <1>4 DEF BeginCreate
<1>5. CASE \E p \in Updates : BeginUpdate(r, k, p)
  BY <1>2, <1>5 DEF BeginUpdate
<1>6. CASE BeginArchive(r, k)
  BY <1>2, <1>6 DEF BeginArchive
<1> QED
  BY <1>3, <1>4, <1>5, <1>6

(* The request is answered and its transaction rolled back.                *)
LEMMA FinishStep ==
    ASSUME IInv, NEW r \in Requests, Finish(r), UNCHANGED <<flags, audit, clock>>
    PROVE  IInv'
<1>1. clock \in Nat /\ clock <= MaxRequests
  BY StoreAssumption DEF IInv, Table
<1>2. Idle.pc = "idle"
  BY IdleIsNotActive
<1>3. req' = [req EXCEPT ![r] = Idle]
  BY DEF Finish
<1>4. OnlySlot(r) /\ req'[r] = Idle
  BY <1>3, SlotWritten
<1> QED
  BY <1>1, <1>2, <1>4, StepKeepsInvariant

(* db.flush() keeps the invariant: the key is claimed by nobody else and   *)
(* has no committed row, or the request ends.                              *)
LEMMA FlushStep ==
    ASSUME IInv, NEW r \in Requests, Flush(r)
    PROVE  IInv'
<1>1. CASE flags[req[r].key] # None
  BY <1>1, FinishStep DEF Flush
<1>2. CASE flags[req[r].key] = None
  <2> DEFINE q == [req[r] EXCEPT !.pc = "seed"]
  <2>1. /\ req' = [req EXCEPT ![r] = q] /\ flags' = flags /\ audit' = audit /\ clock' = clock
        /\ req[r].pc = "create" /\ ~Claimed(req[r].key)
    BY <1>2 DEF Flush
  <2>2. req[r] \in Active /\ Handling(req[r], clock)
    BY <2>1, IdleIsNotActive DEF IInv, InFlight
  <2>3. Handling(q, clock') /\ q.pc = "seed" /\ q.key = req[r].key
    BY <2>1, <2>2 DEF Handling, Active
  <2>4. clock \in Nat /\ clock <= MaxRequests
    BY StoreAssumption DEF IInv, Table
  <2>5. q \in Active
    BY <2>3 DEF Handling
  <2> HIDE DEF q
  <2>6. OnlySlot(r) /\ req'[r] = q
    BY <2>1, <2>5, SlotWritten
  <2>7. \A s \in Requests : req[s].pc = "seed" => req[s].key # q.key
    BY <2>1, <2>3 DEF Claimed
  <2> QED
    BY <1>2, <2>1, <2>3, <2>4, <2>6, <2>7, StepKeepsInvariant
<1> QED
  BY <1>1, <1>2

(* The SELECT of the flag row keeps the invariant.                         *)
LEMMA ReadFlagStep ==
    ASSUME IInv, NEW r \in Requests, ReadFlag(r)
    PROVE  IInv'
<1> DEFINE row == flags[req[r].key]
<1>1. CASE row = None
  BY <1>1, FinishStep DEF ReadFlag
<1>2. CASE row # None
  <2> DEFINE q == [req[r] EXCEPT !.pc = "configs", !.flag = row.flag]
  <2>1. /\ req' = [req EXCEPT ![r] = q] /\ flags' = flags /\ audit' = audit /\ clock' = clock
        /\ req[r].pc \in {"update", "archive"}
    BY <1>2 DEF ReadFlag
  <2>2. req[r] \in Active /\ Handling(req[r], clock)
    BY <2>1, IdleIsNotActive DEF IInv, InFlight
  <2>3. row.flag \in [FlagColumns -> Column] /\ row.flag # None
    BY <1>2, <2>2, RowAssumption DEF IInv, Table, Row, Active
  <2>4. Handling(q, clock') /\ q.pc = "configs" /\ q.key = req[r].key
    BY <2>1, <2>2, <2>3 DEF Handling, Active
  <2>5. clock \in Nat /\ clock <= MaxRequests
    BY StoreAssumption DEF IInv, Table
  <2>6. q \in Active
    BY <2>4 DEF Handling
  <2> HIDE DEF q
  <2>7. OnlySlot(r) /\ req'[r] = q
    BY <2>1, <2>6, SlotWritten
  <2> QED
    BY <1>2, <2>1, <2>4, <2>5, <2>7, StepKeepsInvariant
<1> QED
  BY <1>1, <1>2

(* The SELECT of the configs keeps the invariant.                          *)
LEMMA ReadConfigsStep ==
    ASSUME IInv, NEW r \in Requests, ReadConfigs(r)
    PROVE  IInv'
<1>1. req[r].pc = "configs" /\ flags' = flags /\ audit' = audit /\ clock' = clock
  BY DEF ReadConfigs
<1>2. /\ req[r] \in Active /\ Handling(req[r], clock)
      /\ req[r].key \in Keys /\ flags[req[r].key] # None
  BY <1>1, IdleIsNotActive DEF IInv, InFlight, Rows, Active
<1>3. clock \in Nat /\ clock <= MaxRequests
  BY StoreAssumption DEF IInv, Table
<1>4. ASSUME NEW config \in [ConfigColumns -> Column] \union {None},
             req' = [req EXCEPT ![r] = [req[r] EXCEPT !.pc = "commit", !.config = config]],
             req[r].op = "update" /\ req[r].payload.environment # None =>
                 config \in [ConfigColumns -> Column]
      PROVE  IInv'
  <2> DEFINE q == [req[r] EXCEPT !.pc = "commit", !.config = config]
  <2>1. Handling(q, clock') /\ q.pc = "commit" /\ q.key = req[r].key
    BY <1>1, <1>2, <1>4 DEF Handling, Active
  <2>2. req' = [req EXCEPT ![r] = q]
    BY <1>4
  <2>3. q \in Active
    BY <2>1 DEF Handling
  <2> HIDE DEF q
  <2>4. OnlySlot(r) /\ req'[r] = q
    BY <2>2, <2>3, SlotWritten
  <2> QED
    BY <1>1, <1>2, <1>3, <2>1, <2>4, StepKeepsInvariant
<1>5. CASE req[r].op = "update"
  <2> DEFINE e == req[r].payload.environment
             config == IF e = None THEN None ELSE flags[req[r].key].config[e]
  <2>1. e \in Scopes
    BY <1>2, <1>5, StoreAssumption DEF Handling, IsFlagUpdate, Scopes
  <2>2. flags[req[r].key].config \in [Environments -> [ConfigColumns -> Column]]
    BY <1>2 DEF IInv, Table, Row
  <2>3. config \in [ConfigColumns -> Column] \union {None} /\ (e # None => config \in [ConfigColumns -> Column])
    BY <2>1, <2>2 DEF Scopes
  <2>4. req' = [req EXCEPT ![r] = [req[r] EXCEPT !.pc = "commit", !.config = config]]
    BY <1>5 DEF ReadConfigs
  <2> QED
    BY <1>4, <2>3, <2>4
<1>6. CASE req[r].op = "archive" /\ req[r].flag["archived_at"] = None
  <2>1. req' = [req EXCEPT ![r] = [req[r] EXCEPT !.pc = "commit"]]
    BY <1>6 DEF ReadConfigs
  <2>2. [req[r] EXCEPT !.pc = "commit"] = [req[r] EXCEPT !.pc = "commit", !.config = req[r].config]
    BY <1>2 DEF Active
  <2>3. req[r].config \in [ConfigColumns -> Column] \union {None}
    BY <1>2 DEF Active
  <2> QED
    BY <1>4, <1>6, <2>1, <2>2, <2>3
<1>7. CASE Finish(r)
  BY <1>1, <1>7, FinishStep
<1> QED
  BY <1>5, <1>6, <1>7 DEF ReadConfigs

----------------------------------------------------------------------------
(* Commits.                                                                *)

Names(a, e, c) == a.environment = e /\ c \in DOMAIN a.new_value

(* What a transaction must have written to keep rows and trail together:   *)
(* the columns its records name hold what the records say, the others are  *)
(* untouched, and the first record of a flag is its creation.              *)
Commits(k, row, records) ==
    /\ row \in Row
    /\ HasType(row.flag["default_value"], row.type)
    /\ \A e \in Environments : HasType(row.config[e]["value"], row.type)
    /\ records \in Seq(AuditRow)
    /\ \A i \in 1..Len(records) : Sound(records[i], clock) /\ records[i].key = k
    /\ \A e \in Scopes : \A c \in ColumnsOf(e) : \A i \in 1..Len(records) :
            Names(records[i], e, c) => Cell(row, e, c) = records[i].new_value[c]
    /\ flags[k] = None =>
            /\ Len(records) = 1 /\ records[1].action = "flag.created"
            /\ \A e \in Environments : row.config[e]["enabled"] = Bool(0)
    /\ flags[k] # None =>
            /\ \A i \in 1..Len(records) : records[i].action # "flag.created"
            /\ \A e \in Scopes : \A c \in ColumnsOf(e) :
                    (\A i \in 1..Len(records) : ~Names(records[i], e, c)) =>
                        Cell(row, e, c) = Cell(flags[k], e, c)

(* The row of k is replaced, and records are added to the trail.           *)
Writes(k, row, records) ==
    /\ flags' \in [Keys -> Row \union {None}]
    /\ flags'[k] = row
    /\ \A other \in Keys : other # k => flags'[other] = flags[other]
    /\ audit' = audit \o records

(* A commit adds its records after those that are there, by position.      *)
LEMMA TrailExtends ==
    ASSUME IInv, NEW k \in Keys, NEW row, NEW records,
           Commits(k, row, records), Writes(k, row, records)
    PROVE  /\ audit' \in Seq(AuditRow)
           /\ Len(audit) \in Nat /\ Len(records) \in Nat
           /\ DOMAIN audit = 1..Len(audit)
           /\ DOMAIN audit' = 1..(Len(audit) + Len(records))
           /\ \A i \in 1..Len(audit) : audit'[i] = audit[i]
           /\ \A i \in 1..Len(records) : audit'[Len(audit) + i] = records[i]
           /\ \A i \in DOMAIN audit' : \/ i \in DOMAIN audit
                                       \/ \E j \in 1..Len(records) : i = Len(audit) + j
<1>1. audit \in Seq(AuditRow) /\ records \in Seq(AuditRow) /\ audit' = audit \o records
  BY DEF IInv, Trail, Commits, Writes
<1>2. Len(audit) \in Nat /\ Len(records) \in Nat
  BY <1>1
<1>3. /\ audit' \in Seq(AuditRow)
      /\ DOMAIN audit = 1..Len(audit)
      /\ DOMAIN audit' = 1..(Len(audit) + Len(records))
      /\ \A i \in 1..Len(audit) : audit'[i] = audit[i]
      /\ \A i \in 1..Len(records) : audit'[Len(audit) + i] = records[i]
  BY <1>1, Concatenation
<1>4. ASSUME NEW i \in DOMAIN audit', i \notin DOMAIN audit
      PROVE  \E j \in 1..Len(records) : i = Len(audit) + j
  <2>1. i - Len(audit) \in 1..Len(records) /\ i = Len(audit) + (i - Len(audit))
    BY <1>2, <1>3, <1>4
  <2> QED
    BY <2>1
<1> QED
  BY <1>2, <1>3, <1>4

(* After a commit the trail is well formed, a flag exists iff it has a     *)
(* history, and its creation is the first record.                          *)
LEMMA CommitKeepsTrail ==
    ASSUME IInv, NEW k \in Keys, NEW row, NEW records,
           Commits(k, row, records), Writes(k, row, records), clock' = clock
    PROVE  Trail' /\ History' /\ CreatedOnce'
<1> USE TrailExtends
<1>1. \A i \in 1..Len(records) :
          records[i].key = k /\ Sound(records[i], clock)
  BY DEF Commits
<1>2. Trail'
  <2>1. ASSUME NEW i \in DOMAIN audit'
        PROVE  Sound(audit'[i], clock)
    BY <1>1 DEF IInv, Trail
  <2> QED
    BY <2>1 DEF Trail
<1>3. row # None
  BY RowAssumption DEF Commits
<1>4. History'
  <2>1. ASSUME NEW other \in Keys, other # k
        PROVE  flags'[other] # None <=> \E i \in DOMAIN audit' : audit'[i].key = other
    <3>1. (\E i \in DOMAIN audit' : audit'[i].key = other)
             <=> \E i \in DOMAIN audit : audit[i].key = other
      <4>1. ASSUME NEW i \in DOMAIN audit', audit'[i].key = other
            PROVE  i \in DOMAIN audit /\ audit[i].key = other
        BY <1>1, <2>1, <4>1, SMTT(30)
      <4>2. ASSUME NEW i \in DOMAIN audit, audit[i].key = other
            PROVE  i \in DOMAIN audit' /\ audit'[i].key = other
        BY <4>2
      <4> QED
        BY <4>1, <4>2
    <3> QED
      BY <2>1, <3>1 DEF IInv, History, Writes
  <2>2. \E i \in DOMAIN audit' : audit'[i].key = k
    <3>1. CASE flags[k] = None
      <4>1. 1 \in 1..Len(records)
        BY <3>1 DEF Commits
      <4>2. Len(audit) + 1 \in DOMAIN audit' /\ audit'[Len(audit) + 1].key = k
        BY <1>1, <4>1
      <4> QED
        BY <4>2
    <3>2. CASE flags[k] # None
      <4>1. PICK i \in DOMAIN audit : audit[i].key = k
        BY <3>2 DEF IInv, History
      <4> QED
        BY <4>1
    <3> QED
      BY <3>1, <3>2
  <2>3. flags'[k] # None
    BY <1>3 DEF Writes
  <2> QED
    BY <2>1, <2>2, <2>3 DEF History
<1>5. CreatedOnce'
  <2>1. ASSUME NEW i \in DOMAIN audit'
        PROVE  audit'[i].action = "flag.created"
                  <=> ~ \E j \in 1..(i - 1) : audit'[j].key = audit'[i].key
    <3>1. CASE i \in DOMAIN audit
      <4>1. \A j \in 1..(i - 1) : j \in DOMAIN audit /\ audit'[j] = audit[j]
        BY <3>1, SMTT(30)
      <4>2. audit'[i] = audit[i]
        BY <3>1
      <4>3. audit[i].action = "flag.created"
               <=> ~ \E j \in 1..(i - 1) : audit[j].key = audit[i].key
        BY <3>1 DEF IInv, CreatedOnce
      <4> QED
        BY <4>1, <4>2, <4>3
    <3>2. CASE i \notin DOMAIN audit
      <4>1. PICK n \in 1..Len(records) : i = Len(audit) + n
        BY <3>2
      <4>2. audit'[i] = records[n] /\ audit'[i].key = k
        BY <1>1, <4>1
      <4>3. CASE flags[k] = None
        <5>4. Len(records) = 1 /\ records[1].action = "flag.created"
          BY <4>3 DEF Commits
        <5>1. n = 1 /\ audit'[i].action = "flag.created"
          BY <4>1, <4>2, <5>4
        <5>2. \A j \in 1..(i - 1) : j \in DOMAIN audit /\ audit'[j] = audit[j]
          BY <4>1, <5>1
        <5>3. \A j \in DOMAIN audit : audit[j].key # k
          BY <4>3 DEF IInv, History
        <5> QED
          BY <4>2, <5>1, <5>2, <5>3
      <4>4. CASE flags[k] # None
        <5>1. audit'[i].action # "flag.created"
          BY <4>1, <4>2, <4>4 DEF Commits
        <5>2. PICK j \in DOMAIN audit : audit[j].key = k
          BY <4>4 DEF IInv, History
        <5>3. j \in 1..(i - 1) /\ audit'[j].key = k
          BY <4>1, <5>2
        <5> QED
          BY <4>2, <5>1, <5>3
      <4> QED
        BY <4>3, <4>4
    <3> QED
      BY <3>1, <3>2
  <2> QED
    BY <2>1 DEF CreatedOnce
<1> QED
  BY <1>2, <1>4, <1>5

(* The records that name a column after a commit: those of before, and the *)
(* new ones of the flag.                                                   *)
LEMMA NamingExtends ==
    ASSUME IInv, NEW k \in Keys, NEW row, NEW records,
           Commits(k, row, records), Writes(k, row, records),
           NEW other \in Keys, NEW e \in Scopes, NEW c
    PROVE  /\ \A i \in DOMAIN audit : i \in Naming(other, e, c)' <=> i \in Naming(other, e, c)
           /\ \A n \in 1..Len(records) :
                  Len(audit) + n \in Naming(other, e, c)' <=> other = k /\ Names(records[n], e, c)
           /\ \A i \in Naming(other, e, c)' : i \in DOMAIN audit'
           /\ \A i \in Naming(other, e, c) : i \in DOMAIN audit
<1>1. \A i \in 1..Len(records) : records[i].key = k
  BY DEF Commits
<1>2. \A i \in DOMAIN audit : i \in DOMAIN audit' /\ audit'[i] = audit[i]
  BY TrailExtends
<1>3. \A n \in 1..Len(records) : Len(audit) + n \in DOMAIN audit' /\ audit'[Len(audit) + n] = records[n]
  BY TrailExtends
<1>4. \A i : i \in Naming(other, e, c)' <=>
          /\ i \in DOMAIN audit' /\ audit'[i].key = other /\ audit'[i].environment = e
          /\ c \in DOMAIN audit'[i].new_value
  BY DEF Naming
<1>5. \A i : i \in Naming(other, e, c) <=>
          /\ i \in DOMAIN audit /\ audit[i].key = other /\ audit[i].environment = e
          /\ c \in DOMAIN audit[i].new_value
  BY DEF Naming
<1>6. \A i \in DOMAIN audit : i \in Naming(other, e, c)' <=> i \in Naming(other, e, c)
  BY <1>2, <1>4, <1>5
<1>7. \A n \in 1..Len(records) :
          Len(audit) + n \in Naming(other, e, c)' <=> other = k /\ Names(records[n], e, c)
  BY <1>1, <1>3, <1>4 DEF Names
<1> QED
  BY <1>4, <1>5, <1>6, <1>7

(* After a commit the trail replays to what is stored, whatever the        *)
(* transaction had read before.                                            *)
LEMMA CommitKeepsReplay ==
    ASSUME IInv, NEW k \in Keys, NEW row, NEW records,
           Commits(k, row, records), Writes(k, row, records)
    PROVE  AuditReplays'
<1>1. SUFFICES ASSUME NEW other \in Keys, NEW e \in Scopes, flags'[other] # None
               PROVE  /\ \A c \in ColumnsOf(e) : \A i \in Naming(other, e, c)' :
                            (\A j \in Naming(other, e, c)' : j <= i) =>
                                Stored(other, e, c)' = audit'[i].new_value[c]
                      /\ e # None /\ Naming(other, e, "enabled")' = {} =>
                            Stored(other, e, "enabled")' = Bool(0)
  BY DEF AuditReplays
<1>2. \A c : Stored(other, e, c)' = Cell(flags'[other], e, c) /\ Stored(other, e, c) = Cell(flags[other], e, c)
  BY DEF Stored, Cell
<1>3. /\ \A i \in DOMAIN audit : audit'[i] = audit[i]
      /\ \A n \in 1..Len(records) : audit'[Len(audit) + n] = records[n]
      /\ DOMAIN audit = 1..Len(audit) /\ Len(audit) \in Nat /\ Len(records) \in Nat
      /\ \A i \in DOMAIN audit' : \/ i \in DOMAIN audit
                                  \/ \E n \in 1..Len(records) : i = Len(audit) + n
  BY TrailExtends
<1>4. \A c : /\ \A i \in DOMAIN audit : i \in Naming(other, e, c)' <=> i \in Naming(other, e, c)
             /\ \A n \in 1..Len(records) :
                   Len(audit) + n \in Naming(other, e, c)' <=> other = k /\ Names(records[n], e, c)
             /\ \A i \in Naming(other, e, c)' : i \in DOMAIN audit'
             /\ \A i \in Naming(other, e, c) : i \in DOMAIN audit
  BY NamingExtends
<1>5. flags[other] # None =>
        /\ \A c \in ColumnsOf(e) : \A i \in Naming(other, e, c) :
                (\A j \in Naming(other, e, c) : j <= i) =>
                    Stored(other, e, c) = audit[i].new_value[c]
        /\ e # None /\ Naming(other, e, "enabled") = {} => Stored(other, e, "enabled") = Bool(0)
  BY DEF IInv, AuditReplays
<1>6. e # None => "enabled" \in ColumnsOf(e) /\ e \in Environments
  BY DEF ColumnsOf, ConfigColumns, Scopes
<1>7. CASE other # k
  <2>1. flags'[other] = flags[other]
    BY <1>7 DEF Writes
  <2>2. ASSUME NEW c
        PROVE  Naming(other, e, c)' = Naming(other, e, c)
    <3>1. \A i : i \in Naming(other, e, c)' <=> i \in Naming(other, e, c)
      <4>1. \A i \in Naming(other, e, c)' : i \in DOMAIN audit
        BY <1>3, <1>4, <1>7
      <4> QED
        BY <1>4, <4>1
    <3> HIDE DEF Naming
    <3> QED
      BY <3>1
  <2>3. \A c : \A i \in Naming(other, e, c) : audit'[i] = audit[i]
    BY <1>3, <1>4
  <2> QED
    BY <1>1, <1>2, <1>5, <2>1, <2>2, <2>3
<1>8. CASE other = k
  <2>1. flags'[k] = row
    BY DEF Writes
  <2>2. flags[k] = None => \A c : Naming(k, e, c) = {}
    BY <1>4, <1>8 DEF IInv, History, Naming
  <2>3. ASSUME NEW c \in ColumnsOf(e), NEW i \in Naming(k, e, c)',
               \A j \in Naming(k, e, c)' : j <= i
        PROVE  Cell(row, e, c) = audit'[i].new_value[c]
    <3>1. CASE i \in DOMAIN audit
      <4>1. i \in Naming(k, e, c) /\ audit'[i] = audit[i]
        BY <1>3, <1>4, <1>8, <2>3, <3>1
      <4>2. flags[k] # None
        BY <2>2, <4>1
      <4>3. \A n \in 1..Len(records) : ~Names(records[n], e, c)
        <5>1. \A n \in 1..Len(records) : Len(audit) + n > i
          BY <1>3, <3>1
        <5> QED
          BY <1>3, <1>4, <1>8, <2>3, <3>1, <5>1
      <4>4. Cell(row, e, c) = Cell(flags[k], e, c)
        BY <2>3, <4>2, <4>3 DEF Commits
      <4>5. \A j \in Naming(k, e, c) : j <= i
        BY <1>4, <1>8, <2>3
      <4> QED
        BY <1>2, <1>5, <1>8, <2>3, <4>1, <4>2, <4>4, <4>5
    <3>2. CASE i \notin DOMAIN audit
      <4>1. PICK n \in 1..Len(records) : i = Len(audit) + n
        BY <1>3, <1>4, <1>8, <2>3, <3>2
      <4>2. Names(records[n], e, c) /\ audit'[i] = records[n]
        BY <1>3, <1>4, <1>8, <2>3, <4>1
      <4>3. Cell(row, e, c) = records[n].new_value[c]
        BY <2>3, <4>2 DEF Commits
      <4> QED
        BY <4>2, <4>3
    <3> QED
      BY <3>1, <3>2
  <2>4. ASSUME e # None, Naming(k, e, "enabled")' = {}
        PROVE  Cell(row, e, "enabled") = Bool(0)
    <3>1. CASE flags[k] = None
      <4>1. row.config[e]["enabled"] = Bool(0)
        BY <1>6, <2>4, <3>1 DEF Commits
      <4> QED
        BY <2>4, <4>1 DEF Cell
    <3>2. CASE flags[k] # None
      <4>1. Naming(k, e, "enabled") = {}
        BY <1>4, <1>8, <2>4
      <4>2. \A n \in 1..Len(records) : ~Names(records[n], e, "enabled")
        BY <1>4, <1>8, <2>4
      <4>3. Cell(row, e, "enabled") = Cell(flags[k], e, "enabled")
        BY <1>6, <2>4, <3>2, <4>2 DEF Commits
      <4> QED
        BY <1>2, <1>5, <1>8, <2>4, <3>2, <4>1, <4>3
    <3> QED
      BY <3>1, <3>2
  <2> QED
    BY <1>2, <1>8, <2>1, <2>3, <2>4
<1> QED
  BY <1>7, <1>8

(* A commit that writes what its records say keeps the invariant.          *)
LEMMA CommitKeepsInvariant ==
    ASSUME IInv, NEW r \in Requests, NEW k \in Keys, NEW row, NEW records,
           Commits(k, row, records), Writes(k, row, records),
           req[r] # Idle, req[r].key = k, flags[k] = None => req[r].pc = "seed",
           Finish(r), clock' = clock
    PROVE  IInv'
<1>1. OnlySlot(r) /\ req'[r] = Idle
  BY SlotWritten DEF Finish
<1>2. InFlight'
  <2>1. clock \in Nat
    BY StoreAssumption DEF IInv, Table
  <2> QED
    BY <1>1, <2>1, SlotKept
<1>3. Trail' /\ History' /\ CreatedOnce'
  BY CommitKeepsTrail
<1>4. AuditReplays'
  BY CommitKeepsReplay
<1>5. Table'
  BY DEF IInv, Table, Writes
<1>6. ValuesMatchType'
  <2>1. ASSUME NEW other \in Keys, flags'[other] # None
        PROVE  /\ HasType(flags'[other].flag["default_value"], flags'[other].type)
               /\ \A e \in Environments :
                     HasType(flags'[other].config[e]["value"], flags'[other].type)
    <3>1. CASE other = k
      BY <3>1 DEF Commits, Writes
    <3>2. CASE other # k
      BY <2>1, <3>2 DEF IInv, ValuesMatchType, Writes
    <3> QED
      BY <3>1, <3>2
  <2> QED
    BY <2>1 DEF ValuesMatchType
<1>7. Rows'
  <2>1. row # None /\ flags'[k] = row
    BY RowAssumption DEF Commits, Writes
  <2>2. \A other \in Keys : flags[other] # None => flags'[other] # None
    BY <2>1 DEF Writes
  <2>3. \A s \in Requests : req'[s].pc # "idle" =>
            s # r /\ req'[s] = req[s] /\ req[s].key \in Keys
    <3>1. ASSUME NEW s \in Requests, req'[s].pc # "idle"
          PROVE  s # r /\ req'[s] = req[s] /\ req[s].key \in Keys
      <4>1. s # r /\ req'[s] = req[s]
        BY <1>1, <3>1, IdleIsNotActive DEF OnlySlot
      <4>2. req[s] \in Active
        BY <3>1, <4>1, IdleIsNotActive DEF IInv, InFlight
      <4> QED
        BY <4>1, <4>2 DEF Active
    <3> QED
      BY <3>1
  <2>4. \A s \in Requests : s # r /\ req[s].pc = "seed" => req[s].key # k
    BY DEF IInv, Rows
  <2>5. \A s \in Requests : req'[s].pc \in {"configs", "commit"} => flags'[req'[s].key] # None
    BY <2>2, <2>3 DEF IInv, Rows
  <2>6. \A s \in Requests : req'[s].pc = "seed" => flags'[req'[s].key] = None
    BY <2>3, <2>4 DEF IInv, Rows, Writes
  <2>7. \A s, t \in Requests :
            req'[s].pc = "seed" /\ req'[t].pc = "seed" /\ req'[s].key = req'[t].key => s = t
    BY <2>3 DEF IInv, Rows
  <2> QED
    BY <2>5, <2>6, <2>7 DEF Rows
<1> QED
  BY <1>2, <1>3, <1>4, <1>5, <1>6, <1>7 DEF IInv

----------------------------------------------------------------------------
(* The three handlers commit in this way.                                  *)

Actions == {"flag.created", "flag.updated", "config.updated", "flag.archived"}

(* A record of a change to some columns of one scope is well formed.       *)
LEMMA RecordIsSound ==
    ASSUME NEW q \in Active, q.started \in 1..clock, clock \in Nat,
           NEW e \in Scopes, NEW action \in Actions,
           NEW T \in SUBSET ColumnsOf(e), NEW S \in SUBSET T,
           NEW old \in [S -> Column], NEW new \in [T -> Column]
    PROVE  Sound(Record(q, e, action, old, new), clock)
<1>1. ColumnsOf(e) \subseteq FlagColumns \union ConfigColumns
  BY DEF ColumnsOf
<1>2. old \in Change /\ new \in Change /\ DOMAIN old = S /\ DOMAIN new = T
  BY <1>1, PartialMaps
<1>3. q.key \in Keys /\ q.started \in Nat
  BY DEF Active
<1>4. Record(q, e, action, old, new) =
          [key |-> q.key, environment |-> e, action |-> action,
           old_value |-> old, new_value |-> new, created_at |-> q.started]
  BY DEF Record
<1> QED
  BY <1>2, <1>3, <1>4 DEF Sound, AuditRow, Actions

(* The record of one scope of a PUT, if there is one.                      *)
RecordedAs(records, q, e, action, changes) ==
    /\ records \in Seq(AuditRow)
    /\ changes # {} => Len(records) = 1
    /\ \A i \in 1..Len(records) :
            /\ Sound(records[i], clock) /\ records[i].key = q.key
            /\ records[i].environment = e /\ records[i].action = action
            /\ DOMAIN records[i].new_value = changes
            /\ \A c \in changes : records[i].new_value[c] = q.payload.sent[c]

(* What Recorded adds for one scope: nothing, or one sound record of every *)
(* changed column.                                                         *)
LEMMA RecordedIsSound ==
    ASSUME NEW q \in Active, q.started \in 1..clock, clock \in Nat,
           NEW e \in Scopes, NEW action \in {"flag.updated", "config.updated"},
           NEW changes \in SUBSET ColumnsOf(e), NEW entity,
           \A c \in changes : entity[c] \in Column /\ q.payload.sent[c] \in Column
    PROVE  RecordedAs(Recorded(q, entity, e, action, changes), q, e, action, changes)
<1>1. CASE changes = {}
  BY <1>1 DEF Recorded, RecordedAs
<1>2. CASE changes # {}
  <2> DEFINE old == [c \in changes |-> entity[c]]
             new == [c \in changes |-> q.payload.sent[c]]
             a == Record(q, e, action, old, new)
  <2>1. old \in [changes -> Column] /\ new \in [changes -> Column]
    OBVIOUS
  <2>3. action \in Actions
    BY DEF Actions
  <2>4. /\ a.key = q.key /\ a.environment = e /\ a.action = action
        /\ a.new_value = new
    BY DEF Record
  <2>5. DOMAIN new = changes /\ \A c \in changes : new[c] = q.payload.sent[c]
    OBVIOUS
  <2>6. Recorded(q, entity, e, action, changes) = <<a>>
    BY <1>2 DEF Recorded
  <2> HIDE DEF old, new
  <2>7. Sound(a, clock)
    BY <2>1, <2>3, RecordIsSound
  <2>8. a \in AuditRow
    BY <2>7 DEF Sound
  <2> HIDE DEF a
  <2> QED
    BY <2>4, <2>5, <2>6, <2>7, <2>8 DEF RecordedAs
<1> QED
  BY <1>1, <1>2

(* The commit of create_flag keeps the invariant.                          *)
LEMMA CommitCreateStep ==
    ASSUME IInv, NEW r \in Requests, CommitCreate(r)
    PROVE  IInv'
<1> DEFINE q == req[r]
           p == q.payload
           k == q.key
           new_value == [c \in {"name", "default_value"} |-> p.sent[c]]
           a == Record(q, None, "flag.created", NoColumns, new_value)
           row == NewRow(p)
           records == <<a>>
<1>1. /\ q.pc = "seed" /\ Finish(r) /\ clock' = clock
      /\ flags' = [flags EXCEPT ![k] = row] /\ audit' = audit \o records
  BY DEF CommitCreate
<1>2. q \in Active /\ q # Idle /\ Handling(q, clock) /\ k \in Keys /\ flags[k] = None
  BY <1>1, IdleIsNotActive DEF IInv, InFlight, Rows, Active
<1>3. /\ p \in Creates /\ value_matches_type(p.sent["default_value"], p.type)
      /\ q.started \in 1..clock
  BY <1>1, <1>2 DEF Handling
<1>4. /\ row \in Row
      /\ HasType(row.flag["default_value"], row.type)
      /\ \A e \in Environments : HasType(row.config[e]["value"], row.type)
      /\ \A e \in Environments : row.config[e]["enabled"] = Bool(0)
  BY <1>3, NewRowTypes
<1>5. /\ new_value \in [{"name", "default_value"} -> Column]
      /\ DOMAIN new_value = {"name", "default_value"}
      /\ \A c \in {"name", "default_value"} : new_value[c] = row.flag[c]
  BY <1>3, StoreAssumption DEF FlagCreate, Creatable, FlagColumns, NewRow
<1>6. clock \in Nat /\ None \in Scopes
  BY StoreAssumption DEF IInv, Table, Scopes
<1>7. Sound(a, clock)
  <2>1. NoColumns \in [{} -> Column] /\ {"name", "default_value"} \in SUBSET ColumnsOf(None)
    BY DEF NoColumns, ColumnsOf, FlagColumns
  <2> HIDE DEF q, new_value
  <2> QED
    BY <1>2, <1>3, <1>5, <1>6, <2>1, RecordIsSound DEF Actions
<1>8. /\ a.key = k /\ a.environment = None /\ a.action = "flag.created"
      /\ a.new_value = new_value
  BY DEF Record
<1>9. a \in AuditRow
  BY <1>7 DEF Sound
<1> HIDE DEF a, row, new_value, q, p
<1>10. /\ records \in Seq(AuditRow) /\ Len(records) = 1 /\ records[1] = a
  BY <1>9
<1>11. ASSUME NEW e \in Scopes, NEW c \in ColumnsOf(e), Names(a, e, c)
       PROVE  Cell(row, e, c) = a.new_value[c]
  BY <1>5, <1>8, <1>11 DEF Names, Cell
<1> HIDE DEF records, k
<1>12. Commits(k, row, records)
  BY <1>2, <1>4, <1>7, <1>8, <1>10, <1>11 DEF Commits, k
<1>13. Writes(k, row, records)
  BY <1>1, <1>2, <1>4 DEF Writes, IInv, Table
<1> QED
  BY <1>1, <1>2, <1>12, <1>13, CommitKeepsInvariant DEF q, k

(* The commit of archive_flag keeps the invariant.                         *)
LEMMA CommitArchiveStep ==
    ASSUME IInv, NEW r \in Requests, CommitArchive(r)
    PROVE  IInv'
<1> DEFINE q == req[r]
           k == q.key
           F == {"archived_at"}
           archived == [c \in F |-> String(q.started)]
           old == [c \in F |-> None]
           a == Record(q, None, "flag.archived", old, archived)
           row == Written(flags[k], F, None, {}, archived)
           records == <<a>>
<1>1. /\ q.pc = "commit" /\ q.op = "archive" /\ Finish(r) /\ clock' = clock
      /\ flags' = [flags EXCEPT ![k] = row] /\ audit' = audit \o records
  BY DEF CommitArchive
<1>2. /\ q \in Active /\ q # Idle /\ q.started \in 1..clock /\ q.started \in Nat
      /\ k \in Keys /\ flags[k] # None /\ flags[k] \in Row
  BY <1>1, IdleIsNotActive DEF IInv, InFlight, Rows, Active, Handling, Table
<1>3. clock \in Nat /\ None \in Scopes
  BY StoreAssumption DEF IInv, Table, Scopes
<1>4. String(q.started) \in Column
  BY <1>2, Literals DEF Column
<1>5. /\ archived \in [F -> Column] /\ old \in [F -> Column]
      /\ DOMAIN archived = F /\ \A c \in F : archived[c] \in Column
  BY <1>4 DEF Column
<1>6. F \in SUBSET FlagColumns /\ F \in SUBSET ColumnsOf(None)
  BY DEF FlagColumns, ColumnsOf
<1> HIDE DEF archived, old
<1>7. /\ row \in Row /\ row.type = flags[k].type
      /\ \A c \in F : row.flag[c] = archived[c]
      /\ \A c \in FlagColumns \ F : row.flag[c] = flags[k].flag[c]
      /\ \A e \in Environments : \A c \in ConfigColumns : row.config[e][c] = flags[k].config[e][c]
  <2>1. \A c \in F \union {} : archived[c] \in Column
    BY <1>5
  <2>2. row = Written(flags[k], F, None, {}, archived)
    OBVIOUS
  <2> HIDE DEF F, k, row
  <2>3. F \in SUBSET FlagColumns /\ {} \in SUBSET ConfigColumns
    BY <1>6
  <2>4. WrittenAs(row, flags[k], F, None, {}, archived)
    BY <1>2, <1>3, <2>1, <2>2, <2>3, WrittenRow
  <2> QED
    BY <2>4 DEF WrittenAs
<1>8. Sound(a, clock)
  <2> HIDE DEF F, q
  <2> QED
    BY <1>2, <1>3, <1>5, <1>6, RecordIsSound DEF Actions
<1>9. /\ a.key = k /\ a.environment = None /\ a.action = "flag.archived"
      /\ a.new_value = archived
  BY DEF Record
<1>10. a \in AuditRow
  BY <1>8 DEF Sound
<1> HIDE DEF a, row, q
<1>11. records \in Seq(AuditRow) /\ Len(records) = 1 /\ records[1] = a
  BY <1>10
<1>12. /\ HasType(row.flag["default_value"], row.type)
       /\ \A e \in Environments : HasType(row.config[e]["value"], row.type)
  <2>1. "default_value" \in FlagColumns \ F /\ "value" \in ConfigColumns
    BY DEF FlagColumns, ConfigColumns
  <2> QED
    BY <1>2, <1>7, <2>1 DEF IInv, ValuesMatchType
<1>13. ASSUME NEW e \in Scopes, NEW c \in ColumnsOf(e)
       PROVE  IF Names(a, e, c) THEN Cell(row, e, c) = a.new_value[c]
              ELSE Cell(row, e, c) = Cell(flags[k], e, c)
  <2>1. CASE e = None
    BY <1>5, <1>7, <1>9, <2>1 DEF Names, Cell, ColumnsOf
  <2>2. CASE e # None
    BY <1>7, <1>9, <2>2 DEF Names, Cell, ColumnsOf, Scopes
  <2> QED
    BY <2>1, <2>2
<1> HIDE DEF records, k
<1>14. Commits(k, row, records)
  BY <1>2, <1>7, <1>8, <1>9, <1>11, <1>12, <1>13 DEF Commits
<1>15. Writes(k, row, records)
  BY <1>1, <1>2, <1>7 DEF Writes, IInv, Table
<1> QED
  BY <1>1, <1>2, <1>14, <1>15, CommitKeepsInvariant DEF q, k

(* What a PUT that passes its checks relies on and writes.                 *)
UpdateFacts(q, p, k, F, C) ==
    /\ q \in Active /\ q # Idle /\ q.op = "update" /\ q.started \in 1..clock
    /\ k \in Keys /\ flags[k] # None /\ flags[k] \in Row
    /\ p.environment \in Scopes /\ (p.environment = None => C = {})
    /\ F \in SUBSET FlagColumns /\ C \in SUBSET ConfigColumns
    /\ \A c \in F : /\ c \in DOMAIN p.sent /\ p.sent[c] \in Column
                    /\ q.flag[c] \in Column
    /\ \A c \in C : /\ c \in DOMAIN p.sent /\ p.sent[c] \in Column
                    /\ q.config[c] \in Column
    /\ "default_value" \in F => HasType(p.sent["default_value"], flags[k].type)
    /\ "value" \in C => HasType(p.sent["value"], flags[k].type)
    /\ WrittenAs(Written(flags[k], F, p.environment, C, p.sent),
                 flags[k], F, p.environment, C, p.sent)

(* A PUT that passes its checks writes well-typed values, and only into    *)
(* columns that its body has.                                              *)
LEMMA UpdateWrites ==
    ASSUME IInv, NEW r \in Requests, CommitUpdate(r)
    PROVE  UpdateFacts(req[r], req[r].payload, req[r].key,
                       FlagChanges(req[r]), ConfigChanges(req[r]))
<1> DEFINE q == req[r]
           p == q.payload
           k == q.key
           F == FlagChanges(q)
           C == ConfigChanges(q)
<1>1. /\ q.pc = "commit" /\ q.op = "update"
      /\ ~TypeMismatch(p, flags[k].type)
  BY DEF CommitUpdate
<1>2. /\ q \in Active /\ q # Idle /\ Handling(q, clock) /\ q.started \in 1..clock
      /\ k \in Keys /\ flags[k] # None /\ flags[k] \in Row
  BY <1>1, IdleIsNotActive DEF IInv, InFlight, Rows, Active, Handling, Table
<1>3. p \in Updates /\ IsFlagUpdate(p)
  BY <1>1, <1>2, StoreAssumption DEF Handling
<1>4. /\ p.environment \in Scopes
      /\ \A c \in DOMAIN p.sent : p.sent[c] \in Column
      /\ \A c \in {"default_value", "value"} \intersect DOMAIN p.sent :
            p.sent[c] # None => Len(p.sent[c]) = 1
  BY <1>3 DEF IsFlagUpdate, Scopes
<1>5. F \subseteq FlagSent(p) /\ C \subseteq ConfigSent(p)
  BY DEF FlagChanges, ConfigChanges, drop_unchanged
<1> HIDE DEF F, C
<1>6. /\ FlagSent(p) \subseteq DOMAIN p.sent /\ FlagSent(p) \subseteq FlagColumns
      /\ ConfigSent(p) \subseteq DOMAIN p.sent /\ ConfigSent(p) \subseteq ConfigColumns
      /\ p.environment = None => ConfigSent(p) = {}
  BY DEF FlagSent, ConfigSent
<1>7. q.flag \in [FlagColumns -> Column]
  BY <1>1, <1>2 DEF Handling, Active
<1>8. p.environment # None => q.config \in [ConfigColumns -> Column]
  BY <1>1, <1>2 DEF Handling
<1>10. \A c \in FlagSent(p) \union ConfigSent(p) : c \in {"default_value", "value"} =>
           HasType(p.sent[c], flags[k].type)
  <2>1. \A c \in FlagSent(p) \union ConfigSent(p) : c \in {"default_value", "value"} =>
            value_matches_type(p.sent[c], flags[k].type)
    BY <1>1 DEF TypeMismatch
  <2> QED
    BY <1>4, <1>6, <2>1 DEF HasType, value_matches_type
<1>11. /\ F \in SUBSET FlagColumns /\ C \in SUBSET ConfigColumns
       /\ p.environment = None => C = {}
       /\ \A c \in F \union C : c \in DOMAIN p.sent /\ p.sent[c] \in Column
  BY <1>4, <1>5, <1>6
<1>12. WrittenAs(Written(flags[k], F, p.environment, C, p.sent),
                 flags[k], F, p.environment, C, p.sent)
  BY <1>2, <1>4, <1>11, WrittenRow
<1>13. /\ "default_value" \in F => HasType(p.sent["default_value"], flags[k].type)
       /\ "value" \in C => HasType(p.sent["value"], flags[k].type)
  BY <1>5, <1>10
<1>14. /\ \A c \in F : q.flag[c] \in Column
       /\ \A c \in C : q.config[c] \in Column
  BY <1>7, <1>8, <1>11
<1>15. UpdateFacts(q, p, k, F, C)
  BY <1>1, <1>2, <1>4, <1>11, <1>12, <1>13, <1>14 DEF UpdateFacts
<1> QED
  BY <1>15 DEF F, C

(* The commit of update_flag keeps the invariant, also when the copies it  *)
(* read are out of date.                                                   *)
LEMMA CommitUpdateStep ==
    ASSUME IInv, NEW r \in Requests, CommitUpdate(r)
    PROVE  IInv'
<1> DEFINE q == req[r]
           p == q.payload
           k == q.key
           env == p.environment
           F == FlagChanges(q)
           C == ConfigChanges(q)
           A == Recorded(q, q.flag, None, "flag.updated", F)
           B == Recorded(q, q.config, env, "config.updated", C)
           row == Written(flags[k], F, env, C, p.sent)
           records == A \o B
<1>1. /\ Finish(r) /\ clock' = clock /\ audit' = (audit \o A) \o B
      /\ flags' = [flags EXCEPT ![k] = row]
  BY DEF CommitUpdate
<1>2. UpdateFacts(q, p, k, F, C)
  BY UpdateWrites
<1>3. clock \in Nat /\ None \in Scopes
  BY StoreAssumption DEF IInv, Table, Scopes
<1> HIDE DEF F, C
<1>4. /\ q \in Active /\ q # Idle /\ q.op = "update" /\ q.started \in 1..clock
      /\ k \in Keys /\ flags[k] # None /\ flags[k] \in Row
      /\ env \in Scopes /\ (env = None => C = {})
      /\ F \in SUBSET ColumnsOf(None) /\ C \in SUBSET ColumnsOf(env)
      /\ WrittenAs(row, flags[k], F, env, C, p.sent)
  BY <1>2 DEF UpdateFacts, ColumnsOf
<1>5. RecordedAs(A, q, None, "flag.updated", F)
  <2>1. \A c \in F : q.flag[c] \in Column /\ q.payload.sent[c] \in Column
    BY <1>2 DEF UpdateFacts
  <2> HIDE DEF q
  <2> QED
    BY <1>3, <1>4, <2>1, RecordedIsSound
<1>6. RecordedAs(B, q, env, "config.updated", C)
  <2>1. \A c \in C : q.config[c] \in Column /\ q.payload.sent[c] \in Column
    BY <1>2 DEF UpdateFacts
  <2> HIDE DEF q, env
  <2> QED
    BY <1>3, <1>4, <2>1, RecordedIsSound
<1>7. /\ A \in Seq(AuditRow) /\ (F # {} => Len(A) = 1)
       /\ B \in Seq(AuditRow) /\ (C # {} => Len(B) = 1)
  BY <1>5, <1>6 DEF RecordedAs
<1>8. \A i \in 1..Len(A) :
             /\ Sound(A[i], clock) /\ A[i].key = k
             /\ A[i].environment = None /\ A[i].action = "flag.updated"
             /\ DOMAIN A[i].new_value = F
             /\ \A c \in F : A[i].new_value[c] = p.sent[c]
  BY <1>5 DEF RecordedAs
<1>9. \A i \in 1..Len(B) :
             /\ Sound(B[i], clock) /\ B[i].key = k
             /\ B[i].environment = env /\ B[i].action = "config.updated"
             /\ DOMAIN B[i].new_value = C
             /\ \A c \in C : B[i].new_value[c] = p.sent[c]
  BY <1>6 DEF RecordedAs
<1> HIDE DEF row, env, q
<1> HIDE DEF A, B, p, k
<1>10. /\ records \in Seq(AuditRow)
       /\ \A i \in 1..Len(records) : \/ \E j \in 1..Len(A) : records[i] = A[j]
                                     \/ \E j \in 1..Len(B) : records[i] = B[j]
       /\ \A j \in 1..Len(A) : \E i \in 1..Len(records) : records[i] = A[j]
       /\ \A j \in 1..Len(B) : \E i \in 1..Len(records) : records[i] = B[j]
  <2>1. A \in Seq(AuditRow) /\ B \in Seq(AuditRow) /\ Len(A) \in Nat /\ Len(B) \in Nat
    BY <1>7
  <2>2. /\ records \in Seq(AuditRow) /\ Len(records) = Len(A) + Len(B)
        /\ \A i \in 1..Len(A) : records[i] = A[i]
        /\ \A i \in 1..Len(B) : records[Len(A) + i] = B[i]
    BY <2>1
  <2> HIDE DEF records
  <2>3. ASSUME NEW i \in 1..Len(records), i \notin 1..Len(A)
        PROVE  \E j \in 1..Len(B) : records[i] = B[j]
    <3>1. i - Len(A) \in 1..Len(B) /\ i = Len(A) + (i - Len(A))
      BY <2>1, <2>2, <2>3
    <3>2. records[i] = B[i - Len(A)]
      BY <2>2, <3>1
    <3> QED
      BY <3>1, <3>2
  <2>4. ASSUME NEW i \in 1..Len(A)
        PROVE  i \in 1..Len(records) /\ records[i] = A[i]
    BY <2>1, <2>2
  <2>5. ASSUME NEW j \in 1..Len(B)
        PROVE  Len(A) + j \in 1..Len(records) /\ records[Len(A) + j] = B[j]
    BY <2>1, <2>2
  <2>6. \A i \in 1..Len(records) : \/ \E j \in 1..Len(A) : records[i] = A[j]
                                   \/ \E j \in 1..Len(B) : records[i] = B[j]
    BY <2>3, <2>4
  <2> QED
    BY <2>2, <2>4, <2>5, <2>6
<1>11. audit' = audit \o records
  <2>1. audit \in Seq(AuditRow)
    BY DEF IInv, Trail
  <2> QED
    BY <1>1, <1>7, <2>1, ConcatAssociative, SMTT(30)
<1> HIDE DEF records
<1>12. \A i \in 1..Len(records) :
          Sound(records[i], clock) /\ records[i].key = k /\ records[i].action # "flag.created"
  <2>1. \A i \in 1..Len(A) : Sound(A[i], clock) /\ A[i].key = k /\ A[i].action # "flag.created"
    BY <1>8
  <2>2. \A i \in 1..Len(B) : Sound(B[i], clock) /\ B[i].key = k /\ B[i].action # "flag.created"
    BY <1>9
  <2>3. ASSUME NEW i \in 1..Len(records)
        PROVE  Sound(records[i], clock) /\ records[i].key = k /\ records[i].action # "flag.created"
    <3>1. CASE \E j \in 1..Len(A) : records[i] = A[j]
      BY <2>1, <3>1
    <3>2. CASE \E j \in 1..Len(B) : records[i] = B[j]
      BY <2>2, <3>2
    <3> QED
      BY <1>10, <3>1, <3>2
  <2> QED
    BY <2>3
<1>13. /\ row \in Row
       /\ HasType(row.flag["default_value"], row.type)
       /\ \A e \in Environments : HasType(row.config[e]["value"], row.type)
  <2>1. "default_value" \in FlagColumns /\ "value" \in ConfigColumns
    BY DEF FlagColumns, ConfigColumns
  <2>2. /\ HasType(flags[k].flag["default_value"], flags[k].type)
        /\ \A e \in Environments : HasType(flags[k].config[e]["value"], flags[k].type)
    BY <1>4 DEF IInv, ValuesMatchType
  <2>3. /\ "default_value" \in F => HasType(p.sent["default_value"], flags[k].type)
        /\ "value" \in C => HasType(p.sent["value"], flags[k].type)
    BY <1>2 DEF UpdateFacts
  <2> QED
    BY <1>4, <2>1, <2>2, <2>3 DEF WrittenAs
<1>14. ASSUME NEW e \in Scopes, NEW c \in ColumnsOf(e)
       PROVE  /\ \A i \in 1..Len(records) :
                    Names(records[i], e, c) => Cell(row, e, c) = records[i].new_value[c]
              /\ (\A i \in 1..Len(records) : ~Names(records[i], e, c)) =>
                    Cell(row, e, c) = Cell(flags[k], e, c)
  <2>1. \A i \in 1..Len(records) : Names(records[i], e, c) =>
            /\ records[i].new_value[c] = p.sent[c]
            /\ \/ e = None /\ c \in F
               \/ e = env /\ c \in C
    <3>1. \A i \in 1..Len(A) : Names(A[i], e, c) =>
              A[i].new_value[c] = p.sent[c] /\ e = None /\ c \in F
      BY <1>8 DEF Names
    <3>2. \A i \in 1..Len(B) : Names(B[i], e, c) =>
              B[i].new_value[c] = p.sent[c] /\ e = env /\ c \in C
      BY <1>9 DEF Names
    <3>3. ASSUME NEW i \in 1..Len(records), Names(records[i], e, c)
          PROVE  /\ records[i].new_value[c] = p.sent[c]
                 /\ (e = None /\ c \in F) \/ (e = env /\ c \in C)
      <4>1. CASE \E j \in 1..Len(A) : records[i] = A[j]
        BY <3>1, <3>3, <4>1
      <4>2. CASE \E j \in 1..Len(B) : records[i] = B[j]
        BY <3>2, <3>3, <4>2
      <4> QED
        BY <1>10, <4>1, <4>2
    <3> QED
      BY <3>3
  <2>2. e = None /\ c \in F => \E i \in 1..Len(records) : Names(records[i], e, c)
    <3>1. SUFFICES ASSUME e = None, c \in F
                   PROVE  \E i \in 1..Len(records) : Names(records[i], e, c)
      OBVIOUS
    <3>2. 1 \in 1..Len(A)
      <4>1. F # {}
        BY <3>1
      <4>2. Len(A) = 1
        BY <1>7, <4>1, Zenon
      <4> QED
        BY <4>2
    <3>3. Names(A[1], e, c)
      BY <1>8, <3>1, <3>2 DEF Names
    <3>4. PICK i \in 1..Len(records) : records[i] = A[1]
      BY <1>10, <3>2
    <3> QED
      BY <3>3, <3>4
  <2>3. e = env /\ c \in C => \E i \in 1..Len(records) : Names(records[i], e, c)
    <3>1. SUFFICES ASSUME e = env, c \in C
                   PROVE  \E i \in 1..Len(records) : Names(records[i], e, c)
      OBVIOUS
    <3>2. 1 \in 1..Len(B)
      <4>1. C # {}
        BY <3>1
      <4>2. Len(B) = 1
        BY <1>7, <4>1, Zenon
      <4> QED
        BY <4>2
    <3>3. Names(B[1], e, c)
      BY <1>9, <3>1, <3>2 DEF Names
    <3>4. PICK i \in 1..Len(records) : records[i] = B[1]
      BY <1>10, <3>2
    <3> QED
      BY <3>3, <3>4
  <2>4. e # None => e \in Environments
    BY DEF Scopes
  <2>5. (e = None /\ c \in F) \/ (e = env /\ c \in C /\ e # None) => Cell(row, e, c) = p.sent[c]
    BY <1>4 DEF WrittenAs, Cell
  <2>6. ~(e = None /\ c \in F) /\ ~(e = env /\ c \in C) => Cell(row, e, c) = Cell(flags[k], e, c)
    BY <1>4, <2>4 DEF WrittenAs, Cell, ColumnsOf
  <2> QED
    BY <1>4, <2>1, <2>2, <2>3, <2>5, <2>6
<1>15. Commits(k, row, records)
  BY <1>4, <1>10, <1>12, <1>13, <1>14 DEF Commits
<1>16. Writes(k, row, records)
  BY <1>1, <1>4, <1>11, <1>13 DEF Writes, IInv, Table
<1> QED
  BY <1>1, <1>4, <1>15, <1>16, CommitKeepsInvariant DEF k, q

----------------------------------------------------------------------------
(* The invariant.                                                          *)

(* Empty tables satisfy the invariant.                                     *)
LEMMA InitIInv == Init => IInv
<1> SUFFICES ASSUME Init PROVE IInv
  OBVIOUS
<1>1. /\ flags = [k \in Keys |-> None] /\ audit = <<>>
      /\ req = [r \in Requests |-> Idle] /\ clock = 0
  BY DEF Init
<1>2. Table /\ Trail
  BY <1>1, StoreAssumption DEF Table, Trail
<1>3. InFlight
  BY <1>1 DEF InFlight
<1>4. Rows
  BY <1>1, IdleIsNotActive DEF Rows
<1>5. History /\ ValuesMatchType /\ AuditReplays /\ CreatedOnce
  BY <1>1 DEF History, ValuesMatchType, AuditReplays, CreatedOnce
<1> QED
  BY <1>2, <1>3, <1>4, <1>5 DEF IInv

(* Every step of every request keeps the invariant.                        *)
LEMMA NextIInv == IInv /\ [Next]_vars => IInv'
<1> SUFFICES ASSUME IInv, [Next]_vars PROVE IInv'
  OBVIOUS
<1>1. ASSUME NEW r \in Requests, RequestStep(r)
      PROVE  IInv'
  <2>1. CASE Flush(r)
    BY <2>1, FlushStep
  <2>2. CASE CommitCreate(r)
    BY <2>2, CommitCreateStep
  <2>3. CASE ReadFlag(r)
    BY <2>3, ReadFlagStep
  <2>4. CASE ReadConfigs(r)
    BY <2>4, ReadConfigsStep
  <2>5. CASE Reject(r)
    BY <2>5, FinishStep DEF Reject
  <2>6. CASE CommitUpdate(r)
    BY <2>6, CommitUpdateStep
  <2>7. CASE CommitArchive(r)
    BY <2>7, CommitArchiveStep
  <2> QED
    BY <1>1, <2>1, <2>2, <2>3, <2>4, <2>5, <2>6, <2>7 DEF RequestStep
<1>2. ASSUME NEW r \in Requests, Arrive(r)
      PROVE  IInv'
  BY <1>2, BeginStep
<1>3. ASSUME NEW r \in Requests, Lost(r)
      PROVE  IInv'
  BY <1>3, FinishStep DEF Lost
<1>4. CASE UNCHANGED vars
  <2>1. /\ flags' = flags /\ audit' = audit /\ clock' = clock /\ req' = req
        /\ clock \in Nat /\ clock <= MaxRequests
    BY <1>4, StoreAssumption DEF vars, IInv, Table
  <2>2. InFlight' /\ Rows'
    BY <2>1 DEF IInv, InFlight, Rows
  <2> QED
    BY <2>1, <2>2, TablesKept DEF IInv
<1> QED
  BY <1>1, <1>2, <1>3, <1>4 DEF Next, Quiet

(* Every reachable state of the handlers satisfies the invariant.          *)
THEOREM Invariance == Spec => []IInv
BY InitIInv, NextIInv, PTL DEF Spec

(* Rows, records and requests stay well formed, whatever requests overlap. *)
THEOREM TypeCorrect == Spec => []TypeOK
<1>1. IInv => TypeOK
  <2> SUFFICES ASSUME IInv PROVE TypeOK
    OBVIOUS
  <2>1. flags \in [Keys -> Row \union {None}] /\ clock \in 0..MaxRequests
    BY DEF IInv, Table
  <2>2. ASSUME NEW r \in Requests, req[r] # Idle
        PROVE  /\ req[r].key \in Keys
               /\ req[r].started \in 1..clock
               /\ req[r].flag = None <=> req[r].pc \in {"create", "seed", "update", "archive"}
    <3>1. Handling(req[r], clock)
      BY <2>2 DEF IInv, InFlight
    <3> QED
      BY <3>1 DEF Handling, Active
  <2>3. ASSUME NEW i \in DOMAIN audit
        PROVE  /\ audit[i].key \in Keys
               /\ audit[i].environment \in Scopes
               /\ audit[i].created_at \in 1..clock
               /\ DOMAIN audit[i].new_value \subseteq ColumnsOf(audit[i].environment)
               /\ DOMAIN audit[i].old_value \subseteq DOMAIN audit[i].new_value
    <3>1. Sound(audit[i], clock)
      BY DEF IInv, Trail
    <3> QED
      BY <3>1 DEF Sound, AuditRow
  <2> QED
    BY <2>1, <2>2, <2>3 DEF TypeOK
<1> QED
  BY <1>1, Invariance, PTL

(* A flag's default and its value in every environment have its declared   *)
(* type, in every committed state.                                         *)
THEOREM StoredValuesMatchType == Spec => []ValuesMatchType
<1>1. IInv => ValuesMatchType
  BY DEF IInv
<1> QED
  BY <1>1, Invariance, PTL

(* The audit trail replays to what is stored, under any overlap of PUTs,   *)
(* creates, archivals and lost connections.                                *)
THEOREM TrailReplays == Spec => []AuditReplays
<1>1. IInv => AuditReplays
  BY DEF IInv
<1> QED
  BY <1>1, Invariance, PTL

(* Of the concurrent creators of a key one succeeds, and its record is the *)
(* first of the flag's trail.                                              *)
THEOREM OneCreation == Spec => []CreatedOnce
<1>1. IInv => CreatedOnce
  BY DEF IInv
<1> QED
  BY <1>1, Invariance, PTL

----------------------------------------------------------------------------
(* What a step may change.                                                 *)

(* A step that changes a stored column is the commit of a PUT that sent    *)
(* the value, or of an archival.                                           *)
LEMMA SentColumnsStep ==
    ASSUME IInv, [Next]_vars, NEW k \in Keys, NEW e \in Scopes, NEW c \in ColumnsOf(e),
           flags[k] # None, Stored(k, e, c)' # Stored(k, e, c)
    PROVE  \E r \in Requests :
               /\ req[r] # Idle /\ req'[r] = Idle /\ req[r].key = k
               /\ \/ req[r].op = "archive" /\ c = "archived_at"
                  \/ /\ req[r].op = "update"
                     /\ ~TypeMismatch(req[r].payload, flags[k].type)
                     /\ e \in {None, req[r].payload.environment}
                     /\ c \in DOMAIN req[r].payload.sent
                     /\ Stored(k, e, c)' = req[r].payload.sent[c]
<1>1. /\ Stored(k, e, c) = Cell(flags[k], e, c)
      /\ Stored(k, e, c)' = Cell(flags'[k], e, c)
  BY DEF Stored, Cell
<1>2. flags'[k] # flags[k]
  BY <1>1
<1>3. flags \in [Keys -> Row \union {None}]
  BY DEF IInv, Table
<1>4. PICK r \in Requests : CommitCreate(r) \/ CommitUpdate(r) \/ CommitArchive(r)
  BY <1>2 DEF Next, RequestStep, Arrive, Lost, Quiet, vars, Flush, ReadFlag, ReadConfigs, Reject,
              BeginCreate, BeginUpdate, BeginArchive, Begin
<1>5. req[r] # Idle /\ req'[r] = Idle
  <2>1. req[r].pc \in {"seed", "commit"} /\ Finish(r)
    BY <1>4 DEF CommitCreate, CommitUpdate, CommitArchive
  <2> QED
    BY <2>1, IdleIsNotActive DEF IInv, InFlight, Finish
<1>6. ~CommitCreate(r)
  <2> SUFFICES ASSUME CommitCreate(r) PROVE FALSE
    OBVIOUS
  <2>1. flags[req[r].key] = None /\ flags' = [flags EXCEPT ![req[r].key] = NewRow(req[r].payload)]
    BY DEF CommitCreate, IInv, Rows
  <2> QED
    BY <1>2, <1>3, <2>1
<1>7. CASE CommitUpdate(r)
  <2> DEFINE q == req[r]
             p == q.payload
             F == FlagChanges(q)
             C == ConfigChanges(q)
             row == Written(flags[q.key], F, p.environment, C, p.sent)
  <2>1. UpdateFacts(q, p, q.key, F, C)
    BY <1>7, UpdateWrites
  <2>2. flags' = [flags EXCEPT ![q.key] = row]
    BY <1>7 DEF CommitUpdate
  <2>3. q.key = k /\ flags'[k] = row
    BY <1>2, <1>3, <2>2
  <2> HIDE DEF F, C
  <2>4. /\ WrittenAs(row, flags[k], F, p.environment, C, p.sent)
        /\ q.op = "update" /\ (p.environment = None => C = {})
        /\ \A d \in F \union C : d \in DOMAIN p.sent
    BY <2>1, <2>3 DEF UpdateFacts
  <2> HIDE DEF row
  <2>5. Cell(row, e, c) # Cell(flags[k], e, c)
    BY <1>1, <2>3
  <2>6. (e = None /\ c \in F) \/ (e # None /\ e = p.environment /\ c \in C)
    BY <2>4, <2>5 DEF WrittenAs, Cell, ColumnsOf, Scopes
  <2>7. Cell(row, e, c) = p.sent[c] /\ c \in DOMAIN p.sent /\ e \in {None, p.environment}
    BY <2>4, <2>6 DEF WrittenAs, Cell
  <2>8. ~TypeMismatch(p, flags[k].type)
    BY <1>7, <2>3 DEF CommitUpdate
  <2> QED
    BY <1>1, <1>5, <2>3, <2>4, <2>7, <2>8
<1>8. CASE CommitArchive(r)
  <2> DEFINE q == req[r]
             archived == [d \in {"archived_at"} |-> String(q.started)]
             row == Written(flags[q.key], {"archived_at"}, None, {}, archived)
  <2>1. q.op = "archive" /\ flags' = [flags EXCEPT ![q.key] = row]
    BY <1>8 DEF CommitArchive
  <2>2. q.key = k /\ flags'[k] = row
    BY <1>2, <1>3, <2>1
  <2>3. flags[k] \in Row
    BY <1>3
  <2>4. c # "archived_at" => Cell(row, e, c) = Cell(flags[k], e, c)
    BY <2>2, <2>3 DEF Written, Assign, Cell, Row, ColumnsOf, Scopes
  <2> QED
    BY <1>1, <1>5, <2>1, <2>2, <2>4
<1> QED
  BY <1>4, <1>6, <1>7, <1>8

(* A stored column changes only by the commit of a request that sent that  *)
(* value for it, or that archives the flag.                                *)
THEOREM SentColumnsOnly == Spec => OnlySentColumnsChange
<1>1. IInv /\ [Next]_vars =>
        [\A k \in Keys, e \in Scopes : \A c \in ColumnsOf(e) :
            flags[k] # None /\ Stored(k, e, c)' # Stored(k, e, c) =>
                \E r \in Requests :
                    /\ req[r] # Idle /\ req'[r] = Idle /\ req[r].key = k
                    /\ \/ req[r].op = "archive" /\ c = "archived_at"
                       \/ /\ req[r].op = "update"
                          /\ ~TypeMismatch(req[r].payload, flags[k].type)
                          /\ e \in {None, req[r].payload.environment}
                          /\ c \in DOMAIN req[r].payload.sent
                          /\ Stored(k, e, c)' = req[r].payload.sent[c]]_vars
  BY SentColumnsStep
<1> QED
  BY <1>1, Invariance, PTL DEF Spec, OnlySentColumnsChange

----------------------------------------------------------------------------
(* The copies behind a record.                                             *)

(* What a request has read is part of a row that was current since it      *)
(* began.                                                                  *)
CopiesOf(q, rows) ==
    /\ q.pc \in {"configs", "commit"} => \E row \in rows : row # None /\ row.flag = q.flag
    /\ q.pc = "commit" /\ q.op = "update" /\ q.payload.environment # None =>
           \E row \in rows : row # None /\ row.config[q.payload.environment] = q.config
    /\ q.pc = "commit" /\ q.op = "archive" => q.flag["archived_at"] = None

Copies == \A r \in Requests : req[r] # Idle =>
              flags[req[r].key] \in seen[r] /\ CopiesOf(req[r], seen[r])

(* A request that goes on has what it had seen, and the row that is        *)
(* current after the step.                                                 *)
LEMMA SeenGrows ==
    ASSUME Observe, NEW r \in Requests, req'[r] # Idle
    PROVE  seen'[r] = seen[r] \union {flags'[req'[r].key]}
BY DEF Observe

(* A step in which one request frees its slot, or takes a copy of what is  *)
(* current, keeps every copy accounted for.                                *)
LEMMA CopiesKept ==
    ASSUME Copies, Observe, NEW r \in Requests,
           \A s \in Requests : s # r => req'[s] = req[s],
           req'[r] = Idle \/ CopiesOf(req'[r], seen'[r])
    PROVE  Copies'
<1> SUFFICES ASSUME NEW s \in Requests, req'[s] # Idle
             PROVE  flags'[req'[s].key] \in seen'[s] /\ CopiesOf(req'[s], seen'[s])
  BY DEF Copies, CopiesOf
<1>1. seen'[s] = seen[s] \union {flags'[req'[s].key]}
  BY SeenGrows
<1>2. CASE s = r
  BY <1>1, <1>2
<1>3. CASE s # r
  <2>1. req'[s] = req[s] /\ CopiesOf(req[s], seen[s])
    BY <1>3 DEF Copies
  <2> QED
    BY <1>1, <2>1 DEF CopiesOf
<1> QED
  BY <1>2, <1>3

(* A slot that is written is the only one that changes.                    *)
LEMMA OtherSlots ==
    ASSUME IInv, NEW r \in Requests, NEW q, req' = [req EXCEPT ![r] = q]
    PROVE  req'[r] = q /\ \A s \in Requests : s # r => req'[s] = req[s]
BY DEF IInv, InFlight

(* A request that ends has no copies left.                                 *)
LEMMA FinishKeepsCopies ==
    ASSUME IInv, Copies, NEW r \in Requests, Finish(r), Observe
    PROVE  Copies'
BY OtherSlots, CopiesKept DEF Finish

(* The two SELECTs of update_flag and archive_flag copy what is current.   *)
LEMMA ReadKeepsCopies ==
    ASSUME IInv, Copies, NEW r \in Requests, ReadFlag(r) \/ ReadConfigs(r)
    PROVE  Copies'
<1> DEFINE row == flags[req[r].key]
<1>1. Observe /\ flags' = flags
  BY DEF ReadFlag, ReadConfigs
<1>2. CASE Finish(r)
  BY <1>1, <1>2, FinishKeepsCopies
<1>3. CASE ReadFlag(r) /\ row # None
  <2> DEFINE q == [req[r] EXCEPT !.pc = "configs", !.flag = row.flag]
  <2>1. req[r].pc \in {"update", "archive"} /\ req' = [req EXCEPT ![r] = q]
    BY <1>3 DEF ReadFlag
  <2>2. req[r] \in Active /\ req[r] # Idle
    BY <2>1, IdleIsNotActive DEF IInv, InFlight
  <2>3. q.pc = "configs" /\ q.flag = row.flag /\ q.key = req[r].key /\ q # Idle
    BY <2>2, IdleIsNotActive DEF Active
  <2> HIDE DEF q
  <2>4. req'[r] = q /\ \A s \in Requests : s # r => req'[s] = req[s]
    BY <2>1, OtherSlots
  <2>5. row \in seen'[r]
    BY <1>1, <2>3, <2>4, SeenGrows
  <2>6. CopiesOf(q, seen'[r])
    BY <1>3, <2>3, <2>5 DEF CopiesOf
  <2> QED
    BY <1>1, <2>4, <2>6, CopiesKept
<1>4. CASE ReadConfigs(r) /\ ~Finish(r)
  <2> DEFINE e == req[r].payload.environment
             config == IF req[r].op = "archive" THEN req[r].config
                       ELSE IF e = None THEN None ELSE row.config[e]
             q == [req[r] EXCEPT !.pc = "commit", !.config = config]
  <2>1. req[r].pc = "configs"
    BY <1>4 DEF ReadConfigs
  <2>2. req[r] \in Active /\ req[r] # Idle /\ row # None
    BY <2>1, IdleIsNotActive DEF IInv, InFlight, Rows
  <2>3. req' = [req EXCEPT ![r] = q]
    <3>1. CASE req[r].op = "update"
      BY <1>4, <3>1 DEF ReadConfigs
    <3>2. CASE req[r].op = "archive"
      <4>1. req' = [req EXCEPT ![r] = [req[r] EXCEPT !.pc = "commit"]]
        BY <1>4, <3>2 DEF ReadConfigs
      <4>2. [req[r] EXCEPT !.pc = "commit"] = [req[r] EXCEPT !.pc = "commit", !.config = req[r].config]
        BY <2>2 DEF Active
      <4> QED
        BY <3>2, <4>1, <4>2
    <3> QED
      BY <1>4, <3>1, <3>2 DEF ReadConfigs
  <2>4. req[r].op = "archive" => req[r].flag["archived_at"] = None
    BY <1>4 DEF ReadConfigs
  <2>5. /\ q.pc = "commit" /\ q.flag = req[r].flag /\ q.key = req[r].key /\ q.op = req[r].op
        /\ q.payload = req[r].payload /\ q.config = config /\ q # Idle
    BY <2>2, IdleIsNotActive DEF Active
  <2> HIDE DEF q
  <2>6. req'[r] = q /\ \A s \in Requests : s # r => req'[s] = req[s]
    BY <2>3, OtherSlots
  <2>7. seen'[r] = seen[r] \union {row}
    BY <1>1, <2>5, <2>6, SeenGrows
  <2>8. \E old \in seen[r] : old # None /\ old.flag = req[r].flag
    BY <2>1, <2>2 DEF Copies, CopiesOf
  <2>9. CopiesOf(q, seen'[r])
    BY <2>2, <2>4, <2>5, <2>7, <2>8 DEF CopiesOf
  <2> QED
    BY <1>1, <2>6, <2>9, CopiesKept
<1> QED
  BY <1>2, <1>3, <1>4 DEF ReadFlag

(* Every step keeps every copy accounted for.                              *)
LEMMA NextCopies == IInv /\ Copies /\ [Next]_vars => Copies'
<1> SUFFICES ASSUME IInv, Copies, [Next]_vars PROVE Copies'
  OBVIOUS
<1>1. ASSUME NEW r \in Requests, Finish(r), Observe
      PROVE  Copies'
  BY <1>1, FinishKeepsCopies
<1>2. ASSUME NEW r \in Requests, Flush(r)
      PROVE  Copies'
  <2>1. CASE Finish(r)
    BY <1>2, <2>1, <1>1 DEF Flush
  <2>2. CASE req' = [req EXCEPT ![r].pc = "seed"]
    <3> DEFINE q == [req[r] EXCEPT !.pc = "seed"]
    <3>1. req[r].pc = "create" /\ req' = [req EXCEPT ![r] = q] /\ Observe
      BY <1>2, <2>2 DEF Flush
    <3>2. req[r] \in Active
      BY <3>1, IdleIsNotActive DEF IInv, InFlight
    <3>3. q.pc = "seed"
      BY <3>2 DEF Active
    <3> HIDE DEF q
    <3>4. req'[r] = q /\ \A s \in Requests : s # r => req'[s] = req[s]
      BY <3>1, OtherSlots
    <3> QED
      BY <3>1, <3>3, <3>4, CopiesKept DEF CopiesOf
  <2> QED
    BY <1>2, <2>1, <2>2 DEF Flush
<1>3. ASSUME NEW r \in Requests, NEW op \in {"create", "update", "archive"}, NEW k, NEW payload,
             Begin(r, op, k, payload)
      PROVE  Copies'
  <2> DEFINE q == [pc |-> op, op |-> op, key |-> k, payload |-> payload,
                   started |-> clock + 1, flag |-> None, config |-> None]
  <2>1. req' = [req EXCEPT ![r] = q] /\ Observe
    BY <1>3 DEF Begin
  <2>2. q.pc \notin {"configs", "commit"}
    OBVIOUS
  <2> HIDE DEF q
  <2>3. req'[r] = q /\ \A s \in Requests : s # r => req'[s] = req[s]
    BY <2>1, OtherSlots
  <2> QED
    BY <2>1, <2>2, <2>3, CopiesKept DEF CopiesOf
<1>4. ASSUME NEW r \in Requests, RequestStep(r)
      PROVE  Copies'
  <2>1. CASE CommitCreate(r) \/ CommitUpdate(r) \/ CommitArchive(r) \/ Reject(r)
    BY <1>1, <2>1 DEF CommitCreate, CommitUpdate, CommitArchive, Reject
  <2> QED
    BY <1>2, <1>4, <2>1, ReadKeepsCopies DEF RequestStep
<1>5. ASSUME NEW r \in Requests, Arrive(r)
      PROVE  Copies'
  BY <1>3, <1>5 DEF Arrive, BeginCreate, BeginUpdate, BeginArchive
<1>6. CASE UNCHANGED vars
  BY <1>6 DEF vars, Copies, CopiesOf
<1> QED
  BY <1>1, <1>4, <1>5, <1>6 DEF Next, Quiet, Lost

(* The old values of some records are a part of one row that request r has *)
(* seen.                                                                   *)
Grounded(r, a) ==
    /\ a.key = req[r].key
    /\ \E row \in seen[r] : \A c \in DOMAIN a.old_value :
           row # None /\ a.old_value[c] = Cell(row, a.environment, c)

(* What one scope of a PUT records is grounded in the copy it was made     *)
(* from.                                                                   *)
LEMMA RecordedGrounded ==
    ASSUME NEW r \in Requests, NEW e, NEW action, NEW changes, NEW entity, NEW row \in seen[r],
           row # None, \A c \in changes : Cell(row, e, c) = entity[c]
    PROVE  \A j \in 1..Len(Recorded(req[r], entity, e, action, changes)) :
               Grounded(r, Recorded(req[r], entity, e, action, changes)[j])
<1> DEFINE q == req[r]
           new == [c \in changes |-> q.payload.sent[c]]
           a == Record(q, e, action, [c \in changes |-> entity[c]], new)
<1>1. CASE changes = {}
  BY <1>1 DEF Recorded
<1>2. CASE changes # {}
  <2>1. Recorded(q, entity, e, action, changes) = <<a>>
    BY <1>2 DEF Recorded
  <2>2. a.key = q.key /\ a.environment = e /\ a.old_value = [c \in changes |-> entity[c]]
    BY DEF Record
  <2> HIDE DEF a
  <2>3. Grounded(r, a)
    BY <2>2 DEF Grounded
  <2> QED
    BY <2>1, <2>3
<1> QED
  BY <1>1, <1>2

(* What one scope of a PUT records is a sequence.                          *)
LEMMA RecordedIsSequence ==
    ASSUME NEW q, NEW e, NEW action, NEW changes, NEW entity
    PROVE  \E S : Recorded(q, entity, e, action, changes) \in Seq(S)
<1> DEFINE a == Record(q, e, action, [c \in changes |-> entity[c]],
                       [c \in changes |-> q.payload.sent[c]])
<1>1. Recorded(q, entity, e, action, changes) = IF changes = {} THEN <<>> ELSE <<a>>
  BY DEF Recorded
<1> HIDE DEF a
<1>2. <<>> \in Seq({a}) /\ <<a>> \in Seq({a})
  OBVIOUS
<1> QED
  BY <1>1, <1>2

(* What occurs in a sequence.                                              *)
Entries(t) == {t[j] : j \in 1..Len(t)}

(* The elements that a sequence gains by concatenation.                    *)
LEMMA Gained ==
    ASSUME NEW S, NEW s \in Seq(S), NEW t \in Seq(S), NEW i \in DOMAIN (s \o t), i \notin DOMAIN s
    PROVE  (s \o t)[i] \in Entries(t)
<1>1. i - Len(s) \in 1..Len(t) /\ i = Len(s) + (i - Len(s))
  BY Concatenation
<1>2. (s \o t)[Len(s) + (i - Len(s))] = t[i - Len(s)]
  BY <1>1, Concatenation
<1> QED
  BY <1>1, <1>2 DEF Entries

(* The same for two concatenations.                                        *)
LEMMA GainedTwice ==
    ASSUME NEW S, NEW s \in Seq(S), NEW t \in Seq(S), NEW u \in Seq(S),
           NEW i \in DOMAIN ((s \o t) \o u), i \notin DOMAIN s
    PROVE  ((s \o t) \o u)[i] \in Entries(t) \union Entries(u)
<1>1. PICK v : v = s \o t
  OBVIOUS
<1>2. v \in Seq(S)
  BY <1>1
<1>3. CASE i \in DOMAIN v
  <2>1. (v \o u)[i] = v[i]
    BY <1>2, <1>3, Concatenation
  <2>2. v[i] \in Entries(t)
    BY <1>1, <1>3, Gained
  <2> QED
    BY <1>1, <2>1, <2>2
<1>4. CASE i \notin DOMAIN v
  <2>1. i \in DOMAIN (v \o u)
    BY <1>1
  <2>2. (v \o u)[i] \in Entries(u)
    BY <1>2, <1>4, <2>1, Gained
  <2> QED
    BY <1>1, <2>2
<1> QED
  BY <1>3, <1>4

(* Each record a step adds is grounded in what the request that commits    *)
(* has seen.                                                               *)
LEMMA RecordsGrounded ==
    ASSUME IInv, Copies, [Next]_vars, NEW i \in DOMAIN audit' \ DOMAIN audit
    PROVE  \E r \in Requests : req[r] # Idle /\ req'[r] = Idle /\ Grounded(r, audit'[i])
<1>1. audit' # audit /\ audit \in Seq(AuditRow)
  BY DEF IInv, Trail
<1>2. PICK r \in Requests : CommitCreate(r) \/ CommitUpdate(r) \/ CommitArchive(r)
  BY <1>1 DEF Next, RequestStep, Arrive, Lost, Quiet, vars, Flush, ReadFlag, ReadConfigs, Reject,
              BeginCreate, BeginUpdate, BeginArchive, Begin
<1> DEFINE q == req[r]
           p == q.payload
<1>3. q # Idle /\ req'[r] = Idle /\ q \in Active /\ q.pc \in {"seed", "commit"}
  <2>1. q.pc \in {"seed", "commit"} /\ Finish(r)
    BY <1>2 DEF CommitCreate, CommitUpdate, CommitArchive
  <2> QED
    BY <2>1, IdleIsNotActive, OtherSlots DEF IInv, InFlight, Finish
<1>4. flags[q.key] \in seen[r] /\ CopiesOf(q, seen[r])
  BY <1>3 DEF Copies
<1>5. IInv'
  BY NextIInv
<1>6. audit' \in Seq(AuditRow)
  BY <1>5 DEF IInv, Trail
<1>7. CASE CommitCreate(r)
  <2> DEFINE new_value == [c \in {"name", "default_value"} |-> p.sent[c]]
             a == Record(q, None, "flag.created", NoColumns, new_value)
  <2>1. audit' = audit \o <<a>>
    BY <1>7 DEF CommitCreate
  <2>2. a.key = q.key /\ a.old_value = NoColumns
    BY DEF Record
  <2> HIDE DEF a
  <2>3. audit'[i] = a
    BY <1>1, <2>1
  <2>4. Grounded(r, a)
    BY <1>4, <2>2 DEF Grounded, NoColumns
  <2> QED
    BY <1>3, <2>3, <2>4
<1>8. CASE CommitArchive(r)
  <2> DEFINE old == [c \in {"archived_at"} |-> None]
             archived == [c \in {"archived_at"} |-> String(q.started)]
             a == Record(q, None, "flag.archived", old, archived)
  <2>1. audit' = audit \o <<a>> /\ q.pc = "commit" /\ q.op = "archive"
    BY <1>8 DEF CommitArchive
  <2>2. a.key = q.key /\ a.environment = None /\ a.old_value = old
    BY DEF Record
  <2> HIDE DEF a
  <2>3. audit'[i] = a
    BY <1>1, <2>1
  <2>4. PICK row \in seen[r] : row # None /\ row.flag = q.flag
    BY <1>4, <2>1 DEF CopiesOf
  <2>5. Cell(row, None, "archived_at") = None
    BY <1>4, <2>1, <2>4 DEF CopiesOf, Cell
  <2>6. Grounded(r, a)
    BY <2>2, <2>4, <2>5 DEF Grounded
  <2> QED
    BY <1>3, <2>3, <2>6
<1>9. CASE CommitUpdate(r)
  <2> DEFINE env == p.environment
             F == FlagChanges(q)
             C == ConfigChanges(q)
             A == Recorded(q, q.flag, None, "flag.updated", F)
             B == Recorded(q, q.config, env, "config.updated", C)
  <2>1. audit' = (audit \o A) \o B /\ q.pc = "commit" /\ q.op = "update"
    BY <1>9 DEF CommitUpdate
  <2>2. UpdateFacts(q, p, q.key, F, C)
    BY <1>9, UpdateWrites
  <2> HIDE DEF F, C
  <2>3. PICK row \in seen[r] : row # None /\ row.flag = q.flag
    BY <1>4, <2>1 DEF CopiesOf
  <2>4. \A c \in F : Cell(row, None, c) = q.flag[c]
    BY <2>3 DEF Cell
  <2>5. \A j \in 1..Len(A) : Grounded(r, A[j])
    BY <2>3, <2>4, RecordedGrounded
  <2>6. \A j \in 1..Len(B) : Grounded(r, B[j])
    <3>1. CASE env = None
      <4>1. C = {}
        BY <2>2, <3>1 DEF UpdateFacts
      <4> QED
        BY <4>1 DEF Recorded
    <3>2. CASE env # None
      <4>1. PICK other \in seen[r] : other # None /\ other.config[env] = q.config
        BY <1>4, <2>1, <3>2 DEF CopiesOf
      <4>2. \A c \in C : Cell(other, env, c) = q.config[c]
        BY <3>2, <4>1 DEF Cell
      <4> QED
        BY <4>1, <4>2, RecordedGrounded
    <3> QED
      BY <3>1, <3>2
  <2>7. \E S : A \in Seq(S)
    BY RecordedIsSequence
  <2>8. \E S : B \in Seq(S)
    BY RecordedIsSequence
  <2> HIDE DEF A, B
  <2>9. PICK S : audit \in Seq(S) /\ A \in Seq(S) /\ B \in Seq(S)
    <3>1. PICK T : A \in Seq(T)
      BY <2>7
    <3>2. PICK U : B \in Seq(U)
      BY <2>8
    <3> DEFINE S == AuditRow \union T \union U
    <3>3. audit \in Seq(S) /\ A \in Seq(S) /\ B \in Seq(S)
      BY <1>1, <3>1, <3>2
    <3> QED
      BY <3>3
  <2>10. audit'[i] \in Entries(A) \union Entries(B)
    BY <2>1, <2>9, GainedTwice
  <2>11. \A a \in Entries(A) \union Entries(B) : Grounded(r, a)
    BY <2>5, <2>6 DEF Entries
  <2> QED
    BY <1>3, <2>10, <2>11
<1> QED
  BY <1>2, <1>7, <1>8, <1>9

(* The old values of a record were stored together at some moment of the   *)
(* request that made the record, however stale they are when it commits.   *)
THEOREM OldValuesStored == Spec => OldValuesWereStored
<1>1. Init => Copies
  BY DEF Init, Copies
<1>2. Spec => []Copies
  BY <1>1, NextCopies, Invariance, PTL DEF Spec
<1>3. IInv /\ Copies /\ [Next]_vars =>
        [\A i \in DOMAIN audit' \ DOMAIN audit : \E r \in Requests :
            /\ req[r] # Idle /\ req'[r] = Idle /\ req[r].key = audit'[i].key
            /\ \E row \in seen[r] : \A c \in DOMAIN audit'[i].old_value :
                    /\ row # None
                    /\ audit'[i].old_value[c] = Cell(row, audit'[i].environment, c)]_vars
  BY RecordsGrounded DEF Grounded
<1> QED
  BY <1>2, <1>3, Invariance, PTL DEF Spec, OldValuesWereStored
============================================================================
