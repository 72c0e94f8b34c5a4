---------------------------- MODULE MCFlagStore ----------------------------
(* Instances of FlagStore for TLC. *)
EXTENDS FlagStore, TLC

Symmetry == Permutations(Requests)

NewFlag(type, default_value) ==
    [type |-> type, sent |-> [name |-> String(1), description |-> String(1),
                              default_value |-> default_value]]

BooleanFlag == {NewFlag("boolean", Bool(0))}
EveryType == {NewFlag("boolean", Bool(1)), NewFlag("number", Number(2)),
              NewFlag("string", String(2)), NewFlag("string", Number(1))}

Put(environment, sent) == [environment |-> environment, sent |-> sent]

(* The ramp-up and the kill switch, which two operators may send at once. *)
CONSTANTS e1, e2
Toggles == {
    Put(e1, [enabled |-> Bool(1), rollout_percentage |-> Number(10)]),
    Put(e1, [enabled |-> Bool(0), rollout_percentage |-> Number(100)]) }

(* Both scopes at once, each field alone, bodies that change nothing, and *)
(* one whose flag-level part is fine while its value has the wrong type.  *)
Edits == Toggles \union {
    Put(e2, [enabled |-> Bool(1), default_value |-> Bool(1)]),
    Put(None, [name |-> String(2)]),
    Put(e1, [name |-> String(2), value |-> Number(1)]),
    Put(None, [name |-> None, description |-> None]) }

(* Every kind of value for every type, explicit nulls, and the bodies the *)
(* service refuses.                                                        *)
Typed == {Put(e1, [value |-> v, default_value |-> v]) :
              v \in {Bool(0), Bool(1), Number(1), String(1)}}
Odd == {
    Put(e1, [value |-> None]),
    Put(None, [default_value |-> None]),
    Put(None, [enabled |-> Bool(1)]),
    Put(e1, [enabled |-> None, rollout_percentage |-> None, targeting_rules |-> None]),
    Put(e1, [name |-> String(2), targeting_rules |-> Bool(1) \o Bool(0)]) }
Values == Typed \union Odd

----------------------------------------------------------------------------
(* flag_history: ORDER BY created_at DESC. *)
flag_history(k) ==
    SortSeq(SelectSeq(audit, LAMBDA a : a.key = k), LAMBDA a, b : a.created_at > b.created_at)

(* "Chronological, newest first": of the records that name a column, the   *)
(* one the history lists first is the last change of the column, so its    *)
(* new value is what is stored.                                            *)
NewestFirst ==
    \A k \in Keys, e \in Scopes : flags[k] # None =>
        \A c \in ColumnsOf(e) :
            LET listed == SelectSeq(flag_history(k), LAMBDA a :
                              a.environment = e /\ c \in DOMAIN a.new_value)
            IN  listed # <<>> => listed[1].new_value[c] = Stored(k, e, c)
============================================================================
