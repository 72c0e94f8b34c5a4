---------------------------- MODULE FlagValues -----------------------------
(***************************************************************************)
(* The JSON values that flags hold, and the two ways app/ compares them:   *)
(* `_value_matches_type' (app/schemas.py) and Python's == as               *)
(* `_drop_unchanged' (app/routers/flags.py) uses it.                       *)
(*                                                                         *)
(* A scalar is its JSON type and a number that identifies it; for booleans *)
(* and numbers that is their numeric value, since bool is a subclass of    *)
(* int in Python.  A column of a row holds a sequence of scalars: one for  *)
(* a plain column, and for targeting_rules the values its rules serve, in  *)
(* order.  None is SQL's NULL and JSON's null.                             *)
(***************************************************************************)
EXTENDS Naturals, Sequences

CONSTANT None

FlagType == {"boolean", "string", "number"}

Scalar == [type : {"string", "number"}, repr : Nat] \union [type : {"boolean"}, repr : 0..1]

Column == Seq(Scalar) \union {None}

Bool(b) == <<[type |-> "boolean", repr |-> b]>>
Number(n) == <<[type |-> "number", repr |-> n]>>
String(n) == <<[type |-> "string", repr |-> n]>>

(* Python's ==: True == 1 and False == 0; a string equals only a string.   *)
ScalarEq(a, b) == a.repr = b.repr /\ (a.type = "string" <=> b.type = "string")

PyEq(a, b) ==
    IF a = None \/ b = None THEN a = b
    ELSE Len(a) = Len(b) /\ \A i \in 1..Len(a) : ScalarEq(a[i], b[i])

(* Mutant: isinstance(value, (int, float)) alone, which True satisfies.    *)
value_matches_type_BoolIsInt(v, flag_type) ==
    /\ v # None
    /\ v[1].type = flag_type \/ (flag_type = "number" /\ v[1].type = "boolean")

(* isinstance(value, (int, float)) and not isinstance(value, bool), etc.:  *)
(* the JSON type itself, so that null matches no type.                     *)
value_matches_type(v, flag_type) == v # None /\ v[1].type = flag_type

(* Mutant: every default is negated.                                       *)
seed_value_Negates(flag_type, default_value) == Bool(1 - default_value[1].repr)

(* The on-value a new flag's configs start with: the negation of a boolean *)
(* default, else the default itself.                                       *)
seed_value(flag_type, default_value) ==
    IF flag_type = "boolean" THEN Bool(1 - default_value[1].repr) ELSE default_value
============================================================================
