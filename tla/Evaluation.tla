---------------------------- MODULE Evaluation -----------------------------
(***************************************************************************)
(* The evaluation engine (app/evaluation.py) and the endpoints that run it *)
(* over a compiled flag set (app/routers/evaluate.py), while operators     *)
(* edit the flags of one tenant in one environment (update_flag and        *)
(* archive_flag in app/routers/flags.py).                                  *)
(*                                                                         *)
(* Values are the scalars of module FlagValues.  What the string operators *)
(* see of two strings is given by the constants Contains, StartsWith and   *)
(* EndsWith, and SHA-256 by the constant Digest.                           *)
(***************************************************************************)
EXTENDS FlagValues

CONSTANTS
    FlagKeys,       \* keys of the tenant's flags
    Users,          \* user ids, string scalars
    Contexts,       \* request contexts: functions from attribute names to scalars
    RuleLists,      \* the targeting_rules an operator may store
    Percentages,    \* the rollout percentages an operator may store
    FlagScalars,    \* the values an operator may store
    BUCKET_SPACE,   \* evaluation.BUCKET_SPACE, 100 in the code
    Digest,         \* Digest[k, u]: first four bytes of sha256(k ":" u), an integer
    Contains, StartsWith, EndsWith  \* sets of pairs <<actual, str(v)>>

Rule == [attribute : STRING, operator : STRING, values : Seq(Scalar), value : Scalar]

FlagSnapshot == [key : FlagKeys, type : FlagType, default_value : Scalar, enabled : BOOLEAN,
                 value : Scalar, rollout_percentage : 0..BUCKET_SPACE,
                 targeting_rules : Seq(Rule), archived : BOOLEAN]

ASSUME EvaluationAssumption ==
    /\ BUCKET_SPACE \in Nat \ {0}
    /\ Digest \in [FlagKeys \X Users -> Nat]
    /\ Percentages \subseteq 0..BUCKET_SPACE /\ BUCKET_SPACE \in Percentages
    /\ FlagScalars \subseteq Scalar
    /\ RuleLists \subseteq Seq(Rule)
    /\ Users \subseteq Scalar /\ None \notin Scalar

----------------------------------------------------------------------------
bucket_for(k, user_id) == Digest[<<k, user_id>>] % BUCKET_SPACE

(* The attribute a rule looks at; None when the context does not have it.  *)
Actual(rule, user_id, context) ==
    IF rule.attribute = "user_id" THEN user_id
    ELSE IF rule.attribute \in DOMAIN context THEN context[rule.attribute] ELSE None

(* Python's `in' over a list.                                              *)
In(actual, values) == \E i \in DOMAIN values : ScalarEq(actual, values[i])

SomeRelated(relation, actual, values) ==
    actual.type = "string" /\ \E i \in DOMAIN values : <<actual, values[i]>> \in relation

(* The operators; any other one matches nothing.                           *)
Operators == {"in", "not_in", "eq", "neq", "contains", "starts_with", "ends_with"}

Holds(operator, actual, expected) ==
    \/ operator = "in" /\ In(actual, expected)
    \/ operator = "not_in" /\ ~In(actual, expected)
    \/ operator = "eq" /\ expected # <<>> /\ ScalarEq(actual, expected[1])
    \/ operator = "neq" /\ expected # <<>> /\ ~ScalarEq(actual, expected[1])
    \/ operator = "contains" /\ SomeRelated(Contains, actual, expected)
    \/ operator = "starts_with" /\ SomeRelated(StartsWith, actual, expected)
    \/ operator = "ends_with" /\ SomeRelated(EndsWith, actual, expected)

(* Mutant: an unknown operator matches every user with the attribute.      *)
matches_UnknownMatches(rule, user_id, context) ==
    LET actual == Actual(rule, user_id, context) IN
    actual # None /\ (rule.operator \in Operators => Holds(rule.operator, actual, rule.values))

matches(rule, user_id, context) ==
    LET actual == Actual(rule, user_id, context) IN
    actual # None /\ Holds(rule.operator, actual, rule.values)

(* The rules that match; the first of them decides.                        *)
Matching(s, user_id, context) ==
    {i \in DOMAIN s.targeting_rules : matches(s.targeting_rules[i], user_id, context)}

First(S) == CHOOSE i \in S : \A j \in S : i <= j

Result(value, reason) == [value |-> value, reason |-> reason]

(* Mutant: the rollout is tested with > instead of >=.                     *)
evaluate_OffByOne(s, user_id, context) ==
    LET matching == Matching(s, user_id, context) IN
    IF s.archived THEN Result(s.default_value, "archived")
    ELSE IF ~s.enabled THEN Result(s.default_value, "disabled")
    ELSE IF matching # {} THEN Result(s.targeting_rules[First(matching)].value, "targeting_match")
    ELSE IF bucket_for(s.key, user_id) > s.rollout_percentage
         THEN Result(s.default_value, "outside_rollout")
    ELSE Result(s.value, "in_rollout")

(* Mutant: targeting outranks the kill switch.                             *)
evaluate_RulesFirst(s, user_id, context) ==
    LET matching == Matching(s, user_id, context) IN
    IF s.archived THEN Result(s.default_value, "archived")
    ELSE IF matching # {} THEN Result(s.targeting_rules[First(matching)].value, "targeting_match")
    ELSE IF ~s.enabled THEN Result(s.default_value, "disabled")
    ELSE IF bucket_for(s.key, user_id) >= s.rollout_percentage
         THEN Result(s.default_value, "outside_rollout")
    ELSE Result(s.value, "in_rollout")

(* Mutant: targeted users are subject to the rollout.                      *)
evaluate_RolloutFirst(s, user_id, context) ==
    LET matching == Matching(s, user_id, context) IN
    IF s.archived THEN Result(s.default_value, "archived")
    ELSE IF ~s.enabled THEN Result(s.default_value, "disabled")
    ELSE IF bucket_for(s.key, user_id) >= s.rollout_percentage
         THEN Result(s.default_value, "outside_rollout")
    ELSE IF matching # {} THEN Result(s.targeting_rules[First(matching)].value, "targeting_match")
    ELSE Result(s.value, "in_rollout")

evaluate(s, user_id, context) ==
    LET matching == Matching(s, user_id, context) IN
    IF s.archived THEN Result(s.default_value, "archived")
    ELSE IF ~s.enabled THEN Result(s.default_value, "disabled")
    ELSE IF matching # {} THEN Result(s.targeting_rules[First(matching)].value, "targeting_match")
    ELSE IF bucket_for(s.key, user_id) >= s.rollout_percentage
         THEN Result(s.default_value, "outside_rollout")
    ELSE Result(s.value, "in_rollout")

----------------------------------------------------------------------------
VARIABLE flags  \* flags[k]: the flag row and its config row in the environment

(* Mutant: the archived rows are not left out.                             *)
load_flag_set_NoFilter == {flags[k] : k \in FlagKeys}

(* The join of _load_flag_set.  Its snapshots all have archived=False: the *)
(* rows with archived_at are left out.                                     *)
load_flag_set == {flags[k] : k \in {j \in FlagKeys : ~flags[j].archived}}

(* EvaluateResponse.flags for a request with flag_keys = wanted; bulk, and *)
(* a request without flag_keys, want every key.                            *)
evaluate_flags(user_id, context, wanted) ==
    LET set == load_flag_set
        keys == {s.key : s \in set} \intersect wanted
    IN  [k \in keys |-> evaluate(CHOOSE s \in set : s.key = k, user_id, context).value]

(* create_flag: dark, at 100%, no rules, `value' seeded from the default.  *)
New(k, d) ==
    [key |-> k, type |-> d.type, default_value |-> d, enabled |-> FALSE,
     value |-> seed_value(d.type, <<d>>)[1], rollout_percentage |-> BUCKET_SPACE,
     targeting_rules |-> <<>>, archived |-> FALSE]

Init == \E defaults \in [FlagKeys -> FlagScalars] :
            flags = [k \in FlagKeys |-> New(k, defaults[k])]

(* The operations of PUT, one column at a time, and DELETE.  None of them  *)
(* looks at archived_at.                                                   *)

(* Mutant: switching a flag on takes it out of the archive.                *)
SetEnabled_Revives(k, b) == flags' = [flags EXCEPT ![k].enabled = b, ![k].archived = FALSE]

SetEnabled(k, b) == flags' = [flags EXCEPT ![k].enabled = b]

(* Mutant: an off-by-one in the stored percentage.                         *)
SetRollout_OffByOne(k, n) == flags' = [flags EXCEPT ![k].rollout_percentage = n + 1]

SetRollout(k, n) == flags' = [flags EXCEPT ![k].rollout_percentage = n]

SetRules(k, rules) == flags' = [flags EXCEPT ![k].targeting_rules = rules]

SetValue(k, v) ==
    value_matches_type(<<v>>, flags[k].type) /\ flags' = [flags EXCEPT ![k].value = v]

SetDefault(k, v) ==
    value_matches_type(<<v>>, flags[k].type) /\ flags' = [flags EXCEPT ![k].default_value = v]

Archive(k) == flags' = [flags EXCEPT ![k].archived = TRUE]

Next ==
    \E k \in FlagKeys :
        \/ \E b \in BOOLEAN : SetEnabled(k, b)
        \/ \E n \in Percentages : SetRollout(k, n)
        \/ \E rules \in RuleLists : SetRules(k, rules)
        \/ \E v \in FlagScalars : SetValue(k, v) \/ SetDefault(k, v)
        \/ Archive(k)

Spec == Init /\ [][Next]_flags

----------------------------------------------------------------------------
(* Properties.                                                             *)

(* Every flag is a well-formed snapshot under its own key.                 *)
TypeOK ==
    /\ flags \in [FlagKeys -> FlagSnapshot]
    /\ \A k \in FlagKeys : flags[k].key = k

(* In a step that edits the rollout of a flag from p to q per cent, the    *)
(* answer changes only for users no rule targets whose bucket lies between *)
(* the two.                                                                *)
RolloutEdit ==
    \A k \in FlagKeys, u \in Users, c \in Contexts :
        LET s == flags[k]
            t == flags'[k]
            b == bucket_for(k, u)
        IN  /\ t = [s EXCEPT !.rollout_percentage = t.rollout_percentage]
            /\ evaluate(t, u, c) # evaluate(s, u, c)
            => /\ Matching(s, u, c) = {}
               /\ IF s.rollout_percentage <= b
                  THEN /\ b < t.rollout_percentage
                       /\ evaluate(s, u, c) = Result(s.default_value, "outside_rollout")
                       /\ evaluate(t, u, c) = Result(s.value, "in_rollout")
                  ELSE /\ t.rollout_percentage <= b
                       /\ evaluate(s, u, c) = Result(s.value, "in_rollout")
                       /\ evaluate(t, u, c) = Result(s.default_value, "outside_rollout")

(* Widening a rollout only ever adds people, narrowing only ever removes   *)
(* them, and a pinned user keeps the pinned value at every percentage      *)
(* (bucket_for, evaluate).                                                 *)
RolloutEditIsLocal == [][RolloutEdit]_flags

(* 0% serves the rollout to nobody and 100% leaves nobody outside it,      *)
(* whatever the digest.                                                    *)
RolloutExtremes ==
    \A k \in FlagKeys, u \in Users, c \in Contexts :
        /\ flags[k].rollout_percentage = 0 => evaluate(flags[k], u, c).reason # "in_rollout"
        /\ flags[k].rollout_percentage = BUCKET_SPACE =>
                evaluate(flags[k], u, c).reason # "outside_rollout"

(* A flag that is off is served as its default to everyone, the users its  *)
(* rules target included.                                                  *)
KillSwitch ==
    \A k \in FlagKeys, u \in Users, c \in Contexts :
        ~flags[k].enabled => evaluate(flags[k], u, c).value = flags[k].default_value

WellFormedAt(rules) == {i \in DOMAIN rules : rules[i].operator \in Operators}

(* Two lists with the same well-formed rules in the same order: the order  *)
(* isomorphism between their places keeps the rules.                       *)
SameWellFormed(rules, others) ==
    \E f \in [WellFormedAt(rules) -> WellFormedAt(others)] :
        /\ \A i, j \in WellFormedAt(rules) : i < j => f[i] < f[j]
        /\ \A j \in WellFormedAt(others) : \E i \in WellFormedAt(rules) : f[i] = j
        /\ \A i \in WellFormedAt(rules) : others[f[i]] = rules[i]

(* Rules with an operator the engine does not know change nobody's answer, *)
(* wherever in the list they are added or removed.                         *)
MalformedRulesAreInert ==
    [][\A k \in FlagKeys :
            LET s == flags[k]
                t == flags'[k]
            IN  /\ t = [s EXCEPT !.targeting_rules = t.targeting_rules]
                /\ SameWellFormed(s.targeting_rules, t.targeting_rules)
                => \A u \in Users, c \in Contexts : evaluate(t, u, c) = evaluate(s, u, c)]_flags

(* DELETE is final: an archived flag is in no answer of /evaluate or       *)
(* /evaluate/bulk, and no later PUT, none of which looks at archived_at,   *)
(* brings it back into one.                                                *)
ArchivalIsFinal ==
    [][\A k \in FlagKeys, u \in Users, c \in Contexts :
            flags[k].archived \/ flags'[k].archived =>
                k \notin DOMAIN evaluate_flags(u, c, FlagKeys)']_flags
============================================================================
