------------------------- MODULE EvaluationProofs --------------------------
(***************************************************************************)
(* The guarantees of the evaluation engine for every digest, every rule    *)
(* list, every context and every number of buckets.                        *)
(***************************************************************************)
EXTENDS Evaluation, WellFoundedInduction, TLAPS

(* A bucket is a number below BUCKET_SPACE, whatever the digest.           *)
LEMMA BucketRange ==
    ASSUME NEW k \in FlagKeys, NEW u \in Users
    PROVE  bucket_for(k, u) \in 0..(BUCKET_SPACE - 1)
<1>1. Digest[<<k, u>>] \in Nat
  BY EvaluationAssumption
<1>2. \A d \in Nat : d % BUCKET_SPACE \in 0..(BUCKET_SPACE - 1)
  BY EvaluationAssumption
<1> QED BY <1>1, <1>2 DEF bucket_for

(* A change of the rollout percentage leaves the matching rules alone.     *)
LEMMA MatchingIgnoresRollout ==
    ASSUME NEW s \in FlagSnapshot, NEW n, NEW u, NEW c
    PROVE  LET t == [s EXCEPT !.rollout_percentage = n] IN
           /\ Matching(t, u, c) = Matching(s, u, c)
           /\ t.targeting_rules = s.targeting_rules /\ t.key = s.key /\ t.archived = s.archived
           /\ t.enabled = s.enabled /\ t.value = s.value /\ t.default_value = s.default_value
           /\ t.rollout_percentage = n
BY DEF Matching, FlagSnapshot

----------------------------------------------------------------------------
(* A new flag is a snapshot: `value' is seeded with a scalar.              *)
LEMMA NewIsSnapshot ==
    ASSUME NEW k \in FlagKeys, NEW d \in FlagScalars
    PROVE  New(k, d) \in FlagSnapshot /\ New(k, d).key = k
<1>1. d \in Scalar /\ d.type \in FlagType /\ (d.type = "boolean" => d.repr \in 0..1)
  <2>1. d \in Scalar
    BY EvaluationAssumption
  <2> QED BY <2>1 DEF Scalar, FlagType
<1>2. seed_value(d.type, <<d>>)[1] \in Scalar
  <2>1. CASE d.type = "boolean"
    <3>1. 1 - d.repr \in 0..1
      BY <1>1, <2>1
    <3>2. [type |-> "boolean", repr |-> 1 - d.repr] \in Scalar
      BY <3>1 DEF Scalar, FlagType
    <3> QED BY <2>1, <3>2 DEF seed_value, Bool
  <2>2. CASE d.type # "boolean"
    BY <1>1, <2>2 DEF seed_value
  <2> QED BY <2>1, <2>2
<1>3. <<>> \in Seq(Rule)
  OBVIOUS
<1>4. BUCKET_SPACE \in 0..BUCKET_SPACE
  BY EvaluationAssumption
<1> QED BY <1>1, <1>2, <1>3, <1>4 DEF New, FlagSnapshot

(* Every operation of PUT and DELETE leaves well-formed snapshots.         *)
LEMMA TypeStep == TypeOK /\ [Next]_flags => TypeOK'
<1> SUFFICES ASSUME TypeOK, [Next]_flags PROVE TypeOK'
  OBVIOUS
<1>0. ASSUME NEW k \in FlagKeys, NEW x \in FlagSnapshot, x.key = k,
             flags' = [flags EXCEPT ![k] = x]
      PROVE  TypeOK'
  BY <1>0 DEF TypeOK
<1>a. \A k \in FlagKeys : flags[k] \in FlagSnapshot /\ flags[k].key = k
  BY DEF TypeOK
<1>1. ASSUME NEW k \in FlagKeys, NEW b \in BOOLEAN, SetEnabled(k, b) PROVE TypeOK'
  <2>1. /\ [flags[k] EXCEPT !.enabled = b] \in FlagSnapshot
        /\ [flags[k] EXCEPT !.enabled = b].key = k
    BY <1>a DEF FlagSnapshot
  <2> QED BY <1>0, <1>1, <2>1 DEF SetEnabled
<1>2. ASSUME NEW k \in FlagKeys, NEW n \in Percentages, SetRollout(k, n) PROVE TypeOK'
  <2>1. n \in 0..BUCKET_SPACE
    BY EvaluationAssumption
  <2>2. /\ [flags[k] EXCEPT !.rollout_percentage = n] \in FlagSnapshot
        /\ [flags[k] EXCEPT !.rollout_percentage = n].key = k
    BY <1>a, <2>1 DEF FlagSnapshot
  <2> QED BY <1>0, <1>2, <2>2 DEF SetRollout
<1>3. ASSUME NEW k \in FlagKeys, NEW rules \in RuleLists, SetRules(k, rules) PROVE TypeOK'
  <2>1. rules \in Seq(Rule)
    BY EvaluationAssumption
  <2>2. /\ [flags[k] EXCEPT !.targeting_rules = rules] \in FlagSnapshot
        /\ [flags[k] EXCEPT !.targeting_rules = rules].key = k
    BY <1>a, <2>1 DEF FlagSnapshot
  <2> QED BY <1>0, <1>3, <2>2 DEF SetRules
<1>4. ASSUME NEW k \in FlagKeys, NEW v \in FlagScalars, SetValue(k, v) \/ SetDefault(k, v)
      PROVE  TypeOK'
  <2>1. v \in Scalar
    BY EvaluationAssumption
  <2>2. /\ [flags[k] EXCEPT !.value = v] \in FlagSnapshot
        /\ [flags[k] EXCEPT !.value = v].key = k
    BY <1>a, <2>1 DEF FlagSnapshot
  <2>3. /\ [flags[k] EXCEPT !.default_value = v] \in FlagSnapshot
        /\ [flags[k] EXCEPT !.default_value = v].key = k
    BY <1>a, <2>1 DEF FlagSnapshot
  <2> QED BY <1>0, <1>4, <2>2, <2>3 DEF SetValue, SetDefault
<1>5. ASSUME NEW k \in FlagKeys, Archive(k) PROVE TypeOK'
  <2>1. ASSUME NEW b \in BOOLEAN
        PROVE  /\ [flags[k] EXCEPT !.archived = b] \in FlagSnapshot
               /\ [flags[k] EXCEPT !.archived = b].key = k
    BY <1>a DEF FlagSnapshot
  <2>2. PICK b \in BOOLEAN : b = TRUE
    BY Zenon
  <2>3. flags' = [flags EXCEPT ![k] = [flags[k] EXCEPT !.archived = b]]
    BY <1>5, <2>2, Zenon DEF Archive
  <2> QED BY <1>0, <2>1, <2>3
<1>6. CASE UNCHANGED flags
  BY <1>6 DEF TypeOK
<1> QED BY <1>1, <1>2, <1>3, <1>4, <1>5, <1>6 DEF Next

(* The flags stay well formed under every sequence of edits.               *)
THEOREM TypeCorrect == Spec => []TypeOK
<1>1. Init => TypeOK
  BY NewIsSnapshot DEF Init, TypeOK
<1> QED BY <1>1, TypeStep, PTL DEF Spec

(* The kill switch outranks targeting for every rule list and context.     *)
THEOREM KillSwitchHolds == Spec => []KillSwitch
<1>1. TypeOK => KillSwitch
  BY DEF KillSwitch, evaluate, Result
<1> QED BY <1>1, TypeCorrect, PTL

(* 0% reaches nobody and 100% everybody, for every digest.                 *)
THEOREM RolloutExtremesHold == Spec => []RolloutExtremes
<1>1. TypeOK => RolloutExtremes
  <2> SUFFICES ASSUME TypeOK, NEW k \in FlagKeys, NEW u \in Users, NEW c \in Contexts
               PROVE  /\ flags[k].rollout_percentage = 0 =>
                             evaluate(flags[k], u, c).reason # "in_rollout"
                      /\ flags[k].rollout_percentage = BUCKET_SPACE =>
                             evaluate(flags[k], u, c).reason # "outside_rollout"
    BY DEF RolloutExtremes
  <2>1. bucket_for(flags[k].key, u) \in 0..(BUCKET_SPACE - 1)
    BY BucketRange DEF TypeOK
  <2>2. BUCKET_SPACE \in Nat
    BY EvaluationAssumption
  <2> QED BY <2>1, <2>2 DEF evaluate, Result
<1> QED BY <1>1, TypeCorrect, PTL

(* Two snapshots that differ in the percentage alone answer differently    *)
(* only for an untargeted user whose bucket lies between the percentages.  *)
LEMMA RolloutChange ==
    ASSUME NEW s \in FlagSnapshot, NEW n \in 0..BUCKET_SPACE, NEW u \in Users, NEW c,
           evaluate([s EXCEPT !.rollout_percentage = n], u, c) # evaluate(s, u, c)
    PROVE  LET b == bucket_for(s.key, u)
               t == [s EXCEPT !.rollout_percentage = n]
           IN  /\ Matching(s, u, c) = {}
               /\ IF s.rollout_percentage <= b
                  THEN /\ b < n
                       /\ evaluate(s, u, c) = Result(s.default_value, "outside_rollout")
                       /\ evaluate(t, u, c) = Result(s.value, "in_rollout")
                  ELSE /\ n <= b
                       /\ evaluate(s, u, c) = Result(s.value, "in_rollout")
                       /\ evaluate(t, u, c) = Result(s.default_value, "outside_rollout")
<1> DEFINE t == [s EXCEPT !.rollout_percentage = n]
<1>1. /\ Matching(t, u, c) = Matching(s, u, c)
      /\ t.targeting_rules = s.targeting_rules /\ t.key = s.key /\ t.archived = s.archived
      /\ t.enabled = s.enabled /\ t.value = s.value /\ t.default_value = s.default_value
      /\ t.rollout_percentage = n
  BY MatchingIgnoresRollout
<1>2. bucket_for(s.key, u) \in Nat /\ s.rollout_percentage \in Nat /\ n \in Nat
  BY BucketRange, EvaluationAssumption DEF FlagSnapshot
<1> HIDE DEF t
<1>3. evaluate(t, u, c) # evaluate(s, u, c)
  BY DEF t
<1>4. ~s.archived /\ s.enabled /\ Matching(s, u, c) = {}
  BY <1>1, <1>3 DEF evaluate
<1>5. /\ evaluate(s, u, c) = IF bucket_for(s.key, u) >= s.rollout_percentage
                             THEN Result(s.default_value, "outside_rollout")
                             ELSE Result(s.value, "in_rollout")
      /\ evaluate(t, u, c) = IF bucket_for(s.key, u) >= n
                             THEN Result(s.default_value, "outside_rollout")
                             ELSE Result(s.value, "in_rollout")
  BY <1>1, <1>4 DEF evaluate
<1>6. evaluate([s EXCEPT !.rollout_percentage = n], u, c) = evaluate(t, u, c)
  BY DEF t
<1> QED BY <1>2, <1>3, <1>4, <1>5, <1>6

(* Widening a rollout only adds users, narrowing only removes them, and    *)
(* targeted users never notice, for every digest and rule list.            *)
THEOREM RolloutEditsAreLocal == Spec => RolloutEditIsLocal
<1>1. ASSUME TypeOK, TypeOK', NEW k \in FlagKeys, NEW u \in Users, NEW c \in Contexts,
             flags'[k] = [flags[k] EXCEPT !.rollout_percentage = flags'[k].rollout_percentage],
             evaluate(flags'[k], u, c) # evaluate(flags[k], u, c)
      PROVE  /\ Matching(flags[k], u, c) = {}
             /\ IF flags[k].rollout_percentage <= bucket_for(k, u)
                THEN /\ bucket_for(k, u) < flags'[k].rollout_percentage
                     /\ evaluate(flags[k], u, c) = Result(flags[k].default_value, "outside_rollout")
                     /\ evaluate(flags'[k], u, c) = Result(flags[k].value, "in_rollout")
                ELSE /\ flags'[k].rollout_percentage <= bucket_for(k, u)
                     /\ evaluate(flags[k], u, c) = Result(flags[k].value, "in_rollout")
                     /\ evaluate(flags'[k], u, c) = Result(flags[k].default_value, "outside_rollout")
  <2>1. PICK n \in 0..BUCKET_SPACE : n = flags'[k].rollout_percentage
    BY <1>1 DEF TypeOK, FlagSnapshot
  <2>2. flags[k] \in FlagSnapshot /\ flags[k].key = k
    BY <1>1 DEF TypeOK
  <2>3. flags'[k] = [flags[k] EXCEPT !.rollout_percentage = n]
    BY <1>1, <2>1
  <2>4. evaluate([flags[k] EXCEPT !.rollout_percentage = n], u, c) # evaluate(flags[k], u, c)
    BY <1>1, <2>3
  <2> QED BY <2>1, <2>2, <2>3, <2>4, RolloutChange
<1>2. TypeOK /\ TypeOK' => RolloutEdit
  BY <1>1 DEF RolloutEdit
<1> QED BY <1>2, TypeCorrect, PTL DEF RolloutEditIsLocal, Spec

----------------------------------------------------------------------------
(* Of a set of places in a list, First is the least.                       *)
LEMMA FirstIsLeast ==
    ASSUME NEW S, S \subseteq Nat, S # {}
    PROVE  First(S) \in S /\ \A j \in S : First(S) <= j
<1> DEFINE R == OpToRel(<, Nat)
<1>1. PICK i \in S : \A j \in S : ~(<<j, i>> \in R)
  <2>1. IsWellFoundedOn(R, Nat)
    BY NatLessThanWellFounded
  <2> HIDE DEF R
  <2> QED BY <2>1, WFMin, Zenon
<1>2. \A j \in S : i <= j
  <2> SUFFICES ASSUME NEW j \in S PROVE i <= j
    OBVIOUS
  <2>1. i \in Nat /\ j \in Nat
    OBVIOUS
  <2>2. R = {ss \in Nat \X Nat : ss[1] < ss[2]}
    BY Zenon DEF OpToRel
  <2> HIDE DEF R
  <2>3. j < i => <<j, i>> \in R
    BY <2>1, <2>2
  <2> QED BY <1>1, <2>1, <2>3
<1>3. \E x \in S : \A j \in S : x <= j
  BY <1>2
<1> QED BY <1>3 DEF First

(* It is the only one.                                                     *)
LEMMA LeastIsFirst ==
    ASSUME NEW S, S \subseteq Nat, NEW m \in S, \A j \in S : m <= j
    PROVE  First(S) = m
<1>1. First(S) \in S /\ First(S) <= m
  BY FirstIsLeast
<1>2. m <= First(S) /\ m \in Nat /\ First(S) \in Nat
  BY <1>1
<1> QED BY <1>1, <1>2

(* A rule that matches has an operator the engine knows.                   *)
LEMMA MatchingIsWellFormed ==
    ASSUME NEW rule, NEW u, NEW c, matches(rule, u, c)
    PROVE  rule.operator \in Operators
BY DEF matches, Holds, Operators

(* Lists with the same well-formed rules in the same order agree on        *)
(* whether a rule matches, and on the value of the first that does.        *)
LEMMA SameFirstMatch ==
    ASSUME NEW s \in FlagSnapshot, NEW t \in FlagSnapshot, NEW u, NEW c,
           SameWellFormed(s.targeting_rules, t.targeting_rules)
    PROVE  LET M == Matching(s, u, c)
               N == Matching(t, u, c)
           IN  /\ M = {} <=> N = {}
               /\ M # {} => t.targeting_rules[First(N)] = s.targeting_rules[First(M)]
<1> DEFINE a == s.targeting_rules
           b == t.targeting_rules
           A == WellFormedAt(a)
           B == WellFormedAt(b)
           M == Matching(s, u, c)
           N == Matching(t, u, c)
<1>1. PICK f \in [A -> B] :
          /\ \A i, j \in A : i < j => f[i] < f[j]
          /\ \A j \in B : \E i \in A : f[i] = j
          /\ \A i \in A : b[f[i]] = a[i]
  BY DEF SameWellFormed
<1>2. A \subseteq Nat /\ B \subseteq Nat
  <2>1. a \in Seq(Rule) /\ b \in Seq(Rule)
    BY DEF FlagSnapshot
  <2>2. DOMAIN a \subseteq Nat /\ DOMAIN b \subseteq Nat
    BY <2>1
  <2> QED BY <2>2 DEF WellFormedAt
<1>3. /\ M = {i \in A : matches(a[i], u, c)}
      /\ N = {i \in B : matches(b[i], u, c)}
  <2>1. \A i : matches(a[i], u, c) => a[i].operator \in Operators
    BY MatchingIsWellFormed
  <2>2. \A i : matches(b[i], u, c) => b[i].operator \in Operators
    BY MatchingIsWellFormed
  <2> QED BY <2>1, <2>2 DEF Matching, WellFormedAt
<1> HIDE DEF a, b, A, B, M, N
<1>4. \A i \in M : i \in A /\ f[i] \in N
  BY <1>1, <1>3
<1>5. \A j \in N : \E i \in M : f[i] = j
  BY <1>1, <1>3
<1>6. ASSUME M # {}
      PROVE  b[First(N)] = a[First(M)]
  <2> DEFINE m == First(M)
  <2>1. m \in M /\ \A i \in M : m <= i
    <3>1. M \subseteq Nat
      BY <1>2, <1>4
    <3> QED BY <1>6, <3>1, FirstIsLeast
  <2> HIDE DEF m
  <2>2. f[m] \in N /\ N \subseteq Nat /\ m \in A
    BY <1>2, <1>3, <1>4, <2>1
  <2>3. ASSUME NEW j \in N PROVE f[m] <= j
    <3>1. PICK i \in M : f[i] = j
      BY <1>5
    <3>2. i \in A /\ i \in Nat /\ m \in Nat /\ m <= i /\ f[m] \in Nat
      BY <1>2, <1>4, <2>1, <2>2
    <3>3. CASE i = m
      BY <3>1, <3>2, <3>3
    <3>4. CASE m < i
      <4>1. f[m] < f[i]
        BY <1>1, <2>2, <3>2, <3>4
      <4>2. f[i] \in Nat
        BY <2>2, <3>1
      <4> QED BY <3>1, <3>2, <4>1, <4>2
    <3> QED BY <3>2, <3>3, <3>4
  <2>4. First(N) = f[m]
    BY <2>2, <2>3, LeastIsFirst
  <2>5. b[f[m]] = a[m]
    BY <1>1, <2>2
  <2> QED BY <2>4, <2>5 DEF m
<1>7. M = {} <=> N = {}
  BY <1>4, <1>5
<1> QED BY <1>6, <1>7 DEF a, b, M, N

(* Rules with an unknown operator are inert in every list, at every place, *)
(* for every user and context.                                             *)
THEOREM MalformedRulesHold == Spec => MalformedRulesAreInert
<1> DEFINE Inert(k) ==
        /\ flags'[k] = [flags[k] EXCEPT !.targeting_rules = flags'[k].targeting_rules]
        /\ SameWellFormed(flags[k].targeting_rules, flags'[k].targeting_rules)
        => \A u \in Users, c \in Contexts : evaluate(flags'[k], u, c) = evaluate(flags[k], u, c)
<1>1. ASSUME TypeOK, TypeOK', NEW k \in FlagKeys PROVE Inert(k)
  <2> SUFFICES ASSUME flags'[k] = [flags[k] EXCEPT !.targeting_rules = flags'[k].targeting_rules],
                      SameWellFormed(flags[k].targeting_rules, flags'[k].targeting_rules),
                      NEW u \in Users, NEW c \in Contexts
               PROVE  evaluate(flags'[k], u, c) = evaluate(flags[k], u, c)
    OBVIOUS
  <2>1. PICK s \in FlagSnapshot, t \in FlagSnapshot : s = flags[k] /\ t = flags'[k]
    BY <1>1 DEF TypeOK
  <2>2. SameWellFormed(s.targeting_rules, t.targeting_rules)
    BY <2>1
  <2>3. /\ Matching(s, u, c) = {} <=> Matching(t, u, c) = {}
        /\ Matching(s, u, c) # {} =>
              t.targeting_rules[First(Matching(t, u, c))] = s.targeting_rules[First(Matching(s, u, c))]
    BY <2>2, SameFirstMatch
  <2>4. /\ t.key = s.key /\ t.archived = s.archived /\ t.enabled = s.enabled
        /\ t.value = s.value /\ t.default_value = s.default_value
        /\ t.rollout_percentage = s.rollout_percentage
    <3>1. t = [s EXCEPT !.targeting_rules = t.targeting_rules]
      BY <2>1
    <3> QED BY <3>1 DEF FlagSnapshot
  <2>5. evaluate(t, u, c) = evaluate(s, u, c)
    BY <2>3, <2>4 DEF evaluate
  <2> QED BY <2>1, <2>5
<1>2. TypeOK /\ TypeOK' => \A k \in FlagKeys : Inert(k)
  BY <1>1
<1> QED BY <1>2, TypeCorrect, PTL DEF MalformedRulesAreInert, Spec

----------------------------------------------------------------------------
(* The keys of an answer are those of the flags that are not archived.     *)
LEMMA AnsweredKeys ==
    ASSUME TypeOK, NEW u, NEW c
    PROVE  DOMAIN evaluate_flags(u, c, FlagKeys) = {k \in FlagKeys : ~flags[k].archived}
<1>1. {s.key : s \in load_flag_set} = {k \in FlagKeys : ~flags[k].archived}
  BY DEF TypeOK, load_flag_set
<1>2. DOMAIN evaluate_flags(u, c, FlagKeys) = {s.key : s \in load_flag_set} \intersect FlagKeys
  BY DEF evaluate_flags
<1> QED BY <1>1, <1>2

(* No operation of PUT or DELETE clears archived_at.                       *)
LEMMA ArchivedStays ==
    ASSUME TypeOK, [Next]_flags, NEW k \in FlagKeys, flags[k].archived
    PROVE  flags'[k].archived
<1>1. \A j \in FlagKeys : flags[j] \in FlagSnapshot
  BY DEF TypeOK
<1>2. CASE UNCHANGED flags
  BY <1>2
<1>3. ASSUME NEW j \in FlagKeys,
             \/ \E b \in BOOLEAN : SetEnabled(j, b)
             \/ \E n \in Percentages : SetRollout(j, n)
             \/ \E rules \in RuleLists : SetRules(j, rules)
             \/ \E v \in FlagScalars : SetValue(j, v) \/ SetDefault(j, v)
             \/ Archive(j)
      PROVE  flags'[k].archived
  <2>1. CASE \E b \in BOOLEAN : SetEnabled(j, b)
    BY <1>1, <2>1 DEF SetEnabled, FlagSnapshot, TypeOK
  <2>2. CASE \E n \in Percentages : SetRollout(j, n)
    BY <1>1, <2>2 DEF SetRollout, FlagSnapshot, TypeOK
  <2>3. CASE \E rules \in RuleLists : SetRules(j, rules)
    BY <1>1, <2>3 DEF SetRules, FlagSnapshot, TypeOK
  <2>4. CASE \E v \in FlagScalars : SetValue(j, v)
    BY <1>1, <2>4 DEF SetValue, FlagSnapshot, TypeOK
  <2>5. CASE \E v \in FlagScalars : SetDefault(j, v)
    BY <1>1, <2>5 DEF SetDefault, FlagSnapshot, TypeOK
  <2>6. CASE Archive(j)
    BY <1>1, <2>6 DEF Archive, FlagSnapshot, TypeOK
  <2> QED BY <1>3, <2>1, <2>2, <2>3, <2>4, <2>5, <2>6
<1> QED BY <1>2, <1>3 DEF Next

(* DELETE is final: an archived flag is in no answer of /evaluate, then    *)
(* and whatever PUTs follow.                                               *)
THEOREM ArchivalHolds == Spec => ArchivalIsFinal
<1>1. ASSUME NEW u, NEW c
      PROVE  (TypeOK => DOMAIN evaluate_flags(u, c, FlagKeys) = {k \in FlagKeys : ~flags[k].archived})'
  <2>1. TypeOK => DOMAIN evaluate_flags(u, c, FlagKeys) = {k \in FlagKeys : ~flags[k].archived}
    BY AnsweredKeys
  <2> QED BY <2>1, PTL
<1>2. ASSUME TypeOK, TypeOK', [Next]_flags, NEW k \in FlagKeys, NEW u \in Users, NEW c \in Contexts,
             flags[k].archived \/ flags'[k].archived
      PROVE  k \notin DOMAIN evaluate_flags(u, c, FlagKeys)'
  <2>1. (DOMAIN evaluate_flags(u, c, FlagKeys))' = {j \in FlagKeys : ~flags'[j].archived}
    BY <1>2, <1>1
  <2>2. flags'[k].archived
    BY <1>2, ArchivedStays
  <2> QED BY <2>1, <2>2
<1>3. TypeOK /\ TypeOK' /\ [Next]_flags =>
        [\A k \in FlagKeys, u \in Users, c \in Contexts :
            flags[k].archived \/ flags'[k].archived =>
                k \notin DOMAIN evaluate_flags(u, c, FlagKeys)']_flags
  BY <1>2
<1> QED BY <1>3, TypeCorrect, PTL DEF ArchivalIsFinal, Spec
============================================================================
