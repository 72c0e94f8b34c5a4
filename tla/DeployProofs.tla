---------------------------- MODULE DeployProofs ----------------------------
(* What holds of the deployment pipeline for any number of runs.           *)
EXTENDS Deploy, FiniteSetTheorems, TLAPS

(* A run knows its candidate only from the step that creates it on, and    *)
(* the candidate is younger than everything that served before.            *)
Ages ==
    /\ \A rev \in serving : rev <= runs
    /\ run.cand # None => run.cand = runs
    /\ run.cand = None /\ ~At("idle") => runs \notin serving
    /\ run.prev # None => run.prev < runs
    /\ ~At("idle") => runs > 0
    /\ At("idle") => run.cand = None /\ run.prev = None
    /\ run.pc \in {"snapshot", "build", "migrate", "deploy_candidate"} => run.cand = None
    /\ run.pc \in {"smoke_test", "canary", "watch", "promote", "verify"} => run.cand # None
    /\ At("snapshot") => run.prev = None

(* What a run may still give traffic to was tested, or is the bootstrap.   *)
Tested ==
    /\ serving \subseteq passed \union {Bootstrap}
    /\ run.prev # None => run.prev \in passed \union {Bootstrap}
    /\ run.pc \in {"canary", "watch", "promote"} => run.cand \in passed

(* ... and needs no migration that the database lacks; the candidate lacks *)
(* none either, unless an execution of an earlier run came late.           *)
Schema ==
    /\ \A rev \in serving : needs[rev] <= schema
    /\ run.prev # None => needs[run.prev] <= schema
    /\ run.cand # None => needs[run.cand] <= schema /\ (late \/ needs[run.cand] = schema)
    /\ At("deploy_candidate") => run.head <= schema /\ (late \/ run.head = schema)
    /\ PromotedMatchesSchema

(* Only the candidate can be neither watched nor stranded nor the          *)
(* bootstrap, and it is alone only once it was watched.                    *)
Vetted ==
    /\ serving \subseteq watched \union stranded \union {run.cand, Bootstrap}
    /\ run.prev # None => run.prev \in watched \union stranded \union {Bootstrap}
    /\ At("promote") => run.cand \in watched
    /\ run.cand # None /\ run.cand \notin watched => \E rev \in serving : rev # run.cand

(* Without its candidate, production is not split, or was stranded.        *)
Whole ==
    \/ serving \intersect stranded # {}
    \/ \A x, y \in serving \ {run.cand} : x = y

(* The rollback target had traffic when the run started.                   *)
Target ==
    /\ At("snapshot") => serving = before
    /\ run.prev # None => run.prev \in before
    /\ At("verify") => run.prev # None /\ serving = {run.prev}
    /\ RollbackRestores

IInv == TypeOK /\ Ages /\ Tested /\ Schema /\ Vetted /\ Whole /\ Target

----------------------------------------------------------------------------
(* The pipeline starts in the inductive invariant.                         *)
LEMMA InitIInv == Init => IInv
<1> SUFFICES ASSUME Init PROVE IInv
  OBVIOUS
<1> USE DeployAssumption DEF Init, NoRun, Revisions, Bootstrap, At
<1>1. TypeOK
  <2>1. late \in BOOLEAN
    BY Zenon
  <2>2. run \in [pc : PCs, prev : Revisions \union {None}, cand : Revisions \union {None},
                head : 0..MaxHead]
    BY DEF PCs
  <2> QED
    BY <2>1, <2>2 DEF TypeOK, Outcomes
<1>2. Ages /\ Tested
  BY DEF Ages, Tested
<1>3. Schema
  BY DEF Schema, PromotedMatchesSchema
<1>4. Vetted /\ Whole /\ Target
  BY DEF Vetted, Whole, Target, RollbackRestores
<1> QED
  BY <1>1, <1>2, <1>3, <1>4 DEF IInv

(* Every step of a run, every failure and every cancellation keeps the     *)
(* inductive invariant.                                                    *)
LEMMA NextIInv == IInv /\ [Next]_vars => IInv'
<1> SUFFICES ASSUME IInv, [Next]_vars PROVE IInv'
  OBVIOUS
<1> USE DeployAssumption
    DEF database, tested, Revisions, Bootstrap, At, Goto, NoRun, IInv, TypeOK, PCs, Outcomes,
        CanFail, Ages, Tested, Schema, Vetted, Whole, Target, PromotedMatchesSchema,
        RollbackRestores
<1>1. ASSUME NEW head \in 0..MaxHead, Push(head) PROVE IInv'
  <2>1. TypeOK'
    BY <1>1 DEF Push
  <2>2. Ages'
    BY <1>1 DEF Push
  <2>3. Tested'
    BY <1>1 DEF Push
  <2>4. Schema'
    BY <1>1 DEF Push
  <2>5. Vetted'
    BY <1>1 DEF Push
  <2>6. Whole'
    BY <1>1 DEF Push
  <2>7. Target'
    BY <1>1 DEF Push
  <2> QED
    BY <2>1, <2>2, <2>3, <2>4, <2>5, <2>6, <2>7 DEF IInv
<1>2. CASE Snapshot
  <2>1. TypeOK'
    <3>1. PICK prev \in serving \union {None} :
              run' = [pc |-> "build", prev |-> prev, cand |-> None, head |-> run.head]
      BY <1>2 DEF Snapshot
    <3>2. prev \in Revisions \union {None} /\ run.head \in 0..MaxHead
      OBVIOUS
    <3>3. run' \in [pc : PCs, prev : Revisions \union {None}, cand : Revisions \union {None},
                    head : 0..MaxHead]
      BY <3>1, <3>2
    <3> QED
      BY <1>2, <3>3 DEF Snapshot
  <2>2. Ages'
    BY <1>2 DEF Snapshot
  <2>3. Tested'
    BY <1>2 DEF Snapshot
  <2>4. Schema'
    BY <1>2 DEF Snapshot
  <2>5. Vetted'
    BY <1>2 DEF Snapshot
  <2>6. Whole'
    BY <1>2 DEF Snapshot
  <2>7. Target'
    BY <1>2 DEF Snapshot
  <2> QED
    BY <2>1, <2>2, <2>3, <2>4, <2>5, <2>6, <2>7 DEF IInv
<1>3. CASE Build
  <2>1. TypeOK'
    BY <1>3 DEF Build
  <2>2. Ages'
    BY <1>3 DEF Build
  <2>3. Tested'
    BY <1>3 DEF Build
  <2>4. Schema'
    BY <1>3 DEF Build
  <2>5. Vetted'
    BY <1>3 DEF Build
  <2>6. Whole'
    BY <1>3 DEF Build
  <2>7. Target'
    BY <1>3 DEF Build
  <2> QED
    BY <2>1, <2>2, <2>3, <2>4, <2>5, <2>6, <2>7 DEF IInv
<1>4. CASE Migrate
  <2>1. TypeOK'
    BY <1>4 DEF Migrate
  <2>2. Ages'
    BY <1>4 DEF Migrate
  <2>3. Tested'
    BY <1>4 DEF Migrate
  <2>4. Schema'
    BY <1>4 DEF Migrate
  <2>5. Vetted'
    BY <1>4 DEF Migrate
  <2>6. Whole'
    BY <1>4 DEF Migrate
  <2>7. Target'
    BY <1>4 DEF Migrate
  <2> QED
    BY <2>1, <2>2, <2>3, <2>4, <2>5, <2>6, <2>7 DEF IInv
<1>5. CASE DeployCandidate
  <2>1. TypeOK'
    BY <1>5 DEF DeployCandidate
  <2>2. Ages'
    BY <1>5 DEF DeployCandidate
  <2>3. Tested'
    BY <1>5 DEF DeployCandidate
  <2>4. Schema'
    BY <1>5 DEF DeployCandidate
  <2>5. Vetted'
    <3>1. PICK rev \in serving : rev # runs
      BY <1>5 DEF DeployCandidate
    <3>2. serving' = serving /\ run'.cand = runs /\ run'.prev = run.prev /\ run'.pc = "smoke_test"
      BY <1>5 DEF DeployCandidate
    <3> QED
      BY <1>5, <3>1, <3>2 DEF DeployCandidate
  <2>6. Whole'
    BY <1>5 DEF DeployCandidate
  <2>7. Target'
    BY <1>5 DEF DeployCandidate
  <2> QED
    BY <2>1, <2>2, <2>3, <2>4, <2>5, <2>6, <2>7 DEF IInv
<1>6. CASE SmokeTest
  <2>1. TypeOK'
    <3>1. passed' \subseteq Revisions
      <4>1. passed' \subseteq passed \union {run.cand} /\ run.cand \in Revisions
        BY <1>6 DEF SmokeTest
      <4> QED
        BY <4>1
    <3>2. run' \in [pc : PCs, prev : Revisions \union {None}, cand : Revisions \union {None},
                   head : 0..MaxHead]
      BY <1>6 DEF SmokeTest
    <3> QED
      BY <1>6, <3>1, <3>2 DEF SmokeTest
  <2>2. Ages'
    BY <1>6 DEF SmokeTest
  <2>3. Tested'
    BY <1>6 DEF SmokeTest
  <2>4. Schema'
    BY <1>6 DEF SmokeTest
  <2>5. Vetted'
    BY <1>6 DEF SmokeTest
  <2>6. Whole'
    BY <1>6 DEF SmokeTest
  <2>7. Target'
    BY <1>6 DEF SmokeTest
  <2> QED
    BY <2>1, <2>2, <2>3, <2>4, <2>5, <2>6, <2>7 DEF IInv
<1>7. CASE Canary
  <2>1. TypeOK'
    BY <1>7 DEF Canary
  <2>2. Ages'
    BY <1>7 DEF Canary
  <2>3. Tested'
    BY <1>7 DEF Canary
  <2>4. Schema'
    BY <1>7 DEF Canary
  <2>5. Vetted'
    BY <1>7 DEF Canary
  <2>6. Whole'
    BY <1>7 DEF Canary
  <2>7. Target'
    BY <1>7 DEF Canary
  <2> QED
    BY <2>1, <2>2, <2>3, <2>4, <2>5, <2>6, <2>7 DEF IInv
<1>8. CASE WatchPasses
  <2>1. TypeOK'
    BY <1>8 DEF WatchPasses
  <2>2. Ages'
    BY <1>8 DEF WatchPasses
  <2>3. Tested'
    BY <1>8 DEF WatchPasses
  <2>4. Schema'
    BY <1>8 DEF WatchPasses
  <2>5. Vetted'
    BY <1>8 DEF WatchPasses
  <2>6. Whole'
    BY <1>8 DEF WatchPasses
  <2>7. Target'
    BY <1>8 DEF WatchPasses
  <2> QED
    BY <2>1, <2>2, <2>3, <2>4, <2>5, <2>6, <2>7 DEF IInv
<1>9. CASE Promote
  <2>1. TypeOK'
    BY <1>9 DEF Promote
  <2>2. Ages'
    BY <1>9 DEF Promote
  <2>3. Tested'
    BY <1>9 DEF Promote
  <2>4. Schema'
    BY <1>9 DEF Promote
  <2>5. Vetted'
    BY <1>9 DEF Promote
  <2>6. Whole'
    BY <1>9 DEF Promote
  <2>7. Target'
    BY <1>9 DEF Promote
  <2> QED
    BY <2>1, <2>2, <2>3, <2>4, <2>5, <2>6, <2>7 DEF IInv
<1>10. CASE StepFails
  <2>1. TypeOK'
    <3>1. serving' \subseteq Revisions /\ serving' # {}
      <4>1. \/ serving' = serving
            \/ /\ run.pc \in {"canary", "promote"}
               /\ serving' = serving \union {run.cand} \/ serving' = {run.cand}
        BY <1>10 DEF StepFails, TrafficAfterFailure, MayRollBack
      <4>2. run.pc \in {"canary", "promote"} => run.cand \in Revisions
        OBVIOUS
      <4>3. CASE serving' = serving
        BY <4>3
      <4>4. CASE run.cand \in Revisions /\ serving' = serving \union {run.cand}
        BY <4>4
      <4>5. CASE run.cand \in Revisions /\ serving' = {run.cand}
        BY <4>5
      <4> QED
        BY <4>1, <4>2, <4>3, <4>4, <4>5
    <3>2. schema' = schema /\ late' = late /\ orphans' \subseteq 0..MaxHead
      BY <1>10 DEF StepFails, JobAfterFailure
    <3>3. run' \in [pc : PCs, prev : Revisions \union {None}, cand : Revisions \union {None},
                    head : 0..MaxHead]
      BY <1>10 DEF StepFails
    <3> QED
      BY <1>10, <3>1, <3>2, <3>3 DEF StepFails
  <2>2. Ages'
    BY <1>10 DEF StepFails, TrafficAfterFailure, MayRollBack, JobAfterFailure
  <2>3. Tested'
    BY <1>10 DEF StepFails, TrafficAfterFailure, MayRollBack, JobAfterFailure
  <2>4. Schema'
    BY <1>10 DEF StepFails, TrafficAfterFailure, MayRollBack, JobAfterFailure
  <2>5. Vetted'
    BY <1>10 DEF StepFails, TrafficAfterFailure, MayRollBack, JobAfterFailure
  <2>6. Whole'
    BY <1>10 DEF StepFails, TrafficAfterFailure, MayRollBack, JobAfterFailure
  <2>7. Target'
    BY <1>10 DEF StepFails, TrafficAfterFailure, MayRollBack, JobAfterFailure
  <2> QED
    BY <2>1, <2>2, <2>3, <2>4, <2>5, <2>6, <2>7 DEF IInv
<1>11. CASE NoRollback
  <2>1. TypeOK'
    <3>1. /\ serving' \subseteq Revisions /\ serving' # {}
          /\ stranded' \subseteq stranded \union serving'
      BY <1>11 DEF NoRollback, End
    <3>2. /\ run' = NoRun /\ outcome' \in Outcomes
          /\ UNCHANGED <<database, needs, runs, before, tested>>
      BY <1>11 DEF NoRollback, End
    <3> QED
      BY <3>1, <3>2, SMTT(30)
  <2>2. Ages'
    BY <1>11 DEF NoRollback, End
  <2>3. Tested'
    BY <1>11 DEF NoRollback, End
  <2>4. Schema'
    BY <1>11 DEF NoRollback, End
  <2>5. Vetted'
    BY <1>11 DEF NoRollback, End
  <2>6. Whole'
    BY <1>11 DEF NoRollback, End
  <2>7. Target'
    BY <1>11 DEF NoRollback, End
  <2> QED
    BY <2>1, <2>2, <2>3, <2>4, <2>5, <2>6, <2>7 DEF IInv
<1>12. CASE Rollback
  <2>1. TypeOK'
    BY <1>12 DEF Rollback, MayRollBack, Shift
  <2>2. Ages'
    BY <1>12 DEF Rollback, MayRollBack, Shift
  <2>3. Tested'
    BY <1>12 DEF Rollback, MayRollBack, Shift
  <2>4. Schema'
    BY <1>12 DEF Rollback, MayRollBack, Shift
  <2>5. Vetted'
    BY <1>12 DEF Rollback, MayRollBack, Shift
  <2>6. Whole'
    BY <1>12 DEF Rollback, MayRollBack, Shift
  <2>7. Target'
    BY <1>12 DEF Rollback, MayRollBack, Shift
  <2> QED
    BY <2>1, <2>2, <2>3, <2>4, <2>5, <2>6, <2>7 DEF IInv
<1>13. CASE RollbackFails
  <2>1. TypeOK'
    <3>0. PICK traffic \in TrafficAfterFailure : End("stuck", traffic)
      BY <1>13 DEF RollbackFails
    <3>a. traffic \in {serving, {run.prev}} /\ run.prev \in Revisions
      BY <1>13, <3>0 DEF RollbackFails, MayRollBack, TrafficAfterFailure
    <3>b. serving' = traffic /\ stranded' = stranded \union (traffic \intersect {run.cand})
      BY <3>0 DEF End
    <3>1. /\ serving' \subseteq Revisions /\ serving' # {}
          /\ stranded' \subseteq stranded \union serving'
      BY <3>a, <3>b
    <3>2. /\ run' = NoRun /\ outcome' \in Outcomes
          /\ UNCHANGED <<database, needs, runs, before, tested>>
      BY <1>13 DEF RollbackFails, End
    <3> QED
      BY <3>1, <3>2, SMTT(30)
  <2>2. Ages'
    BY <1>13 DEF RollbackFails, MayRollBack, End, TrafficAfterFailure
  <2>3. Tested'
    BY <1>13 DEF RollbackFails, MayRollBack, End, TrafficAfterFailure
  <2>4. Schema'
    BY <1>13 DEF RollbackFails, MayRollBack, End, TrafficAfterFailure
  <2>5. Vetted'
    BY <1>13 DEF RollbackFails, MayRollBack, End, TrafficAfterFailure
  <2>6. Whole'
    BY <1>13 DEF RollbackFails, MayRollBack, End, TrafficAfterFailure
  <2>7. Target'
    BY <1>13 DEF RollbackFails, MayRollBack, End, TrafficAfterFailure
  <2> QED
    BY <2>1, <2>2, <2>3, <2>4, <2>5, <2>6, <2>7 DEF IInv
<1>14. CASE Verify
  <2>1. TypeOK'
    BY <1>14, SMTT(30) DEF Verify
  <2>2. Ages'
    BY <1>14 DEF Verify
  <2>3. Tested'
    BY <1>14 DEF Verify
  <2>4. Schema'
    BY <1>14 DEF Verify
  <2>5. Vetted'
    BY <1>14 DEF Verify
  <2>6. Whole'
    BY <1>14 DEF Verify
  <2>7. Target'
    BY <1>14 DEF Verify
  <2> QED
    BY <2>1, <2>2, <2>3, <2>4, <2>5, <2>6, <2>7 DEF IInv
<1>15. CASE Cancel
  <2>a. PICK traffic \in TrafficAfterFailure : End("cancelled", traffic)
    BY <1>15 DEF Cancel
  <2>b. /\ serving' = traffic /\ run' = NoRun /\ outcome' = "cancelled"
        /\ stranded' = stranded \union (traffic \intersect {run.cand})
        /\ UNCHANGED <<needs, runs, before, tested>>
    BY <2>a DEF End
  <2>c. schema' = schema /\ late' = late /\ orphans' \subseteq 0..MaxHead
    BY <1>15 DEF Cancel, JobAfterFailure
  <2>d. \/ traffic = serving
        \/ At("canary") /\ traffic = serving \union {run.cand}
        \/ At("promote") /\ traffic = {run.cand}
        \/ At("rollback") /\ run.cand # None /\ run.prev # None /\ traffic = {run.prev}
    BY <2>a DEF TrafficAfterFailure, MayRollBack
  <2>e. ~At("idle")
    BY <1>15 DEF Cancel
  <2>1. TypeOK'
    <3>a. At("canary") \/ At("promote") => run.cand \in Revisions
      OBVIOUS
    <3>b. run.prev # None => run.prev \in Revisions
      OBVIOUS
    <3>1. serving' \subseteq Revisions /\ serving' # {}
      BY <2>b, <2>d, <3>a, <3>b
    <3>2. stranded' \subseteq stranded \union serving'
      BY <2>b
    <3>3. outcome' \in Outcomes
      BY <2>b
    <3>4. stranded' \subseteq Revisions
      BY <3>1, <3>2
    <3>5. run' \in [pc : PCs, prev : Revisions \union {None}, cand : Revisions \union {None},
                   head : 0..MaxHead]
      BY <2>b
    <3>6. /\ needs' = needs /\ runs' = runs /\ before' = before
          /\ passed' = passed /\ watched' = watched
      BY <2>b
    <3> QED
      BY <2>c, <3>1, <3>3, <3>4, <3>5, <3>6
  <2>2. Ages'
    <3>1. \A rev \in serving' : rev <= runs
      <4>1. /\ At("canary") \/ At("promote") => run.cand = runs
            /\ run.prev # None => run.prev < runs
            /\ \A rev \in serving : rev <= runs
            /\ run.prev # None => run.prev \in Nat
            /\ runs \in Nat
        OBVIOUS
      <4>2. CASE traffic = serving
        BY <2>b, <4>1, <4>2
      <4>3. CASE At("canary") /\ traffic = serving \union {run.cand}
        BY <2>b, <4>1, <4>3
      <4>4. CASE At("promote") /\ traffic = {run.cand}
        BY <2>b, <4>1, <4>4
      <4>5. CASE run.prev # None /\ traffic = {run.prev}
        BY <2>b, <4>1, <4>5
      <4> QED
        BY <2>d, <4>2, <4>3, <4>4, <4>5
    <3>2. run'.cand = None /\ run'.prev = None /\ run'.pc = "idle" /\ runs' = runs
      BY <2>b
    <3> QED
      BY <3>1, <3>2
  <2>3. Tested'
    BY <2>b, <2>d
  <2>4. Schema'
    BY <2>b, <2>c, <2>d
  <2>5. Vetted'
    BY <2>b, <2>d
  <2>6. Whole'
    <3>1. CASE traffic = serving \/ (At("canary") /\ traffic = serving \union {run.cand})
      <4>1. run.cand \in serving' => run.cand \in serving' \intersect stranded'
        BY <2>b
      <4>2. serving \subseteq serving' /\ stranded \subseteq stranded'
        BY <2>b, <3>1
      <4>3. run.cand \notin serving' => serving' = serving
        BY <2>b, <3>1
      <4>4. run.cand \notin serving' => Whole'
        BY <2>b, <4>2, <4>3
      <4> QED
        BY <4>1, <4>4
    <3>2. CASE traffic = {run.cand} \/ traffic = {run.prev}
      BY <2>b, <3>2
    <3> QED
      BY <2>d, <3>1, <3>2
  <2>7. Target'
    BY <2>b
  <2> QED
    BY <2>1, <2>2, <2>3, <2>4, <2>5, <2>6, <2>7 DEF IInv
<1>17. ASSUME NEW head \in 0..MaxHead, JobCommits(head) \/ JobEnds(head) PROVE IInv'
  <2>1. /\ schema' \in 0..MaxHead /\ schema <= schema'
        /\ orphans' \subseteq orphans
        /\ (schema' = schema /\ late' = late) \/ late' = TRUE
    BY <1>17 DEF JobCommits, JobEnds
  <2>2. UNCHANGED <<serving, needs, run, runs, before, tested, stranded, outcome>>
    BY <1>17 DEF JobCommits, JobEnds
  <2>3. TypeOK'
    BY <2>1, <2>2
  <2>4. Ages' /\ Tested' /\ Vetted'
    BY <2>2
  <2>5. Schema'
    BY <2>1, <2>2
  <2>6. Whole' /\ Target'
    BY <2>2
  <2> QED
    BY <2>3, <2>4, <2>5, <2>6 DEF IInv
<1>16. CASE UNCHANGED vars
  <2>1. TypeOK'
    BY <1>16 DEF vars
  <2>2. Ages' /\ Tested' /\ Schema'
    BY <1>16 DEF vars
  <2>3. Vetted' /\ Whole' /\ Target'
    BY <1>16 DEF vars
  <2> QED
    BY <2>1, <2>2, <2>3 DEF IInv
<1> QED
  BY <1>1, <1>2, <1>3, <1>4, <1>5, <1>6, <1>7, <1>8, <1>9, <1>10, <1>11, <1>12, <1>13, <1>14,
     <1>15, <1>16, <1>17 DEF Next, Step

(* Every reachable state of the pipeline satisfies the inductive           *)
(* invariant.                                                              *)
LEMMA Inductive == Spec => []IInv
  BY InitIInv, NextIInv, PTL DEF Spec

----------------------------------------------------------------------------
(* The pipeline's state keeps its types, for any number of runs and of     *)
(* migrations.                                                             *)
THEOREM TypeCorrect == Spec => []TypeOK
<1>1. IInv => TypeOK
  BY DEF IInv
<1> QED
  BY <1>1, Inductive, PTL

(* No sequence of runs, failures, cancellations and late migrations gives  *)
(* traffic to a revision that did not pass its smoke test (the bootstrap   *)
(* apart) or that is ahead of the schema, and a promoted one is behind the *)
(* schema only through a migration that outlived its run.                  *)
THEOREM OnlyFitRevisionsServe == Spec => []FitToServe
<1>1. IInv => FitToServe
  BY DEF IInv, Tested, Schema, FitToServe, OnlyTestedServe, SchemaBeforeCode
<1> QED
  BY <1>1, Inductive, PTL

(* Production stays split between two runs only if a run that was          *)
(* cancelled, had no snapshot or could not roll back left its candidate.   *)
THEOREM SplitsHaveCause == Spec => []SplitHasCause
<1>1. IInv => SplitHasCause
  <2> SUFFICES ASSUME IInv, At("idle"), serving \intersect stranded = {}
               PROVE  ~(Cardinality(serving) > 1)
    BY DEF SplitHasCause
  <2>1. run.cand = None
    BY DEF IInv, Ages
  <2>2. PICK rev \in serving : TRUE
    BY DEF IInv, TypeOK
  <2>3. None \notin serving
    <3>1. Revisions \subseteq Nat
      BY DeployAssumption DEF Revisions
    <3>2. serving \subseteq Revisions
      BY DEF IInv, TypeOK
    <3> QED
      BY <3>1, <3>2, DeployAssumption
  <2>4. serving = {rev}
    BY <2>1, <2>2, <2>3 DEF IInv, Whole
  <2> QED
    BY <2>4, FS_Singleton
<1> QED
  BY <1>1, Inductive, PTL

(* A revision other than the bootstrap that nobody watched has all the     *)
(* traffic only if a run stranded it.                                      *)
THEOREM FullTrafficIsVetted == Spec => []FullTrafficVetted
<1>1. IInv => FullTrafficVetted
  <2> SUFFICES ASSUME IInv, NEW rev \in Revisions, serving = {rev}
               PROVE  rev \in watched \union stranded \union {Bootstrap}
    BY DEF FullTrafficVetted
  <2>1. CASE rev = run.cand
    <3>1. rev # None
      BY DeployAssumption DEF Revisions
    <3> QED
      BY <2>1, <3>1 DEF IInv, Vetted
  <2>2. CASE rev # run.cand
    BY <2>2 DEF IInv, Vetted
  <2> QED
    BY <2>1, <2>2
<1> QED
  BY <1>1, Inductive, PTL

(* A run that rolled back leaves the traffic where some was when it        *)
(* started.                                                                *)
THEOREM RollbackIsRestoring == Spec => []RollbackRestores
<1>1. IInv => RollbackRestores
  BY DEF IInv, Target
<1> QED
  BY <1>1, Inductive, PTL
=============================================================================
