------------------------------- MODULE Deploy -------------------------------
(***************************************************************************)
(* The deployment pipeline (.github/workflows/deploy.yml): one run at a    *)
(* time builds an image, migrates the shared database, creates a revision  *)
(* without traffic, smoke-tests it, gives it 10% of the traffic, watches   *)
(* it and promotes it; a failed step rolls the traffic back.               *)
(*                                                                         *)
(* Revisions are numbered by the run that creates them; the one that       *)
(* serves at first is Bootstrap, on a first deploy a placeholder image     *)
(* that answers no probe.  A percentage is abstracted to having traffic or *)
(* not.  The migration runs as a Cloud Run job, which goes on without the  *)
(* step that waits for it.                                                 *)
(* A migration head is the number of migrations a commit contains.         *)
(***************************************************************************)
EXTENDS Naturals, FiniteSets

CONSTANTS
    MaxRuns,    \* bound on the runs of the workflow
    MaxHead,    \* bound on the migrations
    None        \* an empty step output

ASSUME DeployAssumption == MaxRuns \in Nat /\ MaxHead \in Nat /\ None \notin Nat

VARIABLES
    serving,    \* the revisions with traffic
    schema,     \* how many migrations the database has
    needs,      \* needs[rev]: the migration head of the code of revision rev
    orphans,    \* the heads that executions of the job are still working
                \* toward although the step that started them is over
    run,        \* the workflow run in progress
    runs,       \* how many runs were started
    before,     \* history: serving when the run started
    passed,     \* history: the revisions that passed the smoke test
    late,       \* history: did an orphan change the schema since a run migrated
    watched,    \* history: the revisions that passed the watch
    stranded,   \* history: candidates left with traffic by a run that could
                \* not roll back
    outcome     \* history: how the last run ended

database == <<schema, orphans, late>>
tested == <<passed, watched>>

vars == <<serving, database, needs, run, runs, before, tested, stranded, outcome>>

Revisions == 0..MaxRuns
Bootstrap == 0

NoRun == [pc |-> "idle", prev |-> None, cand |-> None, head |-> 0]

Init ==
    /\ serving = {Bootstrap}
    /\ schema = 0 /\ orphans = {} /\ late = FALSE
    /\ needs = [rev \in Revisions |-> 0]
    /\ run = NoRun
    /\ runs = 0
    /\ before = {Bootstrap}
    /\ passed = {} /\ watched = {}
    /\ stranded = {}
    /\ outcome = "none"

At(step) == run.pc = step
Goto(step) == run' = [pc |-> step, prev |-> run.prev, cand |-> run.cand, head |-> run.head]

----------------------------------------------------------------------------
(* A push to main, or a manual dispatch, whose tests passed.  The          *)
(* concurrency group lets it start only when no other run is in progress.  *)
Push(head) ==
    /\ At("idle")
    /\ runs < MaxRuns
    /\ run' = [pc |-> "snapshot", prev |-> None, cand |-> None, head |-> head]
    /\ runs' = runs + 1
    /\ before' = serving
    /\ UNCHANGED <<serving, database, needs, tested, stranded, outcome>>

(* status.traffic[0]: of a split, either revision; empty if describe fails *)
(* (its error is swallowed).                                               *)
Snapshot ==
    /\ At("snapshot")
    /\ \E prev \in serving \union {None} :
            run' = [pc |-> "build", prev |-> prev, cand |-> None, head |-> run.head]
    /\ UNCHANGED <<serving, database, needs, runs, before, tested, stranded, outcome>>

Build ==
    /\ At("build")
    /\ Goto("migrate")
    /\ UNCHANGED <<serving, database, needs, runs, before, tested, stranded, outcome>>

(* Mutant: the result of the job is ignored.                               *)
Migrate_IgnoresFailure ==
    /\ At("migrate")
    /\ schema' = IF run.head >= schema THEN run.head ELSE schema
    /\ late' = FALSE
    /\ Goto("deploy_candidate")
    /\ UNCHANGED <<serving, orphans, needs, runs, before, tested, stranded, outcome>>

(* Mutant: only the image of the job is updated, the job is not executed.  *)
Migrate_NotExecuted ==
    /\ At("migrate")
    /\ run.head >= schema
    /\ late' = FALSE
    /\ Goto("deploy_candidate")
    /\ UNCHANGED <<serving, schema, orphans, needs, runs, before, tested, stranded, outcome>>

(* alembic upgrade head.  An image that does not contain the migration the *)
(* database is at cannot run it.                                           *)
Migrate ==
    /\ At("migrate")
    /\ run.head >= schema
    /\ schema' = run.head
    /\ late' = FALSE
    /\ Goto("deploy_candidate")
    /\ UNCHANGED <<serving, orphans, needs, runs, before, tested, stranded, outcome>>

DeployCandidate ==
    /\ At("deploy_candidate")
    /\ run' = [pc |-> "smoke_test", prev |-> run.prev, cand |-> runs, head |-> run.head]
    /\ needs' = [needs EXCEPT ![runs] = run.head]
    /\ UNCHANGED <<serving, database, runs, before, tested, stranded, outcome>>

(* Mutant: the step succeeds after its last attempt.                       *)
SmokeTest_NeverFails ==
    /\ At("smoke_test")
    /\ passed' = passed \/ passed' = passed \union {run.cand}
    /\ Goto("canary")
    /\ UNCHANGED <<serving, database, needs, runs, before, watched, stranded, outcome>>

(* One of twenty probes of the candidate's own /readyz answers 200, or     *)
(* none does.                                                              *)
SmokeTest ==
    /\ At("smoke_test")
    /\ \/ passed' = passed \union {run.cand} /\ Goto("canary")
       \/ passed' = passed /\ Goto("rollback")
    /\ UNCHANGED <<serving, database, needs, runs, before, watched, stranded, outcome>>

Canary ==
    /\ At("canary")
    /\ serving' = serving \union {run.cand}
    /\ Goto("watch")
    /\ UNCHANGED <<database, needs, runs, before, tested, stranded, outcome>>

(* At most 2 of 12 probes of the candidate's /livez failed.                *)
WatchPasses ==
    /\ At("watch")
    /\ watched' = watched \union {run.cand}
    /\ Goto("promote")
    /\ UNCHANGED <<serving, database, needs, runs, before, passed, stranded, outcome>>

Promote ==
    /\ At("promote")
    /\ serving' = {run.cand}
    /\ run' = NoRun
    /\ outcome' = "promoted"
    /\ UNCHANGED <<database, needs, runs, before, tested, stranded>>

----------------------------------------------------------------------------
(* Failures.  A command can take effect although its answer is an error.   *)
CanFail == {"build", "migrate", "deploy_candidate", "canary", "watch", "promote"}

MayRollBack == At("rollback") /\ run.cand # None /\ run.prev # None

TrafficAfterFailure ==
    {serving}
        \union (IF At("canary") THEN {serving \union {run.cand}} ELSE {})
        \union (IF At("promote") THEN {{run.cand}} ELSE {})
        \union (IF MayRollBack THEN {{run.prev}} ELSE {})

(* The step that ends early leaves an execution of the job behind, if it   *)
(* came to start one that did not fail.                                    *)
JobAfterFailure ==
    /\ orphans' = orphans \/ (At("migrate") /\ orphans' = orphans \union {run.head})
    /\ UNCHANGED <<schema, late>>

(* Mutant: too many failed probes are reported and do not fail the step.   *)
StepFails_WatchIgnored ==
    /\ run.pc \in CanFail
    /\ serving' \in TrafficAfterFailure
    /\ JobAfterFailure
    /\ Goto(IF At("watch") THEN "promote" ELSE "rollback")
    /\ UNCHANGED <<needs, runs, before, tested, stranded, outcome>>

StepFails ==
    /\ run.pc \in CanFail
    /\ serving' \in TrafficAfterFailure
    /\ JobAfterFailure
    /\ Goto("rollback")
    /\ UNCHANGED <<needs, runs, before, tested, stranded, outcome>>

(* An execution that nobody waits for commits: at once, or during a later  *)
(* run.                                                                    *)
JobCommits(head) ==
    /\ head \in orphans
    /\ head > schema
    /\ schema' = head
    /\ orphans' = orphans \ {head}
    /\ late' = TRUE
    /\ UNCHANGED <<serving, needs, run, runs, before, tested, stranded, outcome>>

(* ... or fails, or finds that there is nothing to do.                     *)
JobEnds(head) ==
    /\ head \in orphans
    /\ orphans' = orphans \ {head}
    /\ UNCHANGED <<serving, schema, late, needs, run, runs, before, tested, stranded, outcome>>

(* The job ends with the traffic as it is.                                 *)
End(how, traffic) ==
    /\ serving' = traffic
    /\ run' = NoRun
    /\ outcome' = how
    /\ stranded' = stranded \union (traffic \intersect {run.cand})
    /\ UNCHANGED <<needs, runs, before, tested>>

(* The rollback step is skipped: no candidate yet, or no known target.     *)
NoRollback ==
    /\ At("rollback")
    /\ run.cand = None \/ run.prev = None
    /\ End("failed", serving)
    /\ UNCHANGED database

Shift(traffic) ==
    /\ serving' = traffic
    /\ Goto("verify")
    /\ UNCHANGED <<database, needs, runs, before, tested, stranded, outcome>>

(* Mutant: the target is what serves now and not what the snapshot said.   *)
Rollback_ServingNow ==
    /\ MayRollBack
    /\ \E rev \in serving : Shift({rev})

(* Mutant: the target gets its 90% back and the candidate keeps the rest.  *)
Rollback_Partial ==
    /\ MayRollBack
    /\ Shift(serving \union {run.prev})

(* Mutant: the condition does not ask whether the snapshot has a revision. *)
Rollback_NoTargetCheck ==
    /\ At("rollback")
    /\ run.cand # None
    /\ Shift({run.prev})

(* All the traffic moves to the target first; the probe comes after.       *)
Rollback ==
    /\ MayRollBack
    /\ Shift({run.prev})

(* The describe or the update-traffic of the rollback fails.               *)
RollbackFails ==
    /\ MayRollBack
    /\ \E traffic \in TrafficAfterFailure : End("stuck", traffic)
    /\ UNCHANGED database

(* /livez through the service URL; an unhealthy target is only a warning.  *)
Verify ==
    /\ At("verify")
    /\ run' = NoRun
    /\ outcome' = "rolled_back"
    /\ UNCHANGED <<serving, database, needs, runs, before, tested, stranded>>

(* Cancelled by hand, or the runner is lost: failure() is false, so no     *)
(* step follows but the summary.  What the step in progress had asked for  *)
(* may still happen.                                                       *)
Cancel ==
    /\ ~At("idle")
    /\ \E traffic \in TrafficAfterFailure : End("cancelled", traffic)
    /\ JobAfterFailure

----------------------------------------------------------------------------
Step ==
    \/ Snapshot \/ Build \/ Migrate \/ DeployCandidate \/ SmokeTest \/ Canary
    \/ WatchPasses \/ Promote \/ StepFails \/ NoRollback \/ Rollback
    \/ RollbackFails \/ Verify

Next ==
    \/ \E head \in 0..MaxHead : Push(head) \/ JobCommits(head) \/ JobEnds(head)
    \/ Step \/ Cancel

Spec == Init /\ [][Next]_vars

----------------------------------------------------------------------------
(* Properties.                                                             *)

PCs == CanFail \union {"idle", "snapshot", "smoke_test", "rollback", "verify"}

Outcomes == {"none", "promoted", "failed", "stuck", "rolled_back", "cancelled"}

(* The pipeline's state keeps its types (deploy.yml's step outputs).       *)
TypeOK ==
    /\ serving \subseteq Revisions /\ serving # {}
    /\ schema \in 0..MaxHead /\ orphans \subseteq 0..MaxHead /\ late \in BOOLEAN
    /\ needs \in [Revisions -> 0..MaxHead]
    /\ passed \subseteq Revisions /\ watched \subseteq Revisions
    /\ stranded \subseteq Revisions /\ before \subseteq Revisions
    /\ runs \in 0..MaxRuns
    /\ run \in [pc : PCs, prev : Revisions \union {None}, cand : Revisions \union {None},
                head : 0..MaxHead]
    /\ outcome \in Outcomes

(* Whatever fails or is cancelled, over any number of runs, no revision    *)
(* but the bootstrap has traffic, not even as the target of a later        *)
(* rollback, that did not pass its /readyz smoke test.                     *)
OnlyTestedServe == serving \subseteq passed \union {Bootstrap}

(* No revision has traffic whose code needs a migration the database does  *)
(* not have.                                                               *)
SchemaBeforeCode == \A rev \in serving : needs[rev] <= schema

(* After a run that promoted, the code is at the schema's migration, so    *)
(* that no revert that lacks an applied migration gets that far, unless an *)
(* execution of the job that outlived its run has committed since then.    *)
PromotedMatchesSchema ==
    At("idle") /\ outcome = "promoted" =>
        late \/ \A rev \in serving : needs[rev] = schema

(* What has traffic is fit for it, after any sequence of runs, failures,   *)
(* cancellations and late migrations: tested, never ahead of the schema,   *)
(* and behind it after a promotion only through a late migration.          *)
FitToServe == OnlyTestedServe /\ SchemaBeforeCode /\ PromotedMatchesSchema

(* Production stays split between runs only because of a run that could    *)
(* not restore it: cancelled, without a snapshot, or whose rollback failed.*)
SplitHasCause == At("idle") /\ Cardinality(serving) > 1 => serving \intersect stranded # {}

(* All the traffic is on a revision that was never watched only if it is   *)
(* the bootstrap, or an earlier run stranded it and a later one took it    *)
(* for its snapshot.                                                       *)
FullTrafficVetted ==
    \A rev \in Revisions : serving = {rev} => rev \in watched \union stranded \union {Bootstrap}

(* A run that rolled back leaves the traffic on a revision that had some   *)
(* when the run started, never on its own candidate.                       *)
RollbackRestores == At("idle") /\ outcome = "rolled_back" => serving \subseteq before
=============================================================================
