------------------------- MODULE DetectionDeployment -------------------------
(***************************************************************************)
(* Deployment verification and runtime health of an approved detection:    *)
(* detections/deployment.py over deployment_store.py, against the saved    *)
(* searches of Splunk and the validation queue.                            *)
(*                                                                         *)
(* Only refresh awaits: it reads the detection, waits for the catalog and  *)
(* stores what it observed, while any other request may run.  A saved      *)
(* search is its app, how its name compares with the title, the content    *)
(* whose definition it has (or another) and its enabled state.  Splunk may *)
(* return a part of the catalog and say so.                                *)
(***************************************************************************)
EXTENDS DetectionLifecycle, FiniteSets

CONSTANTS
    Catalogs,       \* states of Splunk's saved searches: sets of rows
    Apps,           \* target apps a request may name
    AnyApp,         \* no target app named
    RuntimeQuery,   \* the scheduler query, outside Queries
    RuntimeRows,    \* aggregate rows the scheduler query may return
    MaxRefreshes, MaxObservations, MaxChecks   \* bounds

\* Splunk keeps one saved search of a name in an app: deployment.py:517 treats a name with
\* its app as unique.
ASSUME CatalogAssumption ==
    \A rows \in Catalogs :
        /\ IsFiniteSet(rows)
        /\ \A r \in rows : r.disabled \in {"yes", "no", "unknown"}
        /\ \A r, s \in rows : r.name = "exact" /\ s.name = "exact" /\ r.app = s.app => r = s

VARIABLES
    catalog,        \* the saved searches of Splunk
    refreshes,      \* deployment refreshes in progress
    deployments,    \* table detection_deployment_snapshots
    runtimeChecks,  \* table detection_runtime_checks
    lost            \* requests that ended between two writes

deploymentVars == <<catalog, refreshes, deployments, runtimeChecks, lost>>

DeploymentInit ==
    /\ catalog \in Catalogs
    /\ refreshes = {}
    /\ deployments = << >>
    /\ runtimeChecks = << >>
    /\ lost = 0

-----------------------------------------------------------------------------
(* Deployment verification.                                                *)

\* Names compare exactly or without case.
Named(rows) == {r \in rows : r.name \in {"exact", "folded"}}
Candidates(rows, app) ==
    LET exact == {r \in rows : r.name = "exact"}
        named == IF exact # {} THEN exact ELSE Named(rows)
    IN  {r \in named : app = AnyApp \/ r.app = app}

\* Mutant: a capped answer counts as the whole catalog.
Uncapped(answer) == TRUE

\* Splunk said that nothing is left out.
Exhaustive(answer) == answer.exhaustive

\* Controls that differ from the approved definition of content c.
FailedControls(c, row) ==
    {k \in {"name", "definition"} :
        (k = "name" /\ row.name # "exact") \/ (k = "definition" /\ row.content # c)}

\* Status of a single candidate, before the catalog's extent is considered.
DefinitionStatus(c, row) ==
    IF FailedControls(c, row) # {} THEN "drifted"
    ELSE IF row.disabled = "yes" THEN "deployed-disabled"
    ELSE IF row.disabled = "unknown" THEN "inconclusive"
    ELSE "verified"

DeploymentStatus(c, app, answer) ==
    LET found == Candidates(answer.rows, app) IN
    CASE Cardinality(found) > 1 -> "ambiguous"
      [] found = {} -> IF Exhaustive(answer) THEN "missing" ELSE "inconclusive"
      [] OTHER ->
            LET status == DefinitionStatus(c, CHOOSE r \in found : TRUE) IN
            IF app = AnyApp /\ ~Exhaustive(answer) /\ status \in {"verified", "deployed-disabled"}
            THEN "inconclusive" ELSE status

ApprovedDetection(d) ==
    Exists(d) /\ detection[d].status = "approved" /\ detection[d].approved = detection[d].content

\* What the request remembers while Splunk answers.
Refresh(d, app) == [detection |-> d, content |-> detection[d].content, app |-> app]

\* POST /api/detections/{id}/deployment-verification/refresh, up to the Splunk call
refresh_deployment(d, app) ==
    /\ ApprovedDetection(d)
    /\ Cardinality(refreshes) < MaxRefreshes
    /\ \A r \in refreshes : r.app # app
    /\ refreshes' = refreshes \cup {Refresh(d, app)}
    /\ UNCHANGED <<catalog, deployments, runtimeChecks, lost>>

\* The whole catalog, or a part of it.
Answers == {[rows |-> catalog, exhaustive |-> TRUE]} \cup [rows : SUBSET catalog, exhaustive : {FALSE}]

\* Splunk answers: the snapshot is stored for the content the request read.
record_deployment(f, answer) ==
    /\ Len(deployments) < MaxObservations
    /\ refreshes' = refreshes \ {f}
    /\ deployments' = Append(deployments,
           [detection |-> f.detection, content |-> f.content, app |-> f.app, seen |-> catalog,
            status |-> DeploymentStatus(f.content, f.app, answer),
            unique |-> Cardinality(Named(answer.rows)) = 1, preserved |-> FALSE])
    /\ UNCHANGED <<catalog, runtimeChecks, lost>>

refresh_failed(f) ==
    /\ refreshes' = refreshes \ {f}
    /\ UNCHANGED <<catalog, deployments, runtimeChecks, lost>>

deploy_elsewhere(rows) ==
    /\ catalog' = rows /\ rows # catalog
    /\ UNCHANGED <<refreshes, deployments, runtimeChecks, lost>>

DeploymentPreservable(n) ==
    /\ ~deployments[n].preserved
    /\ detection[deployments[n].detection].content = deployments[n].content

\* POST /api/detections/{id}/deployment-verification/case
preserve_deployment(n) ==
    /\ Exists(deployments[n].detection)
    /\ DeploymentPreservable(n)
    /\ deployments' = [deployments EXCEPT ![n].preserved = TRUE]
    /\ UNCHANGED <<catalog, refreshes, runtimeChecks, lost>>

-----------------------------------------------------------------------------
(* Runtime health.                                                         *)

\* The snapshot is of the text that is approved now.
CurrentSnapshot(n) ==
    LET d == deployments[n].detection
    IN  ApprovedDetection(d) /\ detection[d].content = deployments[n].content

ChecksOf(n) == {k \in DOMAIN runtimeChecks : runtimeChecks[k].deployment = n}

\* The task still has the check's contract and is open, or complete and uninterpreted.
Usable(k) ==
    LET t == runtimeChecks[k].task IN
    /\ tasks[t].query = RuntimeQuery
    /\ tasks[t].status = "draft" \/ (tasks[t].status = "complete" /\ runtimeChecks[k].assessment = "none")

\* A verified snapshot with one observed name, and no usable check on it yet.
RuntimeDraftAllowed(n) ==
    /\ CurrentSnapshot(n)
    /\ deployments[n].status = "verified" /\ deployments[n].unique
    /\ ChecksOf(n) # {} => ~Usable(MaxOr0(ChecksOf(n)))

record_runtime_check(n) ==
    runtimeChecks' = Append(runtimeChecks,
        [deployment |-> n, task |-> Len(tasks) + 1, assessment |-> "none", preserved |-> FALSE])

\* The task, then the check on it unless the process ends between them.
stage_runtime_task(n, completed) ==
    /\ tasks' = Append(tasks, NewTask(RuntimeQuery, "runtime"))
    /\ \/ completed /\ record_runtime_check(n) /\ UNCHANGED lost
       \/ ~completed /\ lost = 0 /\ lost' = 1 /\ UNCHANGED runtimeChecks

\* POST .../deployment-verification/runtime-draft
create_runtime_draft(n, completed) ==
    /\ Len(tasks) < MaxTasks /\ Len(runtimeChecks) < MaxChecks
    /\ RuntimeDraftAllowed(n)
    /\ stage_runtime_task(n, completed)
    /\ UNCHANGED <<detection, gates, reviews, exports, context, catalog, refreshes, deployments>>

\* What the aggregate row says of the scheduler.
RuntimeAssessment(row) ==
    IF row.executions = "unknown" THEN "inconclusive"
    ELSE IF row.executions = "none" THEN "no-executions"
    ELSE IF row.last = "failed" THEN "failing"
    ELSE IF row.failures = "some" THEN "degraded"
    ELSE IF row.lag = "unknown" THEN "inconclusive"
    ELSE IF row.lag = "over" THEN "stale"
    ELSE "healthy"

Assessable(k) ==
    LET t == runtimeChecks[k].task IN
    /\ runtimeChecks[k].assessment = "none"
    /\ CurrentSnapshot(runtimeChecks[k].deployment)
    /\ tasks[t].status = "complete" /\ tasks[t].artifact # "none"
    /\ tasks[t].query = RuntimeQuery

\* POST .../deployment-verification/runtime-assessment
assess_runtime(k) ==
    /\ Assessable(k)
    /\ runtimeChecks' = [runtimeChecks EXCEPT
           ![k].assessment = RuntimeAssessment(tasks[runtimeChecks[k].task].result)]
    /\ UNCHANGED <<catalog, refreshes, deployments, lost>>

RuntimePreservable(k) ==
    /\ runtimeChecks[k].assessment # "none" /\ ~runtimeChecks[k].preserved
    /\ CurrentSnapshot(runtimeChecks[k].deployment)

\* POST .../deployment-verification/runtime-case
preserve_runtime(k) ==
    /\ RuntimePreservable(k)
    /\ runtimeChecks' = [runtimeChecks EXCEPT ![k].preserved = TRUE]
    /\ UNCHANGED <<catalog, refreshes, deployments, lost>>

\* The queue runs, expires or lets an analyst edit a runtime task, also back to what it was.
RuntimeTask(t) == tasks[t].origin = "runtime" /\ tasks[t].status = "draft"

run_runtime_task(t, row) ==
    /\ RuntimeTask(t) /\ tasks[t].query = RuntimeQuery
    /\ preserve_result(t, row)
    /\ UNCHANGED deploymentVars

change_runtime_task(t) ==
    /\ RuntimeTask(t)
    /\ tasks' \in {[tasks EXCEPT ![t].status = "expired"]}
                  \cup {[tasks EXCEPT ![t].query = q] : q \in Queries \cup {RuntimeQuery}}
    /\ UNCHANGED <<detection, gates, reviews, exports, context, deploymentVars>>

-----------------------------------------------------------------------------
DeploymentSteps ==
    \/ \E d \in Detections, app \in Apps \cup {AnyApp} : refresh_deployment(d, app)
    \/ \E f \in refreshes : refresh_failed(f) \/ \E answer \in Answers : record_deployment(f, answer)
    \/ \E rows \in Catalogs : deploy_elsewhere(rows)
    \/ \E n \in DOMAIN deployments : preserve_deployment(n)
    \/ \E k \in DOMAIN runtimeChecks : assess_runtime(k) \/ preserve_runtime(k)

RuntimeTaskSteps ==
    \/ \E n \in DOMAIN deployments, completed \in BOOLEAN : create_runtime_draft(n, completed)
    \/ \E t \in DOMAIN tasks : change_runtime_task(t) \/ \E row \in RuntimeRows : run_runtime_task(t, row)

DeploymentNext ==
    \/ DeploymentSteps /\ UNCHANGED lifecycleVars
    \/ RuntimeTaskSteps
    \/ LifecycleNext /\ UNCHANGED deploymentVars

DeploymentSpec == LifecycleInit /\ DeploymentInit /\ [][DeploymentNext]_<<lifecycleVars, deploymentVars>>

-----------------------------------------------------------------------------
(* Properties.                                                             *)

SameName(n) == {r \in deployments[n].seen : r.name = "exact"
                    /\ (deployments[n].app = AnyApp \/ r.app = deployments[n].app)}

\* Verified and missing are claims about all of Splunk's saved searches, not about the
\* rows returned: one enabled search of the approved definition and no other of that
\* name, or none at all (README.md:682: capped responses remain unknown).
ClaimsHoldOfSplunk ==
    \A n \in DOMAIN deployments :
        /\ deployments[n].status = "verified" =>
            /\ Cardinality(SameName(n)) = 1
            /\ \A r \in SameName(n) : r.content = deployments[n].content /\ r.disabled = "no"
        /\ deployments[n].status = "missing" => SameName(n) = {}

=============================================================================
