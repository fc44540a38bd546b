----------------------------- MODULE MCGovernance -----------------------------
(***************************************************************************)
(* Instances of the modules about what operators decide: which tenant's    *)
(* store serves, what is approved and published, what a restore brings     *)
(* back, what a completed run opens for review.  They share no state, so a *)
(* behaviour is about one of them, chosen at the start; within the         *)
(* detection modules, about the lifecycle with the longest histories, or   *)
(* about the repository handoff or the deployment of a project whose       *)
(* lifecycle is kept shorter.                                              *)
(***************************************************************************)
EXTENDS TenantRouting, DetectionRepository, DetectionDeployment, RecoveryRestore, AssuranceSignals, TLC

VARIABLE focus

detectionVars == <<lifecycleVars, repositoryVars, deploymentVars>>
governanceVars == <<routingVars, detectionVars, recoveryVars, signalVars, focus>>

-----------------------------------------------------------------------------
\* Routing

\* Which features of routing meet in one behaviour.
SomeProfiles ==
    {{"chain", "rollback"}, {"finalize", "rollback"},
     {"chain", "finalize", "purge crash", "write crash"}}

\* Detections

Content(q, e) == [query |-> q, expected |-> e, required |-> {}, ceiling |-> 0, drift |-> 200]
\* The text create derives from a nonzero result, and one that differs in a label only.
TwoTexts == {Content("q", "nonzero"), Content("q", "any")}
FewAndMany == {[count |-> 2, columns |-> {}], [count |-> 10, columns |-> {}]}

Row(app, name, c, disabled) == [app |-> app, name |-> name, content |-> c, disabled |-> disabled]
Deployed == Row("search", "exact", Content("q", "nonzero"), "no")
SomeCatalogs == {{Deployed}, {Deployed, Row("other", "exact", Content("q", "any"), "no")},
                 {Row("other", "folded", Content("q", "nonzero"), "yes")}}
HealthyAndSilent ==
    {[executions |-> "some", last |-> "success", failures |-> "none", lag |-> "under"],
     [executions |-> "none", last |-> "", failures |-> "none", lag |-> "unknown"]}

\* Shorter histories where the project is not what is explored, and only the first
\* decision's preservation may be cut short where it is.
Shorter ==
    \A d \in Detections :
        IF focus = "lifecycle" THEN \A part \in context'[d] : part[1] = 1
        ELSE /\ Len(gates'[d]) <= 1 /\ Len(reviews'[d]) <= 1 /\ context'[d] = {} /\ exports'[d] = {}
             /\ {t \in DOMAIN tasks' : tasks'[t].origin # "runtime"} \subseteq {1}
             /\ focus = "repository" =>
                 /\ \A t \in DOMAIN tasks' : tasks'[t].artifact # "deleted" /\ tasks'[t].result.count # 10
                 /\ Exists(d)' => detection'[d].version = 1

DetectionsNext ==
    /\ \/ focus = "lifecycle" /\ LifecycleNext /\ UNCHANGED <<repositoryVars, deploymentVars>>
       \/ focus = "repository" /\ RepositoryNext /\ UNCHANGED deploymentVars
       \/ focus = "deployment" /\ DeploymentNext /\ UNCHANGED repositoryVars
    /\ Shorter

\* Recovery: a package with and one without a vault, under another key.

OtherFiles(v, sessions) ==
    [config |-> v, key |-> 2, access |-> [version |-> v, sessions |-> sessions]]
SomePackages == {OtherFiles(8, FALSE), OtherFiles(9, TRUE) @@ [vault |-> [version |-> 9, key |-> 2]]}

\* One request writes at a time.
OneWriter == Cardinality(working') <= 1

-----------------------------------------------------------------------------
GovernanceInit ==
    /\ RoutingInit /\ LifecycleInit /\ RepositoryInit /\ DeploymentInit /\ RecoveryInit /\ SignalsInit
    /\ focus \in {"routing", "lifecycle", "repository", "deployment", "recovery", "signals"}
    /\ focus # "routing" => profile = {"chain", "rollback"}
    /\ focus # "deployment" => catalog = {Deployed}

GovernanceNext ==
    /\ \/ focus = "routing" /\ RoutingNext /\ UNCHANGED <<detectionVars, recoveryVars, signalVars>>
       \/ DetectionsNext /\ UNCHANGED <<routingVars, recoveryVars, signalVars>>
       \/ /\ focus = "recovery" /\ RecoveryNext /\ OneWriter
          /\ UNCHANGED <<routingVars, detectionVars, signalVars>>
       \/ focus = "signals" /\ SignalsNext /\ UNCHANGED <<routingVars, detectionVars, recoveryVars>>
    /\ UNCHANGED focus

GovernanceSpec == GovernanceInit /\ [][GovernanceNext]_governanceVars
=============================================================================
