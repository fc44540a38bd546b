------------------------------ MODULE MCModels ------------------------------
(***************************************************************************)
(* The local models: routing them and installing them.  The two share no   *)
(* state but the settings, so each behaviour looks at one `focus`:         *)
(* a way to spend the bounds, of requests, of trust, of suites, of         *)
(* tournaments in sequence; of jobs, of retries, of the Context index.     *)
(***************************************************************************)
EXTENDS ModelRouting, ModelInstall

VARIABLE focus

modelVars == <<routingVars, installVars, focus>>

OneTournament == Len(tournaments') <= 1 /\ Len(runs') <= 2

NoErrors ==
    /\ \A r \in DOMAIN runs' : runs'[r].status # "error"
    /\ \A i \in DOMAIN tournaments' : tournaments'[i].status # "error"

RoutingFocus ==
    \/ /\ focus = "trust" /\ OneTournament
       /\ UNCHANGED suite /\ settings'.edits = 0 /\ Cardinality(requests') <= 1
       /\ artifacts'[Control] = 1
       /\ Len(tournaments) = 0 => Len(runs') = 0
    \/ /\ focus = "race" /\ OneTournament /\ NoErrors
       /\ Cardinality(requests') + settings'.edits <= 2
       /\ UNCHANGED <<trust, artifacts, suite>>
    \/ /\ focus = "suite" /\ OneTournament
       /\ UNCHANGED <<trust, artifacts>> /\ settings'.edits = 0 /\ Cardinality(requests') <= 1
    \/ /\ focus = "sequence"
       /\ UNCHANGED <<trust, artifacts, suite>> /\ settings'.edits = 0 /\ Cardinality(requests') <= 1
       /\ Len(runs') <= 2 * Len(tournaments')
       /\ NoErrors /\ \A r \in DOMAIN runs' : runs'[r].status = "complete" => runs'[r].ready
       /\ tournaments' # << >> => settings'.present = Profiles
       /\ Len(tournaments') = 2 => tournaments'[1].status \in {"complete", "hold"}

RoutingStep == RoutingNext /\ RoutingFocus /\ UNCHANGED <<installVars, focus>>

NothingPending == \A j \in DOMAIN pulls : ~Pending(j)

LocalStarts ==
    \E p \in Locals :
        \/ start_pull(p, "auto")
        \/ \E probe \in probe_public_model_sources : ~Installed(p) /\ start_pull(p, install_action(p, probe))

InstallSteps ==
    \/ \E j \in DOMAIN pulls : PullStep(j)
    \/ DrillStep
    \/ IndexStep
    \/ /\ focus = "jobs"
       /\ \/ Len(pulls) < 2 /\ (LocalStarts \/ \E p \in Ollamas : start_pull(p, "auto"))
          \/ \E p \in Ollamas, q \in Locals : start_troubleshooting(p, q)
          \/ \E p \in configured : remove_profile(p)
    \/ focus = "retry" /\ ((NothingPending /\ LocalStarts) \/ restart_installs)
    \/ /\ focus = "index"
       /\ (pulls = << >> /\ start_pull(Embedder, "auto")) \/ add_context \/ publish_revision \/ restart_installs

InstallStep == InstallSteps /\ UNCHANGED <<routingVars, focus>>

ModelsInit ==
    /\ RoutingInit /\ InstallInit
    /\ \/ focus \in {"trust", "race", "suite", "sequence"} /\ runtime
       \/ focus \in {"jobs", "retry", "index"}

ModelsNext == RoutingStep \/ InstallStep

ModelsSpec == ModelsInit /\ [][ModelsNext]_modelVars /\ InstallFairness
=============================================================================
