---------------------------- MODULE ModelInstall ----------------------------
(***************************************************************************)
(* Installing local models: the jobs of model_setup.py, the guided drill   *)
(* that waits for them, the files they leave, the outcomes they record,    *)
(* and the incremental index of Context kept by the local embedding model. *)
(*                                                                         *)
(* Jobs live in memory and are asyncio tasks: a job's `step` is where its  *)
(* task awaits.  A revision stands for its files; a folder holds the files *)
(* of the revisions in `files`, all of the newest one when `whole`.        *)
(***************************************************************************)
EXTENDS Naturals, Sequences

CONSTANTS
    Locals,        \* profiles of local specialists
    Ollamas,       \* profiles of Ollama models
    Embedder,      \* the local embedding profile
    HistoryKept,   \* outcomes retained per profile: 8
    BatchSize,     \* chunks embedded at a time: 64
    Symptoms,      \* what the output of a failed installer and the host may show together
    MaxPulls, MaxRevision, MaxChunks   \* bounds

ASSUME InstallAssumption == Locals \cap Ollamas = {} /\ HistoryKept \in Nat

VARIABLES
    configured,    \* enabled profiles in the settings
    pulls,         \* ModelSetupService.jobs, installations
    drill,         \* the guided setup job
    runtime,       \* the local inference packages are importable
    folder,        \* local model directory of each specialist
    inventory,     \* revision Ollama holds of each of its models, 0 for none
    tracked,       \* model_revisions.json: revision recorded for each, 0 for none
    upstream,      \* newest revision at the publisher
    history,       \* model_install_attempts.json
    index          \* Context chunks, those embedded, and the index job

installVars ==
    <<configured, pulls, drill, runtime, folder, inventory, tracked, upstream, history, index>>

NoFolder == [files |-> {}, whole |-> FALSE, manifest |-> 0]
NoDrill == [status |-> "idle", at |-> << >>, step |-> "check", child |-> 0, failed |-> FALSE]

InstallInit ==
    /\ configured = Locals \cup Ollamas
    /\ pulls = << >> /\ drill = NoDrill /\ runtime \in BOOLEAN
    /\ folder = [p \in Locals |-> NoFolder]
    /\ inventory = [p \in Ollamas |-> 0] /\ tracked = [p \in Ollamas |-> 0]
    /\ upstream = 1
    /\ history = [p \in Locals \cup Ollamas |-> << >>]
    /\ index = [chunks |-> 0, embedded |-> {}, job |-> "idle", batch |-> {}]

Installed(p) ==
    IF p \in Locals THEN folder[p].manifest # 0 /\ folder[p].whole ELSE inventory[p] # 0

-----------------------------------------------------------------------------
(* What a failure was, and the strategy of the next attempt.               *)

\* The member of a list at the first of the positions K.
FirstOf(list, K) == list[CHOOSE k \in K : \A l \in K : k <= l]

\* Causes in the order they are looked for.
Causes ==
    <<"ollama-digest-mismatch", "macos-rosetta-python", "tls-ca-bundle-missing",
      "binary-wheel-unavailable", "tls-trust", "storage", "filesystem-permission",
      "source-authorization", "network", "ollama-model-unavailable",
      "ollama-inference-failed", "model-artifact-invalid", "unclassified-install-error">>

\* A symptom bears the name of the cause it shows; three causes are of one kind of
\* model only, and three are what the stage says when no symptom does.
Shows(cause, kind, stage, symptoms) ==
    CASE cause \in {"ollama-digest-mismatch", "ollama-model-unavailable"} ->
            kind = "ollama" /\ cause \in symptoms
      [] cause = "macos-rosetta-python" -> kind = "local-transformers" /\ cause \in symptoms
      [] cause = "ollama-inference-failed" -> kind = "ollama" /\ stage = "model-validation"
      [] cause = "model-artifact-invalid" -> stage = "model-validation"
      [] cause = "unclassified-install-error" -> TRUE
      [] OTHER -> cause \in symptoms

Cause(kind, stage, symptoms) ==
    FirstOf(Causes, {k \in DOMAIN Causes : Shows(Causes[k], kind, stage, symptoms)})

\* The first strategy not tried yet; when all were, the first that was not the last.
next_local_install_strategy(code, attempted) ==
    LET order == CASE code = "model-artifact-invalid" ->
                        <<"clean-download", "direct-http", "public-only", "auto">>
                   [] code \in {"tls-trust", "tls-ca-bundle-missing", "network", "source-authorization"} ->
                        <<"direct-http", "clean-download", "public-only", "auto">>
                   [] OTHER -> <<"public-only", "direct-http", "clean-download", "auto">>
        untried == {k \in DOMAIN order : \A a \in DOMAIN attempted : attempted[a] # order[k]}
        others == {k \in DOMAIN order : order[k] # attempted[Len(attempted)]}
    IN  FirstOf(order, IF untried # {} THEN untried ELSE others)

\* Failed attempts since the last success.
FailuresOf(p) ==
    LET h == history[p]
        successes == {k \in DOMAIN h : h[k].status = "complete"}
    IN  SubSeq(h, 1 + (IF successes = {} THEN 0 ELSE CHOOSE k \in successes : \A l \in successes : l <= k), Len(h))

\* A short check of the publisher for each specialist that is missing; an answer of
\* the last 90 seconds serves again, so it may be either whatever the network does.
probe_public_model_sources == {"reachable", "unreachable", "policy-required"}

\* The strategy offered for a specialist that is not installed.
install_action(p, source_probe) ==
    LET failed == FailuresOf(p) IN
    IF failed # << >>
    THEN next_local_install_strategy(failed[Len(failed)].code, [k \in DOMAIN failed |-> failed[k].strategy])
    ELSE IF folder[p].files # {} THEN "clean-download"
    ELSE IF ~runtime THEN "public-only"
    ELSE IF source_probe = "unreachable" THEN "direct-http" ELSE "auto"

\* What is offered for an Ollama model, never with a strategy but its own.
ollama_install_action(p, service_ok) ==
    LET failed == FailuresOf(p) IN
    [strategy |-> "auto",
     retry |-> ~Installed(p) /\ failed # << >>,
     ready |-> Installed(p) \/ service_ok,
     blocking |-> ~Installed(p) /\ ~service_ok,
     integrity_failures |-> Len(SelectSeq(failed, LAMBDA a : a.code = "ollama-digest-mismatch"))]

Last8(s) == SubSeq(s, IF Len(s) > HistoryKept THEN Len(s) - HistoryKept + 1 ELSE 1, Len(s))

record_install_outcome(j, status, code) ==
    history' = [history EXCEPT ![pulls[j].profile] =
        Last8(Append(@, [status |-> status, strategy |-> pulls[j].strategy, code |-> code]))]

-----------------------------------------------------------------------------
(* Installation jobs.                                                      *)

Pending(j) == pulls[j].status \in {"queued", "pulling"}

existing_pull(p) == {j \in DOMAIN pulls : pulls[j].profile = p /\ Pending(j)}

QueuedPull(p, strategy) ==
    Append(pulls, [profile |-> p, strategy |-> strategy, status |-> "queued", step |-> "created"])

\* POST /api/model-setup/pull: a pending job for the profile is returned instead.
start_pull(p, strategy) ==
    /\ p \in configured
    /\ p \in Ollamas => strategy = "auto"
    /\ existing_pull(p) = {}
    /\ Len(pulls) < MaxPulls
    /\ pulls' = QueuedPull(p, strategy)
    /\ UNCHANGED <<configured, drill, runtime, folder, inventory, tracked, upstream, history, index>>

At(j, step) == [pulls EXCEPT ![j].step = step]
Ends(j, status) == [pulls EXCEPT ![j].status = status, ![j].step = "ended"]

\* The task starts with a lookup of its profile; if that was removed the task dies
\* and the job stays queued.
begin_pull(j) ==
    /\ pulls[j].step = "created"
    /\ LET p == pulls[j].profile IN
        pulls' = IF p \notin configured THEN At(j, "dead")
                 ELSE IF p \in Locals THEN At(j, "lock")
                 ELSE [pulls EXCEPT ![j].step = "stream", ![j].status = "pulling"]
    /\ UNCHANGED <<configured, drill, runtime, folder, inventory, tracked, upstream, history, index>>

HoldsInstallLock(j) == pulls[j].profile \in Locals /\ pulls[j].step \in {"runtime", "download", "manifest", "index", "observe"}

\* One specialist is installed at a time.
acquire_install_lock(j) ==
    /\ pulls[j].step = "lock"
    /\ \A k \in DOMAIN pulls : ~HoldsInstallLock(k)
    /\ pulls' = [pulls EXCEPT ![j].status = "pulling", ![j].step = IF runtime THEN "download" ELSE "runtime"]
    /\ UNCHANGED <<configured, drill, runtime, folder, inventory, tracked, upstream, history, index>>

\* Mutant: the outcome is recorded and the job left as it was.
outcome_only(j, code) ==
    /\ pulls' = At(j, "ended")
    /\ record_install_outcome(j, "error", code)

fail_pull(j, code) ==
    /\ pulls' = Ends(j, "error")
    /\ record_install_outcome(j, "error", code)

Kind(p) == IF p \in Locals THEN "local-transformers" ELSE "ollama"

Stage(step) ==
    CASE step = "runtime" -> "runtime-install"
      [] step = "download" -> "model-download"
      [] step = "stream" -> "ollama-download"
      [] OTHER -> "model-validation"

\* The failure is classified from its stage and what it shows.
setup_failure(j) ==
    \E symptoms \in Symptoms :
        fail_pull(j, Cause(Kind(pulls[j].profile), Stage(pulls[j].step), symptoms))

\* pip installs the packages, finds no source that has them, or fails otherwise.
run_runtime_install == {"installed", "unresolved", "failed"}

\* The configured sources first, unless the strategy says public ones only; the
\* public index once more when the configured sources do not resolve the packages.
install_runtime(j) ==
    /\ pulls[j].step = "runtime"
    /\ \E first \in run_runtime_install :
       \E last \in IF first = "unresolved" /\ pulls[j].strategy = "auto" THEN run_runtime_install ELSE {first} :
           IF last = "installed"
           THEN runtime' = TRUE /\ pulls' = At(j, "download") /\ UNCHANGED history
           ELSE setup_failure(j) /\ UNCHANGED runtime
    /\ UNCHANGED <<configured, drill, folder, inventory, tracked, upstream, index>>

\* An incomplete folder is removed first by the strategy that says so.
Prepared(p, strategy) ==
    IF strategy = "clean-download" /\ ~Installed(p) THEN NoFolder ELSE folder[p]

\* The snapshot of the newest revision is downloaded over what is there; files that
\* are not part of it stay, and a failure leaves some of its files.
download_model(j) ==
    LET p == pulls[j].profile
        was == Prepared(p, pulls[j].strategy)
    IN  /\ pulls[j].step = "download"
        /\ IF p \notin configured
           THEN setup_failure(j) /\ UNCHANGED folder
           ELSE \/ \E kept \in SUBSET was.files :
                    /\ folder' = [folder EXCEPT ![p] = [was EXCEPT !.files = kept \cup {upstream}, !.whole = TRUE]]
                    /\ pulls' = At(j, "manifest")
                    /\ UNCHANGED history
                \/ /\ folder' = [folder EXCEPT ![p] = [was EXCEPT !.files = @ \cup {upstream}]]
                   /\ setup_failure(j)
    /\ UNCHANGED <<configured, drill, runtime, inventory, tracked, upstream, index>>

\* Files are hashed in a thread and the manifest is written, unless the snapshot has
\* no configuration or weights.
write_manifest(j) ==
    LET p == pulls[j].profile IN
    /\ pulls[j].step = "manifest"
    /\ \/ /\ \E revision \in folder[p].files :
                /\ \A r \in folder[p].files : r <= revision
                /\ folder' = [folder EXCEPT ![p].manifest = revision]
          /\ pulls' = At(j, IF p = Embedder THEN "index" ELSE "observe")
          /\ UNCHANGED history
       \/ setup_failure(j) /\ UNCHANGED folder
    /\ UNCHANGED <<configured, drill, runtime, inventory, tracked, upstream, index>>

\* The new embedding model indexes all of Context before its job ends.
index_with_new_model(j) ==
    /\ pulls[j].step = "index"
    /\ \/ index' = [index EXCEPT !.embedded = 1..index.chunks] /\ pulls' = At(j, "observe") /\ UNCHANGED history
       \/ setup_failure(j) /\ UNCHANGED index
    /\ UNCHANGED <<configured, drill, runtime, folder, inventory, tracked, upstream>>

complete_pull(j) ==
    /\ pulls' = Ends(j, "complete")
    /\ record_install_outcome(j, "complete", "")

\* The artifact is observed for trust.  A profile that was removed meanwhile fails a
\* specialist's job, and kills the task of an Ollama job, which stays pulling.
observe_installed(j) ==
    LET p == pulls[j].profile IN
    /\ pulls[j].step = "observe"
    /\ IF p \in configured THEN complete_pull(j)
       ELSE IF p \in Locals THEN setup_failure(j)
       ELSE pulls' = At(j, "dead") /\ UNCHANGED history
    /\ UNCHANGED <<configured, drill, runtime, folder, inventory, tracked, upstream, index>>

\* Ollama streams the model.
stream_ollama(j) ==
    LET p == pulls[j].profile IN
    /\ pulls[j].step = "stream"
    /\ \/ inventory' = [inventory EXCEPT ![p] = upstream] /\ pulls' = At(j, "track") /\ UNCHANGED history
       \/ setup_failure(j) /\ UNCHANGED inventory
    /\ UNCHANGED <<configured, drill, runtime, folder, tracked, upstream, index>>

\* The publisher's newest revision is recorded for what Ollama holds; errors are ignored.
record_ollama_revision(j) ==
    LET p == pulls[j].profile IN
    /\ pulls[j].step = "track"
    /\ \/ tracked' = [tracked EXCEPT ![p] = upstream]
       \/ UNCHANGED tracked
    /\ pulls' = At(j, "observe")
    /\ UNCHANGED <<configured, drill, runtime, folder, inventory, upstream, history, index>>

PullStep(j) ==
    \/ begin_pull(j) \/ acquire_install_lock(j) \/ install_runtime(j) \/ download_model(j)
    \/ write_manifest(j) \/ index_with_new_model(j) \/ observe_installed(j)
    \/ stream_ollama(j) \/ record_ollama_revision(j)

-----------------------------------------------------------------------------
(* The guided drill: one Ollama model, then one specialist.                *)

\* POST /api/model-setup/troubleshoot; a drill in progress is returned instead.
start_troubleshooting(p, q) ==
    /\ p \in Ollamas \cap configured /\ q \in Locals \cap configured
    /\ drill.status # "running"
    /\ drill' = [NoDrill EXCEPT !.status = "running", !.at = <<p, q>>]
    /\ UNCHANGED <<configured, pulls, runtime, folder, inventory, tracked, upstream, history, index>>

Attempted == Head(drill.at)

\* The attempt ends; after the second the drill does.
EndAttempt(failed) ==
    drill' = [drill EXCEPT !.at = Tail(@), !.step = "check", !.child = 0, !.failed = @ \/ failed,
        !.status = IF Len(drill.at) > 1 THEN "running"
                   ELSE IF drill.failed \/ failed THEN "attention" ELSE "complete"]

\* What is not installed is installed, by a pending job if there is one.
check_attempt ==
    /\ drill.status = "running" /\ drill.step = "check"
    /\ \/ /\ Attempted \in configured /\ Installed(Attempted)
          /\ drill' = [drill EXCEPT !.step = "verify"]
          /\ UNCHANGED pulls
       \/ /\ Attempted \in configured /\ ~Installed(Attempted)
          /\ IF existing_pull(Attempted) # {}
             THEN /\ drill' = [drill EXCEPT !.step = "wait", !.child = CHOOSE j \in existing_pull(Attempted) : TRUE]
                  /\ UNCHANGED pulls
             ELSE /\ Len(pulls) < MaxPulls
                  /\ pulls' = QueuedPull(Attempted, "auto")
                  /\ drill' = [drill EXCEPT !.step = "wait", !.child = Len(pulls) + 1]
       \/ EndAttempt(TRUE) /\ UNCHANGED pulls
    /\ UNCHANGED <<configured, runtime, folder, inventory, tracked, upstream, history, index>>

\* The drill polls its child until it is neither queued nor pulling.
poll_child ==
    /\ drill.status = "running" /\ drill.step = "wait"
    /\ ~Pending(drill.child)
    /\ IF pulls[drill.child].status = "complete"
       THEN drill' = [drill EXCEPT !.step = "verify"] ELSE EndAttempt(TRUE)
    /\ UNCHANGED <<configured, pulls, runtime, folder, inventory, tracked, upstream, history, index>>

\* The synthetic probes: a model that is there may still not answer.
smoke_ollama_profile(p) == IF inventory[p] # 0 THEN BOOLEAN ELSE {FALSE}
smoke_local_specialist(p) == IF runtime /\ Installed(p) THEN BOOLEAN ELSE {FALSE}

\* The installed model answers its probe, or the attempt fails.
verify_attempt ==
    /\ drill.status = "running" /\ drill.step = "verify"
    /\ \E answers \in IF Attempted \in Locals THEN smoke_local_specialist(Attempted) ELSE smoke_ollama_profile(Attempted) :
        EndAttempt(~answers)
    /\ UNCHANGED <<configured, pulls, runtime, folder, inventory, tracked, upstream, history, index>>

DrillStep == check_attempt \/ poll_child \/ verify_attempt

-----------------------------------------------------------------------------
(* Incremental Context index.                                              *)

Unindexed == 1..index.chunks \ index.embedded

\* New Context is stored and indexing is scheduled, unless a job is at it or the
\* embedding model is not there.
add_context ==
    /\ index.chunks < MaxChunks
    /\ index' = [index EXCEPT !.chunks = @ + 1,
        !.job = IF @ # "running" /\ Installed(Embedder) /\ Embedder \in configured THEN "running" ELSE @]
    /\ UNCHANGED <<configured, pulls, drill, runtime, folder, inventory, tracked, upstream, history>>

saved_batch == [index EXCEPT !.embedded = @ \cup index.batch, !.batch = {}]

\* The job takes a batch, awaits its vectors, and ends when none is pending.
take_batch ==
    /\ index.job = "running" /\ index.batch = {}
    /\ index' = IF Unindexed = {} THEN [index EXCEPT !.job = "complete"]
                ELSE [index EXCEPT !.batch = {c \in Unindexed : \A e \in Unindexed : c - BatchSize < e}]
    /\ UNCHANGED <<configured, pulls, drill, runtime, folder, inventory, tracked, upstream, history>>

save_batch ==
    /\ index.batch # {}
    /\ index' \in {saved_batch, [index EXCEPT !.job = "error", !.batch = {}]}
    /\ UNCHANGED <<configured, pulls, drill, runtime, folder, inventory, tracked, upstream, history>>

IndexStep == take_batch \/ save_batch

-----------------------------------------------------------------------------
\* Settings drop a profile.
remove_profile(p) ==
    /\ configured' = configured \ {p}
    /\ UNCHANGED <<pulls, drill, runtime, folder, inventory, tracked, upstream, history, index>>

\* External: the publisher releases a revision.
publish_revision ==
    /\ upstream < MaxRevision
    /\ upstream' = upstream + 1
    /\ UNCHANGED <<configured, pulls, drill, runtime, folder, inventory, tracked, history, index>>

\* The process ends: jobs are lost, files stay as they are.
restart_installs ==
    /\ pulls # << >> \/ drill # NoDrill \/ index.job # "idle"
    /\ pulls' = << >> /\ drill' = NoDrill
    /\ index' = [index EXCEPT !.job = "idle", !.batch = {}]
    /\ UNCHANGED <<configured, runtime, folder, inventory, tracked, upstream, history>>

InstallNext ==
    \/ \E p \in Ollamas, service_ok \in BOOLEAN : start_pull(p, ollama_install_action(p, service_ok).strategy)
    \/ \E p \in Locals :
        \/ start_pull(p, "auto")
        \/ \E probe \in probe_public_model_sources : ~Installed(p) /\ start_pull(p, install_action(p, probe))
    \/ \E j \in DOMAIN pulls : PullStep(j)
    \/ \E p \in Ollamas, q \in Locals : start_troubleshooting(p, q)
    \/ DrillStep
    \/ add_context
    \/ IndexStep
    \/ \E p \in configured : remove_profile(p)
    \/ publish_revision
    \/ restart_installs

\* Tasks run while the process does, and what they await answers.
InstallFairness ==
    /\ \A j \in 1..MaxPulls : WF_installVars(j \in DOMAIN pulls /\ PullStep(j))
    /\ WF_installVars(DrillStep)
    /\ WF_installVars(IndexStep)

InstallSpec == InstallInit /\ [][InstallNext]_installVars /\ InstallFairness

-----------------------------------------------------------------------------
(* Properties.                                                             *)

\* A pending installation of a profile that stays configured ends.
PullsEnd ==
    \A j \in 1..MaxPulls :
        (j \in DOMAIN pulls /\ Pending(j)) ~>
            (j \notin DOMAIN pulls \/ ~Pending(j) \/ pulls[j].profile \notin configured)

=============================================================================
