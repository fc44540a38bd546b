------------------------- MODULE DetectionLifecycle -------------------------
(***************************************************************************)
(* Detection-as-code projects: detections/service.py over                  *)
(* detections/store.py, with the validation tasks and evidence artifacts   *)
(* the promotion gate reads.                                               *)
(*                                                                         *)
(* No service method awaits, so each request is one action.  A content     *)
(* stands for its canonical text and so for its SHA-256: an edit that      *)
(* returns to an earlier text returns to an earlier digest.  Identifiers   *)
(* of gates and reviews are their positions, which are also their order of *)
(* creation; accepted_at is the position of the review it was stamped by.  *)
(***************************************************************************)
EXTENDS Naturals, Sequences

CONSTANTS
    Detections,   \* identifiers of projects
    Queries,      \* SPL, window and row limit: what a query fingerprint covers
    Fields,       \* names of result columns
    Edits,        \* contents an analyst may save
    Outcomes,     \* results a validation may preserve
    MaxVersions, MaxGates, MaxReviews, MaxTasks   \* bounds on histories

VARIABLES
    detection,    \* table detections: NoDetection or its row
    gates,        \* table detection_gate_runs, one sequence per project
    reviews,      \* table detection_reviews
    exports,      \* table detection_exports
    context,      \* what approvals left in Knowledge and in the case
    tasks         \* table validation_tasks, with the artifact each points to

lifecycleVars == <<detection, gates, reviews, exports, context, tasks>>

Contents == [query : Queries, expected : {"any", "zero", "nonzero"},
             required : SUBSET Fields, ceiling : Nat, drift : Nat]

ASSUME LifecycleAssumption ==
    /\ Edits \subseteq Contents
    /\ Outcomes \subseteq [count : Nat, columns : SUBSET Fields]

NoDetection == [status |-> "none"]
NoContent == [text |-> "none"]

LifecycleInit ==
    /\ detection = [d \in Detections |-> NoDetection]
    /\ gates = [d \in Detections |-> << >>]
    /\ reviews = [d \in Detections |-> << >>]
    /\ exports = [d \in Detections |-> {}]
    /\ context = [d \in Detections |-> {}]
    /\ tasks = << >>

-----------------------------------------------------------------------------
(* Validation tasks, as far as a detection sees them.                      *)

NewTask(q, origin) ==
    [query |-> q, origin |-> origin, status |-> "draft", artifact |-> "none",
     result |-> [count |-> 0, columns |-> {}], completed |-> 0]

\* An analyst writes a validation of their own.
propose_validation(q) ==
    /\ Len(tasks) < MaxTasks
    /\ tasks' = Append(tasks, NewTask(q, "analyst"))
    /\ UNCHANGED <<detection, gates, reviews, exports, context>>

Completions == {t \in DOMAIN tasks : tasks[t].status = "complete"}
MaxOr0(S) == IF S = {} THEN 0 ELSE CHOOSE x \in S : \A y \in S : y <= x

preserve_result(t, r) ==
    /\ tasks' = [tasks EXCEPT ![t].status = "complete", ![t].artifact = "kept", ![t].result = r,
                              ![t].completed = 1 + MaxOr0({tasks[u].completed : u \in Completions})]
    /\ UNCHANGED <<detection, gates, reviews, exports, context>>

\* The validation queue runs a task it admitted and preserves the result.
complete_validation(t, r) ==
    /\ tasks[t].status = "draft" /\ tasks[t].query \in Queries
    /\ preserve_result(t, r)

\* An analyst deletes the artifact: DELETE /api/evidence/{artifact_id}.
delete_artifact(t) ==
    /\ tasks[t].artifact = "kept"
    /\ tasks' = [tasks EXCEPT ![t].artifact = "deleted"]
    /\ UNCHANGED <<detection, gates, reviews, exports, context>>

\* The task completed last for a query, 0 if there is none.
find_latest_complete(q) ==
    LET C == {t \in Completions : tasks[t].query = q}
    IN  IF C = {} THEN 0 ELSE CHOOSE t \in C : \A u \in C : tasks[u].completed <= tasks[t].completed

find_reusable(q) == {t \in DOMAIN tasks : tasks[t].query = q /\ tasks[t].status = "draft"}

-----------------------------------------------------------------------------
(* The promotion gate.                                                     *)

Exists(d) == detection[d] # NoDetection

\* |count - baseline| / max(baseline, 1) in percent is within the limit.
WithinDrift(count, baseline, limit) ==
    LET difference == IF count >= baseline THEN count - baseline ELSE baseline - count
        base == IF baseline = 0 THEN 1 ELSE baseline
    IN  difference * 100 <= limit * base

\* The gate accepted last, 0 if none was: the regression baseline.
accepted_gate(d) ==
    LET A == {g \in DOMAIN gates[d] : gates[d][g].accepted > 0}
    IN  IF A = {} THEN 0
        ELSE CHOOSE g \in A : \A h \in A : gates[d][h].accepted <= gates[d][g].accepted

\* Every blocking control passes for content c on task t against gate b.
GateControls(d, c, t, b) ==
    /\ t # 0
    /\ tasks[t].artifact = "kept"
    /\ LET result == tasks[t].result IN
        /\ c.expected = "zero" => result.count = 0
        /\ c.expected = "nonzero" => result.count > 0
        /\ c.required \subseteq result.columns
        /\ c.ceiling > 0 => result.count <= c.ceiling
        /\ b # 0 => WithinDrift(result.count, gates[d][b].count, c.drift)

record_gate(d, c, t, b) ==
    gates' = [gates EXCEPT ![d] = Append(@,
        [content |-> c, task |-> t, baseline |-> b, accepted |-> 0,
         count |-> IF t = 0 THEN 0 ELSE tasks[t].result.count,
         status |-> IF GateControls(d, c, t, b) THEN "pass" ELSE "fail"])]

\* The newest result of the current query, against the gate accepted last.
evaluate_gate(d) ==
    /\ detection[d].status # "retired"
    /\ LET c == detection[d].content
       IN  record_gate(d, c, find_latest_complete(c.query), accepted_gate(d))

\* POST /api/detections/{id}/gate.  A project in review may be gated again.
run_gate(d) ==
    /\ Exists(d)
    /\ Len(gates[d]) < MaxGates
    /\ evaluate_gate(d)
    /\ UNCHANGED <<detection, reviews, exports, context, tasks>>

\* The newest gate of a content, whichever version it was run for.
latest_gate(d, c) == MaxOr0({g \in DOMAIN gates[d] : gates[d][g].content = c})

\* The newest gate of the current content passed and its evidence is still there.
passing_gate(d) ==
    LET c == detection[d].content
        g == latest_gate(d, c)
    IN  /\ g # 0
        /\ gates[d][g].status = "pass"
        /\ LET t == gates[d][g].task IN
            /\ t # 0
            /\ tasks[t].status = "complete" /\ tasks[t].query = c.query
            /\ tasks[t].artifact = "kept"

-----------------------------------------------------------------------------
(* Operations on a project.                                                *)

\* The content create derives from a completed task.
DerivedContent(t) ==
    [query |-> tasks[t].query,
     expected |-> IF tasks[t].result.count > 0 THEN "nonzero" ELSE "zero",
     required |-> tasks[t].result.columns, ceiling |-> 0, drift |-> 200]

store_create(d, t, c) ==
    detection' = [detection EXCEPT ![d] =
        [status |-> "draft", version |-> 1, content |-> c, approved |-> NoContent, source |-> t]]

\* POST /api/detections
create_detection(d, t) ==
    /\ ~Exists(d)
    /\ tasks[t].status = "complete" /\ tasks[t].artifact = "kept"
    /\ tasks[t].origin # "runtime"
    /\ \A e \in Detections : Exists(e) => detection[e].source # t
    /\ store_create(d, t, DerivedContent(t))
    /\ UNCHANGED <<gates, reviews, exports, context, tasks>>

\* A new version is a draft without approval.
add_version(d, c) ==
    detection' = [detection EXCEPT ![d].status = "draft", ![d].version = @ + 1,
                                   ![d].content = c, ![d].approved = NoContent]

\* PATCH /api/detections/{id}; saving the current text again changes nothing.
update_detection(d, c) ==
    /\ Exists(d) /\ detection[d].status \notin {"in-review", "retired"}
    /\ detection[d].version < MaxVersions
    /\ c # detection[d].content
    /\ add_version(d, c)
    /\ UNCHANGED <<gates, reviews, exports, context, tasks>>

submit(d) ==
    /\ passing_gate(d)
    /\ detection[d].status \in {"draft", "changes-requested"}
    /\ detection' = [detection EXCEPT ![d].status = "in-review"]

\* POST /api/detections/{id}/submit
submit_detection(d) ==
    /\ Exists(d)
    /\ submit(d)
    /\ UNCHANGED <<gates, reviews, exports, context, tasks>>

\* A result or an open task of the current query is used again; otherwise a new draft.
stage_validation(d) ==
    LET q == detection[d].content.query IN
    /\ detection[d].status # "retired"
    /\ find_latest_complete(q) = 0 /\ find_reusable(q) = {}
    /\ tasks' = Append(tasks, NewTask(q, "regression"))

\* POST /api/detections/{id}/validation-draft
create_validation_draft(d) ==
    /\ Exists(d)
    /\ Len(tasks) < MaxTasks
    /\ stage_validation(d)
    /\ UNCHANGED <<detection, gates, reviews, exports, context>>

\* Mutant: a gate may be accepted again.
AcceptableAgain(d, g) ==
    /\ gates[d][g].content = detection[d].content
    /\ gates[d][g].status = "pass"

\* The gate named by the service passed for this content and no review consumed it.
Acceptable(d, g) ==
    /\ gates[d][g].content = detection[d].content
    /\ gates[d][g].status = "pass"
    /\ gates[d][g].accepted = 0

Reviewed(d, decision) ==
    /\ Len(reviews[d]) < MaxReviews
    /\ reviews' = [reviews EXCEPT ![d] = Append(@, [decision |-> decision, content |-> detection[d].content])]

\* _preserve_approval runs after the decision is stored: an exception or the end of
\* the process leaves the decision with the artifact alone or with neither.
preserve_approval(d, kept) ==
    context' = [context EXCEPT ![d] = @ \cup ({Len(reviews[d]) + 1} \X kept)]

PartsPreserved == {{}, {"artifact"}, {"artifact", "case decision"}}

\* POST /api/detections/{id}/review, decision approve
approve_detection(d, kept) ==
    /\ Exists(d) /\ passing_gate(d)
    /\ detection[d].status = "in-review"
    /\ LET c == detection[d].content
           g == latest_gate(d, c)
       IN  /\ Acceptable(d, g)
           /\ gates' = [gates EXCEPT ![d][g].accepted = Len(reviews[d]) + 1]
           /\ detection' = [detection EXCEPT ![d].status = "approved", ![d].approved = c]
    /\ Reviewed(d, "approve")
    /\ preserve_approval(d, kept)
    /\ UNCHANGED <<exports, tasks>>

\* POST /api/detections/{id}/review, decision changes-requested
request_changes(d) ==
    /\ Exists(d) /\ detection[d].status = "in-review"
    /\ detection' = [detection EXCEPT ![d].status = "changes-requested", ![d].approved = NoContent]
    /\ Reviewed(d, "changes-requested")
    /\ UNCHANGED <<gates, exports, context, tasks>>

\* The caller names the digest of the current content; any other is refused.
Exportable(d) ==
    /\ detection[d].status = "approved"
    /\ detection[d].content = detection[d].approved

record_export(d, kind, g) ==
    exports' = [exports EXCEPT ![d] = @ \cup {[content |-> detection[d].content, kind |-> kind, gate |-> g]}]

\* Mutant: the newest gate of the content, accepted or not.
newest_gate(d) == MaxOr0({g \in DOMAIN gates[d] : gates[d][g].content = detection[d].content})

\* The accepted gate an export names: the newest of the current content.
export_gate(d) ==
    MaxOr0({g \in DOMAIN gates[d] : gates[d][g].accepted > 0 /\ gates[d][g].content = detection[d].content})

export_package(d) == Exportable(d) /\ record_export(d, "package", export_gate(d))

\* POST /api/detections/{id}/export
export_detection(d) ==
    /\ Exists(d)
    /\ export_package(d)
    /\ UNCHANGED <<detection, gates, reviews, context, tasks>>

\* A signed change bundle is built only for a version with an accepted gate.
GitChangeBuilt(d) == Exportable(d) /\ export_gate(d) # 0

export_change(d) == GitChangeBuilt(d) /\ record_export(d, "git-change", export_gate(d))

\* POST /api/detections/{id}/git-export
export_git_change(d) ==
    /\ Exists(d)
    /\ export_change(d)
    /\ UNCHANGED <<detection, gates, reviews, context, tasks>>

\* POST /api/detections/{id}/retire
retire_detection(d) ==
    /\ Exists(d) /\ detection[d].status = "approved"
    /\ detection' = [detection EXCEPT ![d].status = "retired"]
    /\ UNCHANGED <<gates, reviews, exports, context, tasks>>

EverApproved(d) == \E r \in DOMAIN reviews[d] : reviews[d][r].decision = "approve"

\* DELETE /api/detections/{id}; versions, reviews, gates and exports go with the row.
delete_detection(d) ==
    /\ Exists(d) /\ ~EverApproved(d)
    /\ detection[d].status \in {"draft", "changes-requested"}
    /\ detection' = [detection EXCEPT ![d] = NoDetection]
    /\ gates' = [gates EXCEPT ![d] = << >>]
    /\ reviews' = [reviews EXCEPT ![d] = << >>]
    /\ exports' = [exports EXCEPT ![d] = {}]
    /\ UNCHANGED <<context, tasks>>

-----------------------------------------------------------------------------
TaskSteps ==
    \/ \E q \in Queries : propose_validation(q)
    \/ \E t \in DOMAIN tasks : delete_artifact(t)
    \/ \E t \in DOMAIN tasks, r \in Outcomes : complete_validation(t, r)

ProjectSteps(d) ==
    \/ \E t \in DOMAIN tasks : create_detection(d, t)
    \/ \E c \in Edits : update_detection(d, c)
    \/ run_gate(d)
    \/ create_validation_draft(d)
    \/ submit_detection(d)
    \/ \E kept \in PartsPreserved : approve_detection(d, kept)
    \/ request_changes(d)
    \/ export_detection(d)
    \/ export_git_change(d)
    \/ retire_detection(d)
    \/ delete_detection(d)

LifecycleNext == TaskSteps \/ \E d \in Detections : ProjectSteps(d)

LifecycleSpec == LifecycleInit /\ [][LifecycleNext]_lifecycleVars

-----------------------------------------------------------------------------
(* Properties.                                                             *)

\* Each approval consumed a passing gate of exactly the content it approved, and no
\* two approvals share one, over any path of edits, returns to an earlier text and
\* new gates; a project that is approved or retired stands on its last review.
ApprovalHasItsGate ==
    \A d \in Detections :
        /\ \A r \in DOMAIN reviews[d] : reviews[d][r].decision = "approve" =>
            \E g \in DOMAIN gates[d] :
                /\ gates[d][g].accepted = r /\ gates[d][g].status = "pass"
                /\ gates[d][g].content = reviews[d][r].content
        /\ detection[d].status \in {"approved", "retired"} =>
            /\ detection[d].approved = detection[d].content
            /\ \E r \in DOMAIN reviews[d] :
                reviews[d][r].decision = "approve" /\ reviews[d][r].content = detection[d].content

\* An export names a gate that an approval accepted, for the very content exported,
\* although an approved project may be gated again before it is exported.
ExportsNameAcceptedGate ==
    \A d \in Detections : \A e \in exports[d] :
        /\ e.gate \in DOMAIN gates[d]
        /\ gates[d][e.gate].accepted > 0
        /\ gates[d][e.gate].content = e.content

=============================================================================
