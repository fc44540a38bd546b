---------------------------- MODULE DetectionProofs ----------------------------
(***************************************************************************)
(* Theorems about detection projects and what is made of them, for any     *)
(* number of projects, texts, gates and reviews, of handoffs to the        *)
(* repository and of observations of Splunk.  The promotion gate looks for *)
(* the newest gate and for the one accepted last; that such a gate exists  *)
(* in every nonempty history is the first lemma.                           *)
(***************************************************************************)
EXTENDS DetectionRepository, DetectionDeployment, SequenceTheorems, FiniteSetTheorems, TLAPS

\* A finite nonempty set has an element with the largest value.
LEMMA LargestExists ==
    ASSUME NEW S, IsFiniteSet(S), S # {}, NEW f, \A x \in S : f[x] \in Nat
    PROVE  \E x \in S : \A y \in S : f[y] <= f[x]
<1> DEFINE Above(x) == {y \in S : f[y] > f[x]}
           T == {Above(x) : x \in S}
<1>1. IsWellFoundedOn(StrictSubsetOrdering(S), FiniteSubsetsOf(S))
  BY FS_StrictSubsetOrderingWellFounded
<1>2. FiniteSubsetsOf(S) = SUBSET S
  BY FS_FiniteSubsetsOfFinite
<1>3. T \subseteq SUBSET S /\ T # {}
  OBVIOUS
<1>4. PICK A \in T : \A B \in T : ~ (<<B, A>> \in StrictSubsetOrdering(S))
  <2> HIDE DEF T
  <2>1. IsWellFoundedOn(StrictSubsetOrdering(S), SUBSET S)
    BY <1>1, <1>2
  <2>2. QED
    BY <2>1, <1>3, WFMin
<1>5. PICK x \in S : A = Above(x)
  OBVIOUS
<1>6. ASSUME NEW y \in S, f[y] > f[x] PROVE FALSE
  <2>1. Above(y) \subseteq Above(x)
    BY <1>6
  <2>2. y \in Above(x) /\ y \notin Above(y)
    BY <1>6
  <2>3. <<Above(y), Above(x)>> \in StrictSubsetOrdering(S)
    BY <2>1, <2>2 DEF StrictSubsetOrdering
  <2>4. QED
    BY <2>3, <1>4, <1>5
<1>7. QED
  BY <1>6

\* MaxOr0 names a member of every finite nonempty set of numbers.
LEMMA MaxIsMember ==
    ASSUME NEW S \in SUBSET Nat, IsFiniteSet(S)
    PROVE  MaxOr0(S) \in Nat /\ (S # {} => MaxOr0(S) \in S)
<1>1. CASE S = {}
  BY <1>1 DEF MaxOr0
<1>2. CASE S # {}
  <2> DEFINE f == [x \in S |-> x]
  <2>1. \A x \in S : f[x] \in Nat
    OBVIOUS
  <2>2. PICK x \in S : \A y \in S : f[y] <= f[x]
    <3> HIDE DEF f
    <3>1. QED  BY <1>2, <2>1, LargestExists
  <2>3. \E z \in S : \A y \in S : y <= z
    BY <2>2
  <2>4. QED
    BY <1>2, <2>3 DEF MaxOr0
<1>3. QED
  BY <1>1, <1>2

\* Positions in a history are finitely many.
LEMMA PositionsFinite ==
    ASSUME NEW n \in Nat, NEW T \in SUBSET (1 .. n)
    PROVE  IsFiniteSet(T)
<1>1. IsFiniteSet(1 .. n)
  BY FS_Interval
<1>2. QED
  BY <1>1, FS_Subset

-----------------------------------------------------------------------------
(* Types.                                                                  *)

Results == [count : Nat, columns : SUBSET Fields]

Tasks == [query : Queries, origin : {"analyst", "regression"}, status : {"draft", "complete"},
          artifact : {"none", "kept", "deleted"}, result : Results, completed : Nat]

Projects == [status : {"draft", "in-review", "changes-requested", "approved", "retired"},
             version : Nat, content : Contents, approved : Contents \cup {NoContent}, source : Nat]

Gates == [content : Contents, task : Nat, baseline : Nat, accepted : Nat, count : Nat,
          status : {"pass", "fail"}]

Decisions == [decision : {"approve", "changes-requested"}, content : Contents]

\* Every table holds rows of its own columns.
LifecycleTyped ==
    /\ tasks \in Seq(Tasks)
    /\ detection \in [Detections -> Projects \cup {NoDetection}]
    /\ gates \in [Detections -> Seq(Gates)]
    /\ reviews \in [Detections -> Seq(Decisions)]
    /\ exports \in [Detections -> SUBSET [content : Contents, kind : {"package", "git-change"}, gate : Nat]]

\* A project that exists is a row.
LEMMA ProjectRow ==
    ASSUME LifecycleTyped, NEW d \in Detections, detection[d].status # "none"
    PROVE  detection[d] \in Projects /\ Exists(d)
BY DEF LifecycleTyped, NoDetection, Exists

LEMMA ExistingRow ==
    ASSUME LifecycleTyped, NEW d \in Detections, Exists(d)
    PROVE  detection[d] \in Projects
BY DEF LifecycleTyped, Exists

\* What the gate looks up has the type of an identifier.
LEMMA LookupsTyped ==
    ASSUME LifecycleTyped
    PROVE  /\ \A q : find_latest_complete(q) \in {0} \cup DOMAIN tasks
           /\ \A d \in Detections : accepted_gate(d) \in Nat
           /\ MaxOr0({tasks[u].completed : u \in Completions}) \in Nat
<1>1. tasks \in Seq(Tasks) /\ Len(tasks) \in Nat /\ DOMAIN tasks = 1 .. Len(tasks)
  BY DEF LifecycleTyped
<1>2. Completions \subseteq 1 .. Len(tasks) /\ IsFiniteSet(Completions)
  <2>1. Completions \in SUBSET (1 .. Len(tasks))
    BY <1>1 DEF Completions
  <2>2. QED
    BY <1>1, <2>1, PositionsFinite
<1>3. \A q : find_latest_complete(q) \in {0} \cup DOMAIN tasks
  <2> TAKE q
  <2> DEFINE C == {t \in Completions : tasks[t].query = q}
             f == [t \in C |-> tasks[t].completed]
  <2>1. CASE C = {}
    BY <2>1 DEF find_latest_complete
  <2>2. CASE C # {}
    <3>1. IsFiniteSet(C)
      BY <1>2, FS_Subset
    <3>2. \A t \in C : f[t] \in Nat
      <4>1. \A t \in C : tasks[t] \in Tasks
        BY <1>1, <1>2
      <4>2. QED
        BY <4>1 DEF Tasks
    <3>3. PICK t \in C : \A u \in C : f[u] <= f[t]
      <4> HIDE DEF f, C
      <4>1. QED  BY <2>2, <3>1, <3>2, LargestExists
    <3>4. \E v \in C : \A u \in C : tasks[u].completed <= tasks[v].completed
      BY <3>3
    <3>5. find_latest_complete(q) \in C
      BY <2>2, <3>4 DEF find_latest_complete
    <3>6. QED
      BY <3>5, <1>1, <1>2
  <2>3. QED
    BY <2>1, <2>2
<1>4. ASSUME NEW d \in Detections PROVE accepted_gate(d) \in Nat
  <2> DEFINE A == {g \in DOMAIN gates[d] : gates[d][g].accepted > 0}
             f == [g \in A |-> gates[d][g].accepted]
  <2>1. gates[d] \in Seq(Gates) /\ Len(gates[d]) \in Nat /\ DOMAIN gates[d] = 1 .. Len(gates[d])
    BY DEF LifecycleTyped
  <2>2. CASE A = {}
    BY <2>2 DEF accepted_gate
  <2>3. CASE A # {}
    <3>1. IsFiniteSet(A)
      BY <2>1, PositionsFinite
    <3>2. \A g \in A : f[g] \in Nat
      <4>1. \A g \in A : gates[d][g] \in Gates
        BY <2>1
      <4>2. QED
        BY <4>1 DEF Gates
    <3>3. PICK g \in A : \A h \in A : f[h] <= f[g]
      <4> HIDE DEF f, A
      <4>1. QED  BY <2>3, <3>1, <3>2, LargestExists
    <3>4. \E g1 \in A : \A h \in A : gates[d][h].accepted <= gates[d][g1].accepted
      BY <3>3
    <3>5. accepted_gate(d) \in A
      BY <2>3, <3>4 DEF accepted_gate
    <3>6. QED
      BY <3>5, <2>1
  <2>4. QED
    BY <2>2, <2>3
<1>5. MaxOr0({tasks[u].completed : u \in Completions}) \in Nat
  <2> DEFINE S == {tasks[u].completed : u \in Completions}
  <2>1. S \in SUBSET Nat
    <3>1. \A u \in Completions : tasks[u] \in Tasks
      BY <1>1, <1>2
    <3>2. QED
      BY <3>1 DEF Tasks
  <2>2. IsFiniteSet(S)
    <3> DEFINE f == [u \in Completions |-> tasks[u].completed]
    <3>1. S = {f[u] : u \in Completions}
      OBVIOUS
    <3>2. f \in [Completions -> S]
      OBVIOUS
    <3>3. f \in Surjection(Completions, S)
      BY <3>1, <3>2 DEF Surjection
    <3>4. QED
      BY <1>2, <3>3, FS_Surjection
  <2>3. MaxOr0(S) \in Nat
    <3> HIDE DEF S
    <3>1. QED  BY <2>1, <2>2, MaxIsMember
  <2>4. QED
    BY <2>3
<1>6. QED
  BY <1>3, <1>4, <1>5

\* The types hold at first.
LEMMA TypedInit == LifecycleInit => LifecycleTyped
<1>1. SUFFICES ASSUME LifecycleInit PROVE LifecycleTyped
  OBVIOUS
<1>2. tasks \in Seq(Tasks)
  BY <1>1 DEF LifecycleInit
<1>3. /\ detection \in [Detections -> Projects \cup {NoDetection}]
      /\ gates \in [Detections -> Seq(Gates)]
      /\ reviews \in [Detections -> Seq(Decisions)]
      /\ exports \in [Detections -> SUBSET [content : Contents, kind : {"package", "git-change"}, gate : Nat]]
  BY <1>1 DEF LifecycleInit
<1>4. QED
  BY <1>2, <1>3 DEF LifecycleTyped

\* A gate that is recorded has its columns, whatever it found.
LEMMA RecordedGate ==
    ASSUME LifecycleTyped, NEW d \in Detections, Exists(d), evaluate_gate(d)
    PROVE  \E row \in Gates : /\ gates' = [gates EXCEPT ![d] = Append(@, row)]
                              /\ row.accepted = 0
<1> DEFINE c == detection[d].content
           t == find_latest_complete(c.query)
           b == accepted_gate(d)
           row == [content |-> c, task |-> t, baseline |-> b, accepted |-> 0,
                   count |-> IF t = 0 THEN 0 ELSE tasks[t].result.count,
                   status |-> IF GateControls(d, c, t, b) THEN "pass" ELSE "fail"]
<1>1. c \in Contents
  BY ExistingRow DEF Projects
<1>2. t \in {0} \cup DOMAIN tasks /\ b \in Nat
  BY LookupsTyped
<1>3. t \in Nat /\ (t # 0 => tasks[t].result.count \in Nat)
  <2>1. tasks \in Seq(Tasks) /\ DOMAIN tasks = 1 .. Len(tasks) /\ Len(tasks) \in Nat
    BY DEF LifecycleTyped
  <2>2. t # 0 => tasks[t] \in Tasks
    BY <1>2, <2>1
  <2>3. QED
    BY <1>2, <2>1, <2>2 DEF Tasks, Results
<1>4. row \in Gates
  <2> HIDE DEF c, t, b
  <2>1. QED  BY <1>1, <1>2, <1>3 DEF Gates
<1>5. gates' = [gates EXCEPT ![d] = Append(@, row)]
  BY DEF evaluate_gate, record_gate
<1>6. QED
  <2>1. row.accepted = 0
    OBVIOUS
  <2> HIDE DEF row
  <2>2. QED  BY <1>4, <1>5, <2>1

\* A stamped gate and a completed task keep their columns.
LEMMA StampedRow ==
    ASSUME NEW row \in Gates, NEW n \in Nat
    PROVE  [row EXCEPT !.accepted = n] \in Gates
BY DEF Gates

LEMMA CompletedRow ==
    ASSUME NEW row \in Tasks, NEW r \in Results, NEW n \in Nat
    PROVE  [row EXCEPT !.status = "complete", !.artifact = "kept",
                       !.result = r, !.completed = n] \in Tasks
BY DEF Tasks

\* A row of a table is replaced by another.
LEMMA RowReplaced ==
    ASSUME NEW S, NEW s \in Seq(S), NEW i \in DOMAIN s, NEW e \in S
    PROVE  [s EXCEPT ![i] = e] \in Seq(S)
OBVIOUS

\* A new validation task, and a result that is preserved.
LEMMA TasksTyped ==
    ASSUME LifecycleTyped, TaskSteps
    PROVE  tasks' \in Seq(Tasks) /\ UNCHANGED <<detection, gates, reviews, exports>>
<1>1. tasks \in Seq(Tasks)
  BY DEF LifecycleTyped
<1>2. ASSUME NEW q \in Queries, propose_validation(q)
      PROVE  tasks' \in Seq(Tasks) /\ UNCHANGED <<detection, gates, reviews, exports>>
  <2>1. NewTask(q, "analyst") \in Tasks
    BY DEF NewTask, Tasks, Results
  <2>2. tasks' = Append(tasks, NewTask(q, "analyst")) /\ UNCHANGED <<detection, gates, reviews, exports>>
    BY <1>2 DEF propose_validation
  <2>3. QED
    BY <1>1, <2>1, <2>2, AppendProperties
<1>3. ASSUME NEW t \in DOMAIN tasks, delete_artifact(t)
      PROVE  tasks' \in Seq(Tasks) /\ UNCHANGED <<detection, gates, reviews, exports>>
  <2>1. [tasks[t] EXCEPT !.artifact = "deleted"] \in Tasks
    <3>1. tasks[t] \in Tasks
      BY <1>1
    <3>2. QED
      BY <3>1 DEF Tasks
  <2>2. /\ tasks' = [tasks EXCEPT ![t] = [tasks[t] EXCEPT !.artifact = "deleted"]]
        /\ UNCHANGED <<detection, gates, reviews, exports>>
    BY <1>3 DEF delete_artifact
  <2>3. QED
    BY <1>1, <2>1, <2>2, RowReplaced
<1>4. ASSUME NEW t \in DOMAIN tasks, NEW r \in Outcomes, complete_validation(t, r)
      PROVE  tasks' \in Seq(Tasks) /\ UNCHANGED <<detection, gates, reviews, exports>>
  <2> DEFINE last == MaxOr0({tasks[u].completed : u \in Completions})
  <2>1. r \in Results /\ last \in Nat
    BY LifecycleAssumption, LookupsTyped DEF Results
  <2> DEFINE row == [tasks[t] EXCEPT !.status = "complete", !.artifact = "kept",
                                     !.result = r, !.completed = 1 + last]
  <2>2. tasks' = [tasks EXCEPT ![t] = row]
    BY <1>4 DEF complete_validation, preserve_result
  <2>3. tasks' \in Seq(Tasks)
    <3>1. tasks[t] \in Tasks
      BY <1>1
    <3>2. row \in Tasks
      <4> HIDE DEF last
      <4>1. 1 + last \in Nat
        BY <2>1
      <4>2. QED  BY <3>1, <2>1, <4>1, CompletedRow
    <3> HIDE DEF row
    <3>3. QED  BY <1>1, <2>2, <3>2, RowReplaced
  <2>4. QED
    BY <1>4, <2>3 DEF complete_validation, preserve_result
<1>5. QED
  BY <1>2, <1>3, <1>4 DEF TaskSteps

\* An approval stamps a passing gate of the content that no review consumed.
LEMMA ApprovalMove ==
    ASSUME LifecycleTyped, NEW d \in Detections, NEW kept, approve_detection(d, kept)
    PROVE  \E g \in DOMAIN gates[d], row \in Gates, decided \in Decisions :
              /\ gates[d][g].accepted = 0
              /\ row = [gates[d][g] EXCEPT !.accepted = Len(reviews[d]) + 1]
              /\ row.accepted = Len(reviews[d]) + 1
              /\ row.status = "pass" /\ row.content = detection[d].content
              /\ decided = [decision |-> "approve", content |-> detection[d].content]
              /\ gates' = [gates EXCEPT ![d] = [gates[d] EXCEPT ![g] = row]]
              /\ reviews' = [reviews EXCEPT ![d] = Append(reviews[d], decided)]
              /\ detection' = [detection EXCEPT ![d].status = "approved",
                                               ![d].approved = detection[d].content]
              /\ UNCHANGED <<exports, tasks>>
<1> DEFINE A == {h \in DOMAIN gates[d] : gates[d][h].content = detection[d].content}
           g == MaxOr0(A)
           n == Len(reviews[d]) + 1
           row == [gates[d][g] EXCEPT !.accepted = n]
           decided == [decision |-> "approve", content |-> detection[d].content]
<1>1. gates[d] \in Seq(Gates) /\ Len(gates[d]) \in Nat /\ DOMAIN gates[d] = 1 .. Len(gates[d])
  BY DEF LifecycleTyped
<1>2. n \in Nat
  BY DEF LifecycleTyped
<1>3. detection[d].content \in Contents
  BY ExistingRow DEF approve_detection, Projects
<1>4. g = latest_gate(d, detection[d].content)
  BY DEF latest_gate
<1>5. g # 0 /\ gates[d][g].status = "pass" /\ gates[d][g].accepted = 0
  BY <1>4 DEF approve_detection, passing_gate, Acceptable
<1>6. g \in A
  <2>1. A \in SUBSET Nat /\ A \in SUBSET (1 .. Len(gates[d]))
    BY <1>1
  <2>2. IsFiniteSet(A)
    <3> HIDE DEF A, g, n, row, decided
    <3>1. QED  BY <1>1, <2>1, PositionsFinite
  <2>3. A # {}
    BY <1>5 DEF MaxOr0
  <2>4. QED
    <3> HIDE DEF A
    <3>1. QED  BY <2>1, <2>2, <2>3, MaxIsMember
<1>7. gates[d][g] \in Gates /\ gates[d][g].content = detection[d].content
  <2> HIDE DEF g
  <2>1. QED  BY <1>1, <1>6
<1>8. /\ row \in Gates
      /\ row.accepted = n /\ row.status = "pass" /\ row.content = detection[d].content
  <2> HIDE DEF g, n
  <2>1. row \in Gates
    BY <1>2, <1>7, StampedRow
  <2>2. QED
    BY <1>5, <1>7, <2>1 DEF Gates
<1>9. decided \in Decisions
  BY <1>3 DEF Decisions
<1>10. /\ gates' = [gates EXCEPT ![d] = [gates[d] EXCEPT ![g] = row]]
       /\ reviews' = [reviews EXCEPT ![d] = Append(reviews[d], decided)]
       /\ detection' = [detection EXCEPT ![d].status = "approved", ![d].approved = detection[d].content]
       /\ UNCHANGED <<exports, tasks>>
  <2> HIDE DEF g
  <2>1. QED  BY <1>4 DEF approve_detection, Reviewed
<1>11. g \in DOMAIN gates[d]
  BY <1>6
<1>12. /\ row = [gates[d][g] EXCEPT !.accepted = Len(reviews[d]) + 1]
       /\ row.accepted = Len(reviews[d]) + 1
       /\ decided = [decision |-> "approve", content |-> detection[d].content]
  BY <1>8
<1>13. QED
  <2> HIDE DEF g, row, decided, n
  <2> USE <1>8, <1>9, <1>11
  <2>1. WITNESS g \in DOMAIN gates[d], row \in Gates, decided \in Decisions
  <2>2. QED  BY <1>5, <1>8, <1>10, <1>12

\* A project derived from a task, and one that is edited.
LEMMA ContentTyped ==
    ASSUME LifecycleTyped, NEW t \in DOMAIN tasks
    PROVE  DerivedContent(t) \in Contents /\ t \in Nat
<1>1. tasks[t] \in Tasks /\ t \in Nat
  BY DEF LifecycleTyped
<1>2. QED
  BY <1>1 DEF DerivedContent, Contents, Tasks, Results

\* What each step on a project does to the tables, by the columns that matter.
LEMMA ProjectTyped ==
    ASSUME LifecycleTyped, NEW d \in Detections, ProjectSteps(d)
    PROVE  LifecycleTyped'
<1> USE DEF LifecycleTyped
<1>1. ASSUME NEW t \in DOMAIN tasks, create_detection(d, t) PROVE LifecycleTyped'
  <2> DEFINE row == [status |-> "draft", version |-> 1, content |-> DerivedContent(t),
                     approved |-> NoContent, source |-> t]
  <2>1. row \in Projects
    BY ContentTyped DEF Projects
  <2>2. detection' = [detection EXCEPT ![d] = row] /\ UNCHANGED <<tasks, gates, reviews, exports>>
    BY <1>1 DEF create_detection, store_create
  <2> HIDE DEF row
  <2>3. QED
    BY <2>1, <2>2
<1>2. ASSUME NEW c \in Edits, update_detection(d, c) PROVE LifecycleTyped'
  <2>1. c \in Contents /\ detection[d] \in Projects
    BY <1>2, LifecycleAssumption, ExistingRow DEF update_detection
  <2>2. detection' \in [Detections -> Projects \cup {NoDetection}]
    BY <1>2, <2>1 DEF update_detection, add_version, Projects
  <2>3. QED
    BY <1>2, <2>2 DEF update_detection
<1>3. CASE run_gate(d)
  <2>1. PICK row \in Gates : gates' = [gates EXCEPT ![d] = Append(@, row)]
    BY <1>3, RecordedGate DEF run_gate
  <2>2. Append(gates[d], row) \in Seq(Gates)
    BY AppendProperties
  <2>3. QED
    BY <1>3, <2>1, <2>2 DEF run_gate
<1>4. CASE create_validation_draft(d)
  <2> DEFINE new == NewTask(detection[d].content.query, "regression")
  <2>1. new \in Tasks
    BY <1>4, ExistingRow DEF create_validation_draft, Projects, Contents, NewTask, Tasks, Results
  <2>2. tasks' = Append(tasks, new) /\ UNCHANGED <<detection, gates, reviews, exports>>
    BY <1>4 DEF create_validation_draft, stage_validation
  <2> HIDE DEF new
  <2>3. tasks' \in Seq(Tasks)
    BY <2>1, <2>2, AppendProperties
  <2>4. QED
    BY <2>2, <2>3
<1>5. CASE submit_detection(d)
  <2>1. detection[d] \in Projects
    BY <1>5, ExistingRow DEF submit_detection
  <2>2. QED
    BY <1>5, <2>1 DEF submit_detection, submit, Projects
<1>6. ASSUME NEW kept \in PartsPreserved, approve_detection(d, kept) PROVE LifecycleTyped'
  <2>1. PICK g \in DOMAIN gates[d], row \in Gates, decided \in Decisions :
          /\ gates' = [gates EXCEPT ![d] = [gates[d] EXCEPT ![g] = row]]
          /\ reviews' = [reviews EXCEPT ![d] = Append(reviews[d], decided)]
          /\ detection' = [detection EXCEPT ![d].status = "approved",
                                           ![d].approved = detection[d].content]
          /\ UNCHANGED <<exports, tasks>>
    <3> HIDE DEF LifecycleTyped
    <3>1. QED  BY <1>6, ApprovalMove
  <2>2. detection[d] \in Projects
    BY <1>6, ExistingRow DEF approve_detection
  <2>3. detection' \in [Detections -> Projects \cup {NoDetection}]
    BY <2>1, <2>2 DEF Projects
  <2>4. [gates[d] EXCEPT ![g] = row] \in Seq(Gates)
    BY RowReplaced
  <2>5. Append(reviews[d], decided) \in Seq(Decisions)
    BY AppendProperties
  <2>6. QED
    BY <2>1, <2>3, <2>4, <2>5
<1>7. CASE request_changes(d)
  <2> DEFINE decided == [decision |-> "changes-requested", content |-> detection[d].content]
  <2>1. detection[d] \in Projects
    BY <1>7, ExistingRow DEF request_changes
  <2>2. decided \in Decisions
    BY <2>1 DEF Projects, Decisions
  <2>3. /\ detection' = [detection EXCEPT ![d].status = "changes-requested", ![d].approved = NoContent]
        /\ reviews' = [reviews EXCEPT ![d] = Append(@, decided)]
        /\ UNCHANGED <<gates, exports, tasks>>
    BY <1>7 DEF request_changes, Reviewed
  <2> HIDE DEF decided
  <2>4. detection' \in [Detections -> Projects \cup {NoDetection}]
    BY <2>1, <2>3 DEF Projects
  <2>5. Append(reviews[d], decided) \in Seq(Decisions)
    BY <2>2, AppendProperties
  <2>6. QED
    BY <2>3, <2>4, <2>5
<1>8. CASE export_detection(d) \/ export_git_change(d)
  <2> DEFINE g == export_gate(d)
  <2>1. detection[d].content \in Contents
    BY <1>8, ExistingRow DEF export_detection, export_git_change, Projects
  <2>2. g \in Nat
    <3> DEFINE A == {h \in DOMAIN gates[d] : gates[d][h].accepted > 0
                                             /\ gates[d][h].content = detection[d].content}
    <3>1. A \in SUBSET Nat /\ A \in SUBSET (1 .. Len(gates[d])) /\ Len(gates[d]) \in Nat
      OBVIOUS
    <3>2. IsFiniteSet(A)
      <4> HIDE DEF A, g
      <4>1. QED  BY <3>1, PositionsFinite
    <3>3. MaxOr0(A) \in Nat
      <4> HIDE DEF A, g
      <4>1. QED  BY <3>1, <3>2, MaxIsMember
    <3>4. QED
      BY <3>3 DEF export_gate
  <2>3. PICK kind \in {"package", "git-change"} :
            exports' = [exports EXCEPT ![d] = @ \cup {[content |-> detection[d].content, kind |-> kind, gate |-> g]}]
    BY <1>8 DEF export_detection, export_git_change, export_package, export_change, record_export
  <2>4. UNCHANGED <<detection, gates, reviews, tasks>>
    BY <1>8 DEF export_detection, export_git_change
  <2> HIDE DEF g
  <2>5. QED
    BY <2>1, <2>2, <2>3, <2>4
<1>9. CASE retire_detection(d)
  <2>1. detection[d] \in Projects
    BY <1>9, ExistingRow DEF retire_detection
  <2>2. QED
    BY <1>9, <2>1 DEF retire_detection, Projects
<1>10. CASE delete_detection(d)
  BY <1>10 DEF delete_detection
<1>11. QED
  BY <1>1, <1>2, <1>3, <1>4, <1>5, <1>6, <1>7, <1>8, <1>9, <1>10 DEF ProjectSteps

\* Every step keeps the columns of every table.
LEMMA TypedStep == LifecycleTyped /\ [LifecycleNext]_lifecycleVars => LifecycleTyped'
<1>1. SUFFICES ASSUME LifecycleTyped, [LifecycleNext]_lifecycleVars PROVE LifecycleTyped'
  OBVIOUS
<1>2. CASE TaskSteps
  BY <1>1, <1>2, TasksTyped DEF LifecycleTyped
<1>3. ASSUME NEW d \in Detections, ProjectSteps(d) PROVE LifecycleTyped'
  BY <1>1, <1>3, ProjectTyped
<1>4. CASE UNCHANGED lifecycleVars
  BY <1>1, <1>4 DEF LifecycleTyped, lifecycleVars
<1>5. QED
  BY <1>1, <1>2, <1>3, <1>4 DEF LifecycleNext

\* Whatever analysts and reviewers do, the tables hold rows of their own columns.
THEOREM LifecycleTypes == LifecycleSpec => []LifecycleTyped
<1>1. QED
  BY TypedInit, TypedStep, PTL DEF LifecycleSpec

-----------------------------------------------------------------------------
(* Approvals and exports.  The properties are inductive together: an       *)
(* export finds an accepted gate because the approval it stands on has one *)

Backed(d) ==
    \A r \in DOMAIN reviews[d] : reviews[d][r].decision = "approve" =>
        \E g \in DOMAIN gates[d] :
            /\ gates[d][g].accepted = r /\ gates[d][g].status = "pass"
            /\ gates[d][g].content = reviews[d][r].content

Standing(d) ==
    detection[d].status \in {"approved", "retired"} =>
        /\ detection[d].approved = detection[d].content
        /\ \E r \in DOMAIN reviews[d] :
            reviews[d][r].decision = "approve" /\ reviews[d][r].content = detection[d].content

Traced(d) ==
    \A e \in exports[d] :
        /\ e.gate \in DOMAIN gates[d]
        /\ gates[d][e.gate].accepted > 0
        /\ gates[d][e.gate].content = e.content

Governed(d) == Backed(d) /\ Standing(d) /\ Traced(d)

LEMMA GovernedIsBoth ==
    (\A d \in Detections : Governed(d)) <=> (ApprovalHasItsGate /\ ExportsNameAcceptedGate)
BY DEF Governed, Backed, Standing, Traced, ApprovalHasItsGate, ExportsNameAcceptedGate

\* A project whose decisions and exports are left alone keeps them backed, by gates
\* that stay what they were.
LEMMA HistoryKept ==
    ASSUME LifecycleTyped, NEW d \in Detections, Governed(d),
           reviews'[d] = reviews[d], exports'[d] = exports[d],
           \A g \in DOMAIN gates[d] : g \in DOMAIN gates'[d] /\ gates'[d][g] = gates[d][g]
    PROVE  Backed(d)' /\ Traced(d)'
BY DEF Governed, Backed, Traced

\* The new decision stands on the gate it stamped; the stamp of no other decision is
\* touched, because that gate had none.
LEMMA ApprovalGoverned ==
    ASSUME LifecycleTyped, NEW d \in Detections, Governed(d), NEW kept, approve_detection(d, kept)
    PROVE  Governed(d)'
<1> DEFINE n == Len(reviews[d]) + 1
<1>1. PICK g \in DOMAIN gates[d], row \in Gates, decided \in Decisions :
              /\ gates[d][g].accepted = 0
              /\ row = [gates[d][g] EXCEPT !.accepted = Len(reviews[d]) + 1]
              /\ row.accepted = Len(reviews[d]) + 1
              /\ row.status = "pass" /\ row.content = detection[d].content
              /\ decided = [decision |-> "approve", content |-> detection[d].content]
              /\ gates' = [gates EXCEPT ![d] = [gates[d] EXCEPT ![g] = row]]
              /\ reviews' = [reviews EXCEPT ![d] = Append(reviews[d], decided)]
              /\ detection' = [detection EXCEPT ![d].status = "approved",
                                               ![d].approved = detection[d].content]
              /\ UNCHANGED <<exports, tasks>>
  BY ApprovalMove
<1>2. /\ gates[d] \in Seq(Gates) /\ DOMAIN gates[d] = 1 .. Len(gates[d])
      /\ reviews[d] \in Seq(Decisions) /\ DOMAIN reviews[d] = 1 .. Len(reviews[d])
      /\ Len(reviews[d]) \in Nat /\ Len(gates[d]) \in Nat
      /\ d \in DOMAIN gates /\ d \in DOMAIN reviews /\ d \in DOMAIN detection
  BY DEF LifecycleTyped
<1>3. gates'[d] = [gates[d] EXCEPT ![g] = row] /\ reviews'[d] = Append(reviews[d], decided)
  BY <1>1, <1>2
<1>4. /\ DOMAIN gates'[d] = DOMAIN gates[d] /\ gates'[d][g] = row
      /\ \A h \in DOMAIN gates[d] : h # g => gates'[d][h] = gates[d][h]
  BY <1>3
<1>5. /\ DOMAIN reviews'[d] = 1 .. n /\ reviews'[d][n] = decided
      /\ \A r \in DOMAIN reviews[d] : reviews'[d][r] = reviews[d][r]
  BY <1>2, <1>3, AppendProperties
<1>6. decided.decision = "approve" /\ decided.content = detection[d].content
  BY <1>1
<1>7. Backed(d)'
  <2> SUFFICES ASSUME NEW r \in 1 .. n, reviews'[d][r].decision = "approve"
               PROVE  \E h \in DOMAIN gates'[d] :
                        /\ gates'[d][h].accepted = r /\ gates'[d][h].status = "pass"
                        /\ gates'[d][h].content = reviews'[d][r].content
    BY <1>5 DEF Backed
  <2>1. CASE r = n
    <3>1. /\ gates'[d][g].accepted = n /\ gates'[d][g].status = "pass"
          /\ gates'[d][g].content = detection[d].content
      BY <1>1, <1>4
    <3>2. reviews'[d][r].content = detection[d].content
      BY <1>5, <1>6, <2>1
    <3>3. g \in DOMAIN gates'[d]
      BY <1>4
    <3>4. QED
      BY <2>1, <3>1, <3>2, <3>3
  <2>2. CASE r # n
    <3>1. r \in DOMAIN reviews[d] /\ r # 0
      BY <1>2, <2>2
    <3>2. PICK h \in DOMAIN gates[d] :
              /\ gates[d][h].accepted = r /\ gates[d][h].status = "pass"
              /\ gates[d][h].content = reviews[d][r].content
      BY <3>1, <1>5 DEF Governed, Backed
    <3>3. h # g
      BY <1>1, <3>1, <3>2
    <3>4. QED
      BY <1>4, <1>5, <3>1, <3>2, <3>3
  <2>3. QED
    BY <2>1, <2>2
<1>8. Standing(d)'
  <2>1. detection[d] \in Projects
    BY ExistingRow DEF approve_detection
  <2>2. detection'[d].approved = detection[d].content /\ detection'[d].content = detection[d].content
    BY <1>1, <1>2, <2>1 DEF Projects
  <2>3. n \in DOMAIN reviews'[d]
    BY <1>2, <1>5
  <2>4. QED
    BY <1>5, <1>6, <2>2, <2>3 DEF Standing
<1>9. Traced(d)'
  <2>1. row.accepted > 0
    BY <1>1, <1>2
  <2>2. exports'[d] = exports[d]
    BY <1>1
  <2>3. ASSUME NEW e \in exports[d]
        PROVE  /\ e.gate \in DOMAIN gates'[d] /\ gates'[d][e.gate].accepted > 0
               /\ gates'[d][e.gate].content = e.content
    <3>1. /\ e.gate \in DOMAIN gates[d] /\ gates[d][e.gate].accepted > 0
          /\ gates[d][e.gate].content = e.content
      BY DEF Governed, Traced
    <3>2. e.gate # g
      BY <1>1, <3>1
    <3>3. QED
      BY <1>4, <3>1, <3>2
  <2>4. QED
    BY <2>2, <2>3 DEF Traced
<1>10. QED
  BY <1>7, <1>8, <1>9 DEF Governed

\* What may be exported was approved, so a gate that was accepted for it exists and
\* the newest of these is the one named.
LEMMA ExportGoverned ==
    ASSUME LifecycleTyped, NEW d \in Detections, Governed(d),
           export_detection(d) \/ export_git_change(d)
    PROVE  Governed(d)'
<1> DEFINE A == {h \in DOMAIN gates[d] : gates[d][h].accepted > 0
                                         /\ gates[d][h].content = detection[d].content}
<1>1. PICK kind : /\ exports' = [exports EXCEPT ![d] = @ \cup
                        {[content |-> detection[d].content, kind |-> kind, gate |-> export_gate(d)]}]
                  /\ UNCHANGED <<detection, gates, reviews>>
  <2>1. CASE export_detection(d)
    BY <2>1 DEF export_detection, export_package, record_export
  <2>2. CASE export_git_change(d)
    BY <2>2 DEF export_git_change, export_change, record_export
  <2>3. QED
    BY <2>1, <2>2
<1>2. detection[d].status = "approved"
  BY DEF export_detection, export_package, export_git_change, export_change, GitChangeBuilt, Exportable
<1>3. gates[d] \in Seq(Gates) /\ DOMAIN gates[d] = 1 .. Len(gates[d]) /\ Len(gates[d]) \in Nat
  BY DEF LifecycleTyped
<1>4. A # {}
  <2>1. PICK r \in DOMAIN reviews[d] :
            reviews[d][r].decision = "approve" /\ reviews[d][r].content = detection[d].content
    BY <1>2 DEF Governed, Standing
  <2>2. PICK g \in DOMAIN gates[d] :
            gates[d][g].accepted = r /\ gates[d][g].content = reviews[d][r].content
    BY <2>1 DEF Governed, Backed
  <2>3. r > 0
    BY DEF LifecycleTyped
  <2>4. QED
    BY <2>1, <2>2, <2>3
<1>5. export_gate(d) \in A
  <2>1. A \in SUBSET Nat /\ A \in SUBSET (1 .. Len(gates[d]))
    BY <1>3
  <2>2. IsFiniteSet(A)
    <3> HIDE DEF A
    <3>1. QED  BY <1>3, <2>1, PositionsFinite
  <2>3. MaxOr0(A) \in A
    <3> HIDE DEF A
    <3>1. QED  BY <1>4, <2>1, <2>2, MaxIsMember
  <2>4. QED
    BY <2>3 DEF export_gate
<1>6. Traced(d)'
  <2> DEFINE new == [content |-> detection[d].content, kind |-> kind, gate |-> export_gate(d)]
  <2>1. exports'[d] = exports[d] \cup {new} /\ gates'[d] = gates[d]
    BY <1>1 DEF LifecycleTyped
  <2>2. new.gate = export_gate(d) /\ new.content = detection[d].content
    OBVIOUS
  <2> HIDE DEF new
  <2>3. /\ new.gate \in DOMAIN gates[d] /\ gates[d][new.gate].accepted > 0
        /\ gates[d][new.gate].content = new.content
    BY <1>5, <2>2
  <2>4. QED
    BY <2>1, <2>3 DEF Governed, Traced
<1>7. Backed(d)' /\ Standing(d)'
  BY <1>1 DEF Governed, Backed, Standing
<1>8. QED
  BY <1>6, <1>7 DEF Governed

\* Every operation on a project keeps its approvals and exports backed.
LEMMA ProjectGoverned ==
    ASSUME LifecycleTyped, NEW d \in Detections, Governed(d), ProjectSteps(d)
    PROVE  Governed(d)'
<1> DEFINE Same == reviews'[d] = reviews[d] /\ exports'[d] = exports[d] /\ gates'[d] = gates[d]
<1>0. /\ d \in DOMAIN detection /\ d \in DOMAIN gates /\ d \in DOMAIN reviews /\ d \in DOMAIN exports
      /\ gates[d] \in Seq(Gates) /\ reviews[d] \in Seq(Decisions)
  BY DEF LifecycleTyped
<1>1. ASSUME NEW t \in DOMAIN tasks, create_detection(d, t) PROVE Governed(d)'
  <2>1. Same /\ detection'[d].status = "draft"
    BY <1>0, <1>1 DEF create_detection, store_create
  <2>2. QED
    BY <2>1, HistoryKept DEF Governed, Standing
<1>2. ASSUME NEW c \in Edits, update_detection(d, c) PROVE Governed(d)'
  <2>1. detection[d] \in Projects
    BY <1>2, ExistingRow DEF update_detection
  <2>2. Same /\ detection'[d].status = "draft"
    BY <1>0, <1>2, <2>1 DEF update_detection, add_version, Projects
  <2>3. QED
    BY <2>2, HistoryKept DEF Governed, Standing
<1>3. CASE run_gate(d)
  <2>1. PICK row \in Gates : gates' = [gates EXCEPT ![d] = Append(@, row)]
    BY <1>3, RecordedGate DEF run_gate
  <2>2. \A g \in DOMAIN gates[d] : g \in DOMAIN gates'[d] /\ gates'[d][g] = gates[d][g]
    BY <1>0, <2>1, AppendProperties
  <2>3. UNCHANGED <<detection, reviews, exports>>
    BY <1>3 DEF run_gate
  <2>4. Standing(d)'
    BY <2>3 DEF Governed, Standing
  <2>5. QED
    BY <2>2, <2>3, <2>4, HistoryKept DEF Governed
<1>4. CASE create_validation_draft(d)
  <2>1. UNCHANGED <<detection, gates, reviews, exports>>
    BY <1>4 DEF create_validation_draft
  <2>2. QED
    BY <2>1 DEF Governed, Backed, Standing, Traced
<1>5. CASE submit_detection(d)
  <2>1. detection[d] \in Projects
    BY <1>5, ExistingRow DEF submit_detection
  <2>2. Same /\ detection'[d].status = "in-review"
    BY <1>0, <1>5, <2>1 DEF submit_detection, submit, Projects
  <2>3. QED
    BY <2>2, HistoryKept DEF Governed, Standing
<1>6. ASSUME NEW kept \in PartsPreserved, approve_detection(d, kept) PROVE Governed(d)'
  BY <1>6, ApprovalGoverned
<1>7. CASE request_changes(d)
  <2> DEFINE decided == [decision |-> "changes-requested", content |-> detection[d].content]
             n == Len(reviews[d]) + 1
  <2>1. detection[d] \in Projects
    BY <1>7, ExistingRow DEF request_changes
  <2>2. decided \in Decisions /\ decided.decision # "approve"
    BY <2>1 DEF Projects, Decisions
  <2>3. detection'[d].status = "changes-requested" /\ UNCHANGED <<gates, exports>>
    BY <1>0, <1>7, <2>1 DEF request_changes, Projects
  <2>4. reviews'[d] = Append(reviews[d], decided)
    BY <1>0, <1>7 DEF request_changes, Reviewed
  <2> HIDE DEF decided
  <2>5. /\ DOMAIN reviews'[d] = 1 .. n /\ reviews'[d][n] = decided
        /\ \A r \in DOMAIN reviews[d] : reviews'[d][r] = reviews[d][r]
        /\ DOMAIN reviews[d] = 1 .. Len(reviews[d]) /\ Len(reviews[d]) \in Nat
    BY <1>0, <2>2, <2>4, AppendProperties
  <2>6. ASSUME NEW r \in DOMAIN reviews'[d], reviews'[d][r].decision = "approve"
        PROVE  r \in DOMAIN reviews[d] /\ reviews'[d][r] = reviews[d][r]
    BY <2>2, <2>5, <2>6
  <2>7. Backed(d)'
    BY <2>3, <2>6 DEF Governed, Backed
  <2>8. QED
    BY <2>3, <2>7 DEF Governed, Standing, Traced
<1>8. CASE export_detection(d) \/ export_git_change(d)
  BY <1>8, ExportGoverned
<1>9. CASE retire_detection(d)
  <2>1. detection[d] \in Projects
    BY <1>9, ExistingRow DEF retire_detection
  <2>2. /\ Same /\ detection[d].status = "approved"
        /\ detection'[d].content = detection[d].content
        /\ detection'[d].approved = detection[d].approved
    BY <1>0, <1>9, <2>1 DEF retire_detection, Projects
  <2>3. Standing(d)'
    BY <2>2 DEF Governed, Standing
  <2>4. QED
    BY <2>2, <2>3, HistoryKept DEF Governed
<1>10. CASE delete_detection(d)
  <2>1. reviews'[d] = << >> /\ exports'[d] = {} /\ detection'[d] = NoDetection
    BY <1>0, <1>10 DEF delete_detection
  <2>2. QED
    BY <2>1 DEF Governed, Backed, Standing, Traced, NoDetection
<1>11. QED
  BY <1>1, <1>2, <1>3, <1>4, <1>5, <1>6, <1>7, <1>8, <1>9, <1>10 DEF ProjectSteps

\* An operation on one project leaves the tables of the others alone.
LEMMA OthersKept ==
    ASSUME LifecycleTyped, NEW d \in Detections, ProjectSteps(d), NEW e \in Detections, e # d
    PROVE  /\ detection'[e] = detection[e] /\ gates'[e] = gates[e]
           /\ reviews'[e] = reviews[e] /\ exports'[e] = exports[e]
<1> USE DEF LifecycleTyped
<1>1. ASSUME NEW t \in DOMAIN tasks, create_detection(d, t)
      PROVE  detection'[e] = detection[e] /\ UNCHANGED <<gates, reviews, exports>>
  BY <1>1 DEF create_detection, store_create
<1>2. ASSUME NEW c \in Edits, update_detection(d, c)
      PROVE  detection'[e] = detection[e] /\ UNCHANGED <<gates, reviews, exports>>
  BY <1>2 DEF update_detection, add_version
<1>3. CASE run_gate(d) \/ create_validation_draft(d)
  BY <1>3 DEF run_gate, evaluate_gate, record_gate, create_validation_draft
<1>4. CASE submit_detection(d) \/ retire_detection(d) \/ request_changes(d)
  BY <1>4 DEF submit_detection, submit, retire_detection, request_changes, Reviewed
<1>5. ASSUME NEW kept \in PartsPreserved, approve_detection(d, kept)
      PROVE  /\ detection'[e] = detection[e] /\ gates'[e] = gates[e]
             /\ reviews'[e] = reviews[e] /\ exports'[e] = exports[e]
  BY <1>5 DEF approve_detection, Reviewed
<1>6. CASE export_detection(d) \/ export_git_change(d)
  BY <1>6 DEF export_detection, export_git_change, export_package, export_change, record_export
<1>7. CASE delete_detection(d)
  BY <1>7 DEF delete_detection
<1>8. QED
  BY <1>1, <1>2, <1>3, <1>4, <1>5, <1>6, <1>7 DEF ProjectSteps

LifecycleInv == LifecycleTyped /\ \A d \in Detections : Governed(d)

LEMMA LifecycleInvInit == LifecycleInit => LifecycleInv
<1>1. SUFFICES ASSUME LifecycleInit PROVE \A d \in Detections : Governed(d)
  BY TypedInit DEF LifecycleInv
<1>2. ASSUME NEW d \in Detections PROVE Governed(d)
  <2>1. detection[d] = NoDetection /\ reviews[d] = << >> /\ exports[d] = {}
    BY <1>1 DEF LifecycleInit
  <2>2. QED
    BY <2>1 DEF Governed, Backed, Standing, Traced, NoDetection
<1>3. QED
  BY <1>2

LEMMA LifecycleInvStep == LifecycleInv /\ [LifecycleNext]_lifecycleVars => LifecycleInv'
<1>1. SUFFICES ASSUME LifecycleInv, [LifecycleNext]_lifecycleVars
               PROVE  \A e \in Detections : Governed(e)'
  BY TypedStep DEF LifecycleInv
<1>2. TAKE e \in Detections
<1>3. LifecycleTyped /\ Governed(e)
  BY <1>1 DEF LifecycleInv
<1>4. CASE TaskSteps
  BY <1>3, <1>4, TasksTyped DEF Governed, Backed, Standing, Traced
<1>5. ASSUME NEW d \in Detections, ProjectSteps(d) PROVE Governed(e)'
  <2>1. CASE d = e
    BY <1>3, <1>5, <2>1, ProjectGoverned
  <2>2. CASE d # e
    BY <1>3, <1>5, <2>2, OthersKept DEF Governed, Backed, Standing, Traced
  <2>3. QED
    BY <2>1, <2>2
<1>6. CASE UNCHANGED lifecycleVars
  BY <1>3, <1>6 DEF lifecycleVars, Governed, Backed, Standing, Traced
<1>7. QED
  BY <1>1, <1>4, <1>5, <1>6 DEF LifecycleNext

\* However a project is edited, gated, reviewed and deleted, each approval consumed a
\* passing gate of its own for the content it approved, and an approved or retired
\* project is what its approval says.
THEOREM ApprovalsHaveTheirGates == LifecycleSpec => []ApprovalHasItsGate
<1>1. LifecycleInv => ApprovalHasItsGate
  BY GovernedIsBoth DEF LifecycleInv
<1>2. QED
  BY <1>1, LifecycleInvInit, LifecycleInvStep, PTL DEF LifecycleSpec

\* Every export, whenever it is made, names a gate an approval accepted for the content
\* that is exported.
THEOREM ExportsNameTheirGates == LifecycleSpec => []ExportsNameAcceptedGate
<1>1. LifecycleInv => ExportsNameAcceptedGate
  BY GovernedIsBoth DEF LifecycleInv
<1>2. QED
  BY <1>1, LifecycleInvInit, LifecycleInvStep, PTL DEF LifecycleSpec

-----------------------------------------------------------------------------
(* The repository handoff.  While a method runs its handoff stays in the   *)
(* status the method found, because nothing else may change it.            *)

\* A table is a sequence of whatever rows it has.
IsTable(s) == s \in Seq({s[i] : i \in DOMAIN s})

LEMMA SeqIsTable == ASSUME NEW S, NEW s \in Seq(S) PROVE IsTable(s)
<1>1. s \in [1..Len(s) -> {s[i] : i \in DOMAIN s}] /\ Len(s) \in Nat
  BY LenProperties
<1>2. QED
  BY <1>1, SeqDef DEF IsTable

LEMMA TableIsIndexed ==
    ASSUME NEW s, IsTable(s)
    PROVE  Len(s) \in Nat /\ DOMAIN s = 1..Len(s)
BY LenProperties DEF IsTable

LEMMA TableAppended ==
    ASSUME NEW s, IsTable(s), NEW e
    PROVE  /\ IsTable(Append(s, e)) /\ Len(Append(s, e)) = Len(s) + 1
           /\ DOMAIN Append(s, e) = 1..Len(s) + 1
           /\ Append(s, e)[Len(s) + 1] = e
           /\ \A i \in DOMAIN s : Append(s, e)[i] = s[i]
<1> DEFINE S == {s[i] : i \in DOMAIN s} \cup {e}
<1>1. s \in Seq(S) /\ e \in S
  BY SeqMonotonic DEF IsTable
<1> HIDE DEF S
<1>2. Append(s, e) \in Seq(S) /\ Len(Append(s, e)) = Len(s) + 1 /\ Len(s) \in Nat
  BY <1>1, LenProperties
<1>3. IsTable(Append(s, e))
  BY <1>2, SeqIsTable
<1>4. DOMAIN Append(s, e) = 1..Len(s) + 1 /\ DOMAIN s = 1..Len(s)
  BY <1>1, <1>2, LenProperties
<1>5. Append(s, e)[Len(s) + 1] = e /\ \A i \in DOMAIN s : Append(s, e)[i] = s[i]
  BY <1>1, <1>2, <1>4
<1>6. QED
  BY <1>2, <1>3, <1>4, <1>5

LEMMA TableWritten ==
    ASSUME NEW s, IsTable(s), NEW i \in DOMAIN s, NEW e
    PROVE  LET t == [s EXCEPT ![i] = e] IN
           /\ IsTable(t) /\ Len(t) = Len(s) /\ DOMAIN t = DOMAIN s /\ t[i] = e
           /\ \A j \in DOMAIN s : j # i => t[j] = s[j]
<1> DEFINE S == {s[j] : j \in DOMAIN s} \cup {e}
<1>1. s \in Seq(S) /\ e \in S
  BY SeqMonotonic DEF IsTable
<1> HIDE DEF S
<1>2. i \in 1..Len(s) /\ Len(s) \in Nat /\ DOMAIN s = 1..Len(s)
  BY <1>1, LenProperties
<1>3. [s EXCEPT ![i] = e] \in Seq(S) /\ Len([s EXCEPT ![i] = e]) = Len(s)
  BY <1>1, <1>2, ExceptSeq
<1>4. QED
  BY <1>2, <1>3, SeqIsTable

HandoffRows == [detection : Detections, content : Contents, base : Nat, blocked : BOOLEAN,
                status : {"previewed", "applied", "pushed", "pull-request-opened"},
                commit : {NoCommit} \cup [parent : Nat, content : Contents]]

HandoffsTyped == handoffs \in Seq(HandoffRows) /\ base \in Nat

\* Once applied, a handoff names the commit of what was previewed.
AppliedIsCommit ==
    \A h \in DOMAIN handoffs : handoffs[h].status # "previewed" => handoffs[h].commit = CommitOf(h)

Approved(h) ==
    \E r \in DOMAIN reviews[handoffs[h].detection] :
        reviews[handoffs[h].detection][r] = [decision |-> "approve", content |-> handoffs[h].content]
HandoffsApproved == \A h \in DOMAIN handoffs : Approved(h)

During(op, status) ==
    call.op = op => call.handoff \in DOMAIN handoffs /\ handoffs[call.handoff].status = status
CallStands ==
    /\ During("commit", "previewed") /\ During("mark applied", "previewed")
    /\ During("transfer", "applied") /\ During("verify", "applied")
    /\ During("create", "pushed") /\ During("mark opened", "pushed")
    /\ During("checks", "pull-request-opened")

\* A snapshot's handoff keeps its status, and so its commit, for good.
SnapshotStands(s) ==
    /\ {"handoff", "risk", "head", "item"} \subseteq DOMAIN s
    /\ s.handoff \in DOMAIN handoffs
    /\ handoffs[s.handoff].status = "pull-request-opened"
    /\ s.risk = "low" => s.head = handoffs[s.handoff].commit
SnapshotsStand == IsTable(snapshots) /\ \A n \in DOMAIN snapshots : SnapshotStands(snapshots[n])

RepositoryInv ==
    /\ LifecycleInv /\ HandoffsTyped /\ AppliedIsCommit /\ HandoffsApproved
    /\ CallStands /\ SnapshotsStand

LEMMA RepositoryInvInit == LifecycleInit /\ RepositoryInit => RepositoryInv
<1>1. SUFFICES ASSUME LifecycleInit, RepositoryInit PROVE RepositoryInv
  OBVIOUS
<1>2. HandoffsTyped /\ AppliedIsCommit /\ HandoffsApproved
  BY <1>1 DEF RepositoryInit, HandoffsTyped, AppliedIsCommit, HandoffsApproved
<1>3. CallStands
  BY <1>1 DEF RepositoryInit, CallStands, During, NoCall
<1>4. SnapshotsStand
  <2>1. snapshots \in Seq({}) /\ DOMAIN snapshots = {}
    BY <1>1 DEF RepositoryInit
  <2>2. QED
    BY <2>1, SeqIsTable DEF SnapshotsStand
<1>5. QED
  BY <1>1, <1>2, <1>3, <1>4, LifecycleInvInit DEF RepositoryInv

\* What was approved stays approved: reviews are only added, and a project that was ever
\* approved is not deleted.
LEMMA ApprovalStays ==
    ASSUME LifecycleTyped, [LifecycleNext]_lifecycleVars, NEW d \in Detections,
           NEW r \in DOMAIN reviews[d], reviews[d][r].decision = "approve"
    PROVE  r \in DOMAIN reviews'[d] /\ reviews'[d][r] = reviews[d][r]
<1>1. /\ reviews[d] \in Seq(Decisions) /\ DOMAIN reviews[d] = 1 .. Len(reviews[d])
      /\ Len(reviews[d]) \in Nat /\ d \in DOMAIN reviews /\ detection[d].content = detection[d].content
  BY DEF LifecycleTyped
<1>2. CASE TaskSteps
  BY <1>2, TasksTyped
<1>3. CASE UNCHANGED lifecycleVars
  BY <1>3 DEF lifecycleVars
<1>4. ASSUME NEW e \in Detections, ProjectSteps(e), e # d
      PROVE  reviews'[d] = reviews[d]
  BY <1>4, OthersKept
<1>5. ASSUME ProjectSteps(d)
      PROVE  r \in DOMAIN reviews'[d] /\ reviews'[d][r] = reviews[d][r]
  <2>1. ASSUME NEW decision, Reviewed(d, decision)
        PROVE  r \in DOMAIN reviews'[d] /\ reviews'[d][r] = reviews[d][r]
    <3> DEFINE decided == [decision |-> decision, content |-> detection[d].content]
    <3>1. reviews'[d] = Append(reviews[d], decided)
      BY <1>1, <2>1 DEF Reviewed
    <3>2. IsTable(reviews[d])
      BY <1>1, SeqIsTable
    <3> HIDE DEF decided
    <3>3. /\ DOMAIN Append(reviews[d], decided) = 1..Len(reviews[d]) + 1
          /\ \A i \in DOMAIN reviews[d] : Append(reviews[d], decided)[i] = reviews[d][i]
      BY <3>2, TableAppended
    <3>4. r \in 1..Len(reviews[d]) + 1
      BY <1>1
    <3>5. QED
      BY <3>1, <3>3, <3>4
  <2>2. CASE request_changes(d)
    BY <2>1, <2>2 DEF request_changes
  <2>3. ASSUME NEW kept, approve_detection(d, kept)
        PROVE  r \in DOMAIN reviews'[d] /\ reviews'[d][r] = reviews[d][r]
    BY <2>1, <2>3 DEF approve_detection
  <2>4. CASE delete_detection(d)
    BY <2>4 DEF delete_detection, EverApproved
  <2>5. ASSUME \/ \E t \in DOMAIN tasks : create_detection(d, t)
               \/ \E c \in Edits : update_detection(d, c)
               \/ run_gate(d) \/ create_validation_draft(d) \/ submit_detection(d)
               \/ export_detection(d) \/ export_git_change(d) \/ retire_detection(d)
        PROVE  reviews' = reviews
    BY <2>5 DEF create_detection, update_detection, run_gate, create_validation_draft,
                submit_detection, export_detection, export_git_change, retire_detection
  <2>6. QED
    BY <1>5, <2>2, <2>3, <2>4, <2>5 DEF ProjectSteps
<1>6. QED
  BY <1>2, <1>3, <1>4, <1>5 DEF LifecycleNext

\* A request on a project leaves handoffs alone, and their approvals stay.
LEMMA ProjectsKeepRepository ==
    ASSUME RepositoryInv, [LifecycleNext]_lifecycleVars, UNCHANGED repositoryVars
    PROVE  RepositoryInv'
<1>1. LifecycleInv' /\ LifecycleTyped
  BY LifecycleInvStep DEF RepositoryInv, LifecycleInv
<1>2. UNCHANGED <<handoffs, base, call, snapshots>>
  BY DEF repositoryVars, gitVars
<1>3. HandoffsApproved'
  <2>1. SUFFICES ASSUME NEW h \in DOMAIN handoffs PROVE Approved(h)'
    BY <1>2 DEF HandoffsApproved
  <2>2. handoffs[h].detection \in Detections
    <3>1. handoffs[h] \in HandoffRows
      BY DEF RepositoryInv, HandoffsTyped
    <3>2. QED
      BY <3>1 DEF HandoffRows
  <2>3. PICK r \in DOMAIN reviews[handoffs[h].detection] :
          reviews[handoffs[h].detection][r] = [decision |-> "approve", content |-> handoffs[h].content]
    BY DEF RepositoryInv, HandoffsApproved, Approved
  <2>4. reviews[handoffs[h].detection][r].decision = "approve"
    BY <2>3
  <2>5. /\ r \in DOMAIN reviews'[handoffs[h].detection]
        /\ reviews'[handoffs[h].detection][r] = reviews[handoffs[h].detection][r]
    BY <1>1, <2>2, <2>4, ApprovalStays
  <2>6. QED
    BY <1>2, <2>3, <2>5 DEF Approved
<1>4. HandoffsTyped' /\ AppliedIsCommit' /\ CallStands'
  BY <1>2 DEF RepositoryInv, HandoffsTyped, AppliedIsCommit, CallStands, During, CommitOf
<1>5. SnapshotsStand'
  BY <1>2 DEF RepositoryInv, SnapshotsStand, SnapshotStands
<1>6. QED
  BY <1>1, <1>3, <1>4, <1>5 DEF RepositoryInv

\* A handoff is made of an approved project.
LEMMA PreviewKeepsRepository ==
    ASSUME RepositoryInv, UNCHANGED lifecycleVars,
           NEW d \in Detections, NEW blocked \in Conflicts, preview(d, blocked)
    PROVE  RepositoryInv'
<1>1. LifecycleInv' /\ LifecycleTyped /\ Standing(d) /\ reviews' = reviews
  BY LifecycleInvStep DEF RepositoryInv, LifecycleInv, Governed, lifecycleVars
<1> DEFINE row == [detection |-> d, content |-> detection[d].content, base |-> base,
                   blocked |-> blocked, status |-> "previewed", commit |-> NoCommit]
<1>0. PICK n : n = Len(handoffs) + 1
  OBVIOUS
<1>2. /\ Exists(d) /\ detection[d].status = "approved" /\ handoffs' = Append(handoffs, row)
      /\ call = NoCall /\ call' = call /\ base' = base /\ snapshots' = snapshots
  BY DEF preview, store_handoff, GitChangeBuilt, Exportable, gitVars
<1>3. detection[d].content \in Contents
  BY <1>1, <1>2, ExistingRow DEF Projects
<1>4. handoffs \in Seq(HandoffRows) /\ row \in HandoffRows
  BY <1>3 DEF RepositoryInv, HandoffsTyped, HandoffRows, Conflicts
<1>5. handoffs' \in Seq(HandoffRows)
  BY <1>2, <1>4, AppendProperties
<1>6. /\ DOMAIN handoffs' = 1..n /\ DOMAIN handoffs = 1..Len(handoffs) /\ Len(handoffs) \in Nat
      /\ handoffs'[n] = row /\ \A h \in DOMAIN handoffs : handoffs'[h] = handoffs[h]
  BY <1>0, <1>2, <1>4, AppendProperties
<1>7. row.status = "previewed" /\ row.detection = d /\ row.content = detection[d].content
  OBVIOUS
<1> HIDE DEF row
<1>8. DOMAIN handoffs \subseteq DOMAIN handoffs' /\ \A h \in DOMAIN handoffs' : h \in DOMAIN handoffs \/ h = n
  BY <1>0, <1>6
<1>9. HandoffsTyped' /\ AppliedIsCommit'
  BY <1>2, <1>5, <1>6, <1>7, <1>8 DEF RepositoryInv, HandoffsTyped, AppliedIsCommit, CommitOf
<1>10. HandoffsApproved'
  <2>1. ASSUME NEW h \in DOMAIN handoffs PROVE Approved(h)'
    BY <1>1, <1>6 DEF RepositoryInv, HandoffsApproved, Approved
  <2>2. Approved(n)'
    <3>1. PICK r \in DOMAIN reviews[d] :
            reviews[d][r].decision = "approve" /\ reviews[d][r].content = detection[d].content
      BY <1>1, <1>2 DEF Standing
    <3>2. reviews[d][r] \in Decisions
      BY <1>1 DEF LifecycleTyped
    <3>3. reviews[d][r] = [decision |-> "approve", content |-> detection[d].content]
      BY <3>1, <3>2 DEF Decisions
    <3>4. QED
      BY <1>1, <1>6, <1>7, <3>3 DEF Approved
  <2>3. QED
    BY <1>8, <2>1, <2>2 DEF HandoffsApproved
<1>11. CallStands'
  BY <1>2 DEF CallStands, During, NoCall
<1>12. SnapshotsStand'
  BY <1>2, <1>6, <1>8 DEF RepositoryInv, SnapshotsStand, SnapshotStands
<1>13. QED
  BY <1>1, <1>9, <1>10, <1>11, <1>12 DEF RepositoryInv

\* A mark changes the status, and the first the commit, of the handoff the method is about.
LEMMA MarkKeepsRepository ==
    ASSUME RepositoryInv, UNCHANGED lifecycleVars, NEW h \in DOMAIN handoffs,
           NEW status, NEW commit,
           \/ handoffs[h].status = "previewed" /\ status = "applied" /\ commit = CommitOf(h)
           \/ handoffs[h].status = "applied" /\ status = "pushed" /\ commit = handoffs[h].commit
           \/ handoffs[h].status = "pushed" /\ status = "pull-request-opened"
              /\ commit = handoffs[h].commit,
           handoffs' = [handoffs EXCEPT ![h] = [handoffs[h] EXCEPT !.status = status, !.commit = commit]],
           call' = NoCall, UNCHANGED <<base, snapshots>>
    PROVE  RepositoryInv'
<1>1. LifecycleInv' /\ reviews' = reviews
  BY LifecycleInvStep DEF RepositoryInv, lifecycleVars
<1> DEFINE row == [handoffs[h] EXCEPT !.status = status, !.commit = commit]
<1>2. handoffs \in Seq(HandoffRows) /\ handoffs[h] \in HandoffRows
  BY DEF RepositoryInv, HandoffsTyped
<1>3. commit = CommitOf(h) /\ commit \in [parent : Nat, content : Contents]
  <2>1. commit = CommitOf(h)
    BY DEF RepositoryInv, AppliedIsCommit
  <2>2. QED
    BY <1>2, <2>1 DEF CommitOf, HandoffRows
<1>4. /\ row \in HandoffRows /\ row.status = status /\ row.commit = commit
      /\ row.detection = handoffs[h].detection /\ row.content = handoffs[h].content
      /\ row.base = handoffs[h].base /\ status # "previewed"
  BY <1>2, <1>3 DEF HandoffRows
<1> HIDE DEF row
<1>5. handoffs' = [handoffs EXCEPT ![h] = row]
  BY DEF row
<1>6. handoffs' \in Seq(HandoffRows)
  BY <1>2, <1>4, <1>5, RowReplaced
<1>7. /\ DOMAIN handoffs' = DOMAIN handoffs /\ handoffs'[h] = row
      /\ \A k \in DOMAIN handoffs : k # h => handoffs'[k] = handoffs[k]
  BY <1>5
<1>8. HandoffsTyped' /\ AppliedIsCommit' /\ HandoffsApproved'
  <2>1. HandoffsTyped'
    BY <1>6 DEF RepositoryInv, HandoffsTyped
  <2>2. AppliedIsCommit'
    BY <1>3, <1>4, <1>7 DEF RepositoryInv, AppliedIsCommit, CommitOf
  <2>3. ASSUME NEW k \in DOMAIN handoffs PROVE Approved(k)'
    <3>1. handoffs'[k].detection = handoffs[k].detection /\ handoffs'[k].content = handoffs[k].content
      BY <1>4, <1>7
    <3>2. QED
      BY <1>1, <3>1 DEF RepositoryInv, HandoffsApproved, Approved
  <2>4. QED
    BY <1>7, <2>1, <2>2, <2>3 DEF HandoffsApproved
<1>9. CallStands'
  BY DEF CallStands, During, NoCall
<1>10. SnapshotsStand'
  <2>1. \A n \in DOMAIN snapshots : snapshots[n].handoff # h
    BY DEF RepositoryInv, SnapshotsStand, SnapshotStands
  <2>2. QED
    BY <1>7, <2>1 DEF RepositoryInv, SnapshotsStand, SnapshotStands
<1>11. QED
  BY <1>1, <1>8, <1>9, <1>10 DEF RepositoryInv

\* A step of a method that marks nothing finds the handoff in the status of the next.
LEMMA CallKeepsRepository ==
    ASSUME RepositoryInv, UNCHANGED lifecycleVars, UNCHANGED <<handoffs, snapshots>>, base' \in Nat,
           CallStands'
    PROVE  RepositoryInv'
<1>1. LifecycleInv' /\ reviews' = reviews
  BY LifecycleInvStep DEF RepositoryInv, lifecycleVars
<1>2. HandoffsTyped' /\ AppliedIsCommit' /\ HandoffsApproved'
  BY <1>1 DEF RepositoryInv, HandoffsTyped, AppliedIsCommit, HandoffsApproved, Approved, CommitOf
<1>3. SnapshotsStand'
  BY DEF RepositoryInv, SnapshotsStand, SnapshotStands
<1>4. QED
  BY <1>1, <1>2, <1>3 DEF RepositoryInv

LEMMA LowIsExact ==
    ASSUME NEW identity, NEW view, NEW checks, Risk(identity, view, checks) = "low"
    PROVE  identity = "exact"
BY DEF Risk

\* A snapshot calls the risk low only of the head it read, and only if that is the commit.
LEMMA ReviewKeepsRepository ==
    ASSUME RepositoryInv, UNCHANGED lifecycleVars, NEW h \in DOMAIN handoffs, record_review(h)
    PROVE  RepositoryInv'
<1>1. LifecycleInv' /\ reviews' = reviews
  BY LifecycleInvStep DEF RepositoryInv, lifecycleVars
<1> DEFINE identity == Identity(h, call.view)
<1>0. PICK row, n :
        /\ row = [handoff |-> h, identity |-> identity, lifecycle |-> call.view.lifecycle,
                  checks |-> pulls[h].checks, risk |-> Risk(identity, call.view, pulls[h].checks),
                  head |-> call.view.head, item |-> FALSE]
        /\ n = Len(snapshots) + 1
  OBVIOUS
<1>2. /\ call.op = "checks" /\ call.handoff = h /\ snapshots' = Append(snapshots, row)
      /\ call' = NoCall /\ handoffs' = handoffs /\ base' = base
  BY <1>0 DEF record_review, gitVars
<1>3. /\ row.handoff = h /\ row.head = call.view.head /\ row.risk = Risk(identity, call.view, pulls[h].checks)
      /\ {"handoff", "risk", "head", "item"} \subseteq DOMAIN row
  BY <1>0
<1>4. row.risk = "low" => row.head = handoffs[h].commit
  BY <1>3, LowIsExact DEF Identity
<1>5. handoffs[h].status = "pull-request-opened"
  BY <1>2 DEF RepositoryInv, CallStands, During
<1> HIDE DEF identity
<1>6. SnapshotStands(row)'
  BY <1>2, <1>3, <1>4, <1>5 DEF SnapshotStands
<1>7. IsTable(snapshots) /\ Len(snapshots) \in Nat /\ DOMAIN snapshots = 1..Len(snapshots)
  BY TableIsIndexed DEF RepositoryInv, SnapshotsStand
<1>8. /\ IsTable(snapshots') /\ DOMAIN snapshots' = 1..n /\ snapshots'[n] = row
      /\ \A k \in DOMAIN snapshots : snapshots'[k] = snapshots[k]
  BY <1>0, <1>2, <1>7, TableAppended
<1>9. \A k \in DOMAIN snapshots' : k \in DOMAIN snapshots \/ k = n
  BY <1>0, <1>7, <1>8
<1>10. SnapshotsStand'
  BY <1>2, <1>6, <1>8, <1>9 DEF RepositoryInv, SnapshotsStand, SnapshotStands
<1>11. CallStands' /\ HandoffsTyped' /\ AppliedIsCommit' /\ HandoffsApproved'
  BY <1>1, <1>2 DEF RepositoryInv, CallStands, During, NoCall, HandoffsTyped, AppliedIsCommit,
                    HandoffsApproved, Approved, CommitOf
<1>12. QED
  BY <1>1, <1>10, <1>11 DEF RepositoryInv

\* A snapshot that is preserved says what it said.
LEMMA PreservedKeepsRepository ==
    ASSUME RepositoryInv, UNCHANGED lifecycleVars, NEW n \in DOMAIN snapshots,
           preserve_review_to_case(n) \/ mark_review_preserved(n)
    PROVE  RepositoryInv'
<1>1. LifecycleInv' /\ reviews' = reviews
  BY LifecycleInvStep DEF RepositoryInv, lifecycleVars
<1>2. handoffs' = handoffs /\ base' = base
  BY DEF preserve_review_to_case, mark_review_preserved, gitVars
<1>3. HandoffsTyped' /\ AppliedIsCommit' /\ HandoffsApproved'
  BY <1>1, <1>2 DEF RepositoryInv, HandoffsTyped, AppliedIsCommit, HandoffsApproved, Approved, CommitOf
<1>4. CallStands'
  <2>1. call' = NoCall \/ call' = [op |-> "mark preserved", snapshot |-> n]
    BY DEF preserve_review_to_case, mark_review_preserved
  <2>2. call'.op \in {"idle", "mark preserved"}
    <3>1. NoCall.op = "idle" /\ [op |-> "mark preserved", snapshot |-> n].op = "mark preserved"
      BY DEF NoCall
    <3>2. QED
      BY <2>1, <3>1
  <2>3. QED
    BY <2>2 DEF CallStands, During
<1>5. CASE preserve_review_to_case(n)
  BY <1>1, <1>2, <1>3, <1>4, <1>5
     DEF preserve_review_to_case, RepositoryInv, SnapshotsStand, SnapshotStands
<1>6. CASE mark_review_preserved(n)
  <2>0. PICK row : row = [snapshots[n] EXCEPT !.item = TRUE]
    OBVIOUS
  <2>1. SnapshotStands(snapshots[n]) /\ IsTable(snapshots)
    BY DEF RepositoryInv, SnapshotsStand
  <2>2. /\ DOMAIN row = DOMAIN snapshots[n] /\ row.handoff = snapshots[n].handoff
        /\ row.risk = snapshots[n].risk /\ row.head = snapshots[n].head
    BY <2>0, <2>1 DEF SnapshotStands
  <2>3. snapshots' = [snapshots EXCEPT ![n] = row]
    BY <1>6, <2>0 DEF mark_review_preserved
  <2>4. /\ IsTable(snapshots') /\ DOMAIN snapshots' = DOMAIN snapshots /\ snapshots'[n] = row
        /\ \A k \in DOMAIN snapshots : k # n => snapshots'[k] = snapshots[k]
    BY <2>1, <2>3, TableWritten
  <2>5. SnapshotStands(row)'
    BY <1>2, <2>1, <2>2 DEF SnapshotStands
  <2>6. SnapshotsStand'
    BY <1>2, <2>4, <2>5 DEF RepositoryInv, SnapshotsStand, SnapshotStands
  <2>7. QED
    BY <1>1, <1>3, <1>4, <2>6 DEF RepositoryInv
<1>7. QED
  BY <1>5, <1>6

LEMMA RepositoryInvStep ==
    RepositoryInv /\ [RepositoryNext]_<<lifecycleVars, repositoryVars>> => RepositoryInv'
<1>1. SUFFICES ASSUME RepositoryInv, [RepositoryNext]_<<lifecycleVars, repositoryVars>>
               PROVE  RepositoryInv'
  OBVIOUS
<1>2. CASE UNCHANGED <<lifecycleVars, repositoryVars>>
  BY <1>1, <1>2, ProjectsKeepRepository
<1>3. CASE LifecycleNext /\ UNCHANGED repositoryVars
  BY <1>1, <1>3, ProjectsKeepRepository
<1>4. CASE RepositorySteps /\ UNCHANGED lifecycleVars
  <2>1. base \in Nat
    BY <1>1 DEF RepositoryInv, HandoffsTyped
  <2>2. ASSUME NEW d \in Detections, NEW blocked \in Conflicts, preview(d, blocked)
        PROVE  RepositoryInv'
    BY <1>1, <1>4, <2>2, PreviewKeepsRepository
  <2>3. ASSUME NEW n \in DOMAIN snapshots, preserve_review_to_case(n) \/ mark_review_preserved(n)
        PROVE  RepositoryInv'
    BY <1>1, <1>4, <2>3, PreservedKeepsRepository
  <2>4. CASE restart_repository
    <3>1. call' = NoCall /\ UNCHANGED <<handoffs, snapshots, base>>
      BY <2>4 DEF restart_repository, gitVars
    <3>2. CallStands'
      BY <3>1 DEF CallStands, During, NoCall
    <3>3. QED
      BY <1>1, <1>4, <2>1, <3>1, <3>2, CallKeepsRepository
  <2>5. CASE move_base
    <3>1. base' \in Nat /\ UNCHANGED <<handoffs, snapshots, call>>
      BY <2>1, <2>5 DEF move_base
    <3>2. CallStands'
      BY <1>1, <3>1 DEF RepositoryInv, CallStands, During
    <3>3. QED
      BY <1>1, <1>4, <3>1, <3>2, CallKeepsRepository
  <2>6. ASSUME NEW h \in DOMAIN handoffs, HandoffSteps(h) PROVE RepositoryInv'
    <3>1. \A op : Handoff(op, h).op = op /\ Handoff(op, h).handoff = h
      BY DEF Handoff
    <3>2. handoffs[h] \in HandoffRows
      BY <1>1 DEF RepositoryInv, HandoffsTyped
    <3>3. CASE mark_applied(h)
      <4>1. handoffs' = [handoffs EXCEPT ![h] = [handoffs[h] EXCEPT !.status = "applied", !.commit = CommitOf(h)]]
        BY <3>3 DEF mark_applied
      <4>2. handoffs[h].status = "previewed"
        BY <1>1, <3>1, <3>3 DEF mark_applied, RepositoryInv, CallStands, During
      <4>3. call' = NoCall /\ UNCHANGED <<base, snapshots>>
        BY <3>3 DEF mark_applied, gitVars
      <4>4. QED
        BY <1>1, <1>4, <4>1, <4>2, <4>3, MarkKeepsRepository
    <3>4. CASE mark_pushed(h)
      <4>1. handoffs[h].status = "applied"
        BY <1>1, <3>1, <3>4 DEF mark_pushed, RepositoryInv, CallStands, During
      <4>2. call' = NoCall /\ UNCHANGED <<base, snapshots>>
        BY <3>4 DEF mark_pushed, gitVars
      <4>3. CASE RemoteMatches(h)
        <5>1. handoffs' = [handoffs EXCEPT ![h] = [handoffs[h] EXCEPT !.status = "pushed", !.commit = handoffs[h].commit]]
          <6>1. [handoffs[h] EXCEPT !.status = "pushed", !.commit = handoffs[h].commit]
                  = [handoffs[h] EXCEPT !.status = "pushed"]
            BY <3>2 DEF HandoffRows
          <6>2. handoffs' = [handoffs EXCEPT ![h] = [handoffs[h] EXCEPT !.status = "pushed"]]
            BY <3>4, <4>3 DEF mark_pushed
          <6>3. QED
            BY <6>1, <6>2
        <5>2. QED
          BY <1>1, <1>4, <4>1, <4>2, <5>1, MarkKeepsRepository
      <4>4. CASE ~RemoteMatches(h)
        <5>1. handoffs' = handoffs
          BY <3>4, <4>4 DEF mark_pushed
        <5>2. CallStands'
          BY <4>2 DEF CallStands, During, NoCall
        <5>3. QED
          BY <1>1, <1>4, <2>1, <4>2, <5>1, <5>2, CallKeepsRepository
      <4>5. QED
        BY <4>3, <4>4
    <3>5. CASE mark_pull_request(h)
      <4>1. handoffs[h].status = "pushed"
        BY <1>1, <3>1, <3>5 DEF mark_pull_request, RepositoryInv, CallStands, During
      <4>2. call' = NoCall /\ UNCHANGED <<base, snapshots>>
        BY <3>5 DEF mark_pull_request, gitVars
      <4>3. [handoffs[h] EXCEPT !.status = "pull-request-opened", !.commit = handoffs[h].commit]
              = [handoffs[h] EXCEPT !.status = "pull-request-opened"]
        BY <3>2 DEF HandoffRows
      <4>4. handoffs' = [handoffs EXCEPT ![h] = [handoffs[h] EXCEPT !.status = "pull-request-opened"]]
        BY <3>5 DEF mark_pull_request
      <4>5. QED
        BY <1>1, <1>4, <4>1, <4>2, <4>3, <4>4, MarkKeepsRepository
    <3>6. CASE record_review(h)
      BY <1>1, <1>4, <3>6, ReviewKeepsRepository
    <3>7. ASSUME \/ apply(h) \/ commit_preview(h) \/ push(h) \/ transfer(h)
                 \/ open_draft_pull_request(h) \/ create_pull_request(h) \/ refresh_pull_request(h)
                 \/ expire_preview(h) \/ lose_archive(h)
                 \/ commit_on_branch(h) \/ push_elsewhere(h) \/ work_on_pull_request(h)
          PROVE  RepositoryInv'
      <4>1. UNCHANGED <<handoffs, snapshots, base>>
        BY <3>7 DEF apply, commit_preview, push, transfer, open_draft_pull_request, create_pull_request,
                    refresh_pull_request, expire_preview, lose_archive, commit_on_branch,
                    push_elsewhere, work_on_pull_request, gitVars
      <4>2. CallStands'
        <5>1. CallStands
          BY <1>1 DEF RepositoryInv
        <5>2. \/ call' = call \/ call' = NoCall
              \/ handoffs[h].status = "previewed" /\ call' = Handoff("commit", h)
              \/ call = Handoff("commit", h) /\ call' = Handoff("mark applied", h)
              \/ handoffs[h].status = "applied" /\ call' = Handoff("transfer", h)
              \/ call = Handoff("transfer", h) /\ call' = Handoff("verify", h)
              \/ handoffs[h].status = "pushed" /\ call' \in {Handoff("create", h), Handoff("mark opened", h)}
              \/ call = Handoff("create", h) /\ call' = Handoff("mark opened", h)
              \/ /\ handoffs[h].status = "pull-request-opened"
                 /\ call' = [op |-> "checks", handoff |-> h, view |-> pulls[h]]
          BY <3>7 DEF apply, commit_preview, push, transfer, open_draft_pull_request, create_pull_request,
                      refresh_pull_request, expire_preview, lose_archive, commit_on_branch, push_elsewhere,
                      work_on_pull_request, Applicable, PreviewValid, Pushable, Openable, Refreshable
        <5>3. call' = NoCall => CallStands'
          BY DEF CallStands, During, NoCall
        <5>4. [op |-> "checks", handoff |-> h, view |-> pulls[h]].op = "checks"
              /\ [op |-> "checks", handoff |-> h, view |-> pulls[h]].handoff = h
          OBVIOUS
        <5>5. CASE call' = call
          BY <4>1, <5>1, <5>5 DEF CallStands, During
        <5>6. call = Handoff("commit", h) => handoffs[h].status = "previewed"
          BY <3>1, <5>1 DEF CallStands, During
        <5>7. call = Handoff("transfer", h) => handoffs[h].status = "applied"
          BY <3>1, <5>1 DEF CallStands, During
        <5>8. call = Handoff("create", h) => handoffs[h].status = "pushed"
          BY <3>1, <5>1 DEF CallStands, During
        <5>9. CASE /\ handoffs[h].status = "previewed"
                   /\ call' \in {Handoff("commit", h), Handoff("mark applied", h)}
          <6>1. call'.op \in {"commit", "mark applied"} /\ call'.handoff = h
            BY <3>1, <5>9
          <6>2. QED
            BY <4>1, <5>9, <6>1 DEF CallStands, During
        <5>10. CASE /\ handoffs[h].status = "applied"
                    /\ call' \in {Handoff("transfer", h), Handoff("verify", h)}
          <6>1. call'.op \in {"transfer", "verify"} /\ call'.handoff = h
            BY <3>1, <5>10
          <6>2. QED
            BY <4>1, <5>10, <6>1 DEF CallStands, During
        <5>11. CASE /\ handoffs[h].status = "pushed"
                    /\ call' \in {Handoff("create", h), Handoff("mark opened", h)}
          <6>1. call'.op \in {"create", "mark opened"} /\ call'.handoff = h
            BY <3>1, <5>11
          <6>2. QED
            BY <4>1, <5>11, <6>1 DEF CallStands, During
        <5>12. CASE /\ handoffs[h].status = "pull-request-opened"
                    /\ call' = [op |-> "checks", handoff |-> h, view |-> pulls[h]]
          <6>1. call'.op = "checks" /\ call'.handoff = h
            BY <5>4, <5>12
          <6>2. QED
            BY <4>1, <5>12, <6>1 DEF CallStands, During
        <5>13. QED
          BY <5>2, <5>3, <5>5, <5>6, <5>7, <5>8, <5>9, <5>10, <5>11, <5>12
      <4>3. QED
        BY <1>1, <1>4, <2>1, <4>1, <4>2, CallKeepsRepository
    <3>8. QED
      BY <2>6, <3>3, <3>4, <3>5, <3>6, <3>7 DEF HandoffSteps
  <2>7. QED
    BY <1>4, <2>2, <2>3, <2>4, <2>5, <2>6 DEF RepositorySteps
<1>5. QED
  BY <1>1, <1>2, <1>3, <1>4 DEF RepositoryNext

\* Feedback calls a handoff low risk only on the approved commit (_review_snapshot), for
\* any number of handoffs, snapshots and changes of the pull request.
THEOREM LowRiskIsOfApproved == RepositorySpec => []LowRiskIsApprovedHead
<1>1. RepositoryInv => LowRiskIsApprovedHead
  BY DEF RepositoryInv, SnapshotsStand, SnapshotStands, LowRiskIsApprovedHead
<1>2. QED
  BY <1>1, RepositoryInvInit, RepositoryInvStep, PTL DEF RepositorySpec

\* A handoff is marked pushed only while its remote branch is the commit of a content that
\* some review of its project approved, on the base that was previewed (push).
THEOREM PushesWereApproved == RepositorySpec => PushedWasApproved
<1> DEFINE Approves ==
        \A h \in DOMAIN handoffs :
            handoffs'[h].status = "pushed" /\ handoffs[h].status # "pushed" =>
                remote[h] = CommitOf(h) /\ Approved(h)
<1>1. ASSUME RepositoryInv, [RepositoryNext]_<<lifecycleVars, repositoryVars>>
      PROVE  [Approves]_repositoryVars
  <2>1. SUFFICES ASSUME NEW h \in DOMAIN handoffs, handoffs'[h].status = "pushed",
                        handoffs[h].status # "pushed"
                 PROVE  remote[h] = CommitOf(h) /\ Approved(h)
    OBVIOUS
  <2>2. handoffs' # handoffs
    BY <2>1
  <2>3. RepositorySteps
    BY <1>1, <2>2 DEF RepositoryNext, repositoryVars
  <2>4. \A d, blocked : ~preview(d, blocked)
    <3>1. SUFFICES ASSUME NEW d, NEW blocked, preview(d, blocked) PROVE FALSE
      OBVIOUS
    <3>2. PICK row : handoffs' = Append(handoffs, row)
      BY <3>1 DEF preview, store_handoff
    <3>3. IsTable(handoffs)
      BY <1>1, SeqIsTable DEF RepositoryInv, HandoffsTyped
    <3>4. handoffs'[h] = handoffs[h]
      BY <3>2, <3>3, TableAppended
    <3>5. QED
      BY <2>1, <3>4
  <2>5. PICK k \in DOMAIN handoffs : HandoffSteps(k)
    BY <2>2, <2>3, <2>4 DEF RepositorySteps, preserve_review_to_case, mark_review_preserved,
                            restart_repository, move_base
  <2>6. mark_applied(k) \/ mark_pushed(k) \/ mark_pull_request(k)
    BY <2>2, <2>5 DEF HandoffSteps, apply, commit_preview, push, transfer, open_draft_pull_request,
                      create_pull_request, refresh_pull_request, record_review, expire_preview,
                      lose_archive, commit_on_branch, push_elsewhere, work_on_pull_request
  <2>7. handoffs[h] \in HandoffRows
    BY <1>1 DEF RepositoryInv, HandoffsTyped
  <2>8. ~mark_applied(k) /\ ~mark_pull_request(k)
    BY <2>1, <2>7 DEF mark_applied, mark_pull_request, HandoffRows
  <2>9. mark_pushed(k)
    BY <2>6, <2>8
  <2>10. k = h /\ RemoteMatches(h)
    BY <2>1, <2>2, <2>9 DEF mark_pushed
  <2>11. call.op = "verify" /\ call.handoff = h
    BY <2>9, <2>10 DEF mark_pushed, Handoff
  <2>12. handoffs[h].status = "applied"
    BY <1>1, <2>11 DEF RepositoryInv, CallStands, During
  <2>13. QED
    BY <1>1, <2>10, <2>12 DEF RepositoryInv, AppliedIsCommit, HandoffsApproved, RemoteMatches
<1>2. [Approves]_repositoryVars
      => [\A h \in DOMAIN handoffs :
            handoffs'[h].status = "pushed" /\ handoffs[h].status # "pushed" =>
                /\ remote[h] = CommitOf(h)
                /\ \E r \in DOMAIN reviews[handoffs[h].detection] :
                     reviews[handoffs[h].detection][r] =
                         [decision |-> "approve", content |-> handoffs[h].content]]_repositoryVars
  BY DEF Approved
<1>3. QED
  BY <1>1, <1>2, RepositoryInvInit, RepositoryInvStep, PTL DEF RepositorySpec, PushedWasApproved

-----------------------------------------------------------------------------
(* Deployment verification.                                                *)

\* The saved searches of the approved name in an app, or in any.
Exact(rows, app) == {r \in rows : r.name = "exact" /\ (app = AnyApp \/ r.app = app)}

\* What a stored observation claims of the catalog Splunk had.
ClaimHolds(row) ==
    /\ {"status", "seen", "app", "content", "preserved"} \subseteq DOMAIN row
    /\ row.status = "verified" =>
        /\ Cardinality(Exact(row.seen, row.app)) = 1
        /\ \A r \in Exact(row.seen, row.app) : r.content = row.content /\ r.disabled = "no"
    /\ row.status = "missing" => Exact(row.seen, row.app) = {}

DeploymentInv ==
    /\ catalog \in Catalogs
    /\ IsTable(deployments)
    /\ \A n \in DOMAIN deployments : ClaimHolds(deployments[n])

\* A single candidate that verifies is an enabled search of the approved definition.
LEMMA VerifiedCandidate ==
    ASSUME NEW c, NEW r, DefinitionStatus(c, r) = "verified",
           r.disabled \in {"yes", "no", "unknown"}
    PROVE  r.name = "exact" /\ r.content = c /\ r.disabled = "no"
<1>1. FailedControls(c, r) = {} /\ r.disabled \notin {"yes", "unknown"}
  BY DEF DefinitionStatus
<1>2. QED
  BY <1>1 DEF FailedControls

\* What the status of an answer says of the catalog it was read from, be it a part of it.
LEMMA StatusHolds ==
    ASSUME NEW rows \in Catalogs, NEW seen \in SUBSET rows, NEW c, NEW app, NEW exhaustive \in BOOLEAN,
           exhaustive => seen = rows,
           NEW status, status = DeploymentStatus(c, app, [rows |-> seen, exhaustive |-> exhaustive])
    PROVE  /\ status = "verified" =>
                /\ Cardinality(Exact(rows, app)) = 1
                /\ \A r \in Exact(rows, app) : r.content = c /\ r.disabled = "no"
           /\ status = "missing" => Exact(rows, app) = {}
<1> DEFINE answer == [rows |-> seen, exhaustive |-> exhaustive]
           found == Candidates(seen, app)
           one == CHOOSE r \in found : TRUE
           S == Exact(rows, app)
<1>1. /\ IsFiniteSet(rows) /\ \A r \in rows : r.disabled \in {"yes", "no", "unknown"}
      /\ \A r, s \in rows : r.name = "exact" /\ s.name = "exact" /\ r.app = s.app => r = s
  BY CatalogAssumption
<1>2. /\ answer.rows = seen /\ answer.exhaustive = exhaustive /\ Exhaustive(answer) = exhaustive
  BY DEF Exhaustive
<1>3. found \subseteq seen /\ S \subseteq rows
  BY DEF Candidates, Named, Exact
<1>4. IsFiniteSet(found) /\ Cardinality(found) \in Nat
  BY <1>1, <1>3, FS_Subset, FS_CardinalityType
<1>5. \A r \in found : r.name = "exact" => found = Exact(seen, app)
  <2>1. SUFFICES ASSUME NEW r \in found, r.name = "exact" PROVE found = Exact(seen, app)
    OBVIOUS
  <2>2. r \in {x \in seen : x.name = "exact"}
    BY <1>3, <2>1
  <2>3. QED
    BY <2>2 DEF Candidates, Exact
<1>6. CASE Cardinality(found) > 1
  <2>1. status = "ambiguous"
    BY <1>2, <1>6, FS_EmptySet DEF DeploymentStatus
  <2>2. QED
    BY <2>1
<1>7. CASE found = {}
  <2>1. ~(Cardinality(found) > 1)
    BY <1>7, FS_EmptySet
  <2>2. status = IF exhaustive THEN "missing" ELSE "inconclusive"
    BY <1>2, <1>7, <2>1 DEF DeploymentStatus
  <2>3. exhaustive => S = {}
    <3>1. SUFFICES ASSUME exhaustive, NEW r \in S PROVE FALSE
      OBVIOUS
    <3>2. r \in {x \in seen : x.name = "exact"} /\ (app = AnyApp \/ r.app = app)
      BY <3>1 DEF Exact
    <3>3. r \in found
      BY <3>2 DEF Candidates
    <3>4. QED
      BY <1>7, <3>3
  <2>4. QED
    BY <2>2, <2>3
<1>8. CASE found # {} /\ ~(Cardinality(found) > 1)
  <2>1. status = IF app = AnyApp /\ ~exhaustive
                    /\ DefinitionStatus(c, one) \in {"verified", "deployed-disabled"}
                 THEN "inconclusive" ELSE DefinitionStatus(c, one)
    BY <1>2, <1>8 DEF DeploymentStatus
  <2>2. status # "missing"
    BY <2>1 DEF DefinitionStatus
  <2>3. one \in found /\ one \in seen /\ one \in rows
    BY <1>3, <1>8
  <2>4. ASSUME status = "verified"
        PROVE  Cardinality(S) = 1 /\ \A r \in S : r.content = c /\ r.disabled = "no"
    <3>1. DefinitionStatus(c, one) = "verified" /\ (app # AnyApp \/ exhaustive)
      BY <2>1, <2>4
    <3>2. one.name = "exact" /\ one.content = c /\ one.disabled = "no"
      BY <1>1, <2>3, <3>1, VerifiedCandidate
    <3>3. found = Exact(seen, app) /\ one \in S
      BY <1>5, <2>3, <3>2 DEF Exact
    <3>4. CASE exhaustive
      <4>1. S = found
        BY <3>3, <3>4
      <4>2. Cardinality(S) # 0
        BY <1>1, <1>3, <3>3, FS_Subset, FS_EmptySet
      <4>3. Cardinality(S) = 1
        BY <1>4, <1>8, <4>1, <4>2
      <4>4. \E x : S = {x}
        BY <1>4, <4>1, <4>3, FS_Singleton
      <4>5. QED
        BY <3>2, <3>3, <4>3, <4>4
    <3>5. CASE app # AnyApp
      <4>1. \A r \in S : r = one
        BY <1>1, <1>3, <2>3, <3>2, <3>3, <3>5 DEF Exact
      <4>2. S = {one}
        BY <3>3, <4>1
      <4>3. QED
        BY <3>2, <4>2, FS_Singleton
    <3>6. QED
      BY <3>1, <3>4, <3>5
  <2>5. QED
    BY <2>2, <2>4
<1>9. QED
  BY <1>4, <1>6, <1>7, <1>8

LEMMA DeploymentInvInit == DeploymentInit => DeploymentInv
<1>1. SUFFICES ASSUME DeploymentInit PROVE DeploymentInv
  OBVIOUS
<1>2. deployments \in Seq({}) /\ DOMAIN deployments = {}
  BY <1>1 DEF DeploymentInit
<1>3. QED
  BY <1>1, <1>2, SeqIsTable DEF DeploymentInit, DeploymentInv

LEMMA DeploymentInvStep == DeploymentInv /\ [DeploymentNext]_<<lifecycleVars, deploymentVars>> => DeploymentInv'
<1>1. SUFFICES ASSUME DeploymentInv, [DeploymentNext]_<<lifecycleVars, deploymentVars>>
               PROVE  DeploymentInv'
  OBVIOUS
<1>2. IsTable(deployments) /\ Len(deployments) \in Nat /\ DOMAIN deployments = 1..Len(deployments)
  BY <1>1, TableIsIndexed DEF DeploymentInv
<1>3. CASE UNCHANGED <<catalog, deployments>>
  BY <1>1, <1>3 DEF DeploymentInv
<1>4. ASSUME NEW rows \in Catalogs, deploy_elsewhere(rows) PROVE DeploymentInv'
  <2>1. catalog' = rows /\ deployments' = deployments
    BY <1>4 DEF deploy_elsewhere
  <2>2. QED
    BY <1>1, <2>1 DEF DeploymentInv
<1>5. ASSUME NEW f \in refreshes, NEW answer \in Answers, record_deployment(f, answer)
      PROVE  DeploymentInv'
  <2>1. PICK row : row = [detection |-> f.detection, content |-> f.content, app |-> f.app, seen |-> catalog,
            status |-> DeploymentStatus(f.content, f.app, answer),
            unique |-> Cardinality(Named(answer.rows)) = 1, preserved |-> FALSE]
    OBVIOUS
  <2>2. deployments' = Append(deployments, row) /\ catalog' = catalog
    BY <1>5, <2>1 DEF record_deployment
  <2>3. PICK seen \in SUBSET catalog, exhaustive \in BOOLEAN :
          answer = [rows |-> seen, exhaustive |-> exhaustive] /\ (exhaustive => seen = catalog)
    <3>1. CASE answer = [rows |-> catalog, exhaustive |-> TRUE]
      BY <3>1
    <3>2. CASE answer \in [rows : SUBSET catalog, exhaustive : {FALSE}]
      <4>1. answer = [rows |-> answer.rows, exhaustive |-> FALSE] /\ answer.rows \in SUBSET catalog
        BY <3>2
      <4>2. QED
        BY <4>1
    <3>3. QED
      BY <3>1, <3>2 DEF Answers
  <2>4. /\ row.status = DeploymentStatus(f.content, f.app, answer) /\ row.seen = catalog
        /\ row.app = f.app /\ row.content = f.content
        /\ {"status", "seen", "app", "content", "preserved"} \subseteq DOMAIN row
    BY <2>1
  <2>5. /\ row.status = "verified" =>
              /\ Cardinality(Exact(catalog, f.app)) = 1
              /\ \A r \in Exact(catalog, f.app) : r.content = f.content /\ r.disabled = "no"
        /\ row.status = "missing" => Exact(catalog, f.app) = {}
    <3>1. catalog \in Catalogs
      BY <1>1 DEF DeploymentInv
    <3>2. QED
      BY <2>3, <2>4, <3>1, StatusHolds
  <2>6. ClaimHolds(row)
    BY <2>4, <2>5 DEF ClaimHolds
  <2>7. /\ IsTable(deployments') /\ DOMAIN deployments' = 1..Len(deployments) + 1
        /\ deployments'[Len(deployments) + 1] = row
        /\ \A n \in DOMAIN deployments : deployments'[n] = deployments[n]
    BY <1>2, <2>2, TableAppended
  <2>8. \A n \in DOMAIN deployments' : n \in DOMAIN deployments \/ n = Len(deployments) + 1
    BY <1>2, <2>7
  <2>9. QED
    BY <1>1, <2>2, <2>6, <2>7, <2>8 DEF DeploymentInv
<1>6. ASSUME NEW n \in DOMAIN deployments, preserve_deployment(n) PROVE DeploymentInv'
  <2>1. PICK row : row = [deployments[n] EXCEPT !.preserved = TRUE]
    OBVIOUS
  <2>2. deployments' = [deployments EXCEPT ![n] = row] /\ catalog' = catalog
    BY <1>6, <2>1 DEF preserve_deployment
  <2>3. ClaimHolds(deployments[n])
    BY <1>1 DEF DeploymentInv
  <2>4. /\ DOMAIN row = DOMAIN deployments[n] /\ row.status = deployments[n].status
        /\ row.seen = deployments[n].seen /\ row.app = deployments[n].app
        /\ row.content = deployments[n].content
    BY <2>1, <2>3 DEF ClaimHolds
  <2>5. ClaimHolds(row)
    BY <2>3, <2>4 DEF ClaimHolds
  <2>6. /\ IsTable(deployments') /\ DOMAIN deployments' = DOMAIN deployments /\ deployments'[n] = row
        /\ \A k \in DOMAIN deployments : k # n => deployments'[k] = deployments[k]
    BY <1>2, <2>2, TableWritten
  <2>7. QED
    BY <1>1, <2>2, <2>5, <2>6 DEF DeploymentInv
<1>7. CASE DeploymentSteps
  <2>1. ASSUME \/ \E d \in Detections, app \in Apps \cup {AnyApp} : refresh_deployment(d, app)
               \/ \E f \in refreshes : refresh_failed(f)
               \/ \E k \in DOMAIN runtimeChecks : assess_runtime(k) \/ preserve_runtime(k)
        PROVE  UNCHANGED <<catalog, deployments>>
    BY <2>1 DEF refresh_deployment, refresh_failed, assess_runtime, preserve_runtime
  <2>2. QED
    BY <1>3, <1>4, <1>5, <1>6, <1>7, <2>1 DEF DeploymentSteps
<1>8. ASSUME RuntimeTaskSteps \/ UNCHANGED deploymentVars PROVE UNCHANGED <<catalog, deployments>>
  BY <1>8 DEF RuntimeTaskSteps, create_runtime_draft, change_runtime_task, run_runtime_task, deploymentVars
<1>9. QED
  BY <1>1, <1>3, <1>7, <1>8 DEF DeploymentNext

\* A verified or missing deployment is a claim that held of all of Splunk's saved searches
\* (_snapshot), for any catalogs, however much of them Splunk returned and whatever changed
\* while it answered.
THEOREM ClaimsAlwaysHold == DeploymentSpec => []ClaimsHoldOfSplunk
<1>1. DeploymentInv => ClaimsHoldOfSplunk
  <2>1. SUFFICES ASSUME DeploymentInv, NEW n \in DOMAIN deployments
                 PROVE  /\ deployments[n].status = "verified" =>
                            /\ Cardinality(SameName(n)) = 1
                            /\ \A r \in SameName(n) : r.content = deployments[n].content /\ r.disabled = "no"
                        /\ deployments[n].status = "missing" => SameName(n) = {}
    BY DEF ClaimsHoldOfSplunk
  <2>2. ClaimHolds(deployments[n]) /\ SameName(n) = Exact(deployments[n].seen, deployments[n].app)
    BY <2>1 DEF DeploymentInv, SameName, Exact
  <2>3. QED
    BY <2>2 DEF ClaimHolds
<1>2. QED
  BY <1>1, DeploymentInvInit, DeploymentInvStep, PTL DEF DeploymentSpec

=============================================================================
