--------------------------- MODULE AssuranceRunsProofs ---------------------------
(***************************************************************************)
(* Theorems about AssuranceRuns, for any runs, connection revisions,       *)
(* limits and bounds.  The row invariant is the one of manual discovery;   *)
(* what the policy adds is that its target and schedule change only where  *)
(* no run is active, and that being on and having a next slot go together. *)
(***************************************************************************)
EXTENDS AssuranceRuns, FiniteSetTheorems, TLAPS

RowsOK ==
    /\ status \in [Runs -> {"none"} \cup Active \cup Finished]
    /\ cancel_requested \in [Runs -> BOOLEAN]
    /\ binding \in [Runs -> Identities]
    /\ bound \in Identities /\ identity \in Identities
    /\ active \in Runs \cup {NoRun}

OneActive == \A r, s \in ActiveRuns : r = s

\* A cancellation is recorded only in rows that were running or have ended.
CancelNotPending == \A r \in Runs : status[r] \in {"none", "queued"} => ~cancel_requested[r]

\* The task, while it is in flight, works on the running row it was built for.
TaskOwnsRow ==
    /\ task \in {"created"} \cup InFlight => active \in Runs
    /\ task \in InFlight =>
           /\ status[active] = "running"
           /\ client = binding[active]
           /\ cancel_requested[active] => task_cancel

\* Recovery at start finds no task.
OffIsIdle == worker = "off" => task = "none"

IInv ==
    /\ RowsOK /\ OneActive /\ CancelNotPending /\ TaskOwnsRow /\ OffIsIdle
    /\ ActiveRunsFollowPolicy

USE DEF Active, Finished, InFlight, Over

-----------------------------------------------------------------------------
(* The invariant. *)

LEMMA InitIInv == Init => IInv
  BY RunsAssumption DEF Init, IInv, RowsOK, OneActive, ActiveRuns, CancelNotPending, TaskOwnsRow,
     OffIsIdle, ActiveRunsFollowPolicy

\* A new row is the only active one and copies the policy's target.
LEMMA CreateKeeps ==
  ASSUME IInv, NEW r \in Runs, MayCreate, create_run(r), UNCHANGED bound
  PROVE  /\ active' \in Runs \cup {NoRun} /\ identity' = identity => RowsOK'
         /\ OneActive' /\ CancelNotPending'
         /\ ActiveRunsFollowPolicy'
         /\ \A s \in Runs : s # r => status'[s] = status[s]
  BY DEF IInv, RowsOK, OneActive, ActiveRuns, CancelNotPending, ActiveRunsFollowPolicy, MayCreate,
     create_run

\* While a run may be created no task is in flight.
LEMMA CreateFindsNoTask ==
  ASSUME IInv, MayCreate
  PROVE  task \notin InFlight
  BY DEF IInv, MayCreate, TaskOwnsRow, ActiveRuns

LEMMA PolicyKeeps ==
  ASSUME IInv, NEW runs \in Limits, NEW on \in BOOLEAN, NEW new_interval \in BOOLEAN,
         UpdatePolicy(on, runs, new_interval) \/ Retarget(runs) \/ Rebind \/ OpenForm
  PROVE  IInv'
<1> USE DEF IInv, RowsOK, OneActive, ActiveRuns, CancelNotPending, TaskOwnsRow, OffIsIdle,
        ActiveRunsFollowPolicy
<1>1. CASE UpdatePolicy(on, runs, new_interval) \/ OpenForm
  BY <1>1 DEF UpdatePolicy, OpenForm, rows, process, attempt
<1>2. CASE Retarget(runs) \/ Rebind
  <2>1. bound' = identity /\ ActiveRuns = {} /\ UNCHANGED <<rows, process, attempt>>
    BY <1>2 DEF Retarget, Rebind, rebind_policy
  <2>2. OneActive' /\ ActiveRunsFollowPolicy' /\ CancelNotPending'
    BY <2>1 DEF rows
  <2>3. task \notin InFlight
    BY <2>1
  <2>4. UNCHANGED identity
    BY <1>2 DEF Retarget, Rebind
  <2> QED BY <2>1, <2>2, <2>3, <2>4 DEF rows, process, attempt
<1> QED BY <1>1, <1>2

LEMMA RequestKeeps ==
  ASSUME IInv, NEW r \in Runs, enqueue(r) \/ cancel(r)
  PROVE  IInv'
<1>1. CASE enqueue(r)
  <2>1. MayCreate /\ create_run(r) /\ UNCHANGED <<bound, active, identity, task, worker>>
    BY <1>1 DEF enqueue, policy, process, attempt
  <2>2. RowsOK' /\ OneActive' /\ CancelNotPending' /\ ActiveRunsFollowPolicy'
    BY <2>1, CreateKeeps DEF IInv, RowsOK
  <2> QED BY <2>1, <2>2, CreateFindsNoTask DEF IInv, TaskOwnsRow, OffIsIdle
<1>2. CASE cancel(r)
  <2> USE DEF IInv, RowsOK, OneActive, ActiveRuns, CancelNotPending, OffIsIdle
  <2>1. RowsOK' /\ CancelNotPending' /\ OffIsIdle'
    BY <1>2 DEF cancel, policy, process
  <2>2. OneActive' /\ ActiveRunsFollowPolicy'
    BY <1>2 DEF cancel, policy, ActiveRunsFollowPolicy
  <2>3. TaskOwnsRow'
    <3>1. CASE r = active
      BY <1>2, <3>1 DEF cancel, CancelTask, process, TaskOwnsRow
    <3>2. CASE r # active
      BY <1>2, <3>2 DEF cancel, process, TaskOwnsRow
    <3> QED BY <3>1, <3>2
  <2> QED BY <2>1, <2>2, <2>3
<1> QED BY <1>1, <1>2

\* Start, stop and the ways to die: no task is left where rows are written.
LEMMA ProcessKeeps ==
  ASSUME IInv, start \/ stop \/ Stopped \/ Crash \/ CrashInSchedule
  PROVE  IInv'
<1>1. CASE start
  BY <1>1 DEF start, recover_interrupted, policy, attempt, IInv, RowsOK, OneActive, ActiveRuns,
     CancelNotPending, TaskOwnsRow, OffIsIdle, ActiveRunsFollowPolicy
<1>2. CASE stop
  BY <1>2 DEF stop, CancelTask, rows, policy, IInv, RowsOK, OneActive, ActiveRuns,
     CancelNotPending, TaskOwnsRow, OffIsIdle, ActiveRunsFollowPolicy
<1>3. CASE Stopped
  BY <1>3 DEF Stopped, rows, policy, IInv, RowsOK, OneActive, ActiveRuns,
     CancelNotPending, TaskOwnsRow, OffIsIdle, ActiveRunsFollowPolicy
<1>4. CASE Crash
  BY <1>4 DEF Crash, Die, rows, policy, IInv, RowsOK, OneActive, ActiveRuns,
     CancelNotPending, TaskOwnsRow, OffIsIdle, ActiveRunsFollowPolicy
<1>5. CASE CrashInSchedule
  <2>1. PICK r \in Runs : create_run(r)
    BY <1>5 DEF CrashInSchedule
  <2>2. MayCreate /\ UNCHANGED <<bound, identity>> /\ active' = NoRun /\ task' = "none"
    BY <1>5 DEF CrashInSchedule, Die, policy
  <2>3. RowsOK' /\ OneActive' /\ CancelNotPending' /\ ActiveRunsFollowPolicy'
    BY <2>1, <2>2, CreateKeeps
  <2> QED BY <2>2, <2>3 DEF IInv, TaskOwnsRow, OffIsIdle
<1> QED BY <1>1, <1>2, <1>3, <1>4, <1>5

\* A turn of the loop may create the run that is due; it always leaves the task
\* either untouched or new and not yet run.
LEMMA WorkerKeeps ==
  ASSUME IInv, Worker
  PROVE  IInv'
<1>1. CASE Turn
  <2>1. /\ active' \in Runs \cup {NoRun} /\ UNCHANGED <<bound, identity, client>>
        /\ worker' # "off"
        /\ \/ task' = "created" /\ active' \in Runs
           \/ UNCHANGED <<task, task_cancel, active>>
    BY <1>1 DEF Turn, schedule_due, Advance, policy, IInv, RowsOK
  <2>2. CASE UNCHANGED rows
    BY <2>1, <2>2 DEF rows, IInv, RowsOK, OneActive, ActiveRuns, CancelNotPending, TaskOwnsRow,
       OffIsIdle, ActiveRunsFollowPolicy
  <2>3. ASSUME NEW r \in Runs, MayCreate, create_run(r)
        PROVE  IInv'
    <3>1. RowsOK' /\ OneActive' /\ CancelNotPending' /\ ActiveRunsFollowPolicy'
      BY <2>1, <2>3, CreateKeeps
    <3>2. task \notin InFlight
      BY <2>3, CreateFindsNoTask
    <3> QED BY <2>1, <3>1, <3>2 DEF IInv, TaskOwnsRow, OffIsIdle
  <2> QED BY <1>1, <2>2, <2>3 DEF Turn, schedule_due
<1>2. CASE Wake
  BY <1>2 DEF Wake, policy, rows, attempt, IInv, RowsOK, OneActive, ActiveRuns, CancelNotPending,
     TaskOwnsRow, OffIsIdle, ActiveRunsFollowPolicy
<1>3. CASE Join
  BY <1>3 DEF Join, policy, rows, IInv, RowsOK, OneActive, ActiveRuns, CancelNotPending,
     TaskOwnsRow, OffIsIdle, ActiveRunsFollowPolicy
<1> QED BY <1>1, <1>2, <1>3 DEF Worker

\* The task closes or requeues its own row, which stays the only active one.
LEMMA RowRewritten ==
  ASSUME IInv, active \in Runs, NEW to \in Active \cup Finished,
         status[active] \in Active,
         status' = [status EXCEPT ![active] = to],
         to = "queued" => ~cancel_requested[active],
         cancel_requested' = cancel_requested,
         UNCHANGED <<binding, bound, identity, active>>
  PROVE  RowsOK' /\ OneActive' /\ CancelNotPending' /\ ActiveRunsFollowPolicy'
  BY DEF IInv, RowsOK, OneActive, ActiveRuns, CancelNotPending, ActiveRunsFollowPolicy

LEMMA BeginKeeps ==
  ASSUME IInv, Begin
  PROVE  IInv'
<1>1. active \in Runs /\ UNCHANGED <<active, worker, bound, identity>>
  BY DEF Begin, IInv, TaskOwnsRow, policy, process
<1>2. CASE UNCHANGED rows /\ task' \in Over
  BY <1>1, <1>2, Begin DEF Begin, rows, IInv, RowsOK, OneActive, ActiveRuns, CancelNotPending,
     TaskOwnsRow, OffIsIdle, ActiveRunsFollowPolicy
<1>3. ASSUME NEW to \in {"running", "connection-blocked"}, status[active] = "queued",
             status' = [status EXCEPT ![active] = to],
             cancel_requested' = [cancel_requested EXCEPT ![active] = FALSE],
             UNCHANGED binding
      PROVE  /\ RowsOK' /\ OneActive' /\ CancelNotPending' /\ ActiveRunsFollowPolicy'
             /\ cancel_requested' = cancel_requested
  <2>1. cancel_requested' = cancel_requested
    BY <1>1, <1>3 DEF IInv, RowsOK, CancelNotPending
  <2> QED BY <1>1, <1>3, <2>1, RowRewritten
<1>4. CASE /\ status[active] = "queued" /\ status' = [status EXCEPT ![active] = "connection-blocked"]
           /\ cancel_requested' = [cancel_requested EXCEPT ![active] = FALSE]
           /\ task' = "finished" /\ UNCHANGED binding
  <2>1. RowsOK' /\ OneActive' /\ CancelNotPending' /\ ActiveRunsFollowPolicy'
    BY <1>3, <1>4
  <2> QED BY <1>1, <1>4, <2>1, Begin DEF Begin, IInv, TaskOwnsRow, OffIsIdle
<1>5. CASE /\ status[active] = "queued" /\ status' = [status EXCEPT ![active] = "running"]
           /\ cancel_requested' = [cancel_requested EXCEPT ![active] = FALSE]
           /\ task' \in {"preflight", "raised"} /\ client' = identity
           /\ binding[active] = identity /\ UNCHANGED binding
  <2>1. /\ RowsOK' /\ OneActive' /\ CancelNotPending' /\ ActiveRunsFollowPolicy'
        /\ cancel_requested' = cancel_requested
    BY <1>3, <1>5
  <2>2. ~cancel_requested[active]
    BY <1>1, <1>5 DEF IInv, CancelNotPending
  <2>3. TaskOwnsRow'
    BY <1>1, <1>5, <2>1, <2>2 DEF TaskOwnsRow, IInv, RowsOK
  <2> QED BY <1>1, <2>1, <2>3, Begin DEF Begin, IInv, OffIsIdle
<1> QED BY <1>2, <1>4, <1>5 DEF Begin, End

LEMMA TaskKeeps ==
  ASSUME IInv, Task \/ EnterLane \/ call
  PROVE  IInv'
<1>1. CASE Begin
  BY <1>1, BeginKeeps
<1>2. ASSUME NEW to \in Active \cup Finished, NEW used,
             active \in Runs, status[active] = "running",
             Close(active, to, used) \/ (to = "queued" /\ requeue_for_restart(active)),
             to = "queued" => ~cancel_requested[active],
             task' = "finished", UNCHANGED <<process, bound, identity>>, worker # "off"
      PROVE  IInv'
  <2>1. RowsOK' /\ OneActive' /\ CancelNotPending' /\ ActiveRunsFollowPolicy'
    BY <1>2, RowRewritten DEF Close, requeue_for_restart, process
  <2> QED BY <1>2, <2>1 DEF IInv, TaskOwnsRow, OffIsIdle, process
<1>3. Task \/ EnterLane \/ call => active \in Runs /\ worker # "off"
  BY DEF Task, Begin, Preflight, Collect, Interrupt, EnterLane, call, IInv, TaskOwnsRow,
     OffIsIdle
<1>4. CASE Preflight
  <2>1. CASE task' = "lane" /\ UNCHANGED <<rows, task_cancel>>
    BY <1>4, <2>1 DEF Preflight, rows, policy, process, IInv, RowsOK, OneActive, ActiveRuns,
       CancelNotPending, TaskOwnsRow, OffIsIdle, ActiveRunsFollowPolicy
  <2>2. ASSUME NEW final \in {"connection-blocked", "error"}, Close(active, final, 0), End("finished")
        PROVE  IInv'
    BY <1>2, <1>3, <1>4, <2>2 DEF Preflight, End, policy, IInv, TaskOwnsRow
  <2> QED BY <1>4, <2>1, <2>2 DEF Preflight
<1>5. CASE Collect
  <2>1. PICK final \in {"complete", "error"} : Close(active, final, calls)
    BY <1>5 DEF Collect
  <2> QED BY <1>2, <1>3, <1>5, <2>1 DEF Collect, End, policy, IInv, TaskOwnsRow
<1>6. CASE Interrupt
  <2>1. status[active] = "running" /\ task' = "finished" /\ UNCHANGED <<process, bound, identity>>
    BY <1>6 DEF Interrupt, End, policy, IInv, TaskOwnsRow
  <2>2. CASE cancel_requested[active]
    BY <1>2, <1>3, <1>6, <2>1, <2>2 DEF Interrupt
  <2>3. CASE ~cancel_requested[active]
    BY <1>2, <1>3, <1>6, <2>1, <2>3 DEF Interrupt
  <2> QED BY <2>2, <2>3
<1>7. CASE EnterLane \/ call
  BY <1>7 DEF EnterLane, call, rows, policy, process, IInv, RowsOK, OneActive, ActiveRuns,
     CancelNotPending, TaskOwnsRow, OffIsIdle, ActiveRunsFollowPolicy
<1> QED BY <1>1, <1>4, <1>5, <1>6, <1>7 DEF Task

LEMMA AroundKeeps ==
  ASSUME IInv, Tick \/ NewDay \/ Reconnect \/ OthersTake \/ OthersFree
  PROVE  IInv'
  BY DEF IInv, RowsOK, OneActive, ActiveRuns, CancelNotPending, TaskOwnsRow, OffIsIdle,
     ActiveRunsFollowPolicy, Tick, NewDay, Reconnect, OthersTake, OthersFree, policy, rows,
     process, attempt

LEMMA NextIInv == IInv /\ [Next]_vars => IInv'
<1> SUFFICES ASSUME IInv, [Next]_vars PROVE IInv'
  OBVIOUS
<1>1. CASE UNCHANGED vars
  BY <1>1 DEF vars, policy, rows, process, attempt, IInv, RowsOK, OneActive, ActiveRuns,
     CancelNotPending, TaskOwnsRow, OffIsIdle, ActiveRunsFollowPolicy
<1>2. ASSUME NEW on \in BOOLEAN, NEW new_interval \in BOOLEAN, NEW runs \in Limits,
             UpdatePolicy(on, runs, new_interval) \/ Retarget(runs)
      PROVE  IInv'
  BY <1>2, PolicyKeeps
<1>3. CASE Rebind \/ OpenForm
  <2>1. Limits # {}
    BY RunsAssumption
  <2> QED BY <1>3, <2>1, PolicyKeeps
<1>4. ASSUME NEW runs \in Limits, Retarget(runs)
      PROVE  IInv'
  BY <1>4, PolicyKeeps
<1> QED BY <1>1, <1>2, <1>3, <1>4, RequestKeeps, ProcessKeeps, WorkerKeeps, TaskKeeps, AroundKeeps
        DEF Next

THEOREM Inductive == Spec => []IInv
  BY InitIInv, NextIInv, PTL DEF Spec

-----------------------------------------------------------------------------
\* What is queued or running was created for the connection the policy is bound
\* to: no sequence of rebinding, recovery and scheduling separates them.
THEOREM TargetNeverPassesRun == Spec => []ActiveRunsFollowPolicy
<1>1. IInv => ActiveRunsFollowPolicy
  BY DEF IInv
<1> QED BY <1>1, Inductive, PTL

\* A run collects with a client built for the revision it was created under.
THEOREM BoundCollection == Spec => []CollectsAsBound
<1>1. IInv => CollectsAsBound
  BY DEF IInv, TaskOwnsRow, CollectsAsBound
<1> QED BY <1>1, Inductive, PTL

\* The policy is on exactly while it has a next slot.  "due" is typed along.
ScheduleInv == ScheduledIffEnabled /\ due \in {"none", "later", "now"}

LEMMA ScheduleStep ==
  ASSUME ScheduleInv, [Next]_vars
  PROVE  ScheduleInv'
<1> USE DEF ScheduleInv, ScheduledIffEnabled
<1>1. CASE UNCHANGED policy
  BY <1>1 DEF policy
<1>2. ASSUME NEW on \in BOOLEAN, NEW new_interval \in BOOLEAN, NEW runs \in Limits,
             UpdatePolicy(on, runs, new_interval)
      PROVE  ScheduleInv'
  BY <1>2 DEF UpdatePolicy
<1>3. ASSUME NEW runs \in Limits, Retarget(runs)
      PROVE  ScheduleInv'
  BY <1>3 DEF Retarget, rebind_policy
<1>4. CASE Rebind \/ OpenForm \/ Tick
  BY <1>4 DEF Rebind, rebind_policy, OpenForm, Tick
<1>5. CASE Turn
  BY <1>5, <1>1 DEF Turn, schedule_due, IsDue, Advance
<1>6. ASSUME NEW r \in Runs, enqueue(r) \/ cancel(r)
      PROVE  ScheduleInv'
  BY <1>6, <1>1 DEF enqueue, cancel
<1>7. CASE start \/ stop \/ Stopped \/ Crash \/ CrashInSchedule \/ Wake \/ Join
  BY <1>7, <1>1 DEF start, stop, Stopped, Crash, CrashInSchedule, Die, Wake, Join
<1>8. CASE Task \/ EnterLane \/ call
  BY <1>8, <1>1 DEF Task, Begin, Preflight, Collect, Interrupt, EnterLane, call
<1>9. CASE NewDay \/ Reconnect \/ OthersTake \/ OthersFree
  BY <1>9, <1>1 DEF NewDay, Reconnect, OthersTake, OthersFree
<1>10. CASE UNCHANGED vars
  BY <1>10, <1>1 DEF vars
<1> QED BY <1>2, <1>3, <1>4, <1>5, <1>6, <1>7, <1>8, <1>9, <1>10 DEF Next, Worker

\* A paused policy has no slot left over, and one that is on never loses its next.
THEOREM ScheduleFollowsPolicy == Spec => []ScheduledIffEnabled
<1>1. Init => ScheduleInv
  BY DEF Init, ScheduleInv, ScheduledIffEnabled
<1>2. ScheduleInv /\ [Next]_vars => ScheduleInv'
  BY ScheduleStep
<1>3. ScheduleInv => ScheduledIffEnabled
  BY DEF ScheduleInv
<1> QED BY <1>1, <1>2, <1>3, PTL DEF Spec

-----------------------------------------------------------------------------
(* The daily limit.  Before a restart every run is at its first attempt, so what its  *)
(* row says it used is what it used.                                                  *)

CountTypes ==
    /\ issued \in [Runs -> Nat] /\ calls_used \in [Runs -> Nat] /\ calls \in Nat
    /\ today \subseteq Runs /\ limit \in Nat /\ restarts \in Nat
    /\ stopping => restarts > 0

\* A task is cancelled by an operator only, and a run that may still be taken up, or
\* was cancelled without counting, has made no call.
FirstAttempts ==
    /\ worker = "off" => \A r \in Runs : status[r] = "none"
    /\ task \in {"created"} \cup InFlight /\ task_cancel => cancel_requested[active]
    /\ task \in InFlight => issued[active] = calls
    /\ \A r \in Runs : status[r] \in {"none", "queued"} => issued[r] = 0
    /\ \A r \in Runs : status[r] = "cancelled" /\ issued[r] > 0 => calls_used[r] > 0

CountInv == CountTypes /\ (restarts = 0 => FirstAttempts)

LEMMA CountInvInit == Init => CountInv
  BY RunsAssumption DEF Init, CountInv, CountTypes, FirstAttempts

\* What stands beside the rows does not matter to the count.
LEMMA CountKept ==
  ASSUME CountInv, UNCHANGED <<status, cancel_requested, calls_used, issued, calls, active, restarts>>,
         limit' \in Nat, today' \subseteq Runs,
         stopping' => restarts > 0, worker' = "off" => worker = "off" \/ restarts > 0,
         task' \in {"created"} \cup InFlight =>
             /\ task_cancel' => task_cancel /\ task \in {"created"} \cup InFlight
             /\ task' \in InFlight => task \in InFlight
  PROVE  CountInv'
<1>1. CountTypes'
  BY DEF CountInv, CountTypes
<1>2. ASSUME restarts' = 0 PROVE FirstAttempts'
  <2>1. restarts = 0 /\ FirstAttempts
    BY <1>2 DEF CountInv
  <2>2. restarts > 0 => FALSE
    BY <2>1
  <2> QED BY <2>1, <2>2 DEF FirstAttempts
<1> QED BY <1>1, <1>2 DEF CountInv

\* A new run has made no call.
LEMMA CountCreated ==
  ASSUME IInv, CountInv, NEW r \in Runs, create_run(r), MayCreate, limit' = limit,
         UNCHANGED <<calls, issued, stopping, restarts>>, worker # "off",
         worker' # "off",
         \/ UNCHANGED <<task, task_cancel, active>>
         \/ task' = "created" /\ ~task_cancel'
  PROVE  CountInv'
<1>1. CountTypes'
  BY DEF CountInv, CountTypes, create_run
<1>2. ASSUME restarts' = 0 PROVE FirstAttempts'
  <2>1. restarts = 0 /\ FirstAttempts
    BY <1>2 DEF CountInv
  <2>2. task \notin InFlight
    BY CreateFindsNoTask
  <2>3. status' = [status EXCEPT ![r] = "queued"] /\ status[r] = "none"
        /\ UNCHANGED <<cancel_requested, calls_used>>
    BY DEF create_run
  <2>4. \A s \in Runs : /\ status'[s] \in {"none", "queued"} => issued'[s] = 0
                        /\ status'[s] = "cancelled" /\ issued'[s] > 0 => calls_used'[s] > 0
    BY <2>1, <2>3 DEF FirstAttempts, IInv, RowsOK
  <2> QED BY <2>1, <2>2, <2>3, <2>4 DEF FirstAttempts
<1> QED BY <1>1, <1>2 DEF CountInv

LEMMA CountCancelled ==
  ASSUME IInv, CountInv, NEW r \in Runs, cancel(r)
  PROVE  CountInv'
<1>1. CountTypes'
  BY DEF CountInv, CountTypes, cancel, policy, bounds, process
<1>2. ASSUME restarts' = 0 PROVE FirstAttempts'
  <2>1. restarts = 0 /\ FirstAttempts
    BY <1>2 DEF CountInv, cancel, bounds
  <2>2. /\ cancel_requested' = [cancel_requested EXCEPT ![r] = TRUE]
        /\ status' = [status EXCEPT ![r] = IF @ = "queued" THEN "cancelled" ELSE @]
        /\ worker # "off" /\ UNCHANGED <<calls_used, worker, active, task, calls, issued>>
        /\ status \in [Runs -> {"none"} \cup Active \cup Finished]
        /\ cancel_requested \in [Runs -> BOOLEAN]
    BY DEF cancel, process, IInv, RowsOK
  <2>3. \A s \in Runs : /\ status'[s] \in {"none", "queued"} => issued'[s] = 0
                        /\ status'[s] = "cancelled" /\ issued'[s] > 0 => calls_used'[s] > 0
    <3>1. issued \in [Runs -> Nat]
      BY DEF CountInv, CountTypes
    <3>2. ASSUME NEW s \in Runs, s = r
          PROVE /\ status'[s] \in {"none", "queued"} => issued'[s] = 0
                /\ status'[s] = "cancelled" /\ issued'[s] > 0 => calls_used'[s] > 0
      BY <2>1, <2>2, <3>1, <3>2 DEF FirstAttempts
    <3>3. ASSUME NEW s \in Runs, s # r
          PROVE /\ status'[s] \in {"none", "queued"} => issued'[s] = 0
                /\ status'[s] = "cancelled" /\ issued'[s] > 0 => calls_used'[s] > 0
      BY <2>1, <2>2, <3>3 DEF FirstAttempts
    <3> QED BY <3>2, <3>3
  <2>4. ASSUME task' \in {"created"} \cup InFlight, task_cancel'
        PROVE  cancel_requested'[active']
    <3>1. active \in Runs
      BY <2>2, <2>4 DEF IInv, TaskOwnsRow
    <3>2. CASE r = active
      BY <2>2, <3>1, <3>2
    <3>3. CASE r # active
      <4>1. task_cancel' = task_cancel
        BY <3>3 DEF cancel
      <4> QED BY <2>1, <2>2, <2>4, <3>1, <3>3, <4>1 DEF FirstAttempts
    <3> QED BY <3>2, <3>3
  <2> QED BY <2>1, <2>2, <2>3, <2>4 DEF FirstAttempts
<1> QED BY <1>1, <1>2 DEF CountInv

\* The process stops or starts: either nothing has run yet or a restart is counted.
LEMMA CountProcess ==
  ASSUME IInv, CountInv, start \/ stop \/ Stopped \/ Crash \/ CrashInSchedule
  PROVE  CountInv'
<1>1. CASE start
  <2>1. CountTypes'
    BY <1>1 DEF start, recover_interrupted, policy, attempt, bounds, CountInv, CountTypes
  <2>2. ASSUME restarts' = 0 PROVE FirstAttempts'
    <3>1. restarts = 0 /\ FirstAttempts /\ worker = "off" /\ task = "none"
      BY <1>1, <2>2 DEF CountInv, start, bounds, IInv, OffIsIdle
    <3>2. \A r \in Runs : status'[r] = "none"
      BY <1>1, <3>1 DEF start, recover_interrupted, FirstAttempts
    <3>3. worker' = "loop" /\ UNCHANGED <<task, issued>>
      BY <1>1 DEF start, attempt
    <3> QED BY <3>1, <3>2, <3>3 DEF FirstAttempts
  <2> QED BY <2>1, <2>2 DEF CountInv
<1>2. CASE stop \/ Crash \/ CrashInSchedule
  <2>1. restarts' = restarts + 1 /\ UNCHANGED <<calls, issued, calls_used, limit>> /\ today' \subseteq Runs
    BY <1>2 DEF stop, Crash, CrashInSchedule, Die, create_run, rows, policy, CountInv, CountTypes
  <2>2. CountTypes' /\ restarts' # 0
    BY <2>1 DEF CountInv, CountTypes
  <2> QED BY <2>2 DEF CountInv
<1>3. CASE Stopped
  BY <1>3 DEF Stopped, rows, policy, bounds, CountInv, CountTypes
<1> QED BY <1>1, <1>2, <1>3

LEMMA CountWorker ==
  ASSUME IInv, CountInv, Worker
  PROVE  CountInv'
<1>1. CASE Turn
  <2>1. /\ worker # "off" /\ worker' # "off" /\ limit' = limit
        /\ UNCHANGED <<calls, issued, stopping, restarts>>
        /\ \/ UNCHANGED <<task, task_cancel, active>>
           \/ task' = "created" /\ ~task_cancel'
    BY <1>1 DEF Turn, schedule_due, Advance, policy, bounds
  <2>2. CASE UNCHANGED rows
    <3>1. CountTypes'
      BY <2>1, <2>2 DEF CountInv, CountTypes, rows
    <3>2. ASSUME restarts' = 0 PROVE FirstAttempts'
      <4>1. FirstAttempts
        BY <2>1, <3>2 DEF CountInv
      <4>2. UNCHANGED <<status, cancel_requested, calls_used, issued, calls>>
        BY <2>1, <2>2 DEF rows
      <4> QED BY <2>1, <4>1, <4>2 DEF FirstAttempts
    <3> QED BY <3>1, <3>2 DEF CountInv
  <2>3. ASSUME NEW r \in Runs, MayCreate, create_run(r)
        PROVE  CountInv'
    BY <2>1, <2>3, CountCreated
  <2> QED BY <1>1, <2>2, <2>3 DEF Turn, schedule_due
<1>2. CASE Wake
  BY <1>2, CountKept DEF Wake, policy, rows, attempt, bounds, CountInv, CountTypes
<1>3. CASE Join
  <2>1. CountTypes'
    BY <1>3 DEF Join, policy, rows, bounds, CountInv, CountTypes
  <2>2. ASSUME restarts' = 0 PROVE FirstAttempts'
    <3>1. /\ FirstAttempts /\ worker' # "off" /\ task' \notin {"created"} \cup InFlight
          /\ UNCHANGED <<status, issued, calls_used>>
      BY <1>3, <2>2 DEF Join, rows, bounds, CountInv
    <3> QED BY <3>1 DEF FirstAttempts
  <2> QED BY <2>1, <2>2 DEF CountInv
<1> QED BY <1>1, <1>2, <1>3 DEF Worker

\* A row of the task is rewritten with what the task used.
LEMMA RowCounted ==
  ASSUME IInv, CountInv, restarts = 0, active \in Runs,
         NEW to \in {"complete", "connection-blocked", "error", "cancelled", "queued", "running"},
         status' = [status EXCEPT ![active] = to], issued' = issued,
         \A s \in Runs : s # active => calls_used'[s] = calls_used[s],
         to = "queued" => issued[active] = 0,
         to = "cancelled" => calls_used'[active] = issued[active]
  PROVE  \A s \in Runs : /\ status'[s] \in {"none", "queued"} => issued'[s] = 0
                         /\ status'[s] = "cancelled" /\ issued'[s] > 0 => calls_used'[s] > 0
<1>1. FirstAttempts /\ status \in [Runs -> {"none"} \cup Active \cup Finished]
  BY DEF CountInv, IInv, RowsOK
<1> QED BY <1>1 DEF FirstAttempts

\* The task counts its calls in its client and in the history alike.
LEMMA CountTask ==
  ASSUME IInv, CountInv, Task \/ EnterLane \/ call
  PROVE  CountInv'
<1>1. active \in Runs /\ worker # "off" /\ UNCHANGED <<active, worker, stopping, restarts, limit>>
  BY DEF Task, Begin, Preflight, Collect, Interrupt, EnterLane, call, IInv, TaskOwnsRow, OffIsIdle,
     process, bounds, policy
<1>2. CountTypes'
  BY <1>1 DEF Task, Begin, Preflight, Collect, Interrupt, EnterLane, call, Close, requeue_for_restart,
     rows, CountInv, CountTypes
<1>3. SUFFICES ASSUME restarts = 0, FirstAttempts PROVE FirstAttempts'
  BY <1>1, <1>2 DEF CountInv
<1> DEFINE RowsCount ==
      \A s \in Runs : /\ status'[s] \in {"none", "queued"} => issued'[s] = 0
                      /\ status'[s] = "cancelled" /\ issued'[s] > 0 => calls_used'[s] > 0
<1>4. ASSUME RowsCount, task' \in Over
      PROVE  FirstAttempts'
  BY <1>1, <1>4 DEF FirstAttempts
<1>5. calls_used \in [Runs -> Nat] /\ issued \in [Runs -> Nat] /\ calls \in Nat
  BY DEF CountInv, CountTypes
<1>6. CASE Begin
  <2>1. CASE UNCHANGED rows /\ task' \in Over
    BY <1>3, <1>4, <1>6, <2>1 DEF Begin, rows, FirstAttempts
  <2>2. CASE /\ status' = [status EXCEPT ![active] = "connection-blocked"]
             /\ calls_used' = [calls_used EXCEPT ![active] = 0] /\ task' = "finished"
    <3>1. RowsCount
      BY <1>1, <1>3, <1>5, <1>6, <2>2, RowCounted DEF Begin
    <3> QED BY <1>4, <2>2, <3>1
  <2>3. CASE /\ status[active] = "queued" /\ status' = [status EXCEPT ![active] = "running"]
             /\ calls' = 0 /\ task' \in {"preflight", "raised"} /\ ~task_cancel'
             /\ calls_used' = [calls_used EXCEPT ![active] = 0] \/ UNCHANGED calls_used
    <3>1. issued' = issued /\ issued[active] = 0
      BY <1>1, <1>3, <1>6, <2>3 DEF Begin, FirstAttempts
    <3>2. \A s \in Runs : s # active => calls_used'[s] = calls_used[s]
      BY <1>5, <2>3
    <3>3. RowsCount
      BY <1>1, <1>3, <2>3, <3>1, <3>2, RowCounted
    <3> QED BY <1>1, <2>3, <3>1, <3>3 DEF FirstAttempts
  <2> QED BY <1>6, <2>1, <2>2, <2>3 DEF Begin, End
<1>7. CASE Preflight
  <2>1. CASE task' = "lane" /\ UNCHANGED <<rows, task_cancel>>
    BY <1>1, <1>3, <1>7, <2>1 DEF Preflight, rows, FirstAttempts
  <2>2. ASSUME NEW final \in {"connection-blocked", "error"}, Close(active, final, 0), End("finished")
        PROVE  FirstAttempts'
    <3>1. RowsCount
      BY <1>1, <1>3, <1>5, <1>7, <2>2, RowCounted DEF Preflight, Close
    <3> QED BY <1>4, <2>2, <3>1 DEF End
  <2> QED BY <1>7, <2>1, <2>2 DEF Preflight
<1>8. CASE EnterLane
  BY <1>1, <1>3, <1>8 DEF EnterLane, rows, FirstAttempts
<1>9. CASE call
  <2>1. /\ issued' = [issued EXCEPT ![active] = @ + 1] /\ calls' = calls + 1
        /\ calls_used' = [calls_used EXCEPT ![active] = calls + 1]
        /\ UNCHANGED <<status, cancel_requested, task, task_cancel>> /\ task = "collecting"
    BY <1>9 DEF call
  <2>2. status[active] = "running" /\ issued[active] = calls
    BY <1>3, <2>1 DEF IInv, TaskOwnsRow, FirstAttempts
  <2>3. RowsCount
    BY <1>1, <1>3, <1>5, <2>1, <2>2 DEF FirstAttempts
  <2>4. issued'[active'] = calls'
    BY <1>1, <1>5, <2>1, <2>2
  <2> QED BY <1>1, <1>3, <2>1, <2>3, <2>4 DEF FirstAttempts
<1>10. CASE Collect
  <2>1. PICK final \in {"complete", "error"} : Close(active, final, calls)
    BY <1>10 DEF Collect
  <2>2. RowsCount
    BY <1>1, <1>3, <1>5, <1>10, <2>1, RowCounted DEF Collect, Close
  <2> QED BY <1>4, <1>10, <2>2 DEF Collect, End
<1>11. CASE Interrupt
  <2>1. cancel_requested[active] /\ issued[active] = calls
    BY <1>3, <1>11 DEF Interrupt, FirstAttempts
  <2>2. Close(active, "cancelled", calls) /\ issued' = issued /\ task' = "finished"
    BY <1>11, <2>1 DEF Interrupt, End
  <2>3. RowsCount
    BY <1>1, <1>3, <1>5, <2>1, <2>2, RowCounted DEF Close
  <2> QED BY <1>4, <2>2, <2>3
<1> QED BY <1>6, <1>7, <1>8, <1>9, <1>10, <1>11 DEF Task

LEMMA CountStep ==
  ASSUME IInv, CountInv, [Next]_vars
  PROVE  CountInv'
<1> USE DEF CountInv, CountTypes
<1>1. ASSUME NEW runs \in Limits, NEW on \in BOOLEAN, NEW new_interval \in BOOLEAN,
             UpdatePolicy(on, runs, new_interval) \/ Retarget(runs)
      PROVE  CountInv'
  <2>1. limit' \in Nat
    BY <1>1, RunsAssumption DEF UpdatePolicy, Retarget
  <2> QED BY <1>1, <2>1, CountKept DEF UpdatePolicy, Retarget, rows, process, attempt, bounds
<1>2. ASSUME NEW runs \in Limits, Retarget(runs)
      PROVE  CountInv'
  BY <1>2, <1>1
<1>3. CASE Rebind \/ OpenForm
  BY <1>3, CountKept DEF Rebind, OpenForm, rows, process, attempt, bounds
<1>4. ASSUME NEW r \in Runs, enqueue(r)
      PROVE  CountInv'
  BY <1>4, CountCreated DEF enqueue, policy, process, attempt, bounds
<1>5. ASSUME NEW r \in Runs, cancel(r)
      PROVE  CountInv'
  BY <1>5, CountCancelled
<1>6. CASE Tick \/ NewDay \/ Reconnect \/ OthersTake \/ OthersFree
  BY <1>6, CountKept DEF Tick, NewDay, Reconnect, OthersTake, OthersFree, policy, rows, process,
     attempt, bounds
<1>7. CASE UNCHANGED vars
  BY <1>7, CountKept DEF vars, policy, rows, process, attempt, bounds
<1> QED BY <1>1, <1>2, <1>3, <1>4, <1>5, <1>6, <1>7, CountProcess, CountWorker, CountTask DEF Next

\* A run is created only where the store's count is below the limit.
LEMMA CreatedWithinUsage ==
  ASSUME IInv, [Next]_vars, NEW r \in Runs, status[r] = "none", status'[r] = "queued"
  PROVE  worker # "off" /\ usage_today < limit
<1> USE DEF IInv, RowsOK
<1>1. CASE UNCHANGED status
  BY <1>1
<1>2. ASSUME NEW s \in Runs, enqueue(s)
      PROVE  worker # "off" /\ usage_today < limit
  BY <1>2 DEF enqueue, MayCreate
<1>3. ASSUME NEW s \in Runs, cancel(s)
      PROVE  FALSE
  BY <1>3 DEF cancel
<1>4. CASE start
  BY <1>4 DEF start, recover_interrupted
<1>5. CASE CrashInSchedule
  BY <1>5 DEF CrashInSchedule, MayCreate
<1>6. CASE Turn
  BY <1>1, <1>6 DEF Turn, schedule_due, MayCreate, rows
<1>7. CASE Task
  <2>1. active \in Runs /\ (task \in InFlight => status[active] = "running")
    BY <1>7 DEF Task, Begin, Preflight, Collect, Interrupt, TaskOwnsRow
  <2>2. CASE Begin
    BY <1>1, <2>1, <2>2 DEF Begin, rows
  <2>3. CASE Preflight \/ Collect \/ Interrupt
    BY <1>1, <2>1, <2>3 DEF Preflight, Collect, Interrupt, Close, requeue_for_restart, rows
  <2> QED BY <1>7, <2>2, <2>3 DEF Task
<1>8. ASSUME \/ \E on, new_interval \in BOOLEAN, runs \in Limits : UpdatePolicy(on, runs, new_interval)
             \/ \E runs \in Limits : Retarget(runs)
             \/ Rebind \/ OpenForm \/ stop \/ Stopped \/ Crash \/ Wake \/ Join \/ EnterLane \/ call
             \/ Tick \/ NewDay \/ Reconnect \/ OthersTake \/ OthersFree \/ UNCHANGED vars
      PROVE  UNCHANGED status
  BY <1>8 DEF UpdatePolicy, Retarget, Rebind, OpenForm, stop, Stopped, Crash, Wake, Join, EnterLane,
     call, Tick, NewDay, Reconnect, OthersTake, OthersFree, rows, vars
<1> QED BY <1>1, <1>2, <1>3, <1>4, <1>5, <1>6, <1>7, <1>8 DEF Next, Worker

\* The store's count leaves out no run of the day that called Splunk.
LEMMA LimitStep ==
  ASSUME IInv, CountInv, [Next]_vars,
         NEW r \in Runs, restarts = 0, status[r] = "none", status'[r] = "queued"
  PROVE  Cardinality({s \in today : issued[s] > 0}) < limit
<1> DEFINE Called == {s \in today : issued[s] > 0}
           Counted == {s \in today : status[s] \notin {"cancelled", "queued"} \/ calls_used[s] > 0}
<1>1. today \subseteq Runs /\ limit \in Nat /\ FirstAttempts /\ issued \in [Runs -> Nat]
  BY DEF CountInv, CountTypes
<1>2. Called \subseteq Counted
  BY <1>1 DEF FirstAttempts
<1>3. IsFiniteSet(Counted)
  BY <1>1, RunsAssumption, FS_Subset
<1>4. /\ Cardinality(Called) \in Nat /\ Cardinality(Counted) \in Nat
      /\ Cardinality(Called) <= Cardinality(Counted)
  BY <1>2, <1>3, FS_Subset, FS_CardinalityType
<1>5. Cardinality(Counted) < limit
  BY CreatedWithinUsage DEF usage_today
<1> QED
  <2> HIDE DEF Called, Counted
  <2>1. Cardinality(Called) < limit
    BY <1>1, <1>4, <1>5
  <2> QED BY <2>1 DEF Called

\* Until a restart retries a run, no more runs of a day than the limit ever call Splunk
\* before the next is created, whatever is cancelled at whatever point and however the
\* schedule and operators create runs.
THEOREM DailyLimit == Spec => DailyLimitHolds
<1>1. Spec => []CountInv
  BY CountInvInit, CountStep, Inductive, PTL DEF Spec
<1>2. IInv /\ CountInv /\ [Next]_vars =>
        [\A r \in Runs : restarts = 0 /\ status[r] = "none" /\ status'[r] = "queued" =>
            Cardinality({s \in today : issued[s] > 0}) < limit]_vars
  BY LimitStep
<1> QED BY <1>1, <1>2, Inductive, PTL DEF Spec, DailyLimitHolds

-----------------------------------------------------------------------------
(* The run table implements DurableRuns. *)

Phase == [r \in Runs |-> IF status[r] \in Finished \ {"cancelled"} THEN "ended" ELSE status[r]]
Cancelling == {r \in Runs : cancel_requested[r]}

\* A row that moves, seen as the move of a durable run.
LEMMA RowMove ==
  ASSUME RowsOK, NEW r \in Runs, NEW to \in Active \cup Finished,
         status' = [status EXCEPT ![r] = to], Cancelling' = Cancelling
  PROVE  Promise!Moves(r, Phase[r], IF to \in Finished \ {"cancelled"} THEN "ended" ELSE to)
  BY DEF Promise!Moves, Phase, Cancelling, RowsOK

LEMMA RowUnchanged ==
  ASSUME UNCHANGED <<status, cancel_requested>>
  PROVE  UNCHANGED Promise!vars
  BY DEF Promise!vars

LEMMA CreateImplements ==
  ASSUME IInv, NEW r \in Runs, MayCreate, create_run(r)
  PROVE  Promise!Next
<1> USE DEF IInv, RowsOK
<1>1. Promise!Moves(r, "none", "queued")
  BY RowMove DEF create_run, Phase, Cancelling
<1>2. Promise!Pending = {}
  BY DEF MayCreate, Promise!Pending, ActiveRuns
<1> QED BY <1>1, <1>2 DEF Promise!Submit, Promise!Next

LEMMA CancelImplements ==
  ASSUME IInv, NEW r \in Runs, cancel(r)
  PROVE  Promise!Next
<1> USE DEF IInv, RowsOK
<1>1. r \in Promise!Pending \ Cancelling
  BY DEF cancel, ActiveRuns, Promise!Pending, Cancelling
<1>2. Cancelling' = Cancelling \cup {r}
  BY DEF cancel, Cancelling
<1>3. Phase' = [Phase EXCEPT ![r] = IF @ = "queued" THEN "cancelled" ELSE @]
  BY DEF cancel, ActiveRuns, Phase
<1> QED BY <1>1, <1>2, <1>3 DEF Promise!Cancel, Promise!Next, Phase, Cancelling

\* A running row that is requeued or cancelled, by recovery or by its task.
LEMMA EndImplements ==
  ASSUME IInv, NEW r \in Runs, status[r] = "running",
         status' = [status EXCEPT ![r] = IF cancel_requested[r] THEN "cancelled" ELSE "queued"],
         UNCHANGED cancel_requested
  PROVE  Promise!Next
<1> USE DEF IInv
<1>1. Cancelling' = Cancelling
  BY DEF Cancelling
<1>2. CASE cancel_requested[r]
  <2>1. Promise!Moves(r, "running", "cancelled")
    BY <1>1, <1>2, RowMove DEF Phase
  <2> QED BY <1>2, <2>1 DEF Promise!Obey, Promise!Next
<1>3. CASE ~cancel_requested[r]
  <2>1. Promise!Moves(r, "running", "queued")
    BY <1>1, <1>3, RowMove DEF Phase
  <2> QED BY <1>3, <2>1 DEF Promise!Retry, Promise!Next
<1> QED BY <1>2, <1>3

LEMMA StartImplements ==
  ASSUME IInv, start
  PROVE  Promise!Next \/ UNCHANGED Promise!vars
<1> USE DEF IInv, RowsOK
<1>1. CASE \A r \in Runs : status[r] # "running"
  <2>1. UNCHANGED <<status, cancel_requested>>
    BY <1>1 DEF start, recover_interrupted
  <2> QED BY <2>1, RowUnchanged
<1>2. ASSUME NEW r \in Runs, status[r] = "running"
      PROVE  Promise!Next
  <2>1. \A s \in Runs : s # r => status[s] # "running"
    BY <1>2 DEF OneActive, ActiveRuns
  <2>2. status' = [status EXCEPT ![r] = IF cancel_requested[r] THEN "cancelled" ELSE "queued"]
    BY <1>2, <2>1 DEF start, recover_interrupted
  <2>3. UNCHANGED cancel_requested
    BY DEF start, recover_interrupted
  <2> QED BY <1>2, <2>2, <2>3, EndImplements
<1> QED BY <1>1, <1>2

LEMMA TaskImplements ==
  ASSUME IInv, Task
  PROVE  Promise!Next \/ UNCHANGED Promise!vars
<1> USE DEF IInv, RowsOK, TaskOwnsRow
<1>0. active \in Runs
  BY DEF Task, Begin, Preflight, Collect, Interrupt
<1>1. CASE Begin
  <2>1. CASE UNCHANGED rows
    BY <2>1, RowUnchanged DEF rows
  <2>2. ASSUME NEW to \in {"running", "connection-blocked"}, status[active] = "queued",
               status' = [status EXCEPT ![active] = to],
               cancel_requested' = [cancel_requested EXCEPT ![active] = FALSE]
        PROVE  Promise!Next
    <3>1. ~cancel_requested[active] /\ cancel_requested' = cancel_requested
      BY <1>0, <2>2 DEF CancelNotPending
    <3>2. Cancelling' = Cancelling
      BY <3>1 DEF Cancelling
    <3>3. Promise!Moves(active, "queued", IF to = "running" THEN "running" ELSE "ended")
      BY <1>0, <2>2, <3>2, RowMove DEF Phase
    <3> QED BY <1>0, <3>1, <3>3 DEF Promise!Start, Promise!Finish, Promise!Next
  <2> QED BY <1>1, <2>1, <2>2 DEF Begin
<1>2. ASSUME NEW to \in Finished \ {"cancelled"}, NEW used, status[active] = "running",
             ~cancel_requested[active], Close(active, to, used)
      PROVE  Promise!Next
  <2>1. status' = [status EXCEPT ![active] = to] /\ Cancelling' = Cancelling
    BY <1>2 DEF Close, Cancelling
  <2>2. Promise!Moves(active, "running", "ended")
    BY <1>0, <1>2, <2>1, RowMove DEF Phase
  <2> QED BY <1>0, <1>2, <2>2 DEF Promise!Finish, Promise!Next
<1>3. CASE Preflight
  <2>1. CASE UNCHANGED rows
    BY <2>1, RowUnchanged DEF rows
  <2>2. ASSUME NEW final \in {"connection-blocked", "error"}, Close(active, final, 0)
        PROVE  Promise!Next
    BY <1>2, <1>3, <2>2 DEF Preflight
  <2> QED BY <1>3, <2>1, <2>2 DEF Preflight
<1>4. CASE Collect
  BY <1>2, <1>4 DEF Collect
<1>5. CASE Interrupt
  <2>1. status[active] = "running" /\ UNCHANGED cancel_requested
    BY <1>5 DEF Interrupt, Close, requeue_for_restart
  <2>2. status' = [status EXCEPT ![active] = IF cancel_requested[active] THEN "cancelled" ELSE "queued"]
    BY <1>5 DEF Interrupt, Close, requeue_for_restart
  <2> QED BY <1>0, <2>1, <2>2, EndImplements
<1> QED BY <1>1, <1>3, <1>4, <1>5 DEF Task

LEMMA StepImplements == IInv /\ [Next]_vars => [Promise!Next]_(Promise!vars)
<1> SUFFICES ASSUME IInv, [Next]_vars PROVE Promise!Next \/ UNCHANGED Promise!vars
  OBVIOUS
<1>1. CASE UNCHANGED rows
  BY <1>1, RowUnchanged DEF rows
<1>2. ASSUME NEW r \in Runs, enqueue(r) \/ cancel(r)
      PROVE  Promise!Next
  BY <1>2, CreateImplements, CancelImplements DEF enqueue
<1>3. CASE start
  BY <1>3, StartImplements
<1>4. CASE Task
  BY <1>4, TaskImplements
<1>5. CASE Turn \/ CrashInSchedule
  <2>1. ASSUME NEW r \in Runs, MayCreate, create_run(r)
        PROVE  Promise!Next
    BY <2>1, CreateImplements
  <2> QED BY <1>1, <1>5, <2>1 DEF Turn, schedule_due, CrashInSchedule
<1>6. ASSUME NEW on \in BOOLEAN, NEW new_interval \in BOOLEAN, NEW runs \in Limits,
             UpdatePolicy(on, runs, new_interval)
      PROVE  UNCHANGED Promise!vars
  BY <1>6, RowUnchanged DEF UpdatePolicy, rows
<1>7. ASSUME NEW runs \in Limits, Retarget(runs)
      PROVE  UNCHANGED Promise!vars
  BY <1>7, RowUnchanged DEF Retarget, rows
<1>8. CASE Rebind \/ OpenForm \/ Tick \/ Reconnect \/ OthersTake \/ OthersFree
  BY <1>8, <1>1 DEF Rebind, OpenForm, Tick, Reconnect, OthersTake, OthersFree
<1>9. CASE NewDay \/ call
  BY <1>9, RowUnchanged DEF NewDay, call
<1>10. CASE stop \/ Stopped \/ Crash \/ Wake \/ Join \/ EnterLane
  BY <1>10, <1>1 DEF stop, Stopped, Crash, Wake, Join, EnterLane
<1>11. CASE UNCHANGED vars
  BY <1>11, <1>1 DEF vars
<1> QED BY <1>2, <1>3, <1>4, <1>5, <1>6, <1>7, <1>8, <1>9, <1>10, <1>11 DEF Next, Worker

\* Continuous assurance is a durable run service: one run at a time although
\* create_run itself tests nothing, retried after an interruption, and never
\* again once it has been cancelled.
THEOREM AssuranceImplementsDurableRuns == Spec => KeepsPromise
<1>1. Init => Promise!Init
  BY DEF Init, Promise!Init
<1>2. IInv /\ [Next]_vars => [Promise!Next]_(Promise!vars)
  BY StepImplements
<1> QED BY <1>1, <1>2, Inductive, PTL DEF Spec, KeepsPromise, Promise!Spec
=============================================================================
