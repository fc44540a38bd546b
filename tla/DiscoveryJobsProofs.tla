--------------------------- MODULE DiscoveryJobsProofs ---------------------------
(***************************************************************************)
(* Theorems about DiscoveryJobs, for any jobs, connection revisions, lane  *)
(* users, budget and bounds.  The argument: the rows say queued or running *)
(* for one job at most, and while the task is in flight that job is the    *)
(* task's own, running under the revision its client was built for.  A     *)
(* cancellation recorded in the row of such a job is always on its way to  *)
(* the task as well, so no other ending than "cancelled" is reached.       *)
(***************************************************************************)
EXTENDS DiscoveryJobs, TLAPS

\* The part of the type invariant the argument needs.
RowsOK ==
    /\ status \in [Jobs -> {"none"} \cup Active \cup Finished]
    /\ cancel_requested \in [Jobs -> BOOLEAN]
    /\ binding \in [Jobs -> Identities]
    /\ active \in Jobs \cup {NoJob}
    /\ identity \in Identities
    /\ calls \in Nat

\* A cancellation is recorded only in rows that were running or have ended.
CancelNotPending == \A j \in Jobs : status[j] \in {"none", "queued"} => ~cancel_requested[j]

\* The task, while it is in flight, works on the running row it was built for.
TaskOwnsRow ==
    /\ task \in {"created"} \cup InFlight => active \in Jobs
    /\ task \in InFlight =>
           /\ status[active] = "running"
           /\ client = binding[active]
           /\ cancel_requested[active] => task_cancel

\* Recovery at start finds no task.
OffIsIdle == worker = "off" => task = "none"

IInv == RowsOK /\ AtMostOneActive /\ CancelNotPending /\ TaskOwnsRow /\ OffIsIdle /\ calls <= CallBudget

USE DEF Active, Finished, InFlight, Over

-----------------------------------------------------------------------------
LEMMA InitIInv == Init => IInv
  BY JobsAssumption DEF Init, IInv, RowsOK, AtMostOneActive, ActiveJobs, CancelNotPending,
     TaskOwnsRow, OffIsIdle

\* An operator's request: a first active row, or the mark of a cancellation.
LEMMA RequestKeeps ==
  ASSUME IInv, NEW j \in Jobs, enqueue(j) \/ cancel(j)
  PROVE  IInv'
<1> USE DEF IInv, RowsOK, AtMostOneActive, ActiveJobs, CancelNotPending, TaskOwnsRow, OffIsIdle
<1>1. CASE enqueue(j)
  BY <1>1 DEF enqueue, process, attempt, budget, around
<1>2. CASE cancel(j)
  <2>1. RowsOK' /\ CancelNotPending' /\ OffIsIdle' /\ (calls <= CallBudget)'
    BY <1>2 DEF cancel, process, budget, around
  <2>2. AtMostOneActive'
    BY <1>2 DEF cancel
  <2>3. TaskOwnsRow'
    <3>1. CASE j = active
      BY <1>2, <3>1 DEF cancel, CancelTask, process, budget, around
    <3>2. CASE j # active
      BY <1>2, <3>2 DEF cancel, process, budget, around
    <3> QED BY <3>1, <3>2
  <2> QED BY <2>1, <2>2, <2>3
<1> QED BY <1>1, <1>2

\* Start, stop and crash: only start writes rows, and then no task exists.
LEMMA ProcessKeeps ==
  ASSUME IInv, start \/ stop \/ Stopped \/ Crash
  PROVE  IInv'
<1> USE JobsAssumption DEF IInv, RowsOK, AtMostOneActive, ActiveJobs, CancelNotPending,
        TaskOwnsRow, OffIsIdle
<1>1. CASE start
  BY <1>1 DEF start, recover_interrupted, attempt, budget, around
<1>2. CASE stop
  BY <1>2 DEF stop, CancelTask, table, budget
<1>3. CASE Stopped
  BY <1>3 DEF Stopped, table, budget, around
<1>4. CASE Crash
  BY <1>4 DEF Crash, table, budget
<1> QED BY <1>1, <1>2, <1>3, <1>4

\* The worker writes no row; the job it picks is the task's before it runs.
LEMMA WorkerKeeps ==
  ASSUME IInv, Worker
  PROVE  IInv'
<1> USE JobsAssumption DEF IInv, RowsOK, AtMostOneActive, ActiveJobs, CancelNotPending,
        TaskOwnsRow, OffIsIdle
<1>1. ASSUME NEW j \in Jobs, Pick(j)
      PROVE  IInv'
  BY <1>1 DEF Pick, table, budget, around
<1>2. CASE Rest
  BY <1>2 DEF Rest, table, attempt, budget, around
<1>3. CASE Wake
  BY <1>3 DEF Wake, table, attempt, budget, around
<1>4. CASE Join
  BY <1>4 DEF Join, table, budget, around
<1> QED BY <1>1, <1>2, <1>3, <1>4 DEF Worker

\* The task rewrites its own row, which stays the only active one.
LEMMA TaskKeeps ==
  ASSUME IInv, Task \/ call
  PROVE  IInv'
<1> USE JobsAssumption DEF IInv, RowsOK, AtMostOneActive, ActiveJobs, CancelNotPending,
        TaskOwnsRow, OffIsIdle
<1>1. CASE Begin
  <2>1. active \in Jobs /\ UNCHANGED <<worker, active, stopping, identity, lane, restarts>>
    BY <1>1 DEF Begin, process, around
  <2>2. CASE UNCHANGED <<table, budget>> /\ task' \in Over
    BY <2>1, <2>2, <1>1 DEF Begin, table, budget
  <2>3. CASE status[active] = "queued" /\ Reopen(active, "connection-blocked")
             /\ End("finished") /\ UNCHANGED budget
    BY <2>1, <2>3, <1>1 DEF Begin, Reopen, End, budget
  <2>4. CASE /\ status[active] = "queued" /\ binding[active] = identity
             /\ Reopen(active, "running") /\ client' = identity /\ calls' = 0
             /\ task' \in {"preflight", "raised"}
    <3>1. RowsOK' /\ CancelNotPending' /\ OffIsIdle' /\ (calls <= CallBudget)'
      BY <2>1, <2>4, <1>1 DEF Begin, Reopen
    <3>2. AtMostOneActive'
      BY <2>1, <2>4 DEF Reopen
    <3>3. TaskOwnsRow'
      BY <2>1, <2>4 DEF Reopen
    <3> QED BY <3>1, <3>2, <3>3
  <2> QED BY <1>1, <2>2, <2>3, <2>4 DEF Begin, End
<1>2. CASE Preflight
  BY <1>2 DEF Preflight, End, Close, table, process, budget
<1>3. CASE EnterLane
  BY <1>3 DEF EnterLane, table, process, budget, around
<1>4. CASE Collect
  BY <1>4 DEF Collect, End, Close, process, budget
<1>5. CASE Interrupt
  BY <1>5 DEF Interrupt, End, Close, Reopen, process, budget
<1>6. CASE call
  BY <1>6 DEF call, table, process, around
<1> QED BY <1>1, <1>2, <1>3, <1>4, <1>5, <1>6 DEF Task

LEMMA AroundKeeps ==
  ASSUME IInv, Reconnect \/ (\E u \in Others : ClaimLane(u) \/ FreeLane(u) \/ QuitLane(u))
  PROVE  IInv'
  BY DEF IInv, RowsOK, AtMostOneActive, ActiveJobs, CancelNotPending, TaskOwnsRow, OffIsIdle,
     Reconnect, ClaimLane, FreeLane, QuitLane, table, process, attempt, budget

LEMMA NextIInv == IInv /\ [Next]_vars => IInv'
<1> SUFFICES ASSUME IInv, [Next]_vars PROVE IInv'
  OBVIOUS
<1>1. CASE UNCHANGED vars
  BY <1>1 DEF vars, table, process, attempt, budget, around, IInv, RowsOK, AtMostOneActive,
     ActiveJobs, CancelNotPending, TaskOwnsRow, OffIsIdle
<1>2. CASE Next
  BY <1>2, RequestKeeps, ProcessKeeps, WorkerKeeps, TaskKeeps, AroundKeeps DEF Next
<1> QED BY <1>1, <1>2

THEOREM Inductive == Spec => []IInv
  BY InitIInv, NextIInv, PTL DEF Spec

-----------------------------------------------------------------------------
\* At most one manual discovery is queued or running at any time, however
\* requests, interruptions and restarts follow each other.
THEOREM OneActiveJob == Spec => []AtMostOneActive
<1>1. IInv => AtMostOneActive
  BY DEF IInv
<1> QED BY <1>1, Inductive, PTL

\* A job collects with a client built for the revision it was created under.
THEOREM BoundCollection == Spec => []CollectsAsBound
<1>1. IInv => CollectsAsBound
  BY DEF IInv, TaskOwnsRow, CollectsAsBound
<1> QED BY <1>1, Inductive, PTL

-----------------------------------------------------------------------------
\* Only a job that has used all of its budget was refused a call.
RefusedAtLimit == exceeded \in BOOLEAN /\ (exceeded => calls = CallBudget)

LEMMA RefusalKept ==
  ASSUME IInv, RefusedAtLimit, [Next]_vars
  PROVE  RefusedAtLimit'
<1> USE DEF RefusedAtLimit
<1>1. CASE UNCHANGED budget
  BY <1>1 DEF budget
<1>2. CASE Begin
  BY <1>2, <1>1 DEF Begin
<1>3. CASE call
  <2>1. calls \in Nat /\ CallBudget \in Nat /\ calls <= CallBudget
    BY JobsAssumption DEF IInv, RowsOK
  <2>2. CASE calls >= CallBudget
    <3>1. calls' = CallBudget
      BY <1>3, <2>1, <2>2 DEF call
    <3>2. exceeded' = TRUE
      BY <1>3, <2>2 DEF call
    <3> QED BY <3>1, <3>2
  <2>3. CASE ~(calls >= CallBudget)
    <3>1. exceeded' = FALSE
      BY <1>3, <2>3 DEF call
    <3> QED BY <3>1
  <2> QED BY <2>2, <2>3
<1>4. CASE UNCHANGED vars
  BY <1>4, <1>1 DEF vars, attempt
<1>5. CASE Next /\ ~Begin /\ ~call
  <2>1. UNCHANGED budget
    BY <1>5 DEF Next, enqueue, cancel, start, stop, Stopped, Crash, Worker, Pick, Rest, Wake, Join,
       Task, Preflight, EnterLane, Collect, Interrupt, Reconnect, ClaimLane, FreeLane, QuitLane, attempt
  <2> QED BY <2>1, <1>1
<1> QED BY <1>2, <1>3, <1>4, <1>5

\* A collection that was refused a call ends as such: its row is running, and only an
\* ending that reports the budget, an error or an interruption follows.
LEMMA RefusalReported ==
  ASSUME IInv, RefusedAtLimit, [Next]_vars,
         NEW j \in Jobs, j = active, task = "collecting", exceeded
  PROVE  calls = CallBudget /\ status'[j] \notin {"complete", "partial"}
<1>1. calls = CallBudget /\ status[j] = "running" /\ status \in [Jobs -> {"none"} \cup Active \cup Finished]
  BY DEF RefusedAtLimit, IInv, TaskOwnsRow, RowsOK
<1>2. CASE UNCHANGED table
  BY <1>1, <1>2 DEF table
<1>3. ASSUME NEW k \in Jobs, enqueue(k) \/ cancel(k)
      PROVE  status'[j] \notin {"complete", "partial"}
  BY <1>1, <1>3 DEF enqueue, cancel
<1>4. CASE start
  BY <1>1, <1>4 DEF start, recover_interrupted
<1>5. CASE Collect
  BY <1>1, <1>5 DEF Collect, Close
<1>6. CASE Interrupt
  BY <1>1, <1>6 DEF Interrupt, Close, Reopen
<1>7. ASSUME \/ UNCHANGED vars \/ stop \/ Stopped \/ Crash \/ Worker \/ Begin \/ Preflight \/ EnterLane
             \/ call \/ Reconnect \/ \E u \in Others : ClaimLane(u) \/ FreeLane(u) \/ QuitLane(u)
      PROVE  UNCHANGED table
  BY <1>7 DEF vars, stop, Stopped, Crash, Worker, Pick, Rest, Wake, Join, Begin, Preflight, EnterLane,
     call, Reconnect, ClaimLane, FreeLane, QuitLane
<1> QED BY <1>1, <1>2, <1>3, <1>4, <1>5, <1>6, <1>7 DEF Next, Task

\* A job is refused a call only at its budget, and never reports a complete or partial
\* collection after that, for any budget and any interleaving of its concurrent calls.
THEOREM BudgetsAreHard == Spec => BudgetIsHard
<1>1. Init => RefusedAtLimit
  BY JobsAssumption DEF Init, RefusedAtLimit
<1>2. Spec => []RefusedAtLimit
  BY <1>1, RefusalKept, Inductive, PTL DEF Spec
<1>3. IInv /\ RefusedAtLimit /\ [Next]_vars =>
        [\A j \in Jobs : j = active /\ task = "collecting" /\ exceeded =>
            calls = CallBudget /\ status'[j] \notin {"complete", "partial"}]_vars
  BY RefusalReported
<1> QED BY <1>2, <1>3, Inductive, PTL DEF Spec, BudgetIsHard

-----------------------------------------------------------------------------
\* What a step of the task or of the process may do to a row marked cancelled.
LEMMA TerminalStep ==
  ASSUME IInv, [Next]_vars, NEW j \in Jobs, cancel_requested[j]
  PROVE  cancel_requested'[j] /\ status'[j] \in {status[j], "cancelled"}
<1> USE DEF IInv, RowsOK, CancelNotPending, TaskOwnsRow
<1>1. CASE UNCHANGED table
  BY <1>1 DEF table
<1>2. ASSUME NEW k \in Jobs, enqueue(k) \/ cancel(k)
      PROVE  cancel_requested'[j] /\ status'[j] \in {status[j], "cancelled"}
  BY <1>2 DEF enqueue, cancel
<1>3. CASE start
  BY <1>3 DEF start, recover_interrupted
<1>4. CASE Begin
  BY <1>4 DEF Begin, Reopen, table
<1>5. CASE Preflight
  BY <1>5 DEF Preflight, Close, table
<1>6. CASE Collect
  BY <1>6 DEF Collect, Close
<1>7. CASE Interrupt
  BY <1>7 DEF Interrupt, Close, Reopen
<1>8. CASE stop \/ Stopped \/ Crash \/ Worker \/ EnterLane \/ call \/ Reconnect
  <2>1. UNCHANGED table
    BY <1>8 DEF stop, Stopped, Crash, Worker, Pick, Rest, Wake, Join, EnterLane, call, Reconnect
  <2> QED BY <2>1, <1>1
<1>9. CASE \E u \in Others : ClaimLane(u) \/ FreeLane(u) \/ QuitLane(u)
  <2>1. UNCHANGED table
    BY <1>9 DEF ClaimLane, FreeLane, QuitLane
  <2> QED BY <2>1, <1>1
<1>10. CASE UNCHANGED vars
  BY <1>10, <1>1 DEF vars
<1> QED BY <1>2, <1>3, <1>4, <1>5, <1>6, <1>7, <1>8, <1>9, <1>10 DEF Next, Task

\* An explicit cancellation is terminal: no handler, requeue or recovery turns a
\* job asked to stop into anything but a cancelled one.
THEOREM CancellationIsTerminal == Spec => CancelIsTerminal
<1>1. IInv /\ [Next]_vars =>
          [\A j \in Jobs : cancel_requested[j] =>
               cancel_requested'[j] /\ status'[j] \in {status[j], "cancelled"}]_vars
  BY TerminalStep
<1> QED BY <1>1, Inductive, PTL DEF Spec, CancelIsTerminal

-----------------------------------------------------------------------------
(* The job table implements DurableRuns. *)

Phase == [j \in Jobs |-> IF status[j] \in Finished \ {"cancelled"} THEN "ended" ELSE status[j]]
Cancelling == {j \in Jobs : cancel_requested[j]}

\* A row that moves, seen as the move of a durable run.
LEMMA RowMove ==
  ASSUME RowsOK, NEW j \in Jobs, NEW to \in Active \cup Finished,
         status' = [status EXCEPT ![j] = to], Cancelling' = Cancelling
  PROVE  Promise!Moves(j, Phase[j], IF to \in Finished \ {"cancelled"} THEN "ended" ELSE to)
  BY DEF Promise!Moves, Phase, Cancelling, RowsOK

LEMMA RowUnchanged ==
  ASSUME UNCHANGED table
  PROVE  UNCHANGED Promise!vars
  BY DEF table, Promise!vars

LEMMA RequestImplements ==
  ASSUME IInv, NEW j \in Jobs, enqueue(j) \/ cancel(j)
  PROVE  Promise!Next
<1> USE DEF IInv, RowsOK
<1>1. CASE enqueue(j)
  <2>1. Promise!Moves(j, "none", "queued")
    BY <1>1, RowMove DEF enqueue, Phase, Cancelling
  <2>2. Promise!Pending = {}
    BY <1>1 DEF enqueue, Promise!Pending, ActiveJobs
  <2> QED BY <2>1, <2>2 DEF Promise!Submit, Promise!Next
<1>2. CASE cancel(j)
  <2>1. j \in Promise!Pending \ Cancelling
    BY <1>2 DEF cancel, Promise!Pending, Cancelling
  <2>2. Cancelling' = Cancelling \cup {j}
    BY <1>2 DEF cancel, Cancelling
  <2>3. Phase' = [Phase EXCEPT ![j] = IF @ = "queued" THEN "cancelled" ELSE @]
    BY <1>2 DEF cancel, Phase
  <2> QED BY <2>1, <2>2, <2>3 DEF Promise!Cancel, Promise!Next, Phase, Cancelling
<1> QED BY <1>1, <1>2

\* Recovery at start moves the one running row, if there is one.
LEMMA StartImplements ==
  ASSUME IInv, start
  PROVE  Promise!Next \/ UNCHANGED Promise!vars
<1> USE DEF IInv, RowsOK
<1>1. CASE \A j \in Jobs : status[j] # "running"
  <2>1. status' = status /\ UNCHANGED <<cancel_requested, binding>>
    BY <1>1 DEF start, recover_interrupted
  <2> QED BY <2>1, RowUnchanged DEF table
<1>2. ASSUME NEW j \in Jobs, status[j] = "running"
      PROVE  Promise!Next
  <2>1. Cancelling' = Cancelling
    BY DEF start, recover_interrupted, Cancelling
  <2>2. \A k \in Jobs : k # j => status[k] # "running"
    BY <1>2 DEF AtMostOneActive, ActiveJobs
  <2>3. CASE cancel_requested[j]
    <3>1. status' = [status EXCEPT ![j] = "cancelled"]
      BY <1>2, <2>2, <2>3 DEF start, recover_interrupted
    <3>2. Promise!Moves(j, "running", "cancelled")
      BY <1>2, <2>1, <3>1, RowMove DEF Phase
    <3> QED BY <2>3, <3>2 DEF Promise!Obey, Promise!Next
  <2>4. CASE ~cancel_requested[j]
    <3>1. status' = [status EXCEPT ![j] = "queued"]
      BY <1>2, <2>2, <2>4 DEF start, recover_interrupted
    <3>2. Promise!Moves(j, "running", "queued")
      BY <1>2, <2>1, <3>1, RowMove DEF Phase
    <3> QED BY <2>4, <3>2 DEF Promise!Retry, Promise!Next
  <2> QED BY <2>3, <2>4
<1> QED BY <1>1, <1>2

LEMMA TaskImplements ==
  ASSUME IInv, Begin \/ Preflight \/ Collect \/ Interrupt
  PROVE  Promise!Next \/ UNCHANGED Promise!vars
<1> USE DEF IInv, RowsOK, TaskOwnsRow, CancelNotPending
<1>0. active \in Jobs
  BY DEF Begin, Preflight, Collect, Interrupt
<1>1. CASE Begin
  <2>1. CASE UNCHANGED table
    BY <2>1, RowUnchanged
  <2>2. ASSUME NEW to \in {"running", "connection-blocked"},
               status[active] = "queued", Reopen(active, to)
        PROVE  Promise!Next
    <3>1. ~cancel_requested[active]
      BY <1>0, <2>2
    <3>2. cancel_requested' = cancel_requested /\ status' = [status EXCEPT ![active] = to]
      BY <1>0, <2>2, <3>1 DEF Reopen
    <3>3. Cancelling' = Cancelling
      BY <3>2 DEF Cancelling
    <3>4. Promise!Moves(active, "queued", IF to = "running" THEN "running" ELSE "ended")
      BY <1>0, <2>2, <3>2, <3>3, RowMove DEF Phase
    <3> QED BY <1>0, <3>1, <3>4 DEF Promise!Start, Promise!Finish, Promise!Next
  <2> QED BY <1>1, <2>1, <2>2 DEF Begin
<1>2. ASSUME NEW to \in Finished \ {"cancelled"}, status[active] = "running",
             ~cancel_requested[active], Close(active, to)
      PROVE  Promise!Next
  <2>1. status' = [status EXCEPT ![active] = to] /\ Cancelling' = Cancelling
    BY <1>2 DEF Close, Cancelling
  <2>2. Promise!Moves(active, "running", "ended")
    BY <1>0, <1>2, <2>1, RowMove DEF Phase
  <2> QED BY <1>0, <1>2, <2>2 DEF Promise!Finish, Promise!Next
<1>3. CASE Preflight
  <2>1. CASE UNCHANGED table
    BY <2>1, RowUnchanged
  <2>2. CASE \E final \in {"connection-blocked", "error"} : Close(active, final)
    BY <1>2, <1>3, <2>2 DEF Preflight
  <2> QED BY <1>3, <2>1, <2>2 DEF Preflight, table
<1>4. CASE Collect
  BY <1>2, <1>4 DEF Collect
<1>5. CASE Interrupt
  <2>1. status[active] = "running"
    BY <1>5 DEF Interrupt
  <2>2. CASE cancel_requested[active]
    <3>1. status' = [status EXCEPT ![active] = "cancelled"] /\ Cancelling' = Cancelling
      BY <1>5, <2>2 DEF Interrupt, Close, Cancelling
    <3>2. Promise!Moves(active, "running", "cancelled")
      BY <1>0, <2>1, <3>1, RowMove DEF Phase
    <3> QED BY <1>0, <2>2, <3>2 DEF Promise!Obey, Promise!Next
  <2>3. CASE ~cancel_requested[active]
    <3>1. status' = [status EXCEPT ![active] = "queued"] /\ Cancelling' = Cancelling
      BY <1>0, <1>5, <2>3 DEF Interrupt, Reopen, Cancelling
    <3>2. Promise!Moves(active, "running", "queued")
      BY <1>0, <2>1, <3>1, RowMove DEF Phase
    <3> QED BY <1>0, <2>3, <3>2 DEF Promise!Retry, Promise!Next
  <2> QED BY <2>2, <2>3
<1> QED BY <1>1, <1>3, <1>4, <1>5

LEMMA StepImplements == IInv /\ [Next]_vars => [Promise!Next]_(Promise!vars)
<1> SUFFICES ASSUME IInv, [Next]_vars PROVE Promise!Next \/ UNCHANGED Promise!vars
  OBVIOUS
<1>1. ASSUME NEW j \in Jobs, enqueue(j) \/ cancel(j)
      PROVE  Promise!Next
  BY <1>1, RequestImplements
<1>2. CASE start
  BY <1>2, StartImplements
<1>3. CASE Begin \/ Preflight \/ Collect \/ Interrupt
  BY <1>3, TaskImplements
<1>4. CASE UNCHANGED table
  BY <1>4, RowUnchanged
<1>5. CASE stop \/ Stopped \/ Crash \/ Worker \/ EnterLane \/ call \/ Reconnect
  BY <1>4, <1>5 DEF stop, Stopped, Crash, Worker, Pick, Rest, Wake, Join, EnterLane, call, Reconnect
<1>6. CASE \E u \in Others : ClaimLane(u) \/ FreeLane(u) \/ QuitLane(u)
  BY <1>4, <1>6 DEF ClaimLane, FreeLane, QuitLane
<1>7. CASE UNCHANGED vars
  BY <1>4, <1>7 DEF vars
<1> QED BY <1>1, <1>2, <1>3, <1>5, <1>6, <1>7 DEF Next, Task

\* Manual discovery is a durable run service: whatever happens to the process,
\* the lane and the connection, its job table moves only as DurableRuns allows.
THEOREM DiscoveryImplementsDurableRuns == Spec => KeepsPromise
<1>1. Init => Promise!Init
  BY DEF Init, Promise!Init
<1>2. IInv /\ [Next]_vars => [Promise!Next]_(Promise!vars)
  BY StepImplements
<1> QED BY <1>1, <1>2, Inductive, PTL DEF Spec, KeepsPromise, Promise!Spec
=============================================================================
