------------------------------ MODULE DiscoveryJobs ------------------------------
(***************************************************************************)
(* Manual discovery: discovery/job_service.py over discovery/job_store.py. *)
(*                                                                         *)
(* One worker coroutine takes the queued job, runs it in a task of its own *)
(* and joins that task.  The task checks the connection identity, runs the *)
(* preflight, takes the Splunk lane it shares with other work and collects *)
(* under a call budget.  cancel() and stop() cancel the task; the          *)
(* CancelledError arrives when the task next runs.  The job table survives *)
(* a crash, everything else does not.                                      *)
(***************************************************************************)
EXTENDS Integers, Sequences, SequencesExt

CONSTANTS
    Jobs,             \* the requests operators make, each a row of its own
    NoJob,            \* no active job
    Me,               \* this service, as a user of the lane
    Others,           \* the other users of the lane: streamed discoveries, MLTK scans
    Identities,       \* connection revisions an administrator may save
    CallBudget,       \* call ceiling of a job
    FactoryMayRaise,  \* client_factory raises: an alias without a token, say
    EarlyCancel,      \* a cancellation may land before the new task has run at all
    MaxRestarts       \* bound on process stops and crashes

ASSUME JobsAssumption ==
    /\ NoJob \notin Jobs /\ Me \notin Others
    /\ Identities # {}
    /\ CallBudget \in Nat /\ MaxRestarts \in Nat
    /\ FactoryMayRaise \in BOOLEAN /\ EarlyCancel \in BOOLEAN

VARIABLES
    status, cancel_requested, binding,  \* columns of discovery_jobs
    worker,       \* the _work_loop coroutine
    active,       \* _active_job_id
    stopping,     \* _stopping
    task,         \* where _active_task is
    task_cancel,  \* a CancelledError is on its way to it
    client,       \* the revision its Splunk client was built for
    calls,        \* calls_used of its BudgetedSplunkClient
    exceeded,     \* the exceeded flag of that client
    identity,     \* the revision the connection registry holds now
    lane,         \* run_lock: its holder first, then its waiters in order
    restarts

table == <<status, cancel_requested, binding>>
process == <<worker, active, stopping>>
budget == <<client, calls, exceeded>>
attempt == <<task, task_cancel, budget>>
around == <<identity, lane, restarts>>
vars == <<table, process, attempt, around>>

Active == {"queued", "running"}
Finished == {"complete", "partial", "budget-blocked", "connection-blocked", "error", "cancelled"}
InFlight == {"preflight", "lane", "collecting"}
Over == {"finished", "raised", "killed"}

TypeOK ==
    /\ status \in [Jobs -> {"none"} \cup Active \cup Finished]
    /\ cancel_requested \in [Jobs -> BOOLEAN]
    /\ binding \in [Jobs -> Identities]
    /\ worker \in {"off", "loop", "waiting", "joining", "sleeping", "dead"}
    /\ active \in Jobs \cup {NoJob}
    /\ stopping \in BOOLEAN
    /\ task \in {"none", "created"} \cup InFlight \cup Over
    /\ task_cancel \in BOOLEAN /\ exceeded \in BOOLEAN
    /\ client \in Identities /\ identity \in Identities
    /\ calls \in 0 .. CallBudget
    /\ lane \in Seq({Me} \cup Others)
    /\ restarts \in Nat

Init ==
    /\ status = [j \in Jobs |-> "none"]
    /\ cancel_requested = [j \in Jobs |-> FALSE]
    /\ identity \in Identities
    /\ binding = [j \in Jobs |-> identity]
    /\ worker = "off" /\ active = NoJob /\ stopping = FALSE
    /\ task = "none" /\ task_cancel = FALSE
    /\ client = identity /\ calls = 0 /\ exceeded = FALSE
    /\ lane = <<>> /\ restarts = 0

-----------------------------------------------------------------------------
(* The store. *)

ActiveJobs == {j \in Jobs : status[j] \in Active}

\* complete_job and fail_job write a final status over whatever is there.
Close(j, final) ==
    /\ status' = [status EXCEPT ![j] = final]
    /\ UNCHANGED <<cancel_requested, binding>>

\* mark_running and requeue_for_restart both forget a requested cancellation.
Reopen(j, next) ==
    /\ status' = [status EXCEPT ![j] = next]
    /\ cancel_requested' = [cancel_requested EXCEPT ![j] = FALSE]
    /\ UNCHANGED binding

\* Mutant: only the rows that were being cancelled are looked at.
RecoverCancelled ==
    /\ status' = [j \in Jobs |-> IF status[j] = "running" /\ cancel_requested[j]
                                THEN "cancelled" ELSE status[j]]
    /\ UNCHANGED <<cancel_requested, binding>>

\* A running row that was being cancelled ends, any other goes back to the queue.
recover_interrupted ==
    /\ status' = [j \in Jobs |-> IF status[j] # "running" THEN status[j]
                                ELSE IF cancel_requested[j] THEN "cancelled" ELSE "queued"]
    /\ UNCHANGED <<cancel_requested, binding>>

LeaveLane(u) == lane' = Remove(lane, u)

-----------------------------------------------------------------------------
(* The API: each handler runs without suspending up to these writes. *)

\* Mutant: a second job is accepted while one waits in the queue.
enqueueBesideQueued(j) ==
    /\ worker # "off" /\ status[j] = "none"
    /\ \A k \in Jobs : status[k] # "running"
    /\ status' = [status EXCEPT ![j] = "queued"]
    /\ binding' = [binding EXCEPT ![j] = identity]
    /\ UNCHANGED <<cancel_requested, process, attempt, around>>

\* The row is bound to the connection revision of the request.
enqueue(j) ==
    /\ worker # "off" /\ status[j] = "none"
    /\ ActiveJobs = {}
    /\ status' = [status EXCEPT ![j] = "queued"]
    /\ binding' = [binding EXCEPT ![j] = identity]
    /\ UNCHANGED <<cancel_requested, process, attempt, around>>

\* Cancelling a task that is done has no effect.
CancelTask == task_cancel' = (task_cancel \/ task \in {"created"} \cup InFlight)

\* cancel(): request_cancel on the row, then the task when it is this job's.
cancel(j) ==
    /\ worker # "off" /\ status[j] \in Active /\ ~cancel_requested[j]
    /\ (task = "created" => EarlyCancel)
    /\ cancel_requested' = [cancel_requested EXCEPT ![j] = TRUE]
    /\ status' = [status EXCEPT ![j] = IF @ = "queued" THEN "cancelled" ELSE @]
    /\ IF j = active THEN CancelTask ELSE UNCHANGED task_cancel
    /\ UNCHANGED <<binding, process, task, budget, around>>

-----------------------------------------------------------------------------
(* The process: start, stop and the worker. *)

start ==
    /\ worker = "off"
    /\ worker' = "loop" /\ stopping' = FALSE
    /\ recover_interrupted
    /\ UNCHANGED <<active, attempt, around>>

stop ==
    /\ worker # "off" /\ ~stopping /\ restarts < MaxRestarts
    /\ stopping' = TRUE /\ restarts' = restarts + 1
    /\ CancelTask
    /\ UNCHANGED <<table, worker, active, task, budget, identity, lane>>

\* Both gathers of stop() have returned.
Stopped ==
    /\ stopping /\ task \notin {"created"} \cup InFlight
    /\ worker' = "off" /\ active' = NoJob /\ stopping' = FALSE /\ task' = "none"
    /\ UNCHANGED <<table, task_cancel, budget, around>>

\* The process dies: the table is what is left.
Crash ==
    /\ worker # "off" /\ restarts < MaxRestarts
    /\ worker' = "off" /\ active' = NoJob /\ stopping' = FALSE
    /\ task' = "none" /\ task_cancel' = FALSE /\ lane' = <<>>
    /\ restarts' = restarts + 1
    /\ UNCHANGED <<table, budget, identity>>

\* next_queued, then a new task that has not run yet.
Pick(j) ==
    /\ worker = "loop" /\ ~stopping /\ status[j] = "queued"
    /\ active' = j /\ worker' = "joining"
    /\ task' = "created" /\ task_cancel' = FALSE
    /\ UNCHANGED <<table, stopping, budget, around>>

Rest ==
    /\ worker = "loop" /\ ~stopping
    /\ \A j \in Jobs : status[j] # "queued"
    /\ worker' = "waiting"
    /\ UNCHANGED <<table, active, stopping, attempt, around>>

\* The wake event or the poll timeout; after an error, the end of the pause.
Wake ==
    /\ worker \in {"waiting", "sleeping"}
    /\ worker' = "loop"
    /\ UNCHANGED <<table, active, stopping, attempt, around>>

\* Awaiting the task returns, or raises its exception.  A CancelledError is
\* taken for the cancellation of the loop itself, which ends.
Join ==
    /\ worker = "joining" /\ task \in Over
    /\ CASE task = "finished" -> worker' = "loop" /\ active' = NoJob /\ task' = "none"
         [] task = "raised" -> worker' = "sleeping" /\ UNCHANGED <<active, task>>
         [] task = "killed" -> worker' = "dead" /\ UNCHANGED <<active, task>>
    /\ UNCHANGED <<table, stopping, task_cancel, budget, around>>

-----------------------------------------------------------------------------
(* The task: _execute, one action per stretch between suspensions. *)

End(how) == task' = how /\ task_cancel' = FALSE

\* Mutant: the recorded identity is not compared with the registry's.
BeginUnchecked ==
    /\ task = "created" /\ ~task_cancel /\ status[active] = "queued"
    /\ Reopen(active, "running")
    /\ client' = identity /\ calls' = 0 /\ exceeded' = FALSE
    /\ task' = "preflight"
    /\ UNCHANGED <<process, task_cancel, around>>

\* Mark the job running, compare its identity and build the client.  A task
\* cancelled before this point never runs; what raises here is outside the try.
Begin ==
    /\ task = "created"
    /\ IF task_cancel THEN End("killed") /\ UNCHANGED <<table, budget>>
       ELSE IF status[active] # "queued" THEN End("finished") /\ UNCHANGED <<table, budget>>
       ELSE IF binding[active] # identity
       THEN Reopen(active, "connection-blocked") /\ End("finished") /\ UNCHANGED budget
       ELSE /\ Reopen(active, "running")
            /\ client' = identity /\ calls' = 0 /\ exceeded' = FALSE
            /\ \/ task' = "preflight"
               \/ FactoryMayRaise /\ task' = "raised"
            /\ UNCHANGED task_cancel
    /\ UNCHANGED <<process, around>>

\* The preflight is ready and the lane claimed, or the job ends without a call.
Preflight ==
    /\ task = "preflight" /\ ~task_cancel
    /\ \/ /\ task' = "lane" /\ lane' = Append(lane, Me)
          /\ UNCHANGED <<table, task_cancel>>
       \/ /\ \E final \in {"connection-blocked", "error"} : Close(active, final)
          /\ End("finished") /\ UNCHANGED lane
    /\ UNCHANGED <<process, budget, identity, restarts>>

EnterLane ==
    /\ task = "lane" /\ ~task_cancel /\ Head(lane) = Me
    /\ task' = "collecting"
    /\ UNCHANGED <<table, process, task_cancel, budget, around>>

\* BudgetedSplunkClient.call counts before it delegates and refuses at the limit.
call ==
    /\ task = "collecting" /\ ~task_cancel /\ ~exceeded
    /\ IF calls >= CallBudget THEN exceeded' = TRUE /\ UNCHANGED calls
                              ELSE /\ calls' = calls + 1 /\ UNCHANGED exceeded
    /\ UNCHANGED <<table, process, task, task_cancel, client, around>>

\* Mutant: an exhausted budget is reported like any collection gap.
CollectHidesBudget ==
    /\ task = "collecting" /\ ~task_cancel
    /\ \E final \in {"complete", "partial", "error"} : Close(active, final)
    /\ LeaveLane(Me)
    /\ End("finished")
    /\ UNCHANGED <<process, budget, identity, restarts>>

\* pipeline.run came back, or raised: the lane is free and the row final.  An
\* on_complete that raises turns the row it follows into "error".
Collect ==
    /\ task = "collecting" /\ ~task_cancel
    /\ \E final \in {"error"} \cup (IF exceeded THEN {"budget-blocked"} ELSE {"complete", "partial"}) :
           Close(active, final)
    /\ LeaveLane(Me)
    /\ End("finished")
    /\ UNCHANGED <<process, budget, identity, restarts>>

\* The CancelledError handler: an operator's cancellation is final, a shutdown's
\* puts the job back in the queue.
Interrupt ==
    /\ task \in InFlight /\ task_cancel
    /\ IF cancel_requested[active] THEN Close(active, "cancelled") ELSE Reopen(active, "queued")
    /\ LeaveLane(Me)
    /\ End("finished")
    /\ UNCHANGED <<process, budget, identity, restarts>>

-----------------------------------------------------------------------------
(* Around the service: the connection registry and the other lane users. *)

Reconnect ==
    /\ \E i \in Identities \ {identity} : identity' = i
    /\ UNCHANGED <<table, process, attempt, lane, restarts>>

ClaimLane(u) ==
    /\ worker # "off" /\ u \notin ToSet(lane)
    /\ lane' = Append(lane, u)
    /\ UNCHANGED <<table, process, attempt, identity, restarts>>

\* The user at the head is done.
FreeLane(u) ==
    /\ lane # <<>> /\ Head(lane) = u
    /\ LeaveLane(u)
    /\ UNCHANGED <<table, process, attempt, identity, restarts>>

\* A waiting request is dropped by its own client.
QuitLane(u) ==
    /\ lane # <<>> /\ u \in ToSet(Tail(lane))
    /\ LeaveLane(u)
    /\ UNCHANGED <<table, process, attempt, identity, restarts>>

Worker == (\E j \in Jobs : Pick(j)) \/ Rest \/ Wake \/ Join
Task == Begin \/ Preflight \/ EnterLane \/ Collect \/ Interrupt

Next ==
    \/ \E j \in Jobs : enqueue(j) \/ cancel(j)
    \/ start \/ stop \/ Stopped \/ Crash
    \/ Worker \/ Task \/ call
    \/ Reconnect
    \/ \E u \in Others : ClaimLane(u) \/ FreeLane(u) \/ QuitLane(u)

Spec == Init /\ [][Next]_vars

\* The event loop runs ready coroutines, answers and polls time out, and the
\* lane's other users finish.  A stopped service is assumed to be started again.
FairSpec ==
    /\ Spec
    /\ WF_vars(Worker) /\ WF_vars(Task)
    /\ WF_vars(start) /\ WF_vars(Stopped)
    /\ \A u \in Others : WF_vars(FreeLane(u))

-----------------------------------------------------------------------------
(* Properties. *)

\* Whatever is enqueued, interrupted, requeued or recovered, at most one job is
\* queued or running: create_job's test and the two requeueing paths agree.
AtMostOneActive == \A j, k \in ActiveJobs : j = k

\* An explicit cancellation is terminal, across restarts too: a job asked to
\* stop is never queued again and ends as cancelled, not as something else.
CancelIsTerminal ==
    [][\A j \in Jobs : cancel_requested[j] =>
           cancel_requested'[j] /\ status'[j] \in {status[j], "cancelled"}]_vars

\* The client a job works with was built for the connection revision the job was
\* created under, even when the connection changes while it waits or runs.
CollectsAsBound == task \in InFlight => client = binding[active]

\* A job is refused a call only when it has used all of its budget, and is then
\* not reported as a complete or partial collection.
BudgetIsHard ==
    [][\A j \in Jobs : j = active /\ task = "collecting" /\ exceeded =>
           calls = CallBudget /\ status'[j] \notin {"complete", "partial"}]_vars

\* The job table implements what DurableRuns promises.
Promise == INSTANCE DurableRuns WITH
    Runs <- Jobs,
    phase <- [j \in Jobs |-> IF status[j] \in Finished \ {"cancelled"} THEN "ended" ELSE status[j]],
    cancelling <- {j \in Jobs : cancel_requested[j]}

\* A step of the service is a step of a durable run service or none at all.
KeepsPromise == Promise!Spec

\* Unless the worker is gone, or a job marked running has no task, from some time
\* on, every queued job ends, whatever stops, crashes and lane users come between.
EveryJobEnds ==
    <>[](task # "raised" /\ worker # "dead") =>
        \A j \in Jobs : status[j] = "queued" ~> status[j] \in Finished

\* "Explicit cancellation is terminal": the job a cancellation was requested for ends.
CancellationEnds == \A j \in Jobs : cancel_requested[j] ~> status[j] \in Finished

=============================================================================
