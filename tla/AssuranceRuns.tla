------------------------------ MODULE AssuranceRuns ------------------------------
(***************************************************************************)
(* Continuous assurance: assurance/service.py over assurance/store.py.     *)
(*                                                                         *)
(* An administrator edits one policy: on or off, a daily limit, the        *)
(* connection it is bound to.  The worker creates the run that is due, or  *)
(* says why not, and executes the queued run; operators create and cancel  *)
(* runs by hand.  Executing a run is what DiscoveryJobs describes for      *)
(* manual discovery, here with what the policy and the day's usage see of  *)
(* it.  Time is what the schedule tells apart: not scheduled, due later,   *)
(* due now.  The lane is free, ours or somebody else's.                    *)
(***************************************************************************)
EXTENDS Integers, FiniteSets

CONSTANTS
    Runs,             \* the rows of assurance_runs that will be created
    NoRun,
    Identities,       \* connection revisions an administrator may save
    CallBudget,       \* max_splunk_calls_per_run
    Limits,           \* values of max_runs_per_day
    FactoryMayRaise,  \* client_factory raises
    EarlyCancel,      \* a cancellation may land before the new task has run at all
    MaxRestarts,      \* bound on process stops and crashes
    MaxDays           \* bound on UTC midnights

ASSUME RunsAssumption ==
    /\ IsFiniteSet(Runs) /\ NoRun \notin Runs
    /\ Identities # {} /\ Limits # {} /\ Limits \subseteq Nat \ {0}
    /\ CallBudget \in Nat /\ MaxRestarts \in Nat /\ MaxDays \in Nat
    /\ FactoryMayRaise \in BOOLEAN /\ EarlyCancel \in BOOLEAN

VARIABLES
    enabled, limit, bound,  \* columns of the policy: on, max_runs_per_day, its connection
    due,          \* next_run_at: "none", "later" than now, or "now"
    fresh,        \* the rebinding form open in a browser shows the stored policy
    status, cancel_requested, binding, calls_used,  \* columns of assurance_runs
    today,        \* the runs created this UTC day
    worker,       \* the _work_loop coroutine
    active,       \* _active_run_id
    stopping,     \* _stopping
    task,         \* where _active_task is
    task_cancel,  \* a CancelledError is on its way to it
    client,       \* the revision its Splunk client was built for
    calls,        \* calls_used of that client
    issued,       \* history: Splunk calls made for a run, over all its attempts
    identity,     \* the revision the connection registry holds now
    lane,         \* the shared run_lock
    restarts, days

policy == <<enabled, limit, bound, due, fresh>>
rows == <<status, cancel_requested, binding, calls_used, today>>
process == <<worker, active, stopping>>
attempt == <<task, task_cancel, client, calls>>
bounds == <<restarts, days>>
vars == <<policy, rows, process, attempt, issued, identity, lane, bounds>>

Active == {"queued", "running"}
Finished == {"complete", "connection-blocked", "error", "cancelled"}
InFlight == {"preflight", "lane", "collecting"}
Over == {"finished", "raised", "killed"}

TypeOK ==
    /\ enabled \in BOOLEAN /\ limit \in Limits /\ bound \in Identities
    /\ due \in {"none", "later", "now"} /\ fresh \in BOOLEAN
    /\ status \in [Runs -> {"none"} \cup Active \cup Finished]
    /\ cancel_requested \in [Runs -> BOOLEAN]
    /\ binding \in [Runs -> Identities]
    /\ calls_used \in [Runs -> 0 .. CallBudget]
    /\ today \subseteq Runs
    /\ worker \in {"off", "loop", "waiting", "joining", "sleeping", "dead"}
    /\ active \in Runs \cup {NoRun} /\ stopping \in BOOLEAN
    /\ task \in {"none", "created"} \cup InFlight \cup Over
    /\ task_cancel \in BOOLEAN
    /\ client \in Identities /\ identity \in Identities
    /\ calls \in 0 .. CallBudget /\ issued \in [Runs -> Nat]
    /\ lane \in {"free", "ours", "theirs"}
    /\ restarts \in Nat /\ days \in Nat

Init ==
    /\ enabled = FALSE /\ due = "none" /\ fresh = FALSE
    /\ limit \in Limits /\ identity \in Identities /\ bound = identity
    /\ status = [r \in Runs |-> "none"] /\ cancel_requested = [r \in Runs |-> FALSE]
    /\ binding = [r \in Runs |-> identity] /\ calls_used = [r \in Runs |-> 0]
    /\ today = {}
    /\ worker = "off" /\ active = NoRun /\ stopping = FALSE
    /\ task = "none" /\ task_cancel = FALSE /\ client = identity /\ calls = 0
    /\ issued = [r \in Runs |-> 0]
    /\ lane = "free" /\ restarts = 0 /\ days = 0

-----------------------------------------------------------------------------
(* The store. *)

ActiveRuns == {r \in Runs : status[r] \in Active}

\* Queued and cancelled runs count only if they are known to have called Splunk.
usage_today ==
    Cardinality({r \in today : status[r] \notin {"cancelled", "queued"} \/ calls_used[r] > 0})

\* create_run: a queued row under the connection of the policy.
create_run(r) ==
    /\ status[r] = "none"
    /\ status' = [status EXCEPT ![r] = "queued"]
    /\ binding' = [binding EXCEPT ![r] = bound]
    /\ today' = today \cup {r}
    /\ UNCHANGED <<cancel_requested, calls_used>>

\* complete_run and fail_run write a final status over whatever is there.
Close(r, final, used) ==
    /\ status' = [status EXCEPT ![r] = final]
    /\ calls_used' = [calls_used EXCEPT ![r] = used]
    /\ UNCHANGED <<cancel_requested, binding, today>>

requeue_for_restart(r) ==
    /\ status' = [status EXCEPT ![r] = "queued"]
    /\ UNCHANGED <<cancel_requested, binding, calls_used, today>>

\* Mutant: a restart does not look at the cancellation flag.
recover_all ==
    /\ status' = [r \in Runs |-> IF status[r] = "running" THEN "queued" ELSE status[r]]
    /\ UNCHANGED <<cancel_requested, binding, calls_used, today>>

\* A running row that was being cancelled ends, any other goes back to the queue.
recover_interrupted ==
    /\ status' = [r \in Runs |-> IF status[r] # "running" THEN status[r]
                                ELSE IF cancel_requested[r] THEN "cancelled" ELSE "queued"]
    /\ UNCHANGED <<cancel_requested, binding, calls_used, today>>

-----------------------------------------------------------------------------
(* The policy. *)

\* rebind_policy: the row must still be the one the form shows.  The target
\* changes and the schedule is paused.
rebind_policy ==
    /\ fresh
    /\ bound' = identity /\ enabled' = FALSE /\ due' = "none" /\ fresh' = FALSE

\* Mutant: the queued or running run is not looked at.
rebind_beside_run ==
    /\ rebind_policy
    /\ UNCHANGED <<limit, rows, process, attempt, issued, identity, lane, bounds>>

\* POST /api/connections/rebind/assurance.
Rebind ==
    /\ ActiveRuns = {} /\ rebind_policy
    /\ UNCHANGED <<limit, rows, process, attempt, issued, identity, lane, bounds>>

\* PUT /api/assurance/policy on the same target: any earlier form is out of date.
UpdatePolicy(on, runs, new_interval) ==
    /\ bound = identity
    /\ enabled' = on /\ limit' = runs /\ fresh' = FALSE
    /\ due' = IF ~on THEN "none"
              ELSE IF ~enabled \/ new_interval \/ due = "none" THEN "later" ELSE due
    /\ UNCHANGED <<bound, rows, process, attempt, issued, identity, lane, bounds>>

\* The same request on another target rebinds first and leaves scheduling off.
Retarget(runs) ==
    /\ bound # identity /\ ActiveRuns = {} /\ rebind_policy
    /\ limit' = runs
    /\ UNCHANGED <<rows, process, attempt, issued, identity, lane, bounds>>

OpenForm ==
    /\ ~fresh /\ fresh' = TRUE
    /\ UNCHANGED <<enabled, limit, bound, due, rows, process, attempt, issued, identity,
                   lane, bounds>>

-----------------------------------------------------------------------------
(* Runs made and cancelled by hand. *)

MayCreate == bound = identity /\ ActiveRuns = {} /\ usage_today < limit

enqueue(r) ==
    /\ worker # "off" /\ MayCreate
    /\ create_run(r)
    /\ UNCHANGED <<policy, process, attempt, issued, identity, lane, bounds>>

CancelTask == task_cancel' = (task_cancel \/ task \in {"created"} \cup InFlight)

cancel(r) ==
    /\ worker # "off" /\ r \in ActiveRuns /\ ~cancel_requested[r]
    /\ (task = "created" => EarlyCancel)
    /\ cancel_requested' = [cancel_requested EXCEPT ![r] = TRUE]
    /\ status' = [status EXCEPT ![r] = IF @ = "queued" THEN "cancelled" ELSE @]
    /\ IF r = active THEN CancelTask ELSE UNCHANGED task_cancel
    /\ UNCHANGED <<policy, binding, calls_used, today, process, task, client, calls,
                   issued, identity, lane, bounds>>

-----------------------------------------------------------------------------
(* The process and its worker. *)

start ==
    /\ worker = "off"
    /\ worker' = "loop" /\ stopping' = FALSE
    /\ recover_interrupted
    /\ UNCHANGED <<policy, active, attempt, issued, identity, lane, bounds>>

stop ==
    /\ worker # "off" /\ ~stopping /\ restarts < MaxRestarts
    /\ stopping' = TRUE /\ restarts' = restarts + 1
    /\ CancelTask
    /\ UNCHANGED <<policy, rows, worker, active, task, client, calls, issued, identity,
                   lane, days>>

\* Both gathers of stop() have returned.
Stopped ==
    /\ stopping /\ task \notin {"created"} \cup InFlight
    /\ worker' = "off" /\ active' = NoRun /\ stopping' = FALSE /\ task' = "none"
    /\ UNCHANGED <<policy, rows, task_cancel, client, calls, issued, identity, lane, bounds>>

Die ==
    /\ worker # "off" /\ restarts < MaxRestarts
    /\ worker' = "off" /\ active' = NoRun /\ stopping' = FALSE
    /\ task' = "none" /\ task_cancel' = FALSE /\ lane' = "free"
    /\ restarts' = restarts + 1
    /\ UNCHANGED <<policy, client, calls, issued, identity, days>>

Crash == Die /\ UNCHANGED rows

IsDue == enabled /\ due = "now" /\ ActiveRuns = {}

\* The run due has been committed and its schedule has not been advanced.
CrashInSchedule ==
    /\ worker = "loop" /\ ~stopping /\ IsDue /\ MayCreate
    /\ \E r \in Runs : create_run(r)
    /\ Die

Advance == due' = "later" /\ fresh' = FALSE /\ UNCHANGED <<enabled, limit, bound>>

\* Mutant: the next slot is not computed when the run cannot be queued.
schedule_due_stays ==
    \/ /\ ~IsDue /\ UNCHANGED <<policy, rows>>
    \/ /\ IsDue /\ ~MayCreate /\ UNCHANGED <<policy, rows>>
    \/ /\ IsDue /\ MayCreate
       /\ \E r \in Runs : create_run(r)
       /\ Advance

\* The due slot becomes a queued run, or passes with a notification; either way
\* the next slot is computed.
schedule_due ==
    \/ /\ ~IsDue /\ UNCHANGED <<policy, rows>>
    \/ /\ IsDue /\ ~MayCreate /\ Advance /\ UNCHANGED rows
    \/ /\ IsDue /\ MayCreate
       /\ \E r \in Runs : create_run(r)
       /\ Advance

\* One turn of the loop: what is due, then a task for the queued run, or a rest.
Turn ==
    /\ worker = "loop" /\ ~stopping
    /\ schedule_due
    /\ \/ /\ \E r \in Runs : status'[r] = "queued" /\ active' = r
          /\ worker' = "joining" /\ task' = "created" /\ task_cancel' = FALSE
       \/ /\ \A r \in Runs : status'[r] # "queued"
          /\ worker' = "waiting" /\ UNCHANGED <<active, task, task_cancel>>
    /\ UNCHANGED <<stopping, client, calls, issued, identity, lane, bounds>>

\* The wake event or the poll timeout; after an error, the end of the pause.
Wake ==
    /\ worker \in {"waiting", "sleeping"}
    /\ worker' = "loop"
    /\ UNCHANGED <<policy, rows, active, stopping, attempt, issued, identity, lane, bounds>>

Join ==
    /\ worker = "joining" /\ task \in Over
    /\ CASE task = "finished" -> worker' = "loop" /\ active' = NoRun /\ task' = "none"
         [] task = "raised" -> worker' = "sleeping" /\ UNCHANGED <<active, task>>
         [] task = "killed" -> worker' = "dead" /\ UNCHANGED <<active, task>>
    /\ UNCHANGED <<policy, rows, stopping, task_cancel, client, calls, issued, identity,
                   lane, bounds>>

-----------------------------------------------------------------------------
(* The task: _execute, one action per stretch between suspensions. *)

End(how) == task' = how /\ task_cancel' = FALSE

\* Mark the run running, compare its identity, build the client and report the
\* preflight; the report stores the new client's count, which is zero.
Begin ==
    /\ task = "created"
    /\ IF task_cancel THEN End("killed") /\ UNCHANGED <<rows, client, calls>>
       ELSE IF status[active] # "queued" THEN End("finished") /\ UNCHANGED <<rows, client, calls>>
       ELSE /\ cancel_requested' = [cancel_requested EXCEPT ![active] = FALSE]
            /\ IF binding[active] # identity
               THEN /\ status' = [status EXCEPT ![active] = "connection-blocked"]
                    /\ calls_used' = [calls_used EXCEPT ![active] = 0]
                    /\ End("finished") /\ UNCHANGED <<client, calls>>
               ELSE /\ status' = [status EXCEPT ![active] = "running"]
                    /\ client' = identity /\ calls' = 0
                    /\ \/ task' = "preflight" /\ calls_used' = [calls_used EXCEPT ![active] = 0]
                       \/ FactoryMayRaise /\ task' = "raised" /\ UNCHANGED calls_used
                    /\ UNCHANGED task_cancel
            /\ UNCHANGED <<binding, today>>
    /\ UNCHANGED <<policy, process, issued, identity, lane, bounds>>

\* The preflight is ready and the lane asked for, or the run ends without a call.
Preflight ==
    /\ task = "preflight" /\ ~task_cancel
    /\ \/ task' = "lane" /\ UNCHANGED <<rows, task_cancel>>
       \/ /\ \E final \in {"connection-blocked", "error"} : Close(active, final, 0)
          /\ End("finished")
    /\ UNCHANGED <<policy, process, client, calls, issued, identity, lane, bounds>>

EnterLane ==
    /\ task = "lane" /\ ~task_cancel /\ lane = "free"
    /\ task' = "collecting" /\ lane' = "ours"
    /\ UNCHANGED <<policy, rows, process, task_cancel, client, calls, issued, identity,
                   bounds>>

\* BudgetedSplunkClient.call counts before it delegates, and refuses beyond the
\* limit.  Admission (WorkloadAdmission) reports before anything is sent, and the
\* report stores the count in the row.
call ==
    /\ task = "collecting" /\ ~task_cancel /\ calls < CallBudget
    /\ calls' = calls + 1
    /\ calls_used' = [calls_used EXCEPT ![active] = calls + 1]
    /\ issued' = [issued EXCEPT ![active] = @ + 1]
    /\ UNCHANGED <<policy, status, cancel_requested, binding, today, process, task,
                   task_cancel, client, identity, lane, bounds>>

\* pipeline.run came back or raised; "complete" stands for partial and
\* budget-blocked results too.
Collect ==
    /\ task = "collecting" /\ ~task_cancel
    /\ \E final \in {"complete", "error"} : Close(active, final, calls)
    /\ lane' = "free"
    /\ End("finished")
    /\ UNCHANGED <<policy, process, client, calls, issued, identity, bounds>>

\* Mutant: an interrupted run forgets how many calls it made.
InterruptUncounted ==
    /\ task \in InFlight /\ task_cancel
    /\ IF cancel_requested[active] THEN Close(active, "cancelled", 0)
                                   ELSE requeue_for_restart(active)
    /\ lane' = (IF task = "collecting" THEN "free" ELSE lane)
    /\ End("finished")
    /\ UNCHANGED <<policy, process, client, calls, issued, identity, bounds>>

\* The CancelledError handler: an operator's cancellation is final, a shutdown's
\* puts the run back in the queue.
Interrupt ==
    /\ task \in InFlight /\ task_cancel
    /\ IF cancel_requested[active] THEN Close(active, "cancelled", calls)
                                   ELSE requeue_for_restart(active)
    /\ lane' = (IF task = "collecting" THEN "free" ELSE lane)
    /\ End("finished")
    /\ UNCHANGED <<policy, process, client, calls, issued, identity, bounds>>

-----------------------------------------------------------------------------
(* Around the service: the clock, the registry and the other lane users. *)

Tick ==
    /\ due = "later" /\ due' = "now"
    /\ UNCHANGED <<enabled, limit, bound, fresh, rows, process, attempt, issued, identity,
                   lane, bounds>>

NewDay ==
    /\ days < MaxDays /\ days' = days + 1
    /\ today' = {}
    /\ UNCHANGED <<policy, status, cancel_requested, binding, calls_used, process, attempt,
                   issued, identity, lane, restarts>>

Reconnect ==
    /\ \E i \in Identities \ {identity} : identity' = i
    /\ UNCHANGED <<policy, rows, process, attempt, issued, lane, bounds>>

OthersTake ==
    /\ lane = "free" /\ lane' = "theirs"
    /\ UNCHANGED <<policy, rows, process, attempt, issued, identity, bounds>>

OthersFree ==
    /\ lane = "theirs" /\ lane' = "free"
    /\ UNCHANGED <<policy, rows, process, attempt, issued, identity, bounds>>

Worker == Turn \/ Wake \/ Join
Task == Begin \/ Preflight \/ Collect \/ Interrupt

Next ==
    \/ \E on, new_interval \in BOOLEAN, runs \in Limits : UpdatePolicy(on, runs, new_interval)
    \/ \E runs \in Limits : Retarget(runs)
    \/ Rebind \/ OpenForm
    \/ \E r \in Runs : enqueue(r) \/ cancel(r)
    \/ start \/ stop \/ Stopped \/ Crash \/ CrashInSchedule
    \/ Worker \/ Task \/ EnterLane \/ call
    \/ Tick \/ NewDay \/ Reconnect \/ OthersTake \/ OthersFree

Spec == Init /\ [][Next]_vars

\* The event loop runs what is ready, preflights, collections and polls time out,
\* the lane's other users finish and its lock is first come first served.  The
\* service that was stopped is assumed to be started again.
FairSpec ==
    /\ Spec
    /\ WF_vars(Worker) /\ WF_vars(Task) /\ SF_vars(EnterLane)
    /\ WF_vars(start) /\ WF_vars(Stopped) /\ WF_vars(OthersFree)

-----------------------------------------------------------------------------
(* Properties. *)

\* A change of target never passes a run on its way: what is queued or running
\* was created for the connection the policy is bound to now.
ActiveRunsFollowPolicy == \A r \in ActiveRuns : binding[r] = bound

\* Nothing is scheduled while the policy is off, and an active policy always has
\* a next slot: a pause or a change of target is not undone by a late advance.
ScheduledIffEnabled == enabled <=> due # "none"

\* The client a run works with was built for the connection of the run.
CollectsAsBound == task \in InFlight => client = binding[active]

\* "A maximum number of runs per UTC day": a run is created only while fewer
\* than the limit of the runs created this day have called Splunk, as long as no
\* restart has retried a run (a retry overwrites the calls of the first attempt).
DailyLimitHolds ==
    [][\A r \in Runs : restarts = 0 /\ status[r] = "none" /\ status'[r] = "queued" =>
           Cardinality({s \in today : issued[s] > 0}) < limit]_vars

\* The run table implements what DurableRuns promises.
Promise == INSTANCE DurableRuns WITH
    phase <- [r \in Runs |-> IF status[r] \in Finished \ {"cancelled"} THEN "ended" ELSE status[r]],
    cancelling <- {r \in Runs : cancel_requested[r]}

\* A step of the service is a step of a durable run service or none at all:
\* one run at a time, retried after an interruption, never after a cancellation.
KeepsPromise == Promise!Spec

\* What liveness rests on: from some time on the worker is there, and no run marked
\* running is left without a task.
WorkerSurvives == <>[](task # "raised" /\ worker # "dead")

\* The schedule goes on: a slot that is due does not stay due for ever.
ScheduleGoesOn ==
    WorkerSurvives =>
        ((enabled /\ due = "now") ~> (due # "now" \/ \A r \in Runs : status[r] # "none"))

=============================================================================
