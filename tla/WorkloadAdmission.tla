---------------------------- MODULE WorkloadAdmission ----------------------------
(***************************************************************************)
(* The shared Splunk admission controller of one instance:                 *)
(* workload/service.py over workload/store.py.                             *)
(*                                                                         *)
(* A caller is one invocation of WorkloadControlledSplunkClient.call.  It  *)
(* creates a ledger row, is assessed, waits on an asyncio.Condition for a  *)
(* slot, calls Splunk and gives the slot back.  Coroutines interleave only *)
(* where one suspends, so the code between two suspension points is one    *)
(* action.  The condition's lock is seen held only when asyncio.wait_for   *)
(* runs Condition.wait in an inner task (CPython 3.11; InnerWaitTask): the *)
(* inner task returns holding the lock and the caller resumes later.  From *)
(* CPython 3.12 on no suspension point falls inside a critical section.    *)
(***************************************************************************)
EXTENDS Integers, Sequences, FiniteSets, FiniteSetsExt

CONSTANTS
    Callers,         \* calls made through the wrapped client, each once
    Queries,         \* those on the run_query lane; the others are metadata
    Unsafe,          \* queries the read-only guardrail rejects
    Cost,            \* estimated_cost_units of every caller
    Risk,            \* score of every caller
    Policies,        \* the policies an administrator may install
    Free,            \* no caller: the condition's lock is not held
    HistoryLimit,    \* rows kept by create_event, 5000 in the code
    InnerWaitTask,   \* wait_for runs the wait in a task of its own (CPython 3.11)
    ReportMayRaise,  \* the progress callback can fail or signal cancellation
    CallersCancel,   \* the task that awaits a call may be cancelled
    MaxGeneration,   \* bound on policy updates
    MaxRestarts,     \* bound on process restarts
    MaxDays          \* bound on UTC midnights

ASSUME CallersAssumption ==
    /\ IsFiniteSet(Callers) /\ Free \notin Callers
    /\ Queries \subseteq Callers /\ Unsafe \subseteq Queries
    /\ Cost \in [Callers -> Nat] /\ Risk \in [Callers -> Nat]
    /\ \A c \in Callers \ Queries : Cost[c] = 0 /\ Risk[c] = 0

PolicyType ==
    [mode : {"audit", "enforce"},
     max_concurrent_calls : Nat \ {0}, max_concurrent_queries : Nat \ {0},
     max_query_risk_score : Nat, max_query_cost_units : Nat,
     daily_query_cost_units : Nat]

ASSUME BoundsAssumption ==
    /\ Policies \subseteq PolicyType /\ Policies # {}
    /\ HistoryLimit \in Nat \ {0}
    /\ InnerWaitTask \in BOOLEAN /\ ReportMayRaise \in BOOLEAN /\ CallersCancel \in BOOLEAN
    /\ MaxGeneration \in Nat /\ MaxRestarts \in Nat /\ MaxDays \in Nat

VARIABLES
    policy,                 \* the row of workload_policy
    generation,             \* its generation column
    event,                  \* status of the caller's workload_events row
    history,                \* the retained rows, oldest first
    yesterday,              \* callers whose row was created before today
    active_calls, active_queries, queued_calls, queued_queries,
    reserved_query_units,   \* the five counters of _InstanceState
    lock,                   \* holder of the condition's lock
    notifying,              \* update_policy has stored but not yet notified
    pc,                     \* where each caller is
    reason,                 \* why a parked caller wakes
    sent,                   \* callers whose client.call was issued today
    restarts, days

ledger == <<event, history, yesterday>>
counters == <<active_calls, active_queries, queued_calls, queued_queries, reserved_query_units>>
bounds == <<restarts, days>>
vars == <<policy, generation, ledger, counters, lock, notifying, pc, reason, sent, bounds>>

Statuses == {"none", "queued", "running", "complete", "error", "cancelled", "blocked", "interrupted"}
Places == {"idle", "admitting", "waiting", "waking", "woken", "running", "releasing", "done"}

TypeOK ==
    /\ policy \in Policies /\ generation \in Nat
    /\ event \in [Callers -> Statuses]
    /\ history \in Seq(Callers) /\ yesterday \subseteq Callers
    /\ active_calls \in Nat /\ active_queries \in Nat
    /\ queued_calls \in Int /\ queued_queries \in Int   \* the code does not clamp an admission
    /\ reserved_query_units \in Nat
    /\ lock \in Callers \cup {Free} /\ notifying \in BOOLEAN
    /\ pc \in [Callers -> Places]
    /\ reason \in [Callers -> {"resume", "timeout", "cancelled"}]
    /\ sent \subseteq Callers
    /\ restarts \in Nat /\ days \in Nat

-----------------------------------------------------------------------------
(* Arithmetic and ledger helpers. *)

Monus(a, b) == IF a >= b THEN a - b ELSE 0
QueryUnit(c) == IF c \in Queries THEN 1 ELSE 0
CostOf(S) == MapThenSumSet(LAMBDA c : Cost[c], S)

\* create_event: append the row, keep the newest HistoryLimit rows.
Appended(c) ==
    LET h == Append(history, c)
    IN  IF Len(h) > HistoryLimit THEN Tail(h) ELSE h

Retained(h) == {h[i] : i \in 1 .. Len(h)}

\* Mutant: a call that ended in an error is not charged.
DailyUsageSkipsErrors(h) ==
    CostOf({c \in (Retained(h) \cap Queries) \ yesterday :
                event[c] \in {"complete", "interrupted"}})

\* daily_usage over the rows h: what ran to an end today and was not cancelled.
daily_usage(h) ==
    CostOf({c \in (Retained(h) \cap Queries) \ yesterday :
                event[c] \in {"complete", "error", "interrupted"}})

\* Mutant: units reserved by running queries are not added.
OverThresholdIgnoresReserved(c, h) ==
    \/ Risk[c] > policy.max_query_risk_score
    \/ Cost[c] > policy.max_query_cost_units
    \/ daily_usage(h) + Cost[c] > policy.daily_query_cost_units

\* The three thresholds that enforce mode turns into a block.
OverThreshold(c, h) ==
    \/ Risk[c] > policy.max_query_risk_score
    \/ Cost[c] > policy.max_query_cost_units
    \/ daily_usage(h) + reserved_query_units + Cost[c] > policy.daily_query_cost_units

Governed(c, h) == c \in Queries /\ policy.mode = "enforce" /\ OverThreshold(c, h)

\* Mutant: off by one at the call limit.
ReadyAtLimit(c) ==
    /\ active_calls <= policy.max_concurrent_calls
    /\ c \in Queries => active_queries < policy.max_concurrent_queries

Ready(c) ==
    /\ active_calls < policy.max_concurrent_calls
    /\ c \in Queries => active_queries < policy.max_concurrent_queries

\* Mutant: notify() instead of notify_all().
WakeOne(p) ==
    LET asleep == {c \in Callers : p[c] = "waiting"}
    IN  IF asleep = {} THEN p ELSE [p EXCEPT ![CHOOSE c \in asleep : TRUE] = "waking"]

Wake(p) == [c \in Callers |-> IF p[c] = "waiting" THEN "waking" ELSE p[c]]

-----------------------------------------------------------------------------
(* One pass of the loop of _admit, made while holding the lock.  qc and qq *)
(* are the queue counters with this caller in them and h the rows its      *)
(* usage query sees; the pass ends with the lock free.                     *)

\* The except BaseException branch, and the row call() writes for it.
Leave(c, status, qc, qq) ==
    /\ queued_calls' = Monus(qc, 1)
    /\ queued_queries' = Monus(qq, QueryUnit(c))
    /\ event' = [event EXCEPT ![c] = status]
    /\ pc' = [pc EXCEPT ![c] = "done"]
    /\ UNCHANGED sent

TakeSlot(c) ==
    /\ active_calls' = active_calls + 1
    /\ active_queries' = active_queries + QueryUnit(c)
    /\ reserved_query_units' = reserved_query_units + Cost[c]

KeepSlots == UNCHANGED <<active_calls, active_queries, reserved_query_units>>

Refuse(c, h, qc, qq) ==
    Governed(c, h) /\ KeepSlots /\ Leave(c, "blocked", qc, qq)

\* Admission: the slot is taken, the row runs and the call goes to Splunk.
Admit(c, h, qc, qq) ==
    /\ ~Governed(c, h) /\ Ready(c)
    /\ TakeSlot(c)
    /\ queued_calls' = qc - 1 /\ queued_queries' = qq - QueryUnit(c)
    /\ event' = [event EXCEPT ![c] = "running"]
    /\ pc' = [pc EXCEPT ![c] = "running"]
    /\ sent' = sent \cup {c}

\* The admitted report raises after the counters moved: call() never sees
\* admitted = True, so nobody will release, and the caller is dequeued twice.
AdmitReportFails(c, h, qc, qq) ==
    /\ ReportMayRaise /\ ~Governed(c, h) /\ Ready(c)
    /\ TakeSlot(c)
    /\ \E status \in {"error", "cancelled"} :
           Leave(c, status, qc - 1, qq - QueryUnit(c))

Park(c, h, qc, qq) ==
    /\ ~Governed(c, h) /\ ~Ready(c) /\ KeepSlots
    /\ queued_calls' = qc /\ queued_queries' = qq
    /\ event' = [event EXCEPT ![c] = "queued"]
    /\ pc' = [pc EXCEPT ![c] = "waiting"]
    /\ UNCHANGED sent

\* A caller leaves instead of parking: its first queue report raises, or its
\* timeout is already used up on a later pass.
NoPark(c, h, qc, qq, statuses) ==
    /\ ~Governed(c, h) /\ ~Ready(c) /\ KeepSlots
    /\ \E status \in statuses : Leave(c, status, qc, qq)

Decide(c, h, qc, qq, statuses) ==
    /\ \/ Refuse(c, h, qc, qq)
       \/ Admit(c, h, qc, qq)
       \/ AdmitReportFails(c, h, qc, qq)
       \/ Park(c, h, qc, qq)
       \/ NoPark(c, h, qc, qq, statuses)
    /\ lock' = Free
    /\ reason' = [reason EXCEPT ![c] = "resume"]

FirstPass(c, h) ==
    Decide(c, h, queued_calls + 1, queued_queries + QueryUnit(c),
           IF ReportMayRaise THEN {"error", "cancelled"} ELSE {})

-----------------------------------------------------------------------------
(* The caller. *)

\* call(): assess, write the row, then enter the queue unless blocked; the
\* lock is taken without suspending when it is free.
Call(c) ==
    /\ pc[c] = "idle"
    /\ history' = Appended(c)
    /\ IF c \in Unsafe \/ Governed(c, history)
       THEN /\ event' = [event EXCEPT ![c] = "blocked"]
            /\ pc' = [pc EXCEPT ![c] = "done"]
            /\ UNCHANGED <<counters, lock, reason, sent>>
       ELSE IF lock = Free
       THEN FirstPass(c, Appended(c))
       ELSE /\ event' = [event EXCEPT ![c] = "queued"]
            /\ pc' = [pc EXCEPT ![c] = "admitting"]
            /\ UNCHANGED <<counters, lock, reason, sent>>
    /\ UNCHANGED <<policy, generation, yesterday, notifying, bounds>>

\* The contended first acquisition of the lock.
Enter(c) ==
    /\ pc[c] = "admitting" /\ lock = Free
    /\ FirstPass(c, history)
    /\ UNCHANGED <<policy, generation, history, yesterday, notifying, bounds>>

\* The timeout of wait_for fires, or the awaiting task is cancelled, before the
\* wait has returned; the caller must still take the lock again.
GiveUp(c, why) ==
    /\ pc[c] \in {"waiting", "waking"} /\ reason[c] = "resume"
    /\ reason' = [reason EXCEPT ![c] = why]
    /\ pc' = [pc EXCEPT ![c] = "waking"]
    /\ UNCHANGED <<policy, generation, ledger, counters, lock, notifying, sent, bounds>>

\* CPython 3.11: the inner task takes the lock one loop turn before the caller runs.
Acquire(c) ==
    /\ InnerWaitTask /\ pc[c] = "waking" /\ lock = Free
    /\ lock' = c
    /\ pc' = [pc EXCEPT ![c] = "woken"]
    /\ UNCHANGED <<policy, generation, ledger, counters, notifying, reason, sent, bounds>>

HasLock(c) ==
    IF InnerWaitTask THEN pc[c] = "woken" /\ lock = c
                     ELSE pc[c] = "waking" /\ lock = Free

\* The wait returned normally: another pass of the loop.
Resume(c) ==
    /\ HasLock(c) /\ reason[c] = "resume"
    /\ Decide(c, history, queued_calls, queued_queries, {"blocked"})
    /\ UNCHANGED <<policy, generation, history, yesterday, notifying, bounds>>

\* Mutants: call() releases although it was never admitted, clamped or not.
AbandonReleases(c) ==
    /\ HasLock(c) /\ reason[c] # "resume"
    /\ active_calls' = Monus(active_calls, 1)
    /\ UNCHANGED <<active_queries, reserved_query_units>>
    /\ Leave(c, "blocked", queued_calls, queued_queries)
    /\ lock' = Free
    /\ reason' = [reason EXCEPT ![c] = "resume"]
    /\ UNCHANGED <<policy, generation, history, yesterday, notifying, bounds>>

\* The wait raised: WorkloadQueueTimeout or CancelledError.
Abandon(c) ==
    /\ HasLock(c) /\ reason[c] # "resume"
    /\ KeepSlots
    /\ Leave(c, IF reason[c] = "timeout" THEN "blocked" ELSE "cancelled",
             queued_calls, queued_queries)
    /\ lock' = Free
    /\ reason' = [reason EXCEPT ![c] = "resume"]
    /\ UNCHANGED <<policy, generation, history, yesterday, notifying, bounds>>

\* Cancelled while it waits for the lock to enter the queue: not counted yet.
CancelBeforeEntry(c) ==
    /\ CallersCancel /\ pc[c] = "admitting"
    /\ event' = [event EXCEPT ![c] = "cancelled"]
    /\ pc' = [pc EXCEPT ![c] = "done"]
    /\ UNCHANGED <<policy, generation, history, yesterday, counters, lock, notifying, reason,
                   sent, bounds>>

\* Mutant: the slot is given back without notifying anyone.
GiveSlotBackSilently(c) ==
    /\ active_calls' = Monus(active_calls, 1)
    /\ active_queries' = Monus(active_queries, QueryUnit(c))
    /\ reserved_query_units' = Monus(reserved_query_units, Cost[c])
    /\ pc' = [pc EXCEPT ![c] = "done"]
    /\ UNCHANGED <<queued_calls, queued_queries>>

\* _release: give back the slot and wake every waiter.
GiveSlotBack(c) ==
    /\ active_calls' = Monus(active_calls, 1)
    /\ active_queries' = Monus(active_queries, QueryUnit(c))
    /\ reserved_query_units' = Monus(reserved_query_units, Cost[c])
    /\ pc' = Wake([pc EXCEPT ![c] = "done"])
    /\ UNCHANGED <<queued_calls, queued_queries>>

\* Splunk answered, failed or the caller was cancelled: the row is closed first.
Finish(c, status) ==
    /\ pc[c] = "running"
    /\ event' = [event EXCEPT ![c] = status]
    /\ IF lock = Free
       THEN GiveSlotBack(c)
       ELSE pc' = [pc EXCEPT ![c] = "releasing"] /\ UNCHANGED counters
    /\ UNCHANGED <<policy, generation, history, yesterday, lock, notifying, reason, sent, bounds>>

Release(c) ==
    /\ pc[c] = "releasing" /\ lock = Free
    /\ GiveSlotBack(c)
    /\ UNCHANGED <<policy, generation, ledger, lock, notifying, reason, sent, bounds>>

\* Cancelled while _release waits for the lock: the slot is never given back.
AbandonRelease(c) ==
    /\ CallersCancel /\ pc[c] = "releasing"
    /\ pc' = [pc EXCEPT ![c] = "done"]
    /\ UNCHANGED <<policy, generation, ledger, counters, lock, notifying, reason, sent, bounds>>

-----------------------------------------------------------------------------
(* The administrator, the clock and the process. *)

\* update_policy: store, then notify each instance in turn.  The notification
\* is late when the lock of this instance, or of an earlier one, is held.
UpdatePolicy(p) ==
    /\ generation < MaxGeneration
    /\ policy' = p
    /\ generation' = generation + 1
    /\ \/ lock = Free /\ pc' = Wake(pc) /\ UNCHANGED notifying
       \/ InnerWaitTask /\ notifying' = TRUE /\ UNCHANGED pc
    /\ UNCHANGED <<ledger, counters, lock, reason, sent, bounds>>

NotifyPolicy ==
    /\ notifying /\ lock = Free
    /\ notifying' = FALSE
    /\ pc' = Wake(pc)
    /\ UNCHANGED <<policy, generation, ledger, counters, lock, reason, sent, bounds>>

\* UTC midnight: daily_usage selects rows by their creation date.
NewDay ==
    /\ days < MaxDays
    /\ days' = days + 1
    /\ yesterday' = {c \in Callers : event[c] # "none"}
    /\ sent' = {}
    /\ UNCHANGED <<policy, generation, event, history, counters, lock, notifying, pc, reason,
                   restarts>>

\* The process dies and starts again: recover_interrupted closes open rows, the
\* counters start at zero, and the calls in flight are gone.
Restart ==
    /\ restarts < MaxRestarts
    /\ restarts' = restarts + 1
    /\ event' = [c \in Callers |-> IF event[c] \in {"queued", "running"}
                                   THEN "interrupted" ELSE event[c]]
    /\ active_calls' = 0 /\ active_queries' = 0
    /\ queued_calls' = 0 /\ queued_queries' = 0 /\ reserved_query_units' = 0
    /\ lock' = Free /\ notifying' = FALSE
    /\ pc' = [c \in Callers |-> IF pc[c] = "idle" THEN "idle" ELSE "done"]
    /\ reason' = [c \in Callers |-> "resume"]
    /\ UNCHANGED <<policy, generation, history, yesterday, sent, days>>

-----------------------------------------------------------------------------
Init ==
    /\ policy \in Policies /\ generation = 1
    /\ event = [c \in Callers |-> "none"] /\ history = <<>> /\ yesterday = {}
    /\ active_calls = 0 /\ active_queries = 0
    /\ queued_calls = 0 /\ queued_queries = 0 /\ reserved_query_units = 0
    /\ lock = Free /\ notifying = FALSE
    /\ pc = [c \in Callers |-> "idle"]
    /\ reason = [c \in Callers |-> "resume"]
    /\ sent = {} /\ restarts = 0 /\ days = 0

\* Every caller is through: the system may rest.
Quiescent == (\A c \in Callers : pc[c] = "done") /\ UNCHANGED vars

Outcomes == {"complete", "error"} \cup (IF CallersCancel THEN {"cancelled"} ELSE {})

Step(c) ==
    \/ Call(c) \/ Enter(c) \/ Acquire(c) \/ Resume(c) \/ Abandon(c)
    \/ GiveUp(c, "timeout")
    \/ CallersCancel /\ GiveUp(c, "cancelled")
    \/ \E status \in Outcomes : Finish(c, status)
    \/ Release(c) \/ CancelBeforeEntry(c) \/ AbandonRelease(c)

Next ==
    \/ \E c \in Callers : Step(c)
    \/ \E p \in Policies : UpdatePolicy(p)
    \/ NotifyPolicy
    \/ NewDay
    \/ Restart
    \/ Quiescent

Spec == Init /\ [][Next]_vars

\* The event loop runs every ready coroutine, and the MCP client bounds every
\* call with a timeout, so a running call ends.  No timeout has to fire.
Fairness ==
    /\ \A c \in Callers :
           /\ WF_vars(Enter(c)) /\ WF_vars(Acquire(c))
           /\ WF_vars(Resume(c)) /\ WF_vars(Abandon(c))
           /\ WF_vars(\E status \in Outcomes : Finish(c, status))
           /\ WF_vars(Release(c))
    /\ WF_vars(NotifyPolicy)

FairSpec == Spec /\ Fairness
-----------------------------------------------------------------------------
(* Properties. *)

Holders == {c \in Callers : pc[c] \in {"running", "releasing"}}
Begins(c) == pc[c] # "running" /\ pc'[c] = "running"

\* Every call that is in flight at Splunk, or that still owes its release, is
\* covered by the counters: they may leak capacity, never lend it twice.
SlotsCovered ==
    /\ Cardinality(Holders) <= active_calls
    /\ Cardinality(Holders \cap Queries) <= active_queries

\* No caller sleeps in the condition while there is room for it: each release
\* and each policy change reaches it, or a notification is still on its way.
NoLostWakeup ==
    notifying \/ \A c \in Callers : pc[c] = "waiting" => ~Ready(c)

\* Units issued to Splunk today are always somewhere in the sum the budget is
\* checked against, as usage or as reservation, across restarts as well; units
\* of cancelled calls and of rows created before midnight are not in it.
Charged == {c \in (sent \cap Queries) \ yesterday : event[c] # "cancelled"}
LedgerCoversSent == CostOf(Charged) <= daily_usage(history) + reserved_query_units

\* A call only goes to Splunk when the calls then in flight, itself included,
\* fit the limits of the policy in force at that moment, not of the one it
\* queued under.
AdmissionRespectsLimits ==
    [][\A c \in Callers : Begins(c) =>
           /\ Cardinality(Holders') <= policy.max_concurrent_calls
           /\ c \in Queries =>
                  Cardinality(Holders' \cap Queries) <= policy.max_concurrent_queries]_vars

\* A query that begins in enforce mode is within the risk and cost thresholds
\* of the policy in force, and what has been issued today stays within its
\* daily budget.
AdmittedUnderCurrentPolicy ==
    [][\A c \in Queries : (Begins(c) /\ policy.mode = "enforce") =>
           /\ Risk[c] <= policy.max_query_risk_score
           /\ Cost[c] <= policy.max_query_cost_units
           /\ CostOf(Charged') <= policy.daily_query_cost_units]_vars

\* Without any timeout a queued call still gets its turn or its refusal.
QueueDrains ==
    \A c \in Callers :
        pc[c] \in {"admitting", "waiting", "waking", "woken"} ~>
            pc[c] \in {"running", "releasing", "done"}

\* What service.py:171 promises of audit mode, that only bursts are held back:
\* with nothing in flight the counters are back at zero.
CapacityReturned == Holders = {} => active_calls = 0
=============================================================================
