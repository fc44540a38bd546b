---------------------------- MODULE ValidationQueue ----------------------------
(***************************************************************************)
(* The validation queue: validation/service.py over validation/store.py.   *)
(*                                                                         *)
(* One task row, and the requests in progress on it.  A request suspends   *)
(* only while it waits for Splunk: in the preflight, where a check, an     *)
(* approval and an execution may all be, and in the query of an execution. *)
(* Between two suspensions a handler is atomic, so every action starts     *)
(* where a request resumes and ends where it suspends or returns.  The row *)
(* survives a restart, the requests do not.                                *)
(*                                                                         *)
(* A contract is what the query fingerprint covers: SPL, window, row limit.*)
(***************************************************************************)
EXTENDS Naturals

CONSTANTS
    Requests,         \* slots for HTTP requests on the task
    Contracts,        \* contracts an analyst may write
    NoContract,       \* no usable receipt, no result
    OverlappingRuns,  \* a second run request may arrive while one is in progress
    MaxRestarts       \* bound on process restarts

ASSUME QueueAssumption ==
    /\ NoContract \notin Contracts
    /\ OverlappingRuns \in BOOLEAN
    /\ MaxRestarts \in Nat

VARIABLES
    status, contract,  \* columns of validation_tasks; status "none": deleted
    receipt,   \* the contract whose preflight receipt the row holds, if it was not blocked
    result,    \* the contract whose query produced the artifact the row points to
    due,       \* expires_at has passed
    blessed,   \* history: an analyst approved the row since it was last edited
    pc,        \* where each request is
    taken,     \* the contract each request read when it last looked at the row
    restarts

row == <<status, contract, receipt, result, blessed>>
requests == <<pc, taken>>
vars == <<row, due, requests, restarts>>

Editable == {"draft", "error"}
Unexecuted == Editable \cup {"approved"}
Waiting == {"checking", "approving", "preparing"}
Running == {"preparing", "query"}

TypeOK ==
    /\ status \in Unexecuted \cup {"none", "running", "complete", "expired"}
    /\ contract \in Contracts
    /\ receipt \in Contracts \cup {NoContract}
    /\ result \in Contracts \cup {NoContract}
    /\ due \in BOOLEAN /\ blessed \in BOOLEAN
    /\ pc \in [Requests -> {"idle", "query"} \cup Waiting]
    /\ taken \in [Requests -> Contracts]
    /\ restarts \in Nat

Init ==
    /\ status = "draft" /\ contract \in Contracts
    /\ receipt = NoContract /\ result = NoContract
    /\ due = FALSE /\ blessed = FALSE
    /\ pc = [r \in Requests |-> "idle"]
    /\ taken = [r \in Requests |-> contract]
    /\ restarts = 0

-----------------------------------------------------------------------------
(* The store. *)

\* What expire_due leaves of a row in status s.
Expired(s) == IF due /\ s \in Unexecuted THEN "expired" ELSE s

\* get, mark_running and the others run expire_due before they read the row.
Current == Expired(status)

\* A write that names no status to leave finds the row unless it was deleted;
\* the get that follows it runs expire_due once more.
Overwrite(s) == status' = IF status = "none" THEN "none" ELSE Expired(s)

\* set_preflight writes a receipt on an unexecuted row only.
set_preflight(answer) ==
    /\ Current \in Unexecuted
    /\ receipt' = answer

\* requeue_interrupted names no status to leave: whatever is there is approved again.
requeue_interrupted == Overwrite("approved")

\* recover_interrupted, then expire_due.
recover_interrupted == status' = Expired(IF status = "running" THEN "approved" ELSE status)

-----------------------------------------------------------------------------
(* Requests. *)

Enter(r, place) ==
    /\ pc' = [pc EXCEPT ![r] = place]
    /\ taken' = [taken EXCEPT ![r] = contract]

Return(r) ==
    /\ pc' = [pc EXCEPT ![r] = "idle"]
    /\ UNCHANGED taken

\* Mutant: approved and running tasks may be edited, and keep their status.
editInPlace(c) ==
    /\ Current \in Unexecuted \cup {"running"} /\ contract' = c
    /\ status' = Current /\ receipt' = NoContract /\ result' = NoContract /\ blessed' = FALSE
    /\ UNCHANGED <<due, requests, restarts>>

\* update: the task is a draft again, whatever field was edited.
edit(c) ==
    /\ Current \in Editable
    /\ contract' = c
    /\ status' = "draft" /\ receipt' = NoContract /\ result' = NoContract
    /\ blessed' = FALSE
    /\ UNCHANGED <<due, requests, restarts>>

delete ==
    /\ Current \notin {"none", "running"}
    /\ status' = "none"
    /\ UNCHANGED <<contract, receipt, result, blessed, due, requests, restarts>>

\* The preflight of its own: it runs in any status and is refused at the end.
check(r) ==
    /\ pc[r] = "idle" /\ Current # "none"
    /\ status' = Current
    /\ Enter(r, "checking")
    /\ UNCHANGED <<contract, receipt, result, blessed, due, restarts>>

GrantApproval ==
    /\ Current \in Unexecuted
    /\ status' = "approved" /\ blessed' = TRUE

\* Without a current receipt the approval first waits for a preflight.
approve(r) ==
    /\ pc[r] = "idle" /\ Current # "none"
    /\ \/ receipt = contract /\ GrantApproval /\ UNCHANGED requests
       \/ receipt # contract /\ status' = Current /\ Enter(r, "approving") /\ UNCHANGED blessed
    /\ UNCHANGED <<contract, receipt, result, due, restarts>>

execute(r) ==
    /\ pc[r] = "idle"
    /\ OverlappingRuns \/ \A q \in Requests : pc[q] \notin Running
    /\ Current = "approved"
    /\ Enter(r, "preparing")
    /\ UNCHANGED <<row, due, restarts>>

-----------------------------------------------------------------------------
(* The preflight answers. *)

\* The receipt is of the contract read before the preflight, blocked or not.
Checked(r) ==
    /\ pc[r] = "checking"
    /\ \/ \E answer \in {taken[r], NoContract} : set_preflight(answer)
       \/ Current \notin Unexecuted /\ UNCHANGED receipt
    /\ status' = Current
    /\ Return(r)
    /\ UNCHANGED <<contract, result, blessed, due, restarts>>

\* approve() approves the contract the row holds by then.
Approved(r) ==
    /\ pc[r] = "approving"
    /\ \/ set_preflight(taken[r]) /\ GrantApproval
       \/ set_preflight(NoContract) /\ status' = Current /\ UNCHANGED blessed
       \/ Current \notin Unexecuted /\ status' = Current /\ UNCHANGED <<receipt, blessed>>
    /\ Return(r)
    /\ UNCHANGED <<contract, result, due, restarts>>

\* Mutant: the execution starts on the receipt the row already has.
MarkRunningUnchecked(r) ==
    /\ pc[r] = "preparing" /\ Current = "approved"
    /\ status' = "running" /\ Enter(r, "query")
    /\ UNCHANGED <<contract, receipt, result, blessed, due, restarts>>

\* mark_running takes an approved row only; the receipt is written either way.
MarkRunning(r) ==
    /\ pc[r] = "preparing"
    /\ set_preflight(taken[r])
    /\ \/ Current = "approved" /\ status' = "running" /\ Enter(r, "query")
       \/ Current # "approved" /\ status' = Current /\ Return(r)
    /\ UNCHANGED <<contract, result, blessed, due, restarts>>

\* Blocked, refused or raised: the handler writes error over whatever is there.
PreflightFails(r) ==
    /\ pc[r] = "preparing"
    /\ \/ set_preflight(NoContract)
       \/ UNCHANGED receipt
    /\ Overwrite("error")
    /\ Return(r)
    /\ UNCHANGED <<contract, result, blessed, due, restarts>>

\* The client hangs up: a CancelledError passes through without a write.
HangUp(r) ==
    /\ pc[r] \in Waiting
    /\ Return(r)
    /\ UNCHANGED <<row, due, restarts>>

-----------------------------------------------------------------------------
(* The query answers. *)

\* complete() takes a running row only; otherwise the assertion fails.
Completed(r) ==
    /\ pc[r] = "query"
    /\ \/ status = "running" /\ status' = "complete" /\ result' = taken[r]
       \/ status # "running" /\ Overwrite("error") /\ UNCHANGED result
    /\ Return(r)
    /\ UNCHANGED <<contract, receipt, blessed, due, restarts>>

QueryFails(r) ==
    /\ pc[r] = "query"
    /\ Overwrite("error")
    /\ Return(r)
    /\ UNCHANGED <<contract, receipt, result, blessed, due, restarts>>

QueryCancelled(r) ==
    /\ pc[r] = "query"
    /\ requeue_interrupted
    /\ Return(r)
    /\ UNCHANGED <<contract, receipt, result, blessed, due, restarts>>

-----------------------------------------------------------------------------
(* Time and the process. *)

PastExpiry ==
    /\ ~due /\ due' = TRUE
    /\ UNCHANGED <<row, requests, restarts>>

\* Any listing or refused request.
expire_due ==
    /\ Current # status /\ status' = Current
    /\ UNCHANGED <<contract, receipt, result, blessed, due, requests, restarts>>

Restart ==
    /\ restarts < MaxRestarts /\ restarts' = restarts + 1
    /\ recover_interrupted
    /\ pc' = [r \in Requests |-> "idle"]
    /\ UNCHANGED <<contract, receipt, result, blessed, due, taken>>

Next ==
    \/ \E c \in Contracts : edit(c)
    \/ \E r \in Requests : \/ check(r) \/ approve(r) \/ execute(r)
                           \/ Checked(r) \/ Approved(r)
                           \/ MarkRunning(r) \/ PreflightFails(r) \/ HangUp(r)
                           \/ Completed(r) \/ QueryFails(r) \/ QueryCancelled(r)
    \/ delete \/ PastExpiry \/ expire_due \/ Restart

Spec == Init /\ [][Next]_vars

-----------------------------------------------------------------------------
(* Properties. *)

\* A row that may run, or runs, was approved by an analyst after its last edit:
\* no late answer, cancellation or restart revives an approval that an edit reset.
ApprovalIsCurrent == status \in {"approved", "running"} => blessed

\* What runs is what the preflight of this very execution looked at, although the
\* row may have been edited, approved and checked while requests waited.
RunsAsPreflighted == status = "running" => receipt = contract

\* The evidence a complete task points to was produced by the contract it shows.
ResultIsOfContract == status = "complete" => result = contract

\* A task shown as running has a request that waits for its query: nobody else
\* would ever move it on, and it can be neither edited, approved nor deleted.
RunningHasRun == status = "running" => \E r \in Requests : pc[r] = "query"

\* Preserved evidence stays: once complete, a task can only be deleted.
CompleteIsFinal == [][status = "complete" => status' \in {"complete", "none"}]_vars

\* After its expiry an unexecuted task is neither approved nor run, be it through a
\* preflight that straddles the expiry, an interrupted query or a restart.
ExpiryCloses == [][due /\ status' \in {"approved", "running"} => status' = status]_vars

=============================================================================
