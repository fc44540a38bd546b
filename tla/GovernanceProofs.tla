---------------------------- MODULE GovernanceProofs ----------------------------
(***************************************************************************)
(* Theorems about what governs an installation: the queue of validations,  *)
(* the signals and packages of assurance, the restore of the control plane *)
(* and the tenant data plane.  Each module is a specification of its own.  *)
(*                                                                         *)
(* Of the validation queue the first three theorems hold however many      *)
(* executions overlap.  The others assume that a run request arrives only  *)
(* when no other is in progress, which the code does not enforce.          *)
(***************************************************************************)
EXTENDS ValidationQueue, AssuranceSignals, RecoveryRestore, TenantRouting,
        SequenceTheorems, FiniteSetTheorems, TLAPS

-----------------------------------------------------------------------------
(* The validation queue.                                                   *)

LEMMA TypeInit == Init => TypeOK
<1>1. SUFFICES ASSUME Init PROVE TypeOK
  OBVIOUS
<1>2. due \in BOOLEAN /\ blessed \in BOOLEAN
  BY <1>1, Zenon DEF Init
<1>3. /\ pc \in [Requests -> {"idle", "query"} \cup Waiting]
      /\ taken \in [Requests -> Contracts]
  BY <1>1 DEF Init
<1>4. QED
  BY <1>1, <1>2, <1>3 DEF Init, TypeOK, Unexecuted, Editable

\* Every step keeps the columns and the requests within their types.
LEMMA TypeStep == TypeOK /\ [Next]_vars => TypeOK'
<1>1. SUFFICES ASSUME TypeOK, [Next]_vars PROVE TypeOK'
  OBVIOUS
<1> USE QueueAssumption DEF TypeOK, Unexecuted, Editable, Waiting, Current, Expired
<1>2. CASE UNCHANGED vars
  BY <1>1, <1>2 DEF vars, row, requests
<1>3. ASSUME NEW c \in Contracts, edit(c) PROVE TypeOK'
  BY <1>1, <1>3 DEF edit, requests
<1>4. ASSUME NEW r \in Requests, check(r) PROVE TypeOK'
  BY <1>1, <1>4 DEF check, Enter
<1>5. ASSUME NEW r \in Requests, approve(r) PROVE TypeOK'
  <2>1. CASE receipt = contract
    BY <1>1, <1>5, <2>1 DEF approve, GrantApproval, requests
  <2>2. CASE receipt # contract
    BY <1>1, <1>5, <2>2 DEF approve, Enter
  <2>3. QED  BY <2>1, <2>2
<1>6. ASSUME NEW r \in Requests, execute(r) PROVE TypeOK'
  BY <1>1, <1>6 DEF execute, Enter, row
<1>7. ASSUME NEW r \in Requests, Checked(r) PROVE TypeOK'
  BY <1>1, <1>7 DEF Checked, Return, set_preflight
<1>8. ASSUME NEW r \in Requests, Approved(r) PROVE TypeOK'
  BY <1>1, <1>8 DEF Approved, Return, set_preflight, GrantApproval
<1>9. ASSUME NEW r \in Requests, MarkRunning(r) PROVE TypeOK'
  BY <1>1, <1>9 DEF MarkRunning, Enter, Return, set_preflight
<1>10. ASSUME NEW r \in Requests, PreflightFails(r) PROVE TypeOK'
  BY <1>1, <1>10 DEF PreflightFails, Return, set_preflight, Overwrite
<1>11. ASSUME NEW r \in Requests, HangUp(r) PROVE TypeOK'
  BY <1>1, <1>11 DEF HangUp, Return, row
<1>12. ASSUME NEW r \in Requests, Completed(r) \/ QueryFails(r) \/ QueryCancelled(r)
       PROVE  TypeOK'
  BY <1>1, <1>12 DEF Completed, QueryFails, QueryCancelled, requeue_interrupted, Overwrite, Return
<1>13. CASE delete \/ PastExpiry \/ expire_due
  BY <1>1, <1>13 DEF delete, PastExpiry, expire_due, row, requests
<1>14. CASE Restart
  BY <1>1, <1>14 DEF Restart, recover_interrupted
<1>15. QED
  BY <1>1, <1>2, <1>3, <1>4, <1>5, <1>6, <1>7, <1>8, <1>9, <1>10, <1>11, <1>12, <1>13, <1>14
     DEF Next

\* The row and the requests keep their types.
THEOREM TypeCorrect == Spec => []TypeOK
BY TypeInit, TypeStep, PTL DEF Spec

-----------------------------------------------------------------------------
(* However many executions overlap. *)

\* A request that leaves its query takes the row out of "running" itself, so the
\* last one to leave leaves it elsewhere; the others do not touch a running row.
LEMMA RunningStep == TypeOK /\ RunningHasRun /\ [Next]_vars => RunningHasRun'
<1>1. SUFFICES ASSUME TypeOK, RunningHasRun, [Next]_vars, status' = "running"
               PROVE  \E q \in Requests : pc'[q] = "query"
  BY DEF RunningHasRun
<1> USE DEF TypeOK, RunningHasRun, Current, Expired, Unexecuted, Editable, Waiting
<1>2. CASE UNCHANGED vars
  BY <1>1, <1>2 DEF vars, row, requests
<1>3. ASSUME NEW c \in Contracts, edit(c) PROVE FALSE
  BY <1>1, <1>3 DEF edit
<1>4. ASSUME NEW r \in Requests, check(r) \/ execute(r) \/ HangUp(r)
      PROVE  \E q \in Requests : pc'[q] = "query"
  BY <1>1, <1>4 DEF check, execute, HangUp, Enter, Return, row
<1>5. ASSUME NEW r \in Requests, approve(r) PROVE \E q \in Requests : pc'[q] = "query"
  <2>1. CASE receipt = contract
    BY <1>1, <1>5, <2>1 DEF approve, GrantApproval
  <2>2. CASE receipt # contract
    BY <1>1, <1>5, <2>2 DEF approve, Enter
  <2>3. QED  BY <2>1, <2>2
<1>6. ASSUME NEW r \in Requests, Checked(r) \/ Approved(r)
      PROVE  \E q \in Requests : pc'[q] = "query"
  BY <1>1, <1>6 DEF Checked, Approved, Return, set_preflight, GrantApproval
<1>7. ASSUME NEW r \in Requests, MarkRunning(r) PROVE \E q \in Requests : pc'[q] = "query"
  BY <1>1, <1>7 DEF MarkRunning, Enter, Return, set_preflight
<1>8. ASSUME NEW r \in Requests, PreflightFails(r) PROVE FALSE
  BY <1>1, <1>8 DEF PreflightFails, Overwrite
<1>9. ASSUME NEW r \in Requests, Completed(r) \/ QueryFails(r) \/ QueryCancelled(r)
      PROVE  FALSE
  BY <1>1, <1>9 DEF Completed, QueryFails, QueryCancelled, requeue_interrupted, Overwrite
<1>10. CASE delete \/ PastExpiry \/ expire_due
  BY <1>1, <1>10 DEF delete, PastExpiry, expire_due, row, requests
<1>11. CASE Restart
  BY <1>1, <1>11 DEF Restart, recover_interrupted
<1>12. QED
  BY <1>1, <1>2, <1>3, <1>4, <1>5, <1>6, <1>7, <1>8, <1>9, <1>10, <1>11 DEF Next

\* A running task has a request that waits for its query, even when executions
\* overlap: no task is left running by a handler that returned.
THEOREM RunningIsOwned == Spec => []RunningHasRun
<1>1. Init => RunningHasRun
  BY DEF Init, RunningHasRun
<1>2. QED
  BY <1>1, TypeCorrect, RunningStep, PTL DEF Spec

\* No write gives an expired task the status approved or running.
LEMMA ExpiryStep ==
  [Next]_vars => (due /\ status' \in {"approved", "running"} => status' = status)
<1>1. SUFFICES ASSUME [Next]_vars, due, status' \in {"approved", "running"}
               PROVE  status' = status
  OBVIOUS
<1> USE DEF Current, Expired, Unexecuted, Editable
<1>2. CASE UNCHANGED vars
  BY <1>1, <1>2 DEF vars, row
<1>3. ASSUME NEW c \in Contracts, edit(c) PROVE FALSE
  BY <1>1, <1>3 DEF edit
<1>4. ASSUME NEW r \in Requests,
             check(r) \/ approve(r) \/ execute(r) \/ HangUp(r) \/ Checked(r) \/ Approved(r)
      PROVE  status' = status
  BY <1>1, <1>4 DEF check, approve, execute, HangUp, Checked, Approved, set_preflight,
                    GrantApproval, row
<1>5. ASSUME NEW r \in Requests, MarkRunning(r) \/ PreflightFails(r) PROVE FALSE
  BY <1>1, <1>5 DEF MarkRunning, PreflightFails, set_preflight, Overwrite
<1>6. ASSUME NEW r \in Requests, Completed(r) \/ QueryFails(r) \/ QueryCancelled(r)
      PROVE  FALSE
  BY <1>1, <1>6 DEF Completed, QueryFails, QueryCancelled, requeue_interrupted, Overwrite
<1>7. CASE delete \/ PastExpiry \/ expire_due
  BY <1>1, <1>7 DEF delete, PastExpiry, expire_due, row
<1>8. CASE Restart
  BY <1>1, <1>8 DEF Restart, recover_interrupted
<1>9. QED
  BY <1>1, <1>2, <1>3, <1>4, <1>5, <1>6, <1>7, <1>8 DEF Next

\* An expired unexecuted task is neither approved nor run, whatever was under way.
THEOREM ExpiryIsFinal == Spec => ExpiryCloses
BY ExpiryStep, PTL DEF Spec, ExpiryCloses

-----------------------------------------------------------------------------
(* One execution at a time. *)

OneRun == \A q, r \in Requests : pc[q] \in Running /\ pc[r] \in Running => q = r

\* While an execution waits for its preflight the contract it took cannot change:
\* an approved row is not editable, and only the execution makes it so again.
PreparingOwnsRow ==
    \A r \in Requests : pc[r] = "preparing" =>
        taken[r] = contract /\ status \in {"approved", "expired", "none"}

QueryOwnsRow ==
    \A r \in Requests : pc[r] = "query" => taken[r] = contract /\ status = "running"

SingleInv ==
    /\ OneRun /\ PreparingOwnsRow /\ QueryOwnsRow
    /\ ApprovalIsCurrent /\ RunsAsPreflighted /\ ResultIsOfContract

LEMMA SingleInit == Init => SingleInv
BY DEF Init, SingleInv, OneRun, PreparingOwnsRow, QueryOwnsRow, ApprovalIsCurrent,
       RunsAsPreflighted, ResultIsOfContract, Running

\* Every step keeps the executing request and the row in agreement.
LEMMA SingleStep ==
  ASSUME ~OverlappingRuns
  PROVE  TypeOK /\ RunningHasRun /\ SingleInv /\ [Next]_vars => SingleInv'
<1>1. SUFFICES ASSUME TypeOK, RunningHasRun, SingleInv, [Next]_vars PROVE SingleInv'
  OBVIOUS
<1> USE DEF TypeOK, RunningHasRun, SingleInv, OneRun, PreparingOwnsRow, QueryOwnsRow,
            ApprovalIsCurrent, RunsAsPreflighted, ResultIsOfContract, Running, Waiting,
            Current, Expired, Unexecuted, Editable
<1>2. CASE UNCHANGED vars
  BY <1>1, <1>2 DEF vars, row, requests
<1>3. ASSUME NEW c \in Contracts, edit(c) PROVE SingleInv'
  BY <1>1, <1>3 DEF edit, requests
<1>4. ASSUME NEW r \in Requests, check(r) PROVE SingleInv'
  BY <1>1, <1>4 DEF check, Enter
<1>5. ASSUME NEW r \in Requests, approve(r) PROVE SingleInv'
  <2>1. CASE receipt = contract
    BY <1>1, <1>5, <2>1 DEF approve, GrantApproval, requests
  <2>2. CASE receipt # contract
    BY <1>1, <1>5, <2>2 DEF approve, Enter
  <2>3. QED  BY <2>1, <2>2
<1>6. ASSUME NEW r \in Requests, execute(r) PROVE SingleInv'
  BY <1>1, <1>6 DEF execute, Enter, row
<1>7. ASSUME NEW r \in Requests, Checked(r) PROVE SingleInv'
  BY <1>1, <1>7 DEF Checked, Return, set_preflight
<1>8. ASSUME NEW r \in Requests, Approved(r) PROVE SingleInv'
  BY <1>1, <1>8 DEF Approved, Return, set_preflight, GrantApproval
<1>9. ASSUME NEW r \in Requests, MarkRunning(r) PROVE SingleInv'
  BY <1>1, <1>9 DEF MarkRunning, Enter, Return, set_preflight
<1>10. ASSUME NEW r \in Requests, PreflightFails(r) PROVE SingleInv'
  BY <1>1, <1>10 DEF PreflightFails, Return, set_preflight, Overwrite
<1>11. ASSUME NEW r \in Requests, HangUp(r) PROVE SingleInv'
  BY <1>1, <1>11 DEF HangUp, Return, row
<1>12. ASSUME NEW r \in Requests, Completed(r) PROVE SingleInv'
  BY <1>1, <1>12 DEF Completed, Overwrite, Return
<1>13. ASSUME NEW r \in Requests, QueryFails(r) \/ QueryCancelled(r) PROVE SingleInv'
  BY <1>1, <1>13 DEF QueryFails, QueryCancelled, requeue_interrupted, Overwrite, Return
<1>14. CASE delete
  BY <1>1, <1>14 DEF delete, requests
<1>15. CASE PastExpiry \/ expire_due
  BY <1>1, <1>15 DEF PastExpiry, expire_due, row, requests
<1>16. CASE Restart
  BY <1>1, <1>16 DEF Restart, recover_interrupted
<1>17. QED
  BY <1>1, <1>2, <1>3, <1>4, <1>5, <1>6, <1>7, <1>8, <1>9, <1>10, <1>11, <1>12, <1>13, <1>14,
     <1>15, <1>16 DEF Next

\* With one execution at a time, approvals are of the contract as last edited, what
\* runs is what this execution's preflight looked at, and results belong to it.
THEOREM SingleRunsAreExact ==
  ASSUME ~OverlappingRuns
  PROVE  Spec => [](ApprovalIsCurrent /\ RunsAsPreflighted /\ ResultIsOfContract)
<1>1. TypeOK /\ RunningHasRun /\ SingleInv /\ [Next]_vars => SingleInv'
  BY SingleStep
<1>2. SingleInv => ApprovalIsCurrent /\ RunsAsPreflighted /\ ResultIsOfContract
  BY DEF SingleInv
<1>3. QED
  BY <1>1, <1>2, SingleInit, TypeCorrect, RunningIsOwned, PTL DEF Spec

\* With one execution at a time, no edit, approval or check made while a request waited
\* for its preflight changes what then runs.
THEOREM RunsArePreflighted ==
  ASSUME ~OverlappingRuns
  PROVE  Spec => []RunsAsPreflighted
BY SingleRunsAreExact, PTL

\* With one execution at a time, the evidence of a complete task is of its contract.
THEOREM ResultsBelong ==
  ASSUME ~OverlappingRuns
  PROVE  Spec => []ResultIsOfContract
BY SingleRunsAreExact, PTL

LEMMA CompleteStep ==
  SingleInv /\ [Next]_vars => (status = "complete" => status' \in {"complete", "none"})
<1>1. SUFFICES ASSUME SingleInv, [Next]_vars, status = "complete"
               PROVE  status' \in {"complete", "none"}
  OBVIOUS
<1> USE DEF SingleInv, PreparingOwnsRow, QueryOwnsRow, Current, Expired, Unexecuted, Editable
<1>2. CASE UNCHANGED vars
  BY <1>1, <1>2 DEF vars, row
<1>3. ASSUME NEW c \in Contracts, edit(c) PROVE FALSE
  BY <1>1, <1>3 DEF edit
<1>4. ASSUME NEW r \in Requests,
             check(r) \/ approve(r) \/ execute(r) \/ HangUp(r) \/ Checked(r) \/ Approved(r)
      PROVE  status' = status
  BY <1>1, <1>4 DEF check, approve, execute, HangUp, Checked, Approved, set_preflight,
                    GrantApproval, row
<1>5. ASSUME NEW r \in Requests, MarkRunning(r) \/ PreflightFails(r) PROVE FALSE
  BY <1>1, <1>5 DEF MarkRunning, PreflightFails
<1>6. ASSUME NEW r \in Requests, Completed(r) \/ QueryFails(r) \/ QueryCancelled(r)
      PROVE  FALSE
  BY <1>1, <1>6 DEF Completed, QueryFails, QueryCancelled
<1>7. CASE delete \/ PastExpiry \/ expire_due \/ Restart
  BY <1>1, <1>7 DEF delete, PastExpiry, expire_due, Restart, recover_interrupted, row
<1>8. QED
  BY <1>1, <1>2, <1>3, <1>4, <1>5, <1>6, <1>7 DEF Next

\* With one execution at a time, nothing but its deletion changes a complete task.
THEOREM CompleteStays ==
  ASSUME ~OverlappingRuns
  PROVE  Spec => CompleteIsFinal
<1>1. TypeOK /\ RunningHasRun /\ SingleInv /\ [Next]_vars => SingleInv'
  BY SingleStep
<1>2. QED
  BY <1>1, SingleInit, CompleteStep, TypeCorrect, RunningIsOwned, PTL DEF Spec, CompleteIsFinal

-----------------------------------------------------------------------------
(* Assurance signals and response packages.                                *)

Statuses == {"none", "watching", "persistent", "resolved"}

PackageRows == [signals : SUBSET Signals, status : {"review", "closed", "expired"},
                drafts : SUBSET Kinds]

-----------------------------------------------------------------------------
(* What complete reads decide.                                             *)

\* A streak is of sightings since a complete run last looked in vain, so it warrants
\* what the next sighting makes of it.
StreakWarranted ==
    /\ signals \in [Signals -> [status : Statuses, count : Nat]]
    /\ warrant \in [Signals -> {0, 1, 2}]
    /\ \A s \in Signals : /\ signals[s].count > 0 => warrant[s] > 0
                          /\ signals[s].status \in {"none", "resolved"} => signals[s].count = 0

SignalInv == StreakWarranted /\ CompleteReadsDecide

LEMMA SignalInvInit == SignalsInit => SignalInv
<1>1. SUFFICES ASSUME SignalsInit PROVE SignalInv
  OBVIOUS
<1>2. /\ signals \in [Signals -> [status : Statuses, count : Nat]]
      /\ warrant \in [Signals -> {0, 1, 2}]
  BY <1>1 DEF SignalsInit, Statuses
<1>3. QED
  BY <1>1, <1>2 DEF SignalsInit, SignalInv, StreakWarranted, CompleteReadsDecide

\* A sighting makes a signal persistent only when it or an earlier one warrants it.
LEMMA SightingWarranted ==
    ASSUME SignalInv, NEW r, NEW s \in Signals, s \in Reported(r)
    PROVE  /\ Sighted(r, s) \in [status : Statuses, count : Nat]
           /\ Warranted(r)[s] \in {0, 1, 2}
           /\ Sighted(r, s).count > 0 => Warranted(r)[s] > 0
           /\ Sighted(r, s).status \in {"none", "resolved"} => Sighted(r, s).count = 0
           /\ Sighted(r, s).status = "persistent" => Warranted(r)[s] = 2
           /\ Sighted(r, s).status = "resolved" => Warranted(r)[s] = 0
<1> DEFINE seen == signals[s]
           n == IF seen.status \in {"none", "resolved"} THEN 1 ELSE seen.count + 1
<1>1. /\ seen \in [status : Statuses, count : Nat] /\ warrant[s] \in {0, 1, 2}
      /\ seen.count > 0 => warrant[s] > 0
      /\ seen.status \in {"none", "resolved"} => seen.count = 0
      /\ seen.status = "persistent" => warrant[s] = 2
      /\ seen.status = "resolved" => warrant[s] = 0
  BY DEF SignalInv, StreakWarranted, CompleteReadsDecide
<1>2. n \in Nat /\ n >= 1 /\ (n >= 2 => warrant[s] > 0)
  BY <1>1
<1>3. CASE Authoritative(r, s)
  <2>1. Sighted(r, s) = [status |-> IF Urgent(r, s) \/ n >= 2 THEN "persistent" ELSE "watching",
                         count |-> IF n > 2 THEN 2 ELSE n]
    BY <1>3 DEF Sighted
  <2>2. Warranted(r)[s] = IF Urgent(r, s) \/ warrant[s] > 0 THEN 2 ELSE 1
    BY <1>3 DEF Warranted
  <2> HIDE DEF n, seen
  <2>3. QED
    BY <1>2, <2>1, <2>2 DEF Statuses
<1>4. CASE ~Authoritative(r, s)
  <2>1. Sighted(r, s) = [status |-> IF seen.status = "none" THEN "watching" ELSE seen.status,
                         count |-> seen.count]
    BY <1>4 DEF Sighted
  <2>2. Warranted(r)[s] = warrant[s]
    BY <1>4 DEF Warranted
  <2> HIDE DEF seen
  <2>3. QED
    BY <1>1, <2>1, <2>2 DEF Statuses
<1>5. QED
  BY <1>3, <1>4

\* What is resolved starts over.
LEMMA ResolvedRow ==
    ASSUME NEW seen \in [status : Statuses, count : Nat]
    PROVE  LET new == [seen EXCEPT !.status = "resolved", !.count = 0]
           IN  /\ new \in [status : Statuses, count : Nat]
               /\ new.status = "resolved" /\ new.count = 0
BY DEF Statuses

\* A run is absent evidence exactly for what it looked for.
LEMMA AbsenceWarranted ==
    ASSUME NEW r \in Results, NEW s \in Signals, s \notin Reported(r)
    PROVE  Warranted(r)[s] = IF s \in Absent(r) THEN 0 ELSE warrant[s]
<1>1. s[2] \in Kinds
  BY DEF Signals
<1>2. s \in Absent(r) <=> r.complete /\ (r.depth = "standard" \/ s[2] # "finding")
  BY <1>1 DEF Absent, AllAbsent, LookedFor, Kinds
<1>3. QED
  BY <1>2 DEF Warranted

LEMMA SignalInvStep == SignalInv /\ [SignalsNext]_signalVars => SignalInv'
<1>1. SUFFICES ASSUME SignalInv, [SignalsNext]_signalVars PROVE SignalInv'
  OBVIOUS
<1>2. ASSUME NEW r \in Results, process(r) PROVE SignalInv'
  <2>1. signals' = Correlated(r) /\ warrant' = Warranted(r)
    BY <1>2 DEF process
  <2>2. ASSUME NEW s \in Signals
        PROVE  /\ signals'[s] \in [status : Statuses, count : Nat] /\ warrant'[s] \in {0, 1, 2}
               /\ signals'[s].count > 0 => warrant'[s] > 0
               /\ signals'[s].status \in {"none", "resolved"} => signals'[s].count = 0
               /\ signals'[s].status = "persistent" => warrant'[s] = 2
               /\ signals'[s].status = "resolved" => warrant'[s] = 0
    <3>1. CASE s \in Reported(r)
      <4>1. signals'[s] = Sighted(r, s)
        BY <2>1, <3>1 DEF Correlated
      <4>2. QED
        BY <1>1, <2>1, <3>1, <4>1, SightingWarranted
    <3>2. CASE s \notin Reported(r) /\ s \in Absent(r) /\ signals[s].status \notin {"none", "resolved"}
      <4>1. signals'[s] = [signals[s] EXCEPT !.status = "resolved", !.count = 0]
        BY <2>1, <3>2 DEF Correlated
      <4>2. warrant'[s] = 0
        BY <2>1, <3>2, AbsenceWarranted
      <4>3. signals[s] \in [status : Statuses, count : Nat]
        BY <1>1 DEF SignalInv, StreakWarranted
      <4>4. /\ signals'[s] \in [status : Statuses, count : Nat]
            /\ signals'[s].status = "resolved" /\ signals'[s].count = 0
        BY <4>1, <4>3, ResolvedRow
      <4>5. QED
        BY <4>2, <4>4
    <3>3. CASE s \notin Reported(r) /\ ~(s \in Absent(r) /\ signals[s].status \notin {"none", "resolved"})
      <4>1. signals'[s] = signals[s]
        BY <2>1, <3>3 DEF Correlated
      <4>2. warrant'[s] = IF s \in Absent(r) THEN 0 ELSE warrant[s]
        BY <2>1, <3>3, AbsenceWarranted
      <4>3. s \in Absent(r) => signals[s].status \in {"none", "resolved"}
        BY <3>3
      <4>4. QED
        BY <1>1, <4>1, <4>2, <4>3 DEF SignalInv, StreakWarranted, CompleteReadsDecide
    <3>4. QED
      BY <3>1, <3>2, <3>3
  <2>3. signals' \in [Signals -> [status : Statuses, count : Nat]]
    <3>1. \A s \in Signals : signals'[s] \in [status : Statuses, count : Nat]
      BY <2>2
    <3>2. QED
      BY <2>1, <3>1 DEF Correlated
  <2>4. warrant' \in [Signals -> {0, 1, 2}]
    <3>1. \A s \in Signals : warrant'[s] \in {0, 1, 2}
      BY <2>2
    <3>2. QED
      BY <2>1, <3>1 DEF Warranted
  <2>5. QED
    BY <2>2, <2>3, <2>4 DEF SignalInv, StreakWarranted, CompleteReadsDecide
<1>3. CASE UNCHANGED <<signals, warrant>>
  BY <1>1, <1>3 DEF SignalInv, StreakWarranted, CompleteReadsDecide
<1>4. QED
  BY <1>1, <1>2, <1>3
     DEF SignalsNext, signalVars, acknowledge, close_package, expire_packages, settle

\* However runs succeed, fail in part or look at less, a signal is persistent only when
\* complete reads warrant it and resolved only when one looked for it in vain.
THEOREM CompleteReadsAlwaysDecide == SignalsSpec => []CompleteReadsDecide
<1>1. SignalInv => CompleteReadsDecide
  BY DEF SignalInv
<1>2. QED
  BY <1>1, SignalInvInit, SignalInvStep, PTL DEF SignalsSpec

-----------------------------------------------------------------------------
(* What is under review.                                                   *)

PackageInv == packages \in Seq(PackageRows) /\ SignalInOneReview

LEMMA PackageInvInit == SignalsInit => PackageInv
<1>1. SUFFICES ASSUME SignalsInit PROVE PackageInv
  OBVIOUS
<1>2. packages = << >>
  BY <1>1 DEF SignalsInit
<1>3. QED
  BY <1>2 DEF PackageInv, SignalInOneReview

\* A package leaves review and does not come back to it.
LEMMA ReviewEnds ==
    ASSUME PackageInv, NEW i \in DOMAIN packages, NEW outcome \in {"closed", "expired"},
           packages' = [packages EXCEPT ![i].status = outcome]
    PROVE  PackageInv'
<1> DEFINE entry == [packages[i] EXCEPT !.status = outcome]
<1>1. packages \in Seq(PackageRows) /\ packages[i] \in PackageRows
  BY DEF PackageInv
<1>2. entry \in PackageRows /\ entry.status = outcome /\ entry.signals = packages[i].signals
  BY <1>1 DEF PackageRows
<1>3. packages' = [packages EXCEPT ![i] = entry]
  OBVIOUS
<1> HIDE DEF entry
<1>4. /\ packages' \in Seq(PackageRows) /\ DOMAIN packages' = DOMAIN packages
      /\ packages'[i] = entry
      /\ \A j \in DOMAIN packages : j # i => packages'[j] = packages[j]
  BY <1>1, <1>2, <1>3
<1>5. ASSUME NEW j \in DOMAIN packages, NEW k \in DOMAIN packages,
             packages'[j].status = "review", packages'[k].status = "review",
             packages'[j].signals \cap packages'[k].signals # {}
      PROVE  j = k
  <2>1. j # i /\ k # i
    BY <1>2, <1>4, <1>5
  <2>2. QED
    BY <1>4, <1>5, <2>1 DEF PackageInv, SignalInOneReview
<1>6. QED
  BY <1>4, <1>5 DEF PackageInv, SignalInOneReview

\* A new package takes none of the signals that are under review.
LEMMA PackageOpens ==
    ASSUME PackageInv, NEW entry \in PackageRows, entry.signals \cap Covered = {},
           packages' = Append(packages, entry)
    PROVE  PackageInv'
<1> DEFINE n == Len(packages) + 1
<1>1. /\ packages \in Seq(PackageRows) /\ Len(packages) \in Nat
      /\ DOMAIN packages = 1 .. Len(packages)
  BY DEF PackageInv
<1>2. /\ packages' \in Seq(PackageRows) /\ DOMAIN packages' = 1 .. n
      /\ packages'[n] = entry /\ \A j \in DOMAIN packages : packages'[j] = packages[j]
  BY <1>1, AppendProperties
<1>3. ASSUME NEW j \in DOMAIN packages, packages[j].status = "review"
      PROVE  packages[j].signals \cap entry.signals = {}
  <2>1. packages[j].signals \subseteq Covered
    BY <1>3 DEF Covered
  <2>2. QED
    BY <2>1
<1>4. ASSUME NEW j \in 1 .. n, NEW k \in 1 .. n,
             packages'[j].status = "review", packages'[k].status = "review",
             packages'[j].signals \cap packages'[k].signals # {}
      PROVE  j = k
  <2>1. \A l \in 1 .. n : l # n => l \in DOMAIN packages
    BY <1>1
  <2>2. CASE j # n /\ k # n
    BY <1>2, <1>4, <2>1, <2>2 DEF PackageInv, SignalInOneReview
  <2>3. CASE j # n /\ k = n
    BY <1>2, <1>3, <1>4, <2>1, <2>3
  <2>4. CASE j = n /\ k # n
    BY <1>2, <1>3, <1>4, <2>1, <2>4
  <2>5. QED
    BY <2>2, <2>3, <2>4
<1>5. QED
  BY <1>2, <1>4 DEF PackageInv, SignalInOneReview

LEMMA PackageInvStep == PackageInv /\ [SignalsNext]_signalVars => PackageInv'
<1>1. SUFFICES ASSUME PackageInv, [SignalsNext]_signalVars PROVE PackageInv'
  OBVIOUS
<1>2. ASSUME NEW r \in Results, process(r) PROVE PackageInv'
  <2>1. PICK some \in Selections(r, Eligible(r, signals')) :
            UNCHANGED packages \/ \E commits \in 2 .. Len(Commits) : open_package(some, commits)
    BY <1>2 DEF process
  <2>2. some \subseteq Reported(r) /\ some \cap Covered = {}
    BY <2>1 DEF Selections, Eligible
  <2>3. some \subseteq Signals
    BY <2>2 DEF Reported, Results, Signals, Kinds
  <2>4. CASE UNCHANGED packages
    BY <1>1, <2>4 DEF PackageInv, SignalInOneReview
  <2>5. ASSUME NEW commits \in 2 .. Len(Commits), open_package(some, commits) PROVE PackageInv'
    <3> DEFINE staged == IF commits >= 3 THEN DraftQueries(some) ELSE {}
               entry == [signals |-> some, status |-> "review", drafts |-> staged]
    <3>1. staged \in SUBSET Kinds
      BY <2>3 DEF DraftQueries, Signals
    <3>2. packages' = Append(packages, entry)
      BY <2>5 DEF open_package
    <3>3. entry \in PackageRows /\ entry.signals = some
      <4> HIDE DEF staged
      <4>1. QED  BY <2>3, <3>1 DEF PackageRows
    <3> HIDE DEF entry
    <3>4. QED
      BY <1>1, <2>2, <3>2, <3>3, PackageOpens
  <2>6. QED
    BY <2>1, <2>4, <2>5
<1>3. ASSUME NEW i \in DOMAIN packages, close_package(i) \/ expire_packages(i) PROVE PackageInv'
  BY <1>1, <1>3, ReviewEnds DEF close_package, expire_packages
<1>4. CASE UNCHANGED packages
  BY <1>1, <1>4 DEF PackageInv, SignalInOneReview
<1>5. QED
  BY <1>1, <1>2, <1>3, <1>4 DEF SignalsNext, signalVars, acknowledge, settle

\* Whatever runs repeat and wherever the process dies, no signal is in two packages
\* under review.
THEOREM OneReviewPerSignal == SignalsSpec => []SignalInOneReview
<1>1. PackageInv => SignalInOneReview
  BY DEF PackageInv
<1>2. QED
  BY <1>1, PackageInvInit, PackageInvStep, PTL DEF SignalsSpec

-----------------------------------------------------------------------------
(* Backup and restore of the control plane.                                *)

\* Requests write only while the application runs, and the access database is always there.
OnlyRunningWrites == working # {} => host = "running"
AccessKept == "access" \in DOMAIN live

\* Outside the pending package nothing differs from what changes and restores intended,
\* and nothing at all differs while no start has begun to replace.
DiffersOnlyInPackage ==
    ~torn =>
        /\ host = "running" \/ marker = Nothing => live = intended
        /\ marker # Nothing =>
            /\ DOMAIN intended \subseteq DOMAIN live
            /\ \A f \in DOMAIN live \ DOMAIN marker.package :
                 f \in DOMAIN intended /\ live[f] = intended[f]

\* What a start has replaced is of the package, and it keeps copies only of the package's files.
ReplacedFromPackage ==
    host = "applying" =>
        /\ marker # Nothing /\ pending = marker.package
        /\ DOMAIN originals \subseteq DOMAIN pending
        /\ replaced \subseteq DOMAIN live /\ replaced \subseteq DOMAIN pending
        /\ \A f \in replaced : live[f] = pending[f]

\* Nothing is written after a checkpoint unless it was under way.
FrozenAtCheckpoint ==
    host = "running" /\ marker # Nothing /\ late = {} =>
        working = {} /\ marker.checkpoint = Revoke(live)

RecoveryInv ==
    /\ OnlyRunningWrites /\ AccessKept /\ DiffersOnlyInPackage
    /\ ReplacedFromPackage /\ FrozenAtCheckpoint

\* The files of an overlay, and what each of them is.
LEMMA OverlayFiles ==
    ASSUME NEW a, NEW b
    PROVE  /\ DOMAIN Overlay(a, b) = DOMAIN a \cup DOMAIN b
           /\ \A f \in DOMAIN a : Overlay(a, b)[f] = a[f]
           /\ \A f \in DOMAIN b \ DOMAIN a : Overlay(a, b)[f] = b[f]
  BY DEF Overlay

\* A file put over others.
LEMMA PutFile ==
    ASSUME NEW f, NEW v
    PROVE  DOMAIN Put(f, v) = {f} /\ Put(f, v)[f] = v
  BY DEF Put

\* Two sets of files that agree on what they hold are left alike by the end of sessions.
LEMMA RevokedAlike ==
    ASSUME NEW a, NEW b, "access" \in DOMAIN a, DOMAIN a = DOMAIN b,
           \A f \in DOMAIN a : a[f] = b[f]
    PROVE  Revoke(a) = Revoke(b)
<1>1. a["access"] = b["access"]
  OBVIOUS
<1> DEFINE p == Put("access", [a["access"] EXCEPT !.sessions = FALSE])
<1>2. Revoke(a) = Overlay(p, a) /\ Revoke(b) = Overlay(p, b)
  BY <1>1 DEF Revoke
<1> HIDE DEF p
<1>3. QED
  BY <1>2 DEF Overlay

\* Signing in is undone by the end of sessions.
LEMMA SignInRevoked ==
    ASSUME NEW files, "access" \in DOMAIN files
    PROVE  Revoke([files EXCEPT !["access"].sessions = TRUE]) = Revoke(files)
<1> DEFINE signed == [files EXCEPT !["access"].sessions = TRUE]
<1>1. /\ DOMAIN signed = DOMAIN files
      /\ signed["access"] = [files["access"] EXCEPT !.sessions = TRUE]
      /\ \A f \in DOMAIN files \ {"access"} : signed[f] = files[f]
  OBVIOUS
<1>2. [signed["access"] EXCEPT !.sessions = FALSE] = [files["access"] EXCEPT !.sessions = FALSE]
  BY <1>1
<1> HIDE DEF signed
<1> DEFINE p == Put("access", [files["access"] EXCEPT !.sessions = FALSE])
<1>3. Revoke(signed) = Overlay(p, signed) /\ Revoke(files) = Overlay(p, files)
  BY <1>2 DEF Revoke
<1>4. DOMAIN p = {"access"}
  BY PutFile
<1> HIDE DEF p
<1>5. QED
  BY <1>1, <1>3, <1>4 DEF Overlay, signed

LEMMA RecoveryInvInit == RecoveryInit => RecoveryInv
<1>1. SUFFICES ASSUME RecoveryInit PROVE RecoveryInv
  OBVIOUS
<1>2. AccessKept
  BY <1>1 DEF RecoveryInit, AccessKept, Files
<1>3. QED
  BY <1>1, <1>2 DEF RecoveryInit, RecoveryInv, OnlyRunningWrites, DiffersOnlyInPackage,
                    ReplacedFromPackage, FrozenAtCheckpoint

\* Requests that change the control plane, and sessions.
LEMMA RequestKeepsRecovery ==
    ASSUME RecoveryInv,
           \/ \E f \in Files : Admit(f) \/ WriteFile(f)
           \/ login
    PROVE  RecoveryInv'
<1> USE DEF RecoveryInv, OnlyRunningWrites, AccessKept, DiffersOnlyInPackage,
            ReplacedFromPackage, FrozenAtCheckpoint
<1>1. ASSUME NEW f \in Files, Admit(f) PROVE RecoveryInv'
  BY <1>1 DEF Admit, MutationFrozen, packageVars, startVars
<1>2. ASSUME NEW f \in Files, WriteFile(f) PROVE RecoveryInv'
  <2>1. host = "running" /\ working # {} /\ host' = host /\ marker' = marker /\ torn' = torn /\ late' = late
    BY <1>2 DEF WriteFile
  <2>2. AccessKept'
    <3>1. DOMAIN Overlay(Put(f, Written(f)), live) = DOMAIN Put(f, Written(f)) \cup DOMAIN live
      BY OverlayFiles
    <3>2. QED
      BY <1>2, <3>1 DEF WriteFile
  <2>3. ~torn => live' = intended'
    BY <1>2, <2>1 DEF WriteFile
  <2>4. ~(marker # Nothing /\ late = {})
    BY <2>1
  <2>5. QED
    BY <1>2, <2>1, <2>2, <2>3, <2>4 DEF WriteFile
<1>3. CASE login
  <2>1. AccessKept' /\ Revoke(live') = Revoke(live)
    BY <1>3, SignInRevoked DEF login
  <2>2. ~torn => live' = intended'
    BY <1>3 DEF login
  <2>3. QED
    BY <1>3, <2>1, <2>2 DEF login, packageVars, startVars
<1>4. QED
  BY <1>1, <1>2, <1>3

\* Packages, the staging of a restore and its cancellation.
LEMMA PackageKeepsRecovery ==
    ASSUME RecoveryInv,
           \/ create \/ expire_inspection \/ stage_restore \/ cancel_pending \/ die_cancelling
           \/ \E p \in exported : delete_export(p)
           \/ \E p \in exported \cup checkpoints \cup ForeignPackages : inspect(p)
           \/ \E n \in 0..Len(Order) : die_staging(n)
    PROVE  RecoveryInv'
<1> USE DEF RecoveryInv, OnlyRunningWrites, AccessKept, DiffersOnlyInPackage,
            ReplacedFromPackage, FrozenAtCheckpoint, startVars, packageVars, HostAvailable
<1>1. CASE create
  BY <1>1 DEF create
<1>2. CASE expire_inspection
  BY <1>2 DEF expire_inspection
<1>3. CASE stage_restore
  <2>1. /\ host # "applying" /\ marker = Nothing /\ marker'.package = inspected
        /\ marker'.checkpoint = Revoke(live) /\ live' = live /\ intended' = intended
        /\ late' = working /\ working' = working /\ torn' = torn /\ host' = host
    BY <1>3 DEF stage_restore, MayStage, BuildPayload
  <2>2. QED
    BY <2>1
<1>4. CASE cancel_pending
  BY <1>4 DEF cancel_pending
<1>5. CASE die_cancelling
  BY <1>5 DEF die_cancelling
<1>6. ASSUME NEW p \in exported, delete_export(p) PROVE RecoveryInv'
  BY <1>6 DEF delete_export
<1>7. ASSUME NEW p \in exported \cup checkpoints \cup ForeignPackages, inspect(p) PROVE RecoveryInv'
  BY <1>7 DEF inspect
<1>8. ASSUME NEW n \in 0..Len(Order), die_staging(n) PROVE RecoveryInv'
  BY <1>8 DEF die_staging, MayStage
<1>9. QED
  BY <1>1, <1>2, <1>3, <1>4, <1>5, <1>6, <1>7, <1>8

\* Putting the copies back touches no other file.
LEMMA RestoredOriginals ==
    ASSUME RecoveryInv, host = "applying"
    PROVE  /\ DOMAIN RestoreOriginals = DOMAIN live \cup DOMAIN originals
           /\ \A f \in DOMAIN live \ DOMAIN originals : RestoreOriginals[f] = live[f]
           /\ DOMAIN originals \subseteq DOMAIN marker.package
<1>1. DOMAIN originals \subseteq DOMAIN marker.package
  BY DEF RecoveryInv, DiffersOnlyInPackage, ReplacedFromPackage
<1>2. /\ DOMAIN RestoreOriginals = DOMAIN originals \cup DOMAIN live
      /\ \A f \in DOMAIN live \ DOMAIN originals : RestoreOriginals[f] = live[f]
  BY OverlayFiles DEF RestoreOriginals
<1>3. QED
  BY <1>1, <1>2

\* A start that finds a restore, and what can become of it.
LEMMA StartKeepsRecovery ==
    ASSUME RecoveryInv,
           \/ start \/ replace \/ replace_fails \/ removal_fails \/ die \/ stop
           \/ \E dies \in BOOLEAN : applied(dies)
    PROVE  RecoveryInv'
<1> USE DEF RecoveryInv, OnlyRunningWrites, AccessKept, DiffersOnlyInPackage,
            ReplacedFromPackage, FrozenAtCheckpoint, startVars, packageVars
<1>1. CASE start
  <2>1. CASE marker = Nothing
    BY <1>1, <2>1 DEF start, StageIntact
  <2>2. CASE StageIntact
    BY <1>1, <2>2 DEF start, StageIntact, MarkerWhileApplying
  <2>3. QED
    BY <1>1, <2>1, <2>2 DEF start
<1>2. CASE replace
  <2>1. PICK i \in 1..Len(Order) :
          /\ Order[i] \in Staged
          /\ live' = Overlay(Put(Order[i], pending[Order[i]]), live)
          /\ replaced' = replaced \cup {Order[i]}
    BY <1>2 DEF replace
  <2> DEFINE f == Order[i]
  <2>2. /\ f \in DOMAIN pending
        /\ DOMAIN live' = DOMAIN live \cup {f} /\ live'[f] = pending[f]
        /\ \A g \in DOMAIN live \ {f} : live'[g] = live[g]
    <3> DEFINE p == Put(f, pending[f])
    <3>1. DOMAIN p = {f} /\ p[f] = pending[f]
      BY PutFile
    <3>2. live' = Overlay(p, live)
      BY <2>1
    <3> HIDE DEF p
    <3>3. /\ DOMAIN live' = DOMAIN p \cup DOMAIN live
          /\ \A g \in DOMAIN p : live'[g] = p[g]
          /\ \A g \in DOMAIN live \ DOMAIN p : live'[g] = live[g]
      <4>1. /\ DOMAIN Overlay(p, live) = DOMAIN p \cup DOMAIN live
            /\ \A g \in DOMAIN p : Overlay(p, live)[g] = p[g]
            /\ \A g \in DOMAIN live \ DOMAIN p : Overlay(p, live)[g] = live[g]
        BY OverlayFiles
      <4>2. QED
        BY <3>2, <4>1
    <3>4. f \in DOMAIN pending
      BY <2>1 DEF Staged
    <3>5. QED
      BY <3>1, <3>3, <3>4
  <2>3. /\ host = "applying" /\ host' = host /\ marker' = marker /\ pending' = pending
        /\ originals' = originals /\ intended' = intended /\ torn' = torn /\ working' = working
        /\ replaced' = replaced \cup {f}
    BY <1>2, <2>1 DEF replace
  <2> HIDE DEF f
  <2>4. ReplacedFromPackage'
    BY <2>2, <2>3
  <2>5. DiffersOnlyInPackage'
    BY <2>2, <2>3
  <2>6. QED
    BY <2>2, <2>3, <2>4, <2>5
<1>3. ASSUME AllReplaced \/ host = "applying"
      PROVE  /\ DOMAIN RestoreOriginals = DOMAIN live \cup DOMAIN originals
             /\ \A f \in DOMAIN live \ DOMAIN originals : RestoreOriginals[f] = live[f]
             /\ DOMAIN originals \subseteq DOMAIN marker.package
  BY <1>3, RestoredOriginals DEF AllReplaced
<1>4. CASE replace_fails
  BY <1>3, <1>4 DEF replace_fails
<1>5. CASE removal_fails
  BY <1>3, <1>5 DEF removal_fails, AllReplaced
<1>6. CASE die
  BY <1>6 DEF die
<1>7. CASE stop
  BY <1>7 DEF stop
<1>8. ASSUME NEW dies \in BOOLEAN, applied(dies) PROVE RecoveryInv'
  <2>1. host = "applying" /\ DOMAIN pending \subseteq replaced /\ working' = working
    BY <1>8 DEF applied, AllReplaced, Staged
  <2>2. live' = Revoke(live) /\ intended' = Revoke(Overlay(pending, intended))
    BY <1>8 DEF applied, Restored
  <2>3. ~torn => live' = intended'
    <3>1. SUFFICES ASSUME ~torn PROVE live' = intended'
      OBVIOUS
    <3> DEFINE o == Overlay(pending, intended)
    <3>2. /\ DOMAIN o = DOMAIN pending \cup DOMAIN intended
          /\ \A f \in DOMAIN pending : o[f] = pending[f]
          /\ \A f \in DOMAIN intended \ DOMAIN pending : o[f] = intended[f]
      BY OverlayFiles
    <3> HIDE DEF o
    <3>3. /\ DOMAIN pending \subseteq DOMAIN live /\ DOMAIN intended \subseteq DOMAIN live
          /\ \A f \in DOMAIN pending : live[f] = pending[f]
          /\ \A f \in DOMAIN live \ DOMAIN pending : f \in DOMAIN intended /\ live[f] = intended[f]
      BY <2>1, <3>1
    <3>4. DOMAIN live = DOMAIN o /\ \A f \in DOMAIN live : live[f] = o[f]
      BY <3>2, <3>3
    <3>5. Revoke(live) = Revoke(o)
      BY <3>4, RevokedAlike
    <3>6. QED
      BY <2>2, <3>5 DEF o
  <2>4. AccessKept'
    <3> DEFINE p == Put("access", [live["access"] EXCEPT !.sessions = FALSE])
    <3>1. DOMAIN Overlay(p, live) = DOMAIN p \cup DOMAIN live
      BY OverlayFiles
    <3>2. live' = Overlay(p, live)
      BY <2>2 DEF Revoke
    <3>3. QED
      BY <3>1, <3>2
  <2>5. marker' = Nothing /\ host' # "applying" /\ torn' = (torn /\ live' # intended')
        /\ working = {}
    BY <1>8, <2>1 DEF applied
  <2>6. QED
    BY <2>1, <2>3, <2>4, <2>5
<1>9. QED
  BY <1>1, <1>2, <1>4, <1>5, <1>6, <1>7, <1>8

LEMMA RecoveryInvStep == RecoveryInv /\ [RecoveryNext]_recoveryVars => RecoveryInv'
<1>1. SUFFICES ASSUME RecoveryInv, [RecoveryNext]_recoveryVars PROVE RecoveryInv'
  OBVIOUS
<1>2. CASE UNCHANGED recoveryVars
  BY <1>1, <1>2 DEF recoveryVars, RecoveryInv, OnlyRunningWrites, AccessKept, DiffersOnlyInPackage,
                    ReplacedFromPackage, FrozenAtCheckpoint
<1>3. QED
  BY <1>1, <1>2, RequestKeepsRecovery, PackageKeepsRecovery, StartKeepsRecovery DEF RecoveryNext

LEMMA RecoveryInvAlways == RecoverySpec => []RecoveryInv
  BY RecoveryInvInit, RecoveryInvStep, PTL DEF RecoverySpec

\* The application serves one generation of the control plane: what changes and applied
\* restores left, whatever packages are restored and however often a start that replaces
\* files dies or fails (apply_pending_restore).
THEOREM RestoredWhole == RecoverySpec => []ServedIsWhole
<1>1. RecoveryInv => ServedIsWhole
  BY DEF RecoveryInv, DiffersOnlyInPackage, ServedIsWhole
<1>2. QED
  BY <1>1, RecoveryInvAlways, PTL

\* The checkpoint of a pending restore is what the restore would replace
\* (stage_restore, and the middleware that freezes the control plane).
THEOREM RestoreCanBeUndone == RecoverySpec => []CheckpointIsCurrent
<1>1. RecoveryInv => CheckpointIsCurrent
  BY DEF RecoveryInv, FrozenAtCheckpoint, CheckpointIsCurrent
<1>2. QED
  BY <1>1, RecoveryInvAlways, PTL

-----------------------------------------------------------------------------
(* The tenant data plane.                                                  *)

RowVersion == 0..MaxVersion + 1
Contents == [Components -> RowVersion]
Rows == UNION {[S -> RowVersion] : S \in SUBSET Tenants}
Digests == [Components -> Rows] \cup {<<>>}

RouteRow == [gen : {Shared} \cup Generations, wrote : BOOLEAN, purged : BOOLEAN]
MigrationRow ==
    [tenant : Tenants \cup {"none"},
     status : {"none", "copying", "verified", "cutover", "failed", "rolled-back", "reverse-migrated"},
     source : {Shared} \cup Generations, sourceWrote : BOOLEAN, digest : Contents]
ReverseRow ==
    [tenant : Tenants \cup {"none"}, gen : {Shared} \cup Generations,
     status : {"none", "copying", "verified", "finalized-ready", "applying", "failed",
               "superseded", "applied"},
     resume : {"", "verified", "finalized-ready"}, source : Contents,
     baseline : Digests, target : Digests, stored : BOOLEAN]
Operation ==
    [kind : {"idle", "copy", "reverse copy", "apply", "purge"}, id : Nat, todo : SUBSET Components]

RoutingTypeOK ==
    /\ shared \in [Components -> [Tenants -> RowVersion]]
    /\ generations \in [Generations -> Contents]
    /\ routes \in [Tenants -> RouteRow]
    /\ migrations \in [Generations -> MigrationRow]
    /\ reverses \in [Reverses -> ReverseRow]
    /\ operation \in Operation
    /\ latest \in [Tenants -> [Components -> 1..MaxVersion]]
    /\ busy \subseteq Tenants
    /\ profile \in Profiles

\* Generations and snapshots are numbered in the order they are staged.
SlotsInOrder ==
    /\ \A g \in Generations : migrations[g].status # "none" =>
          /\ migrations[g].tenant \in Tenants
          /\ \A h \in Generations : h < g => migrations[h].status # "none"
    /\ \A r \in Reverses : reverses[r].status # "none" =>
          /\ reverses[r].tenant \in Tenants
          /\ \A s \in Reverses : s < r => reverses[s].status # "none"

\* A tenant is routed to a generation that was staged for it and cut over to.
RouteIsCutOver == \A t \in Tenants : Isolated(t) =>
    /\ migrations[routes[t].gen].tenant = t
    /\ migrations[routes[t].gen].status = "cutover"

\* What a generation was staged on is cut over as long as it is, is not routed to
\* meanwhile, and no second generation was cut over from it.
SourceIsCutOver == \A h \in Generations :
    migrations[h].status = "cutover" /\ migrations[h].source # Shared =>
       LET s == migrations[h].source IN
       /\ migrations[s].tenant = migrations[h].tenant
       /\ migrations[s].status = "cutover"
       /\ routes[migrations[h].tenant].gen # s
       /\ \A k \in Generations : migrations[k].status = "cutover" /\ migrations[k].source = s => k = h

\* What the operation under the lock works on.
OperationStands ==
    /\ operation.kind = "copy" =>
         /\ operation.id \in Generations
         /\ migrations[operation.id].status = "copying"
    /\ operation.kind \in {"reverse copy", "apply", "purge"} =>
         /\ operation.id \in Reverses
         /\ LET rev == reverses[operation.id]
            IN /\ rev.tenant \in Tenants
               /\ Isolated(rev.tenant)
               /\ routes[rev.tenant].gen = rev.gen
               /\ Routed(rev.tenant) = rev.source
               /\ operation.kind = "reverse copy" => rev.status = "copying"
               /\ operation.kind = "apply" => rev.status = "applying"
               /\ operation.kind = "purge" => rev.status = "verified"

SnapshotStatus == {"verified", "finalized-ready", "applying"}

\* A snapshot that may be applied is kept, and was staged for a generation.
SnapshotStands == \A r \in Reverses :
    /\ reverses[r].status \in SnapshotStatus =>
         /\ reverses[r].stored
         /\ reverses[r].gen # Shared
         /\ reverses[r].baseline \in [Components -> Rows]
         /\ reverses[r].target \in [Components -> Rows]
         /\ \A c \in Databases : reverses[r].target[c] \in [Tenants -> RowVersion]
         /\ \A c \in Components : reverses[r].target[c][reverses[r].tenant] \in RowVersion
    /\ reverses[r].status = "applying" => reverses[r].resume \in {"verified", "finalized-ready"}

\* PurgedHasReturnPath, and an interrupted apply goes back to the way it was.
ReturnPathStands == \A t \in Tenants : routes[t].purged =>
    \E r \in Reverses :
        /\ reverses[r].tenant = t
        /\ reverses[r].gen = routes[t].gen
        /\ \/ reverses[r].status = "finalized-ready"
           \/ reverses[r].status = "applying" /\ reverses[r].resume = "finalized-ready"

ReturnInv ==
    /\ RoutingTypeOK /\ SlotsInOrder /\ RouteIsCutOver /\ SourceIsCutOver /\ OperationStands
    /\ SnapshotStands /\ ReturnPathStands

-----------------------------------------------------------------------------
\* A snapshot leaves the rows of the others as they are, and holds the tenant's own.
SnapshotSplices == \A r \in Reverses : reverses[r].status \in SnapshotStatus =>
    LET rev == reverses[r] IN
    /\ \A c \in Databases :
         /\ rev.baseline[c] \in [Tenants -> RowVersion] /\ rev.target[c] \in [Tenants -> RowVersion]
         /\ rev.target[c][rev.tenant] = rev.source[c]
         /\ \A u \in Tenants \ {rev.tenant} : rev.target[c][u] = rev.baseline[c][u]
    /\ \A c \in Components \ Databases :
         /\ rev.target[c][rev.tenant] = rev.source[c]

\* An apply replaces what it found or what an earlier attempt left.
ApplySplices == operation.kind = "apply" =>
    LET rev == reverses[operation.id] IN
    /\ \A c \in Databases, u \in Tenants \ {rev.tenant} : shared[c][u] = rev.target[c][u]
    /\ \A c \in Components \ operation.todo : shared[c][rev.tenant] = rev.source[c]

\* RouteServesLatest, component by component.
ServesLatest == \A t \in Tenants :
    IF Isolated(t) THEN generations[routes[t].gen] = latest[t]
    ELSE \A c \in Components : shared[c][t] = latest[t][c]

-----------------------------------------------------------------------------
MayRollBack == "rollback" \in profile

\* The profiles in which a rollback cannot lose data: no crash between a write or a purge
\* and its record and, where one generation is staged on another, no purge (the mark is
\* not restored by a rollback) and as many items kept as can lie below the generation
\* that the active one was staged on (retention protects no further).
Reversible == \A p \in Profiles : "rollback" \in p =>
    /\ "write crash" \notin p /\ "purge crash" \notin p
    /\ "chain" \in p => "finalize" \notin p /\ KeepCount + 2 >= MaxGenerations

\* A generation is staged on an earlier one, or on none.
StagedOnEarlier == \A g \in Generations : migrations[g].status # "none" =>
    /\ migrations[g].source < g
    /\ "chain" \notin profile => migrations[g].source = Shared

IsPending(g) == migrations[g].status \in {"copying", "verified"}

\* What is staged and not cut over is the only one of its tenant and above all cut over;
\* the route is where it was or further down, and a write since the digest was taken
\* shows in it.
PendingStands == MayRollBack => \A g \in Generations : IsPending(g) =>
    LET m == migrations[g]
        t == migrations[g].tenant
    IN
    /\ \A h \in Generations : migrations[h].tenant = t /\ IsPending(h) => h = g
    /\ \A h \in Generations : migrations[h].tenant = t /\ migrations[h].status = "cutover" => h < g
    /\ routes[t].gen <= m.source
    /\ operation.kind = "copy" /\ operation.id = g =>
         routes[t].gen = m.source /\ routes[t].wrote = m.sourceWrote
    /\ m.status = "verified" =>
         /\ \A c \in Components : m.digest[c] <= latest[t][c]
         /\ routes[t].gen = m.source /\ routes[t].wrote /\ ~m.sourceWrote =>
              \E c \in Components : m.digest[c] < latest[t][c]

\* Where generations are chained and rolled back, nothing is purged.
PurgeDisabled == MayRollBack /\ "chain" \in profile =>
    operation.kind # "purge" /\ \A t \in Tenants : ~routes[t].purged

Purging(t) == operation.kind = "purge" /\ reverses[operation.id].tenant = t

\* S holds the generations a tenant can be rolled back through.
Chain(t, S) ==
    /\ routes[t].gen \in S \cup {Shared}
    /\ \A g \in S :
         /\ migrations[g].tenant = t
         /\ migrations[g].status = "cutover"
         /\ g <= routes[t].gen
         /\ migrations[g].source \in S \cup {Shared}
         /\ \A h \in S : h <= migrations[g].source \/ h >= g

Unwritten(t, S, g) ==
    IF g = routes[t].gen THEN ~routes[t].wrote
    ELSE \E h \in S : migrations[h].source = g /\ ~migrations[h].sourceWrote

SourceHolds(t, g) ==
    LET s == migrations[g].source IN
    IF s = Shared THEN routes[t].purged \/ Purging(t) \/ \A c \in Components : shared[c][t] = latest[t][c]
    ELSE generations[s] = latest[t]

\* Below generations that saw no write, the source still has what was last saved.
ChainHolds(t, S) == \A g \in S : (\A h \in S : h >= g => Unwritten(t, S, h)) => SourceHolds(t, g)

RollbackStands == MayRollBack => \A t \in Tenants : \E S \in SUBSET Generations :
    Chain(t, S) /\ ChainHolds(t, S)

ServeInv ==
    /\ ReturnInv /\ SnapshotSplices /\ ApplySplices /\ ServesLatest /\ StagedOnEarlier
    /\ PendingStands /\ PurgeDisabled /\ RollbackStands

-----------------------------------------------------------------------------
LEMMA SharedIsNoGeneration == Shared \notin Generations
BY TenancyAssumption DEF Shared, Generations

LEMMA NextSlot ==
    ASSUME NEW N \in Nat, NEW S \in SUBSET (1..N),
           \A g \in S : \A h \in 1..N : h < g => h \in S,
           NEW k, k = Cardinality(S) + 1, k \in 1..N
    PROVE  S = 1..k - 1
<1>0. \A n \in Nat : IsFiniteSet(1..n) /\ Cardinality(1..n) = n
  <2>1. SUFFICES ASSUME NEW n \in Nat PROVE IsFiniteSet(1..n) /\ Cardinality(1..n) = n
    OBVIOUS
  <2>2. 1 \in Int /\ n \in Int
    OBVIOUS
  <2>3. IsFiniteSet(1..n) /\ Cardinality(1..n) = IF 1 > n THEN 0 ELSE n - 1 + 1
    BY <2>2, FS_Interval
  <2>4. QED  BY <2>3
<1>1. IsFiniteSet(S) /\ Cardinality(S) \in Nat
  <2>1. IsFiniteSet(S)
    BY <1>0, FS_Subset
  <2>2. QED  BY <2>1, FS_CardinalityType
<1>2. ASSUME NEW h \in 1..k - 1 PROVE h \in S
  <2>1. SUFFICES ASSUME h \notin S PROVE FALSE
    OBVIOUS
  <2>2. S \subseteq 1..h - 1
    <3>1. SUFFICES ASSUME NEW g \in S PROVE g \in 1..h - 1
      OBVIOUS
    <3>2. h \in 1..N /\ g \in 1..N
      BY <1>1
    <3>3. QED  BY <2>1, <3>2
  <2>3. IsFiniteSet(1..h - 1) /\ Cardinality(1..h - 1) = h - 1
    BY <1>0, <1>1
  <2>5. Cardinality(S) <= Cardinality(1..h - 1)
    BY <2>2, <2>3, FS_Subset
  <2>4. QED  BY <1>1, <2>3, <2>5
<1>3. ASSUME NEW g \in S PROVE g \in 1..k - 1
  <2>1. SUFFICES ASSUME g >= k PROVE FALSE
    BY <1>1
  <2>2. 1..k \subseteq S
    BY <1>1, <2>1
  <2>3. Cardinality(1..k) = k
    BY <1>1, FS_Interval
  <2>4. QED  BY <1>1, <2>2, <2>3, FS_Subset
<1>4. QED  BY <1>2, <1>3

LEMMA NextGenerationIsFree ==
    ASSUME RoutingTypeOK, SlotsInOrder, NextGeneration \in Generations
    PROVE  \A g \in Generations : migrations[g].status = "none" <=> g >= NextGeneration
<1> DEFINE S == {g \in Generations : migrations[g].status # "none"}
<1>1. MaxGenerations \in Nat /\ S \in SUBSET (1..MaxGenerations)
  BY TenancyAssumption DEF Generations
<1>2. \A g \in S : \A h \in 1..MaxGenerations : h < g => h \in S
  BY DEF SlotsInOrder, Generations
<1>3. NextGeneration = Cardinality(S) + 1 /\ NextGeneration \in 1..MaxGenerations
  BY DEF NextGeneration, Generations
<1> HIDE DEF S
<1>4. S = 1..NextGeneration - 1
  BY <1>1, <1>2, <1>3, NextSlot
<1>5. NextGeneration \in Int /\ NextGeneration >= 1
  BY <1>1, <1>3
<1>6. ASSUME NEW g \in Generations PROVE g \in S <=> ~(g >= NextGeneration)
  <2>1. g \in Int /\ g >= 1
    BY <1>1 DEF Generations
  <2>2. g \in S <=> g \in 1..NextGeneration - 1
    BY <1>4
  <2>3. QED  BY <1>5, <2>1, <2>2
<1>8. QED  BY <1>6 DEF S

LEMMA NextReverseIsFree ==
    ASSUME RoutingTypeOK, SlotsInOrder, NextReverse \in Reverses
    PROVE  \A r \in Reverses : reverses[r].status = "none" <=> r >= NextReverse
<1> DEFINE S == {r \in Reverses : reverses[r].status # "none"}
<1>1. MaxReverses \in Nat /\ S \in SUBSET (1..MaxReverses)
  BY TenancyAssumption DEF Reverses
<1>2. \A g \in S : \A h \in 1..MaxReverses : h < g => h \in S
  BY DEF SlotsInOrder, Reverses
<1>3. NextReverse = Cardinality(S) + 1 /\ NextReverse \in 1..MaxReverses
  BY DEF NextReverse, Reverses
<1> HIDE DEF S
<1>4. S = 1..NextReverse - 1
  BY <1>1, <1>2, <1>3, NextSlot
<1>5. NextReverse \in Int /\ NextReverse >= 1
  BY <1>1, <1>3
<1>6. ASSUME NEW g \in Reverses PROVE g \in S <=> ~(g >= NextReverse)
  <2>1. g \in Int /\ g >= 1
    BY <1>1 DEF Reverses
  <2>2. g \in S <=> g \in 1..NextReverse - 1
    BY <1>4
  <2>3. QED  BY <1>5, <2>1, <2>2
<1>8. QED  BY <1>6 DEF S

LEMMA RoutedIsContents ==
    ASSUME RoutingTypeOK, NEW t \in Tenants
    PROVE  /\ routes[t].gen \in {Shared} \cup Generations
           /\ routes[t].wrote \in BOOLEAN /\ routes[t].purged \in BOOLEAN
           /\ Isolated(t) => routes[t].gen \in Generations /\ Routed(t) = generations[routes[t].gen]
           /\ Routed(t) \in Contents /\ \A c \in Components : Routed(t)[c] \in RowVersion
<1>1. routes[t] \in RouteRow /\ generations \in [Generations -> Contents]
  BY DEF RoutingTypeOK
<1>2. /\ routes[t].gen \in {Shared} \cup Generations
      /\ routes[t].wrote \in BOOLEAN /\ routes[t].purged \in BOOLEAN
  BY <1>1 DEF RouteRow
<1>3. CASE Isolated(t)
  <2>1. Routed(t) = generations[routes[t].gen] /\ routes[t].gen \in Generations
    BY <1>2, <1>3 DEF Isolated, Routed
  <2>2. Routed(t) \in Contents
    BY <1>1, <2>1
  <2>3. QED  BY <1>2, <2>1, <2>2 DEF Contents
<1>4. CASE ~Isolated(t)
  <2>1. shared \in [Components -> [Tenants -> RowVersion]]
    BY DEF RoutingTypeOK
  <2>2. \A c \in Components : shared[c][t] \in RowVersion
    BY <2>1
  <2>3. TenantRows(t) \in Contents
    BY <2>2, Zenon DEF TenantRows, Contents
  <2>4. Routed(t) \in Contents
    BY <1>4, <2>3 DEF Routed
  <2>5. QED  BY <1>2, <1>4, <2>4 DEF Contents
<1>5. QED  BY <1>3, <1>4

\* What is staged for a tenant splices its rows into the shared side.
LEMMA SnapshotRow ==
    ASSUME RoutingTypeOK, NEW r \in Reverses, reverses[r].tenant \in Tenants
    PROVE  LET t == reverses[r].tenant
               rev == Snapshot(t, reverses[r])
           IN /\ rev \in ReverseRow
              /\ rev.tenant = t /\ rev.gen = reverses[r].gen /\ rev.stored = TRUE
              /\ rev.source = reverses[r].source /\ rev.resume = reverses[r].resume
              /\ rev.status = IF routes[t].purged THEN "finalized-ready" ELSE "verified"
              /\ rev.baseline \in [Components -> Rows] /\ rev.target \in [Components -> Rows]
              /\ \A c \in Databases :
                    /\ rev.baseline[c] = shared[c] /\ rev.target[c] \in [Tenants -> RowVersion]
                    /\ rev.target[c][t] = Routed(t)[c]
                    /\ \A u \in Tenants \ {t} : rev.target[c][u] = shared[c][u]
              /\ \A c \in Components : rev.target[c][t] = Routed(t)[c]
<1> DEFINE t == reverses[r].tenant
           rev == Snapshot(t, reverses[r])
           d == [c \in Components |-> IF c \in Databases THEN StagedDatabase(t, c) ELSE StagedDirectory(t, c)]
<1>0. t \in Tenants /\ reverses[r] \in ReverseRow /\ shared \in [Components -> [Tenants -> RowVersion]]
  BY DEF RoutingTypeOK
<1>1. rev = [reverses[r] EXCEPT
                !.status = IF routes[t].purged THEN "finalized-ready" ELSE "verified",
                !.baseline = SharedDigest(t), !.target = d, !.stored = TRUE]
  BY DEF Snapshot
<1> HIDE DEF t, rev
<1>2. SharedDigest(t) \in [Components -> Rows] /\ \A c \in Databases : SharedDigest(t)[c] = shared[c]
  <2>1. \A c \in Components : shared[c] \in [Tenants -> RowVersion] /\ [u \in {t} |-> shared[c][u]] \in [{t} -> RowVersion]
    BY <1>0
  <2>2. \A c \in Components : shared[c] \in Rows /\ [u \in {t} |-> shared[c][u]] \in Rows
    BY <1>0, <2>1 DEF Rows
  <2>3. QED  BY <2>2, TenancyAssumption DEF SharedDigest
<1>3. ASSUME NEW c \in Components
      PROVE  /\ StagedDatabase(t, c) \in [Tenants -> RowVersion] /\ StagedDatabase(t, c)[t] = Routed(t)[c]
             /\ \A u \in Tenants \ {t} : StagedDatabase(t, c)[u] = shared[c][u]
             /\ StagedDirectory(t, c) \in [{t} -> RowVersion] /\ StagedDirectory(t, c)[t] = Routed(t)[c]
  <2>1. Routed(t)[c] \in RowVersion /\ shared[c] \in [Tenants -> RowVersion]
    BY <1>0, RoutedIsContents
  <2>2. QED  BY <1>0, <2>1 DEF StagedDatabase, StagedDirectory
<1>4. d \in [Components -> Rows]
  <2>1. \A c \in Components : StagedDatabase(t, c) \in Rows /\ StagedDirectory(t, c) \in Rows
    BY <1>0, <1>3 DEF Rows
  <2>2. QED  BY <2>1
<1>5. /\ \A c \in Databases : d[c] = StagedDatabase(t, c) /\ c \in Components
      /\ \A c \in Components : d[c][t] = Routed(t)[c]
  BY <1>3, TenancyAssumption
<1> HIDE DEF d
<1>6. SharedDigest(t) \in Digests /\ d \in Digests
  BY <1>2, <1>4 DEF Digests
<1>7. /\ rev \in ReverseRow
      /\ rev.tenant = t /\ rev.gen = reverses[r].gen /\ rev.stored = TRUE
      /\ rev.source = reverses[r].source /\ rev.resume = reverses[r].resume
      /\ rev.status = IF routes[t].purged THEN "finalized-ready" ELSE "verified"
      /\ rev.baseline = SharedDigest(t) /\ rev.target = d
  BY <1>0, <1>1, <1>6 DEF ReverseRow, t
<1>8. QED
  BY <1>2, <1>3, <1>4, <1>5, <1>7 DEF t, rev

LEMMA RoutingTypeInit == RoutingInit => ReturnInv
<1>1. SUFFICES ASSUME RoutingInit PROVE ReturnInv
  OBVIOUS
<1>2. NoRows \in RowVersion /\ 1 \in RowVersion /\ 1 \in 1..MaxVersion /\ MaxVersion + 1 \in RowVersion
  BY TenancyAssumption DEF RowVersion, NoRows
<1>3. Gone \in Contents
  BY <1>2 DEF Gone, Contents
<1>4. RoutingTypeOK
  BY <1>1, <1>2, <1>3 DEF RoutingInit, RoutingTypeOK, SharedRoute, NoMigration, NoReverse, Idle, Shared,
     Digests, RouteRow, MigrationRow, ReverseRow, Operation
<1>5. QED
  BY <1>1, <1>4 DEF RoutingInit, ReturnInv, SlotsInOrder, RouteIsCutOver, SourceIsCutOver, OperationStands, SnapshotStands,
     SnapshotStatus, ReturnPathStands, SharedRoute, NoMigration, NoReverse, Idle, Shared, Isolated

LEMMA RoutingTypeStep == ReturnInv /\ [RoutingNext]_routingVars => RoutingTypeOK'
<1>1. SUFFICES ASSUME ReturnInv, [RoutingNext]_routingVars PROVE RoutingTypeOK'
  OBVIOUS
<1>t. RoutingTypeOK
  BY <1>1 DEF ReturnInv
<1>sh. shared \in [Components -> [Tenants -> RowVersion]]
  BY <1>t DEF RoutingTypeOK
<1>ge. generations \in [Generations -> Contents]
  BY <1>t DEF RoutingTypeOK
<1>ro. routes \in [Tenants -> RouteRow]
  BY <1>t DEF RoutingTypeOK
<1>mi. migrations \in [Generations -> MigrationRow]
  BY <1>t DEF RoutingTypeOK
<1>re. reverses \in [Reverses -> ReverseRow]
  BY <1>t DEF RoutingTypeOK
<1>op. operation \in Operation /\ Idle \in Operation
  BY <1>t DEF RoutingTypeOK, Operation, Idle
<1>la. latest \in [Tenants -> [Components -> 1..MaxVersion]]
  BY <1>t DEF RoutingTypeOK
<1>v. MaxVersion \in Nat /\ MaxVersion + 1 \in RowVersion /\ NoRows \in RowVersion
  BY TenancyAssumption DEF RowVersion, NoRows
<1>g. Gone \in Contents
  BY <1>v DEF Gone, Contents
<1>2. CASE UNCHANGED routingVars
  BY <1>t, <1>2 DEF routingVars, RoutingTypeOK
<1>3. ASSUME NEW t \in Tenants, NEW c \in Components, Write(t, c) \/ WriteUncounted(t, c)
      PROVE  RoutingTypeOK'
  <2>0. latest[t][c] < MaxVersion /\ Stored(t, c, latest[t][c] + 1)
        /\ latest' = [latest EXCEPT ![t][c] = @ + 1]
    BY <1>3 DEF Write, WriteUncounted
  <2>1. latest[t][c] + 1 \in 1..MaxVersion /\ latest[t][c] + 1 \in RowVersion
    <3>1. latest[t][c] \in 1..MaxVersion
      BY <1>la
    <3>2. QED  BY <1>v, <2>0, <3>1 DEF RowVersion
  <2>2. latest' \in [Tenants -> [Components -> 1..MaxVersion]]
    BY <1>la, <2>0, <2>1
  <2>3. shared' \in [Components -> [Tenants -> RowVersion]]
    BY <1>sh, <2>0, <2>1 DEF Stored
  <2>4. generations' \in [Generations -> Contents]
    <3>1. \A h \in Contents : [h EXCEPT ![c] = latest[t][c] + 1] \in Contents
      BY <2>1 DEF Contents
    <3>2. CASE Isolated(t)
      <4>1. generations' = [generations EXCEPT ![routes[t].gen][c] = latest[t][c] + 1]
        BY <2>0, <3>2 DEF Stored
      <4>2. QED  BY <1>ge, <3>1, <4>1
    <3>3. CASE ~Isolated(t)
      BY <1>ge, <2>0, <3>3 DEF Stored
    <3>4. QED  BY <3>2, <3>3
  <2>5. routes' \in [Tenants -> RouteRow]
    <3>2. routes' = [routes EXCEPT ![t].wrote = @ \/ Isolated(t)] \/ routes' = routes
      BY <1>3 DEF Write, WriteUncounted, note_write
    <3>3. (routes[t].wrote \/ Isolated(t)) \in BOOLEAN
      BY <1>ro DEF Isolated, RouteRow
    <3>4. QED  BY <1>ro, <3>2, <3>3 DEF RouteRow
  <2>6. busy' \subseteq Tenants
    BY <1>t, <1>3 DEF RoutingTypeOK, Write, WriteUncounted
  <2>7. QED
    BY <1>t, <1>3, <2>2, <2>3, <2>4, <2>5, <2>6 DEF RoutingTypeOK, Write, WriteUncounted
<1>4. ASSUME NEW t \in Movers, stage(t) PROVE RoutingTypeOK'
  <2>1. t \in Tenants /\ NextGeneration \in Generations /\ NextGeneration \in Nat
    BY <1>4, TenancyAssumption DEF stage, begin_migration, Generations
  <2>2. routes[t].gen \in {Shared} \cup Generations /\ routes[t].wrote \in BOOLEAN
    BY <1>t, <2>1, RoutedIsContents
  <2>3. [tenant |-> t, status |-> "copying", source |-> routes[t].gen, sourceWrote |-> routes[t].wrote,
         digest |-> Gone] \in MigrationRow
    BY <1>g, <2>1, <2>2 DEF MigrationRow
  <2>4. migrations' \in [Generations -> MigrationRow]
    BY <1>mi, <1>4, <2>3 DEF stage, begin_migration
  <2>5. operation' \in Operation
    BY <1>4, <2>1 DEF stage, Operation
  <2>6. QED
    BY <1>t, <1>4, <2>4, <2>5 DEF RoutingTypeOK, stage
<1>5. ASSUME NEW t \in Movers, stage_reverse(t) PROVE RoutingTypeOK'
  <2>1. t \in Tenants /\ NextReverse \in Reverses
    BY <1>5, TenancyAssumption DEF stage_reverse, begin_reverse
  <2>0. NextReverse \in Nat
    BY <2>1, TenancyAssumption DEF Reverses
  <2>2. routes[t].gen \in {Shared} \cup Generations /\ Routed(t) \in Contents
    BY <1>t, <2>1, RoutedIsContents
  <2>3. [NoReverse EXCEPT !.tenant = t, !.gen = routes[t].gen, !.status = "copying",
                          !.source = Routed(t)] \in ReverseRow
    BY <2>1, <2>2 DEF ReverseRow, NoReverse, Digests
  <2>4. reverses' \in [Reverses -> ReverseRow]
    BY <1>re, <1>5, <2>3 DEF stage_reverse, begin_reverse
  <2>5. operation' \in Operation
    BY <1>5, <2>0 DEF stage_reverse, Operation
  <2>6. QED
    BY <1>t, <1>5, <2>4, <2>5 DEF RoutingTypeOK, stage_reverse
<1>6. ASSUME NEW t \in Movers, execute_cleanup(t) PROVE RoutingTypeOK'
  <2>1. PICK G \in Cleanable(TerminalGenerations(t)), R \in Cleanable(TerminalReverses(t)) :
          /\ generations' = [g \in Generations |-> IF g \in G THEN Gone ELSE generations[g]]
          /\ reverses' = [r \in Reverses |->
                 IF r \in R THEN [reverses[r] EXCEPT !.stored = FALSE] ELSE reverses[r]]
    BY <1>6 DEF execute_cleanup
  <2>2. generations' \in [Generations -> Contents]
    BY <1>ge, <1>g, <2>1
  <2>3. reverses' \in [Reverses -> ReverseRow]
    <3>1. \A r \in Reverses : [reverses[r] EXCEPT !.stored = FALSE] \in ReverseRow
      BY <1>re DEF ReverseRow
    <3>2. QED  BY <1>re, <2>1, <3>1
  <2>4. QED
    BY <1>t, <1>6, <2>2, <2>3 DEF RoutingTypeOK, execute_cleanup
<1>7. CASE verified
  <2>1. operation.id \in Generations /\ migrations[operation.id].tenant \in Tenants
    BY <1>1, <1>7 DEF ReturnInv, OperationStands, SlotsInOrder, verified
  <2>2. Copied(migrations[operation.id].tenant) \in Contents
    <3>1. \A c \in Components : Routed(migrations[operation.id].tenant)[c] \in RowVersion
      BY <1>t, <2>1, RoutedIsContents
    <3>2. QED  BY <3>1 DEF Copied, CopiedDatabase, CopiedDirectory, Contents
  <2>3. generations' \in [Generations -> Contents]
    BY <1>ge, <1>7, <2>2 DEF verified
  <2>4. migrations' \in [Generations -> MigrationRow]
    BY <1>mi, <1>7, <2>1, <2>2 DEF verified, MigrationRow
  <2>5. QED
    BY <1>t, <1>op, <1>7, <2>3, <2>4 DEF RoutingTypeOK, verified
<1>8. CASE failed
  <2>1. migrations' \in [Generations -> MigrationRow]
    BY <1>mi, <1>8 DEF failed, MigrationRow
  <2>2. QED
    BY <1>t, <1>op, <1>8, <2>1 DEF RoutingTypeOK, failed
<1>9. ASSUME NEW g \in Generations, cutover(g) \/ rollback(g) PROVE RoutingTypeOK'
  <2>1. migrations' \in [Generations -> MigrationRow]
    BY <1>mi, <1>9 DEF cutover, rollback, MigrationRow
  <2>2. migrations[g].source \in {Shared} \cup Generations /\ migrations[g].sourceWrote \in BOOLEAN
    BY <1>mi DEF MigrationRow
  <2>3. routes' \in [Tenants -> RouteRow]
    <3>1. CASE cutover(g)
      BY <1>ro, <3>1 DEF cutover, CutoverRoute, RouteRow
    <3>2. CASE rollback(g)
      <4>1. migrations[g].tenant \in Tenants
        BY <1>1, <3>2 DEF ReturnInv, SlotsInOrder, rollback
      <4>2. [routes[migrations[g].tenant] EXCEPT !.gen = migrations[g].source,
                                                 !.wrote = migrations[g].sourceWrote] \in RouteRow
        BY <1>ro, <2>2, <4>1 DEF RouteRow
      <4>3. routes' = [routes EXCEPT ![migrations[g].tenant] =
                [routes[migrations[g].tenant] EXCEPT !.gen = migrations[g].source,
                                                     !.wrote = migrations[g].sourceWrote]]
        BY <1>ro, <3>2, <4>1 DEF rollback, RolledBackRoute
      <4>4. QED  BY <1>ro, <4>2, <4>3
    <3>3. QED  BY <1>9, <3>1, <3>2
  <2>4. QED
    BY <1>t, <1>9, <2>1, <2>3 DEF RoutingTypeOK, cutover, rollback
<1>10. CASE reverse_verified
  <2> DEFINE r == operation.id
             t == reverses[r].tenant
             rev == Snapshot(t, reverses[r])
  <2>1. r \in Reverses /\ t \in Tenants
    BY <1>1, <1>10 DEF ReturnInv, OperationStands, reverse_verified
  <2>2. rev \in ReverseRow
    BY <1>t, <1>re, <2>1, SnapshotRow
  <2>3. reverses' = Superseded(t, r, rev)
    BY <1>10 DEF reverse_verified
  <2> HIDE DEF r, t, rev
  <2>4. reverses' \in [Reverses -> ReverseRow]
    <3>1. \A s \in Reverses : [reverses[s] EXCEPT !.status = "superseded"] \in ReverseRow
      BY <1>re DEF ReverseRow
    <3>2. QED  BY <1>re, <2>2, <2>3, <3>1 DEF Superseded
  <2>5. QED
    BY <1>t, <1>op, <1>10, <2>4 DEF RoutingTypeOK, reverse_verified
<1>11. CASE reverse_failed \/ reverse_apply_failed
  <2>1. operation.id \in Reverses
    BY <1>1, <1>11 DEF ReturnInv, OperationStands, reverse_failed, reverse_apply_failed
  <2>3. reverses' \in [Reverses -> ReverseRow]
    <3>1. CASE reverse_failed
      <4>1. [reverses[operation.id] EXCEPT !.status = "failed"] \in ReverseRow
        BY <1>re, <2>1 DEF ReverseRow
      <4>2. reverses' = [reverses EXCEPT ![operation.id] = [reverses[operation.id] EXCEPT !.status = "failed"]]
        BY <1>re, <2>1, <3>1 DEF reverse_failed
      <4>3. QED  BY <1>re, <4>1, <4>2
    <3>2. CASE reverse_apply_failed
      <4> DEFINE rev == [reverses[operation.id] EXCEPT !.status = reverses[operation.id].resume, !.resume = ""]
      <4>1. rev \in ReverseRow
        <5>1. reverses[operation.id].status = "applying"
          BY <1>1, <3>2 DEF ReturnInv, OperationStands, reverse_apply_failed
        <5>2. reverses[operation.id].resume \in {"verified", "finalized-ready"}
          BY <1>1, <2>1, <5>1 DEF ReturnInv, SnapshotStands
        <5>3. reverses[operation.id] \in ReverseRow
          BY <1>re, <2>1
        <5>4. \A w \in ReverseRow, x \in {"verified", "finalized-ready"} :
                 [w EXCEPT !.status = x, !.resume = ""] \in ReverseRow
          BY DEF ReverseRow
        <5>5. QED  BY <5>2, <5>3, <5>4
      <4>2. reverses' = [reverses EXCEPT ![operation.id] = rev]
        BY <1>re, <2>1, <3>2 DEF reverse_apply_failed
      <4>3. QED  BY <1>re, <4>1, <4>2
    <3>3. QED  BY <1>11, <3>1, <3>2
  <2>4. QED
    BY <1>t, <1>op, <1>11, <2>3 DEF RoutingTypeOK, reverse_failed, reverse_apply_failed
<1>12. ASSUME NEW r \in Reverses, apply_reverse(r) \/ finalize_shared_source(r) PROVE RoutingTypeOK'
  <2>1. r \in Nat
    BY TenancyAssumption DEF Reverses
  <2>2. operation' \in Operation
    <3>1. \/ operation' = [kind |-> "apply", id |-> r, todo |-> Components]
          \/ operation' = [kind |-> "purge", id |-> r, todo |-> Components]
      BY <1>12 DEF apply_reverse, finalize_shared_source
    <3>2. [kind |-> "apply", id |-> r, todo |-> Components] \in Operation
          /\ [kind |-> "purge", id |-> r, todo |-> Components] \in Operation
      BY <2>1 DEF Operation
    <3>3. QED  BY <3>1, <3>2
  <2>3. reverses' \in [Reverses -> ReverseRow]
    <3>1. CASE apply_reverse(r)
      <4> DEFINE rev == [reverses[r] EXCEPT !.status = "applying", !.resume = reverses[r].status]
      <4>1. rev \in ReverseRow
        BY <1>re, <3>1 DEF apply_reverse, begin_reverse_apply, ReverseRow
      <4>2. reverses' = [reverses EXCEPT ![r] = rev]
        BY <1>re, <3>1 DEF apply_reverse, begin_reverse_apply
      <4>3. QED  BY <1>re, <4>1, <4>2
    <3>2. CASE finalize_shared_source(r)
      BY <1>re, <3>2 DEF finalize_shared_source
    <3>3. QED  BY <1>12, <3>1, <3>2
  <2>4. QED
    BY <1>t, <1>12, <2>2, <2>3 DEF RoutingTypeOK, apply_reverse, finalize_shared_source
<1>13. ASSUME NEW c \in Components, apply_component(c) PROVE RoutingTypeOK'
  <2>1. operation.id \in Reverses /\ reverses[operation.id].status \in SnapshotStatus
        /\ reverses[operation.id].tenant \in Tenants
    BY <1>1, <1>13 DEF ReturnInv, OperationStands, SnapshotStatus, apply_component
  <2>2. operation' \in Operation
    BY <1>op, <1>13 DEF apply_component, Operation
  <2>3. shared' \in [Components -> [Tenants -> RowVersion]]
    <3>1. CASE c \in Databases
      <4>1. reverses[operation.id].target[c] \in [Tenants -> RowVersion]
        BY <1>1, <2>1, <3>1 DEF ReturnInv, SnapshotStands
      <4>2. QED
        BY <1>sh, <1>13, <3>1, <4>1 DEF apply_component, AppliedDatabase
    <3>2. CASE c \notin Databases
      <4>1. reverses[operation.id].target[c][reverses[operation.id].tenant] \in RowVersion
        BY <1>1, <2>1, <3>2 DEF ReturnInv, SnapshotStands
      <4>2. QED
        BY <1>sh, <1>13, <2>1, <3>2, <4>1 DEF apply_component, AppliedDirectory
    <3>3. QED  BY <3>1, <3>2
  <2>4. QED
    BY <1>t, <1>13, <2>2, <2>3 DEF RoutingTypeOK, apply_component
<1>14. ASSUME NEW c \in Components, purge_component(c) PROVE RoutingTypeOK'
  <2>1. operation' \in Operation
    BY <1>op, <1>14 DEF purge_component, Operation
  <2>2. shared' \in [Components -> [Tenants -> RowVersion]]
    BY <1>sh, <1>v, <1>14 DEF purge_component
  <2>3. QED
    BY <1>t, <1>14, <2>1, <2>2 DEF RoutingTypeOK, purge_component
<1>15. CASE reverse_applied
  <2>1. SharedRoute \in RouteRow
    BY DEF SharedRoute, RouteRow
  <2>2. routes' \in [Tenants -> RouteRow]
    BY <1>ro, <1>15, <2>1 DEF reverse_applied
  <2>3. migrations' \in [Generations -> MigrationRow]
    BY <1>mi, <1>15 DEF reverse_applied, MigrationRow
  <2>4. reverses' \in [Reverses -> ReverseRow]
    <3> DEFINE rev == [reverses[operation.id] EXCEPT !.status = "applied", !.resume = ""]
    <3>1. operation.id \in Reverses
      BY <1>1, <1>15 DEF ReturnInv, OperationStands, reverse_applied
    <3>2. rev \in ReverseRow
      BY <1>re, <3>1 DEF ReverseRow
    <3>3. reverses' = [reverses EXCEPT ![operation.id] = rev]
      BY <1>re, <1>15, <3>1 DEF reverse_applied
    <3>4. QED  BY <1>re, <3>2, <3>3
  <2>5. QED
    BY <1>t, <1>op, <1>15, <2>2, <2>3, <2>4 DEF RoutingTypeOK, reverse_applied
<1>16. CASE reverse_finalized
  <2>1. operation.id \in Reverses /\ reverses[operation.id].status \in SnapshotStatus
    BY <1>1, <1>16 DEF ReturnInv, OperationStands, SnapshotStatus, reverse_finalized
  <2>2. [c \in Components |-> PurgedDigest(operation.id, c)] \in [Components -> Rows]
    <3>1. reverses[operation.id].baseline \in [Components -> Rows]
      BY <1>1, <2>1 DEF ReturnInv, SnapshotStands
    <3>2. ASSUME NEW c \in Components PROVE PurgedDigest(operation.id, c) \in Rows
      <4>1. PICK S \in SUBSET Tenants : reverses[operation.id].baseline[c] \in [S -> RowVersion]
        <5>1. reverses[operation.id].baseline[c] \in Rows
          BY <3>1
        <5>2. QED  BY <5>1 DEF Rows
      <4>2. PurgedDigest(operation.id, c) \in [S -> RowVersion]
        BY <1>v, <4>1 DEF PurgedDigest
      <4>3. QED  BY <4>2 DEF Rows
    <3>3. QED  BY <3>2
  <2>3. reverses' \in [Reverses -> ReverseRow]
    <3> DEFINE d == [c \in Components |-> PurgedDigest(operation.id, c)]
    <3>1. d \in Digests
      BY <2>2 DEF Digests
    <3>2. reverses' = [reverses EXCEPT ![operation.id].status = "finalized-ready", ![operation.id].baseline = d]
      BY <1>16 DEF reverse_finalized
    <3> HIDE DEF d
    <3> DEFINE rev == [reverses[operation.id] EXCEPT !.status = "finalized-ready", !.baseline = d]
    <3>3. rev \in ReverseRow
      BY <1>re, <2>1, <3>1 DEF ReverseRow
    <3>4. reverses' = [reverses EXCEPT ![operation.id] = rev]
      BY <1>re, <2>1, <3>2
    <3>5. QED  BY <1>re, <3>3, <3>4
  <2>4. routes' \in [Tenants -> RouteRow]
    BY <1>ro, <1>16 DEF reverse_finalized, RouteRow
  <2>5. QED
    BY <1>t, <1>op, <1>16, <2>3, <2>4 DEF RoutingTypeOK, reverse_finalized
<1>17. CASE RegistryRestart
  <2>1. \A r \in Reverses : Recovered(reverses[r]) \in ReverseRow
    BY <1>1, <1>re DEF ReverseRow, Recovered, ReturnInv, SnapshotStands
  <2>2. QED
    BY <1>t, <1>op, <1>17, <2>1 DEF RoutingTypeOK, RegistryRestart
<1>18. QED
  BY <1>1, <1>2, <1>3, <1>4, <1>5, <1>6, <1>7, <1>8, <1>9, <1>10, <1>11, <1>12, <1>13, <1>14, <1>15,
     <1>16, <1>17 DEF RoutingNext
-----------------------------------------------------------------------------
\* What the steps make of the rows of migrations and snapshots.

LEMMA MigrationStatus ==
    ASSUME RoutingTypeOK, NEW g \in Generations, NEW x,
           migrations' = [migrations EXCEPT ![g].status = x]
    PROVE  /\ migrations'[g].status = x
           /\ \A h \in Generations : h # g => migrations'[h] = migrations[h]
           /\ \A h \in Generations :
                 /\ migrations'[h].tenant = migrations[h].tenant
                 /\ migrations'[h].source = migrations[h].source
                 /\ migrations'[h].sourceWrote = migrations[h].sourceWrote
                 /\ migrations'[h].digest = migrations[h].digest
<1>1. migrations \in [Generations -> MigrationRow]
  BY DEF RoutingTypeOK
<1>2. QED  BY <1>1 DEF MigrationRow

LEMMA MigrationVerified ==
    ASSUME RoutingTypeOK, NEW g \in Generations, NEW d,
           migrations' = [migrations EXCEPT ![g].status = "verified", ![g].digest = d]
    PROVE  /\ migrations'[g].status = "verified" /\ migrations'[g].digest = d
           /\ \A h \in Generations : h # g => migrations'[h] = migrations[h]
           /\ \A h \in Generations :
                 /\ migrations'[h].tenant = migrations[h].tenant
                 /\ migrations'[h].source = migrations[h].source
                 /\ migrations'[h].sourceWrote = migrations[h].sourceWrote
<1>1. migrations \in [Generations -> MigrationRow]
  BY DEF RoutingTypeOK
<1>2. QED  BY <1>1 DEF MigrationRow

LEMMA ReverseStatus ==
    ASSUME RoutingTypeOK, NEW r \in Reverses, NEW x, NEW y,
           reverses' = [reverses EXCEPT ![r].status = x, ![r].resume = y]
    PROVE  /\ reverses'[r].status = x /\ reverses'[r].resume = y
           /\ \A q \in Reverses : q # r => reverses'[q] = reverses[q]
           /\ \A q \in Reverses :
                 /\ reverses'[q].tenant = reverses[q].tenant
                 /\ reverses'[q].gen = reverses[q].gen
                 /\ reverses'[q].source = reverses[q].source
                 /\ reverses'[q].baseline = reverses[q].baseline
                 /\ reverses'[q].target = reverses[q].target
                 /\ reverses'[q].stored = reverses[q].stored
<1>1. reverses \in [Reverses -> ReverseRow]
  BY DEF RoutingTypeOK
<1>2. QED  BY <1>1 DEF ReverseRow

\* The rows that stay none stay free, the others keep their tenants.
LEMMA SlotsKept ==
    ASSUME SlotsInOrder,
           \A g \in Generations : /\ migrations'[g].status = "none" <=> migrations[g].status = "none"
                                  /\ migrations'[g].tenant = migrations[g].tenant,
           \A r \in Reverses : /\ reverses'[r].status = "none" <=> reverses[r].status = "none"
                               /\ reverses'[r].tenant = reverses[r].tenant
    PROVE  SlotsInOrder'
BY DEF SlotsInOrder

LEMMA StageKeeps ==
    ASSUME ReturnInv, NEW t \in Movers, stage(t)
    PROVE  /\ NextGeneration \in Generations
           /\ migrations[NextGeneration].status = "none"
           /\ \A g \in Generations : g < NextGeneration => migrations[g].status # "none"
           /\ \A g \in Generations : g > NextGeneration => migrations[g].status = "none"
           /\ migrations'[NextGeneration] =
                 [tenant |-> t, status |-> "copying", source |-> routes[t].gen,
                  sourceWrote |-> routes[t].wrote, digest |-> Gone]
           /\ \A g \in Generations : g # NextGeneration => migrations'[g] = migrations[g]
<1>1. NextGeneration \in Generations
  BY DEF stage, begin_migration
<1>2. \A g \in Generations : migrations[g].status = "none" <=> g >= NextGeneration
  BY <1>1, NextGenerationIsFree DEF ReturnInv
<1>3. \A g \in Generations : g \in Int
  BY TenancyAssumption DEF Generations
<1>4. migrations \in [Generations -> MigrationRow]
  BY DEF ReturnInv, RoutingTypeOK
<1>5. QED
  BY <1>1, <1>2, <1>3, <1>4 DEF stage, begin_migration

LEMMA StageReverseKeeps ==
    ASSUME ReturnInv, NEW t \in Movers, stage_reverse(t)
    PROVE  /\ NextReverse \in Reverses
           /\ reverses[NextReverse].status = "none"
           /\ \A r \in Reverses : r < NextReverse => reverses[r].status # "none"
           /\ \A r \in Reverses : r > NextReverse => reverses[r].status = "none"
           /\ reverses'[NextReverse].tenant = t
           /\ reverses'[NextReverse].gen = routes[t].gen
           /\ reverses'[NextReverse].status = "copying"
           /\ reverses'[NextReverse].source = Routed(t)
           /\ \A r \in Reverses : r # NextReverse => reverses'[r] = reverses[r]
<1>1. NextReverse \in Reverses
  BY DEF stage_reverse, begin_reverse
<1>2. \A r \in Reverses : reverses[r].status = "none" <=> r >= NextReverse
  BY <1>1, NextReverseIsFree DEF ReturnInv
<1>3. \A r \in Reverses : r \in Int
  BY TenancyAssumption DEF Reverses
<1>4. reverses \in [Reverses -> ReverseRow]
  BY DEF ReturnInv, RoutingTypeOK
<1>5. QED
  <2> DEFINE e == [NoReverse EXCEPT !.tenant = t, !.gen = routes[t].gen, !.status = "copying",
                                   !.source = Routed(t)]
  <2>1. e.tenant = t /\ e.gen = routes[t].gen /\ e.status = "copying" /\ e.source = Routed(t)
    BY DEF NoReverse
  <2>2. reverses' = [reverses EXCEPT ![NextReverse] = e]
    BY DEF stage_reverse, begin_reverse
  <2> HIDE DEF e
  <2>3. QED  BY <1>1, <1>2, <1>3, <1>4, <2>1, <2>2

LEMMA RestartKeeps ==
    ASSUME ReturnInv, RegistryRestart
    PROVE  \A r \in Reverses :
           /\ reverses[r].status = "copying" => reverses'[r] = [reverses[r] EXCEPT !.status = "failed"]
           /\ reverses[r].status = "applying" => reverses'[r].status = reverses[r].resume
           /\ reverses[r].status \notin {"copying", "applying"} => reverses'[r] = reverses[r]
           /\ reverses'[r].tenant = reverses[r].tenant
           /\ reverses'[r].gen = reverses[r].gen
           /\ reverses'[r].source = reverses[r].source
           /\ reverses'[r].baseline = reverses[r].baseline
           /\ reverses'[r].target = reverses[r].target
           /\ reverses'[r].stored = reverses[r].stored
           /\ reverses'[r].status = "none" <=> reverses[r].status = "none"
           /\ reverses'[r].status \in SnapshotStatus => reverses[r].status \in SnapshotStatus
           /\ reverses'[r].status # "applying"
<1>1. SUFFICES ASSUME NEW r \in Reverses
               PROVE  /\ reverses[r].status = "copying" => reverses'[r] = [reverses[r] EXCEPT !.status = "failed"]
                      /\ reverses[r].status = "applying" => reverses'[r].status = reverses[r].resume
                      /\ reverses[r].status \notin {"copying", "applying"} => reverses'[r] = reverses[r]
                      /\ reverses'[r].tenant = reverses[r].tenant
                      /\ reverses'[r].gen = reverses[r].gen
                      /\ reverses'[r].source = reverses[r].source
                      /\ reverses'[r].baseline = reverses[r].baseline
                      /\ reverses'[r].target = reverses[r].target
                      /\ reverses'[r].stored = reverses[r].stored
                      /\ reverses'[r].status = "none" <=> reverses[r].status = "none"
                      /\ reverses'[r].status \in SnapshotStatus => reverses[r].status \in SnapshotStatus
                      /\ reverses'[r].status # "applying"
  OBVIOUS
<1>2. reverses[r] \in ReverseRow /\ reverses'[r] = Recovered(reverses[r])
  BY DEF ReturnInv, RoutingTypeOK, RegistryRestart
<1>3. CASE reverses[r].status = "applying"
  <2>1. reverses'[r] = [reverses[r] EXCEPT !.status = reverses[r].resume, !.resume = ""]
    BY <1>2, <1>3 DEF Recovered
  <2>2. reverses[r].resume \in {"verified", "finalized-ready"}
    BY <1>3 DEF ReturnInv, SnapshotStands
  <2>3. QED  BY <1>2, <1>3, <2>1, <2>2 DEF ReverseRow, SnapshotStatus
<1>4. CASE reverses[r].status # "applying"
  BY <1>2, <1>4 DEF Recovered, ReverseRow, SnapshotStatus
<1>5. QED  BY <1>3, <1>4

LEMMA CleanupKeeps ==
    ASSUME ReturnInv, NEW t \in Movers, execute_cleanup(t)
    PROVE  /\ \A r \in Reverses :
                /\ reverses'[r].tenant = reverses[r].tenant
                /\ reverses'[r].gen = reverses[r].gen
                /\ reverses'[r].status = reverses[r].status
                /\ reverses'[r].resume = reverses[r].resume
                /\ reverses'[r].source = reverses[r].source
                /\ reverses'[r].baseline = reverses[r].baseline
                /\ reverses'[r].target = reverses[r].target
                /\ reverses[r].status \in SnapshotStatus => reverses'[r].stored = reverses[r].stored
           /\ \A u \in Tenants : Isolated(u) => generations'[routes[u].gen] = generations[routes[u].gen]
<1>1. PICK G \in Cleanable(TerminalGenerations(t)), R \in Cleanable(TerminalReverses(t)) :
          /\ generations' = [g \in Generations |-> IF g \in G THEN Gone ELSE generations[g]]
          /\ reverses' = [r \in Reverses |->
                 IF r \in R THEN [reverses[r] EXCEPT !.stored = FALSE] ELSE reverses[r]]
  BY DEF execute_cleanup
<1>2. G \subseteq TerminalGenerations(t) /\ R \subseteq TerminalReverses(t)
  BY DEF Cleanable
<1>3. \A r \in R : reverses[r].status \notin SnapshotStatus
  BY <1>2 DEF TerminalReverses, SnapshotStatus
<1>4. ASSUME NEW r \in Reverses
      PROVE  /\ reverses'[r].tenant = reverses[r].tenant
             /\ reverses'[r].gen = reverses[r].gen
             /\ reverses'[r].status = reverses[r].status
             /\ reverses'[r].resume = reverses[r].resume
             /\ reverses'[r].source = reverses[r].source
             /\ reverses'[r].baseline = reverses[r].baseline
             /\ reverses'[r].target = reverses[r].target
             /\ reverses[r].status \in SnapshotStatus => reverses'[r].stored = reverses[r].stored
  <2>1. reverses[r] \in ReverseRow
    BY DEF ReturnInv, RoutingTypeOK
  <2>2. reverses'[r] = IF r \in R THEN [reverses[r] EXCEPT !.stored = FALSE] ELSE reverses[r]
    BY <1>1
  <2>3. QED  BY <1>3, <2>1, <2>2 DEF ReverseRow
<1>5. ASSUME NEW u \in Tenants, Isolated(u) PROVE generations'[routes[u].gen] = generations[routes[u].gen]
  <2>1. routes[u].gen \in Generations
    BY <1>5, RoutedIsContents DEF ReturnInv
  <2>2. routes[u].gen \in ActiveGenerations
    BY <1>5 DEF ActiveGenerations, Isolated
  <2>3. routes[u].gen \notin G
    BY <1>2, <2>2 DEF TerminalGenerations, Protected
  <2>4. QED  BY <1>1, <2>1, <2>3
<1>6. QED  BY <1>4, <1>5

LEMMA SnapshotKeeps ==
    ASSUME ReturnInv, reverse_verified
    PROVE  LET r == operation.id
               t == reverses[r].tenant
           IN /\ r \in Reverses /\ t \in Tenants /\ routes[t].gen = reverses[r].gen
              /\ Isolated(t) /\ Routed(t) = reverses[r].source
              /\ reverses[r].status = "copying"
              /\ reverses'[r] = Snapshot(t, reverses[r])
              /\ reverses'[r].status = IF routes[t].purged THEN "finalized-ready" ELSE "verified"
              /\ \A q \in Reverses :
                    /\ reverses'[q].tenant = reverses[q].tenant
                    /\ reverses'[q].gen = reverses[q].gen
                    /\ reverses'[q].source = reverses[q].source
                    /\ reverses'[q].resume = reverses[q].resume
                    /\ reverses'[q].status = "none" <=> reverses[q].status = "none"
                    /\ q # r => /\ reverses'[q].baseline = reverses[q].baseline
                                /\ reverses'[q].target = reverses[q].target
                                /\ reverses'[q].stored = reverses[q].stored
                                /\ reverses'[q].status \in {reverses[q].status, "superseded"}
                                /\ reverses[q].tenant # t => reverses'[q].status = reverses[q].status
<1> DEFINE r == operation.id
           t == reverses[r].tenant
           rev == Snapshot(t, reverses[r])
<1>1. /\ r \in Reverses /\ t \in Tenants /\ routes[t].gen = reverses[r].gen
      /\ Isolated(t) /\ Routed(t) = reverses[r].source
      /\ reverses[r].status = "copying"
  BY DEF ReturnInv, OperationStands, reverse_verified
<1>2. /\ rev.tenant = t /\ rev.gen = reverses[r].gen /\ rev.source = reverses[r].source
      /\ rev.resume = reverses[r].resume
      /\ rev.status = IF routes[t].purged THEN "finalized-ready" ELSE "verified"
  BY <1>1, SnapshotRow DEF ReturnInv
<1>3. reverses' = Superseded(t, r, rev) /\ reverses \in [Reverses -> ReverseRow]
  BY DEF reverse_verified, ReturnInv, RoutingTypeOK
<1> HIDE DEF r, t, rev
<1>4. reverses'[r] = rev
  BY <1>1, <1>3 DEF Superseded
<1>5. ASSUME NEW q \in Reverses, q # r
      PROVE  /\ reverses'[q].tenant = reverses[q].tenant
             /\ reverses'[q].gen = reverses[q].gen
             /\ reverses'[q].source = reverses[q].source
             /\ reverses'[q].resume = reverses[q].resume
             /\ reverses'[q].status = "none" <=> reverses[q].status = "none"
             /\ reverses'[q].baseline = reverses[q].baseline
             /\ reverses'[q].target = reverses[q].target
             /\ reverses'[q].stored = reverses[q].stored
             /\ reverses'[q].status \in {reverses[q].status, "superseded"}
             /\ reverses[q].tenant # t => reverses'[q].status = reverses[q].status
  <2>1. reverses[q] \in ReverseRow
    BY <1>3
  <2>2. CASE reverses[q].tenant = t /\ reverses[q].status \in {"verified", "finalized-ready"}
    <3>1. reverses'[q] = [reverses[q] EXCEPT !.status = "superseded"]
      BY <1>3, <1>5, <2>2 DEF Superseded
    <3>2. QED  BY <2>1, <2>2, <3>1 DEF ReverseRow
  <2>3. CASE ~(reverses[q].tenant = t /\ reverses[q].status \in {"verified", "finalized-ready"})
    <3>1. reverses'[q] = reverses[q]
      BY <1>3, <1>5, <2>3 DEF Superseded
    <3>2. QED  BY <3>1
  <2>4. QED  BY <2>2, <2>3
<1>6. reverses'[r].status # "none"
  BY <1>2, <1>4
<1>7. QED
  BY <1>1, <1>2, <1>4, <1>5, <1>6 DEF r, t, rev

LEMMA AppliedIsRouted ==
    ASSUME ReturnInv, operation.kind \in {"reverse copy", "apply", "purge"}
    PROVE  LET r == operation.id
               t == reverses[r].tenant
           IN /\ r \in Reverses /\ t \in Tenants
              /\ Isolated(t)
              /\ routes[t].gen = reverses[r].gen /\ Routed(t) = reverses[r].source
              /\ operation.kind = "reverse copy" => reverses[r].status = "copying"
              /\ operation.kind = "apply" => reverses[r].status = "applying"
              /\ operation.kind = "purge" => reverses[r].status = "verified"
              /\ reverses[r].gen \in Generations
              /\ migrations[reverses[r].gen].status = "cutover"
              /\ migrations[reverses[r].gen].tenant = t
<1>1. RoutingTypeOK /\ OperationStands /\ RouteIsCutOver
  BY DEF ReturnInv
<1> DEFINE r == operation.id
           t == reverses[r].tenant
<1>2. /\ r \in Reverses /\ t \in Tenants /\ Isolated(t)
      /\ routes[t].gen = reverses[r].gen /\ Routed(t) = reverses[r].source
      /\ operation.kind = "reverse copy" => reverses[r].status = "copying"
      /\ operation.kind = "apply" => reverses[r].status = "applying"
      /\ operation.kind = "purge" => reverses[r].status = "verified"
  BY <1>1 DEF OperationStands
<1>3. routes[t].gen \in Generations
  BY <1>1, <1>2, RoutedIsContents
<1>4. migrations[routes[t].gen].tenant = t /\ migrations[routes[t].gen].status = "cutover"
  BY <1>1, <1>2 DEF RouteIsCutOver
<1>5. QED  BY <1>2, <1>3, <1>4

\* The rows of a tenant vanish from what a snapshot would find.
LEMMA PurgedRow ==
    ASSUME ReturnInv, reverse_finalized
    PROVE  LET r == operation.id
               t == reverses[r].tenant
           IN /\ r \in Reverses /\ t \in Tenants /\ routes[t].gen = reverses[r].gen
              /\ reverses'[r].status = "finalized-ready"
              /\ reverses'[r].baseline \in [Components -> Rows]
              /\ \A c \in Components : reverses'[r].baseline[c] = PurgedDigest(r, c)
              /\ \A q \in Reverses : q # r => reverses'[q] = reverses[q]
              /\ \A q \in Reverses :
                   /\ reverses'[q].tenant = reverses[q].tenant
                   /\ reverses'[q].gen = reverses[q].gen
                   /\ reverses'[q].source = reverses[q].source
                   /\ reverses'[q].resume = reverses[q].resume
                   /\ reverses'[q].target = reverses[q].target
                   /\ reverses'[q].stored = reverses[q].stored
              /\ routes'[t].purged
              /\ \A u \in Tenants : /\ routes'[u].gen = routes[u].gen
                                    /\ routes'[u].wrote = routes[u].wrote
                                    /\ u # t => routes'[u] = routes[u]
<1> DEFINE r == operation.id
           t == reverses[r].tenant
           d == [c \in Components |-> PurgedDigest(r, c)]
<1>1. /\ r \in Reverses /\ t \in Tenants /\ routes[t].gen = reverses[r].gen
      /\ reverses[r].status \in SnapshotStatus
  BY DEF ReturnInv, OperationStands, SnapshotStatus, reverse_finalized
<1>2. d \in [Components -> Rows]
  <2>1. reverses[r].baseline \in [Components -> Rows]
    BY <1>1 DEF ReturnInv, SnapshotStands
  <2>2. ASSUME NEW c \in Components PROVE PurgedDigest(r, c) \in Rows
    <3>1. PICK S \in SUBSET Tenants : reverses[r].baseline[c] \in [S -> RowVersion]
      <4>1. reverses[r].baseline[c] \in Rows
        BY <2>1
      <4>2. QED  BY <4>1 DEF Rows
    <3>2. NoRows \in RowVersion
      BY TenancyAssumption DEF RowVersion, NoRows
    <3>3. PurgedDigest(r, c) \in [S -> RowVersion]
      BY <3>1, <3>2 DEF PurgedDigest
    <3>4. QED  BY <3>3 DEF Rows
  <2>3. QED  BY <2>2
<1>3. \A c \in Components : d[c] = PurgedDigest(r, c)
  OBVIOUS
<1>4. /\ reverses' = [reverses EXCEPT ![r].status = "finalized-ready", ![r].baseline = d]
      /\ routes' = [routes EXCEPT ![t].purged = TRUE]
  BY DEF reverse_finalized
<1>5. reverses \in [Reverses -> ReverseRow] /\ routes \in [Tenants -> RouteRow]
  BY DEF ReturnInv, RoutingTypeOK
<1> HIDE DEF r, t, d
<1>6. /\ reverses'[r].status = "finalized-ready" /\ reverses'[r].baseline = d
      /\ \A q \in Reverses : q # r => reverses'[q] = reverses[q]
      /\ \A q \in Reverses :
           /\ reverses'[q].tenant = reverses[q].tenant
           /\ reverses'[q].gen = reverses[q].gen
           /\ reverses'[q].source = reverses[q].source
           /\ reverses'[q].resume = reverses[q].resume
           /\ reverses'[q].target = reverses[q].target
           /\ reverses'[q].stored = reverses[q].stored
  BY <1>1, <1>4, <1>5 DEF ReverseRow
<1>7. /\ routes'[t].purged
      /\ \A u \in Tenants : /\ routes'[u].gen = routes[u].gen
                            /\ routes'[u].wrote = routes[u].wrote
                            /\ u # t => routes'[u] = routes[u]
  BY <1>1, <1>4, <1>5 DEF RouteRow
<1>8. QED
  BY <1>1, <1>2, <1>3, <1>6, <1>7 DEF r, t
-----------------------------------------------------------------------------
LEMMA SlotsStep == ReturnInv /\ [RoutingNext]_routingVars => SlotsInOrder'
<1>1. SUFFICES ASSUME ReturnInv, [RoutingNext]_routingVars PROVE SlotsInOrder'
  OBVIOUS
<1>t. RoutingTypeOK /\ SlotsInOrder
  BY <1>1 DEF ReturnInv
<1>2. CASE UNCHANGED <<migrations, reverses>>
  BY <1>t, <1>2 DEF SlotsInOrder
<1>3. ASSUME NEW t \in Movers, stage(t) PROVE SlotsInOrder'
  <2>1. UNCHANGED reverses /\ t \in Tenants
    BY <1>3, TenancyAssumption DEF stage
  <2>2. \A g \in Generations : g \in Int
    BY TenancyAssumption DEF Generations
  <2>3. QED
    <3> DEFINE n == NextGeneration
    <3>1. /\ n \in Generations /\ migrations[n].status = "none"
          /\ \A g \in Generations : g < n => migrations[g].status # "none"
          /\ \A g \in Generations : g > n => migrations[g].status = "none"
          /\ migrations'[n].tenant = t /\ migrations'[n].status = "copying"
          /\ \A g \in Generations : g # n => migrations'[g] = migrations[g]
      <4>1. /\ n \in Generations /\ migrations[n].status = "none"
            /\ \A g \in Generations : g < n => migrations[g].status # "none"
            /\ \A g \in Generations : g > n => migrations[g].status = "none"
            /\ migrations'[n] =
                 [tenant |-> t, status |-> "copying", source |-> routes[t].gen,
                  sourceWrote |-> routes[t].wrote, digest |-> Gone]
            /\ \A g \in Generations : g # n => migrations'[g] = migrations[g]
        BY <1>1, <1>3, StageKeeps, Zenon
      <4>2. QED  BY <4>1
    <3> HIDE DEF n
    <3>2. ASSUME NEW g \in Generations, migrations'[g].status # "none"
          PROVE  /\ migrations'[g].tenant \in Tenants
                 /\ \A h \in Generations : h < g => migrations'[h].status # "none"
      <4>1. g <= n
        BY <2>2, <3>1, <3>2
      <4>2. QED  BY <1>t, <2>1, <2>2, <3>1, <3>2, <4>1 DEF SlotsInOrder
    <3>3. QED  BY <1>t, <2>1, <3>2 DEF SlotsInOrder
<1>4. ASSUME NEW t \in Movers, stage_reverse(t) PROVE SlotsInOrder'
  <2>1. UNCHANGED migrations /\ t \in Tenants
    BY <1>4, TenancyAssumption DEF stage_reverse
  <2>2. \A r \in Reverses : r \in Int
    BY TenancyAssumption DEF Reverses
  <2>3. QED
    <3>1. /\ NextReverse \in Reverses /\ reverses[NextReverse].status = "none"
          /\ \A r \in Reverses : r < NextReverse => reverses[r].status # "none"
          /\ \A r \in Reverses : r > NextReverse => reverses[r].status = "none"
          /\ reverses'[NextReverse].tenant = t /\ reverses'[NextReverse].status = "copying"
          /\ \A r \in Reverses : r # NextReverse => reverses'[r] = reverses[r]
      BY <1>1, <1>4, StageReverseKeeps
    <3>2. QED  BY <1>t, <2>1, <2>2, <3>1 DEF SlotsInOrder
<1>5. ASSUME NEW t \in Movers, execute_cleanup(t) PROVE SlotsInOrder'
  <2>1. \A r \in Reverses : reverses'[r].status = reverses[r].status /\ reverses'[r].tenant = reverses[r].tenant
    BY <1>1, <1>5, CleanupKeeps
  <2>2. UNCHANGED migrations
    BY <1>5 DEF execute_cleanup
  <2>3. QED  BY <1>t, <2>1, <2>2, SlotsKept
<1>6. CASE verified
  <2>1. operation.id \in Generations /\ migrations[operation.id].status = "copying"
    BY <1>1, <1>6 DEF ReturnInv, OperationStands, verified
  <2>2. UNCHANGED reverses
    BY <1>6 DEF verified
  <2>3. /\ migrations'[operation.id].status = "verified"
        /\ \A h \in Generations : h # operation.id => migrations'[h] = migrations[h]
        /\ \A h \in Generations : migrations'[h].tenant = migrations[h].tenant
    BY <1>t, <1>6, <2>1, MigrationVerified DEF verified
  <2>4. QED  BY <1>t, <2>1, <2>2, <2>3, SlotsKept
<1>7. CASE failed
  <2>1. operation.id \in Generations /\ migrations[operation.id].status = "copying"
    BY <1>1, <1>7 DEF ReturnInv, OperationStands, failed
  <2>2. UNCHANGED reverses
    BY <1>7 DEF failed
  <2>3. /\ migrations'[operation.id].status = "failed"
        /\ \A h \in Generations : h # operation.id => migrations'[h] = migrations[h]
        /\ \A h \in Generations : migrations'[h].tenant = migrations[h].tenant
    BY <1>t, <1>7, <2>1, MigrationStatus DEF failed
  <2>4. QED  BY <1>t, <2>1, <2>2, <2>3, SlotsKept
<1>8. ASSUME NEW g \in Generations, cutover(g) \/ rollback(g) PROVE SlotsInOrder'
  <2>1. migrations[g].status # "none" /\ UNCHANGED reverses
    BY <1>8 DEF cutover, rollback
  <2>2. /\ migrations'[g].status # "none"
        /\ \A h \in Generations : h # g => migrations'[h] = migrations[h]
        /\ \A h \in Generations : migrations'[h].tenant = migrations[h].tenant
    BY <1>t, <1>8, MigrationStatus DEF cutover, rollback
  <2>3. QED  BY <1>t, <2>1, <2>2, SlotsKept
<1>9. CASE reverse_verified
  <2>1. UNCHANGED migrations
    BY <1>9 DEF reverse_verified
  <2>2. \A r \in Reverses : /\ reverses'[r].status = "none" <=> reverses[r].status = "none"
                            /\ reverses'[r].tenant = reverses[r].tenant
    BY <1>1, <1>9, SnapshotKeeps DEF SnapshotStatus
  <2>3. QED  BY <1>t, <2>1, <2>2, SlotsKept
<1>10. CASE reverse_failed
  <2>1. operation.id \in Reverses /\ reverses[operation.id].status = "copying"
    BY <1>1, <1>10 DEF ReturnInv, OperationStands, reverse_failed
  <2>2. UNCHANGED migrations /\ reverses' = [reverses EXCEPT ![operation.id].status = "failed"]
    BY <1>10 DEF reverse_failed
  <2>3. reverses \in [Reverses -> ReverseRow]
    BY <1>t DEF RoutingTypeOK
  <2>4. \A r \in Reverses : /\ reverses'[r].status = "none" <=> reverses[r].status = "none"
                            /\ reverses'[r].tenant = reverses[r].tenant
    BY <2>1, <2>2, <2>3 DEF ReverseRow
  <2>5. QED  BY <1>t, <2>2, <2>4, SlotsKept
<1>11. CASE reverse_apply_failed
  <2>1. operation.id \in Reverses /\ reverses[operation.id].status = "applying"
    BY <1>1, <1>11 DEF ReturnInv, OperationStands, reverse_apply_failed
  <2>2. reverses[operation.id].resume \in {"verified", "finalized-ready"}
    BY <1>1, <2>1 DEF ReturnInv, SnapshotStands
  <2>3. UNCHANGED migrations
    BY <1>11 DEF reverse_apply_failed
  <2>4. /\ reverses'[operation.id].status = reverses[operation.id].resume
        /\ \A r \in Reverses : r # operation.id => reverses'[r] = reverses[r]
        /\ \A r \in Reverses : reverses'[r].tenant = reverses[r].tenant
    BY <1>t, <1>11, <2>1, ReverseStatus DEF reverse_apply_failed
  <2>5. QED  BY <1>t, <2>1, <2>2, <2>3, <2>4, SlotsKept
<1>12. ASSUME NEW r \in Reverses, apply_reverse(r) PROVE SlotsInOrder'
  <2>1. reverses[r].status # "none" /\ UNCHANGED migrations
    BY <1>12 DEF apply_reverse, begin_reverse_apply
  <2>2. /\ reverses'[r].status = "applying"
        /\ \A q \in Reverses : q # r => reverses'[q] = reverses[q]
        /\ \A q \in Reverses : reverses'[q].tenant = reverses[q].tenant
    BY <1>t, <1>12, ReverseStatus DEF apply_reverse, begin_reverse_apply
  <2>3. QED  BY <1>t, <2>1, <2>2, SlotsKept
<1>13. CASE reverse_applied
  <2>1. /\ operation.id \in Reverses /\ reverses[operation.id].status = "applying"
        /\ reverses[operation.id].gen \in Generations
        /\ migrations[reverses[operation.id].gen].status = "cutover"
    BY <1>1, <1>13, AppliedIsRouted DEF reverse_applied
  <2>2. /\ reverses'[operation.id].status = "applied"
        /\ \A r \in Reverses : r # operation.id => reverses'[r] = reverses[r]
        /\ \A r \in Reverses : reverses'[r].tenant = reverses[r].tenant
    BY <1>t, <1>13, <2>1, ReverseStatus DEF reverse_applied
  <2>3. /\ migrations'[reverses[operation.id].gen].status = "reverse-migrated"
        /\ \A h \in Generations : h # reverses[operation.id].gen => migrations'[h] = migrations[h]
        /\ \A h \in Generations : migrations'[h].tenant = migrations[h].tenant
    BY <1>t, <1>13, <2>1, MigrationStatus DEF reverse_applied
  <2>4. QED  BY <1>t, <2>1, <2>2, <2>3, SlotsKept
<1>14. CASE reverse_finalized
  <2>1. reverses[operation.id].status = "verified" /\ UNCHANGED migrations
    BY <1>1, <1>14 DEF ReturnInv, OperationStands, reverse_finalized
  <2>2. \A r \in Reverses : /\ reverses'[r].status = "none" <=> reverses[r].status = "none"
                            /\ reverses'[r].tenant = reverses[r].tenant
    BY <1>1, <1>14, <2>1, PurgedRow
  <2>3. QED  BY <1>t, <2>1, <2>2, SlotsKept
<1>15. CASE RegistryRestart
  <2>1. UNCHANGED migrations
    BY <1>15 DEF RegistryRestart
  <2>2. \A r \in Reverses : /\ reverses'[r].status = "none" <=> reverses[r].status = "none"
                            /\ reverses'[r].tenant = reverses[r].tenant
    BY <1>1, <1>15, RestartKeeps
  <2>3. QED  BY <1>t, <2>1, <2>2, SlotsKept
<1>16. QED
  BY <1>1, <1>2, <1>3, <1>4, <1>5, <1>6, <1>7, <1>8, <1>9, <1>10, <1>11, <1>12, <1>13, <1>14, <1>15
     DEF RoutingNext, routingVars, Write, WriteUncounted, finalize_shared_source, apply_component, purge_component
-----------------------------------------------------------------------------
LEMMA CutoversKept ==
    ASSUME RoutingTypeOK, RouteIsCutOver, SourceIsCutOver,
           \A g \in Generations :
              /\ migrations'[g].status = "cutover" <=> migrations[g].status = "cutover"
              /\ migrations[g].status = "cutover" =>
                    migrations'[g].tenant = migrations[g].tenant /\ migrations'[g].source = migrations[g].source,
           \A u \in Tenants : routes'[u].gen = routes[u].gen,
           SlotsInOrder
    PROVE  RouteIsCutOver' /\ SourceIsCutOver'
<1>1. \A u \in Tenants : Isolated(u) => routes[u].gen \in Generations
  BY RoutedIsContents
<1>2. \A g \in Generations : migrations[g].source # Shared => migrations[g].source \in Generations
  BY DEF RoutingTypeOK, MigrationRow
<1>3. \A g \in Generations : migrations[g].status = "cutover" => migrations[g].tenant \in Tenants
  BY DEF SlotsInOrder
<1>4. RouteIsCutOver'
  BY <1>1 DEF RouteIsCutOver, Isolated
<1>5. SourceIsCutOver'
  BY <1>2, <1>3 DEF SourceIsCutOver
<1>6. QED  BY <1>4, <1>5

LEMMA RouteStep == ReturnInv /\ [RoutingNext]_routingVars => RouteIsCutOver' /\ SourceIsCutOver'
<1>1. SUFFICES ASSUME ReturnInv, [RoutingNext]_routingVars PROVE RouteIsCutOver' /\ SourceIsCutOver'
  OBVIOUS
<1>t. RoutingTypeOK /\ SlotsInOrder /\ RouteIsCutOver /\ SourceIsCutOver
  BY <1>1 DEF ReturnInv
<1>ro. routes \in [Tenants -> RouteRow]
  BY <1>t DEF RoutingTypeOK
<1>so. \A g \in Generations : migrations[g].source # Shared => migrations[g].source \in Generations
  BY <1>t DEF RoutingTypeOK, MigrationRow
<1>ge. \A u \in Tenants : Isolated(u) => routes[u].gen \in Generations
  BY <1>t, RoutedIsContents
<1>0. Shared \notin Generations
  BY SharedIsNoGeneration
<1>2. CASE UNCHANGED <<migrations, routes>>
  BY <1>t, <1>2, CutoversKept
<1>3. ASSUME NEW t \in Tenants, NEW c \in Components, Write(t, c) PROVE RouteIsCutOver' /\ SourceIsCutOver'
  <2>1. UNCHANGED migrations /\ \A u \in Tenants : routes'[u].gen = routes[u].gen
    BY <1>ro, <1>3 DEF Write, note_write, RouteRow
  <2>2. QED  BY <1>t, <2>1, CutoversKept
<1>4. ASSUME NEW t \in Movers, stage(t) PROVE RouteIsCutOver' /\ SourceIsCutOver'
  <2> DEFINE n == NextGeneration
  <2>1. /\ n \in Generations /\ migrations[n].status = "none"
        /\ migrations'[n] =
             [tenant |-> t, status |-> "copying", source |-> routes[t].gen,
              sourceWrote |-> routes[t].wrote, digest |-> Gone]
        /\ \A g \in Generations : g # n => migrations'[g] = migrations[g]
    BY <1>1, <1>4, StageKeeps, Zenon
  <2>2. migrations'[n].status = "copying"
    BY <2>1
  <2>3. UNCHANGED routes
    BY <1>4 DEF stage
  <2> HIDE DEF n
  <2>4. QED  BY <1>t, <2>1, <2>2, <2>3, CutoversKept
<1>5. CASE verified
  <2>1. operation.id \in Generations /\ migrations[operation.id].status = "copying"
    BY <1>1, <1>5 DEF ReturnInv, OperationStands, verified
  <2>2. UNCHANGED routes
    BY <1>5 DEF verified
  <2>3. /\ migrations'[operation.id].status = "verified"
        /\ \A h \in Generations : h # operation.id => migrations'[h] = migrations[h]
    BY <1>t, <1>5, <2>1, MigrationVerified DEF verified
  <2>4. QED  BY <1>t, <2>1, <2>2, <2>3, CutoversKept
<1>6. CASE failed
  <2>1. operation.id \in Generations /\ migrations[operation.id].status = "copying"
    BY <1>1, <1>6 DEF ReturnInv, OperationStands, failed
  <2>2. UNCHANGED routes
    BY <1>6 DEF failed
  <2>3. /\ migrations'[operation.id].status = "failed"
        /\ \A h \in Generations : h # operation.id => migrations'[h] = migrations[h]
    BY <1>t, <1>6, <2>1, MigrationStatus DEF failed
  <2>4. QED  BY <1>t, <2>1, <2>2, <2>3, CutoversKept
<1>7. ASSUME NEW g \in Generations, cutover(g) PROVE RouteIsCutOver' /\ SourceIsCutOver'
  <2> DEFINE t == migrations[g].tenant
  <2>1. /\ migrations[g].status = "verified" /\ t \in Tenants /\ routes[t].gen = migrations[g].source
        /\ routes' = [routes EXCEPT ![t] = [gen |-> g, wrote |-> FALSE, purged |-> FALSE]]
    BY <1>t, <1>7 DEF cutover, CutoverRoute, SlotsInOrder
  <2>2. /\ migrations'[g].status = "cutover"
        /\ \A h \in Generations : h # g => migrations'[h] = migrations[h]
        /\ \A h \in Generations : migrations'[h].tenant = migrations[h].tenant /\ migrations'[h].source = migrations[h].source
    BY <1>t, <1>7, MigrationStatus DEF cutover
  <2>3. routes'[t].gen = g /\ \A u \in Tenants : u # t => routes'[u] = routes[u]
    BY <1>ro, <2>1
  <2>4. RouteIsCutOver'
    <3>1. ASSUME NEW u \in Tenants, Isolated(u)'
          PROVE  migrations'[routes'[u].gen].tenant = u /\ migrations'[routes'[u].gen].status = "cutover"
      BY <1>t, <1>ge, <2>2, <2>3, <3>1 DEF RouteIsCutOver, Isolated
    <3>2. QED  BY <3>1 DEF RouteIsCutOver
  <2>5. ASSUME NEW h \in Generations, migrations'[h].status = "cutover", migrations'[h].source # Shared
        PROVE  LET s == migrations'[h].source IN
               /\ migrations'[s].tenant = migrations'[h].tenant
               /\ migrations'[s].status = "cutover"
               /\ routes'[migrations'[h].tenant].gen # s
               /\ \A k \in Generations : migrations'[k].status = "cutover" /\ migrations'[k].source = s => k = h
    <3> DEFINE s == migrations[h].source
    <3>1. s \in Generations /\ migrations'[h].source = s /\ s # Shared
      BY <1>so, <2>2, <2>5
    <3>2. CASE h = g
      <4>1. Isolated(t) /\ migrations[s].tenant = t /\ migrations[s].status = "cutover" /\ routes[t].gen = s
        BY <1>t, <2>1, <3>1, <3>2 DEF RouteIsCutOver, Isolated
      <4>2. s # g
        BY <2>1, <4>1
      <4>3. \A k \in Generations : migrations[k].status = "cutover" => migrations[k].source # s
        BY <1>t, <3>1, <4>1 DEF SourceIsCutOver
      <4>4. QED  BY <2>2, <2>3, <3>1, <3>2, <4>1, <4>2, <4>3
    <3>3. CASE h # g
      <4>1. migrations[h].status = "cutover" /\ migrations[h].tenant \in Tenants
        BY <1>t, <2>2, <2>5, <3>3 DEF SlotsInOrder
      <4>2. /\ migrations[s].tenant = migrations[h].tenant
            /\ migrations[s].status = "cutover"
            /\ routes[migrations[h].tenant].gen # s
            /\ \A k \in Generations : migrations[k].status = "cutover" /\ migrations[k].source = s => k = h
        BY <1>t, <2>5, <3>1, <4>1 DEF SourceIsCutOver
      <4>3. s # g
        BY <2>1, <4>2
      <4>4. migrations[g].source # s
        <5>1. SUFFICES ASSUME migrations[g].source = s PROVE FALSE
          OBVIOUS
        <5>2. Isolated(t) /\ migrations[s].tenant = t /\ routes[t].gen = s
          BY <1>t, <2>1, <3>1, <5>1 DEF RouteIsCutOver, Isolated
        <5>3. QED  BY <4>2, <5>2
      <4>5. QED  BY <2>2, <2>3, <3>1, <3>3, <4>1, <4>2, <4>3, <4>4
    <3>4. QED  BY <3>2, <3>3
  <2>6. SourceIsCutOver'
    BY <2>5 DEF SourceIsCutOver
  <2>7. QED  BY <2>4, <2>6
<1>8. ASSUME NEW g \in Generations, rollback(g) PROVE RouteIsCutOver' /\ SourceIsCutOver'
  <2> DEFINE t == migrations[g].tenant
             b == migrations[g].source
  <2>1. /\ migrations[g].status = "cutover" /\ t \in Tenants /\ routes[t].gen = g
        /\ b \in {Shared} \cup Generations
    BY <1>t, <1>so, <1>8 DEF rollback, RollbackAdmitted, SlotsInOrder
  <2>2. /\ migrations'[g].status = "rolled-back"
        /\ \A h \in Generations : h # g => migrations'[h] = migrations[h]
        /\ \A h \in Generations : migrations'[h].tenant = migrations[h].tenant /\ migrations'[h].source = migrations[h].source
    BY <1>t, <1>8, MigrationStatus DEF rollback
  <2>3. routes'[t].gen = b /\ \A u \in Tenants : u # t => routes'[u] = routes[u]
    BY <1>ro, <1>8, <2>1 DEF rollback, RolledBackRoute, RouteRow
  <2>4. b # Shared => /\ migrations[b].tenant = t /\ migrations[b].status = "cutover" /\ b # g
                      /\ \A k \in Generations : migrations[k].status = "cutover" /\ migrations[k].source = b => k = g
    BY <1>t, <2>1 DEF SourceIsCutOver
  <2>5. \A u \in Tenants : u # t /\ Isolated(u) => routes[u].gen # g
    BY <1>t DEF RouteIsCutOver
  <2>6. RouteIsCutOver'
    <3>1. ASSUME NEW u \in Tenants, Isolated(u)'
          PROVE  migrations'[routes'[u].gen].tenant = u /\ migrations'[routes'[u].gen].status = "cutover"
      <4>1. CASE u = t
        BY <2>1, <2>2, <2>3, <2>4, <3>1, <4>1 DEF Isolated
      <4>2. CASE u # t
        BY <1>t, <1>ge, <2>2, <2>3, <2>5, <3>1, <4>2 DEF RouteIsCutOver, Isolated
      <4>3. QED  BY <4>1, <4>2
    <3>2. QED  BY <3>1 DEF RouteIsCutOver
  <2>7. ASSUME NEW h \in Generations, migrations'[h].status = "cutover", migrations'[h].source # Shared
        PROVE  LET s == migrations'[h].source IN
               /\ migrations'[s].tenant = migrations'[h].tenant
               /\ migrations'[s].status = "cutover"
               /\ routes'[migrations'[h].tenant].gen # s
               /\ \A k \in Generations : migrations'[k].status = "cutover" /\ migrations'[k].source = s => k = h
    <3> DEFINE s == migrations[h].source
    <3>1. s \in Generations /\ migrations'[h].source = s /\ s # Shared /\ h # g /\ migrations[h].status = "cutover"
          /\ migrations[h].tenant \in Tenants
      BY <1>t, <1>so, <2>2, <2>7 DEF SlotsInOrder
    <3>2. /\ migrations[s].tenant = migrations[h].tenant
          /\ migrations[s].status = "cutover"
          /\ routes[migrations[h].tenant].gen # s
          /\ \A k \in Generations : migrations[k].status = "cutover" /\ migrations[k].source = s => k = h
      BY <1>t, <3>1 DEF SourceIsCutOver
    <3>3. s # g
      BY <2>1, <3>2
    <3>4. s = b => h = g
      BY <2>4, <3>1
    <3>5. routes'[migrations'[h].tenant].gen # s
      BY <2>2, <2>3, <3>1, <3>2, <3>4
    <3>6. \A k \in Generations : migrations'[k].status = "cutover" => migrations[k].status = "cutover"
      BY <2>1, <2>2
    <3>7. QED  BY <2>2, <3>1, <3>2, <3>3, <3>5, <3>6
  <2>8. SourceIsCutOver'
    BY <2>7 DEF SourceIsCutOver
  <2>9. QED  BY <2>6, <2>8
<1>9. CASE reverse_applied
  <2> DEFINE t == reverses[operation.id].tenant
             g == reverses[operation.id].gen
  <2>1. /\ operation.id \in Reverses /\ t \in Tenants /\ routes[t].gen = g /\ g \in Generations
        /\ migrations[g].status = "cutover" /\ migrations[g].tenant = t
    BY <1>1, <1>9, AppliedIsRouted DEF reverse_applied
  <2>2. /\ migrations'[g].status = "reverse-migrated"
        /\ \A h \in Generations : h # g => migrations'[h] = migrations[h]
        /\ \A h \in Generations : migrations'[h].tenant = migrations[h].tenant /\ migrations'[h].source = migrations[h].source
    BY <1>t, <1>9, <2>1, MigrationStatus DEF reverse_applied
  <2>3. routes'[t].gen = Shared /\ \A u \in Tenants : u # t => routes'[u] = routes[u]
    BY <1>ro, <1>9, <2>1 DEF reverse_applied, SharedRoute
  <2>4. \A u \in Tenants : u # t /\ Isolated(u) => routes[u].gen # g
    BY <1>t, <2>1 DEF RouteIsCutOver
  <2> HIDE DEF t, g
  <2>5. RouteIsCutOver'
    <3>1. ASSUME NEW u \in Tenants, Isolated(u)'
          PROVE  migrations'[routes'[u].gen].tenant = u /\ migrations'[routes'[u].gen].status = "cutover"
      BY <1>t, <1>ge, <2>2, <2>3, <2>4, <3>1 DEF RouteIsCutOver, Isolated
    <3>2. QED  BY <3>1 DEF RouteIsCutOver
  <2>6. ASSUME NEW h \in Generations, migrations'[h].status = "cutover", migrations'[h].source # Shared
        PROVE  LET s == migrations'[h].source IN
               /\ migrations'[s].tenant = migrations'[h].tenant
               /\ migrations'[s].status = "cutover"
               /\ routes'[migrations'[h].tenant].gen # s
               /\ \A k \in Generations : migrations'[k].status = "cutover" /\ migrations'[k].source = s => k = h
    <3> DEFINE s == migrations[h].source
    <3>1. s \in Generations /\ migrations'[h].source = s /\ s # Shared /\ h # g /\ migrations[h].status = "cutover"
          /\ migrations[h].tenant \in Tenants
      BY <1>t, <1>so, <2>2, <2>6 DEF SlotsInOrder
    <3>2. /\ migrations[s].tenant = migrations[h].tenant
          /\ migrations[s].status = "cutover"
          /\ routes[migrations[h].tenant].gen # s
          /\ \A k \in Generations : migrations[k].status = "cutover" /\ migrations[k].source = s => k = h
      BY <1>t, <3>1 DEF SourceIsCutOver
    <3>3. s # g
      BY <2>1, <3>2
    <3>4. routes'[migrations'[h].tenant].gen # s
      BY <2>2, <2>3, <3>1, <3>2
    <3>5. \A k \in Generations : migrations'[k].status = "cutover" => migrations[k].status = "cutover"
      BY <2>1, <2>2
    <3>6. QED  BY <2>2, <3>1, <3>2, <3>3, <3>4, <3>5
  <2>7. SourceIsCutOver'
    BY <2>6 DEF SourceIsCutOver
  <2>8. QED  BY <2>5, <2>7
<1>10. CASE reverse_finalized
  <2>1. UNCHANGED migrations /\ \A u \in Tenants : routes'[u].gen = routes[u].gen
    <3>1. \A u \in Tenants : routes'[u].gen = routes[u].gen
      BY <1>1, <1>10, PurgedRow
    <3>2. QED  BY <1>10, <3>1 DEF reverse_finalized
  <2>2. QED  BY <1>t, <2>1, CutoversKept
<1>11. QED
  BY <1>1, <1>2, <1>3, <1>4, <1>5, <1>6, <1>7, <1>8, <1>9, <1>10
     DEF RoutingNext, routingVars, WriteUncounted, stage_reverse, execute_cleanup, reverse_verified, reverse_failed,
         reverse_apply_failed, apply_reverse, finalize_shared_source, apply_component, purge_component,
         RegistryRestart
-----------------------------------------------------------------------------
LEMMA OperationStep == ReturnInv /\ [RoutingNext]_routingVars => OperationStands'
<1>1. SUFFICES ASSUME ReturnInv, [RoutingNext]_routingVars PROVE OperationStands'
  OBVIOUS
<1>t. RoutingTypeOK /\ SlotsInOrder /\ RouteIsCutOver /\ OperationStands
  BY <1>1 DEF ReturnInv
<1>2. CASE operation' = Idle
  BY <1>2 DEF OperationStands, Idle
<1>3. CASE UNCHANGED routingVars
  BY <1>t, <1>3 DEF OperationStands, routingVars, Isolated, Routed, TenantRows
<1>4. ASSUME NEW t \in Movers, stage(t) PROVE OperationStands'
  <2>1. /\ NextGeneration \in Generations
        /\ migrations'[NextGeneration] =
             [tenant |-> t, status |-> "copying", source |-> routes[t].gen,
              sourceWrote |-> routes[t].wrote, digest |-> Gone]
    BY <1>1, <1>4, StageKeeps, Zenon
  <2>2. operation' = [kind |-> "copy", id |-> NextGeneration, todo |-> {}]
    BY <1>4 DEF stage
  <2>3. QED  BY <2>1, <2>2 DEF OperationStands
<1>5. ASSUME NEW t \in Movers, stage_reverse(t) PROVE OperationStands'
  <2>1. /\ t \in Tenants /\ Isolated(t)
        /\ operation' = [kind |-> "reverse copy", id |-> NextReverse, todo |-> {}]
        /\ UNCHANGED <<routes, generations, shared>>
    BY <1>5, TenancyAssumption DEF stage_reverse
  <2>2. /\ NextReverse \in Reverses
        /\ reverses'[NextReverse].tenant = t
        /\ reverses'[NextReverse].gen = routes[t].gen
        /\ reverses'[NextReverse].status = "copying"
        /\ reverses'[NextReverse].source = Routed(t)
    BY <1>1, <1>5, StageReverseKeeps
  <2>3. Isolated(t)' /\ Routed(t)' = Routed(t)
    BY <2>1 DEF Isolated, Routed, TenantRows
  <2>4. operation'.kind = "reverse copy" /\ operation'.id = NextReverse
    BY <2>1
  <2> HIDE DEF Routed, NextReverse
  <2>5. QED  BY <2>1, <2>2, <2>3, <2>4 DEF OperationStands
<1>6. ASSUME NEW r \in Reverses, apply_reverse(r) \/ finalize_shared_source(r) PROVE OperationStands'
  <2> DEFINE t == reverses[r].tenant
  <2>1. /\ reverses[r].status # "none" /\ SourceUnchanged(r)
        /\ UNCHANGED <<routes, generations, migrations, shared>>
    BY <1>6 DEF apply_reverse, finalize_shared_source, begin_reverse_apply
  <2>2. t \in Tenants
    BY <1>t, <2>1 DEF SlotsInOrder
  <2>3. routes[t].gen = reverses[r].gen /\ Routed(t) = reverses[r].source
    BY <2>1 DEF SourceUnchanged
  <2>4. Isolated(t)
    <3>1. reverses[r].gen # Shared
      BY <1>1, <1>6, <2>1 DEF ReturnInv, SnapshotStands, SnapshotStatus, apply_reverse, begin_reverse_apply,
         finalize_shared_source
    <3>2. QED  BY <2>3, <3>1 DEF Isolated
  <2>5. routes'[t].gen # Shared /\ generations'[routes'[t].gen] = reverses[r].source /\ routes'[t].gen = reverses[r].gen
    BY <2>1, <2>3, <2>4 DEF Isolated, Routed
  <2>6. CASE apply_reverse(r)
    <3>1. operation' = [kind |-> "apply", id |-> r, todo |-> Components]
      BY <2>6 DEF apply_reverse
    <3>2. /\ reverses'[r].status = "applying" /\ reverses'[r].tenant = t
          /\ reverses'[r].gen = reverses[r].gen /\ reverses'[r].source = reverses[r].source
      BY <1>t, <2>6, ReverseStatus DEF apply_reverse, begin_reverse_apply
    <3>3. operation'.kind = "apply" /\ operation'.id = r
      BY <3>1
    <3>4. QED  BY <1>6, <2>2, <2>5, <3>2, <3>3 DEF OperationStands, Isolated, Routed
  <2>7. CASE finalize_shared_source(r)
    <3>1. operation' = [kind |-> "purge", id |-> r, todo |-> Components] /\ UNCHANGED reverses
          /\ reverses[r].status = "verified"
      BY <2>7 DEF finalize_shared_source
    <3>2. operation'.kind = "purge" /\ operation'.id = r
      BY <3>1
    <3>3. QED  BY <1>6, <2>2, <2>5, <3>1, <3>2 DEF OperationStands, Isolated, Routed
  <2>8. QED  BY <1>6, <2>6, <2>7
<1>7. ASSUME NEW c \in Components, apply_component(c) \/ purge_component(c) PROVE OperationStands'
  <2>1. operation'.kind = operation.kind /\ operation'.id = operation.id
    BY <1>t, <1>7 DEF apply_component, purge_component, RoutingTypeOK, Operation
  <2>2. /\ UNCHANGED <<generations, routes, migrations, reverses>>
        /\ operation.kind \in {"apply", "purge"}
    BY <1>7 DEF apply_component, purge_component
  <2> DEFINE t == reverses[operation.id].tenant
  <2>3. /\ operation.id \in Reverses /\ t \in Tenants
        /\ routes[t].gen # Shared /\ generations[routes[t].gen] = reverses[operation.id].source
        /\ routes[t].gen = reverses[operation.id].gen
        /\ operation.kind = "apply" => reverses[operation.id].status = "applying"
        /\ operation.kind = "purge" => reverses[operation.id].status = "verified"
    BY <1>t, <2>2 DEF OperationStands, Isolated, Routed
  <2>4. QED  BY <2>1, <2>2, <2>3 DEF OperationStands, Isolated, Routed
<1>8. QED
  BY <1>1, <1>2, <1>3, <1>4, <1>5, <1>6, <1>7
     DEF RoutingNext, Unlocked, Write, WriteUncounted, execute_cleanup, verified, failed, cutover, rollback,
         reverse_verified, reverse_failed, reverse_apply_failed, reverse_applied, reverse_finalized,
         RegistryRestart

LEMMA SnapshotStep == ReturnInv /\ [RoutingNext]_routingVars => SnapshotStands'
<1>1. SUFFICES ASSUME ReturnInv, [RoutingNext]_routingVars PROVE SnapshotStands'
  OBVIOUS
<1>t. RoutingTypeOK /\ SlotsInOrder /\ SnapshotStands /\ OperationStands
  BY <1>1 DEF ReturnInv
<1>re. reverses \in [Reverses -> ReverseRow]
  BY <1>t DEF RoutingTypeOK
<1>2. CASE UNCHANGED reverses
  BY <1>t, <1>2 DEF SnapshotStands
<1>3. ASSUME NEW t \in Movers, stage_reverse(t) PROVE SnapshotStands'
  <2>1. /\ reverses'[NextReverse].status = "copying"
        /\ \A r \in Reverses : r # NextReverse => reverses'[r] = reverses[r]
    BY <1>1, <1>3, StageReverseKeeps
  <2>2. QED  BY <1>t, <2>1 DEF SnapshotStands, SnapshotStatus
<1>4. ASSUME NEW t \in Movers, execute_cleanup(t) PROVE SnapshotStands'
  <2>1. \A r \in Reverses :
                /\ reverses'[r].tenant = reverses[r].tenant
                /\ reverses'[r].gen = reverses[r].gen
                /\ reverses'[r].status = reverses[r].status
                /\ reverses'[r].resume = reverses[r].resume
                /\ reverses'[r].baseline = reverses[r].baseline
                /\ reverses'[r].target = reverses[r].target
                /\ reverses[r].status \in SnapshotStatus => reverses'[r].stored = reverses[r].stored
    BY <1>1, <1>4, CleanupKeeps
  <2>2. QED  BY <1>t, <2>1 DEF SnapshotStands
<1>5. CASE reverse_verified
  <2> DEFINE r == operation.id
             t == reverses[r].tenant
  <2>1. /\ r \in Reverses /\ t \in Tenants /\ reverses'[r] = Snapshot(t, reverses[r])
        /\ reverses'[r].status \in {"verified", "finalized-ready"}
        /\ Isolated(t) /\ reverses[r].gen = routes[t].gen
        /\ \A q \in Reverses :
              /\ reverses'[q].tenant = reverses[q].tenant
              /\ reverses'[q].gen = reverses[q].gen
              /\ reverses'[q].resume = reverses[q].resume
              /\ q # r => /\ reverses'[q].baseline = reverses[q].baseline
                          /\ reverses'[q].target = reverses[q].target
                          /\ reverses'[q].stored = reverses[q].stored
                          /\ reverses'[q].status \in {reverses[q].status, "superseded"}
    BY <1>1, <1>5, SnapshotKeeps
  <2>2. /\ reverses'[r].stored = TRUE
        /\ reverses'[r].baseline \in [Components -> Rows] /\ reverses'[r].target \in [Components -> Rows]
        /\ \A c \in Databases : reverses'[r].target[c] \in [Tenants -> RowVersion]
        /\ \A c \in Components : reverses'[r].target[c][t] = Routed(t)[c]
    <3>1. LET rev == Snapshot(t, reverses[r]) IN
          /\ rev.stored = TRUE
          /\ rev.baseline \in [Components -> Rows] /\ rev.target \in [Components -> Rows]
          /\ \A c \in Databases : rev.target[c] \in [Tenants -> RowVersion]
          /\ \A c \in Components : rev.target[c][t] = Routed(t)[c]
      BY <1>t, <2>1, SnapshotRow
    <3>2. QED  BY <2>1, <3>1
  <2>3. \A c \in Components : Routed(t)[c] \in RowVersion
    BY <1>t, <2>1, RoutedIsContents
  <2> HIDE DEF r, t
  <2>4. ASSUME NEW q \in Reverses, reverses'[q].status \in SnapshotStatus
        PROVE  /\ reverses'[q].stored
               /\ reverses'[q].gen # Shared
               /\ reverses'[q].baseline \in [Components -> Rows]
               /\ reverses'[q].target \in [Components -> Rows]
               /\ \A c \in Databases : reverses'[q].target[c] \in [Tenants -> RowVersion]
               /\ \A c \in Components : reverses'[q].target[c][reverses'[q].tenant] \in RowVersion
               /\ reverses'[q].status = "applying" => reverses'[q].resume \in {"verified", "finalized-ready"}
    <3>1. CASE q = r
      BY <2>1, <2>2, <2>3, <3>1 DEF t, Isolated
    <3>2. CASE q # r
      <4>1. reverses'[q].status = reverses[q].status
        BY <2>1, <2>4, <3>2 DEF SnapshotStatus
      <4>2. QED  BY <1>t, <2>1, <2>4, <3>2, <4>1 DEF SnapshotStands
    <3>3. QED  BY <3>1, <3>2
  <2>5. QED  BY <2>4 DEF SnapshotStands, SnapshotStatus
<1>6. CASE reverse_failed
  <2>1. operation.id \in Reverses /\ reverses' = [reverses EXCEPT ![operation.id].status = "failed"]
    BY <1>t, <1>6 DEF reverse_failed, OperationStands
  <2>2. /\ reverses'[operation.id].status = "failed"
        /\ \A q \in Reverses : q # operation.id => reverses'[q] = reverses[q]
    BY <1>re, <2>1 DEF ReverseRow
  <2>3. QED  BY <1>t, <2>2 DEF SnapshotStands, SnapshotStatus
<1>7. CASE reverse_apply_failed
  <2> DEFINE r == operation.id
  <2>1. r \in Reverses /\ reverses[r].status = "applying"
    BY <1>t, <1>7 DEF reverse_apply_failed, OperationStands
  <2>2. reverses[r].resume \in {"verified", "finalized-ready"}
    BY <1>t, <2>1 DEF SnapshotStands
  <2>3. /\ reverses'[r].status = reverses[r].resume
        /\ \A q \in Reverses : q # r => reverses'[q] = reverses[q]
        /\ reverses'[r].tenant = reverses[r].tenant
        /\ reverses'[r].gen = reverses[r].gen
        /\ reverses'[r].baseline = reverses[r].baseline
        /\ reverses'[r].target = reverses[r].target
        /\ reverses'[r].stored = reverses[r].stored
    BY <1>t, <1>7, <2>1, ReverseStatus DEF reverse_apply_failed
  <2> HIDE DEF r
  <2>4. QED  BY <1>t, <2>1, <2>2, <2>3 DEF SnapshotStands, SnapshotStatus
<1>8. ASSUME NEW r \in Reverses, apply_reverse(r) PROVE SnapshotStands'
  <2>1. reverses[r].status \in {"verified", "finalized-ready"}
    BY <1>8 DEF apply_reverse, begin_reverse_apply
  <2>2. /\ reverses'[r].status = "applying" /\ reverses'[r].resume = reverses[r].status
        /\ \A q \in Reverses : q # r => reverses'[q] = reverses[q]
        /\ reverses'[r].tenant = reverses[r].tenant
        /\ reverses'[r].gen = reverses[r].gen
        /\ reverses'[r].baseline = reverses[r].baseline
        /\ reverses'[r].target = reverses[r].target
        /\ reverses'[r].stored = reverses[r].stored
    BY <1>t, <1>8, ReverseStatus DEF apply_reverse, begin_reverse_apply
  <2>3. QED  BY <1>t, <2>1, <2>2 DEF SnapshotStands, SnapshotStatus
<1>9. CASE reverse_applied
  <2>1. operation.id \in Reverses
    BY <1>t, <1>9 DEF reverse_applied, OperationStands
  <2>2. /\ reverses'[operation.id].status = "applied"
        /\ \A q \in Reverses : q # operation.id => reverses'[q] = reverses[q]
    BY <1>t, <1>9, <2>1, ReverseStatus DEF reverse_applied
  <2>3. QED  BY <1>t, <2>2 DEF SnapshotStands, SnapshotStatus
<1>10. CASE reverse_finalized
  <2> DEFINE r == operation.id
  <2>1. reverses[r].status = "verified" /\ r \in Reverses
    BY <1>t, <1>10 DEF reverse_finalized, OperationStands
  <2>2. /\ reverses'[r].status = "finalized-ready"
        /\ reverses'[r].baseline \in [Components -> Rows]
        /\ \A q \in Reverses : q # r => reverses'[q] = reverses[q]
        /\ reverses'[r].tenant = reverses[r].tenant
        /\ reverses'[r].gen = reverses[r].gen
        /\ reverses'[r].target = reverses[r].target
        /\ reverses'[r].stored = reverses[r].stored
    BY <1>1, <1>10, <2>1, PurgedRow
  <2> HIDE DEF r
  <2>3. QED  BY <1>t, <2>1, <2>2 DEF SnapshotStands, SnapshotStatus
<1>11. CASE RegistryRestart
  <2>1. \A r \in Reverses :
           /\ reverses'[r].tenant = reverses[r].tenant
           /\ reverses'[r].gen = reverses[r].gen
           /\ reverses'[r].baseline = reverses[r].baseline
           /\ reverses'[r].target = reverses[r].target
           /\ reverses'[r].stored = reverses[r].stored
           /\ reverses'[r].status \in SnapshotStatus => reverses[r].status \in SnapshotStatus
           /\ reverses'[r].status # "applying"
    BY <1>1, <1>11, RestartKeeps
  <2>2. QED  BY <1>t, <2>1 DEF SnapshotStands
<1>12. QED
  BY <1>1, <1>2, <1>3, <1>4, <1>5, <1>6, <1>7, <1>8, <1>9, <1>10, <1>11
     DEF RoutingNext, routingVars, Write, WriteUncounted, stage, verified, failed, cutover, rollback,
         finalize_shared_source, apply_component, purge_component

\* A snapshot that leads a tenant back from the generation it is routed to.
LEMMA ReturnPathKept ==
    ASSUME ReturnPathStands,
           \A u \in Tenants : routes'[u].purged => routes[u].purged /\ routes'[u].gen = routes[u].gen,
           \A q \in Reverses :
              /\ reverses'[q].tenant = reverses[q].tenant
              /\ reverses'[q].gen = reverses[q].gen
              /\ reverses[q].status = "finalized-ready" =>
                    \/ reverses'[q].status = "finalized-ready"
                    \/ reverses'[q].status = "applying" /\ reverses'[q].resume = "finalized-ready"
                    \/ ~routes'[reverses[q].tenant].purged
              /\ reverses[q].status = "applying" /\ reverses[q].resume = "finalized-ready" =>
                    \/ reverses'[q].status = "finalized-ready"
                    \/ reverses'[q].status = "applying" /\ reverses'[q].resume = "finalized-ready"
                    \/ ~routes'[reverses[q].tenant].purged
    PROVE  ReturnPathStands'
BY DEF ReturnPathStands

LEMMA ReturnPathStep == ReturnInv /\ [RoutingNext]_routingVars => ReturnPathStands'
<1>1. SUFFICES ASSUME ReturnInv, [RoutingNext]_routingVars PROVE ReturnPathStands'
  OBVIOUS
<1>t. RoutingTypeOK /\ SlotsInOrder /\ SnapshotStands /\ OperationStands /\ ReturnPathStands
  BY <1>1 DEF ReturnInv
<1>re. reverses \in [Reverses -> ReverseRow]
  BY <1>t DEF RoutingTypeOK
<1>ro. routes \in [Tenants -> RouteRow]
  BY <1>t DEF RoutingTypeOK
<1>2. CASE UNCHANGED <<routes, reverses>>
  BY <1>t, <1>2 DEF ReturnPathStands
<1>3. ASSUME NEW t \in Tenants, NEW c \in Components, Write(t, c) PROVE ReturnPathStands'
  <2>1. UNCHANGED reverses /\ \A u \in Tenants : routes'[u].gen = routes[u].gen /\ routes'[u].purged = routes[u].purged
    BY <1>ro, <1>3 DEF Write, note_write, RouteRow
  <2>2. QED  BY <1>t, <2>1, ReturnPathKept
<1>4. ASSUME NEW t \in Movers, stage_reverse(t) PROVE ReturnPathStands'
  <2>1. /\ reverses[NextReverse].status = "none"
        /\ \A r \in Reverses : r # NextReverse => reverses'[r] = reverses[r]
    BY <1>1, <1>4, StageReverseKeeps
  <2>2. UNCHANGED routes
    BY <1>4 DEF stage_reverse
  <2>3. QED  BY <1>t, <2>1, <2>2 DEF ReturnPathStands
<1>5. ASSUME NEW t \in Movers, execute_cleanup(t) PROVE ReturnPathStands'
  <2>1. \A r \in Reverses :
                /\ reverses'[r].tenant = reverses[r].tenant
                /\ reverses'[r].gen = reverses[r].gen
                /\ reverses'[r].status = reverses[r].status
                /\ reverses'[r].resume = reverses[r].resume
    BY <1>1, <1>5, CleanupKeeps
  <2>2. UNCHANGED routes
    BY <1>5 DEF execute_cleanup
  <2>3. QED  BY <1>t, <2>1, <2>2, ReturnPathKept
<1>6. ASSUME NEW g \in Generations, cutover(g) \/ rollback(g) PROVE ReturnPathStands'
  <2>1. UNCHANGED reverses
    BY <1>6 DEF cutover, rollback
  <2>2. \A u \in Tenants : routes'[u].purged => routes[u].purged /\ routes'[u].gen = routes[u].gen
    <3>1. CASE cutover(g)
      BY <1>ro, <3>1 DEF cutover, CutoverRoute
    <3>2. CASE rollback(g)
      <4>1. migrations[g].tenant \in Tenants
        BY <1>t, <3>2 DEF SlotsInOrder, rollback
      <4>2. ~routes[migrations[g].tenant].purged
        BY <3>2 DEF rollback, RollbackAdmitted
      <4>3. QED  BY <1>ro, <3>2, <4>1, <4>2 DEF rollback, RolledBackRoute, RouteRow
    <3>3. QED  BY <1>6, <3>1, <3>2
  <2>3. QED  BY <1>t, <2>1, <2>2, ReturnPathKept
<1>7. CASE reverse_verified
  <2> DEFINE r == operation.id
             t == reverses[r].tenant
  <2>1. /\ r \in Reverses /\ t \in Tenants /\ routes[t].gen = reverses[r].gen
        /\ reverses'[r].status = IF routes[t].purged THEN "finalized-ready" ELSE "verified"
        /\ reverses[r].status = "copying"
        /\ \A q \in Reverses :
              /\ reverses'[q].tenant = reverses[q].tenant
              /\ reverses'[q].gen = reverses[q].gen
              /\ reverses'[q].resume = reverses[q].resume
              /\ q # r => (reverses[q].tenant # t => reverses'[q].status = reverses[q].status)
    BY <1>1, <1>7, SnapshotKeeps
  <2>2. UNCHANGED routes
    BY <1>7 DEF reverse_verified
  <2> HIDE DEF r
  <2>3. ASSUME NEW u \in Tenants, routes[u].purged
        PROVE  \E q \in Reverses :
                 /\ reverses'[q].tenant = u
                 /\ reverses'[q].gen = routes[u].gen
                 /\ \/ reverses'[q].status = "finalized-ready"
                    \/ reverses'[q].status = "applying" /\ reverses'[q].resume = "finalized-ready"
    <3>1. CASE u = t
      BY <2>1, <2>3, <3>1
    <3>2. CASE u # t
      <4>1. PICK q \in Reverses :
                 /\ reverses[q].tenant = u
                 /\ reverses[q].gen = routes[u].gen
                 /\ \/ reverses[q].status = "finalized-ready"
                    \/ reverses[q].status = "applying" /\ reverses[q].resume = "finalized-ready"
        BY <1>t, <2>3 DEF ReturnPathStands
      <4>2. q # r
        BY <2>1, <4>1
      <4>3. QED  BY <2>1, <3>2, <4>1, <4>2
    <3>3. QED  BY <3>1, <3>2
  <2>4. QED  BY <2>2, <2>3 DEF ReturnPathStands
<1>8. CASE reverse_failed
  <2>1. operation.id \in Reverses /\ reverses' = [reverses EXCEPT ![operation.id].status = "failed"]
        /\ reverses[operation.id].status = "copying" /\ UNCHANGED routes
    BY <1>t, <1>8 DEF reverse_failed, OperationStands
  <2>2. \A q \in Reverses : q # operation.id => reverses'[q] = reverses[q]
    BY <1>re, <2>1
  <2>3. QED  BY <1>t, <2>1, <2>2 DEF ReturnPathStands
<1>9. CASE reverse_apply_failed
  <2> DEFINE r == operation.id
  <2>1. r \in Reverses /\ reverses[r].status = "applying" /\ UNCHANGED routes
    BY <1>t, <1>9 DEF reverse_apply_failed, OperationStands
  <2>2. /\ reverses'[r].status = reverses[r].resume
        /\ \A q \in Reverses : q # r => reverses'[q] = reverses[q]
        /\ \A q \in Reverses : reverses'[q].tenant = reverses[q].tenant /\ reverses'[q].gen = reverses[q].gen
    BY <1>t, <1>9, <2>1, ReverseStatus DEF reverse_apply_failed
  <2> HIDE DEF r
  <2>3. QED  BY <1>t, <2>1, <2>2, ReturnPathKept
<1>10. ASSUME NEW r \in Reverses, apply_reverse(r) PROVE ReturnPathStands'
  <2>1. reverses[r].status \in {"verified", "finalized-ready"} /\ UNCHANGED routes
    BY <1>10 DEF apply_reverse, begin_reverse_apply
  <2>2. /\ reverses'[r].status = "applying" /\ reverses'[r].resume = reverses[r].status
        /\ \A q \in Reverses : q # r => reverses'[q] = reverses[q]
        /\ \A q \in Reverses : reverses'[q].tenant = reverses[q].tenant /\ reverses'[q].gen = reverses[q].gen
    BY <1>t, <1>10, ReverseStatus DEF apply_reverse, begin_reverse_apply
  <2>3. QED  BY <1>t, <2>1, <2>2, ReturnPathKept
<1>11. CASE reverse_applied
  <2> DEFINE r == operation.id
             t == reverses[r].tenant
  <2>1. r \in Reverses /\ t \in Tenants
    BY <1>t, <1>11 DEF reverse_applied, OperationStands
  <2>2. /\ \A q \in Reverses : q # r => reverses'[q] = reverses[q]
        /\ \A q \in Reverses : reverses'[q].tenant = reverses[q].tenant /\ reverses'[q].gen = reverses[q].gen
    BY <1>t, <1>11, <2>1, ReverseStatus DEF reverse_applied
  <2>3. ~routes'[t].purged /\ \A u \in Tenants : u # t => routes'[u] = routes[u]
    BY <1>ro, <1>11, <2>1 DEF reverse_applied, SharedRoute
  <2> HIDE DEF r
  <2>4. QED  BY <1>t, <2>1, <2>2, <2>3, ReturnPathKept
<1>12. CASE reverse_finalized
  <2> DEFINE r == operation.id
             t == reverses[r].tenant
  <2>1. /\ r \in Reverses /\ t \in Tenants /\ routes[t].gen = reverses[r].gen
        /\ reverses'[r].status = "finalized-ready"
        /\ \A q \in Reverses : q # r => reverses'[q] = reverses[q]
        /\ \A q \in Reverses : reverses'[q].tenant = reverses[q].tenant /\ reverses'[q].gen = reverses[q].gen
        /\ \A u \in Tenants : /\ routes'[u].gen = routes[u].gen
                              /\ u # t => routes'[u] = routes[u]
    BY <1>1, <1>12, PurgedRow
  <2> HIDE DEF r
  <2>2. ASSUME NEW u \in Tenants, routes'[u].purged
        PROVE  \E q \in Reverses :
                 /\ reverses'[q].tenant = u
                 /\ reverses'[q].gen = routes[u].gen
                 /\ \/ reverses'[q].status = "finalized-ready"
                    \/ reverses'[q].status = "applying" /\ reverses'[q].resume = "finalized-ready"
    <3>1. CASE u = t
      BY <2>1, <3>1
    <3>2. CASE u # t
      <4>1. PICK q \in Reverses :
                 /\ reverses[q].tenant = u
                 /\ reverses[q].gen = routes[u].gen
                 /\ \/ reverses[q].status = "finalized-ready"
                    \/ reverses[q].status = "applying" /\ reverses[q].resume = "finalized-ready"
        BY <1>t, <2>1, <2>2, <3>2 DEF ReturnPathStands
      <4>2. QED  BY <2>1, <3>2, <4>1
    <3>3. QED  BY <3>1, <3>2
  <2>3. QED  BY <2>1, <2>2 DEF ReturnPathStands
<1>13. CASE RegistryRestart
  <2>1. \A r \in Reverses :
           /\ reverses[r].status = "applying" => reverses'[r].status = reverses[r].resume
           /\ reverses[r].status \notin {"copying", "applying"} => reverses'[r] = reverses[r]
           /\ reverses'[r].tenant = reverses[r].tenant
           /\ reverses'[r].gen = reverses[r].gen
    BY <1>1, <1>13, RestartKeeps
  <2>2. UNCHANGED routes
    BY <1>13 DEF RegistryRestart
  <2>3. QED  BY <1>t, <2>1, <2>2, ReturnPathKept
<1>14. QED
  BY <1>1, <1>2, <1>3, <1>4, <1>5, <1>6, <1>7, <1>8, <1>9, <1>10, <1>11, <1>12, <1>13
     DEF RoutingNext, routingVars, WriteUncounted, stage, verified, failed,
         finalize_shared_source, apply_component, purge_component

LEMMA ReturnInvHolds == RoutingSpec => []ReturnInv
<1>1. RoutingInit => ReturnInv
  BY RoutingTypeInit
<1>2. ReturnInv /\ [RoutingNext]_routingVars => ReturnInv'
  BY RoutingTypeStep, SlotsStep, RouteStep, OperationStep, SnapshotStep, ReturnPathStep DEF ReturnInv
<1>3. QED
  BY <1>1, <1>2, PTL DEF RoutingSpec

\* The tables of the registry and the stores keep their types, for any number of
\* tenants, components, generations and snapshots (data_plane.py:100-220).
THEOREM RoutingTypes == RoutingSpec => []RoutingTypeOK
<1>1. ReturnInv => RoutingTypeOK
  BY DEF ReturnInv
<1>2. QED
  BY <1>1, ReturnInvHolds, PTL

\* Whatever snapshots, failed applies, purges, cleanups and crashes follow, purged
\* tenant rows can be brought back: a stored snapshot of the routed generation remains
\* applicable (data_plane.py:1307-1390, retention.py:344-357).
THEOREM PurgedCanReturn == RoutingSpec => []PurgedHasReturnPath
<1>1. ReturnInv => PurgedHasReturnPath
  BY DEF ReturnInv, ReturnPathStands, SnapshotStands, SnapshotStatus, PurgedHasReturnPath
<1>2. QED
  BY <1>1, ReturnInvHolds, PTL

-----------------------------------------------------------------------------
\* What a route leads to holds the last write.

LEMMA SplicesStep == ReturnInv /\ SnapshotSplices /\ [RoutingNext]_routingVars => SnapshotSplices'
<1>1. SUFFICES ASSUME ReturnInv, SnapshotSplices, [RoutingNext]_routingVars PROVE SnapshotSplices'
  OBVIOUS
<1>t. RoutingTypeOK /\ SnapshotStands /\ OperationStands
  BY <1>1 DEF ReturnInv
<1>re. reverses \in [Reverses -> ReverseRow]
  BY <1>t DEF RoutingTypeOK
<1>k. ASSUME \A q \in Reverses : reverses'[q].status \in SnapshotStatus =>
                /\ reverses[q].status \in SnapshotStatus
                /\ reverses'[q].tenant = reverses[q].tenant
                /\ reverses'[q].source = reverses[q].source
                /\ reverses'[q].baseline = reverses[q].baseline
                /\ reverses'[q].target = reverses[q].target
      PROVE  SnapshotSplices'
  BY <1>1, <1>k DEF SnapshotSplices
<1>2. CASE UNCHANGED reverses
  BY <1>2, <1>k
<1>3. ASSUME NEW t \in Movers, stage_reverse(t) PROVE SnapshotSplices'
  <2>1. /\ reverses'[NextReverse].status = "copying"
        /\ \A r \in Reverses : r # NextReverse => reverses'[r] = reverses[r]
    BY <1>1, <1>3, StageReverseKeeps
  <2>2. QED  BY <2>1, <1>k DEF SnapshotStatus
<1>4. ASSUME NEW t \in Movers, execute_cleanup(t) PROVE SnapshotSplices'
  <2>1. \A r \in Reverses :
                /\ reverses'[r].tenant = reverses[r].tenant
                /\ reverses'[r].status = reverses[r].status
                /\ reverses'[r].source = reverses[r].source
                /\ reverses'[r].baseline = reverses[r].baseline
                /\ reverses'[r].target = reverses[r].target
    BY <1>1, <1>4, CleanupKeeps
  <2>2. QED  BY <2>1, <1>k
<1>5. CASE reverse_verified
  <2> DEFINE r == operation.id
             t == reverses[r].tenant
  <2>1. /\ r \in Reverses /\ t \in Tenants /\ reverses'[r] = Snapshot(t, reverses[r])
        /\ Routed(t) = reverses[r].source
        /\ \A q \in Reverses :
              /\ reverses'[q].tenant = reverses[q].tenant
              /\ reverses'[q].source = reverses[q].source
              /\ q # r => /\ reverses'[q].baseline = reverses[q].baseline
                          /\ reverses'[q].target = reverses[q].target
                          /\ reverses'[q].status \in {reverses[q].status, "superseded"}
    BY <1>1, <1>5, SnapshotKeeps
  <2>2. LET rev == Snapshot(t, reverses[r]) IN
        /\ \A c \in Databases :
              /\ rev.baseline[c] = shared[c] /\ rev.target[c] \in [Tenants -> RowVersion]
              /\ rev.target[c][t] = Routed(t)[c]
              /\ \A u \in Tenants \ {t} : rev.target[c][u] = shared[c][u]
        /\ \A c \in Components : rev.target[c][t] = Routed(t)[c]
    BY <1>t, <2>1, SnapshotRow
  <2>3. /\ \A c \in Databases :
              /\ reverses'[r].baseline[c] = shared[c] /\ reverses'[r].target[c] \in [Tenants -> RowVersion]
              /\ reverses'[r].target[c][t] = reverses'[r].source[c]
              /\ \A u \in Tenants \ {t} : reverses'[r].target[c][u] = shared[c][u]
        /\ \A c \in Components : reverses'[r].target[c][t] = reverses'[r].source[c]
    BY <2>1, <2>2
  <2>4. \A c \in Databases : shared[c] \in [Tenants -> RowVersion] /\ c \in Components
    BY <1>t, TenancyAssumption DEF RoutingTypeOK
  <2> HIDE DEF r, t
  <2>5. ASSUME NEW q \in Reverses, reverses'[q].status \in SnapshotStatus
        PROVE  /\ \A c \in Databases :
                    /\ reverses'[q].baseline[c] \in [Tenants -> RowVersion] /\ reverses'[q].target[c] \in [Tenants -> RowVersion]
                    /\ reverses'[q].target[c][reverses'[q].tenant] = reverses'[q].source[c]
                    /\ \A u \in Tenants \ {reverses'[q].tenant} : reverses'[q].target[c][u] = reverses'[q].baseline[c][u]
               /\ \A c \in Components \ Databases :
                    reverses'[q].target[c][reverses'[q].tenant] = reverses'[q].source[c]
    <3>1. CASE q = r
      <4>1. reverses'[q].tenant = t
        BY <2>1, <3>1 DEF t
      <4>2. QED  BY <2>3, <2>4, <3>1, <4>1
    <3>2. CASE q # r
      <4>1. reverses[q].status \in SnapshotStatus
        BY <2>1, <2>5, <3>2 DEF SnapshotStatus
      <4>2. QED  BY <1>1, <2>1, <3>2, <4>1 DEF SnapshotSplices
    <3>3. QED  BY <3>1, <3>2
  <2>6. QED  BY <2>5 DEF SnapshotSplices
<1>6. CASE reverse_failed
  <2>1. operation.id \in Reverses /\ reverses' = [reverses EXCEPT ![operation.id].status = "failed"]
    BY <1>t, <1>6 DEF reverse_failed, OperationStands
  <2>2. /\ reverses'[operation.id].status = "failed"
        /\ \A q \in Reverses : q # operation.id => reverses'[q] = reverses[q]
    BY <1>re, <2>1 DEF ReverseRow
  <2>3. QED  BY <1>k, <2>2 DEF SnapshotStatus
<1>7. CASE reverse_apply_failed \/ reverse_applied
  <2> DEFINE r == operation.id
  <2>1. r \in Reverses /\ reverses[r].status = "applying"
    BY <1>t, <1>7 DEF reverse_apply_failed, reverse_applied, OperationStands
  <2>2. \/ reverses' = [reverses EXCEPT ![r].status = reverses[r].resume, ![r].resume = ""]
        \/ reverses' = [reverses EXCEPT ![r].status = "applied", ![r].resume = ""]
    BY <1>7 DEF reverse_apply_failed, reverse_applied
  <2>3. /\ \A q \in Reverses : q # r => reverses'[q] = reverses[q]
        /\ reverses'[r].tenant = reverses[r].tenant
        /\ reverses'[r].source = reverses[r].source
        /\ reverses'[r].baseline = reverses[r].baseline
        /\ reverses'[r].target = reverses[r].target
    <3>1. CASE reverses' = [reverses EXCEPT ![r].status = reverses[r].resume, ![r].resume = ""]
      BY <1>t, <2>1, <3>1, ReverseStatus
    <3>2. CASE reverses' = [reverses EXCEPT ![r].status = "applied", ![r].resume = ""]
      BY <1>t, <2>1, <3>2, ReverseStatus
    <3>3. QED  BY <2>2, <3>1, <3>2
  <2> HIDE DEF r
  <2>4. QED  BY <1>k, <2>1, <2>3 DEF SnapshotStatus
<1>8. ASSUME NEW r \in Reverses, apply_reverse(r) PROVE SnapshotSplices'
  <2>1. reverses[r].status \in {"verified", "finalized-ready"}
    BY <1>8 DEF apply_reverse, begin_reverse_apply
  <2>2. /\ \A q \in Reverses : q # r => reverses'[q] = reverses[q]
        /\ reverses'[r].tenant = reverses[r].tenant
        /\ reverses'[r].source = reverses[r].source
        /\ reverses'[r].baseline = reverses[r].baseline
        /\ reverses'[r].target = reverses[r].target
    BY <1>t, <1>8, ReverseStatus DEF apply_reverse, begin_reverse_apply
  <2>3. QED  BY <1>k, <2>1, <2>2 DEF SnapshotStatus
<1>9. CASE reverse_finalized
  <2> DEFINE r == operation.id
             t == reverses[r].tenant
  <2>1. /\ r \in Reverses /\ t \in Tenants
        /\ \A c \in Components : reverses'[r].baseline[c] = PurgedDigest(r, c)
        /\ \A q \in Reverses : q # r => reverses'[q] = reverses[q]
        /\ reverses'[r].tenant = t
        /\ reverses'[r].source = reverses[r].source
        /\ reverses'[r].target = reverses[r].target
    BY <1>1, <1>9, PurgedRow
  <2>2. reverses[r].status \in SnapshotStatus
    BY <1>t, <1>9 DEF reverse_finalized, OperationStands, SnapshotStatus
  <2>3. /\ \A c \in Databases :
             /\ reverses[r].baseline[c] \in [Tenants -> RowVersion] /\ reverses[r].target[c] \in [Tenants -> RowVersion]
             /\ reverses[r].target[c][t] = reverses[r].source[c]
             /\ \A u \in Tenants \ {t} : reverses[r].target[c][u] = reverses[r].baseline[c][u]
        /\ \A c \in Components \ Databases : reverses[r].target[c][t] = reverses[r].source[c]
    BY <1>1, <2>1, <2>2 DEF SnapshotSplices
  <2>4. NoRows \in RowVersion
    BY TenancyAssumption DEF RowVersion, NoRows
  <2>5. ASSUME NEW c \in Databases
        PROVE  /\ reverses'[r].baseline[c] \in [Tenants -> RowVersion]
               /\ \A u \in Tenants \ {t} : reverses'[r].baseline[c][u] = reverses[r].baseline[c][u]
    <3>1. reverses'[r].baseline[c] = [reverses[r].baseline[c] EXCEPT ![t] = NoRows]
      BY <2>1, TenancyAssumption DEF PurgedDigest
    <3>2. reverses[r].baseline[c] \in [Tenants -> RowVersion]
      BY <2>3
    <3>3. QED  BY <2>4, <3>1, <3>2
  <2> HIDE DEF r, t
  <2>6. ASSUME NEW q \in Reverses, reverses'[q].status \in SnapshotStatus
        PROVE  /\ \A c \in Databases :
                    /\ reverses'[q].baseline[c] \in [Tenants -> RowVersion] /\ reverses'[q].target[c] \in [Tenants -> RowVersion]
                    /\ reverses'[q].target[c][reverses'[q].tenant] = reverses'[q].source[c]
                    /\ \A u \in Tenants \ {reverses'[q].tenant} : reverses'[q].target[c][u] = reverses'[q].baseline[c][u]
               /\ \A c \in Components \ Databases :
                    reverses'[q].target[c][reverses'[q].tenant] = reverses'[q].source[c]
    <3>1. CASE q = r
      BY <2>1, <2>3, <2>5, <3>1
    <3>2. CASE q # r
      BY <1>1, <2>1, <2>6, <3>2 DEF SnapshotSplices
    <3>3. QED  BY <3>1, <3>2
  <2>7. QED  BY <2>6 DEF SnapshotSplices
<1>10. CASE RegistryRestart
  <2>1. \A r \in Reverses :
           /\ reverses'[r].tenant = reverses[r].tenant
           /\ reverses'[r].source = reverses[r].source
           /\ reverses'[r].baseline = reverses[r].baseline
           /\ reverses'[r].target = reverses[r].target
           /\ reverses'[r].status \in SnapshotStatus => reverses[r].status \in SnapshotStatus
    BY <1>1, <1>10, RestartKeeps
  <2>2. QED  BY <1>k, <2>1
<1>11. QED
  BY <1>1, <1>2, <1>3, <1>4, <1>5, <1>6, <1>7, <1>8, <1>9, <1>10
     DEF RoutingNext, routingVars, Write, WriteUncounted, stage, verified, failed, cutover, rollback,
         finalize_shared_source, apply_component, purge_component

\* The rows of the others stay as they are, and the tenant's own become those staged.
LEMMA ComponentApplied ==
    ASSUME ReturnInv, SnapshotSplices, ApplySplices, NEW c \in Components, apply_component(c)
    PROVE  LET r == operation.id
               t == reverses[r].tenant
           IN /\ r \in Reverses /\ t \in Tenants /\ reverses[r].status = "applying"
              /\ shared'[c][t] = reverses[r].source[c]
              /\ \A u \in Tenants \ {t} : shared'[c][u] = shared[c][u]
              /\ \A d \in Components : d # c => shared'[d] = shared[d]
              /\ operation'.kind = "apply" /\ operation'.id = r /\ operation'.todo = operation.todo \ {c}
<1> DEFINE r == operation.id
           t == reverses[r].tenant
<1>1. /\ operation.kind = "apply" /\ r \in Reverses /\ t \in Tenants /\ reverses[r].status = "applying"
      /\ shared \in [Components -> [Tenants -> RowVersion]]
  BY DEF apply_component, ReturnInv, OperationStands, RoutingTypeOK
<1>2. operation'.kind = "apply" /\ operation'.id = r /\ operation'.todo = operation.todo \ {c}
  BY DEF apply_component, ReturnInv, RoutingTypeOK, Operation
<1>3. CASE c \in Databases
  <2>1. shared' = [shared EXCEPT ![c] = reverses[r].target[c]]
    BY <1>3 DEF apply_component, AppliedDatabase
  <2>2. reverses[r].target[c][t] = reverses[r].source[c]
    BY <1>1, <1>3 DEF SnapshotSplices, SnapshotStatus
  <2>3. \A u \in Tenants \ {t} : shared[c][u] = reverses[r].target[c][u]
    BY <1>1, <1>3 DEF ApplySplices
  <2>4. QED  BY <1>1, <1>2, <2>1, <2>2, <2>3
<1>4. CASE c \notin Databases
  <2>1. shared' = [shared EXCEPT ![c] = [shared[c] EXCEPT ![t] = reverses[r].target[c][t]]]
    BY <1>4 DEF apply_component, AppliedDirectory
  <2>2. reverses[r].target[c][t] = reverses[r].source[c]
    BY <1>1, <1>4 DEF SnapshotSplices, SnapshotStatus
  <2>3. QED  BY <1>1, <1>2, <2>1, <2>2
<1>5. QED  BY <1>3, <1>4

LEMMA ApplyStep ==
    ReturnInv /\ SnapshotSplices /\ ApplySplices /\ [RoutingNext]_routingVars => ApplySplices'
<1>1. SUFFICES ASSUME ReturnInv, SnapshotSplices, ApplySplices, [RoutingNext]_routingVars PROVE ApplySplices'
  OBVIOUS
<1>t. RoutingTypeOK /\ OperationStands /\ SlotsInOrder
  BY <1>1 DEF ReturnInv
<1>2. CASE operation'.kind # "apply"
  BY <1>2 DEF ApplySplices
<1>3. CASE UNCHANGED routingVars
  BY <1>1, <1>3 DEF ApplySplices, routingVars
<1>4. ASSUME NEW r \in Reverses, apply_reverse(r) PROVE ApplySplices'
  <2> DEFINE t == reverses[r].tenant
  <2>1. /\ reverses[r].status \in SnapshotStatus /\ UNCHANGED shared
        /\ operation' = [kind |-> "apply", id |-> r, todo |-> Components]
    BY <1>4 DEF apply_reverse, begin_reverse_apply, SnapshotStatus
  <2>2. reverses'[r].tenant = t /\ reverses'[r].source = reverses[r].source /\ reverses'[r].target = reverses[r].target
    BY <1>t, <1>4, ReverseStatus DEF apply_reverse, begin_reverse_apply
  <2>3. ASSUME NEW c \in Databases, NEW u \in Tenants \ {t} PROVE shared[c][u] = reverses[r].target[c][u]
    <3>1. c \in Components /\ SharedDigest(t)[c] = shared[c]
      BY TenancyAssumption DEF SharedDigest
    <3>2. shared[c] \in {reverses[r].baseline[c], reverses[r].target[c]}
      BY <1>4, <3>1 DEF apply_reverse, MatchesOrApplied
    <3>3. reverses[r].target[c][u] = reverses[r].baseline[c][u]
      BY <1>1, <2>1 DEF SnapshotSplices
    <3>4. QED  BY <3>2, <3>3
  <2>4. operation'.kind = "apply" /\ operation'.id = r /\ operation'.todo = Components
    BY <2>1
  <2>5. QED  BY <2>1, <2>2, <2>3, <2>4 DEF ApplySplices
<1>5. ASSUME NEW c \in Components, apply_component(c) PROVE ApplySplices'
  <2> DEFINE r == operation.id
             t == reverses[r].tenant
  <2>1. /\ r \in Reverses /\ t \in Tenants
        /\ shared'[c][t] = reverses[r].source[c]
        /\ \A u \in Tenants \ {t} : shared'[c][u] = shared[c][u]
        /\ \A d \in Components : d # c => shared'[d] = shared[d]
        /\ operation'.kind = "apply" /\ operation'.id = r /\ operation'.todo = operation.todo \ {c}
    BY <1>1, <1>5, ComponentApplied
  <2>2. operation.kind = "apply" /\ UNCHANGED reverses
    BY <1>5 DEF apply_component
  <2>3. /\ \A d \in Databases, u \in Tenants \ {t} : shared[d][u] = reverses[r].target[d][u]
        /\ \A d \in Components \ operation.todo : shared[d][t] = reverses[r].source[d]
    BY <1>1, <2>2 DEF ApplySplices
  <2>4. \A d \in Databases : d \in Components
    BY TenancyAssumption
  <2>5. /\ \A d \in Databases, u \in Tenants \ {t} : shared'[d][u] = reverses[r].target[d][u]
        /\ \A d \in Components \ operation'.todo : shared'[d][t] = reverses[r].source[d]
    BY <2>1, <2>3, <2>4
  <2>6. QED  BY <2>1, <2>2, <2>5 DEF ApplySplices
<1>6. ASSUME NEW c \in Components, purge_component(c) PROVE ApplySplices'
  <2>1. operation'.kind = "purge"
    BY <1>t, <1>6 DEF purge_component, RoutingTypeOK, Operation
  <2>2. QED  BY <1>2, <2>1
<1>7. CASE operation' = Idle
  BY <1>2, <1>7 DEF Idle
<1>8. ASSUME NEW t \in Movers, stage(t) \/ stage_reverse(t) PROVE ApplySplices'
  <2>1. CASE stage(t)
    BY <1>2, <2>1 DEF stage
  <2>2. CASE stage_reverse(t)
    BY <1>2, <2>2 DEF stage_reverse
  <2>3. QED  BY <1>8, <2>1, <2>2
<1>9. ASSUME NEW r \in Reverses, finalize_shared_source(r) PROVE ApplySplices'
  BY <1>2, <1>9 DEF finalize_shared_source
<1>10. CASE Unlocked /\ UNCHANGED operation
  BY <1>7, <1>10 DEF Unlocked
<1>11. QED
  BY <1>1, <1>3, <1>4, <1>5, <1>6, <1>7, <1>8, <1>9, <1>10
     DEF RoutingNext, Write, WriteUncounted, execute_cleanup, verified, failed, cutover, rollback,
         reverse_verified, reverse_failed, reverse_apply_failed, reverse_applied, reverse_finalized,
         RegistryRestart

-----------------------------------------------------------------------------
LEMMA LatestIsRow ==
    ASSUME RoutingTypeOK, NEW t \in Tenants
    PROVE  /\ latest[t] \in [Components -> 1..MaxVersion]
           /\ \A c \in Components : latest[t][c] \in Int /\ latest[t][c] <= MaxVersion
BY TenancyAssumption DEF RoutingTypeOK

LEMMA RoutedIsLatest ==
    ASSUME RoutingTypeOK, ServesLatest, NEW t \in Tenants
    PROVE  Routed(t) = latest[t]
<1>1. CASE Isolated(t)
  BY <1>1 DEF ServesLatest, Routed
<1>2. CASE ~Isolated(t)
  <2>1. \A c \in Components : shared[c][t] = latest[t][c]
    BY <1>2 DEF ServesLatest
  <2>2. latest[t] = [c \in Components |-> latest[t][c]]
    BY LatestIsRow
  <2>3. TenantRows(t) = [c \in Components |-> latest[t][c]]
    BY <2>1 DEF TenantRows
  <2>4. QED  BY <1>2, <2>2, <2>3 DEF Routed
<1>3. QED  BY <1>1, <1>2

\* Tenants are routed to generations of their own.
LEMMA RoutesApart ==
    ASSUME ReturnInv, NEW t \in Tenants, NEW u \in Tenants, t # u, Isolated(t), Isolated(u)
    PROVE  routes[t].gen # routes[u].gen
BY DEF ReturnInv, RouteIsCutOver

\* A write reaches the place its tenant is routed to, and no other.
LEMMA WriteKeeps ==
    ASSUME ReturnInv, ServesLatest, NEW t \in Tenants, NEW c \in Components,
           Stored(t, c, latest[t][c] + 1), latest' = [latest EXCEPT ![t][c] = @ + 1]
    PROVE  /\ latest'[t][c] = latest[t][c] + 1
           /\ \A d \in Components : d # c => latest'[t][d] = latest[t][d]
           /\ \A u \in Tenants : u # t => latest'[u] = latest[u]
           /\ Isolated(t) => /\ UNCHANGED shared
                             /\ generations'[routes[t].gen] = latest'[t]
                             /\ \A g \in Generations : g # routes[t].gen => generations'[g] = generations[g]
           /\ ~Isolated(t) => /\ UNCHANGED generations
                              /\ \A d \in Components : shared'[d][t] = latest'[t][d]
                              /\ \A d \in Components, u \in Tenants \ {t} : shared'[d][u] = shared[d][u]
<1>1. /\ latest \in [Tenants -> [Components -> 1..MaxVersion]]
      /\ generations \in [Generations -> Contents] /\ shared \in [Components -> [Tenants -> RowVersion]]
  BY DEF ReturnInv, RoutingTypeOK
<1>2. /\ latest'[t] = [latest[t] EXCEPT ![c] = @ + 1]
      /\ \A u \in Tenants : u # t => latest'[u] = latest[u]
  BY <1>1
<1>3. latest'[t][c] = latest[t][c] + 1 /\ \A d \in Components : d # c => latest'[t][d] = latest[t][d]
  BY <1>1, <1>2
<1>4. CASE Isolated(t)
  <2>1. routes[t].gen \in Generations
    BY <1>4, RoutedIsContents DEF ReturnInv
  <2>2. generations[routes[t].gen] = latest[t]
    BY <1>4 DEF ServesLatest
  <2>3. UNCHANGED shared /\ generations' = [generations EXCEPT ![routes[t].gen][c] = latest[t][c] + 1]
    BY <1>4 DEF Stored
  <2>4. generations'[routes[t].gen] = [generations[routes[t].gen] EXCEPT ![c] = latest[t][c] + 1]
    BY <1>1, <2>1, <2>3
  <2>5. \A g \in Generations : g # routes[t].gen => generations'[g] = generations[g]
    BY <1>1, <2>3
  <2>6. QED  BY <1>2, <1>3, <1>4, <2>2, <2>3, <2>4, <2>5
<1>5. CASE ~Isolated(t)
  <2>1. \A d \in Components : shared[d][t] = latest[t][d]
    BY <1>5 DEF ServesLatest
  <2>2. UNCHANGED generations /\ shared' = [shared EXCEPT ![c][t] = latest[t][c] + 1]
    BY <1>5 DEF Stored
  <2>3. /\ shared'[c] = [shared[c] EXCEPT ![t] = latest[t][c] + 1]
        /\ \A d \in Components : d # c => shared'[d] = shared[d]
    BY <1>1, <2>2
  <2>4. shared'[c][t] = latest[t][c] + 1 /\ \A u \in Tenants \ {t} : shared'[c][u] = shared[c][u]
    BY <1>1, <2>3
  <2>5. QED  BY <1>2, <1>3, <1>5, <2>1, <2>2, <2>3, <2>4
<1>6. QED  BY <1>4, <1>5

\* The generation an operator can roll back has its predecessor as it was last saved.
LEMMA RollbackIsWhole ==
    ASSUME ReturnInv, RollbackStands, NEW g \in Generations, rollback(g)
    PROVE  LET t == migrations[g].tenant
               s == migrations[g].source
           IN /\ t \in Tenants /\ routes[t].gen = g /\ ~routes[t].wrote /\ ~routes[t].purged
              /\ IF s = Shared THEN \A c \in Components : shared[c][t] = latest[t][c]
                 ELSE generations[s] = latest[t]
<1> DEFINE t == migrations[g].tenant
           s == migrations[g].source
<1>1. /\ t \in Tenants /\ routes[t].gen = g /\ ~routes[t].wrote /\ ~routes[t].purged
      /\ MayRollBack /\ operation = Idle
  BY DEF rollback, RollbackAdmitted, ReturnInv, SlotsInOrder, MayRollBack, Unlocked
<1>2. PICK S \in SUBSET Generations : Chain(t, S) /\ ChainHolds(t, S)
  BY <1>1 DEF RollbackStands
<1>3. g \in S
  BY <1>1, <1>2, SharedIsNoGeneration DEF Chain
<1>4. \A h \in S : h >= g => h = g
  <2>1. \A h \in S : h <= g
    BY <1>1, <1>2 DEF Chain
  <2>2. \A h \in Generations : h \in Int
    BY TenancyAssumption DEF Generations
  <2>3. QED  BY <2>1, <2>2
<1>5. \A h \in S : h >= g => Unwritten(t, S, h)
  BY <1>1, <1>4 DEF Unwritten
<1>6. SourceHolds(t, g)
  BY <1>2, <1>3, <1>5 DEF ChainHolds
<1>7. ~Purging(t)
  BY <1>1 DEF Purging, Idle
<1>8. QED
  BY <1>1, <1>6, <1>7 DEF SourceHolds

LEMMA ServesKept ==
    ASSUME RoutingTypeOK, ServesLatest, UNCHANGED latest,
           \A u \in Tenants : routes'[u].gen = routes[u].gen,
           \A u \in Tenants : Isolated(u) => generations'[routes[u].gen] = generations[routes[u].gen],
           \A u \in Tenants : ~Isolated(u) => \A c \in Components : shared'[c][u] = shared[c][u]
    PROVE  ServesLatest'
BY DEF ServesLatest, Isolated

LEMMA ServesStep == ServeInv /\ [RoutingNext]_routingVars => ServesLatest'
<1>1. SUFFICES ASSUME ServeInv, [RoutingNext]_routingVars PROVE ServesLatest'
  OBVIOUS
<1>t. ReturnInv /\ RoutingTypeOK /\ ServesLatest
  BY <1>1 DEF ServeInv, ReturnInv
<1>ro. routes \in [Tenants -> RouteRow]
  BY <1>t DEF RoutingTypeOK
<1>ge. \A u \in Tenants : Isolated(u) => routes[u].gen \in Generations
  BY <1>t, RoutedIsContents
<1>2. CASE UNCHANGED <<routes, generations, shared, latest>>
  BY <1>t, <1>2, ServesKept
<1>3. ASSUME NEW t \in Tenants, NEW c \in Components, Write(t, c) \/ WriteUncounted(t, c) PROVE ServesLatest'
  <2>1. Stored(t, c, latest[t][c] + 1) /\ latest' = [latest EXCEPT ![t][c] = @ + 1]
    BY <1>3 DEF Write, WriteUncounted
  <2>2. \A u \in Tenants : routes'[u].gen = routes[u].gen
    <3>1. CASE Write(t, c)
      BY <1>ro, <3>1 DEF Write, note_write, RouteRow
    <3>2. CASE WriteUncounted(t, c)
      BY <3>2 DEF WriteUncounted
    <3>3. QED  BY <1>3, <3>1, <3>2
  <2>3. /\ \A u \in Tenants : u # t => latest'[u] = latest[u]
        /\ Isolated(t) => /\ UNCHANGED shared
                          /\ generations'[routes[t].gen] = latest'[t]
                          /\ \A g \in Generations : g # routes[t].gen => generations'[g] = generations[g]
        /\ ~Isolated(t) => /\ UNCHANGED generations
                           /\ \A d \in Components : shared'[d][t] = latest'[t][d]
                           /\ \A d \in Components, u \in Tenants \ {t} : shared'[d][u] = shared[d][u]
    BY <1>t, <2>1, WriteKeeps
  <2>4. ASSUME NEW u \in Tenants
        PROVE  IF Isolated(u)' THEN generations'[routes'[u].gen] = latest'[u]
               ELSE \A d \in Components : shared'[d][u] = latest'[u][d]
    <3>1. CASE u = t
      BY <2>2, <2>3, <3>1 DEF Isolated
    <3>2. CASE u # t /\ Isolated(u)
      <4>1. generations[routes[u].gen] = latest[u] /\ routes[u].gen \in Generations
        BY <1>t, <1>ge, <3>2 DEF ServesLatest
      <4>2. Isolated(t) => routes[u].gen # routes[t].gen
        BY <1>t, <3>2, RoutesApart
      <4>3. QED  BY <2>2, <2>3, <3>2, <4>1, <4>2 DEF Isolated
    <3>3. CASE u # t /\ ~Isolated(u)
      <4>1. \A d \in Components : shared[d][u] = latest[u][d]
        BY <1>t, <3>3 DEF ServesLatest
      <4>2. QED  BY <2>2, <2>3, <3>3, <4>1 DEF Isolated
    <3>4. QED  BY <3>1, <3>2, <3>3
  <2>5. QED  BY <2>4 DEF ServesLatest
<1>4. CASE verified
  <2>1. operation.id \in Generations /\ migrations[operation.id].status = "copying"
    BY <1>t, <1>4 DEF ReturnInv, OperationStands, verified
  <2>2. \A u \in Tenants : Isolated(u) => routes[u].gen # operation.id
    BY <1>t, <2>1 DEF ReturnInv, RouteIsCutOver
  <2>3. \A g \in Generations : g # operation.id => generations'[g] = generations[g]
    BY <1>t, <1>4 DEF verified, RoutingTypeOK
  <2>4. UNCHANGED <<shared, routes, latest>>
    BY <1>4 DEF verified
  <2>5. QED  BY <1>t, <1>ge, <2>2, <2>3, <2>4, ServesKept
<1>5. ASSUME NEW g \in Generations, cutover(g) PROVE ServesLatest'
  <2> DEFINE t == migrations[g].tenant
  <2>1. t \in Tenants
    BY <1>t, <1>5 DEF ReturnInv, SlotsInOrder, cutover
  <2>2. generations[g] = latest[t]
    <3>1. Routed(t) = latest[t]
      BY <1>t, <2>1, RoutedIsLatest
    <3>2. QED  BY <1>5, <3>1 DEF cutover, UnchangedSinceVerified
  <2>3. /\ UNCHANGED <<shared, generations, latest>>
        /\ routes' = [routes EXCEPT ![t] = [gen |-> g, wrote |-> FALSE, purged |-> FALSE]]
    BY <1>5 DEF cutover, CutoverRoute
  <2>4. routes'[t].gen = g /\ \A u \in Tenants : u # t => routes'[u] = routes[u]
    BY <1>ro, <2>1, <2>3
  <2>5. g # Shared
    BY SharedIsNoGeneration
  <2>6. ASSUME NEW u \in Tenants
        PROVE  IF Isolated(u)' THEN generations'[routes'[u].gen] = latest'[u]
               ELSE \A d \in Components : shared'[d][u] = latest'[u][d]
    <3>1. CASE u = t
      BY <2>2, <2>3, <2>4, <2>5, <3>1 DEF Isolated
    <3>2. CASE u # t
      BY <1>t, <2>3, <2>4, <3>2 DEF Isolated, ServesLatest
    <3>3. QED  BY <3>1, <3>2
  <2>7. QED  BY <2>6 DEF ServesLatest
<1>6. ASSUME NEW g \in Generations, rollback(g) PROVE ServesLatest'
  <2> DEFINE t == migrations[g].tenant
             s == migrations[g].source
  <2>1. /\ t \in Tenants
        /\ IF s = Shared THEN \A c \in Components : shared[c][t] = latest[t][c]
           ELSE generations[s] = latest[t]
    BY <1>1, <1>t, <1>6, RollbackIsWhole DEF ServeInv
  <2>2. UNCHANGED <<shared, generations, latest>>
    BY <1>6 DEF rollback
  <2>3. routes'[t].gen = s /\ \A u \in Tenants : u # t => routes'[u] = routes[u]
    BY <1>ro, <1>6, <2>1 DEF rollback, RolledBackRoute, RouteRow
  <2> HIDE DEF t, s
  <2>4. ASSUME NEW u \in Tenants
        PROVE  IF Isolated(u)' THEN generations'[routes'[u].gen] = latest'[u]
               ELSE \A d \in Components : shared'[d][u] = latest'[u][d]
    <3>1. CASE u = t
      BY <2>1, <2>2, <2>3, <3>1 DEF Isolated
    <3>2. CASE u # t
      BY <1>t, <2>2, <2>3, <3>2 DEF Isolated, ServesLatest
    <3>3. QED  BY <3>1, <3>2
  <2>5. QED  BY <2>4 DEF ServesLatest
<1>7. ASSUME NEW c \in Components, apply_component(c) \/ purge_component(c) PROVE ServesLatest'
  <2> DEFINE t == reverses[operation.id].tenant
  <2>1. UNCHANGED <<generations, routes, latest>> /\ operation.kind \in {"apply", "purge"}
    BY <1>7 DEF apply_component, purge_component
  <2>2. t \in Tenants /\ Isolated(t)
    BY <1>t, <2>1, AppliedIsRouted
  <2>3. \A u \in Tenants \ {t}, d \in Components : shared'[d][u] = shared[d][u]
    <3>1. CASE apply_component(c)
      <4>1. /\ \A u \in Tenants \ {t} : shared'[c][u] = shared[c][u]
            /\ \A d \in Components : d # c => shared'[d] = shared[d]
        BY <1>1, <1>t, <3>1, ComponentApplied DEF ServeInv
      <4>2. QED  BY <4>1
    <3>2. CASE purge_component(c)
      <4>1. shared' = [shared EXCEPT ![c][t] = NoRows]
        BY <3>2 DEF purge_component
      <4>2. shared \in [Components -> [Tenants -> RowVersion]]
        BY <1>t DEF RoutingTypeOK
      <4> HIDE DEF t
      <4>3. QED  BY <4>1, <4>2
    <3>3. QED  BY <1>7, <3>1, <3>2
  <2> HIDE DEF t
  <2>4. QED  BY <1>t, <2>1, <2>2, <2>3, ServesKept
<1>8. CASE reverse_applied
  <2> DEFINE r == operation.id
             t == reverses[r].tenant
  <2>1. /\ t \in Tenants /\ Isolated(t) /\ Routed(t) = reverses[r].source
    BY <1>t, <1>8, AppliedIsRouted DEF reverse_applied
  <2>2. \A c \in Components : shared[c][t] = reverses[r].source[c]
    BY <1>1, <1>8 DEF ServeInv, ApplySplices, reverse_applied
  <2>3. Routed(t) = latest[t]
    BY <1>t, <2>1, RoutedIsLatest
  <2>4. UNCHANGED <<shared, generations, latest>> /\ routes' = [routes EXCEPT ![t] = SharedRoute]
    BY <1>8 DEF reverse_applied
  <2> HIDE DEF r, t
  <2>5. routes'[t].gen = Shared /\ \A u \in Tenants : u # t => routes'[u] = routes[u]
    BY <1>ro, <2>1, <2>4 DEF SharedRoute
  <2>6. ASSUME NEW u \in Tenants
        PROVE  IF Isolated(u)' THEN generations'[routes'[u].gen] = latest'[u]
               ELSE \A d \in Components : shared'[d][u] = latest'[u][d]
    <3>1. CASE u = t
      BY <2>1, <2>2, <2>3, <2>4, <2>5, <3>1 DEF Isolated
    <3>2. CASE u # t
      BY <1>t, <2>4, <2>5, <3>2 DEF Isolated, ServesLatest
    <3>3. QED  BY <3>1, <3>2
  <2>7. QED  BY <2>6 DEF ServesLatest
<1>9. CASE reverse_finalized
  <2>1. \A u \in Tenants : routes'[u].gen = routes[u].gen
    BY <1>t, <1>9, PurgedRow
  <2>2. QED  BY <1>t, <1>9, <2>1, ServesKept DEF reverse_finalized
<1>10. ASSUME NEW t \in Movers, execute_cleanup(t) PROVE ServesLatest'
  <2>1. \A u \in Tenants : Isolated(u) => generations'[routes[u].gen] = generations[routes[u].gen]
    BY <1>t, <1>10, CleanupKeeps
  <2>2. QED  BY <1>t, <1>10, <2>1, ServesKept DEF execute_cleanup
<1>11. QED
  BY <1>1, <1>2, <1>3, <1>4, <1>5, <1>6, <1>7, <1>8, <1>9, <1>10
     DEF RoutingNext, routingVars, stage, stage_reverse, failed, reverse_verified, reverse_failed,
         reverse_apply_failed, apply_reverse, finalize_shared_source, RegistryRestart

-----------------------------------------------------------------------------
\* Only staging gives a generation its tenant and its source, and only a transition
\* of its migration its status.
LEMMA MigrationsKept ==
    ASSUME ReturnInv, [RoutingNext]_routingVars
    PROVE  /\ UNCHANGED profile
           /\ \/ \E t \in Movers : stage(t)
              \/ \A g \in Generations :
                    /\ migrations'[g].tenant = migrations[g].tenant
                    /\ migrations'[g].source = migrations[g].source
                    /\ migrations'[g].sourceWrote = migrations[g].sourceWrote
                    /\ migrations'[g].status = "none" <=> migrations[g].status = "none"
<1>t. RoutingTypeOK /\ OperationStands
  BY DEF ReturnInv
<1>1. UNCHANGED profile
  BY DEF RoutingNext, routingVars, Write, WriteUncounted, stage, stage_reverse, execute_cleanup, verified,
         failed, cutover, rollback, reverse_verified, reverse_failed, apply_reverse, finalize_shared_source,
         apply_component, purge_component, reverse_apply_failed, reverse_applied, reverse_finalized,
         RegistryRestart
<1> DEFINE K == \A g \in Generations :
                    /\ migrations'[g].tenant = migrations[g].tenant
                    /\ migrations'[g].source = migrations[g].source
                    /\ migrations'[g].sourceWrote = migrations[g].sourceWrote
                    /\ migrations'[g].status = "none" <=> migrations[g].status = "none"
<1>2. CASE UNCHANGED migrations
  BY <1>1, <1>2
<1>3. CASE verified
  <2>1. operation.id \in Generations /\ migrations[operation.id].status = "copying"
    BY <1>t, <1>3 DEF OperationStands, verified
  <2>2. K
    BY <1>t, <1>3, <2>1, MigrationVerified DEF verified
  <2>3. QED  BY <1>1, <2>2
<1>4. CASE failed
  <2>1. operation.id \in Generations /\ migrations[operation.id].status = "copying"
    BY <1>t, <1>4 DEF OperationStands, failed
  <2>2. K
    BY <1>t, <1>4, <2>1, MigrationStatus DEF failed
  <2>3. QED  BY <1>1, <2>2
<1>5. ASSUME NEW g \in Generations, cutover(g) PROVE K
  <2>1. migrations[g].status = "verified"
    BY <1>5 DEF cutover
  <2>2. QED  BY <1>t, <1>5, <2>1, MigrationStatus DEF cutover
<1>6. ASSUME NEW g \in Generations, rollback(g) PROVE K
  <2>1. migrations[g].status = "cutover"
    BY <1>6 DEF rollback
  <2>2. QED  BY <1>t, <1>6, <2>1, MigrationStatus DEF rollback
<1>7. CASE reverse_applied
  <2> DEFINE g == reverses[operation.id].gen
  <2>1. g \in Generations /\ migrations[g].status = "cutover"
    BY <1>7, AppliedIsRouted DEF reverse_applied
  <2>2. migrations' = [migrations EXCEPT ![g].status = "reverse-migrated"]
    BY <1>7 DEF reverse_applied
  <2> HIDE DEF g
  <2>3. K
    BY <1>t, <2>1, <2>2, MigrationStatus
  <2>4. QED  BY <1>1, <2>3
<1>8. QED
  BY <1>1, <1>2, <1>3, <1>4, <1>5, <1>6, <1>7
     DEF RoutingNext, routingVars, Write, WriteUncounted, stage_reverse, execute_cleanup, reverse_verified,
         reverse_failed, apply_reverse, finalize_shared_source, apply_component, purge_component,
         reverse_apply_failed, reverse_finalized, RegistryRestart

LEMMA StagedOnEarlierStep ==
    ReturnInv /\ StagedOnEarlier /\ [RoutingNext]_routingVars => StagedOnEarlier'
<1>1. SUFFICES ASSUME ReturnInv, StagedOnEarlier, [RoutingNext]_routingVars PROVE StagedOnEarlier'
  OBVIOUS
<1>2. UNCHANGED profile
  BY <1>1, MigrationsKept
<1>3. ASSUME NEW t \in Movers, stage(t) PROVE StagedOnEarlier'
  <2> DEFINE n == NextGeneration
  <2>1. /\ n \in Generations
        /\ \A g \in Generations : g > n => migrations[g].status = "none"
        /\ migrations[n].status = "none"
        /\ migrations'[n] =
             [tenant |-> t, status |-> "copying", source |-> routes[t].gen,
              sourceWrote |-> routes[t].wrote, digest |-> Gone]
        /\ \A g \in Generations : g # n => migrations'[g] = migrations[g]
    BY <1>1, <1>3, StageKeeps, Zenon
  <2>2. migrations'[n].source = routes[t].gen
    BY <2>1
  <2>3. t \in Tenants
    BY TenancyAssumption
  <2>4. routes[t].gen < n
    <3>1. \A g \in Generations : g \in Int /\ g > Shared
      BY TenancyAssumption DEF Generations, Shared
    <3>2. CASE Isolated(t)
      <4>1. routes[t].gen \in Generations /\ migrations[routes[t].gen].status # "none"
        BY <1>1, <2>3, <3>2, RoutedIsContents DEF ReturnInv, RouteIsCutOver
      <4>2. QED  BY <2>1, <3>1, <4>1
    <3>3. CASE ~Isolated(t)
      BY <2>1, <3>1, <3>3 DEF Isolated
    <3>4. QED  BY <3>2, <3>3
  <2>5. "chain" \notin profile => routes[t].gen = Shared
    BY <1>3 DEF stage, Isolated
  <2> HIDE DEF n
  <2>6. QED  BY <1>1, <1>2, <2>1, <2>2, <2>4, <2>5 DEF StagedOnEarlier
<1>4. CASE \A g \in Generations :
             /\ migrations'[g].source = migrations[g].source
             /\ migrations'[g].status = "none" <=> migrations[g].status = "none"
  BY <1>1, <1>2, <1>4 DEF StagedOnEarlier
<1>5. QED
  BY <1>1, <1>3, <1>4, MigrationsKept

LEMMA PurgeDisabledStep ==
    ASSUME Reversible
    PROVE  ReturnInv /\ PurgeDisabled /\ [RoutingNext]_routingVars => PurgeDisabled'
<1>1. SUFFICES ASSUME ReturnInv, PurgeDisabled, [RoutingNext]_routingVars, MayRollBack, "chain" \in profile
               PROVE  operation'.kind # "purge" /\ \A t \in Tenants : ~routes'[t].purged
  <2>1. ReturnInv /\ [RoutingNext]_routingVars => UNCHANGED profile
    BY MigrationsKept
  <2>2. QED  BY <2>1 DEF PurgeDisabled, MayRollBack
<1>2. operation.kind # "purge" /\ \A t \in Tenants : ~routes[t].purged
  BY <1>1 DEF PurgeDisabled
<1>3. "finalize" \notin profile
  BY <1>1 DEF Reversible, MayRollBack, ReturnInv, RoutingTypeOK
<1>4. routes \in [Tenants -> RouteRow]
  BY <1>1 DEF ReturnInv, RoutingTypeOK
<1>6. operation'.kind # "purge"
  <2>1. CASE UNCHANGED operation
    BY <1>2, <2>1
  <2>2. CASE operation' = Idle
    BY <2>2 DEF Idle
  <2>3. ASSUME NEW t \in Movers, stage(t) PROVE operation'.kind # "purge"
    BY <2>3 DEF stage
  <2>4. ASSUME NEW t \in Movers, stage_reverse(t) PROVE operation'.kind # "purge"
    BY <2>4 DEF stage_reverse
  <2>5. ASSUME NEW r \in Reverses, apply_reverse(r) PROVE operation'.kind # "purge"
    BY <2>5 DEF apply_reverse
  <2>6. ASSUME NEW c \in Components, apply_component(c) PROVE operation'.kind # "purge"
    BY <1>1, <1>2, <2>6 DEF apply_component, ReturnInv, RoutingTypeOK, Operation
  <2>7. QED
    BY <1>1, <1>2, <1>3, <2>1, <2>2, <2>3, <2>4, <2>5, <2>6
       DEF RoutingNext, routingVars, Write, WriteUncounted, execute_cleanup, verified, failed, cutover,
           rollback, reverse_verified, reverse_failed, finalize_shared_source, purge_component,
           reverse_apply_failed, reverse_applied, reverse_finalized, RegistryRestart
<1>7. CASE UNCHANGED routes
  BY <1>2, <1>6, <1>7
<1>8. ASSUME NEW t \in Tenants, NEW c \in Components, Write(t, c) PROVE \A u \in Tenants : ~routes'[u].purged
  BY <1>2, <1>4, <1>8 DEF Write, note_write, RouteRow
<1>9. ASSUME NEW g \in Generations, cutover(g) PROVE \A u \in Tenants : ~routes'[u].purged
  BY <1>2, <1>4, <1>9 DEF cutover, CutoverRoute
<1>10. ASSUME NEW g \in Generations, rollback(g) PROVE \A u \in Tenants : ~routes'[u].purged
  BY <1>2, <1>4, <1>10 DEF rollback, RolledBackRoute, RouteRow
<1>11. CASE reverse_applied
  BY <1>2, <1>4, <1>6, <1>11 DEF reverse_applied, SharedRoute
<1>12. QED
  BY <1>1, <1>2, <1>6, <1>7, <1>8, <1>9, <1>10, <1>11
     DEF RoutingNext, routingVars, WriteUncounted, stage, stage_reverse, execute_cleanup, verified, failed,
         reverse_verified, reverse_failed, apply_reverse, finalize_shared_source, apply_component,
         purge_component, reverse_apply_failed, reverse_finalized, RegistryRestart

-----------------------------------------------------------------------------
\* What PendingStands says of one generation.
PendingOf(g) ==
    LET m == migrations[g]
        t == migrations[g].tenant
    IN
    /\ \A h \in Generations : migrations[h].tenant = t /\ IsPending(h) => h = g
    /\ \A h \in Generations : migrations[h].tenant = t /\ migrations[h].status = "cutover" => h < g
    /\ routes[t].gen <= m.source
    /\ operation.kind = "copy" /\ operation.id = g =>
         routes[t].gen = m.source /\ routes[t].wrote = m.sourceWrote
    /\ m.status = "verified" =>
         /\ \A c \in Components : m.digest[c] <= latest[t][c]
         /\ routes[t].gen = m.source /\ routes[t].wrote /\ ~m.sourceWrote =>
              \E c \in Components : m.digest[c] < latest[t][c]

\* A step that leaves the migrations of a tenant, its route and what was acknowledged.
LEMMA PendingKept ==
    ASSUME NEW g \in Generations, PendingOf(g), IsPending(g),
           migrations'[g] = migrations[g],
           \A h \in Generations :
              /\ migrations'[h].tenant = migrations[h].tenant
              /\ IsPending(h)' /\ migrations[h].tenant = migrations[g].tenant => IsPending(h)
              /\ migrations'[h].status = "cutover" /\ migrations[h].tenant = migrations[g].tenant
                   => migrations[h].status = "cutover",
           LET t == migrations[g].tenant IN
              /\ routes'[t].gen = routes[t].gen /\ routes'[t].wrote = routes[t].wrote
              /\ latest'[t] = latest[t],
           operation'.kind = "copy" /\ operation'.id = g => operation.kind = "copy" /\ operation.id = g
    PROVE  PendingOf(g)'
BY DEF PendingOf

LEMMA PendingStep == ServeInv /\ [RoutingNext]_routingVars => PendingStands'
<1>1. SUFFICES ASSUME ServeInv, [RoutingNext]_routingVars, MayRollBack, NEW g \in Generations, IsPending(g)'
               PROVE  PendingOf(g)'
  <2>1. ServeInv /\ [RoutingNext]_routingVars => UNCHANGED profile
    BY MigrationsKept DEF ServeInv
  <2>2. ServeInv /\ [RoutingNext]_routingVars /\ ~MayRollBack => PendingStands'
    BY <2>1 DEF PendingStands, MayRollBack
  <2>3. ASSUME ServeInv, [RoutingNext]_routingVars, MayRollBack PROVE PendingStands'
    <3>1. \A g \in Generations : IsPending(g)' => PendingOf(g)'
      BY <1>1, <2>3
    <3>2. QED  BY <3>1 DEF PendingStands, PendingOf
  <2>4. QED  BY <2>2, <2>3
<1>t. ReturnInv /\ RoutingTypeOK /\ ServesLatest /\ StagedOnEarlier /\ SlotsInOrder /\ RouteIsCutOver
  BY <1>1 DEF ServeInv, ReturnInv
<1>ro. routes \in [Tenants -> RouteRow]
  BY <1>t DEF RoutingTypeOK
<1>mi. migrations \in [Generations -> MigrationRow]
  BY <1>t DEF RoutingTypeOK
<1>in. \A h \in Generations : h \in Int /\ h > Shared /\ Shared \in Int
  BY TenancyAssumption DEF Generations, Shared
<1>te. \A h \in Generations : IsPending(h) => migrations[h].tenant \in Tenants
  BY <1>t DEF SlotsInOrder, IsPending
<1>ty. \A u \in Tenants : routes[u].gen \in Int
  <2>1. \A u \in Tenants : routes[u].gen \in {Shared} \cup Generations
    BY <1>ro DEF RouteRow
  <2>2. Shared \in Int
    BY DEF Shared
  <2>3. QED  BY <1>in, <2>1, <2>2
<1>so. \A h \in Generations : migrations[h].source \in Int
  <2>1. \A h \in Generations : migrations[h].source \in {Shared} \cup Generations
    BY <1>mi DEF MigrationRow
  <2>2. Shared \in Int
    BY DEF Shared
  <2>3. QED  BY <1>in, <2>1, <2>2
<1>di. \A h \in Generations, c \in Components : migrations[h].digest[c] \in Int
  BY <1>mi, TenancyAssumption DEF MigrationRow, Contents, RowVersion
<1>p. \A h \in Generations : IsPending(h) => PendingOf(h)
  BY <1>1 DEF ServeInv, PendingStands, PendingOf
<1>2. CASE /\ UNCHANGED <<migrations, latest>>
           /\ \A u \in Tenants : routes'[u].gen = routes[u].gen /\ routes'[u].wrote = routes[u].wrote
           /\ operation'.kind = "copy" => UNCHANGED operation
  <2>1. IsPending(g)
    BY <1>1, <1>2 DEF IsPending
  <2>2. QED  BY <1>2, <1>p, <1>te, <2>1, PendingKept DEF IsPending
<1>3. ASSUME NEW t \in Tenants, NEW c \in Components, Write(t, c) \/ WriteUncounted(t, c) PROVE PendingOf(g)'
  <2>1. /\ UNCHANGED <<migrations, operation>> /\ operation.kind # "copy"
        /\ latest' = [latest EXCEPT ![t][c] = @ + 1]
        /\ routes' = [routes EXCEPT ![t].wrote = @ \/ Isolated(t)] \/ UNCHANGED routes
    <3>1. CASE Write(t, c)
      BY <3>1 DEF Write, note_write, Unlocked, Idle
    <3>2. CASE WriteUncounted(t, c)
      BY <3>2 DEF WriteUncounted, Unlocked, Idle
    <3>3. QED  BY <1>3, <3>1, <3>2
  <2>2. /\ \A u \in Tenants : routes'[u].gen = routes[u].gen
        /\ \A u \in Tenants : u # t => routes'[u] = routes[u]
    BY <1>ro, <2>1 DEF RouteRow
  <2>3. /\ latest'[t] = [latest[t] EXCEPT ![c] = @ + 1]
        /\ \A u \in Tenants : u # t => latest'[u] = latest[u]
        /\ latest[t] \in [Components -> 1..MaxVersion]
    BY <1>t, <2>1 DEF RoutingTypeOK
  <2>4. IsPending(g) /\ PendingOf(g) /\ migrations[g].tenant \in Tenants
    BY <1>1, <1>p, <1>te, <2>1 DEF IsPending
  <2>5. CASE migrations[g].tenant # t
    BY <1>p, <2>1, <2>2, <2>3, <2>4, <2>5, PendingKept DEF IsPending
  <2>6. CASE migrations[g].tenant = t
    <3>1. latest'[t][c] = latest[t][c] + 1 /\ \A d \in Components : d # c => latest'[t][d] = latest[t][d]
      BY <2>3
    <3>2. \A d \in Components : latest[t][d] \in Int
      BY <1>t, LatestIsRow
    <3>3. ASSUME migrations[g].status = "verified"
          PROVE  /\ \A d \in Components : migrations[g].digest[d] <= latest'[t][d]
                 /\ migrations[g].digest[c] < latest'[t][c]
      <4>1. \A d \in Components : migrations[g].digest[d] <= latest[t][d]
        BY <2>4, <2>6, <3>3 DEF PendingOf
      <4>2. QED  BY <1>di, <3>1, <3>2, <4>1
    <3>4. QED  BY <2>1, <2>2, <2>4, <2>6, <3>3 DEF PendingOf, IsPending
  <2>7. QED  BY <2>5, <2>6
<1>4. ASSUME NEW t \in Movers, stage(t) PROVE PendingOf(g)'
  <2> DEFINE n == NextGeneration
  <2>1. /\ n \in Generations /\ migrations[n].status = "none"
        /\ \A h \in Generations : h > n => migrations[h].status = "none"
        /\ migrations'[n] =
             [tenant |-> t, status |-> "copying", source |-> routes[t].gen,
              sourceWrote |-> routes[t].wrote, digest |-> Gone]
        /\ \A h \in Generations : h # n => migrations'[h] = migrations[h]
    BY <1>t, <1>4, StageKeeps, Zenon
  <2>2. /\ migrations'[n].tenant = t /\ migrations'[n].status = "copying"
        /\ migrations'[n].source = routes[t].gen /\ migrations'[n].sourceWrote = routes[t].wrote
    BY <2>1
  <2>3. t \in Tenants
    BY TenancyAssumption
  <2>4. \A h \in Generations : ~(migrations[h].tenant = t /\ IsPending(h))
    BY <1>4 DEF stage, begin_migration, Pending, IsPending
  <2>5. UNCHANGED <<routes, latest>> /\ operation'.id = n
    BY <1>4 DEF stage
  <2> HIDE DEF n
  <2>6. CASE g = n
    <3>1. \A h \in Generations : migrations'[h].tenant = t /\ IsPending(h)' => h = n
      BY <2>1, <2>4 DEF IsPending
    <3>2. \A h \in Generations : migrations'[h].status = "cutover" => h < n
      BY <1>in, <2>1, <2>2
    <3>3. routes[t].gen <= routes[t].gen
      BY <1>ty, <2>3
    <3>4. QED  BY <2>2, <2>5, <2>6, <3>1, <3>2, <3>3 DEF PendingOf
  <2>7. CASE g # n
    <3>1. IsPending(g) /\ migrations[g].tenant # t /\ migrations'[g] = migrations[g]
      BY <1>1, <2>1, <2>4, <2>7 DEF IsPending
    <3>2. PendingOf(g)
      BY <1>p, <3>1
    <3>3. QED  BY <2>1, <2>2, <2>5, <2>7, <3>1, <3>2 DEF PendingOf, IsPending
  <2>8. QED  BY <2>6, <2>7
<1>5. CASE verified
  <2> DEFINE n == operation.id
             t == migrations[n].tenant
  <2>1. n \in Generations /\ migrations[n].status = "copying" /\ operation.kind = "copy"
    BY <1>t, <1>5 DEF ReturnInv, OperationStands, verified
  <2>2. /\ migrations'[n].status = "verified" /\ migrations'[n].digest = Copied(t)
        /\ \A h \in Generations : h # n => migrations'[h] = migrations[h]
        /\ \A h \in Generations :
              /\ migrations'[h].tenant = migrations[h].tenant
              /\ migrations'[h].source = migrations[h].source
              /\ migrations'[h].sourceWrote = migrations[h].sourceWrote
    BY <1>t, <1>5, <2>1, MigrationVerified DEF verified
  <2>3. UNCHANGED <<routes, latest>> /\ operation' = Idle
    BY <1>5 DEF verified
  <2>4. operation'.kind # "copy"
    BY <2>3 DEF Idle
  <2>5. IsPending(n) /\ PendingOf(n) /\ t \in Tenants
    BY <1>p, <1>te, <2>1 DEF IsPending
  <2>6. \A c \in Components : Copied(t)[c] = latest[t][c]
    <3>1. Routed(t) = latest[t]
      BY <1>t, <2>5, RoutedIsLatest
    <3>2. QED  BY <3>1 DEF Copied, CopiedDatabase, CopiedDirectory
  <2>7. \A c \in Components : latest[t][c] <= latest[t][c]
    BY <1>t, <2>5, LatestIsRow
  <2>8. \A h \in Generations : /\ IsPending(h)' <=> IsPending(h)
                               /\ migrations'[h].status = "cutover" <=> migrations[h].status = "cutover"
    BY <2>1, <2>2 DEF IsPending
  <2>9. CASE g = n
    <3>1. routes[t].wrote = migrations[n].sourceWrote
      BY <2>1, <2>5 DEF PendingOf
    <3> HIDE DEF n, t
    <3>2. t = migrations[n].tenant
      BY DEF t
    <3>3. QED  BY <2>2, <2>3, <2>4, <2>5, <2>6, <2>7, <2>8, <2>9, <3>1, <3>2 DEF PendingOf
  <2>10. CASE g # n
    <3>1. IsPending(g) /\ PendingOf(g)
      BY <1>1, <1>p, <2>8
    <3> HIDE DEF n, t
    <3>2. QED  BY <2>2, <2>3, <2>4, <2>8, <2>10, <3>1 DEF PendingOf
  <2>11. QED  BY <2>9, <2>10
<1>6. CASE failed
  <2> DEFINE n == operation.id
  <2>1. n \in Generations
    BY <1>t, <1>6 DEF ReturnInv, OperationStands, failed
  <2>2. /\ migrations'[n].status = "failed"
        /\ \A h \in Generations : h # n => migrations'[h] = migrations[h]
        /\ \A h \in Generations : migrations'[h].tenant = migrations[h].tenant
    BY <1>t, <1>6, <2>1, MigrationStatus DEF failed
  <2>3. UNCHANGED <<routes, latest>> /\ operation'.kind # "copy"
    BY <1>6 DEF failed, Idle
  <2>4. g # n /\ IsPending(g) /\ PendingOf(g)
    BY <1>1, <1>p, <2>2 DEF IsPending
  <2> HIDE DEF n
  <2>5. QED  BY <2>2, <2>3, <2>4, PendingKept DEF IsPending
<1>7. ASSUME NEW n \in Generations, cutover(n) PROVE PendingOf(g)'
  <2> DEFINE t == migrations[n].tenant
  <2>1. /\ IsPending(n) /\ t \in Tenants /\ UNCHANGED <<latest, operation>> /\ operation.kind # "copy"
        /\ routes' = [routes EXCEPT ![t] = [gen |-> n, wrote |-> FALSE, purged |-> FALSE]]
    BY <1>te, <1>7 DEF cutover, CutoverRoute, IsPending, Unlocked, Idle
  <2>2. /\ migrations'[n].status = "cutover"
        /\ \A h \in Generations : h # n => migrations'[h] = migrations[h]
        /\ \A h \in Generations : migrations'[h].tenant = migrations[h].tenant
    BY <1>t, <1>7, MigrationStatus DEF cutover
  <2>3. g # n /\ IsPending(g) /\ PendingOf(g)
    BY <1>1, <1>p, <2>2 DEF IsPending
  <2>4. migrations[g].tenant # t
    BY <2>1, <2>3 DEF PendingOf
  <2>5. \A u \in Tenants : u # t => routes'[u] = routes[u]
    BY <1>ro, <2>1
  <2>6. migrations[g].tenant \in Tenants
    BY <1>te, <2>3
  <2>7. QED  BY <2>1, <2>2, <2>3, <2>4, <2>5, <2>6, PendingKept DEF IsPending
<1>8. ASSUME NEW n \in Generations, rollback(n) PROVE PendingOf(g)'
  <2> DEFINE t == migrations[n].tenant
             s == migrations[n].source
  <2>1. /\ migrations[n].status = "cutover" /\ t \in Tenants /\ routes[t].gen = n
        /\ UNCHANGED <<latest, operation>> /\ operation.kind # "copy"
    BY <1>t, <1>8 DEF rollback, RollbackAdmitted, SlotsInOrder, Unlocked, Idle
  <2>2. /\ migrations'[n].status = "rolled-back"
        /\ \A h \in Generations : h # n => migrations'[h] = migrations[h]
        /\ \A h \in Generations : migrations'[h].tenant = migrations[h].tenant
    BY <1>t, <1>8, MigrationStatus DEF rollback
  <2>3. routes'[t].gen = s /\ \A u \in Tenants : u # t => routes'[u] = routes[u]
    BY <1>ro, <1>8, <2>1 DEF rollback, RolledBackRoute, RouteRow
  <2>4. g # n /\ IsPending(g) /\ PendingOf(g) /\ migrations[g].tenant \in Tenants
    BY <1>1, <1>p, <1>te, <2>2 DEF IsPending
  <2>5. s < n
    BY <1>t, <2>1 DEF StagedOnEarlier
  <2>6. CASE migrations[g].tenant = t
    <3>1. n <= migrations[g].source
      BY <2>1, <2>4, <2>6 DEF PendingOf
    <3>2. s < migrations[g].source /\ s <= migrations[g].source /\ s # migrations[g].source
      BY <1>in, <1>so, <2>5, <3>1
    <3> HIDE DEF t, s
    <3>3. QED  BY <2>1, <2>2, <2>3, <2>4, <2>6, <3>2 DEF PendingOf, IsPending
  <2>7. CASE migrations[g].tenant # t
    BY <2>1, <2>2, <2>3, <2>4, <2>7, PendingKept DEF IsPending
  <2>8. QED  BY <2>6, <2>7
<1>9. CASE reverse_applied
  <2> DEFINE t == reverses[operation.id].tenant
             n == reverses[operation.id].gen
  <2>1. t \in Tenants /\ n \in Generations /\ routes[t].gen = n
    BY <1>t, <1>9, AppliedIsRouted DEF reverse_applied
  <2>2. /\ UNCHANGED latest /\ operation' = Idle /\ routes' = [routes EXCEPT ![t] = SharedRoute]
        /\ migrations' = [migrations EXCEPT ![n].status = "reverse-migrated"]
    BY <1>9 DEF reverse_applied
  <2> HIDE DEF t, n
  <2>3. /\ migrations'[n].status = "reverse-migrated"
        /\ \A h \in Generations : h # n => migrations'[h] = migrations[h]
        /\ \A h \in Generations : migrations'[h].tenant = migrations[h].tenant
    BY <1>t, <2>1, <2>2, MigrationStatus
  <2>4. routes'[t] = SharedRoute /\ \A u \in Tenants : u # t => routes'[u] = routes[u]
    BY <1>ro, <2>1, <2>2
  <2>5. routes'[t].gen = Shared /\ ~routes'[t].wrote /\ operation'.kind # "copy"
    BY <2>2, <2>4 DEF SharedRoute, Idle
  <2>6. g # n /\ IsPending(g) /\ PendingOf(g) /\ migrations[g].tenant \in Tenants
    BY <1>1, <1>p, <1>te, <2>3 DEF IsPending
  <2>7. CASE migrations[g].tenant = t
    <3>1. n <= migrations[g].source
      BY <2>1, <2>6, <2>7 DEF PendingOf
    <3>2. Shared <= migrations[g].source
      BY <1>in, <1>so, <2>1, <3>1
    <3>3. QED  BY <2>2, <2>3, <2>5, <2>6, <2>7, <3>2 DEF PendingOf, IsPending
  <2>8. CASE migrations[g].tenant # t
    BY <2>2, <2>3, <2>4, <2>5, <2>6, <2>8, PendingKept DEF IsPending
  <2>9. QED  BY <2>7, <2>8
<1>10. CASE reverse_finalized
  <2>1. \A u \in Tenants : routes'[u].gen = routes[u].gen /\ routes'[u].wrote = routes[u].wrote
    BY <1>t, <1>10, PurgedRow
  <2>2. UNCHANGED <<migrations, latest>> /\ operation'.kind # "copy"
    BY <1>10 DEF reverse_finalized, Idle
  <2>3. QED  BY <1>2, <2>1, <2>2
<1>11. CASE UNCHANGED <<migrations, latest, routes>> /\ (operation'.kind = "copy" => UNCHANGED operation)
  BY <1>2, <1>11
<1>12. ASSUME NEW c \in Components, apply_component(c) \/ purge_component(c) PROVE PendingOf(g)'
  <2>1. operation'.kind # "copy"
    BY <1>t, <1>12 DEF apply_component, purge_component, RoutingTypeOK, Operation
  <2>2. QED  BY <1>11, <1>12, <2>1 DEF apply_component, purge_component
<1>13. ASSUME NEW t \in Movers, stage_reverse(t) PROVE PendingOf(g)'
  BY <1>11, <1>13 DEF stage_reverse
<1>14. ASSUME NEW r \in Reverses, apply_reverse(r) PROVE PendingOf(g)'
  BY <1>11, <1>14 DEF apply_reverse
<1>15. ASSUME NEW r \in Reverses, finalize_shared_source(r) PROVE PendingOf(g)'
  BY <1>11, <1>15 DEF finalize_shared_source
<1>16. CASE UNCHANGED <<migrations, latest, routes>> /\ operation' = Idle
  BY <1>11, <1>16 DEF Idle
<1>17. CASE UNCHANGED <<migrations, latest, routes, operation>>
  BY <1>11, <1>17
<1>18. QED
  BY <1>1, <1>3, <1>4, <1>5, <1>6, <1>7, <1>8, <1>9, <1>10, <1>12, <1>13, <1>14, <1>15, <1>16, <1>17
     DEF RoutingNext, routingVars, execute_cleanup, reverse_verified, reverse_failed,
         reverse_apply_failed, RegistryRestart

-----------------------------------------------------------------------------
RollbackOf(t) == \E S \in SUBSET Generations : Chain(t, S) /\ ChainHolds(t, S)

\* A step that leaves the generations of the chain as they are, and takes nothing away
\* that was still held below.
LEMMA ChainKept ==
    ASSUME RoutingTypeOK, NEW t \in Tenants, NEW S \in SUBSET Generations, Chain(t, S), ChainHolds(t, S),
           routes'[t].gen = routes[t].gen,
           routes[t].wrote => routes'[t].wrote,
           \A g \in S : /\ migrations'[g].tenant = migrations[g].tenant
                        /\ migrations'[g].status = migrations[g].status
                        /\ migrations'[g].source = migrations[g].source
                        /\ migrations'[g].sourceWrote = migrations[g].sourceWrote,
           latest'[t] = latest[t],
           \A g \in S : migrations[g].source # Shared =>
              generations'[migrations[g].source] = generations[migrations[g].source],
           (\A c \in Components : shared[c][t] = latest[t][c])
              => routes'[t].purged \/ Purging(t)' \/ \A c \in Components : shared'[c][t] = latest[t][c],
           routes[t].purged \/ Purging(t) => routes'[t].purged \/ Purging(t)'
    PROVE  RollbackOf(t)'
<1>1. Chain(t, S)'
  BY DEF Chain
<1>2. ASSUME NEW g \in S, \A h \in S : h >= g => Unwritten(t, S, h)' PROVE SourceHolds(t, g)'
  <2>1. ASSUME NEW h \in S, Unwritten(t, S, h)' PROVE Unwritten(t, S, h)
    BY <2>1 DEF Unwritten
  <2>2. SourceHolds(t, g)
    BY <1>2, <2>1 DEF ChainHolds
  <2>3. migrations[g].source \in S \cup {Shared}
    BY DEF Chain
  <2>4. QED  BY <2>2, <2>3 DEF SourceHolds
<1>3. ChainHolds(t, S)'
  BY <1>2 DEF ChainHolds
<1>4. QED  BY <1>1, <1>3 DEF RollbackOf

\* A tenant of the shared stores has nothing to roll back.
LEMMA SharedChain ==
    ASSUME NEW t \in Tenants, routes[t].gen = Shared PROVE RollbackOf(t)
<1>1. Chain(t, {}) /\ ChainHolds(t, {})
  BY DEF Chain, ChainHolds
<1>2. QED  BY <1>1 DEF RollbackOf

LEMMA CutoverChain ==
    ASSUME ServeInv, MayRollBack, NEW g \in Generations, cutover(g),
           NEW t \in Tenants, t = migrations[g].tenant
    PROVE  RollbackOf(t)'
<1> DEFINE b == migrations[g].source
<1>t. /\ RoutingTypeOK /\ ServesLatest /\ StagedOnEarlier /\ SlotsInOrder /\ RollbackStands /\ PurgeDisabled
      /\ RouteIsCutOver
  BY DEF ServeInv, ReturnInv
<1>1. /\ t \in Tenants /\ routes[t].gen = b /\ IsPending(g) /\ migrations[g].status = "verified"
      /\ Routed(t) = migrations[g].digest /\ generations[g] = migrations[g].digest
      /\ operation = Idle /\ UNCHANGED <<shared, generations, latest, operation, profile>>
      /\ routes' = [routes EXCEPT ![t] = [gen |-> g, wrote |-> FALSE, purged |-> FALSE]]
  BY <1>t DEF cutover, CutoverRoute, UnchangedSinceVerified, SlotsInOrder, IsPending, Unlocked
<1>2. /\ migrations'[g].status = "cutover"
      /\ \A h \in Generations : h # g => migrations'[h] = migrations[h]
      /\ \A h \in Generations :
            /\ migrations'[h].tenant = migrations[h].tenant
            /\ migrations'[h].source = migrations[h].source
            /\ migrations'[h].sourceWrote = migrations[h].sourceWrote
  BY <1>t, MigrationStatus DEF cutover
<1>3. routes'[t].gen = g /\ routes'[t].wrote = FALSE /\ routes'[t].purged = FALSE
  BY <1>t, <1>1 DEF RoutingTypeOK
<1>4. Routed(t) = latest[t]
  BY <1>t, <1>1, RoutedIsLatest
<1>5. PICK S \in SUBSET Generations : Chain(t, S) /\ ChainHolds(t, S)
  BY <1>t, <1>1 DEF RollbackStands
<1>6. PendingOf(g)
  BY <1>1 DEF ServeInv, PendingStands, PendingOf
<1>in. /\ \A h \in Generations : h \in Int /\ h > Shared
       /\ Shared \in Int /\ b \in {Shared} \cup Generations
  <2>1. (\A h \in Generations : h \in Int /\ h > Shared) /\ Shared \in Int
    BY TenancyAssumption DEF Generations, Shared
  <2>2. b \in {Shared} \cup Generations
    BY <1>t DEF RoutingTypeOK, MigrationRow
  <2>3. QED  BY <2>1, <2>2
<1>7. b < g
  BY <1>t, <1>1 DEF StagedOnEarlier, IsPending
<1>8. \A h \in S : /\ h \in Generations /\ migrations[h].tenant = t /\ migrations[h].status = "cutover"
                   /\ h <= b /\ migrations[h].source \in S \cup {Shared}
                   /\ \A k \in S : k <= migrations[h].source \/ k >= h
  BY <1>1, <1>5 DEF Chain
<1>9. g \notin S /\ b \in S \cup {Shared}
  BY <1>1, <1>5, <1>8 DEF Chain
<1> HIDE DEF b
<1>b. migrations[g].source = b /\ migrations[g].tenant = t
  BY DEF b
<1> DEFINE T == S \cup {g}
<1>10. Chain(t, T)'
  <2>1. \A k \in T : k <= g
    BY <1>in, <1>7, <1>8
  <2>2. ASSUME NEW h \in T
        PROVE  /\ migrations'[h].tenant = t /\ migrations'[h].status = "cutover"
               /\ h <= g
               /\ migrations'[h].source \in T \cup {Shared}
               /\ \A k \in T : k <= migrations'[h].source \/ k >= h
    <3>1. CASE h = g
      BY <1>in, <1>2, <1>8, <1>9, <1>b, <2>1, <3>1
    <3>2. CASE h # g
      BY <1>in, <1>2, <1>8, <1>9, <1>b, <2>1, <3>2
    <3>3. QED  BY <3>1, <3>2
  <2>3. QED  BY <1>3, <2>2 DEF Chain
<1>11. ~Purging(t) /\ ~Purging(t)'
  BY <1>1 DEF Purging, Idle
<1>12. ASSUME NEW k \in T, \A h \in T : h >= k => Unwritten(t, T, h)' PROVE SourceHolds(t, k)'
  <2>1. CASE k = g
    <3>1. b = Shared => \A c \in Components : shared[c][t] = latest[t][c]
      BY <1>t, <1>1, <1>b DEF ServesLatest, Isolated
    <3>2. b # Shared => generations[b] = latest[t]
      BY <1>t, <1>1, <1>b DEF ServesLatest, Isolated
    <3>3. migrations'[k].source = b
      BY <1>2, <1>b, <2>1
    <3>4. QED  BY <1>1, <3>1, <3>2, <3>3 DEF SourceHolds
  <2>2. CASE k \in S
    <3>1. b # Shared
      BY <1>in, <1>8, <2>2
    <3>2. ~routes[t].purged
      <4>1. "chain" \in profile
        BY <1>t, <1>1, <1>b, <3>1 DEF StagedOnEarlier, IsPending
      <4>2. QED  BY <1>t, <1>1, <4>1 DEF PurgeDisabled
    <3>3. ASSUME NEW h \in S, h >= k PROVE Unwritten(t, S, h)
      <4>1. Unwritten(t, T, h)'
        BY <1>12, <3>3
      <4>2. h # g
        BY <1>9
      <4>3. PICK x \in T : migrations'[x].source = h /\ ~migrations'[x].sourceWrote
        BY <1>3, <4>1, <4>2 DEF Unwritten
      <4>4. x \in Generations /\ migrations[x].source = h /\ ~migrations[x].sourceWrote
        BY <1>2, <4>3
      <4>5. CASE h = b
        <5>1. x = g
          <6>1. SUFFICES ASSUME x \in S PROVE FALSE
            BY <4>3
          <6>2. x <= h /\ h < x
            <7>1. migrations[x].status # "none"
              BY <1>8, <6>1
            <7>2. QED  BY <1>t, <1>8, <4>4, <4>5, <6>1, <7>1 DEF StagedOnEarlier
          <6>3. QED  BY <1>in, <4>4, <6>2
        <5>2. ~routes[t].wrote
          <6>1. SUFFICES ASSUME routes[t].wrote PROVE FALSE
            OBVIOUS
          <6>2. \E c \in Components : migrations[g].digest[c] < latest[t][c]
            BY <1>1, <1>6, <1>b, <4>4, <5>1, <6>1 DEF PendingOf
          <6>3. \A c \in Components : migrations[g].digest[c] = latest[t][c] /\ latest[t][c] \in Int
            BY <1>t, <1>1, <1>4, LatestIsRow
          <6>4. QED  BY <6>2, <6>3
        <5>3. QED  BY <1>1, <4>5, <5>2 DEF Unwritten
      <4>6. CASE h # b
        <5>1. x \in S
          BY <1>b, <4>3, <4>4, <4>6
        <5>2. QED  BY <1>1, <4>4, <4>6, <5>1 DEF Unwritten
      <4>7. QED  BY <4>5, <4>6
    <3>4. SourceHolds(t, k)
      BY <1>5, <2>2, <3>3 DEF ChainHolds
    <3>5. migrations'[k].source = migrations[k].source
      BY <1>2, <1>8, <2>2
    <3>6. QED  BY <1>1, <1>11, <3>2, <3>4, <3>5 DEF SourceHolds
  <2>3. QED  BY <2>1, <2>2
<1>13. ChainHolds(t, T)'
  BY <1>12 DEF ChainHolds
<1>14. T \in SUBSET Generations
  OBVIOUS
<1> HIDE DEF T
<1>15. QED
  BY <1>10, <1>13, <1>14 DEF RollbackOf

LEMMA RollbackChain ==
    ASSUME ServeInv, NEW g \in Generations, rollback(g),
           NEW t \in Tenants, t = migrations[g].tenant
    PROVE  RollbackOf(t)'
<1> DEFINE s == migrations[g].source
<1>t. RoutingTypeOK /\ StagedOnEarlier /\ SlotsInOrder /\ RollbackStands
  BY DEF ServeInv, ReturnInv
<1>1. /\ t \in Tenants /\ routes[t].gen = g /\ migrations[g].status = "cutover"
      /\ ~routes[t].wrote /\ ~routes[t].purged
      /\ operation = Idle /\ MayRollBack /\ UNCHANGED <<shared, generations, latest, operation>>
  BY <1>t DEF rollback, RollbackAdmitted, SlotsInOrder, MayRollBack, Unlocked
<1>2. /\ migrations'[g].status = "rolled-back"
      /\ \A h \in Generations : h # g => migrations'[h] = migrations[h]
      /\ \A h \in Generations :
            /\ migrations'[h].tenant = migrations[h].tenant
            /\ migrations'[h].source = migrations[h].source
            /\ migrations'[h].sourceWrote = migrations[h].sourceWrote
  BY <1>t, MigrationStatus DEF rollback
<1>3. /\ routes'[t].gen = s /\ routes'[t].wrote = migrations[g].sourceWrote
      /\ routes'[t].purged = routes[t].purged
  BY <1>t, <1>1 DEF rollback, RolledBackRoute, RoutingTypeOK, RouteRow
<1>4. PICK S \in SUBSET Generations : Chain(t, S) /\ ChainHolds(t, S)
  BY <1>t, <1>1 DEF RollbackStands
<1>in. /\ \A h \in Generations : h \in Int /\ h > Shared
       /\ Shared \in Int
       /\ \A h \in Generations : migrations[h].source \in {Shared} \cup Generations
  <2>1. (\A h \in Generations : h \in Int /\ h > Shared) /\ Shared \in Int
    BY TenancyAssumption DEF Generations, Shared
  <2>2. \A h \in Generations : migrations[h].source \in {Shared} \cup Generations
    BY <1>t DEF RoutingTypeOK, MigrationRow
  <2>3. QED  BY <2>1, <2>2
<1>5. g \in S
  BY <1>1, <1>4, SharedIsNoGeneration DEF Chain
<1>6. \A h \in S : /\ h \in Generations /\ migrations[h].tenant = t /\ migrations[h].status = "cutover"
                   /\ h <= g /\ migrations[h].source \in S \cup {Shared}
                   /\ migrations[h].source < h
                   /\ \A k \in S : k <= migrations[h].source \/ k >= h
  BY <1>t, <1>1, <1>4 DEF Chain, StagedOnEarlier
<1>7. s \in S \cup {Shared} /\ s < g /\ s # g
  BY <1>in, <1>5, <1>6
<1> HIDE DEF s
<1>b. migrations[g].source = s /\ migrations[g].tenant = t
  BY DEF s
<1> DEFINE T == S \ {g}
<1>8. \A h \in T : h <= s
  BY <1>in, <1>5, <1>6, <1>b
<1>9. Chain(t, T)'
  <2>1. ASSUME NEW h \in T
        PROVE  /\ migrations'[h].tenant = t /\ migrations'[h].status = "cutover"
               /\ h <= s
               /\ migrations'[h].source \in T \cup {Shared}
               /\ \A k \in T : k <= migrations'[h].source \/ k >= h
    <3>1. h \in Generations /\ h # g /\ h <= g
      BY <1>6
    <3>2. migrations[h].source # g
      BY <1>in, <1>6, <3>1
    <3>3. QED  BY <1>2, <1>6, <1>8, <3>1, <3>2
  <2>2. s \in T \cup {Shared}
    BY <1>7
  <2>3. QED  BY <1>3, <2>1, <2>2 DEF Chain
<1>10. ~Purging(t)
  BY <1>1 DEF Purging, Idle
<1>11. ASSUME NEW k \in T, \A h \in T : h >= k => Unwritten(t, T, h)' PROVE SourceHolds(t, k)'
  <2>1. ASSUME NEW h \in S, h >= k PROVE Unwritten(t, S, h)
    <3>1. CASE h = g
      BY <1>1, <1>b, <3>1 DEF Unwritten
    <3>2. CASE h # g /\ h = s
      <4>1. ~migrations[g].sourceWrote
        <5>1. Unwritten(t, T, h)'
          BY <1>11, <2>1, <3>2
        <5>2. QED  BY <1>3, <3>2, <5>1 DEF Unwritten
      <4>2. QED  BY <1>1, <1>5, <1>b, <3>2, <4>1 DEF Unwritten
    <3>3. CASE h # g /\ h # s
      <4>1. Unwritten(t, T, h)'
        BY <1>11, <2>1, <3>3
      <4>2. PICK x \in T : migrations'[x].source = h /\ ~migrations'[x].sourceWrote
        BY <1>3, <3>3, <4>1 DEF Unwritten
      <4>3. x \in S /\ migrations[x].source = h /\ ~migrations[x].sourceWrote
        BY <1>2, <4>2
      <4>4. QED  BY <1>1, <3>3, <4>3 DEF Unwritten
    <3>4. QED  BY <3>1, <3>2, <3>3
  <2>2. SourceHolds(t, k)
    BY <1>4, <2>1 DEF ChainHolds
  <2>3. migrations'[k].source = migrations[k].source
    BY <1>2
  <2>4. QED  BY <1>1, <1>10, <2>2, <2>3 DEF SourceHolds
<1>12. ChainHolds(t, T)'
  BY <1>11 DEF ChainHolds
<1>13. T \in SUBSET Generations
  OBVIOUS
<1> HIDE DEF T
<1>14. QED
  BY <1>9, <1>12, <1>13 DEF RollbackOf

-----------------------------------------------------------------------------
LEMMA ThreeFewer ==
    ASSUME NEW x \in Generations, NEW y \in Generations, NEW z \in Generations, x # y, x # z, y # z,
           NEW J, J \subseteq ((Generations \ {x}) \ {y}) \ {z}
    PROVE  IsFiniteSet(J) /\ Cardinality(J) <= MaxGenerations - 3
<1>1. MaxGenerations \in Nat /\ Generations = 1..MaxGenerations
  BY TenancyAssumption DEF Generations
<1>2. IsFiniteSet(Generations) /\ Cardinality(Generations) = MaxGenerations
  <2>1. 1 \in Int /\ MaxGenerations \in Int
    BY <1>1
  <2>2. IsFiniteSet(1..MaxGenerations)
        /\ Cardinality(1..MaxGenerations) = IF 1 > MaxGenerations THEN 0 ELSE MaxGenerations - 1 + 1
    BY <2>1, FS_Interval
  <2>3. QED  BY <1>1, <2>2
<1>3. PICK X : X = Generations \ {x}
  OBVIOUS
<1>4. IsFiniteSet(X) /\ Cardinality(X) = MaxGenerations - 1
  BY <1>2, <1>3, FS_RemoveElement
<1>5. PICK Y : Y = X \ {y}
  OBVIOUS
<1>6. IsFiniteSet(Y) /\ Cardinality(Y) = Cardinality(X) - 1
  BY <1>3, <1>4, <1>5, FS_RemoveElement
<1>7. PICK Z : Z = Y \ {z}
  OBVIOUS
<1>8. IsFiniteSet(Z) /\ Cardinality(Z) = Cardinality(Y) - 1
  BY <1>3, <1>5, <1>6, <1>7, FS_RemoveElement
<1>9. J \subseteq Z
  BY <1>3, <1>5, <1>7
<1>10. IsFiniteSet(J) /\ Cardinality(J) <= Cardinality(Z)
  BY <1>8, <1>9, FS_Subset
<1>11. QED  BY <1>1, <1>4, <1>6, <1>8, <1>10

\* Cleanup removes no generation of the chain: it spares the active one and the one below
\* it, and with as many items kept as can lie further down it spares those too.
LEMMA ChainNotCleaned ==
    ASSUME ReturnInv, StagedOnEarlier, NEW u \in Movers, execute_cleanup(u), KeepCount + 2 >= MaxGenerations,
           NEW t \in Tenants, NEW S \in SUBSET Generations, Chain(t, S), NEW g \in S,
           migrations[g].source # Shared
    PROVE  generations'[migrations[g].source] = generations[migrations[g].source]
<1> DEFINE s == migrations[g].source
           I == TerminalGenerations(u)
           top == routes[t].gen
           b == migrations[top].source
<1>1. PICK G \in Cleanable(I) :
          generations' = [h \in Generations |-> IF h \in G THEN Gone ELSE generations[h]]
  BY DEF execute_cleanup
<1>2. G \in SUBSET I /\ Cardinality(I \ G) >= KeepCount /\ I \subseteq Generations
  BY DEF Cleanable, TerminalGenerations
<1>3. /\ s \in S /\ g <= top /\ top \in S \cup {Shared}
      /\ \A h \in S : /\ migrations[h].tenant = t /\ migrations[h].status = "cutover"
                      /\ migrations[h].source \in S \cup {Shared}
                      /\ migrations[h].source < h
                      /\ \A k \in S : k <= migrations[h].source \/ k >= h
  BY DEF Chain, StagedOnEarlier
<1>4. \A h \in Generations : h \in Int /\ h > Shared /\ Shared \in Int
  BY TenancyAssumption DEF Generations, Shared
<1>5. top \in S /\ top # Shared
  BY <1>3, <1>4
<1>6. top \in ActiveGenerations /\ b \in RollbackSources
  BY <1>3, <1>5 DEF ActiveGenerations, RollbackSources
<1>7. top \notin I /\ b \notin I
  BY <1>6 DEF TerminalGenerations, Protected
<1>8. s \notin G
  <2>1. CASE g = top
    BY <1>2, <1>7, <2>1
  <2>2. CASE g # top
    <3>1. SUFFICES ASSUME s \in G PROVE FALSE
      OBVIOUS
    <3>2. g <= b
      <4>1. g <= b \/ g >= top
        BY <1>3, <1>5
      <4>2. QED  BY <1>3, <1>4, <1>5, <2>2, <4>1
    <3>3. b \in S /\ s < g /\ b < top
      BY <1>3, <1>4, <1>5, <3>2
    <3>4. s \in Int /\ g \in Int /\ b \in Int /\ top \in Int /\ s # b /\ s # top /\ b # top
      BY <1>3, <1>4, <1>5, <3>2, <3>3
    <3>5. I \ G \subseteq ((Generations \ {top}) \ {b}) \ {s}
      BY <1>2, <1>7, <3>1
    <3>6. top \in Generations /\ b \in Generations /\ s \in Generations
      BY <1>3, <1>5, <3>3
    <3>7. IsFiniteSet(I \ G) /\ Cardinality(I \ G) <= MaxGenerations - 3
      BY <3>4, <3>5, <3>6, ThreeFewer
    <3>8. Cardinality(I \ G) \in Nat
      BY <3>7, FS_CardinalityType
    <3>9. KeepCount \in Nat /\ MaxGenerations \in Nat
      BY TenancyAssumption
    <3>10. QED  BY <1>2, <3>7, <3>8, <3>9
  <2>3. QED  BY <2>1, <2>2
<1>9. QED  BY <1>1, <1>3, <1>8

LEMMA RollbackStep ==
    ASSUME Reversible
    PROVE  ServeInv /\ [RoutingNext]_routingVars => RollbackStands'
<1>1. SUFFICES ASSUME ServeInv, [RoutingNext]_routingVars, MayRollBack, NEW t \in Tenants
               PROVE  RollbackOf(t)'
  <2>1. ServeInv /\ [RoutingNext]_routingVars => UNCHANGED profile
    BY MigrationsKept DEF ServeInv
  <2>2. ServeInv /\ [RoutingNext]_routingVars /\ ~MayRollBack => RollbackStands'
    BY <2>1 DEF RollbackStands, MayRollBack
  <2>3. ASSUME ServeInv, [RoutingNext]_routingVars, MayRollBack PROVE RollbackStands'
    <3>1. \A t \in Tenants : RollbackOf(t)'
      BY <1>1, <2>3
    <3>2. QED  BY <3>1 DEF RollbackStands, RollbackOf
  <2>4. QED  BY <2>2, <2>3
<1>t. /\ ReturnInv /\ RoutingTypeOK /\ ServesLatest /\ StagedOnEarlier /\ OperationStands
      /\ SlotsInOrder /\ RouteIsCutOver
  BY <1>1 DEF ServeInv, ReturnInv
<1>ro. routes \in [Tenants -> RouteRow]
  BY <1>t DEF RoutingTypeOK
<1>2. PICK S \in SUBSET Generations : Chain(t, S) /\ ChainHolds(t, S)
  BY <1>1 DEF ServeInv, RollbackStands
<1>3. \A g \in S : /\ migrations[g].tenant = t /\ migrations[g].status = "cutover" /\ g \in Generations
                   /\ g <= routes[t].gen /\ migrations[g].source \in S \cup {Shared}
  BY <1>2 DEF Chain
<1>4. /\ "write crash" \notin profile /\ "purge crash" \notin profile
      /\ "chain" \in profile => KeepCount + 2 >= MaxGenerations
  BY <1>1, <1>t DEF Reversible, MayRollBack, RoutingTypeOK
<1>5. Shared \notin Generations
  BY SharedIsNoGeneration
\* The generations of the chain keep their rows, and the route its generation.
<1>k. ASSUME UNCHANGED <<latest, shared, generations>>,
             routes'[t].gen = routes[t].gen,
             routes[t].wrote => routes'[t].wrote,
             routes[t].purged \/ Purging(t) => routes'[t].purged \/ Purging(t)',
             \A g \in S : migrations'[g] = migrations[g]
      PROVE  RollbackOf(t)'
  BY <1>t, <1>2, <1>k, ChainKept
<1>6. CASE UNCHANGED routingVars
  <2>1. Purging(t)' <=> Purging(t)
    BY <1>6 DEF routingVars, Purging
  <2>2. QED  BY <1>k, <1>6, <2>1 DEF routingVars
<1>7. ASSUME NEW u \in Tenants, NEW c \in Components, Write(u, c) PROVE RollbackOf(t)'
  <2>1. /\ Stored(u, c, latest[u][c] + 1) /\ latest' = [latest EXCEPT ![u][c] = @ + 1]
        /\ UNCHANGED <<migrations, reverses, operation>> /\ operation = Idle
        /\ routes' = [routes EXCEPT ![u].wrote = @ \/ Isolated(u)]
    BY <1>7 DEF Write, note_write, Unlocked
  <2>2. /\ \A x \in Tenants : x # u => latest'[x] = latest[x]
        /\ Isolated(u) => /\ UNCHANGED shared
                          /\ \A g \in Generations : g # routes[u].gen => generations'[g] = generations[g]
        /\ ~Isolated(u) => /\ UNCHANGED generations
                           /\ \A d \in Components, x \in Tenants \ {u} : shared'[d][x] = shared[d][x]
    BY <1>t, <2>1, WriteKeeps
  <2>3. /\ \A x \in Tenants : routes'[x].gen = routes[x].gen
        /\ \A x \in Tenants : x # u => routes'[x] = routes[x]
        /\ Isolated(u) => routes'[u].wrote
    BY <1>ro, <2>1 DEF RouteRow
  <2>4. CASE t # u
    <3>1. \A g \in S : Isolated(u) => g # routes[u].gen
      BY <1>t, <1>3, <2>4 DEF RouteIsCutOver
    <3>2. \A g \in S : generations'[g] = generations[g]
      BY <1>3, <2>2, <3>1
    <3>3. \A d \in Components : shared'[d][t] = shared[d][t]
      BY <2>2, <2>4
    <3>4. latest'[t] = latest[t] /\ routes'[t] = routes[t]
      BY <2>2, <2>3, <2>4
    <3>5. Purging(t)' <=> Purging(t)
      BY <2>1 DEF Purging
    <3>6. \A g \in S : migrations'[g] = migrations[g]
      BY <2>1
    <3>7. QED  BY <1>t, <1>2, <1>3, <3>2, <3>3, <3>4, <3>5, <3>6, ChainKept
  <2>5. CASE t = u /\ Isolated(t)
    <3>1. PICK top \in S : top = routes'[t].gen /\ routes'[t].wrote /\ top = routes[t].gen
      BY <1>2, <2>3, <2>5 DEF Chain, Isolated
    <3>2. Chain(t, S)'
      BY <1>2, <2>1, <3>1 DEF Chain
    <3>3. \A g \in S : top >= g
      <4>1. \A g \in Generations : g \in Int
        BY TenancyAssumption DEF Generations
      <4>2. QED  BY <1>3, <3>1, <4>1
    <3>4. ~Unwritten(t, S, top)'
      BY <3>1 DEF Unwritten
    <3>5. ChainHolds(t, S)'
      BY <3>1, <3>3, <3>4 DEF ChainHolds
    <3>6. QED  BY <3>2, <3>5 DEF RollbackOf
  <2>6. CASE t = u /\ ~Isolated(t)
    <3>1. routes'[t].gen = Shared
      BY <2>3, <2>6 DEF Isolated
    <3>2. Chain(t, {})' /\ ChainHolds(t, {})'
      BY <3>1 DEF Chain, ChainHolds
    <3>3. QED  BY <3>2 DEF RollbackOf
  <2>7. QED  BY <2>4, <2>5, <2>6
<1>8. ASSUME NEW u \in Movers, stage(u) PROVE RollbackOf(t)'
  <2>1. /\ migrations[NextGeneration].status = "none"
        /\ \A g \in Generations : g # NextGeneration => migrations'[g] = migrations[g]
    BY <1>t, <1>8, StageKeeps, Zenon
  <2>2. /\ UNCHANGED <<latest, shared, generations, routes>>
        /\ operation = Idle
    BY <1>8 DEF stage, Unlocked
  <2>3. ~Purging(t)
    BY <2>2 DEF Purging, Idle
  <2>4. \A g \in S : migrations'[g] = migrations[g]
    BY <1>3, <2>1
  <2>5. QED  BY <1>k, <2>2, <2>3, <2>4
<1>9. CASE verified
  <2>1. operation.id \in Generations /\ migrations[operation.id].status = "copying" /\ operation.kind = "copy"
    BY <1>t, <1>9 DEF OperationStands, verified
  <2>2. \A h \in Generations : h # operation.id => migrations'[h] = migrations[h]
    BY <1>t, <1>9, <2>1, MigrationVerified DEF verified
  <2>3. \A h \in Generations : h # operation.id => generations'[h] = generations[h]
    BY <1>t, <1>9 DEF verified, RoutingTypeOK
  <2>4. UNCHANGED <<shared, routes, latest>>
    BY <1>9 DEF verified
  <2>5. ~Purging(t)
    BY <2>1 DEF Purging
  <2>6. \A g \in S : g # operation.id
    BY <1>3, <2>1
  <2>7. QED  BY <1>t, <1>2, <1>3, <2>2, <2>3, <2>4, <2>5, <2>6, ChainKept
<1>10. CASE failed
  <2>1. operation.id \in Generations /\ migrations[operation.id].status = "copying" /\ operation.kind = "copy"
    BY <1>t, <1>10 DEF OperationStands, failed
  <2>2. \A h \in Generations : h # operation.id => migrations'[h] = migrations[h]
    BY <1>t, <1>10, <2>1, MigrationStatus DEF failed
  <2>3. UNCHANGED <<latest, shared, generations, routes>>
    BY <1>10 DEF failed
  <2>4. ~Purging(t)
    BY <2>1 DEF Purging
  <2>5. \A g \in S : migrations'[g] = migrations[g]
    BY <1>3, <2>1, <2>2
  <2>6. QED  BY <1>k, <2>3, <2>4, <2>5
<1>11. ASSUME NEW g \in Generations, cutover(g) PROVE RollbackOf(t)'
  <2>1. CASE t = migrations[g].tenant
    BY <1>1, <1>11, <2>1, CutoverChain
  <2>2. CASE t # migrations[g].tenant
    <3>1. /\ migrations[g].status = "verified" /\ migrations[g].tenant \in Tenants /\ operation = Idle
          /\ UNCHANGED <<latest, shared, generations>>
          /\ routes' = [routes EXCEPT ![migrations[g].tenant] = [gen |-> g, wrote |-> FALSE, purged |-> FALSE]]
      BY <1>t, <1>11 DEF cutover, CutoverRoute, Unlocked, SlotsInOrder
    <3>2. \A h \in Generations : h # g => migrations'[h] = migrations[h]
      BY <1>t, <1>11, MigrationStatus DEF cutover
    <3>3. \A h \in S : migrations'[h] = migrations[h]
      BY <1>3, <3>1, <3>2
    <3>4. routes'[t] = routes[t]
      BY <1>ro, <2>2, <3>1
    <3>5. ~Purging(t)
      BY <3>1 DEF Purging, Idle
    <3>6. QED  BY <1>k, <3>1, <3>3, <3>4, <3>5
  <2>3. QED  BY <2>1, <2>2
<1>12. ASSUME NEW g \in Generations, rollback(g) PROVE RollbackOf(t)'
  <2>1. CASE t = migrations[g].tenant
    BY <1>1, <1>12, <2>1, RollbackChain
  <2>2. CASE t # migrations[g].tenant
    <3>1. /\ migrations[g].tenant \in Tenants /\ operation = Idle
          /\ UNCHANGED <<latest, shared, generations>>
      BY <1>t, <1>12 DEF rollback, Unlocked, SlotsInOrder
    <3>2. \A h \in Generations : h # g => migrations'[h] = migrations[h]
      BY <1>t, <1>12, MigrationStatus DEF rollback
    <3>3. \A h \in S : migrations'[h] = migrations[h]
      BY <1>3, <2>2, <3>2
    <3>4. routes'[t] = routes[t]
      BY <1>ro, <1>12, <2>2, <3>1 DEF rollback, RolledBackRoute
    <3>5. ~Purging(t)
      BY <3>1 DEF Purging, Idle
    <3>6. QED  BY <1>k, <3>1, <3>3, <3>4, <3>5
  <2>3. QED  BY <2>1, <2>2
<1>13. CASE /\ UNCHANGED <<latest, shared, generations, routes, migrations>>
            /\ operation.kind # "purge"
  <2>1. ~Purging(t)
    BY <1>13 DEF Purging
  <2>2. QED  BY <1>k, <1>13, <2>1
<1>14. ASSUME NEW r \in Reverses, finalize_shared_source(r) PROVE RollbackOf(t)'
  <2>1. operation = Idle /\ UNCHANGED <<latest, shared, generations, routes, migrations>>
    BY <1>14 DEF finalize_shared_source, Unlocked
  <2>2. QED  BY <1>13, <2>1 DEF Idle
<1>15. ASSUME NEW c \in Components, apply_component(c) PROVE RollbackOf(t)'
  <2> DEFINE r == operation.id
             u == reverses[r].tenant
  <2>1. /\ shared'[c][u] = reverses[r].source[c]
        /\ \A x \in Tenants \ {u} : shared'[c][x] = shared[c][x]
        /\ \A d \in Components : d # c => shared'[d] = shared[d]
    BY <1>1, <1>15, ComponentApplied DEF ServeInv
  <2>2. UNCHANGED <<latest, generations, routes, migrations>> /\ operation.kind = "apply"
    BY <1>15 DEF apply_component
  <2>3. u \in Tenants /\ reverses[r].source = latest[u]
    <3>1. u \in Tenants /\ Routed(u) = reverses[r].source
      BY <1>t, <2>2, AppliedIsRouted
    <3>2. QED  BY <1>t, <3>1, RoutedIsLatest
  <2>4. ~Purging(t)
    BY <2>2 DEF Purging
  <2> HIDE DEF r, u
  <2>5. (\A d \in Components : shared[d][t] = latest[t][d]) => \A d \in Components : shared'[d][t] = latest'[t][d]
    <3>1. CASE t = u
      BY <2>1, <2>2, <2>3, <3>1
    <3>2. CASE t # u
      BY <2>1, <2>2, <3>2
    <3>3. QED  BY <3>1, <3>2
  <2>6. QED  BY <1>t, <1>2, <2>2, <2>4, <2>5, ChainKept
<1>16. ASSUME NEW c \in Components, purge_component(c) PROVE RollbackOf(t)'
  <2> DEFINE u == reverses[operation.id].tenant
  <2>1. /\ UNCHANGED <<latest, generations, routes, migrations, reverses>> /\ operation.kind = "purge"
        /\ shared' = [shared EXCEPT ![c][u] = NoRows]
        /\ operation' = [operation EXCEPT !.todo = @ \ {c}]
    BY <1>16 DEF purge_component
  <2>2. operation'.kind = "purge" /\ operation'.id = operation.id
    BY <1>t, <2>1 DEF RoutingTypeOK, Operation
  <2>3. Purging(t)' <=> Purging(t)
    BY <2>1, <2>2 DEF Purging
  <2>4. CASE t = u
    <3>1. Purging(t)
      BY <2>1, <2>4 DEF Purging
    <3>2. QED  BY <1>t, <1>2, <2>1, <2>3, <3>1, ChainKept
  <2>5. CASE t # u
    <3>1. shared \in [Components -> [Tenants -> RowVersion]]
      BY <1>t DEF RoutingTypeOK
    <3> HIDE DEF u
    <3>2. \A d \in Components : shared'[d][t] = shared[d][t]
      BY <2>1, <2>5, <3>1
    <3>3. QED  BY <1>t, <1>2, <2>1, <2>3, <3>2, ChainKept
  <2>6. QED  BY <2>4, <2>5
<1>17. CASE reverse_applied
  <2> DEFINE u == reverses[operation.id].tenant
             n == reverses[operation.id].gen
  <2>1. u \in Tenants /\ n \in Generations /\ migrations[n].tenant = u
    BY <1>t, <1>17, AppliedIsRouted DEF reverse_applied
  <2>2. /\ UNCHANGED <<latest, shared, generations>> /\ routes' = [routes EXCEPT ![u] = SharedRoute]
        /\ migrations' = [migrations EXCEPT ![n].status = "reverse-migrated"]
        /\ operation.kind = "apply"
    BY <1>17 DEF reverse_applied
  <2> HIDE DEF u, n
  <2>3. \A h \in Generations : h # n => migrations'[h] = migrations[h]
    BY <1>t, <2>1, <2>2, MigrationStatus
  <2>4. CASE t = u
    <3>1. routes'[t].gen = Shared
      BY <1>ro, <2>1, <2>2, <2>4 DEF SharedRoute
    <3>2. Chain(t, {})' /\ ChainHolds(t, {})'
      BY <3>1 DEF Chain, ChainHolds
    <3>3. QED  BY <3>2 DEF RollbackOf
  <2>5. CASE t # u
    <3>1. routes'[t] = routes[t]
      BY <1>ro, <2>1, <2>2, <2>5
    <3>2. \A g \in S : migrations'[g] = migrations[g]
      BY <1>3, <2>1, <2>3, <2>5
    <3>3. ~Purging(t)
      BY <2>2 DEF Purging
    <3>4. QED  BY <1>k, <2>2, <3>1, <3>2, <3>3
  <2>6. QED  BY <2>4, <2>5
<1>18. CASE reverse_finalized
  <2> DEFINE u == reverses[operation.id].tenant
  <2>1. /\ u \in Tenants /\ routes'[u].purged
        /\ \A x \in Tenants : /\ routes'[x].gen = routes[x].gen
                              /\ routes'[x].wrote = routes[x].wrote
                              /\ x # u => routes'[x] = routes[x]
    BY <1>t, <1>18, PurgedRow
  <2>2. UNCHANGED <<latest, shared, generations, migrations>> /\ operation.kind = "purge"
    BY <1>18 DEF reverse_finalized
  <2>3. routes[t].purged \/ Purging(t) => routes'[t].purged
    BY <2>1 DEF Purging
  <2>4. QED  BY <1>k, <2>1, <2>2, <2>3
<1>19. CASE RegistryRestart
  <2>1. UNCHANGED <<latest, shared, generations, routes, migrations>>
    BY <1>19 DEF RegistryRestart
  <2>2. operation.kind # "purge"
    BY <1>4, <1>19 DEF RegistryRestart
  <2>3. QED  BY <1>13, <2>1, <2>2
<1>20. ASSUME NEW u \in Movers, execute_cleanup(u) PROVE RollbackOf(t)'
  <2>1. UNCHANGED <<latest, shared, routes, migrations>> /\ operation = Idle
    BY <1>20 DEF execute_cleanup, Unlocked
  <2>2. ~Purging(t) /\ (Purging(t)' <=> Purging(t))
    <3>1. UNCHANGED operation
      BY <1>20 DEF execute_cleanup
    <3>2. QED  BY <2>1, <3>1 DEF Purging, Idle
  <2>3. ASSUME NEW g \in S, migrations[g].source # Shared
        PROVE  generations'[migrations[g].source] = generations[migrations[g].source]
    <3>1. "chain" \in profile
      BY <1>t, <1>3, <2>3 DEF StagedOnEarlier
    <3>2. QED  BY <1>t, <1>2, <1>4, <1>20, <2>3, <3>1, ChainNotCleaned
  <2>4. QED  BY <1>t, <1>2, <2>1, <2>2, <2>3, ChainKept
<1>21. ASSUME NEW r \in Reverses, apply_reverse(r) PROVE RollbackOf(t)'
  <2>1. operation = Idle /\ UNCHANGED <<latest, shared, generations, routes, migrations>>
    BY <1>21 DEF apply_reverse, Unlocked
  <2>2. QED  BY <1>13, <2>1 DEF Idle
<1>22. ASSUME NEW u \in Movers, stage_reverse(u) PROVE RollbackOf(t)'
  <2>1. operation = Idle /\ UNCHANGED <<latest, shared, generations, routes, migrations>>
    BY <1>22 DEF stage_reverse, Unlocked
  <2>2. QED  BY <1>13, <2>1 DEF Idle
<1>23. CASE reverse_verified \/ reverse_failed \/ reverse_apply_failed
  BY <1>13, <1>23 DEF reverse_verified, reverse_failed, reverse_apply_failed
<1>24. \A u \in Tenants, c \in Components : ~WriteUncounted(u, c)
  BY <1>4 DEF WriteUncounted
<1>25. QED
  BY <1>1, <1>6, <1>7, <1>8, <1>9, <1>10, <1>11, <1>12, <1>14, <1>15, <1>16, <1>17, <1>18, <1>19,
     <1>20, <1>21, <1>22, <1>23, <1>24 DEF RoutingNext

LEMMA ServeInvInit == RoutingInit => ServeInv
<1>1. SUFFICES ASSUME RoutingInit PROVE ServeInv
  OBVIOUS
<1>2. ReturnInv
  BY <1>1, RoutingTypeInit
<1>3. SnapshotSplices
  BY <1>1 DEF RoutingInit, NoReverse, SnapshotSplices, SnapshotStatus
<1>4. ApplySplices
  BY <1>1 DEF RoutingInit, Idle, ApplySplices
<1>5. \A t \in Tenants : routes[t] = SharedRoute
  BY <1>1 DEF RoutingInit
<1>6. ServesLatest
  BY <1>1, <1>5 DEF RoutingInit, ServesLatest, Isolated, SharedRoute
<1>7. StagedOnEarlier /\ PendingStands
  BY <1>1 DEF RoutingInit, NoMigration, StagedOnEarlier, PendingStands, IsPending
<1>8. PurgeDisabled
  BY <1>1, <1>5 DEF RoutingInit, Idle, PurgeDisabled, SharedRoute
<1>9. RollbackStands
  <2>1. \A t \in Tenants : RollbackOf(t)
    BY <1>5, SharedChain DEF SharedRoute
  <2>2. QED  BY <2>1 DEF RollbackStands, RollbackOf
<1>10. QED
  BY <1>2, <1>3, <1>4, <1>6, <1>7, <1>8, <1>9 DEF ServeInv

LEMMA ServeInvServes == ServeInv => RouteServesLatest
<1>1. SUFFICES ASSUME ServeInv, NEW t \in Tenants PROVE Reachable(t) /\ Routed(t) = latest[t]
  BY DEF RouteServesLatest
<1>2. RoutingTypeOK /\ ServesLatest
  BY <1>1 DEF ServeInv, ReturnInv
<1>3. Routed(t) = latest[t]
  BY <1>2, RoutedIsLatest
<1>4. latest[t] # Gone
  <2>1. PICK c \in Components : TRUE
    BY TenancyAssumption
  <2>2. latest[t][c] \in 1..MaxVersion /\ Gone[c] = MaxVersion + 1
    BY <1>2 DEF RoutingTypeOK, Gone
  <2>3. QED  BY <2>2, TenancyAssumption
<1>5. QED  BY <1>3, <1>4 DEF Reachable, Routed

\* A tenant's reads lead to an existing store that holds the last write it was told is
\* saved, for any number of tenants, components, generations and snapshots, where
\* rollbacks meet what Reversible allows (data_plane.py:770-903).
THEOREM RoutesServeLatest ==
    ASSUME Reversible
    PROVE  RoutingSpec => []RouteServesLatest
<1>1. RoutingInit => ServeInv
  BY ServeInvInit
<1>2. ServeInv /\ [RoutingNext]_routingVars => ServeInv'
  <2>1. SUFFICES ASSUME ServeInv, [RoutingNext]_routingVars PROVE ServeInv'
    OBVIOUS
  <2>2. ReturnInv /\ SnapshotSplices /\ ApplySplices /\ StagedOnEarlier /\ PurgeDisabled
    BY <2>1 DEF ServeInv
  <2>3. ReturnInv'
    BY <2>1, <2>2, RoutingTypeStep, SlotsStep, RouteStep, OperationStep, SnapshotStep, ReturnPathStep
       DEF ReturnInv
  <2>4. QED
    BY <2>1, <2>2, <2>3, SplicesStep, ApplyStep, ServesStep, StagedOnEarlierStep, PendingStep,
       PurgeDisabledStep, RollbackStep DEF ServeInv
<1>3. ServeInv => RouteServesLatest
  BY ServeInvServes
<1>4. QED
  BY <1>1, <1>2, <1>3, PTL DEF RoutingSpec
=============================================================================
