----------------------------- MODULE DeliveryOutbox -----------------------------
(***************************************************************************)
(* Outbound delivery: delivery/service.py over delivery/store.py.          *)
(*                                                                         *)
(* An analyst previews the payload of a response package and approves it;  *)
(* a worker posts it to the destination, retries within a budget, and      *)
(* keeps the identity of the record a ticketing destination created.  The  *)
(* worker suspends only while it waits for the destination, so everything  *)
(* else is atomic, but a crash may fall between two transactions.          *)
(*                                                                         *)
(* An idempotency key is a package and a destination identity: the payload *)
(* is a function of the two.  A payload revised by new signals would be a  *)
(* package of its own here.  Time is abstract: a backoff may end any time. *)
(***************************************************************************)
EXTENDS Naturals

CONSTANTS
    Packages,      \* response packages, in review at first
    Destinations,  \* destination fingerprints an administrator may configure
    Nowhere,       \* no destination
    Kind,          \* the adapter of each destination
    MaxAttempts,   \* max_attempts of the policy
    MaxRetries,    \* bound on the explicit retries of a job
    MaxRestarts    \* bound on process stops and crashes

Kinds == {"webhook", "slack", "jira", "soar"}

ASSUME OutboxAssumption ==
    /\ Nowhere \notin Destinations
    /\ Kind \in [Destinations -> Kinds]
    /\ MaxAttempts \in Nat \ {0} /\ MaxRetries \in Nat /\ MaxRestarts \in Nat

Jobs == Packages \X Destinations
Off == <<"off">>
Idle == <<"idle">>

VARIABLES
    package,       \* status of each response package
    enabled, dest, \* delivery policy: switched on, current destination fingerprint
    status, attempt_count, max_attempts,  \* columns of delivery_jobs
    correlated,    \* external_record_id is set
    worker,        \* Off, Idle or the job it waits for the destination with
    preview,       \* the destination of the preview on the analyst's screen
    approval,      \* history: is a job approved, or who took the approval back
    posts,         \* history: requests sent for each job
    retries,       \* history: explicit retries of each job
    received,      \* the destination took a request of this job
    restarts

policy == <<enabled, dest>>
row == <<status, attempt_count, max_attempts, correlated>>
analyst == <<preview, approval>>
counts == <<posts, retries>>
vars == <<package, policy, row, worker, analyst, counts, received, restarts>>

Due == {"queued", "retrying"}
Pending == Due \cup {"failed"}

TypeOK ==
    /\ package \in [Packages -> {"review", "closed", "expired"}]
    /\ enabled \in BOOLEAN /\ dest \in Destinations
    /\ status \in [Jobs -> Pending \cup {"none", "sending", "delivered", "cancelled"}]
    /\ attempt_count \in [Jobs -> Nat] /\ max_attempts \in [Jobs -> Nat]
    /\ \A j \in Jobs : attempt_count[j] <= max_attempts[j]
    /\ correlated \in [Jobs -> BOOLEAN] /\ received \in [Jobs -> BOOLEAN]
    /\ worker \in Jobs \cup {Off, Idle}
    /\ preview \in [Packages -> Destinations \cup {Nowhere}]
    /\ approval \in [Jobs -> {"none", "given", "revoked", "withdrawn"}]
    /\ posts \in [Jobs -> Nat] /\ retries \in [Jobs -> Nat]
    /\ restarts \in Nat

Init ==
    /\ package = [p \in Packages |-> "review"]
    /\ enabled = FALSE /\ dest \in Destinations
    /\ status = [j \in Jobs |-> "none"]
    /\ attempt_count = [j \in Jobs |-> 0] /\ max_attempts = [j \in Jobs |-> 0]
    /\ correlated = [j \in Jobs |-> FALSE] /\ received = [j \in Jobs |-> FALSE]
    /\ worker = Off
    /\ preview = [p \in Packages |-> Nowhere] /\ approval = [j \in Jobs |-> "none"]
    /\ posts = [j \in Jobs |-> 0] /\ retries = [j \in Jobs |-> 0]
    /\ restarts = 0

Up == worker # Off

-----------------------------------------------------------------------------
(* The store. *)

\* The cancellations of the store take pending rows and leave the others.  The
\* policy revokes an approval, the operator and the end of the package withdraw it.
Cancel(victims, taken) ==
    LET rows == {j \in victims : status[j] \in Pending} IN
    /\ status' = [j \in Jobs |-> IF j \in rows THEN "cancelled" ELSE status[j]]
    /\ approval' = [j \in Jobs |-> IF j \in rows THEN taken ELSE approval[j]]
    /\ UNCHANGED <<attempt_count, max_attempts, correlated>>

Become(j, s) == status' = [status EXCEPT ![j] = s]

AfterAttempt(j, answer) ==
    IF answer = "delivered" THEN "delivered"
    ELSE IF answer = "retryable" /\ attempt_count[j] + 1 < max_attempts[j] THEN "retrying"
    ELSE "failed"

RecordAttempt(j, answer) ==
    /\ attempt_count' = [attempt_count EXCEPT ![j] = @ + 1]
    /\ Become(j, AfterAttempt(j, answer))
    /\ UNCHANGED max_attempts

\* Mutant: what was being sent counts as delivered.
RecoverDelivered ==
    status' = [j \in Jobs |-> IF status[j] = "sending" THEN "delivered" ELSE status[j]]

\* A row that was being sent is delivered if its record is known, stopped if a
\* second issue could come of it, and sent again otherwise.
recover_interrupted ==
    status' = [j \in Jobs |->
        IF status[j] # "sending" THEN status[j]
        ELSE IF correlated[j] THEN "delivered"
        ELSE IF Kind[j[2]] = "jira" THEN "failed" ELSE "retrying"]

-----------------------------------------------------------------------------
(* The API. *)

\* _prepare refuses a policy that is off and a package that left review.
Prepared(p) == Up /\ enabled /\ package[p] = "review"

\* The payloads.  Every adapter sends the identity of the package and the summary of
\* its signals, with the redaction of the policy.  Tickets also carry the fields the
\* destination maps and an id, of the package and the destination, to find their
\* record by.
correlation_id(p, d) == <<Kind[d], p, d>>
webhook_payload(p) == [package |-> p]
slack_payload(p) == [blocks |-> p]
jira_payload(p, d) == [issue |-> p, fields |-> d, label |-> correlation_id(p, d)]
soar_payload(p, d) == [container |-> p, fields |-> d, source_data_identifier |-> correlation_id(p, d)]

payload(p, d) ==
    CASE Kind[d] = "slack" -> slack_payload(p)
      [] Kind[d] = "jira" -> jira_payload(p, d)
      [] Kind[d] = "soar" -> soar_payload(p, d)
      [] OTHER -> webhook_payload(p)

Preview(p) ==
    /\ Prepared(p)
    /\ preview' = [preview EXCEPT ![p] = dest]
    /\ UNCHANGED <<package, policy, row, worker, approval, counts, received, restarts>>

\* Store.approve returns the row of the same idempotency key, whatever its status.
Enqueue(j) ==
    /\ approval' = [approval EXCEPT ![j] = IF @ = "withdrawn" THEN @ ELSE "given"]
    /\ \/ /\ status[j] = "none"
          /\ Become(j, "queued")
          /\ max_attempts' = [max_attempts EXCEPT ![j] = MaxAttempts]
       \/ status[j] # "none" /\ UNCHANGED <<status, max_attempts>>
    /\ UNCHANGED <<attempt_count, correlated, posts, retries>>

\* The analyst's approval names the payload digest of the preview.
approve(p) ==
    /\ Prepared(p)
    /\ preview[p] # Nowhere /\ payload(p, preview[p]) = payload(p, dest)
    /\ Enqueue(<<p, dest>>)
    /\ UNCHANGED <<package, policy, worker, preview, received, restarts>>

\* Automatic mode approves its own preview.
consider_package(p) ==
    /\ Prepared(p)
    /\ Enqueue(<<p, dest>>)
    /\ UNCHANGED <<package, policy, worker, preview, received, restarts>>

\* An explicit retry grants one attempt at an issue, or the policy's at anything else.
Additional(j) == IF Kind[j[2]] = "jira" THEN 1 ELSE MaxAttempts

retry(j) ==
    /\ Up /\ enabled /\ dest = j[2]
    /\ status[j] = "failed"
    /\ retries[j] < MaxRetries /\ retries' = [retries EXCEPT ![j] = @ + 1]
    /\ Become(j, "queued")
    /\ max_attempts' = [max_attempts EXCEPT ![j] = attempt_count[j] + Additional(j)]
    /\ UNCHANGED <<package, policy, attempt_count, correlated, worker, analyst, posts, received,
                   restarts>>

cancel(j) ==
    /\ Up /\ status[j] \in Pending
    /\ Cancel({j}, "withdrawn")
    /\ UNCHANGED <<package, policy, worker, preview, counts, received, restarts>>

\* close_package, then package_closed; a crash may part them.
Close(p) ==
    /\ Up /\ package[p] = "review"
    /\ package' = [package EXCEPT ![p] = "closed"]
    /\ Cancel({p} \X Destinations, "withdrawn")
    /\ UNCHANGED <<policy, worker, preview, counts, received, restarts>>

\* Packages expire by the clock; nobody tells the outbox.
Expire(p) ==
    /\ package[p] = "review"
    /\ package' = [package EXCEPT ![p] = "expired"]
    /\ UNCHANGED <<policy, row, worker, analyst, counts, received, restarts>>

\* A destination is all that decides where a request goes and as what: the adapter,
\* the address, the credentials, the mapped fields and the trust in its certificate.
destination_changed(d) == d # dest

\* Secrets and policy, then the cancellations a new destination or the switch demands.
update_policy(on, d) ==
    /\ Up
    /\ enabled' = on /\ dest' = d
    /\ Cancel(IF on /\ ~destination_changed(d) THEN {} ELSE Jobs, "revoked")
    /\ UNCHANGED <<package, worker, preview, counts, received, restarts>>

-----------------------------------------------------------------------------
(* The worker. *)

Send(j) ==
    /\ Become(j, "sending")
    /\ worker' = j
    /\ posts' = [posts EXCEPT ![j] = @ + 1]
    /\ UNCHANGED <<attempt_count, max_attempts, correlated, approval>>

\* Mutant: a job of another destination is only skipped.
RefuseSilently(j) ==
    /\ (~enabled \/ package[j[1]] # "review") /\ Cancel({j}, "withdrawn")
    /\ UNCHANGED <<worker, posts>>

Refuse(j) ==
    /\ \/ (~enabled \/ package[j[1]] # "review") /\ Cancel({j}, "withdrawn")
       \/ enabled /\ package[j[1]] = "review" /\ dest # j[2] /\ Become(j, "failed")
          /\ UNCHANGED <<attempt_count, max_attempts, correlated, approval>>
    /\ UNCHANGED <<worker, posts>>

\* next_due and _deliver up to the request.
Deliver(j) ==
    /\ worker = Idle /\ status[j] \in Due
    /\ \/ enabled /\ package[j[1]] = "review" /\ dest = j[2] /\ Send(j)
       \/ Refuse(j)
    /\ UNCHANGED <<package, policy, preview, retries, received, restarts>>

\* A trusted answer.  The record a ticketing destination names is stored first.
Succeeds(j) ==
    /\ worker = j
    /\ correlated' = [correlated EXCEPT ![j] = Kind[j[2]] \in {"jira", "soar"}]
    /\ received' = [received EXCEPT ![j] = TRUE]
    /\ RecordAttempt(j, "delivered")
    /\ worker' = Idle
    /\ UNCHANGED <<package, policy, analyst, counts, restarts>>

\* Mutant: an unknown outcome is retried whatever the adapter.
FailsRetryable(j) ==
    /\ worker = j
    /\ received' = received
    /\ RecordAttempt(j, "retryable")
    /\ worker' = Idle
    /\ UNCHANGED <<package, policy, correlated, analyst, counts, restarts>>

\* An error answer, a timeout, a lost connection: the request may have been taken.
Fails(j) ==
    /\ worker = j
    /\ received' \in {received, [received EXCEPT ![j] = TRUE]}
    /\ \/ Kind[j[2]] # "jira" /\ RecordAttempt(j, "retryable")
       \/ RecordAttempt(j, "permanent")
    /\ worker' = Idle
    /\ UNCHANGED <<package, policy, correlated, analyst, counts, restarts>>

start ==
    /\ ~Up /\ worker' = Idle
    /\ recover_interrupted
    /\ UNCHANGED <<package, policy, attempt_count, max_attempts, correlated, analyst, counts,
                   received, restarts>>

-----------------------------------------------------------------------------
(* The process ends. *)

Halt ==
    /\ Up /\ worker' = Off
    /\ restarts < MaxRestarts /\ restarts' = restarts + 1
    /\ preview' = preview

\* stop() cancels the request and writes nothing, like a crash.
Stop ==
    /\ Halt
    /\ received' \in {received} \cup {[received EXCEPT ![j] = TRUE] : j \in Jobs \cap {worker}}
    /\ UNCHANGED <<package, policy, row, approval, counts>>

\* The record is stored and the attempt is not.
CrashAfterCorrelation(j) ==
    /\ worker = j /\ Kind[j[2]] \in {"jira", "soar"}
    /\ Halt
    /\ correlated' = [correlated EXCEPT ![j] = TRUE]
    /\ received' = [received EXCEPT ![j] = TRUE]
    /\ UNCHANGED <<package, policy, status, attempt_count, max_attempts, approval, counts>>

\* The secrets or the policy are stored, nothing is cancelled.
CrashInUpdate(on, d) ==
    /\ Halt
    /\ enabled' = on /\ dest' = d
    /\ UNCHANGED <<package, row, approval, counts, received>>

\* The package is closed, its jobs are not.
CrashInClose(p) ==
    /\ Halt
    /\ package[p] = "review" /\ package' = [package EXCEPT ![p] = "closed"]
    /\ UNCHANGED <<policy, row, approval, counts, received>>

Handlers ==
    \/ \E p \in Packages : Preview(p) \/ approve(p) \/ consider_package(p) \/ Close(p) \/ Expire(p)
    \/ \E j \in Jobs : retry(j) \/ cancel(j)
    \/ \E on \in BOOLEAN, d \in Destinations : update_policy(on, d)

Work == \E j \in Jobs : Deliver(j) \/ Succeeds(j) \/ Fails(j)

Ends ==
    \/ Stop
    \/ \E j \in Jobs : CrashAfterCorrelation(j)
    \/ \E on \in BOOLEAN, d \in Destinations : CrashInUpdate(on, d)
    \/ \E p \in Packages : CrashInClose(p)

Next == Handlers \/ Work \/ start \/ Ends

Spec == Init /\ [][Next]_vars

\* The worker polls and a request ends within its timeout.  A stopped service is
\* assumed to be started again.
FairSpec == Spec /\ WF_vars(start) /\ WF_vars(Work)

-----------------------------------------------------------------------------
(* Properties. *)

\* However attempts fail and the process restarts, one approval sends at most one
\* create to Jira: every further one is an explicit retry of the analyst.
JiraAsksFirst ==
    \A j \in Jobs : Kind[j[2]] = "jira" => posts[j] <= 1 + retries[j]

\* Requests stay within the attempts granted; only an interrupted one may be repeated.
RequestsBounded ==
    \A j \in Jobs : posts[j] <= MaxAttempts + retries[j] * Additional(j) + restarts

\* A row shown as sending is the worker's, or waits for the recovery of a restart:
\* nothing else would ever move it on, and it can be neither cancelled nor retried.
SendingIsOwned == \A j \in Jobs : status[j] = "sending" => worker \in {j, Off}

\* Delivered means the destination took it, in particular after a recovery.
DeliveredWasReceived == \A j \in Jobs : status[j] = "delivered" => received[j]

\* Once the external record is stored no further request is sent for the job, even
\* when the process dies before the attempt is recorded.
CorrelatedNotResent == [][\A j \in Jobs : correlated[j] => posts'[j] = posts[j]]_vars

\* Every approved job is delivered, failed or cancelled in the end.
JobsSettle == \A j \in Jobs : status[j] \in Due \cup {"sending"}
                              ~> status[j] \notin Due \cup {"sending"}

=============================================================================
