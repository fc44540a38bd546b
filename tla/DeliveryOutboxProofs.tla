-------------------------- MODULE DeliveryOutboxProofs --------------------------
(***************************************************************************)
(* Theorems about the delivery outbox, for every set of packages and       *)
(* destinations, every assignment of adapters and every budget.            *)
(***************************************************************************)
EXTENDS DeliveryOutbox, TLAPS

\* What the worker waits for is being sent, and nothing else is while it runs.
WorkerSends == \A j \in Jobs : worker = j => status[j] = "sending"

\* A job that will be sent has an attempt left, and one never approved is blank.
HasAttempt ==
    \A j \in Jobs :
        /\ status[j] \in Due \cup {"sending"} => attempt_count[j] < max_attempts[j]
        /\ status[j] = "none" => attempt_count[j] = 0 /\ posts[j] = 0 /\ retries[j] = 0

Base == TypeOK /\ WorkerSends /\ SendingIsOwned /\ HasAttempt

LEMMA JobTypes ==
    /\ Off # Idle
    /\ \A j \in Jobs : j # Off /\ j # Idle /\ j[1] \in Packages /\ j[2] \in Destinations
    /\ \A j \in Jobs : Kind[j[2]] \in Kinds
    /\ \A j \in Jobs : Additional(j) \in Nat /\ Additional(j) >= 1
<1>1. Off # Idle
  BY DEF Off, Idle
<1>2. \A j \in Jobs : j # Off /\ j # Idle /\ j[1] \in Packages /\ j[2] \in Destinations
  BY DEF Jobs, Off, Idle
<1>3. \A j \in Jobs : Kind[j[2]] \in Kinds
  BY <1>2, OutboxAssumption
<1>4. \A j \in Jobs : Additional(j) \in Nat /\ Additional(j) >= 1
  BY OutboxAssumption DEF Additional
<1>5. QED
  BY <1>1, <1>2, <1>3, <1>4

LEMMA BaseInit == Init => Base
<1>1. SUFFICES ASSUME Init PROVE Base
  OBVIOUS
<1> USE OutboxAssumption, JobTypes
<1>2. enabled \in BOOLEAN
  BY <1>1, Zenon DEF Init
<1>3. TypeOK
  BY <1>1, <1>2 DEF Init, TypeOK, Due, Pending
<1>4. WorkerSends /\ SendingIsOwned /\ HasAttempt
  BY <1>1 DEF Init, WorkerSends, SendingIsOwned, HasAttempt, Due
<1>5. QED
  BY <1>3, <1>4 DEF Base

\* Types, ownership and budgets are kept by the cancellations, by the answer to an
\* attempt, and then by every step.
LEMMA CancelBase ==
    ASSUME Base, NEW victims, NEW taken \in {"revoked", "withdrawn"}, Cancel(victims, taken)
    PROVE  /\ status' \in [Jobs -> Pending \cup {"none", "sending", "delivered", "cancelled"}]
           /\ approval' \in [Jobs -> {"none", "given", "revoked", "withdrawn"}]
           /\ \A j \in Jobs : status'[j] = status[j] \/ status'[j] = "cancelled"
           /\ \A j \in Jobs : status[j] = "sending" => status'[j] = "sending"
  BY DEF Base, TypeOK, Cancel, Pending, Due

LEMMA AttemptBase ==
    ASSUME Base, NEW j \in Jobs, NEW answer, worker = j, RecordAttempt(j, answer), worker' = Idle,
           UNCHANGED <<posts, retries>>
    PROVE  /\ status' \in [Jobs -> Pending \cup {"none", "sending", "delivered", "cancelled"}]
           /\ attempt_count' \in [Jobs -> Nat] /\ max_attempts' \in [Jobs -> Nat]
           /\ \A k \in Jobs : attempt_count'[k] <= max_attempts'[k]
           /\ WorkerSends' /\ SendingIsOwned' /\ HasAttempt'
<1> USE JobTypes DEF Base, TypeOK
<1>1. status[j] = "sending" /\ attempt_count[j] < max_attempts[j]
  BY DEF WorkerSends, HasAttempt
<1>2. PICK s \in {"delivered", "retrying", "failed"} :
        /\ status' = [status EXCEPT ![j] = s]
        /\ s = "retrying" => attempt_count[j] + 1 < max_attempts[j]
  BY DEF RecordAttempt, AfterAttempt, Become
<1>3. /\ attempt_count' = [attempt_count EXCEPT ![j] = attempt_count[j] + 1]
      /\ max_attempts' = max_attempts
  BY DEF RecordAttempt
<1>4. /\ attempt_count' \in [Jobs -> Nat] /\ max_attempts' \in [Jobs -> Nat]
      /\ \A k \in Jobs : attempt_count'[k] <= max_attempts'[k]
  BY <1>1, <1>3
<1>5. status' \in [Jobs -> Pending \cup {"none", "sending", "delivered", "cancelled"}]
  BY <1>2 DEF Pending, Due
<1>6. WorkerSends' /\ SendingIsOwned'
  BY <1>2 DEF WorkerSends, SendingIsOwned
<1>7. HasAttempt'
  BY <1>2, <1>3 DEF HasAttempt, Due
<1>8. QED
  BY <1>4, <1>5, <1>6, <1>7

LEMMA BaseStep == Base /\ [Next]_vars => Base'
<1>1. SUFFICES ASSUME Base, [Next]_vars PROVE Base'
  OBVIOUS
<1> USE OutboxAssumption, JobTypes DEF Base
<1>2. CASE UNCHANGED vars
  BY <1>1, <1>2 DEF vars, policy, row, analyst, counts, TypeOK, WorkerSends, SendingIsOwned,
     HasAttempt
<1>3. ASSUME NEW p \in Packages, Preview(p) PROVE Base'
  BY <1>1, <1>3 DEF Preview, Prepared, policy, row, counts, TypeOK, WorkerSends,
     SendingIsOwned, HasAttempt
<1>4. ASSUME NEW p \in Packages, approve(p) \/ consider_package(p) PROVE Base'
  <2>1. <<p, dest>> \in Jobs /\ Enqueue(<<p, dest>>)
        /\ UNCHANGED <<package, policy, worker, preview, received, restarts>>
    BY <1>1, <1>4 DEF approve, consider_package, TypeOK, Jobs
  <2> DEFINE j == <<p, dest>>
  <2> HIDE DEF j
  <2>2. j \in Jobs /\ Enqueue(j)
    BY <2>1 DEF j
  <2>3. approval' \in [Jobs -> {"none", "given", "revoked", "withdrawn"}]
    BY <1>1, <2>2 DEF Enqueue, TypeOK
  <2>4. CASE status[j] = "none"
    <3>1. /\ status' = [status EXCEPT ![j] = "queued"]
          /\ max_attempts' = [max_attempts EXCEPT ![j] = MaxAttempts]
          /\ UNCHANGED <<attempt_count, correlated, posts, retries>>
      BY <2>2, <2>4 DEF Enqueue, Become
    <3>2. attempt_count[j] = 0
      BY <1>1, <2>2, <2>4 DEF HasAttempt
    <3>3. TypeOK'
      BY <1>1, <2>1, <2>2, <2>3, <3>1, <3>2 DEF TypeOK, policy, Due, Pending
    <3>4. WorkerSends' /\ SendingIsOwned'
      BY <1>1, <2>1, <2>2, <2>4, <3>1 DEF TypeOK, WorkerSends, SendingIsOwned
    <3>5. HasAttempt'
      BY <1>1, <2>2, <3>1, <3>2 DEF TypeOK, HasAttempt
    <3>6. QED  BY <3>3, <3>4, <3>5
  <2>5. CASE status[j] # "none"
    BY <1>1, <2>1, <2>2, <2>3, <2>5 DEF Enqueue, policy, TypeOK, WorkerSends, SendingIsOwned,
       HasAttempt
  <2>6. QED  BY <2>4, <2>5
<1>5. ASSUME NEW j \in Jobs, retry(j) PROVE Base'
  <2>1. /\ status[j] = "failed" /\ status' = [status EXCEPT ![j] = "queued"]
        /\ max_attempts' = [max_attempts EXCEPT ![j] = attempt_count[j] + Additional(j)]
        /\ retries' = [retries EXCEPT ![j] = retries[j] + 1]
        /\ UNCHANGED <<package, policy, attempt_count, correlated, worker, analyst, posts,
                       received, restarts>>
    BY <1>5 DEF retry, Become
  <2>2. TypeOK'
    BY <1>1, <2>1 DEF TypeOK, policy, analyst, Due, Pending
  <2>3. WorkerSends' /\ SendingIsOwned'
    BY <1>1, <2>1 DEF TypeOK, WorkerSends, SendingIsOwned
  <2>4. HasAttempt'
    BY <1>1, <2>1 DEF TypeOK, HasAttempt, Due
  <2>5. QED  BY <2>2, <2>3, <2>4
<1>6. ASSUME NEW victims, NEW taken \in {"revoked", "withdrawn"}, Cancel(victims, taken),
             UNCHANGED <<worker, counts, received, restarts, preview>>,
             package' \in [Packages -> {"review", "closed", "expired"}],
             enabled' \in BOOLEAN, dest' \in Destinations
      PROVE  Base'
  <2>1. /\ status' \in [Jobs -> Pending \cup {"none", "sending", "delivered", "cancelled"}]
        /\ approval' \in [Jobs -> {"none", "given", "revoked", "withdrawn"}]
        /\ \A j \in Jobs : status'[j] = status[j] \/ status'[j] = "cancelled"
        /\ \A j \in Jobs : status[j] = "sending" => status'[j] = "sending"
    BY <1>1, <1>6, CancelBase
  <2>2. UNCHANGED <<attempt_count, max_attempts, correlated>>
    BY <1>6 DEF Cancel
  <2>3. QED
    BY <1>1, <1>6, <2>1, <2>2 DEF counts, TypeOK, WorkerSends, SendingIsOwned, HasAttempt, Due
<1>7. ASSUME NEW j \in Jobs, cancel(j) PROVE Base'
  BY <1>1, <1>6, <1>7 DEF cancel, policy, TypeOK
<1>8. ASSUME NEW p \in Packages, Close(p) PROVE Base'
  BY <1>1, <1>6, <1>8 DEF Close, policy, TypeOK
<1>9. ASSUME NEW p \in Packages, Expire(p) PROVE Base'
  BY <1>1, <1>9 DEF Expire, policy, row, analyst, counts, TypeOK, WorkerSends, SendingIsOwned,
     HasAttempt
<1>10. ASSUME NEW on \in BOOLEAN, NEW d \in Destinations, update_policy(on, d) PROVE Base'
  <2>1. enabled' \in BOOLEAN
    BY <1>10, Zenon DEF update_policy
  <2>2. QED
    BY <1>1, <1>6, <1>10, <2>1 DEF update_policy, TypeOK
<1>11. ASSUME NEW j \in Jobs, Deliver(j) PROVE Base'
  <2>1. worker = Idle /\ status[j] \in Due
        /\ UNCHANGED <<package, policy, preview, retries, received, restarts>>
    BY <1>11 DEF Deliver
  <2>2. CASE Send(j)
    <3>1. /\ status' = [status EXCEPT ![j] = "sending"] /\ worker' = j
          /\ posts' = [posts EXCEPT ![j] = posts[j] + 1]
          /\ UNCHANGED <<attempt_count, max_attempts, correlated, approval>>
      BY <2>2 DEF Send, Become
    <3>2. TypeOK'
      BY <1>1, <2>1, <3>1 DEF TypeOK, policy
    <3>3. WorkerSends' /\ SendingIsOwned'
      BY <1>1, <2>1, <3>1 DEF TypeOK, WorkerSends, SendingIsOwned
    <3>4. HasAttempt'
      BY <1>1, <2>1, <3>1 DEF TypeOK, HasAttempt, Due
    <3>5. QED  BY <3>2, <3>3, <3>4
  <2>3. CASE Cancel({j}, "withdrawn") /\ UNCHANGED <<worker, posts>>
    BY <1>1, <1>6, <2>1, <2>3 DEF policy, counts, TypeOK
  <2>4. CASE Become(j, "failed") /\ UNCHANGED <<attempt_count, max_attempts, correlated,
                                                  approval, worker, posts>>
    BY <1>1, <2>1, <2>4 DEF Become, policy, TypeOK, Due, Pending, WorkerSends,
       SendingIsOwned, HasAttempt
  <2>5. QED  BY <1>11, <2>2, <2>3, <2>4 DEF Deliver, Refuse
<1>12. ASSUME NEW j \in Jobs, Succeeds(j) PROVE Base'
  <2>1. worker = j /\ RecordAttempt(j, "delivered") /\ worker' = Idle
        /\ UNCHANGED <<package, policy, analyst, counts, restarts>>
    BY <1>12 DEF Succeeds
  <2>2. correlated' \in [Jobs -> BOOLEAN] /\ received' \in [Jobs -> BOOLEAN]
    BY <1>1, <1>12 DEF Succeeds, TypeOK
  <2>3. QED
    BY <1>1, <2>1, <2>2, AttemptBase DEF policy, analyst, counts, TypeOK
<1>13. ASSUME NEW j \in Jobs, Fails(j) PROVE Base'
  <2>1. PICK answer \in {"retryable", "permanent"} : RecordAttempt(j, answer)
    BY <1>13 DEF Fails
  <2>2. worker = j /\ worker' = Idle
        /\ UNCHANGED <<package, policy, correlated, analyst, counts, restarts>>
    BY <1>13 DEF Fails
  <2>3. received' \in [Jobs -> BOOLEAN]
    BY <1>1, <1>13 DEF Fails, TypeOK
  <2>4. QED
    BY <1>1, <2>1, <2>2, <2>3, AttemptBase DEF policy, analyst, counts, TypeOK
<1>14. ASSUME start PROVE Base'
  <2>1. \A j \in Jobs : status'[j] = IF status[j] # "sending" THEN status[j]
                                     ELSE IF correlated[j] THEN "delivered"
                                     ELSE IF Kind[j[2]] = "jira" THEN "failed" ELSE "retrying"
    BY <1>14 DEF start, recover_interrupted
  <2>2. status' \in [Jobs -> Pending \cup {"none", "sending", "delivered", "cancelled"}]
    BY <1>1, <1>14 DEF start, recover_interrupted, TypeOK, Due, Pending
  <2>3. QED
    BY <1>1, <1>14, <2>1, <2>2 DEF start, policy, analyst, counts, TypeOK, WorkerSends,
       SendingIsOwned, HasAttempt, Due
<1>15. CASE Ends
  <2>1. worker' = Off /\ restarts' = restarts + 1
        /\ UNCHANGED <<preview, status, attempt_count, max_attempts, approval, posts, retries>>
    BY <1>15 DEF Ends, Stop, CrashAfterCorrelation, CrashInUpdate, CrashInClose, Halt, row, counts
  <2>2. correlated' \in [Jobs -> BOOLEAN] /\ received' \in [Jobs -> BOOLEAN]
    BY <1>1, <1>15 DEF Ends, Stop, CrashAfterCorrelation, CrashInUpdate, CrashInClose, row, TypeOK
  <2>3. /\ package' \in [Packages -> {"review", "closed", "expired"}]
        /\ dest' \in Destinations
    BY <1>1, <1>15 DEF Ends, Stop, CrashAfterCorrelation, CrashInUpdate, CrashInClose, policy, TypeOK
  <2>4. enabled' \in BOOLEAN
    BY <1>1, <1>15, Zenon DEF Ends, Stop, CrashAfterCorrelation, CrashInUpdate, CrashInClose,
       policy, TypeOK
  <2>5. QED
    BY <1>1, <2>1, <2>2, <2>3, <2>4 DEF TypeOK, WorkerSends, SendingIsOwned, HasAttempt
<1>16. QED
  BY <1>1, <1>2, <1>3, <1>4, <1>5, <1>7, <1>8, <1>9, <1>10, <1>11, <1>12, <1>13, <1>14, <1>15
     DEF Next, Handlers, Work

\* The row and the histories keep their types, and attempts never pass max_attempts.
THEOREM TypeCorrect == Spec => []TypeOK
<1>1. Base => TypeOK
  BY DEF Base
<1>2. QED
  BY BaseInit, BaseStep, <1>1, PTL DEF Spec

\* While the process runs, a row that shows sending is the worker's current request.
THEOREM SendingAlwaysOwned == Spec => []SendingIsOwned
<1>1. Base => SendingIsOwned
  BY DEF Base
<1>2. QED
  BY BaseInit, BaseStep, <1>1, PTL DEF Spec

-----------------------------------------------------------------------------
(* One create per decision.                                                *)

\* An issue whose request may still be sent has none unaccounted for: it is queued
\* by an approval or by a retry, never by a backoff or a recovery.
AskedOnce ==
    \A j \in Jobs : Kind[j[2]] = "jira" =>
        /\ status[j] # "retrying"
        /\ status[j] = "queued" => posts[j] <= retries[j]
        /\ posts[j] <= 1 + retries[j]

LEMMA AskedInit == Init => AskedOnce
  BY JobTypes DEF Init, AskedOnce

LEMMA AskedStep == Base /\ AskedOnce /\ [Next]_vars => AskedOnce'
<1>1. SUFFICES ASSUME Base, AskedOnce, [Next]_vars PROVE AskedOnce'
  OBVIOUS
<1> USE OutboxAssumption, JobTypes
<1>t. TypeOK
  BY <1>1 DEF Base
<1>2. CASE UNCHANGED vars
  BY <1>1, <1>2 DEF vars, row, counts, AskedOnce
<1>3. ASSUME NEW p \in Packages, Preview(p) \/ Expire(p) PROVE AskedOnce'
  BY <1>1, <1>3 DEF Preview, Expire, row, counts, AskedOnce
<1>4. ASSUME NEW p \in Packages, approve(p) \/ consider_package(p) PROVE AskedOnce'
  <2>1. <<p, dest>> \in Jobs /\ Enqueue(<<p, dest>>)
    BY <1>t, <1>4 DEF approve, consider_package, TypeOK, Jobs
  <2> DEFINE j == <<p, dest>>
  <2> HIDE DEF j
  <2>2. j \in Jobs /\ Enqueue(j)
    BY <2>1 DEF j
  <2>3. CASE status[j] = "none"
    <3>1. status' = [status EXCEPT ![j] = "queued"] /\ UNCHANGED <<posts, retries>>
      BY <2>2, <2>3 DEF Enqueue, Become
    <3>2. posts[j] = 0 /\ retries[j] = 0
      BY <1>1, <2>2, <2>3 DEF Base, HasAttempt
    <3>3. QED  BY <1>1, <1>t, <2>2, <3>1, <3>2 DEF TypeOK, AskedOnce
  <2>4. CASE status[j] # "none"
    BY <1>1, <2>2, <2>4 DEF Enqueue, AskedOnce
  <2>5. QED  BY <2>3, <2>4
<1>5. ASSUME NEW j \in Jobs, retry(j) PROVE AskedOnce'
  <2>1. /\ status' = [status EXCEPT ![j] = "queued"]
        /\ retries' = [retries EXCEPT ![j] = retries[j] + 1] /\ posts' = posts
    BY <1>5 DEF retry, Become
  <2>2. QED  BY <1>1, <1>t, <2>1 DEF TypeOK, AskedOnce
<1>6. ASSUME NEW victims, NEW taken, Cancel(victims, taken), UNCHANGED <<posts, retries>>
      PROVE  AskedOnce'
  <2>1. \A j \in Jobs : status'[j] = status[j] \/ status'[j] = "cancelled"
    BY <1>6 DEF Cancel
  <2>2. QED  BY <1>1, <1>6, <2>1 DEF AskedOnce
<1>7. ASSUME NEW j \in Jobs, cancel(j) PROVE AskedOnce'
  BY <1>6, <1>7 DEF cancel, counts
<1>8. ASSUME NEW p \in Packages, Close(p) PROVE AskedOnce'
  BY <1>6, <1>8 DEF Close, counts
<1>9. ASSUME NEW on \in BOOLEAN, NEW d \in Destinations, update_policy(on, d) PROVE AskedOnce'
  BY <1>6, <1>9 DEF update_policy, counts
<1>10. ASSUME NEW j \in Jobs, Deliver(j) PROVE AskedOnce'
  <2>1. status[j] \in Due /\ retries' = retries
    BY <1>10 DEF Deliver
  <2>2. CASE Send(j)
    <3>1. status' = [status EXCEPT ![j] = "sending"] /\ posts' = [posts EXCEPT ![j] = posts[j] + 1]
      BY <2>2 DEF Send, Become
    <3>2. QED  BY <1>1, <1>t, <2>1, <3>1 DEF TypeOK, AskedOnce, Due
  <2>3. CASE Cancel({j}, "withdrawn") /\ UNCHANGED posts
    BY <1>6, <2>1, <2>3
  <2>4. CASE Become(j, "failed") /\ UNCHANGED posts
    BY <1>1, <1>t, <2>1, <2>4 DEF Become, TypeOK, AskedOnce
  <2>5. QED  BY <1>10, <2>2, <2>3, <2>4 DEF Deliver, Refuse
<1>11. ASSUME NEW j \in Jobs, Succeeds(j) \/ Fails(j) PROVE AskedOnce'
  <2>1. UNCHANGED <<posts, retries>>
    BY <1>11 DEF Succeeds, Fails, counts
  <2>2. PICK s \in {"delivered", "retrying", "failed"} :
          /\ status' = [status EXCEPT ![j] = s]
          /\ Kind[j[2]] = "jira" => s # "retrying"
    BY <1>11 DEF Succeeds, Fails, RecordAttempt, AfterAttempt, Become
  <2>3. QED  BY <1>1, <1>t, <2>1, <2>2 DEF TypeOK, AskedOnce
<1>12. ASSUME start PROVE AskedOnce'
  <2>1. UNCHANGED <<posts, retries>>
    BY <1>12 DEF start, counts
  <2>2. \A j \in Jobs : status'[j] = IF status[j] # "sending" THEN status[j]
                                     ELSE IF correlated[j] THEN "delivered"
                                     ELSE IF Kind[j[2]] = "jira" THEN "failed" ELSE "retrying"
    BY <1>12 DEF start, recover_interrupted
  <2>3. QED  BY <1>1, <2>1, <2>2 DEF AskedOnce
<1>13. CASE Ends
  BY <1>1, <1>13 DEF Ends, Stop, CrashAfterCorrelation, CrashInUpdate, CrashInClose, Halt, row,
     counts, AskedOnce
<1>14. QED
  BY <1>1, <1>2, <1>3, <1>4, <1>5, <1>7, <1>8, <1>9, <1>10, <1>11, <1>12, <1>13
     DEF Next, Handlers, Work

\* For every budget and number of restarts, the service sends at most one create to Jira
\* for the approval and one for each explicit retry.
THEOREM OneCreatePerDecision == Spec => []JiraAsksFirst
<1>1. Base /\ AskedOnce => JiraAsksFirst
  BY DEF AskedOnce, JiraAsksFirst
<1>2. QED
  BY BaseInit, BaseStep, AskedInit, AskedStep, <1>1, PTL DEF Spec

-----------------------------------------------------------------------------
(* What is known of the destination.                                       *)

\* A stored correlation belongs to a row at rest: delivered, or waiting for the
\* recovery that will call it delivered.
CorrelatedRests ==
    \A j \in Jobs :
        /\ correlated[j] => received[j] /\ status[j] \in {"sending", "delivered"} /\ worker # j
        /\ status[j] = "delivered" => received[j]

LEMMA RestsInit == Init => CorrelatedRests
  BY JobTypes DEF Init, CorrelatedRests

LEMMA RestsStep == Base /\ CorrelatedRests /\ [Next]_vars => CorrelatedRests'
<1>1. SUFFICES ASSUME Base, CorrelatedRests, [Next]_vars PROVE CorrelatedRests'
  OBVIOUS
<1> USE OutboxAssumption, JobTypes
<1>t. TypeOK /\ WorkerSends
  BY <1>1 DEF Base
<1>2. CASE UNCHANGED vars
  BY <1>1, <1>2 DEF vars, row, CorrelatedRests
<1>3. ASSUME NEW p \in Packages, Preview(p) \/ Expire(p) PROVE CorrelatedRests'
  BY <1>1, <1>3 DEF Preview, Expire, row, CorrelatedRests
<1>4. ASSUME NEW p \in Packages, approve(p) \/ consider_package(p) PROVE CorrelatedRests'
  <2>1. /\ <<p, dest>> \in Jobs /\ Enqueue(<<p, dest>>)
        /\ UNCHANGED <<worker, received>>
    BY <1>t, <1>4 DEF approve, consider_package, TypeOK, Jobs
  <2> DEFINE j == <<p, dest>>
  <2> HIDE DEF j
  <2>2. j \in Jobs /\ Enqueue(j)
    BY <2>1 DEF j
  <2>3. \/ status' = status
        \/ status[j] = "none" /\ status' = [status EXCEPT ![j] = "queued"]
    BY <2>2 DEF Enqueue, Become
  <2>4. correlated' = correlated
    BY <2>2 DEF Enqueue
  <2>5. QED  BY <1>1, <1>t, <2>1, <2>2, <2>3, <2>4 DEF TypeOK, CorrelatedRests
<1>5. ASSUME NEW j \in Jobs, retry(j) PROVE CorrelatedRests'
  <2>1. /\ status[j] = "failed" /\ status' = [status EXCEPT ![j] = "queued"]
        /\ UNCHANGED <<correlated, worker, received>>
    BY <1>5 DEF retry, Become
  <2>2. QED  BY <1>1, <1>t, <2>1 DEF TypeOK, CorrelatedRests
<1>6. ASSUME NEW victims, NEW taken, Cancel(victims, taken), UNCHANGED <<worker, received>>
      PROVE  CorrelatedRests'
  <2>1. /\ correlated' = correlated
        /\ \A j \in Jobs :
              status'[j] = status[j] \/ (status[j] \in Pending /\ status'[j] = "cancelled")
    BY <1>6 DEF Cancel
  <2>2. QED  BY <1>1, <1>6, <2>1 DEF CorrelatedRests, Pending, Due
<1>7. ASSUME NEW j \in Jobs, cancel(j) PROVE CorrelatedRests'
  BY <1>6, <1>7 DEF cancel
<1>8. ASSUME NEW p \in Packages, Close(p) PROVE CorrelatedRests'
  BY <1>6, <1>8 DEF Close
<1>9. ASSUME NEW on \in BOOLEAN, NEW d \in Destinations, update_policy(on, d)
      PROVE  CorrelatedRests'
  BY <1>6, <1>9 DEF update_policy
<1>10. ASSUME NEW j \in Jobs, Deliver(j) PROVE CorrelatedRests'
  <2>1. worker = Idle /\ status[j] \in Due /\ received' = received
    BY <1>10 DEF Deliver
  <2>2. CASE Send(j)
    <3>1. status' = [status EXCEPT ![j] = "sending"] /\ worker' = j /\ correlated' = correlated
      BY <2>2 DEF Send, Become
    <3>2. QED  BY <1>1, <1>t, <2>1, <3>1 DEF TypeOK, CorrelatedRests, Due
  <2>3. CASE Cancel({j}, "withdrawn") /\ UNCHANGED worker
    BY <1>6, <2>1, <2>3
  <2>4. CASE Become(j, "failed") /\ UNCHANGED <<correlated, worker>>
    BY <1>1, <1>t, <2>1, <2>4 DEF Become, TypeOK, CorrelatedRests, Due
  <2>5. QED  BY <1>10, <2>2, <2>3, <2>4 DEF Deliver, Refuse
<1>11. ASSUME NEW j \in Jobs, Succeeds(j) PROVE CorrelatedRests'
  <2>1. /\ received' = [received EXCEPT ![j] = TRUE] /\ worker' = Idle
        /\ \A k \in Jobs \ {j} : correlated'[k] = correlated[k]
    BY <1>t, <1>11 DEF Succeeds, TypeOK
  <2>2. status' = [status EXCEPT ![j] = "delivered"]
    BY <1>11 DEF Succeeds, RecordAttempt, AfterAttempt, Become
  <2>3. QED  BY <1>1, <1>t, <2>1, <2>2 DEF TypeOK, CorrelatedRests
<1>12. ASSUME NEW j \in Jobs, Fails(j) PROVE CorrelatedRests'
  <2>1. /\ \A k \in Jobs : received[k] => received'[k]
        /\ worker = j /\ worker' = Idle /\ correlated' = correlated
    BY <1>t, <1>12 DEF Fails, TypeOK
  <2>2. PICK s \in {"retrying", "failed"} : status' = [status EXCEPT ![j] = s]
    BY <1>12 DEF Fails, RecordAttempt, AfterAttempt, Become
  <2>3. QED  BY <1>1, <1>t, <2>1, <2>2 DEF TypeOK, CorrelatedRests
<1>13. ASSUME start PROVE CorrelatedRests'
  <2>1. UNCHANGED <<correlated, received>> /\ worker' = Idle
    BY <1>13 DEF start
  <2>2. \A j \in Jobs : status'[j] = IF status[j] # "sending" THEN status[j]
                                     ELSE IF correlated[j] THEN "delivered"
                                     ELSE IF Kind[j[2]] = "jira" THEN "failed" ELSE "retrying"
    BY <1>13 DEF start, recover_interrupted
  <2>3. QED  BY <1>1, <2>1, <2>2 DEF CorrelatedRests
<1>14. CASE Ends
  <2>1. worker' = Off /\ status' = status /\ \A k \in Jobs : received[k] => received'[k]
    BY <1>t, <1>14 DEF Ends, Stop, CrashAfterCorrelation, CrashInUpdate, CrashInClose, Halt, row,
       TypeOK
  <2>2. \A k \in Jobs : correlated'[k] => correlated[k] \/ (worker = k /\ received'[k])
    <3>1. ASSUME NEW j \in Jobs, CrashAfterCorrelation(j)
          PROVE  \A k \in Jobs : correlated'[k] => correlated[k] \/ (worker = k /\ received'[k])
      BY <1>t, <3>1 DEF CrashAfterCorrelation, TypeOK
    <3>2. CASE correlated' = correlated
      BY <3>2
    <3>3. QED
      BY <1>14, <3>1, <3>2 DEF Ends, Stop, CrashInUpdate, CrashInClose, row
  <2>3. QED  BY <1>1, <1>t, <2>1, <2>2 DEF CorrelatedRests, WorkerSends
<1>15. QED
  BY <1>1, <1>2, <1>3, <1>4, <1>5, <1>7, <1>8, <1>9, <1>10, <1>11, <1>12, <1>13, <1>14
     DEF Next, Handlers, Work

\* A job is never shown as delivered unless its destination took a request.
THEOREM DeliveredIsTrue == Spec => []DeliveredWasReceived
<1>1. CorrelatedRests => DeliveredWasReceived
  BY DEF CorrelatedRests, DeliveredWasReceived
<1>2. QED
  BY BaseInit, BaseStep, RestsInit, RestsStep, <1>1, PTL DEF Spec

\* Once the record of a job is stored, no crash or retry sends another request for it.
THEOREM CorrelationEndsRequests == Spec => CorrelatedNotResent
<1>1. Base /\ CorrelatedRests /\ [Next]_vars => [\A j \in Jobs : correlated[j] => posts'[j] = posts[j]]_vars
  <2>1. SUFFICES ASSUME Base, CorrelatedRests, Next, NEW j \in Jobs, correlated[j]
                 PROVE  posts'[j] = posts[j]
    BY DEF vars, counts
  <2>2. status[j] \notin Due
    BY <2>1 DEF CorrelatedRests, Due
  <2>3. ASSUME NEW k \in Jobs, Deliver(k) PROVE posts'[j] = posts[j]
    <3>1. j # k
      BY <2>2, <2>3 DEF Deliver
    <3>2. posts' = posts \/ posts' = [posts EXCEPT ![k] = posts[k] + 1]
      BY <2>3 DEF Deliver, Send, Refuse
    <3>3. QED  BY <2>1, <3>1, <3>2 DEF Base, TypeOK
  <2>4. CASE posts' = posts
    BY <2>4
  <2>5. QED
    BY <2>1, <2>3, <2>4 DEF Next, Handlers, Work, Ends, Preview, approve, consider_package, Enqueue,
       Close, Expire, retry, cancel, update_policy, Succeeds, Fails, start, Stop,
       CrashAfterCorrelation, CrashInUpdate, CrashInClose, counts
<1>2. QED
  BY BaseInit, BaseStep, RestsInit, RestsStep, <1>1, PTL DEF Spec, CorrelatedNotResent

-----------------------------------------------------------------------------
(* Requests and attempts.                                                  *)

Current(j) == IF worker = j THEN 1 ELSE 0
Budget(j) == MaxAttempts + retries[j] * Additional(j)

\* Every request is an attempt, the current one, or was cut off by a restart; the
\* attempts allowed are those the approval and the retries granted.
RequestsCounted ==
    \A j \in Jobs :
        /\ posts[j] <= attempt_count[j] + restarts + Current(j)
        /\ max_attempts[j] <= Budget(j)

LEMMA BudgetGrows ==
    \A j \in Jobs : TypeOK =>
        /\ Budget(j) \in Nat /\ Budget(j) >= MaxAttempts
        /\ (retries[j] + 1) * Additional(j) = retries[j] * Additional(j) + Additional(j)
<1>1. SUFFICES ASSUME NEW j \in Jobs, TypeOK
               PROVE  /\ Budget(j) \in Nat /\ Budget(j) >= MaxAttempts
                      /\ (retries[j] + 1) * Additional(j) = retries[j] * Additional(j) + Additional(j)
  OBVIOUS
<1>2. retries[j] \in Nat /\ Additional(j) \in Nat /\ MaxAttempts \in Nat
  BY <1>1, JobTypes, OutboxAssumption DEF TypeOK
<1>3. \A a, b \in Nat : a * b \in Nat /\ (a + 1) * b = a * b + b
  OBVIOUS
<1>4. QED
  BY <1>2, <1>3 DEF Budget

LEMMA CountedInit == Init => RequestsCounted
<1>1. SUFFICES ASSUME Init PROVE RequestsCounted
  OBVIOUS
<1>2. TypeOK
  BY <1>1, BaseInit DEF Base
<1>3. QED
  BY <1>1, <1>2, JobTypes, BudgetGrows, OutboxAssumption DEF Init, RequestsCounted, Current

LEMMA CountedStep == Base /\ RequestsCounted /\ [Next]_vars => RequestsCounted'
<1>1. SUFFICES ASSUME Base, RequestsCounted, [Next]_vars PROVE RequestsCounted'
  OBVIOUS
<1> USE OutboxAssumption, JobTypes
<1>t. TypeOK /\ WorkerSends /\ HasAttempt
  BY <1>1 DEF Base
<1>2. ASSUME UNCHANGED <<posts, attempt_count, max_attempts, retries, restarts, worker>>
      PROVE  RequestsCounted'
  BY <1>1, <1>2 DEF RequestsCounted, Current, Budget, Additional
<1>3. CASE UNCHANGED vars
  BY <1>2, <1>3 DEF vars, row, counts
<1>4. ASSUME NEW p \in Packages, approve(p) \/ consider_package(p) PROVE RequestsCounted'
  <2>1. /\ <<p, dest>> \in Jobs /\ Enqueue(<<p, dest>>)
        /\ UNCHANGED <<worker, restarts>>
    BY <1>t, <1>4 DEF approve, consider_package, TypeOK, Jobs
  <2> DEFINE j == <<p, dest>>
  <2> HIDE DEF j
  <2>2. j \in Jobs /\ Enqueue(j)
    BY <2>1 DEF j
  <2>3. CASE status[j] = "none"
    <3>1. /\ max_attempts' = [max_attempts EXCEPT ![j] = MaxAttempts]
          /\ UNCHANGED <<attempt_count, posts, retries>>
      BY <2>2, <2>3 DEF Enqueue
    <3>2. \A k \in Jobs : Budget(k)' = Budget(k) /\ Current(k)' = Current(k)
      BY <2>1, <3>1 DEF Budget, Current, Additional
    <3>3. Budget(j) >= MaxAttempts
      BY <1>t, <2>2, BudgetGrows
    <3>4. QED  BY <1>1, <1>t, <2>1, <2>2, <3>1, <3>2, <3>3 DEF TypeOK, RequestsCounted
  <2>4. CASE status[j] # "none"
    BY <1>2, <2>1, <2>2, <2>4 DEF Enqueue
  <2>5. QED  BY <2>3, <2>4
<1>5. ASSUME NEW j \in Jobs, retry(j) PROVE RequestsCounted'
  <2>1. /\ max_attempts' = [max_attempts EXCEPT ![j] = attempt_count[j] + Additional(j)]
        /\ retries' = [retries EXCEPT ![j] = retries[j] + 1]
        /\ UNCHANGED <<posts, attempt_count, restarts, worker>>
    BY <1>5 DEF retry
  <2>2. \A k \in Jobs \ {j} : Budget(k)' = Budget(k)
    BY <1>t, <2>1 DEF TypeOK, Budget, Additional
  <2>3. Budget(j)' = Budget(j) + Additional(j)
    <3>1. retries'[j] = retries[j] + 1 /\ Additional(j)' = Additional(j)
      BY <1>t, <2>1 DEF TypeOK, Additional
    <3>2. Budget(j)' = MaxAttempts + (retries[j] + 1) * Additional(j)
      BY <3>1 DEF Budget
    <3>3. (retries[j] + 1) * Additional(j) = retries[j] * Additional(j) + Additional(j)
      BY <1>t, BudgetGrows
    <3>4. retries[j] * Additional(j) \in Nat
      <4>1. \A a, b \in Nat : a * b \in Nat
        OBVIOUS
      <4>2. QED  BY <1>t, <4>1 DEF TypeOK
    <3>5. QED  BY <3>2, <3>3, <3>4 DEF Budget
  <2>4. attempt_count[j] <= max_attempts[j] /\ max_attempts[j] <= Budget(j) /\ Budget(j) \in Nat
    BY <1>1, <1>t, BudgetGrows DEF TypeOK, RequestsCounted
  <2>5. \A k \in Jobs : Current(k)' = Current(k)
    BY <2>1 DEF Current
  <2>6. QED
    BY <1>1, <1>t, <2>1, <2>2, <2>3, <2>4, <2>5 DEF TypeOK, RequestsCounted
<1>6. ASSUME NEW victims, NEW taken, Cancel(victims, taken), UNCHANGED <<counts, worker, restarts>>
      PROVE  RequestsCounted'
  BY <1>2, <1>6 DEF Cancel, counts
<1>7. ASSUME NEW j \in Jobs, cancel(j) PROVE RequestsCounted'
  BY <1>6, <1>7 DEF cancel
<1>8. ASSUME NEW p \in Packages, Close(p) PROVE RequestsCounted'
  BY <1>6, <1>8 DEF Close
<1>9. ASSUME NEW on \in BOOLEAN, NEW d \in Destinations, update_policy(on, d)
      PROVE  RequestsCounted'
  BY <1>6, <1>9 DEF update_policy
<1>10. ASSUME NEW j \in Jobs, Deliver(j) PROVE RequestsCounted'
  <2>1. worker = Idle /\ UNCHANGED <<retries, restarts>>
    BY <1>10 DEF Deliver
  <2>2. CASE Send(j)
    <3>1. /\ posts' = [posts EXCEPT ![j] = posts[j] + 1] /\ worker' = j
          /\ UNCHANGED <<attempt_count, max_attempts>>
      BY <2>2 DEF Send
    <3>2. /\ Current(j) = 0 /\ Current(j)' = 1
          /\ \A k \in Jobs \ {j} : Current(k) = 0 /\ Current(k)' = 0
      BY <2>1, <3>1 DEF Current
    <3>3. \A k \in Jobs : Budget(k)' = Budget(k)
      BY <2>1 DEF Budget, Additional
    <3>4. QED  BY <1>1, <1>t, <2>1, <3>1, <3>2, <3>3 DEF TypeOK, RequestsCounted
  <2>3. CASE Refuse(j)
    BY <1>2, <2>1, <2>3 DEF Refuse, Cancel, Become
  <2>4. QED  BY <1>10, <2>2, <2>3 DEF Deliver
<1>11. ASSUME NEW j \in Jobs, Succeeds(j) \/ Fails(j) PROVE RequestsCounted'
  <2>1. /\ UNCHANGED <<posts, retries, restarts, max_attempts>>
        /\ worker = j /\ worker' = Idle
        /\ attempt_count' = [attempt_count EXCEPT ![j] = attempt_count[j] + 1]
    BY <1>11 DEF Succeeds, Fails, RecordAttempt, counts
  <2>2. /\ Current(j) = 1 /\ Current(j)' = 0
        /\ \A k \in Jobs \ {j} : Current(k) = 0 /\ Current(k)' = 0
    BY <2>1 DEF Current
  <2>3. \A k \in Jobs : Budget(k)' = Budget(k)
    BY <2>1 DEF Budget, Additional
  <2>4. QED  BY <1>1, <1>t, <2>1, <2>2, <2>3 DEF TypeOK, RequestsCounted
<1>12. ASSUME start PROVE RequestsCounted'
  <2>1. /\ UNCHANGED <<posts, retries, attempt_count, max_attempts, restarts>>
        /\ worker = Off /\ worker' = Idle
    BY <1>12 DEF start, counts, Up
  <2>2. \A k \in Jobs : Current(k)' = Current(k) /\ Budget(k)' = Budget(k)
    BY <2>1 DEF Current, Budget, Additional
  <2>3. QED  BY <1>1, <2>1, <2>2 DEF RequestsCounted
<1>13. CASE Ends
  <2>1. /\ worker' = Off /\ restarts' = restarts + 1
        /\ UNCHANGED <<attempt_count, max_attempts, posts, retries>>
    BY <1>13 DEF Ends, Stop, CrashAfterCorrelation, CrashInUpdate, CrashInClose, Halt, row, counts
  <2>2. \A k \in Jobs : Current(k)' = 0 /\ Current(k) \in {0, 1} /\ Budget(k)' = Budget(k)
    BY <2>1 DEF Current, Budget, Additional
  <2>3. QED  BY <1>1, <1>t, <2>1, <2>2 DEF TypeOK, RequestsCounted
<1>14. ASSUME NEW p \in Packages, Preview(p) \/ Expire(p) PROVE RequestsCounted'
  BY <1>2, <1>14 DEF Preview, Expire, row, counts
<1>15. QED
  BY <1>1, <1>3, <1>4, <1>5, <1>7, <1>8, <1>9, <1>10, <1>11, <1>12, <1>13, <1>14
     DEF Next, Handlers, Work

\* The requests of a job stay within the attempts its approval and retries granted;
\* only a request cut off by a restart may be repeated beyond them.
THEOREM RequestsAreBounded == Spec => []RequestsBounded
<1>1. Base /\ RequestsCounted => RequestsBounded
  <2>1. SUFFICES ASSUME Base, RequestsCounted, NEW j \in Jobs PROVE posts[j] <= Budget(j) + restarts
    BY DEF RequestsBounded, Budget, RequestsCounted, Base, TypeOK
  <2>2. CASE worker = j
    BY <2>1, <2>2, BudgetGrows DEF Base, TypeOK, WorkerSends, HasAttempt, RequestsCounted, Current
  <2>3. CASE worker # j
    BY <2>1, <2>3, BudgetGrows DEF Base, TypeOK, RequestsCounted, Current
  <2>4. QED  BY <2>2, <2>3
<1>2. QED
  BY BaseInit, BaseStep, CountedInit, CountedStep, <1>1, PTL DEF Spec

=============================================================================
