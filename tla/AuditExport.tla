---------------------------- MODULE AuditExport ----------------------------
(***************************************************************************)
(* The audit chain, its export to a Splunk HTTP Event Collector and the    *)
(* operations kit: audit/store.py, audit_export/{store,service,            *)
(* operations}.py and their handlers in app.py.                            *)
(*                                                                         *)
(* An event is its sequence number.  A destination stands for the origin,  *)
(* index, sourcetype, source and host that make its fingerprint.  The      *)
(* exporter is one coroutine at a time, under an asyncio lock: the worker  *)
(* or an administrator's run.  A batch is in flight from mark_sending to   *)
(* record_attempt, and the administrator acts between the two.  A due time *)
(* is always reached, so it is not kept.                                   *)
(***************************************************************************)
EXTENDS Naturals, Sequences, FiniteSets

CONSTANTS
    Destinations,   \* HEC destinations, by fingerprint
    OpsPolicies,    \* operations policies (retention, thresholds, ...)
    MaxEvents,      \* bound: audit events recorded
    BatchSize,      \* policy["batch_size"]
    MaxAttempts,    \* policy["max_attempts"]
    MaxAuditRestarts,  \* bound: restarts
    MaxReconciles,  \* bound: reconciliations
    Nowhere         \* no destination configured, nothing deployed, nothing read

ASSUME AuditAssumption == BatchSize \in Nat \ {0} /\ Nowhere \notin Destinations

VARIABLES
    latest,           \* sequence of the newest audit event
    intact,           \* the hash chain verifies
    export_policy,    \* audit_export_policy and the HEC secrets
    export_state,     \* audit_export_state: cursor, status, failures
    waiting,          \* exporters waiting for the lock
    batch,            \* what each exporter has in flight
    accepted,         \* external: events each destination holds
    began,            \* ghost: where the cursor started for this destination
    crossed,          \* ghost: the cursor was moved under a batch in flight
    restarts_left,
    ops_policy,       \* audit_operations_policy
    kits,             \* audit_operations_exports: [policy, dest, sound]
    deployed,         \* external: the kit each object in Splunk comes from
    reconciling,      \* the reconciliation in progress
    reconciliations   \* audit_operations_reconciliations

exportVars == <<latest, intact, export_policy, export_state, waiting, batch,
                accepted, began, crossed, restarts_left>>
kitVars == <<ops_policy, kits, deployed, reconciling, reconciliations>>
auditVars == <<exportVars, kitVars>>

Exporters == {"worker", "run_now"}
BlockedStates == {"failed", "chain-invalid", "config-error"}
Idle == [last |-> 0]
Objects == <<"indexer app", "search-head app">>   \* in the order reconcile reads them
Unavailable == <<"unavailable">>

InFlight(p) == batch[p] # Idle
LockHeld == \E p \in Exporters : InFlight(p)

AuditInit ==
    /\ latest = 0 /\ intact = TRUE
    /\ export_policy = [enabled |-> FALSE, dest |-> Nowhere]
    /\ export_state = [cursor |-> 0, status |-> "disabled", failures |-> 0]
    /\ waiting = {} /\ batch = [p \in Exporters |-> Idle]
    /\ accepted = [d \in Destinations |-> {}]
    /\ began = 0 /\ crossed = FALSE /\ restarts_left = MaxAuditRestarts
    /\ ops_policy \in OpsPolicies
    /\ kits = << >> /\ reconciliations = << >>
    /\ deployed = [i \in DOMAIN Objects |-> << >>]
    /\ reconciling = Nowhere

(***************************************************************************)
(* The log.  Every control-plane decision records an event.                *)
(***************************************************************************)
record == latest < MaxEvents /\ latest' = latest + 1

\* Every row carries the hash of the row before it.
verify == intact

record_event == record /\ UNCHANGED <<intact, export_policy, export_state, waiting, batch,
                                      accepted, began, crossed, restarts_left, kitVars>>

\* A row of the log is changed outside the program.
alter_log ==
    /\ intact /\ latest > 0 /\ intact' = FALSE
    /\ UNCHANGED <<latest, export_policy, export_state, waiting, batch, accepted, began,
                   crossed, restarts_left, kitVars>>

(***************************************************************************)
(* The export policy.  The cursor starts over when the export is enabled   *)
(* or its destination changes: at the first event for a backfill, else at  *)
(* the newest.                                                             *)
(***************************************************************************)
reset_cursor(enabled, dest, backfill) ==
    IF enabled /\ (~export_policy.enabled \/ dest # export_policy.dest)
      THEN {IF backfill THEN 0 ELSE latest} ELSE {}

Configurable(enabled, dest) == enabled => dest # Nowhere

\* What the store makes of the export state.
policy_written(enabled, cursor) ==
    export_state' = [cursor |-> cursor,
                     status |-> IF enabled THEN "pending" ELSE "disabled",
                     failures |-> IF enabled THEN 0 ELSE export_state.failures]

update_export_policy(enabled, dest, backfill) ==
    LET reset == reset_cursor(enabled, dest, backfill)
        cursor == IF reset = {} THEN export_state.cursor ELSE CHOOSE c \in reset : TRUE
    IN  /\ Configurable(enabled, dest)
        /\ record
        /\ export_policy' = [enabled |-> enabled, dest |-> dest]
        /\ policy_written(enabled, cursor)
        /\ began' = IF reset = {} THEN began ELSE cursor
        /\ crossed' = IF LockHeld THEN crossed \/ reset # {} \/ dest # export_policy.dest
                                  ELSE crossed /\ reset = {}
        /\ UNCHANGED <<intact, waiting, batch, accepted, restarts_left, kitVars>>

(***************************************************************************)
(* One export, by the exporter p that has the lock.                        *)
(***************************************************************************)
selected(c) == c + 1 .. c + (IF latest - c < BatchSize THEN latest - c ELSE BatchSize)

\* Mutant: the cursor moves past every event read, not past those sent.
read_not_sent(p, c) ==
    \E n \in selected(c) :
        batch' = [batch EXCEPT ![p] =
                     [events |-> c + 1 .. n, last |-> c + Cardinality(selected(c)),
                      dest |-> export_policy.dest]]

\* _batch keeps the longest prefix that fits the size limit, at least one event.
take_batch(p, c) ==
    \E n \in selected(c) :
        batch' = [batch EXCEPT ![p] = [events |-> c + 1 .. n, last |-> n,
                                       dest |-> export_policy.dest]]

export_once(p, s) ==
    \/ ~export_policy.enabled /\ export_state' = s /\ UNCHANGED batch
    \/ /\ export_policy.enabled /\ export_policy.dest = Nowhere
       /\ export_state' = [s EXCEPT !.status = "config-error"] /\ UNCHANGED batch
    \/ /\ export_policy.enabled /\ export_policy.dest # Nowhere /\ ~verify
       /\ export_state' = [s EXCEPT !.status = "chain-invalid"] /\ UNCHANGED batch
    \/ /\ export_policy.enabled /\ export_policy.dest # Nowhere /\ verify
       /\ \/ /\ latest = s.cursor /\ UNCHANGED batch
             /\ export_state' = [s EXCEPT !.status = "idle", !.failures = 0]
          \/ /\ latest > s.cursor /\ take_batch(p, s.cursor)
             /\ export_state' = [s EXCEPT !.status = "sending"]

\* The loop of the worker looks at the policy and the state before the lock.
Due == export_policy.enabled /\ export_state.status \notin BlockedStates

worker_waits ==
    /\ Due /\ ~InFlight("worker") /\ LockHeld /\ waiting' = waiting \cup {"worker"}
    /\ UNCHANGED <<latest, intact, export_policy, export_state, batch, accepted, began,
                   crossed, restarts_left, kitVars>>

acquire(p) == ~LockHeld /\ waiting' = waiting \ {p}

begin_export(p) ==
    /\ acquire(p)
    /\ p \in waiting \/ (p = "worker" /\ Due)
    /\ export_once(p, export_state)
    /\ UNCHANGED <<latest, intact, export_policy, accepted, began, crossed, restarts_left, kitVars>>

\* run_audit_export: the request is recorded, the failures are forgotten, and then
\* the run takes the lock or waits for it.
run_now ==
    LET s == [export_state EXCEPT !.status = "pending", !.failures = 0]
    IN  /\ record
        /\ export_policy.enabled /\ "run_now" \notin waiting /\ ~InFlight("run_now")
        /\ \/ acquire("run_now") /\ export_once("run_now", s)
           \/ /\ LockHeld /\ waiting' = waiting \cup {"run_now"}
              /\ export_state' = s /\ UNCHANGED batch
        /\ UNCHANGED <<intact, export_policy, accepted, began, crossed, restarts_left, kitVars>>

(***************************************************************************)
(* The answer.  The collector may hold the batch before it says so: its    *)
(* answer, or its indexer acknowledgement, may be late or lost.            *)
(***************************************************************************)
hec_accept(p) ==
    /\ InFlight(p)
    /\ accepted' = [accepted EXCEPT ![batch[p].dest] = @ \cup batch[p].events]
    /\ UNCHANGED <<latest, intact, export_policy, export_state, waiting, batch, began,
                   crossed, restarts_left, kitVars>>

\* A batch is "delivered" on the collector's code 0 and, when the policy asks for
\* it, the acknowledgement; else it "may retry" or was "refused".
Outcomes(p) ==
    {"retry", "refused"} \cup (IF batch[p].events \subseteq accepted[batch[p].dest]
                                 THEN {"delivered"} ELSE {})

record_attempt(last, outcome) ==
    LET failures == export_state.failures + 1
    IN  export_state' =
          CASE outcome = "delivered" -> [cursor |-> last, status |-> "pending", failures |-> 0]
            [] outcome = "retry" /\ failures < MaxAttempts ->
                 [export_state EXCEPT !.status = "retrying", !.failures = failures]
            [] OTHER -> [export_state EXCEPT !.status = "failed", !.failures = failures]

end_export(p) ==
    /\ InFlight(p)
    /\ \E outcome \in Outcomes(p) : record_attempt(batch[p].last, outcome)
    /\ batch' = [batch EXCEPT ![p] = Idle]
    /\ UNCHANGED <<latest, intact, export_policy, waiting, accepted, began, crossed,
                   restarts_left, kitVars>>

\* An error no except clause names: the worker blocks the export, a run leaves it sending.
export_breaks(p) ==
    /\ InFlight(p)
    /\ batch' = [batch EXCEPT ![p] = Idle]
    /\ export_state' = IF p = "worker" THEN [export_state EXCEPT !.status = "failed"] ELSE export_state
    /\ UNCHANGED <<latest, intact, export_policy, waiting, accepted, began, crossed,
                   restarts_left, kitVars>>

recover_interrupted ==
    export_state' = IF export_state.status = "sending"
                      THEN [export_state EXCEPT !.status = "pending"] ELSE export_state

\* A crash or a stop, and the next start.  A HEC secret kept in
\* the environment may be gone.
restart_audit ==
    /\ restarts_left > 0 /\ restarts_left' = restarts_left - 1
    /\ batch' = [p \in Exporters |-> Idle] /\ waiting' = {}
    /\ recover_interrupted
    /\ \E d \in {export_policy.dest, Nowhere} : export_policy' = [export_policy EXCEPT !.dest = d]
    /\ reconciling' = Nowhere
    /\ UNCHANGED <<latest, intact, accepted, began, crossed, ops_policy, kits, deployed,
                   reconciliations>>

(***************************************************************************)
(* The operations kit: exported for the present policy and destination,    *)
(* deployed by hand, and compared with what Splunk shows.                  *)
(***************************************************************************)
\* What a kit is built of.  The index stanza has the retention of the policy and the
\* index of the destination, the macros select what the destination holds and drop its
\* duplicates if the policy says so, the searches and the dashboard are of the policy.
indexes_conf(kit) == <<"indexes.conf", kit.policy, kit.dest>>
macros(kit) == <<"macros.conf", kit.policy, kit.dest>>
saved_searches(kit) == <<"savedsearches.conf", kit.policy>>
dashboard(kit) == <<"dashboard", kit.policy>>

\* In the order of Objects.
Contents(kit) == <<indexes_conf(kit), <<macros(kit), saved_searches(kit), dashboard(kit)>>>>

operations_policy_written(p) == ops_policy' = p

update_operations_policy(p) ==
    /\ p # ops_policy /\ operations_policy_written(p) /\ record
    /\ UNCHANGED <<intact, export_policy, export_state, waiting, batch, accepted, began,
                   crossed, restarts_left, kits, deployed, reconciling, reconciliations>>

\* The present policy and destination, of which a kit is made.
Present == [policy |-> ops_policy, dest |-> export_policy.dest]

record_operations_export(of) ==
    kits' = Append(kits, [policy |-> of.policy, dest |-> of.dest, sound |-> TRUE])

export_kit ==
    /\ record
    /\ record_operations_export(Present)
    /\ UNCHANGED <<intact, export_policy, export_state, waiting, batch, accepted, began,
                   crossed, restarts_left, ops_policy, deployed, reconciling, reconciliations>>

record_operations_reconciliation(k, seen, status) ==
    reconciliations' = Append(reconciliations, [kit |-> k, seen |-> seen, status |-> status])

record_reconciliation(k, seen, status) ==
    /\ record
    /\ record_operations_reconciliation(k, seen, status)
    /\ UNCHANGED <<intact, export_policy, export_state, waiting, batch, accepted, began,
                   crossed, restarts_left, ops_policy, kits, deployed>>

\* External: a kit's archive is changed on disk; an object is installed from a kit.
alter_kit(k) ==
    /\ kits[k].sound /\ kits' = [kits EXCEPT ![k].sound = FALSE]
    /\ UNCHANGED <<exportVars, ops_policy, deployed, reconciling, reconciliations>>

deploy(i, k) ==
    /\ deployed[i] # Contents(kits[k])[i] /\ deployed' = [deployed EXCEPT ![i] = Contents(kits[k])[i]]
    /\ UNCHANGED <<exportVars, ops_policy, kits, reconciling, reconciliations>>

\* The newest kit for a policy and destination.  0: none.
newest_kit(p, d) ==
    LET K == {k \in DOMAIN kits : kits[k].policy = p /\ kits[k].dest = d}
    IN  IF K = {} THEN 0 ELSE CHOOSE k \in K : \A j \in K : j <= k

\* The archive and the files in it are checked before the first read.
ValidatedKit(k) == k # 0 /\ kits[k].sound

begin_reconcile ==
    LET k == newest_kit(ops_policy, export_policy.dest)
    IN  /\ reconciling = Nowhere /\ Len(reconciliations) < MaxReconciles
        /\ export_policy.dest # Nowhere
        /\ ValidatedKit(k)
        /\ reconciling' = [kit |-> k, seen |-> << >>]
        /\ UNCHANGED <<exportVars, ops_policy, kits, deployed, reconciliations>>

\* One read of the Splunk configuration, which may fail.
read_object ==
    /\ reconciling # Nowhere /\ Len(reconciling.seen) < Len(Objects)
    /\ \E value \in {deployed[Len(reconciling.seen) + 1], Unavailable} :
           reconciling' = [reconciling EXCEPT !.seen = Append(@, value)]
    /\ UNCHANGED <<exportVars, ops_policy, kits, deployed, reconciliations>>

\* The destination of the kit is not the Splunk the scope reaches: nothing is read.
reconcile_elsewhere ==
    LET k == newest_kit(ops_policy, export_policy.dest)
    IN  /\ Len(reconciliations) < MaxReconciles /\ ValidatedKit(k)
        /\ record_reconciliation(k, << >>, "blocked")
        /\ UNCHANGED reconciling

\* What a comparison of the objects seen with the contents of the kit comes to.
Comparison(seen, expected) ==
    CASE \A i \in DOMAIN seen : seen[i] = Unavailable -> "blocked"
      [] \E i \in DOMAIN seen : seen[i] \notin {Unavailable, expected[i]} -> "drifted"
      [] \A i \in DOMAIN seen : seen[i] = expected[i] -> "verified"
      [] OTHER -> "inconclusive"

\* Mutant: the policy to compare with is read again after the last answer.
compared_with_present(seen, kit) == Comparison(seen, Contents(Present))

compared(seen, kit) == Comparison(seen, Contents(kit))

end_reconcile ==
    /\ reconciling # Nowhere /\ Len(reconciling.seen) = Len(Objects)
    /\ record_reconciliation(reconciling.kit, reconciling.seen,
                             compared(reconciling.seen, kits[reconciling.kit]))
    /\ reconciling' = Nowhere

\* The page shows the newest reconciliation of the present kit.  0: none.
current_reconciliation ==
    LET k == newest_kit(ops_policy, export_policy.dest)
        R == {r \in DOMAIN reconciliations : k # 0 /\ reconciliations[r].kit = k}
    IN  IF R = {} THEN 0 ELSE CHOOSE r \in R : \A j \in R : j <= r

ExportNext ==
    \/ record_event \/ alter_log
    \/ \E d \in Destinations \cup {Nowhere}, enabled, backfill \in BOOLEAN :
          update_export_policy(enabled, d, backfill)
    \/ worker_waits \/ run_now \/ restart_audit
    \/ \E p \in Exporters :
          \/ begin_export(p) \/ hec_accept(p) \/ end_export(p) \/ export_breaks(p)

KitNext ==
    \/ \E p \in OpsPolicies : update_operations_policy(p)
    \/ export_kit
    \/ \E k \in DOMAIN kits : alter_kit(k) \/ \E i \in DOMAIN Objects : deploy(i, k)
    \/ begin_reconcile \/ read_object \/ reconcile_elsewhere \/ end_reconcile

AuditNext == ExportNext \/ KitNext

\* The worker runs while the program does, and a request to the collector times out.
AuditFairness ==
    \A p \in Exporters : WF_auditVars(begin_export(p)) /\ WF_auditVars(end_export(p))

AuditSpec == AuditInit /\ [][AuditNext]_auditVars /\ AuditFairness

(***************************************************************************)
(* Properties.                                                             *)
(***************************************************************************)
\* The present destination holds every event from where the cursor started for it to
\* the cursor: batches cut by size, late answers, retries, an administrator's run
\* against the worker and a restart lose none (service.py:246-366, store.py:282-329).
\* A cursor moved under a batch in flight is excluded: record_attempt overwrites it.
NothingSkipped ==
    export_policy.enabled /\ export_policy.dest # Nowhere /\ ~crossed =>
        began + 1 .. export_state.cursor \subseteq accepted[export_policy.dest]

\* When the page calls the present kit verified, every object that was read came from
\* the present policy and destination, though either may have changed while Splunk
\* was read (operations.py:211-498).
VerifiedIsPresentKit ==
    current_reconciliation # 0 /\ reconciliations[current_reconciliation].status = "verified" =>
        \A i \in DOMAIN Objects :
            reconciliations[current_reconciliation].seen[i] = Contents(Present)[i]
=============================================================================
