---------------------------- MODULE ServicesProofs ----------------------------
(***************************************************************************)
(* Theorems about the services around the core: the audit cursor passes no *)
(* event its destination lacks, a kit called verified is the present one,  *)
(* the attempts at a forecast are durable runs whose drift is reviewed.    *)
(* They hold for any number of events, destinations, kits, schedules,      *)
(* attempts, days and restarts.                                            *)
(***************************************************************************)
EXTENDS AuditExport, Forecasts, SequenceTheorems, FiniteSetTheorems, TLAPS

\* A table is a sequence of whatever rows it has.
IsTable(s) == s \in Seq({s[i] : i \in DOMAIN s})

LEMMA SeqIsTable == ASSUME NEW S, NEW s \in Seq(S) PROVE IsTable(s)
<1>1. s \in [1..Len(s) -> {s[i] : i \in DOMAIN s}] /\ Len(s) \in Nat
  BY LenProperties
<1>2. QED
  BY <1>1, SeqDef DEF IsTable

LEMMA TableIsIndexed ==
    ASSUME NEW s, IsTable(s)
    PROVE  Len(s) \in Nat /\ DOMAIN s = 1..Len(s)
BY LenProperties DEF IsTable

LEMMA TableAppended ==
    ASSUME NEW s, IsTable(s), NEW e
    PROVE  /\ IsTable(Append(s, e)) /\ Len(Append(s, e)) = Len(s) + 1
           /\ DOMAIN Append(s, e) = 1..Len(s) + 1
           /\ Append(s, e)[Len(s) + 1] = e
           /\ \A i \in DOMAIN s : Append(s, e)[i] = s[i]
<1> DEFINE S == {s[i] : i \in DOMAIN s} \cup {e}
<1>1. s \in Seq(S) /\ e \in S
  BY SeqMonotonic DEF IsTable
<1> HIDE DEF S
<1>2. Append(s, e) \in Seq(S) /\ Len(Append(s, e)) = Len(s) + 1 /\ Len(s) \in Nat
  BY <1>1, LenProperties
<1>3. IsTable(Append(s, e))
  BY <1>2, SeqIsTable
<1>4. DOMAIN Append(s, e) = 1..Len(s) + 1 /\ DOMAIN s = 1..Len(s)
  BY <1>1, <1>2, LenProperties
<1>5. Append(s, e)[Len(s) + 1] = e /\ \A i \in DOMAIN s : Append(s, e)[i] = s[i]
  BY <1>1, <1>2, <1>4
<1>6. QED
  BY <1>2, <1>3, <1>4, <1>5

LEMMA TableWritten ==
    ASSUME NEW s, IsTable(s), NEW i \in DOMAIN s, NEW e
    PROVE  LET t == [s EXCEPT ![i] = e] IN
           /\ IsTable(t) /\ Len(t) = Len(s) /\ DOMAIN t = DOMAIN s /\ t[i] = e
           /\ \A j \in DOMAIN s : j # i => t[j] = s[j]
<1> DEFINE S == {s[j] : j \in DOMAIN s} \cup {e}
<1>1. s \in Seq(S) /\ e \in S
  BY SeqMonotonic DEF IsTable
<1> HIDE DEF S
<1>2. i \in 1..Len(s) /\ Len(s) \in Nat /\ DOMAIN s = 1..Len(s)
  BY <1>1, LenProperties
<1>3. [s EXCEPT ![i] = e] \in Seq(S) /\ Len([s EXCEPT ![i] = e]) = Len(s)
  BY <1>1, <1>2, ExceptSeq
<1>4. QED
  BY <1>2, <1>3, SeqIsTable

\* A table rewritten row by row keeps its length.
LEMMA TableRewritten ==
    ASSUME NEW n \in Nat, NEW S, NEW s \in [1..n -> S]
    PROVE  IsTable(s) /\ Len(s) = n /\ DOMAIN s = 1..n
<1>1. s \in Seq(S)
  BY SeqDef
<1>2. QED
  BY <1>1, SeqIsTable, LenProperties

\* A finite nonempty set of numbers has a largest member.
LEMMA LatestExists ==
    ASSUME NEW S \in SUBSET Nat, IsFiniteSet(S), S # {}
    PROVE  \E x \in S : \A y \in S : y <= x
<1> DEFINE Above(x) == {y \in S : y > x}
           T == {Above(x) : x \in S}
<1>1. IsWellFoundedOn(StrictSubsetOrdering(S), SUBSET S)
  BY FS_StrictSubsetOrderingWellFounded, FS_FiniteSubsetsOfFinite
<1>2. T \subseteq SUBSET S /\ T # {}
  OBVIOUS
<1>3. PICK A \in T : \A B \in T : ~ (<<B, A>> \in StrictSubsetOrdering(S))
  <2> HIDE DEF T
  <2>1. QED
    BY <1>1, <1>2, WFMin
<1>4. PICK x \in S : A = Above(x)
  OBVIOUS
<1>5. ASSUME NEW y \in S, y > x PROVE FALSE
  <2>0. x \in Nat /\ y \in Nat /\ \A z \in S : z \in Nat
    OBVIOUS
  <2>1. Above(y) \subseteq Above(x)
    <3>1. SUFFICES ASSUME NEW z \in S, z > y PROVE z > x
      OBVIOUS
    <3>2. z \in Nat
      BY <2>0
    <3>3. QED
      BY <1>5, <2>0, <3>1, <3>2
  <2>2. y \in Above(x) /\ y \notin Above(y)
    BY <1>5
  <2>3. <<Above(y), Above(x)>> \in StrictSubsetOrdering(S)
    BY <2>1, <2>2 DEF StrictSubsetOrdering
  <2>4. QED
    BY <1>3, <1>4, <2>3
<1>6. QED
  BY <1>5

-----------------------------------------------------------------------------
(* The audit export.                                                       *)

States == {"disabled", "pending", "config-error", "chain-invalid", "idle", "sending",
           "retrying", "failed"}

Batches == [events : SUBSET Nat, last : Nat, dest : Destinations]

\* The columns the argument needs.
AuditTyped ==
    /\ latest \in Nat /\ began \in Nat /\ crossed \in BOOLEAN
    /\ export_policy \in [enabled : BOOLEAN, dest : Destinations \cup {Nowhere}]
    /\ export_state \in [cursor : Nat, status : States, failures : Nat]
    /\ accepted \in [Destinations -> SUBSET Nat]
    /\ batch \in [Exporters -> {Idle} \cup Batches]

\* The lock keeps exporters apart.
OneBatch == \A p, q \in Exporters : InFlight(p) /\ InFlight(q) => p = q

\* What is in flight starts where the cursor is, for the destination the cursor is of.
BatchFollows ==
    \A p \in Exporters : InFlight(p) /\ ~crossed =>
        /\ batch[p].dest = export_policy.dest
        /\ batch[p].events = export_state.cursor + 1 .. batch[p].last

AuditInv == AuditTyped /\ OneBatch /\ BatchFollows /\ NothingSkipped

\* A status and a count of failures are written beside the cursor.
LEMMA StateWritten ==
    ASSUME NEW s \in [cursor : Nat, status : States, failures : Nat],
           NEW status \in States, NEW failures \in Nat
    PROVE  /\ [s EXCEPT !.status = status] \in [cursor : Nat, status : States, failures : Nat]
           /\ [s EXCEPT !.status = status].cursor = s.cursor
           /\ [s EXCEPT !.status = status, !.failures = failures]
                \in [cursor : Nat, status : States, failures : Nat]
           /\ [s EXCEPT !.status = status, !.failures = failures].cursor = s.cursor
OBVIOUS

LEMMA AuditInvInit == AuditInit => AuditInv
<1>1. SUFFICES ASSUME AuditInit PROVE AuditInv
  OBVIOUS
<1>2. /\ batch \in [Exporters -> {Idle} \cup Batches]
      /\ \A p \in Exporters : ~InFlight(p)
  BY <1>1 DEF AuditInit, InFlight
<1>3. /\ export_policy \in [enabled : BOOLEAN, dest : Destinations \cup {Nowhere}]
      /\ export_state \in [cursor : Nat, status : States, failures : Nat]
      /\ accepted \in [Destinations -> SUBSET Nat]
      /\ latest \in Nat /\ began \in Nat /\ crossed \in BOOLEAN
  BY <1>1 DEF AuditInit, States
<1>4. NothingSkipped
  BY <1>1 DEF AuditInit, NothingSkipped
<1>5. QED
  BY <1>2, <1>3, <1>4 DEF AuditInv, AuditTyped, OneBatch, BatchFollows

\* Steps that leave alone what the cursor is about.
LEMMA CursorKept ==
    ASSUME AuditInv, latest' \in Nat,
           export_state' \in [cursor : Nat, status : States, failures : Nat],
           export_state'.cursor = export_state.cursor,
           UNCHANGED <<export_policy, batch, accepted, began, crossed>>
    PROVE  AuditInv'
BY DEF AuditInv, AuditTyped, OneBatch, BatchFollows, NothingSkipped, InFlight

\* A batch ends without moving the cursor.
LEMMA BatchDropped ==
    ASSUME AuditInv, latest' \in Nat,
           export_state' \in [cursor : Nat, status : States, failures : Nat],
           export_state'.cursor = export_state.cursor,
           batch' \in [Exporters -> {Idle} \cup Batches],
           \A p \in Exporters : batch'[p] \in {Idle, batch[p]},
           UNCHANGED <<export_policy, accepted, began, crossed>>
    PROVE  AuditInv'
BY DEF AuditInv, AuditTyped, OneBatch, BatchFollows, NothingSkipped, InFlight

\* A batch is taken from the cursor, for the present destination, when there is none.
LEMMA BatchTaken ==
    ASSUME AuditInv, NEW p \in Exporters, ~LockHeld, export_policy.dest # Nowhere,
           latest > export_state.cursor, take_batch(p, export_state.cursor),
           latest' \in Nat,
           export_state' \in [cursor : Nat, status : States, failures : Nat],
           export_state'.cursor = export_state.cursor,
           UNCHANGED <<export_policy, accepted, began, crossed>>
    PROVE  AuditInv'
<1> DEFINE c == export_state.cursor
<1>1. c \in Nat /\ latest \in Nat /\ export_policy.dest \in Destinations
  BY DEF AuditInv, AuditTyped
<1>2. PICK n \in selected(c) :
          batch' = [batch EXCEPT ![p] = [events |-> c + 1 .. n, last |-> n, dest |-> export_policy.dest]]
  BY DEF take_batch
<1>3. n \in Nat
  BY <1>1, AuditAssumption DEF selected
<1> DEFINE new == [events |-> c + 1 .. n, last |-> n, dest |-> export_policy.dest]
<1>4. new \in Batches
  BY <1>1, <1>3 DEF Batches
<1>5. /\ batch' \in [Exporters -> {Idle} \cup Batches]
      /\ batch'[p] = new
      /\ \A q \in Exporters : q # p => batch'[q] = batch[q]
  <2> HIDE DEF new
  <2>1. batch' = [batch EXCEPT ![p] = new]
    BY <1>2 DEF new
  <2>2. QED
    BY <1>4, <2>1 DEF AuditInv, AuditTyped
<1>6. \A q \in Exporters : q # p => batch'[q] = Idle
  BY <1>5 DEF LockHeld, InFlight
<1>7. OneBatch'
  BY <1>6 DEF OneBatch, InFlight
<1>8. BatchFollows'
  BY <1>5, <1>6 DEF BatchFollows, InFlight
<1>9. QED
  BY <1>5, <1>7, <1>8 DEF AuditInv, AuditTyped, NothingSkipped

\* One pass of the exporter that may have the lock.
LEMMA ExportKeeps ==
    ASSUME AuditInv, NEW p \in Exporters, ~LockHeld, latest' \in Nat,
           NEW s \in [cursor : Nat, status : States, failures : Nat],
           s.cursor = export_state.cursor, export_once(p, s),
           UNCHANGED <<export_policy, accepted, began, crossed>>
    PROVE  AuditInv'
<1>1. /\ export_state' \in [cursor : Nat, status : States, failures : Nat]
      /\ export_state'.cursor = export_state.cursor
  <2> DEFINE Written == /\ export_state' \in [cursor : Nat, status : States, failures : Nat]
                        /\ export_state'.cursor = export_state.cursor
  <2>1. ASSUME NEW status \in States, export_state' = [s EXCEPT !.status = status] PROVE Written
    BY <2>1, StateWritten
  <2>2. ASSUME export_state' = s PROVE Written
    BY <2>2
  <2>3. ASSUME export_state' = [s EXCEPT !.status = "idle", !.failures = 0] PROVE Written
    <3>1. "idle" \in States /\ 0 \in Nat
      BY DEF States
    <3>2. [s EXCEPT !.status = "idle", !.failures = 0].cursor = s.cursor
      OBVIOUS
    <3>3. QED
      BY <2>3, <3>1, <3>2, StateWritten
  <2>4. "config-error" \in States /\ "chain-invalid" \in States /\ "sending" \in States
    BY DEF States
  <2> HIDE DEF Written
  <2>5. \/ export_state' = s
        \/ export_state' = [s EXCEPT !.status = "idle", !.failures = 0]
        \/ \E status \in {"config-error", "chain-invalid", "sending"} :
              export_state' = [s EXCEPT !.status = status]
    BY DEF export_once
  <2>6. Written
    <3>1. ASSUME NEW status \in {"config-error", "chain-invalid", "sending"},
                 export_state' = [s EXCEPT !.status = status]
          PROVE  Written
      <4>1. status \in States
        BY <2>4
      <4>2. QED
        BY <2>1, <3>1, <4>1
    <3>2. QED
      BY <2>2, <2>3, <2>5, <3>1
  <2>7. QED
    BY <2>6 DEF Written
<1>2. CASE UNCHANGED batch
  BY <1>1, <1>2, CursorKept
<1>3. CASE export_policy.dest # Nowhere /\ latest > s.cursor /\ take_batch(p, s.cursor)
  BY <1>1, <1>3, BatchTaken
<1>4. QED
  BY <1>2, <1>3 DEF export_once

\* The policy moves the cursor only where nothing is owed, or marks that it crossed a batch.
LEMMA PolicyKeeps ==
    ASSUME AuditInv, NEW enabled \in BOOLEAN, NEW dest \in Destinations \cup {Nowhere},
           NEW backfill \in BOOLEAN, update_export_policy(enabled, dest, backfill)
    PROVE  AuditInv'
<1> DEFINE reset == reset_cursor(enabled, dest, backfill)
           cursor == IF reset = {} THEN export_state.cursor ELSE CHOOSE c \in reset : TRUE
<1>1. /\ latest \in Nat /\ latest' \in Nat
      /\ export_policy' = [enabled |-> enabled, dest |-> dest]
      /\ export_state' = [cursor |-> cursor, status |-> IF enabled THEN "pending" ELSE "disabled",
                          failures |-> IF enabled THEN 0 ELSE export_state.failures]
      /\ began' = IF reset = {} THEN began ELSE cursor
      /\ crossed' = IF LockHeld THEN crossed \/ reset # {} \/ dest # export_policy.dest
                                ELSE crossed /\ reset = {}
      /\ UNCHANGED <<batch, accepted>>
  BY DEF update_export_policy, policy_written, record, AuditInv, AuditTyped
<1>2. /\ reset = {} => cursor = export_state.cursor
      /\ reset # {} => cursor \in {0, latest}
      /\ enabled /\ reset = {} => export_policy.enabled /\ dest = export_policy.dest
  BY DEF reset_cursor
<1> HIDE DEF reset, cursor
<1>3. cursor \in Nat
  BY <1>1, <1>2 DEF AuditInv, AuditTyped
<1>4. AuditTyped'
  <2>1. export_state' \in [cursor : Nat, status : States, failures : Nat]
    BY <1>1, <1>3 DEF AuditInv, AuditTyped, States
  <2>2. began' \in Nat
    BY <1>1, <1>3 DEF AuditInv, AuditTyped
  <2>3. crossed' \in BOOLEAN
    BY <1>1 DEF AuditInv, AuditTyped
  <2>4. QED
    BY <1>1, <2>1, <2>2, <2>3 DEF AuditInv, AuditTyped
<1>5. OneBatch'
  BY <1>1 DEF AuditInv, OneBatch, InFlight
<1>6. ASSUME ~crossed', NEW p \in Exporters, batch'[p] # Idle
      PROVE  reset = {} /\ dest = export_policy.dest /\ ~crossed
  <2>1. LockHeld
    BY <1>1, <1>6 DEF LockHeld, InFlight
  <2>2. QED
    BY <1>1, <1>6, <2>1
<1>7. BatchFollows'
  BY <1>1, <1>2, <1>6 DEF AuditInv, BatchFollows, InFlight
<1>8. NothingSkipped'
  <2>1. CASE reset # {}
    BY <1>1, <1>3, <2>1 DEF NothingSkipped
  <2>2. CASE reset = {} /\ enabled /\ ~crossed'
    <3>1. ~crossed
      BY <1>1, <2>2
    <3>2. QED
      BY <1>1, <1>2, <2>2, <3>1 DEF AuditInv, NothingSkipped
  <2>3. CASE ~enabled \/ crossed'
    BY <1>1, <2>3 DEF NothingSkipped
  <2>4. QED
    BY <2>1, <2>2, <2>3
<1>9. QED
  BY <1>4, <1>5, <1>7, <1>8 DEF AuditInv

\* A delivered batch continues where the cursor was; any other answer leaves it there.
LEMMA AnswerKeeps ==
    ASSUME AuditInv, NEW p \in Exporters, end_export(p)
    PROVE  AuditInv'
<1>1. PICK outcome \in Outcomes(p) : record_attempt(batch[p].last, outcome)
  BY DEF end_export
<1>2. /\ batch[p] \in Batches /\ batch' = [batch EXCEPT ![p] = Idle]
      /\ UNCHANGED <<latest, export_policy, accepted, began, crossed>>
  BY DEF end_export, InFlight, AuditInv, AuditTyped
<1>3. /\ batch' \in [Exporters -> {Idle} \cup Batches]
      /\ \A q \in Exporters : batch'[q] \in {Idle, batch[q]}
  BY <1>2 DEF AuditInv, AuditTyped
<1>4. CASE outcome = "delivered"
  <2>1. export_state' = [cursor |-> batch[p].last, status |-> "pending", failures |-> 0]
    BY <1>1, <1>4 DEF record_attempt
  <2>2. batch[p].last \in Nat
    BY <1>2 DEF Batches
  <2>3. batch[p].events \subseteq accepted[batch[p].dest]
    BY <1>4 DEF Outcomes
  <2>4. \A q \in Exporters : batch'[q] = Idle
    BY <1>2 DEF AuditInv, AuditTyped, OneBatch, InFlight, end_export
  <2>5. AuditTyped'
    BY <1>2, <1>3, <2>1, <2>2 DEF AuditInv, AuditTyped, States
  <2>6. OneBatch' /\ BatchFollows'
    BY <2>4 DEF OneBatch, BatchFollows, InFlight
  <2>7. NothingSkipped'
    <3> SUFFICES ASSUME export_policy.enabled, export_policy.dest # Nowhere, ~crossed
                 PROVE  began + 1 .. batch[p].last \subseteq accepted[export_policy.dest]
      BY <1>2, <2>1 DEF NothingSkipped
    <3>1. /\ batch[p].dest = export_policy.dest
          /\ batch[p].events = export_state.cursor + 1 .. batch[p].last
      BY DEF AuditInv, BatchFollows, end_export
    <3>2. began + 1 .. export_state.cursor \subseteq accepted[export_policy.dest]
      BY DEF AuditInv, NothingSkipped
    <3>3. export_state.cursor \in Nat /\ began \in Nat
      BY DEF AuditInv, AuditTyped
    <3>4. began + 1 .. batch[p].last
            \subseteq (began + 1 .. export_state.cursor) \cup (export_state.cursor + 1 .. batch[p].last)
      BY <2>2, <3>3
    <3>5. QED
      BY <2>3, <3>1, <3>2, <3>4
  <2>8. QED
    BY <2>5, <2>6, <2>7 DEF AuditInv
<1>5. CASE outcome # "delivered"
  <2>1. /\ export_state' \in [cursor : Nat, status : States, failures : Nat]
        /\ export_state'.cursor = export_state.cursor
    <3>1. \E status \in States, failures \in Nat :
              export_state' = [export_state EXCEPT !.status = status, !.failures = failures]
      <4>1. export_state.failures + 1 \in Nat /\ "retrying" \in States /\ "failed" \in States
        BY DEF AuditInv, AuditTyped, States
      <4>2. QED
        BY <1>1, <1>5, <4>1 DEF record_attempt
    <3>2. export_state \in [cursor : Nat, status : States, failures : Nat]
      BY DEF AuditInv, AuditTyped
    <3>3. QED
      BY <3>1, <3>2, StateWritten
  <2>2. latest' \in Nat
    BY <1>2 DEF AuditInv, AuditTyped
  <2>3. QED
    BY <1>2, <1>3, <2>1, <2>2, BatchDropped
<1>6. QED
  BY <1>4, <1>5

\* The collector takes what is in flight.
LEMMA AcceptKeeps ==
    ASSUME AuditInv, NEW p \in Exporters, hec_accept(p)
    PROVE  AuditInv'
<1>1. /\ batch[p] \in Batches
      /\ accepted' = [accepted EXCEPT ![batch[p].dest] = @ \cup batch[p].events]
      /\ UNCHANGED <<latest, export_policy, export_state, batch, began, crossed>>
  BY DEF hec_accept, InFlight, AuditInv, AuditTyped
<1>2. batch[p].events \subseteq Nat /\ batch[p].dest \in Destinations
  BY <1>1 DEF Batches
<1>3. /\ accepted' \in [Destinations -> SUBSET Nat]
      /\ \A d \in Destinations : accepted[d] \subseteq accepted'[d]
  BY <1>1, <1>2 DEF AuditInv, AuditTyped
<1>4. NothingSkipped'
  BY <1>1, <1>3 DEF AuditInv, AuditTyped, NothingSkipped
<1>5. QED
  BY <1>1, <1>3, <1>4 DEF AuditInv, AuditTyped, OneBatch, BatchFollows, InFlight

\* After a restart nothing is in flight, and a destination that is gone owes nothing.
LEMMA RestartKeeps == ASSUME AuditInv, restart_audit PROVE AuditInv'
<1>1. /\ batch' = [p \in Exporters |-> Idle]
      /\ UNCHANGED <<latest, accepted, began, crossed>>
  BY DEF restart_audit
<1>2. /\ export_state' \in [cursor : Nat, status : States, failures : Nat]
      /\ export_state'.cursor = export_state.cursor
  BY DEF restart_audit, recover_interrupted, AuditInv, AuditTyped, States
<1>3. /\ export_policy' \in [enabled : BOOLEAN, dest : Destinations \cup {Nowhere}]
      /\ export_policy'.enabled = export_policy.enabled
      /\ export_policy'.dest \in {export_policy.dest, Nowhere}
  BY DEF restart_audit, AuditInv, AuditTyped
<1>4. NothingSkipped'
  BY <1>1, <1>2, <1>3 DEF AuditInv, NothingSkipped
<1>5. QED
  BY <1>1, <1>2, <1>3, <1>4 DEF AuditInv, AuditTyped, OneBatch, BatchFollows, InFlight

LEMMA AuditInvStep == AuditInv /\ [AuditNext]_auditVars => AuditInv'
<1>1. SUFFICES ASSUME AuditInv, [AuditNext]_auditVars PROVE AuditInv'
  OBVIOUS
<1>2. /\ latest \in Nat /\ export_state \in [cursor : Nat, status : States, failures : Nat]
      /\ (record => latest' \in Nat)
  BY <1>1 DEF AuditInv, AuditTyped, record
<1>3. CASE record_event \/ alter_log \/ worker_waits
  BY <1>1, <1>2, <1>3, CursorKept DEF record_event, alter_log, worker_waits
<1>4. ASSUME NEW d \in Destinations \cup {Nowhere}, NEW enabled \in BOOLEAN, NEW backfill \in BOOLEAN,
             update_export_policy(enabled, d, backfill)
      PROVE  AuditInv'
  BY <1>1, <1>4, PolicyKeeps
<1>5. CASE run_now
  <2> DEFINE s == [export_state EXCEPT !.status = "pending", !.failures = 0]
  <2>1. s \in [cursor : Nat, status : States, failures : Nat] /\ s.cursor = export_state.cursor
    BY <1>2 DEF States
  <2>2. latest' \in Nat /\ UNCHANGED <<export_policy, accepted, began, crossed>>
    BY <1>2, <1>5 DEF run_now
  <2>3. CASE acquire("run_now") /\ export_once("run_now", s)
    <3> HIDE DEF s
    <3>1. QED  BY <1>1, <2>1, <2>2, <2>3, ExportKeeps DEF acquire, Exporters
  <2>4. CASE export_state' = s /\ UNCHANGED batch
    <3> HIDE DEF s
    <3>1. QED  BY <1>1, <2>1, <2>2, <2>4, CursorKept
  <2>5. QED
    BY <1>5, <2>3, <2>4 DEF run_now
<1>6. ASSUME NEW p \in Exporters, begin_export(p) PROVE AuditInv'
  BY <1>1, <1>2, <1>6, ExportKeeps DEF begin_export, acquire
<1>7. ASSUME NEW p \in Exporters, hec_accept(p) PROVE AuditInv'
  BY <1>1, <1>7, AcceptKeeps
<1>8. ASSUME NEW p \in Exporters, end_export(p) PROVE AuditInv'
  BY <1>1, <1>8, AnswerKeeps
<1>9. ASSUME NEW p \in Exporters, export_breaks(p) PROVE AuditInv'
  <2>1. /\ batch' \in [Exporters -> {Idle} \cup Batches]
        /\ \A q \in Exporters : batch'[q] \in {Idle, batch[q]}
        /\ UNCHANGED <<latest, export_policy, accepted, began, crossed>>
    BY <1>1, <1>9 DEF export_breaks, AuditInv, AuditTyped
  <2>2. /\ export_state' \in [cursor : Nat, status : States, failures : Nat]
        /\ export_state'.cursor = export_state.cursor
    BY <1>2, <1>9 DEF export_breaks, States
  <2>3. QED
    BY <1>1, <1>2, <2>1, <2>2, BatchDropped
<1>10. CASE restart_audit
  BY <1>1, <1>10, RestartKeeps
<1>11. CASE KitNext
  <2>1. /\ latest' \in Nat
        /\ UNCHANGED <<export_state, export_policy, batch, accepted, began, crossed>>
    BY <1>2, <1>11 DEF KitNext, update_operations_policy, export_kit, alter_kit, deploy, begin_reconcile,
         read_object, reconcile_elsewhere, end_reconcile, record_reconciliation, exportVars
  <2>2. QED
    BY <1>1, <1>2, <2>1, CursorKept
<1>12. CASE UNCHANGED auditVars
  BY <1>1, <1>2, <1>12, CursorKept DEF auditVars, exportVars
<1>13. QED
  BY <1>1, <1>3, <1>4, <1>5, <1>6, <1>7, <1>8, <1>9, <1>10, <1>11, <1>12 DEF AuditNext, ExportNext

\* Whatever is cut, retried, answered late or run by hand, the present destination holds
\* every event the cursor has passed since it started for it.
THEOREM NothingIsSkipped == AuditSpec => []NothingSkipped
<1>1. AuditInv => NothingSkipped
  BY DEF AuditInv
<1>2. QED
  BY <1>1, AuditInvInit, AuditInvStep, PTL DEF AuditSpec

-----------------------------------------------------------------------------
(* The operations kit.                                                     *)

\* A kit's row; only whether its archive is sound is ever rewritten.
KitRow(row) == row \in [policy : {row.policy}, dest : {row.dest}, sound : BOOLEAN]

\* What a reconciliation in progress has read so far, of the kit it validated.
ReconcilingTyped ==
    reconciling # Nowhere =>
        /\ reconciling \in [kit : DOMAIN kits, seen : {reconciling.seen}]
        /\ IsTable(reconciling.seen)

\* What was called verified is what the kit it names contains.
VerifiedAsNamed ==
    \A r \in DOMAIN reconciliations : reconciliations[r].status = "verified" =>
        /\ reconciliations[r].kit \in DOMAIN kits
        /\ \A i \in DOMAIN Objects :
            reconciliations[r].seen[i] = Contents(kits[reconciliations[r].kit])[i]

KitInv ==
    /\ IsTable(kits) /\ IsTable(reconciliations)
    /\ \A k \in DOMAIN kits : KitRow(kits[k])
    /\ ReconcilingTyped /\ VerifiedAsNamed

\* No step takes a kit away or changes what it is made of.
KitsKept ==
    /\ IsTable(kits') /\ DOMAIN kits \subseteq DOMAIN kits'
    /\ \A k \in DOMAIN kits' : KitRow(kits'[k])
    /\ \A k \in DOMAIN kits : kits'[k].policy = kits[k].policy /\ kits'[k].dest = kits[k].dest

LEMMA KitInvKept ==
    ASSUME KitInv, KitsKept, UNCHANGED reconciliations, reconciling' = reconciling \/ reconciling' = Nowhere
    PROVE  KitInv'
<1>1. ReconcilingTyped'
  BY DEF KitInv, KitsKept, ReconcilingTyped
<1>2. VerifiedAsNamed'
  BY DEF KitInv, KitsKept, VerifiedAsNamed, Contents, indexes_conf, macros, saved_searches, dashboard
<1>3. QED
  BY <1>1, <1>2 DEF KitInv, KitsKept

\* One more kit, or one that was altered.
LEMMA KitsChanged ==
    ASSUME KitInv, \/ \E of : record_operations_export(of)
                   \/ \E k \in DOMAIN kits : kits' = [kits EXCEPT ![k].sound = FALSE]
    PROVE  KitsKept
<1>1. IsTable(kits) /\ \A k \in DOMAIN kits : KitRow(kits[k])
  BY DEF KitInv
<1>2. ASSUME NEW of, record_operations_export(of) PROVE KitsKept
  <2> DEFINE row == [policy |-> of.policy, dest |-> of.dest, sound |-> TRUE]
  <2>1. KitRow(row) /\ kits' = Append(kits, row)
    BY <1>2 DEF record_operations_export, KitRow
  <2> HIDE DEF row
  <2>2. QED
    BY <1>1, <2>1, TableAppended, TableIsIndexed DEF KitsKept
<1>3. ASSUME NEW k \in DOMAIN kits, kits' = [kits EXCEPT ![k].sound = FALSE] PROVE KitsKept
  <2> DEFINE row == [kits[k] EXCEPT !.sound = FALSE]
  <2>1. /\ KitRow(row) /\ row.policy = kits[k].policy /\ row.dest = kits[k].dest
        /\ kits' = [kits EXCEPT ![k] = row]
    BY <1>1, <1>3 DEF KitRow
  <2> HIDE DEF row
  <2>2. QED
    BY <1>1, <2>1, TableWritten DEF KitsKept
<1>4. QED
  BY <1>2, <1>3

\* A verdict on all the objects that were read.
LEMMA VerifiedOnlyWhenAllMatch ==
    ASSUME NEW seen, NEW expected, Comparison(seen, expected) = "verified"
    PROVE  \A i \in DOMAIN seen : seen[i] = expected[i]
BY DEF Comparison

\* A reconciliation is recorded.
LEMMA KitInvRecorded ==
    ASSUME KitInv, NEW k, NEW seen, NEW status, record_operations_reconciliation(k, seen, status),
           status = "verified" => k \in DOMAIN kits /\ \A i \in DOMAIN Objects : seen[i] = Contents(kits[k])[i],
           UNCHANGED kits, reconciling' = reconciling \/ reconciling' = Nowhere
    PROVE  KitInv'
<1> DEFINE row == [kit |-> k, seen |-> seen, status |-> status]
<1>1. /\ reconciliations' = Append(reconciliations, row)
      /\ row.kit = k /\ row.seen = seen /\ row.status = status /\ IsTable(reconciliations)
  BY DEF record_operations_reconciliation, KitInv
<1> HIDE DEF row
<1>2. /\ IsTable(reconciliations') /\ Len(reconciliations) \in Nat
      /\ DOMAIN reconciliations = 1..Len(reconciliations)
      /\ DOMAIN reconciliations' = 1..Len(reconciliations) + 1
      /\ reconciliations'[Len(reconciliations) + 1] = row
      /\ \A r \in DOMAIN reconciliations : reconciliations'[r] = reconciliations[r]
  BY <1>1, TableAppended, TableIsIndexed
<1>3. VerifiedAsNamed'
  <2>1. ASSUME NEW r \in DOMAIN reconciliations', reconciliations'[r].status = "verified"
        PROVE  /\ reconciliations'[r].kit \in DOMAIN kits
               /\ \A i \in DOMAIN Objects :
                    reconciliations'[r].seen[i] = Contents(kits[reconciliations'[r].kit])[i]
    <3>1. CASE r \in DOMAIN reconciliations
      BY <1>2, <2>1, <3>1 DEF KitInv, VerifiedAsNamed
    <3>2. CASE r = Len(reconciliations) + 1
      BY <1>1, <1>2, <2>1, <3>2
    <3>3. QED
      BY <1>2, <3>1, <3>2
  <2>2. QED
    BY <2>1 DEF VerifiedAsNamed, Contents, indexes_conf, macros, saved_searches, dashboard
<1>4. ReconcilingTyped'
  BY DEF KitInv, ReconcilingTyped
<1>5. QED
  BY <1>2, <1>3, <1>4 DEF KitInv

\* The reconciliation that is in progress moves on.
LEMMA KitInvReconciling ==
    ASSUME KitInv, NEW k \in DOMAIN kits, NEW seen, IsTable(seen),
           reconciling' = [kit |-> k, seen |-> seen], UNCHANGED <<kits, reconciliations>>
    PROVE  KitInv'
<1>1. ReconcilingTyped'
  BY DEF ReconcilingTyped
<1>2. QED
  BY <1>1 DEF KitInv, VerifiedAsNamed

\* The newest kit of a policy and destination is one of them.
LEMMA NewestKit ==
    ASSUME KitInv, NEW p, NEW d, newest_kit(p, d) # 0
    PROVE  newest_kit(p, d) \in DOMAIN kits /\ kits[newest_kit(p, d)].policy = p /\ kits[newest_kit(p, d)].dest = d
<1> DEFINE K == {k \in DOMAIN kits : kits[k].policy = p /\ kits[k].dest = d}
<1>1. K # {} /\ newest_kit(p, d) = CHOOSE k \in K : \A j \in K : j <= k
  BY DEF newest_kit
<1>2. Len(kits) \in Nat /\ DOMAIN kits = 1..Len(kits)
  BY TableIsIndexed DEF KitInv
<1>3. K \in SUBSET Nat /\ IsFiniteSet(K)
  <2>1. K \subseteq 1..Len(kits) /\ IsFiniteSet(1..Len(kits))
    BY <1>2, FS_Interval
  <2>2. QED
    BY <1>2, <2>1, FS_Subset
<1>4. \E k \in K : \A j \in K : j <= k
  <2> HIDE DEF K
  <2>1. QED
    BY <1>1, <1>3, LatestExists
<1>5. QED
  BY <1>1, <1>4

LEMMA KitInvInit == AuditInit => KitInv
<1>1. SUFFICES ASSUME AuditInit PROVE KitInv
  OBVIOUS
<1>2. kits = << >> /\ reconciliations = << >> /\ reconciling = Nowhere
  BY <1>1 DEF AuditInit
<1>3. IsTable(<< >>) /\ DOMAIN << >> = {}
  BY EmptySeq DEF IsTable
<1>4. QED
  BY <1>2, <1>3 DEF KitInv, ReconcilingTyped, VerifiedAsNamed

LEMMA KitInvStep == KitInv /\ [AuditNext]_auditVars => KitInv'
<1>1. SUFFICES ASSUME KitInv, [AuditNext]_auditVars PROVE KitInv'
  OBVIOUS
<1>2. ASSUME UNCHANGED <<kits, reconciliations>>, reconciling' = reconciling \/ reconciling' = Nowhere
      PROVE  KitInv'
  <2>1. KitsKept
    BY <1>1, <1>2 DEF KitInv, KitsKept
  <2>2. QED
    BY <1>1, <1>2, <2>1, KitInvKept
<1>3. CASE UNCHANGED auditVars
  BY <1>2, <1>3 DEF auditVars, kitVars
<1>4. CASE ExportNext
  <2>1. UNCHANGED <<kits, reconciliations>> /\ (reconciling' = reconciling \/ reconciling' = Nowhere)
    BY <1>4 DEF ExportNext, record_event, alter_log, update_export_policy, worker_waits, run_now, restart_audit,
       begin_export, hec_accept, end_export, export_breaks, kitVars
  <2>2. QED
    BY <1>2, <2>1
<1>5. ASSUME NEW p \in OpsPolicies, update_operations_policy(p) PROVE KitInv'
  BY <1>2, <1>5 DEF update_operations_policy
<1>6. CASE export_kit
  <2>1. KitsKept
    BY <1>1, <1>6, KitsChanged DEF export_kit
  <2>2. QED
    BY <1>1, <1>6, <2>1, KitInvKept DEF export_kit
<1>7. ASSUME NEW k \in DOMAIN kits, alter_kit(k) PROVE KitInv'
  <2>1. KitsKept
    BY <1>1, <1>7, KitsChanged DEF alter_kit
  <2>2. QED
    BY <1>1, <1>7, <2>1, KitInvKept DEF alter_kit
<1>8. ASSUME NEW i, NEW k, deploy(i, k) PROVE KitInv'
  BY <1>2, <1>8 DEF deploy
<1>9. CASE begin_reconcile
  <2>1. PICK k : /\ k = newest_kit(ops_policy, export_policy.dest) /\ k # 0
                 /\ reconciling' = [kit |-> k, seen |-> << >>] /\ UNCHANGED <<kits, reconciliations>>
    BY <1>9 DEF begin_reconcile, ValidatedKit
  <2>2. k \in DOMAIN kits /\ IsTable(<< >>)
    BY <1>1, <2>1, NewestKit, EmptySeq DEF IsTable
  <2>3. QED
    BY <1>1, <2>1, <2>2, KitInvReconciling
<1>10. CASE read_object
  <2>1. PICK value : /\ reconciling # Nowhere
                     /\ reconciling' = [reconciling EXCEPT !.seen = Append(@, value)]
                     /\ UNCHANGED <<kits, reconciliations>>
    BY <1>10 DEF read_object
  <2>2. /\ reconciling \in [kit : DOMAIN kits, seen : {reconciling.seen}] /\ IsTable(reconciling.seen)
    BY <1>1, <2>1 DEF KitInv, ReconcilingTyped
  <2>3. /\ reconciling' = [kit |-> reconciling.kit, seen |-> Append(reconciling.seen, value)]
        /\ reconciling.kit \in DOMAIN kits /\ IsTable(Append(reconciling.seen, value))
    BY <2>1, <2>2, TableAppended
  <2>4. QED
    BY <1>1, <2>1, <2>3, KitInvReconciling
<1>11. CASE reconcile_elsewhere
  BY <1>1, <1>11, KitInvRecorded DEF reconcile_elsewhere, record_reconciliation
<1>12. CASE end_reconcile
  <2> DEFINE k == reconciling.kit
             seen == reconciling.seen
             status == compared(seen, kits[k])
  <2>1. /\ reconciling # Nowhere /\ Len(seen) = Len(Objects) /\ reconciling' = Nowhere
        /\ record_operations_reconciliation(k, seen, status) /\ UNCHANGED kits
    BY <1>12 DEF end_reconcile, record_reconciliation
  <2>2. k \in DOMAIN kits /\ IsTable(seen)
    BY <1>1, <2>1 DEF KitInv, ReconcilingTyped
  <2>3. DOMAIN seen = DOMAIN Objects
    <3>1. DOMAIN seen = 1..Len(seen)
      BY <2>2, TableIsIndexed
    <3>2. Len(Objects) = 2 /\ DOMAIN Objects = 1..2
      BY DEF Objects
    <3>3. QED
      BY <2>1, <3>1, <3>2
  <2>4. status = "verified" => \A i \in DOMAIN Objects : seen[i] = Contents(kits[k])[i]
    BY <2>3, VerifiedOnlyWhenAllMatch DEF compared
  <2> HIDE DEF k, seen, status
  <2>5. QED
    BY <1>1, <2>1, <2>2, <2>4, KitInvRecorded
<1>13. QED
  BY <1>1, <1>3, <1>4, <1>5, <1>6, <1>7, <1>8, <1>9, <1>10, <1>11, <1>12 DEF AuditNext, KitNext

\* When the page calls the present kit verified, what was read in Splunk is what the
\* present policy and destination make, whatever changed while it was read.
THEOREM VerifiedKitIsPresent == AuditSpec => []VerifiedIsPresentKit
<1>1. KitInv => VerifiedIsPresentKit
  <2> DEFINE k == newest_kit(ops_policy, export_policy.dest)
             R == {r \in DOMAIN reconciliations : k # 0 /\ reconciliations[r].kit = k}
  <2>1. SUFFICES ASSUME KitInv, current_reconciliation # 0,
                        reconciliations[current_reconciliation].status = "verified",
                        NEW i \in DOMAIN Objects
                 PROVE  reconciliations[current_reconciliation].seen[i] = Contents(Present)[i]
    BY DEF VerifiedIsPresentKit
  <2>2. R # {} /\ current_reconciliation = CHOOSE r \in R : \A j \in R : j <= r
    BY <2>1 DEF current_reconciliation
  <2>3. R \in SUBSET Nat /\ IsFiniteSet(R)
    <3>1. Len(reconciliations) \in Nat /\ DOMAIN reconciliations = 1..Len(reconciliations)
      BY <2>1, TableIsIndexed DEF KitInv
    <3>2. R \subseteq 1..Len(reconciliations) /\ IsFiniteSet(1..Len(reconciliations))
      BY <3>1, FS_Interval
    <3>3. QED
      BY <3>1, <3>2, FS_Subset
  <2>4. \E r \in R : \A j \in R : j <= r
    <3> HIDE DEF R
    <3>1. QED
      BY <2>2, <2>3, LatestExists
  <2>5. current_reconciliation \in R
    BY <2>2, <2>4
  <2>6. /\ k # 0 /\ current_reconciliation \in DOMAIN reconciliations
        /\ reconciliations[current_reconciliation].kit = k
    BY <2>5
  <2>7. kits[k].policy = ops_policy /\ kits[k].dest = export_policy.dest
    BY <2>1, <2>6, NewestKit
  <2>8. reconciliations[current_reconciliation].seen[i] = Contents(kits[k])[i]
    BY <2>1, <2>6 DEF KitInv, VerifiedAsNamed
  <2>9. Contents(kits[k]) = Contents(Present)
    BY <2>7 DEF Contents, indexes_conf, macros, saved_searches, dashboard, Present
  <2>10. QED
    BY <2>8, <2>9
<1>2. QED
  BY <1>1, KitInvInit, KitInvStep, PTL DEF AuditSpec

-----------------------------------------------------------------------------
(* Forecasts.                                                              *)

AttemptStates == {"queued", "running", "complete", "error"}

\* An attempt's row; what its schedule and its connection are does not matter here.
AttemptRow(row) ==
    row \in [schedule : {row.schedule}, conn : {row.conn}, status : AttemptStates, run : Nat, day : Nat]

\* What waits for an answer is the running attempt.
AttemptsTyped ==
    /\ IsTable(attempts) /\ IsTable(forecasts)
    /\ \A a \in DOMAIN attempts : AttemptRow(attempts[a])
    /\ inference # << >> => inference[1] \in DOMAIN attempts /\ attempts[inference[1]].status = "running"
    /\ \A r \in reviews : r \in [attempt : DOMAIN attempts, run : Nat,
                                 state : {"pending", "acknowledged", "dismissed"}]

OneAttempt == \A a, b \in active_attempt : a = b

CompletedRuns == \A a \in DOMAIN attempts :
    attempts[a].status = "complete" => attempts[a].run \in DOMAIN forecasts

\* The attempts of today come last; those of the days before kept to their budgets.
DaysBudgeted ==
    /\ today \in 1..MaxDays
    /\ \E n \in 0..Len(attempts) :
        /\ n <= GlobalBudget * (today - 1)
        /\ Len(attempts) - n <= GlobalBudget
        /\ \A a \in 1..Len(attempts) : attempts[a].day = today <=> a > n
    /\ \A a \in 1..Len(attempts) : attempts[a].day <= today

ForecastInv ==
    /\ AttemptsTyped /\ OneAttempt /\ CompletedRuns /\ DriftIsReviewed /\ DaysBudgeted

\* An attempt's status is written, and its run if it completed.
LEMMA AttemptWritten ==
    ASSUME AttemptsTyped, NEW a \in DOMAIN attempts, NEW status \in AttemptStates, NEW run \in Nat,
           \/ attempts' = [attempts EXCEPT ![a].status = status] /\ run = attempts[a].run
           \/ attempts' = [attempts EXCEPT ![a].status = status, ![a].run = run]
    PROVE  /\ IsTable(attempts') /\ Len(attempts') = Len(attempts) /\ DOMAIN attempts' = DOMAIN attempts
           /\ AttemptRow(attempts'[a]) /\ attempts'[a].status = status /\ attempts'[a].run = run
           /\ attempts'[a].day = attempts[a].day
           /\ \A b \in DOMAIN attempts : b # a => attempts'[b] = attempts[b]
<1> DEFINE row == [attempts[a] EXCEPT !.status = status, !.run = run]
<1>1. AttemptRow(attempts[a]) /\ IsTable(attempts)
  BY DEF AttemptsTyped
<1>2. /\ AttemptRow(row) /\ row.status = status /\ row.run = run /\ row.day = attempts[a].day
      /\ run = attempts[a].run => row = [attempts[a] EXCEPT !.status = status]
  BY <1>1 DEF AttemptRow
<1>3. attempts' = [attempts EXCEPT ![a] = row]
  <2>1. CASE attempts' = [attempts EXCEPT ![a].status = status] /\ run = attempts[a].run
    <3>1. attempts' = [attempts EXCEPT ![a] = [attempts[a] EXCEPT !.status = status]]
      BY <2>1
    <3>2. QED
      BY <1>2, <2>1, <3>1
  <2>2. CASE attempts' = [attempts EXCEPT ![a].status = status, ![a].run = run]
    BY <1>1, <2>2, TableIsIndexed DEF AttemptRow
  <2>3. QED
    BY <2>1, <2>2
<1> HIDE DEF row
<1>4. QED
  BY <1>1, <1>2, <1>3, TableWritten

LEMMA ForecastRecorded ==
    ASSUME IsTable(forecasts), NEW q, NEW c, record_forecast(q, c)
    PROVE  /\ IsTable(forecasts') /\ Len(forecasts') = Len(forecasts) + 1 /\ Len(forecasts) \in Nat
           /\ DOMAIN forecasts = 1..Len(forecasts) /\ DOMAIN forecasts' = 1..Len(forecasts) + 1
           /\ \A run \in DOMAIN forecasts : forecasts'[run] = forecasts[run]
           /\ forecasts'[Len(forecasts')].decision # "stable" => NeedsReview(forecasts'[Len(forecasts')].decision)
<1>1. \E day \in Weekdays, ready \in PromotionGate :
        \E decision \in Decisions(reference(series_key(q, c), day), ready) :
            forecasts' = Append(forecasts,
                [series |-> q, conn |-> c, day |-> day, ready |-> ready,
                 ref |-> reference(series_key(q, c), day), decision |-> decision])
  BY DEF record_forecast
<1>2. \A ref, ready : \A decision \in Decisions(ref, ready) : decision # "stable" => NeedsReview(decision)
  BY DEF Decisions, NeedsReview
<1> HIDE DEF Decisions, NeedsReview
<1>3. \E row : forecasts' = Append(forecasts, row) /\ (row.decision # "stable" => NeedsReview(row.decision))
  BY <1>1, <1>2
<1>4. QED
  BY <1>3, TableIsIndexed, TableAppended

\* Nothing that the lane is judged by changes.
LEMMA ForecastInvAside ==
    ASSUME ForecastInv, UNCHANGED <<attempts, inference, forecasts, reviews, today>>
    PROVE  ForecastInv'
BY DEF ForecastInv, AttemptsTyped, OneAttempt, CompletedRuns, DriftIsReviewed, DaysBudgeted, active_attempt

\* One is recorded without completing an attempt.
LEMMA ForecastInvRecorded ==
    ASSUME ForecastInv, NEW q, NEW c, record_forecast(q, c), UNCHANGED <<attempts, inference, reviews, today>>
    PROVE  ForecastInv'
<1>1. /\ IsTable(forecasts') /\ DOMAIN forecasts \subseteq DOMAIN forecasts'
      /\ \A run \in DOMAIN forecasts : forecasts'[run] = forecasts[run]
  <2>1. IsTable(forecasts)
    BY DEF ForecastInv, AttemptsTyped
  <2>2. QED
    BY <2>1, ForecastRecorded
<1>2. AttemptsTyped' /\ OneAttempt' /\ CompletedRuns' /\ DaysBudgeted'
  BY <1>1 DEF ForecastInv, AttemptsTyped, OneAttempt, CompletedRuns, DaysBudgeted, active_attempt
<1>3. DriftIsReviewed'
  BY <1>1 DEF ForecastInv, CompletedRuns, DriftIsReviewed
<1>4. QED
  BY <1>2, <1>3 DEF ForecastInv

\* The decision of a reviewer leaves the review where it is.
LEMMA ForecastInvDecided ==
    ASSUME ForecastInv, NEW r \in reviews, NEW state \in {"acknowledged", "dismissed"}, decide_review(r, state)
    PROVE  ForecastInv'
<1> DEFINE new == [r EXCEPT !.state = state]
<1>1. /\ reviews' = (reviews \ {r}) \cup {new}
      /\ UNCHANGED <<attempts, inference, forecasts, today>>
  BY DEF decide_review, decided, laneVars, registryVars, outsideVars
<1>2. /\ new \in [attempt : DOMAIN attempts, run : Nat, state : {"pending", "acknowledged", "dismissed"}]
      /\ new.attempt = r.attempt /\ new.run = r.run
  BY DEF ForecastInv, AttemptsTyped
<1> HIDE DEF new
<1>3. AttemptsTyped'
  BY <1>1, <1>2 DEF ForecastInv, AttemptsTyped
<1>4. OneAttempt' /\ CompletedRuns' /\ DaysBudgeted'
  BY <1>1 DEF ForecastInv, OneAttempt, CompletedRuns, DaysBudgeted, active_attempt
<1>5. DriftIsReviewed'
  BY <1>1, <1>2 DEF ForecastInv, DriftIsReviewed
<1>6. QED
  BY <1>3, <1>4, <1>5 DEF ForecastInv

\* How many positions lie after k and up to n.
LEMMA SegmentSize ==
    ASSUME NEW n \in Nat, NEW k \in 0..n
    PROVE  Cardinality(k + 1 .. n) = n - k
<1>1. k + 1 \in Int /\ n \in Int
  OBVIOUS
<1>2. Cardinality(k + 1 .. n) = IF k + 1 > n THEN 0 ELSE n - (k + 1) + 1
  BY <1>1, FS_Interval
<1>3. QED
  BY <1>2

LEMMA ForecastInvEnqueue ==
    ASSUME ForecastInv, NEW s, enqueue(s), active_attempt = {},
           UNCHANGED <<inference, forecasts, reviews, today>>
    PROVE  /\ ForecastInv' /\ Len(attempts) + 1 <= GlobalBudget * MaxDays
           /\ IsTable(attempts) /\ Len(attempts) \in Nat /\ Len(attempts') = Len(attempts) + 1
           /\ \A a \in DOMAIN attempts : attempts'[a] = attempts[a]
           /\ DOMAIN attempts = 1..Len(attempts) /\ attempts'[Len(attempts) + 1].status = "queued"
<1>0. PICK n : n = Len(attempts) + 1
  OBVIOUS
<1> DEFINE new == [schedule |-> s, conn |-> schedules[s].conn, status |-> "queued", run |-> 0, day |-> today]
<1>1. IsTable(attempts) /\ today \in 1..MaxDays /\ today \in Nat
  BY ForecastAssumption DEF ForecastInv, AttemptsTyped, DaysBudgeted
<1>2. AttemptRow(new) /\ new.status = "queued" /\ new.day = today
  BY <1>1 DEF AttemptRow, AttemptStates
<1>3. attempts' = Append(attempts, new)
  BY DEF enqueue
<1> HIDE DEF new
<1>4. /\ Len(attempts) \in Nat /\ DOMAIN attempts = 1..Len(attempts)
      /\ IsTable(attempts') /\ Len(attempts') = n /\ DOMAIN attempts' = 1..n /\ n = Len(attempts) + 1
      /\ attempts'[n] = new /\ \A a \in DOMAIN attempts : attempts'[a] = attempts[a]
  BY <1>0, <1>1, <1>3, TableAppended, TableIsIndexed
<1>5. AttemptsTyped'
  BY <1>1, <1>2, <1>4 DEF ForecastInv, AttemptsTyped
<1>6. OneAttempt'
  BY <1>4 DEF OneAttempt, active_attempt
<1>7. CompletedRuns' /\ DriftIsReviewed'
  BY <1>2, <1>4 DEF ForecastInv, CompletedRuns, DriftIsReviewed, AttemptsTyped
<1>8. PICK k \in 0..Len(attempts) :
        /\ k <= GlobalBudget * (today - 1)
        /\ Len(attempts) - k <= GlobalBudget
        /\ \A a \in 1..Len(attempts) : attempts[a].day = today <=> a > k
  BY DEF ForecastInv, DaysBudgeted
<1>9. Len(attempts) - k < GlobalBudget
  <2>1. OfToday(DOMAIN attempts) < GlobalBudget
    BY DEF enqueue, MayEnqueue, WithinBudget
  <2>2. {a \in DOMAIN attempts : attempts[a].day = today} = k + 1 .. Len(attempts)
    BY <1>4, <1>8
  <2>3. Cardinality(k + 1 .. Len(attempts)) = Len(attempts) - k
    BY <1>4, <1>8, SegmentSize
  <2>4. QED
    BY <2>1, <2>2, <2>3 DEF OfToday
<1>10. DaysBudgeted'
  <2>1. /\ k \in 0..n /\ n - k <= GlobalBudget
        /\ \A a \in 1..n : attempts'[a].day = today <=> a > k
    BY <1>2, <1>4, <1>8, <1>9, ForecastAssumption
  <2>2. \A a \in 1..n : attempts'[a].day <= today
    BY <1>1, <1>2, <1>4 DEF ForecastInv, DaysBudgeted
  <2>3. QED
    BY <1>1, <1>4, <1>8, <2>1, <2>2 DEF DaysBudgeted
<1>11. n <= GlobalBudget * MaxDays
  <2>1. n <= GlobalBudget * (today - 1) + GlobalBudget
    <3>1. GlobalBudget * (today - 1) \in Nat
      BY <1>1, ForecastAssumption
    <3>2. QED
      BY <1>4, <1>8, <1>9, <3>1, ForecastAssumption
  <2>2. GlobalBudget * (today - 1) + GlobalBudget = GlobalBudget * today
    BY <1>1, ForecastAssumption
  <2>3. GlobalBudget * today <= GlobalBudget * MaxDays
    BY <1>1, ForecastAssumption
  <2>4. GlobalBudget * today \in Nat /\ GlobalBudget * MaxDays \in Nat
    BY <1>1, ForecastAssumption
  <2>5. QED
    BY <1>4, <2>1, <2>2, <2>3, <2>4
<1>12. QED
  BY <1>1, <1>2, <1>4, <1>5, <1>6, <1>7, <1>10, <1>11 DEF ForecastInv

\* An attempt starts, waits again or fails.
LEMMA ForecastInvMoved ==
    ASSUME ForecastInv, NEW a \in active_attempt, NEW status \in {"queued", "running", "error"},
           attempts' = [attempts EXCEPT ![a].status = status],
           inference' = << >> \/ (inference'[1] = a /\ status = "running"),
           UNCHANGED <<forecasts, reviews, today>>
    PROVE  /\ ForecastInv' /\ Len(attempts') = Len(attempts) /\ DOMAIN attempts = 1..Len(attempts)
           /\ DOMAIN attempts' = 1..Len(attempts)
           /\ \A b \in DOMAIN attempts : attempts'[b].status = IF b = a THEN status ELSE attempts[b].status
<1>1. /\ IsTable(attempts) /\ a \in DOMAIN attempts /\ AttemptsTyped /\ attempts[a].run \in Nat
      /\ attempts[a].status \in {"queued", "running"} /\ status \in AttemptStates
  BY DEF ForecastInv, AttemptsTyped, active_attempt, AttemptRow, AttemptStates
<1>2. /\ IsTable(attempts') /\ Len(attempts') = Len(attempts) /\ DOMAIN attempts' = DOMAIN attempts
      /\ AttemptRow(attempts'[a]) /\ attempts'[a].status = status /\ attempts'[a].run = attempts[a].run
      /\ attempts'[a].day = attempts[a].day
      /\ \A b \in DOMAIN attempts : b # a => attempts'[b] = attempts[b]
  BY <1>1, AttemptWritten
<1>3. AttemptsTyped'
  BY <1>1, <1>2 DEF AttemptsTyped
<1>4. OneAttempt' /\ CompletedRuns'
  BY <1>1, <1>2 DEF ForecastInv, OneAttempt, active_attempt, CompletedRuns
<1>5. DriftIsReviewed'
  <2>1. \A r \in reviews : r.attempt \in DOMAIN attempts /\ r.attempt # a
    BY <1>1 DEF ForecastInv, DriftIsReviewed, AttemptsTyped
  <2>2. QED
    BY <1>2, <2>1 DEF ForecastInv, DriftIsReviewed
<1>6. DaysBudgeted'
  <2>1. \A b \in 1..Len(attempts) : attempts'[b].day = attempts[b].day
    BY <1>1, <1>2, TableIsIndexed
  <2>2. QED
    BY <1>2, <2>1 DEF ForecastInv, DaysBudgeted
<1>7. QED
  BY <1>1, <1>2, <1>3, <1>4, <1>5, <1>6, TableIsIndexed DEF ForecastInv

\* The run is retained and the attempt names it; what is not stable is queued for review.
LEMMA ForecastInvFinished ==
    ASSUME ForecastInv, finish_forecast
    PROVE  /\ ForecastInv' /\ Len(attempts') = Len(attempts) /\ DOMAIN attempts = 1..Len(attempts)
           /\ DOMAIN attempts' = 1..Len(attempts)
           /\ inference[1] \in active_attempt
           /\ \A b \in DOMAIN attempts : attempts'[b].status =
                IF b = inference[1] THEN "complete" ELSE attempts[b].status
<1>0. PICK a : a = inference[1]
  OBVIOUS
<1>1. PICK run : run = Len(forecasts')
  OBVIOUS
<1>2. /\ record_forecast(inference[2], attempts[a].conn) /\ complete(a, run)
      /\ inference # << >> /\ inference' = << >> /\ today' = today
  BY <1>0, <1>1 DEF finish_forecast, outsideVars
<1>3. /\ IsTable(attempts) /\ IsTable(forecasts) /\ a \in DOMAIN attempts /\ AttemptsTyped
      /\ attempts[a].status = "running"
  BY <1>0, <1>2 DEF ForecastInv, AttemptsTyped
<1>4. /\ IsTable(forecasts') /\ run \in Nat /\ run \in DOMAIN forecasts'
      /\ DOMAIN forecasts \subseteq DOMAIN forecasts'
      /\ \A f \in DOMAIN forecasts : forecasts'[f] = forecasts[f]
      /\ forecasts'[run].decision # "stable" => NeedsReview(forecasts'[run].decision)
  BY <1>1, <1>2, <1>3, ForecastRecorded
<1>5. /\ IsTable(attempts') /\ Len(attempts') = Len(attempts) /\ DOMAIN attempts' = DOMAIN attempts
      /\ AttemptRow(attempts'[a]) /\ attempts'[a].status = "complete" /\ attempts'[a].run = run
      /\ attempts'[a].day = attempts[a].day
      /\ \A b \in DOMAIN attempts : b # a => attempts'[b] = attempts[b]
  <2>1. attempts' = [attempts EXCEPT ![a].status = "complete", ![a].run = run] /\ "complete" \in AttemptStates
    BY <1>2 DEF complete, AttemptStates
  <2>2. QED
    BY <1>3, <1>4, <2>1, AttemptWritten
<1> DEFINE review == [attempt |-> a, run |-> run, state |-> "pending"]
<1>6. reviews' = IF NeedsReview(forecasts'[run].decision) THEN reviews \cup {review} ELSE reviews
  BY <1>2 DEF complete
<1>7. /\ review \in [attempt : DOMAIN attempts, run : Nat, state : {"pending", "acknowledged", "dismissed"}]
      /\ review.attempt = a /\ review.run = run
  BY <1>3, <1>4
<1> HIDE DEF review, NeedsReview
<1>8. AttemptsTyped'
  BY <1>2, <1>3, <1>4, <1>5, <1>6, <1>7 DEF AttemptsTyped
<1>9. OneAttempt' /\ CompletedRuns'
  BY <1>3, <1>4, <1>5 DEF ForecastInv, OneAttempt, active_attempt, CompletedRuns
<1>10. DriftIsReviewed'
  <2>1. \A r \in reviews : r.attempt \in DOMAIN attempts /\ r.attempt # a
    BY <1>3 DEF ForecastInv, DriftIsReviewed, AttemptsTyped
  <2>2. ASSUME NEW b \in DOMAIN attempts', attempts'[b].status = "complete",
               forecasts'[attempts'[b].run].decision # "stable"
        PROVE  \E r \in reviews' : r.attempt = b
    <3>1. CASE b = a
      BY <1>4, <1>5, <1>6, <1>7, <2>2, <3>1
    <3>2. CASE b # a
      <4>1. attempts'[b] = attempts[b] /\ attempts[b].run \in DOMAIN forecasts
        BY <1>5, <2>2, <3>2 DEF ForecastInv, CompletedRuns
      <4>2. QED
        BY <1>4, <1>5, <1>6, <2>2, <4>1 DEF ForecastInv, DriftIsReviewed
    <3>3. QED
      BY <3>1, <3>2
  <2>3. ASSUME NEW r \in reviews'
        PROVE  attempts'[r.attempt].status = "complete" /\ attempts'[r.attempt].run = r.run
    <3>1. CASE r \in reviews
      BY <1>5, <2>1, <3>1 DEF ForecastInv, DriftIsReviewed
    <3>2. CASE r = review
      BY <1>5, <1>7, <3>2
    <3>3. QED
      BY <1>6, <2>3, <3>1, <3>2
  <2>4. QED
    BY <2>2, <2>3 DEF DriftIsReviewed
<1>11. DaysBudgeted'
  <2>1. \A b \in 1..Len(attempts) : attempts'[b].day = attempts[b].day
    BY <1>3, <1>5, TableIsIndexed
  <2>2. QED
    BY <1>2, <1>5, <2>1 DEF ForecastInv, DaysBudgeted
<1>12. QED
  BY <1>0, <1>3, <1>5, <1>8, <1>9, <1>10, <1>11, TableIsIndexed DEF ForecastInv, active_attempt

\* What a crash interrupted waits again, whether its run was retained or not.
LEMMA ForecastInvRestarted ==
    ASSUME ForecastInv, restart_forecasts
    PROVE  /\ ForecastInv' /\ Len(attempts') = Len(attempts) /\ DOMAIN attempts = 1..Len(attempts)
           /\ DOMAIN attempts' = 1..Len(attempts)
           /\ \A b \in DOMAIN attempts : attempts'[b].status =
                IF attempts[b].status = "running" THEN "queued" ELSE attempts[b].status
<1>1. /\ recover_forecasts /\ inference' = << >> /\ UNCHANGED <<reviews, today>>
      /\ forecasts' = forecasts \/ \E q, c : record_forecast(q, c)
  BY DEF restart_forecasts
<1>2. /\ IsTable(attempts) /\ IsTable(forecasts) /\ AttemptsTyped
      /\ Len(attempts) \in Nat /\ DOMAIN attempts = 1..Len(attempts)
  BY TableIsIndexed DEF ForecastInv, AttemptsTyped
<1>3. /\ IsTable(forecasts') /\ DOMAIN forecasts \subseteq DOMAIN forecasts'
      /\ \A run \in DOMAIN forecasts : forecasts'[run] = forecasts[run]
  BY <1>1, <1>2, ForecastRecorded
<1>4. \A a \in DOMAIN attempts :
        LET row == IF attempts[a].status = "running" THEN [attempts[a] EXCEPT !.status = "queued"]
                   ELSE attempts[a]
        IN  /\ AttemptRow(row) /\ row.run = attempts[a].run /\ row.day = attempts[a].day
            /\ row.status = IF attempts[a].status = "running" THEN "queued" ELSE attempts[a].status
  <2>1. ASSUME NEW row, AttemptRow(row)
        PROVE  /\ AttemptRow([row EXCEPT !.status = "queued"])
               /\ [row EXCEPT !.status = "queued"].run = row.run
               /\ [row EXCEPT !.status = "queued"].day = row.day
               /\ [row EXCEPT !.status = "queued"].status = "queued"
    BY <2>1 DEF AttemptRow, AttemptStates
  <2>2. QED
    BY <1>2, <2>1 DEF AttemptsTyped
<1>5. /\ DOMAIN attempts' = 1..Len(attempts)
      /\ \A a \in DOMAIN attempts :
            /\ AttemptRow(attempts'[a]) /\ attempts'[a].run = attempts[a].run
            /\ attempts'[a].day = attempts[a].day
            /\ attempts'[a].status = IF attempts[a].status = "running" THEN "queued" ELSE attempts[a].status
  BY <1>1, <1>2, <1>4 DEF recover_forecasts
<1>6. IsTable(attempts') /\ Len(attempts') = Len(attempts)
  <2> DEFINE S == {attempts'[a] : a \in DOMAIN attempts}
  <2>1. attempts' \in [1..Len(attempts) -> S]
    BY <1>1, <1>2 DEF recover_forecasts
  <2> HIDE DEF S
  <2>2. QED
    BY <1>2, <2>1, TableRewritten
<1>7. AttemptsTyped'
  BY <1>1, <1>2, <1>3, <1>5, <1>6 DEF AttemptsTyped
<1>8. OneAttempt' /\ CompletedRuns'
  BY <1>2, <1>3, <1>5 DEF ForecastInv, OneAttempt, active_attempt, CompletedRuns
<1>9. DriftIsReviewed'
  <2>1. \A r \in reviews : r.attempt \in DOMAIN attempts
    BY <1>2 DEF AttemptsTyped
  <2>2. QED
    BY <1>1, <1>2, <1>3, <1>5, <2>1 DEF ForecastInv, DriftIsReviewed, CompletedRuns
<1>10. DaysBudgeted'
  BY <1>1, <1>2, <1>5, <1>6 DEF ForecastInv, DaysBudgeted
<1>11. QED
  BY <1>2, <1>5, <1>6, <1>7, <1>8, <1>9, <1>10 DEF ForecastInv

\* Another day begins with its budget unspent.
LEMMA ForecastInvDay ==
    ASSUME ForecastInv, change_outside
    PROVE  ForecastInv' /\ attempts' = attempts
<1>1. /\ UNCHANGED <<attempts, inference, forecasts, reviews>>
      /\ today' = today \/ (today < MaxDays /\ today' = today + 1)
  BY DEF change_outside, laneVars, registryVars
<1>2. CASE today' = today
  BY <1>1, <1>2, ForecastInvAside
<1>3. CASE today < MaxDays /\ today' = today + 1
  <2>1. AttemptsTyped' /\ OneAttempt' /\ CompletedRuns' /\ DriftIsReviewed'
    BY <1>1 DEF ForecastInv, AttemptsTyped, OneAttempt, CompletedRuns, DriftIsReviewed, active_attempt
  <2>2. DaysBudgeted'
    <3>1. PICK n \in 0..Len(attempts) :
            n <= GlobalBudget * (today - 1) /\ Len(attempts) - n <= GlobalBudget
      BY DEF ForecastInv, DaysBudgeted
    <3>2. Len(attempts) \in Nat /\ today \in Nat /\ GlobalBudget \in Nat
      BY ForecastAssumption, TableIsIndexed DEF ForecastInv, AttemptsTyped, DaysBudgeted
    <3>3. GlobalBudget * (today - 1) + GlobalBudget = GlobalBudget * (today' - 1)
      BY <1>3, <3>2
    <3>4. GlobalBudget * (today - 1) \in Nat /\ GlobalBudget * (today' - 1) \in Nat
      <4>1. today - 1 \in Nat
        BY ForecastAssumption DEF ForecastInv, DaysBudgeted
      <4>2. QED
        BY <1>3, <3>2, <4>1
    <3>5. Len(attempts) <= GlobalBudget * (today' - 1)
      BY <3>1, <3>2, <3>3, <3>4
    <3>6. \A a \in 1..Len(attempts) : attempts[a].day <= today /\ attempts[a].day \in Nat
      BY <3>2, TableIsIndexed DEF ForecastInv, AttemptsTyped, DaysBudgeted, AttemptRow
    <3>7. today' \in 1..MaxDays
      BY <1>3, <3>2, ForecastAssumption DEF ForecastInv, DaysBudgeted
    <3>8. \A a \in 1..Len(attempts) :
            attempts[a].day <= today' /\ (attempts[a].day = today' <=> a > Len(attempts))
      BY <1>3, <3>2, <3>6
    <3>9. Len(attempts) \in 0..Len(attempts) /\ Len(attempts) - Len(attempts) <= GlobalBudget
      BY <3>2
    <3>10. QED
      BY <1>1, <3>5, <3>7, <3>8, <3>9 DEF DaysBudgeted
  <2>3. QED
    BY <1>1, <2>1, <2>2 DEF ForecastInv
<1>4. QED
  BY <1>1, <1>2, <1>3

-----------------------------------------------------------------------------
(* The attempts are durable runs.                                          *)

Attempted == 1..GlobalBudget * MaxDays

AttemptPhase(a) ==
    IF a > Len(attempts) THEN "none" ELSE IF a \in active_attempt THEN attempts[a].status ELSE "ended"

\* The budgets of the days bound the table.
LEMMA TableBounded ==
    ASSUME ForecastInv
    PROVE  Len(attempts) \in Nat /\ Len(attempts) <= GlobalBudget * MaxDays
<1>1. PICK n \in 0..Len(attempts) :
        n <= GlobalBudget * (today - 1) /\ Len(attempts) - n <= GlobalBudget
  BY DEF ForecastInv, DaysBudgeted
<1>2. Len(attempts) \in Nat /\ today \in Nat /\ today - 1 \in Nat /\ GlobalBudget \in Nat
  BY ForecastAssumption, TableIsIndexed DEF ForecastInv, AttemptsTyped, DaysBudgeted
<1>3. GlobalBudget * (today - 1) + GlobalBudget = GlobalBudget * today
  BY <1>2
<1>4. GlobalBudget * today <= GlobalBudget * MaxDays
  <2>1. today <= MaxDays /\ MaxDays \in Nat
    BY ForecastAssumption DEF ForecastInv, DaysBudgeted
  <2>2. QED
    BY <1>2, <2>1
<1>5. GlobalBudget * (today - 1) \in Nat /\ GlobalBudget * today \in Nat /\ GlobalBudget * MaxDays \in Nat
  BY <1>2, ForecastAssumption
<1>6. QED
  BY <1>1, <1>2, <1>3, <1>4, <1>5

\* A step that writes one attempt's status changes one phase.
LEMMA PhaseMoves ==
    ASSUME ForecastInv, NEW a \in active_attempt, NEW status \in {"queued", "running", "complete", "error"},
           Len(attempts') = Len(attempts), DOMAIN attempts' = 1..Len(attempts),
           \A b \in DOMAIN attempts : attempts'[b].status = IF b = a THEN status ELSE attempts[b].status
    PROVE  /\ a \in Attempted
           /\ ForecastPromise!Moves(a, attempts[a].status,
                IF status \in {"queued", "running"} THEN status ELSE "ended")
<1>1. /\ Len(attempts) \in Nat /\ DOMAIN attempts = 1..Len(attempts) /\ a \in DOMAIN attempts
      /\ attempts[a].status \in {"queued", "running"} /\ a \in Attempted
  BY TableIsIndexed, TableBounded, ForecastAssumption DEF ForecastInv, AttemptsTyped, active_attempt, Attempted
<1>2. \A b \in Attempted : AttemptPhase(b)' =
        IF b = a THEN (IF status \in {"queued", "running"} THEN status ELSE "ended") ELSE AttemptPhase(b)
  BY <1>1 DEF AttemptPhase, active_attempt, Attempted
<1>3. AttemptPhase(a) = attempts[a].status
  BY <1>1 DEF AttemptPhase
<1>4. QED
  BY <1>1, <1>2, <1>3 DEF ForecastPromise!Moves, AttemptPhase, Attempted

LEMMA EnqueueImplements ==
    ASSUME ForecastInv, NEW s, enqueue(s), UNCHANGED <<inference, forecasts, reviews, today>>
    PROVE  ForecastInv' /\ ForecastPromise!Next
<1>1. active_attempt = {}
  BY DEF enqueue, MayEnqueue
<1>2. /\ ForecastInv' /\ Len(attempts) + 1 <= GlobalBudget * MaxDays
      /\ IsTable(attempts) /\ Len(attempts) \in Nat /\ Len(attempts') = Len(attempts) + 1
      /\ \A a \in DOMAIN attempts : attempts'[a] = attempts[a]
      /\ DOMAIN attempts = 1..Len(attempts) /\ attempts'[Len(attempts) + 1].status = "queued"
  BY <1>1, ForecastInvEnqueue
<1>3. PICK n : n = Len(attempts) + 1
  OBVIOUS
<1>4. n \in Attempted /\ DOMAIN attempts' = 1..n
  BY <1>2, <1>3, TableIsIndexed, ForecastAssumption DEF Attempted, ForecastInv, AttemptsTyped
<1>5. \A b \in Attempted : AttemptPhase(b)' = IF b = n THEN "queued" ELSE AttemptPhase(b)
  BY <1>2, <1>3, <1>4 DEF AttemptPhase, active_attempt, Attempted
<1>6. AttemptPhase(n) = "none"
  BY <1>2, <1>3 DEF AttemptPhase
<1>7. ForecastPromise!Pending = {}
  BY <1>1 DEF ForecastPromise!Pending
<1>8. ForecastPromise!Moves(n, "none", "queued")
  BY <1>4, <1>5, <1>6 DEF ForecastPromise!Moves, AttemptPhase, Attempted
<1>9. QED
  BY <1>2, <1>4, <1>7, <1>8 DEF ForecastPromise!Next, ForecastPromise!Submit, Attempted

LEMMA ExecuteImplements ==
    ASSUME ForecastInv, NEW a \in DOMAIN attempts, execute(a)
    PROVE  ForecastInv' /\ ForecastPromise!Next
<1>1. a \in active_attempt /\ attempts[a].status = "queued" /\ inference = << >>
      /\ UNCHANGED <<forecasts, reviews, today>>
  BY DEF execute, active_attempt, registryVars, outsideVars
<1>2. ASSUME NEW status \in {"running", "error"}, attempts' = [attempts EXCEPT ![a].status = status],
             inference' = << >> \/ (inference'[1] = a /\ status = "running")
      PROVE  ForecastInv' /\ ForecastPromise!Next
  <2>1. /\ ForecastInv' /\ Len(attempts') = Len(attempts) /\ DOMAIN attempts' = 1..Len(attempts)
        /\ \A b \in DOMAIN attempts : attempts'[b].status = IF b = a THEN status ELSE attempts[b].status
    BY <1>1, <1>2, ForecastInvMoved
  <2>2. /\ a \in Attempted
        /\ ForecastPromise!Moves(a, "queued", IF status \in {"queued", "running"} THEN status ELSE "ended")
    BY <1>1, <2>1, PhaseMoves
  <2>3. QED
    BY <1>2, <2>1, <2>2 DEF ForecastPromise!Next, ForecastPromise!Start, ForecastPromise!Finish, Attempted
<1>3. CASE begin_inference(a) /\ mark_running(a)
  BY <1>2, <1>3 DEF begin_inference, mark_running
<1>4. CASE fail(a) /\ inference' = inference
  BY <1>1, <1>2, <1>4 DEF fail
<1>5. QED
  BY <1>3, <1>4 DEF execute

LEMMA EndImplements ==
    ASSUME ForecastInv, forecast_fails \/ finish_forecast
    PROVE  ForecastInv' /\ ForecastPromise!Next
<1>1. PICK a : a = inference[1]
  OBVIOUS
<1>2. a \in active_attempt /\ attempts[a].status = "running"
  BY <1>1 DEF forecast_fails, finish_forecast, ForecastInv, AttemptsTyped, active_attempt
<1>3. \E status \in {"complete", "error"} :
        /\ ForecastInv' /\ Len(attempts') = Len(attempts) /\ DOMAIN attempts' = 1..Len(attempts)
        /\ \A b \in DOMAIN attempts : attempts'[b].status = IF b = a THEN status ELSE attempts[b].status
  <2>1. CASE forecast_fails
    <3>1. /\ attempts' = [attempts EXCEPT ![a].status = "error"] /\ inference' = << >>
          /\ UNCHANGED <<forecasts, reviews, today>>
      BY <1>1, <2>1 DEF forecast_fails, fail, registryVars, outsideVars
    <3>2. QED
      BY <1>2, <3>1, ForecastInvMoved
  <2>2. CASE finish_forecast
    BY <1>1, <2>2, ForecastInvFinished
  <2>3. QED
    BY <2>1, <2>2
<1>4. a \in Attempted /\ ForecastPromise!Moves(a, "running", "ended")
  BY <1>2, <1>3, PhaseMoves
<1>5. QED
  BY <1>3, <1>4 DEF ForecastPromise!Next, ForecastPromise!Finish, Attempted

LEMMA RestartImplements ==
    ASSUME ForecastInv, restart_forecasts
    PROVE  ForecastInv' /\ (ForecastPromise!Next \/ UNCHANGED ForecastPromise!vars)
<1>1. /\ ForecastInv' /\ Len(attempts') = Len(attempts) /\ DOMAIN attempts = 1..Len(attempts)
      /\ DOMAIN attempts' = 1..Len(attempts)
      /\ \A b \in DOMAIN attempts : attempts'[b].status =
            IF attempts[b].status = "running" THEN "queued" ELSE attempts[b].status
  BY ForecastInvRestarted
<1>2. CASE \E a \in DOMAIN attempts : attempts[a].status = "running"
  <2>1. PICK a \in active_attempt : attempts[a].status = "running"
    BY <1>2 DEF active_attempt
  <2>2. \A b \in DOMAIN attempts : attempts'[b].status = IF b = a THEN "queued" ELSE attempts[b].status
    BY <1>1, <2>1 DEF ForecastInv, OneAttempt, active_attempt
  <2>3. a \in Attempted /\ ForecastPromise!Moves(a, "running", "queued")
    BY <1>1, <2>1, <2>2, PhaseMoves
  <2>4. QED
    BY <1>1, <2>3 DEF ForecastPromise!Next, ForecastPromise!Retry, Attempted
<1>3. CASE \A a \in DOMAIN attempts : attempts[a].status # "running"
  <2>1. Len(attempts) \in Nat
    BY TableBounded
  <2>2. \A b \in Attempted : AttemptPhase(b)' = AttemptPhase(b)
    BY <1>1, <1>3, <2>1 DEF AttemptPhase, active_attempt, Attempted
  <2>3. QED
    BY <1>1, <2>2 DEF ForecastPromise!vars, AttemptPhase, Attempted
<1>4. QED
  BY <1>2, <1>3

LEMMA ForecastStep ==
    ASSUME ForecastInv, [LaneNext \/ RegistryNext]_forecastVars
    PROVE  ForecastInv' /\ (ForecastPromise!Next \/ UNCHANGED ForecastPromise!vars)
<1>1. ASSUME attempts' = attempts PROVE UNCHANGED ForecastPromise!vars
  BY <1>1 DEF ForecastPromise!vars, active_attempt
<1>2. CASE UNCHANGED forecastVars
  BY <1>1, <1>2, ForecastInvAside DEF forecastVars
<1>3. CASE change_outside
  BY <1>1, <1>3, ForecastInvDay
<1>4. CASE enqueue_due
  <2>1. CASE enqueue(Head(due))
    BY <1>4, <2>1, EnqueueImplements DEF enqueue_due, registryVars, outsideVars
  <2>2. CASE defer_due(Head(due))
    BY <1>1, <1>4, <2>2, ForecastInvAside DEF enqueue_due, defer_due, registryVars, outsideVars
  <2>3. QED
    BY <1>4, <2>1, <2>2 DEF enqueue_due
<1>5. CASE forecast_fails \/ finish_forecast
  BY <1>5, EndImplements
<1>6. CASE restart_forecasts
  BY <1>6, RestartImplements
<1>7. ASSUME NEW a \in DOMAIN attempts, execute(a)
      PROVE  ForecastInv' /\ ForecastPromise!Next
  BY <1>7, ExecuteImplements
<1>8. ASSUME NEW r \in reviews, NEW state \in {"acknowledged", "dismissed"}, decide_review(r, state)
      PROVE  ForecastInv' /\ UNCHANGED ForecastPromise!vars
  BY <1>1, <1>8, ForecastInvDecided DEF decide_review, laneVars
<1>9. ASSUME NEW s \in Schedules, run_schedule_now(s)
      PROVE  ForecastInv' /\ ForecastPromise!Next
  BY <1>9, EnqueueImplements DEF run_schedule_now, forecast_now, registryVars, outsideVars
<1>10. ASSUME NEW s \in Schedules,
              \/ elapse(s) \/ archive_schedule(s)
              \/ \E c \in Conns : rebind_schedule(s, c)
              \/ \E q \in Series, enabled \in BOOLEAN :
                    \/ \E c \in Conns : create_schedule(s, c, q, enabled)
                    \/ \E again \in BOOLEAN : update_schedule(s, q, enabled, again)
       PROVE  ForecastInv' /\ UNCHANGED ForecastPromise!vars
  <2>1. UNCHANGED <<attempts, inference, forecasts, reviews, today>>
    BY <1>10 DEF elapse, archive_schedule, rebind_schedule, create_schedule, update_schedule,
       registryVars, outsideVars
  <2>2. QED
    BY <1>1, <2>1, ForecastInvAside
<1>11. CASE RegistryNext
  <2>1. ASSUME NEW q, NEW c, run_forecast(q, c) PROVE ForecastInv' /\ UNCHANGED ForecastPromise!vars
    BY <1>1, <2>1, ForecastInvRecorded DEF run_forecast, laneVars, outsideVars
  <2>2. ASSUME NEW run, NEW slot, accept_baseline(run, slot)
        PROVE  ForecastInv' /\ UNCHANGED ForecastPromise!vars
    BY <1>1, <2>2, ForecastInvAside DEF accept_baseline, laneVars, outsideVars
  <2>3. ASSUME NEW run, NEW direction, create_alert_candidate(run, direction)
        PROVE  ForecastInv' /\ UNCHANGED ForecastPromise!vars
    BY <1>1, <2>3, ForecastInvAside DEF create_alert_candidate, laneVars, outsideVars
  <2>4. QED
    BY <1>11, <2>1, <2>2, <2>3 DEF RegistryNext
<1>12. QED
  BY <1>2, <1>3, <1>4, <1>5, <1>6, <1>7, <1>8, <1>9, <1>10, <1>11 DEF LaneNext

LEMMA ForecastStart == ForecastsInit => ForecastInv /\ ForecastPromise!Init
<1>1. SUFFICES ASSUME ForecastsInit PROVE ForecastInv /\ ForecastPromise!Init
  OBVIOUS
<1>2. attempts = << >> /\ forecasts = << >> /\ inference = << >> /\ reviews = {} /\ today = 1
  BY <1>1 DEF ForecastsInit
<1>3. IsTable(<< >>) /\ Len(<< >>) = 0 /\ DOMAIN << >> = {}
  BY EmptySeq DEF IsTable
<1>4. AttemptsTyped /\ OneAttempt /\ CompletedRuns /\ DriftIsReviewed
  BY <1>2, <1>3 DEF AttemptsTyped, OneAttempt, active_attempt, CompletedRuns, DriftIsReviewed
<1>5. DaysBudgeted
  BY <1>2, <1>3, ForecastAssumption DEF DaysBudgeted
<1>6. ForecastPromise!Init
  BY <1>2, <1>3, ForecastAssumption DEF ForecastPromise!Init
<1>7. QED
  BY <1>4, <1>5, <1>6 DEF ForecastInv

-----------------------------------------------------------------------------
\* Every attempt that completed with anything but a stable comparison has the review of
\* the run it names, and no other attempt has one, for every interleaving of the lane,
\* the clock, operators and crashes (finish_forecast, restart_forecasts).
THEOREM DriftReviewed == ForecastSpec => []DriftIsReviewed
<1>1. ForecastInv => DriftIsReviewed
  BY DEF ForecastInv
<1>2. ForecastInv /\ [LaneNext \/ RegistryNext]_forecastVars => ForecastInv'
  BY ForecastStep
<1>3. ForecastsInit => ForecastInv
  BY ForecastStart
<1>4. QED
  BY <1>1, <1>2, <1>3, PTL DEF ForecastSpec

\* The attempts move only as DurableRuns allows: one at a time, an interrupted one is
\* tried again, one that ended stays so, and the daily budgets bound how many there are.
THEOREM ForecastsImplementDurableRuns == ForecastSpec => ForecastsAreDurable
<1>1. ForecastInv /\ [LaneNext \/ RegistryNext]_forecastVars
        => ForecastInv' /\ [ForecastPromise!Next]_(ForecastPromise!vars)
  BY ForecastStep
<1>2. ForecastsInit => ForecastInv /\ ForecastPromise!Init
  BY ForecastStart
<1>3. QED
  BY <1>1, <1>2, PTL DEF ForecastSpec, ForecastsAreDurable, ForecastPromise!Spec
=============================================================================
