------------------------ MODULE WorkloadAdmissionProofs ------------------------
(* Proofs about WorkloadAdmission, for every set of callers, every policy and *)
(* both behaviours of asyncio.wait_for.                                       *)
EXTENDS WorkloadAdmission, FiniteSetTheorems, SequenceTheorems, WellFoundedInduction, TLAPS

USE DEF Places, Statuses

\* Subtraction clamped at zero stays a natural number; on integers it stays one.
LEMMA MonusType ==
    ASSUME NEW a \in Int, NEW b \in Nat
    PROVE  Monus(a, b) \in Nat
  BY DEF Monus

\* The units of a call are a natural number.
LEMMA QueryUnitType ==
    ASSUME NEW c \in Callers
    PROVE  QueryUnit(c) \in Nat /\ Cost[c] \in Nat
  BY CallersAssumption DEF QueryUnit

\* create_event keeps a sequence of callers.
LEMMA AppendedType ==
    ASSUME history \in Seq(Callers), NEW c \in Callers
    PROVE  Appended(c) \in Seq(Callers)
  <1>1. Append(history, c) \in Seq(Callers) /\ Append(history, c) # <<>>
    BY AppendProperties
  <1>2. Tail(Append(history, c)) \in Seq(Callers)
    BY <1>1, HeadTailProperties
  <1> QED BY <1>1, <1>2 DEF Appended

\* What every way out of the admission loop does to the typed state.
LEMMA LeaveType ==
    ASSUME TypeOK, NEW c \in Callers, NEW status \in Statuses, NEW qc \in Int, NEW qq \in Int,
           Leave(c, status, qc, qq)
    PROVE  /\ queued_calls' \in Int /\ queued_queries' \in Int
           /\ event' \in [Callers -> Statuses] /\ pc' \in [Callers -> Places]
           /\ sent' \subseteq Callers
  <1>1. Monus(qc, 1) \in Nat
    BY MonusType
  <1>2. Monus(qq, QueryUnit(c)) \in Nat
    BY MonusType, QueryUnitType
  <1> QED BY <1>1, <1>2 DEF Leave, TypeOK

\* Taking a slot keeps the counters natural numbers.
LEMMA TakeSlotType ==
    ASSUME TypeOK, NEW c \in Callers, TakeSlot(c)
    PROVE  active_calls' \in Nat /\ active_queries' \in Nat /\ reserved_query_units' \in Nat
  BY QueryUnitType DEF TakeSlot, TypeOK

\* Deciding keeps the state typed, whichever of its branches is taken.
LEMMA DecideType ==
    ASSUME TypeOK, NEW c \in Callers, NEW h, NEW qc \in Int, NEW qq \in Int,
           NEW statuses \in SUBSET Statuses, Decide(c, h, qc, qq, statuses)
    PROVE  /\ active_calls' \in Nat /\ active_queries' \in Nat /\ reserved_query_units' \in Nat
           /\ queued_calls' \in Int /\ queued_queries' \in Int
           /\ event' \in [Callers -> Statuses] /\ pc' \in [Callers -> Places]
           /\ sent' \subseteq Callers
           /\ lock' \in Callers \cup {Free}
           /\ reason' \in [Callers -> {"resume", "timeout", "cancelled"}]
  <1>1. lock' \in Callers \cup {Free} /\ reason' \in [Callers -> {"resume", "timeout", "cancelled"}]
    BY DEF Decide, TypeOK
  <1>2. CASE Refuse(c, h, qc, qq)
    <2>1. Leave(c, "blocked", qc, qq) /\ KeepSlots
      BY <1>2 DEF Refuse
    <2> QED BY <1>1, <2>1, LeaveType DEF KeepSlots, TypeOK
  <1>3. CASE Admit(c, h, qc, qq)
    <2>1. TakeSlot(c)
      BY <1>3 DEF Admit
    <2>2. queued_calls' \in Int /\ queued_queries' \in Int
      BY <1>3, QueryUnitType DEF Admit
    <2>3. event' \in [Callers -> Statuses] /\ pc' \in [Callers -> Places] /\ sent' \subseteq Callers
      BY <1>3 DEF Admit, TypeOK
    <2> QED BY <1>1, <2>1, <2>2, <2>3, TakeSlotType
  <1>4. CASE AdmitReportFails(c, h, qc, qq)
    <2>1. PICK status \in {"error", "cancelled"} : Leave(c, status, qc - 1, qq - QueryUnit(c))
      BY <1>4 DEF AdmitReportFails
    <2>2. TakeSlot(c) /\ qc - 1 \in Int /\ qq - QueryUnit(c) \in Int /\ status \in Statuses
      BY <1>4, <2>1, QueryUnitType DEF AdmitReportFails
    <2> QED BY <1>1, <2>1, <2>2, LeaveType, TakeSlotType
  <1>5. CASE Park(c, h, qc, qq)
    BY <1>1, <1>5 DEF Park, KeepSlots, TypeOK
  <1>6. CASE NoPark(c, h, qc, qq, statuses)
    <2>1. PICK status \in statuses : Leave(c, status, qc, qq)
      BY <1>6 DEF NoPark
    <2>2. KeepSlots /\ status \in Statuses
      BY <1>6, <2>1 DEF NoPark
    <2> QED BY <1>1, <2>1, <2>2, LeaveType DEF KeepSlots, TypeOK
  <1> QED BY <1>2, <1>3, <1>4, <1>5, <1>6 DEF Decide

LEMMA WakeType ==
    ASSUME NEW p \in [Callers -> Places]
    PROVE  Wake(p) \in [Callers -> Places]
  BY DEF Wake

LEMMA GiveSlotBackType ==
    ASSUME TypeOK, NEW c \in Callers, GiveSlotBack(c)
    PROVE  /\ active_calls' \in Nat /\ active_queries' \in Nat /\ reserved_query_units' \in Nat
           /\ queued_calls' \in Int /\ queued_queries' \in Int
           /\ pc' \in [Callers -> Places]
  <1>1. Wake([pc EXCEPT ![c] = "done"]) \in [Callers -> Places]
    BY WakeType DEF TypeOK
  <1>2. active_calls \in Int /\ active_queries \in Int /\ reserved_query_units \in Int
    BY DEF TypeOK
  <1>3. Monus(active_calls, 1) \in Nat
    BY <1>2, MonusType
  <1>4. Monus(active_queries, QueryUnit(c)) \in Nat
    BY <1>2, MonusType, QueryUnitType
  <1>5. Monus(reserved_query_units, Cost[c]) \in Nat
    BY <1>2, MonusType, QueryUnitType
  <1> QED BY <1>1, <1>3, <1>4, <1>5 DEF GiveSlotBack, TypeOK

\* Entering the queue, or being refused at the door, keeps the state typed.
LEMMA FirstPassType ==
    ASSUME TypeOK, NEW c \in Callers, NEW h, FirstPass(c, h)
    PROVE  /\ active_calls' \in Nat /\ active_queries' \in Nat /\ reserved_query_units' \in Nat
           /\ queued_calls' \in Int /\ queued_queries' \in Int
           /\ event' \in [Callers -> Statuses] /\ pc' \in [Callers -> Places]
           /\ sent' \subseteq Callers
           /\ lock' \in Callers \cup {Free}
           /\ reason' \in [Callers -> {"resume", "timeout", "cancelled"}]
  <1> DEFINE statuses == IF ReportMayRaise THEN {"error", "cancelled"} ELSE {}
  <1>1. queued_calls + 1 \in Int /\ queued_queries + QueryUnit(c) \in Int
    BY QueryUnitType DEF TypeOK
  <1>2. statuses \in SUBSET Statuses
    OBVIOUS
  <1>3. Decide(c, h, queued_calls + 1, queued_queries + QueryUnit(c), statuses)
    BY DEF FirstPass
  <1> HIDE DEF statuses
  <1> QED BY <1>1, <1>2, <1>3, DecideType

\* Every step keeps the state typed.
LEMMA TypeStep == TypeOK /\ [Next]_vars => TypeOK'
  <1> SUFFICES ASSUME TypeOK, [Next]_vars PROVE TypeOK'
    OBVIOUS
  <1> USE DEF bounds, ledger, counters
  <1>1. ASSUME NEW c \in Callers, Call(c) PROVE TypeOK'
    <2>1. history' \in Seq(Callers)
      BY <1>1, AppendedType DEF Call, TypeOK
    <2>2. CASE c \in Unsafe \/ Governed(c, history)
      BY <1>1, <2>1, <2>2 DEF Call, TypeOK
    <2>3. CASE ~(c \in Unsafe \/ Governed(c, history)) /\ lock = Free
      <3>1. FirstPass(c, Appended(c))
        BY <1>1, <2>3 DEF Call
      <3>2. UNCHANGED <<policy, generation, yesterday, notifying, restarts, days>>
        BY <1>1 DEF Call
      <3> QED BY <2>1, <3>1, <3>2, FirstPassType DEF TypeOK
    <2>4. CASE ~(c \in Unsafe \/ Governed(c, history)) /\ lock # Free
      BY <1>1, <2>1, <2>4 DEF Call, TypeOK
    <2> QED BY <2>2, <2>3, <2>4
  <1>2. ASSUME NEW c \in Callers, Enter(c) PROVE TypeOK'
    <2>1. FirstPass(c, history)
      BY <1>2 DEF Enter
    <2>2. UNCHANGED <<policy, generation, history, yesterday, notifying, restarts, days>>
      BY <1>2 DEF Enter
    <2> QED BY <2>1, <2>2, FirstPassType DEF TypeOK
  <1>3. ASSUME NEW c \in Callers, Acquire(c) PROVE TypeOK'
    BY <1>3 DEF Acquire, TypeOK
  <1>4. ASSUME NEW c \in Callers, Resume(c) PROVE TypeOK'
    <2>1. Decide(c, history, queued_calls, queued_queries, {"blocked"})
      BY <1>4 DEF Resume
    <2>2. UNCHANGED <<policy, generation, history, yesterday, notifying, restarts, days>>
      BY <1>4 DEF Resume
    <2>3. queued_calls \in Int /\ queued_queries \in Int /\ {"blocked"} \in SUBSET Statuses
      BY DEF TypeOK
    <2> QED BY <2>1, <2>2, <2>3, DecideType DEF TypeOK
  <1>5. ASSUME NEW c \in Callers, Abandon(c) PROVE TypeOK'
    <2>1. PICK status \in {"blocked", "cancelled"} : Leave(c, status, queued_calls, queued_queries)
      BY <1>5 DEF Abandon
    <2>2. queued_calls \in Int /\ queued_queries \in Int /\ status \in Statuses
      BY DEF TypeOK
    <2> QED BY <1>5, <2>1, <2>2, LeaveType DEF Abandon, KeepSlots, TypeOK
  <1>6. ASSUME NEW c \in Callers, NEW why \in {"timeout", "cancelled"}, GiveUp(c, why)
        PROVE  TypeOK'
    BY <1>6 DEF GiveUp, TypeOK
  <1>7. ASSUME NEW c \in Callers, NEW status \in Outcomes, Finish(c, status) PROVE TypeOK'
    <2>1. event' \in [Callers -> Statuses]
      BY <1>7 DEF Finish, Outcomes, TypeOK
    <2>2. CASE lock = Free
      <3>1. GiveSlotBack(c)
        BY <1>7, <2>2 DEF Finish
      <3>2. UNCHANGED <<policy, generation, history, yesterday, lock, notifying, reason, sent,
                        restarts, days>>
        BY <1>7 DEF Finish
      <3> QED BY <2>1, <3>1, <3>2, GiveSlotBackType DEF TypeOK
    <2>3. CASE lock # Free
      BY <1>7, <2>1, <2>3 DEF Finish, TypeOK
    <2> QED BY <2>2, <2>3
  <1>8. ASSUME NEW c \in Callers, Release(c) PROVE TypeOK'
    BY <1>8, GiveSlotBackType DEF Release, TypeOK
  <1>9. ASSUME NEW c \in Callers, CancelBeforeEntry(c) \/ AbandonRelease(c) PROVE TypeOK'
    BY <1>9 DEF CancelBeforeEntry, AbandonRelease, TypeOK
  <1>10. ASSUME NEW p \in Policies, UpdatePolicy(p) PROVE TypeOK'
    <2>1. Wake(pc) \in [Callers -> Places]
      BY WakeType DEF TypeOK
    <2>2. notifying' \in BOOLEAN
      BY <1>10 DEF UpdatePolicy, TypeOK
    <2>3. pc' \in [Callers -> Places] /\ generation' \in Nat /\ policy' \in Policies
      BY <1>10, <2>1 DEF UpdatePolicy, TypeOK
    <2>4. UNCHANGED <<ledger, counters, lock, reason, sent, bounds>>
      BY <1>10 DEF UpdatePolicy
    <2> QED BY <2>2, <2>3, <2>4 DEF TypeOK
  <1>11. CASE NotifyPolicy
    <2>1. Wake(pc) \in [Callers -> Places]
      BY WakeType DEF TypeOK
    <2>2. notifying' \in BOOLEAN
      BY <1>11 DEF NotifyPolicy
    <2>3. pc' \in [Callers -> Places]
      BY <1>11, <2>1 DEF NotifyPolicy
    <2>4. UNCHANGED <<policy, generation, ledger, counters, lock, reason, sent, bounds>>
      BY <1>11 DEF NotifyPolicy
    <2> QED BY <2>2, <2>3, <2>4 DEF TypeOK
  <1>12. CASE NewDay
    BY <1>12 DEF NewDay, TypeOK
  <1>13. CASE Restart
    <2>1. event' \in [Callers -> Statuses]
      BY <1>13 DEF Restart, TypeOK
    <2>2. pc' \in [Callers -> Places] /\ reason' \in [Callers -> {"resume", "timeout", "cancelled"}]
      BY <1>13 DEF Restart, TypeOK
    <2>3. notifying' \in BOOLEAN
      BY <1>13 DEF Restart
    <2> QED BY <1>13, <2>1, <2>2, <2>3 DEF Restart, TypeOK
  <1>14. CASE UNCHANGED vars
    BY <1>14 DEF vars, TypeOK
  <1> QED BY <1>1, <1>2, <1>3, <1>4, <1>5, <1>6, <1>7, <1>8, <1>9, <1>10, <1>11, <1>12,
             <1>13, <1>14 DEF Next, Step, Quiescent

\* Every reachable state is well typed, with any number of callers.
THEOREM TypeCorrect == Spec => []TypeOK
  <1>1. Init => TypeOK
    <2> SUFFICES ASSUME Init PROVE TypeOK
      OBVIOUS
    <2>1. history \in Seq(Callers)
      BY DEF Init
    <2>2. /\ event \in [Callers -> Statuses] /\ pc \in [Callers -> Places]
          /\ reason \in [Callers -> {"resume", "timeout", "cancelled"}]
      BY DEF Init
    <2>3. notifying \in BOOLEAN
      BY DEF Init
    <2> QED BY <2>1, <2>2, <2>3 DEF Init, TypeOK
  <1> QED BY <1>1, TypeStep, PTL DEF Spec
-----------------------------------------------------------------------------
(* How the calls in flight and the slot counters move together. *)

NoneBegins == \A c \in Callers : ~Begins(c)

\* Slots may be taken or lost without a call being in flight.
NoNewHolder ==
    /\ NoneBegins /\ Holders' \subseteq Holders
    /\ active_calls' >= active_calls /\ active_queries' >= active_queries

\* An admission: one more call in flight, one more slot, within the limits in force.
OneAdmitted(c) ==
    /\ Ready(c) /\ UNCHANGED policy /\ \A d \in Callers : Begins(d) => d = c
    /\ Holders' = Holders \cup {c}
    /\ active_calls' = active_calls + 1
    /\ active_queries' = active_queries + QueryUnit(c)

\* A release: the call leaves and its slot is given back.
OneReleased(c) ==
    /\ NoneBegins /\ c \in Holders /\ Holders' \subseteq Holders \ {c}
    /\ active_calls' = Monus(active_calls, 1)
    /\ active_queries' = Monus(active_queries, QueryUnit(c))

HolderMove ==
    \/ NoNewHolder
    \/ \E c \in Callers : OneAdmitted(c)
    \/ \E c \in Callers : OneReleased(c)
    \/ NoneBegins /\ Holders' = {} /\ active_calls' \in Nat /\ active_queries' \in Nat

\* Deciding lets at most the deciding caller in.
LEMMA DecideMove ==
    ASSUME TypeOK, NEW c \in Callers, NEW h, NEW qc, NEW qq, NEW statuses,
           pc[c] \notin {"running", "releasing"}, UNCHANGED policy,
           Decide(c, h, qc, qq, statuses)
    PROVE  NoNewHolder \/ OneAdmitted(c)
  <1>1. CASE Admit(c, h, qc, qq)
    <2>1. Holders' = Holders \cup {c} /\ \A d \in Callers : Begins(d) => d = c
      BY <1>1 DEF Admit, Begins, Holders, TypeOK
    <2> QED BY <1>1, <2>1 DEF Admit, TakeSlot, OneAdmitted
  <1>2. ASSUME NEW status, NEW n, NEW m, Leave(c, status, n, m)
        PROVE  NoneBegins /\ Holders' \subseteq Holders
    BY <1>2 DEF Leave, Begins, NoneBegins, Holders, TypeOK
  <1>3. CASE AdmitReportFails(c, h, qc, qq)
    <2>1. NoneBegins /\ Holders' \subseteq Holders
      BY <1>2, <1>3 DEF AdmitReportFails
    <2>2. TakeSlot(c)
      BY <1>3 DEF AdmitReportFails
    <2>3. active_calls' >= active_calls /\ active_queries' >= active_queries
      BY <2>2, QueryUnitType DEF TakeSlot, TypeOK
    <2> QED BY <2>1, <2>3 DEF NoNewHolder
  <1>4. CASE Refuse(c, h, qc, qq) \/ NoPark(c, h, qc, qq, statuses)
    BY <1>2, <1>4 DEF Refuse, NoPark, KeepSlots, NoNewHolder, TypeOK
  <1>5. CASE Park(c, h, qc, qq)
    BY <1>5 DEF Park, KeepSlots, NoNewHolder, Begins, NoneBegins, Holders, TypeOK
  <1> QED BY <1>1, <1>3, <1>4, <1>5 DEF Decide

\* Giving a slot back takes its caller, and no other, out of the calls in flight.
LEMMA GiveSlotBackMove ==
    ASSUME TypeOK, NEW c \in Callers, c \in Holders, GiveSlotBack(c)
    PROVE  OneReleased(c)
  <1>1. NoneBegins /\ Holders' \subseteq Holders \ {c}
    BY DEF GiveSlotBack, Wake, Begins, NoneBegins, Holders, TypeOK
  <1> QED BY <1>1 DEF GiveSlotBack, OneReleased

\* A notification lets nobody in.
LEMMA WakeMove ==
    ASSUME TypeOK, pc' = Wake(pc) \/ UNCHANGED pc, UNCHANGED <<active_calls, active_queries>>
    PROVE  NoNewHolder
  BY DEF Wake, Begins, NoneBegins, Holders, NoNewHolder, TypeOK

\* Every step is one of the moves of the calls in flight.
LEMMA MoveStep ==
    ASSUME TypeOK, [Next]_vars
    PROVE  HolderMove
  <1> USE DEF counters
  <1>1. ASSUME NEW c \in Callers, Call(c) PROVE HolderMove
    <2>1. CASE (c \in Unsafe \/ Governed(c, history)) \/ lock # Free
      <3>1. UNCHANGED <<active_calls, active_queries>> /\ NoneBegins /\ Holders' \subseteq Holders
        BY <1>1, <2>1 DEF Call, Begins, NoneBegins, Holders, TypeOK, FirstPass, Decide, Refuse
      <3> QED BY <3>1 DEF NoNewHolder, HolderMove, TypeOK
    <2>2. CASE ~(c \in Unsafe \/ Governed(c, history)) /\ lock = Free
      <3>1. FirstPass(c, Appended(c)) /\ UNCHANGED policy /\ pc[c] = "idle"
        BY <1>1, <2>2 DEF Call
      <3> QED BY <3>1, DecideMove DEF FirstPass, HolderMove
    <2> QED BY <2>1, <2>2
  <1>2. ASSUME NEW c \in Callers, Enter(c) PROVE HolderMove
    BY <1>2, DecideMove DEF Enter, FirstPass, HolderMove
  <1>3. ASSUME NEW c \in Callers, Resume(c) PROVE HolderMove
    BY <1>3, DecideMove DEF Resume, HasLock, HolderMove
  <1>4. ASSUME NEW c \in Callers, Abandon(c) PROVE HolderMove
    BY <1>4 DEF Abandon, HasLock, Leave, KeepSlots, Begins, NoneBegins, Holders, NoNewHolder, HolderMove, TypeOK
  <1>5. ASSUME NEW c \in Callers, NEW why, GiveUp(c, why) PROVE HolderMove
    BY <1>5 DEF GiveUp, Begins, NoneBegins, Holders, NoNewHolder, HolderMove, TypeOK
  <1>6. ASSUME NEW c \in Callers, Acquire(c) \/ CancelBeforeEntry(c) \/ AbandonRelease(c)
        PROVE  HolderMove
    BY <1>6 DEF Acquire, CancelBeforeEntry, AbandonRelease, Begins, NoneBegins, Holders, NoNewHolder, HolderMove, TypeOK
  <1>7. ASSUME NEW c \in Callers, NEW status \in Outcomes, Finish(c, status) PROVE HolderMove
    <2>1. CASE lock = Free
      BY <1>7, <2>1, GiveSlotBackMove DEF Finish, Begins, NoneBegins, Holders, HolderMove
    <2>2. CASE lock # Free
      BY <1>7, <2>2 DEF Finish, Begins, NoneBegins, Holders, NoNewHolder, HolderMove, TypeOK
    <2> QED BY <2>1, <2>2
  <1>8. ASSUME NEW c \in Callers, Release(c) PROVE HolderMove
    BY <1>8, GiveSlotBackMove DEF Release, Begins, NoneBegins, Holders, HolderMove
  <1>9. ASSUME NEW p \in Policies, UpdatePolicy(p) PROVE HolderMove
    BY <1>9, WakeMove DEF UpdatePolicy, HolderMove
  <1>10. CASE NotifyPolicy \/ NewDay \/ UNCHANGED vars
    BY <1>10, WakeMove DEF NotifyPolicy, NewDay, vars, HolderMove
  <1>11. CASE Restart
    BY <1>11 DEF Restart, Begins, NoneBegins, Holders, HolderMove
  <1> QED BY <1>1, <1>2, <1>3, <1>4, <1>5, <1>6, <1>7, <1>8, <1>9, <1>10, <1>11
          DEF Next, Step, Quiescent
-----------------------------------------------------------------------------
(* Capacity is never lent twice. *)

\* The calls in flight are finitely many.
LEMMA HoldersFinite ==
    /\ IsFiniteSet(Holders) /\ Cardinality(Holders) \in Nat
    /\ IsFiniteSet(Holders \cap Queries) /\ Cardinality(Holders \cap Queries) \in Nat
  <1>1. Holders \subseteq Callers /\ Holders \cap Queries \subseteq Callers
    BY DEF Holders
  <1>2. IsFiniteSet(Holders) /\ IsFiniteSet(Holders \cap Queries)
    BY <1>1, FS_Subset, CallersAssumption
  <1> QED BY <1>2, FS_CardinalityType

\* A subset of a finite set has no more members, one that misses a member fewer.
LEMMA FewerMembers ==
    ASSUME NEW S, NEW T, IsFiniteSet(S), T \subseteq S
    PROVE  /\ IsFiniteSet(T) /\ Cardinality(T) \in Nat /\ Cardinality(S) \in Nat
           /\ Cardinality(T) <= Cardinality(S)
           /\ \A x \in S : x \notin T => Cardinality(T) <= Cardinality(S) - 1
  <1>1. IsFiniteSet(T) /\ Cardinality(T) <= Cardinality(S)
    BY FS_Subset
  <1>2. Cardinality(T) \in Nat /\ Cardinality(S) \in Nat
    BY <1>1, FS_CardinalityType
  <1>3. ASSUME NEW x \in S, x \notin T PROVE Cardinality(T) <= Cardinality(S) - 1
    <2>1. IsFiniteSet(S \ {x}) /\ Cardinality(S \ {x}) = Cardinality(S) - 1
      BY FS_RemoveElement
    <2>2. T \subseteq S \ {x}
      BY <1>3
    <2>3. Cardinality(T) <= Cardinality(S \ {x})
      BY <2>1, <2>2, FS_Subset
    <2> QED BY <2>1, <2>3
  <1> QED BY <1>1, <1>2, <1>3

\* One more member adds at most one.
LEMMA OneMoreMember ==
    ASSUME NEW S, NEW x, IsFiniteSet(S)
    PROVE  Cardinality(S \cup {x}) <= Cardinality(S) + 1 /\ Cardinality(S \cup {x}) \in Nat
  <1>1. Cardinality(S \cup {x}) = IF x \in S THEN Cardinality(S) ELSE Cardinality(S) + 1
    BY FS_AddElement
  <1>2. Cardinality(S) \in Nat
    BY FS_CardinalityType
  <1> QED BY <1>1, <1>2

\* A move of the calls in flight keeps them covered by the counters.
LEMMA CoveredStep ==
    ASSUME TypeOK, TypeOK', SlotsCovered, HolderMove
    PROVE  SlotsCovered'
  <1> DEFINE H == Holders
             HQ == Holders \cap Queries
             G == Holders'
             GQ == G \cap Queries
  <1>1. /\ IsFiniteSet(H) /\ Cardinality(H) \in Nat
        /\ IsFiniteSet(HQ) /\ Cardinality(HQ) \in Nat
    BY HoldersFinite
  <1>2. Cardinality(H) <= active_calls /\ Cardinality(HQ) <= active_queries
    BY DEF SlotsCovered
  <1>3. active_calls \in Nat /\ active_queries \in Nat
    BY DEF TypeOK
  <1>4. SUFFICES Cardinality(G) <= active_calls' /\ Cardinality(GQ) <= active_queries'
    BY DEF SlotsCovered
  <1> HIDE DEF H, HQ, G, GQ
  <1>5. CASE NoNewHolder
    <2>1. G \subseteq H /\ GQ \subseteq HQ
      BY <1>5 DEF NoNewHolder, H, HQ, G, GQ
    <2>2. Cardinality(G) <= Cardinality(H) /\ Cardinality(GQ) <= Cardinality(HQ)
          /\ Cardinality(G) \in Nat /\ Cardinality(GQ) \in Nat
      BY <1>1, <2>1, FewerMembers
    <2>3. active_calls' >= active_calls /\ active_queries' >= active_queries
      BY <1>5 DEF NoNewHolder
    <2>4. active_calls' \in Nat /\ active_queries' \in Nat
      BY DEF TypeOK
    <2> QED BY <1>1, <1>2, <1>3, <2>2, <2>3, <2>4
  <1>6. ASSUME NEW c \in Callers, OneAdmitted(c)
        PROVE  Cardinality(G) <= active_calls' /\ Cardinality(GQ) <= active_queries'
    <2>1. G = H \cup {c} /\ GQ = IF c \in Queries THEN HQ \cup {c} ELSE HQ
      BY <1>6 DEF OneAdmitted, H, HQ, G, GQ
    <2>2. Cardinality(G) <= Cardinality(H) + 1
      BY <1>1, <2>1, OneMoreMember
    <2>3. Cardinality(GQ) <= Cardinality(HQ) + QueryUnit(c)
      <3>1. CASE c \in Queries
        BY <1>1, <2>1, <3>1, OneMoreMember DEF QueryUnit
      <3>2. CASE c \notin Queries
        BY <1>1, <2>1, <3>2 DEF QueryUnit
      <3> QED BY <3>1, <3>2
    <2>4. active_calls' = active_calls + 1 /\ active_queries' = active_queries + QueryUnit(c)
      BY <1>6 DEF OneAdmitted
    <2>5. Cardinality(G) \in Nat /\ Cardinality(GQ) \in Nat
      BY <1>1, <2>1, OneMoreMember
    <2> QED BY <1>1, <1>2, <1>3, <2>2, <2>3, <2>4, <2>5, QueryUnitType
  <1>7. ASSUME NEW c \in Callers, OneReleased(c)
        PROVE  Cardinality(G) <= active_calls' /\ Cardinality(GQ) <= active_queries'
    <2>1. /\ c \in H /\ G \subseteq H /\ c \notin G
          /\ GQ \subseteq HQ /\ c \notin GQ /\ (c \in Queries => c \in HQ)
      BY <1>7 DEF OneReleased, H, HQ, G, GQ
    <2>2. Cardinality(G) <= Cardinality(H) - 1 /\ Cardinality(G) \in Nat
      BY <1>1, <2>1, FewerMembers
    <2>3. Cardinality(GQ) <= Cardinality(HQ) - QueryUnit(c) /\ Cardinality(GQ) \in Nat
      BY <1>1, <2>1, FewerMembers DEF QueryUnit
    <2>4. active_calls' = Monus(active_calls, 1)
          /\ active_queries' = Monus(active_queries, QueryUnit(c))
      BY <1>7 DEF OneReleased
    <2>5. QueryUnit(c) \in Nat
      BY QueryUnitType
    <2> QED BY <1>1, <1>2, <1>3, <2>2, <2>3, <2>4, <2>5 DEF Monus
  <1>8. CASE Holders' = {} /\ active_calls' \in Nat /\ active_queries' \in Nat
    <2>1. G = {} /\ GQ = {}
      BY <1>8 DEF G, GQ
    <2> QED BY <1>8, <2>1, FS_EmptySet
  <1> QED BY <1>5, <1>6, <1>7, <1>8 DEF HolderMove

\* The counters cover the calls in flight in every reachable state.
LEMMA CoveredInvariant == Spec => [](TypeOK /\ SlotsCovered)
  <1>1. Init => SlotsCovered
    <2> SUFFICES ASSUME Init PROVE SlotsCovered
      OBVIOUS
    <2>1. Holders = {}
      BY DEF Init, Holders
    <2> QED BY <2>1, FS_EmptySet DEF SlotsCovered, Init
  <1>2. TypeOK /\ SlotsCovered /\ [Next]_vars => SlotsCovered'
    BY MoveStep, CoveredStep, TypeStep
  <1> QED BY <1>1, <1>2, TypeCorrect, PTL DEF Spec

\* However progress reports fail and callers are cancelled, the slot counters
\* cover every call in flight: capacity can leak but is never lent twice.
THEOREM SlotsAlwaysCovered == Spec => []SlotsCovered
  BY CoveredInvariant, PTL

\* A call goes to Splunk only if the calls then in flight fit the limits of the
\* policy in force, whatever policy updates came while it was queued.
THEOREM LimitsRespected == Spec => AdmissionRespectsLimits
  <1> DEFINE Fits ==
        \A c \in Callers : Begins(c) =>
            /\ Cardinality(Holders') <= policy.max_concurrent_calls
            /\ c \in Queries =>
                   Cardinality(Holders' \cap Queries) <= policy.max_concurrent_queries
  <1>1. TypeOK /\ SlotsCovered /\ SlotsCovered' /\ [Next]_vars => [Fits]_vars
    <2> SUFFICES ASSUME TypeOK, SlotsCovered, SlotsCovered', [Next]_vars,
                        NEW c \in Callers, Begins(c)
                 PROVE  /\ Cardinality(Holders') <= policy.max_concurrent_calls
                        /\ c \in Queries =>
                               Cardinality(Holders' \cap Queries) <= policy.max_concurrent_queries
      OBVIOUS
    <2>1. PICK d \in Callers : OneAdmitted(d)
      BY MoveStep DEF HolderMove, NoNewHolder, OneReleased, NoneBegins
    <2>2. /\ Cardinality(Holders') <= active_calls + 1
          /\ Cardinality(Holders' \cap Queries) <= active_queries + QueryUnit(c)
      BY <2>1 DEF SlotsCovered, OneAdmitted
    <2>3. Ready(c)
      BY <2>1 DEF OneAdmitted
    <2>4. Cardinality(Holders') \in Nat /\ Cardinality(Holders' \cap Queries) \in Nat
      <3>1. IsFiniteSet(Callers) /\ Holders' \subseteq Callers
        BY CallersAssumption DEF Holders
      <3> QED BY <3>1, FewerMembers
    <2> QED BY <2>2, <2>3, <2>4, BoundsAssumption DEF Ready, QueryUnit, TypeOK, PolicyType
  <1> QED BY <1>1, CoveredInvariant, PTL DEF AdmissionRespectsLimits, Spec
-----------------------------------------------------------------------------
(* Nobody sleeps while there is room. *)

\* A step that frees no capacity, and parks only a caller it has no room for.
FreesNothing ==
    /\ UNCHANGED <<policy, notifying>>
    /\ active_calls' >= active_calls /\ active_queries' >= active_queries
    /\ \A c \in Callers : pc'[c] = "waiting" => (pc[c] = "waiting" \/ ~Ready(c))

NobodyWaits == \A c \in Callers : pc'[c] # "waiting"

\* A step that frees nothing makes no sleeper ready.
LEMMA FreesNothingKeeps ==
    ASSUME TypeOK, TypeOK', NoLostWakeup, FreesNothing
    PROVE  NoLostWakeup'
  <1> SUFFICES ASSUME ~notifying', NEW c \in Callers, pc'[c] = "waiting"
               PROVE  ~Ready(c)'
    BY DEF NoLostWakeup
  <1>1. ~notifying /\ policy' = policy
    BY DEF FreesNothing
  <1>2. ~Ready(c)
    BY <1>1 DEF FreesNothing, NoLostWakeup
  <1>3. /\ policy.max_concurrent_calls \in Nat /\ policy.max_concurrent_queries \in Nat
        /\ active_calls \in Nat /\ active_queries \in Nat
        /\ active_calls' \in Nat /\ active_queries' \in Nat
    BY BoundsAssumption DEF TypeOK, PolicyType
  <1>4. active_calls' >= active_calls /\ active_queries' >= active_queries
    BY DEF FreesNothing
  <1> QED BY <1>1, <1>2, <1>3, <1>4 DEF Ready

\* Deciding frees nothing unless it notifies.
LEMMA DecideFreesNothing ==
    ASSUME TypeOK, NEW c \in Callers, NEW h, NEW qc, NEW qq, NEW statuses,
           UNCHANGED <<policy, notifying>>, Decide(c, h, qc, qq, statuses)
    PROVE  FreesNothing
  <1>1. ASSUME NEW status, NEW n, NEW m, Leave(c, status, n, m)
        PROVE  \A d \in Callers : pc'[d] = "waiting" => pc[d] = "waiting"
    BY <1>1 DEF Leave, TypeOK
  <1>2. TakeSlot(c) => active_calls' >= active_calls /\ active_queries' >= active_queries
    BY QueryUnitType DEF TakeSlot, TypeOK
  <1>3. KeepSlots => active_calls' >= active_calls /\ active_queries' >= active_queries
    BY DEF KeepSlots, TypeOK
  <1>4. CASE Admit(c, h, qc, qq)
    BY <1>2, <1>4 DEF Admit, FreesNothing, TypeOK
  <1>5. CASE AdmitReportFails(c, h, qc, qq)
    BY <1>1, <1>2, <1>5 DEF AdmitReportFails, FreesNothing
  <1>6. CASE Refuse(c, h, qc, qq) \/ NoPark(c, h, qc, qq, statuses)
    BY <1>1, <1>3, <1>6 DEF Refuse, NoPark, FreesNothing
  <1>7. CASE Park(c, h, qc, qq)
    BY <1>3, <1>7 DEF Park, FreesNothing, TypeOK
  <1> QED BY <1>4, <1>5, <1>6, <1>7 DEF Decide

\* Every step frees nothing, or leaves nobody asleep, or owes a notification.
LEMMA WakeupStep ==
    ASSUME TypeOK, [Next]_vars
    PROVE  FreesNothing \/ NobodyWaits \/ notifying'
  <1> USE DEF counters
  <1>1. ASSUME NEW c \in Callers, Call(c) PROVE FreesNothing
    <2>1. CASE (c \in Unsafe \/ Governed(c, history)) \/ lock # Free
      BY <1>1, <2>1 DEF Call, FreesNothing, TypeOK
    <2>2. CASE ~(c \in Unsafe \/ Governed(c, history)) /\ lock = Free
      BY <1>1, <2>2, DecideFreesNothing DEF Call, FirstPass
    <2> QED BY <2>1, <2>2
  <1>2. ASSUME NEW c \in Callers, Enter(c) \/ Resume(c) PROVE FreesNothing
    BY <1>2, DecideFreesNothing DEF Enter, FirstPass, Resume
  <1>3. ASSUME NEW c \in Callers, Abandon(c) PROVE FreesNothing
    BY <1>3 DEF Abandon, Leave, KeepSlots, FreesNothing, TypeOK
  <1>4. ASSUME NEW c \in Callers, NEW why, GiveUp(c, why) PROVE FreesNothing
    BY <1>4 DEF GiveUp, FreesNothing, TypeOK
  <1>5. ASSUME NEW c \in Callers, Acquire(c) \/ CancelBeforeEntry(c) \/ AbandonRelease(c)
        PROVE  FreesNothing
    BY <1>5 DEF Acquire, CancelBeforeEntry, AbandonRelease, FreesNothing, TypeOK
  <1>6. ASSUME NEW c \in Callers, GiveSlotBack(c) PROVE NobodyWaits
    BY <1>6 DEF GiveSlotBack, Wake, NobodyWaits
  <1>7. ASSUME NEW c \in Callers, NEW status \in Outcomes, Finish(c, status)
        PROVE  FreesNothing \/ NobodyWaits
    <2>1. CASE lock = Free
      BY <1>6, <1>7, <2>1 DEF Finish
    <2>2. CASE lock # Free
      BY <1>7, <2>2 DEF Finish, FreesNothing, TypeOK
    <2> QED BY <2>1, <2>2
  <1>8. ASSUME NEW c \in Callers, Release(c) PROVE NobodyWaits
    BY <1>6, <1>8 DEF Release
  <1>9. ASSUME NEW p \in Policies, UpdatePolicy(p) PROVE NobodyWaits \/ notifying'
    BY <1>9 DEF UpdatePolicy, Wake, NobodyWaits
  <1>10. CASE NotifyPolicy \/ Restart
    BY <1>10 DEF NotifyPolicy, Restart, Wake, NobodyWaits
  <1>11. CASE NewDay \/ UNCHANGED vars
    BY <1>11 DEF NewDay, vars, FreesNothing, TypeOK
  <1> QED BY <1>1, <1>2, <1>3, <1>4, <1>5, <1>7, <1>8, <1>9, <1>10, <1>11
          DEF Next, Step, Quiescent

\* No caller sleeps while there is room for it: every release and every policy
\* change is announced, whatever the order in which coroutines take the lock.
THEOREM WakeupsNeverLost == Spec => []NoLostWakeup
  <1>1. Init => NoLostWakeup
    BY DEF Init, NoLostWakeup
  <1>2. TypeOK /\ NoLostWakeup /\ [Next]_vars => NoLostWakeup'
    <2> SUFFICES ASSUME TypeOK, NoLostWakeup, [Next]_vars PROVE NoLostWakeup'
      OBVIOUS
    <2>1. TypeOK'
      BY TypeStep
    <2>2. CASE FreesNothing
      BY <2>1, <2>2, FreesNothingKeeps
    <2>3. CASE NobodyWaits \/ notifying'
      BY <2>3 DEF NobodyWaits, NoLostWakeup
    <2> QED BY <2>2, <2>3, WakeupStep
  <1> QED BY <1>1, <1>2, TypeCorrect, PTL DEF Spec
-----------------------------------------------------------------------------
(* Induction over finite sets and numbers: among the sets that refute a     *)
(* claim there is a smallest one, so the claim holds of all that are        *)
(* smaller.  It gives the sums the ledger is compared with.                 *)

Chosen(T) == CHOOSE x \in T : TRUE
Sums(f, S) == f = [T \in SUBSET S |-> IF T = {} THEN 0 ELSE Cost[Chosen(T)] + f[T \ {Chosen(T)}]]

\* The sum is the library's fold, as a function on the subsets.
LEMMA CostOfDef ==
    ASSUME NEW S
    PROVE  CostOf(S) = (CHOOSE f : Sums(f, S))[S]
  BY DEF CostOf, MapThenSumSet, MapThenFoldSet, Sums, Chosen

\* Of a non-empty set of subsets of a finite set, one contains no other.
LEMMA SmallestSubset ==
    ASSUME NEW S, IsFiniteSet(S), NEW B \in SUBSET (SUBSET S), B # {}
    PROVE  \E T \in B : \A U \in B : U \subseteq T => U = T
  <1>1. B \subseteq FiniteSubsetsOf(S)
    BY FS_Subset DEF FiniteSubsetsOf
  <1>2. PICK T \in B : \A U \in B : ~(<<U, T>> \in StrictSubsetOrdering(S))
    BY <1>1, FS_StrictSubsetOrderingWellFounded, WFMin
  <1> QED BY <1>2 DEF StrictSubsetOrdering

\* A non-empty set of natural numbers has a least one.
LEMMA SmallestNumber ==
    ASSUME NEW B \in SUBSET Nat, B # {}
    PROVE  \E n \in B : \A m \in B : n <= m
  <1>1. PICK k \in B : TRUE
    OBVIOUS
  <1> DEFINE Below == {0 .. m : m \in {m \in B : m <= k}}
  <1>2. IsFiniteSet(0 .. k)
    BY FS_Interval
  <1>3. \A m \in B : m <= k => 0 .. m \in SUBSET (0 .. k)
    OBVIOUS
  <1>4. Below \in SUBSET (SUBSET (0 .. k)) /\ Below # {}
    BY <1>3
  <1>5. PICK T \in Below : \A U \in Below : U \subseteq T => U = T
    <2> DEFINE all == 0 .. k
    <2>1. IsFiniteSet(all) /\ Below \in SUBSET (SUBSET all) /\ Below # {}
      BY <1>2, <1>4
    <2> HIDE DEF Below, all
    <2> QED BY <2>1, SmallestSubset
  <1>6. PICK n \in B : n <= k /\ T = 0 .. n
    OBVIOUS
  <1>7. ASSUME NEW m \in B, m < n PROVE FALSE
    <2>1. 0 .. m \in Below
      BY <1>6, <1>7
    <2>2. 0 .. m \subseteq T
      BY <1>6, <1>7
    <2>3. 0 .. m = 0 .. n
      <3> HIDE DEF Below
      <3> QED BY <1>5, <1>6, <2>1, <2>2
    <2>4. n \in 0 .. n
      OBVIOUS
    <2>5. n \in 0 .. m
      BY <2>3, <2>4
    <2> QED BY <1>7, <2>5
  <1> QED BY <1>7

\* The recursive sum, on the subsets of S with at most n members.
UpTo(S, n) == {T \in SUBSET S : Cardinality(T) <= n}
Add(f, T) == IF T = {} THEN 0 ELSE Cost[Chosen(T)] + f[T \ {Chosen(T)}]
SumsUpTo(f, S, n) == f = [T \in UpTo(S, n) |-> Add(f, T)]

\* The function of the sums of up to n members extends to one member more.
LEMMA SumsStep ==
    ASSUME NEW S, IsFiniteSet(S), NEW n \in Nat, n = 0 \/ \E f : SumsUpTo(f, S, n - 1)
    PROVE  \E f : SumsUpTo(f, S, n)
  <1>1. \A T \in SUBSET S : IsFiniteSet(T) /\ Cardinality(T) \in Nat /\ (Cardinality(T) = 0 <=> T = {})
    BY FS_Subset, FS_CardinalityType, FS_EmptySet
  <1>2. \A T \in SUBSET S : T # {} =>
            Cardinality(T \ {Chosen(T)}) = Cardinality(T) - 1 /\ T \ {Chosen(T)} \in SUBSET S
    BY <1>1, FS_RemoveElement DEF Chosen
  <1>3. PICK g : \A T \in UpTo(S, n) : T # {} =>
                     T \ {Chosen(T)} \in UpTo(S, n) /\ g[T \ {Chosen(T)}] = Add(g, T \ {Chosen(T)})
    <2>1. CASE n = 0
      <3>1. \A T \in UpTo(S, n) : T = {}
        BY <1>1, <2>1 DEF UpTo
      <3> QED BY <3>1
    <2>2. CASE n # 0
      <3>1. PICK g : SumsUpTo(g, S, n - 1)
        BY <2>2
      <3>2. \A T \in UpTo(S, n) : T # {} => T \ {Chosen(T)} \in UpTo(S, n - 1)
        BY <1>1, <1>2 DEF UpTo
      <3>3. \A U \in UpTo(S, n - 1) : g[U] = Add(g, U)
        BY <3>1 DEF SumsUpTo
      <3>4. UpTo(S, n - 1) \subseteq UpTo(S, n)
        BY <1>1 DEF UpTo
      <3> QED BY <3>2, <3>3, <3>4
    <2> QED BY <2>1, <2>2
  <1> DEFINE h == [T \in UpTo(S, n) |-> Add(g, T)]
  <1>4. ASSUME NEW T \in UpTo(S, n) PROVE Add(h, T) = Add(g, T)
    <2>1. T # {} => h[T \ {Chosen(T)}] = g[T \ {Chosen(T)}]
      BY <1>3
    <2> HIDE DEF h
    <2> QED BY <2>1 DEF Add
  <1>5. h = [T \in UpTo(S, n) |-> Add(h, T)]
    BY <1>4
  <1> HIDE DEF h
  <1> QED BY <1>5 DEF SumsUpTo

\* So there is a function of the sums of all subsets,
LEMMA SumsExist ==
    ASSUME NEW S, IsFiniteSet(S)
    PROVE  \E f : Sums(f, S)
  <1> DEFINE Bad == {n \in Nat : ~\E f : SumsUpTo(f, S, n)}
  <1>1. ASSUME Bad # {} PROVE FALSE
    <2>1. PICK n \in Bad : \A m \in Bad : n <= m
      BY <1>1, SmallestNumber
    <2>2. n = 0 \/ n - 1 \in Nat \ Bad
      BY <2>1
    <2> QED BY <2>1, <2>2, SumsStep
  <1>2. Cardinality(S) \in Nat
    BY FS_CardinalityType
  <1>3. PICK f : SumsUpTo(f, S, Cardinality(S))
    BY <1>1, <1>2
  <1>4. UpTo(S, Cardinality(S)) = SUBSET S
    BY FS_Subset DEF UpTo
  <1> QED BY <1>3, <1>4 DEF Sums, SumsUpTo, Add

\* and only one: a smallest subset on which two differ would not differ.
LEMMA SumsAgree ==
    ASSUME NEW S, IsFiniteSet(S), NEW U \in SUBSET S, NEW f, Sums(f, S), NEW g, Sums(g, U)
    PROVE  f[U] = g[U]
  <1> DEFINE Bad == {T \in SUBSET U : f[T] # g[T]}
  <1>1. SUFFICES ASSUME Bad # {} PROVE FALSE
    OBVIOUS
  <1>2. PICK T \in Bad : \A V \in Bad : V \subseteq T => V = T
    <2>1. IsFiniteSet(U) /\ Bad \in SUBSET (SUBSET U)
      BY FS_Subset
    <2> HIDE DEF Bad
    <2> QED BY <1>1, <2>1, SmallestSubset
  <1>3. T # {} => Chosen(T) \in T /\ T \ {Chosen(T)} \in SUBSET U
    BY DEF Chosen
  <1>4. T # {} => f[T \ {Chosen(T)}] = g[T \ {Chosen(T)}]
    BY <1>2, <1>3
  <1>5. f[T] = IF T = {} THEN 0 ELSE Cost[Chosen(T)] + f[T \ {Chosen(T)}]
    BY DEF Sums
  <1>6. g[T] = IF T = {} THEN 0 ELSE Cost[Chosen(T)] + g[T \ {Chosen(T)}]
    BY DEF Sums
  <1> QED BY <1>4, <1>5, <1>6

\* The sum takes out the chosen member and adds the sum of the others.
LEMMA CostOfStep ==
    ASSUME NEW S, IsFiniteSet(S)
    PROVE  CostOf(S) = IF S = {} THEN 0 ELSE Cost[Chosen(S)] + CostOf(S \ {Chosen(S)})
  <1>1. PICK f : Sums(f, S) /\ CostOf(S) = f[S]
    <2>1. Sums(CHOOSE f : Sums(f, S), S)
      BY SumsExist
    <2> QED BY <2>1, CostOfDef
  <1>2. f[S] = IF S = {} THEN 0 ELSE Cost[Chosen(S)] + f[S \ {Chosen(S)}]
    BY <1>1 DEF Sums
  <1> DEFINE U == S \ {Chosen(S)}
  <1>3. U \in SUBSET S /\ IsFiniteSet(U)
    BY FS_Subset
  <1>4. PICK g : Sums(g, U) /\ CostOf(U) = g[U]
    <2> HIDE DEF U
    <2>1. Sums(CHOOSE g : Sums(g, U), U)
      BY <1>3, SumsExist
    <2> QED BY <2>1, CostOfDef
  <1>5. f[U] = g[U]
    <2> HIDE DEF U
    <2> QED BY <1>1, <1>3, <1>4, SumsAgree
  <1> QED BY <1>1, <1>2, <1>4, <1>5

\* An empty set costs nothing.
LEMMA CostOfEmpty == CostOf({}) = 0
  BY CostOfStep, FS_EmptySet

\* The sum of a finite set is a natural number.
LEMMA CostOfType ==
    ASSUME NEW S \in SUBSET Callers
    PROVE  CostOf(S) \in Nat
  <1> DEFINE Bad == {T \in SUBSET Callers : CostOf(T) \notin Nat}
  <1>1. SUFFICES ASSUME Bad # {} PROVE FALSE
    OBVIOUS
  <1>2. PICK T \in Bad : \A V \in Bad : V \subseteq T => V = T
    <2> HIDE DEF Bad
    <2>1. IsFiniteSet(Callers) /\ Bad \in SUBSET (SUBSET Callers)
      BY CallersAssumption DEF Bad
    <2> QED BY <1>1, <2>1, SmallestSubset
  <1>3. T # {} => Chosen(T) \in T /\ CostOf(T \ {Chosen(T)}) \in Nat
    BY <1>2 DEF Chosen
  <1>4. T # {} => Cost[Chosen(T)] \in Nat
    BY <1>3, CallersAssumption
  <1>5. CostOf(T) = IF T = {} THEN 0 ELSE Cost[Chosen(T)] + CostOf(T \ {Chosen(T)})
    BY CostOfStep, FS_Subset, CallersAssumption
  <1> QED BY <1>3, <1>4, <1>5

\* A new member adds its cost, whichever member the fold takes out first.
LEMMA CostOfAdd ==
    ASSUME NEW S \in SUBSET Callers, NEW x \in Callers \ S
    PROVE  CostOf(S \cup {x}) = CostOf(S) + Cost[x]
  <1> DEFINE Adds(T) == \A y \in Callers \ T : CostOf(T \cup {y}) = CostOf(T) + Cost[y]
             Bad == {T \in SUBSET Callers : ~Adds(T)}
  <1>1. SUFFICES ASSUME Bad # {} PROVE FALSE
    OBVIOUS
  <1>2. PICK T \in Bad : \A V \in Bad : V \subseteq T => V = T
    <2> HIDE DEF Bad
    <2>1. IsFiniteSet(Callers) /\ Bad \in SUBSET (SUBSET Callers)
      BY CallersAssumption DEF Bad
    <2> QED BY <1>1, <2>1, SmallestSubset
  <1>3. \A V \in SUBSET T : V # T => Adds(V)
    <2> HIDE DEF Adds
    <2> QED BY <1>2
  <1>4. PICK y \in Callers \ T : CostOf(T \cup {y}) # CostOf(T) + Cost[y]
    BY <1>2
  <1> DEFINE all == T \cup {y}
             c == Chosen(all)
  <1>5. c \in all /\ all \in SUBSET Callers
    BY DEF Chosen
  <1>6. CostOf(all) = Cost[c] + CostOf(all \ {c})
    <2> HIDE DEF c
    <2>1. all # {} /\ IsFiniteSet(all)
      BY <1>5, FS_Subset, CallersAssumption
    <2> HIDE DEF all
    <2> QED BY <2>1, CostOfStep DEF c
  <1>0. T \in SUBSET Callers
    OBVIOUS
  <1> HIDE DEF Bad, c
  <1>7. Cost[c] \in Nat /\ Cost[y] \in Nat /\ CostOf(T) \in Nat
    <2>1. Cost[c] \in Nat /\ Cost[y] \in Nat
      BY <1>4, <1>5, CallersAssumption
    <2> QED BY <1>0, <2>1, CostOfType
  <1>8. c # y
    <2>1. CASE c = y
      <3>1. all \ {c} = T
        BY <1>4, <2>1
      <3> QED BY <1>4, <1>6, <1>7, <2>1, <3>1
    <2> QED BY <2>1
  <1> DEFINE rest == T \ {c}
  <1>9. c \in T /\ rest \in SUBSET T /\ rest # T /\ all \ {c} = rest \cup {y} /\ T = rest \cup {c}
    BY <1>4, <1>5, <1>8
  <1>10. Adds(rest)
    <2> HIDE DEF rest, Adds
    <2> QED BY <1>3, <1>9
  <1>11. CostOf(rest \cup {y}) = CostOf(rest) + Cost[y] /\ CostOf(T) = CostOf(rest) + Cost[c]
    <2>1. y \in Callers \ rest /\ c \in Callers \ rest
      BY <1>0, <1>4, <1>9
    <2> HIDE DEF rest
    <2> QED BY <1>9, <1>10, <2>1
  <1>12. CostOf(rest) \in Nat
    <2> HIDE DEF rest
    <2> QED BY <1>0, <1>9, CostOfType
  <1>14. CostOf(all \ {c}) = CostOf(rest) + Cost[y]
    BY <1>9, <1>11
  <1> HIDE DEF rest, all, Adds
  <1>13. CostOf(all) = CostOf(T) + Cost[y]
    BY <1>6, <1>7, <1>11, <1>12, <1>14
  <1> QED BY <1>4, <1>13 DEF all

\* Every set of callers is finite.
LEMMA CallersFinite ==
    ASSUME NEW S \in SUBSET Callers
    PROVE  IsFiniteSet(S)
  BY FS_Subset, CallersAssumption

\* One more member adds its cost or, when it was there, nothing.
LEMMA CostOfOneMore ==
    ASSUME NEW S \in SUBSET Callers, NEW x \in Callers
    PROVE  /\ CostOf(S) <= CostOf(S \cup {x})
           /\ CostOf(S \cup {x}) <= CostOf(S) + Cost[x]
           /\ CostOf(S) \in Nat /\ CostOf(S \cup {x}) \in Nat /\ Cost[x] \in Nat
  <1>1. CostOf(S) \in Nat /\ CostOf(S \cup {x}) \in Nat /\ Cost[x] \in Nat
    <2>1. S \cup {x} \in SUBSET Callers
      OBVIOUS
    <2> QED BY <2>1, CostOfType, CallersAssumption
  <1>2. CASE x \in S
    <2>1. S \cup {x} = S
      BY <1>2
    <2> QED BY <1>1, <2>1
  <1>3. CASE x \notin S
    <2>1. CostOf(S \cup {x}) = CostOf(S) + Cost[x]
      BY <1>3, CostOfAdd
    <2> QED BY <1>1, <2>1
  <1> QED BY <1>2, <1>3

\* What a set gains, its sum gains at most.
LEMMA CostOfUnion ==
    ASSUME NEW A \in SUBSET Callers, NEW B \in SUBSET Callers
    PROVE  /\ CostOf(A \cup B) <= CostOf(A) + CostOf(B)
           /\ CostOf(A) <= CostOf(A \cup B)
  <1> DEFINE Holds(T) == CostOf(A \cup T) <= CostOf(A) + CostOf(T) /\ CostOf(A) <= CostOf(A \cup T)
             Bad == {T \in SUBSET Callers : ~Holds(T)}
  <1>1. SUFFICES ASSUME Bad # {} PROVE FALSE
    OBVIOUS
  <1>2. PICK T \in Bad : \A V \in Bad : V \subseteq T => V = T
    <2> HIDE DEF Bad
    <2>1. IsFiniteSet(Callers) /\ Bad \in SUBSET (SUBSET Callers)
      BY CallersAssumption DEF Bad
    <2> QED BY <1>1, <2>1, SmallestSubset
  <1>3. CostOf(A) \in Nat
    BY CostOfType
  <1>4. T # {}
    <2>1. SUFFICES ASSUME T = {} PROVE Holds({})
      BY <1>2
    <2>2. A \cup {} = A
      OBVIOUS
    <2> QED BY <1>3, <2>2, CostOfEmpty
  <1>5. PICK x \in T : TRUE
    BY <1>4
  <1> DEFINE rest == T \ {x}
  <1>6. /\ rest \in SUBSET Callers /\ A \cup rest \in SUBSET Callers /\ x \in Callers
        /\ x \notin rest /\ rest \cup {x} = T /\ (A \cup rest) \cup {x} = A \cup T
    OBVIOUS
  <1>7. Holds(rest)
    <2>1. rest \subseteq T /\ rest # T /\ rest \in SUBSET Callers
      OBVIOUS
    <2> HIDE DEF Holds, rest
    <2> QED BY <1>2, <2>1
  <1> HIDE DEF rest
  <1>8. CostOf(T) = CostOf(rest) + Cost[x] /\ CostOf(rest) \in Nat /\ Cost[x] \in Nat
    BY <1>6, CostOfAdd, CostOfOneMore
  <1>9. /\ CostOf(A \cup rest) <= CostOf(A \cup T)
        /\ CostOf(A \cup T) <= CostOf(A \cup rest) + Cost[x]
        /\ CostOf(A \cup rest) \in Nat /\ CostOf(A \cup T) \in Nat
    BY <1>6, CostOfOneMore
  <1>10. Holds(T)
    BY <1>3, <1>7, <1>8, <1>9
  <1> QED BY <1>2, <1>10

\* A subset costs no more.
LEMMA CostOfSubset ==
    ASSUME NEW B \in SUBSET Callers, NEW A \in SUBSET B
    PROVE  CostOf(A) <= CostOf(B)
  <1>1. A \cup B = B /\ A \in SUBSET Callers
    OBVIOUS
  <1> QED BY <1>1, CostOfUnion
-----------------------------------------------------------------------------
(* The ledger and the reservations.                                         *)

Settled == {"complete", "error", "cancelled", "interrupted"}

\* What the calls in flight hold is reserved.
ReservedForHolders == CostOf(Holders) <= reserved_query_units

\* What went to Splunk is in flight, or its row says how it ended.
SentOpenOrSettled ==
    \A c \in sent :
        \/ pc[c] = "running" /\ event[c] = "running"
        \/ pc[c] \in {"releasing", "done"} /\ event[c] \in Settled

LedgerInv == TypeOK /\ ReservedForHolders /\ SentOpenOrSettled

\* How the reservation moves with the calls in flight.
UnitMove ==
    \/ Holders' \subseteq Holders /\ reserved_query_units' >= reserved_query_units
    \/ \E c \in Callers : Holders' = Holders \cup {c}
                          /\ reserved_query_units' = reserved_query_units + Cost[c]
    \/ \E c \in Callers : /\ c \in Holders /\ Holders' \subseteq Holders \ {c}
                          /\ reserved_query_units' = Monus(reserved_query_units, Cost[c])
    \/ Holders' = {} /\ reserved_query_units' \in Nat

\* Deciding reserves the units of the caller it lets in, and nothing else.
LEMMA DecideUnits ==
    ASSUME TypeOK, NEW c \in Callers, NEW h, NEW qc, NEW qq, NEW statuses,
           pc[c] \notin {"running", "releasing"}, Decide(c, h, qc, qq, statuses)
    PROVE  UnitMove
  <1>1. CASE Admit(c, h, qc, qq)
    <2>1. Holders' = Holders \cup {c}
      BY <1>1 DEF Admit, Holders, TypeOK
    <2> QED BY <1>1, <2>1 DEF Admit, TakeSlot, UnitMove
  <1>2. ASSUME NEW status, NEW n, NEW m, Leave(c, status, n, m)
        PROVE  Holders' \subseteq Holders
    BY <1>2 DEF Leave, Holders, TypeOK
  <1>3. CASE AdmitReportFails(c, h, qc, qq)
    <2>1. Holders' \subseteq Holders /\ TakeSlot(c)
      BY <1>2, <1>3 DEF AdmitReportFails
    <2>2. reserved_query_units' >= reserved_query_units
      BY <2>1, QueryUnitType DEF TakeSlot, TypeOK
    <2> QED BY <2>1, <2>2 DEF UnitMove
  <1>4. CASE Refuse(c, h, qc, qq) \/ NoPark(c, h, qc, qq, statuses)
    BY <1>2, <1>4 DEF Refuse, NoPark, KeepSlots, UnitMove, TypeOK
  <1>5. CASE Park(c, h, qc, qq)
    BY <1>5 DEF Park, KeepSlots, UnitMove, Holders, TypeOK
  <1> QED BY <1>1, <1>3, <1>4, <1>5 DEF Decide

\* A notification moves no unit.
LEMMA WakeUnits ==
    ASSUME TypeOK, pc' = Wake(pc) \/ UNCHANGED pc, UNCHANGED reserved_query_units
    PROVE  UnitMove
  BY DEF Wake, Holders, UnitMove, TypeOK

\* Giving a slot back returns the units of its caller.
LEMMA GiveBackUnits ==
    ASSUME TypeOK, NEW c \in Callers, c \in Holders, GiveSlotBack(c)
    PROVE  UnitMove
  <1>1. Holders' \subseteq Holders \ {c}
    BY DEF GiveSlotBack, Wake, Holders, TypeOK
  <1> QED BY <1>1 DEF GiveSlotBack, UnitMove

\* Every step moves the reserved units with the calls in flight.
LEMMA UnitStep ==
    ASSUME TypeOK, [Next]_vars
    PROVE  UnitMove
  <1> USE DEF counters
  <1>1. ASSUME NEW c \in Callers, Call(c) PROVE UnitMove
    <2>1. CASE (c \in Unsafe \/ Governed(c, history)) \/ lock # Free
      BY <1>1, <2>1 DEF Call, Holders, TypeOK, UnitMove
    <2>2. CASE ~(c \in Unsafe \/ Governed(c, history)) /\ lock = Free
      BY <1>1, <2>2, DecideUnits DEF Call, FirstPass
    <2> QED BY <2>1, <2>2
  <1>2. ASSUME NEW c \in Callers, Enter(c) \/ Resume(c) PROVE UnitMove
    BY <1>2, DecideUnits DEF Enter, FirstPass, Resume, HasLock
  <1>3. ASSUME NEW c \in Callers, Abandon(c) PROVE UnitMove
    BY <1>3 DEF Abandon, HasLock, Leave, KeepSlots, Holders, UnitMove, TypeOK
  <1>4. ASSUME NEW c \in Callers, NEW why, GiveUp(c, why) PROVE UnitMove
    BY <1>4 DEF GiveUp, Holders, UnitMove, TypeOK
  <1>5. ASSUME NEW c \in Callers, Acquire(c) \/ CancelBeforeEntry(c) \/ AbandonRelease(c)
        PROVE  UnitMove
    BY <1>5 DEF Acquire, CancelBeforeEntry, AbandonRelease, Holders, UnitMove, TypeOK
  <1>6. ASSUME NEW c \in Callers, NEW status \in Outcomes, Finish(c, status) PROVE UnitMove
    <2>1. CASE lock = Free
      BY <1>6, <2>1, GiveBackUnits DEF Finish, Holders
    <2>2. CASE lock # Free
      BY <1>6, <2>2 DEF Finish, Holders, UnitMove, TypeOK
    <2> QED BY <2>1, <2>2
  <1>7. ASSUME NEW c \in Callers, Release(c) PROVE UnitMove
    BY <1>7, GiveBackUnits DEF Release, Holders
  <1>8. ASSUME NEW p \in Policies, UpdatePolicy(p) PROVE UnitMove
    BY <1>8, WakeUnits DEF UpdatePolicy
  <1>9. CASE NotifyPolicy \/ NewDay \/ UNCHANGED vars
    BY <1>9, WakeUnits DEF NotifyPolicy, NewDay, vars
  <1>10. CASE Restart
    BY <1>10 DEF Restart, Holders, UnitMove
  <1> QED BY <1>1, <1>2, <1>3, <1>4, <1>5, <1>6, <1>7, <1>8, <1>9, <1>10
          DEF Next, Step, Quiescent

\* A move of the units keeps every call in flight reserved for.
LEMMA ReservedStep ==
    ASSUME TypeOK, TypeOK', ReservedForHolders, UnitMove
    PROVE  ReservedForHolders'
  <1> DEFINE H == Holders
             G == Holders'
  <1>1. H \in SUBSET Callers /\ G \in SUBSET Callers
    BY DEF Holders
  <1>2. reserved_query_units \in Nat /\ reserved_query_units' \in Nat
    BY DEF TypeOK
  <1>3. CostOf(H) <= reserved_query_units /\ CostOf(H) \in Nat /\ CostOf(G) \in Nat
    BY <1>1, CostOfType DEF ReservedForHolders
  <1>4. SUFFICES CostOf(G) <= reserved_query_units'
    BY DEF ReservedForHolders
  <1> HIDE DEF H, G
  <1>5. CASE Holders' \subseteq Holders /\ reserved_query_units' >= reserved_query_units
    <2>1. CostOf(G) <= CostOf(H)
      BY <1>1, <1>5, CostOfSubset DEF H, G
    <2> QED BY <1>2, <1>3, <1>5, <2>1
  <1>6. ASSUME NEW c \in Callers, Holders' = Holders \cup {c},
               reserved_query_units' = reserved_query_units + Cost[c]
        PROVE  CostOf(G) <= reserved_query_units'
    <2>1. CostOf(G) <= CostOf(H) + Cost[c] /\ Cost[c] \in Nat
      BY <1>1, <1>6, CostOfOneMore DEF H, G
    <2> QED BY <1>2, <1>3, <1>6, <2>1
  <1>7. ASSUME NEW c \in Callers, c \in Holders, Holders' \subseteq Holders \ {c},
               reserved_query_units' = Monus(reserved_query_units, Cost[c])
        PROVE  CostOf(G) <= reserved_query_units'
    <2>1. /\ G \in SUBSET (H \ {c}) /\ H \ {c} \in SUBSET Callers /\ c \in Callers \ (H \ {c})
          /\ (H \ {c}) \cup {c} = H
      BY <1>1, <1>7 DEF H, G
    <2>2. CostOf(G) <= CostOf(H \ {c}) /\ CostOf(H \ {c}) \in Nat
      BY <2>1, CostOfSubset, CostOfType
    <2>3. CostOf((H \ {c}) \cup {c}) = CostOf(H \ {c}) + Cost[c] /\ Cost[c] \in Nat
      BY <2>1, CostOfAdd, CostOfOneMore
    <2>4. CostOf(H) = CostOf(H \ {c}) + Cost[c]
      BY <2>1, <2>3
    <2>5. CostOf(G) <= reserved_query_units - Cost[c]
      BY <1>2, <1>3, <2>2, <2>3, <2>4
    <2>6. reserved_query_units' >= reserved_query_units - Cost[c]
      BY <1>2, <1>7, <2>3 DEF Monus
    <2> QED BY <1>2, <1>3, <2>3, <2>5, <2>6
  <1>8. CASE Holders' = {}
    <2>1. CostOf(G) = 0
      BY <1>8, CostOfEmpty DEF G
    <2> QED BY <1>2, <2>1
  <1> QED BY <1>5, <1>6, <1>7, <1>8 DEF UnitMove

\* Deciding keeps every call that was sent open or settled.
LEMMA DecideSent ==
    ASSUME TypeOK, SentOpenOrSettled, NEW c \in Callers, NEW h, NEW qc, NEW qq, NEW statuses,
           pc[c] \notin {"running", "releasing", "done"}, Decide(c, h, qc, qq, statuses)
    PROVE  SentOpenOrSettled'
  <1>1. c \notin sent
    BY DEF SentOpenOrSettled
  <1>2. CASE Admit(c, h, qc, qq)
    <2>1. pc' = [pc EXCEPT ![c] = "running"] /\ event' = [event EXCEPT ![c] = "running"]
          /\ sent' = sent \cup {c}
      BY <1>2 DEF Admit
    <2> QED BY <1>1, <2>1 DEF SentOpenOrSettled, TypeOK
  <1>3. ASSUME NEW status, NEW n, NEW m, Leave(c, status, n, m)
        PROVE  SentOpenOrSettled'
    BY <1>1, <1>3 DEF Leave, SentOpenOrSettled, TypeOK
  <1>4. CASE AdmitReportFails(c, h, qc, qq) \/ Refuse(c, h, qc, qq) \/ NoPark(c, h, qc, qq, statuses)
    BY <1>3, <1>4 DEF AdmitReportFails, Refuse, NoPark
  <1>5. CASE Park(c, h, qc, qq)
    BY <1>1, <1>5 DEF Park, SentOpenOrSettled, TypeOK
  <1> QED BY <1>2, <1>4, <1>5 DEF Decide

\* Waking sleepers changes nothing for a call that was sent.
LEMMA WakeSent ==
    ASSUME TypeOK, SentOpenOrSettled, pc' = Wake(pc) \/ UNCHANGED pc,
           UNCHANGED <<event, sent>>
    PROVE  SentOpenOrSettled'
  BY DEF Wake, SentOpenOrSettled, TypeOK

\* Every step keeps a call that was sent open, or its row settled.
LEMMA SentStep ==
    ASSUME TypeOK, SentOpenOrSettled, [Next]_vars
    PROVE  SentOpenOrSettled'
  <1> USE DEF counters, ledger, Settled
  <1>1. ASSUME NEW c \in Callers, Call(c) PROVE SentOpenOrSettled'
    <2>1. CASE (c \in Unsafe \/ Governed(c, history)) \/ lock # Free
      BY <1>1, <2>1 DEF Call, SentOpenOrSettled, TypeOK
    <2>2. CASE ~(c \in Unsafe \/ Governed(c, history)) /\ lock = Free
      BY <1>1, <2>2, DecideSent DEF Call, FirstPass
    <2> QED BY <2>1, <2>2
  <1>2. ASSUME NEW c \in Callers, Enter(c) \/ Resume(c) PROVE SentOpenOrSettled'
    BY <1>2, DecideSent DEF Enter, FirstPass, Resume, HasLock
  <1>3. ASSUME NEW c \in Callers, Abandon(c) PROVE SentOpenOrSettled'
    BY <1>3 DEF Abandon, HasLock, Leave, SentOpenOrSettled, TypeOK
  <1>4. ASSUME NEW c \in Callers, NEW why, GiveUp(c, why) PROVE SentOpenOrSettled'
    BY <1>4 DEF GiveUp, SentOpenOrSettled, TypeOK
  <1>5. ASSUME NEW c \in Callers, Acquire(c) \/ CancelBeforeEntry(c) \/ AbandonRelease(c)
        PROVE  SentOpenOrSettled'
    BY <1>5 DEF Acquire, CancelBeforeEntry, AbandonRelease, SentOpenOrSettled, TypeOK
  <1>6. ASSUME NEW c \in Callers, NEW status \in Outcomes, Finish(c, status)
        PROVE  SentOpenOrSettled'
    <2>1. status \in Settled
      BY DEF Outcomes
    <2>2. event' = [event EXCEPT ![c] = status] /\ UNCHANGED sent /\ pc[c] = "running"
      BY <1>6 DEF Finish
    <2>3. pc'[c] \in {"done", "releasing"} /\ \A d \in Callers \ {c} :
              pc[d] \in {"running", "releasing", "done"} => pc'[d] = pc[d]
      BY <1>6 DEF Finish, GiveSlotBack, Wake, TypeOK
    <2> QED BY <2>1, <2>2, <2>3 DEF SentOpenOrSettled, TypeOK
  <1>7. ASSUME NEW c \in Callers, Release(c) PROVE SentOpenOrSettled'
    <2>1. UNCHANGED <<event, sent>> /\ pc[c] = "releasing"
      BY <1>7 DEF Release
    <2>2. pc'[c] = "done" /\ \A d \in Callers \ {c} :
              pc[d] \in {"running", "releasing", "done"} => pc'[d] = pc[d]
      BY <1>7 DEF Release, GiveSlotBack, Wake, TypeOK
    <2> QED BY <2>1, <2>2 DEF SentOpenOrSettled, TypeOK
  <1>8. ASSUME NEW p \in Policies, UpdatePolicy(p) PROVE SentOpenOrSettled'
    BY <1>8, WakeSent DEF UpdatePolicy
  <1>9. CASE NotifyPolicy \/ UNCHANGED vars
    BY <1>9, WakeSent DEF NotifyPolicy, vars
  <1>10. CASE NewDay
    BY <1>10 DEF NewDay, SentOpenOrSettled
  <1>11. CASE Restart
    <2>1. ASSUME NEW c \in sent PROVE pc'[c] = "done" /\ event'[c] \in Settled
      BY <1>11, <2>1 DEF Restart, SentOpenOrSettled, TypeOK
    <2>2. UNCHANGED sent
      BY <1>11 DEF Restart
    <2> QED BY <2>1, <2>2 DEF SentOpenOrSettled
  <1> QED BY <1>1, <1>2, <1>3, <1>4, <1>5, <1>6, <1>7, <1>8, <1>9, <1>10, <1>11
          DEF Next, Step, Quiescent

\* The three parts of the ledger's invariant hold in every reachable state.
LEMMA LedgerInvariant == Spec => []LedgerInv
  <1>1. Init => ReservedForHolders /\ SentOpenOrSettled
    <2> SUFFICES ASSUME Init PROVE ReservedForHolders /\ SentOpenOrSettled
      OBVIOUS
    <2>1. Holders = {} /\ reserved_query_units = 0 /\ sent = {}
      BY DEF Init, Holders
    <2> QED BY <2>1, CostOfEmpty DEF ReservedForHolders, SentOpenOrSettled
  <1>2. LedgerInv /\ [Next]_vars => LedgerInv'
    BY TypeStep, UnitStep, ReservedStep, SentStep DEF LedgerInv
  <1>3. LedgerInv <=> TypeOK /\ ReservedForHolders /\ SentOpenOrSettled
    BY DEF LedgerInv
  <1> QED BY <1>1, <1>2, <1>3, TypeCorrect, PTL DEF Spec

\* What a query of today was charged is in the usage of any history that still has its
\* row, or reserved.
LEMMA UsageOrReserved ==
    ASSUME LedgerInv, NEW h, Charged \subseteq Retained(h)
    PROVE  /\ CostOf(Charged) <= daily_usage(h) + reserved_query_units
           /\ CostOf(Charged) \in Nat /\ daily_usage(h) \in Nat
  <1> DEFINE Used == {c \in (Retained(h) \cap Queries) \ yesterday :
                          event[c] \in {"complete", "error", "interrupted"}}
  <1>1. Charged \in SUBSET Callers /\ Used \in SUBSET Callers /\ Holders \in SUBSET Callers
    BY CallersAssumption DEF Charged, Holders
  <1>2. Charged \subseteq Used \cup Holders
    BY DEF Charged, LedgerInv, SentOpenOrSettled, Settled, Holders, TypeOK
  <1>3. daily_usage(h) = CostOf(Used)
    BY DEF daily_usage
  <1> HIDE DEF Used
  <1>4. CostOf(Charged) <= CostOf(Used \cup Holders) /\ Used \cup Holders \in SUBSET Callers
    BY <1>1, <1>2, CostOfSubset
  <1>5. CostOf(Used \cup Holders) <= CostOf(Used) + CostOf(Holders)
    BY <1>1, CostOfUnion
  <1>6. CostOf(Holders) <= reserved_query_units /\ reserved_query_units \in Nat
    BY DEF LedgerInv, ReservedForHolders, TypeOK
  <1>7. /\ CostOf(Charged) \in Nat /\ CostOf(Used) \in Nat /\ CostOf(Holders) \in Nat
        /\ CostOf(Used \cup Holders) \in Nat
    BY <1>1, <1>4, CostOfType
  <1> QED BY <1>3, <1>4, <1>5, <1>6, <1>7
-----------------------------------------------------------------------------
(* The rows the ledger keeps.                                               *)

\* No row of a charged query has been deleted to make room for a newer one.
RowsKept == Charged \subseteq Retained(history)

\* With no more callers than rows kept, every call that began has its row.
Begun == {c \in Callers : pc[c] # "idle"}
EveryCallHasRow ==
    Begun \subseteq Retained(history) /\ Len(history) <= Cardinality(Begun)

\* Appending a row to a history that is not full deletes none.
LEMMA AppendedKeeps ==
    ASSUME history \in Seq(Callers), NEW c \in Callers, Len(history) < HistoryLimit
    PROVE  /\ Retained(Appended(c)) = Retained(history) \cup {c}
           /\ Len(Appended(c)) = Len(history) + 1
  <1>1. Len(history) \in Nat /\ HistoryLimit \in Nat
    BY BoundsAssumption
  <1> DEFINE h == Append(history, c)
  <1>2. /\ Len(h) = Len(history) + 1 /\ h[Len(history) + 1] = c
        /\ \A i \in 1 .. Len(history) : h[i] = history[i]
    BY AppendProperties
  <1>3. Appended(c) = h
    <2>1. ~(Len(h) > HistoryLimit)
      BY <1>1, <1>2
    <2> QED BY <2>1 DEF Appended
  <1> HIDE DEF h
  <1>4. \A i \in 1 .. Len(h) : i \in 1 .. Len(history) \/ i = Len(history) + 1
    BY <1>1, <1>2
  <1>5. 1 .. Len(history) \subseteq 1 .. Len(h) /\ Len(history) + 1 \in 1 .. Len(h)
    BY <1>1, <1>2
  <1>6. Retained(h) = Retained(history) \cup {c}
    BY <1>2, <1>4, <1>5 DEF Retained
  <1> QED BY <1>2, <1>3, <1>6

\* Only a new call changes the history or the set of calls that began.
LEMMA BegunStep ==
    ASSUME TypeOK, [Next]_vars
    PROVE  \/ Begun' = Begun /\ history' = history
           \/ \E c \in Callers \ Begun : Begun' = Begun \cup {c} /\ history' = Appended(c)
  <1> DEFINE Same == Begun' = Begun /\ history' = history
             New(c) == Begun' = Begun \cup {c} /\ history' = Appended(c)
  <1> USE DEF counters, ledger
  <1>1. ASSUME NEW c \in Callers, NEW h, NEW qc, NEW qq, NEW statuses, Decide(c, h, qc, qq, statuses)
        PROVE  \E place \in Places \ {"idle"} : pc' = [pc EXCEPT ![c] = place]
    <2>1. ASSUME NEW status, NEW n, NEW m, Leave(c, status, n, m)
          PROVE  pc' = [pc EXCEPT ![c] = "done"]
      BY <2>1 DEF Leave
    <2>2. \/ \E status, n, m : Leave(c, status, n, m)
          \/ pc' = [pc EXCEPT ![c] = "running"]
          \/ pc' = [pc EXCEPT ![c] = "waiting"]
      BY <1>1 DEF Decide, Refuse, Admit, AdmitReportFails, Park, NoPark
    <2>3. "done" \in Places \ {"idle"} /\ "running" \in Places \ {"idle"} /\ "waiting" \in Places \ {"idle"}
      OBVIOUS
    <2> QED BY <2>1, <2>2, <2>3
  <1>2. ASSUME NEW c \in Callers, Call(c) PROVE c \notin Begun /\ New(c)
    <2>1. pc[c] = "idle" /\ history' = Appended(c)
      BY <1>2 DEF Call
    <2>2. \E place \in Places \ {"idle"} : pc' = [pc EXCEPT ![c] = place]
      <3>1. "done" \in Places \ {"idle"} /\ "admitting" \in Places \ {"idle"}
        OBVIOUS
      <3>2. \/ pc' = [pc EXCEPT ![c] = "done"] \/ pc' = [pc EXCEPT ![c] = "admitting"]
            \/ FirstPass(c, Appended(c))
        BY <1>2 DEF Call
      <3> QED BY <1>1, <3>1, <3>2 DEF FirstPass
    <2> QED BY <2>1, <2>2 DEF Begun, TypeOK
  <1>3. ASSUME NEW c \in Callers, Enter(c) \/ Resume(c) PROVE Same
    <2>1. pc[c] # "idle" /\ history' = history
      BY <1>3 DEF Enter, Resume, HasLock
    <2>2. \E place \in Places \ {"idle"} : pc' = [pc EXCEPT ![c] = place]
      BY <1>1, <1>3 DEF Enter, Resume, FirstPass
    <2> QED BY <2>1, <2>2 DEF Begun, TypeOK
  <1>4. ASSUME NEW c \in Callers, Abandon(c) PROVE Same
    BY <1>4 DEF Abandon, HasLock, Leave, Begun, TypeOK
  <1>5. ASSUME NEW c \in Callers, NEW why, GiveUp(c, why) PROVE Same
    BY <1>5 DEF GiveUp, Begun, TypeOK
  <1>6. ASSUME NEW c \in Callers, Acquire(c) \/ CancelBeforeEntry(c) \/ AbandonRelease(c) PROVE Same
    BY <1>6 DEF Acquire, CancelBeforeEntry, AbandonRelease, Begun, TypeOK
  <1>7. ASSUME NEW c \in Callers, NEW status \in Outcomes, Finish(c, status) PROVE Same
    BY <1>7 DEF Finish, GiveSlotBack, Wake, Begun, TypeOK
  <1>8. ASSUME NEW c \in Callers, Release(c) PROVE Same
    BY <1>8 DEF Release, GiveSlotBack, Wake, Begun, TypeOK
  <1>9. ASSUME NEW p \in Policies, UpdatePolicy(p) PROVE Same
    BY <1>9 DEF UpdatePolicy, Wake, Begun, TypeOK
  <1>10. ASSUME NotifyPolicy PROVE Same
    BY <1>10 DEF NotifyPolicy, Wake, Begun, TypeOK
  <1>11. ASSUME NewDay \/ UNCHANGED vars PROVE Same
    BY <1>11 DEF NewDay, vars, Begun
  <1>12. ASSUME Restart PROVE Same
    BY <1>12 DEF Restart, Begun, TypeOK
  <1> HIDE DEF Same, New
  <1>13. ASSUME NEW c \in Callers, Step(c) PROVE Same \/ (c \notin Begun /\ New(c))
    BY <1>2, <1>3, <1>4, <1>5, <1>6, <1>7, <1>8, <1>13 DEF Step
  <1>14. Same \/ \E c \in Callers \ Begun : New(c)
    <2>1. ASSUME NEW c \in Callers, Step(c) PROVE Same \/ \E d \in Callers \ Begun : New(d)
      <3>1. CASE c \notin Begun /\ New(c)
        <4>1. c \in Callers \ Begun
          BY <3>1
        <4> QED BY <3>1, <4>1
      <3> QED BY <1>13, <2>1, <3>1
    <2> QED BY <1>9, <1>10, <1>11, <1>12, <2>1 DEF Next, Quiescent
  <1> QED BY <1>14 DEF Same, New

\* A call that began has its row as long as the history is not full.
LEMMA RowStep ==
    ASSUME TypeOK, EveryCallHasRow, [Next]_vars, Cardinality(Callers) <= HistoryLimit
    PROVE  EveryCallHasRow'
  <1>1. CASE Begun' = Begun /\ history' = history
    BY <1>1 DEF EveryCallHasRow, Retained
  <1>2. ASSUME NEW c \in Callers \ Begun, Begun' = Begun \cup {c}, history' = Appended(c)
        PROVE  EveryCallHasRow'
    <2>1. Begun \subseteq Callers /\ IsFiniteSet(Begun) /\ history \in Seq(Callers) /\ Len(history) \in Nat
      BY CallersFinite DEF Begun, TypeOK
    <2>2. /\ Cardinality(Begun) \in Nat /\ Cardinality(Callers) \in Nat
          /\ Cardinality(Begun) <= Cardinality(Callers) - 1
      BY <2>1, FewerMembers, CallersAssumption
    <2>3. Len(history) < HistoryLimit
      BY <2>1, <2>2, BoundsAssumption DEF EveryCallHasRow
    <2>4. /\ Retained(history') = Retained(history) \cup {c}
          /\ Len(history') = Len(history) + 1
      BY <1>2, <2>1, <2>3, AppendedKeeps
    <2>5. Cardinality(Begun') = Cardinality(Begun) + 1
      BY <1>2, <2>1, FS_AddElement
    <2>6. Len(history') <= Cardinality(Begun')
      BY <2>1, <2>2, <2>4, <2>5 DEF EveryCallHasRow
    <2>7. Begun' \subseteq Retained(history')
      BY <1>2, <2>4 DEF EveryCallHasRow
    <2> QED BY <2>6, <2>7 DEF EveryCallHasRow, Retained
  <1> QED BY <1>1, <1>2, BegunStep

\* With no more callers than rows kept, every call has its row.
LEMMA RowsInvariant ==
    ASSUME Cardinality(Callers) <= HistoryLimit
    PROVE  Spec => []EveryCallHasRow
  <1>1. Init => EveryCallHasRow
    <2> SUFFICES ASSUME Init PROVE EveryCallHasRow
      OBVIOUS
    <2>1. Begun = {} /\ history = <<>>
      BY DEF Init, Begun
    <2> QED BY <2>1, FS_EmptySet DEF EveryCallHasRow
  <1>2. TypeOK /\ EveryCallHasRow /\ [Next]_vars => EveryCallHasRow'
    BY RowStep
  <1> QED BY <1>1, <1>2, TypeCorrect, PTL DEF Spec

\* So no row of a charged query is ever deleted.
LEMMA RowsAreKept ==
    ASSUME LedgerInv, EveryCallHasRow
    PROVE  RowsKept
  BY DEF LedgerInv, SentOpenOrSettled, EveryCallHasRow, RowsKept, Charged, Begun, TypeOK

\* As long as no row of a charged query was deleted, what was issued today is in the
\* sum the budget is checked against, across failures, cancellations and restarts.
THEOREM KeptLedgerCovers == Spec => [](RowsKept => LedgerCoversSent)
  <1>1. LedgerInv => (RowsKept => LedgerCoversSent)
    BY UsageOrReserved DEF RowsKept, LedgerCoversSent
  <1> QED BY <1>1, LedgerInvariant, PTL

\* So it always is when the instance sees no more calls than rows are kept.
THEOREM LedgerAlwaysCovers ==
    ASSUME Cardinality(Callers) <= HistoryLimit
    PROVE  Spec => []LedgerCoversSent
  <1>1. LedgerInv /\ EveryCallHasRow => LedgerCoversSent
    BY RowsAreKept, UsageOrReserved DEF RowsKept, LedgerCoversSent
  <1> QED BY <1>1, LedgerInvariant, RowsInvariant, PTL
-----------------------------------------------------------------------------
(* The policy in force at an admission.                                     *)

\* A call begins only in an admission, decided on the rows of the history it leaves.
LEMMA BeginsByAdmission ==
    ASSUME TypeOK, [Next]_vars, NEW c \in Callers, Begins(c)
    PROVE  /\ \E qc, qq : Admit(c, history', qc, qq)
           /\ UNCHANGED <<policy, yesterday>>
  <1> USE DEF counters
  <1>1. ASSUME NEW d \in Callers, NEW h, NEW qc, NEW qq, NEW statuses,
               Decide(d, h, qc, qq, statuses)
        PROVE  d = c /\ Admit(c, h, qc, qq)
    <2>1. d = c
      BY <1>1 DEF Decide, Refuse, Admit, AdmitReportFails, Park, NoPark, Leave, Begins, TypeOK
    <2>2. ASSUME NEW status, NEW n, NEW m, Leave(c, status, n, m) PROVE FALSE
      BY <2>2 DEF Leave, Begins, TypeOK
    <2> QED BY <1>1, <2>1, <2>2 DEF Decide, Refuse, AdmitReportFails, Park, NoPark, Begins, TypeOK
  <1>2. ASSUME NEW d \in Callers, Call(d)
        PROVE  (\E qc, qq : Admit(c, history', qc, qq)) /\ UNCHANGED <<policy, yesterday>>
    <2>1. ~(d \in Unsafe \/ Governed(d, history)) /\ lock = Free
      BY <1>2 DEF Call, Begins, TypeOK
    <2> QED BY <1>1, <1>2, <2>1 DEF Call, FirstPass
  <1>3. ASSUME NEW d \in Callers, Enter(d) \/ Resume(d)
        PROVE  (\E qc, qq : Admit(c, history', qc, qq)) /\ UNCHANGED <<policy, yesterday>>
    BY <1>1, <1>3 DEF Enter, FirstPass, Resume
  <1>4. ASSUME NEW d \in Callers, Abandon(d) PROVE FALSE
    BY <1>4 DEF Abandon, HasLock, Leave, Begins, TypeOK
  <1>5. ASSUME NEW d \in Callers, NEW why, GiveUp(d, why) PROVE FALSE
    BY <1>5 DEF GiveUp, Begins, TypeOK
  <1>6. ASSUME NEW d \in Callers, Acquire(d) \/ CancelBeforeEntry(d) \/ AbandonRelease(d) PROVE FALSE
    BY <1>6 DEF Acquire, CancelBeforeEntry, AbandonRelease, Begins, TypeOK
  <1>7. ASSUME NEW d \in Callers, NEW status \in Outcomes, Finish(d, status) PROVE FALSE
    BY <1>7 DEF Finish, GiveSlotBack, Wake, Begins, TypeOK
  <1>8. ASSUME NEW d \in Callers, Release(d) PROVE FALSE
    BY <1>8 DEF Release, GiveSlotBack, Wake, Begins, TypeOK
  <1>9. ASSUME NEW p \in Policies, UpdatePolicy(p) PROVE FALSE
    BY <1>9 DEF UpdatePolicy, Wake, Begins, TypeOK
  <1>10. CASE NotifyPolicy \/ NewDay \/ Restart \/ UNCHANGED vars
    BY <1>10 DEF NotifyPolicy, NewDay, Restart, vars, Wake, Begins, TypeOK
  <1> QED BY <1>2, <1>3, <1>4, <1>5, <1>6, <1>7, <1>8, <1>9, <1>10 DEF Next, Step, Quiescent

\* A governed query that begins is within the thresholds, and within the daily budget
\* together with all that the kept rows account for.
LEMMA AdmissionWithinPolicy ==
    ASSUME LedgerInv, [Next]_vars, NEW c \in Queries, Begins(c), policy.mode = "enforce"
    PROVE  /\ Risk[c] <= policy.max_query_risk_score
           /\ Cost[c] <= policy.max_query_cost_units
           /\ RowsKept' => CostOf(Charged') <= policy.daily_query_cost_units
  <1>1. c \in Callers /\ TypeOK
    BY CallersAssumption DEF LedgerInv
  <1>2. /\ \E qc, qq : Admit(c, history', qc, qq)
        /\ UNCHANGED <<policy, yesterday>>
    BY <1>1, BeginsByAdmission
  <1>3. ~OverThreshold(c, history')
    BY <1>2 DEF Admit, Governed
  <1>4. /\ policy.max_query_risk_score \in Nat /\ policy.max_query_cost_units \in Nat
        /\ policy.daily_query_cost_units \in Nat /\ Risk[c] \in Nat /\ Cost[c] \in Nat
        /\ reserved_query_units \in Nat
    BY <1>1, BoundsAssumption, CallersAssumption DEF TypeOK, PolicyType
  <1>5. Risk[c] <= policy.max_query_risk_score /\ Cost[c] <= policy.max_query_cost_units
    BY <1>3, <1>4 DEF OverThreshold
  <1> SUFFICES ASSUME RowsKept' PROVE CostOf(Charged') <= policy.daily_query_cost_units
    BY <1>5
  <1>6. /\ sent' = sent \cup {c} /\ event' = [event EXCEPT ![c] = "running"]
    BY <1>2 DEF Admit
  <1>7. Charged \subseteq Charged' /\ Charged' \subseteq Charged \cup {c}
    BY <1>1, <1>2, <1>6 DEF Charged, TypeOK
  <1>8. Charged \subseteq Retained(history')
    BY <1>7 DEF RowsKept, Retained
  <1>9. /\ CostOf(Charged) <= daily_usage(history') + reserved_query_units
        /\ CostOf(Charged) \in Nat /\ daily_usage(history') \in Nat
    BY <1>8, UsageOrReserved
  <1>10. daily_usage(history') + reserved_query_units + Cost[c] <= policy.daily_query_cost_units
    BY <1>3, <1>4, <1>9 DEF OverThreshold
  <1>11. Charged \in SUBSET Callers
    BY CallersAssumption DEF Charged
  <1>12. CostOf(Charged') <= CostOf(Charged \cup {c}) /\ CostOf(Charged') \in Nat
    <2> DEFINE new == Charged'
    <2>1. Charged \cup {c} \in SUBSET Callers /\ new \in SUBSET (Charged \cup {c}) /\ new \in SUBSET Callers
      BY <1>1, <1>7, <1>11
    <2> HIDE DEF new
    <2>2. CostOf(new) <= CostOf(Charged \cup {c}) /\ CostOf(new) \in Nat
      BY <2>1, CostOfSubset, CostOfType
    <2> QED BY <2>2 DEF new
  <1>13. CostOf(Charged \cup {c}) <= CostOf(Charged) + Cost[c] /\ CostOf(Charged \cup {c}) \in Nat
    BY <1>1, <1>11, CostOfOneMore
  <1> QED BY <1>4, <1>9, <1>10, <1>12, <1>13

\* A query begins in enforce mode only within the risk and the cost of the policy in
\* force, and within its daily budget unless the row of a charged query was deleted.
THEOREM KeptAdmissionsFollowPolicy ==
    Spec => [][\A c \in Queries : (Begins(c) /\ policy.mode = "enforce") =>
                   /\ Risk[c] <= policy.max_query_risk_score
                   /\ Cost[c] <= policy.max_query_cost_units
                   /\ RowsKept' => CostOf(Charged') <= policy.daily_query_cost_units]_vars
  <1> DEFINE Within ==
        \A c \in Queries : (Begins(c) /\ policy.mode = "enforce") =>
            /\ Risk[c] <= policy.max_query_risk_score
            /\ Cost[c] <= policy.max_query_cost_units
            /\ RowsKept' => CostOf(Charged') <= policy.daily_query_cost_units
  <1>1. LedgerInv /\ [Next]_vars => [Within]_vars
    BY AdmissionWithinPolicy
  <1> QED BY <1>1, LedgerInvariant, PTL DEF Spec

\* A query begins in enforce mode only within the risk, the cost and the daily budget of
\* the policy in force, for any number of callers up to the rows the ledger keeps.
THEOREM AdmissionsFollowPolicy ==
    ASSUME Cardinality(Callers) <= HistoryLimit
    PROVE  Spec => AdmittedUnderCurrentPolicy
  <1> DEFINE Within ==
        \A c \in Queries : (Begins(c) /\ policy.mode = "enforce") =>
            /\ Risk[c] <= policy.max_query_risk_score
            /\ Cost[c] <= policy.max_query_cost_units
            /\ CostOf(Charged') <= policy.daily_query_cost_units
  <1>1. LedgerInv /\ EveryCallHasRow => RowsKept
    BY RowsAreKept
  <1>2. LedgerInv /\ RowsKept' /\ [Next]_vars => [Within]_vars
    BY AdmissionWithinPolicy
  <1> QED BY <1>1, <1>2, LedgerInvariant, RowsInvariant, PTL DEF AdmittedUnderCurrentPolicy, Spec
=============================================================================
