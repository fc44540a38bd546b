------------------------------- MODULE DurableRuns -------------------------------
(***************************************************************************)
(* What a durable job service promises of its jobs: manual discovery and   *)
(* continuous assurance both implement it.  One job at a time; an          *)
(* interrupted job is tried again from the start; an explicit cancellation *)
(* is terminal.                                                            *)
(***************************************************************************)
CONSTANT Runs

VARIABLES
    phase,      \* how far each run is
    cancelling  \* the runs an operator has asked to stop

vars == <<phase, cancelling>>

TypeOK ==
    /\ phase \in [Runs -> {"none", "queued", "running", "ended", "cancelled"}]
    /\ cancelling \subseteq Runs

Pending == {r \in Runs : phase[r] \in {"queued", "running"}}

Init == phase = [r \in Runs |-> "none"] /\ cancelling = {}

Moves(r, from, to) ==
    /\ phase[r] = from /\ phase' = [phase EXCEPT ![r] = to]
    /\ UNCHANGED cancelling

Submit(r) == Pending = {} /\ Moves(r, "none", "queued")

Start(r) == r \notin cancelling /\ Moves(r, "queued", "running")

\* A run ends with a result or an error, possibly before it has really started.
Finish(r) == r \notin cancelling /\ (Moves(r, "running", "ended") \/ Moves(r, "queued", "ended"))

Retry(r) == r \notin cancelling /\ Moves(r, "running", "queued")

\* A run that waits is cancelled at once, one that runs when it notices.
Cancel(r) ==
    /\ r \in Pending \ cancelling
    /\ cancelling' = cancelling \cup {r}
    /\ phase' = [phase EXCEPT ![r] = IF @ = "queued" THEN "cancelled" ELSE @]

Obey(r) == r \in cancelling /\ Moves(r, "running", "cancelled")

Next == \E r \in Runs : Submit(r) \/ Start(r) \/ Finish(r) \/ Retry(r) \/ Cancel(r) \/ Obey(r)

Spec == Init /\ [][Next]_vars
=============================================================================
