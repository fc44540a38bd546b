--------------------------- MODULE AssuranceSignals ---------------------------
(***************************************************************************)
(* What a completed assurance run becomes: assurance/response.py over the  *)
(* signal and package tables of assurance/store.py, for one tenant.        *)
(*                                                                         *)
(* A run reports signals.  A signal that repeats, or is urgent, is         *)
(* persistent; one that a complete run looks for and does not report is    *)
(* resolved.  The persistent signals no open package covers are put in a   *)
(* new package, with validation drafts and a notice.  All of it happens in *)
(* one callback that awaits nothing, in several commits.                   *)
(*                                                                         *)
(* One signal of each kind stands for the kind ("finding" also for         *)
(* coverage and mltk, which are never urgent); the same signal on two      *)
(* connections is two signals.                                             *)
(***************************************************************************)
EXTENDS Naturals, FiniteSets, Sequences

CONSTANTS
    Scopes,       \* connection revisions of the tenant
    PackageSize,  \* signals a package takes; 12 in the code
    MaxReports,   \* bound: runs completed
    MaxPackages   \* bound: packages opened

ASSUME SignalsAssumption == PackageSize \in Nat \ {0}

Kinds == {"finding", "inventory", "collection"}
Signals == Scopes \X Kinds
Depths == {"quick", "standard"}
Commits == <<"correlated", "opened", "drafted", "noticed">>

VARIABLES
    signals,    \* assurance_signals: status and consecutive_count of each
    packages,   \* assurance_packages: their signals, status and drafts
    drafts,     \* queries of the live validation tasks
    notices,    \* unacknowledged notices: the packages' titles
    warrant,    \* history: what complete reads say of a signal: 2 if one found it urgent
                \* or two found it since one last looked and did not, 1 if one did
    reports     \* count for the bound

signalVars == <<signals, packages, drafts, notices, warrant, reports>>

SignalsInit ==
    /\ signals = [s \in Signals |-> [status |-> "none", count |-> 0]]
    /\ packages = <<>> /\ drafts = {} /\ notices = {}
    /\ warrant = [s \in Signals |-> 0]
    /\ reports = 0

-----------------------------------------------------------------------------
\* A run's result: its connection, its depth, whether every collection call came
\* back, the kinds it reports and whether the finding is urgent.  A failed call is
\* itself a signal.

Results ==
    {r \in [scope : Scopes, depth : Depths, complete : BOOLEAN,
            found : SUBSET {"finding", "inventory"}, urgent : BOOLEAN] :
        r.urgent => "finding" \in r.found}

Reported(r) == {r.scope} \X (r.found \cup IF r.complete THEN {} ELSE {"collection"})
Authoritative(r, s) == r.complete \/ s[2] = "collection"
\* What an incomplete collection derives is never urgent.
Urgent(r, s) == s[2] = "collection" \/ (s[2] = "finding" /\ r.urgent /\ r.complete)
LookedFor(r) ==
    {"inventory", "collection"} \cup IF r.depth = "standard" THEN {"finding"} ELSE {}

\* Mutant: an absence counts for every kind, whatever the depth of the run.
AllAbsent(r) == {s \in Signals : r.complete /\ s \notin Reported(r)}
Absent(r) == {s \in AllAbsent(r) : s[2] \in LookedFor(r)}

Sighted(r, s) ==
    LET row == signals[s]
        n == IF row.status \in {"none", "resolved"} THEN 1 ELSE row.count + 1
    IN  IF Authoritative(r, s)
        THEN [status |-> IF Urgent(r, s) \/ n >= 2 THEN "persistent" ELSE "watching",
              count |-> IF n > 2 THEN 2 ELSE n]
        ELSE [status |-> IF row.status = "none" THEN "watching" ELSE row.status,
              count |-> row.count]

Correlated(r) ==
    [s \in Signals |->
        IF s \in Reported(r) THEN Sighted(r, s)
        ELSE IF s \in Absent(r) /\ signals[s].status \notin {"none", "resolved"}
        THEN [signals[s] EXCEPT !.status = "resolved", !.count = 0]
        ELSE signals[s]]

\* What the run says, by its own words, of every signal of the tenant.
Warranted(r) ==
    [s \in Signals |->
        IF s \in Reported(r)
        THEN IF ~Authoritative(r, s) THEN warrant[s]
             ELSE IF Urgent(r, s) \/ warrant[s] > 0 THEN 2 ELSE 1
        ELSE IF r.complete /\ (r.depth = "standard" \/ s[2] # "finding") THEN 0
        ELSE warrant[s]]

\* Mutant: open packages do not count.
NothingCovered == {}
Covered == UNION {packages[i].signals : i \in {j \in DOMAIN packages : packages[j].status = "review"}}

Eligible(r, rows) ==
    {s \in Reported(r) : /\ rows[s].status = "persistent"
                         /\ s \notin Covered /\ Authoritative(r, s)}

\* As many as a package takes, the most urgent first.
Selections(r, eligible) ==
    {some \in SUBSET eligible :
        /\ Cardinality(some) = IF Cardinality(eligible) < PackageSize
                               THEN Cardinality(eligible) ELSE PackageSize
        /\ \A s \in some : \A t \in eligible \ some : Urgent(r, t) => Urgent(r, s)}

\* The finding's own query, or the inventory query; a live task for it is used again.
DraftQueries(some) == {s[2] : s \in some} \ {"collection"}

\* The package, its drafts and the notice, as far as the process lives.
open_package(some, commits) ==
    LET staged == IF commits >= 3 THEN DraftQueries(some) ELSE {}
    IN  /\ Len(packages) < MaxPackages
        /\ packages' = Append(packages, [signals |-> some, status |-> "review", drafts |-> staged])
        /\ drafts' = drafts \cup staged
        /\ notices' = IF commits = 4 THEN notices \cup {Cardinality(some)} ELSE notices

process(r) ==
    /\ reports < MaxReports /\ reports' = reports + 1
    /\ signals' = Correlated(r)
    /\ warrant' = Warranted(r)
    /\ \E some \in Selections(r, Eligible(r, signals')) :
        \/ /\ some = {}
           /\ UNCHANGED <<packages, drafts, notices>>
        \/ /\ some # {}
           /\ \/ UNCHANGED <<packages, drafts, notices>>   \* killed after the correlation
              \/ \E commits \in 2..Len(Commits) : open_package(some, commits)

-----------------------------------------------------------------------------
acknowledge(n) ==
    /\ n \in notices
    /\ notices' = notices \ {n}
    /\ UNCHANGED <<signals, packages, drafts, warrant, reports>>

close_package(i) ==
    /\ packages[i].status = "review"
    /\ packages' = [packages EXCEPT ![i].status = "closed"]
    /\ UNCHANGED <<signals, drafts, notices, warrant, reports>>

\* Seven days on, at the next read of the packages.
expire_packages(i) ==
    /\ packages[i].status = "review"
    /\ packages' = [packages EXCEPT ![i].status = "expired"]
    /\ UNCHANGED <<signals, drafts, notices, warrant, reports>>

\* A draft is executed, deleted or expires: it is not used again.
settle(d) ==
    /\ d \in drafts
    /\ drafts' = drafts \ {d}
    /\ UNCHANGED <<signals, packages, notices, warrant, reports>>

SignalsNext ==
    \/ \E r \in Results : process(r)
    \/ \E i \in DOMAIN packages : close_package(i) \/ expire_packages(i)
    \/ \E n \in notices : acknowledge(n)
    \/ \E d \in drafts : settle(d)

SignalsSpec == SignalsInit /\ [][SignalsNext]_signalVars

-----------------------------------------------------------------------------
\* Partial and shallow runs decide nothing about what they did not see: a signal is
\* acted on only when complete reads warrant it, and resolved only when one looked
\* for it in vain.
CompleteReadsDecide ==
    \A s \in Signals : /\ signals[s].status = "persistent" => warrant[s] = 2
                       /\ signals[s].status = "resolved" => warrant[s] = 0

\* However runs are interrupted and packages closed, no signal is under review twice.
SignalInOneReview ==
    \A i, j \in DOMAIN packages :
        /\ packages[i].status = "review" /\ packages[j].status = "review"
        /\ packages[i].signals \cap packages[j].signals # {}
        => i = j
=============================================================================
