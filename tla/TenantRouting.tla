--------------------------- MODULE TenantRouting ---------------------------
(***************************************************************************)
(* The tenant data plane (tenancy/data_plane.py, routed_workflows.py) and  *)
(* the retention of superseded tenant storage (retention.py).              *)
(*                                                                         *)
(* Every tenant's records live in shared stores until an administrator     *)
(* stages a copy of them (a generation), checks its digest and cuts the    *)
(* tenant's route over to it.  A route may be rolled back while the        *)
(* generation has seen no write; later a verified reverse snapshot brings  *)
(* the records back, or lets the tenant's shared duplicates be purged.     *)
(*                                                                         *)
(* Records are versions: shared[c][t] and generations[g][c] hold the       *)
(* version of tenant t's records in component c, NoRows when there are     *)
(* none.  latest is a history variable: the version a caller was last told *)
(* is saved.  A digest is modelled by the content it covers.               *)
(***************************************************************************)
EXTENDS Naturals, FiniteSets

CONSTANTS
    Tenants,          \* tenant scopes
    Movers,           \* the tenants whose data an administrator moves
    Components,       \* routed stores and file roots
    Databases,        \* the components that are one database for all tenants
    MaxGenerations,   \* bound: generations ever staged
    MaxReverses,      \* bound: reverse snapshots ever staged
    MaxVersion,       \* bound: versions of one tenant's component
    KeepCount,        \* retention: newest terminal items kept
    Profiles          \* sets of features; one is chosen for a behaviour

ASSUME TenancyAssumption ==
    /\ "none" \notin Tenants
    /\ Movers \subseteq Tenants
    /\ Databases \subseteq Components
    /\ Components # {}
    /\ {MaxGenerations, MaxReverses, KeepCount} \subseteq Nat
    /\ MaxVersion \in Nat \ {0}

VARIABLES
    shared,        \* component -> tenant -> version of its rows
    generations,   \* generation -> component -> version, or Gone
    routes,        \* tenant_data_routes
    migrations,    \* tenant_data_migrations, by generation
    reverses,      \* tenant_reverse_migrations
    operation,     \* what holds operation_lock across several commits
    latest,        \* tenant -> component -> version last acknowledged
    busy,          \* tenants with active jobs
    profile        \* the features of this behaviour

routingVars == <<shared, generations, routes, migrations, reverses,
                 operation, latest, busy, profile>>

Generations == 1..MaxGenerations
Reverses == 1..MaxReverses
Shared == 0                       \* generation_id '' of a shared route
NoRows == 0
Gone == [c \in Components |-> MaxVersion + 1]   \* no such directory
Idle == [kind |-> "idle", id |-> 0, todo |-> {}]
SharedRoute == [gen |-> Shared, wrote |-> FALSE, purged |-> FALSE]
NoMigration ==
    [tenant |-> "none", status |-> "none", source |-> Shared, sourceWrote |-> FALSE, digest |-> Gone]
NoReverse ==
    [tenant |-> "none", gen |-> Shared, status |-> "none", resume |-> "", source |-> Gone,
     baseline |-> <<>>, target |-> <<>>, stored |-> FALSE]

RoutingInit ==
    /\ shared = [c \in Components |-> [t \in Tenants |-> 1]]
    /\ generations = [g \in Generations |-> Gone]
    /\ routes = [t \in Tenants |-> SharedRoute]
    /\ migrations = [g \in Generations |-> NoMigration]
    /\ reverses = [r \in Reverses |-> NoReverse]
    /\ operation = Idle
    /\ latest = [t \in Tenants |-> [c \in Components |-> 1]]
    /\ busy = {}
    /\ profile \in Profiles

(***************************************************************************)
(* Routing.                                                                *)
(***************************************************************************)
Isolated(t) == routes[t].gen # Shared

\* path_for fails closed when the active generation's store is missing.
Reachable(t) == Isolated(t) => generations[routes[t].gen] # Gone

\* The rows and files of one tenant in the shared stores.
TenantRows(t) == [c \in Components |-> shared[c][t]]

\* What path_for and directory_for lead a caller of tenant t to.
Routed(t) == IF Isolated(t) THEN generations[routes[t].gen] ELSE TenantRows(t)

\* The digest of a component of the shared side: a whole database, or the
\* tenant's own manifested files.
SharedDigest(t) ==
    [c \in Components |-> IF c \in Databases THEN shared[c]
                          ELSE [u \in {t} |-> shared[c][u]]]

Unlocked == operation = Idle

Stored(t, c, v) ==
    IF Isolated(t)
    THEN /\ generations' = [generations EXCEPT ![routes[t].gen][c] = v]
         /\ UNCHANGED shared
    ELSE /\ shared' = [shared EXCEPT ![c][t] = v]
         /\ UNCHANGED generations

note_write(t) ==
    routes' = [routes EXCEPT ![t].wrote = @ \/ Isolated(t)]

\* A mutation through a routed store: find the store, change it, count the
\* write.  Work may start or finish with it.
Write(t, c) ==
    /\ Unlocked
    /\ Reachable(t)
    /\ t \in Movers \/ c \in Databases     \* bound: files of others are apart
    /\ latest[t][c] < MaxVersion
    /\ Stored(t, c, latest[t][c] + 1)
    /\ latest' = [latest EXCEPT ![t][c] = @ + 1]
    /\ note_write(t)
    /\ busy' \in {busy \cup (Movers \cap {t}), busy \ {t}}   \* the others' jobs are not asked for
    /\ UNCHANGED <<migrations, reverses, operation, profile>>

\* The process dies after the store committed and before note_write.
WriteUncounted(t, c) ==
    /\ "write crash" \in profile
    /\ Unlocked
    /\ Isolated(t) /\ Reachable(t)
    /\ latest[t][c] < MaxVersion
    /\ Stored(t, c, latest[t][c] + 1)
    /\ latest' = [latest EXCEPT ![t][c] = @ + 1]
    /\ UNCHANGED <<routes, migrations, reverses, operation, busy, profile>>

(***************************************************************************)
(* Forward migration.                                                      *)
(***************************************************************************)
Pending(t) == \E g \in Generations :
    migrations[g].tenant = t /\ migrations[g].status \in {"copying", "verified"}

NextGeneration == Cardinality({g \in Generations : migrations[g].status # "none"}) + 1

begin_migration(t) ==
    /\ ~Pending(t)
    /\ NextGeneration \in Generations
    /\ migrations' = [migrations EXCEPT ![NextGeneration] =
            [tenant |-> t, status |-> "copying", source |-> routes[t].gen,
             sourceWrote |-> routes[t].wrote, digest |-> Gone]]

\* _assert_no_active_discovery: no queued or running work of the tenant.
Quiet(t) == t \notin busy

\* The lock is held until the copy ends.
stage(t) ==
    /\ Unlocked
    /\ Quiet(t)
    /\ Isolated(t) => "chain" \in profile
    /\ begin_migration(t)
    /\ operation' = [kind |-> "copy", id |-> NextGeneration, todo |-> {}]
    /\ UNCHANGED <<shared, generations, routes, reverses, latest, busy, profile>>

\* A database is copied by the rows of the tenant, a directory by the files
\* its manifest lists for it.
CopiedDatabase(t, c) == Routed(t)[c]
CopiedDirectory(t, c) == Routed(t)[c]
Copied(t) == [c \in Components |->
    IF c \in Databases THEN CopiedDatabase(t, c) ELSE CopiedDirectory(t, c)]

\* Every component is copied and the digests of both sides agree.
verified ==
    /\ operation.kind = "copy"
    /\ LET g == operation.id
           t == migrations[g].tenant
       IN /\ Reachable(t)
          /\ generations' = [generations EXCEPT ![g] = Copied(t)]
          /\ migrations' = [migrations EXCEPT ![g].status = "verified", ![g].digest = Copied(t)]
    /\ operation' = Idle
    /\ UNCHANGED <<shared, routes, reverses, latest, busy, profile>>

\* A component cannot be copied: the generation is removed.
failed ==
    /\ operation.kind = "copy"
    /\ migrations' = [migrations EXCEPT ![operation.id].status = "failed"]
    /\ operation' = Idle
    /\ UNCHANGED <<shared, generations, routes, reverses, latest, busy, profile>>

\* Mutant: only the staged generation is compared again.
UnchangedTarget(g) == generations[g] = migrations[g].digest

\* The digests of source and generation are those that were verified.
UnchangedSinceVerified(g) ==
    /\ Routed(migrations[g].tenant) = migrations[g].digest
    /\ generations[g] = migrations[g].digest

CutoverRoute(g) ==
    /\ routes[migrations[g].tenant].gen = migrations[g].source
    /\ routes' = [routes EXCEPT ![migrations[g].tenant] =
                     [gen |-> g, wrote |-> FALSE, purged |-> FALSE]]

cutover(g) ==
    /\ Unlocked
    /\ migrations[g].status = "verified"
    /\ Quiet(migrations[g].tenant)
    /\ Reachable(migrations[g].tenant)
    /\ UnchangedSinceVerified(g)
    /\ CutoverRoute(g)
    /\ migrations' = [migrations EXCEPT ![g].status = "cutover"]
    /\ UNCHANGED <<shared, generations, reverses, operation, latest, busy, profile>>

\* Rollback is refused once a write was counted or duplicates were purged.
RollbackAdmitted(g) ==
    LET route == routes[migrations[g].tenant]
    IN route.gen = g /\ ~route.purged /\ ~route.wrote

\* The former route comes back with the writes it had; the purged mark of a
\* generation below is not restored.
RolledBackRoute(g) ==
    routes' = [routes EXCEPT ![migrations[g].tenant].gen = migrations[g].source,
                             ![migrations[g].tenant].wrote = migrations[g].sourceWrote]

rollback(g) ==
    /\ "rollback" \in profile
    /\ Unlocked
    /\ migrations[g].status = "cutover"
    /\ RollbackAdmitted(g)
    /\ RolledBackRoute(g)
    /\ migrations' = [migrations EXCEPT ![g].status = "rolled-back"]
    /\ UNCHANGED <<shared, generations, reverses, operation, latest, busy, profile>>

(***************************************************************************)
(* Reverse snapshots.                                                      *)
(***************************************************************************)
NextReverse == Cardinality({r \in Reverses : reverses[r].status # "none"}) + 1

begin_reverse(t) ==
    /\ migrations[routes[t].gen].status = "cutover"
    /\ ~\E r \in Reverses : reverses[r].tenant = t /\ reverses[r].status \in {"copying", "applying"}
    /\ NextReverse \in Reverses
    /\ reverses' = [reverses EXCEPT ![NextReverse] =
            [NoReverse EXCEPT !.tenant = t, !.gen = routes[t].gen, !.status = "copying",
                              !.source = Routed(t)]]

stage_reverse(t) ==
    /\ Unlocked
    /\ Isolated(t) /\ Reachable(t)
    /\ Quiet(t)
    /\ begin_reverse(t)
    /\ operation' = [kind |-> "reverse copy", id |-> NextReverse, todo |-> {}]
    /\ UNCHANGED <<shared, generations, routes, migrations, latest, busy, profile>>

\* The shared side with the tenant's rows replaced by the isolated ones.
StagedDatabase(t, c) == [shared[c] EXCEPT ![t] = Routed(t)[c]]
StagedDirectory(t, c) == [u \in {t} |-> Routed(t)[c]]

Snapshot(t, rev) ==
    [rev EXCEPT !.status = IF routes[t].purged THEN "finalized-ready" ELSE "verified",
                !.baseline = SharedDigest(t),
                !.target = [c \in Components |-> IF c \in Databases THEN StagedDatabase(t, c)
                                                 ELSE StagedDirectory(t, c)],
                !.stored = TRUE]

Superseded(t, r, rev) ==
    [s \in Reverses |->
        IF s = r THEN rev
        ELSE IF reverses[s].tenant = t /\ reverses[s].status \in {"verified", "finalized-ready"}
             THEN [reverses[s] EXCEPT !.status = "superseded"]
             ELSE reverses[s]]

reverse_verified ==
    /\ operation.kind = "reverse copy"
    /\ LET r == operation.id
           t == reverses[r].tenant
       IN reverses' = Superseded(t, r, Snapshot(t, reverses[r]))
    /\ operation' = Idle
    /\ UNCHANGED <<shared, generations, routes, migrations, latest, busy, profile>>

\* A component cannot be staged: the earlier snapshot stays.
reverse_failed ==
    /\ operation.kind = "reverse copy"
    /\ reverses' = [reverses EXCEPT ![operation.id].status = "failed"]
    /\ operation' = Idle
    /\ UNCHANGED <<shared, generations, routes, migrations, latest, busy, profile>>

\* _assert_reverse_source: the active generation is still the one staged.
SourceUnchanged(r) ==
    /\ routes[reverses[r].tenant].gen = reverses[r].gen
    /\ Reachable(reverses[r].tenant)
    /\ Routed(reverses[r].tenant) = reverses[r].source

PurgedDigest(r, c) == [reverses[r].baseline[c] EXCEPT ![reverses[r].tenant] = NoRows]

\* _assert_shared_components_match: each component is as staged, or as an
\* interrupted attempt left it.
MatchesOrApplied(r) == \A c \in Components :
    SharedDigest(reverses[r].tenant)[c] \in {reverses[r].baseline[c], reverses[r].target[c]}
MatchesOrPurged(r) == \A c \in Components :
    SharedDigest(reverses[r].tenant)[c] \in {reverses[r].baseline[c], PurgedDigest(r, c)}

begin_reverse_apply(r) ==
    /\ reverses[r].status \in {"verified", "finalized-ready"}
    /\ reverses' = [reverses EXCEPT ![r].status = "applying", ![r].resume = reverses[r].status]

apply_reverse(r) ==
    /\ Unlocked
    /\ begin_reverse_apply(r)
    /\ Quiet(reverses[r].tenant)
    /\ SourceUnchanged(r)
    /\ MatchesOrApplied(r)
    /\ operation' = [kind |-> "apply", id |-> r, todo |-> Components]
    /\ UNCHANGED <<shared, generations, routes, migrations, latest, busy, profile>>

\* A database is replaced whole, of a directory only the tenant's files.
AppliedDatabase(r, c) == reverses[r].target[c]
AppliedDirectory(r, c) ==
    LET t == reverses[r].tenant IN [shared[c] EXCEPT ![t] = reverses[r].target[c][t]]

apply_component(c) ==
    /\ operation.kind = "apply"
    /\ c \in operation.todo
    /\ shared' = [shared EXCEPT ![c] = IF c \in Databases THEN AppliedDatabase(operation.id, c)
                                       ELSE AppliedDirectory(operation.id, c)]
    /\ operation' = [operation EXCEPT !.todo = @ \ {c}]
    /\ UNCHANGED <<generations, routes, migrations, reverses, latest, busy, profile>>

\* One component cannot be applied: what was applied stays, the snapshot
\* goes back to the status it had.
reverse_apply_failed ==
    /\ operation.kind = "apply"
    /\ operation.todo # {}
    /\ reverses' = [reverses EXCEPT ![operation.id].status = reverses[operation.id].resume,
                                    ![operation.id].resume = ""]
    /\ operation' = Idle
    /\ UNCHANGED <<shared, generations, routes, migrations, latest, busy, profile>>

reverse_applied ==
    /\ operation.kind = "apply"
    /\ operation.todo = {}
    /\ LET r == operation.id
       IN /\ routes' = [routes EXCEPT ![reverses[r].tenant] = SharedRoute]
          /\ migrations' = [migrations EXCEPT ![reverses[r].gen].status = "reverse-migrated"]
          /\ reverses' = [reverses EXCEPT ![r].status = "applied", ![r].resume = ""]
    /\ operation' = Idle
    /\ UNCHANGED <<shared, generations, latest, busy, profile>>

\* Up to the first purge.
finalize_shared_source(r) ==
    /\ "finalize" \in profile
    /\ Unlocked
    /\ reverses[r].status = "verified"
    /\ Quiet(reverses[r].tenant)
    /\ ~routes[reverses[r].tenant].purged
    /\ SourceUnchanged(r)
    /\ MatchesOrPurged(r)
    /\ operation' = [kind |-> "purge", id |-> r, todo |-> Components]
    /\ UNCHANGED <<shared, generations, routes, migrations, reverses, latest, busy, profile>>

\* _purge_shared_component.
purge_component(c) ==
    /\ operation.kind = "purge"
    /\ c \in operation.todo
    /\ shared' = [shared EXCEPT ![c][reverses[operation.id].tenant] = NoRows]
    /\ operation' = [operation EXCEPT !.todo = @ \ {c}]
    /\ UNCHANGED <<generations, routes, migrations, reverses, latest, busy, profile>>

reverse_finalized ==
    /\ operation.kind = "purge"
    /\ operation.todo = {}
    /\ LET r == operation.id
       IN /\ reverses' = [reverses EXCEPT ![r].status = "finalized-ready",
                                          ![r].baseline = [c \in Components |-> PurgedDigest(r, c)]]
          /\ routes' = [routes EXCEPT ![reverses[r].tenant].purged = TRUE]
    /\ operation' = Idle
    /\ UNCHANGED <<shared, generations, migrations, latest, busy, profile>>

(***************************************************************************)
(* The process stops and TenantDataPlaneRegistry._initialize runs again.   *)
(***************************************************************************)
\* Mutant: an interrupted apply is recorded as failed.
RecoveredAsFailed(rev) ==
    IF rev.status \in {"copying", "applying"} THEN [rev EXCEPT !.status = "failed"] ELSE rev

Recovered(rev) ==
    CASE rev.status = "copying" -> [rev EXCEPT !.status = "failed"]
      [] rev.status = "applying" -> [rev EXCEPT !.status = rev.resume, !.resume = ""]
      [] OTHER -> rev

RegistryRestart ==
    /\ ~Unlocked
    /\ operation.kind = "purge" => "purge crash" \in profile
    /\ operation' = Idle
    /\ reverses' = [r \in Reverses |-> Recovered(reverses[r])]
    /\ UNCHANGED <<shared, generations, routes, migrations, latest, busy, profile>>

(***************************************************************************)
(* Retention (retention.py): an administrator deletes superseded storage.  *)
(***************************************************************************)
ActiveGenerations == {routes[t].gen : t \in Tenants} \ {Shared}

RollbackSources == {migrations[g].source :
    g \in {h \in ActiveGenerations : migrations[h].status = "cutover"}}

ReverseSources == {reverses[r].gen : r \in {s \in Reverses :
    reverses[s].status \in {"copying", "verified", "finalized-ready", "applying"}}}

Protected(g) ==
    \/ g \in ActiveGenerations \cup RollbackSources \cup ReverseSources
    \/ migrations[g].status \in {"copying", "verified"}

TerminalGenerations(t) == {g \in Generations :
    /\ migrations[g].tenant = t
    /\ migrations[g].status \in {"failed", "rolled-back", "reverse-migrated", "cutover"}
    /\ ~Protected(g)}

TerminalReverses(t) == {r \in Reverses :
    reverses[r].tenant = t /\ reverses[r].status \in {"failed", "superseded", "applied"}}

\* Which terminal items are the newest, and old enough, is left open.
Cleanable(items) == {S \in SUBSET items : Cardinality(items \ S) >= KeepCount}

execute_cleanup(t) ==
    /\ Unlocked
    /\ \E G \in Cleanable(TerminalGenerations(t)), R \in Cleanable(TerminalReverses(t)) :
          /\ \/ \E g \in G : generations[g] # Gone
             \/ \E r \in R : reverses[r].stored
          /\ generations' = [g \in Generations |-> IF g \in G THEN Gone ELSE generations[g]]
          /\ reverses' = [r \in Reverses |->
                 IF r \in R THEN [reverses[r] EXCEPT !.stored = FALSE] ELSE reverses[r]]
    /\ UNCHANGED <<shared, routes, migrations, operation, latest, busy, profile>>

RoutingNext ==
    \/ \E t \in Tenants, c \in Components : Write(t, c) \/ WriteUncounted(t, c)
    \/ \E t \in Movers : stage(t) \/ stage_reverse(t) \/ execute_cleanup(t)
    \/ verified \/ failed
    \/ \E g \in Generations : cutover(g) \/ rollback(g)
    \/ reverse_verified \/ reverse_failed
    \/ \E r \in Reverses : apply_reverse(r) \/ finalize_shared_source(r)
    \/ \E c \in Components : apply_component(c) \/ purge_component(c)
    \/ reverse_apply_failed \/ reverse_applied \/ reverse_finalized
    \/ RegistryRestart

RoutingSpec == RoutingInit /\ [][RoutingNext]_routingVars

-----------------------------------------------------------------------------
(***************************************************************************)
(* Properties.                                                             *)
(***************************************************************************)
\* Whatever migrations, rollbacks, reverse applies, purges, cleanups and
\* restarts happened, a tenant's reads lead to a store that exists and holds
\* the last write it was told is saved: no route change hides newer data and
\* no replacement of a shared database loses another tenant's rows.
RouteServesLatest == \A t \in Tenants : Reachable(t) /\ Routed(t) = latest[t]

\* Once a tenant's shared duplicates are purged, a stored snapshot that can
\* still be applied exists for the generation it is routed to.
PurgedHasReturnPath == \A t \in Tenants : routes[t].purged =>
    \E r \in Reverses : /\ reverses[r].tenant = t
                        /\ reverses[r].gen = routes[t].gen
                        /\ reverses[r].status \in {"finalized-ready", "applying"}
                        /\ reverses[r].stored

=============================================================================
