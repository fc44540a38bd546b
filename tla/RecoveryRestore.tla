--------------------------- MODULE RecoveryRestore ---------------------------
(***************************************************************************)
(* Backup and restore of the control plane: recovery/service.py,           *)
(* recovery/cli.py and the handlers and middleware of app.py.              *)
(*                                                                         *)
(* The control plane is a set of files.  A package holds a copy of them.   *)
(* A restore is staged: the package is inspected, a checkpoint of the live *)
(* files is kept, the files are laid out beside them and a marker written  *)
(* last.  While the marker exists requests may change nothing; the next    *)
(* start replaces the files one by one before anything opens them.         *)
(*                                                                         *)
(* A file is its version; the credential vault is also the key it was      *)
(* encrypted with, and the access database the sessions opened in it.      *)
(***************************************************************************)
EXTENDS Naturals, Sequences

CONSTANTS
    ForeignPackages,  \* packages made by another installation: their files
    Nothing,        \* no such file or directory
    MaxConfigured,  \* bound: changes of the live files
    MaxInspected,   \* bound: packages inspected
    MaxFailures     \* bound: crashes and failed writes

Files == {"config", "key", "vault", "access"}
Order == <<"config", "key", "vault", "access">>   \* of COMPONENTS and of every package
OwnKey == 1

VARIABLES
    host,         \* "running", "down", or "applying" a restore as it starts
    live,         \* the files in the data directory
    working,      \* files a request admitted by the middleware is about to write
    exported,     \* packages kept in exports
    checkpoints,  \* packages kept in rollbacks
    inspected,    \* the inspection on disk: a package, or Nothing
    pending,      \* the files under pending/<package id>
    marker,       \* pending.json: Nothing, or the package and its checkpoint
    originals,    \* startup: the files as they were, in a temporary directory
    replaced,     \* startup: the files already replaced
    intended,     \* history: the files as changes and applied restores left them
    late,         \* history: writes under way when the pending restore was staged
    torn,         \* history: a restore that had begun to replace was given up
    changes, inspections, failures   \* counts for the bounds

recoveryVars == <<host, live, working, exported, checkpoints, inspected, pending, marker,
                  originals, replaced, intended, late, torn, changes, inspections, failures>>
startVars == <<originals, replaced>>
packageVars == <<exported, checkpoints, inspected, inspections>>

\* An installation before its first credential is saved has no vault file.
RecoveryInit ==
    /\ host = "running"
    /\ live = [f \in Files \ {"vault"} |->
                  CASE f = "key" -> OwnKey [] f = "access" -> [version |-> 1, sessions |-> FALSE]
                    [] OTHER -> 1]
    /\ working = {} /\ exported = {} /\ checkpoints = {} /\ inspected = Nothing
    /\ pending = Nothing /\ marker = Nothing /\ originals = Nothing /\ replaced = {}
    /\ intended = live /\ late = {} /\ torn = FALSE
    /\ changes = 0 /\ inspections = 0 /\ failures = 0

Overlay(files, others) ==
    [f \in DOMAIN files \cup DOMAIN others |-> IF f \in DOMAIN files THEN files[f] ELSE others[f]]
Put(f, value) == [g \in {f} |-> value]
Revoke(files) == Overlay(Put("access", [files["access"] EXCEPT !.sessions = FALSE]), files)

\* SecretVault.load: a vault another key encrypted reads as empty.
Credentials(files) ==
    IF "vault" \in DOMAIN files /\ files["vault"].key = files["key"] THEN files["vault"].version ELSE 0
\* What the services find when they open the files.
ControlPlane(files) == <<files["config"], Credentials(files), files["access"]>>

-----------------------------------------------------------------------------
\* Requests that change the control plane.  The middleware looks at the marker
\* once; a handler may await before it writes.

\* Mutant: the middleware does not look for the marker.
NeverFrozen == FALSE
MutationFrozen == marker # Nothing

Admit(f) ==
    /\ host = "running" /\ ~MutationFrozen
    /\ f \notin working
    /\ working' = working \cup {f}
    /\ UNCHANGED <<host, live, packageVars, pending, marker, startVars, intended, late, torn, failures, changes>>

Version(files, f) ==
    CASE f = "config" -> files[f]
      [] f = "access" -> files[f].version
      [] f = "vault"  -> Credentials(files)

\* config.save, update_secrets (under the key of this process) or a row of auth.db.
Written(f) ==
    LET v == Version(live, f) + 1
    IN  CASE f = "config" -> v
          [] f = "vault"  -> [version |-> v, key |-> live["key"]]
          [] f = "access" -> [live["access"] EXCEPT !.version = v]

WriteFile(f) ==
    /\ f \in working
    /\ changes < MaxConfigured /\ changes' = changes + 1
    /\ working' = working \ {f}
    /\ live' = Overlay(Put(f, Written(f)), live)
    /\ intended' = Overlay(Put(f, Written(f)), intended)
    /\ UNCHANGED <<host, packageVars, pending, marker, startVars, late, torn, failures>>

\* Signing in is a public path: it is not frozen.
login ==
    /\ host = "running"
    /\ ~live["access"].sessions
    /\ live' = [live EXCEPT !["access"].sessions = TRUE]
    /\ intended' = [intended EXCEPT !["access"].sessions = TRUE]
    /\ UNCHANGED <<host, working, packageVars, pending, marker, startVars, late, torn, failures, changes>>

-----------------------------------------------------------------------------
\* Packages

\* The components as they are, without the sessions.
BuildPayload == Revoke(live)

create ==
    /\ host = "running" /\ exported = {}
    /\ exported' = {BuildPayload}
    /\ UNCHANGED <<host, live, working, checkpoints, inspected, pending, marker, startVars,
                   intended, late, torn, inspections, failures, changes>>

delete_export(p) ==
    /\ host = "running"
    /\ p \in exported
    /\ exported' = exported \ {p}
    /\ UNCHANGED <<host, live, working, checkpoints, inspected, pending, marker, startVars,
                   intended, late, torn, inspections, failures, changes>>

\* The application when it is up, the host command when it is not.
HostAvailable == host # "applying"
\* _validate_payload: the vault opens with the package's key.
Inspectable(p) == "vault" \in DOMAIN p => p["vault"].key = p["key"]

\* A package or a checkpoint kept here, or one uploaded from elsewhere.
inspect(p) ==
    /\ HostAvailable /\ inspections < MaxInspected
    /\ p \in exported \cup checkpoints \cup ForeignPackages
    /\ Inspectable(p)
    /\ inspected' = p
    /\ inspections' = inspections + 1
    /\ UNCHANGED <<host, live, working, exported, checkpoints, pending, marker, startVars,
                   intended, late, torn, failures, changes>>

expire_inspection ==
    /\ inspected # Nothing /\ HostAvailable
    /\ inspected' = Nothing
    /\ UNCHANGED <<host, live, working, exported, checkpoints, pending, marker, startVars,
                   intended, late, torn, inspections, failures, changes>>

MayStage == marker = Nothing /\ inspected # Nothing

stage_restore ==
    /\ HostAvailable
    /\ MayStage
    /\ checkpoints' = {BuildPayload}
    /\ pending' = inspected
    /\ marker' = [package |-> inspected, checkpoint |-> BuildPayload]
    /\ late' = working
    /\ UNCHANGED <<host, live, working, exported, inspected, startVars, intended, torn,
                   inspections, failures, changes>>

\* Killed after the checkpoint, with part of the files laid out and no marker.
die_staging(n) ==
    /\ HostAvailable /\ failures < MaxFailures
    /\ MayStage
    /\ checkpoints' = {BuildPayload}
    /\ pending' = [f \in DOMAIN inspected \cap {Order[i] : i \in 1..n} |-> inspected[f]]
    /\ host' = "down" /\ working' = {}
    /\ failures' = failures + 1
    /\ UNCHANGED <<live, exported, inspected, marker, startVars, intended, late, torn, inspections, changes>>

\* In the application or on the host.  Files an interrupted start has replaced stay.
cancel_pending ==
    /\ HostAvailable /\ marker # Nothing
    /\ pending' = Nothing /\ marker' = Nothing
    /\ torn' = (torn \/ live # intended)
    /\ UNCHANGED <<host, live, working, packageVars, startVars, intended, late, failures, changes>>

\* Killed between the removal of the staged files and that of the marker.
die_cancelling ==
    /\ HostAvailable /\ marker # Nothing /\ failures < MaxFailures
    /\ pending' = Nothing
    /\ host' = "down" /\ working' = {}
    /\ failures' = failures + 1
    /\ UNCHANGED <<live, packageVars, marker, startVars, intended, late, torn, changes>>

-----------------------------------------------------------------------------
\* Startup: apply_pending_restore runs before any service opens its files.

StageIntact == marker # Nothing /\ pending = marker.package

\* Mutant: the marker goes before the files are replaced.
MarkerDroppedEarly == Nothing
MarkerWhileApplying == marker

start ==
    /\ host = "down"
    /\ \/ marker = Nothing /\ host' = "running" /\ UNCHANGED <<originals, replaced, marker>>
       \/ /\ StageIntact
          /\ host' = "applying"
          /\ originals' = [f \in DOMAIN live \cap DOMAIN pending |-> live[f]]
          /\ replaced' = {}
          /\ marker' = MarkerWhileApplying
    /\ UNCHANGED <<live, working, packageVars, pending, intended, late, torn, failures, changes>>

\* The staged files not yet in place; the package's order says which is next.
Staged == DOMAIN pending \ replaced

replace ==
    /\ host = "applying"
    /\ \E i \in 1..Len(Order) :
        /\ Order[i] \in Staged /\ \A j \in 1..(i - 1) : Order[j] \notin Staged
        /\ live' = Overlay(Put(Order[i], pending[Order[i]]), live)
        /\ replaced' = replaced \cup {Order[i]}
    /\ UNCHANGED <<host, working, packageVars, pending, marker, originals, intended, late, torn, failures, changes>>

AllReplaced == host = "applying" /\ Staged = {}
Restored == Revoke(Overlay(pending, intended))

\* The sessions go, the receipt is written, the marker and the staged files are removed; or
\* the process dies just before the staged files are.
applied(dies) ==
    /\ AllReplaced /\ (dies => failures < MaxFailures)
    /\ live' = Revoke(live)
    /\ intended' = Restored
    /\ torn' = (torn /\ live' # intended') /\ late' = {}
    /\ marker' = Nothing
    /\ pending' = IF dies THEN pending ELSE Nothing
    /\ host' = IF dies THEN "down" ELSE "running"
    /\ failures' = IF dies THEN failures + 1 ELSE failures
    /\ originals' = Nothing /\ replaced' = {}
    /\ UNCHANGED <<working, packageVars, changes>>

RestoreOriginals == Overlay(originals, live)

\* A write fails: what had a copy is put back, and startup ends with the error.
replace_fails ==
    /\ host = "applying" /\ failures < MaxFailures
    /\ live' = RestoreOriginals
    /\ host' = "down" /\ originals' = Nothing /\ replaced' = {}
    /\ failures' = failures + 1
    /\ UNCHANGED <<working, packageVars, pending, marker, intended, late, torn, changes>>

\* The staged files cannot be removed after the marker was: the same handler puts back the
\* copies although the receipt says the restore was applied.
removal_fails ==
    /\ AllReplaced /\ failures < MaxFailures
    /\ live' = RestoreOriginals
    /\ marker' = Nothing
    /\ torn' = (torn \/ live' # intended)
    /\ host' = "down" /\ originals' = Nothing /\ replaced' = {}
    /\ failures' = failures + 1
    /\ UNCHANGED <<working, packageVars, pending, intended, late, changes>>

\* A crash, at any moment; while a restore is applied the copies are lost with it.
die ==
    /\ host # "down" /\ failures < MaxFailures
    /\ host' = "down" /\ working' = {}
    /\ originals' = Nothing /\ replaced' = {}
    /\ failures' = failures + 1
    /\ UNCHANGED <<live, packageVars, pending, marker, intended, late, torn, changes>>

stop ==
    /\ host = "running" /\ working = {} /\ marker # Nothing
    /\ host' = "down"
    /\ UNCHANGED <<live, working, packageVars, pending, marker, startVars, intended, late, torn, failures, changes>>

RecoveryNext ==
    \/ \E f \in Files \ {"key"} : Admit(f) \/ WriteFile(f)
    \/ login \/ create
    \/ \E p \in exported : delete_export(p)
    \/ \E p \in exported \cup checkpoints \cup ForeignPackages : inspect(p)
    \/ expire_inspection \/ stage_restore \/ cancel_pending \/ die_cancelling
    \/ \E n \in 0..Len(Order) : die_staging(n)
    \/ start \/ replace \/ replace_fails \/ removal_fails \/ die \/ stop
    \/ \E dies \in BOOLEAN : applied(dies)

RecoverySpec == RecoveryInit /\ [][RecoveryNext]_recoveryVars

-----------------------------------------------------------------------------
\* The application never serves a control plane of two generations: what it finds is
\* what changes and applied restores left, whatever crashes and failed writes
\* interrupted a restore.  A restore given up half way is the operator's own.
ServedIsWhole == host = "running" /\ ~torn => ControlPlane(live) = ControlPlane(intended)

\* While a restore is pending its checkpoint is the state it would replace, so a
\* restore can be undone, unless a request admitted before the freeze wrote after it.
CheckpointIsCurrent ==
    host = "running" /\ marker # Nothing /\ late = {} /\ ~torn
        => ControlPlane(marker.checkpoint) = ControlPlane(Revoke(live))
=============================================================================
