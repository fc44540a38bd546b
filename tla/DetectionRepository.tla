------------------------- MODULE DetectionRepository -------------------------
(***************************************************************************)
(* The repository handoff of an approved detection: detections/            *)
(* repository.py over repository_store.py, against a local Git repository, *)
(* its remote and GitHub.                                                  *)
(*                                                                         *)
(* A service method does not await, so one method runs at a time; each of  *)
(* its Git and GitHub commands is a step of its own, because the           *)
(* repository, the remote and the pull request also change from outside    *)
(* and the process may end between two commands.  A commit stands for its  *)
(* parent and its signed content.                                          *)
(***************************************************************************)
EXTENDS DetectionLifecycle

CONSTANTS MaxHandoffs, MaxBases, MaxSnapshots, MaxCrashes   \* bounds

VARIABLES
    handoffs,    \* table detection_repository_handoffs
    expired,     \* handoffs whose preview is older than 30 minutes
    archives,    \* handoffs whose signed archive is still the previewed one
    base,        \* what the configured base ref resolves to
    local, remote,  \* the handoff's branch, here and on the remote
    worktrees,   \* isolated worktrees on disk
    pulls,       \* the pull request of the handoff's branch, as GitHub has it
    call,        \* the method in progress
    snapshots,   \* table detection_repository_review_snapshots
    items,       \* case items added for each snapshot
    crashes

gitVars == <<base, local, remote, pulls>>
repositoryVars == <<handoffs, expired, archives, gitVars, worktrees, call, snapshots, items, crashes>>

Slots == 1 .. MaxHandoffs
NoCommit == [id |-> "none"]
Foreign == [id |-> "foreign"]
NoPull == [head |-> NoCommit]
NoCall == [op |-> "idle"]
CommitOf(h) == [parent |-> handoffs[h].base, content |-> handoffs[h].content]

RepositoryInit ==
    /\ handoffs = << >> /\ snapshots = << >> /\ items = << >>
    /\ expired = {} /\ archives = {} /\ worktrees = {}
    /\ base = 1
    /\ local = [h \in Slots |-> NoCommit]
    /\ remote = [h \in Slots |-> NoCommit]
    /\ pulls = [h \in Slots |-> NoPull]
    /\ call = NoCall
    /\ crashes = 0

Handoff(op, h) == [op |-> op, handoff |-> h]

-----------------------------------------------------------------------------
(* Preview and apply.                                                      *)

\* A protected file differs, a path crosses a symbolic link, or nothing changes.
Conflicts == BOOLEAN

store_handoff(d, blocked) ==
    handoffs' = Append(handoffs,
        [detection |-> d, content |-> detection[d].content, base |-> base, blocked |-> blocked,
         status |-> "previewed", commit |-> NoCommit])

\* POST /api/detections/{id}/repository-preview
preview(d, blocked) ==
    /\ call = NoCall
    /\ Len(handoffs) < MaxHandoffs
    /\ Exists(d) /\ GitChangeBuilt(d)
    /\ store_handoff(d, blocked)
    /\ archives' = archives \cup {Len(handoffs) + 1}
    /\ UNCHANGED <<expired, gitVars, worktrees, call, snapshots, items, crashes>>

\* Every operation on a handoff names one of a project that is still there.
Scoped(h) == Exists(handoffs[h].detection)

PreviewValid(h) == handoffs[h].status = "previewed" /\ h \notin expired

Applicable(h) ==
    /\ PreviewValid(h)
    /\ ~handoffs[h].blocked
    /\ base = handoffs[h].base
    /\ local[h] = NoCommit
    /\ h \in archives
    /\ h \notin worktrees

\* POST /api/detection-repository/handoffs/{id}/apply, up to the worktree
apply(h) ==
    /\ call = NoCall /\ Scoped(h)
    /\ Applicable(h)
    /\ worktrees' = worktrees \cup {h}
    /\ call' = Handoff("commit", h)
    /\ UNCHANGED <<handoffs, expired, archives, gitVars, snapshots, items, crashes>>

\* The commit is made on the previewed base; update-ref creates the branch or fails.
commit_preview(h) ==
    /\ call = Handoff("commit", h)
    /\ IF local[h] = NoCommit
       THEN local' = [local EXCEPT ![h] = CommitOf(h)] /\ call' = Handoff("mark applied", h)
       ELSE call' = NoCall /\ UNCHANGED local
    /\ worktrees' = worktrees \ {h}
    /\ UNCHANGED <<handoffs, expired, archives, base, remote, pulls, snapshots, items, crashes>>

mark_applied(h) ==
    /\ call = Handoff("mark applied", h)
    /\ handoffs' = [handoffs EXCEPT ![h].status = "applied", ![h].commit = CommitOf(h)]
    /\ call' = NoCall
    /\ UNCHANGED <<expired, archives, gitVars, worktrees, snapshots, items, crashes>>

-----------------------------------------------------------------------------
(* Push.                                                                   *)

Pushable(h) == handoffs[h].status = "applied" /\ local[h] = handoffs[h].commit

\* POST /api/detection-repository/handoffs/{id}/push
push(h) ==
    /\ call = NoCall /\ Scoped(h)
    /\ Pushable(h)
    /\ call' = Handoff("transfer", h)
    /\ UNCHANGED <<handoffs, expired, archives, gitVars, worktrees, snapshots, items, crashes>>

\* git push sends whatever the branch is by now; the remote accepts a fast-forward.
FastForward(h) == remote[h] \in {NoCommit, local[h]} \/ (local[h] = Foreign /\ remote[h] = CommitOf(h))

transfer(h) ==
    /\ call = Handoff("transfer", h)
    /\ IF FastForward(h)
       THEN remote' = [remote EXCEPT ![h] = local[h]] /\ call' = Handoff("verify", h)
       ELSE call' = NoCall /\ UNCHANGED remote
    /\ UNCHANGED <<handoffs, expired, archives, base, local, pulls, worktrees, snapshots, items, crashes>>

\* Mutant: the remote branch is not compared with the approved commit.
RemoteExists(h) == remote[h] # NoCommit

RemoteMatches(h) == remote[h] = handoffs[h].commit

mark_pushed(h) ==
    /\ call = Handoff("verify", h)
    /\ handoffs' = IF RemoteMatches(h) THEN [handoffs EXCEPT ![h].status = "pushed"] ELSE handoffs
    /\ call' = NoCall
    /\ UNCHANGED <<expired, archives, gitVars, worktrees, snapshots, items, crashes>>

-----------------------------------------------------------------------------
(* Draft pull request.                                                     *)

\* An existing pull request is adopted if it is a draft of the approved commit.
Adoptable(h) == pulls[h].head = handoffs[h].commit /\ pulls[h].lifecycle = "draft"

Openable(h) == handoffs[h].status = "pushed" /\ RemoteMatches(h)

\* POST /api/detection-repository/handoffs/{id}/pull-request
open_draft_pull_request(h) ==
    /\ call = NoCall /\ Scoped(h)
    /\ Openable(h)
    /\ \/ pulls[h] = NoPull /\ h \in archives /\ call' = Handoff("create", h)
       \/ pulls[h] # NoPull /\ Adoptable(h) /\ call' = Handoff("mark opened", h)
    /\ UNCHANGED <<handoffs, expired, archives, gitVars, worktrees, snapshots, items, crashes>>

DraftPull(h) == [head |-> remote[h], lifecycle |-> "draft", decision |-> "review-required", checks |-> "none"]

\* gh pr create opens a draft on the branch as it is by now, unless one is open.
create_pull_request(h) ==
    /\ call = Handoff("create", h)
    /\ IF pulls[h] = NoPull
       THEN pulls' = [pulls EXCEPT ![h] = DraftPull(h)] /\ call' = Handoff("mark opened", h)
       ELSE call' = NoCall /\ UNCHANGED pulls
    /\ UNCHANGED <<handoffs, expired, archives, base, local, remote, worktrees, snapshots, items, crashes>>

mark_pull_request(h) ==
    /\ call = Handoff("mark opened", h)
    /\ handoffs' = [handoffs EXCEPT ![h].status = "pull-request-opened"]
    /\ call' = NoCall
    /\ UNCHANGED <<expired, archives, gitVars, worktrees, snapshots, items, crashes>>

-----------------------------------------------------------------------------
(* Repository feedback.                                                    *)

Refreshable(h) == handoffs[h].status = "pull-request-opened"

\* POST /api/detection-repository/handoffs/{id}/review-refresh: gh pr view ...
refresh_pull_request(h) ==
    /\ call = NoCall /\ Scoped(h)
    /\ Refreshable(h)
    /\ Len(snapshots) < MaxSnapshots
    /\ call' = [op |-> "checks", handoff |-> h, view |-> pulls[h]]
    /\ UNCHANGED <<handoffs, expired, archives, gitVars, worktrees, snapshots, items, crashes>>

\* Mutant: the branch name alone identifies the head.
IdentityByBranch(h, view) == "exact"

Identity(h, view) == IF view.head = handoffs[h].commit THEN "exact" ELSE "stale"

Risk(identity, view, checks) ==
    IF identity # "exact" THEN "critical"
    ELSE IF view.lifecycle = "merged" THEN "low"
    ELSE IF view.lifecycle = "closed" \/ checks = "fail" \/ view.decision = "changes-requested"
         THEN "high"
    ELSE IF view.lifecycle = "draft" \/ checks \in {"pending", "none"}
            \/ view.decision = "review-required" THEN "medium"
    ELSE "low"

\* ... then gh pr checks, and the snapshot of the two.
record_review(h) ==
    /\ call.op = "checks" /\ call.handoff = h
    /\ LET view == call.view
           checks == pulls[h].checks
           identity == Identity(h, view)
       IN  snapshots' = Append(snapshots,
               [handoff |-> h, identity |-> identity, lifecycle |-> view.lifecycle, checks |-> checks,
                risk |-> Risk(identity, view, checks), head |-> view.head, item |-> FALSE])
    /\ items' = Append(items, 0)
    /\ call' = NoCall
    /\ UNCHANGED <<handoffs, expired, archives, gitVars, worktrees, crashes>>

Preserved(n) == snapshots[n].item

\* POST /api/detection-repository/handoffs/{id}/review-case: the case item ...
preserve_review_to_case(n) ==
    /\ call = NoCall /\ Scoped(snapshots[n].handoff)
    /\ ~Preserved(n)
    /\ items' = [items EXCEPT ![n] = @ + 1]
    /\ call' = [op |-> "mark preserved", snapshot |-> n]
    /\ UNCHANGED <<handoffs, expired, archives, gitVars, worktrees, snapshots, crashes>>

\* ... then its id in the snapshot's row.
mark_review_preserved(n) ==
    /\ call = [op |-> "mark preserved", snapshot |-> n]
    /\ snapshots' = [snapshots EXCEPT ![n].item = TRUE]
    /\ call' = NoCall
    /\ UNCHANGED <<handoffs, expired, archives, gitVars, worktrees, items, crashes>>

\* The process ends inside a method; the repositories keep what was done.
restart_repository ==
    /\ call # NoCall
    /\ crashes < MaxCrashes
    /\ crashes' = crashes + 1
    /\ call' = NoCall
    /\ UNCHANGED <<handoffs, expired, archives, gitVars, worktrees, snapshots, items>>

-----------------------------------------------------------------------------
(* What others do, at any time.                                            *)

expire_preview(h) ==
    /\ h \notin expired /\ handoffs[h].status = "previewed"
    /\ expired' = expired \cup {h}
    /\ UNCHANGED <<handoffs, archives, gitVars, worktrees, call, snapshots, items, crashes>>

lose_archive(h) ==
    /\ h \in archives
    /\ archives' = archives \ {h}
    /\ UNCHANGED <<handoffs, expired, gitVars, worktrees, call, snapshots, items, crashes>>

move_base ==
    /\ base < MaxBases
    /\ base' = base + 1
    /\ UNCHANGED <<handoffs, expired, archives, local, remote, pulls, worktrees, call, snapshots, items, crashes>>

commit_on_branch(h) ==
    /\ local[h] \notin {NoCommit, Foreign}
    /\ local' = [local EXCEPT ![h] = Foreign]
    /\ UNCHANGED <<handoffs, expired, archives, base, remote, pulls, worktrees, call, snapshots, items, crashes>>

Open(p) == p # NoPull /\ p.lifecycle \in {"draft", "open"}

\* A push from elsewhere moves the head of an open pull request and restarts its checks.
push_elsewhere(h) ==
    /\ remote[h] \notin {NoCommit, Foreign}
    /\ remote' = [remote EXCEPT ![h] = Foreign]
    /\ pulls' = IF Open(pulls[h]) THEN [pulls EXCEPT ![h].head = Foreign, ![h].checks = "none"] ELSE pulls
    /\ UNCHANGED <<handoffs, expired, archives, base, local, worktrees, call, snapshots, items, crashes>>

\* CI reports, a reviewer decides, the draft is made ready, merged or closed.
work_on_pull_request(h) ==
    /\ Open(pulls[h])
    /\ pulls' \in {[pulls EXCEPT ![h].checks = "pass"], [pulls EXCEPT ![h].checks = "fail"],
                   [pulls EXCEPT ![h].decision = "approved"],
                   [pulls EXCEPT ![h].lifecycle = "open"], [pulls EXCEPT ![h].lifecycle = "merged"],
                   [pulls EXCEPT ![h].lifecycle = "closed"]}
    /\ UNCHANGED <<handoffs, expired, archives, base, local, remote, worktrees, call, snapshots, items, crashes>>

-----------------------------------------------------------------------------
HandoffSteps(h) ==
    \/ apply(h) \/ commit_preview(h) \/ mark_applied(h)
    \/ push(h) \/ transfer(h) \/ mark_pushed(h)
    \/ open_draft_pull_request(h) \/ create_pull_request(h) \/ mark_pull_request(h)
    \/ refresh_pull_request(h) \/ record_review(h)
    \/ expire_preview(h) \/ lose_archive(h)
    \/ commit_on_branch(h) \/ push_elsewhere(h) \/ work_on_pull_request(h)

RepositorySteps ==
    \/ \E d \in Detections, blocked \in Conflicts : preview(d, blocked)
    \/ \E h \in DOMAIN handoffs : HandoffSteps(h)
    \/ \E n \in DOMAIN snapshots : preserve_review_to_case(n) \/ mark_review_preserved(n)
    \/ restart_repository
    \/ move_base

RepositoryNext ==
    \/ RepositorySteps /\ UNCHANGED lifecycleVars
    \/ call = NoCall /\ LifecycleNext /\ UNCHANGED repositoryVars

RepositorySpec == LifecycleInit /\ RepositoryInit /\ [][RepositoryNext]_<<lifecycleVars, repositoryVars>>

-----------------------------------------------------------------------------
(* Properties.                                                             *)

\* When a handoff becomes pushed, its remote branch is the commit of a content some
\* review of its project approved, on the base that was previewed: although the project
\* may have been edited or retired since, the process may have ended between two commands
\* and the branch may have moved between its check and the push.
PushedWasApproved ==
    [][\A h \in DOMAIN handoffs :
        handoffs'[h].status = "pushed" /\ handoffs[h].status # "pushed" =>
            /\ remote[h] = CommitOf(h)
            /\ \E r \in DOMAIN reviews[handoffs[h].detection] :
                 reviews[handoffs[h].detection][r] = [decision |-> "approve", content |-> handoffs[h].content]
      ]_repositoryVars

\* Feedback that calls a handoff low risk was read from a pull request whose head was
\* the approved commit (SECURITY.md: a changed head fails the interpretation even when
\* checks pass), although the head may move at any time.
LowRiskIsApprovedHead ==
    \A n \in DOMAIN snapshots :
        snapshots[n].risk = "low" => snapshots[n].head = handoffs[snapshots[n].handoff].commit

=============================================================================
