---------------------------- MODULE ModelRouting ----------------------------
(***************************************************************************)
(* Which local model answers an investigation: benchmarks/tournament.py    *)
(* over benchmarks/service.py and its stores, model_trust/service.py, and  *)
(* the settings file (config.py) that these, the lifecycle operations of   *)
(* model_setup.py and PUT /api/settings all rewrite as a whole.            *)
(*                                                                         *)
(* A request that awaits is a member of `requests` between the step that   *)
(* made its checks and the step that resumes it; it keeps the settings it  *)
(* loaded.  The observation of an artifact is the last thing awaited, so   *)
(* the resuming step makes it.  One evaluation suite and one blind         *)
(* comparison stand for all, and a digest for an artifact's identity.      *)
(***************************************************************************)
EXTENDS Naturals, Sequences, FiniteSets

CONSTANTS
    Profiles,      \* identifiers of Ollama chat profiles
    Control,       \* the profile every route names at first
    Targets,       \* routes: default_chat_model, security_reasoning_model
    MaxRuns, MaxTournaments, MaxEdits, MaxDigest, MaxVersion, MaxRequests  \* bounds

ASSUME RoutingAssumption == Control \in Profiles

VARIABLES
    settings,      \* config.json: profiles, staged ones, routes, and edits to the rest
    suite,         \* evaluation suite: published version and status
    runs,          \* table benchmark_runs
    tournaments,   \* table model_tournaments
    promotions,    \* table model_promotions
    trust,         \* policy mode and the digest signed for each profile, 0 for none
    artifacts,     \* digest of each profile's model as Ollama has it
    requests       \* requests that await

routingVars == <<settings, suite, runs, tournaments, promotions, trust, artifacts, requests>>

\* Every profile but the shipped one came from stage_ollama_candidate.
Staged == Profiles \ {Control}

RoutingInit ==
    /\ settings = [present |-> {Control}, candidates |-> {},
                   route |-> [t \in Targets |-> Control], edits |-> 0]
    /\ suite = [version |-> 1, status |-> "active"]
    /\ runs = << >> /\ tournaments = << >> /\ promotions = << >>
    /\ trust = [mode |-> "audit", signed |-> [p \in Profiles |-> 0]]
    /\ artifacts = [p \in Profiles |-> 1]
    /\ requests = {}

-----------------------------------------------------------------------------
(* Trust.                                                                  *)

\* The digest observed for a profile: its model's, as Ollama has it now.
observe(p) == artifacts[p]

\* A valid signature names exactly the artifact observed.
Trusted(p) == trust.signed[p] = observe(p)

\* require_profile lets an enabled profile through, and under enforcement only with
\* a valid signature of exactly the artifact observed.
require_profile(p) == p \in settings.present /\ (trust.mode = "enforce" => Trusted(p))

\* Mutant: the artifact may have changed since its evaluation.
unbound(r) == require_profile(runs[r].profile)

\* The artifact is the one that was evaluated.
assert_binding(r) == require_profile(runs[r].profile) /\ runs[r].binding = observe(runs[r].profile)

create_attestation(p) == [trust EXCEPT !.signed[p] = observe(p)]

revoked(p) == [trust EXCEPT !.signed[p] = 0]

\* POST /api/model-trust/profiles/{id}/approve: signs what it observes when that is
\* what the operator reviewed.
approve_artifact(p) ==
    /\ p \in settings.present
    /\ trust' = create_attestation(p)
    /\ UNCHANGED <<settings, suite, runs, tournaments, promotions, artifacts, requests>>

revoke_artifact(p) ==
    /\ trust.signed[p] # 0
    /\ trust' = revoked(p)
    /\ UNCHANGED <<settings, suite, runs, tournaments, promotions, artifacts, requests>>

\* A request is told apart by its ticket: the same one may be sent twice.
Await(kind, id) ==
    /\ Cardinality(requests) < MaxRequests
    /\ LET ticket == CHOOSE n \in 1..MaxRequests : \A q \in requests : q.ticket # n
       IN  requests' = requests \cup {[kind |-> kind, id |-> id, settings |-> settings, ticket |-> ticket]}

Resume(q) == requests' = requests \ {q}

\* PUT /api/model-trust/policy: enforcement first observes the profiles then routed.
begin_enforcing ==
    /\ trust.mode = "audit"
    /\ Await("enforce", 0)
    /\ UNCHANGED <<settings, suite, runs, tournaments, promotions, trust, artifacts>>

finish_enforcing(q) ==
    /\ q.kind = "enforce"
    /\ \A t \in Targets : Trusted(q.settings.route[t]) /\ q.settings.route[t] \in settings.present
    /\ trust' = [trust EXCEPT !.mode = "enforce"]
    /\ Resume(q)
    /\ UNCHANGED <<settings, suite, runs, tournaments, promotions, artifacts>>

audit_only ==
    /\ trust.mode = "enforce"
    /\ trust' = [trust EXCEPT !.mode = "audit"]
    /\ UNCHANGED <<settings, suite, runs, tournaments, promotions, artifacts, requests>>

\* External: Ollama installs another build under a model's name.
change_artifact(p) ==
    /\ artifacts[p] < MaxDigest
    /\ artifacts' = [artifacts EXCEPT ![p] = @ + 1]
    /\ UNCHANGED <<settings, suite, runs, tournaments, promotions, trust, requests>>

-----------------------------------------------------------------------------
(* Settings and staged candidates.                                         *)

\* PUT /api/settings: an administrator routes a profile, or changes something else.
put_settings(t, p) ==
    /\ settings.edits < MaxEdits
    /\ p \in settings.present
    /\ settings' = [settings EXCEPT !.route[t] = p, !.edits = @ + 1]
    /\ UNCHANGED <<suite, runs, tournaments, promotions, trust, artifacts, requests>>

\* POST /api/model-lifecycle/candidates asks Ollama for its inventory.
begin_stage(p) ==
    /\ p \notin settings.present
    /\ Await("stage", p)
    /\ UNCHANGED <<settings, suite, runs, tournaments, promotions, trust, artifacts>>

\* What a resumed request saves is built on the settings it loaded.
loaded(q) == q.settings

\* A candidate is added to the profiles; routes stay.
stage_ollama_candidate(q) ==
    [loaded(q) EXCEPT !.present = @ \cup {q.id}, !.candidates = @ \cup {q.id}]

finish_stage(q) ==
    /\ q.kind = "stage"
    /\ settings' = stage_ollama_candidate(q)
    /\ Resume(q)
    /\ UNCHANGED <<suite, runs, tournaments, promotions, trust, artifacts>>

\* DELETE /api/model-lifecycle/candidates/{profile_id}
discard_ollama_candidate(p) ==
    /\ p \in settings.candidates
    /\ \A t \in Targets : settings.route[t] # p
    /\ settings' = [settings EXCEPT !.present = @ \ {p}, !.candidates = @ \ {p}]

discard_candidate(p) ==
    /\ discard_ollama_candidate(p)
    /\ UNCHANGED <<suite, runs, tournaments, promotions, trust, artifacts, requests>>

-----------------------------------------------------------------------------
(* Suites, runs and the accepted baseline.                                 *)

\* The draft becomes the next version.
published == [suite EXCEPT !.version = @ + 1]

archive(status) == IF status = "active" THEN "archived" ELSE "active"

\* Runs and tournaments take the published version of a suite that is not archived.
resolve == suite.status = "active"

\* POST /api/benchmarks/suites/{suite_id}/publish
publish_suite ==
    /\ resolve /\ suite.version < MaxVersion
    /\ suite' = published
    /\ UNCHANGED <<settings, runs, tournaments, promotions, trust, artifacts, requests>>

archive_suite ==
    /\ suite.version > 1     \* part of the bound: only a republished suite
    /\ suite' = [suite EXCEPT !.status = archive(@)]
    /\ UNCHANGED <<settings, runs, tournaments, promotions, trust, artifacts, requests>>

\* The benchmark lock admits one benchmark or tournament at a time.
Benchmarking ==
    \/ \E r \in DOMAIN runs : runs[r].status = "running"
    \/ \E i \in DOMAIN tournaments : tournaments[i].status = "running"

NewRun(p, version) ==
    [profile |-> p, version |-> version, binding |-> observe(p),
     trusted |-> trust.mode = "enforce" => Trusted(p), status |-> "running", ready |-> FALSE, baseline |-> FALSE]

\* POST /api/benchmarks/run/stream: the artifact is observed before the run's row.
start_run(p) ==
    /\ ~Benchmarking /\ Len(runs) < MaxRuns
    /\ p \in settings.present /\ resolve
    /\ runs' = Append(runs, NewRun(p, suite.version))
    /\ UNCHANGED <<settings, suite, tournaments, promotions, trust, artifacts, requests>>

Tournament == CHOOSE i \in DOMAIN tournaments : tournaments[i].status = "running"

\* A run is ready for promotion when its scores and critical controls pass, among them
\* the trust of its artifact.
PromotionGate(r) == runs[r].trusted

\* The run ends; a tournament collects it whether it completed or not.
end_run(r, status, ready) ==
    /\ runs[r].status = "running"
    /\ ready => PromotionGate(r)
    /\ runs' = [runs EXCEPT ![r].status = status, ![r].ready = ready]
    /\ tournaments' =
        IF \E i \in DOMAIN tournaments : tournaments[i].status = "running"
        THEN [tournaments EXCEPT ![Tournament].runs = Append(@, r)] ELSE tournaments
    /\ UNCHANGED <<settings, suite, promotions, trust, artifacts, requests>>

\* accept_baseline and set_baseline: 0 clears the suite's baseline.
set_baseline(r) == [i \in DOMAIN runs |-> [runs[i] EXCEPT !.baseline = i = r]]

baseline == IF \E r \in DOMAIN runs : runs[r].baseline
            THEN CHOOSE r \in DOMAIN runs : runs[r].baseline ELSE 0

Promotable(r) == runs[r].status = "complete" /\ runs[r].ready

\* POST /api/benchmarks/runs/{run_id}/baseline
accept_baseline(r) ==
    /\ Promotable(r) /\ ~runs[r].baseline
    /\ assert_binding(r)
    /\ runs' = set_baseline(r)
    /\ UNCHANGED <<settings, suite, tournaments, promotions, trust, artifacts, requests>>

-----------------------------------------------------------------------------
(* Tournaments.                                                            *)

NoReview == [choice |-> Control, winner |-> Control, complete |-> FALSE]

NewTournament(t, a, b) ==
    [target |-> t, profiles |-> <<a, b>>, before |-> settings.route[t], version |-> suite.version,
     status |-> "running", runs |-> << >>, review |-> NoReview]

\* POST /api/benchmarks/tournaments/run/stream, for two candidates.
start_tournament(t, a, b) ==
    /\ ~Benchmarking
    /\ Len(tournaments) < MaxTournaments /\ Len(runs) + 2 <= MaxRuns
    /\ a # b /\ {a, b} \subseteq settings.present
    /\ resolve
    /\ tournaments' = Append(tournaments, NewTournament(t, a, b))
    /\ UNCHANGED <<settings, suite, runs, promotions, trust, artifacts, requests>>

\* Its candidates run one after the other; one that is gone fails the tournament.
run_candidate(i) ==
    LET n == Len(tournaments[i].runs) IN
    /\ tournaments[i].status = "running" /\ n < 2
    /\ \A r \in DOMAIN runs : runs[r].status # "running"
    /\ LET p == tournaments[i].profiles[n + 1] IN
        IF p \in settings.present /\ resolve
        THEN /\ runs' = Append(runs, NewRun(p, suite.version))
             /\ UNCHANGED tournaments
        ELSE /\ tournaments' = [tournaments EXCEPT ![i].status = "error"]
             /\ UNCHANGED runs
    /\ UNCHANGED <<settings, suite, promotions, trust, artifacts, requests>>

Finalists(i) == {r \in {tournaments[i].runs[k] : k \in DOMAIN tournaments[i].runs} : runs[r].status = "complete"}

\* Two complete finalists go to blind review.
review_pairs(i) == \A k \in 1..2 : tournaments[i].runs[k] \in Finalists(i)

\* Scores, and the review once there is one, may rank any finalist first.
Ranked(i) == Finalists(i)

recommendation(winner) == IF runs[winner].ready THEN "complete" ELSE "hold"

\* What a promotion must name: the choice made and the winner it ranks first.
fingerprint(choice, winner) == [choice |-> choice, winner |-> runs[winner].profile, complete |-> TRUE]

evaluate_tournament(i) ==
    /\ tournaments[i].status = "running" /\ Len(tournaments[i].runs) = 2
    /\ tournaments' = [tournaments EXCEPT ![i].status =
        IF review_pairs(i) THEN "awaiting-review" ELSE "hold"]
    /\ UNCHANGED <<settings, suite, runs, promotions, trust, artifacts, requests>>

promotion_of(i) == {m \in DOMAIN promotions : promotions[m].tournament = i}

\* POST .../review: the choice ranks one finalist first and makes the fingerprint.
review_tournament(i, choice, winner) ==
    /\ tournaments[i].status \in {"awaiting-review", "complete", "hold"}
    /\ promotion_of(i) = {}
    /\ review_pairs(i)
    /\ choice \in {tournaments[i].profiles[k] : k \in 1..2}
    /\ winner \in Ranked(i)
    /\ tournaments[i].review # fingerprint(choice, winner)
    /\ tournaments' = [tournaments EXCEPT
        ![i].review = fingerprint(choice, winner), ![i].status = recommendation(winner)]
    /\ UNCHANGED <<settings, suite, runs, promotions, trust, artifacts, requests>>

Winner(i) == tournaments[i].review.winner
WinnerRun(i, p) == CHOOSE r \in Finalists(i) : runs[r].profile = p

\* The checks before a promotion.
MayPromote(i) ==
    /\ tournaments[i].status = "complete"
    /\ promotion_of(i) = {}
    /\ tournaments[i].version = suite.version /\ resolve
    /\ LET t == tournaments[i].target IN
        /\ settings.route[t] = tournaments[i].before
        /\ settings.route[t] # Winner(i)
    /\ Winner(i) \in settings.present

\* POST .../promote: everything is checked, then the artifact is observed.
begin_promote(i) ==
    /\ MayPromote(i)
    /\ Await("promote", <<i, Winner(i)>>)
    /\ UNCHANGED <<settings, suite, runs, tournaments, promotions, trust, artifacts>>

\* Mutant: earlier promotions of the route stay active.
keep_promotion(m, t) == promotions[m]

supersede(m, t) ==
    IF promotions[m].target = t /\ promotions[m].status = "active"
    THEN [promotions[m] EXCEPT !.status = "superseded"] ELSE promotions[m]

create_promotion(i, p, r, previous) ==
    LET t == tournaments[i].target IN
    promotions' = Append([m \in DOMAIN promotions |-> supersede(m, t)],
        [tournament |-> i, target |-> t, profile |-> p, previous |-> previous, run |-> r,
         previousBaseline |-> baseline, artifact |-> artifacts[p], status |-> "active"])

\* The route and the winner's lifecycle are saved, its run becomes the baseline, and
\* the promotion is recorded; nothing else is checked again.
finish_promote(q) ==
    /\ q.kind = "promote"
    /\ LET i == q.id[1]
           p == q.id[2]
           t == tournaments[i].target
           r == WinnerRun(i, p)
       IN  /\ assert_binding(r)
           /\ settings' = [loaded(q) EXCEPT !.candidates = @ \ {p}, !.route[t] = p]
           /\ runs' = set_baseline(r)
           /\ create_promotion(i, p, r, q.settings.route[t])
    /\ Resume(q)
    /\ UNCHANGED <<suite, tournaments, trust, artifacts>>

\* The route and the baseline are still the promotion's.
RollbackSafe(m) ==
    /\ promotions[m].status = "active"
    /\ settings.route[promotions[m].target] = promotions[m].profile
    /\ baseline = promotions[m].run

\* POST /api/benchmarks/promotions/{id}/rollback: the previous profile is observed.
begin_rollback(m) ==
    /\ RollbackSafe(m)
    /\ promotions[m].previous \in settings.present
    /\ Await("rollback", m)
    /\ UNCHANGED <<settings, suite, runs, tournaments, promotions, trust, artifacts>>

\* Settings and baseline go back; the promotion is marked only if it is still active.
finish_rollback(q) ==
    /\ q.kind = "rollback"
    /\ LET m == q.id
           was == promotions[m]
       IN  /\ require_profile(was.previous)
           /\ settings' = [loaded(q) EXCEPT !.route[was.target] = was.previous,
                !.candidates = IF was.profile \in Staged THEN @ \cup {was.profile} ELSE @]
           /\ runs' = set_baseline(was.previousBaseline)
           /\ promotions' = [promotions EXCEPT ![m].status = IF @ = "active" THEN "rolled-back" ELSE @]
    /\ Resume(q)
    /\ UNCHANGED <<suite, tournaments, trust, artifacts>>

\* A check of the resumed request fails, or its observation does.
refuse(q) ==
    /\ Resume(q)
    /\ UNCHANGED <<settings, suite, runs, tournaments, promotions, trust, artifacts>>

\* The process ends: requests are lost and what was running is marked on the next start.
restart_benchmarks ==
    /\ Benchmarking \/ requests # {}
    /\ requests' = {}
    /\ runs' = [r \in DOMAIN runs |-> IF runs[r].status = "running" THEN [runs[r] EXCEPT !.status = "error"] ELSE runs[r]]
    /\ tournaments' = [i \in DOMAIN tournaments |->
        IF tournaments[i].status = "running" THEN [tournaments[i] EXCEPT !.status = "error"] ELSE tournaments[i]]
    /\ UNCHANGED <<settings, suite, promotions, trust, artifacts>>

-----------------------------------------------------------------------------
TrustSteps ==
    \/ \E p \in Profiles : approve_artifact(p) \/ revoke_artifact(p) \/ change_artifact(p)
    \/ begin_enforcing
    \/ audit_only
    \/ \E q \in requests : finish_enforcing(q)

SettingsSteps ==
    \/ \E t \in Targets, p \in Profiles : put_settings(t, p)
    \/ \E p \in Profiles : begin_stage(p) \/ discard_candidate(p)
    \/ \E q \in requests : finish_stage(q)

BenchmarkSteps ==
    \/ publish_suite
    \/ archive_suite
    \/ \E p \in Profiles : start_run(p)
    \/ \E r \in DOMAIN runs : \/ accept_baseline(r)
                              \/ end_run(r, "error", FALSE)
                              \/ \E ready \in BOOLEAN : end_run(r, "complete", ready)
    \/ restart_benchmarks

TournamentSteps ==
    \/ \E t \in Targets, a, b \in Profiles : start_tournament(t, a, b)
    \/ \E i \in DOMAIN tournaments :
        \/ run_candidate(i)
        \/ evaluate_tournament(i)
        \/ \E choice \in Profiles, winner \in DOMAIN runs : review_tournament(i, choice, winner)
        \/ begin_promote(i)
    \/ \E m \in DOMAIN promotions : begin_rollback(m)
    \/ \E q \in requests : finish_promote(q) \/ finish_rollback(q) \/ refuse(q)

RoutingNext == TrustSteps \/ SettingsSteps \/ BenchmarkSteps \/ TournamentSteps

RoutingSpec == RoutingInit /\ [][RoutingNext]_routingVars

-----------------------------------------------------------------------------
(* Properties.                                                             *)

\* At most one promotion of a route is active, whatever promotions and rollbacks ran at
\* the same time: two of one tournament may both pass their checks before they await.
OneActivePromotion ==
    \A m, n \in DOMAIN promotions :
        /\ promotions[m].target = promotions[n].target
        /\ promotions[m].status = "active" /\ promotions[n].status = "active"
        => m = n

\* A promotion stands on the artifact that was evaluated, in a run of the suite version
\* the tournament was reviewed for, even if the model was replaced after the review.
PromotedAsEvaluated ==
    \A m \in DOMAIN promotions :
        LET r == promotions[m].run
            i == promotions[m].tournament
        IN  /\ promotions[m].artifact = runs[r].binding
            /\ Promotable(r)
            /\ runs[r].profile = promotions[m].profile
            /\ runs[r].version = tournaments[i].version

=============================================================================
