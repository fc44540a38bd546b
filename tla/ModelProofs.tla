------------------------------ MODULE ModelProofs ------------------------------
(***************************************************************************)
(* Theorems about the local models.                                        *)
(*                                                                         *)
(* Routing: whatever requests await at the same time and whatever is       *)
(* published, rerouted, replaced or restarted in between, one promotion of *)
(* a route is active, and each stands on the artifact and the suite        *)
(* version that its tournament evaluated.                                  *)
(*                                                                         *)
(* Installing: jobs of several callers, the drill that waits for one of    *)
(* them, failures and restarts leave what is installed installed.          *)
(***************************************************************************)
EXTENDS ModelRouting, ModelInstall, FiniteSetTheorems, SequenceTheorems, WellFoundedInduction, TLAPS

Settings == [present : SUBSET Profiles, candidates : SUBSET Profiles,
             route : [Targets -> Profiles], edits : Nat]

Runs == [profile : Profiles, version : Nat, binding : Nat, trusted : BOOLEAN,
         status : {"running", "complete", "error"}, ready : BOOLEAN, baseline : BOOLEAN]

Reviews == [choice : Profiles, winner : Profiles, complete : BOOLEAN]

Tournaments == [target : Targets, profiles : Profiles \X Profiles, before : Profiles, version : Nat,
                status : {"running", "awaiting-review", "complete", "hold", "error"},
                runs : Seq(Nat), review : Reviews]

Promotions == [tournament : Nat, target : Targets, profile : Profiles, previous : Profiles,
               run : Nat, previousBaseline : Nat, artifact : Nat,
               status : {"active", "superseded", "rolled-back"}]

\* The tables, and the settings that a request which awaits has loaded.
RoutingTyped ==
    /\ settings \in Settings
    /\ suite \in [version : Nat, status : {"active", "archived"}]
    /\ runs \in Seq(Runs)
    /\ tournaments \in Seq(Tournaments)
    /\ promotions \in Seq(Promotions)
    /\ trust \in [mode : {"audit", "enforce"}, signed : [Profiles -> Nat]]
    /\ artifacts \in [Profiles -> Nat]
    /\ \A q \in requests :
        /\ q.settings \in Settings
        /\ q.kind = "stage" => q.id \in Profiles
        /\ q.kind = "promote" => q.id \in Nat \X Profiles
        /\ q.kind = "rollback" => q.id \in DOMAIN promotions

\* The lock of the benchmarks.
OneAtATime ==
    /\ \A r, s \in DOMAIN runs : runs[r].status = "running" /\ runs[s].status = "running" => r = s
    /\ \A i, j \in DOMAIN tournaments :
        tournaments[i].status = "running" /\ tournaments[j].status = "running" => i = j

\* Run r may stand for profile p in tournament i.
RunsFor(r, i, p) ==
    /\ r \in DOMAIN runs
    /\ runs[r].profile = p
    /\ runs[r].version >= tournaments[i].version

\* A tournament collected the runs of its profiles, in their order.
Ordered(i) ==
    /\ tournaments[i].profiles[1] # tournaments[i].profiles[2]
    /\ Len(tournaments[i].runs) <= 2
    /\ \A k \in 1..Len(tournaments[i].runs) :
        /\ RunsFor(tournaments[i].runs[k], i, tournaments[i].profiles[k])
        /\ runs[tournaments[i].runs[k]].status # "running"

InOrder == \A i \in DOMAIN tournaments : Ordered(i)

\* What runs while a tournament runs is its next profile.
NextInOrder ==
    \A i \in DOMAIN tournaments, r \in DOMAIN runs :
        tournaments[i].status = "running" /\ runs[r].status = "running" =>
        /\ Len(tournaments[i].runs) < 2
        /\ RunsFor(r, i, tournaments[i].profiles[Len(tournaments[i].runs) + 1])

\* Versions only grow.
Versions ==
    /\ \A r \in DOMAIN runs : runs[r].version <= suite.version
    /\ \A i \in DOMAIN tournaments : tournaments[i].version <= suite.version

\* Run r is the ready finalist of profile p in tournament i.
Finalist(r, i, p) ==
    /\ i \in DOMAIN tournaments
    /\ r \in Finalists(i) /\ runs[r].ready
    /\ runs[r].profile = p

\* ... and was made with the suite version of the tournament.
Evaluated(r, i, p) == Finalist(r, i, p) /\ runs[r].version = tournaments[i].version

\* A recommended tournament has a ready winner.
Recommended ==
    \A i \in DOMAIN tournaments : tournaments[i].status = "complete" => \E r : Finalist(r, i, Winner(i))

\* A promotion that awaits was checked for the suite version then published.
Checked ==
    \A q \in requests : q.kind = "promote" => \E r : Evaluated(r, q.id[1], q.id[2])

Promoted ==
    \A m \in DOMAIN promotions :
        LET r == promotions[m].run IN
        /\ Evaluated(r, promotions[m].tournament, promotions[m].profile)
        /\ promotions[m].artifact = runs[r].binding

RoutingInv ==
    /\ RoutingTyped /\ OneAtATime /\ InOrder /\ NextInOrder /\ Versions
    /\ Recommended /\ Checked /\ Promoted /\ OneActivePromotion

\* No step takes back what a run that ended or a tournament recorded.
Recorded ==
    /\ DOMAIN runs \subseteq DOMAIN runs' /\ DOMAIN tournaments \subseteq DOMAIN tournaments'
    /\ \A r \in DOMAIN runs :
        /\ runs'[r].profile = runs[r].profile /\ runs'[r].version = runs[r].version
        /\ runs'[r].binding = runs[r].binding
        /\ runs[r].status # "running" => runs'[r].status = runs[r].status /\ runs'[r].ready = runs[r].ready
    /\ \A i \in DOMAIN tournaments :
        /\ tournaments'[i].version = tournaments[i].version
        /\ tournaments'[i].profiles = tournaments[i].profiles
        /\ \A k \in DOMAIN tournaments[i].runs :
            /\ k \in DOMAIN tournaments'[i].runs
            /\ tournaments'[i].runs[k] = tournaments[i].runs[k]

-----------------------------------------------------------------------------
(* Types.                                                                  *)

\* A table rewritten row by row keeps its length.
LEMMA Rewritten ==
    ASSUME NEW S, NEW n \in Nat, NEW s \in [1..n -> S]
    PROVE  s \in Seq(S) /\ Len(s) = n /\ DOMAIN s = 1..n
<1>1. s \in Seq(S)
  BY SeqDef
<1>2. QED
  BY <1>1, LenProperties

\* A table of rows: its length, and what appending and changing a row do.
LEMMA Table ==
    ASSUME NEW S, NEW s \in Seq(S)
    PROVE  /\ Len(s) \in Nat /\ DOMAIN s = 1..Len(s)
           /\ \A i \in DOMAIN s : s[i] \in S
           /\ \A e \in S : /\ Append(s, e) \in Seq(S) /\ DOMAIN Append(s, e) = 1..Len(s) + 1
                           /\ Append(s, e)[Len(s) + 1] = e
                           /\ \A i \in DOMAIN s : Append(s, e)[i] = s[i]
           /\ \A e \in S, i \in DOMAIN s :
                /\ [s EXCEPT ![i] = e] \in Seq(S) /\ DOMAIN [s EXCEPT ![i] = e] = DOMAIN s
                /\ [s EXCEPT ![i] = e][i] = e
                /\ \A j \in DOMAIN s : j # i => [s EXCEPT ![i] = e][j] = s[j]
<1>1. Len(s) \in Nat /\ DOMAIN s = 1..Len(s) /\ \A i \in DOMAIN s : s[i] \in S
  BY LenProperties, ElementOfSeq
<1>2. ASSUME NEW e \in S, NEW i \in DOMAIN s PROVE [s EXCEPT ![i] = e] \in Seq(S)
  BY <1>1, ExceptSeq
<1>3. QED
  BY <1>1, <1>2

LEMMA TypedInit == RoutingInit => RoutingTyped
BY RoutingAssumption DEF RoutingInit, RoutingTyped, Settings

\* A request that begins to wait loads the settings.
LEMMA AwaitAdds ==
    ASSUME NEW kind, NEW id, Await(kind, id)
    PROVE  \A q \in requests' : q \in requests \/ (q.kind = kind /\ q.id = id /\ q.settings = settings)
BY DEF Await

LEMMA ResumeTakes == ASSUME NEW q \in requests, Resume(q) PROVE requests' \subseteq requests
BY DEF Resume

\* What requests are must hold of those that wait now, and of the one that begins to.
LEMMA TypedRequests ==
    ASSUME RoutingTyped, settings' \in Settings, UNCHANGED <<suite, runs, tournaments, promotions>>,
           trust' \in [mode : {"audit", "enforce"}, signed : [Profiles -> Nat]],
           artifacts' \in [Profiles -> Nat],
           \/ requests' \subseteq requests
           \/ Await("enforce", 0)
           \/ \E p \in Profiles : Await("stage", p)
           \/ \E i \in Nat, p \in Profiles : Await("promote", <<i, p>>)
           \/ \E m \in DOMAIN promotions : Await("rollback", m)
    PROVE  RoutingTyped'
<1>1. SUFFICES ASSUME NEW q \in requests'
      PROVE  /\ q.settings \in Settings
             /\ q.kind = "stage" => q.id \in Profiles
             /\ q.kind = "promote" => q.id \in Nat \X Profiles
             /\ q.kind = "rollback" => q.id \in DOMAIN promotions
  BY DEF RoutingTyped
<1>2. CASE q \in requests
  BY <1>2 DEF RoutingTyped
<1>3. CASE q \notin requests
  <2>1. settings \in Settings
    BY DEF RoutingTyped
  <2>2. CASE requests' \subseteq requests
    BY <1>3, <2>2
  <2>3. CASE Await("enforce", 0)
    BY <1>3, <2>1, <2>3, AwaitAdds
  <2>4. CASE \E p \in Profiles : Await("stage", p)
    BY <1>3, <2>1, <2>4, AwaitAdds
  <2>5. CASE \E i \in Nat, p \in Profiles : Await("promote", <<i, p>>)
    BY <1>3, <2>1, <2>5, AwaitAdds
  <2>6. CASE \E m \in DOMAIN promotions : Await("rollback", m)
    BY <1>3, <2>1, <2>6, AwaitAdds
  <2>7. QED
    BY <2>2, <2>3, <2>4, <2>5, <2>6
<1>4. QED
  BY <1>2, <1>3

\* Trust, settings and suites are written without touching the history.
LEMMA TypedAside ==
    ASSUME RoutingTyped, UNCHANGED <<runs, tournaments, promotions>>,
           requests' \subseteq requests,
           settings' \in Settings,
           suite' \in [version : Nat, status : {"active", "archived"}],
           trust' \in [mode : {"audit", "enforce"}, signed : [Profiles -> Nat]],
           artifacts' \in [Profiles -> Nat]
    PROVE  RoutingTyped'
BY DEF RoutingTyped

LEMMA TypedTrust == RoutingTyped /\ TrustSteps => RoutingTyped'
<1>1. SUFFICES ASSUME RoutingTyped, TrustSteps PROVE RoutingTyped'
  OBVIOUS
<1>2. /\ settings \in Settings /\ suite \in [version : Nat, status : {"active", "archived"}]
      /\ trust \in [mode : {"audit", "enforce"}, signed : [Profiles -> Nat]]
      /\ artifacts \in [Profiles -> Nat]
  BY <1>1 DEF RoutingTyped
<1>3. ASSUME NEW p \in Profiles, approve_artifact(p) \/ revoke_artifact(p) \/ change_artifact(p)
      PROVE  RoutingTyped'
  <2>1. CASE approve_artifact(p)
    BY <1>1, <1>2, <2>1, TypedAside DEF approve_artifact, create_attestation, observe
  <2>2. CASE revoke_artifact(p)
    BY <1>1, <1>2, <2>2, TypedAside DEF revoke_artifact, revoked
  <2>3. CASE change_artifact(p)
    BY <1>1, <1>2, <2>3, TypedAside DEF change_artifact
  <2>4. QED
    BY <1>3, <2>1, <2>2, <2>3
<1>4. CASE begin_enforcing
  BY <1>1, <1>2, <1>4, TypedRequests DEF begin_enforcing
<1>5. CASE audit_only
  BY <1>1, <1>2, <1>5, TypedAside DEF audit_only
<1>6. ASSUME NEW q \in requests, finish_enforcing(q) PROVE RoutingTyped'
  BY <1>1, <1>2, <1>6, TypedAside, ResumeTakes DEF finish_enforcing
<1>7. QED
  BY <1>1, <1>3, <1>4, <1>5, <1>6 DEF TrustSteps

LEMMA TypedSettings == RoutingTyped /\ SettingsSteps => RoutingTyped'
<1>1. SUFFICES ASSUME RoutingTyped, SettingsSteps PROVE RoutingTyped'
  OBVIOUS
<1>2. /\ settings \in Settings /\ suite \in [version : Nat, status : {"active", "archived"}]
      /\ trust \in [mode : {"audit", "enforce"}, signed : [Profiles -> Nat]]
      /\ artifacts \in [Profiles -> Nat]
  BY <1>1 DEF RoutingTyped
<1>3. ASSUME NEW t \in Targets, NEW p \in Profiles, put_settings(t, p) PROVE RoutingTyped'
  <2>1. settings' \in Settings
    <3>1. settings.route \in [Targets -> Profiles] /\ settings.edits + 1 \in Nat
      BY <1>2 DEF Settings
    <3>2. [settings.route EXCEPT ![t] = p] \in [Targets -> Profiles]
      BY <3>1
    <3>3. settings' = [settings EXCEPT !.route = [settings.route EXCEPT ![t] = p], !.edits = settings.edits + 1]
      BY <1>3 DEF put_settings
    <3>4. QED
      BY <1>2, <3>1, <3>2, <3>3 DEF Settings
  <2>2. QED
    BY <1>1, <1>2, <1>3, <2>1, TypedAside DEF put_settings
<1>4. ASSUME NEW p \in Profiles, begin_stage(p) PROVE RoutingTyped'
  BY <1>1, <1>2, <1>4, TypedRequests DEF begin_stage
<1>5. ASSUME NEW p \in Profiles, discard_candidate(p) PROVE RoutingTyped'
  <2>1. settings' \in Settings
    BY <1>2, <1>5 DEF discard_candidate, discard_ollama_candidate, Settings
  <2>2. QED
    BY <1>1, <1>2, <1>5, <2>1, TypedAside DEF discard_candidate
<1>6. ASSUME NEW q \in requests, finish_stage(q) PROVE RoutingTyped'
  <2>1. settings' \in Settings
    <3>1. q.settings \in Settings /\ q.id \in Profiles
      BY <1>1, <1>6 DEF finish_stage, RoutingTyped
    <3>2. settings' = [q.settings EXCEPT !.present = @ \cup {q.id}, !.candidates = @ \cup {q.id}]
      BY <1>6 DEF finish_stage, stage_ollama_candidate, loaded
    <3>3. QED
      BY <3>1, <3>2 DEF Settings
  <2>2. QED
    BY <1>1, <1>2, <1>6, <2>1, TypedAside, ResumeTakes DEF finish_stage
<1>7. QED
  BY <1>1, <1>3, <1>4, <1>5, <1>6 DEF SettingsSteps

\* What the operators on the tables do to them.

LEMMA RunStarted ==
    ASSUME RoutingTyped, NEW p \in Profiles, runs' = Append(runs, NewRun(p, suite.version))
    PROVE  /\ Len(runs) \in Nat /\ DOMAIN runs = 1..Len(runs)
           /\ runs' \in Seq(Runs) /\ DOMAIN runs' = 1..Len(runs) + 1
           /\ \A r \in DOMAIN runs : runs'[r] = runs[r]
           /\ LET new == runs'[Len(runs) + 1] IN
                /\ new.profile = p /\ new.version = suite.version
                /\ new.status = "running"
<1>1. runs \in Seq(Runs) /\ suite.version \in Nat /\ artifacts[p] \in Nat
  BY DEF RoutingTyped
<1>2. NewRun(p, suite.version) \in Runs
  BY <1>1 DEF NewRun, Runs, observe
<1>3. /\ NewRun(p, suite.version).profile = p /\ NewRun(p, suite.version).version = suite.version
      /\ NewRun(p, suite.version).status = "running"
  BY DEF NewRun
<1> HIDE DEF NewRun
<1>4. QED
  BY <1>1, <1>2, <1>3, Table

LEMMA RunEnded ==
    ASSUME RoutingTyped, NEW r \in DOMAIN runs, NEW status \in {"complete", "error"}, NEW ready \in BOOLEAN,
           runs' = [runs EXCEPT ![r].status = status, ![r].ready = ready]
    PROVE  /\ runs' \in Seq(Runs) /\ DOMAIN runs' = DOMAIN runs
           /\ \A s \in DOMAIN runs : s # r => runs'[s] = runs[s]
           /\ /\ runs'[r].profile = runs[r].profile /\ runs'[r].version = runs[r].version
              /\ runs'[r].binding = runs[r].binding
              /\ runs'[r].status = status /\ runs'[r].ready = ready
<1> DEFINE row == [runs[r] EXCEPT !.status = status, !.ready = ready]
<1>1. runs \in Seq(Runs) /\ runs[r] \in Runs
  BY Table DEF RoutingTyped
<1>2. /\ row \in Runs /\ row.profile = runs[r].profile /\ row.version = runs[r].version
      /\ row.binding = runs[r].binding /\ row.status = status /\ row.ready = ready
  BY <1>1 DEF Runs
<1>3. runs' = [runs EXCEPT ![r] = row]
  BY <1>1 DEF Runs
<1> HIDE DEF row
<1>4. /\ [runs EXCEPT ![r] = row] \in Seq(Runs) /\ DOMAIN [runs EXCEPT ![r] = row] = DOMAIN runs
      /\ [runs EXCEPT ![r] = row][r] = row
      /\ \A s \in DOMAIN runs : s # r => [runs EXCEPT ![r] = row][s] = runs[s]
  BY <1>1, <1>2, Table
<1>5. QED
  BY <1>2, <1>3, <1>4

LEMMA BaselineSet ==
    ASSUME RoutingTyped, NEW b, runs' = set_baseline(b)
    PROVE  /\ runs' \in Seq(Runs) /\ DOMAIN runs' = DOMAIN runs
           /\ \A r \in DOMAIN runs :
                /\ runs'[r].profile = runs[r].profile /\ runs'[r].version = runs[r].version
                /\ runs'[r].binding = runs[r].binding
                /\ runs'[r].status = runs[r].status /\ runs'[r].ready = runs[r].ready
<1>1. Len(runs) \in Nat /\ DOMAIN runs = 1..Len(runs) /\ \A r \in DOMAIN runs : runs[r] \in Runs
  BY Table DEF RoutingTyped
<1>2. \A r \in DOMAIN runs : [runs[r] EXCEPT !.baseline = r = b] \in Runs
  BY <1>1 DEF Runs
<1>3. runs' \in [1..Len(runs) -> Runs]
  BY <1>1, <1>2 DEF set_baseline
<1>4. runs' \in Seq(Runs) /\ DOMAIN runs' = DOMAIN runs
  BY <1>1, <1>3, Rewritten
<1>5. \A r \in DOMAIN runs : runs'[r] = [runs[r] EXCEPT !.baseline = r = b]
  BY DEF set_baseline
<1>6. QED
  BY <1>1, <1>4, <1>5 DEF Runs

\* A tournament moves on: its row is written, the others stay.
LEMMA TournamentWritten ==
    ASSUME RoutingTyped, NEW i \in DOMAIN tournaments, NEW row \in Tournaments,
           tournaments' = [tournaments EXCEPT ![i] = row]
    PROVE  /\ tournaments' \in Seq(Tournaments) /\ DOMAIN tournaments' = DOMAIN tournaments
           /\ tournaments'[i] = row
           /\ \A j \in DOMAIN tournaments : j # i => tournaments'[j] = tournaments[j]
BY Table DEF RoutingTyped

LEMMA PromotionAppended ==
    ASSUME RoutingTyped, NEW i \in DOMAIN tournaments, NEW p \in Profiles, NEW r \in Nat,
           NEW previous \in Profiles, baseline \in Nat, create_promotion(i, p, r, previous)
    PROVE  LET n == Len(promotions) + 1 IN
           /\ Len(promotions) \in Nat /\ DOMAIN promotions = 1..Len(promotions)
           /\ promotions' \in Seq(Promotions) /\ DOMAIN promotions' = 1..n
           /\ promotions'[n].tournament = i /\ promotions'[n].profile = p
           /\ promotions'[n].run = r /\ promotions'[n].artifact = artifacts[p]
           /\ promotions'[n].target = tournaments[i].target
           /\ \A m \in DOMAIN promotions :
                /\ promotions'[m].tournament = promotions[m].tournament
                /\ promotions'[m].profile = promotions[m].profile
                /\ promotions'[m].run = promotions[m].run
                /\ promotions'[m].artifact = promotions[m].artifact
                /\ promotions'[m].target = promotions[m].target
                /\ promotions'[m].status = "active" =>
                    promotions[m].status = "active" /\ promotions[m].target # tournaments[i].target
<1> DEFINE t == tournaments[i].target
           kept == [m \in DOMAIN promotions |-> supersede(m, t)]
           new == [tournament |-> i, target |-> t, profile |-> p, previous |-> previous, run |-> r,
                   previousBaseline |-> baseline, artifact |-> artifacts[p], status |-> "active"]
<1>1. /\ Len(promotions) \in Nat /\ DOMAIN promotions = 1..Len(promotions)
      /\ \A m \in DOMAIN promotions : promotions[m] \in Promotions
      /\ tournaments[i] \in Tournaments /\ i \in Nat /\ artifacts[p] \in Nat
  BY Table DEF RoutingTyped
<1>2. new \in Promotions
  BY <1>1 DEF Promotions, Tournaments
<1>3. \A m \in DOMAIN promotions : supersede(m, t) \in Promotions
  BY <1>1 DEF supersede, Promotions
<1>4. kept \in Seq(Promotions) /\ Len(kept) = Len(promotions) /\ DOMAIN kept = DOMAIN promotions
  <2>1. kept \in [1..Len(promotions) -> Promotions]
    BY <1>1, <1>3
  <2>2. QED
    BY <1>1, <2>1, Rewritten
<1>5. promotions' = Append(kept, new)
  BY DEF create_promotion
<1>6. /\ new.tournament = i /\ new.profile = p /\ new.run = r /\ new.artifact = artifacts[p]
      /\ new.target = t
  OBVIOUS
<1>7. \A m \in DOMAIN promotions : kept[m] = supersede(m, t)
  OBVIOUS
<1> HIDE DEF kept, new
<1>8. /\ promotions' \in Seq(Promotions) /\ DOMAIN promotions' = 1..Len(promotions) + 1
      /\ promotions'[Len(promotions) + 1] = new
      /\ \A m \in DOMAIN promotions : promotions'[m] = supersede(m, t)
  BY <1>1, <1>2, <1>4, <1>5, <1>7, Table
<1>9. \A m \in DOMAIN promotions :
        LET s == supersede(m, t) IN
        /\ s.tournament = promotions[m].tournament /\ s.profile = promotions[m].profile
        /\ s.run = promotions[m].run /\ s.artifact = promotions[m].artifact
        /\ s.target = promotions[m].target
        /\ s.status = "active" => promotions[m].status = "active" /\ promotions[m].target # t
  BY <1>1 DEF supersede, Promotions
<1>10. QED
  BY <1>1, <1>6, <1>8, <1>9

-----------------------------------------------------------------------------
(* What was evaluated stays evaluated.                                     *)

LEMMA RunsForStays ==
    ASSUME Recorded, NEW i \in DOMAIN tournaments, NEW r, NEW p, RunsFor(r, i, p)
    PROVE  RunsFor(r, i, p)'
BY DEF Recorded, RunsFor

LEMMA Row ==
    ASSUME RoutingTyped, NEW i \in DOMAIN tournaments
    PROVE  /\ i \in Nat /\ tournaments[i] \in Tournaments
           /\ tournaments[i].runs \in Seq(Nat) /\ Len(tournaments[i].runs) \in Nat
           /\ DOMAIN tournaments[i].runs = 1..Len(tournaments[i].runs)
<1>1. i \in Nat /\ tournaments[i] \in Tournaments
  BY Table DEF RoutingTyped
<1>2. tournaments[i].runs \in Seq(Nat)
  BY <1>1 DEF Tournaments
<1>3. QED
  BY <1>1, <1>2, Table

LEMMA FinalistRan ==
    ASSUME RoutingTyped, InOrder, NEW i \in DOMAIN tournaments, NEW r \in Finalists(i)
    PROVE  /\ r \in DOMAIN runs /\ runs[r].status = "complete"
           /\ \E k \in DOMAIN tournaments[i].runs :
                r = tournaments[i].runs[k] /\ RunsFor(r, i, tournaments[i].profiles[k])
<1>1. PICK k \in DOMAIN tournaments[i].runs : r = tournaments[i].runs[k] /\ runs[r].status = "complete"
  BY DEF Finalists
<1>2. RunsFor(r, i, tournaments[i].profiles[k])
  BY <1>1, Row DEF InOrder, Ordered
<1>3. QED
  BY <1>1, <1>2 DEF RunsFor

\* A tournament that collects no run stays in order.
LEMMA OrderStays ==
    ASSUME RoutingTyped, InOrder, Recorded, NEW i \in DOMAIN tournaments,
           tournaments'[i].runs = tournaments[i].runs
    PROVE  Ordered(i)'
<1>1. \A k \in 1..Len(tournaments[i].runs) :
        /\ RunsFor(tournaments[i].runs[k], i, tournaments[i].profiles[k])
        /\ runs[tournaments[i].runs[k]].status # "running"
  BY DEF InOrder, Ordered
<1>2. \A k \in 1..Len(tournaments[i].runs) :
        /\ RunsFor(tournaments[i].runs[k], i, tournaments[i].profiles[k])'
        /\ runs'[tournaments[i].runs[k]].status # "running"
  BY <1>1 DEF RunsFor, Recorded
<1>3. QED
  BY <1>2 DEF InOrder, Ordered, Recorded, RunsFor

LEMMA FinalistStays ==
    ASSUME Recorded, InOrder, RoutingTyped, NEW r, NEW i, NEW p, Finalist(r, i, p)
    PROVE  Finalist(r, i, p)' /\ (Evaluated(r, i, p) => Evaluated(r, i, p)')
<1>1. i \in DOMAIN tournaments /\ r \in Finalists(i)
  BY DEF Finalist
<1>2. PICK k \in DOMAIN tournaments[i].runs : r = tournaments[i].runs[k]
  BY <1>1, FinalistRan
<1>3. r \in DOMAIN runs /\ runs[r].status = "complete"
  BY <1>1, FinalistRan
<1>4. QED
  BY <1>1, <1>2, <1>3 DEF Finalist, Finalists, Evaluated, Recorded

\* A promotion stands on what it was made from.
LEMMA PromotionStands ==
    ASSUME RoutingInv, Recorded, NEW m \in DOMAIN promotions, NEW r, NEW i, NEW p,
           r = promotions[m].run, i = promotions[m].tournament, p = promotions[m].profile
    PROVE  Evaluated(r, i, p)' /\ runs'[r].binding = promotions[m].artifact
<1>1. Evaluated(r, i, p) /\ promotions[m].artifact = runs[r].binding
  BY DEF RoutingInv, Promoted
<1>2. Evaluated(r, i, p)'
  BY <1>1, FinalistStays DEF RoutingInv, Evaluated
<1>3. r \in DOMAIN runs
  BY <1>1, FinalistRan DEF RoutingInv, Evaluated, Finalist
<1>4. QED
  BY <1>1, <1>2, <1>3 DEF Recorded

\* What rests on promotions and on requests that await, when neither is added to.
LEMMA PromisesStay ==
    ASSUME RoutingInv, Recorded, requests' \subseteq requests, UNCHANGED promotions
    PROVE  Checked' /\ Promoted' /\ OneActivePromotion'
<1>1. Checked'
  <2>1. ASSUME NEW q \in requests', q.kind = "promote"
        PROVE  \E r : Evaluated(r, q.id[1], q.id[2])'
    <3>1. PICK r : Evaluated(r, q.id[1], q.id[2])
      BY <2>1 DEF RoutingInv, Checked
    <3>2. QED
      BY <3>1, FinalistStays DEF RoutingInv, Evaluated
  <2>2. QED
    BY <2>1 DEF Checked
<1>2. Promoted'
  <2>1. ASSUME NEW m \in DOMAIN promotions'
        PROVE  /\ Evaluated(promotions[m].run, promotions[m].tournament, promotions[m].profile)'
               /\ promotions'[m].artifact = runs'[promotions[m].run].binding
    <3>1. PICK r, i, p : r = promotions[m].run /\ i = promotions[m].tournament /\ p = promotions[m].profile
      OBVIOUS
    <3>2. Evaluated(r, i, p)' /\ runs'[r].binding = promotions[m].artifact
      BY <2>1, <3>1, PromotionStands
    <3>3. QED
      BY <3>1, <3>2
  <2>2. QED
    BY <2>1 DEF Promoted
<1>3. OneActivePromotion'
  BY DEF RoutingInv, OneActivePromotion
<1>4. QED
  BY <1>1, <1>2, <1>3

\* Steps of other parts, which may publish a suite.
LEMMA InvAside ==
    ASSUME RoutingInv, RoutingTyped', UNCHANGED <<runs, tournaments, promotions>>,
           suite'.version >= suite.version,
           \A q \in requests' : q \in requests \/ q.kind # "promote"
    PROVE  RoutingInv'
<1>1. OneAtATime' /\ InOrder' /\ NextInOrder' /\ Recommended' /\ OneActivePromotion'
  BY DEF RoutingInv, OneAtATime, InOrder, NextInOrder, RunsFor, Recommended, Finalist, Finalists, Winner, Ordered,
     OneActivePromotion
<1>2. Promoted'
  BY DEF RoutingInv, Promoted, Evaluated, Finalist, Finalists
<1>3. Checked'
  <2>1. ASSUME NEW q \in requests', q.kind = "promote"
        PROVE  \E r : Evaluated(r, q.id[1], q.id[2])'
    <3>1. q \in requests
      BY <2>1
    <3>2. PICK r : Evaluated(r, q.id[1], q.id[2])
      BY <2>1, <3>1 DEF RoutingInv, Checked
    <3>3. QED
      BY <3>2 DEF Evaluated, Finalist, Finalists
  <2>2. QED
    BY <2>1 DEF Checked
<1>4. Versions'
  <2>1. /\ suite.version \in Nat /\ suite'.version \in Nat
        /\ \A r \in DOMAIN runs : runs[r].version \in Nat
        /\ \A i \in DOMAIN tournaments : tournaments[i].version \in Nat
    <3>1. suite.version \in Nat /\ suite'.version \in Nat
      BY DEF RoutingInv, RoutingTyped
    <3>2. ASSUME NEW r \in DOMAIN runs PROVE runs[r].version \in Nat
      <4>1. runs[r] \in Runs
        BY Table DEF RoutingInv, RoutingTyped
      <4>2. QED
        BY <4>1 DEF Runs
    <3>3. ASSUME NEW i \in DOMAIN tournaments PROVE tournaments[i].version \in Nat
      BY Row DEF RoutingInv, Tournaments
    <3>4. QED
      BY <3>1, <3>2, <3>3
  <2>2. QED
    BY <2>1 DEF RoutingInv, Versions
<1>5. QED
  BY <1>1, <1>2, <1>3, <1>4 DEF RoutingInv

LEMMA InvTrust == RoutingInv /\ TrustSteps => RoutingInv'
<1>1. SUFFICES ASSUME RoutingInv, TrustSteps PROVE RoutingInv'
  OBVIOUS
<1>2. RoutingTyped' /\ suite.version >= suite.version
  BY <1>1, TypedTrust DEF RoutingInv, RoutingTyped
<1>3. UNCHANGED <<runs, tournaments, promotions, suite>>
  BY <1>1 DEF TrustSteps, approve_artifact, revoke_artifact, change_artifact, begin_enforcing,
     audit_only, finish_enforcing
<1>4. requests' \subseteq requests \/ Await("enforce", 0)
  BY <1>1, ResumeTakes DEF TrustSteps, approve_artifact, revoke_artifact, change_artifact, begin_enforcing,
     audit_only, finish_enforcing
<1>5. \A q \in requests' : q \in requests \/ q.kind # "promote"
  BY <1>4, AwaitAdds
<1>6. QED
  BY <1>1, <1>2, <1>3, <1>5, InvAside

LEMMA InvSettings == RoutingInv /\ SettingsSteps => RoutingInv'
<1>1. SUFFICES ASSUME RoutingInv, SettingsSteps PROVE RoutingInv'
  OBVIOUS
<1>2. RoutingTyped' /\ suite.version >= suite.version
  BY <1>1, TypedSettings DEF RoutingInv, RoutingTyped
<1>3. UNCHANGED <<runs, tournaments, promotions, suite>>
  BY <1>1 DEF SettingsSteps, put_settings, begin_stage, discard_candidate, finish_stage
<1>4. requests' \subseteq requests \/ \E p \in Profiles : Await("stage", p)
  BY <1>1, ResumeTakes DEF SettingsSteps, put_settings, begin_stage, discard_candidate, finish_stage
<1>5. \A q \in requests' : q \in requests \/ q.kind # "promote"
  BY <1>4, AwaitAdds
<1>6. QED
  BY <1>1, <1>2, <1>3, <1>5, InvAside

-----------------------------------------------------------------------------
(* Runs.                                                                   *)

\* A run begins: its artifact is observed, its suite's version is the published one.
LEMMA InvRunStarted ==
    ASSUME RoutingInv, NEW p \in Profiles, runs' = Append(runs, NewRun(p, suite.version)),
           \A r \in DOMAIN runs : runs[r].status # "running",
           \A i \in DOMAIN tournaments : tournaments[i].status = "running" =>
                Len(tournaments[i].runs) < 2 /\ p = tournaments[i].profiles[Len(tournaments[i].runs) + 1],
           UNCHANGED <<settings, suite, tournaments, promotions, trust, artifacts, requests>>
    PROVE  RoutingInv'
<1> DEFINE n == Len(runs) + 1
<1>1. /\ Len(runs) \in Nat /\ DOMAIN runs = 1..Len(runs)
      /\ runs' \in Seq(Runs) /\ DOMAIN runs' = 1..n
      /\ \A r \in DOMAIN runs : runs'[r] = runs[r]
      /\ runs'[n].profile = p /\ runs'[n].version = suite.version /\ runs'[n].status = "running"
  BY RunStarted DEF RoutingInv
<1>2. RoutingTyped'
  BY <1>1 DEF RoutingInv, RoutingTyped
<1>3. Recorded
  BY <1>1 DEF Recorded
<1>4. OneAtATime'
  BY <1>1 DEF RoutingInv, OneAtATime
<1>5. InOrder'
  BY <1>3, OrderStays DEF RoutingInv, InOrder
<1>6. Versions' /\ NextInOrder'
  <2>1. suite.version \in Nat
    BY DEF RoutingInv, RoutingTyped
  <2>2. Versions'
    BY <1>1, <2>1 DEF RoutingInv, Versions
  <2>3. NextInOrder'
    <3>1. ASSUME NEW i \in DOMAIN tournaments, NEW r \in DOMAIN runs',
                 tournaments[i].status = "running", runs'[r].status = "running"
          PROVE  r = n
      BY <1>1, <3>1
    <3>2. \A i \in DOMAIN tournaments : suite.version >= tournaments[i].version
      <4>1. ASSUME NEW i \in DOMAIN tournaments PROVE tournaments[i].version \in Nat
        BY Row DEF RoutingInv, Tournaments
      <4>2. QED
        BY <2>1, <4>1 DEF RoutingInv, Versions
    <3>3. QED
      BY <1>1, <3>1, <3>2 DEF NextInOrder, RunsFor
  <2>4. QED
    BY <2>2, <2>3
<1>7. Recommended'
  BY <1>1, <1>3, FinalistStays DEF RoutingInv, Recommended, Winner
<1>8. QED
  BY <1>2, <1>3, <1>4, <1>5, <1>6, <1>7, PromisesStay DEF RoutingInv

LEMMA InvStartRun ==
    ASSUME RoutingInv, NEW p \in Profiles, start_run(p)
    PROVE  RoutingInv'
BY InvRunStarted DEF start_run, Benchmarking

\* A baseline is set; nothing else of a run changes.
LEMMA InvBaseline ==
    ASSUME RoutingInv, NEW b, runs' = set_baseline(b),
           UNCHANGED <<settings, suite, tournaments, promotions, trust, artifacts, requests>>
    PROVE  RoutingInv'
<1>1. /\ runs' \in Seq(Runs) /\ DOMAIN runs' = DOMAIN runs
      /\ \A r \in DOMAIN runs :
            /\ runs'[r].profile = runs[r].profile /\ runs'[r].version = runs[r].version
            /\ runs'[r].binding = runs[r].binding
            /\ runs'[r].status = runs[r].status /\ runs'[r].ready = runs[r].ready
  BY BaselineSet DEF RoutingInv
<1>2. RoutingTyped'
  BY <1>1 DEF RoutingInv, RoutingTyped
<1>3. Recorded
  BY <1>1 DEF Recorded
<1>4. OneAtATime' /\ Versions'
  BY <1>1 DEF RoutingInv, OneAtATime, Versions
<1>5. InOrder' /\ NextInOrder'
  BY <1>1, <1>3, OrderStays DEF RoutingInv, InOrder, NextInOrder, RunsFor
<1>6. Recommended'
  BY <1>1, <1>3, FinalistStays DEF RoutingInv, Recommended, Winner
<1>7. QED
  BY <1>2, <1>3, <1>4, <1>5, <1>6, PromisesStay DEF RoutingInv

LEMMA InvEndRun ==
    ASSUME RoutingInv, NEW r \in DOMAIN runs, NEW status \in {"complete", "error"}, NEW ready \in BOOLEAN,
           end_run(r, status, ready)
    PROVE  RoutingInv'
<1>1. /\ runs' \in Seq(Runs) /\ DOMAIN runs' = DOMAIN runs
      /\ \A s \in DOMAIN runs : s # r => runs'[s] = runs[s]
      /\ runs'[r].profile = runs[r].profile /\ runs'[r].version = runs[r].version
      /\ runs'[r].binding = runs[r].binding
      /\ runs'[r].status = status /\ runs'[r].ready = ready
  BY RunEnded DEF RoutingInv, end_run
<1>2. /\ runs[r].status = "running" /\ UNCHANGED <<settings, suite, promotions, trust, artifacts, requests>>
      /\ \A s \in DOMAIN runs : s # r => runs[s].status # "running"
      /\ r \in Nat
  BY Table DEF RoutingInv, OneAtATime, end_run, RoutingTyped
<1>3. \A s \in DOMAIN runs : runs'[s].status # "running"
  BY <1>1, <1>2
<1>4. CASE \A i \in DOMAIN tournaments : tournaments[i].status # "running"
  <2>1. tournaments' = tournaments
    BY <1>4 DEF end_run
  <2>2. RoutingTyped' /\ Recorded
    BY <1>1, <1>2, <2>1 DEF RoutingInv, RoutingTyped, Recorded
  <2>3. OneAtATime' /\ Versions' /\ NextInOrder'
    BY <1>1, <1>2, <1>3, <2>1 DEF RoutingInv, OneAtATime, Versions, NextInOrder
  <2>4. InOrder'
    BY <2>1, <2>2, OrderStays DEF RoutingInv, InOrder
  <2>5. Recommended'
    BY <2>1, <2>2, FinalistStays DEF RoutingInv, Recommended, Winner
  <2>6. QED
    BY <1>2, <2>2, <2>3, <2>4, <2>5, PromisesStay DEF RoutingInv
<1>5. CASE \E i \in DOMAIN tournaments : tournaments[i].status = "running"
  <2>0. PICK i \in DOMAIN tournaments : tournaments[i].status = "running"
    BY <1>5
  <2> DEFINE t == tournaments[i]
             row == [t EXCEPT !.runs = Append(@, r)]
  <2>1. i \in DOMAIN tournaments /\ t.status = "running"
    BY <2>0
  <2>2. \A j \in DOMAIN tournaments : j # i => tournaments[j].status # "running"
    BY <2>1 DEF RoutingInv, OneAtATime
  <2>3. /\ t \in Tournaments /\ t.runs \in Seq(Nat) /\ Len(t.runs) \in Nat
        /\ DOMAIN t.runs = 1..Len(t.runs)
    BY <2>1, Row DEF RoutingInv
  <2>4. /\ Append(t.runs, r) \in Seq(Nat) /\ DOMAIN Append(t.runs, r) = 1..Len(t.runs) + 1
        /\ Append(t.runs, r)[Len(t.runs) + 1] = r
        /\ \A k \in DOMAIN t.runs : Append(t.runs, r)[k] = t.runs[k]
        /\ Len(Append(t.runs, r)) = Len(t.runs) + 1
    BY <1>2, <2>3, Table
  <2>5. /\ row \in Tournaments /\ row.runs = Append(t.runs, r) /\ row.version = t.version
        /\ row.profiles = t.profiles /\ row.status = t.status /\ row.review = t.review
    BY <2>3, <2>4 DEF Tournaments
  <2>6. tournaments' = [tournaments EXCEPT ![i] = row]
    <3>1. Tournament = i
      BY <2>0, <2>2 DEF Tournament
    <3>2. QED
      BY <1>5, <3>1 DEF end_run
  <2> HIDE DEF row
  <2>7. /\ tournaments' \in Seq(Tournaments) /\ DOMAIN tournaments' = DOMAIN tournaments
        /\ tournaments'[i] = row
        /\ \A j \in DOMAIN tournaments : j # i => tournaments'[j] = tournaments[j]
    BY <2>1, <2>5, <2>6, TournamentWritten DEF RoutingInv
  <2> HIDE DEF t
  <2>8. RoutingTyped'
    BY <1>1, <1>2, <2>7 DEF RoutingInv, RoutingTyped
  <2>9. Recorded
    <3>1. \A s \in DOMAIN runs :
            /\ runs'[s].profile = runs[s].profile /\ runs'[s].version = runs[s].version
            /\ runs'[s].binding = runs[s].binding
            /\ runs[s].status # "running" => runs'[s].status = runs[s].status /\ runs'[s].ready = runs[s].ready
      BY <1>1, <1>2
    <3>2. \A j \in DOMAIN tournaments :
            /\ tournaments'[j].version = tournaments[j].version
            /\ tournaments'[j].profiles = tournaments[j].profiles
            /\ \A k \in DOMAIN tournaments[j].runs :
                k \in DOMAIN tournaments'[j].runs /\ tournaments'[j].runs[k] = tournaments[j].runs[k]
      <4>1. /\ row.version = t.version /\ row.profiles = t.profiles
            /\ \A k \in DOMAIN t.runs : k \in DOMAIN row.runs /\ row.runs[k] = t.runs[k]
        BY <2>3, <2>4, <2>5
      <4>2. QED
        BY <2>7, <4>1 DEF t
    <3>3. QED
      BY <1>1, <2>7, <3>1, <3>2 DEF Recorded
  <2>10. OneAtATime' /\ Versions' /\ NextInOrder'
    <3>1. OneAtATime'
      BY <1>1, <1>3, <2>2, <2>7 DEF OneAtATime
    <3>2. Versions'
      BY <1>1, <1>2, <2>7, <2>9 DEF RoutingInv, Versions, Recorded
    <3>3. NextInOrder'
      BY <1>1, <1>3 DEF NextInOrder
    <3>4. QED
      BY <3>1, <3>2, <3>3
  <2>11. InOrder'
    <3>1. \A j \in DOMAIN tournaments : j # i => Ordered(j)'
      BY <2>7, <2>9, OrderStays DEF RoutingInv, InOrder
    <3>2. /\ RunsFor(r, i, t.profiles[Len(t.runs) + 1])
          /\ Len(t.runs) < 2
      BY <1>2, <2>1 DEF RoutingInv, NextInOrder, t
    <3>3. \A k \in 1..Len(t.runs) : RunsFor(t.runs[k], i, t.profiles[k])
      BY <2>1 DEF RoutingInv, InOrder, Ordered, t
    <3>4. \A k \in 1..Len(row.runs) : RunsFor(row.runs[k], i, row.profiles[k])
      BY <2>3, <2>4, <2>5, <3>2, <3>3
    <3>5. /\ row.profiles[1] # row.profiles[2] /\ Len(row.runs) <= 2
      BY <2>1, <2>3, <2>4, <2>5, <3>2 DEF RoutingInv, InOrder, Ordered, t
    <3>6. \A k \in 1..Len(row.runs) :
            /\ row.runs[k] \in DOMAIN runs' /\ runs'[row.runs[k]].profile = row.profiles[k]
            /\ runs'[row.runs[k]].version >= row.version /\ runs'[row.runs[k]].status # "running"
      BY <1>1, <1>3, <2>5, <3>4 DEF RunsFor, t
    <3>7. QED
      <4>1. Ordered(i)'
        BY <2>7, <3>5, <3>6 DEF Ordered, RunsFor
      <4>2. QED
        BY <2>7, <3>1, <4>1 DEF InOrder
  <2>12. Recommended'
    <3>1. \A j \in DOMAIN tournaments : tournaments'[j].status = "complete" =>
            tournaments[j].status = "complete" /\ tournaments'[j].review = tournaments[j].review
      BY <2>5, <2>7 DEF t
    <3>2. QED
      BY <2>7, <2>9, <3>1, FinalistStays DEF RoutingInv, Recommended, Winner
  <2>13. QED
    BY <1>2, <2>8, <2>9, <2>10, <2>11, <2>12, PromisesStay DEF RoutingInv
<1>6. QED
  BY <1>4, <1>5

\* Whatever was running is marked, and the requests that waited are gone.
LEMMA InvRestart ==
    ASSUME RoutingInv, restart_benchmarks
    PROVE  RoutingInv'
<1>1. /\ Len(runs) \in Nat /\ DOMAIN runs = 1..Len(runs)
      /\ Len(tournaments) \in Nat /\ DOMAIN tournaments = 1..Len(tournaments)
      /\ \A r \in DOMAIN runs : runs[r] \in Runs
      /\ \A i \in DOMAIN tournaments : tournaments[i] \in Tournaments
  BY Table, Row DEF RoutingInv, RoutingTyped
<1>2. /\ DOMAIN runs' = DOMAIN runs
      /\ \A r \in DOMAIN runs :
            runs'[r] = IF runs[r].status = "running" THEN [runs[r] EXCEPT !.status = "error"] ELSE runs[r]
  BY DEF restart_benchmarks
<1>3. /\ DOMAIN tournaments' = DOMAIN tournaments
      /\ \A i \in DOMAIN tournaments :
            tournaments'[i] = IF tournaments[i].status = "running"
                              THEN [tournaments[i] EXCEPT !.status = "error"] ELSE tournaments[i]
  BY DEF restart_benchmarks
<1>4. \A r \in DOMAIN runs :
        /\ runs'[r] \in Runs /\ runs'[r].status # "running"
        /\ runs'[r].profile = runs[r].profile /\ runs'[r].version = runs[r].version
        /\ runs'[r].binding = runs[r].binding
        /\ runs[r].status # "running" => runs'[r] = runs[r]
  BY <1>1, <1>2 DEF Runs
<1>5. \A i \in DOMAIN tournaments :
        /\ tournaments'[i] \in Tournaments /\ tournaments'[i].status # "running"
        /\ tournaments'[i].profiles = tournaments[i].profiles /\ tournaments'[i].version = tournaments[i].version
        /\ tournaments'[i].runs = tournaments[i].runs /\ tournaments'[i].review = tournaments[i].review
        /\ tournaments'[i].status = "complete" => tournaments[i].status = "complete"
  <2>1. ASSUME NEW t \in Tournaments
        PROVE  LET u == IF t.status = "running" THEN [t EXCEPT !.status = "error"] ELSE t IN
               /\ u \in Tournaments /\ u.status # "running"
               /\ u.profiles = t.profiles /\ u.version = t.version
               /\ u.runs = t.runs /\ u.review = t.review
               /\ u.status = "complete" => t.status = "complete"
    BY DEF Tournaments
  <2>2. QED
    BY <1>1, <1>3, <2>1
<1>6. runs' \in Seq(Runs) /\ tournaments' \in Seq(Tournaments)
  <2>1. runs' \in [1..Len(runs) -> Runs] /\ tournaments' \in [1..Len(tournaments) -> Tournaments]
    BY <1>1, <1>4, <1>5 DEF restart_benchmarks
  <2>2. QED
    BY <1>1, <2>1, Rewritten
<1>7. requests' = {} /\ UNCHANGED <<settings, suite, promotions, trust, artifacts>>
  BY DEF restart_benchmarks
<1>8. RoutingTyped'
  BY <1>6, <1>7 DEF RoutingInv, RoutingTyped
<1>9. Recorded
  BY <1>2, <1>3, <1>4, <1>5 DEF Recorded
<1>10. OneAtATime' /\ NextInOrder'
  BY <1>2, <1>3, <1>4, <1>5 DEF OneAtATime, NextInOrder
<1>11. InOrder'
  BY <1>3, <1>5, <1>9, OrderStays DEF RoutingInv, InOrder
<1>12. Versions'
  BY <1>2, <1>3, <1>7, <1>9 DEF RoutingInv, Versions, Recorded
<1>13. Recommended'
  BY <1>3, <1>5, <1>9, FinalistStays DEF RoutingInv, Recommended, Winner
<1>14. QED
  BY <1>7, <1>8, <1>9, <1>10, <1>11, <1>12, <1>13, PromisesStay DEF RoutingInv

-----------------------------------------------------------------------------
(* Tournaments.                                                            *)

LEMMA InvStartTournament ==
    ASSUME RoutingInv, NEW t \in Targets, NEW a \in Profiles, NEW b \in Profiles, start_tournament(t, a, b)
    PROVE  RoutingInv'
<1> DEFINE new == NewTournament(t, a, b)
<1>0. PICK n : n = Len(tournaments) + 1
  OBVIOUS
<1>1. new \in Tournaments
  <2>1. << >> \in Seq(Nat) /\ settings.route[t] \in Profiles /\ suite.version \in Nat
    BY EmptySeq DEF RoutingInv, RoutingTyped, Settings
  <2>2. QED
    BY <2>1, RoutingAssumption DEF NewTournament, NoReview, Tournaments, Reviews
<1>2. /\ new.profiles[1] # new.profiles[2] /\ new.runs = << >> /\ new.version = suite.version
      /\ new.status = "running"
  BY DEF start_tournament, NewTournament
<1>3. tournaments' = Append(tournaments, new)
  BY DEF start_tournament
<1> HIDE DEF new
<1>4. /\ n = Len(tournaments) + 1
      /\ Len(tournaments) \in Nat /\ DOMAIN tournaments = 1..Len(tournaments)
      /\ tournaments' \in Seq(Tournaments) /\ DOMAIN tournaments' = 1..n
      /\ \A i \in DOMAIN tournaments : tournaments'[i] = tournaments[i]
      /\ tournaments'[n] = new
  BY <1>0, <1>1, <1>3, Table DEF RoutingInv, RoutingTyped
<1>5. /\ UNCHANGED <<settings, suite, runs, promotions, trust, artifacts, requests>>
      /\ \A r \in DOMAIN runs : runs[r].status # "running"
      /\ \A i \in DOMAIN tournaments : tournaments[i].status # "running"
  BY DEF start_tournament, Benchmarking
<1>6. RoutingTyped' /\ Recorded
  BY <1>4, <1>5 DEF RoutingInv, RoutingTyped, Recorded
<1>7. OneAtATime' /\ NextInOrder'
  BY <1>4, <1>5 DEF OneAtATime, NextInOrder
<1>8. InOrder'
  <2>1. Len(<< >>) = 0
    BY EmptySeq
  <2>2. Ordered(n)'
    BY <1>2, <1>4, <1>5, <2>1 DEF Ordered
  <2>3. QED
    BY <1>4, <1>6, <2>2, OrderStays DEF RoutingInv, InOrder
<1>9. Versions'
  <2>1. suite.version \in Nat
    BY DEF RoutingInv, RoutingTyped
  <2>2. QED
    BY <1>2, <1>4, <1>5, <2>1 DEF RoutingInv, Versions
<1>10. Recommended'
  BY <1>2, <1>4, <1>6, FinalistStays DEF RoutingInv, Recommended, Winner
<1>11. QED
  BY <1>5, <1>6, <1>7, <1>8, <1>9, <1>10, PromisesStay DEF RoutingInv

\* A tournament moves on without collecting a run: recommended only with a ready winner.
LEMMA InvTournament ==
    ASSUME RoutingInv, NEW i \in DOMAIN tournaments, NEW row \in Tournaments,
           tournaments' = [tournaments EXCEPT ![i] = row],
           row.version = tournaments[i].version, row.profiles = tournaments[i].profiles,
           row.runs = tournaments[i].runs, row.status # "running",
           row.status = "complete" => \E r : Finalist(r, i, row.review.winner),
           UNCHANGED <<settings, suite, runs, promotions, trust, artifacts, requests>>
    PROVE  RoutingInv'
<1>1. /\ tournaments' \in Seq(Tournaments) /\ DOMAIN tournaments' = DOMAIN tournaments
      /\ tournaments'[i] = row
      /\ \A j \in DOMAIN tournaments : j # i => tournaments'[j] = tournaments[j]
  BY TournamentWritten DEF RoutingInv
<1>2. RoutingTyped' /\ Recorded
  BY <1>1 DEF RoutingInv, RoutingTyped, Recorded
<1>3. OneAtATime' /\ Versions'
  BY <1>1 DEF RoutingInv, OneAtATime, Versions
<1>4. InOrder'
  BY <1>1, <1>2, OrderStays DEF RoutingInv, InOrder
<1>5. NextInOrder'
  BY <1>1 DEF RoutingInv, NextInOrder, RunsFor
<1>6. Recommended'
  <2>1. ASSUME NEW j \in DOMAIN tournaments, tournaments'[j].status = "complete"
        PROVE  \E r : Finalist(r, j, Winner(j))'
    <3>1. CASE j = i
      <4>1. PICK r : Finalist(r, i, row.review.winner)
        BY <1>1, <2>1, <3>1
      <4>2. Finalist(r, i, row.review.winner)'
        BY <1>2, <4>1, FinalistStays DEF RoutingInv
      <4>3. QED
        BY <1>1, <3>1, <4>2 DEF Winner
    <3>2. CASE j # i
      <4>1. PICK r : Finalist(r, j, Winner(j))
        BY <1>1, <2>1, <3>2 DEF RoutingInv, Recommended
      <4>2. QED
        BY <1>1, <1>2, <3>2, <4>1, FinalistStays DEF RoutingInv, Winner
    <3>3. QED
      BY <3>1, <3>2
  <2>2. QED
    BY <1>1, <2>1 DEF Recommended
<1>7. QED
  BY <1>2, <1>3, <1>4, <1>5, <1>6, PromisesStay DEF RoutingInv

LEMMA InvRunCandidate ==
    ASSUME RoutingInv, NEW i \in DOMAIN tournaments, run_candidate(i)
    PROVE  RoutingInv'
<1> DEFINE p == tournaments[i].profiles[Len(tournaments[i].runs) + 1]
<1>1. CASE p \in settings.present /\ resolve
  <2>1. p \in Profiles
    BY <1>1 DEF RoutingInv, RoutingTyped, Settings
  <2>2. /\ runs' = Append(runs, NewRun(p, suite.version))
        /\ UNCHANGED <<settings, suite, tournaments, promotions, trust, artifacts, requests>>
        /\ \A r \in DOMAIN runs : runs[r].status # "running"
        /\ tournaments[i].status = "running" /\ Len(tournaments[i].runs) < 2
    BY <1>1 DEF run_candidate
  <2>3. \A j \in DOMAIN tournaments : tournaments[j].status = "running" => j = i
    BY <2>2 DEF RoutingInv, OneAtATime
  <2>4. QED
    BY <2>1, <2>2, <2>3, InvRunStarted
<1>2. CASE ~(p \in settings.present /\ resolve)
  <2> DEFINE row == [tournaments[i] EXCEPT !.status = "error"]
  <2>1. /\ row \in Tournaments /\ row.version = tournaments[i].version
        /\ row.profiles = tournaments[i].profiles /\ row.runs = tournaments[i].runs
        /\ row.status = "error"
    BY Row DEF RoutingInv, Tournaments
  <2>2. /\ tournaments' = [tournaments EXCEPT ![i] = row]
        /\ UNCHANGED <<settings, suite, runs, promotions, trust, artifacts, requests>>
    BY <1>2 DEF run_candidate
  <2> HIDE DEF row
  <2>3. QED
    BY <2>1, <2>2, InvTournament
<1>3. QED
  BY <1>1, <1>2

LEMMA InvEvaluate ==
    ASSUME RoutingInv, NEW i \in DOMAIN tournaments, evaluate_tournament(i)
    PROVE  RoutingInv'
<1> DEFINE status == IF review_pairs(i) THEN "awaiting-review" ELSE "hold"
           row == [tournaments[i] EXCEPT !.status = status]
<1>1. /\ row \in Tournaments /\ row.version = tournaments[i].version
      /\ row.profiles = tournaments[i].profiles /\ row.runs = tournaments[i].runs
      /\ row.status \in {"awaiting-review", "hold"}
  BY Row DEF RoutingInv, Tournaments
<1>2. /\ tournaments' = [tournaments EXCEPT ![i] = row]
      /\ UNCHANGED <<settings, suite, runs, promotions, trust, artifacts, requests>>
  BY DEF evaluate_tournament
<1> HIDE DEF row
<1>3. QED
  BY <1>1, <1>2, InvTournament

\* The review recommends only a ready finalist.
LEMMA InvReview ==
    ASSUME RoutingInv, NEW i \in DOMAIN tournaments, NEW choice \in Profiles, NEW winner \in DOMAIN runs,
           review_tournament(i, choice, winner)
    PROVE  RoutingInv'
<1> DEFINE row == [tournaments[i] EXCEPT !.review = fingerprint(choice, winner), !.status = recommendation(winner)]
<1>1. runs[winner] \in Runs /\ tournaments[i] \in Tournaments
  BY Table, Row DEF RoutingInv, RoutingTyped
<1>2. fingerprint(choice, winner) \in Reviews /\ fingerprint(choice, winner).winner = runs[winner].profile
  BY <1>1 DEF fingerprint, Reviews, Runs
<1>3. /\ recommendation(winner) \in {"complete", "hold"}
      /\ recommendation(winner) = "complete" => runs[winner].ready
  BY DEF recommendation
<1> HIDE DEF fingerprint, recommendation
<1>4. /\ row \in Tournaments /\ row.version = tournaments[i].version
      /\ row.profiles = tournaments[i].profiles /\ row.runs = tournaments[i].runs
      /\ row.status = recommendation(winner) /\ row.review = fingerprint(choice, winner)
  BY <1>1, <1>2, <1>3 DEF Tournaments
<1>5. tournaments' = [tournaments EXCEPT ![i] = row]
  BY <1>1 DEF review_tournament, Tournaments
<1>6. winner \in Finalists(i) /\ UNCHANGED <<settings, suite, runs, promotions, trust, artifacts, requests>>
  BY DEF review_tournament, Ranked
<1> HIDE DEF row
<1>7. row.status = "complete" => Finalist(winner, i, row.review.winner)
  BY <1>2, <1>3, <1>4, <1>6 DEF Finalist
<1>8. QED
  BY <1>3, <1>4, <1>5, <1>6, <1>7, InvTournament

-----------------------------------------------------------------------------
(* Promotions.                                                             *)

\* What is promoted was evaluated with the suite version published at the check.
LEMMA InvBeginPromote ==
    ASSUME RoutingInv, NEW i \in DOMAIN tournaments, begin_promote(i)
    PROVE  RoutingInv'
<1> DEFINE p == Winner(i)
<1>1. /\ MayPromote(i) /\ Await("promote", <<i, p>>)
      /\ UNCHANGED <<settings, suite, runs, tournaments, promotions, trust, artifacts>>
  BY DEF begin_promote
<1>2. i \in Nat /\ tournaments[i] \in Tournaments /\ p \in Profiles
  <2>1. i \in Nat /\ tournaments[i] \in Tournaments
    BY Row DEF RoutingInv
  <2>2. QED
    BY <2>1 DEF Tournaments, Reviews, Winner
<1>3. RoutingTyped'
  BY <1>1, <1>2, TypedRequests DEF RoutingInv, RoutingTyped
<1>4. PICK r : Finalist(r, i, p)
  BY <1>1 DEF MayPromote, RoutingInv, Recommended
<1>5. r \in DOMAIN runs /\ runs[r].version >= tournaments[i].version
  BY <1>4, FinalistRan DEF RoutingInv, Finalist, RunsFor
<1>6. runs[r].version <= suite.version /\ tournaments[i].version = suite.version
  BY <1>1, <1>5 DEF RoutingInv, Versions, MayPromote
<1>7. Evaluated(r, i, p)
  <2>1. runs[r] \in Runs
    BY <1>5, Table DEF RoutingInv, RoutingTyped
  <2>2. runs[r].version \in Nat /\ tournaments[i].version \in Nat
    BY <1>2, <2>1 DEF Runs, Tournaments
  <2>3. QED
    BY <1>4, <1>5, <1>6, <2>2 DEF Evaluated
<1>8. Checked'
  <2>1. ASSUME NEW q \in requests', q.kind = "promote"
        PROVE  \E s : Evaluated(s, q.id[1], q.id[2])
    <3>1. q \in requests \/ q.id = <<i, p>>
      BY <1>1, AwaitAdds
    <3>2. QED
      BY <1>7, <2>1, <3>1 DEF RoutingInv, Checked
  <2>2. QED
    BY <1>1, <2>1 DEF Checked, Evaluated, Finalist, Finalists
<1>9. Recorded
  BY <1>1 DEF Recorded
<1>10. OneAtATime' /\ InOrder' /\ NextInOrder' /\ Recommended' /\ OneActivePromotion' /\ Versions'
  BY <1>1 DEF RoutingInv, OneAtATime, InOrder, NextInOrder, RunsFor, Recommended, Finalist, Finalists, Winner,
     Ordered, OneActivePromotion, Versions
<1>11. Promoted'
  BY <1>1 DEF RoutingInv, Promoted, Evaluated, Finalist, Finalists
<1>12. QED
  BY <1>3, <1>8, <1>10, <1>11 DEF RoutingInv

LEMMA InvFinishPromote ==
    ASSUME RoutingInv, NEW q \in requests, finish_promote(q)
    PROVE  RoutingInv'
<1> DEFINE i == q.id[1]
           p == q.id[2]
           t == tournaments[i].target
           r == WinnerRun(i, p)
<1>0. PICK n : n = Len(promotions) + 1
  OBVIOUS
<1>1. /\ q.kind = "promote" /\ assert_binding(r)
      /\ settings' = [loaded(q) EXCEPT !.candidates = @ \ {p}, !.route[t] = p]
      /\ runs' = set_baseline(r)
      /\ create_promotion(i, p, r, q.settings.route[t])
      /\ Resume(q) /\ UNCHANGED <<suite, tournaments, trust, artifacts>>
  BY DEF finish_promote
<1>2. PICK e : Evaluated(e, i, p)
  BY <1>1 DEF RoutingInv, Checked
<1>3. i \in DOMAIN tournaments /\ e \in Finalists(i) /\ runs[e].profile = p /\ p \in Profiles
  BY <1>1, <1>2 DEF Evaluated, Finalist, RoutingInv, RoutingTyped
<1>4. \A s \in Finalists(i) : runs[s].profile = p => s = e
  <2>1. ASSUME NEW s \in Finalists(i), runs[s].profile = p PROVE s = e
    <3>1. PICK k \in DOMAIN tournaments[i].runs :
            s = tournaments[i].runs[k] /\ RunsFor(s, i, tournaments[i].profiles[k])
      BY <1>3, FinalistRan DEF RoutingInv
    <3>2. PICK l \in DOMAIN tournaments[i].runs :
            e = tournaments[i].runs[l] /\ RunsFor(e, i, tournaments[i].profiles[l])
      BY <1>3, FinalistRan DEF RoutingInv
    <3>3. k \in 1..2 /\ l \in 1..2 /\ tournaments[i].profiles[1] # tournaments[i].profiles[2]
      BY <1>3, Row DEF RoutingInv, InOrder, Ordered
    <3>4. tournaments[i].profiles[k] = p /\ tournaments[i].profiles[l] = p
      BY <1>3, <2>1, <3>1, <3>2 DEF RunsFor
    <3>5. k = l
      BY <3>3, <3>4
    <3>6. QED
      BY <3>1, <3>2, <3>5
  <2>2. QED
    BY <2>1
<1>5. r = e
  BY <1>3, <1>4 DEF WinnerRun
<1>6. e \in DOMAIN runs /\ e \in Nat /\ t \in Targets
  <2>1. e \in DOMAIN runs
    BY <1>3, FinalistRan DEF RoutingInv
  <2>2. e \in Nat
    BY <2>1, Table DEF RoutingInv, RoutingTyped
  <2>3. t \in Targets
    BY <1>3, Row DEF RoutingInv, Tournaments
  <2>4. QED
    BY <2>1, <2>2, <2>3
<1>7. baseline \in Nat
  <2>1. DOMAIN runs \subseteq Nat
    BY Table DEF RoutingInv, RoutingTyped
  <2>2. QED
    BY <2>1 DEF baseline
<1>8. q.settings \in Settings /\ q.settings.route[t] \in Profiles
  BY <1>6 DEF RoutingInv, RoutingTyped, Settings
<1>9. settings' \in Settings
  <2>1. [q.settings.route EXCEPT ![t] = p] \in [Targets -> Profiles]
    BY <1>3, <1>8 DEF Settings
  <2>2. settings' = [q.settings EXCEPT !.candidates = @ \ {p}, !.route = [q.settings.route EXCEPT ![t] = p]]
    BY <1>1 DEF loaded
  <2>3. QED
    BY <1>8, <2>1, <2>2 DEF Settings
<1>10. create_promotion(i, p, e, q.settings.route[t])
  BY <1>1, <1>5
<1> HIDE DEF r
<1>11. /\ n = Len(promotions) + 1 /\ Len(promotions) \in Nat /\ DOMAIN promotions = 1..Len(promotions)
       /\ promotions' \in Seq(Promotions) /\ DOMAIN promotions' = 1..n
       /\ promotions'[n].tournament = i /\ promotions'[n].profile = p
       /\ promotions'[n].run = e /\ promotions'[n].artifact = artifacts[p]
       /\ promotions'[n].target = t
       /\ \A m \in DOMAIN promotions :
            /\ promotions'[m].tournament = promotions[m].tournament
            /\ promotions'[m].profile = promotions[m].profile
            /\ promotions'[m].run = promotions[m].run
            /\ promotions'[m].artifact = promotions[m].artifact
            /\ promotions'[m].target = promotions[m].target
            /\ promotions'[m].status = "active" =>
                promotions[m].status = "active" /\ promotions[m].target # t
  BY <1>0, <1>3, <1>6, <1>7, <1>8, <1>10, PromotionAppended DEF RoutingInv
<1>12. /\ runs' \in Seq(Runs) /\ DOMAIN runs' = DOMAIN runs
       /\ \A s \in DOMAIN runs :
            /\ runs'[s].profile = runs[s].profile /\ runs'[s].version = runs[s].version
            /\ runs'[s].binding = runs[s].binding
            /\ runs'[s].status = runs[s].status /\ runs'[s].ready = runs[s].ready
  BY <1>1, BaselineSet DEF RoutingInv
<1>13. requests' \subseteq requests
  BY <1>1, ResumeTakes
<1>14. Recorded
  BY <1>1, <1>12 DEF Recorded
<1> HIDE DEF i, p, t
<1>15. RoutingTyped'
  BY <1>1, <1>9, <1>11, <1>12, <1>13 DEF RoutingInv, RoutingTyped
<1>16. OneAtATime' /\ Versions' /\ NextInOrder'
  BY <1>1, <1>12 DEF RoutingInv, OneAtATime, Versions, NextInOrder, RunsFor
<1>17. InOrder'
  BY <1>1, <1>14, OrderStays DEF RoutingInv, InOrder
<1>18. Recommended'
  BY <1>1, <1>14, FinalistStays DEF RoutingInv, Recommended, Winner
<1>19. Checked'
  <2>1. ASSUME NEW a \in requests', a.kind = "promote"
        PROVE  \E s : Evaluated(s, a.id[1], a.id[2])'
    <3>1. PICK s : Evaluated(s, a.id[1], a.id[2])
      BY <1>13, <2>1 DEF RoutingInv, Checked
    <3>2. QED
      BY <1>14, <3>1, FinalistStays DEF RoutingInv, Evaluated
  <2>2. QED
    BY <2>1 DEF Checked
<1>20. Promoted'
  <2>1. ASSUME NEW m \in DOMAIN promotions
        PROVE  \E s, j, o : /\ Evaluated(s, j, o)' /\ runs'[s].binding = promotions'[m].artifact
                            /\ s = promotions'[m].run /\ j = promotions'[m].tournament
                            /\ o = promotions'[m].profile
    BY <1>11, <1>14, <2>1, PromotionStands
  <2>2. runs[e].binding = artifacts[p] /\ runs'[e].binding = runs[e].binding
    BY <1>1, <1>3, <1>5, <1>6, <1>12 DEF assert_binding, observe
  <2>3. PICK j, o : j = i /\ o = p
    OBVIOUS
  <2>4. Evaluated(e, j, o)'
    BY <1>2, <1>14, <2>3, FinalistStays DEF RoutingInv, Evaluated
  <2>5. QED
    BY <1>11, <2>1, <2>2, <2>3, <2>4 DEF Promoted
<1>21. OneActivePromotion'
  BY <1>11 DEF RoutingInv, OneActivePromotion
<1>22. QED
  BY <1>15, <1>16, <1>17, <1>18, <1>19, <1>20, <1>21 DEF RoutingInv

\* A rollback ends one promotion, at most; what it stood on stays.
LEMMA InvFinishRollback ==
    ASSUME RoutingInv, NEW q \in requests, finish_rollback(q)
    PROVE  RoutingInv'
<1>0. PICK m : m = q.id
  OBVIOUS
<1> DEFINE was == promotions[m]
           row == [was EXCEPT !.status = IF @ = "active" THEN "rolled-back" ELSE @]
<1>1. /\ q.kind = "rollback"
      /\ settings' = [loaded(q) EXCEPT !.route[was.target] = was.previous,
            !.candidates = IF was.profile \in Staged THEN @ \cup {was.profile} ELSE @]
      /\ runs' = set_baseline(was.previousBaseline)
      /\ promotions' = [promotions EXCEPT ![m].status = IF @ = "active" THEN "rolled-back" ELSE @]
      /\ Resume(q) /\ UNCHANGED <<suite, tournaments, trust, artifacts>>
  BY <1>0 DEF finish_rollback
<1>2. m \in DOMAIN promotions /\ was \in Promotions /\ q.settings \in Settings
  <2>1. m \in DOMAIN promotions /\ q.settings \in Settings
    BY <1>0, <1>1 DEF RoutingInv, RoutingTyped
  <2>2. QED
    BY <2>1, Table DEF RoutingInv, RoutingTyped
<1>3. settings' \in Settings
  <2>1. was.target \in Targets /\ was.previous \in Profiles /\ was.profile \in Profiles
    BY <1>2 DEF Promotions
  <2> DEFINE route == [q.settings.route EXCEPT ![was.target] = was.previous]
             candidates == IF was.profile \in Staged THEN q.settings.candidates \cup {was.profile}
                           ELSE q.settings.candidates
  <2>2. route \in [Targets -> Profiles] /\ candidates \in SUBSET Profiles
    BY <1>2, <2>1 DEF Settings
  <2>3. settings' = [q.settings EXCEPT !.route = route, !.candidates = candidates]
    BY <1>1 DEF loaded
  <2> HIDE DEF route, candidates
  <2>4. QED
    BY <1>2, <2>2, <2>3 DEF Settings
<1>4. /\ row \in Promotions /\ row.tournament = was.tournament /\ row.profile = was.profile
      /\ row.run = was.run /\ row.artifact = was.artifact /\ row.target = was.target
      /\ row.status # "active"
  BY <1>2 DEF Promotions
<1>5. promotions' = [promotions EXCEPT ![m] = row]
  BY <1>1, <1>2 DEF Promotions
<1> HIDE DEF row
<1>6. /\ promotions' \in Seq(Promotions) /\ DOMAIN promotions' = DOMAIN promotions
      /\ promotions'[m] = row
      /\ \A o \in DOMAIN promotions : o # m => promotions'[o] = promotions[o]
  BY <1>2, <1>4, <1>5, Table DEF RoutingInv, RoutingTyped
<1>7. /\ runs' \in Seq(Runs) /\ DOMAIN runs' = DOMAIN runs
      /\ \A s \in DOMAIN runs :
            /\ runs'[s].profile = runs[s].profile /\ runs'[s].version = runs[s].version
            /\ runs'[s].binding = runs[s].binding
            /\ runs'[s].status = runs[s].status /\ runs'[s].ready = runs[s].ready
  BY <1>1, BaselineSet DEF RoutingInv
<1>8. requests' \subseteq requests
  BY <1>1, ResumeTakes
<1>9. Recorded
  BY <1>1, <1>7 DEF Recorded
<1>10. RoutingTyped'
  BY <1>1, <1>3, <1>6, <1>7, <1>8 DEF RoutingInv, RoutingTyped
<1>11. OneAtATime' /\ Versions' /\ NextInOrder'
  BY <1>1, <1>7 DEF RoutingInv, OneAtATime, Versions, NextInOrder, RunsFor
<1>12. InOrder'
  BY <1>1, <1>9, OrderStays DEF RoutingInv, InOrder
<1>13. Recommended'
  BY <1>1, <1>9, FinalistStays DEF RoutingInv, Recommended, Winner
<1>14. Checked'
  <2>1. ASSUME NEW a \in requests', a.kind = "promote"
        PROVE  \E s : Evaluated(s, a.id[1], a.id[2])'
    <3>1. PICK s : Evaluated(s, a.id[1], a.id[2])
      BY <1>8, <2>1 DEF RoutingInv, Checked
    <3>2. QED
      BY <1>9, <3>1, FinalistStays DEF RoutingInv, Evaluated
  <2>2. QED
    BY <2>1 DEF Checked
<1>15. Promoted'
  <2>1. ASSUME NEW o \in DOMAIN promotions
        PROVE  \E s, j, p : /\ Evaluated(s, j, p)' /\ runs'[s].binding = promotions'[o].artifact
                            /\ s = promotions'[o].run /\ j = promotions'[o].tournament
                            /\ p = promotions'[o].profile
    <3>1. /\ promotions'[o].run = promotions[o].run /\ promotions'[o].tournament = promotions[o].tournament
          /\ promotions'[o].profile = promotions[o].profile /\ promotions'[o].artifact = promotions[o].artifact
      BY <1>4, <1>6
    <3>2. QED
      BY <1>9, <3>1, PromotionStands
  <2>2. QED
    BY <1>6, <2>1 DEF Promoted
<1>16. OneActivePromotion'
  BY <1>4, <1>6 DEF RoutingInv, OneActivePromotion
<1>17. QED
  BY <1>10, <1>11, <1>12, <1>13, <1>14, <1>15, <1>16 DEF RoutingInv

LEMMA InvBenchmarks == RoutingInv /\ BenchmarkSteps => RoutingInv'
<1>1. SUFFICES ASSUME RoutingInv, BenchmarkSteps PROVE RoutingInv'
  OBVIOUS
<1>2. CASE publish_suite \/ archive_suite
  <2>1. suite \in [version : Nat, status : {"active", "archived"}] /\ RoutingTyped
    BY <1>1 DEF RoutingInv, RoutingTyped
  <2>2. /\ suite' \in [version : Nat, status : {"active", "archived"}]
        /\ suite'.version >= suite.version
        /\ UNCHANGED <<settings, runs, tournaments, promotions, trust, artifacts, requests>>
    BY <1>2, <2>1 DEF publish_suite, archive_suite, published, archive
  <2>3. RoutingTyped'
    BY <2>1, <2>2, TypedAside DEF RoutingTyped
  <2>4. QED
    BY <1>1, <2>2, <2>3, InvAside
<1>3. ASSUME NEW p \in Profiles, start_run(p) PROVE RoutingInv'
  BY <1>1, <1>3, InvStartRun
<1>4. ASSUME NEW r \in DOMAIN runs, accept_baseline(r) PROVE RoutingInv'
  BY <1>1, <1>4, InvBaseline DEF accept_baseline
<1>5. ASSUME NEW r \in DOMAIN runs,
             end_run(r, "error", FALSE) \/ \E ready \in BOOLEAN : end_run(r, "complete", ready)
      PROVE  RoutingInv'
  BY <1>1, <1>5, InvEndRun
<1>6. CASE restart_benchmarks
  BY <1>1, <1>6, InvRestart
<1>7. QED
  BY <1>1, <1>2, <1>3, <1>4, <1>5, <1>6 DEF BenchmarkSteps

LEMMA InvTournaments == RoutingInv /\ TournamentSteps => RoutingInv'
<1>1. SUFFICES ASSUME RoutingInv, TournamentSteps PROVE RoutingInv'
  OBVIOUS
<1>2. ASSUME NEW t \in Targets, NEW a \in Profiles, NEW b \in Profiles, start_tournament(t, a, b)
      PROVE  RoutingInv'
  BY <1>1, <1>2, InvStartTournament
<1>3. ASSUME NEW i \in DOMAIN tournaments, run_candidate(i) \/ evaluate_tournament(i) \/ begin_promote(i)
      PROVE  RoutingInv'
  BY <1>1, <1>3, InvRunCandidate, InvEvaluate, InvBeginPromote
<1>4. ASSUME NEW i \in DOMAIN tournaments, NEW choice \in Profiles, NEW winner \in DOMAIN runs,
             review_tournament(i, choice, winner)
      PROVE  RoutingInv'
  BY <1>1, <1>4, InvReview
<1>5. ASSUME NEW m \in DOMAIN promotions, begin_rollback(m) PROVE RoutingInv'
  <2>1. /\ Await("rollback", m)
        /\ UNCHANGED <<settings, suite, runs, tournaments, promotions, trust, artifacts>>
    BY <1>5 DEF begin_rollback
  <2>2. RoutingTyped' /\ suite'.version >= suite.version
    BY <1>1, <2>1, TypedRequests DEF RoutingInv, RoutingTyped
  <2>3. \A q \in requests' : q \in requests \/ q.kind # "promote"
    BY <2>1, AwaitAdds
  <2>4. QED
    BY <1>1, <2>1, <2>2, <2>3, InvAside
<1>6. ASSUME NEW q \in requests, finish_promote(q) \/ finish_rollback(q) PROVE RoutingInv'
  BY <1>1, <1>6, InvFinishPromote, InvFinishRollback
<1>7. ASSUME NEW q \in requests, refuse(q) PROVE RoutingInv'
  <2>1. requests' \subseteq requests /\ UNCHANGED <<settings, suite, runs, tournaments, promotions, trust, artifacts>>
    BY <1>7, ResumeTakes DEF refuse
  <2>2. RoutingTyped' /\ suite'.version >= suite.version
    BY <1>1, <2>1, TypedAside DEF RoutingInv, RoutingTyped
  <2>3. QED
    BY <1>1, <2>1, <2>2, InvAside
<1>8. QED
  BY <1>1, <1>2, <1>3, <1>4, <1>5, <1>6, <1>7 DEF TournamentSteps

LEMMA RoutingInvInit == RoutingInit => RoutingInv
<1>1. SUFFICES ASSUME RoutingInit PROVE RoutingInv
  OBVIOUS
<1>2. DOMAIN runs = {} /\ DOMAIN tournaments = {} /\ DOMAIN promotions = {} /\ requests = {}
  BY <1>1 DEF RoutingInit
<1>3. RoutingTyped
  BY <1>1, TypedInit
<1>4. QED
  BY <1>2, <1>3 DEF RoutingInv, OneAtATime, InOrder, NextInOrder, Versions, Recommended, Checked, Promoted,
     OneActivePromotion

LEMMA RoutingInvStep == RoutingInv /\ [RoutingNext]_routingVars => RoutingInv'
<1>1. SUFFICES ASSUME RoutingInv, [RoutingNext]_routingVars PROVE RoutingInv'
  OBVIOUS
<1>2. CASE UNCHANGED routingVars
  <2>1. UNCHANGED <<settings, suite, runs, tournaments, promotions, trust, artifacts, requests>>
    BY <1>2 DEF routingVars
  <2>2. RoutingTyped' /\ suite'.version >= suite.version
    BY <1>1, <2>1 DEF RoutingInv, RoutingTyped
  <2>3. QED
    BY <1>1, <2>1, <2>2, InvAside
<1>3. QED
  BY <1>1, <1>2, InvTrust, InvSettings, InvBenchmarks, InvTournaments DEF RoutingNext

-----------------------------------------------------------------------------
\* However many promotions and rollbacks of a route await at the same time, at most one
\* promotion of it is recorded active (finish_promote, finish_rollback).
THEOREM OneActive == RoutingSpec => []OneActivePromotion
<1>1. RoutingInv => OneActivePromotion
  BY DEF RoutingInv
<1>2. QED
  BY <1>1, RoutingInvInit, RoutingInvStep, PTL DEF RoutingSpec

\* Every promotion, however late it was carried out, stands on the run that evaluated its
\* artifact, ready, under the suite version of its tournament.
THEOREM PromotionsStand == RoutingSpec => []PromotedAsEvaluated
<1>1. RoutingInv => PromotedAsEvaluated
  <2>1. SUFFICES ASSUME RoutingInv, NEW m \in DOMAIN promotions
        PROVE  /\ promotions[m].artifact = runs[promotions[m].run].binding
               /\ Promotable(promotions[m].run)
               /\ runs[promotions[m].run].profile = promotions[m].profile
               /\ runs[promotions[m].run].version = tournaments[promotions[m].tournament].version
    BY DEF PromotedAsEvaluated
  <2>2. QED
    BY <2>1, FinalistRan DEF RoutingInv, Promoted, Evaluated, Finalist, Promotable
<1>2. QED
  BY <1>1, RoutingInvInit, RoutingInvStep, PTL DEF RoutingSpec

-----------------------------------------------------------------------------
(* Installing: types and invariant.                                        *)

Models == Locals \cup Ollamas
Strategies == {"auto", "public-only", "direct-http", "clean-download"}
CauseNames == {Causes[k] : k \in DOMAIN Causes}

PullStatuses == {"queued", "pulling", "complete", "error"}
PullSteps == {"created", "lock", "runtime", "download", "manifest", "index", "stream", "track",
              "observe", "dead", "ended"}
Pulls == [profile : Models, strategy : Strategies, status : PullStatuses, step : PullSteps]
Drills == [status : {"idle", "running", "complete", "attention"}, at : Seq(Models),
           step : {"check", "wait", "verify"}, child : Nat, failed : BOOLEAN]
Folders == [files : SUBSET (Nat \ {0}), whole : BOOLEAN, manifest : Nat]
Outcomes == [status : {"complete", "error"}, strategy : Strategies, code : CauseNames \cup {""}]

\* The jobs, the drill, the files and the outcomes recorded.
InstallTyped ==
    /\ configured \subseteq Models /\ runtime \in BOOLEAN /\ upstream \in Nat \ {0}
    /\ pulls \in Seq(Pulls)
    /\ drill \in Drills
    /\ folder \in [Locals -> Folders]
    /\ inventory \in [Ollamas -> Nat] /\ tracked \in [Ollamas -> Nat]
    /\ history \in [Models -> Seq(Outcomes)]
    /\ index \in [chunks : Nat, embedded : SUBSET Nat, job : {"idle", "running", "complete", "error"},
                  batch : SUBSET Nat]

\* Two pending jobs are not of one profile.
OnePending ==
    \A i, j \in DOMAIN pulls : Pending(i) /\ Pending(j) /\ pulls[i].profile = pulls[j].profile => i = j

\* The model of a job shown as complete is installed.
CompletedIsInstalled == \A j \in DOMAIN pulls : pulls[j].status = "complete" => Installed(pulls[j].profile)

\* Where a task stands tells what is there already.
StepStands(j) ==
    LET p == pulls[j].profile
        step == pulls[j].step IN
    /\ Pending(j) <=> step # "ended"
    /\ step \in {"lock", "runtime", "download", "manifest", "index"} => p \in Locals
    /\ step \in {"stream", "track"} => p \in Ollamas
    /\ step = "manifest" => folder[p].whole
    /\ step = "index" => Installed(p)
    /\ step \in {"track", "observe"} => Installed(p)
    /\ step \in {"download", "manifest", "index"} => runtime

StepsStand == \A j \in DOMAIN pulls : StepStands(j)

\* The drill waits for an installation of the model it attempts.
DrillStands ==
    drill.status = "running" =>
        /\ drill.at # << >>
        /\ drill.step = "wait" => drill.child \in DOMAIN pulls /\ pulls[drill.child].profile = Attempted

InstallInv == InstallTyped /\ OnePending /\ CompletedIsInstalled /\ StepsStand /\ DrillStands

-----------------------------------------------------------------------------
(* Which cause and which strategy come first.                              *)

\* A non-empty set of positions has a first.
LEMMA FirstExists ==
    ASSUME NEW n \in Nat, NEW K \in SUBSET (1..n), K # {}
    PROVE  \E k \in K : \A l \in K : k <= l
<1> DEFINE Before(k) == 1..k
           B == {Before(k) : k \in K}
           all == 1..n
<1>0. \A k \in K : 1..k \in SUBSET (1..n)
  OBVIOUS
<1>1. IsFiniteSet(all) /\ B \in SUBSET (SUBSET all) /\ B # {}
  <2>1. IsFiniteSet(1..n)
    BY FS_Interval
  <2> QED BY <1>0, <2>1
<1>2. PICK T \in B : \A U \in B : U \subseteq T => U = T
  <2> HIDE DEF B, all
  <2>1. B \subseteq FiniteSubsetsOf(all)
    BY <1>1, FS_Subset DEF FiniteSubsetsOf
  <2>2. PICK T \in B : \A U \in B : ~(<<U, T>> \in StrictSubsetOrdering(all))
    BY <1>1, <2>1, FS_StrictSubsetOrderingWellFounded, WFMin
  <2> QED BY <1>1, <2>2 DEF StrictSubsetOrdering
<1>3. PICK k \in K : T = Before(k)
  OBVIOUS
<1>4. ASSUME NEW l \in K, l < k PROVE FALSE
  <2>1. Before(l) \subseteq T /\ k \in T
    BY <1>3, <1>4
  <2>2. Before(l) = T
    BY <1>2, <2>1
  <2> QED BY <1>4, <2>1, <2>2
<1> QED BY <1>4

\* The last of them.
LEMMA LastExists ==
    ASSUME NEW n \in Nat, NEW K \in SUBSET (1..n), K # {}
    PROVE  \E k \in K : \A l \in K : l <= k
<1> DEFINE M == {n + 1 - k : k \in K}
<1>0. \A k \in K : n + 1 - k \in 1..n
  OBVIOUS
<1>1. M \in SUBSET (1..n) /\ M # {}
  BY <1>0
<1>2. PICK m \in M : \A l \in M : m <= l
  <2> HIDE DEF M
  <2> QED BY <1>1, FirstExists
<1>3. PICK k \in K : m = n + 1 - k
  OBVIOUS
<1>4. ASSUME NEW l \in K PROVE l <= k
  <2>1. n + 1 - l \in M
    OBVIOUS
  <2>2. m <= n + 1 - l
    BY <1>2, <2>1
  <2> QED BY <1>3, <2>2
<1> QED BY <1>4

\* The first member found is at one of the positions.
LEMMA FirstIsThere ==
    ASSUME NEW n \in Nat, NEW K \in SUBSET (1..n), K # {}, NEW list
    PROVE  \E k \in K : FirstOf(list, K) = list[k] /\ \A l \in K : k <= l
BY FirstExists DEF FirstOf

\* What fails has a cause: the last one applies to everything.
LEMMA CauseNamed ==
    ASSUME NEW kind, NEW stage, NEW symptoms
    PROVE  Cause(kind, stage, symptoms) \in CauseNames
<1> DEFINE K == {k \in DOMAIN Causes : Shows(Causes[k], kind, stage, symptoms)}
<1>1. DOMAIN Causes = 1..13 /\ Causes[13] = "unclassified-install-error"
  BY DEF Causes
<1>2. Shows(Causes[13], kind, stage, symptoms)
  BY <1>1 DEF Shows
<1>3. K \in SUBSET (1..13) /\ K # {}
  BY <1>1, <1>2
<1>4. \E k \in K : FirstOf(Causes, K) = Causes[k]
  <2> HIDE DEF K
  <2> QED BY <1>3, FirstIsThere
<1> QED BY <1>4 DEF Cause, CauseNames

\* The next strategy was not the last one, and was not tried before unless all were.
LEMMA StrategyChanges ==
    ASSUME NEW code, NEW attempted \in Seq(Strategies), attempted # << >>
    PROVE  LET next == next_local_install_strategy(code, attempted)
               tried == {attempted[a] : a \in DOMAIN attempted}
           IN  /\ next \in Strategies
               /\ next # attempted[Len(attempted)]
               /\ next \in tried => Strategies \subseteq tried
<1> DEFINE order == CASE code = "model-artifact-invalid" ->
                        <<"clean-download", "direct-http", "public-only", "auto">>
                      [] code \in {"tls-trust", "tls-ca-bundle-missing", "network", "source-authorization"} ->
                        <<"direct-http", "clean-download", "public-only", "auto">>
                      [] OTHER -> <<"public-only", "direct-http", "clean-download", "auto">>
           untried == {k \in DOMAIN order : \A a \in DOMAIN attempted : attempted[a] # order[k]}
           others == {k \in DOMAIN order : order[k] # attempted[Len(attempted)]}
           K == IF untried # {} THEN untried ELSE others
<1>1. /\ DOMAIN order = 1..4
      /\ \A k \in 1..4 : order[k] \in Strategies
      /\ \A t \in Strategies : \E k \in 1..4 : order[k] = t
      /\ order[1] # order[2]
  <2>1. CASE code = "model-artifact-invalid"
    BY <2>1 DEF Strategies
  <2>2. CASE code \in {"tls-trust", "tls-ca-bundle-missing", "network", "source-authorization"}
    BY <2>2 DEF Strategies
  <2>3. CASE code \notin {"model-artifact-invalid", "tls-trust", "tls-ca-bundle-missing", "network", "source-authorization"}
    BY <2>3 DEF Strategies
  <2> QED BY <2>1, <2>2, <2>3
<1>2. next_local_install_strategy(code, attempted) = FirstOf(order, K)
  BY DEF next_local_install_strategy
<1> HIDE DEF order
<1>3. Len(attempted) \in DOMAIN attempted
  BY LenProperties, EmptySeq
<1>4. K \in SUBSET (1..4) /\ K # {}
  BY <1>1
<1>5. PICK k \in K : FirstOf(order, K) = order[k]
  <2> HIDE DEF K
  <2> QED BY <1>4, FirstIsThere
<1>6. order[k] # attempted[Len(attempted)]
  BY <1>3, <1>5
<1>7. ASSUME NEW a \in DOMAIN attempted, order[k] = attempted[a], NEW t \in Strategies
      PROVE  \E b \in DOMAIN attempted : attempted[b] = t
  BY <1>1, <1>5, <1>7
<1>8. /\ FirstOf(order, K) \in Strategies
      /\ FirstOf(order, K) # attempted[Len(attempted)]
      /\ FirstOf(order, K) \in {attempted[a] : a \in DOMAIN attempted} =>
            Strategies \subseteq {attempted[a] : a \in DOMAIN attempted}
  <2> HIDE DEF K
  <2> QED BY <1>1, <1>4, <1>5, <1>6, <1>7
<1> HIDE DEF K
<1> QED BY <1>2, <1>8

\* The failures since the last success are outcomes.
LEMMA FailuresTyped ==
    ASSUME InstallTyped, NEW p \in Models
    PROVE  FailuresOf(p) \in Seq(Outcomes)
<1> DEFINE h == history[p]
           successes == {k \in DOMAIN h : h[k].status = "complete"}
           last == IF successes = {} THEN 0 ELSE CHOOSE k \in successes : \A l \in successes : l <= k
<1>1. h \in Seq(Outcomes) /\ DOMAIN h = 1..Len(h) /\ Len(h) \in Nat
  BY LenProperties DEF InstallTyped
<1>2. last \in 0..Len(h)
  <2>1. CASE successes = {}
    BY <1>1, <2>1
  <2>2. CASE successes # {}
    <3>1. successes \in SUBSET (1..Len(h))
      BY <1>1
    <3>2. \E k \in successes : \A l \in successes : l <= k
      <4> HIDE DEF successes
      <4> QED BY <1>1, <2>2, <3>1, LastExists
    <3>3. last \in successes
      BY <2>2, <3>2
    <3>4. last \in 1..Len(h)
      <4> HIDE DEF last, successes
      <4> QED BY <3>1, <3>3
    <3> HIDE DEF last, h
    <3> QED BY <1>1, <3>4
  <2> QED BY <2>1, <2>2
<1>3. FailuresOf(p) = SubSeq(h, 1 + last, Len(h))
  BY DEF FailuresOf
<1> HIDE DEF last, h
<1>4. SubSeq(h, 1 + last, Len(h)) \in Seq(Outcomes)
  <2>1. \A i \in (1 + last)..Len(h) : h[i] \in Outcomes
    BY <1>1, <1>2, ElementOfSeq
  <2> QED BY <1>1, <1>2, <2>1, SubSeqProperties
<1> QED BY <1>3, <1>4

\* What is offered to install is one of the strategies.
LEMMA ActionOffered ==
    ASSUME InstallTyped, NEW p \in Models, NEW probe
    PROVE  /\ install_action(p, probe) \in Strategies
           /\ FailuresOf(p) # << >> =>
                LET failed == FailuresOf(p)
                    tried == {failed[k].strategy : k \in DOMAIN failed}
                IN  /\ install_action(p, probe) # failed[Len(failed)].strategy
                    /\ install_action(p, probe) \in tried => Strategies \subseteq tried
<1> DEFINE failed == FailuresOf(p)
           attempted == [k \in DOMAIN failed |-> failed[k].strategy]
<1>1. failed \in Seq(Outcomes) /\ Len(failed) \in Nat /\ DOMAIN failed = 1..Len(failed)
  BY FailuresTyped, LenProperties
<1>2. \A k \in DOMAIN failed : failed[k].strategy \in Strategies
  <2>1. \A k \in DOMAIN failed : failed[k] \in Outcomes
    <3> HIDE DEF failed
    <3> QED BY <1>1, ElementOfSeq
  <2>2. \A o \in Outcomes : o.strategy \in Strategies
    BY DEF Outcomes
  <2> QED BY <2>1, <2>2
<1>3. attempted \in Seq(Strategies) /\ Len(attempted) = Len(failed) /\ DOMAIN attempted = DOMAIN failed
  <2>1. attempted \in [1..Len(failed) -> Strategies]
    BY <1>1, <1>2
  <2> HIDE DEF attempted
  <2>2. attempted \in Seq(Strategies)
    BY <1>1, <2>1, SeqDef
  <2> QED BY <1>1, <2>1, <2>2, LenProperties
<1>4. CASE failed = << >>
  BY <1>4 DEF install_action, Strategies
<1>5. CASE failed # << >>
  <2>1. attempted # << >> /\ Len(failed) \in DOMAIN failed
    BY <1>1, <1>3, <1>5, EmptySeq
  <2>2. install_action(p, probe) = next_local_install_strategy(failed[Len(failed)].code, attempted)
    BY <1>5 DEF install_action
  <2>3. /\ attempted[Len(attempted)] = failed[Len(failed)].strategy
        /\ {attempted[a] : a \in DOMAIN attempted} = {failed[k].strategy : k \in DOMAIN failed}
    BY <1>3, <2>1
  <2> HIDE DEF attempted
  <2> QED BY <1>3, <2>1, <2>2, <2>3, StrategyChanges
<1> QED BY <1>4, <1>5

-----------------------------------------------------------------------------
(* Steps of a job.                                                         *)

\* The row of job j, and no other, turns to a status and a step.
Turn(j, status, step) ==
    /\ pulls' \in Seq(Pulls) /\ DOMAIN pulls' = DOMAIN pulls
    /\ pulls'[j].profile = pulls[j].profile
    /\ pulls'[j].status = status /\ pulls'[j].step = step
    /\ \A k \in DOMAIN pulls : k # j => pulls'[k] = pulls[k]

\* A step of job j: its row turns, only its folder changes, what was installed stays,
\* and what its new step stands for is there.
Advance(j) ==
    /\ \E status \in PullStatuses, step \in PullSteps : Turn(j, status, step)
    /\ Pending(j)' => Pending(j)
    /\ StepStands(j)'
    /\ pulls'[j].status = "complete" => Installed(pulls[j].profile)'
    /\ \A p \in Models : Installed(p) => Installed(p)'
    /\ \A p \in Locals : p # pulls[j].profile => folder'[p] = folder[p]
    /\ runtime' \in BOOLEAN /\ (runtime => runtime')
    /\ folder' \in [Locals -> Folders]
    /\ inventory' \in [Ollamas -> Nat] /\ tracked' \in [Ollamas -> Nat]
    /\ history' \in [Models -> Seq(Outcomes)]
    /\ index' \in [chunks : Nat, embedded : SUBSET Nat, job : {"idle", "running", "complete", "error"},
                   batch : SUBSET Nat]
    /\ UNCHANGED <<configured, drill, upstream>>

\* A job is a row of its table.
LEMMA JobTyped ==
    ASSUME InstallTyped, NEW j \in DOMAIN pulls
    PROVE  /\ pulls[j] \in Pulls /\ DOMAIN pulls = 1..Len(pulls) /\ Len(pulls) \in Nat
           /\ pulls[j].profile \in Models /\ pulls[j].strategy \in Strategies
           /\ pulls[j].status \in PullStatuses /\ pulls[j].step \in PullSteps
<1>1. pulls \in Seq(Pulls)
  BY DEF InstallTyped
<1>2. pulls[j] \in Pulls /\ DOMAIN pulls = 1..Len(pulls) /\ Len(pulls) \in Nat
  BY <1>1, Table
<1> QED BY <1>2 DEF Pulls

\* A job turns to a status and a step.
LEMMA Turned ==
    ASSUME InstallTyped, NEW j \in DOMAIN pulls, NEW status \in PullStatuses, NEW step \in PullSteps,
           pulls' = [pulls EXCEPT ![j].status = status, ![j].step = step]
    PROVE  Turn(j, status, step)
<1> DEFINE row == [pulls[j] EXCEPT !.status = status, !.step = step]
<1>1. row \in Pulls /\ row.profile = pulls[j].profile /\ row.status = status /\ row.step = step
  BY JobTyped DEF Pulls
<1>2. pulls' = [pulls EXCEPT ![j] = row]
  BY JobTyped DEF Pulls
<1> HIDE DEF row
<1>3. /\ pulls' \in Seq(Pulls) /\ DOMAIN pulls' = DOMAIN pulls
      /\ pulls'[j] = row
      /\ \A k \in DOMAIN pulls : k # j => pulls'[k] = pulls[k]
  <2>1. pulls \in Seq(Pulls)
    BY DEF InstallTyped
  <2>2. /\ [pulls EXCEPT ![j] = row] \in Seq(Pulls)
        /\ DOMAIN [pulls EXCEPT ![j] = row] = DOMAIN pulls
        /\ [pulls EXCEPT ![j] = row][j] = row
        /\ \A k \in DOMAIN pulls : k # j => [pulls EXCEPT ![j] = row][k] = pulls[k]
    BY <1>1, <2>1, Table
  <2> QED BY <1>2, <2>2
<1> QED BY <1>1, <1>3 DEF Turn

\* A job moves to a step and keeps its status.
LEMMA Moved ==
    ASSUME InstallTyped, NEW j \in DOMAIN pulls, NEW step \in PullSteps, pulls' = At(j, step)
    PROVE  Turn(j, pulls[j].status, step)
<1> DEFINE row == [pulls[j] EXCEPT !.step = step]
<1>1. row \in Pulls /\ row.profile = pulls[j].profile /\ row.status = pulls[j].status /\ row.step = step
  BY JobTyped DEF Pulls
<1>2. pulls' = [pulls EXCEPT ![j] = row]
  BY DEF At
<1> HIDE DEF row
<1>3. /\ pulls' \in Seq(Pulls) /\ DOMAIN pulls' = DOMAIN pulls
      /\ pulls'[j] = row
      /\ \A k \in DOMAIN pulls : k # j => pulls'[k] = pulls[k]
  <2>1. pulls \in Seq(Pulls)
    BY DEF InstallTyped
  <2>2. /\ [pulls EXCEPT ![j] = row] \in Seq(Pulls)
        /\ DOMAIN [pulls EXCEPT ![j] = row] = DOMAIN pulls
        /\ [pulls EXCEPT ![j] = row][j] = row
        /\ \A k \in DOMAIN pulls : k # j => [pulls EXCEPT ![j] = row][k] = pulls[k]
    BY <1>1, <2>1, Table
  <2> QED BY <1>2, <2>2
<1> QED BY <1>1, <1>3 DEF Turn

\* The last members of a list are a list of them.
LEMMA LastTyped ==
    ASSUME NEW S, NEW s \in Seq(S)
    PROVE  Last8(s) \in Seq(S)
<1> DEFINE from == IF Len(s) > HistoryKept THEN Len(s) - HistoryKept + 1 ELSE 1
<1>1. Len(s) \in Nat
  BY LenProperties
<1>2. from \in 1..Len(s) + 1
  BY <1>1, InstallAssumption
<1> HIDE DEF from
<1>3. \A k \in from..Len(s) : s[k] \in S
  BY <1>1, <1>2, ElementOfSeq
<1>4. SubSeq(s, from, Len(s)) \in Seq(S)
  BY <1>1, <1>2, <1>3, SubSeqProperties
<1> QED BY <1>4 DEF Last8, from

\* Recording an outcome keeps the history typed.
LEMMA OutcomeRecorded ==
    ASSUME InstallTyped, NEW j \in DOMAIN pulls, NEW status \in {"complete", "error"},
           NEW code \in CauseNames \cup {""}, record_install_outcome(j, status, code)
    PROVE  history' \in [Models -> Seq(Outcomes)]
<1> DEFINE p == pulls[j].profile
           outcome == [status |-> status, strategy |-> pulls[j].strategy, code |-> code]
           s == Last8(Append(history[p], outcome))
<1>1. p \in Models /\ outcome \in Outcomes
  BY JobTyped DEF Outcomes
<1>2. history[p] \in Seq(Outcomes)
  BY <1>1 DEF InstallTyped
<1>3. Append(history[p], outcome) \in Seq(Outcomes)
  <2> HIDE DEF outcome
  <2> QED BY <1>1, <1>2, Table
<1>4. s \in Seq(Outcomes)
  <2> HIDE DEF outcome
  <2> QED BY <1>3, LastTyped
<1>5. history' = [history EXCEPT ![p] = s]
  BY DEF record_install_outcome
<1> HIDE DEF s
<1> QED BY <1>4, <1>5 DEF InstallTyped

\* A job that fails ends, and its cause is recorded.
LEMMA Failed ==
    ASSUME InstallTyped, NEW j \in DOMAIN pulls, setup_failure(j)
    PROVE  Turn(j, "error", "ended") /\ history' \in [Models -> Seq(Outcomes)]
<1>1. PICK code : code \in CauseNames /\ fail_pull(j, code)
  BY CauseNamed DEF setup_failure
<1>2. Turn(j, "error", "ended")
  BY <1>1, Turned DEF fail_pull, Ends, PullStatuses, PullSteps
<1> QED BY <1>1, <1>2, OutcomeRecorded DEF fail_pull

\* A job that completes ends, and that is recorded.
LEMMA Completed ==
    ASSUME InstallTyped, NEW j \in DOMAIN pulls, complete_pull(j)
    PROVE  Turn(j, "complete", "ended") /\ history' \in [Models -> Seq(Outcomes)]
<1>1. Turn(j, "complete", "ended")
  BY Turned DEF complete_pull, Ends, PullStatuses, PullSteps
<1> QED BY <1>1, OutcomeRecorded DEF complete_pull

\* The steps that leave files, packages and outcomes alone.
LEMMA AdvanceQuietly ==
    ASSUME InstallTyped, StepsStand, NEW j \in DOMAIN pulls, begin_pull(j) \/ acquire_install_lock(j)
    PROVE  Advance(j)
<1>1. \E status \in {"queued", "pulling"}, step \in PullSteps :
        /\ Turn(j, status, step)
        /\ \/ step = "dead"
           \/ step \in {"lock", "runtime"} /\ pulls[j].profile \in Locals
           \/ step = "download" /\ pulls[j].profile \in Locals /\ runtime
           \/ step = "stream" /\ pulls[j].profile \in Ollamas
  <2>1. CASE begin_pull(j)
    <3>1. pulls[j].status \in {"queued", "pulling"}
      BY <2>1 DEF begin_pull, StepsStand, StepStands, Pending
    <3>2. CASE pulls[j].profile \notin configured
      <4>1. pulls' = At(j, "dead")
        BY <2>1, <3>2 DEF begin_pull
      <4> QED BY <3>1, <4>1, Moved DEF PullSteps
    <3>3. CASE pulls[j].profile \in configured /\ pulls[j].profile \in Locals
      <4>1. pulls' = At(j, "lock")
        BY <2>1, <3>3 DEF begin_pull
      <4> QED BY <3>1, <3>3, <4>1, Moved DEF PullSteps
    <3>4. CASE pulls[j].profile \in configured /\ pulls[j].profile \notin Locals
      <4>1. pulls' = [pulls EXCEPT ![j].status = "pulling", ![j].step = "stream"]
        BY <2>1, <3>4 DEF begin_pull
      <4>2. pulls[j].profile \in Ollamas
        BY <3>4, JobTyped DEF Models
      <4> QED BY <3>4, <4>1, <4>2, Turned DEF PullSteps, PullStatuses
    <3> QED BY <3>2, <3>3, <3>4
  <2>2. CASE acquire_install_lock(j)
    <3> DEFINE step == IF runtime THEN "download" ELSE "runtime"
    <3>1. step \in PullSteps
      BY DEF PullSteps
    <3>2. Turn(j, "pulling", step)
      BY <2>2, <3>1, Turned DEF acquire_install_lock, PullStatuses
    <3>3. pulls[j].profile \in Locals
      BY <2>2 DEF acquire_install_lock, StepsStand, StepStands
    <3> QED BY <3>1, <3>2, <3>3
  <2> QED BY <2>1, <2>2
<1>2. UNCHANGED <<configured, drill, runtime, folder, inventory, tracked, upstream, history, index>>
  BY DEF begin_pull, acquire_install_lock
<1>3. pulls[j].step # "ended"
  BY DEF begin_pull, acquire_install_lock
<1>4. Pending(j)
  BY <1>3 DEF StepsStand, StepStands
<1>5. Pending(j)' /\ StepStands(j)' /\ pulls'[j].status # "complete"
  BY <1>1, <1>2 DEF Turn, StepStands, Pending
<1> QED BY <1>1, <1>2, <1>4, <1>5 DEF Advance, Installed, InstallTyped, PullStatuses

\* A job that ends is no longer pending and stands for nothing.
LEMMA EndStands ==
    ASSUME NEW j, NEW status \in {"complete", "error"}, Turn(j, status, "ended")
    PROVE  ~Pending(j)' /\ StepStands(j)'
BY DEF Turn, StepStands, Pending

\* A failure that leaves the files as they are.
LEMMA AdvanceToError ==
    ASSUME InstallTyped, StepsStand, NEW j \in DOMAIN pulls, setup_failure(j),
           UNCHANGED <<configured, drill, runtime, folder, inventory, tracked, upstream, index>>
    PROVE  Advance(j)
<1>1. Turn(j, "error", "ended") /\ history' \in [Models -> Seq(Outcomes)]
  BY Failed
<1>2. ~Pending(j)' /\ StepStands(j)' /\ pulls'[j].status # "complete"
  BY <1>1, EndStands DEF Turn
<1>3. "error" \in PullStatuses /\ "ended" \in PullSteps
  BY DEF PullStatuses, PullSteps
<1> QED BY <1>1, <1>2, <1>3 DEF Advance, Installed, InstallTyped

\* The packages are there from then on.
LEMMA AdvanceRuntime ==
    ASSUME InstallTyped, StepsStand, NEW j \in DOMAIN pulls, install_runtime(j)
    PROVE  Advance(j)
<1>1. Pending(j) /\ pulls[j].profile \in Locals
  BY DEF install_runtime, StepsStand, StepStands
<1>2. UNCHANGED <<configured, drill, folder, inventory, tracked, upstream, index>>
  BY DEF install_runtime
<1>3. CASE runtime' = TRUE /\ pulls' = At(j, "download") /\ UNCHANGED history
  <2>1. Turn(j, pulls[j].status, "download")
    BY <1>3, Moved DEF PullSteps
  <2>2. Pending(j)' /\ StepStands(j)' /\ pulls'[j].status # "complete"
    BY <1>1, <1>3, <2>1 DEF Turn, StepStands, Pending
  <2>3. pulls[j].status \in PullStatuses /\ "download" \in PullSteps
    BY JobTyped DEF PullSteps
  <2> QED BY <1>1, <1>2, <1>3, <2>1, <2>2, <2>3 DEF Advance, Installed, InstallTyped
<1> QED BY <1>2, <1>3, AdvanceToError DEF install_runtime

\* A download over an installed model leaves it installed, whatever of it arrives.
LEMMA AdvanceDownload ==
    ASSUME InstallTyped, StepsStand, NEW j \in DOMAIN pulls, download_model(j)
    PROVE  Advance(j)
<1> DEFINE p == pulls[j].profile
           was == Prepared(p, pulls[j].strategy)
<1>1. Pending(j) /\ p \in Locals /\ p \in Models /\ runtime
  BY DEF download_model, StepsStand, StepStands, Models
<1>2. UNCHANGED <<configured, drill, runtime, inventory, tracked, upstream, index>>
  BY DEF download_model
<1>3. was \in Folders /\ folder[p] \in Folders
  BY <1>1 DEF Prepared, NoFolder, InstallTyped, Folders
<1>4. Installed(p) => was = folder[p] /\ was.whole /\ was.manifest # 0
  BY <1>1 DEF Prepared, Installed
<1>5. ASSUME NEW f \in Folders, folder' = [folder EXCEPT ![p] = f],
             f.manifest = was.manifest, was.whole => f.whole
      PROVE  /\ folder' \in [Locals -> Folders]
             /\ \A q \in Locals : q # p => folder'[q] = folder[q]
             /\ \A q \in Models : Installed(q) => Installed(q)'
             /\ folder'[p] = f
  <2>1. folder' \in [Locals -> Folders] /\ folder'[p] = f /\ \A q \in Locals : q # p => folder'[q] = folder[q]
    BY <1>1, <1>5 DEF InstallTyped
  <2>2. ASSUME NEW q \in Models, q = p, Installed(q) PROVE Installed(q)'
    <3> HIDE DEF was
    <3> QED BY <1>1, <1>4, <1>5, <2>1, <2>2 DEF Installed
  <2>3. ASSUME NEW q \in Models, q # p, Installed(q) PROVE Installed(q)'
    BY <1>2, <2>1, <2>3 DEF Installed
  <2> QED BY <2>1, <2>2, <2>3
<1>6. ASSUME setup_failure(j),
             /\ folder' \in [Locals -> Folders]
             /\ \A q \in Locals : q # p => folder'[q] = folder[q]
             /\ \A q \in Models : Installed(q) => Installed(q)'
      PROVE  Advance(j)
  <2>1. Turn(j, "error", "ended") /\ history' \in [Models -> Seq(Outcomes)]
    BY <1>6, Failed
  <2>2. ~Pending(j)' /\ StepStands(j)' /\ pulls'[j].status # "complete"
    BY <2>1, EndStands DEF Turn
  <2>3. "error" \in PullStatuses /\ "ended" \in PullSteps
    BY DEF PullStatuses, PullSteps
  <2> QED BY <1>2, <1>6, <2>1, <2>2, <2>3 DEF Advance, InstallTyped
<1>7. CASE setup_failure(j) /\ UNCHANGED folder
  BY <1>2, <1>6, <1>7 DEF Installed, InstallTyped
<1>8. ASSUME NEW kept \in SUBSET was.files,
             folder' = [folder EXCEPT ![p] = [was EXCEPT !.files = kept \cup {upstream}, !.whole = TRUE]],
             pulls' = At(j, "manifest"), UNCHANGED history
      PROVE  Advance(j)
  <2> DEFINE f == [was EXCEPT !.files = kept \cup {upstream}, !.whole = TRUE]
  <2>1. f \in Folders /\ f.manifest = was.manifest /\ f.whole
    BY <1>3 DEF Folders, InstallTyped
  <2>2. /\ folder' \in [Locals -> Folders]
        /\ \A q \in Locals : q # p => folder'[q] = folder[q]
        /\ \A q \in Models : Installed(q) => Installed(q)'
        /\ folder'[p] = f
    <3>1. folder' = [folder EXCEPT ![p] = f]
      BY <1>8
    <3> HIDE DEF f, was, p
    <3> QED BY <1>5, <2>1, <3>1
  <2>3. Turn(j, pulls[j].status, "manifest")
    BY <1>8, Moved DEF PullSteps
  <2>4. folder'[p].whole
    BY <2>1, <2>2
  <2>5. Pending(j)' /\ StepStands(j)' /\ pulls'[j].status # "complete"
    <3> HIDE DEF f, was
    <3> QED BY <1>1, <1>2, <2>3, <2>4 DEF Turn, StepStands, Pending
  <2>6. pulls[j].status \in PullStatuses /\ "manifest" \in PullSteps
    BY JobTyped DEF PullSteps
  <2> HIDE DEF f, was
  <2> QED BY <1>1, <1>2, <1>8, <2>2, <2>3, <2>5, <2>6 DEF Advance, InstallTyped
<1>9. CASE folder' = [folder EXCEPT ![p] = [was EXCEPT !.files = @ \cup {upstream}]] /\ setup_failure(j)
  <2> DEFINE f == [was EXCEPT !.files = @ \cup {upstream}]
  <2>1. f \in Folders /\ f.manifest = was.manifest /\ f.whole = was.whole
    BY <1>3 DEF Folders, InstallTyped
  <2>2. folder' = [folder EXCEPT ![p] = f]
    BY <1>9
  <2> HIDE DEF f, was, p
  <2> QED BY <1>5, <1>6, <1>9, <2>1, <2>2
<1> QED
  <2> HIDE DEF was
  <2> QED BY <1>7, <1>8, <1>9 DEF download_model, was

\* With its manifest the specialist is installed: the snapshot is whole.
LEMMA AdvanceManifest ==
    ASSUME InstallTyped, StepsStand, NEW j \in DOMAIN pulls, write_manifest(j)
    PROVE  Advance(j)
<1>0. SUFFICES ASSUME NEW p, p = pulls[j].profile PROVE Advance(j)
  OBVIOUS
<1>1. Pending(j) /\ p \in Locals /\ p \in Models /\ runtime /\ folder[p].whole
  BY <1>0 DEF write_manifest, StepsStand, StepStands, Models
<1>2. UNCHANGED <<configured, drill, runtime, inventory, tracked, upstream, index>>
  BY DEF write_manifest
<1>3. ASSUME NEW revision \in folder[p].files,
             folder' = [folder EXCEPT ![p].manifest = revision],
             pulls' = At(j, IF p = Embedder THEN "index" ELSE "observe"), UNCHANGED history
      PROVE  Advance(j)
  <2> DEFINE f == [folder[p] EXCEPT !.manifest = revision]
             step == IF p = Embedder THEN "index" ELSE "observe"
  <2>1. f \in Folders /\ f.manifest # 0 /\ f.whole
    BY <1>1 DEF Folders, InstallTyped
  <2>2. folder' = [folder EXCEPT ![p] = f]
    BY <1>3
  <2> HIDE DEF f
  <2>3. /\ folder' \in [Locals -> Folders] /\ folder'[p] = f
        /\ \A q \in Locals : q # p => folder'[q] = folder[q]
    BY <1>1, <2>1, <2>2 DEF InstallTyped
  <2>4. Installed(p)' /\ \A q \in Models : Installed(q) => Installed(q)'
    BY <1>1, <1>2, <2>1, <2>3 DEF Installed
  <2>5. step \in PullSteps /\ pulls[j].status \in PullStatuses
    BY JobTyped DEF PullSteps
  <2>6. Turn(j, pulls[j].status, step)
    <3>1. pulls' = At(j, step)
      BY <1>3
    <3> HIDE DEF step
    <3> QED BY <2>5, <3>1, Moved
  <2>7. Pending(j)' /\ StepStands(j)' /\ pulls'[j].status # "complete"
    BY <1>0, <1>1, <1>2, <2>4, <2>6 DEF Turn, StepStands, Pending
  <2> HIDE DEF step
  <2> QED BY <1>0, <1>1, <1>2, <1>3, <2>3, <2>4, <2>5, <2>6, <2>7 DEF Advance, InstallTyped
<1> QED BY <1>0, <1>2, <1>3, AdvanceToError DEF write_manifest

\* Indexing Context changes the index and the step.
LEMMA AdvanceIndex ==
    ASSUME InstallTyped, StepsStand, NEW j \in DOMAIN pulls, index_with_new_model(j)
    PROVE  Advance(j)
<1>0. SUFFICES ASSUME NEW p, p = pulls[j].profile PROVE Advance(j)
  OBVIOUS
<1>1. Pending(j) /\ p \in Locals /\ runtime /\ Installed(p)
  BY <1>0 DEF index_with_new_model, StepsStand, StepStands
<1>2. UNCHANGED <<configured, drill, runtime, folder, inventory, tracked, upstream>>
  BY DEF index_with_new_model
<1>3. CASE index' = [index EXCEPT !.embedded = 1..index.chunks] /\ pulls' = At(j, "observe") /\ UNCHANGED history
  <2>1. Turn(j, pulls[j].status, "observe")
    BY <1>3, Moved DEF PullSteps
  <2>2. Installed(p)' /\ \A q \in Models : Installed(q) => Installed(q)'
    BY <1>1, <1>2 DEF Installed
  <2>3. Pending(j)' /\ StepStands(j)' /\ pulls'[j].status # "complete"
    BY <1>0, <1>1, <2>1, <2>2 DEF Turn, StepStands, Pending
  <2>4. pulls[j].status \in PullStatuses /\ "observe" \in PullSteps
    BY JobTyped DEF PullSteps
  <2>5. index' \in [chunks : Nat, embedded : SUBSET Nat, job : {"idle", "running", "complete", "error"},
                    batch : SUBSET Nat]
    <3>1. index.chunks \in Nat /\ 1..index.chunks \in SUBSET Nat
      BY DEF InstallTyped
    <3> DEFINE all == 1..index.chunks
    <3>2. all \in SUBSET Nat /\ index' = [index EXCEPT !.embedded = all]
      BY <1>3, <3>1
    <3> HIDE DEF all
    <3> QED BY <3>2 DEF InstallTyped
  <2> QED BY <1>1, <1>2, <1>3, <2>1, <2>2, <2>3, <2>4, <2>5 DEF Advance, InstallTyped
<1> QED BY <1>2, <1>3, AdvanceToError DEF index_with_new_model

\* Observing the artifact ends the job, or kills its task.
LEMMA AdvanceObserve ==
    ASSUME InstallTyped, StepsStand, NEW j \in DOMAIN pulls, observe_installed(j)
    PROVE  Advance(j)
<1>0. SUFFICES ASSUME NEW p, p = pulls[j].profile PROVE Advance(j)
  OBVIOUS
<1>1. Pending(j) /\ Installed(p)
  BY <1>0 DEF observe_installed, StepsStand, StepStands
<1>2. UNCHANGED <<configured, drill, runtime, folder, inventory, tracked, upstream, index>>
  BY DEF observe_installed
<1>3. Installed(p)' /\ \A q \in Models : Installed(q) => Installed(q)'
  BY <1>1, <1>2 DEF Installed
<1>4. CASE complete_pull(j)
  <2>1. Turn(j, "complete", "ended") /\ history' \in [Models -> Seq(Outcomes)]
    BY <1>4, Completed
  <2>2. ~Pending(j)' /\ StepStands(j)'
    BY <2>1, EndStands
  <2>3. Installed(pulls[j].profile)'
    BY <1>0, <1>3, <2>1 DEF Turn
  <2>4. "complete" \in PullStatuses /\ "ended" \in PullSteps
    BY DEF PullStatuses, PullSteps
  <2> QED BY <1>2, <1>3, <2>1, <2>2, <2>3, <2>4 DEF Advance, InstallTyped
<1>5. CASE pulls' = At(j, "dead") /\ UNCHANGED history
  <2>1. Turn(j, pulls[j].status, "dead")
    BY <1>5, Moved DEF PullSteps
  <2>2. Pending(j)' /\ StepStands(j)' /\ pulls'[j].status # "complete"
    BY <1>1, <2>1 DEF Turn, StepStands, Pending
  <2>3. pulls[j].status \in PullStatuses /\ "dead" \in PullSteps
    BY JobTyped DEF PullSteps
  <2> QED BY <1>1, <1>2, <1>3, <1>5, <2>1, <2>2, <2>3 DEF Advance, InstallTyped
<1> QED BY <1>2, <1>4, <1>5, AdvanceToError DEF observe_installed

\* An Ollama model is there once it was streamed, whatever comes of recording its revision.
LEMMA AdvanceOllama ==
    ASSUME InstallTyped, StepsStand, NEW j \in DOMAIN pulls, stream_ollama(j) \/ record_ollama_revision(j)
    PROVE  Advance(j)
<1>0. SUFFICES ASSUME NEW p, p = pulls[j].profile PROVE Advance(j)
  OBVIOUS
<1>1. Pending(j) /\ p \in Ollamas /\ p \notin Locals /\ upstream \in Nat \ {0}
  BY <1>0, InstallAssumption DEF stream_ollama, record_ollama_revision, StepsStand, StepStands, InstallTyped
<1>2. UNCHANGED <<configured, drill, runtime, folder, upstream, index>>
  BY DEF stream_ollama, record_ollama_revision
<1>3. ASSUME NEW step \in {"track", "observe"}, pulls' = At(j, step),
             inventory' \in [Ollamas -> Nat], tracked' \in [Ollamas -> Nat], Installed(p)',
             \A q \in Ollamas : q # p => inventory'[q] = inventory[q], UNCHANGED history
      PROVE  Advance(j)
  <2>1. step \in PullSteps /\ pulls[j].status \in PullStatuses
    BY JobTyped DEF PullSteps
  <2>2. Turn(j, pulls[j].status, step)
    BY <1>3, <2>1, Moved
  <2>3. \A q \in Models : Installed(q) => Installed(q)'
    BY <1>2, <1>3 DEF Installed, Models
  <2>4. Pending(j)' /\ StepStands(j)' /\ pulls'[j].status # "complete"
    BY <1>0, <1>1, <1>3, <2>2 DEF Turn, StepStands, Pending
  <2> QED BY <1>1, <1>2, <1>3, <2>1, <2>2, <2>3, <2>4 DEF Advance, InstallTyped
<1>4. CASE stream_ollama(j)
  <2>1. CASE inventory' = [inventory EXCEPT ![p] = upstream] /\ pulls' = At(j, "track") /\ UNCHANGED history
    <3>1. /\ inventory' \in [Ollamas -> Nat] /\ inventory'[p] # 0
          /\ \A q \in Ollamas : q # p => inventory'[q] = inventory[q]
      BY <1>1, <2>1 DEF InstallTyped
    <3>2. Installed(p)' /\ tracked' \in [Ollamas -> Nat]
      BY <1>1, <1>4, <3>1 DEF Installed, InstallTyped, stream_ollama
    <3> QED BY <1>3, <2>1, <3>1, <3>2
  <2> QED BY <1>0, <1>2, <1>4, <2>1, AdvanceToError DEF stream_ollama
<1>5. CASE record_ollama_revision(j)
  <2>1. UNCHANGED <<inventory, history>> /\ pulls' = At(j, "observe") /\ tracked' \in [Ollamas -> Nat]
    BY <1>0, <1>1, <1>5 DEF record_ollama_revision, InstallTyped
  <2>2. Installed(p)
    BY <1>0, <1>5 DEF record_ollama_revision, StepsStand, StepStands
  <2>3. Installed(p)' /\ inventory' \in [Ollamas -> Nat] /\ \A q \in Ollamas : inventory'[q] = inventory[q]
    BY <1>1, <2>1, <2>2 DEF Installed, InstallTyped
  <2> QED BY <1>3, <2>1, <2>3
<1> QED BY <1>4, <1>5

\* So does every step of a job.
LEMMA EachAdvances ==
    ASSUME InstallTyped, StepsStand, NEW j \in DOMAIN pulls, PullStep(j)
    PROVE  Advance(j)
BY AdvanceQuietly, AdvanceRuntime, AdvanceDownload, AdvanceManifest, AdvanceIndex, AdvanceObserve,
   AdvanceOllama DEF PullStep

-----------------------------------------------------------------------------
(* The invariant.                                                          *)

\* It holds at first.
LEMMA InstallStarts == InstallInit => InstallInv
<1> SUFFICES ASSUME InstallInit PROVE InstallInv
  OBVIOUS
<1>1. pulls = << >> /\ drill = NoDrill /\ DOMAIN pulls = {}
  BY DEF InstallInit
<1>2. pulls \in Seq(Pulls) /\ << >> \in Seq(Models) /\ << >> \in Seq(Outcomes)
  BY <1>1
<1>3. drill \in Drills /\ drill.status # "running"
  BY <1>1, <1>2 DEF NoDrill, Drills
<1>4. folder \in [Locals -> Folders] /\ history \in [Models -> Seq(Outcomes)]
  BY <1>2 DEF InstallInit, NoFolder, Folders, Models
<1>5. InstallTyped
  BY <1>2, <1>3, <1>4 DEF InstallTyped, InstallInit, Models
<1> QED BY <1>1, <1>3, <1>5 DEF InstallInv, OnePending, CompletedIsInstalled, StepsStand, DrillStands

\* A step of a job disturbs no other: no other is pending for the same model.
LEMMA PullKeeps ==
    ASSUME InstallInv, NEW j \in DOMAIN pulls, PullStep(j)
    PROVE  InstallInv'
<1> USE DEF InstallInv
<1>1. Advance(j)
  BY EachAdvances
<1>2. PICK status \in PullStatuses, step \in PullSteps : Turn(j, status, step)
  BY <1>1 DEF Advance
<1>3. /\ pulls' \in Seq(Pulls) /\ DOMAIN pulls' = DOMAIN pulls
      /\ \A k \in DOMAIN pulls : pulls'[k].profile = pulls[k].profile
      /\ \A k \in DOMAIN pulls : k # j => pulls'[k] = pulls[k]
  BY <1>2 DEF Turn
<1>4. InstallTyped'
  BY <1>1, <1>3 DEF Advance, InstallTyped
<1>5. OnePending'
  BY <1>1, <1>3 DEF Advance, OnePending, Pending
<1>6. CompletedIsInstalled'
  <2>1. ASSUME NEW k \in DOMAIN pulls, k # j, pulls'[k].status = "complete"
        PROVE  Installed(pulls[k].profile)'
    <3>1. PICK q \in Models : q = pulls[k].profile
      BY JobTyped
    <3>2. Installed(q)
      BY <1>3, <2>1, <3>1 DEF CompletedIsInstalled
    <3>3. Installed(q)'
      BY <1>1, <3>2 DEF Advance
    <3> QED BY <1>3, <3>1, <3>3
  <2>2. pulls'[j].status = "complete" => Installed(pulls[j].profile)'
    BY <1>1 DEF Advance
  <2> QED BY <1>3, <2>1, <2>2 DEF CompletedIsInstalled
<1>7. StepsStand'
  <2>1. ASSUME NEW k \in DOMAIN pulls, k # j PROVE StepStands(k)'
    <3>1. StepStands(k) /\ pulls'[k] = pulls[k] /\ pulls[k].profile \in Models
      BY <1>3, <2>1, JobTyped DEF StepsStand
    <3>2. PICK q \in Models : q = pulls[k].profile
      BY <3>1
    <3>3. runtime => runtime'
      BY <1>1 DEF Advance
    <3>4. Installed(q) => Installed(q)'
      BY <1>1 DEF Advance
    <3>5. Pending(k) /\ q \in Locals => folder'[q] = folder[q]
      <4>1. StepStands(j)
        BY DEF StepsStand
      <4>2. Pending(j)
        BY <4>1 DEF StepStands, PullStep, begin_pull, acquire_install_lock, install_runtime, download_model,
           write_manifest, index_with_new_model, observe_installed, stream_ollama, record_ollama_revision
      <4>3. Pending(k) => q # pulls[j].profile
        BY <2>1, <3>2, <4>2 DEF OnePending
      <4> QED BY <1>1, <4>3 DEF Advance
    <3> QED BY <3>1, <3>2, <3>3, <3>4, <3>5 DEF StepStands, Pending
  <2>2. StepStands(j)'
    BY <1>1 DEF Advance
  <2> QED BY <1>3, <2>1, <2>2 DEF StepsStand
<1>8. DrillStands'
  BY <1>1, <1>3 DEF Advance, DrillStands, Attempted
<1> QED BY <1>4, <1>5, <1>6, <1>7, <1>8

\* What does not touch jobs, packages and models.
LEMMA JobsKept ==
    ASSUME InstallInv, UNCHANGED <<pulls, runtime, folder, inventory>>
    PROVE  OnePending' /\ CompletedIsInstalled' /\ StepsStand'
BY DEF InstallInv, OnePending, CompletedIsInstalled, StepsStand, StepStands, Pending, Installed

\* A job is created for a model that has no pending one.
LEMMA JobQueued ==
    ASSUME InstallInv, NEW p \in Models, NEW strategy \in Strategies, existing_pull(p) = {},
           pulls' = QueuedPull(p, strategy), UNCHANGED <<runtime, folder, inventory>>
    PROVE  /\ pulls' \in Seq(Pulls) /\ DOMAIN pulls' = DOMAIN pulls \cup {Len(pulls) + 1}
           /\ \A k \in DOMAIN pulls : pulls'[k] = pulls[k]
           /\ pulls'[Len(pulls) + 1].profile = p
           /\ OnePending' /\ CompletedIsInstalled' /\ StepsStand'
<1> USE DEF InstallInv
<1> DEFINE row == [profile |-> p, strategy |-> strategy, status |-> "queued", step |-> "created"]
           n == Len(pulls) + 1
<1>1. row \in Pulls /\ row.profile = p /\ row.status = "queued" /\ row.step = "created"
  BY DEF Pulls, PullStatuses, PullSteps
<1>2. pulls \in Seq(Pulls) /\ pulls' = Append(pulls, row)
  BY DEF InstallTyped, QueuedPull
<1> HIDE DEF row
<1>3. /\ Append(pulls, row) \in Seq(Pulls) /\ DOMAIN Append(pulls, row) = 1..Len(pulls) + 1
      /\ Append(pulls, row)[Len(pulls) + 1] = row
      /\ \A k \in DOMAIN pulls : Append(pulls, row)[k] = pulls[k]
      /\ Len(pulls) \in Nat /\ DOMAIN pulls = 1..Len(pulls)
  BY <1>1, <1>2, Table
<1>4. /\ pulls' \in Seq(Pulls) /\ DOMAIN pulls' = DOMAIN pulls \cup {n} /\ n \notin DOMAIN pulls
      /\ \A k \in DOMAIN pulls : pulls'[k] = pulls[k]
      /\ pulls'[n].profile = p /\ pulls'[n].status = "queued" /\ pulls'[n].step = "created"
  BY <1>1, <1>2, <1>3
<1> HIDE DEF n
<1>5. \A k \in DOMAIN pulls : Pending(k) => pulls[k].profile # p
  BY DEF existing_pull
<1>6. OnePending'
  BY <1>4, <1>5 DEF OnePending, Pending
<1>7. CompletedIsInstalled'
  BY <1>4 DEF CompletedIsInstalled, Installed
<1>8. StepsStand'
  BY <1>4 DEF StepsStand, StepStands, Pending, Installed
<1> QED BY <1>4, <1>6, <1>7, <1>8 DEF n

\* Starting a job adds one for a model that had none.
LEMMA StartKeeps ==
    ASSUME InstallInv, NEW p \in Models, NEW strategy \in Strategies, start_pull(p, strategy)
    PROVE  InstallInv'
<1>1. /\ pulls' \in Seq(Pulls) /\ DOMAIN pulls \subseteq DOMAIN pulls'
      /\ \A k \in DOMAIN pulls : pulls'[k] = pulls[k]
      /\ OnePending' /\ CompletedIsInstalled' /\ StepsStand'
  BY JobQueued DEF start_pull
<1>2. InstallTyped'
  BY <1>1 DEF InstallInv, InstallTyped, start_pull
<1>3. DrillStands'
  BY <1>1 DEF InstallInv, DrillStands, Attempted, start_pull
<1> QED BY <1>1, <1>2, <1>3 DEF InstallInv

\* What the drill still has to attempt.
LEMMA DrillTyped ==
    ASSUME InstallInv
    PROVE  /\ drill \in Drills /\ drill.at \in Seq(Models) /\ Len(drill.at) \in Nat
           /\ drill.failed \in BOOLEAN
           /\ drill.status = "running" => Attempted \in Models /\ Tail(drill.at) \in Seq(Models)
           /\ Len(drill.at) > 1 => Tail(drill.at) # << >>
<1>1. drill \in Drills /\ drill.at \in Seq(Models) /\ drill.failed \in BOOLEAN
  BY DEF InstallInv, InstallTyped, Drills
<1>2. drill.status = "running" => drill.at # << >>
  BY DEF InstallInv, DrillStands
<1> DEFINE at == drill.at
<1>3. Len(at) \in Nat /\ (at # << >> => Head(at) \in Models /\ Tail(at) \in Seq(Models) /\ Len(Tail(at)) = Len(at) - 1)
  <2> HIDE DEF at
  <2>1. at \in Seq(Models)
    BY <1>1 DEF at
  <2> QED BY <2>1, HeadTailProperties, LenProperties
<1>4. at # << >> => (Len(at) > 1 => Tail(at) # << >>)
  <2> HIDE DEF at
  <2> SUFFICES ASSUME at # << >>, Len(at) > 1 PROVE Tail(at) # << >>
    OBVIOUS
  <2>1. PICK rest \in Seq(Models) : rest = Tail(at) /\ Len(rest) = Len(at) - 1
    BY <1>3
  <2>2. rest # << >>
    <3>1. Len(rest) # 0
      BY <1>3, <2>1
    <3> QED BY <3>1, EmptySeq
  <2> QED BY <2>1, <2>2
<1>5. at \in Seq(Models) /\ (Len(at) > 1 => at # << >>)
  <2>1. at \in Seq(Models)
    BY <1>1
  <2> HIDE DEF at
  <2> QED BY <2>1, EmptySeq
<1> QED BY <1>1, <1>2, <1>3, <1>4, <1>5 DEF Attempted

\* An attempt that ends leaves a drill with attempts to come, or one that is over.
LEMMA AttemptEnds ==
    ASSUME InstallInv, drill.status = "running", NEW failed \in BOOLEAN, EndAttempt(failed)
    PROVE  drill' \in Drills /\ DrillStands'
<1> DEFINE rest == Tail(drill.at)
           status == IF Len(drill.at) > 1 THEN "running"
                     ELSE IF drill.failed \/ failed THEN "attention" ELSE "complete"
           bad == drill.failed \/ failed
<1>1. rest \in Seq(Models) /\ (status = "running" => rest # << >>) /\ bad \in BOOLEAN
  BY DrillTyped
<1>2. status \in {"running", "attention", "complete"}
  OBVIOUS
<1>3. drill' = [drill EXCEPT !.at = rest, !.step = "check", !.child = 0, !.failed = bad, !.status = status]
  BY DrillTyped DEF EndAttempt, Drills
<1>4. drill \in Drills
  BY DrillTyped
<1> HIDE DEF rest, status, bad
<1>5. drill' \in Drills /\ drill'.at = rest /\ drill'.status = status /\ drill'.step = "check"
  BY <1>1, <1>2, <1>3, <1>4 DEF Drills
<1> QED BY <1>1, <1>5 DEF DrillStands

\* The drill goes on to verify, waits for the pending job of its model, or starts one.
LEMMA CheckKeeps == InstallInv /\ check_attempt => InstallInv'
<1> SUFFICES ASSUME InstallInv, check_attempt PROVE InstallInv'
  OBVIOUS
<1> USE DEF InstallInv
<1>1. /\ drill.status = "running" /\ drill.step = "check"
      /\ UNCHANGED <<configured, runtime, folder, inventory, tracked, upstream, history, index>>
  BY DEF check_attempt
<1>2. drill \in Drills /\ drill.at # << >> /\ Attempted \in Models
  BY <1>1, DrillTyped DEF DrillStands
<1>3. CASE drill' = [drill EXCEPT !.step = "verify"] /\ UNCHANGED pulls
  <2>1. drill' \in Drills /\ DrillStands'
    BY <1>2, <1>3 DEF Drills, DrillStands
  <2> QED BY <1>1, <1>3, <2>1, JobsKept DEF InstallTyped
<1>4. ASSUME NEW j \in existing_pull(Attempted),
             drill' = [drill EXCEPT !.step = "wait", !.child = j], UNCHANGED pulls
      PROVE  InstallInv'
  <2>1. j \in DOMAIN pulls /\ j \in Nat /\ pulls[j].profile = Attempted
    BY <1>4, JobTyped DEF existing_pull
  <2>2. drill' \in Drills /\ drill'.at = drill.at /\ drill'.child = j
    BY <1>2, <1>4, <2>1 DEF Drills
  <2>3. DrillStands'
    BY <1>2, <1>4, <2>1, <2>2 DEF DrillStands, Attempted
  <2> QED BY <1>1, <1>4, <2>2, <2>3, JobsKept DEF InstallTyped
<1>5. CASE /\ existing_pull(Attempted) = {} /\ pulls' = QueuedPull(Attempted, "auto")
           /\ drill' = [drill EXCEPT !.step = "wait", !.child = Len(pulls) + 1]
  <2>1. Len(pulls) \in Nat
    BY LenProperties DEF InstallTyped
  <2> DEFINE n == Len(pulls) + 1
  <2>0. n \in Nat /\ drill' = [drill EXCEPT !.step = "wait", !.child = n]
    BY <1>5, <2>1
  <2> HIDE DEF n
  <2>2. drill' \in Drills /\ drill'.at = drill.at /\ drill'.child = n
    BY <1>2, <2>0 DEF Drills
  <2>3. /\ pulls' \in Seq(Pulls) /\ DOMAIN pulls' = DOMAIN pulls \cup {Len(pulls) + 1}
        /\ pulls'[Len(pulls) + 1].profile = Attempted
        /\ OnePending' /\ CompletedIsInstalled' /\ StepsStand'
    <3> DEFINE p == Attempted
    <3>1. p \in Models /\ "auto" \in Strategies /\ existing_pull(p) = {} /\ pulls' = QueuedPull(p, "auto")
      BY <1>2, <1>5 DEF Strategies
    <3> HIDE DEF p
    <3>2. /\ pulls' \in Seq(Pulls) /\ DOMAIN pulls' = DOMAIN pulls \cup {Len(pulls) + 1}
          /\ pulls'[Len(pulls) + 1].profile = p
          /\ OnePending' /\ CompletedIsInstalled' /\ StepsStand'
      BY <1>1, <3>1, JobQueued
    <3> QED BY <3>2 DEF p
  <2>4. DrillStands'
    BY <1>2, <2>2, <2>3 DEF DrillStands, Attempted, n
  <2> QED BY <1>1, <2>2, <2>3, <2>4 DEF InstallTyped
<1>6. CASE EndAttempt(TRUE) /\ UNCHANGED pulls
  <2>1. drill' \in Drills /\ DrillStands'
    BY <1>1, <1>6, AttemptEnds
  <2> QED BY <1>1, <1>6, <2>1, JobsKept DEF InstallTyped
<1> QED BY <1>3, <1>4, <1>5, <1>6 DEF check_attempt

\* Every step of the drill keeps the invariant,
LEMMA DrillKeeps == InstallInv /\ DrillStep => InstallInv'
<1> SUFFICES ASSUME InstallInv, poll_child \/ verify_attempt PROVE InstallInv'
  BY CheckKeeps DEF DrillStep
<1> USE DEF InstallInv
<1>1. /\ drill.status = "running"
      /\ UNCHANGED <<configured, pulls, runtime, folder, inventory, tracked, upstream, history, index>>
  BY DEF poll_child, verify_attempt
<1>2. drill' \in Drills /\ DrillStands'
  <2>1. CASE drill' = [drill EXCEPT !.step = "verify"]
    BY <1>1, <2>1, DrillTyped DEF Drills, DrillStands
  <2>2. CASE \E failed \in BOOLEAN : EndAttempt(failed)
    BY <1>1, <2>2, AttemptEnds
  <2> QED BY <2>1, <2>2 DEF poll_child, verify_attempt, smoke_local_specialist, smoke_ollama_profile
<1> QED BY <1>1, <1>2, JobsKept DEF InstallTyped

\* A drill begins with two attempts to make.
LEMMA TroubleshootKeeps ==
    ASSUME InstallInv, NEW p \in Ollamas, NEW q \in Locals, start_troubleshooting(p, q)
    PROVE  InstallInv'
<1>1. UNCHANGED <<configured, pulls, runtime, folder, inventory, tracked, upstream, history, index>>
  BY DEF start_troubleshooting
<1>2. <<p, q>> \in Seq(Models) /\ <<p, q>> # << >>
  BY DEF Models
<1>3. drill' = [NoDrill EXCEPT !.status = "running", !.at = <<p, q>>]
  BY DEF start_troubleshooting
<1> DEFINE at == <<p, q>>
<1>4. drill' \in Drills /\ drill'.at = at /\ drill'.step = "check"
  <2>1. at \in Seq(Models) /\ drill' = [NoDrill EXCEPT !.status = "running", !.at = at]
    BY <1>2, <1>3
  <2> HIDE DEF at
  <2> QED BY <2>1 DEF Drills, NoDrill
<1>5. DrillStands'
  BY <1>2, <1>4 DEF DrillStands
<1> QED BY <1>1, <1>4, <1>5, JobsKept DEF InstallInv, InstallTyped

\* Context, settings and the publisher leave jobs and drill alone.
LEMMA AsideKeeps ==
    ASSUME InstallInv, add_context \/ IndexStep \/ (\E p \in configured : remove_profile(p)) \/ publish_revision
    PROVE  InstallInv'
<1>1. UNCHANGED <<pulls, drill, runtime, folder, inventory, tracked, history>>
  BY DEF add_context, IndexStep, take_batch, save_batch, remove_profile, publish_revision
<1> DEFINE Jobs == {"idle", "running", "complete", "error"}
           Indexes == [chunks : Nat, embedded : SUBSET Nat, job : Jobs, batch : SUBSET Nat]
<1>2. index \in Indexes
  BY DEF InstallInv, InstallTyped
<1>3. index' \in Indexes
  <2>1. CASE add_context
    <3> DEFINE job == IF index.job # "running" /\ Installed(Embedder) /\ Embedder \in configured
                      THEN "running" ELSE index.job
               chunks == index.chunks + 1
    <3>1. job \in Jobs /\ chunks \in Nat
      BY <1>2
    <3>2. index' = [index EXCEPT !.chunks = chunks, !.job = job]
      BY <2>1, <1>2 DEF add_context
    <3> HIDE DEF job, chunks
    <3> QED BY <1>2, <3>1, <3>2
  <2>2. CASE take_batch
    <3> DEFINE batch == {c \in Unindexed : \A e \in Unindexed : c - BatchSize < e}
    <3>1. batch \in SUBSET Nat
      BY <1>2 DEF Unindexed
    <3>2. index' \in {[index EXCEPT !.job = "complete"], [index EXCEPT !.batch = batch]}
      BY <2>2 DEF take_batch
    <3> HIDE DEF batch
    <3> QED BY <1>2, <3>1, <3>2
  <2>3. CASE save_batch
    <3> DEFINE embedded == index.embedded \cup index.batch
    <3>1. embedded \in SUBSET Nat
      BY <1>2
    <3>2. index' \in {[index EXCEPT !.embedded = embedded, !.batch = {}], [index EXCEPT !.job = "error", !.batch = {}]}
      BY <1>2, <2>3 DEF save_batch, saved_batch
    <3> HIDE DEF embedded
    <3> QED BY <1>2, <3>1, <3>2
  <2>4. CASE UNCHANGED index
    BY <1>2, <2>4
  <2> QED BY <2>1, <2>2, <2>3, <2>4 DEF IndexStep, remove_profile, publish_revision
<1>4. configured' \subseteq Models /\ upstream' \in Nat \ {0}
  BY DEF InstallInv, InstallTyped, add_context, IndexStep, take_batch, save_batch, remove_profile, publish_revision
<1>5. DrillStands'
  BY <1>1 DEF InstallInv, DrillStands, Attempted
<1>6. InstallTyped'
  BY <1>1, <1>3, <1>4 DEF InstallInv, InstallTyped
<1> QED BY <1>1, <1>5, <1>6, JobsKept DEF InstallInv

\* A restart forgets the jobs.
LEMMA RestartKeeps == InstallInv /\ restart_installs => InstallInv'
<1> SUFFICES ASSUME InstallInv, restart_installs PROVE InstallInv'
  OBVIOUS
<1>1. /\ pulls' = << >> /\ DOMAIN pulls' = {} /\ pulls' \in Seq(Pulls) /\ drill' = NoDrill
      /\ UNCHANGED <<configured, runtime, folder, inventory, tracked, upstream, history>>
  BY DEF restart_installs
<1>2. drill' \in Drills /\ drill'.status # "running"
  BY <1>1 DEF NoDrill, Drills
<1>3. InstallTyped'
  BY <1>1, <1>2 DEF InstallInv, InstallTyped, restart_installs
<1> QED BY <1>1, <1>2, <1>3 DEF InstallInv, OnePending, CompletedIsInstalled, StepsStand, DrillStands

\* and so does every step.
LEMMA InstallStepKeeps == InstallInv /\ [InstallNext]_installVars => InstallInv'
<1> SUFFICES ASSUME InstallInv, [InstallNext]_installVars PROVE InstallInv'
  OBVIOUS
<1>1. CASE \E p \in Ollamas, service_ok \in BOOLEAN : start_pull(p, ollama_install_action(p, service_ok).strategy)
  <2>1. PICK p \in Ollamas : start_pull(p, "auto")
    BY <1>1 DEF start_pull
  <2> QED BY <2>1, StartKeeps DEF Models, Strategies
<1>2. CASE \E p \in Locals : start_pull(p, "auto")
  BY <1>2, StartKeeps DEF Models, Strategies
<1>3. ASSUME NEW p \in Locals, NEW probe \in probe_public_model_sources, start_pull(p, install_action(p, probe))
      PROVE  InstallInv'
  <2>1. p \in Models /\ install_action(p, probe) \in Strategies
    BY ActionOffered DEF Models, InstallInv
  <2> QED BY <1>3, <2>1, StartKeeps
<1>4. CASE UNCHANGED installVars
  <2>1. UNCHANGED <<configured, pulls, drill, runtime, folder, inventory, tracked, upstream, history, index>>
    BY <1>4 DEF installVars
  <2>2. InstallTyped' /\ DrillStands'
    BY <2>1 DEF InstallInv, InstallTyped, DrillStands, Attempted
  <2> QED BY <2>1, <2>2, JobsKept DEF InstallInv
<1> QED BY <1>1, <1>2, <1>3, <1>4, PullKeeps, DrillKeeps, TroubleshootKeeps, AsideKeeps, RestartKeeps DEF InstallNext

\* So it holds in every reachable state.
LEMMA InstallInvariant == InstallSpec => []InstallInv
BY InstallStarts, InstallStepKeeps, PTL DEF InstallSpec

\* Jobs, the drill, the folders and the history are always well typed.
THEOREM InstallTypesCorrect == InstallSpec => []InstallTyped
<1>1. InstallInv => InstallTyped
  BY DEF InstallInv
<1>2. QED
  BY <1>1, InstallInvariant, PTL

\* The two callers of start_pull, an administrator and the drill, never have two
\* pending installations of one model.
THEOREM OneInstallPerModel == InstallSpec => []OnePending
<1>1. InstallInv => OnePending
  BY DEF InstallInv
<1>2. QED
  BY <1>1, InstallInvariant, PTL

\* A job shown as complete names a model that is installed, now and not just when it
\* ended, whatever later installations of the same model fail at.
THEOREM CompleteMeansInstalled == InstallSpec => []CompletedIsInstalled
<1>1. InstallInv => CompletedIsInstalled
  BY DEF InstallInv
<1>2. QED
  BY <1>1, InstallInvariant, PTL

\* An installed model stays installed through updates that fail or are interrupted,
\* clean downloads and restarts.
THEOREM InstalledStays == InstallSpec => [][\A p \in Models : Installed(p) => Installed(p)']_installVars
<1>1. InstallInv /\ [InstallNext]_installVars => [\A p \in Models : Installed(p) => Installed(p)']_installVars
  <2> SUFFICES ASSUME InstallInv, InstallNext PROVE \A p \in Models : Installed(p) => Installed(p)'
    OBVIOUS
  <2>1. CASE \E j \in DOMAIN pulls : PullStep(j)
    BY <2>1, EachAdvances DEF Advance, InstallInv
  <2>2. CASE UNCHANGED <<folder, inventory>>
    BY <2>2 DEF Installed
  <2>3. (\E j \in DOMAIN pulls : PullStep(j)) \/ UNCHANGED <<folder, inventory>>
    BY DEF InstallNext, start_pull, start_troubleshooting, DrillStep, check_attempt, poll_child, verify_attempt,
       add_context, IndexStep, take_batch, save_batch, remove_profile, publish_revision, restart_installs
  <2> QED BY <2>1, <2>2, <2>3
<1>2. QED
  BY <1>1, InstallInvariant, PTL DEF InstallSpec

\* What the guided drill waits for is an installation of the model it attempts, also
\* when it joined one that an administrator had started.
THEOREM DrillAwaitsItsOwn == InstallSpec => []DrillStands
<1>1. InstallInv => DrillStands
  BY DEF InstallInv
<1>2. QED
  BY <1>1, InstallInvariant, PTL

\* What is offered after a failure is another strategy than the one that failed last,
\* and one not tried since the last success as long as there is one.
RetryChanges ==
    \A p \in Locals, probe \in probe_public_model_sources :
        LET failed == FailuresOf(p)
            tried == {failed[k].strategy : k \in DOMAIN failed}
        IN  failed # << >> =>
                /\ install_action(p, probe) # failed[Len(failed)].strategy
                /\ install_action(p, probe) \in tried => Strategies \subseteq tried

\* Retrying changes the method, whatever failed before and however much of the history
\* was pruned.
THEOREM RetriesChange == InstallSpec => []RetryChanges
<1>1. InstallInv => RetryChanges
  BY ActionOffered DEF InstallInv, RetryChanges, Models
<1>2. QED
  BY <1>1, InstallInvariant, PTL

=============================================================================
