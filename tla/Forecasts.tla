------------------------------ MODULE Forecasts ------------------------------
(***************************************************************************)
(* Shadow forecasts: schedules, their attempts in one lane, the runs that  *)
(* are retained, the baselines they are compared with, reviews and alert   *)
(* candidates: forecasting/{scheduler,schedule_store,service,store}.py and *)
(* their handlers in app.py.                                               *)
(*                                                                         *)
(* Attempts and runs are numbered as they are created.  A series is the    *)
(* normalized query; with the connection it makes the series key.  A       *)
(* request is its series.  The interval passes in `elapse`.                *)
(***************************************************************************)
EXTENDS Naturals, Sequences, FiniteSets

CONSTANTS
    Schedules,        \* identifiers of schedules
    Conns,            \* Splunk connections, by alias and fingerprint
    Series,           \* normalized queries
    Weekdays,         \* days a series may end on
    Directions,       \* of an alert: "above", "below"
    DailyBudget,      \* max_runs_per_day of a schedule
    GlobalBudget,     \* GLOBAL_MAX_RUNS_PER_DAY
    MaxDays,          \* bound: UTC days
    MaxForecasts,     \* bound: runs retained
    MaxForecastRestarts, \* bound: restarts
    NoSchedule

ASSUME ForecastAssumption == DailyBudget \in Nat /\ GlobalBudget \in Nat /\ MaxDays \in Nat \ {0}

VARIABLES
    schedules,     \* time_series_schedules
    due,           \* enabled schedules whose next_run_at has passed, oldest first
    attempts,      \* time_series_schedule_attempts
    inference,     \* the attempt that awaits Splunk or the runtime, and its request
    forecasts,     \* time_series_runs
    baselines,     \* time_series_baselines: [key, slot, run]
    reviews,       \* time_series_schedule_reviews: [attempt, run, state]
    candidates,    \* time_series_alert_candidates: [run, direction, draft]
    drafts,        \* external: validation drafts made for a candidate
    admitted,      \* external: connections the binding check accepts
    owner_allowed, \* external: the owner may still run forecasts
    today,
    forecast_restarts

forecastVars == <<schedules, due, attempts, inference, forecasts, baselines, reviews,
                  candidates, drafts, admitted, owner_allowed, today, forecast_restarts>>
laneVars == <<schedules, due, attempts, inference>>
registryVars == <<forecasts, baselines, candidates, drafts>>
outsideVars == <<admitted, owner_allowed, today, forecast_restarts>>

ForecastsInit ==
    /\ schedules = [s \in Schedules |-> NoSchedule]
    /\ due = << >> /\ attempts = << >> /\ inference = << >>
    /\ forecasts = << >> /\ baselines = {} /\ reviews = {}
    /\ candidates = {} /\ drafts = 0
    /\ admitted = Conns /\ owner_allowed = TRUE /\ today = 1
    /\ forecast_restarts = MaxForecastRestarts

Exists(s) == schedules[s] # NoSchedule
Without(seq, s) == SelectSeq(seq, LAMBDA x : x # s)
active_attempt == {a \in DOMAIN attempts : attempts[a].status \in {"queued", "running"}}
ActiveOf(s) == \E a \in active_attempt : attempts[a].schedule = s

(***************************************************************************)
(* Outside: connections and accounts change, the clock moves.              *)
(***************************************************************************)
change_outside ==
    /\ \/ \E c \in Conns : admitted' = (admitted \ {c}) \cup ({c} \ admitted)
          /\ UNCHANGED <<owner_allowed, today>>
       \/ owner_allowed' = ~owner_allowed /\ UNCHANGED <<admitted, today>>
       \/ today < MaxDays /\ today' = today + 1 /\ UNCHANGED <<admitted, owner_allowed>>
    /\ UNCHANGED <<laneVars, registryVars, reviews, forecast_restarts>>

elapse(s) ==
    /\ Exists(s) /\ schedules[s].enabled /\ s \notin {due[i] : i \in DOMAIN due}
    /\ due' = Append(due, s)
    /\ UNCHANGED <<schedules, attempts, inference, registryVars, reviews, outsideVars>>

(***************************************************************************)
(* Schedules.  Every change names the state it was made from; a stale one  *)
(* is refused and changes nothing.                                         *)
(***************************************************************************)
NewSchedule(c, q, enabled) ==
    [conn |-> c, series |-> q, enabled |-> enabled, archived |-> FALSE]

create_schedule(s, c, q, enabled) ==
    /\ ~Exists(s) /\ c \in admitted
    /\ schedules' = [schedules EXCEPT ![s] = NewSchedule(c, q, enabled)]
    /\ UNCHANGED <<due, attempts, inference, registryVars, reviews, outsideVars>>

\* An update may change the request, pause or start, and set the next run anew.
updated(s, q, enabled, again) ==
    /\ schedules' = [schedules EXCEPT ![s].series = q, ![s].enabled = enabled]
    /\ due' = IF enabled = schedules[s].enabled /\ ~again THEN due ELSE Without(due, s)

update_schedule(s, q, enabled, again) ==
    /\ Exists(s) /\ ~schedules[s].archived
    /\ enabled => schedules[s].conn \in admitted
    /\ updated(s, q, enabled, again)
    /\ UNCHANGED <<attempts, inference, registryVars, reviews, outsideVars>>

archived(s) ==
    /\ schedules' = [schedules EXCEPT ![s].archived = TRUE, ![s].enabled = FALSE]
    /\ due' = Without(due, s)

archive_schedule(s) ==
    /\ Exists(s) /\ ~schedules[s].archived /\ ~ActiveOf(s)
    /\ archived(s)
    /\ UNCHANGED <<attempts, inference, registryVars, reviews, outsideVars>>

\* Another connection, and the schedule is paused.
rebound(s, c) ==
    /\ schedules' = [schedules EXCEPT ![s].conn = c, ![s].enabled = FALSE]
    /\ due' = Without(due, s)

rebind_schedule(s, c) ==
    /\ Exists(s) /\ ~schedules[s].archived /\ c \in admitted /\ ~ActiveOf(s)
    /\ rebound(s, c)
    /\ UNCHANGED <<attempts, inference, registryVars, reviews, outsideVars>>

(***************************************************************************)
(* The lane.                                                               *)
(***************************************************************************)
OfToday(A) == Cardinality({a \in A : attempts[a].day = today})

WithinBudget(s) ==
    /\ OfToday({a \in DOMAIN attempts : attempts[a].schedule = s}) < DailyBudget
    /\ OfToday(DOMAIN attempts) < GlobalBudget

\* Mutant: the budgets are all that is checked.
MayEnqueueBusy(s) == ~schedules[s].archived /\ WithinBudget(s)

MayEnqueue(s) == ~schedules[s].archived /\ active_attempt = {} /\ WithinBudget(s)

enqueue(s) ==
    /\ MayEnqueue(s)
    /\ attempts' = Append(attempts, [schedule |-> s, conn |-> schedules[s].conn,
                                     status |-> "queued", run |-> 0, day |-> today])

\* An operator's run needs neither an enabled schedule nor a due time.
forecast_now(s) == enqueue(s) /\ UNCHANGED <<due, inference>>

run_schedule_now(s) ==
    /\ Exists(s) /\ schedules[s].conn \in admitted
    /\ forecast_now(s)
    /\ UNCHANGED <<schedules, registryVars, reviews, outsideVars>>

\* Mutant: it stays due.
deferred_stays_due(s) == UNCHANGED <<due, attempts>>

\* A due schedule that is refused waits for its next interval.
defer_due(s) == due' = Tail(due) /\ UNCHANGED attempts

enqueue_due ==
    /\ due # << >> /\ active_attempt = {}
    /\ \/ enqueue(Head(due)) /\ due' = Tail(due)
       \/ ~MayEnqueue(Head(due)) /\ defer_due(Head(due))
    /\ UNCHANGED <<schedules, inference, registryVars, reviews, outsideVars>>

fail(a) == attempts' = [attempts EXCEPT ![a].status = "error"]

\* The authority to run is checked once, before the first await.
Authorised(a) == owner_allowed /\ attempts[a].conn \in admitted

mark_running(a) == attempts' = [attempts EXCEPT ![a].status = "running"]

\* The request is read now; the binding is the attempt's.
begin_inference(a) == inference' = <<a, schedules[attempts[a].schedule].series>>

execute(a) ==
    /\ inference = << >> /\ attempts[a].status = "queued"
    /\ \/ Authorised(a) /\ begin_inference(a) /\ mark_running(a)
       \/ ~Authorised(a) /\ fail(a) /\ UNCHANGED inference
    /\ UNCHANGED <<schedules, due, registryVars, reviews, outsideVars>>

forecast_fails ==
    /\ inference # << >> /\ fail(inference[1]) /\ inference' = << >>
    /\ UNCHANGED <<schedules, due, registryVars, reviews, outsideVars>>

series_key(q, c) == <<q, c>>

baselines_of(key, slots) == {b \in baselines : b.key = key /\ b.slot \in slots}

\* The baseline of the weekday is preferred to the general one.  0: none.
reference(key, day) ==
    LET B == baselines_of(key, {"general", day})
        W == {b \in B : b.slot = day}
    IN  IF B = {} THEN 0 ELSE (CHOOSE b \in IF W # {} THEN W ELSE B : TRUE).run

\* Metrics are not kept: a comparison may come out stable or not, but never stable
\* for a run that is not ready, nor anything but "no-baseline" without one.
Decisions(ref, ready) ==
    IF ref = 0 THEN {"no-baseline"}
    ELSE IF ready THEN {"stable", "review", "material-drift"} ELSE {"material-drift"}

\* A series is made of what Splunk returned, one value for each bucket: by the share of
\* values that had to be filled in (at most 10%, at most 30%, more) and whether the rows
\* reached the limit.  Rows of which no series can be made fail the forecast.
prepare_series == [imputed : {"few", "many", "most"}, truncated : BOOLEAN]

\* The forecast of the points held out, and the model the runtime attests.
Backtest == [beats_naive : BOOLEAN, attested : BOOLEAN]

\* A run is ready if all that decides it is in order; most values filled in block it.
Gate(series, backtest) ==
    series.imputed = "few" /\ ~series.truncated /\ backtest.beats_naive /\ backtest.attested

PromotionGate == {Gate(series, backtest) : series \in prepare_series, backtest \in Backtest}

\* The run of query q on connection c is retained.
record_forecast(q, c) ==
    /\ Len(forecasts) < MaxForecasts
    /\ \E day \in Weekdays, ready \in PromotionGate :
         LET ref == reference(series_key(q, c), day)
         IN  \E decision \in Decisions(ref, ready) :
               forecasts' = Append(forecasts,
                   [series |-> q, conn |-> c, day |-> day, ready |-> ready,
                    ref |-> ref, decision |-> decision])

\* Mutant: only material drift is queued for review.
material_only(decision) == decision = "material-drift"

NeedsReview(decision) == decision \in {"no-baseline", "review", "material-drift"}

complete(a, run) ==
    /\ attempts' = [attempts EXCEPT ![a].status = "complete", ![a].run = run]
    /\ reviews' = IF NeedsReview(forecasts'[run].decision)
                    THEN reviews \cup {[attempt |-> a, run |-> run, state |-> "pending"]}
                    ELSE reviews

finish_forecast ==
    /\ inference # << >>
    /\ record_forecast(inference[2], attempts[inference[1]].conn)
    /\ complete(inference[1], Len(forecasts'))
    /\ inference' = << >>
    /\ UNCHANGED <<schedules, due, baselines, candidates, drafts, outsideVars>>

recover_forecasts ==
    attempts' = [a \in DOMAIN attempts |->
        IF attempts[a].status = "running" THEN [attempts[a] EXCEPT !.status = "queued"]
                                          ELSE attempts[a]]

\* A crash or a stop, possibly after the run was retained and before the attempt was
\* completed, and the next start.
restart_forecasts ==
    /\ forecast_restarts > 0 /\ forecast_restarts' = forecast_restarts - 1
    /\ \/ UNCHANGED forecasts
       \/ inference # << >> /\ record_forecast(inference[2], attempts[inference[1]].conn)
    /\ recover_forecasts /\ inference' = << >>
    /\ UNCHANGED <<schedules, due, baselines, candidates, drafts, reviews, admitted,
                   owner_allowed, today>>

\* A forecast of the workbench needs no schedule.
run_forecast(q, c) ==
    /\ record_forecast(q, c)
    /\ UNCHANGED <<laneVars, baselines, candidates, drafts, reviews, outsideVars>>

(***************************************************************************)
(* Decisions of an analyst.                                                *)
(***************************************************************************)
decided(r, state) ==
    r.state = "pending" /\ reviews' = (reviews \ {r}) \cup {[r EXCEPT !.state = state]}

decide_review(r, state) ==
    /\ decided(r, state)
    /\ UNCHANGED <<laneVars, registryVars, outsideVars>>

\* A run that is ready takes the place of the baseline in its slot.
accepted_baseline(run, slot) ==
    LET key == series_key(forecasts[run].series, forecasts[run].conn)
    IN  /\ forecasts[run].ready /\ slot \in {"general", forecasts[run].day}
        /\ baselines' = {b \in baselines : b.key # key \/ b.slot # slot}
                           \cup {[key |-> key, slot |-> slot, run |-> run]}

accept_baseline(run, slot) ==
    /\ accepted_baseline(run, slot)
    /\ UNCHANGED <<laneVars, forecasts, candidates, drafts, reviews, outsideVars>>

IsBaseline(run) == \E b \in baselines : b.run = run

\* The candidate's row, if the run is still a baseline.
inserted(run, direction, draft) ==
    IsBaseline(run) /\ candidates' = candidates \cup
                          {[run |-> run, direction |-> direction, draft |-> draft]}

\* A draft is made and then the candidate, unless the run has one in that direction.
proposed(run, direction) ==
    /\ forecasts[run].ready /\ IsBaseline(run)
    /\ \A k \in candidates : k.run # run \/ k.direction # direction
    /\ drafts' = drafts + 1
    /\ inserted(run, direction, drafts')

create_alert_candidate(run, direction) ==
    /\ proposed(run, direction)
    /\ UNCHANGED <<laneVars, forecasts, baselines, reviews, outsideVars>>

LaneNext ==
    \/ change_outside \/ enqueue_due \/ forecast_fails \/ finish_forecast \/ restart_forecasts
    \/ \E a \in DOMAIN attempts : execute(a)
    \/ \E r \in reviews, state \in {"acknowledged", "dismissed"} : decide_review(r, state)
    \/ \E s \in Schedules :
          \/ elapse(s) \/ archive_schedule(s) \/ run_schedule_now(s)
          \/ \E c \in Conns : rebind_schedule(s, c)
          \/ \E q \in Series, enabled \in BOOLEAN :
                \/ \E c \in Conns : create_schedule(s, c, q, enabled)
                \/ \E again \in BOOLEAN : update_schedule(s, q, enabled, again)

RegistryNext ==
    \/ \E q \in Series, c \in admitted : run_forecast(q, c)
    \/ \E run \in DOMAIN forecasts :
          \/ \E slot \in {"general"} \cup Weekdays : accept_baseline(run, slot)
          \/ \E direction \in Directions : create_alert_candidate(run, direction)

\* The worker polls, and Splunk and the runtime answer or time out.
ForecastFairness ==
    /\ WF_forecastVars(enqueue_due)
    /\ WF_forecastVars(\E a \in DOMAIN attempts : execute(a))
    /\ WF_forecastVars(finish_forecast \/ forecast_fails)

ForecastSpec == ForecastsInit /\ [][LaneNext \/ RegistryNext]_forecastVars /\ ForecastFairness

(***************************************************************************)
(* Properties.                                                             *)
(***************************************************************************)
\* The attempt table implements what DurableRuns promises, with nothing to cancel: one
\* attempt at a time whether an operator or the clock asked for it, one that was
\* interrupted is tried again, one that ended stays so (schedule_store.py:336-618).
ForecastPromise == INSTANCE DurableRuns WITH
    Runs <- 1 .. GlobalBudget * MaxDays,
    cancelling <- {},
    phase <- [a \in 1 .. GlobalBudget * MaxDays |->
                IF a > Len(attempts) THEN "none"
                ELSE IF a \in active_attempt THEN attempts[a].status ELSE "ended"]
ForecastsAreDurable == ForecastPromise!Spec

\* An attempt that completed with anything but a stable comparison has the review of the
\* run it names, and no other attempt has one: not the run retained before a crash
\* (schedule_store.py:516-595).
DriftIsReviewed ==
    /\ \A a \in DOMAIN attempts :
          attempts[a].status = "complete" /\ forecasts[attempts[a].run].decision # "stable"
              => \E r \in reviews : r.attempt = a
    /\ \A r \in reviews :
          attempts[r.attempt].status = "complete" /\ attempts[r.attempt].run = r.run

\* A schedule that is due is not left so: it is run, or put off to its next interval,
\* and does not hold up the ones behind it (scheduler.py:119-181).
DueIsServed == \A s \in Schedules : (s \in {due[i] : i \in DOMAIN due}) ~> (s \notin {due[i] : i \in DOMAIN due})

=============================================================================
