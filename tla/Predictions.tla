------------------------------ MODULE Predictions ------------------------------
(***************************************************************************)
(* PredictiveEngine, packages/intelligence/predictive_engine.py: what the  *)
(* recent events of a tenant say of its entities: predict_sla_breach,      *)
(* predict_delay and get_risk_scores.                                      *)
(*                                                                         *)
(* The events are a sequence, one in each unit of time and the last of     *)
(* them now.  A payload is what the three read of it: delay_minutes,       *)
(* progress_pct (read together with elapsed_minutes, the time of the       *)
(* event) and sla_deadline, each none or one, and no number is NaN or      *)
(* infinite; garbled if progress is there and no number; zoned if the      *)
(* deadline has a time zone; flagged or not, and if not, whether its       *)
(* anomaly_score can be compared with 0.                                   *)
(*                                                                         *)
(* A fitted line has floats for coefficients.  Figures of it that differ   *)
(* as fractions are told apart, those of whole readings being much further *)
(* apart than the floats are off; of two that are equal as fractions       *)
(* either may come out as the greater.                                     *)
(***************************************************************************)
EXTENDS Lists

CONSTANTS
    DelayLookback,  \* lookback_hours, as far as predict_delay projects
    EndOfTime       \* datetime.max, which no deadline comes within a day of

ASSUME PredictionsAssumption == DelayLookback \in Nat /\ EndOfTime \in Nat

\* An event, in what the three read of it.
EventOfLog(event) ==
    /\ DOMAIN event = {"entity", "flagged", "comparable", "delay", "progress", "garbled", "deadline", "zoned"}
    /\ event.flagged \in BOOLEAN /\ event.comparable \in BOOLEAN
    /\ event.garbled \in BOOLEAN /\ event.zoned \in BOOLEAN
    /\ \A field \in {"delay", "progress", "deadline"} : event[field] \subseteq Int /\ \A n, m \in event[field] : n = m
    /\ \A d \in event.deadline : d <= EndOfTime

------------------------------------------------------------------------------
(* numpy.polyfit(deg=1) of points [x, y], at least two with different x: the slope is     *)
(* rise / run, and the line goes through the mean of the points.                          *)

Tally(points, f(_)) == Sum([i \in DOMAIN points |-> f(points[i])])

Fit(points) ==
    LET n  == Len(points)
        sx == Tally(points, LAMBDA p : p.x)
        sy == Tally(points, LAMBDA p : p.y)
    IN  [n |-> n, sx |-> sx, sy |-> sy,
         rise |-> n * Tally(points, LAMBDA p : p.x * p.y) - sx * sy,
         run  |-> n * Tally(points, LAMBDA p : p.x * p.x) - sx * sx]

\* The value of the line at x, times n * run.
Level(fit, x) == fit.sy * fit.run + fit.rise * (fit.n * x - fit.sx)

\* The readings of one field of the events of an entity.
PointsOf(log, e, field) ==
    LET places == Ascending(Len(log), {i \in DOMAIN log : log[i].entity = e /\ log[i][field] # {}})
    IN  [k \in DOMAIN places |-> [x |-> places[k], y |-> CHOOSE v \in log[places[k]][field] : TRUE]]

------------------------------------------------------------------------------
(* What a comparison may say.  Readings of 0 alone have a line without rounding. *)

Exceeds(points, a, b) ==
    {answer \in BOOLEAN : (answer <=> a > b) \/ (a = b /\ \E i \in DOMAIN points : points[i].y # 0)}

------------------------------------------------------------------------------
(* predict_delay *)

Delays(log, e) == PointsOf(log, e, "delay")

\* Whether trend_direction is "increasing".
TrendIsIncreasing(points) ==
    LET fit == Fit(points)
        final == Last(points)
    IN  {answer \in BOOLEAN :
            \E up \in Exceeds(points, fit.rise, 0),
               over \in Exceeds(points, 2 * Level(fit, final.x + DelayLookback), 3 * final.y * fit.n * fit.run) :
                   answer <=> up /\ over}

DelayAnswers(log, e) == IF Len(Delays(log, e)) < 2 THEN {FALSE} ELSE TrendIsIncreasing(Delays(log, e))

------------------------------------------------------------------------------
(* predict_sla_breach *)

Progress(log, e) == PointsOf(log, e, "progress")

\* Events of the entity whose deadline is looked at: not those whose progress is garbled.
WithDeadline(log, e) == {i \in DOMAIN log : log[i].entity = e /\ ~log[i].garbled /\ log[i].deadline # {}}

\* The first of them, whatever later events say.
FirstWithDeadline(log, e) == {i \in WithDeadline(log, e) : \A j \in WithDeadline(log, e) : i <= j}

SlaDeadline(log, e) == UNION {log[i].deadline : i \in FirstWithDeadline(log, e)}

Zoned(log, e) == \A i \in FirstWithDeadline(log, e) : log[i].zoned

\* Whether the predicted completion, which is not before now, is past a time.
Past(points, now, time) ==
    LET fit == Fit(points)
        missing == 100 * fit.n * fit.run - Level(fit, Last(points).x)
    IN  IF missing < 0 \/ time < now THEN {now > time}
                                     ELSE Exceeds(points, missing, (time - now) * fit.n * fit.rise)

\* A completion that is past any date, and one compared with a deadline without a time zone, raises.
Completion(log, e) ==
    LET past(time) == Past(Progress(log, e), Len(log), time)
    IN  {answer \in {"raised", "late", "none"} :
            \E overflow \in past(EndOfTime), late \in UNION {past(d) : d \in SlaDeadline(log, e)} :
                answer = IF overflow \/ ~Zoned(log, e) THEN "raised" ELSE IF late THEN "late" ELSE "none"}

SlaAnswers(log, e) ==
    LET points == Progress(log, e)
        up == Exceeds(points, Fit(points).rise, 0)
    IN  IF Len(points) < 2 \/ SlaDeadline(log, e) = {} THEN {"none"}
        ELSE {answer \in Completion(log, e) : TRUE \in up} \cup {answer \in {"stalled"} : FALSE \in up}

------------------------------------------------------------------------------
(* get_risk_scores: in tenths of a point.  active[e] is the number of active alerts.      *)

Lesser(n, m) == IF n < m THEN n ELSE m

FlaggedOf(log, e) == Cardinality({i \in DOMAIN log : log[i].entity = e /\ log[i].flagged})

Nearest(n, d) == (2 * n + d) \div (2 * d)

RiskScore(log, active, e) ==
    LET signs  == Lesser(100 * active[e], 400) + Lesser(60 * FlaggedOf(log, e), 300)
        delays == Delays(log, e)
        total  == Tally(delays, LAMBDA p : p.y)
    IN  IF delays = <<>> THEN signs
        ELSE Lesser(Nearest(signs * Len(delays) + Lesser(5 * total, 300 * Len(delays)), Len(delays)), 1000)

\* The comparison of one anomaly_score that is no number, of any entity, ends the whole call.
RiskFails(log) == \E i \in DOMAIN log : ~log[i].flagged /\ ~log[i].comparable

EntitiesOf(log) == {log[i].entity : i \in DOMAIN log}

FirstEvent(log, e) == CHOOSE i \in DOMAIN log : log[i].entity = e /\ \A j \in 1 .. i - 1 : log[j].entity # e

\* The list returned: the riskiest first, those of one score in the order of their first events.
RiskScores(log, active) ==
    Arranged([e \in EntitiesOf(log) |-> <<-RiskScore(log, active, e), FirstEvent(log, e)>>])

------------------------------------------------------------------------------
(* Properties. *)

OnALine(points) ==
    \A i \in DOMAIN points : i > 2 =>
        (points[i].y - points[1].y) * (points[2].x - points[1].x) = (points[2].y - points[1].y) * (points[i].x - points[1].x)

NeverRises(points) == \A i \in 2 .. Len(points) : points[i - 1].y >= points[i].y

Rise(points) == Last(points).y - points[1].y
Span(points) == Last(points).x - points[1].x

\* Delays that grow on a line are extended along it as far as the lookback, and must become half
\* as much again.
DelaysOnLine(points, answers) ==
    LET ahead == 2 * DelayLookback * Rise(points)
        needed == Last(points).y * Span(points)
    IN  OnALine(points) /\ Rise(points) > 0 =>
          /\ TRUE \in answers <=> ahead >= needed
          /\ FALSE \in answers <=> ahead <= needed

\* Those that never grow make no delay, unless all of them are the same number below 0: the line
\* through them may seem to rise, and what is early grows by being divided.
DelaysThatFall(points, answers) ==
    NeverRises(points) /\ TRUE \in answers => Rise(points) = 0 /\ Last(points).y < 0

DelaysAreExtended(log, e) ==
    Len(Delays(log, e)) >= 2 =>
        DelaysOnLine(Delays(log, e), DelayAnswers(log, e)) /\ DelaysThatFall(Delays(log, e), DelayAnswers(log, e))

\* Progress on a line is extended along it to 100 %, which must be there by the deadline, and on a
\* date that there is, or the prediction raises.
ProgressOnLine(points, answers, present, deadline, zoned) ==
    LET ahead(time) == (time - present) * Rise(points)
        needed == (100 - Last(points).y) * Span(points)
    IN  OnALine(points) /\ Rise(points) > 0 /\ Last(points).y <= 100 =>
          /\ "raised" \in answers <=> needed >= ahead(EndOfTime) \/ ~zoned
          /\ "late" \in answers <=> needed >= ahead(deadline) /\ needed <= ahead(EndOfTime) /\ zoned
          /\ "none" \in answers <=> needed <= ahead(deadline) /\ zoned
          /\ "stalled" \notin answers

\* Progress that never rises may always be called a breach, and always is if it is less at the
\* end; but one that stands still, other than at 0, may seem to rise, and then ends nowhere before
\* the last of dates: the prediction raises, and only if it stands at 100 % or more is it ever
\* late or on track.
ProgressThatFalls(points, answers) ==
    NeverRises(points) =>
      /\ "stalled" \in answers
      /\ answers # {"stalled"} => Rise(points) = 0 /\ Last(points).y # 0
      /\ Last(points).y < 100 => answers \subseteq {"stalled", "raised"}

ProgressIsExtended(log, e) ==
    Len(Progress(log, e)) >= 2 => \A d \in SlaDeadline(log, e) :
        /\ ProgressOnLine(Progress(log, e), SlaAnswers(log, e), Len(log), d, Zoned(log, e))
        /\ ProgressThatFalls(Progress(log, e), SlaAnswers(log, e))

\* Both of an entity's predictions follow its readings.
LinesAreExtended(log, e) == DelaysAreExtended(log, e) /\ ProgressIsExtended(log, e)

\* An event changes no other entity's score; one that is neither flagged nor has a delay changes
\* none, and one that is flagged lowers none.  A score is at most 100, and below 0 or below what
\* the alerts alone come to only for an entity that is early on average.
RiskFollowsSigns(log, active) ==
    /\ log # <<>> => LET final == Last(log) IN
          \A e \in EntitiesOf(Front(log)) :
              /\ final.entity # e \/ (~final.flagged /\ final.delay = {}) =>
                    RiskScore(log, active, e) = RiskScore(Front(log), active, e)
              /\ final.flagged /\ final.delay = {} => RiskScore(log, active, e) >= RiskScore(Front(log), active, e)
    /\ \A e \in EntitiesOf(log) :
          /\ RiskScore(log, active, e) <= 1000
          /\ RiskScore(log, active, e) < Lesser(100 * active[e], 400) =>
                Tally(Delays(log, e), LAMBDA p : p.y) < 0
    /\ LET list == RiskScores(log, active) IN
          /\ Range(list) = EntitiesOf(log)
          /\ \A i, j \in DOMAIN list : i < j =>
                /\ list[i] # list[j]
                /\ RiskScore(log, active, list[i]) >= RiskScore(log, active, list[j])

PredictionsAreSound(log, active) ==
    /\ \A e \in EntitiesOf(log) : LinesAreExtended(log, e)
    /\ ~RiskFails(log) => RiskFollowsSigns(log, active)
================================================================================
