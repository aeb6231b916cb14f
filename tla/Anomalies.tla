------------------------------- MODULE Anomalies -------------------------------
(***************************************************************************)
(* AnomalyDetector, packages/intelligence/anomaly_detector.py: the readings *)
(* of one metric, the baseline learned from them and kept, and what a      *)
(* later look at the recent ones reports; and the volume of the events.    *)
(*                                                                         *)
(* Mean and standard deviation are rational: a comparison of theirs is one *)
(* of integers, with the denominators multiplied out.                      *)
(***************************************************************************)
EXTENDS Lists

CONSTANTS
    Values,         \* what a reading may be
    Lookback,       \* the days of history, of baseline and volume
    RecentDays,     \* window_hours, in days
    LastDay,        \* bound: the last day looked at
    MaxReadings     \* bound: the number of readings

ASSUME AnomaliesAssumption ==
    /\ Values \subseteq Int
    /\ Lookback \in Nat \ {0} /\ RecentDays \in Nat \ {0} /\ LastDay \in Nat /\ MaxReadings \in Nat

VARIABLES
    today,      \* the day it is
    readings,   \* the events in order: the day, and the value, none if the payload has no number
    baseline,   \* the cached profile, none before
    learnedTo,  \* history: the number of events there were when the baseline was learned
    detecting,  \* whether detect_anomalies awaits the recent events
    anomalies   \* what the last detect_anomalies returned

anomaliesVars == <<today, readings, baseline, learnedTo, detecting, anomalies>>

AnomaliesInit ==
    /\ today = 0 /\ readings = <<>>
    /\ baseline = {} /\ learnedTo = 0
    /\ detecting = FALSE /\ anomalies = {}

------------------------------------------------------------------------------
(* Statistics. *)

\* _extract_metric_values, of the events since a day.
Figures(since) ==
    LET counted == Kept(readings, {i \in DOMAIN readings : readings[i].day >= since /\ readings[i].value # {}})
    IN  [i \in DOMAIN counted |-> CHOOSE v \in counted[i].value : TRUE]

\* sample_count, and what mean and std_dev come from.
Profile(figures) ==
    [count |-> Len(figures), sum |-> Sum(figures), squares |-> Sum([i \in DOMAIN figures |-> figures[i] * figures[i]])]

\* std_dev squared, times count * (count - 1).
Spread(p) == p.count * p.squares - p.sum * p.sum

\* Whether a value is more than so many half standard deviations (ddof=1) from the mean.
Beyond(halves, v, p) ==
    LET distance == p.count * v - p.sum
    IN  4 * distance * distance * (p.count - 1) > halves * halves * p.count * Spread(p)

\* _severity_from_deviation
Severity(v, p) ==
    IF Beyond(8, v, p) THEN "critical" ELSE IF Beyond(6, v, p) THEN "high" ELSE IF Beyond(5, v, p) THEN "medium" ELSE "low"

Usable(p) == p.count # 0 /\ Spread(p) # 0

Recent == {i \in DOMAIN readings : readings[i].day >= today - RecentDays}

Found(p) ==
    {[reading |-> f[1], severity |-> Severity(f[2], p)] :
        f \in {f \in Recent \X Values : f[2] \in readings[f[1]].value /\ Beyond(4, f[2], p)}}

------------------------------------------------------------------------------
Reads(value) ==
    /\ Len(readings) < MaxReadings
    /\ readings' = Append(readings, [day |-> today, value |-> value])
    /\ UNCHANGED <<today, baseline, learnedTo, detecting, anomalies>>

DayPasses ==
    /\ today < LastDay
    /\ today' = today + 1
    /\ UNCHANGED <<readings, baseline, learnedTo, detecting, anomalies>>

\* An empty profile is cached like any other.
Learns ==
    /\ baseline' = {Profile(Figures(today - Lookback))}
    /\ learnedTo' = Len(readings)

LearnBaseline ==
    /\ ~detecting
    /\ Learns
    /\ UNCHANGED <<today, readings, detecting, anomalies>>

\* Up to the query for the recent events: the baseline is learned if there is none.
DetectAnomalies ==
    /\ ~detecting
    /\ IF baseline = {} THEN Learns ELSE UNCHANGED <<baseline, learnedTo>>
    /\ LET unusable == \E p \in baseline' : ~Usable(p) IN
          /\ detecting' = ~unusable
          /\ anomalies' = IF unusable THEN {} ELSE anomalies
    /\ UNCHANGED <<today, readings>>

DetectReturns ==
    /\ detecting
    /\ detecting' = FALSE
    /\ anomalies' = UNION {Found(p) : p \in baseline}
    /\ UNCHANGED <<today, readings, baseline, learnedTo>>

AnomaliesNext ==
    \/ \E v \in {{}} \cup {{v} : v \in Values} : Reads(v)
    \/ DayPasses \/ LearnBaseline \/ DetectAnomalies \/ DetectReturns

AnomaliesSpec == AnomaliesInit /\ [][AnomaliesNext]_anomaliesVars

------------------------------------------------------------------------------
(* detect_volume_anomaly: recent and earlier events, for a window and a lookback of the  *)
(* same unit of at least an hour.  expected_count is earlier * Windows[2] / Windows[1].   *)

Windows(window, lookback) ==
    IF lookback - window > window THEN <<lookback - window, window>> ELSE <<1, 1>>

VolumeAnomaly(recent, earlier, window, lookback) ==
    LET w == Windows(window, lookback)
        excess == recent * w[1] - earlier * w[2]
    IN  IF earlier = 0 THEN "none"
        ELSE IF excess * 5 > 2 * earlier * w[2] THEN "spike"
        ELSE IF -excess * 5 > 2 * earlier * w[2] THEN "drop" ELSE "none"

------------------------------------------------------------------------------
(* Properties. *)

AnomaliesTypeOK ==
    /\ today \in 0 .. LastDay
    /\ \A i \in DOMAIN readings : readings[i].day \in 0 .. today /\ readings[i].value \subseteq Values
    /\ baseline \subseteq [count : 0 .. MaxReadings, sum : Int, squares : Nat]
    /\ learnedTo \in 0 .. Len(readings)
    /\ detecting \in BOOLEAN
    /\ anomalies \subseteq [reading : 1 .. Len(readings), severity : {"low", "medium", "high", "critical"}]

\* A baseline hides what it was learned from.  One that is learned on demand has the readings
\* it then inspects: however extreme, none of those is an anomaly unless there are five more,
\* of medium severity unless there are eight, and of high unless there are ten.
BaselineHidesItsOwn ==
    \A p \in baseline : \A a \in Found(p) :
        a.reading <= learnedTo /\ readings[a.reading].day >= today - Lookback =>
            \/ p.count >= 6 /\ a.severity = "low"
            \/ p.count >= 9 /\ a.severity = "medium"
            \/ p.count >= 11

\* Nothing is ever found against a baseline without readings or without spread, which stays
\* until learn_baseline is called again.
BlindBaselineIsSilent ==
    detecting => \A p \in baseline : Usable(p) /\ p.count >= 2

\* The farther of two readings on one side of the mean is not the less severe, and of a list
\* with the nearer one in it the farther is too.
SeverityFollowsDistance ==
    \A p \in baseline : Usable(p) =>
        \A v, w \in Values : (p.count * v >= p.sum /\ w >= v) \/ (p.count * v <= p.sum /\ w <= v) =>
            \A halves \in {4, 5, 6, 8} : Beyond(halves, v, p) => Beyond(halves, w, p)

\* Events that come at an even rate are neither spike nor drop, whatever the rate and the
\* window, as long as the lookback has more than two windows.
SteadyVolumeIsQuiet ==
    \A window \in 1 .. 12, rate \in 1 .. 3, lookback \in 1 .. 30 :
        lookback > 2 * window => VolumeAnomaly(rate * window, rate * (lookback - window), window, lookback) = "none"

\* Without history nothing is an anomaly, and with it silence always is.
SilenceIsADrop ==
    \A window \in 1 .. 12, earlier \in 0 .. 5 :
        VolumeAnomaly(0, earlier, window, 30) = IF earlier = 0 THEN "none" ELSE "drop"

AnomaliesAreSound ==
    /\ BaselineHidesItsOwn /\ BlindBaselineIsSilent /\ SeverityFollowsDistance
    /\ SteadyVolumeIsQuiet /\ SilenceIsADrop
================================================================================
