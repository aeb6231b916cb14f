------------------------------ MODULE Escalation ------------------------------
(***************************************************************************)
(* packages/domain/escalation.py: what the passing of time makes of open   *)
(* alerts (check_escalation, SLATracker.track), beside the SLA report of   *)
(* packages/reporting/generator.py, which counts breaches on its own; the  *)
(* grouping of alerts; and the pure functions of the day, quiet hours and  *)
(* on-call rotation.                                                       *)
(*                                                                         *)
(* Alerts are raised, acknowledged and resolved as they are in             *)
(* AlertLifecycle, whatever their status: acknowledging a resolved alert   *)
(* keeps its resolved_at, and resolving it again moves it.  Time is in     *)
(* minutes.  The alerts have a created_at and a severity of the policy.    *)
(***************************************************************************)
EXTENDS Lists

CONSTANTS
    Alerts,       \* the alerts of one rule
    Entities,     \* what alerts may be about
    Policy,       \* the stages of the escalation policy: what each waits
    SlaTarget,    \* sla_target_minutes of the tracker, 60 unless it is given another
    ReportTarget, \* sla_target of the report, 60 in the code
    TableRows,    \* the rows of the report's table by entity, 10 in the code
    Window,       \* time_window_minutes of group_alerts
    LastMinute    \* bound: the last minute looked at

ASSUME EscalationAssumption ==
    /\ IsFiniteSet(Alerts)
    /\ Policy \in Seq(Nat)
    /\ SlaTarget \in Nat /\ ReportTarget \in Nat /\ TableRows \in Nat
    /\ Window \in Nat /\ LastMinute \in Nat

VARIABLES
    now,        \* the time
    raised,     \* raised[a]: created_at, a set of at most one time
    entity,     \* entity[a]: the entity of alert a, a set of at most one
    standing,   \* standing[a]: its status, "none" before it is raised
    resolvedAt, \* resolvedAt[a]: a set of at most one time
    stage,      \* stage[a]: the stage the last check_escalation of a returned, 0 for None
    late        \* alerts that a track has found in breach

escalationVars == <<now, raised, entity, standing, resolvedAt, stage, late>>

EscalationInit ==
    /\ now = 0
    /\ raised = [a \in Alerts |-> {}]
    /\ entity = [a \in Alerts |-> {}]
    /\ standing = [a \in Alerts |-> "none"]
    /\ resolvedAt = [a \in Alerts |-> {}]
    /\ stage = [a \in Alerts |-> 0]
    /\ late = {}

Raised == {a \in Alerts : raised[a] # {}}

The(set) == CHOOSE x \in set : TRUE

------------------------------------------------------------------------------
(* check_escalation: the last stage of the list whose wait is over, counted from 1.    *)

Largest(set) == CHOOSE n \in set : \A m \in set : m <= n

Due(a) == {i \in DOMAIN Policy : now - The(raised[a]) >= Policy[i]}

OnePastDue(a) == IF Due(a) = {} THEN 0 ELSE Largest(Due(a)) + 1

LastDue(a) == IF Due(a) = {} THEN 0 ELSE Largest(Due(a))

StageOf(a) == IF standing[a] \in {"acknowledged", "resolved"} THEN 0 ELSE LastDue(a)

------------------------------------------------------------------------------
(* SLATracker.track, and the counts of generate_sla_report: each with its own reading of  *)
(* created_at and resolved_at, and its own target.                                        *)

TimeToResolve(a) == {t - The(raised[a]) : t \in resolvedAt[a]}

Breached(a) ==
    IF resolvedAt[a] # {} THEN The(TimeToResolve(a)) > SlaTarget
                          ELSE now - The(raised[a]) > SlaTarget

CountsAsBreach(minutes) == minutes > ReportTarget

\* The breaches of the report, with the elapsed time for an alert without resolved_at.
ReportedBreaches(alerts) ==
    {a \in alerts : CountsAsBreach(IF resolvedAt[a] # {} THEN The(TimeToResolve(a)) ELSE now - The(raised[a]))}

\* Its counts by entity look at resolved alerts only.
EntityBreaches(alerts, e) ==
    Cardinality({a \in alerts : entity[a] = e /\ resolvedAt[a] # {} /\ CountsAsBreach(The(TimeToResolve(a)))})

EntityTotal(alerts, e) == Cardinality({a \in alerts : entity[a] = e})

\* The entities of entity_stats are in the order in which the list of alerts comes to them.
FirstAlert(list, e) == CHOOSE i \in DOMAIN list : entity[list[i]] = e /\ \A j \in 1 .. i - 1 : entity[list[j]] # e

\* All of them: the most breaches first, and otherwise as they were.
MostBreaches(list) ==
    Arranged([e \in {entity[a] : a \in Range(list)} |-> <<-EntityBreaches(Range(list), e), FirstAlert(list, e)>>])

Cut(list, n) == SubSeq(list, 1, IF Len(list) < n THEN Len(list) ELSE n)

\* The table: the first rows of them.
ByEntity(list) ==
    LET shown == Cut(MostBreaches(list), TableRows)
    IN  [k \in DOMAIN shown |-> [entity   |-> shown[k],
                                 total    |-> EntityTotal(Range(list), shown[k]),
                                 breaches |-> EntityBreaches(Range(list), shown[k])]]

------------------------------------------------------------------------------
(* group_alerts *)

\* Alerts of one minute stay in the order of the list.
InOrder(list) == SortedBy(list, [i \in DOMAIN list |-> The(raised[list[i]])])

Apart(a, b) == The(raised[b]) - The(raised[a])

Bucket(sorted, e) == Kept(sorted, {i \in DOMAIN sorted : entity[sorted[i]] = e})

GapFromRoot(bucket, i, group) == The(raised[bucket[i]]) - The(raised[group[1]])

GapFromPrevious(bucket, i, group) == The(raised[bucket[i]]) - The(raised[bucket[i - 1]])

\* One bucket cut where the gap to the alert before exceeds the window.
Groups(bucket) ==
    LET step(groups, i) ==
          IF i > 1 /\ GapFromPrevious(bucket, i, groups[Len(groups)]) <= Window
            THEN [groups EXCEPT ![Len(groups)] = Append(@, bucket[i])]
            ELSE Append(groups, <<bucket[i]>>)
    IN  FoldLeft(step, <<>>, [i \in DOMAIN bucket |-> i])

AlertGroups(list) ==
    LET sorted == InOrder(list)
    IN  UNION {Range(Groups(Bucket(sorted, e))) : e \in {entity[a] : a \in Range(list)}}

------------------------------------------------------------------------------
(* Quiet hours and the rota. *)

\* is_quiet_hours
Quiet(start, end, hour) ==
    IF start <= end THEN start <= hour /\ hour < end
                    ELSE hour >= start \/ hour < end

\* get_current_oncall: the index into members.
OnCall(index, period, members) == (index + period) % members

Period(weekly, day) == IF weekly THEN day \div 7 ELSE day

------------------------------------------------------------------------------
Raise(a) ==
    /\ raised[a] = {}
    /\ raised' = [raised EXCEPT ![a] = {now}]
    /\ \E e \in Entities : entity' = [entity EXCEPT ![a] = {e}]
    /\ standing' = [standing EXCEPT ![a] = "active"]
    /\ UNCHANGED <<now, resolvedAt, stage, late>>

Acknowledge(a) ==
    /\ raised[a] # {}
    /\ standing' = [standing EXCEPT ![a] = "acknowledged"]
    /\ UNCHANGED <<now, raised, entity, resolvedAt, stage, late>>

Resolve(a) ==
    /\ raised[a] # {}
    /\ standing' = [standing EXCEPT ![a] = "resolved"]
    /\ resolvedAt' = [resolvedAt EXCEPT ![a] = {now}]
    /\ UNCHANGED <<now, raised, entity, stage, late>>

\* A caller polls check_escalation and track.
Poll(a) ==
    /\ raised[a] # {}
    /\ stage' = [stage EXCEPT ![a] = StageOf(a)]
    /\ late' = IF Breached(a) THEN late \cup {a} ELSE late
    /\ UNCHANGED <<now, raised, entity, standing, resolvedAt>>

Passes ==
    /\ now < LastMinute
    /\ now' = now + 1
    /\ UNCHANGED <<raised, entity, standing, resolvedAt, stage, late>>

EscalationNext == Passes \/ \E a \in Alerts : Raise(a) \/ Acknowledge(a) \/ Resolve(a) \/ Poll(a)

EscalationSpec == EscalationInit /\ [][EscalationNext]_escalationVars

------------------------------------------------------------------------------
(* Properties. *)

EscalationTypeOK ==
    /\ now \in 0 .. LastMinute
    /\ raised \in [Alerts -> SUBSET (0 .. LastMinute)]
    /\ entity \in [Alerts -> SUBSET Entities]
    /\ standing \in [Alerts -> {"none", "active", "acknowledged", "resolved"}]
    /\ resolvedAt \in [Alerts -> SUBSET (0 .. LastMinute)]
    /\ stage \in [Alerts -> 0 .. Len(Policy)]
    /\ late \subseteq Alerts

\* An alert nobody acknowledges climbs: check_escalation never returns an earlier stage than it
\* has before, whatever the order of the waits in the policy, and an alert that was found in
\* breach of its SLA is in breach for good, resolved, acknowledged or resolved again.
EscalationOnlyClimbs ==
    /\ \A a \in Raised : standing[a] = "active" => StageOf(a) >= stage[a]
    /\ \A a \in late : Breached(a)

AlertsOf(rows) == {a \in Raised : \E k \in DOMAIN rows : entity[a] = rows[k].entity}

\* The SLA report and SLATracker call the same alerts breached, to the minute, if their targets
\* are the same; the one with the lower target misses none of the other's.  However the query
\* lists the alerts, the report's table has a row for each entity, or for as many as it has
\* rows for; none that is left out has more breaches than one that is shown; and what the rows
\* say adds up to the alerts of their entities, and to the resolved ones of the breaches.
SlaFiguresAgree ==
    /\ SlaTarget <= ReportTarget => ReportedBreaches(Raised) \subseteq {a \in Raised : Breached(a)}
    /\ ReportTarget <= SlaTarget => {a \in Raised : Breached(a)} \subseteq ReportedBreaches(Raised)
    /\ \A list \in SetToSeqs(Raised) :
          LET rows == ByEntity(list) IN
          /\ Len(rows) <= TableRows
          /\ \A k, m \in DOMAIN rows : k < m =>
                rows[k].entity # rows[m].entity /\ rows[k].breaches >= rows[m].breaches
          /\ \A a \in Raised \ AlertsOf(rows) :
                /\ Len(rows) = TableRows
                /\ \A k \in DOMAIN rows : EntityBreaches(Raised, entity[a]) <= rows[k].breaches
          /\ Sum([k \in DOMAIN rows |-> rows[k].total]) = Cardinality(AlertsOf(rows))
          /\ Sum([k \in DOMAIN rows |-> rows[k].breaches]) =
                Cardinality({a \in AlertsOf(rows) : a \in ReportedBreaches(Raised) /\ resolvedAt[a] # {}})

\* However the alerts are listed: each is in one group, a group has one entity and no gap longer
\* than the window, begins with its earliest alert, and two groups of one entity are further
\* apart than the window.
GroupsAreChains ==
    \A list \in SetToSeqs(Raised) :
        LET groups == AlertGroups(list) IN
        /\ \A a \in Raised : Cardinality({g \in groups : a \in Range(g)}) = 1
        /\ \A g \in groups : \A i \in DOMAIN g : i > 1 =>
              /\ entity[g[i]] = entity[g[1]]
              /\ Apart(g[i - 1], g[i]) \in 0 .. Window
        /\ \A g, h \in groups : g # h /\ entity[g[1]] = entity[h[1]] =>
              \A a \in Range(g), b \in Range(h) : Apart(a, b) \notin -Window .. Window

\* The quiet hours are those from the start hour on round the clock to the end hour, over midnight
\* or not, and none if the two are the same.
QuietIsAnInterval ==
    \A start, end, hour \in 0 .. 23 :
        Quiet(start, end, hour) <=> \E k \in 0 .. ((end - start) % 24) - 1 : hour = (start + k) % 24

\* Wherever the index stands, any stretch of as many periods as there are members has each of
\* them on call once, and the call changes hands only at the end of a period.
OnCallTakesTurns ==
    \A members \in 1 .. 4, index \in 0 .. 5, day \in 0 .. 30, weekly \in BOOLEAN :
        LET length == IF weekly THEN 7 ELSE 1
            who(d) == OnCall(index, Period(weekly, d), members)
        IN  /\ {who(day + length * k) : k \in 0 .. members - 1} = 0 .. members - 1
            /\ (day + 1) % length # 0 => who(day + 1) = who(day)

\* Together: what an alert is due depends on the time alone.
AlertsFollowTime ==
    EscalationOnlyClimbs /\ SlaFiguresAgree /\ GroupsAreChains /\ QuietIsAnInterval /\ OnCallTakesTurns
================================================================================
