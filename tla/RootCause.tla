------------------------------- MODULE RootCause -------------------------------
(***************************************************************************)
(* RootCauseAnalyzer.analyze, packages/intelligence/root_cause.py: the     *)
(* events of an alert's entity are read, and read again with those of the  *)
(* entities they name to score how near each is to the last; the signals   *)
(* of the first reading make the candidates.                               *)
(*                                                                         *)
(* Scores are in thousandths, to which the code rounds them; Decay is the  *)
(* exponential of the time between two events, in the same.                *)
(***************************************************************************)
EXTENDS Lists

CONSTANTS
    Affected,       \* the entity of the alert
    EventKinds,     \* what an event may be
    Decay,          \* Decay[d + 1]: temporal_score of two events d apart, up to the window
    Listed,         \* how many candidates the report has, 10 in the code
    LastHour,       \* bound: the last point of time
    MaxStory        \* bound: the number of events

\* is_anomaly is True, anomaly_score above 0, "error" or "fail" in the type, "status" in the payload.
Signals == {"flagged", "scored", "error", "status"}

ASSUME RootCauseAssumption ==
    /\ \A k \in EventKinds : k.signals \subseteq Signals /\ k.comparable \in BOOLEAN
    /\ Decay \in Seq(0 .. 1000) /\ Decay # <<>> /\ Decay[1] = 1000
    /\ \A i \in DOMAIN Decay : i > 1 => Decay[i] <= Decay[i - 1]
    /\ Listed \in Nat /\ LastHour \in Nat /\ MaxStory \in Nat

VARIABLES
    clock,      \* the time it is
    story,      \* the events in order: what they are, and the hour
    analysis,   \* where the analysis is: "loading", "loaded", "read", "reported", "failed" or "not found"
    entityRead, \* the events of entity_events, by their places in the story
    nearness,   \* corr_lookup: the correlation score of the events found by the second reading
    causes      \* probable_causes, by their places in the story

causesVars == <<clock, story, analysis, entityRead, nearness, causes>>

CausesInit ==
    /\ clock = 0 /\ story = <<>>
    /\ analysis = "loading"
    /\ entityRead = <<>> /\ nearness = <<>> /\ causes = <<>>

Horizon == Len(Decay) - 1

\* The events of some entities in the window, oldest first.
Of(entities) ==
    Ascending(Len(story), {i \in DOMAIN story : story[i].entity \in entities /\ story[i].hour >= clock - Horizon})

------------------------------------------------------------------------------
(* find_correlated_events *)

Reference == IF Of({Affected}) = <<>> THEN clock ELSE story[Last(Of({Affected}))].hour

RelatedEntities == UNION {story[i].related : i \in Range(Of({Affected}))}

Correlated == Range(Of({Affected} \cup RelatedEntities))

Capped(score) == IF score > 1000 THEN 1000 ELSE score

\* No two events of one window are further apart than the window.
Distance(i) == IF story[i].hour < Reference THEN Reference - story[i].hour ELSE story[i].hour - Reference

Bonus(i) == IF story[i].entity = Affected THEN 300 ELSE 100

Correlation(i) == Capped(Decay[Distance(i) + 1] + Bonus(i))

------------------------------------------------------------------------------
(* _identify_probable_causes *)

IsError(i) == "error" \in story[i].signals
HasAnomaly(i) == story[i].signals \cap {"flagged", "scored"} # {}
IsCandidate(i) == story[i].signals # {}

\* is_anomaly is looked at first, so that the score of a flagged event is never compared.
Raises(i) == ~story[i].comparable /\ "flagged" \notin story[i].signals

NewestFirst == Reverse(entityRead)

PositionFromOldest(i) == CHOOSE p \in DOMAIN entityRead : entityRead[p] = i

\* How many events of the entity are not older: idx + 1.
PositionOf(i) == CHOOSE p \in DOMAIN NewestFirst : NewestFirst[p] = i

CorrelationOf(i) == IF i \in DOMAIN nearness THEN nearness[i] ELSE 200

SignalBonus(i) == (IF IsError(i) THEN 250 ELSE 0) + (IF HasAnomaly(i) THEN 200 ELSE 0)

\* Rounded to a thousandth.
Confidence(i) ==
    LET n == Len(entityRead)
        tenths == 4000 * PositionOf(i) + n * (3 * CorrelationOf(i) + 10 * SignalBonus(i))
    IN  Capped((tenths + 5 * n) \div (10 * n))

\* Sorted by confidence: the sort is stable, so that of equals the newest comes first.
ByConfidence == Arranged([i \in {i \in Range(entityRead) : IsCandidate(i)} |-> <<-Confidence(i), -i>>])

ProbableCauses == SubSeq(ByConfidence, 1, IF Len(ByConfidence) < Listed THEN Len(ByConfidence) ELSE Listed)

------------------------------------------------------------------------------
EventOccurs(kind) ==
    /\ Len(story) < MaxStory
    /\ story' = Append(story, [entity |-> kind.entity, related |-> kind.related, signals |-> kind.signals,
                               comparable |-> kind.comparable, hour |-> clock])
    /\ UNCHANGED <<clock, analysis, entityRead, nearness, causes>>

HourPasses ==
    /\ clock < LastHour
    /\ clock' = clock + 1
    /\ UNCHANGED <<story, analysis, entityRead, nearness, causes>>

\* _load_alert and _load_rule; an alert that is not there raises.
LoadAlert ==
    /\ analysis = "loading"
    /\ analysis' \in {"loaded", "not found"}
    /\ UNCHANGED <<clock, story, entityRead, nearness, causes>>

ReadEntityEvents ==
    /\ analysis = "loaded"
    /\ entityRead' = Of({Affected})
    /\ analysis' = "read"
    /\ UNCHANGED <<clock, story, nearness, causes>>

\* The second reading and all that follows.  The related events are a query of their own, for the
\* same window: what comes before it is of no weight in the candidates.
Correlate ==
    /\ analysis = "read"
    /\ UNCHANGED <<clock, story, entityRead>>
    /\ nearness' = [i \in Correlated |-> Correlation(i)]
    /\ IF \E i \in Range(entityRead) : Raises(i)
         THEN analysis' = "failed" /\ causes' = causes
         ELSE analysis' = "reported" /\ causes' = ProbableCauses'

CausesNext ==
    \/ \E k \in EventKinds : EventOccurs(k)
    \/ HourPasses \/ LoadAlert \/ ReadEntityEvents \/ Correlate

CausesSpec == CausesInit /\ [][CausesNext]_causesVars

------------------------------------------------------------------------------
(* Properties. *)

CausesTypeOK ==
    /\ clock \in 0 .. LastHour
    /\ Len(story) <= MaxStory
    /\ analysis \in {"loading", "loaded", "read", "reported", "failed", "not found"}
    /\ Range(entityRead) \subseteq DOMAIN story
    /\ DOMAIN nearness \subseteq DOMAIN story /\ Range(nearness) \subseteq 0 .. 1000
    /\ Range(causes) \subseteq DOMAIN story /\ Len(causes) <= Listed

Candidates == {i \in Range(entityRead) : IsCandidate(i)}

Alike(i, j) == story[i].signals = story[j].signals

\* What the place of i makes up for: a place counts four tenths of its share of the events, and
\* nearness to the last event three tenths.
PlaceOutweighs(i, j) ==
    3 * Len(entityRead) * (CorrelationOf(j) - CorrelationOf(i)) <= 4000 * (PositionOf(i) - PositionOf(j))

\* Of two candidates with the same signals the one upstream is ahead only by its place: it has at
\* least the confidence of the other unless that one is nearer to the last event by more than the
\* place makes up for, and then the other has at least its own.  (So the earliest is not always
\* the likeliest, as root_cause.py:92 and 334 say it is; it is if three quarters of the entity's
\* events lie between the two, or if both are as near.)
UpstreamCounts ==
    \A i, j \in Candidates : i < j /\ Alike(i, j) =>
        /\ PlaceOutweighs(i, j) => Confidence(i) >= Confidence(j)
        /\ ~PlaceOutweighs(i, j) => Confidence(j) >= Confidence(i)
        /\ 4 * (PositionOf(i) - PositionOf(j)) >= 3 * Len(entityRead) => PlaceOutweighs(i, j)
        /\ CorrelationOf(i) = CorrelationOf(j) => PlaceOutweighs(i, j)

\* A mere change of status is never more likely a cause than an error or an anomaly that is
\* neither newer nor less near, and no such change is more than seven tenths certain.
SignalsOutweighStatus ==
    \A i, j \in Candidates :
        story[j].signals = {"status"} =>
            /\ Confidence(j) <= 700
            /\ (i <= j /\ story[i].signals # {"status"} /\ CorrelationOf(i) >= CorrelationOf(j))
                  => Confidence(i) >= Confidence(j)

\* The report is of the first reading alone, though the second may have seen more: an event that
\* came in between is no cause, and moves only the point the others are measured from.  An event
\* of the first reading is without a score of its own only if it left the window meanwhile.
ReadingsAgree ==
    analysis = "reported" =>
        /\ Range(causes) \subseteq Candidates
        /\ \A i \in Range(entityRead) \ DOMAIN nearness : story[i].hour < clock - Horizon
        /\ \A i, j \in DOMAIN nearness :
              story[i].hour = story[j].hour /\ story[i].entity = Affected => nearness[i] >= nearness[j]

\* What is left out of the report is no more likely than what is in it, and none is left out as
\* long as there is room.
NoLikelierLeftOut ==
    analysis = "reported" =>
        /\ \A i \in Candidates \ Range(causes), j \in Range(causes) : Confidence(i) <= Confidence(j)
        /\ Len(causes) < Listed => Range(causes) = Candidates

CausesAreSound ==
    analysis = "reported" => UpstreamCounts /\ SignalsOutweighStatus /\ ReadingsAgree /\ NoLikelierLeftOut
================================================================================
