------------------------------- MODULE Operations -------------------------------
(***************************************************************************)
(* The parts of the system that share no state with another, side by side: *)
(* each behaviour is one of one part, its subject, and the variables of    *)
(* the others keep their initial values.  The inputs of the two that are   *)
(* functions are grown by a piece at a time.                               *)
(***************************************************************************)
EXTENDS Workflow, Notifications, RateLimiter, Escalation, ContextAssembly, Anomalies, RootCause,
        Predictions

CONSTANTS
    Prompts,    \* the system prompts a context may begin with
    Messages,   \* what may be said in a session
    Chunks,     \* what a search may find
    Results,    \* what a tool may print
    LogEvents,  \* the events predictions are made from
    OpenAlerts, \* how many active alerts an entity may have
    MaxPieces,  \* bound: the number of messages and of chunks
    MaxLog      \* bound: the number of events

ASSUME OperationsAssumption ==
    /\ Prompts \subseteq Nat /\ Results \subseteq Nat /\ OpenAlerts \subseteq Nat
    /\ Messages \subseteq [system : BOOLEAN, text : Nat]
    /\ Chunks \subseteq [relevance : Int, text : Nat]
    /\ \A event \in LogEvents : EventOfLog(event)
    /\ MaxPieces \in Nat /\ MaxLog \in Nat

VARIABLES
    subject,    \* the part this behaviour is of
    material,   \* what is given to the context assembler
    eventLog,   \* the events the predictions are made from
    open        \* open[e]: the number of active alerts of entity e

operationsVars ==
    <<subject, material, eventLog, open, workflowVars, notificationVars, limiterVars, escalationVars,
      anomaliesVars, causesVars>>

------------------------------------------------------------------------------
Parts == {"workflow", "notification", "limiter", "escalation", "context", "anomaly", "cause", "prediction"}

LogEntities == {event.entity : event \in LogEvents}

Begin ==
    /\ WorkflowInit /\ (subject # "workflow" => workflow = <<>>)
    /\ NotificationsInit /\ (subject # "notification" => channels = <<>>)
    /\ LimiterInit /\ EscalationInit /\ AnomaliesInit /\ CausesInit
    /\ material \in [prompt : Prompts, messages : {<<>>}, chunks : {<<>>}, tools : {<<>>}]
    /\ eventLog = <<>>
    /\ open \in (IF subject = "prediction" THEN [LogEntities -> OpenAlerts] ELSE {[e \in LogEntities |-> 0]})

Init == subject \in Parts /\ Begin

Says ==
    /\ Len(material.messages) < MaxPieces
    /\ \E m \in Messages : material' = [material EXCEPT !.messages = Append(@, m)]

Finds ==
    /\ Len(material.chunks) < MaxPieces
    /\ \E c \in Chunks : material' = [material EXCEPT !.chunks = Append(@, c)]

Prints ==
    /\ material.tools = <<>>
    /\ \E r \in Results : material' = [material EXCEPT !.tools = Append(@, r)]

Happens ==
    /\ Len(eventLog) < MaxLog
    /\ \E event \in LogEvents : eventLog' = Append(eventLog, event)

Moves ==
    \/ subject = "context" /\ (Says \/ Finds \/ Prints)
    \/ subject = "workflow" /\ WorkflowNext
    \/ subject = "notification" /\ NotificationsNext
    \/ subject = "limiter" /\ LimiterNext
    \/ subject = "escalation" /\ EscalationNext
    \/ subject = "anomaly" /\ AnomaliesNext
    \/ subject = "cause" /\ CausesNext
    \/ subject = "prediction" /\ Happens

Next ==
    /\ Moves
    /\ subject # "context" => UNCHANGED material
    /\ subject # "workflow" => UNCHANGED workflowVars
    /\ subject # "notification" => UNCHANGED notificationVars
    /\ subject # "limiter" => UNCHANGED limiterVars
    /\ subject # "escalation" => UNCHANGED escalationVars
    /\ subject # "anomaly" => UNCHANGED anomaliesVars
    /\ subject # "cause" => UNCHANGED causesVars
    /\ subject # "prediction" => UNCHANGED eventLog
    /\ UNCHANGED <<subject, open>>

Spec == Init /\ [][Next]_operationsVars

------------------------------------------------------------------------------
(* Properties: those of the parts. *)

\* The state of every part is of its type.
TypeOK ==
    /\ WorkflowTypeOK /\ NotificationsTypeOK /\ LimiterTypeOK /\ EscalationTypeOK
    /\ AnomaliesTypeOK /\ CausesTypeOK

\* ContextAssembler.assemble keeps every section of the material within its share.
AssembledFits == subject = "context" => SectionsFit(material)

\* What AnomalyDetector, RootCauseAnalyzer and PredictiveEngine find follows from the events,
\* whatever comes in while they read.
FindingsAreSound == AnomaliesAreSound /\ CausesAreSound /\ PredictionsAreSound(eventLog, open)
================================================================================
