------------------------------- MODULE Workflow -------------------------------
(***************************************************************************)
(* WorkflowEngine.execute_workflow, packages/workflows/engine.py, and the  *)
(* workflows of templates.py.                                              *)
(*                                                                         *)
(* One execution: the steps one after the other, each under its timeout.   *)
(* Of the handlers only api_call reaches beyond the process: the other     *)
(* side may act on its request before or after the engine has given up on  *)
(* it, which is kept in landed.  The record of an execution is in memory,  *)
(* and a process that dies leaves none and starts nothing again.           *)
(***************************************************************************)
EXTENDS Integers, Sequences, FiniteSets

CONSTANT
    Workflows   \* the workflows that are executed, sequences of steps

\* What a step's condition says of the trigger data or of the last result.
Conditions == {"none", "trigger_met", "trigger_not_met", "trigger_unknown", "last_succeeded", "last_failed"}

\* wait is how long the handler waits of its own accord, in seconds; sound is whether it can
\* use its config at all.
Steps == [type : {"notify", "api_call", "approve", "delay", "ai_analyze", "unknown"},
          timeout : Nat \ {0}, wait : Nat, condition : Conditions, abort : BOOLEAN, sound : BOOLEAN]

ASSUME WorkflowsAssumption == Workflows \subseteq Seq(Steps)

VARIABLES
    workflow,   \* the one executed
    next,       \* enumerate's index, of the step to come or in progress
    awaiting,   \* whether its handler is suspended
    results,    \* execution.results: "success", "failure" or "skipped"
    lastRuns,   \* context["step_results"]: whether each step that was run succeeded
    outcome,    \* execution.status, or "lost" with the process
    requested,  \* steps whose request is on its way
    landed      \* steps whose request the other side has acted on

workflowVars == <<workflow, next, awaiting, results, lastRuns, outcome, requested, landed>>

WorkflowInit ==
    /\ workflow \in Workflows
    /\ next = 1 /\ awaiting = FALSE
    /\ results = <<>> /\ lastRuns = <<>>
    /\ outcome = "running"
    /\ requested = {} /\ landed = {}

------------------------------------------------------------------------------
(* The workflows of templates.py. *)

TemplateStep(type, timeout, wait, condition) ==
    [type |-> type, timeout |-> timeout, wait |-> wait, condition |-> condition, abort |-> FALSE, sound |-> TRUE]

Plain(type, timeout) == TemplateStep(type, timeout, 0, "none")

CriticalAlert ==
    <<Plain("notify", 30), Plain("notify", 30), TemplateStep("delay", 960, 900, "none"),
      TemplateStep("notify", 30, 0, "trigger_met")>>

SlaBreach ==
    <<Plain("ai_analyze", 60), Plain("notify", 30), Plain("api_call", 30), Plain("notify", 30)>>

MaintenanceDue ==
    <<Plain("api_call", 30), Plain("notify", 30), TemplateStep("delay", 90000, 5, "none"), Plain("api_call", 30)>>

Templates == {CriticalAlert, SlaBreach, MaintenanceDue}

------------------------------------------------------------------------------
Step == workflow[next]

\* _evaluate_condition.  A key the trigger lacks, and the last result before there is one,
\* count as met.
ConditionMet ==
    CASE Step.condition = "trigger_not_met" -> FALSE
      [] Step.condition \in {"last_succeeded", "last_failed"} ->
            lastRuns # <<>> => lastRuns[Len(lastRuns)] = (Step.condition = "last_succeeded")
      [] OTHER -> TRUE

Ready == outcome = "running" /\ ~awaiting /\ next <= Len(workflow)

CountsSkipped == lastRuns' = Append(lastRuns, TRUE)

LeavesSkippedOut == UNCHANGED lastRuns

SkipStep ==
    /\ Ready /\ ~ConditionMet
    /\ results' = Append(results, "skipped")
    /\ LeavesSkippedOut
    /\ next' = next + 1
    /\ UNCHANGED <<workflow, awaiting, outcome, requested, landed>>

Aborts(success) == ~success /\ Step.abort

\* The result of a step, and the end of the workflow if it is one to abort on.
Record(success) ==
    /\ results' = Append(results, IF success THEN "success" ELSE "failure")
    /\ lastRuns' = Append(lastRuns, success)
    /\ awaiting' = FALSE
    /\ outcome' = IF Aborts(success) THEN "failed" ELSE outcome
    /\ next' = IF Aborts(success) THEN next ELSE next + 1

\* An unknown type fails before anything is tried, an unusable config in the handler, and
\* notify and ai_analyze, which only compute, end without having been suspended.
RunAtOnce ==
    /\ Ready /\ ConditionMet
    /\ Step.type \in {"unknown", "notify", "ai_analyze"} \/ ~Step.sound
    /\ Record(Step.type # "unknown" /\ Step.sound)
    /\ UNCHANGED <<workflow, requested, landed>>

BeginWait ==
    /\ Ready /\ ConditionMet
    /\ Step.type \in {"approve", "delay", "api_call"} /\ Step.sound
    /\ awaiting' = TRUE
    /\ requested' = IF Step.type = "api_call" THEN requested \cup {next} ELSE requested
    /\ UNCHANGED <<workflow, next, results, lastRuns, outcome, landed>>

\* The sleep ends, or wait_for's timeout comes first.
WaitEnds ==
    /\ awaiting /\ outcome = "running" /\ Step.type # "api_call"
    /\ \/ Step.wait <= Step.timeout /\ Record(TRUE)
       \/ Step.timeout <= Step.wait /\ Record(FALSE)
    /\ UNCHANGED <<workflow, requested, landed>>

ReplyToTheCall == next \in landed

\* Any reply is a success, whatever its status code.
CallReturns ==
    /\ awaiting /\ outcome = "running" /\ Step.type = "api_call"
    /\ ReplyToTheCall
    /\ Record(TRUE)
    /\ UNCHANGED <<workflow, requested, landed>>

\* An error, httpx's timeout or wait_for's: the request may have been acted on, or still be.
CallFailsOrTimesOut ==
    /\ awaiting /\ outcome = "running" /\ Step.type = "api_call"
    /\ Record(FALSE)
    /\ UNCHANGED <<workflow, requested, landed>>

CompleteWorkflow ==
    /\ outcome = "running" /\ next > Len(workflow)
    /\ outcome' = "completed"
    /\ UNCHANGED <<workflow, next, awaiting, results, lastRuns, requested, landed>>

\* The other side acts on a request, or it never gets there.
RequestLands(k) ==
    /\ k \in requested
    /\ requested' = requested \ {k}
    /\ landed' = landed \cup {k}
    /\ UNCHANGED <<workflow, next, awaiting, results, lastRuns, outcome>>

RequestIsLost(k) ==
    /\ k \in requested
    /\ requested' = requested \ {k}
    /\ UNCHANGED <<workflow, next, awaiting, results, lastRuns, outcome, landed>>

\* The process is stopped with the execution's task in it.
EngineDies ==
    /\ outcome = "running"
    /\ outcome' = "lost"
    /\ UNCHANGED <<workflow, next, awaiting, results, lastRuns, requested, landed>>

EngineStep ==
    SkipStep \/ RunAtOnce \/ BeginWait \/ WaitEnds \/ CallReturns \/ CallFailsOrTimesOut \/ CompleteWorkflow

WorkflowNext ==
    \/ EngineStep
    \/ \E k \in requested : RequestLands(k) \/ RequestIsLost(k)
    \/ EngineDies

WorkflowSpec == WorkflowInit /\ [][WorkflowNext]_workflowVars

------------------------------------------------------------------------------
(* Properties. *)

WorkflowTypeOK ==
    /\ workflow \in Workflows
    /\ next \in 1 .. Len(workflow) + 1
    /\ awaiting \in BOOLEAN
    /\ results \in Seq({"success", "failure", "skipped"}) /\ lastRuns \in Seq(BOOLEAN)
    /\ outcome \in {"running", "completed", "failed", "lost"}
    /\ requested \subseteq DOMAIN workflow /\ landed \subseteq DOMAIN workflow

Ran(k) == results[k] # "skipped"

\* execute_workflow gives every step one result in its place; it stops at the first failed step
\* with abort_on_failure, and only there, and a completed workflow has gone through all of
\* its steps.
StepsAccountedFor ==
    /\ outcome # "failed" => Len(results) = next - 1
    /\ outcome = "completed" => Len(results) = Len(workflow)
    /\ \A k \in DOMAIN results : results[k] = "failure" /\ workflow[k].abort => k = Len(results) /\ outcome = "failed"
    /\ outcome = "failed" => /\ results # <<>>
                             /\ results[Len(results)] = "failure" /\ workflow[Len(results)].abort

\* A condition on steps[-1] is about the last step that was run: a step to be taken on failure
\* is taken if that one failed, however many steps were skipped since, and not otherwise.
ConditionsSeeTheLastRun ==
    \A k \in DOMAIN results : workflow[k].condition \in {"last_succeeded", "last_failed"} =>
        LET earlier == {j \in 1 .. k - 1 : Ran(j)} IN
        Ran(k) <=> \/ earlier = {}
                   \/ \E j \in earlier :
                        /\ \A i \in earlier : i <= j
                        /\ (results[j] = "success") = (workflow[k].condition = "last_succeeded")

\* What the record says of an outside call can be relied on one way only: a call reported as a
\* success was acted on, and a step that was skipped or never reached was not; one
\* reported as failed may have been (the timeout of engine.py:208 comes after the request).
RecordOfCalls ==
    /\ \A k \in DOMAIN results :
        /\ results[k] = "success" /\ workflow[k].type = "api_call" => k \in landed
        /\ k \in landed \cup requested => Ran(k) /\ workflow[k].type = "api_call"
    /\ \A k \in landed \cup requested : k <= Len(results) + 1

\* No template is cut short: the waiting steps are within their timeouts, so that the escalation
\* of a critical alert that follows the wait is always sent.
TemplatesRunThrough ==
    workflow \in Templates =>
        /\ outcome # "failed"
        /\ \A k \in DOMAIN results : results[k] # "success" => workflow[k].type = "api_call"

\* Together: the record of an execution can be read back, in what it says of its steps, of the
\* conditions they were under, and of the world outside.
WorkflowRecord == StepsAccountedFor /\ ConditionsSeeTheLastRun /\ RecordOfCalls /\ TemplatesRunThrough
================================================================================
