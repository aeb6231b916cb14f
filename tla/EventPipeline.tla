---------------------------- MODULE EventPipeline ----------------------------
(***************************************************************************)
(* From an upload to the alert jobs it causes: POST /events and            *)
(* /events/batch, the events table, the process_event worker task with its *)
(* EventProcessor and RuleEvaluator, and the worker process they run in.   *)
(*                                                                         *)
(* An upload is stored in one transaction and only then queued, event by   *)
(* event, in Redis.  process_event awaits between its reads, its stream    *)
(* append and each create_alert it enqueues; up to max_jobs of them run in *)
(* one worker process, which also holds the session factory they share.    *)
(* The module level factory is made by the embedding tasks alone, and a    *)
(* process started anew has none.                                          *)
(***************************************************************************)
EXTENDS Naturals, Sequences

CONSTANTS
    Uploads,      \* calls of the two ingestion endpoints
    Items,        \* Items[u]: the rows of upload u, in order
    Rules,        \* event-triggered rules
    Matches,      \* Matches[e]: rules whose trigger and condition event e meets
    Broken,       \* rules whose condition raises ExpressionValidationError
    MaxTries,     \* arq's max_tries
    MaxEdits      \* bound on the rules edited

RowsOf(u) == {Items[u][i] : i \in DOMAIN Items[u]}

Events == UNION {RowsOf(u) : u \in Uploads}

ASSUME PipelineAssumption ==
    /\ \A u \in Uploads : Items[u] \in Seq(Events)
    /\ \A u \in Uploads : \A m, n \in DOMAIN Items[u] : Items[u][m] = Items[u][n] => m = n
    /\ \A u, v \in Uploads : u # v => RowsOf(u) \cap RowsOf(v) = {}
    /\ \A e \in Events : Matches[e] \subseteq Rules
    /\ Broken \subseteq Rules
    /\ MaxTries \in Nat \ {0}
    /\ MaxEdits \in Nat

VARIABLES
    table,     \* the events table: rows committed
    upload,    \* upload[u]: where its handler is, and the next row to queue
    job,       \* job[e]: e's process_event job, its starts and the alerts it has yet to queue
    ready,     \* the worker process has a session factory
    stream,    \* events with an entry in the tenant's Redis stream (one or, run again, more)
    alertJobs, \* create_alert jobs queued: event and rule (queued again by a later start or not)
    dropped,   \* ... and those whose enqueue raised
    enabled,   \* rules with enabled = true
    wasOn,     \* wasOn[e]: rules enabled at some time since e was stored ...
    stayedOn,  \* ... and stayedOn[e]: at all times since
    edits      \* rules edited so far

vars == <<table, upload, job, ready, stream, alertJobs, dropped, enabled, wasOn, stayedOn, edits>>

apiVars == <<table, upload, wasOn, stayedOn>>
ruleVars == <<enabled, edits>>
outVars == <<stream, alertJobs, dropped>>

UploadPhases == {"new", "queueing", "answered", "refused", "broken"}
Active == {"running", "streamed", "firing"}
Ended == {"processed", "notfound", "nosession", "failed", "exhausted"}
JobPhases == {"none", "queued"} \cup Active \cup Ended

Init ==
    /\ table = {}
    /\ upload = [u \in Uploads |-> [phase |-> "new", next |-> 1]]
    /\ job = [e \in Events |-> [phase |-> "none", starts |-> 0, todo |-> {}]]
    /\ ready = FALSE
    /\ stream = {}
    /\ alertJobs = {}
    /\ dropped = {}
    /\ enabled \in SUBSET Rules
    /\ wasOn = [e \in Events |-> {}]
    /\ stayedOn = [e \in Events |-> {}]
    /\ edits = 0

------------------------------------------------------------------------------
(* The ingestion endpoints. *)

At(u, phase) == upload[u].phase = phase

StoresNothing(u) == table

Stores(u) == table \cup RowsOf(u)

\* add_all and one commit: every row, or none.
Commit(u) ==
    /\ At(u, "new")
    /\ \/ /\ table' = Stores(u)
          /\ wasOn' = [e \in Events |-> IF e \in RowsOf(u) THEN enabled ELSE wasOn[e]]
          /\ stayedOn' = [e \in Events |-> IF e \in RowsOf(u) THEN enabled ELSE stayedOn[e]]
          /\ upload' = [upload EXCEPT ![u] = [phase |-> "queueing", next |-> 1]]
       \/ /\ upload' = [upload EXCEPT ![u] = [phase |-> "refused", next |-> 1]]
          /\ UNCHANGED <<table, wasOn, stayedOn>>
    /\ UNCHANGED <<job, ready, outVars, ruleVars>>

QueuesAllButLast(u) == upload[u].next < Len(Items[u])

HasMore(u) == upload[u].next <= Len(Items[u])

\* enqueue_job for the next row.
EnqueueNext(u) ==
    /\ At(u, "queueing") /\ HasMore(u)
    /\ upload' = [upload EXCEPT ![u] = [phase |-> "queueing", next |-> @.next + 1]]
    /\ job' = [job EXCEPT ![Items[u][upload[u].next]] =
                    [phase |-> "queued", starts |-> 0, todo |-> {}]]
    /\ UNCHANGED <<table, wasOn, stayedOn, ready, outVars, ruleVars>>

\* Redis refuses: the loop is left, with a warning in the log.  (Or the API
\* process dies here: nothing remembers the rows not queued.)
EnqueueFails(u) ==
    /\ At(u, "queueing") /\ HasMore(u)
    /\ upload' = [upload EXCEPT ![u] = [phase |-> "broken", next |-> @.next]]
    /\ UNCHANGED <<table, wasOn, stayedOn, job, ready, outVars, ruleVars>>

\* The handler is done with the queue and answers.
Answer(u) ==
    /\ At(u, "queueing") /\ ~HasMore(u)
    /\ upload' = [upload EXCEPT ![u] = [phase |-> "answered", next |-> @.next]]
    /\ UNCHANGED <<table, wasOn, stayedOn, job, ready, outVars, ruleVars>>

------------------------------------------------------------------------------
(* The process_event job of event e. *)

Goes(e, phase, todo) ==
    job' = [job EXCEPT ![e] = [phase |-> phase, starts |-> @.starts, todo |-> todo]]

\* arq keeps no count of a finished job's starts.
Ends(e, phase) == job' = [job EXCEPT ![e] = [phase |-> phase, starts |-> 0, todo |-> {}]]

In(e, phases) == job[e].phase \in phases

HasOneTooMany(e) == job[e].starts <= MaxTries

HasTries(e) == job[e].starts < MaxTries

\* get_async_session raises in a process that has no session factory.
Start(e) ==
    /\ In(e, {"queued"})
    /\ \/ /\ HasTries(e) /\ ready
          /\ job' = [job EXCEPT ![e] = [phase |-> "running", starts |-> @.starts + 1, todo |-> {}]]
       \/ /\ HasTries(e) /\ ~ready
          /\ Ends(e, "nosession")
       \/ /\ ~HasTries(e)
          /\ Ends(e, "exhausted")
    /\ UNCHANGED <<apiVars, ready, outVars, ruleVars>>

\* Steps 1 and 2 (nothing else touches the row, or reads the stream, in between): load
\* the row, append it to the stream; a failed append is only logged.
LoadAndAppend(e) ==
    /\ In(e, {"running"})
    /\ \/ /\ e \in table
          /\ Goes(e, "streamed", {})
          /\ \/ stream' = stream \cup {e}
             \/ UNCHANGED stream
       \/ /\ e \notin table
          /\ Ends(e, "notfound")
          /\ UNCHANGED stream
    /\ UNCHANGED <<apiVars, ready, alertJobs, dropped, ruleVars>>

\* The first expression that raises ends the evaluation.
StopsAtBroken(e) == IF enabled \cap Broken # {} THEN {} ELSE enabled \cap Matches[e]

IgnoresEnabled(e) == Matches[e] \ Broken

\* evaluate_event_rules: the enabled rules of the trigger whose condition holds; one
\* that raises is skipped.
Triggered(e) == (enabled \cap Matches[e]) \ Broken

\* Steps 3 and 4.
Evaluate(e) ==
    /\ In(e, {"streamed"})
    /\ Goes(e, "firing", Triggered(e))
    /\ UNCHANGED <<apiVars, ready, outVars, ruleVars>>

Firing(e, r) == [event |-> e, rule |-> r]

\* Step 5, one rule: its create_alert is queued, or raises and is logged, or raises
\* in pool.close() after it was queued.
FireNext(e) ==
    /\ In(e, {"firing"})
    /\ \E r \in job[e].todo :
         /\ Goes(e, "firing", job[e].todo \ {r})
         /\ \/ alertJobs' = alertJobs \cup {Firing(e, r)} /\ UNCHANGED dropped
            \/ dropped' = dropped \cup {Firing(e, r)} /\ UNCHANGED alertJobs
            \/ /\ alertJobs' = alertJobs \cup {Firing(e, r)}
               /\ dropped' = dropped \cup {Firing(e, r)}
    /\ UNCHANGED <<apiVars, ready, stream, ruleVars>>

Finish(e) ==
    /\ In(e, {"firing"}) /\ job[e].todo = {}
    /\ Ends(e, "processed")
    /\ UNCHANGED <<apiVars, ready, outVars, ruleVars>>

\* A database error in a read, or job_timeout at any await: arq does not run it again.
Fail(e) ==
    /\ In(e, Active)
    /\ Ends(e, "failed")
    /\ UNCHANGED <<apiVars, ready, outVars, ruleVars>>

------------------------------------------------------------------------------
(* The worker process and the rules. *)

\* generate_embeddings or reindex_document calls init_db, for its whole process.
EmbeddingTask ==
    /\ ~ready
    /\ ready' = TRUE
    /\ UNCHANGED <<apiVars, job, outVars, ruleVars>>

LosesJob(e) == "none"

\* arq runs an interrupted job from the start.
AfterRestart(e) == "queued"

\* The worker dies, under any of its jobs or none, and is started again.
RestartWorker ==
    /\ ready
    /\ ready' = FALSE
    /\ job' = [e \in Events |->
                 IF In(e, Active)
                   THEN [phase |-> AfterRestart(e), starts |-> job[e].starts, todo |-> {}]
                   ELSE job[e]]
    /\ UNCHANGED <<apiVars, outVars, ruleVars>>

\* PATCH /rules/{id} with enabled, or DELETE (which only disables).
EditRule(r) ==
    /\ edits < MaxEdits
    /\ edits' = edits + 1
    /\ enabled' = IF r \in enabled THEN enabled \ {r} ELSE enabled \cup {r}
    /\ wasOn' = [e \in Events |-> IF e \in table THEN wasOn[e] \cup enabled' ELSE wasOn[e]]
    /\ stayedOn' = [e \in Events |-> stayedOn[e] \cap enabled']
    /\ UNCHANGED <<table, upload, job, ready, outVars>>

------------------------------------------------------------------------------
Handle(u) == Commit(u) \/ EnqueueNext(u) \/ EnqueueFails(u) \/ Answer(u)

Process(e) ==
    Start(e) \/ LoadAndAppend(e) \/ Evaluate(e) \/ FireNext(e) \/ Finish(e) \/ Fail(e)

Terminated ==
    /\ \A u \in Uploads : upload[u].phase \in {"answered", "refused", "broken"}
    /\ \A e \in Events : job[e].phase \in Ended \cup {"none"}
    /\ UNCHANGED vars

Next ==
    \/ \E u \in Uploads : Handle(u)
    \/ \E e \in Events : Process(e)
    \/ EmbeddingTask
    \/ RestartWorker
    \/ \E r \in Rules : EditRule(r)
    \/ Terminated

Spec == Init /\ [][Next]_vars

\* A worker polls the queue as long as it lives and is restarted when it dies, and
\* the event loop comes back to every job it awaits in.
FairSpec == Spec /\ \A e \in Events : WF_vars(Process(e))

------------------------------------------------------------------------------
(* Properties. *)

TypeOK ==
    /\ table \subseteq Events
    /\ upload \in [Uploads -> [phase : UploadPhases, next : Nat \ {0}]]
    /\ job \in [Events -> [phase : JobPhases, starts : 0..MaxTries, todo : SUBSET Rules]]
    /\ ready \in BOOLEAN
    /\ stream \subseteq Events
    /\ alertJobs \subseteq [event : Events, rule : Rules]
    /\ dropped \subseteq [event : Events, rule : Rules]
    /\ enabled \subseteq Rules
    /\ wasOn \in [Events -> SUBSET Rules]
    /\ stayedOn \in [Events -> SUBSET Rules]
    /\ edits \in 0..MaxEdits

\* A job is queued only for rows already committed, so process_event never runs
\* ahead of its row and never answers "Event not found" (ingest_event_batch: commit,
\* then enqueue; process_event: "Event not found").
RowsPrecedeJobs ==
    \A e \in Events : job[e].phase # "none" => e \in table /\ job[e].phase # "notfound"

\* An upload whose handler met no queue error has every one of its rows queued,
\* whatever the worker did meanwhile (the enqueue loop of ingest_event_batch).
AnsweredUploadsAreQueued ==
    \A u \in Uploads : upload[u].phase = "answered" =>
        \A e \in RowsOf(u) : e \in table /\ job[e].phase # "none"

\* One rule with a bad condition, or one enqueue that raises, does not hide the other
\* rules: a job that ended as processed has, for each rule that matched and was enabled
\* ever since the row was stored, queued an alert or logged the failure to
\* (evaluate_event_rules, EventProcessor.process_event).
RulesAreIndependent ==
    \A e \in Events : job[e].phase = "processed" =>
        \A r \in (Matches[e] \cap stayedOn[e]) \ Broken : Firing(e, r) \in alertJobs \cup dropped

\* A rule that has been off since before the event was stored never fires on it, nor
\* does one that does not match; however rules are edited while the job runs
\* (evaluate_event_rules: Rule.enabled.is_(True)).
DisabledRulesAreQuiet ==
    \A f \in alertJobs : f.rule \in wasOn[f.event] \cap Matches[f.event]

\* A queued event comes to an end whatever fails: it is processed, or arq records why not.
QueuedEventsSettle ==
    \A e \in Events : job[e].phase = "queued" ~> job[e].phase \in Ended

(***************************************************************************)
(* "Worker startup hook: initialize DB connections, logging, and shared    *)
(* resources." (workers/main.py:42): no process_event job is lost because  *)
(* its worker has no database session factory.                             *)
(***************************************************************************)
StartupInitialises == \A e \in Events : job[e].phase # "nosession"

\* What EventProcessor puts into a create_alert job, and what the task takes from it.
AlertPayload == {"rule_id", "rule_name", "severity", "action_type", "tenant_id", "event_id",
                 "event_type", "entity_type", "entity_id"}
AlertFields == {"tenant_id", "rule_id", "entity_type", "entity_id", "severity", "message"}

(***************************************************************************)
(* "alert_data: Alert payload including tenant_id, rule_id, entity_type,   *)
(* entity_id, severity, message, context, evaluation_window."              *)
(* (tasks/alerts.py:24-25): a create_alert job that is queued carries what *)
(* the task indexes.                                                       *)
(***************************************************************************)
AlertJobsAreComplete == \A f \in alertJobs : AlertFields \subseteq AlertPayload

==============================================================================
