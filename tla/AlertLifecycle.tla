--------------------------- MODULE AlertLifecycle ---------------------------
(***************************************************************************)
(* From a firing to a resolved alert: the create_alert worker task, the    *)
(* AlertService it shares with the API, and the alerts table under it.     *)
(*                                                                         *)
(* Sessions are READ COMMITTED and every service call is one transaction:  *)
(* a read, then (an await later) a flush and a commit.  A read and the     *)
(* commit that follows it are therefore two steps, and other transactions  *)
(* come between.  The queue runs a job at least once: a worker that dies   *)
(* leaves the job to be run again, a job that raises is not run again.     *)
(***************************************************************************)
EXTENDS Naturals, Sequences

CONSTANTS
    Jobs,         \* create_alert jobs, one per firing of a rule
    Firing,       \* Firing[j]: the rule, entity and window of job j's payload
    Acks,         \* acknowledge calls of the API ...
    User,         \* ... and User[a], who makes call a
    Resolves,     \* resolve calls of the API
    MaxTries,     \* arq's max_tries: starts of one job
    Nobody,       \* acknowledged_by IS NULL
    NoWindow      \* evaluation_window is None

Calls == Acks \cup Resolves

ASSUME LifecycleAssumption ==
    /\ Acks \cap Resolves = {}
    /\ MaxTries \in Nat \ {0}
    /\ \A a \in Acks : User[a] # Nobody

VARIABLES
    alerts,    \* the alerts table, in commit order; an alert's id is its index
    notices,   \* send_notification jobs enqueued: the alert, and which start of which job did it
    job,       \* job[j]: phase and starts of create_alert job j
    call       \* call[c]: phase, alert and what the transaction read of it

vars == <<alerts, notices, job, call>>

Ids == 1..Len(alerts)

KeyIgnoringEntity(f) == [rule |-> f.rule, entity |-> "any", window |-> 0]

\* The dedup key: tenant (one here), rule, entity id and window; no window counts as 0.
\* The entity's type is not part of it.
DedupKey(f) ==
    [rule |-> f.rule, entity |-> f.entity, window |-> IF f.window = NoWindow THEN 0 ELSE f.window]

Key(j) == DedupKey(Firing[j])

WithKey(k) == {i \in Ids : alerts[i].key = k}

HasActive(k) == \E i \in WithKey(k) : alerts[i].status = "active"

Statuses == {"active", "acknowledged", "resolved"}

JobPhases == {"queued", "running", "checked", "inserted", "created", "suppressed",
              "conflict", "failed", "unnotified", "exhausted"}

\* Phases after which arq does not run the job again.
Ended == {"created", "suppressed", "conflict", "failed", "unnotified", "exhausted"}

\* A call that holds nothing read from a row.
Bare(phase, id) == [phase |-> phase, id |-> id, seen |-> "active", by |-> Nobody]

Init ==
    /\ alerts = <<>>
    /\ notices = {}
    /\ job = [j \in Jobs |-> [phase |-> "queued", starts |-> 0, id |-> 0]]
    /\ call = [c \in Calls |-> Bare("idle", 0)]

------------------------------------------------------------------------------
(* The create_alert job. *)

At(j, phases) == job[j].phase \in phases

Goes(j, phase, id) == job' = [job EXCEPT ![j] = [phase |-> phase, starts |-> @.starts, id |-> id]]

\* arq keeps no count of a finished job's starts.
Ends(j, phase) == job' = [job EXCEPT ![j] = [phase |-> phase, starts |-> 0, id |-> 0]]

\* A worker starts the job, unless it has been started max_tries times already.
StartJob(j) ==
    /\ At(j, {"queued"})
    /\ IF job[j].starts < MaxTries
         THEN job' = [job EXCEPT ![j] = [phase |-> "running", starts |-> @.starts + 1, id |-> 0]]
         ELSE Ends(j, "exhausted")
    /\ UNCHANGED <<alerts, notices, call>>

\* A payload without a field the task indexes, or the database refusing the
\* read or the write: the job raises and is not run again.
JobFails(j) ==
    /\ At(j, {"running", "checked"})
    /\ Ends(j, "failed")
    /\ UNCHANGED <<alerts, notices, call>>

\* AlertService.create_alert reads: an active alert with the key suppresses this one.
CheckDuplicate(j) ==
    /\ At(j, {"running"})
    /\ IF HasActive(Key(j)) THEN Ends(j, "suppressed") ELSE Goes(j, "checked", 0)
    /\ UNCHANGED <<alerts, notices, call>>

NewAlert(j) == [key |-> Key(j), status |-> "active", by |-> Nobody, stamped |-> FALSE]

NeverViolated(k) == FALSE

\* uq_alerts_tenant_dedup: one row per key, whatever its status.
ViolatesUnique(k) == WithKey(k) # {}

FetchesExisting(j) == Goes(j, "inserted", CHOOSE i \in WithKey(Key(j)) : TRUE)

\* IntegrityError is not caught: it ends the job.
RaisesConflict(j) == Ends(j, "conflict")

\* The INSERT and its commit.
InsertAlert(j) ==
    /\ At(j, {"checked"})
    /\ IF ViolatesUnique(Key(j))
         THEN /\ RaisesConflict(j)
              /\ UNCHANGED alerts
         ELSE /\ Goes(j, "inserted", Len(alerts) + 1)
              /\ alerts' = Append(alerts, NewAlert(j))
    /\ UNCHANGED <<notices, call>>

Enqueue(j) == notices' = notices \cup {[alert |-> job[j].id, job |-> j, start |-> job[j].starts]}

\* The notification is enqueued after the commit, in Redis; an error there fails
\* the job although the alert exists.
Notify(j) ==
    /\ At(j, {"inserted"})
    /\ \/ Ends(j, "created") /\ Enqueue(j)
       \/ Ends(j, "unnotified") /\ UNCHANGED notices
    /\ UNCHANGED <<alerts, call>>

LostWithWorker(j) == "lost"

\* What is left of an interrupted job is its payload: it starts from the beginning.
AfterCrash(j) == "queued"

\* The worker dies under the job (or is shut down), with the notification
\* already enqueued or not: arq will run the job again.
WorkerDies(j) ==
    /\ At(j, {"running", "checked", "inserted"})
    /\ Goes(j, AfterCrash(j), 0)
    /\ \/ UNCHANGED notices
       \/ At(j, {"inserted"}) /\ Enqueue(j)
    /\ UNCHANGED <<alerts, call>>

------------------------------------------------------------------------------
(* The API's acknowledge and resolve. *)

\* _load_alert: any alert the tenant can name (an unknown one is a 404).
LoadAlert(c) ==
    /\ call[c].phase = "idle"
    /\ \E i \in Ids :
         call' = [call EXCEPT ![c] = [phase |-> "loaded", id |-> i,
                                      seen |-> alerts[i].status, by |-> alerts[i].by]]
    /\ UNCHANGED <<alerts, notices, job>>

\* The session's flush writes the columns whose value differs from the one loaded.
Written(want, seen, current) == IF want = seen THEN current ELSE want

Acknowledged(row, seen, u) ==
    [row EXCEPT !.status = Written("acknowledged", seen.seen, @),
                !.by = Written(u, seen.by, @)]

ResolvedWholeRow(row, seen) ==
    [row EXCEPT !.status = "resolved", !.by = seen.by, !.stamped = TRUE]

\* resolved_at is a new time, so it is always written.
Resolved(row, seen) ==
    [row EXCEPT !.status = Written("resolved", seen.seen, @), !.stamped = TRUE]

\* No status is refused, on the row loaded or on the row at commit.
CommitCall(c) ==
    /\ call[c].phase = "loaded"
    /\ alerts' = [alerts EXCEPT ![call[c].id] =
                    IF c \in Acks THEN Acknowledged(@, call[c], User[c])
                                  ELSE Resolved(@, call[c])]
    /\ call' = [call EXCEPT ![c] = Bare("done", call[c].id)]
    /\ UNCHANGED <<notices, job>>

------------------------------------------------------------------------------
JobStep(j) ==
    \/ StartJob(j) \/ JobFails(j) \/ CheckDuplicate(j) \/ InsertAlert(j) \/ Notify(j)

Terminated ==
    /\ \A j \in Jobs : job[j].phase \in Ended
    /\ UNCHANGED vars

Next ==
    \/ \E j \in Jobs : JobStep(j) \/ WorkerDies(j)
    \/ \E c \in Calls : LoadAlert(c) \/ CommitCall(c)
    \/ Terminated

Spec == Init /\ [][Next]_vars

\* Some worker is always polling the queue, so a queued or running job goes on;
\* nothing makes an operator acknowledge or resolve.
FairSpec == Spec /\ \A j \in Jobs : WF_vars(JobStep(j))

------------------------------------------------------------------------------
(* Properties. *)

TypeOK ==
    /\ alerts \in Seq([key : {Key(j) : j \in Jobs}, status : Statuses,
                       by : {User[a] : a \in Acks} \cup {Nobody}, stamped : BOOLEAN])
    /\ notices \subseteq [alert : Nat, job : Jobs, start : 0..MaxTries]
    /\ job \in [Jobs -> [phase : JobPhases, starts : 0..MaxTries, id : Nat]]
    /\ call \in [Calls -> [phase : {"idle", "loaded", "done"}, id : Nat, seen : Statuses,
                           by : {User[a] : a \in Acks} \cup {Nobody}]]

\* However the check of one job and the insert of another interleave, an incident
\* (rule, entity, window) has at most one alert (create_alert, uq_alerts_tenant_dedup).
OneAlertPerKey == \A i, k \in Ids : alerts[i].key = alerts[k].key => i = k

\* A firing is not dropped by the deduplication: a job that ended as created,
\* suppressed, conflicting or not notified leaves an alert of its own rule and
\* entity in the table (create_alert, DedupKey).
EndedIsOnRecord ==
    \A j \in Jobs : job[j].phase \in {"created", "suppressed", "conflict", "unnotified"} =>
        \E i \in Ids : alerts[i].key.rule = Firing[j].rule /\ alerts[i].key.entity = Firing[j].entity

\* Jobs are run at least once, alerts are announced at most once: a re-run never
\* enqueues a second notification for the same alert (create_alert in tasks/alerts.py).
NotifiedAtMostOnce == \A m, n \in notices : m.alert = n.alert => m = n

\* Acknowledge and resolve calls that load the same row before either commits do
\* not undo each other: every call that returned has left its attribution or its
\* time on the alert, and the status never says what the columns do not
\* (acknowledge_alert, resolve_alert: each flush writes only what it changed).
CallsTakeEffect ==
    /\ \A c \in Calls : call[c].phase = "done" =>
          IF c \in Acks THEN alerts[call[c].id].by # Nobody ELSE alerts[call[c].id].stamped
    /\ \A i \in Ids :
          /\ alerts[i].status = "resolved" => alerts[i].stamped
          /\ alerts[i].status = "acknowledged" => alerts[i].by # Nobody

\* A firing is never forgotten although workers die under its job: it comes to an
\* alert of its incident, or its job ends as failed or out of tries, which arq records.
FiringAnswered ==
    \A j \in Jobs : <>(WithKey(Key(j)) # {} \/ job[j].phase \in {"failed", "exhausted"})

(***************************************************************************)
(* "If an active alert with the same key already exists the call returns   *)
(* None" (alert_service.py:39-40): only an active alert stands in the way  *)
(* of a new one.                                                           *)
(***************************************************************************)
OnlyActiveSuppresses ==
    [][\A j \in Jobs : job[j].phase = "checked" /\ job'[j].phase = "conflict"
            => HasActive(Key(j))]_vars

(***************************************************************************)
(* "If a duplicate is found the alert is suppressed.  Otherwise, persists  *)
(* a new alert and enqueues a notification task" (tasks/alerts.py:18-20):  *)
(* when every job has returned one of those two answers, every alert has   *)
(* been announced.                                                         *)
(***************************************************************************)
AlertsNotified ==
    (\A j \in Jobs : job[j].phase \in {"created", "suppressed"}) =>
        \A i \in Ids : \E n \in notices : n.alert = i

==============================================================================
