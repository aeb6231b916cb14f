------------------------------ MODULE EdgeAgent ------------------------------
(***************************************************************************)
(* The edge agent (apps/edge-agent): a process on the plant floor that     *)
(* queues events while the cloud is away and uploads them in batches.      *)
(*                                                                         *)
(* One process, one asyncio loop.  Everything between two awaits is one    *)
(* action; the awaits that suspend are the connectivity check, the POST    *)
(* and the waits of the shutdown.  Events are numbered in the order        *)
(* ingest_event accepted them.  The disk file, the cloud and the requests  *)
(* on the wire outlive the process.                                        *)
(***************************************************************************)
EXTENDS Naturals, Sequences, FiniteSets

CONSTANTS
    MaxEvents,     \* bound: events the equipment ever produces
    MaxQueueSize,  \* EdgeConfig.max_queue_size
    Poison,        \* events the cloud's schema rejects (a batch is all or nothing)
    Loop,          \* the background sync task
    Stops,         \* the stop() coroutines signal handlers may start in one life
    MaxRestarts,   \* bound: times the process ends and is started again
    Corrupt        \* a file json.loads refuses: truncated or half written

ASSUME EdgeAssumption ==
    /\ MaxEvents \in Nat
    /\ MaxQueueSize \in Nat \ {0}
    /\ MaxRestarts \in Nat
    /\ Loop \notin Stops
    /\ Corrupt \notin Seq(Nat)

Events == 1..MaxEvents
Tasks == {Loop} \cup Stops

VARIABLES
    up,        \* the process exists
    running,   \* self._running
    returned,  \* run() has returned: asyncio.run is cancelling what is left
    queue,     \* self._queue
    pc,        \* where each task is
    batch,     \* each task's local snapshot of the queue
    wire,      \* each task's last request, while the cloud has not handled it
    disk,      \* the file at offline_storage_path
    damaged,   \* history: a write of that file failed or was cut short
    accepted,  \* history: number of events ingest_event accepted
    evicted,   \* history: events dropped at capacity, each with a warning
    cloud,     \* events the cloud has committed
    restarts

process == <<up, running, returned>>
history == <<accepted, evicted>>
vars == <<process, queue, pc, batch, wire, disk, damaged, history, cloud, restarts>>

Elems(s) == {s[i] : i \in 1..Len(s)}

Phases == {"none", "sleep", "join", "check", "post", "flush", "cancelled", "done", "died"}
Suspended == {"check", "post"}      \* inside sync(), at an await

NoRequest == <<>>

------------------------------------------------------------------------------
(* The queue. *)

AdmitUnbounded(q, e) == Append(q, e)

AdmitKeepingOld(q, e) == IF Len(q) >= MaxQueueSize THEN q ELSE Append(q, e)

\* ingest_event: at capacity the oldest event makes room for the new one.
Admit(q, e) == IF Len(q) >= MaxQueueSize THEN Append(Tail(q), e) ELSE Append(q, e)

TrimOneTooMany(q, b) == SubSeq(q, Len(b) + 2, Len(q))

\* sync, on success: the first len(batch) events, whatever they now are.
Trim(q, b) == SubSeq(q, Len(b) + 1, Len(q))

(***************************************************************************)
(* _persist_queue rewrites the file in place and swallows every exception: *)
(* one before the file is opened leaves the old content, one after it      *)
(* leaves a file that does not parse.  (No path configured is the first    *)
(* failure, every time.)                                                   *)
(***************************************************************************)
Persist(q) ==
    \/ disk' = q /\ UNCHANGED damaged
    \/ disk' \in {disk, Corrupt} /\ damaged' = TRUE

\* _restore_queue: an unreadable file is an empty queue.
Restored == IF disk = Corrupt THEN <<>> ELSE disk

\* Where the accepted events are held: in memory, or on disk between two lives.
Buffer == IF up THEN queue ELSE Restored

------------------------------------------------------------------------------
Init ==
    /\ up = TRUE /\ running = TRUE /\ returned = FALSE
    /\ queue = <<>> /\ disk = <<>> /\ damaged = FALSE
    /\ pc = [t \in Tasks |-> IF t = Loop THEN "sleep" ELSE "none"]
    /\ batch = [t \in Tasks |-> <<>>]
    /\ wire = [t \in Tasks |-> NoRequest]
    /\ accepted = 0 /\ evicted = {} /\ cloud = {} /\ restarts = 0

\* ingest_event, called by the host at any time (its awaits never suspend).
IngestEvent ==
    /\ up
    /\ accepted < MaxEvents
    /\ accepted' = accepted + 1
    /\ evicted' = IF Len(queue) >= MaxQueueSize THEN evicted \cup {Head(queue)} ELSE evicted
    /\ queue' = Admit(queue, accepted')
    /\ Persist(queue')
    /\ UNCHANGED <<process, pc, batch, wire, cloud, restarts>>

LoopDiesOnError(t) == IF t = Loop THEN "done" ELSE "flush"

\* What a task does when its sync() returns: the loop goes round while running,
\* stop() goes on to close the client and persist.
AfterSync(t) ==
    IF t = Loop THEN IF running THEN "sleep" ELSE "done" ELSE "flush"

\* stop() awaits the cancelled sync task before its own final sync.
LoopIsOver == pc[Loop] \in {"none", "done"}

\* sync begins: nothing to do on an empty queue, else ask whether the cloud is there.
BeginSync(t) ==
    /\ up
    /\ pc[t] = (IF t = Loop THEN "sleep" ELSE "join")
    /\ t \in Stops => LoopIsOver
    /\ pc' = [pc EXCEPT ![t] = IF queue = <<>> THEN AfterSync(t) ELSE "check"]
    /\ UNCHANGED <<process, queue, batch, wire, disk, damaged, history, cloud, restarts>>

\* _is_connected answered True: the queue as it is now becomes the batch and is sent.
SendBatch(t) ==
    /\ up
    /\ pc[t] = "check"
    /\ pc' = [pc EXCEPT ![t] = "post"]
    /\ batch' = [batch EXCEPT ![t] = queue]
    /\ wire' = [wire EXCEPT ![t] = queue]
    /\ UNCHANGED <<process, queue, disk, damaged, history, cloud, restarts>>

\* The cloud handles a request in one transaction, perhaps long after the agent
\* gave it up; an answer may or may not follow.  A poisoned batch is refused.
CloudCommits(t) ==
    /\ wire[t] # NoRequest
    /\ Elems(wire[t]) \cap Poison = {}
    /\ cloud' = cloud \cup Elems(wire[t])
    /\ wire' = [wire EXCEPT ![t] = NoRequest]
    /\ UNCHANGED <<process, queue, pc, batch, disk, damaged, history, restarts>>

\* A 2xx answer without looking at its status: what dropping raise_for_status would do.
AcknowledgedBlindly(t) == batch[t] # <<>>

\* A success status needs a committed request (an empty batch is refused by the schema).
Acknowledged(t) == batch[t] # <<>> /\ wire[t] = NoRequest

\* The success path of sync: trim the queue, persist it.
SyncSucceeds(t) ==
    /\ up
    /\ pc[t] = "post"
    /\ Acknowledged(t)
    /\ queue' = Trim(queue, batch[t])
    /\ Persist(queue')
    /\ pc' = [pc EXCEPT ![t] = AfterSync(t)]
    /\ batch' = [batch EXCEPT ![t] = <<>>]
    /\ UNCHANGED <<process, wire, history, cloud, restarts>>

\* A failure path that puts the batch back although it never left the queue.
Requeued(t) == batch[t] \o queue

\* Every handled failure keeps the queue as it is.
Retained(t) == queue

\* The cloud is not reachable, answers an error, or does not answer in time: the
\* events stay.  The request may still be committed, before or after this.
SyncFails(t) ==
    /\ up
    /\ pc[t] \in Suspended
    /\ queue' = Retained(t)
    /\ pc' = [pc EXCEPT ![t] = AfterSync(t)]
    /\ batch' = [batch EXCEPT ![t] = <<>>]
    /\ UNCHANGED <<process, wire, disk, damaged, history, cloud, restarts>>

\* An error sync does not catch (ReadError, a closed client): the loop logs it and
\* goes on, which is SyncFails; a stop() dies of it, without closing or persisting.
StopDies(s) ==
    /\ up
    /\ pc[s] \in Suspended
    /\ pc' = [pc EXCEPT ![s] = "died"]
    /\ batch' = [batch EXCEPT ![s] = <<>>]
    /\ UNCHANGED <<process, queue, wire, disk, damaged, history, cloud, restarts>>

------------------------------------------------------------------------------
(* Shutdown, as main.py drives it. *)

\* A signal handler starts stop() s; later signals start others beside it.
Signalled(s, run, phases) ==
    /\ up /\ ~returned
    /\ restarts < MaxRestarts
    /\ pc[s] = "none"
    /\ running' = run
    /\ pc' = phases
    /\ UNCHANGED <<up, returned, queue, batch, wire, disk, damaged, history, cloud, restarts>>

Cancelled(p) == IF p \in {"sleep", "check", "post"} THEN "cancelled" ELSE p

StopUnjoined(s) == Signalled(s, FALSE, [pc EXCEPT ![s] = "check"])

StopStillRunning(s) == Signalled(s, TRUE, [pc EXCEPT ![s] = "join", ![Loop] = Cancelled(@)])

\* stop(): no more rounds, the sync task is cancelled where it is and awaited.
Stop(s) == Signalled(s, FALSE, [pc EXCEPT ![s] = "join", ![Loop] = Cancelled(@)])

\* CancelledError leaves the loop: it is not an Exception the loop would log.
LoopEnds ==
    /\ up
    /\ pc[Loop] = "cancelled"
    /\ pc' = [pc EXCEPT ![Loop] = "done"]
    /\ batch' = [batch EXCEPT ![Loop] = <<>>]
    /\ UNCHANGED <<process, queue, wire, disk, damaged, history, cloud, restarts>>

\* The rest of stop(): the client is closed, the queue persisted once more.
FinishStop(s) ==
    /\ up
    /\ pc[s] = "flush"
    /\ Persist(queue)
    /\ pc' = [pc EXCEPT ![s] = "done"]
    /\ UNCHANGED <<process, queue, batch, wire, history, cloud, restarts>>

(***************************************************************************)
(* run() polls _running once a second, so it returns while stop() may      *)
(* still be flushing; asyncio.run then cancels every task.  A stop() still *)
(* waiting for the loop swallows that and goes on.                         *)
(***************************************************************************)
RunReturns ==
    /\ up /\ ~running /\ ~returned
    /\ returned' = TRUE
    /\ pc' = [t \in Tasks |-> CASE t = Loop -> "done"
                                [] t # Loop /\ pc[t] \in Suspended \cup {"flush"} -> "died"
                                [] OTHER -> pc[t]]
    /\ batch' = [t \in Tasks |-> <<>>]
    /\ UNCHANGED <<up, running, queue, wire, disk, damaged, history, cloud, restarts>>

ProcessEnds ==
    /\ up' = FALSE /\ running' = FALSE
    /\ queue' = <<>>
    /\ pc' = [t \in Tasks |-> "none"]
    /\ batch' = [t \in Tasks |-> <<>>]
    /\ UNCHANGED <<returned, wire, history, cloud, restarts>>

Exit ==
    /\ up /\ returned
    /\ \A t \in Tasks : pc[t] \in {"none", "done", "died"}
    /\ ProcessEnds
    /\ UNCHANGED <<disk, damaged>>

\* The process is killed, between two steps or in the middle of a write.
Crash ==
    /\ up /\ restarts < MaxRestarts
    /\ ProcessEnds
    /\ \/ UNCHANGED <<disk, damaged>>
       \/ disk' = Corrupt /\ damaged' = TRUE

\* A new process: __init__ restores the queue, start() creates the sync task.
Restart ==
    /\ ~up /\ restarts < MaxRestarts
    /\ up' = TRUE /\ running' = TRUE /\ returned' = FALSE
    /\ queue' = Restored
    /\ pc' = [t \in Tasks |-> IF t = Loop THEN "sleep" ELSE "none"]
    /\ restarts' = restarts + 1
    /\ UNCHANGED <<batch, wire, disk, damaged, history, cloud>>

------------------------------------------------------------------------------
Next ==
    \/ IngestEvent
    \/ \E t \in Tasks :
        BeginSync(t) \/ SendBatch(t) \/ CloudCommits(t) \/ SyncSucceeds(t) \/ SyncFails(t)
    \/ \E s \in Stops : Stop(s) \/ FinishStop(s) \/ StopDies(s)
    \/ LoopEnds \/ RunReturns \/ Exit \/ Crash \/ Restart

Spec == Init /\ [][Next]_vars

(***************************************************************************)
(* The asyncio loop runs every task that is ready, every await of a task   *)
(* has a timeout (5 s, 30 s), run() polls, and a supervisor restarts the   *)
(* process.  The cloud is reachable, commits and answers infinitely often  *)
(* if it is asked infinitely often: without that nothing can be promised.  *)
(***************************************************************************)
Fairness ==
    /\ \A t \in Tasks : WF_vars(BeginSync(t)) /\ WF_vars(SyncFails(t))
    /\ SF_vars(SendBatch(Loop)) /\ SF_vars(CloudCommits(Loop)) /\ SF_vars(SyncSucceeds(Loop))
    /\ \A s \in Stops : WF_vars(FinishStop(s))
    /\ WF_vars(LoopEnds) /\ WF_vars(RunReturns) /\ WF_vars(Exit) /\ WF_vars(Restart)

FairSpec == Spec /\ Fairness

------------------------------------------------------------------------------
(* Properties. *)

TypeOK ==
    /\ up \in BOOLEAN /\ running \in BOOLEAN /\ returned \in BOOLEAN
    /\ accepted \in 0..MaxEvents
    /\ queue \in Seq(Events) /\ Len(queue) <= MaxQueueSize
    /\ pc \in [Tasks -> Phases]
    /\ batch \in [Tasks -> Seq(Events)]
    /\ wire \in [Tasks -> Seq(Events)]
    /\ disk = Corrupt \/ (disk \in Seq(Events) /\ Len(disk) <= MaxQueueSize)
    /\ damaged \in BOOLEAN
    /\ evicted \in SUBSET Events /\ cloud \in SUBSET Events
    /\ restarts \in 0..MaxRestarts

Ascending(q, n) ==
    /\ \A i, j \in 1..Len(q) : i < j => q[i] < q[j]
    /\ \A i \in 1..Len(q) : q[i] <= n

\* The queue holds the events in the order they were accepted and none twice, also
\* after failed syncs, evictions, trims and restores of an old file: what is sent
\* to the cloud is never a reordered or repeated batch (ingest_event, sync, _restore_queue).
QueueInOrder == Ascending(Buffer, accepted)

Lost == {e \in 1..accepted : e \notin Elems(Buffer) \cup cloud \cup evicted}

\* With the file intact, events vanish without a warning only against events that
\* were evicted although the cloud had them: the positional trim of sync counts
\* those twice.  In particular nothing vanishes while nothing is evicted.
LossBounded == ~damaged => Cardinality(Lost) <= Cardinality(evicted \cap cloud)

\* The case of it a plant cares about: with the file intact and no eviction, every
\* event is in the queue, in the file or in the cloud, whatever syncs failed,
\* answers were lost or processes died (sync, stop, _restore_queue).
NoLossWithoutEviction == ~damaged /\ evicted = {} => Lost = {}

\* Signal handlers start at most one stop() in a life of the process.
SingleSignal == \A s, u \in Stops : s = u

\* The final flush of stop() never overlaps a sync of the loop it cancelled, so two
\* syncs never trim the same queue (stop, _sync_loop); for one signal in a life.
OneSyncAtATime == \A t, u \in Tasks : pc[t] \in Suspended /\ pc[u] \in Suspended => t = u

(***************************************************************************)
(* "Success -- remove synced events from queue" (agent.py:164): what leaves *)
(* the queue when a sync succeeds is in the batch that was synced.         *)
(***************************************************************************)
OnlySyncedRemoved ==
    [][\A t \in Tasks : SyncSucceeds(t) =>
            Elems(queue) \ Elems(queue') \subseteq Elems(batch[t])]_vars

\* The agent is a buffer as EventBuffer describes it.
AsBuffer == INSTANCE EventBuffer WITH
    accepted <- 1..accepted,
    pending <- Elems(Buffer),
    delivered <- cloud,
    overwritten <- evicted

\* Every step of the agent, crash and restart included, is a step of that buffer:
\* events leave it by delivery, by eviction or within the bound of Release.
RefinesBuffer == AsBuffer!BufferSpec

Settled(e) == e \in cloud \cup evicted \cup Lost

\* An accepted event does not stay in the buffer for ever: failed syncs are retried
\* (sync's docstring) in this life or the next, unless an event the cloud
\* refuses sits in the queue and holds up all the others.
EventuallySettled ==
    \A e \in Events \ Poison :
        \/ (e <= accepted) ~> Settled(e)
        \/ <>[](Elems(Buffer) \cap Poison # {})

\* A signal ends the process, whatever the sync loop and the flush were doing.
ShutdownEnds == \A s \in Stops : (pc[s] = "join") ~> ~up

==============================================================================
