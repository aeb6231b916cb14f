------------------------- MODULE EventPipeline_proofs -------------------------
(***************************************************************************)
(* Proofs about EventPipeline, for any uploads, rules, edits and restarts. *)
(* One inductive invariant carries the safety properties: what a job may   *)
(* rely on of its row and its rules (JobsKnow), and what an upload has     *)
(* done so far (UploadsDid).                                               *)
(***************************************************************************)
EXTENDS EventPipeline, TLAPS

JobStates == [phase : JobPhases, starts : 0..MaxTries, todo : SUBSET Rules]

\* The rows of an upload are those at the positions of its sequence.
LEMMA RowFacts ==
    ASSUME NEW u \in Uploads
    PROVE  /\ RowsOf(u) \subseteq Events
           /\ Len(Items[u]) \in Nat
           /\ RowsOf(u) = {Items[u][i] : i \in 1..Len(Items[u])}
  <1>1. Items[u] \in Seq(Events)
    BY PipelineAssumption
  <1>2. Len(Items[u]) \in Nat /\ DOMAIN Items[u] = 1..Len(Items[u])
    BY <1>1
  <1>3. RowsOf(u) \subseteq Events
    BY DEF Events
  <1> QED
    BY <1>2, <1>3 DEF RowsOf

\* What a step of one job does to the jobs.
LEMMA GoesFacts ==
    ASSUME TypeOK, NEW e \in Events, NEW p \in JobPhases, NEW t \in SUBSET Rules, Goes(e, p, t)
    PROVE  /\ job' \in [Events -> JobStates]
           /\ job'[e].phase = p /\ job'[e].todo = t
           /\ \A d \in Events \ {e} : job'[d] = job[d]
  <1>1. job \in [Events -> JobStates] /\ job[e] \in JobStates
    BY DEF TypeOK, JobStates
  <1>2. [phase |-> p, starts |-> job[e].starts, todo |-> t] \in JobStates
    BY <1>1 DEF JobStates
  <1>3. job' = [job EXCEPT ![e] = [phase |-> p, starts |-> job[e].starts, todo |-> t]]
    BY DEF Goes
  <1> QED
    BY <1>1, <1>2, <1>3

LEMMA EndsFacts ==
    ASSUME TypeOK, NEW e \in Events, NEW p \in JobPhases, Ends(e, p)
    PROVE  /\ job' \in [Events -> JobStates]
           /\ job'[e].phase = p /\ job'[e].todo = {}
           /\ \A d \in Events \ {e} : job'[d] = job[d]
  <1>1. job \in [Events -> JobStates] /\ 0 \in 0..MaxTries
    BY PipelineAssumption DEF TypeOK, JobStates
  <1>2. [phase |-> p, starts |-> 0, todo |-> {}] \in JobStates
    BY <1>1 DEF JobStates
  <1>3. job' = [job EXCEPT ![e] = [phase |-> p, starts |-> 0, todo |-> {}]]
    BY DEF Ends
  <1> QED
    BY <1>1, <1>2, <1>3

\* The jobs after each kind of step.
LEMMA ProcessTypes ==
    ASSUME TypeOK, NEW e \in Events, Process(e)
    PROVE  /\ job' \in [Events -> JobStates]
           /\ job[e].phase # "none" /\ job'[e].phase # "none"
           /\ \A d \in Events \ {e} : job'[d] = job[d]
           /\ Evaluate(e) => job'[e].phase = "firing" /\ job'[e].todo = Triggered(e)
           /\ job'[e].phase = "firing" => Evaluate(e) \/ FireNext(e)
           /\ job'[e].phase = "processed" => job[e].phase = "firing" /\ job[e].todo = {}
           /\ job'[e].phase = "notfound" => e \notin table
           /\ job'[e].phase # "firing" => job'[e].todo = {}
  <1> USE DEF In, JobPhases, Active, Ended
  <1>0. {} \in SUBSET Rules /\ Triggered(e) \in SUBSET Rules /\ job[e].todo \in SUBSET Rules
    BY DEF TypeOK, Triggered
  <1>1. CASE Start(e)
    <2>1. CASE job[e].starts < MaxTries /\ job' = [job EXCEPT ![e] =
                  [phase |-> "running", starts |-> job[e].starts + 1, todo |-> {}]]
      <3>1. job \in [Events -> JobStates] /\ job[e].starts \in 0..MaxTries
        BY DEF TypeOK, JobStates
      <3>2. [phase |-> "running", starts |-> job[e].starts + 1, todo |-> {}] \in JobStates
        BY <2>1, <3>1, PipelineAssumption DEF JobStates
      <3> QED
        BY <1>1, <2>1, <3>1, <3>2 DEF Start, Evaluate
    <2>2. CASE Ends(e, "nosession")
      BY <1>0, <1>1, <2>2, GoesFacts, EndsFacts DEF Start, Evaluate
    <2>3. CASE Ends(e, "exhausted")
      BY <1>0, <1>1, <2>3, GoesFacts, EndsFacts DEF Start, Evaluate
    <2> QED
      BY <1>1, <2>1, <2>2, <2>3 DEF Start, HasTries
  <1>2. CASE LoadAndAppend(e)
    BY <1>0, <1>2, GoesFacts, EndsFacts DEF LoadAndAppend, Evaluate
  <1>3. CASE Evaluate(e)
    BY <1>0, <1>3, GoesFacts, EndsFacts DEF Evaluate
  <1>4. CASE FireNext(e)
    <2>1. PICK r \in job[e].todo : Goes(e, "firing", job[e].todo \ {r})
      BY <1>4 DEF FireNext
    <2>2. job[e].todo \ {r} \in SUBSET Rules
      BY <1>0
    <2> QED
      BY <1>4, <2>1, <2>2, GoesFacts, EndsFacts DEF FireNext, Evaluate
  <1>5. CASE Finish(e)
    BY <1>0, <1>5, GoesFacts, EndsFacts DEF Finish, Evaluate
  <1>6. CASE Fail(e)
    BY <1>0, <1>6, GoesFacts, EndsFacts DEF Fail, Evaluate
  <1> QED
    BY <1>1, <1>2, <1>3, <1>4, <1>5, <1>6 DEF Process

\* The row EnqueueNext is about.
LEMMA NextRow ==
    ASSUME TypeOK, NEW u \in Uploads, EnqueueNext(u)
    PROVE  /\ upload[u].next \in 1..Len(Items[u])
           /\ Items[u][upload[u].next] \in RowsOf(u)
           /\ Items[u][upload[u].next] \in Events
           /\ upload'[u].phase = "queueing" /\ upload'[u].next = upload[u].next + 1
           /\ \A v \in Uploads \ {u} : upload'[v] = upload[v]
           /\ job' \in [Events -> JobStates]
           /\ job'[Items[u][upload[u].next]].phase = "queued"
           /\ job'[Items[u][upload[u].next]].todo = {}
           /\ \A d \in Events \ {Items[u][upload[u].next]} : job'[d] = job[d]
  <1> DEFINE e == Items[u][upload[u].next]
  <1>1. upload[u].next \in 1..Len(Items[u]) /\ upload[u].next \in Nat
    BY RowFacts DEF TypeOK, EnqueueNext, HasMore
  <1>2. e \in RowsOf(u) /\ e \in Events
    BY <1>1, RowFacts
  <1>3. job \in [Events -> JobStates] /\ [phase |-> "queued", starts |-> 0, todo |-> {}] \in JobStates
    BY PipelineAssumption DEF TypeOK, JobStates, JobPhases
  <1>4. job' = [job EXCEPT ![e] = [phase |-> "queued", starts |-> 0, todo |-> {}]]
    BY DEF EnqueueNext
  <1>5. upload' = [upload EXCEPT ![u] = [phase |-> "queueing", next |-> upload[u].next + 1]]
    BY DEF EnqueueNext
  <1> QED
    BY <1>1, <1>2, <1>3, <1>4, <1>5 DEF TypeOK

\* After the other steps of an upload's handler.
LEMMA HandleFacts ==
    ASSUME TypeOK, NEW u \in Uploads, Handle(u)
    PROVE  /\ upload' \in [Uploads -> [phase : UploadPhases, next : Nat \ {0}]]
           /\ \A v \in Uploads \ {u} : upload'[v] = upload[v]
           /\ upload'[u].phase # "new"
           /\ ~EnqueueNext(u) => job' = job
           /\ upload'[u].phase = "answered" => ~HasMore(u) /\ upload'[u].next = upload[u].next
           /\ upload'[u].phase \in {"answered", "broken"} => upload[u].phase = "queueing"
           /\ upload'[u].phase = "queueing" => Commit(u) \/ EnqueueNext(u)
  <1> USE DEF At, UploadPhases
  <1>1. CASE Commit(u)
    <2>1. PICK p \in {"queueing", "refused"} :
             upload' = [upload EXCEPT ![u] = [phase |-> p, next |-> 1]]
      BY <1>1 DEF Commit
    <2>2. [phase |-> p, next |-> 1] \in [phase : UploadPhases, next : Nat \ {0}]
      BY <2>1
    <2>3. job' = job
      BY <1>1 DEF Commit
    <2> QED
      BY <1>1, <2>1, <2>2, <2>3 DEF TypeOK
  <1>2. CASE EnqueueNext(u)
    <2>1. [phase |-> "queueing", next |-> upload[u].next + 1] \in [phase : UploadPhases, next : Nat \ {0}]
      BY DEF TypeOK
    <2>2. upload' = [upload EXCEPT ![u] = [phase |-> "queueing", next |-> upload[u].next + 1]]
      BY <1>2 DEF EnqueueNext
    <2> QED
      BY <1>2, <2>1, <2>2 DEF TypeOK
  <1>3. CASE EnqueueFails(u)
    BY <1>3 DEF EnqueueFails, TypeOK
  <1>4. CASE Answer(u)
    BY <1>4 DEF Answer, TypeOK
  <1> QED
    BY <1>1, <1>2, <1>3, <1>4 DEF Handle

\* A restart keeps every job, and sends the active ones back to the queue.
LEMMA RestartFacts ==
    ASSUME TypeOK, RestartWorker
    PROVE  /\ job' \in [Events -> JobStates]
           /\ \A e \in Events : \/ job'[e] = job[e]
                                \/ /\ job[e].phase \in Active
                                   /\ job'[e].phase = "queued" /\ job'[e].todo = {}
  <1>1. job' = [e \in Events |-> IF job[e].phase \in Active
                    THEN [phase |-> "queued", starts |-> job[e].starts, todo |-> {}] ELSE job[e]]
    BY DEF RestartWorker, In, AfterRestart
  <1>2. \A e \in Events : job[e] \in JobStates /\ job[e].starts \in 0..MaxTries
    BY DEF TypeOK, JobStates
  <1>3. \A e \in Events : [phase |-> "queued", starts |-> job[e].starts, todo |-> {}] \in JobStates
    BY <1>2 DEF JobStates, JobPhases
  <1>4. \A e \in Events : job'[e] = IF job[e].phase \in Active
                    THEN [phase |-> "queued", starts |-> job[e].starts, todo |-> {}] ELSE job[e]
    BY <1>1
  <1>5. job' \in [Events -> JobStates]
    BY <1>1, <1>2, <1>3
  <1> QED
    BY <1>4, <1>5

------------------------------------------------------------------------------
(* Type correctness. *)

\* The table, the queues and the handlers only ever hold values the program can produce.
THEOREM TypeCorrect == Spec => []TypeOK
<1>1. Init => TypeOK
  <2> SUFFICES ASSUME Init PROVE TypeOK
    OBVIOUS
  <2>1. 0 \in 0..MaxTries /\ 0 \in 0..MaxEdits
    BY PipelineAssumption
  <2>2. job \in [Events -> [phase : JobPhases, starts : 0..MaxTries, todo : SUBSET Rules]]
    BY <2>1 DEF Init, JobPhases
  <2>3. upload \in [Uploads -> [phase : UploadPhases, next : Nat \ {0}]]
    BY DEF Init, UploadPhases
  <2> QED
    BY <2>1, <2>2, <2>3 DEF Init, TypeOK
<1>2. TypeOK /\ [Next]_vars => TypeOK'
  <2> SUFFICES ASSUME TypeOK, [Next]_vars PROVE TypeOK'
    OBVIOUS
  <2>1. ASSUME NEW u \in Uploads, Handle(u) PROVE TypeOK'
    <3>1. job' \in [Events -> JobStates]
      BY <2>1, HandleFacts, NextRow DEF TypeOK, JobStates
    <3>2. table' \subseteq Events
      BY <2>1, RowFacts DEF Handle, Commit, EnqueueNext, EnqueueFails, Answer, Stores, TypeOK
    <3>3. wasOn' \in [Events -> SUBSET Rules] /\ stayedOn' \in [Events -> SUBSET Rules]
      BY <2>1 DEF Handle, Commit, EnqueueNext, EnqueueFails, Answer, TypeOK
    <3>4. UNCHANGED <<ready, outVars, ruleVars>>
      BY <2>1 DEF Handle, Commit, EnqueueNext, EnqueueFails, Answer
    <3> QED
      BY <2>1, <3>1, <3>2, <3>3, <3>4, HandleFacts DEF TypeOK, JobStates, outVars, ruleVars
  <2>2. ASSUME NEW e \in Events, Process(e) PROVE TypeOK'
    <3>1. job' \in [Events -> JobStates]
      BY <2>2, ProcessTypes
    <3>2. \A r \in job[e].todo : Firing(e, r) \in [event : Events, rule : Rules]
      BY DEF TypeOK, Firing
    <3>3. /\ stream' \subseteq Events
          /\ alertJobs' \subseteq [event : Events, rule : Rules]
          /\ dropped' \subseteq [event : Events, rule : Rules]
      BY <2>2, <3>2 DEF Process, Start, LoadAndAppend, Evaluate, FireNext, Finish, Fail, outVars,
                        TypeOK
    <3>4. UNCHANGED <<apiVars, ready, ruleVars>>
      BY <2>2 DEF Process, Start, LoadAndAppend, Evaluate, FireNext, Finish, Fail
    <3> QED
      BY <3>1, <3>3, <3>4 DEF TypeOK, JobStates, apiVars, ruleVars
  <2>3. CASE EmbeddingTask
    BY <2>3 DEF EmbeddingTask, TypeOK, apiVars, outVars, ruleVars
  <2>4. CASE RestartWorker
    BY <2>4, RestartFacts DEF RestartWorker, TypeOK, JobStates, apiVars, outVars, ruleVars
  <2>5. ASSUME NEW r \in Rules, EditRule(r) PROVE TypeOK'
    <3>1. enabled' \subseteq Rules
      BY <2>5 DEF EditRule, TypeOK
    <3>2. edits' \in 0..MaxEdits
      BY <2>5, PipelineAssumption DEF EditRule, TypeOK
    <3>3. wasOn' \in [Events -> SUBSET Rules] /\ stayedOn' \in [Events -> SUBSET Rules]
      BY <2>5, <3>1 DEF EditRule, TypeOK
    <3> QED
      BY <2>5, <3>1, <3>2, <3>3 DEF EditRule, TypeOK, outVars
  <2>6. CASE UNCHANGED vars
    BY <2>6 DEF vars, TypeOK
  <2> QED
    BY <2>1, <2>2, <2>3, <2>4, <2>5, <2>6 DEF Next, Terminated
<1> QED
  BY <1>1, <1>2, PTL DEF Spec

------------------------------------------------------------------------------
(* Safety. *)

\* r has been fired for e, or its failure to be logged.
Fired(e, r) == Firing(e, r) \in alertJobs \cup dropped

\* What a job may rely on: its row is stored, the rules it has yet to fire were on
\* and match, and those on all along are fired or still to be fired.
JobKnows(e) ==
    /\ job[e].phase # "none" => e \in table
    /\ job[e].phase # "notfound"
    /\ job[e].phase # "firing" => job[e].todo = {}
    /\ job[e].todo \subseteq wasOn[e] \cap Matches[e]
    /\ job[e].phase \in {"firing", "processed"} =>
          \A r \in (Matches[e] \cap stayedOn[e]) \ Broken : r \in job[e].todo \/ Fired(e, r)

HistoryIsRight ==
    /\ \A e \in table : stayedOn[e] \subseteq enabled /\ enabled \subseteq wasOn[e]
    /\ \A f \in alertJobs : f.event \in table /\ f.rule \in wasOn[f.event] \cap Matches[f.event]

\* How far a handler has come: all its rows stored, those before next queued.
UploadDid(u) ==
    /\ upload[u].phase = "new" => RowsOf(u) \cap table = {}
    /\ upload[u].phase \in {"queueing", "answered", "broken"} => RowsOf(u) \subseteq table
    /\ upload[u].phase \in {"queueing", "answered"} =>
          \A i \in 1..Len(Items[u]) : i < upload[u].next => job[Items[u][i]].phase # "none"
    /\ upload[u].phase = "answered" => upload[u].next > Len(Items[u])

Safe ==
    /\ HistoryIsRight
    /\ \A e \in Events : JobKnows(e)
    /\ \A u \in Uploads : UploadDid(u)

IInv == TypeOK /\ Safe

LEMMA ProcessKeeps ==
    ASSUME IInv, NEW e \in Events, Process(e)
    PROVE  Safe'
<1> USE DEF IInv, Safe
<1>1. UNCHANGED <<table, upload, wasOn, stayedOn, ready, enabled, edits>>
  BY DEF Process, Start, LoadAndAppend, Evaluate, FireNext, Finish, Fail, apiVars, ruleVars
<1>2. alertJobs \subseteq alertJobs' /\ dropped \subseteq dropped'
  BY DEF Process, Start, LoadAndAppend, Evaluate, FireNext, Finish, Fail, outVars
<1>3. \A d \in Events \ {e} : job'[d] = job[d]
  BY ProcessTypes
<1>4. \A d, r : Fired(d, r) => Fired(d, r)'
  BY <1>2 DEF Fired, Firing
<1>5. \A d \in Events \ {e} : JobKnows(d)'
  BY <1>1, <1>3, <1>4 DEF JobKnows
<1>6. \A u \in Uploads : UploadDid(u)'
  <2> SUFFICES ASSUME NEW u \in Uploads PROVE UploadDid(u)'
    OBVIOUS
  <2>1. \A i \in 1..Len(Items[u]) : Items[u][i] \in Events
    BY RowFacts
  <2>2. \A d \in Events : job[d].phase # "none" => job'[d].phase # "none"
    BY <1>3, ProcessTypes
  <2> QED
    BY <1>1, <2>1, <2>2 DEF UploadDid
<1>7. e \in table /\ job[e].phase # "none" /\ job'[e].phase # "notfound"
  BY ProcessTypes DEF JobKnows
<1>8. CASE Evaluate(e)
  <2>1. job'[e].phase = "firing" /\ job'[e].todo = (enabled \cap Matches[e]) \ Broken
    BY <1>8, ProcessTypes DEF Triggered
  <2>2. alertJobs' = alertJobs /\ dropped' = dropped
    BY <1>8 DEF Evaluate, outVars
  <2>3. stayedOn[e] \subseteq enabled /\ enabled \subseteq wasOn[e]
    BY <1>7 DEF HistoryIsRight
  <2>4. JobKnows(e)'
    BY <1>1, <1>7, <2>1, <2>3 DEF JobKnows
  <2> QED
    BY <1>1, <1>5, <1>6, <2>2, <2>4 DEF HistoryIsRight
<1>9. CASE FireNext(e)
  <2>1. PICK r \in job[e].todo :
           /\ Goes(e, "firing", job[e].todo \ {r})
           /\ \/ alertJobs' = alertJobs \cup {Firing(e, r)} /\ UNCHANGED dropped
              \/ dropped' = dropped \cup {Firing(e, r)} /\ UNCHANGED alertJobs
              \/ /\ alertJobs' = alertJobs \cup {Firing(e, r)}
                 /\ dropped' = dropped \cup {Firing(e, r)}
    BY <1>9 DEF FireNext
  <2>2. job[e].phase = "firing" /\ job[e].todo \subseteq Rules
    BY <1>9 DEF FireNext, In, TypeOK
  <2>3. job'[e].phase = "firing" /\ job'[e].todo = job[e].todo \ {r}
    BY <2>1, <2>2, GoesFacts DEF JobPhases, Active
  <2>4. Fired(e, r)'
    BY <2>1 DEF Fired, Firing
  <2>5. JobKnows(e)'
    BY <1>1, <1>4, <1>7, <2>2, <2>3, <2>4 DEF JobKnows
  <2>6. \A f \in alertJobs' \ alertJobs : f.event = e /\ f.rule = r
    BY <2>1 DEF Firing
  <2>7. r \in wasOn[e] \cap Matches[e]
    BY <2>1 DEF JobKnows
  <2>8. HistoryIsRight'
    BY <1>1, <1>7, <2>6, <2>7 DEF HistoryIsRight
  <2> QED
    BY <1>5, <1>6, <2>5, <2>8
<1>10. CASE ~Evaluate(e) /\ ~FireNext(e)
  <2>1. alertJobs' = alertJobs /\ dropped' = dropped
    BY <1>10 DEF Process, Start, LoadAndAppend, Finish, Fail, outVars
  <2>2. job'[e].phase # "firing" /\ job'[e].todo = {}
    BY <1>10, ProcessTypes
  <2>3. job'[e].phase = "processed" => job[e].phase = "firing" /\ job[e].todo = {}
    BY ProcessTypes
  <2>4. JobKnows(e)'
    BY <1>1, <1>4, <1>7, <2>2, <2>3 DEF JobKnows
  <2> QED
    BY <1>1, <1>5, <1>6, <2>1, <2>4 DEF HistoryIsRight
<1> QED
  BY <1>8, <1>9, <1>10

LEMMA HandleKeeps ==
    ASSUME IInv, NEW u \in Uploads, Handle(u)
    PROVE  Safe'
<1> USE DEF IInv, Safe
<1>1. UNCHANGED <<alertJobs, dropped, enabled>>
  BY DEF Handle, Commit, EnqueueNext, EnqueueFails, Answer, outVars, ruleVars
<1>2. \A e, r : Fired(e, r)' = Fired(e, r)
  BY <1>1 DEF Fired, Firing
<1>3. CASE Commit(u) /\ table' = Stores(u)
  <2>1. /\ table' = table \cup RowsOf(u)
        /\ wasOn' = [e \in Events |-> IF e \in RowsOf(u) THEN enabled ELSE wasOn[e]]
        /\ stayedOn' = [e \in Events |-> IF e \in RowsOf(u) THEN enabled ELSE stayedOn[e]]
        /\ job' = job
        /\ upload[u].phase = "new"
    <3>1. table' = table => RowsOf(u) = {} \/ RowsOf(u) \cap table # {}
      BY <1>3 DEF Stores
    <3>2. upload[u].phase = "new" /\ job' = job
      BY <1>3 DEF Commit, At
    <3>3. RowsOf(u) \cap table = {}
      BY <3>2 DEF UploadDid
    <3>4. RowsOf(u) = {} => \A f : [e \in Events |-> IF e \in RowsOf(u) THEN enabled ELSE f[e]]
                                  = [e \in Events |-> f[e]]
      OBVIOUS
    <3>5. wasOn = [e \in Events |-> wasOn[e]] /\ stayedOn = [e \in Events |-> stayedOn[e]]
      BY DEF TypeOK
    <3> QED
      BY <1>3, <3>1, <3>2, <3>3, <3>4, <3>5 DEF Commit, Stores
  <2>2. RowsOf(u) \subseteq Events /\ RowsOf(u) \cap table = {}
    BY <2>1, RowFacts DEF UploadDid
  <2>3. \A e \in RowsOf(u) : job[e].phase = "none" /\ job[e].todo = {}
    BY <2>2 DEF JobKnows
  <2>4. \A e \in Events : JobKnows(e)'
    BY <1>2, <2>1, <2>2, <2>3 DEF JobKnows
  <2>5. HistoryIsRight'
    <3>1. \A e \in table' : e \in Events
      BY <2>1, <2>2 DEF TypeOK
    <3>2. \A f \in alertJobs : f.event \notin RowsOf(u) /\ f.event \in Events
      BY <2>2 DEF HistoryIsRight, TypeOK
    <3> QED
      BY <1>1, <2>1, <3>1, <3>2 DEF HistoryIsRight
  <2>6. \A v \in Uploads : UploadDid(v)'
    <3>1. upload'[u].phase \in {"queueing", "refused"} /\ upload'[u].next = 1
      BY <1>3, HandleFacts DEF Commit, TypeOK
    <3>2. ASSUME NEW v \in Uploads \ {u} PROVE UploadDid(v)'
      <4>1. RowsOf(v) \cap RowsOf(u) = {}
        BY PipelineAssumption
      <4>2. upload'[v] = upload[v]
        BY HandleFacts
      <4> QED
        BY <2>1, <4>1, <4>2 DEF UploadDid
    <3>3. UploadDid(u)'
      BY <2>1, <3>1 DEF UploadDid
    <3> QED
      BY <3>2, <3>3
  <2> QED
    BY <2>4, <2>5, <2>6
<1>4. CASE table' = table /\ wasOn' = wasOn /\ stayedOn' = stayedOn
  <2>1. HistoryIsRight'
    BY <1>1, <1>4 DEF HistoryIsRight
  <2>2. \A e \in Events : JobKnows(e)' /\ (job[e].phase # "none" => job'[e].phase # "none")
    <3>1. CASE EnqueueNext(u)
      <4>1. PICK e : e = Items[u][upload[u].next]
        OBVIOUS
      <4>2. /\ e \in RowsOf(u) /\ e \in Events
            /\ job'[e].phase = "queued" /\ job'[e].todo = {}
            /\ \A d \in Events \ {e} : job'[d] = job[d]
        BY <3>1, <4>1, NextRow
      <4>3. e \in table
        BY <3>1, <4>2 DEF EnqueueNext, At, UploadDid
      <4>4. JobKnows(e)'
        BY <1>4, <4>2, <4>3 DEF JobKnows
      <4> QED
        BY <1>2, <1>4, <4>2, <4>4 DEF JobKnows
    <3>2. CASE ~EnqueueNext(u)
      BY <1>2, <1>4, <3>2, HandleFacts DEF JobKnows
    <3> QED
      BY <3>1, <3>2
  <2>3. ASSUME NEW v \in Uploads \ {u} PROVE UploadDid(v)'
    <3>1. \A i \in 1..Len(Items[v]) : Items[v][i] \in Events
      BY RowFacts
    <3> QED
      BY <1>4, <2>2, <3>1, HandleFacts DEF UploadDid
  <2>4. UploadDid(u)'
    <3>1. \A i \in 1..Len(Items[u]) : Items[u][i] \in Events
      BY RowFacts
    <3>2. CASE EnqueueNext(u)
      <4>1. upload[u].phase = "queueing"
        BY <3>2 DEF EnqueueNext, At
      <4>2. job'[Items[u][upload[u].next]].phase # "none"
        BY <3>2, NextRow
      <4>3. upload'[u].phase = "queueing" /\ upload'[u].next = upload[u].next + 1
        BY <3>2, NextRow
      <4>4. upload[u].next \in Nat
        BY DEF TypeOK
      <4> QED
        BY <1>4, <2>2, <3>1, <4>1, <4>2, <4>3, <4>4 DEF UploadDid
    <3>3. CASE EnqueueFails(u) \/ Answer(u)
      <4>1. upload[u].phase = "queueing" /\ job' = job
        BY <3>3 DEF EnqueueFails, Answer, At
      <4>2. upload'[u].phase \in {"answered", "broken"}
        BY <3>3 DEF EnqueueFails, Answer, TypeOK
      <4>3. upload'[u].phase = "answered" =>
               upload'[u].next = upload[u].next /\ ~(upload[u].next <= Len(Items[u]))
        BY HandleFacts DEF HasMore
      <4>4. upload[u].next \in Nat /\ Len(Items[u]) \in Nat
        BY RowFacts DEF TypeOK
      <4> QED
        BY <1>4, <4>1, <4>2, <4>3, <4>4 DEF UploadDid
    <3>4. CASE Commit(u)
      <4>1. upload[u].phase = "new" /\ job' = job /\ upload'[u].next = 1
        BY <3>4 DEF Commit, At, TypeOK
      <4>2. \/ upload'[u].phase = "refused"
            \/ upload'[u].phase = "queueing" /\ table' = Stores(u)
        BY <3>4 DEF Commit, TypeOK
      <4>3. table' = Stores(u) => RowsOf(u) \subseteq table'
        BY DEF Stores
      <4> QED
        BY <4>1, <4>2, <4>3 DEF UploadDid
    <3> QED
      BY <3>2, <3>3, <3>4 DEF Handle
  <2> QED
    BY <2>1, <2>2, <2>3, <2>4
<1> QED
  BY <1>3, <1>4 DEF Handle, Commit, EnqueueNext, EnqueueFails, Answer

LEMMA EditKeeps ==
    ASSUME IInv, NEW r \in Rules, EditRule(r)
    PROVE  Safe'
<1> USE DEF IInv, Safe
<1>1. UNCHANGED <<table, upload, job, alertJobs, dropped>>
  BY DEF EditRule, outVars
<1>2. /\ wasOn' = [e \in Events |-> IF e \in table THEN wasOn[e] \cup enabled' ELSE wasOn[e]]
      /\ stayedOn' = [e \in Events |-> stayedOn[e] \cap enabled']
  BY DEF EditRule
<1>3. \A e \in Events : /\ wasOn[e] \subseteq wasOn'[e] /\ stayedOn'[e] \subseteq stayedOn[e]
                        /\ stayedOn'[e] \subseteq enabled'
                        /\ e \in table => enabled' \subseteq wasOn'[e]
  BY <1>2
<1>4. \A e, q : Fired(e, q)' = Fired(e, q)
  BY <1>1 DEF Fired, Firing
<1>5. ASSUME NEW e \in Events PROVE JobKnows(e)'
  <2>0. JobKnows(e)
    OBVIOUS
  <2>1. wasOn[e] \subseteq wasOn'[e] /\ stayedOn'[e] \subseteq stayedOn[e]
    BY <1>3
  <2>2. job'[e] = job[e] /\ table' = table
    BY <1>1
  <2>3. job[e].todo \subseteq wasOn'[e] \cap Matches[e]
    BY <2>0, <2>1 DEF JobKnows
  <2>4. job[e].phase \in {"firing", "processed"} =>
          \A q \in (Matches[e] \cap stayedOn'[e]) \ Broken : q \in job[e].todo \/ Fired(e, q)'
    BY <1>4, <2>0, <2>1 DEF JobKnows
  <2> QED
    BY <2>0, <2>2, <2>3, <2>4 DEF JobKnows
<1>6. HistoryIsRight'
  <2>1. \A e \in table' : e \in Events /\ e \in table
    BY <1>1 DEF TypeOK
  <2>2. \A f \in alertJobs' : f \in alertJobs /\ f.event \in Events
    BY <1>1 DEF TypeOK
  <2>3. \A e \in table' : stayedOn'[e] \subseteq enabled' /\ enabled' \subseteq wasOn'[e]
    BY <1>3, <2>1
  <2>4. ASSUME NEW f \in alertJobs'
        PROVE  f.event \in table' /\ f.rule \in wasOn'[f.event] \cap Matches[f.event]
    <3>1. f.event \in table /\ f.rule \in wasOn[f.event] \cap Matches[f.event]
      BY <2>2 DEF HistoryIsRight
    <3> QED
      BY <1>1, <1>3, <2>2, <3>1
  <2> QED
    BY <2>3, <2>4 DEF HistoryIsRight
<1>7. ASSUME NEW u \in Uploads PROVE UploadDid(u)'
  <2>1. UploadDid(u)
    OBVIOUS
  <2> QED
    BY <1>1, <2>1 DEF UploadDid
<1> QED
  BY <1>5, <1>6, <1>7

LEMMA RestartKeeps ==
    ASSUME IInv, RestartWorker
    PROVE  Safe'
<1> USE DEF IInv, Safe
<1>1. UNCHANGED <<table, upload, wasOn, stayedOn, alertJobs, dropped, enabled>>
  BY DEF RestartWorker, apiVars, outVars, ruleVars
<1>2. \A e, r : Fired(e, r)' = Fired(e, r)
  BY <1>1 DEF Fired, Firing
<1>3. \A e \in Events : /\ JobKnows(e)'
                        /\ job[e].phase # "none" => job'[e].phase # "none"
  BY <1>1, <1>2, RestartFacts DEF JobKnows, Active
<1>4. \A u \in Uploads : \A i \in 1..Len(Items[u]) : Items[u][i] \in Events
  BY RowFacts
<1>5. HistoryIsRight'
  BY <1>1 DEF HistoryIsRight
<1>6. ASSUME NEW u \in Uploads PROVE UploadDid(u)'
  <2>0. UploadDid(u)
    OBVIOUS
  <2>1. upload'[u] = upload[u] /\ table' = table
    BY <1>1
  <2>2. \A i \in 1..Len(Items[u]) : job[Items[u][i]].phase # "none" => job'[Items[u][i]].phase # "none"
    BY <1>3, <1>4
  <2> QED
    BY <2>0, <2>1, <2>2 DEF UploadDid
<1> QED
  BY <1>3, <1>5, <1>6

LEMMA Inductive == Spec => []IInv
<1>1. Init => Safe
  BY DEF Init, Safe, HistoryIsRight, JobKnows, UploadDid
<1>2. TypeOK /\ Safe /\ [Next]_vars => Safe'
  <2>1. ASSUME IInv, UNCHANGED vars PROVE Safe'
    BY <2>1 DEF vars, IInv, Safe, HistoryIsRight, JobKnows, UploadDid, Fired, Firing
  <2>2. ASSUME IInv, EmbeddingTask PROVE Safe'
    BY <2>2 DEF EmbeddingTask, apiVars, outVars, ruleVars, IInv, Safe, HistoryIsRight, JobKnows,
                UploadDid, Fired, Firing
  <2> QED
    BY <2>1, <2>2, ProcessKeeps, HandleKeeps, EditKeeps, RestartKeeps DEF Next, Terminated, IInv
<1> QED
  BY <1>1, <1>2, TypeCorrect, PTL DEF Spec, IInv

\* No process_event job runs ahead of its row.
THEOREM RowsComeFirst == Spec => []RowsPrecedeJobs
<1>1. IInv => RowsPrecedeJobs
  BY DEF IInv, Safe, JobKnows, RowsPrecedeJobs
<1> QED
  BY <1>1, Inductive, PTL

\* An upload answered without a queue error has all its rows queued, whatever other
\* uploads, the worker and its restarts do.
THEOREM UploadsAreQueued == Spec => []AnsweredUploadsAreQueued
<1>1. IInv => AnsweredUploadsAreQueued
  <2> SUFFICES ASSUME IInv, NEW u \in Uploads, upload[u].phase = "answered", NEW e \in RowsOf(u)
               PROVE  e \in table /\ job[e].phase # "none"
    BY DEF AnsweredUploadsAreQueued
  <2>1. upload[u].next \in Nat /\ Len(Items[u]) \in Nat /\ upload[u].next > Len(Items[u])
    BY RowFacts DEF IInv, Safe, UploadDid, TypeOK
  <2>2. PICK i \in 1..Len(Items[u]) : e = Items[u][i]
    BY RowFacts
  <2>3. i < upload[u].next
    BY <2>1
  <2> QED
    BY <2>2, <2>3 DEF IInv, Safe, UploadDid
<1> QED
  BY <1>1, Inductive, PTL

\* A broken rule or a refused enqueue hides no other rule of the event.
THEOREM RulesStandAlone == Spec => []RulesAreIndependent
<1>1. IInv => RulesAreIndependent
  BY DEF IInv, Safe, JobKnows, RulesAreIndependent, Fired
<1> QED
  BY <1>1, Inductive, PTL

\* A rule off since before the event was stored does not fire on it.
THEOREM DisabledRulesStayQuiet == Spec => []DisabledRulesAreQuiet
<1>1. IInv => DisabledRulesAreQuiet
  BY DEF IInv, Safe, HistoryIsRight, DisabledRulesAreQuiet
<1> QED
  BY <1>1, Inductive, PTL

==============================================================================
