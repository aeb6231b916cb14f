------------------------ MODULE AlertLifecycle_proofs ------------------------
(***************************************************************************)
(* Proofs about AlertLifecycle: type correctness and the four safety       *)
(* properties that the MCAlertLifecycle run checks, for any number of      *)
(* jobs, calls and retries.                                                *)
(***************************************************************************)
EXTENDS AlertLifecycle, TLAPS

Rows == [key : {Key(j) : j \in Jobs}, status : Statuses,
         by : {User[a] : a \in Acks} \cup {Nobody}, stamped : BOOLEAN]

JobStates == [phase : JobPhases, starts : 0..MaxTries, id : Nat]

\* A job step that Goes or Ends changes that job alone.
LEMMA JobMoves ==
    ASSUME TypeOK, NEW j \in Jobs, NEW p \in JobPhases, NEW i \in Nat,
           Goes(j, p, i) \/ Ends(j, p)
    PROVE  /\ job' \in [Jobs -> JobStates]
           /\ job'[j].phase = p
           /\ Goes(j, p, i) => job'[j].id = i
           /\ \A k \in Jobs \ {j} : job'[k] = job[k]
  <1>1. job \in [Jobs -> JobStates] /\ job[j] \in JobStates /\ 0 \in 0..MaxTries
    BY LifecycleAssumption DEF TypeOK, JobStates
  <1>2. CASE Goes(j, p, i)
    <2>1. [phase |-> p, starts |-> job[j].starts, id |-> i] \in JobStates
      BY <1>1 DEF JobStates
    <2>2. job' = [job EXCEPT ![j] = [phase |-> p, starts |-> job[j].starts, id |-> i]]
      BY <1>2 DEF Goes
    <2> QED
      BY <1>1, <2>1, <2>2
  <1>3. CASE Ends(j, p)
    <2>1. [phase |-> p, starts |-> 0, id |-> 0] \in JobStates
      BY <1>1 DEF JobStates
    <2>2. job' = [job EXCEPT ![j] = [phase |-> p, starts |-> 0, id |-> 0]]
      BY <1>3 DEF Ends
    <2>3. Goes(j, p, i) => job'[j].id = i
      BY <1>1 DEF Goes
    <2> QED
      BY <1>1, <2>1, <2>2, <2>3
  <1> QED
    BY <1>2, <1>3

LEMMA RowAt ==
    ASSUME TypeOK
    PROVE  alerts \in Seq(Rows) /\ \A i \in Ids : i \in Nat /\ alerts[i] \in Rows
  <1>1. alerts \in Seq(Rows)
    BY DEF TypeOK, Rows
  <1> QED
    BY <1>1 DEF Ids

\* A new alert is a row, and appending it leaves the others where they were.
LEMMA NewRow ==
    ASSUME TypeOK, NEW j \in Jobs
    PROVE  /\ Append(alerts, NewAlert(j)) \in Seq(Rows)
           /\ Len(alerts) \in Nat
           /\ Len(Append(alerts, NewAlert(j))) = Len(alerts) + 1
           /\ Append(alerts, NewAlert(j))[Len(alerts) + 1] = NewAlert(j)
           /\ \A i \in Ids : Append(alerts, NewAlert(j))[i] = alerts[i]
  <1>1. NewAlert(j) \in Rows
    BY DEF NewAlert, Rows, Statuses
  <1>2. alerts \in Seq(Rows)
    BY DEF TypeOK, Rows
  <1> QED
    BY <1>1, <1>2 DEF Ids

\* What a commit does to the row it names, and that it touches no other.
LEMMA CommitFacts ==
    ASSUME TypeOK, NEW c \in Calls, CommitCall(c), call[c].id \in Ids
    PROVE  /\ alerts' \in Seq(Rows)
           /\ Len(alerts') = Len(alerts)
           /\ \A i \in Ids : i # call[c].id => alerts'[i] = alerts[i]
           /\ \A i \in Ids : alerts'[i].key = alerts[i].key
           /\ alerts'[call[c].id] = IF c \in Acks
                                      THEN Acknowledged(alerts[call[c].id], call[c], User[c])
                                      ELSE Resolved(alerts[call[c].id], call[c])
  <1> DEFINE row == alerts[call[c].id]
             new == IF c \in Acks THEN Acknowledged(row, call[c], User[c])
                                  ELSE Resolved(row, call[c])
  <1>1. alerts \in Seq(Rows) /\ row \in Rows
    BY RowAt
  <1>2. Acknowledged(row, call[c], User[c]).key = row.key /\ Resolved(row, call[c]).key = row.key
    BY <1>1 DEF Acknowledged, Resolved, Rows
  <1>3. new \in Rows /\ new.key = row.key
    <2>1. CASE c \in Acks
      <3>1. Written("acknowledged", call[c].seen, row.status) \in Statuses
        BY <1>1 DEF Written, Rows, Statuses
      <3>2. Written(User[c], call[c].by, row.by) \in {User[a] : a \in Acks} \cup {Nobody}
        BY <1>1, <2>1 DEF Written, Rows
      <3> QED
        BY <1>1, <1>2, <2>1, <3>1, <3>2 DEF Acknowledged, Rows
    <2>2. CASE c \notin Acks
      <3>1. Written("resolved", call[c].seen, row.status) \in Statuses
        BY <1>1 DEF Written, Rows, Statuses
      <3> QED
        BY <1>1, <1>2, <2>2, <3>1 DEF Resolved, Rows
    <2> QED
      BY <2>1, <2>2
  <1>4. alerts' = [alerts EXCEPT ![call[c].id] = new]
    BY DEF CommitCall
  <1> QED
    BY <1>1, <1>3, <1>4 DEF Ids

\* The phase a job step leaves the job in, and the id with it.
LEMMA JobTypes ==
    ASSUME TypeOK, NEW j \in Jobs, JobStep(j) \/ WorkerDies(j)
    PROVE  /\ job' \in [Jobs -> JobStates]
           /\ \A k \in Jobs \ {j} : job'[k] = job[k]
           /\ job'[j].phase = "inserted" => InsertAlert(j) /\ ~ViolatesUnique(Key(j))
           /\ job'[j].phase \in {"suppressed", "conflict"} => WithKey(Key(j)) # {}
           /\ job'[j].phase \in {"created", "unnotified"} => job[j].phase = "inserted"
  <1> USE DEF At, JobPhases
  <1>0. job[j] \in JobStates /\ 0 \in Nat /\ Len(alerts) + 1 \in Nat
    BY DEF TypeOK, JobStates
  <1>1. CASE StartJob(j)
    <2>1. CASE job[j].starts < MaxTries
      <3>1. [phase |-> "running", starts |-> job[j].starts + 1, id |-> 0] \in JobStates
        BY <1>0, <2>1, LifecycleAssumption DEF JobStates
      <3>2. job' = [job EXCEPT ![j] = [phase |-> "running", starts |-> job[j].starts + 1, id |-> 0]]
        BY <1>1, <2>1 DEF StartJob
      <3> QED
        BY <1>0, <3>1, <3>2 DEF TypeOK, JobStates
    <2>2. CASE ~(job[j].starts < MaxTries)
      BY <1>0, <1>1, <2>2, JobMoves DEF StartJob
    <2> QED
      BY <2>1, <2>2
  <1>2. CASE JobFails(j)
    BY <1>0, <1>2, JobMoves DEF JobFails
  <1>3. CASE CheckDuplicate(j)
    <2>1. HasActive(Key(j)) => WithKey(Key(j)) # {}
      BY DEF HasActive
    <2> QED
      BY <1>0, <1>3, <2>1, JobMoves DEF CheckDuplicate
  <1>4. CASE InsertAlert(j)
    BY <1>0, <1>4, JobMoves DEF InsertAlert, RaisesConflict, ViolatesUnique
  <1>5. CASE Notify(j)
    BY <1>0, <1>5, JobMoves DEF Notify
  <1>6. CASE WorkerDies(j)
    BY <1>0, <1>6, JobMoves DEF WorkerDies, AfterCrash
  <1> QED
    BY <1>1, <1>2, <1>3, <1>4, <1>5, <1>6 DEF JobStep

------------------------------------------------------------------------------
(* Type correctness. *)

\* A call that has loaded an alert names a row of the table.
CallsNameAlerts == \A c \in Calls : call[c].phase # "idle" => call[c].id \in Ids

TypeInv == TypeOK /\ CallsNameAlerts

LEMMA TypeInductive == Spec => []TypeInv
<1>1. Init => TypeInv
  <2> SUFFICES ASSUME Init PROVE TypeInv
    OBVIOUS
  <2>1. 0 \in 0..MaxTries
    BY LifecycleAssumption
  <2>2. job \in [Jobs -> [phase : JobPhases, starts : 0..MaxTries, id : Nat]]
    BY <2>1 DEF Init, JobPhases
  <2>3. alerts \in Seq(Rows)
    BY DEF Init
  <2> QED
    BY <2>2, <2>3 DEF Init, TypeInv, TypeOK, CallsNameAlerts, Bare, Statuses, Rows
<1>2. TypeInv /\ [Next]_vars => TypeInv'
  <2> SUFFICES ASSUME TypeInv, [Next]_vars PROVE TypeInv'
    OBVIOUS
  <2> USE DEF TypeInv
  <2>1. ASSUME NEW j \in Jobs, JobStep(j) \/ WorkerDies(j) PROVE TypeInv'
    <3>1. job' \in [Jobs -> JobStates]
      BY <2>1, JobTypes
    <3>2. alerts' \in Seq(Rows)
      BY <2>1, NewRow DEF TypeOK, Rows, JobStep, StartJob, JobFails, CheckDuplicate, InsertAlert,
                          Notify, WorkerDies
    <3>3. notices' \subseteq [alert : Nat, job : Jobs, start : 0..MaxTries]
      <4>1. [alert |-> job[j].id, job |-> j, start |-> job[j].starts]
               \in [alert : Nat, job : Jobs, start : 0..MaxTries]
        BY DEF TypeOK
      <4> QED
        BY <2>1, <4>1 DEF TypeOK, JobStep, StartJob, JobFails, CheckDuplicate, InsertAlert,
                          Notify, WorkerDies, Enqueue
    <3>4. call' = call
      BY <2>1 DEF JobStep, StartJob, JobFails, CheckDuplicate, InsertAlert, Notify, WorkerDies
    <3>5. Len(alerts) \in Nat /\ Len(alerts') \in Nat /\ Len(alerts') >= Len(alerts)
      BY <2>1, NewRow DEF JobStep, StartJob, JobFails, CheckDuplicate, InsertAlert, Notify, WorkerDies
    <3>6. CallsNameAlerts'
      BY <3>4, <3>5 DEF CallsNameAlerts, Ids
    <3> QED
      BY <3>1, <3>2, <3>3, <3>4, <3>6 DEF TypeOK, Rows, JobStates
  <2>2. ASSUME NEW c \in Calls, LoadAlert(c) PROVE TypeInv'
    <3>1. PICK i \in Ids : call' = [call EXCEPT ![c] = [phase |-> "loaded", id |-> i,
                                         seen |-> alerts[i].status, by |-> alerts[i].by]]
      BY <2>2 DEF LoadAlert
    <3>2. i \in Nat /\ alerts[i] \in Rows
      BY RowAt
    <3>3. alerts[i].status \in Statuses /\ alerts[i].by \in {User[a] : a \in Acks} \cup {Nobody}
      BY <3>2 DEF Rows
    <3>4. TypeOK'
      BY <2>2, <3>1, <3>2, <3>3 DEF TypeOK, LoadAlert
    <3>5. CallsNameAlerts'
      BY <2>2, <3>1 DEF TypeOK, CallsNameAlerts, LoadAlert, Ids
    <3> QED
      BY <3>4, <3>5
  <2>3. ASSUME NEW c \in Calls, CommitCall(c) PROVE TypeInv'
    <3>1. call[c].id \in Ids /\ call[c].id \in Nat
      BY <2>3, RowAt DEF CallsNameAlerts, CommitCall
    <3>2. alerts' \in Seq(Rows) /\ Len(alerts') = Len(alerts)
      BY <2>3, <3>1, CommitFacts
    <3>3. call' = [call EXCEPT ![c] = [phase |-> "done", id |-> call[c].id,
                                       seen |-> "active", by |-> Nobody]]
      BY <2>3 DEF CommitCall, Bare
    <3>4. TypeOK'
      BY <2>3, <3>1, <3>2, <3>3 DEF TypeOK, Rows, CommitCall, Statuses
    <3>5. CallsNameAlerts'
      BY <3>1, <3>2, <3>3 DEF TypeOK, CallsNameAlerts, Ids
    <3> QED
      BY <3>4, <3>5
  <2>4. CASE UNCHANGED vars
    BY <2>4 DEF vars, TypeOK, CallsNameAlerts, Ids
  <2> QED
    BY <2>1, <2>2, <2>3, <2>4 DEF Next, Terminated
<1> QED
  BY <1>1, <1>2, PTL DEF Spec

\* The tables, queues and calls only ever hold values the program can produce.
THEOREM TypeCorrect == Spec => []TypeOK
  BY TypeInductive, PTL DEF TypeInv

------------------------------------------------------------------------------
(* Safety.  Rows are only ever appended and keep their key; everything else  *)
(* follows from what a job knows about the row it inserted.                  *)

\* What a step can do to the table: append the row of a job that found the key
\* free, or commit a call; either way every row keeps its place and its key.
LEMMA TableSteps ==
    ASSUME TypeInv, [Next]_vars
    PROVE  /\ Len(alerts) \in Nat /\ Len(alerts') \in Nat /\ Len(alerts) <= Len(alerts')
           /\ \A i \in Ids : i \in Ids' /\ alerts'[i].key = alerts[i].key
           /\ \/ \E j \in Jobs : /\ InsertAlert(j)
                                 /\ ~ViolatesUnique(Key(j))
                                 /\ Len(alerts') = Len(alerts) + 1
                                 /\ alerts'[Len(alerts) + 1] = NewAlert(j)
                                 /\ \A i \in Ids : alerts'[i] = alerts[i]
              \/ \E c \in Calls : CommitCall(c) /\ Len(alerts') = Len(alerts)
              \/ alerts' = alerts
<1> USE DEF TypeInv
<1>1. Len(alerts) \in Nat
  BY RowAt
<1>2. ASSUME NEW j \in Jobs, InsertAlert(j), ~ViolatesUnique(Key(j))
      PROVE  /\ Len(alerts') = Len(alerts) + 1
             /\ alerts'[Len(alerts) + 1] = NewAlert(j)
             /\ \A i \in Ids : alerts'[i] = alerts[i]
  BY <1>2, NewRow DEF InsertAlert
<1>3. ASSUME NEW c \in Calls, CommitCall(c)
      PROVE  /\ Len(alerts') = Len(alerts)
             /\ \A i \in Ids : alerts'[i].key = alerts[i].key
  <2>1. call[c].id \in Ids
    BY <1>3 DEF CallsNameAlerts, CommitCall
  <2> QED
    BY <1>3, <2>1, CommitFacts
<1>4. \/ \E j \in Jobs : InsertAlert(j) /\ ~ViolatesUnique(Key(j))
      \/ \E c \in Calls : CommitCall(c)
      \/ alerts' = alerts
  BY DEF Next, JobStep, StartJob, JobFails, CheckDuplicate, InsertAlert, Notify, WorkerDies,
         LoadAlert, Terminated, vars
<1> QED
  BY <1>1, <1>2, <1>3, <1>4 DEF Ids

\* However checks and inserts of any number of jobs interleave, and however often
\* jobs are run again, the unique constraint leaves one alert per incident.
THEOREM IncidentsAreUnique == Spec => []OneAlertPerKey
<1>1. Init => OneAlertPerKey
  BY DEF Init, OneAlertPerKey, Ids
<1>2. TypeInv /\ OneAlertPerKey /\ [Next]_vars => OneAlertPerKey'
  <2> SUFFICES ASSUME TypeInv, OneAlertPerKey, [Next]_vars PROVE OneAlertPerKey'
    OBVIOUS
  <2>1. ASSUME NEW j \in Jobs, ~ViolatesUnique(Key(j)), Len(alerts') = Len(alerts) + 1,
               alerts'[Len(alerts) + 1] = NewAlert(j), \A i \in Ids : alerts'[i] = alerts[i]
        PROVE  OneAlertPerKey'
    <3>1. \A i \in Ids : alerts[i].key # Key(j)
      BY <2>1 DEF ViolatesUnique, WithKey
    <3>2. NewAlert(j).key = Key(j)
      BY DEF NewAlert
    <3>3. Ids' = Ids \cup {Len(alerts) + 1}
      BY <2>1, TableSteps DEF Ids
    <3> QED
      BY <2>1, <3>1, <3>2, <3>3 DEF OneAlertPerKey
  <2>2. ASSUME Len(alerts') = Len(alerts) PROVE OneAlertPerKey'
    <3>1. Ids' = Ids
      BY <2>2 DEF Ids
    <3> QED
      BY <3>1, TableSteps DEF OneAlertPerKey
  <2> QED
    BY <2>1, <2>2, TableSteps
<1> QED
  BY <1>1, <1>2, TypeInductive, PTL DEF Spec

\* A job that has inserted knows its own row, which nobody has announced and no
\* other job claims; every announcement is of a row.
InsertsAreOwned ==
    /\ \A n \in notices : n.alert \in Ids
    /\ \A j \in Jobs : job[j].phase = "inserted" =>
          /\ job[j].id \in Ids
          /\ alerts[job[j].id].key = Key(j)
          /\ \A n \in notices : n.alert # job[j].id
    /\ \A j, k \in Jobs :
          job[j].phase = "inserted" /\ job[k].phase = "inserted" /\ job[j].id = job[k].id => j = k

\* The job a step is about, and that the others and the calls stay as they are.
LEMMA Steps ==
    ASSUME TypeInv, [Next]_vars
    PROVE  \/ \E j \in Jobs : (JobStep(j) \/ WorkerDies(j)) /\ call' = call
           \/ \E c \in Calls : (LoadAlert(c) \/ CommitCall(c)) /\ job' = job /\ notices' = notices
           \/ UNCHANGED vars
  BY DEF Next, Terminated, JobStep, StartJob, JobFails, CheckDuplicate, InsertAlert, Notify,
         WorkerDies, LoadAlert, CommitCall

LEMMA InsertsInductive == Spec => []InsertsAreOwned
<1>1. Init => InsertsAreOwned
  BY DEF Init, InsertsAreOwned
<1>2. TypeInv /\ InsertsAreOwned /\ [Next]_vars => InsertsAreOwned'
  <2> SUFFICES ASSUME TypeInv, InsertsAreOwned, [Next]_vars PROVE InsertsAreOwned'
    OBVIOUS
  <2> USE DEF TypeInv
  <2>1. ASSUME job' = job, notices' = notices PROVE InsertsAreOwned'
    BY <2>1, TableSteps DEF InsertsAreOwned
  <2>2. ASSUME NEW j \in Jobs, InsertAlert(j), ~ViolatesUnique(Key(j)) PROVE InsertsAreOwned'
    <3>1. /\ job'[j].phase = "inserted" /\ job'[j].id = Len(alerts) + 1
          /\ \A k \in Jobs \ {j} : job'[k] = job[k]
      BY <2>2, RowAt, JobMoves DEF InsertAlert, JobPhases
    <3>2. /\ Len(alerts) \in Nat
          /\ Len(alerts') = Len(alerts) + 1
          /\ alerts'[Len(alerts) + 1].key = Key(j)
          /\ notices' = notices
      BY <2>2, NewRow DEF InsertAlert, NewAlert
    <3>3. Len(alerts) + 1 \notin Ids /\ Len(alerts) + 1 \in Ids'
      BY <3>2 DEF Ids
    <3> QED
      BY <3>1, <3>2, <3>3, TableSteps DEF InsertsAreOwned
  <2>3. ASSUME NEW j \in Jobs, JobStep(j) \/ WorkerDies(j), job'[j].phase # "inserted"
        PROVE  InsertsAreOwned'
    <3>1. \A k \in Jobs \ {j} : job'[k] = job[k]
      BY <2>3, JobTypes
    <3>2. \/ notices' = notices
          \/ /\ job[j].phase = "inserted"
             /\ notices' = notices \cup {[alert |-> job[j].id, job |-> j, start |-> job[j].starts]}
      BY <2>3 DEF JobStep, StartJob, JobFails, CheckDuplicate, InsertAlert, Notify, WorkerDies,
                  Enqueue, At
    <3>3. \A n \in notices' :
             /\ n.alert \in Ids
             /\ \/ n \in notices
                \/ n.alert = job[j].id /\ job[j].phase = "inserted"
      BY <3>2 DEF InsertsAreOwned
    <3> QED
      BY <2>3, <3>1, <3>3, TableSteps DEF InsertsAreOwned
  <2> QED
    BY <2>1, <2>2, <2>3, Steps, JobTypes DEF vars
<1> QED
  BY <1>1, <1>2, TypeInductive, PTL DEF Spec

\* Jobs run at least once announce an alert at most once.
THEOREM AnnouncedAtMostOnce == Spec => []NotifiedAtMostOnce
<1>1. Init => NotifiedAtMostOnce
  BY DEF Init, NotifiedAtMostOnce
<1>2. TypeInv /\ InsertsAreOwned /\ NotifiedAtMostOnce /\ [Next]_vars => NotifiedAtMostOnce'
  <2> SUFFICES ASSUME TypeInv, InsertsAreOwned, NotifiedAtMostOnce, [Next]_vars
               PROVE  NotifiedAtMostOnce'
    OBVIOUS
  <2>1. ASSUME NEW j \in Jobs, JobStep(j) \/ WorkerDies(j) PROVE NotifiedAtMostOnce'
    <3>1. \/ notices' = notices
          \/ /\ job[j].phase = "inserted"
             /\ notices' = notices \cup {[alert |-> job[j].id, job |-> j, start |-> job[j].starts]}
      BY <2>1 DEF JobStep, StartJob, JobFails, CheckDuplicate, InsertAlert, Notify, WorkerDies,
                  Enqueue, At
    <3> QED
      BY <3>1 DEF NotifiedAtMostOnce, InsertsAreOwned
  <2> QED
    BY <2>1, Steps DEF vars, NotifiedAtMostOnce
<1> QED
  BY <1>1, <1>2, TypeInductive, InsertsInductive, PTL DEF Spec

\* A job that suppressed its firing, or lost the race to insert, did so in favour of
\* an alert about the same rule and entity.
THEOREM FiringsAreOnRecord == Spec => []EndedIsOnRecord
<1> DEFINE OnRecord(j) == WithKey(Key(j)) # {}
           Recorded == \A j \in Jobs :
               job[j].phase \in {"created", "suppressed", "conflict", "unnotified"} => OnRecord(j)
<1>1. Init => Recorded
  BY DEF Init
<1>2. TypeInv /\ InsertsAreOwned /\ Recorded /\ [Next]_vars => Recorded'
  <2> SUFFICES ASSUME TypeInv, InsertsAreOwned, Recorded, [Next]_vars PROVE Recorded'
    OBVIOUS
  <2>1. \A k : WithKey(k) # {} => WithKey(k)' # {}
    <3> SUFFICES ASSUME NEW k, NEW i \in WithKey(k) PROVE i \in WithKey(k)'
      BY DEF WithKey
    <3> QED
      BY TableSteps DEF WithKey
  <2>2. ASSUME NEW j \in Jobs, JobStep(j) \/ WorkerDies(j) PROVE Recorded'
    <3>1. \A k \in Jobs \ {j} : job'[k] = job[k]
      BY <2>2, JobTypes DEF TypeInv
    <3>2. job[j].phase = "inserted" => OnRecord(j)
      BY DEF InsertsAreOwned, WithKey
    <3>3. job'[j].phase \in {"created", "suppressed", "conflict", "unnotified"} => OnRecord(j)
      BY <2>2, <3>2, JobTypes DEF TypeInv
    <3> QED
      BY <2>1, <3>1, <3>3
  <2> QED
    BY <2>1, <2>2, Steps DEF vars
<1>3. Recorded => EndedIsOnRecord
  <2>1. \A j \in Jobs : Key(j).rule = Firing[j].rule /\ Key(j).entity = Firing[j].entity
    BY DEF Key, DedupKey
  <2>2. \A k : WithKey(k) # {} => \E i \in Ids : alerts[i].key = k
    BY DEF WithKey
  <2> QED
    BY <2>1, <2>2 DEF EndedIsOnRecord
<1> QED
  BY <1>1, <1>2, <1>3, TypeInductive, InsertsInductive, PTL DEF Spec

\* What a call has read of its row is no more than the row still holds: a time and
\* an attribution, once there, stay.
ReadsStillHold ==
    /\ \A i \in Ids : /\ alerts[i].status = "resolved" => alerts[i].stamped
                      /\ alerts[i].status = "acknowledged" => alerts[i].by # Nobody
    /\ \A c \in Calls : call[c].phase = "loaded" =>
          /\ call[c].by # Nobody => alerts[call[c].id].by # Nobody
          /\ call[c].seen = "acknowledged" => alerts[call[c].id].by # Nobody
          /\ call[c].seen = "resolved" => alerts[call[c].id].stamped

\* A commit adds to the row's time and attribution and removes neither.
LEMMA CommitAdds ==
    ASSUME TypeInv, ReadsStillHold, NEW c \in Calls, CommitCall(c)
    PROVE  /\ call[c].id \in Ids /\ Len(alerts') = Len(alerts)
           /\ \A i \in Ids :
                /\ i # call[c].id => alerts'[i] = alerts[i]
                /\ alerts[i].by # Nobody => alerts'[i].by # Nobody
                /\ alerts[i].stamped => alerts'[i].stamped
           /\ alerts'[call[c].id].status = "resolved" => alerts'[call[c].id].stamped
           /\ alerts'[call[c].id].status = "acknowledged" => alerts'[call[c].id].by # Nobody
           /\ IF c \in Acks THEN alerts'[call[c].id].by # Nobody ELSE alerts'[call[c].id].stamped
<1> DEFINE id == call[c].id
           row == alerts[id]
           new == alerts'[id]
<1>1. id \in Ids /\ row \in Rows
  BY RowAt DEF TypeInv, CallsNameAlerts, CommitCall
<1>2. /\ Len(alerts') = Len(alerts)
      /\ \A i \in Ids : i # id => alerts'[i] = alerts[i]
      /\ new = IF c \in Acks THEN Acknowledged(row, call[c], User[c]) ELSE Resolved(row, call[c])
  BY <1>1, CommitFacts DEF TypeInv
<1>3. call[c].phase = "loaded"
  BY DEF CommitCall
<1>4. CASE c \in Acks
  <2>1. /\ new.status = Written("acknowledged", call[c].seen, row.status)
        /\ new.by = Written(User[c], call[c].by, row.by)
        /\ new.stamped = row.stamped
    BY <1>1, <1>2, <1>4 DEF Acknowledged, Rows
  <2>2. new.by # Nobody
    BY <1>1, <1>3, <1>4, <2>1, LifecycleAssumption DEF Written, ReadsStillHold
  <2>3. new.status = "resolved" => new.stamped
    BY <1>1, <2>1 DEF Written, ReadsStillHold
  <2> QED
    BY <1>1, <1>2, <1>4, <2>1, <2>2, <2>3
<1>5. CASE c \notin Acks
  <2>1. new.stamped = TRUE /\ new.by = row.by
    BY <1>1, <1>2, <1>5 DEF Resolved, Rows
  <2>2. new.status = Written("resolved", call[c].seen, row.status)
    BY <1>1, <1>2, <1>5 DEF Resolved, Rows
  <2>3. new.status = "acknowledged" => new.by # Nobody
    BY <1>1, <2>1, <2>2 DEF Written, ReadsStillHold
  <2> QED
    BY <1>1, <1>2, <1>5, <2>1, <2>3
<1> QED
  BY <1>4, <1>5

\* Concurrent acknowledge and resolve calls do not undo each other.
THEOREM CallsAreNotLost == Spec => []CallsTakeEffect
<1> DEFINE Inv == ReadsStillHold /\ CallsTakeEffect
<1>1. Init => Inv
  BY DEF Init, ReadsStillHold, CallsTakeEffect, Ids, Bare
<1>2. TypeInv /\ Inv /\ [Next]_vars => Inv'
  <2> SUFFICES ASSUME TypeInv, Inv, [Next]_vars PROVE Inv'
    OBVIOUS
  <2> USE DEF ReadsStillHold, CallsTakeEffect
  <2>1. ASSUME NEW c \in Calls, CommitCall(c) PROVE Inv'
    <3>1. call' = [call EXCEPT ![c] = Bare("done", call[c].id)]
      BY <2>1 DEF CommitCall, TypeInv, TypeOK
    <3>2. /\ call'[c].phase = "done" /\ call'[c].id = call[c].id
          /\ \A d \in Calls \ {c} : call'[d] = call[d]
      BY <3>1 DEF Bare, TypeInv, TypeOK
    <3>3. Ids' = Ids
      BY <2>1, CommitAdds DEF Ids
    <3>4. \A d \in Calls : call[d].phase # "idle" => call[d].id \in Ids
      BY DEF TypeInv, CallsNameAlerts
    <3> QED
      BY <2>1, <3>2, <3>3, <3>4, CommitAdds
  <2>2. ASSUME NEW c \in Calls, LoadAlert(c) PROVE Inv'
    <3>1. PICK i \in Ids : call' = [call EXCEPT ![c] = [phase |-> "loaded", id |-> i,
                                         seen |-> alerts[i].status, by |-> alerts[i].by]]
      BY <2>2 DEF LoadAlert
    <3> QED
      BY <2>2, <3>1 DEF LoadAlert, TypeInv, TypeOK, Ids
  <2>3. ASSUME NEW j \in Jobs, JobStep(j) \/ WorkerDies(j), call' = call PROVE Inv'
    <3>1. CASE alerts' = alerts
      BY <2>3, <3>1 DEF Ids
    <3>2. CASE InsertAlert(j) /\ ~ViolatesUnique(Key(j))
      <4>1. /\ Len(alerts) \in Nat /\ Len(alerts') = Len(alerts) + 1
            /\ alerts'[Len(alerts) + 1] = NewAlert(j)
            /\ \A i \in Ids : alerts'[i] = alerts[i]
        BY <3>2, NewRow DEF InsertAlert, TypeInv
      <4>2. Ids' = Ids \cup {Len(alerts) + 1}
        BY <4>1 DEF Ids
      <4>3. NewAlert(j).status = "active"
        BY DEF NewAlert
      <4>4. \A d \in Calls : call[d].phase # "idle" => call[d].id \in Ids
        BY DEF TypeInv, CallsNameAlerts
      <4> QED
        BY <2>3, <4>1, <4>2, <4>3, <4>4 DEF TypeInv, TypeOK
    <3> QED
      BY <2>3, <3>1, <3>2 DEF JobStep, StartJob, JobFails, CheckDuplicate, InsertAlert, Notify,
                              WorkerDies
  <2> QED
    BY <2>1, <2>2, <2>3, Steps DEF vars, Ids
<1> QED
  BY <1>1, <1>2, TypeInductive, PTL DEF Spec

==============================================================================
