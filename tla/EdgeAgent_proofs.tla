--------------------------- MODULE EdgeAgent_proofs ---------------------------
(***************************************************************************)
(* Proofs about EdgeAgent, for every queue size, number of events and      *)
(* number of restarts.  The argument has three layers.  Order needs only   *)
(* what each operation does to one sequence.  The absence of losses needs  *)
(* in addition that a batch in flight is still a prefix of the queue,      *)
(* which holds because stop() joins the loop before its own sync (one sync *)
(* at a time) and because nothing was evicted under the batch.  Where      *)
(* something was, the queue is the batch shifted by the evictions, each of *)
(* which pays for one event the trim takes too much; and since nothing the *)
(* equipment may still count on is taken without that account, the agent   *)
(* implements EventBuffer.                                                 *)
(***************************************************************************)
EXTENDS EdgeAgent, SequenceTheorems, FiniteSetTheorems, TLAPS

------------------------------------------------------------------------------
(* What the operations on the queue return. *)

LEMMA AdmitFacts ==
    ASSUME NEW q \in Seq(Events), NEW e \in Events, Len(q) <= MaxQueueSize
    PROVE  /\ Admit(q, e) \in Seq(Events)
           /\ Len(Admit(q, e)) <= MaxQueueSize
           /\ Len(Admit(q, e)) \in Nat \ {0}
           /\ Admit(q, e)[Len(Admit(q, e))] = e
           /\ Len(q) < MaxQueueSize => Admit(q, e) = Append(q, e)
           /\ \E k \in {0, 1} :
                /\ Len(Admit(q, e)) = Len(q) + 1 - k
                /\ \A i \in 1..(Len(Admit(q, e)) - 1) : Admit(q, e)[i] = q[i + k]
<1>1. CASE Len(q) < MaxQueueSize
  BY <1>1, EdgeAssumption DEF Admit
<1>2. CASE Len(q) >= MaxQueueSize
  <2>1. q # <<>> /\ Len(q) \in Nat /\ Len(q) >= 1
    BY <1>2, EdgeAssumption
  <2>2. /\ Tail(q) \in Seq(Events)
        /\ Len(Tail(q)) = Len(q) - 1
        /\ \A i \in 1..(Len(q) - 1) : Tail(q)[i] = q[i + 1]
    BY <2>1
  <2>3. Admit(q, e) = Append(Tail(q), e)
    BY <1>2 DEF Admit
  <2>4. /\ Len(Admit(q, e)) = Len(q)
        /\ Admit(q, e) \in Seq(Events)
        /\ \A i \in 1..(Len(q) - 1) : Admit(q, e)[i] = q[i + 1]
        /\ Admit(q, e)[Len(q)] = e
    BY <2>1, <2>2, <2>3
  <2> QED BY <1>2, <2>1, <2>4, EdgeAssumption
<1> QED BY <1>1, <1>2, EdgeAssumption

LEMMA TrimFacts ==
    ASSUME NEW q \in Seq(Events), NEW b \in Seq(Events)
    PROVE  /\ Trim(q, b) \in Seq(Events)
           /\ Len(Trim(q, b)) = IF Len(b) <= Len(q) THEN Len(q) - Len(b) ELSE 0
           /\ \A i \in 1..Len(Trim(q, b)) : Trim(q, b)[i] = q[i + Len(b)]
<1>1. \A i \in (Len(b) + 1)..Len(q) : q[i] \in Events
  OBVIOUS
<1>2. /\ SubSeq(q, Len(b) + 1, Len(q)) \in Seq(Events)
      /\ Len(SubSeq(q, Len(b) + 1, Len(q))) =
            IF Len(b) + 1 <= Len(q) THEN Len(q) - (Len(b) + 1) + 1 ELSE 0
      /\ \A i \in 1..(Len(q) - (Len(b) + 1) + 1) :
            SubSeq(q, Len(b) + 1, Len(q))[i] = q[Len(b) + 1 + i - 1]
  BY <1>1, SubSeqProperties
<1> QED BY <1>2 DEF Trim

------------------------------------------------------------------------------
(* Type correctness. *)

LEMMA TypeStep == TypeOK /\ [Next]_vars => TypeOK'
<1> SUFFICES ASSUME TypeOK, [Next]_vars PROVE TypeOK'
  OBVIOUS
<1> USE DEF TypeOK
<1>0. <<>> \in Seq(Events) /\ Len(<<>>) <= MaxQueueSize
  BY EdgeAssumption
<1>1. ASSUME NEW q \in Seq(Events), Len(q) <= MaxQueueSize, Persist(q)
      PROVE  /\ disk' = Corrupt \/ (disk' \in Seq(Events) /\ Len(disk') <= MaxQueueSize)
             /\ damaged' \in BOOLEAN
  BY <1>1 DEF Persist
<1>2. CASE IngestEvent
  <2>1. accepted' \in Events /\ accepted' \in 0..MaxEvents
    BY <1>2, EdgeAssumption DEF IngestEvent, Events
  <2>2. queue' \in Seq(Events) /\ Len(queue') <= MaxQueueSize
    BY <1>2, <2>1, AdmitFacts DEF IngestEvent
  <2>3. evicted' \in SUBSET Events
    <3>1. CASE Len(queue) >= MaxQueueSize
      <4>1. queue # <<>> /\ Head(queue) \in Events
        BY <3>1, EdgeAssumption
      <4> QED BY <1>2, <3>1, <4>1 DEF IngestEvent
    <3> QED BY <1>2, <3>1 DEF IngestEvent
  <2> QED BY <1>2, <1>1, <2>1, <2>2, <2>3 DEF IngestEvent, process
<1>3. ASSUME NEW t \in Tasks, BeginSync(t) PROVE TypeOK'
  BY <1>3 DEF BeginSync, AfterSync, Phases, process, history
<1>4. ASSUME NEW t \in Tasks, SendBatch(t) PROVE TypeOK'
  BY <1>4 DEF SendBatch, Phases, process, history
<1>5. ASSUME NEW t \in Tasks, CloudCommits(t) PROVE TypeOK'
  <2>1. Elems(wire[t]) \subseteq Events
    BY DEF Elems
  <2> QED BY <1>5, <1>0, <2>1 DEF CloudCommits, NoRequest, process, history
<1>6. ASSUME NEW t \in Tasks, SyncSucceeds(t) PROVE TypeOK'
  <2>1. queue' \in Seq(Events) /\ Len(queue') <= MaxQueueSize
    BY <1>6, TrimFacts, EdgeAssumption DEF SyncSucceeds
  <2> QED BY <1>6, <1>0, <1>1, <2>1 DEF SyncSucceeds, AfterSync, Phases, process, history
<1>7. ASSUME NEW t \in Tasks, SyncFails(t) PROVE TypeOK'
  BY <1>7, <1>0 DEF SyncFails, Retained, AfterSync, Phases, process, history
<1>8. ASSUME NEW s \in Stops, Stop(s) PROVE TypeOK'
  BY <1>8 DEF Stop, Signalled, Cancelled, Phases, history, Tasks
<1>9. ASSUME NEW s \in Stops, FinishStop(s) PROVE TypeOK'
  BY <1>9, <1>1 DEF FinishStop, Phases, process, history, Tasks
<1>10. ASSUME NEW s \in Stops, StopDies(s) PROVE TypeOK'
  BY <1>10, <1>0 DEF StopDies, Phases, process, history, Tasks
<1>11. CASE LoopEnds
  BY <1>11, <1>0 DEF LoopEnds, Phases, process, history, Tasks
<1>12. CASE RunReturns
  BY <1>12, <1>0 DEF RunReturns, Phases, history, Tasks
<1>13. CASE Exit
  BY <1>13, <1>0, EdgeAssumption DEF Exit, ProcessEnds, Phases, history, Tasks
<1>14. CASE Crash
  BY <1>14, <1>0, EdgeAssumption DEF Crash, ProcessEnds, Phases, history, Tasks
<1>15. CASE Restart
  <2>1. pc' \in [Tasks -> Phases]
    BY <1>15 DEF Restart, Phases
  <2>2. queue' \in Seq(Events) /\ Len(queue') <= MaxQueueSize
    BY <1>15, <1>0 DEF Restart, Restored
  <2>3. restarts' \in 0..MaxRestarts
    BY <1>15, EdgeAssumption DEF Restart
  <2> QED BY <1>15, <2>1, <2>2, <2>3 DEF Restart, history
<1>16. CASE UNCHANGED vars
  BY <1>16 DEF vars, process, history
<1> QED BY <1>2, <1>3, <1>4, <1>5, <1>6, <1>7, <1>8, <1>9, <1>10, <1>11, <1>12,
           <1>13, <1>14, <1>15, <1>16 DEF Next

\* Every value of a variable is one the program can hold; in particular neither the
\* queue nor the file ever exceeds max_queue_size.
THEOREM TypeCorrect == Spec => []TypeOK
<1>1. Init => TypeOK
  <2> SUFFICES ASSUME Init PROVE TypeOK
    OBVIOUS
  <2>1. <<>> \in Seq(Events) /\ Len(<<>>) <= MaxQueueSize
    BY EdgeAssumption
  <2>2. pc \in [Tasks -> Phases]
    BY DEF Init, Phases
  <2>3. queue \in Seq(Events) /\ Len(queue) <= MaxQueueSize
    BY <2>1 DEF Init
  <2>4. disk \in Seq(Events) /\ Len(disk) <= MaxQueueSize
    BY <2>1 DEF Init
  <2>5. batch \in [Tasks -> Seq(Events)] /\ wire \in [Tasks -> Seq(Events)]
    BY <2>1 DEF Init, NoRequest
  <2>6. accepted \in 0..MaxEvents /\ restarts \in 0..MaxRestarts
    BY EdgeAssumption DEF Init
  <2>7. /\ up \in BOOLEAN /\ running \in BOOLEAN /\ returned \in BOOLEAN
        /\ damaged \in BOOLEAN /\ evicted \in SUBSET Events /\ cloud \in SUBSET Events
    BY DEF Init
  <2> QED BY <2>2, <2>3, <2>4, <2>5, <2>6, <2>7 DEF TypeOK
<1> QED BY <1>1, TypeStep, PTL DEF Spec

------------------------------------------------------------------------------
(* Order. *)

FileInOrder == disk # Corrupt => Ascending(disk, accepted)

OrderInv == Ascending(queue, accepted) /\ FileInOrder

LEMMA AscendingEmpty ==
    ASSUME NEW n \in Nat
    PROVE  Ascending(<<>>, n)
BY DEF Ascending

LEMMA ElementsAreNat ==
    ASSUME NEW q \in Seq(Events), NEW i \in 1..Len(q)
    PROVE  q[i] \in Nat
<1>1. q[i] \in Events
  OBVIOUS
<1> QED BY <1>1, EdgeAssumption DEF Events

LEMMA AscendingMore ==
    ASSUME NEW q \in Seq(Events), NEW n \in Nat, Ascending(q, n)
    PROVE  Ascending(q, n + 1)
<1>1. ASSUME NEW i \in 1..Len(q) PROVE q[i] <= n + 1
  <2>1. q[i] \in Nat /\ q[i] <= n
    BY ElementsAreNat DEF Ascending
  <2> QED BY <2>1
<1> QED BY <1>1 DEF Ascending

LEMMA AscendingAdmit ==
    ASSUME NEW q \in Seq(Events), Len(q) <= MaxQueueSize,
           NEW n \in Nat, n + 1 \in Events, Ascending(q, n)
    PROVE  Ascending(Admit(q, n + 1), n + 1)
<1> DEFINE a == Admit(q, n + 1)
<1>1. /\ a \in Seq(Events) /\ Len(a) \in Nat \ {0} /\ a[Len(a)] = n + 1
      /\ \E k \in {0, 1} : /\ Len(a) = Len(q) + 1 - k
                           /\ \A i \in 1..(Len(a) - 1) : a[i] = q[i + k]
  BY AdmitFacts
<1>2. PICK k \in {0, 1} : /\ Len(a) = Len(q) + 1 - k
                          /\ \A i \in 1..(Len(a) - 1) : a[i] = q[i + k]
  BY <1>1
<1>3. ASSUME NEW i \in 1..(Len(a) - 1) PROVE a[i] <= n /\ a[i] = q[i + k]
  BY <1>2, <1>1 DEF Ascending
<1>4. ASSUME NEW i \in 1..Len(a), NEW j \in 1..Len(a), i < j PROVE a[i] < a[j]
  <2>1. CASE j = Len(a)
    <3>1. i \in 1..(Len(a) - 1)
      BY <1>1, <1>4, <2>1
    <3>2. a[i] \in Nat /\ a[i] <= n
      BY <1>1, <1>3, <3>1, ElementsAreNat
    <3> QED BY <1>1, <2>1, <3>2
  <2>2. CASE j # Len(a)
    <3>1. i \in 1..(Len(a) - 1) /\ j \in 1..(Len(a) - 1)
      BY <1>1, <1>4, <2>2
    <3>2. i + k \in 1..Len(q) /\ j + k \in 1..Len(q) /\ i + k < j + k
      BY <1>1, <1>2, <1>4, <3>1
    <3> QED BY <1>3, <3>1, <3>2 DEF Ascending
  <2> QED BY <2>1, <2>2
<1>5. ASSUME NEW i \in 1..Len(a) PROVE a[i] <= n + 1
  <2>1. a[i] \in Nat
    BY <1>1, ElementsAreNat
  <2>2. CASE i = Len(a)
    BY <1>1, <2>2
  <2>3. CASE i # Len(a)
    <3>1. i \in 1..(Len(a) - 1)
      BY <1>1, <2>3
    <3>2. a[i] <= n
      BY <1>3, <3>1
    <3> QED BY <2>1, <3>2
  <2> QED BY <2>2, <2>3
<1> QED BY <1>4, <1>5 DEF Ascending

LEMMA AscendingTrim ==
    ASSUME NEW q \in Seq(Events), NEW b \in Seq(Events), NEW n \in Nat, Ascending(q, n)
    PROVE  Ascending(Trim(q, b), n)
<1> DEFINE r == Trim(q, b)
<1>1. /\ r \in Seq(Events)
      /\ Len(r) = IF Len(b) <= Len(q) THEN Len(q) - Len(b) ELSE 0
      /\ \A i \in 1..Len(r) : r[i] = q[i + Len(b)]
  BY TrimFacts
<1>2. \A i \in 1..Len(r) : i + Len(b) \in 1..Len(q)
  BY <1>1
<1>3. \A i, j \in 1..Len(r) : i < j => i + Len(b) < j + Len(b)
  BY <1>1
<1> HIDE DEF r
<1> QED BY <1>1, <1>2, <1>3 DEF Ascending, r

LEMMA PersistOrder ==
    ASSUME NEW q, Persist(q), Ascending(q, accepted'), disk # Corrupt => Ascending(disk, accepted')
    PROVE  FileInOrder'
BY DEF Persist, FileInOrder

LEMMA OrderInductive == TypeOK /\ OrderInv /\ [Next]_vars => OrderInv'
<1> SUFFICES ASSUME TypeOK, OrderInv, [Next]_vars PROVE OrderInv'
  OBVIOUS
<1>0. /\ accepted \in Nat /\ queue \in Seq(Events) /\ Len(queue) <= MaxQueueSize
      /\ Ascending(queue, accepted)
      /\ disk # Corrupt => disk \in Seq(Events) /\ Ascending(disk, accepted)
  BY DEF TypeOK, OrderInv, FileInOrder
<1>1. ASSUME UNCHANGED <<queue, disk, accepted>> PROVE OrderInv'
  BY <1>0, <1>1 DEF OrderInv, FileInOrder
<1>2. ASSUME UNCHANGED <<queue, accepted>>, Persist(queue) PROVE OrderInv'
  BY <1>0, <1>2, PersistOrder DEF OrderInv
<1>3. CASE IngestEvent
  <2>1. /\ accepted' = accepted + 1 /\ accepted' \in Events
        /\ queue' = Admit(queue, accepted') /\ Persist(queue')
    BY <1>0, <1>3, EdgeAssumption DEF IngestEvent, Events
  <2>2. Ascending(queue', accepted')
    BY <1>0, <2>1, AscendingAdmit
  <2>3. disk # Corrupt => Ascending(disk, accepted')
    BY <1>0, <2>1, AscendingMore
  <2> QED BY <2>1, <2>2, <2>3, PersistOrder DEF OrderInv
<1>4. ASSUME NEW t \in Tasks, SyncSucceeds(t) PROVE OrderInv'
  <2>1. batch[t] \in Seq(Events)
    BY DEF TypeOK
  <2>2. Ascending(queue', accepted') /\ Persist(queue') /\ UNCHANGED accepted
    BY <1>0, <1>4, <2>1, AscendingTrim DEF SyncSucceeds, history
  <2> QED BY <1>0, <2>2, PersistOrder DEF OrderInv
<1>5. ASSUME ProcessEnds, disk' \in {disk, Corrupt} PROVE OrderInv'
  <2>1. queue' = <<>> /\ UNCHANGED accepted
    BY <1>5 DEF ProcessEnds, history
  <2> QED BY <1>0, <1>5, <2>1, AscendingEmpty DEF OrderInv, FileInOrder
<1>6. CASE Restart
  <2>1. queue' = Restored /\ UNCHANGED <<disk, accepted>>
    BY <1>6 DEF Restart, history
  <2> QED BY <1>0, <2>1, AscendingEmpty DEF Restored, OrderInv, FileInOrder
<1>7. CASE Exit
  BY <1>5, <1>7 DEF Exit
<1>8. CASE Crash
  BY <1>5, <1>8 DEF Crash
<1>9. ASSUME NEW t \in Tasks,
             BeginSync(t) \/ SendBatch(t) \/ CloudCommits(t) \/ SyncFails(t)
      PROVE  OrderInv'
  BY <1>1, <1>9
     DEF BeginSync, SendBatch, CloudCommits, SyncFails, Retained, history
<1>10. ASSUME NEW s \in Stops, Stop(s) \/ StopDies(s) PROVE OrderInv'
  BY <1>1, <1>10 DEF Stop, Signalled, StopDies, history
<1>11. ASSUME NEW s \in Stops, FinishStop(s) PROVE OrderInv'
  BY <1>2, <1>11 DEF FinishStop, history
<1>12. CASE LoopEnds \/ RunReturns
  BY <1>1, <1>12 DEF LoopEnds, RunReturns, history
<1>13. CASE UNCHANGED vars
  BY <1>1, <1>13 DEF vars, history
<1> QED BY <1>3, <1>4, <1>6, <1>7, <1>8, <1>9, <1>10, <1>11, <1>12, <1>13 DEF Next

\* The queue, in memory or on disk, is in acceptance order and repeats nothing,
\* for any number of evictions, syncs, crashes and failed writes.
THEOREM StaysInOrder == Spec => []QueueInOrder
<1>1. Init => OrderInv
  BY AscendingEmpty DEF Init, OrderInv, FileInOrder
<1>2. TypeOK /\ OrderInv => QueueInOrder
  BY AscendingEmpty DEF OrderInv, FileInOrder, QueueInOrder, Buffer, Restored, TypeOK
<1> QED BY <1>1, <1>2, OrderInductive, TypeCorrect, PTL DEF Spec

------------------------------------------------------------------------------
(* One sync at a time. *)

JoinInv == \A s \in Stops : pc[s] \in Suspended => pc[Loop] \in {"none", "done"}

LEMMA JoinInductive == TypeOK /\ JoinInv /\ [Next]_vars => JoinInv'
<1> SUFFICES ASSUME TypeOK, JoinInv, [Next]_vars, NEW s \in Stops, pc'[s] \in Suspended
             PROVE  pc'[Loop] \in {"none", "done"}
  BY DEF JoinInv
<1>0. /\ s \in Tasks /\ Loop \in Tasks /\ s # Loop
      /\ pc \in [Tasks -> Phases]
      /\ pc[s] \in Suspended => pc[Loop] \in {"none", "done"}
  BY EdgeAssumption DEF Tasks, TypeOK, JoinInv
<1> USE <1>0 DEF Suspended
<1>1. CASE UNCHANGED pc
  BY <1>1
<1>2. ASSUME NEW t \in Tasks, BeginSync(t) PROVE pc'[Loop] \in {"none", "done"}
  <2>1. CASE t = Loop
    BY <1>2, <2>1 DEF BeginSync, AfterSync
  <2>2. CASE t # Loop
    BY <1>2, <2>2 DEF BeginSync, AfterSync, LoopIsOver, Tasks
  <2> QED BY <2>1, <2>2
<1>3. ASSUME NEW t \in Tasks, SendBatch(t) PROVE pc'[Loop] \in {"none", "done"}
  BY <1>3 DEF SendBatch
<1>4. ASSUME NEW t \in Tasks, SyncSucceeds(t) \/ SyncFails(t)
      PROVE  pc'[Loop] \in {"none", "done"}
  BY <1>4 DEF SyncSucceeds, SyncFails, AfterSync
<1>5. ASSUME NEW u \in Stops, Stop(u) \/ FinishStop(u) \/ StopDies(u)
      PROVE  pc'[Loop] \in {"none", "done"}
  <2>1. u \in Tasks /\ u # Loop
    BY EdgeAssumption DEF Tasks
  <2> QED BY <1>5, <2>1 DEF Stop, Signalled, Cancelled, FinishStop, StopDies
<1>6. CASE LoopEnds \/ RunReturns \/ Exit \/ Crash
  BY <1>6 DEF LoopEnds, RunReturns, Exit, Crash, ProcessEnds
<1>7. CASE Restart
  BY <1>7 DEF Restart
<1>8. CASE IngestEvent \/ (\E t \in Tasks : CloudCommits(t)) \/ UNCHANGED vars
  BY <1>1, <1>8 DEF IngestEvent, CloudCommits, vars
<1> QED BY <1>2, <1>3, <1>4, <1>5, <1>6, <1>7, <1>8 DEF Next

\* With one signal in a life, the flush of stop() waits until the sync loop is out of
\* its sync, so at most one task is ever between the snapshot and the trim.
THEOREM SyncsAreExclusive == SingleSignal => (Spec => []OneSyncAtATime)
<1> SUFFICES ASSUME SingleSignal PROVE Spec => []OneSyncAtATime
  OBVIOUS
<1>1. Init => JoinInv
  BY EdgeAssumption DEF Init, JoinInv, Suspended, Tasks
<1>2. JoinInv => OneSyncAtATime
  BY DEF JoinInv, OneSyncAtATime, SingleSignal, Suspended, Tasks
<1> QED BY <1>1, <1>2, JoinInductive, TypeCorrect, PTL DEF Spec

------------------------------------------------------------------------------
(* No loss without eviction. *)

PrefixOf(b, q) == Len(b) <= Len(q) /\ \A i \in 1..Len(b) : q[i] = b[i]

\* What is known of a batch while its sync is suspended in the POST.
InFlight(t) ==
    /\ wire[t] # NoRequest => wire[t] = batch[t]
    /\ wire[t] = NoRequest => Elems(batch[t]) \subseteq cloud
    /\ evicted = {} => PrefixOf(batch[t], queue)

FlightInv == \A t \in Tasks : pc[t] = "post" => InFlight(t)

FileInv == ~damaged => disk # Corrupt /\ (up => disk = queue)

CoveredInv ==
    ~damaged /\ evicted = {} => \A e \in 1..accepted : e \in Elems(Buffer) \cup cloud

LEMMA PrefixOfAdmit ==
    ASSUME NEW b \in Seq(Events), NEW q \in Seq(Events), NEW e \in Events, PrefixOf(b, q),
           Len(q) < MaxQueueSize
    PROVE  PrefixOf(b, Admit(q, e)) /\ Elems(Admit(q, e)) = Elems(q) \cup {e}
<1>1. Admit(q, e) = Append(q, e)
  BY EdgeAssumption DEF Admit
<1>2. /\ Len(Append(q, e)) = Len(q) + 1
      /\ \A i \in 1..Len(q) : Append(q, e)[i] = q[i]
      /\ Append(q, e)[Len(q) + 1] = e
  OBVIOUS
<1>3. Elems(Append(q, e)) \subseteq Elems(q) \cup {e}
  BY <1>2 DEF Elems
<1>4. Elems(q) \cup {e} \subseteq Elems(Append(q, e))
  <2>1. ASSUME NEW i \in 1..Len(q) PROVE q[i] \in Elems(Append(q, e))
    BY <1>2, <2>1 DEF Elems
  <2>2. e \in Elems(Append(q, e))
    BY <1>2 DEF Elems
  <2> QED BY <2>1, <2>2 DEF Elems
<1> QED BY <1>1, <1>2, <1>3, <1>4 DEF PrefixOf

LEMMA TrimPrefix ==
    ASSUME NEW b \in Seq(Events), NEW q \in Seq(Events), PrefixOf(b, q)
    PROVE  Elems(q) = Elems(b) \cup Elems(Trim(q, b))
<1> DEFINE r == Trim(q, b)
<1>1. /\ Len(r) = Len(q) - Len(b)
      /\ \A i \in 1..Len(r) : r[i] = q[i + Len(b)]
  BY TrimFacts DEF PrefixOf
<1> HIDE DEF r
<1>2. ASSUME NEW i \in 1..Len(q) PROVE q[i] \in Elems(b) \cup Elems(r)
  <2>1. CASE i <= Len(b)
    BY <2>1 DEF Elems, PrefixOf
  <2>2. CASE i > Len(b)
    <3>1. i - Len(b) \in 1..Len(r) /\ r[i - Len(b)] = q[i]
      BY <1>1, <2>2
    <3> QED BY <3>1 DEF Elems
  <2> QED BY <2>1, <2>2
<1>3. ASSUME NEW i \in 1..Len(b) PROVE b[i] \in Elems(q)
  BY DEF Elems, PrefixOf
<1>4. ASSUME NEW i \in 1..Len(r) PROVE r[i] \in Elems(q)
  <2>1. i + Len(b) \in 1..Len(q)
    BY <1>1
  <2> QED BY <1>1, <2>1 DEF Elems
<1>5. Elems(q) \subseteq Elems(b) \cup Elems(r)
  BY <1>2 DEF Elems
<1>6. Elems(b) \cup Elems(r) \subseteq Elems(q)
  BY <1>3, <1>4 DEF Elems
<1> QED BY <1>5, <1>6 DEF r

LEMMA NoEvictionNeeded ==
    ASSUME TypeOK, IngestEvent, evicted' = {}
    PROVE  evicted = {} /\ Len(queue) < MaxQueueSize
<1>1. Len(queue) \in Nat
  BY DEF TypeOK
<1>2. ~(Len(queue) >= MaxQueueSize)
  <2> SUFFICES ASSUME Len(queue) >= MaxQueueSize PROVE FALSE
    OBVIOUS
  <2>1. evicted' = evicted \cup {Head(queue)}
    BY DEF IngestEvent
  <2>2. Head(queue) \in evicted'
    BY <2>1
  <2> QED BY <2>2
<1>3. evicted' = evicted
  BY <1>2 DEF IngestEvent
<1> QED BY <1>1, <1>2, <1>3, EdgeAssumption

LEMMA FileInductive == TypeOK /\ FileInv /\ [Next]_vars => FileInv'
<1> SUFFICES ASSUME TypeOK, FileInv, [Next]_vars PROVE FileInv'
  OBVIOUS
<1>0. ASSUME NEW q \in Seq(Events), Persist(q), queue' = q PROVE FileInv'
  <2>1. q # Corrupt
    <3>1. q \in Seq(Nat)
      BY EdgeAssumption DEF Events
    <3> QED BY <3>1, EdgeAssumption
  <2> QED BY <1>0, <2>1 DEF Persist, FileInv
<1>1. ASSUME UNCHANGED <<up, queue, disk, damaged>> PROVE FileInv'
  BY <1>1 DEF FileInv
<1>2. queue \in Seq(Events)
  BY DEF TypeOK
<1>3. CASE IngestEvent
  <2>1. queue' \in Seq(Events)
    BY <1>2, <1>3, AdmitFacts, EdgeAssumption DEF IngestEvent, TypeOK, Events
  <2> QED BY <1>0, <1>3, <2>1 DEF IngestEvent
<1>4. ASSUME NEW t \in Tasks, SyncSucceeds(t) PROVE FileInv'
  <2>1. queue' \in Seq(Events)
    BY <1>2, <1>4, TrimFacts DEF SyncSucceeds, TypeOK
  <2> QED BY <1>0, <1>4, <2>1 DEF SyncSucceeds
<1>5. ASSUME NEW s \in Stops, FinishStop(s) PROVE FileInv'
  BY <1>0, <1>2, <1>5 DEF FinishStop
<1>6. CASE Exit \/ Crash
  BY <1>6 DEF Exit, Crash, ProcessEnds, FileInv
<1>7. CASE Restart
  BY <1>7 DEF Restart, Restored, FileInv
<1>8. ASSUME NEW t \in Tasks,
             BeginSync(t) \/ SendBatch(t) \/ CloudCommits(t) \/ SyncFails(t)
      PROVE  FileInv'
  BY <1>1, <1>8
     DEF BeginSync, SendBatch, CloudCommits, SyncFails, Retained, process
<1>9. ASSUME NEW s \in Stops, Stop(s) \/ StopDies(s) PROVE FileInv'
  BY <1>1, <1>9 DEF Stop, Signalled, StopDies, process
<1>10. CASE LoopEnds \/ RunReturns \/ UNCHANGED vars
  BY <1>1, <1>10 DEF LoopEnds, RunReturns, vars, process
<1> QED BY <1>3, <1>4, <1>5, <1>6, <1>7, <1>8, <1>9, <1>10 DEF Next

LEMMA FlightInductive ==
    TypeOK /\ OneSyncAtATime /\ FlightInv /\ [Next]_vars => FlightInv'
<1> SUFFICES ASSUME TypeOK, OneSyncAtATime, FlightInv, [Next]_vars,
                    NEW t \in Tasks, pc'[t] = "post"
             PROVE  InFlight(t)'
  BY DEF FlightInv
<1>0. /\ queue \in Seq(Events) /\ batch[t] \in Seq(Events)
      /\ Len(queue) <= MaxQueueSize /\ accepted \in 0..MaxEvents
      /\ pc \in [Tasks -> Phases] /\ batch \in [Tasks -> Seq(Events)]
      /\ wire \in [Tasks -> Seq(Events)]
      /\ pc[t] = "post" => InFlight(t)
  BY DEF TypeOK, FlightInv
<1>1. ASSUME pc[t] = "post", batch'[t] = batch[t], wire'[t] = wire[t], cloud' = cloud,
             queue' = queue, evicted' = evicted
      PROVE  InFlight(t)'
  BY <1>0, <1>1 DEF InFlight
<1>2. CASE IngestEvent
  <2>1. /\ pc[t] = "post" /\ UNCHANGED <<batch, wire, cloud>>
        /\ queue' = Admit(queue, accepted') /\ accepted' \in Events
    BY <1>0, <1>2, EdgeAssumption DEF IngestEvent, Events
  <2>2. evicted' = {} => evicted = {} /\ Len(queue) < MaxQueueSize
    BY <1>2, NoEvictionNeeded
  <2>3. evicted' = {} => PrefixOf(batch[t], queue')
    BY <1>0, <2>1, <2>2, PrefixOfAdmit DEF InFlight
  <2> QED BY <1>0, <2>1, <2>3 DEF InFlight
<1>3. ASSUME NEW u \in Tasks, BeginSync(u) PROVE InFlight(t)'
  BY <1>0, <1>1, <1>3 DEF BeginSync, AfterSync, history
<1>4. ASSUME NEW u \in Tasks, SendBatch(u) PROVE InFlight(t)'
  <2>1. CASE u = t
    <3>1. /\ batch'[t] = queue /\ wire'[t] = queue /\ queue' = queue /\ cloud' = cloud
      BY <1>0, <1>4, <2>1 DEF SendBatch
    <3>2. PrefixOf(queue, queue)
      BY <1>0 DEF PrefixOf
    <3>3. queue = NoRequest => Elems(queue) = {}
      BY DEF NoRequest, Elems
    <3> QED BY <3>1, <3>2, <3>3 DEF InFlight
  <2>2. CASE u # t
    BY <1>0, <1>1, <1>4, <2>2 DEF SendBatch, history
  <2> QED BY <2>1, <2>2
<1>5. ASSUME NEW u \in Tasks, CloudCommits(u) PROVE InFlight(t)'
  <2>1. /\ pc[t] = "post" /\ UNCHANGED <<batch, queue, evicted>>
        /\ cloud' = cloud \cup Elems(wire[u])
        /\ wire' = [wire EXCEPT ![u] = NoRequest] /\ wire[u] # NoRequest
    BY <1>5 DEF CloudCommits, history
  <2>2. CASE u = t
    <3>1. Elems(batch[t]) \subseteq cloud'
      BY <1>0, <2>1, <2>2 DEF InFlight
    <3> QED BY <1>0, <2>1, <2>2, <3>1 DEF InFlight
  <2>3. CASE u # t
    BY <1>0, <2>1, <2>3 DEF InFlight
  <2> QED BY <2>2, <2>3
<1>6. ASSUME NEW u \in Tasks, SyncSucceeds(u) \/ SyncFails(u) PROVE InFlight(t)'
  <2>1. CASE u = t
    BY <1>0, <1>6, <2>1 DEF SyncSucceeds, SyncFails, AfterSync
  <2>2. CASE u # t /\ SyncSucceeds(u)
    <3>1. pc[u] = "post" /\ pc[t] = "post"
      BY <1>0, <2>2 DEF SyncSucceeds
    <3> QED BY <2>2, <3>1 DEF OneSyncAtATime, Suspended
  <2>3. CASE u # t /\ SyncFails(u)
    BY <1>0, <1>1, <2>3 DEF SyncFails, Retained, history
  <2> QED BY <1>6, <2>1, <2>2, <2>3
<1>7. ASSUME NEW s \in Stops, Stop(s) \/ FinishStop(s) \/ StopDies(s) PROVE InFlight(t)'
  <2>1. s \in Tasks /\ Loop \in Tasks
    BY DEF Tasks
  <2> QED BY <1>0, <1>1, <1>7, <2>1
          DEF Stop, Signalled, Cancelled, FinishStop, StopDies, history
<1>8. CASE LoopEnds
  BY <1>0, <1>1, <1>8 DEF LoopEnds, history
<1>9. CASE RunReturns
  BY <1>0, <1>1, <1>9 DEF RunReturns, Suspended
<1>10. CASE Exit \/ Crash \/ Restart
  <2>1. pc'[t] # "post"
    BY <1>10 DEF Exit, Crash, ProcessEnds, Restart
  <2> QED BY <2>1
<1>11. CASE UNCHANGED vars
  BY <1>0, <1>1, <1>11 DEF vars, history
<1> QED BY <1>2, <1>3, <1>4, <1>5, <1>6, <1>7, <1>8, <1>9, <1>10, <1>11 DEF Next

LEMMA CoveredInductive ==
    TypeOK /\ FlightInv /\ FileInv /\ CoveredInv /\ [Next]_vars => CoveredInv'
<1> SUFFICES ASSUME TypeOK, FlightInv, FileInv, CoveredInv, [Next]_vars,
                    ~damaged', evicted' = {}, NEW e \in 1..accepted'
             PROVE  e \in (Elems(Buffer) \cup cloud)'
  BY DEF CoveredInv
<1>0. /\ ~damaged /\ evicted = {} => \A f \in 1..accepted : f \in Elems(Buffer) \cup cloud
      /\ queue \in Seq(Events) /\ Len(queue) <= MaxQueueSize /\ accepted \in 0..MaxEvents
      /\ batch \in [Tasks -> Seq(Events)]
  BY DEF CoveredInv, TypeOK
<1>1. ASSUME UNCHANGED <<Buffer, damaged, evicted, accepted>>, cloud \subseteq cloud'
      PROVE  e \in (Elems(Buffer) \cup cloud)'
  BY <1>0, <1>1 DEF Elems
<1>2. ASSUME UNCHANGED <<up, queue, disk, damaged, evicted, accepted>>, cloud \subseteq cloud'
      PROVE  e \in (Elems(Buffer) \cup cloud)'
  BY <1>1, <1>2 DEF Buffer, Restored
<1>3. CASE IngestEvent
  <2>1. /\ up /\ up' /\ ~damaged /\ evicted = {} /\ Len(queue) < MaxQueueSize
        /\ cloud' = cloud /\ accepted' = accepted + 1 /\ accepted' \in Events
        /\ queue' = Admit(queue, accepted')
    <3>1. evicted = {} /\ Len(queue) < MaxQueueSize
      BY <1>3, NoEvictionNeeded
    <3>2. ~damaged
      BY <1>3 DEF IngestEvent, Persist
    <3>3. accepted' \in Events
      BY <1>0, <1>3, EdgeAssumption DEF IngestEvent, Events
    <3> QED BY <1>3, <3>1, <3>2, <3>3 DEF IngestEvent, process
  <2>2. Elems(queue') = Elems(queue) \cup {accepted'}
    <3>1. PrefixOf(queue, queue)
      BY <1>0 DEF PrefixOf
    <3>2. Elems(Admit(queue, accepted')) = Elems(queue) \cup {accepted'}
      BY <1>0, <2>1, <3>1, PrefixOfAdmit
    <3> QED BY <2>1, <3>2
  <2>3. e = accepted' \/ e \in 1..accepted
    BY <1>0, <2>1
  <2>4. Buffer = queue /\ Elems(Buffer)' = Elems(queue')
    BY <2>1 DEF Buffer, Elems
  <2> QED BY <1>0, <2>1, <2>2, <2>3, <2>4
<1>4. ASSUME NEW t \in Tasks, SyncSucceeds(t) PROVE e \in (Elems(Buffer) \cup cloud)'
  <2>1. /\ up /\ up' /\ ~damaged /\ evicted = {} /\ accepted' = accepted /\ cloud' = cloud
        /\ queue' = Trim(queue, batch[t]) /\ pc[t] = "post" /\ wire[t] = NoRequest
    BY <1>4 DEF SyncSucceeds, Acknowledged, Persist, process, history
  <2>2. PrefixOf(batch[t], queue) /\ Elems(batch[t]) \subseteq cloud
    BY <2>1 DEF FlightInv, InFlight
  <2>3. Elems(queue) = Elems(batch[t]) \cup Elems(queue')
    BY <1>0, <2>1, <2>2, TrimPrefix
  <2>4. Buffer = queue /\ Elems(Buffer)' = Elems(queue')
    BY <2>1 DEF Buffer, Elems
  <2> QED BY <1>0, <2>1, <2>2, <2>3, <2>4
<1>5. ASSUME NEW s \in Stops, FinishStop(s) PROVE e \in (Elems(Buffer) \cup cloud)'
  BY <1>1, <1>5 DEF FinishStop, Persist, Buffer, process, history
<1>6. CASE Exit \/ Crash
  <2>1. /\ up /\ ~up' /\ UNCHANGED <<damaged, disk, evicted, accepted, cloud>>
    BY <1>6 DEF Exit, Crash, ProcessEnds, history
  <2>2. UNCHANGED Buffer
    BY <2>1 DEF Buffer, Restored, FileInv
  <2> QED BY <1>1, <2>1, <2>2
<1>7. CASE Restart
  BY <1>1, <1>7 DEF Restart, Buffer, Restored, history
<1>8. ASSUME NEW t \in Tasks,
             BeginSync(t) \/ SendBatch(t) \/ CloudCommits(t) \/ SyncFails(t)
      PROVE  e \in (Elems(Buffer) \cup cloud)'
  BY <1>2, <1>8
     DEF BeginSync, SendBatch, CloudCommits, SyncFails, Retained, process, history
<1>9. ASSUME NEW s \in Stops, Stop(s) \/ StopDies(s)
      PROVE  e \in (Elems(Buffer) \cup cloud)'
  BY <1>2, <1>9 DEF Stop, Signalled, StopDies, process, history
<1>10. CASE LoopEnds \/ RunReturns \/ UNCHANGED vars
  BY <1>2, <1>10 DEF LoopEnds, RunReturns, vars, process, history
<1> QED BY <1>3, <1>4, <1>5, <1>6, <1>7, <1>8, <1>9, <1>10 DEF Next

\* With the file intact and one signal in a life, as long as no event was evicted
\* every accepted event is in the queue, in the file or in the cloud: failed,
\* unanswered and cancelled syncs, crashes and shutdowns lose nothing.
THEOREM NothingLost == SingleSignal => (Spec => []NoLossWithoutEviction)
<1> SUFFICES ASSUME SingleSignal PROVE Spec => []NoLossWithoutEviction
  OBVIOUS
<1>1. Init => FlightInv /\ FileInv /\ CoveredInv
  <2> SUFFICES ASSUME Init PROVE FlightInv /\ FileInv /\ CoveredInv
    OBVIOUS
  <2>1. FlightInv
    BY DEF Init, FlightInv, Tasks
  <2>2. <<>> # Corrupt
    <3>1. <<>> \in Seq(Nat)
      OBVIOUS
    <3> QED BY <3>1, EdgeAssumption
  <2>3. FileInv
    BY <2>2 DEF Init, FileInv
  <2>4. CoveredInv
    BY DEF Init, CoveredInv
  <2> QED BY <2>1, <2>3, <2>4
<1>2. CoveredInv => NoLossWithoutEviction
  BY DEF CoveredInv, NoLossWithoutEviction, Lost
<1>3. Spec => []OneSyncAtATime
  BY SyncsAreExclusive
<1> QED BY <1>1, <1>2, <1>3, FlightInductive, FileInductive, CoveredInductive, TypeCorrect, PTL
        DEF Spec

------------------------------------------------------------------------------
(* The steps as an outsider sees them: what they do to the set of events held.         *)

Held == Elems(Buffer)

Dropped(q) == IF Len(q) >= MaxQueueSize THEN {Head(q)} ELSE {}

\* No event is evicted, committed or on the wire before it is accepted, and with the
\* file intact an evicted one is not held any more.
KnownInv ==
    /\ evicted \subseteq 1..accepted
    /\ cloud \subseteq 1..accepted
    /\ \A t \in Tasks : Elems(wire[t]) \subseteq 1..accepted
    /\ ~damaged => Held \cap evicted = {}

LEMMA AdmitElems ==
    ASSUME NEW q \in Seq(Events), Len(q) <= MaxQueueSize,
           NEW n \in Nat, n + 1 \in Events, Ascending(q, n)
    PROVE  Elems(Admit(q, n + 1)) = (Elems(q) \ Dropped(q)) \cup {n + 1}
<1> DEFINE e == n + 1
<1>0. \A i \in 1..Len(q) : q[i] \in Nat /\ q[i] <= n
  BY ElementsAreNat DEF Ascending
<1>1. CASE Len(q) < MaxQueueSize
  <2>1. Elems(Admit(q, e)) = Elems(q) \cup {e}
    <3>1. PrefixOf(q, q)
      BY DEF PrefixOf
    <3> QED BY <1>1, <3>1, PrefixOfAdmit
  <2>2. Dropped(q) = {}
    BY <1>1, EdgeAssumption DEF Dropped
  <2> QED BY <2>1, <2>2
<1>2. CASE Len(q) >= MaxQueueSize
  <2>1. q # <<>> /\ Len(q) \in Nat /\ Len(q) >= 1 /\ Head(q) = q[1]
    BY <1>2, EdgeAssumption
  <2>2. PICK a \in Seq(Events) : a = Admit(q, e)
    BY AdmitFacts
  <2>3. a = Append(Tail(q), e)
    BY <1>2, <2>2 DEF Admit
  <2>4. /\ Len(a) = Len(q) /\ a[Len(q)] = e
        /\ \A i \in 1..(Len(q) - 1) : a[i] = q[i + 1]
    BY <2>1, <2>3
  <2>5. ASSUME NEW i \in 1..Len(a) PROVE a[i] \in (Elems(q) \ {q[1]}) \cup {e}
    <3>1. CASE i = Len(q)
      BY <2>4, <3>1
    <3>2. CASE i # Len(q)
      <4>1. i + 1 \in 1..Len(q) /\ 1 \in 1..Len(q) /\ 1 < i + 1 /\ a[i] = q[i + 1]
        BY <2>1, <2>4, <3>2
      <4>2. q[1] < q[i + 1] /\ q[1] \in Nat /\ q[i + 1] \in Nat
        BY <1>0, <4>1 DEF Ascending
      <4>3. q[i + 1] # q[1]
        BY <4>2
      <4> QED BY <4>1, <4>3 DEF Elems
    <3> QED BY <3>1, <3>2
  <2>6. ASSUME NEW i \in 1..Len(q), q[i] # q[1] PROVE q[i] \in Elems(a)
    <3>1. i - 1 \in 1..Len(a) /\ i - 1 \in 1..(Len(q) - 1) /\ (i - 1) + 1 = i
      BY <2>1, <2>4, <2>6
    <3>2. a[i - 1] = q[i]
      BY <2>4, <3>1
    <3> QED BY <3>1, <3>2 DEF Elems
  <2>7. e \in Elems(a)
    <3>1. Len(q) \in 1..Len(a)
      BY <2>1, <2>4
    <3> QED BY <2>4, <3>1 DEF Elems
  <2>8. Dropped(q) = {q[1]}
    BY <1>2, <2>1 DEF Dropped
  <2>9. Elems(a) \subseteq (Elems(q) \ {q[1]}) \cup {e}
    BY <2>5 DEF Elems
  <2>10. (Elems(q) \ {q[1]}) \cup {e} \subseteq Elems(a)
    BY <2>6, <2>7 DEF Elems
  <2> QED BY <2>2, <2>8, <2>9, <2>10
<1> QED BY <1>1, <1>2, EdgeAssumption

LEMMA TrimElems ==
    ASSUME NEW q \in Seq(Events), NEW b \in Seq(Events)
    PROVE  Elems(Trim(q, b)) \subseteq Elems(q)
<1>1. PICK r \in Seq(Events) : r = Trim(q, b)
  BY TrimFacts
<1>2. /\ Len(r) = IF Len(b) <= Len(q) THEN Len(q) - Len(b) ELSE 0
      /\ \A i \in 1..Len(r) : r[i] = q[i + Len(b)]
  BY <1>1, TrimFacts
<1>3. ASSUME NEW i \in 1..Len(r) PROVE r[i] \in Elems(q)
  <2>1. i + Len(b) \in 1..Len(q)
    BY <1>2
  <2> QED BY <1>2, <2>1 DEF Elems
<1> QED BY <1>1, <1>3 DEF Elems

LEMMA ElemsBounded ==
    ASSUME NEW q \in Seq(Events), NEW n \in Nat, Ascending(q, n)
    PROVE  Elems(q) \subseteq 1..n
<1>1. ASSUME NEW i \in 1..Len(q) PROVE q[i] \in 1..n
  <2>1. q[i] \in Events /\ q[i] <= n
    BY DEF Ascending
  <2> QED BY <2>1, EdgeAssumption DEF Events
<1> QED BY <1>1 DEF Elems

LEMMA HeldBounded == TypeOK /\ OrderInv => Held \subseteq 1..accepted
<1> SUFFICES ASSUME TypeOK, OrderInv PROVE Held \subseteq 1..accepted
  OBVIOUS
<1>1. accepted \in Nat
  BY DEF TypeOK
<1>2. Buffer \in Seq(Events) /\ Ascending(Buffer, accepted)
  BY <1>1, AscendingEmpty DEF TypeOK, OrderInv, FileInOrder, Buffer, Restored
<1> QED BY <1>1, <1>2, ElemsBounded DEF Held

\* What Persist does when the file stays intact.
LEMMA PersistIntact ==
    ASSUME NEW q, Persist(q), ~damaged'
    PROVE  ~damaged /\ disk' = q
BY DEF Persist

\* A step that leaves the file intact adds an event, commits a request, is the end of a
\* successful sync, or changes nothing of what is accepted, held, committed and evicted.
LEMMA StepFacts ==
    ASSUME TypeOK, OrderInv, FileInv, [Next]_vars, ~damaged'
    PROVE  /\ ~damaged
           /\ \/ UNCHANGED <<accepted, Held, cloud, evicted>>
              \/ \E D \in SUBSET Held :
                    /\ IsFiniteSet(D) /\ Cardinality(D) <= 1
                    /\ accepted' = accepted + 1
                    /\ Held' = (Held \ D) \cup {accepted + 1}
                    /\ evicted' = evicted \cup D
                    /\ cloud' = cloud
              \/ \E t \in Tasks :
                    /\ cloud' = cloud \cup Elems(wire[t])
                    /\ UNCHANGED <<accepted, Held, evicted>>
              \/ \E t \in Tasks :
                    /\ SyncSucceeds(t)
                    /\ Held' \subseteq Held
                    /\ UNCHANGED <<accepted, cloud, evicted>>
<1> DEFINE Still == UNCHANGED <<accepted, Held, cloud, evicted>>
           Adds == \E D \in SUBSET Held :
                    /\ IsFiniteSet(D) /\ Cardinality(D) <= 1
                    /\ accepted' = accepted + 1
                    /\ Held' = (Held \ D) \cup {accepted + 1}
                    /\ evicted' = evicted \cup D
                    /\ cloud' = cloud
           Commits == \E t \in Tasks :
                    /\ cloud' = cloud \cup Elems(wire[t])
                    /\ UNCHANGED <<accepted, Held, evicted>>
           Trims == \E t \in Tasks :
                    /\ SyncSucceeds(t)
                    /\ Held' \subseteq Held
                    /\ UNCHANGED <<accepted, cloud, evicted>>
           Goal == ~damaged /\ (Still \/ Adds \/ Commits \/ Trims)
<1>0. /\ accepted \in Nat /\ queue \in Seq(Events) /\ Len(queue) <= MaxQueueSize
      /\ Ascending(queue, accepted) /\ damaged \in BOOLEAN /\ up \in BOOLEAN
      /\ batch \in [Tasks -> Seq(Events)]
  BY DEF TypeOK, OrderInv
<1>1. ASSUME UNCHANGED <<up, queue, disk, accepted, cloud, evicted>>, damaged' = damaged
      PROVE  Goal
  <2>1. UNCHANGED Held
    BY <1>1 DEF Held, Buffer, Restored, Elems
  <2> QED BY <1>1, <2>1
<1>2. ASSUME UNCHANGED <<up, queue, accepted, cloud, evicted>>, up, Persist(queue)
      PROVE  Goal
  <2>1. UNCHANGED Held
    BY <1>2 DEF Held, Buffer, Elems
  <2> QED BY <1>2, <2>1, PersistIntact
<1>3. CASE IngestEvent
  <2>1. /\ up /\ up' = up /\ accepted' = accepted + 1 /\ accepted + 1 \in Events
        /\ queue' = Admit(queue, accepted + 1) /\ cloud' = cloud /\ Persist(queue')
    BY <1>0, <1>3, EdgeAssumption DEF IngestEvent, process, Events
  <2>2. evicted' = evicted \cup Dropped(queue)
    BY <1>3 DEF IngestEvent, Dropped
  <2>3. Dropped(queue) \subseteq Elems(queue)
    <3>1. CASE Len(queue) >= MaxQueueSize
      <4>1. queue # <<>> /\ Head(queue) = queue[1] /\ 1 \in 1..Len(queue)
        BY <1>0, <3>1, EdgeAssumption
      <4> QED BY <4>1 DEF Dropped, Elems
    <3> QED BY <3>1 DEF Dropped
  <2>4. IsFiniteSet(Dropped(queue)) /\ Cardinality(Dropped(queue)) <= 1
    <3>1. PICK x : Dropped(queue) = {x} \/ Dropped(queue) = {}
      BY DEF Dropped
    <3>2. CASE Dropped(queue) = {x}
      <4>1. IsFiniteSet({x}) /\ Cardinality({x}) = 1
        BY FS_Singleton
      <4> QED BY <3>2, <4>1
    <3>3. CASE Dropped(queue) = {}
      BY <3>3, FS_EmptySet
    <3> QED BY <3>1, <3>2, <3>3
  <2>5. Held = Elems(queue) /\ Held' = Elems(queue')
    BY <2>1 DEF Held, Buffer, Elems
  <2>6. Held' = (Held \ Dropped(queue)) \cup {accepted + 1}
    BY <1>0, <2>1, <2>5, AdmitElems
  <2>7. Adds
    BY <2>1, <2>2, <2>3, <2>4, <2>5, <2>6
  <2> QED BY <2>1, <2>7, PersistIntact
<1>4. ASSUME NEW t \in Tasks, CloudCommits(t) PROVE Goal
  <2>1. UNCHANGED Held
    BY <1>4 DEF CloudCommits, Held, Buffer, Restored, Elems, process
  <2> QED BY <1>4, <2>1 DEF CloudCommits, history
<1>5. ASSUME NEW t \in Tasks, SyncSucceeds(t) PROVE Goal
  <2>1. /\ up /\ up' = up /\ queue' = Trim(queue, batch[t]) /\ Persist(queue')
        /\ UNCHANGED <<accepted, cloud, evicted>>
    BY <1>5 DEF SyncSucceeds, process, history
  <2>2. Held = Elems(queue) /\ Held' = Elems(queue')
    BY <2>1 DEF Held, Buffer, Elems
  <2>3. Held' \subseteq Held
    BY <1>0, <2>1, <2>2, TrimElems
  <2> QED BY <1>5, <2>1, <2>3, PersistIntact
<1>6. ASSUME NEW s \in Stops, FinishStop(s) PROVE Goal
  BY <1>2, <1>6 DEF FinishStop, process, history
<1>7. CASE Exit \/ Crash
  <2>1. /\ up /\ ~up' /\ damaged' = damaged /\ disk' = disk
        /\ UNCHANGED <<accepted, cloud, evicted>>
    BY <1>7 DEF Exit, Crash, ProcessEnds, history
  <2>2. Buffer' = Buffer
    BY <2>1 DEF Buffer, Restored, FileInv
  <2>3. UNCHANGED Held
    BY <2>2 DEF Held, Elems
  <2> QED BY <2>1, <2>3
<1>8. CASE Restart
  <2>1. UNCHANGED Held
    BY <1>8 DEF Restart, Held, Buffer, Restored, Elems
  <2> QED BY <1>8, <2>1 DEF Restart, history
<1>9. ASSUME NEW t \in Tasks, BeginSync(t) \/ SendBatch(t) \/ SyncFails(t) PROVE Goal
  BY <1>1, <1>9 DEF BeginSync, SendBatch, SyncFails, Retained, process, history
<1>10. ASSUME NEW s \in Stops, Stop(s) \/ StopDies(s) PROVE Goal
  BY <1>1, <1>10 DEF Stop, Signalled, StopDies, process, history
<1>11. CASE LoopEnds \/ RunReturns \/ UNCHANGED vars
  BY <1>1, <1>11 DEF LoopEnds, RunReturns, vars, process, history
<1>12. Goal
  BY <1>3, <1>4, <1>5, <1>6, <1>7, <1>8, <1>9, <1>10, <1>11 DEF Next
<1> QED BY <1>12

LEMMA KnownInductive ==
    TypeOK /\ OrderInv /\ FileInv /\ KnownInv /\ [Next]_vars => KnownInv'
<1> SUFFICES ASSUME TypeOK, OrderInv, FileInv, KnownInv, [Next]_vars PROVE KnownInv'
  OBVIOUS
<1>0. /\ accepted \in Nat /\ queue \in Seq(Events) /\ Len(queue) <= MaxQueueSize
      /\ Ascending(queue, accepted)
      /\ wire \in [Tasks -> Seq(Events)]
      /\ evicted \subseteq 1..accepted /\ cloud \subseteq 1..accepted
      /\ \A t \in Tasks : Elems(wire[t]) \subseteq 1..accepted
  BY DEF TypeOK, OrderInv, KnownInv
<1>1. ~damaged' => (Held \cap evicted = {})'
  <2> SUFFICES ASSUME ~damaged' PROVE Held' \cap evicted' = {}
    OBVIOUS
  <2>1. ~damaged /\ Held \cap evicted = {} /\ Held \subseteq 1..accepted
    BY StepFacts, HeldBounded DEF KnownInv
  <2>2. accepted + 1 \notin evicted /\ accepted + 1 \notin Held
    BY <1>0, <2>1
  <2>3. \/ Held' \subseteq Held /\ evicted' = evicted
        \/ \E D \in SUBSET Held :
             Held' = (Held \ D) \cup {accepted + 1} /\ evicted' = evicted \cup D
    BY StepFacts
  <2> QED BY <2>1, <2>2, <2>3
<1> DEFINE Ranges == /\ evicted' \subseteq 1..accepted' /\ cloud' \subseteq 1..accepted'
                     /\ \A t \in Tasks : Elems(wire'[t]) \subseteq 1..accepted'
<1>2. CASE IngestEvent
  <2>1. /\ accepted' = accepted + 1 /\ cloud' = cloud /\ wire' = wire
        /\ evicted' = evicted \/ (evicted' = evicted \cup {Head(queue)} /\ Len(queue) >= MaxQueueSize)
    BY <1>2 DEF IngestEvent
  <2>2. Len(queue) >= MaxQueueSize => Head(queue) \in 1..accepted
    <3> SUFFICES ASSUME Len(queue) >= MaxQueueSize PROVE Head(queue) \in 1..accepted
      OBVIOUS
    <3>1. queue # <<>> /\ Head(queue) = queue[1] /\ 1 \in 1..Len(queue)
      BY <1>0, EdgeAssumption
    <3>2. Head(queue) \in Elems(queue)
      BY <3>1 DEF Elems
    <3> QED BY <1>0, <3>2, ElemsBounded
  <2>3. 1..accepted \subseteq 1..accepted'
    BY <1>0, <2>1
  <2>4. Ranges
    BY <1>0, <2>1, <2>2, <2>3
  <2> QED BY <1>1, <2>4 DEF KnownInv
<1>3. ASSUME NEW t \in Tasks, SendBatch(t) PROVE KnownInv'
  <2>1. wire' = [wire EXCEPT ![t] = queue] /\ UNCHANGED <<accepted, cloud, evicted>>
    BY <1>3 DEF SendBatch, history
  <2>2. Elems(queue) \subseteq 1..accepted
    BY <1>0, ElemsBounded
  <2>3. Ranges
    BY <1>0, <2>1, <2>2
  <2> QED BY <1>1, <2>3 DEF KnownInv
<1>4. ASSUME NEW t \in Tasks, CloudCommits(t) PROVE KnownInv'
  <2>1. /\ wire' = [wire EXCEPT ![t] = NoRequest] /\ cloud' = cloud \cup Elems(wire[t])
        /\ UNCHANGED <<accepted, evicted>>
    BY <1>4 DEF CloudCommits, history
  <2>2. Elems(NoRequest) = {}
    BY DEF Elems, NoRequest
  <2>3. Ranges
    BY <1>0, <2>1, <2>2
  <2> QED BY <1>1, <2>3 DEF KnownInv
<1>5. ASSUME UNCHANGED <<accepted, evicted, cloud, wire>> PROVE KnownInv'
  BY <1>0, <1>1, <1>5 DEF KnownInv
<1>6. ASSUME NEW t \in Tasks, BeginSync(t) \/ SyncSucceeds(t) \/ SyncFails(t) PROVE KnownInv'
  BY <1>5, <1>6 DEF BeginSync, SyncSucceeds, SyncFails, history
<1>7. ASSUME NEW s \in Stops, Stop(s) \/ FinishStop(s) \/ StopDies(s) PROVE KnownInv'
  BY <1>5, <1>7 DEF Stop, Signalled, FinishStop, StopDies, history
<1>8. CASE LoopEnds \/ RunReturns \/ Exit \/ Crash \/ Restart \/ UNCHANGED vars
  BY <1>5, <1>8 DEF LoopEnds, RunReturns, Exit, Crash, ProcessEnds, Restart, vars, history
<1> QED BY <1>2, <1>3, <1>4, <1>6, <1>7, <1>8 DEF Next

------------------------------------------------------------------------------
(* What a trim may lose.  While a request is out, the queue is its batch with the     *)
(* first k events evicted and newer ones behind it; the trim counts those k a second  *)
(* time.  They pay for what it takes too much: they are in the cloud by then.         *)

Shifted(b, q, k) ==
    /\ \A i \in 1..Len(q) : i + k <= Len(b) => q[i] = b[i + k]
    /\ Len(b) <= Len(q) + k

First(b, k) == {b[j] : j \in 1..k}

ShiftOf(t) ==
    /\ Ascending(batch[t], accepted)
    /\ \E k \in 0..Len(batch[t]) :
         Shifted(batch[t], queue, k) /\ First(batch[t], k) \subseteq evicted

ShiftInv == \A t \in Tasks : pc[t] = "post" => ShiftOf(t)

Counted == evicted \cap cloud

\* The batch in flight has paid for nothing yet.
LossInv ==
    ~damaged => /\ Cardinality(Lost) <= Cardinality(Counted)
                /\ \A t \in Tasks : pc[t] = "post" =>
                     Cardinality(Lost) <= Cardinality(Counted \ Elems(batch[t]))

LEMMA EventSetsFinite ==
    ASSUME NEW S \in SUBSET Events
    PROVE  IsFiniteSet(S) /\ Cardinality(S) \in Nat
<1>1. IsFiniteSet(Events)
  BY FS_Interval, EdgeAssumption DEF Events
<1>2. IsFiniteSet(S)
  BY <1>1, FS_Subset
<1> QED BY <1>2, FS_CardinalityType

LEMMA FewerEvents ==
    ASSUME NEW T \in SUBSET Events, NEW S \in SUBSET T
    PROVE  Cardinality(S) <= Cardinality(T)
BY EventSetsFinite, FS_Subset

\* Trimming a shifted queue takes events of the batch, and no more others than
\* events of the batch were evicted.
LEMMA TrimTakes ==
    ASSUME NEW q \in Seq(Events), NEW b \in Seq(Events), NEW n \in Nat, Ascending(b, n),
           NEW k \in 0..Len(b), Shifted(b, q, k)
    PROVE  LET Q == Elems(q) \ (Elems(Trim(q, b)) \cup Elems(b))
           IN  Cardinality(Q) <= Cardinality(First(b, k))
<1> DEFINE m == Len(b)
           Q == Elems(q) \ (Elems(Trim(q, b)) \cup Elems(b))
           P == First(b, k)
           I == (m - k + 1)..m
           at(x) == CHOOSE i \in I : i \in 1..Len(q) /\ q[i] = x
           f == [x \in Q |-> b[at(x) - (m - k)]]
<1>0. m \in Nat /\ k \in Nat /\ k <= m
  OBVIOUS
<1>1. PICK r \in Seq(Events) : r = Trim(q, b)
  BY TrimFacts
<1>2. /\ Len(r) = IF m <= Len(q) THEN Len(q) - m ELSE 0
      /\ \A i \in 1..Len(r) : r[i] = q[i + m]
  BY <1>1, TrimFacts
<1>3. ASSUME NEW x \in Q PROVE \E i \in I : i \in 1..Len(q) /\ q[i] = x
  <2>1. PICK i \in 1..Len(q) : q[i] = x
    BY DEF Elems
  <2>2. i <= m
    <3> SUFFICES ASSUME i > m PROVE FALSE
      BY <1>0
    <3>1. i - m \in 1..Len(r) /\ r[i - m] = q[i]
      BY <1>0, <1>2
    <3>2. x \in Elems(r)
      BY <2>1, <3>1 DEF Elems
    <3> QED BY <1>1, <3>2
  <2>3. i > m - k
    <3> SUFFICES ASSUME i + k <= m PROVE FALSE
      BY <1>0
    <3>1. q[i] = b[i + k] /\ i + k \in 1..Len(b)
      BY <1>0 DEF Shifted
    <3>2. x \in Elems(b)
      BY <2>1, <3>1 DEF Elems
    <3> QED BY <3>2
  <2> QED BY <1>0, <2>1, <2>2, <2>3
<1>4. ASSUME NEW x \in Q
      PROVE  at(x) \in I /\ at(x) \in 1..Len(q) /\ q[at(x)] = x
  BY <1>3
<1>5. ASSUME NEW x \in Q PROVE at(x) - (m - k) \in 1..k
  BY <1>0, <1>4
<1> HIDE DEF at, Q
<1>6. ASSUME NEW x \in Q, NEW y \in Q, f[x] = f[y] PROVE x = y
  <2>1. PICK i \in 1..k, j \in 1..k : i = at(x) - (m - k) /\ j = at(y) - (m - k)
    BY <1>5
  <2>2. b[i] = b[j]
    BY <1>6, <2>1
  <2>3. i \in 1..Len(b) /\ j \in 1..Len(b)
    BY <1>0
  <2>4. b[i] \in Nat /\ b[j] \in Nat
    BY <2>3, ElementsAreNat
  <2>5. ~(i < j) /\ ~(j < i)
    BY <2>2, <2>3, <2>4 DEF Ascending
  <2>6. i = j
    BY <2>5
  <2>7. at(x) = at(y)
    BY <1>0, <1>4, <2>1, <2>6
  <2> QED BY <1>4, <2>7
<1>7. ASSUME NEW x \in Q PROVE f[x] \in P
  BY <1>5 DEF First
<1>8. P \in SUBSET Events
  <2>1. \A j \in 1..k : j \in 1..Len(b)
    BY <1>0
  <2> QED BY <2>1 DEF First
<1>9. f \in Injection(Q, P)
  BY <1>6, <1>7 DEF Injection, IsInjective
<1>10. Cardinality(Q) <= Cardinality(P)
  BY <1>8, <1>9, EventSetsFinite, FS_Injection
<1> QED BY <1>10 DEF Q

\* The account: L is lost before, R evicted and committed, B the batch, P what was evicted
\* of it, Q what is lost in addition.
LEMMA Account ==
    ASSUME NEW L \in SUBSET Events, NEW R \in SUBSET Events, NEW B \in SUBSET Events,
           NEW P \in SUBSET (R \cap B), NEW Q \in SUBSET Events, NEW M \in SUBSET (L \cup Q),
           Cardinality(L) <= Cardinality(R \ B), Cardinality(Q) <= Cardinality(P)
    PROVE  Cardinality(M) <= Cardinality(R)
<1>1. /\ IsFiniteSet(L) /\ IsFiniteSet(Q) /\ IsFiniteSet(P) /\ IsFiniteSet(R \ B)
      /\ Cardinality(L) \in Nat /\ Cardinality(Q) \in Nat /\ Cardinality(P) \in Nat
      /\ Cardinality(R \ B) \in Nat /\ Cardinality(L \cap Q) \in Nat
  BY EventSetsFinite
<1>2. Cardinality(L \cup Q) = Cardinality(L) + Cardinality(Q) - Cardinality(L \cap Q)
  BY <1>1, FS_Union
<1>3. Cardinality((R \ B) \cup P) = Cardinality(R \ B) + Cardinality(P)
  <2>1. (R \ B) \cap P = {}
    OBVIOUS
  <2>2. Cardinality((R \ B) \cap P) = 0
    BY <2>1, FS_EmptySet
  <2>3. Cardinality((R \ B) \cup P) =
          Cardinality(R \ B) + Cardinality(P) - Cardinality((R \ B) \cap P)
    BY <1>1, FS_Union
  <2> QED BY <1>1, <2>2, <2>3
<1>4. Cardinality(M) <= Cardinality(L \cup Q) /\ Cardinality((R \ B) \cup P) <= Cardinality(R)
  BY FewerEvents
<1>5. /\ Cardinality(M) \in Nat /\ Cardinality(R) \in Nat
      /\ Cardinality(L \cup Q) \in Nat /\ Cardinality((R \ B) \cup P) \in Nat
  BY EventSetsFinite
<1>6. Cardinality(L \cup Q) <= Cardinality((R \ B) \cup P)
  BY <1>1, <1>2, <1>3
<1> QED BY <1>4, <1>5, <1>6

\* A task at the POST has just sent its batch or was there before, and then only an
\* eviction or another sync has touched the queue.
LEMMA PostFacts ==
    ASSUME TypeOK, [Next]_vars, NEW t \in Tasks, pc'[t] = "post"
    PROVE  \/ SendBatch(t)
           \/ /\ pc[t] = "post" /\ batch'[t] = batch[t]
              /\ \/ IngestEvent
                 \/ \E u \in Tasks \ {t} : SyncSucceeds(u) /\ pc[u] = "post"
                 \/ UNCHANGED <<queue, accepted, evicted>>
<1> DEFINE Stays == pc[t] = "post" /\ batch'[t] = batch[t]
           Quiet == UNCHANGED <<queue, accepted, evicted>>
           Others == \E u \in Tasks \ {t} : SyncSucceeds(u) /\ pc[u] = "post"
           Goal == SendBatch(t) \/ (Stays /\ (IngestEvent \/ Others \/ Quiet))
<1>0. pc \in [Tasks -> Phases] /\ batch \in [Tasks -> Seq(Events)]
  BY DEF TypeOK
<1>1. CASE IngestEvent
  BY <1>1 DEF IngestEvent
<1>2. ASSUME NEW u \in Tasks, BeginSync(u) \/ SyncFails(u) PROVE Stays /\ Quiet
  <2>1. CASE u = t
    BY <1>0, <1>2, <2>1 DEF BeginSync, SyncFails, AfterSync
  <2>2. CASE u # t
    BY <1>0, <1>2, <2>2 DEF BeginSync, SyncFails, Retained, history
  <2> QED BY <2>1, <2>2
<1>3. ASSUME NEW u \in Tasks, SendBatch(u) PROVE Goal
  <2>1. CASE u = t
    BY <1>3, <2>1
  <2>2. CASE u # t
    BY <1>0, <1>3, <2>2 DEF SendBatch, history
  <2> QED BY <2>1, <2>2
<1>4. ASSUME NEW u \in Tasks, CloudCommits(u) PROVE Stays /\ Quiet
  BY <1>4 DEF CloudCommits, history
<1>5. ASSUME NEW u \in Tasks, SyncSucceeds(u) PROVE Stays /\ Others
  <2>1. CASE u = t
    BY <1>0, <1>5, <2>1 DEF SyncSucceeds, AfterSync
  <2>2. CASE u # t
    BY <1>0, <1>5, <2>2 DEF SyncSucceeds
  <2> QED BY <2>1, <2>2
<1>6. ASSUME NEW s \in Stops, Stop(s) \/ FinishStop(s) \/ StopDies(s) PROVE Stays /\ Quiet
  <2>1. s \in Tasks /\ Loop \in Tasks
    BY DEF Tasks
  <2> QED BY <1>0, <1>6, <2>1
          DEF Stop, Signalled, Cancelled, FinishStop, StopDies, history
<1>7. CASE LoopEnds
  BY <1>0, <1>7 DEF LoopEnds, history
<1>8. CASE RunReturns
  BY <1>0, <1>8 DEF RunReturns, Suspended
<1>9. CASE Exit \/ Crash \/ Restart
  <2>1. pc'[t] # "post"
    BY <1>9 DEF Exit, Crash, ProcessEnds, Restart
  <2> QED BY <2>1
<1>10. CASE UNCHANGED vars
  BY <1>10 DEF vars, history
<1>11. Goal
  BY <1>1, <1>2, <1>3, <1>4, <1>5, <1>6, <1>7, <1>8, <1>9, <1>10 DEF Next
<1> QED BY <1>11

\* An eviction under a batch shifts the queue by one more, an event behind it by none.
LEMMA ShiftedAdmit ==
    ASSUME NEW b \in Seq(Events), NEW q \in Seq(Events), Len(q) <= MaxQueueSize,
           NEW e \in Events, NEW k \in 0..Len(b), Shifted(b, q, k)
    PROVE  \E l \in 0..Len(b) :
             /\ Shifted(b, Admit(q, e), l)
             /\ First(b, l) \subseteq First(b, k) \cup Dropped(q)
<1>1. PICK a \in Seq(Events) : a = Admit(q, e)
  BY AdmitFacts
<1>2. CASE Len(q) < MaxQueueSize
  <2>1. a = Append(q, e)
    BY <1>1, <1>2, AdmitFacts
  <2>2. Len(a) = Len(q) + 1 /\ \A i \in 1..Len(q) : a[i] = q[i]
    BY <2>1
  <2>3. \A i \in 1..Len(a) : i + k <= Len(b) => i \in 1..Len(q)
    BY <2>2 DEF Shifted
  <2>4. Shifted(b, a, k)
    BY <2>2, <2>3 DEF Shifted
  <2> QED BY <1>1, <2>4
<1>3. CASE Len(q) >= MaxQueueSize
  <2>1. q # <<>> /\ Len(q) \in Nat /\ Len(q) >= 1 /\ Head(q) = q[1]
    BY <1>3, EdgeAssumption
  <2>2. a = Append(Tail(q), e)
    BY <1>1, <1>3 DEF Admit
  <2>3. Len(a) = Len(q) /\ \A i \in 1..(Len(q) - 1) : a[i] = q[i + 1]
    BY <2>1, <2>2
  <2>4. CASE k = Len(b)
    <3>1. Shifted(b, a, k)
      BY <2>1, <2>3, <2>4 DEF Shifted
    <3> QED BY <1>1, <3>1
  <2>5. CASE k < Len(b)
    <3>1. k + 1 \in 0..Len(b) /\ k \in Nat
      BY <2>5
    <3>2. ASSUME NEW i \in 1..Len(a), i + (k + 1) <= Len(b) PROVE a[i] = b[i + (k + 1)]
      <4>1. i + 1 \in 1..Len(q) /\ i \in 1..(Len(q) - 1) /\ (i + 1) + k = i + (k + 1)
        BY <2>1, <2>3, <3>1, <3>2 DEF Shifted
      <4>2. q[i + 1] = b[(i + 1) + k]
        BY <3>2, <4>1 DEF Shifted
      <4> QED BY <2>3, <4>1, <4>2
    <3>3. Len(b) <= Len(a) + (k + 1)
      BY <2>1, <2>3, <3>1 DEF Shifted
    <3>4. Shifted(b, a, k + 1)
      BY <3>2, <3>3 DEF Shifted
    <3>5. b[k + 1] = q[1]
      <4>1. 1 \in 1..Len(q) /\ 1 + k <= Len(b) /\ 1 + k = k + 1
        BY <2>1, <3>1
      <4>2. q[1] = b[1 + k]
        BY <4>1 DEF Shifted
      <4> QED BY <4>1, <4>2
    <3>6. First(b, k + 1) \subseteq First(b, k) \cup {q[1]}
      <4>1. \A j \in 1..(k + 1) : j \in 1..k \/ j = k + 1
        BY <3>1
      <4> QED BY <3>5, <4>1 DEF First
    <3>7. Dropped(q) = {q[1]}
      BY <1>3, <2>1 DEF Dropped
    <3> QED BY <1>1, <3>1, <3>4, <3>6, <3>7
  <2> QED BY <2>4, <2>5
<1> QED BY <1>2, <1>3, EdgeAssumption

LEMMA ShiftInductive ==
    TypeOK /\ OneSyncAtATime /\ OrderInv /\ ShiftInv /\ [Next]_vars => ShiftInv'
<1> SUFFICES ASSUME TypeOK, OneSyncAtATime, OrderInv, ShiftInv, [Next]_vars,
                    NEW t \in Tasks, pc'[t] = "post"
             PROVE  ShiftOf(t)'
  BY DEF ShiftInv
<1>0. /\ queue \in Seq(Events) /\ batch[t] \in Seq(Events) /\ accepted \in Nat
      /\ Len(queue) <= MaxQueueSize /\ Ascending(queue, accepted)
      /\ batch \in [Tasks -> Seq(Events)]
      /\ pc[t] = "post" => ShiftOf(t)
  BY DEF TypeOK, OrderInv, ShiftInv
<1>1. CASE SendBatch(t)
  <2>1. batch'[t] = queue /\ queue' = queue /\ accepted' = accepted
    BY <1>0, <1>1 DEF SendBatch, history
  <2>2. Shifted(queue, queue, 0) /\ First(queue, 0) = {} /\ 0 \in 0..Len(queue)
    BY <1>0 DEF Shifted, First
  <2>3. Ascending(batch'[t], accepted')
    BY <1>0, <2>1
  <2> QED BY <2>1, <2>2, <2>3 DEF ShiftOf
<1>2. CASE /\ pc[t] = "post" /\ batch'[t] = batch[t]
           /\ UNCHANGED <<queue, accepted, evicted>>
  BY <1>0, <1>2 DEF ShiftOf
<1>3. ASSUME NEW u \in Tasks \ {t}, SyncSucceeds(u), pc[u] = "post", pc[t] = "post"
      PROVE  FALSE
  BY <1>3 DEF OneSyncAtATime, Suspended
<1>4. CASE pc[t] = "post" /\ batch'[t] = batch[t] /\ IngestEvent
  <2>1. /\ accepted' = accepted + 1 /\ accepted + 1 \in Events
        /\ queue' = Admit(queue, accepted + 1)
    BY <1>0, <1>4, EdgeAssumption DEF IngestEvent, Events
  <2>2. evicted' = evicted \cup Dropped(queue)
    BY <1>4 DEF IngestEvent, Dropped
  <2>3. Ascending(batch[t], accepted')
    BY <1>0, <1>4, <2>1, AscendingMore DEF ShiftOf
  <2>4. PICK k \in 0..Len(batch[t]) :
          Shifted(batch[t], queue, k) /\ First(batch[t], k) \subseteq evicted
    BY <1>0, <1>4 DEF ShiftOf
  <2>5. PICK l \in 0..Len(batch[t]) :
          /\ Shifted(batch[t], queue', l)
          /\ First(batch[t], l) \subseteq First(batch[t], k) \cup Dropped(queue)
    BY <1>0, <2>1, <2>4, ShiftedAdmit
  <2>6. First(batch[t], l) \subseteq evicted'
    BY <2>2, <2>4, <2>5
  <2> QED BY <1>4, <2>3, <2>5, <2>6 DEF ShiftOf
<1> QED BY <1>1, <1>2, <1>3, <1>4, PostFacts

LEMMA LossInductive ==
    /\ TypeOK /\ OneSyncAtATime /\ OrderInv /\ FileInv /\ KnownInv /\ FlightInv /\ ShiftInv
    /\ LossInv /\ [Next]_vars
    => LossInv'
<1> SUFFICES ASSUME TypeOK, OneSyncAtATime, OrderInv, FileInv, KnownInv, FlightInv, ShiftInv,
                    LossInv, [Next]_vars, ~damaged'
             PROVE  /\ Cardinality(Lost') <= Cardinality(Counted')
                    /\ \A t \in Tasks : pc'[t] = "post" =>
                         Cardinality(Lost') <= Cardinality(Counted' \ Elems(batch'[t]))
  BY DEF LossInv, Elems
<1>0. /\ accepted \in 0..MaxEvents /\ accepted' \in 0..MaxEvents
      /\ cloud \subseteq Events /\ evicted \subseteq Events
      /\ cloud' \subseteq Events /\ evicted' \subseteq Events
      /\ ~damaged
  <2>1. TypeOK'
    BY TypeStep
  <2> QED BY <2>1, StepFacts DEF TypeOK
<1>1. /\ Lost \subseteq Events /\ Lost' \subseteq Events
      /\ Counted \subseteq Events /\ Counted' \subseteq Events
  BY <1>0, EdgeAssumption DEF Lost, Counted, Events
<1>2. /\ Cardinality(Lost) <= Cardinality(Counted)
      /\ \A t \in Tasks : pc[t] = "post" =>
           Cardinality(Lost) <= Cardinality(Counted \ Elems(batch[t]))
  BY <1>0 DEF LossInv
<1>3. CASE Lost' \subseteq Lost /\ Counted \subseteq Counted' /\ \A t \in Tasks : ~SyncSucceeds(t)
  <2>1. ASSUME NEW S \in SUBSET Counted', Cardinality(Lost) <= Cardinality(S)
        PROVE  Cardinality(Lost') <= Cardinality(S)
    <3>1. Cardinality(Lost') <= Cardinality(Lost)
      BY <1>1, <1>3, FewerEvents
    <3>2. Cardinality(Lost') \in Nat /\ Cardinality(Lost) \in Nat /\ Cardinality(S) \in Nat
      BY <1>1, EventSetsFinite
    <3> QED BY <2>1, <3>1, <3>2
  <2>2. ASSUME NEW S \in SUBSET Counted', NEW R \in SUBSET S, Cardinality(Lost) <= Cardinality(R)
        PROVE  Cardinality(Lost') <= Cardinality(S)
    <3>1. Cardinality(R) <= Cardinality(S)
      BY <1>1, FewerEvents
    <3>2. Cardinality(R) \in Nat /\ Cardinality(Lost) \in Nat /\ Cardinality(S) \in Nat
      BY <1>1, EventSetsFinite
    <3> QED BY <2>1, <2>2, <3>1, <3>2
  <2>3. ASSUME NEW t \in Tasks, pc'[t] = "post"
        PROVE  Cardinality(Lost') <= Cardinality(Counted' \ Elems(batch'[t]))
    <3>1. CASE SendBatch(t)
      <4>1. batch'[t] = queue /\ up
        BY <3>1 DEF SendBatch, TypeOK
      <4>2. Elems(queue) \cap evicted = {}
        BY <1>0, <4>1 DEF KnownInv, Held, Buffer
      <4>3. Counted \subseteq Counted' \ Elems(batch'[t])
        BY <1>3, <4>1, <4>2 DEF Counted
      <4> QED BY <1>2, <2>2, <4>3
    <3>2. CASE pc[t] = "post" /\ batch'[t] = batch[t]
      <4>1. Counted \ Elems(batch[t]) \subseteq Counted' \ Elems(batch'[t])
        BY <1>3, <3>2
      <4> QED BY <1>2, <2>2, <3>2, <4>1
    <3> QED BY <2>3, <3>1, <3>2, PostFacts
  <2> QED BY <1>2, <1>3, <2>2, <2>3
<1>4. ASSUME NEW u \in Tasks, SyncSucceeds(u), Held' \subseteq Held,
             UNCHANGED <<accepted, cloud, evicted>>
      PROVE  /\ Cardinality(Lost') <= Cardinality(Counted')
             /\ \A t \in Tasks : pc'[t] # "post"
  <2> DEFINE b == batch[u]
  <2>1. /\ pc[u] = "post" /\ wire[u] = NoRequest /\ queue' = Trim(queue, b) /\ up /\ up'
    BY <1>4 DEF SyncSucceeds, Acknowledged, process
  <2>2. /\ b \in Seq(Events) /\ queue \in Seq(Events) /\ accepted \in Nat
        /\ Elems(b) \subseteq cloud /\ ShiftOf(u)
    BY <2>1 DEF TypeOK, FlightInv, InFlight, ShiftInv
  <2>3. PICK k \in 0..Len(b) : Shifted(b, queue, k) /\ First(b, k) \subseteq evicted
    BY <2>2 DEF ShiftOf
  <2>4. Ascending(b, accepted)
    BY <2>2 DEF ShiftOf
  <2>5. PICK Q : Q = Elems(queue) \ (Elems(Trim(queue, b)) \cup Elems(b))
    OBVIOUS
  <2>6. Cardinality(Q) <= Cardinality(First(b, k))
    BY <2>2, <2>3, <2>4, <2>5, TrimTakes
  <2>7. Held = Elems(queue) /\ Held' = Elems(Trim(queue, b))
    BY <2>1 DEF Held, Buffer, Elems
  <2>8. Lost' \subseteq Lost \cup Q
    BY <1>4, <2>2, <2>5, <2>7 DEF Lost, Held
  <2>9. First(b, k) \subseteq Elems(b)
    <3>1. \A j \in 1..k : j \in 1..Len(b)
      BY <2>2
    <3> QED BY <3>1 DEF First, Elems
  <2>10. First(b, k) \subseteq Counted \cap Elems(b)
    BY <2>2, <2>3, <2>9 DEF Counted
  <2>11. Elems(b) \subseteq Events /\ Q \subseteq Events
    BY <2>2, <2>5 DEF Elems
  <2>12. Cardinality(Lost) <= Cardinality(Counted \ Elems(b))
    BY <1>2, <2>1
  <2>13. Cardinality(Lost') <= Cardinality(Counted)
    BY <1>1, <2>6, <2>8, <2>10, <2>11, <2>12, Account
  <2>14. Counted' = Counted
    BY <1>4 DEF Counted
  <2>15. ASSUME NEW t \in Tasks, pc'[t] = "post" PROVE FALSE
    <3>1. CASE t = u
      BY <1>4, <2>15, <3>1 DEF SyncSucceeds, AfterSync, TypeOK
    <3>2. CASE t # u
      BY <1>4, <2>1, <2>15, <3>2 DEF SyncSucceeds, OneSyncAtATime, Suspended, TypeOK
    <3> QED BY <3>1, <3>2
  <2> QED BY <2>13, <2>14, <2>15
<1>5. ASSUME ~\E t \in Tasks : SyncSucceeds(t)
      PROVE  Lost' \subseteq Lost /\ Counted \subseteq Counted'
  <2>1. accepted \in Nat
    BY <1>0
  <2>2. CASE UNCHANGED <<accepted, Held, cloud, evicted>>
    BY <2>2 DEF Lost, Counted, Held
  <2>3. ASSUME NEW D \in SUBSET Held, accepted' = accepted + 1,
               Held' = (Held \ D) \cup {accepted + 1}, evicted' = evicted \cup D, cloud' = cloud
        PROVE  Lost' \subseteq Lost /\ Counted \subseteq Counted'
    <3>1. \A e \in 1..accepted' : e \in 1..accepted \/ e = accepted + 1
      BY <2>1, <2>3
    <3> QED BY <2>3, <3>1 DEF Lost, Counted, Held
  <2>4. ASSUME NEW t \in Tasks, cloud' = cloud \cup Elems(wire[t]),
               UNCHANGED <<accepted, Held, evicted>>
        PROVE  Lost' \subseteq Lost /\ Counted \subseteq Counted'
    BY <2>4 DEF Lost, Counted, Held
  <2> QED BY <1>5, <2>2, <2>3, <2>4, StepFacts
<1>6. CASE \E t \in Tasks : SyncSucceeds(t)
  <2>1. PICK u \in Tasks : SyncSucceeds(u)
    BY <1>6
  <2>2. UNCHANGED <<accepted, cloud, evicted>> /\ Held' \subseteq Held
    <3>1. /\ up /\ up' = up /\ queue' = Trim(queue, batch[u])
          /\ UNCHANGED <<accepted, cloud, evicted>>
      BY <2>1 DEF SyncSucceeds, process, history
    <3>2. Held = Elems(queue) /\ Held' = Elems(queue')
      BY <3>1 DEF Held, Buffer, Elems
    <3>3. queue \in Seq(Events) /\ batch[u] \in Seq(Events)
      BY DEF TypeOK
    <3> QED BY <3>1, <3>2, <3>3, TrimElems
  <2> QED BY <1>4, <2>1, <2>2
<1>7. CASE ~\E t \in Tasks : SyncSucceeds(t)
  BY <1>3, <1>5, <1>7
<1> QED BY <1>6, <1>7

\* The state behind both theorems below.
AgentInv == OrderInv /\ FileInv /\ FlightInv /\ KnownInv /\ ShiftInv /\ LossInv

LEMMA EmptyLossOnStart == Init => AgentInv
<1> SUFFICES ASSUME Init PROVE AgentInv
  OBVIOUS
<1>1. OrderInv
  BY AscendingEmpty DEF Init, OrderInv, FileInOrder
<1>2. <<>> # Corrupt
  <2>1. <<>> \in Seq(Nat)
    OBVIOUS
  <2> QED BY <2>1, EdgeAssumption
<1>3. FileInv
  BY <1>2 DEF Init, FileInv
<1>4. \A t \in Tasks : pc[t] # "post"
  BY DEF Init
<1>5. FlightInv /\ ShiftInv
  BY <1>4 DEF FlightInv, ShiftInv
<1>6. KnownInv
  BY DEF Init, KnownInv, Elems, NoRequest
<1>7. Lost = {} /\ Counted = {}
  BY DEF Init, Lost, Counted
<1>8. LossInv
  BY <1>4, <1>7, FS_EmptySet DEF LossInv
<1> QED BY <1>1, <1>3, <1>5, <1>6, <1>8 DEF AgentInv

LEMMA AgentStep == TypeOK /\ OneSyncAtATime /\ AgentInv /\ [Next]_vars => AgentInv'
BY OrderInductive, FileInductive, FlightInductive, KnownInductive, ShiftInductive, LossInductive
   DEF AgentInv

LEMMA AgentInvariant == SingleSignal => (Spec => []AgentInv)
<1> SUFFICES ASSUME SingleSignal PROVE Spec => []AgentInv
  OBVIOUS
<1>1. Spec => []OneSyncAtATime
  BY SyncsAreExclusive
<1> QED BY <1>1, EmptyLossOnStart, AgentStep, TypeCorrect, PTL DEF Spec

\* With the file intact and one signal in a life, however evictions, syncs, lost answers,
\* crashes and shutdowns follow each other: no more events vanish without a warning
\* than were evicted although the cloud had them (sync's positional trim, ingest_event).
THEOREM LossesArePaidFor == SingleSignal => (Spec => []LossBounded)
<1> SUFFICES ASSUME SingleSignal PROVE Spec => []LossBounded
  OBVIOUS
<1>1. AgentInv => LossBounded
  BY DEF AgentInv, LossInv, LossBounded, Counted
<1>2. Spec => []AgentInv
  BY AgentInvariant
<1> QED BY <1>1, <1>2, PTL

------------------------------------------------------------------------------
(* The refinement: each step of the agent is a step of the buffer or leaves it alone. *)

\* EventBuffer counts with an instance of its own of FiniteSets.
LEMMA SameCount == ASSUME NEW S PROVE AsBuffer!Cardinality(S) = Cardinality(S)
BY DEF Cardinality, IsFiniteSet, AsBuffer!Cardinality, AsBuffer!IsFiniteSet

LEMMA RefinesStart == Init => AsBuffer!BufferInit
<1> SUFFICES ASSUME Init PROVE AsBuffer!BufferInit
  OBVIOUS
<1>1. 1..accepted = {} /\ Elems(Buffer) = {}
  BY DEF Init, Buffer, Elems
<1> QED BY <1>1 DEF Init, AsBuffer!BufferInit

\* Once the file is damaged the buffer promises no more than that its history grows.
LEMMA RefinesDamage ==
    ASSUME TypeOK, [Next]_vars, damaged'
    PROVE  AsBuffer!Damage
<1>0. accepted \in Nat
  BY DEF TypeOK
<1>1. accepted' \in {accepted, accepted + 1} /\ cloud \subseteq cloud' /\ evicted \subseteq evicted'
  <2>1. CASE IngestEvent
    BY <2>1 DEF IngestEvent
  <2>2. ASSUME NEW t \in Tasks, CloudCommits(t)
        PROVE  accepted' = accepted /\ cloud \subseteq cloud' /\ evicted' = evicted
    BY <2>2 DEF CloudCommits, history
  <2>3. ASSUME NEW t \in Tasks,
               BeginSync(t) \/ SendBatch(t) \/ SyncSucceeds(t) \/ SyncFails(t)
        PROVE  UNCHANGED <<accepted, cloud, evicted>>
    BY <2>3 DEF BeginSync, SendBatch, SyncSucceeds, SyncFails, history
  <2>4. ASSUME NEW s \in Stops, Stop(s) \/ FinishStop(s) \/ StopDies(s)
        PROVE  UNCHANGED <<accepted, cloud, evicted>>
    BY <2>4 DEF Stop, Signalled, FinishStop, StopDies, history
  <2>5. CASE LoopEnds \/ RunReturns \/ Exit \/ Crash \/ Restart \/ UNCHANGED vars
    BY <2>5 DEF LoopEnds, RunReturns, Exit, Crash, ProcessEnds, Restart, vars, history
  <2> QED BY <2>1, <2>2, <2>3, <2>4, <2>5 DEF Next
<1>2. 1..accepted \subseteq 1..accepted'
  BY <1>0, <1>1
<1>3. damaged' = TRUE
  <2>1. TypeOK'
    BY TypeStep
  <2> QED BY <2>1 DEF TypeOK
<1> QED BY <1>1, <1>2, <1>3 DEF AsBuffer!Damage

LEMMA RefinesStep ==
    ASSUME TypeOK, AgentInv, [Next]_vars, LossBounded'
    PROVE  [AsBuffer!BufferNext]_(AsBuffer!bufferVars)
<1>1. CASE damaged'
  BY <1>1, RefinesDamage DEF AsBuffer!BufferNext
<1>2. CASE ~damaged'
  <2>0. /\ accepted \in Nat /\ ~damaged /\ damaged \in BOOLEAN /\ damaged' \in BOOLEAN
        /\ Held \subseteq 1..accepted
    <3>1. TypeOK'
      BY TypeStep
    <3> QED BY <1>2, <3>1, HeldBounded, StepFacts DEF TypeOK, AgentInv
  <2>1. damaged' = damaged
    BY <1>2, <2>0
  <2>2. CASE UNCHANGED <<accepted, Held, cloud, evicted>>
    BY <2>1, <2>2 DEF AsBuffer!bufferVars, Held
  <2>3. ASSUME NEW D \in SUBSET Held, Cardinality(D) <= 1, accepted' = accepted + 1,
               Held' = (Held \ D) \cup {accepted + 1}, evicted' = evicted \cup D, cloud' = cloud
        PROVE  AsBuffer!Accept
    <3>1. /\ 1..accepted' = 1..accepted \cup {accepted + 1}
          /\ accepted + 1 \in (1..accepted') \ (1..accepted)
      BY <2>0, <2>3
    <3>2. AsBuffer!Cardinality(D) <= 1
      BY <2>3, SameCount
    <3> QED BY <2>1, <2>3, <3>1, <3>2 DEF AsBuffer!Accept, Held
  <2>4. ASSUME NEW t \in Tasks, cloud' = cloud \cup Elems(wire[t]),
               UNCHANGED <<accepted, Held, evicted>>
        PROVE  AsBuffer!Deliver
    <3>1. cloud' \subseteq 1..accepted
      BY <2>4 DEF AgentInv, KnownInv
    <3> QED BY <2>1, <2>4, <3>1 DEF AsBuffer!Deliver, Held
  <2>5. ASSUME Held' \subseteq Held, UNCHANGED <<accepted, cloud, evicted>>
        PROVE  AsBuffer!Release
    <3>1. (AsBuffer!Vanished)' = Lost'
      BY DEF AsBuffer!Vanished, Lost
    <3>2. Cardinality(Lost') <= Cardinality(evicted \cap cloud)
      BY <1>2, <2>5 DEF LossBounded
    <3>3. AsBuffer!Cardinality((AsBuffer!Vanished)') <= AsBuffer!Cardinality(evicted \cap cloud)
      BY <3>1, <3>2, SameCount
    <3> QED BY <2>1, <2>5, <3>3 DEF AsBuffer!Release, Held
  <2> QED BY <1>2, <2>2, <2>3, <2>4, <2>5, StepFacts DEF AsBuffer!BufferNext, AgentInv
<1> QED BY <1>1, <1>2

\* The agent implements the buffer the equipment relies on: every step, crash, restart and
\* shutdown included, is one EventBuffer allows (one signal in a life).
THEOREM AgentIsABuffer == SingleSignal => (Spec => RefinesBuffer)
<1> SUFFICES ASSUME SingleSignal PROVE Spec => RefinesBuffer
  OBVIOUS
<1>1. Spec => []AgentInv
  BY AgentInvariant
<1>2. Spec => []LossBounded
  BY LossesArePaidFor
<1>3. TypeOK /\ AgentInv /\ LossBounded' /\ [Next]_vars
      => [AsBuffer!BufferNext]_(AsBuffer!bufferVars)
  BY RefinesStep
<1> QED BY <1>1, <1>2, <1>3, RefinesStart, TypeCorrect, PTL
        DEF Spec, RefinesBuffer, AsBuffer!BufferSpec

==============================================================================
