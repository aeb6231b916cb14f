-------------------------- MODULE RuleSweeps_proofs --------------------------
(* Theorems about RuleSweeps: its types, that the two stores stay in step, and that
   a state cleared from both of them never comes back, that only what fired is cleared,
   and that a state fires once. *)
EXTENDS RuleSweeps, TLAPS

\* A sweep has a composite rule in its hands whenever it talks to a store.
HandInv ==
    \A s \in Sweeps :
        /\ phase[s] \in {"select", "clearing", "purging"} => hand[s].rule \in Composite
        /\ kind[s] = "composite" => todo[s] \subseteq Composite

\* What makes StoresInStep inductive: the tier of the last write says which store can
\* hold anything, and a checkpoint still to come is that of the last write.
TierOf(r) ==
    /\ last[r].tier \in {"none", "short"} => pg[r] = NoState
    /\ last[r].tier \in {"none", "long"} => redis[r] = NoState
    /\ \A w \in Writes :
         RuleOf[w] = r /\ write[w] = "second" => last[r].state = w /\ last[r].tier = "medium"

StepOf(r) ==
    /\ redis[r] \in {NoState, last[r].state}
    /\ InFlight(r) \/ pg[r] \in {NoState, last[r].state}

TierInv == \A r \in Composite \ muddled : TierOf(r) /\ StepOf(r)

\* What makes NothingReturns inductive: a state belongs to its rule, a known one is
\* never written again, and once DEL went through no known one is in Redis.
OwnedInv ==
    \A r \in Composite :
        /\ redis[r] # NoState => RuleOf[redis[r]] = r
        /\ pg[r] # NoState => RuleOf[pg[r]] = r

KnownInv ==
    /\ \A w \in cleared : write[w] = "done"
    /\ \A s \in Sweeps : phase[s] \in {"clearing", "purging"} =>
         \A w \in hand[s].known : write[w] = "done" /\ RuleOf[w] = hand[s].rule
    /\ \A s \in Sweeps : phase[s] = "purging" /\ hand[s].clean =>
         redis[hand[s].rule] \notin hand[s].known

------------------------------------------------------------------------------
\* The types, and HandInv: the initial states.
LEMMA TypeInit == Init => TypeOK /\ HandInv
BY SweepsAssumption
   DEF Init, TypeOK, HandInv, HandType, NoHand, Holding, States, Rules, Phases, Running, Kinds, Tiers

\* Fresh(s, p, R) keeps the types of what it sets.
LEMMA FreshTypes ==
    ASSUME TypeOK, HandInv, NEW s \in Sweeps,
           NEW p \in Phases \ {"select", "clearing", "purging"}, NEW R \in SUBSET Rules,
           kind[s] = "composite" => R \subseteq Composite,
           Fresh(s, p, R), kind' = kind
    PROVE  /\ phase' \in [Sweeps -> Phases]
           /\ todo' \in [Sweeps -> SUBSET Rules]
           /\ fired' \in [Sweeps -> SUBSET [rule : Rules, state : States]]
           /\ hand' \in [Sweeps -> HandType]
           /\ aborted' \in [Sweeps -> BOOLEAN]
           /\ HandInv'
<1>1. NoHand \in HandType
  BY DEF NoHand, Holding, HandType, States
<1>2. /\ phase' \in [Sweeps -> Phases]
      /\ todo' \in [Sweeps -> SUBSET Rules]
      /\ fired' \in [Sweeps -> SUBSET [rule : Rules, state : States]]
      /\ hand' \in [Sweeps -> HandType]
      /\ aborted' \in [Sweeps -> BOOLEAN]
  BY <1>1 DEF TypeOK, Fresh, Goes
<1>3. HandInv'
  BY DEF TypeOK, HandInv, Fresh, Goes
<1> QED
  BY <1>2, <1>3

\* Judging a state keeps the types of what it sets.
LEMMA JudgeTypes ==
    ASSUME TypeOK, HandInv, NEW s \in Sweeps, NEW r \in Composite, NEW v \in States,
           Judge(s, r, v), kind' = kind
    PROVE  /\ phase' \in [Sweeps -> Phases]
           /\ todo' \in [Sweeps -> SUBSET Rules]
           /\ fired' \in [Sweeps -> SUBSET [rule : Rules, state : States]]
           /\ hand' \in [Sweeps -> HandType]
           /\ unsure' \subseteq Composite
           /\ HandInv'
<1> DEFINE K == {w \in Writes : RuleOf[w] = r /\ write[w] = "done"}
           H == [rule |-> r, seen |-> v, clean |-> TRUE, known |-> K]
           F == [rule |-> r, state |-> v]
<1>1. NoHand \in HandType /\ H \in HandType /\ F \in [rule : Rules, state : States]
  BY DEF NoHand, Holding, HandType, States, Rules
<1>2. CASE Takes(s, r, v)
  <2>1. H.rule = r
    OBVIOUS
  <2>2. hand' = [hand EXCEPT ![s] = H]
    BY <1>2 DEF Takes
  <2> HIDE DEF H, F
  <2>3. fired' \in [Sweeps -> SUBSET [rule : Rules, state : States]]
    <3>1. fired' = fired \/ fired' = [fired EXCEPT ![s] = @ \cup {F}]
      BY <1>2 DEF Takes, F
    <3> QED
      BY <3>1, <1>1 DEF TypeOK
  <2>4. hand' \in [Sweeps -> HandType] /\ phase' \in [Sweeps -> Phases] /\ todo' = todo
    <3>1. phase' = [phase EXCEPT ![s] = "clearing"] /\ todo' = todo
      BY <1>2 DEF Takes, Goes
    <3>2. H \in HandType
      BY <1>1
    <3> QED
      BY <3>1, <3>2, <2>2 DEF TypeOK, Phases, Running
  <2>5. unsure' \subseteq Composite
    BY <1>2 DEF Takes, TypeOK
  <2>6. HandInv'
    BY <2>1, <2>2, <2>4, <1>2 DEF Takes, TypeOK, Goes, HandInv
  <2> QED
    BY <2>3, <2>4, <2>5, <2>6 DEF TypeOK
<1>3. CASE Leaves(s, r)
  <2>1. hand' \in [Sweeps -> HandType] /\ phase' \in [Sweeps -> Phases]
    BY <1>1, <1>3 DEF Leaves, TypeOK, Goes, Phases, Running
  <2>2. todo' \in [Sweeps -> SUBSET Rules] /\ fired' = fired /\ unsure' = unsure
    BY <1>3 DEF Leaves, TypeOK
  <2>3. HandInv'
    BY <1>3 DEF Leaves, TypeOK, Goes, HandInv
  <2> QED
    BY <2>1, <2>2, <2>3 DEF TypeOK
<1> QED
  BY <1>2, <1>3 DEF Judge

\* The values every step may leave alone.
LEMMA HandUnchanged ==
    ASSUME HandInv, phase' = phase, hand' = hand, kind' = kind,
           \A s \in Sweeps : todo'[s] \subseteq todo[s]
    PROVE  HandInv'
BY DEF HandInv

\* The types are kept by update_state and by the TTL.
LEMMA UpdateTypes ==
    ASSUME TypeOK, HandInv,
           (\E w \in Writes : Update(w)) \/ (\E r \in Composite : Expire(r))
    PROVE  TypeOK' /\ HandInv'
<1> USE SweepsAssumption
<1>1. ASSUME NEW w \in Writes, Update(w)
      PROVE  TypeOK' /\ HandInv'
  <2>1. RuleOf[w] \in Composite /\ w \in States
    BY DEF States
  <2>2. sweeps' = sweeps /\ jobs' = jobs /\ unsure' = unsure /\ cleared' = cleared
    BY <1>1 DEF Update, WriteRedis, WriteLong, Checkpoint
  <2>3. redis' \in [Composite -> States] /\ pg' \in [Composite -> States]
    <3>1. /\ redis' = redis \/ redis' = [redis EXCEPT ![RuleOf[w]] = w]
          /\ pg' = pg \/ pg' = [pg EXCEPT ![RuleOf[w]] = w]
      <4>1. CASE Checkpoint(w)
        BY <4>1 DEF Checkpoint, Upsert
      <4>2. CASE WriteLong(w)
        BY <4>2 DEF WriteLong, Upsert
      <4>3. CASE \E t \in Tiers : WriteRedis(w, t)
        BY <4>3 DEF WriteRedis
      <4> QED
        BY <1>1, <4>1, <4>2, <4>3 DEF Update
    <3>2. redis \in [Composite -> States] /\ pg \in [Composite -> States]
      BY DEF TypeOK
    <3>3. redis' \in [Composite -> States]
      BY <3>1, <3>2, <2>1
    <3>4. pg' \in [Composite -> States]
      BY <3>1, <3>2, <2>1
    <3> QED
      BY <3>3, <3>4
  <2>4. write' \in [Writes -> {"new", "second", "done"}]
    BY <1>1 DEF Update, WriteRedis, WriteLong, Checkpoint, TypeOK
  <2>5. /\ last' \in [Composite -> [state : States, tier : Tiers \cup {"none"}]]
        /\ muddled' \subseteq Composite
    <3>1. ASSUME NEW t \in Tiers, NEW b \in BOOLEAN, Begins(w, t, b)
          PROVE  /\ last' \in [Composite -> [state : States, tier : Tiers \cup {"none"}]]
                 /\ muddled' \subseteq Composite
      BY <3>1, <2>1 DEF Begins, TypeOK
    <3>2. CASE Checkpoint(w)
      BY <3>2, <2>1 DEF Checkpoint, TypeOK
    <3>3. CASE WriteLong(w)
      BY <3>3, <3>1 DEF WriteLong, Tiers
    <3>4. CASE \E t \in Tiers : WriteRedis(w, t)
      BY <3>4, <3>1 DEF WriteRedis
    <3> QED
      BY <1>1, <3>2, <3>3, <3>4 DEF Update
  <2> QED
    BY <2>2, <2>3, <2>4, <2>5 DEF TypeOK, HandInv, sweeps
<1>2. ASSUME NEW r \in Composite, Expire(r)
      PROVE  TypeOK' /\ HandInv'
  BY <1>2 DEF Expire, TypeOK, HandInv, sweeps, history, States
<1> QED
  BY <1>1, <1>2

\* The types are kept by every step of a sweep.
LEMMA SweepTypes ==
    ASSUME TypeOK, HandInv, NEW s \in Sweeps, Sweep(s)
    PROVE  TypeOK' /\ HandInv'
<1> USE SweepsAssumption
<1>1. CASE Tick(s)
  BY <1>1 DEF Tick, Goes, At, stores, history, TypeOK, HandInv, Phases
<1>2. CASE Start(s)
  <2>1. starts' \in [Sweeps -> 0..MaxTries]
    BY <1>2 DEF Start, MayStart, TypeOK
  <2>2. kind' = kind
    BY <1>2 DEF Start
  <2>3. \E p \in {"sweeping", "exhausted"}, R \in SUBSET Rules :
           Fresh(s, p, R) /\ (kind[s] = "composite" => R \subseteq Composite)
    BY <1>2 DEF Start, Rules
  <2>4. {"sweeping", "exhausted"} \subseteq Phases \ {"select", "clearing", "purging"}
    BY DEF Phases, Running
  <2>5. /\ phase' \in [Sweeps -> Phases]
        /\ todo' \in [Sweeps -> SUBSET Rules]
        /\ fired' \in [Sweeps -> SUBSET [rule : Rules, state : States]]
        /\ hand' \in [Sweeps -> HandType]
        /\ aborted' \in [Sweeps -> BOOLEAN]
        /\ HandInv'
    BY <2>2, <2>3, <2>4, FreshTypes
  <2> QED
    BY <1>2, <2>1, <2>2, <2>5 DEF Start, stores, history, TypeOK
<1>3. CASE CountEvents(s)
  <2>1. PICK r \in todo[s] :
          /\ todo' = [todo EXCEPT ![s] = @ \ {r}]
          /\ \/ fired' = [fired EXCEPT ![s] = @ \cup {[rule |-> r, state |-> NoState]}]
             \/ UNCHANGED fired
    BY <1>3 DEF CountEvents
  <2>2. todo' \in [Sweeps -> SUBSET Rules] /\ (\A u \in Sweeps : todo'[u] \subseteq todo[u])
    BY <2>1 DEF TypeOK
  <2>3. fired' \in [Sweeps -> SUBSET [rule : Rules, state : States]]
    <3>1. [rule |-> r, state |-> NoState] \in [rule : Rules, state : States]
      BY DEF TypeOK, States
    <3> QED
      BY <2>1, <3>1 DEF TypeOK
  <2>4. UNCHANGED <<stores, kind, starts, phase, hand, aborted, jobs, history>>
    BY <1>3 DEF CountEvents
  <2>5. HandInv'
    BY <2>2, <2>4, HandUnchanged
  <2> QED
    BY <2>2, <2>3, <2>4, <2>5 DEF TypeOK, stores, history
<1>4. CASE ReadRedis(s)
  <2>1. PICK r \in todo[s] :
          \/ redis[r] # NoState /\ Judge(s, r, redis[r])
          \/ /\ Goes(s, "select")
             /\ hand' = [hand EXCEPT ![s] = Holding(r)]
             /\ UNCHANGED <<todo, fired, unsure>>
    BY <1>4 DEF ReadRedis
  <2>2. r \in Composite /\ redis[r] \in States
    BY <1>4 DEF ReadRedis, HandInv, TypeOK
  <2>3. UNCHANGED <<stores, kind, starts, aborted, jobs, last, muddled, cleared>>
    BY <1>4 DEF ReadRedis
  <2>4. CASE Judge(s, r, redis[r])
    BY <2>2, <2>3, <2>4, JudgeTypes DEF TypeOK, stores
  <2>5. CASE /\ Goes(s, "select")
             /\ hand' = [hand EXCEPT ![s] = Holding(r)]
             /\ UNCHANGED <<todo, fired, unsure>>
    <3>2. PICK h : h = Holding(r)
      OBVIOUS
    <3>3. h \in HandType /\ h.rule = r
      BY <2>2, <3>2 DEF Holding, HandType, States
    <3>4. hand' = [hand EXCEPT ![s] = h]
      BY <2>5, <3>2
    <3>5. hand' \in [Sweeps -> HandType] /\ phase' \in [Sweeps -> Phases]
      BY <2>5, <3>3, <3>4 DEF TypeOK, Goes, Phases, Running
    <3>6. HandInv'
      BY <2>2, <2>3, <2>5, <3>3, <3>4 DEF TypeOK, Goes, HandInv
    <3> QED
      BY <2>3, <2>5, <3>5, <3>6 DEF TypeOK, stores
  <2> QED
    BY <2>1, <2>4, <2>5
<1>5. CASE ReadPg(s)
  <2>1. PICK v \in States : Judge(s, hand[s].rule, v)
    BY <1>5 DEF ReadPg, At, TypeOK, HandInv, States
  <2>2. hand[s].rule \in Composite
    BY <1>5 DEF ReadPg, At, HandInv
  <2>3. UNCHANGED <<redis, pg, write, kind, starts, jobs, last, muddled, cleared>>
    BY <1>5 DEF ReadPg, LeavesCache
  <2>4. aborted' \in [Sweeps -> BOOLEAN]
    BY <1>5 DEF ReadPg, MayAbort, TypeOK
  <2> QED
    BY <2>1, <2>2, <2>3, <2>4, JudgeTypes DEF TypeOK
<1>6. CASE ClearRedis(s)
  <2>1. hand[s].rule \in Composite /\ hand[s] \in HandType
    BY <1>6 DEF ClearRedis, At, HandInv, TypeOK
  <2>2. UNCHANGED <<pg, write, kind, starts, todo, fired, aborted, jobs, last, muddled, cleared>>
    BY <1>6 DEF ClearRedis
  <2>3. redis' \in [Composite -> States] /\ unsure' \subseteq Composite
    BY <1>6, <2>1 DEF ClearRedis, TypeOK, States
  <2>4. PICK h : h = [rule |-> hand[s].rule, seen |-> hand[s].seen,
                      known |-> hand[s].known, clean |-> FALSE]
    OBVIOUS
  <2>5. h \in HandType /\ h.rule = hand[s].rule
    BY <2>1, <2>4 DEF HandType
  <2>6. hand' = hand \/ hand' = [hand EXCEPT ![s] = h]
    BY <1>6, <2>4 DEF ClearRedis
  <2>7. hand' \in [Sweeps -> HandType] /\ phase' \in [Sweeps -> Phases]
    BY <1>6, <2>5, <2>6 DEF ClearRedis, Goes, TypeOK, Phases, Running
  <2>8. HandInv'
    BY <1>6, <2>1, <2>2, <2>5, <2>6 DEF ClearRedis, Goes, TypeOK, HandInv
  <2> QED
    BY <2>2, <2>3, <2>7, <2>8 DEF TypeOK
<1>7. CASE ClearPg(s)
  <2>1. hand[s].rule \in Composite /\ hand[s].known \subseteq Writes /\ NoHand \in HandType
    BY <1>7 DEF ClearPg, At, HandInv, TypeOK, HandType, NoHand, Holding, States
  <2>2. UNCHANGED <<redis, write, kind, starts, fired, jobs, last, muddled>>
    BY <1>7 DEF ClearPg
  <2>3. pg' \in [Composite -> States] /\ cleared' \subseteq Writes /\ unsure' \subseteq Composite
    BY <1>7, <2>1 DEF ClearPg, Deleted, TypeOK, States
  <2>4. aborted' \in [Sweeps -> BOOLEAN]
    BY <1>7 DEF ClearPg, MayAbort, TypeOK
  <2>5. /\ hand' = [hand EXCEPT ![s] = NoHand]
        /\ phase' = [phase EXCEPT ![s] = "sweeping"]
        /\ todo' = [todo EXCEPT ![s] = @ \ {hand[s].rule}]
    BY <1>7 DEF ClearPg, Goes
  <2>6. /\ hand' \in [Sweeps -> HandType]
        /\ phase' \in [Sweeps -> Phases]
        /\ todo' \in [Sweeps -> SUBSET Rules]
    BY <2>1, <2>5 DEF TypeOK, Phases, Running
  <2>7. HandInv'
    BY <2>2, <2>5 DEF TypeOK, HandInv
  <2> QED
    BY <2>2, <2>3, <2>4, <2>6, <2>7 DEF TypeOK
<1>8. CASE FinishRules(s)
  BY <1>8 DEF FinishRules, Goes, At, stores, history, TypeOK, HandInv, Phases, Running
<1>9. CASE QueueNext(s)
  <2>1. PICK f \in fired[s] :
          /\ fired' = [fired EXCEPT ![s] = @ \ {f}]
          /\ \/ jobs' = jobs \cup {[rule |-> f.rule, state |-> f.state, sweep |-> s,
                                    start |-> starts[s]]}
             \/ UNCHANGED jobs
    BY <1>9 DEF QueueNext
  <2>2. f \in [rule : Rules, state : States] /\ starts[s] \in 0..MaxTries
    BY DEF TypeOK
  <2>3. [rule |-> f.rule, state |-> f.state, sweep |-> s, start |-> starts[s]]
           \in [rule : Rules, state : States, sweep : Sweeps, start : 0..MaxTries]
    BY <2>2
  <2>4. jobs' \subseteq [rule : Rules, state : States, sweep : Sweeps, start : 0..MaxTries]
    BY <2>1, <2>3 DEF TypeOK
  <2>5. fired' \in [Sweeps -> SUBSET [rule : Rules, state : States]]
    BY <2>1 DEF TypeOK
  <2> QED
    BY <1>9, <2>4, <2>5 DEF QueueNext, stores, history, TypeOK, HandInv
<1>10. CASE End(s)
  <2>1. "done" \in Phases \ {"select", "clearing", "purging"}
    BY DEF Phases
  <2>2. kind' = kind /\ Fresh(s, "done", {})
    BY <1>10 DEF End
  <2> QED
    BY <1>10, <2>1, <2>2, FreshTypes DEF End, stores, history, TypeOK
<1>11. CASE Stop(s)
  <2>1. {"failed", "queued"} \subseteq Phases \ {"select", "clearing", "purging"}
    BY DEF Phases
  <2>2. kind' = kind /\ (\E p \in {"failed", "queued"} : Fresh(s, p, {}))
    BY <1>11 DEF Stop
  <2>3. unsure' \subseteq Composite
    BY <1>11 DEF Stop, At, HandInv, TypeOK
  <2> QED
    BY <1>11, <2>1, <2>2, <2>3, FreshTypes DEF Stop, stores, TypeOK
<1> QED
  BY <1>1, <1>2, <1>3, <1>4, <1>5, <1>6, <1>7, <1>8, <1>9, <1>10, <1>11 DEF Sweep

------------------------------------------------------------------------------
\* A step that moves nothing of a rule but may empty its stores keeps it in step.
LEMMA InStepKept ==
    ASSUME NEW r \in Composite, TierOf(r), StepOf(r), last'[r] = last[r],
           redis'[r] \in {NoState, redis[r]}, pg'[r] \in {NoState, pg[r]},
           \A w \in Writes : RuleOf[w] = r => write'[w] = write[w]
    PROVE  TierOf(r)' /\ StepOf(r)'
<1>1. TierOf(r)'
  BY DEF TierOf
<1>2. StepOf(r)'
  BY DEF StepOf, InFlight
<1> QED
  BY <1>1, <1>2

\* The stores of a rule stay in step: the steps of update_state.
LEMMA UpdateInStep ==
    ASSUME TypeOK, TierInv, NEW w \in Writes, Update(w)
    PROVE  TierInv'
<1> USE SweepsAssumption
<1> DEFINE q == RuleOf[w]
<1>1. q \in Composite /\ w # NoState
  OBVIOUS
<1> HIDE DEF q
<1>2. SUFFICES ASSUME NEW r \in Composite \ muddled'
               PROVE  TierOf(r)' /\ StepOf(r)'
  BY DEF TierInv
<1>3. CASE \E t \in Tiers : WriteRedis(w, t)
  <2>1. PICK t \in {"short", "medium"}, b \in BOOLEAN :
          /\ write[w] = "new" /\ pg' = pg
          /\ write' = [write EXCEPT ![w] = IF t = "short" THEN "done" ELSE "second"]
          /\ redis' = redis \/ redis' = [redis EXCEPT ![q] = w]
          /\ b => redis' = redis
          /\ ~b => redis' = [redis EXCEPT ![q] = w]
          /\ Begins(w, t, b)
    BY <1>3 DEF WriteRedis, q
  <2>2. /\ last' = [last EXCEPT ![q] = [state |-> w, tier |-> t]]
        /\ muddled' = IF b \/ InFlight(q) \/ last[q].tier \notin {"none", t}
                        THEN muddled \cup {q} ELSE muddled
    BY <2>1 DEF Begins, q
  <2>3. r \notin muddled /\ TierOf(r) /\ StepOf(r)
    BY <2>2 DEF TierInv
  <2>4. CASE r # q
    <3>1. last'[r] = last[r] /\ redis'[r] = redis[r] /\ pg'[r] = pg[r]
      BY <2>1, <2>2, <2>4 DEF TypeOK
    <3>2. \A x \in Writes : RuleOf[x] = r => write'[x] = write[x]
      BY <2>1, <2>4 DEF TypeOK, q
    <3> QED
      BY <2>3, <3>1, <3>2, InStepKept
  <2>5. CASE r = q
    <3>1. ~b /\ ~InFlight(q) /\ last[q].tier \in {"none", t}
      BY <2>2, <2>5
    <3>2. last'[q].state = w /\ last'[q].tier = t /\ redis'[q] = w /\ pg'[q] = pg[q]
      BY <1>1, <2>1, <2>2, <3>1 DEF TypeOK
    <3>3. \A x \in Writes : RuleOf[x] = q /\ write'[x] = "second" => x = w /\ t = "medium"
      BY <2>1, <3>1 DEF TypeOK, InFlight
    <3>4. t = "medium" => InFlight(q)'
      BY <2>1 DEF TypeOK, InFlight, q
    <3>5. t = "short" => pg[q] = NoState
      BY <2>3, <2>5, <3>1 DEF TierOf
    <3> QED
      BY <2>1, <2>5, <3>2, <3>3, <3>4, <3>5 DEF TierOf, StepOf
  <2> QED
    BY <2>4, <2>5
<1>4. CASE WriteLong(w)
  <2>1. PICK b \in BOOLEAN :
          /\ write[w] = "new" /\ redis' = redis
          /\ write' = [write EXCEPT ![w] = "done"]
          /\ pg' = pg \/ pg' = [pg EXCEPT ![q] = w]
          /\ ~b => pg' = [pg EXCEPT ![q] = w]
          /\ Begins(w, "long", b)
    BY <1>4 DEF WriteLong, Upsert, q
  <2>2. /\ last' = [last EXCEPT ![q] = [state |-> w, tier |-> "long"]]
        /\ muddled' = IF b \/ InFlight(q) \/ last[q].tier \notin {"none", "long"}
                        THEN muddled \cup {q} ELSE muddled
    BY <2>1 DEF Begins, q
  <2>3. r \notin muddled /\ TierOf(r) /\ StepOf(r)
    BY <2>2 DEF TierInv
  <2>4. CASE r # q
    <3>1. last'[r] = last[r] /\ redis'[r] = redis[r] /\ pg'[r] = pg[r]
      BY <2>1, <2>2, <2>4 DEF TypeOK
    <3>2. \A x \in Writes : RuleOf[x] = r => write'[x] = write[x]
      BY <2>1, <2>4 DEF TypeOK, q
    <3> QED
      BY <2>3, <3>1, <3>2, InStepKept
  <2>5. CASE r = q
    <3>1. ~b /\ ~InFlight(q) /\ last[q].tier \in {"none", "long"}
      BY <2>2, <2>5
    <3>2. last'[q].state = w /\ last'[q].tier = "long" /\ pg'[q] = w /\ redis'[q] = redis[q]
      BY <1>1, <2>1, <2>2, <3>1 DEF TypeOK
    <3>3. \A x \in Writes : RuleOf[x] = q => write'[x] # "second"
      BY <2>1, <3>1 DEF TypeOK, InFlight
    <3>4. redis[q] = NoState
      BY <2>3, <2>5, <3>1 DEF TierOf
    <3> QED
      BY <2>5, <3>2, <3>3, <3>4 DEF TierOf, StepOf
  <2> QED
    BY <2>4, <2>5
<1>5. CASE Checkpoint(w)
  <2>1. /\ write[w] = "second" /\ redis' = redis /\ last' = last
        /\ write' = [write EXCEPT ![w] = "done"]
        /\ \/ pg' = [pg EXCEPT ![q] = w] /\ muddled' = muddled
           \/ pg' = pg /\ muddled' = muddled \cup {q}
    BY <1>5 DEF Checkpoint, Upsert, q
  <2>2. r \notin muddled /\ TierOf(r) /\ StepOf(r)
    BY <2>1 DEF TierInv
  <2>3. CASE r # q
    <3>1. last'[r] = last[r] /\ redis'[r] = redis[r] /\ pg'[r] = pg[r]
      BY <2>1, <2>3 DEF TypeOK
    <3>2. \A x \in Writes : RuleOf[x] = r => write'[x] = write[x]
      BY <2>1, <2>3 DEF TypeOK, q
    <3> QED
      BY <2>2, <3>1, <3>2, InStepKept
  <2>4. CASE r = q
    <3>1. last[q].state = w /\ last[q].tier = "medium"
      BY <2>1, <2>2, <2>4 DEF TierOf, q
    <3>2. pg'[q] = w /\ redis'[q] = redis[q] /\ last'[q] = last[q]
      BY <1>1, <2>1, <2>4 DEF TypeOK
    <3>3. \A x \in Writes : RuleOf[x] = q => write'[x] # "second"
      BY <2>1, <2>2, <2>4, <3>1 DEF TypeOK, TierOf
    <3> QED
      BY <2>2, <2>4, <3>1, <3>2, <3>3 DEF TierOf, StepOf
  <2> QED
    BY <2>3, <2>4
<1> QED
  BY <1>3, <1>4, <1>5 DEF Update

\* ... and those of a sweep and of the TTL, which only empty stores.
LEMMA EmptyInStep ==
    ASSUME TypeOK, HandInv, TierInv,
           (\E s \in Sweeps : Sweep(s)) \/ (\E r \in Composite : Expire(r))
    PROVE  TierInv'
<1>1. /\ last' = last /\ muddled' = muddled /\ write' = write
      /\ \A r \in Composite : redis'[r] \in {NoState, redis[r]} /\ pg'[r] \in {NoState, pg[r]}
  <2>1. ASSUME NEW r \in Composite, Expire(r)
        PROVE  /\ last' = last /\ muddled' = muddled /\ write' = write
               /\ \A x \in Composite : redis'[x] \in {NoState, redis[x]} /\ pg'[x] \in {NoState, pg[x]}
    BY <2>1 DEF Expire, history, TypeOK
  <2>2. ASSUME NEW s \in Sweeps, Sweep(s)
        PROVE  /\ last' = last /\ muddled' = muddled /\ write' = write
               /\ \A x \in Composite : redis'[x] \in {NoState, redis[x]} /\ pg'[x] \in {NoState, pg[x]}
    <3>1. CASE Tick(s) \/ Start(s) \/ CountEvents(s) \/ FinishRules(s) \/ QueueNext(s) \/ End(s)
      BY <3>1 DEF Tick, Start, CountEvents, FinishRules, QueueNext, End, stores, history
    <3>2. CASE ReadRedis(s) \/ Stop(s)
      BY <3>2 DEF ReadRedis, Stop, stores
    <3>3. CASE ReadPg(s)
      BY <3>3 DEF ReadPg, LeavesCache
    <3>4. CASE ClearRedis(s)
      BY <3>4 DEF ClearRedis, TypeOK
    <3>5. CASE ClearPg(s)
      BY <3>5 DEF ClearPg, Deleted, TypeOK
    <3> QED
      BY <2>2, <3>1, <3>2, <3>3, <3>4, <3>5 DEF Sweep
  <2> QED
    BY <2>1, <2>2
<1> QED
  BY <1>1, InStepKept DEF TierInv

------------------------------------------------------------------------------
\* A cleared state does not return: update_state.
LEMMA UpdateKnown ==
    ASSUME TypeOK, HandInv, OwnedInv, KnownInv, NothingReturns, NEW w \in Writes, Update(w)
    PROVE  OwnedInv' /\ KnownInv' /\ NothingReturns'
<1> USE SweepsAssumption
<1> DEFINE q == RuleOf[w]
<1>1. q \in Composite /\ w # NoState
  OBVIOUS
<1> HIDE DEF q
<1>2. /\ write[w] # "done"
      /\ \A x \in Writes : write[x] = "done" => write'[x] = "done"
      /\ redis' = redis \/ redis' = [redis EXCEPT ![q] = w]
      /\ pg' = pg \/ pg' = [pg EXCEPT ![q] = w]
      /\ phase' = phase /\ hand' = hand /\ cleared' = cleared
  <2>1. CASE \E t \in Tiers : WriteRedis(w, t)
    BY <2>1 DEF WriteRedis, TypeOK, sweeps, q
  <2>2. CASE WriteLong(w)
    BY <2>2 DEF WriteLong, Upsert, TypeOK, sweeps, q
  <2>3. CASE Checkpoint(w)
    BY <2>3 DEF Checkpoint, Upsert, TypeOK, sweeps, q
  <2> QED
    BY <2>1, <2>2, <2>3 DEF Update
<1>3. OwnedInv'
  BY <1>1, <1>2 DEF OwnedInv, TypeOK, q
<1>4. NothingReturns'
  <2>1. w \notin cleared
    BY <1>2 DEF KnownInv
  <2> QED
    BY <1>1, <1>2, <2>1 DEF NothingReturns, TypeOK
<1>5. KnownInv'
  <2>1. cleared \subseteq Writes /\ (\A s \in Sweeps : hand[s].known \subseteq Writes)
    BY DEF TypeOK, HandType
  <2>2. /\ \A x \in cleared' : write'[x] = "done"
        /\ \A s \in Sweeps : phase'[s] \in {"clearing", "purging"} =>
             \A x \in hand'[s].known : write'[x] = "done" /\ RuleOf[x] = hand'[s].rule
    BY <1>2, <2>1 DEF KnownInv
  <2>3. ASSUME NEW s \in Sweeps, phase[s] = "purging", hand[s].clean
        PROVE  redis'[hand[s].rule] \notin hand[s].known
    <3>1. w \notin hand[s].known /\ redis[hand[s].rule] \notin hand[s].known
      BY <1>2, <2>3 DEF KnownInv
    <3>2. hand[s].rule \in Composite
      BY <2>3 DEF HandInv
    <3> QED
      BY <1>2, <3>1, <3>2 DEF TypeOK
  <2> QED
    BY <1>2, <2>2, <2>3 DEF KnownInv
<1> QED
  BY <1>3, <1>4, <1>5

\* ... and any step that leaves the writes alone, empties stores at most, and keeps what
\* the sweeps in the middle of a clear know.
LEMMA KnownKept ==
    ASSUME TypeOK, HandInv, OwnedInv, KnownInv, NothingReturns,
           write' = write, cleared' = cleared,
           \A r \in Composite : redis'[r] \in {NoState, redis[r]} /\ pg'[r] \in {NoState, pg[r]},
           \A s \in Sweeps : phase'[s] \in {"clearing", "purging"} =>
               phase[s] = phase'[s] /\ hand'[s] = hand[s]
    PROVE  OwnedInv' /\ KnownInv' /\ NothingReturns'
<1> USE SweepsAssumption
<1>1. OwnedInv'
  BY DEF OwnedInv
<1>2. NothingReturns'
  BY DEF NothingReturns, TypeOK
<1>3. ASSUME NEW s \in Sweeps, phase'[s] = "purging", hand'[s].clean
      PROVE  redis'[hand'[s].rule] \notin hand'[s].known
  <2>1. phase[s] = "purging" /\ hand'[s] = hand[s]
    BY <1>3
  <2>2. hand[s].rule \in Composite /\ hand[s].known \subseteq Writes
    BY <2>1 DEF HandInv, TypeOK, HandType
  <2>3. redis[hand[s].rule] \notin hand[s].known
    BY <1>3, <2>1 DEF KnownInv
  <2> QED
    BY <2>1, <2>2, <2>3
<1>4. KnownInv'
  BY <1>3 DEF KnownInv
<1> QED
  BY <1>1, <1>2, <1>4

\* ... a state judged: the sweep knows only finished writes of its rule.
LEMMA JudgeKnown ==
    ASSUME TypeOK, HandInv, KnownInv, NEW s \in Sweeps, NEW r \in Composite, NEW v \in States,
           Judge(s, r, v), write' = write, cleared' = cleared, redis' = redis
    PROVE  KnownInv'
<1> DEFINE K == {w \in Writes : RuleOf[w] = r /\ write[w] = "done"}
<1>1. PICK h : h = [rule |-> r, seen |-> v, clean |-> TRUE, known |-> K]
  OBVIOUS
<1>2. h.rule = r /\ h.known = K
  BY <1>1
<1>3. \/ hand' = [hand EXCEPT ![s] = h] /\ phase' = [phase EXCEPT ![s] = "clearing"]
      \/ hand' = [hand EXCEPT ![s] = NoHand] /\ phase' = [phase EXCEPT ![s] = "sweeping"]
  BY <1>1 DEF Judge, Takes, Leaves, Goes
<1>4. ASSUME NEW u \in Sweeps, phase'[u] \in {"clearing", "purging"}
      PROVE  \/ phase[u] = phase'[u] /\ hand'[u] = hand[u]
             \/ phase'[u] = "clearing" /\ hand'[u] = h
  BY <1>3, <1>4 DEF TypeOK
<1> QED
  BY <1>2, <1>4 DEF KnownInv

\* ... a sweep's steps and the TTL's.
LEMMA SweepKnown ==
    ASSUME TypeOK, HandInv, OwnedInv, KnownInv, NothingReturns, NEW s \in Sweeps, Sweep(s)
    PROVE  OwnedInv' /\ KnownInv' /\ NothingReturns'
<1> USE SweepsAssumption
<1>1. CASE Tick(s) \/ CountEvents(s) \/ FinishRules(s) \/ QueueNext(s)
  <2>1. /\ redis' = redis /\ pg' = pg /\ write' = write /\ cleared' = cleared /\ hand' = hand
        /\ \E p \in {"queued", "missed", "queueing"} :
             phase' = phase \/ phase' = [phase EXCEPT ![s] = p]
    BY <1>1 DEF Tick, CountEvents, FinishRules, QueueNext, Goes, stores, history
  <2>2. \A u \in Sweeps : phase'[u] \in {"clearing", "purging"} => phase[u] = phase'[u]
    BY <2>1 DEF TypeOK
  <2> QED
    BY <2>1, <2>2, KnownKept
<1>2. CASE Start(s) \/ End(s) \/ Stop(s)
  <2>1. /\ redis' = redis /\ pg' = pg /\ write' = write /\ cleared' = cleared
        /\ hand' = [hand EXCEPT ![s] = NoHand]
        /\ \E p \in {"sweeping", "exhausted", "done", "failed", "queued"} :
             phase' = [phase EXCEPT ![s] = p]
    BY <1>2 DEF Start, End, Stop, Fresh, Goes, stores, history
  <2>2. \A u \in Sweeps : phase'[u] \in {"clearing", "purging"} =>
             phase[u] = phase'[u] /\ hand'[u] = hand[u]
    BY <2>1 DEF TypeOK
  <2> QED
    BY <2>1, <2>2, KnownKept
<1>3. CASE ReadRedis(s)
  <2>1. PICK r \in todo[s] :
          \/ redis[r] # NoState /\ Judge(s, r, redis[r])
          \/ Goes(s, "select") /\ hand' = [hand EXCEPT ![s] = Holding(r)]
    BY <1>3 DEF ReadRedis
  <2>2. r \in Composite /\ redis[r] \in States
    BY <1>3 DEF ReadRedis, HandInv, TypeOK
  <2>3. redis' = redis /\ pg' = pg /\ write' = write /\ cleared' = cleared
    BY <1>3 DEF ReadRedis, stores
  <2>4. CASE Judge(s, r, redis[r])
    BY <2>2, <2>3, <2>4, JudgeKnown DEF OwnedInv, NothingReturns
  <2>5. CASE Goes(s, "select") /\ hand' = [hand EXCEPT ![s] = Holding(r)]
    <3>1. \A u \in Sweeps : phase'[u] \in {"clearing", "purging"} =>
             phase[u] = phase'[u] /\ hand'[u] = hand[u]
      BY <2>5 DEF Goes, TypeOK
    <3> QED
      BY <2>3, <3>1, KnownKept
  <2> QED
    BY <2>1, <2>4, <2>5
<1>4. CASE ReadPg(s)
  <2>1. PICK v \in States : Judge(s, hand[s].rule, v)
    BY <1>4 DEF ReadPg, At, TypeOK, HandInv, States
  <2>2. hand[s].rule \in Composite
    BY <1>4 DEF ReadPg, At, HandInv
  <2>3. redis' = redis /\ pg' = pg /\ write' = write /\ cleared' = cleared
    BY <1>4 DEF ReadPg, LeavesCache
  <2> QED
    BY <2>1, <2>2, <2>3, JudgeKnown DEF OwnedInv, NothingReturns
<1>5. CASE ClearRedis(s)
  <2>1. PICK h : h = [rule |-> hand[s].rule, seen |-> hand[s].seen,
                      known |-> hand[s].known, clean |-> FALSE]
    OBVIOUS
  <2>2. h.rule = hand[s].rule /\ h.known = hand[s].known /\ ~h.clean
    BY <2>1
  <2>3. /\ phase[s] = "clearing" /\ phase' = [phase EXCEPT ![s] = "purging"]
        /\ pg' = pg /\ write' = write /\ cleared' = cleared
        /\ \/ redis' = [redis EXCEPT ![hand[s].rule] = NoState] /\ hand' = hand
           \/ redis' = redis /\ hand' = [hand EXCEPT ![s] = h]
    BY <1>5, <2>1 DEF ClearRedis, At, Goes
  <2>4. hand[s].rule \in Composite /\ hand[s].known \subseteq Writes
    BY <2>3 DEF HandInv, TypeOK, HandType
  <2>5. \A r \in Composite : redis'[r] \in {NoState, redis[r]}
    BY <2>3 DEF TypeOK
  <2>6. OwnedInv' /\ NothingReturns'
    BY <2>3, <2>5 DEF OwnedInv, NothingReturns, TypeOK
  <2>7. \A u \in Sweeps : phase'[u] \in {"clearing", "purging"} =>
          /\ phase[u] \in {"clearing", "purging"}
          /\ hand'[u].rule = hand[u].rule /\ hand'[u].known = hand[u].known
    BY <2>2, <2>3 DEF TypeOK
  <2>8. ASSUME NEW u \in Sweeps, phase'[u] = "purging", hand'[u].clean
        PROVE  redis'[hand'[u].rule] \notin hand'[u].known
    <3>1. CASE u = s
      <4>1. hand' = hand /\ redis'[hand[s].rule] = NoState
        BY <2>2, <2>3, <2>4, <2>8, <3>1 DEF TypeOK
      <4> QED
        BY <2>4, <3>1, <4>1
    <3>2. CASE u # s
      <4>1. phase[u] = "purging" /\ hand'[u] = hand[u]
        BY <2>3, <2>8, <3>2 DEF TypeOK
      <4>2. hand[u].rule \in Composite /\ hand[u].known \subseteq Writes
        BY <4>1 DEF HandInv, TypeOK, HandType
      <4> QED
        BY <2>5, <2>8, <4>1, <4>2 DEF KnownInv
    <3> QED
      BY <3>1, <3>2
  <2>9. KnownInv'
    BY <2>3, <2>7, <2>8 DEF KnownInv
  <2> QED
    BY <2>6, <2>9
<1>6. CASE ClearPg(s)
  <2>1. /\ phase[s] = "purging" /\ phase' = [phase EXCEPT ![s] = "sweeping"]
        /\ hand' = [hand EXCEPT ![s] = NoHand]
        /\ redis' = redis /\ write' = write
        /\ \/ pg' = [pg EXCEPT ![hand[s].rule] = NoState]
           \/ pg' = pg /\ cleared' = cleared
        /\ cleared' = cleared \/ (hand[s].clean /\ cleared' = cleared \cup hand[s].known)
    BY <1>6 DEF ClearPg, At, Goes, Deleted
  <2>2. hand[s].rule \in Composite /\ hand[s].known \subseteq Writes
    BY <2>1 DEF HandInv, TypeOK, HandType
  <2>3. \A u \in Sweeps : phase'[u] \in {"clearing", "purging"} =>
          phase[u] = phase'[u] /\ hand'[u] = hand[u]
    BY <2>1 DEF TypeOK
  <2>4. \A r \in Composite : pg'[r] \in {NoState, pg[r]}
    BY <2>1 DEF TypeOK
  <2>5. CASE cleared' = cleared
    BY <2>1, <2>3, <2>4, <2>5, KnownKept
  <2>6. CASE hand[s].clean /\ cleared' = cleared \cup hand[s].known
                           /\ pg' = [pg EXCEPT ![hand[s].rule] = NoState]
    <3>1. OwnedInv'
      BY <2>1, <2>4 DEF OwnedInv
    <3>2. KnownInv'
      BY <2>1, <2>3, <2>6 DEF KnownInv
    <3>3. ASSUME NEW r \in Composite
          PROVE  redis'[r] \notin cleared' /\ pg'[r] \notin cleared'
      <4>1. redis[r] \notin cleared /\ pg[r] \notin cleared /\ NoState \notin cleared
        BY DEF NothingReturns, TypeOK
      <4>2. CASE r = hand[s].rule
        <5>1. redis[r] \notin hand[s].known
          BY <2>1, <2>6, <4>2 DEF KnownInv
        <5>2. pg'[r] = NoState
          BY <2>6, <4>2 DEF TypeOK
        <5> QED
          BY <2>1, <2>2, <2>6, <4>1, <5>1, <5>2
      <4>3. CASE r # hand[s].rule
        <5>1. \A w \in hand[s].known : RuleOf[w] = hand[s].rule
          BY <2>1 DEF KnownInv
        <5>2. redis[r] \notin hand[s].known /\ pg[r] \notin hand[s].known
          BY <2>2, <4>3, <5>1 DEF OwnedInv
        <5> QED
          BY <2>1, <2>2, <2>4, <2>6, <4>1, <5>2
      <4> QED
        BY <4>2, <4>3
    <3>4. NothingReturns'
      BY <3>3 DEF NothingReturns
    <3> QED
      BY <3>1, <3>2, <3>4
  <2> QED
    BY <2>1, <2>5, <2>6
<1> QED
  BY <1>1, <1>2, <1>3, <1>4, <1>5, <1>6 DEF Sweep

------------------------------------------------------------------------------
\* The inductive invariant.
IInv == TypeOK /\ HandInv /\ TierInv /\ OwnedInv /\ KnownInv /\ NothingReturns

LEMMA InitIInv == Init => IInv
<1> SUFFICES ASSUME Init PROVE IInv
  OBVIOUS
<1>1. TypeOK /\ HandInv
  BY TypeInit
<1>2. TierInv
  BY DEF Init, TierInv, TierOf, StepOf, InFlight
<1>3. OwnedInv /\ NothingReturns
  BY DEF Init, OwnedInv, NothingReturns
<1>4. KnownInv
  BY DEF Init, KnownInv
<1> QED
  BY <1>1, <1>2, <1>3, <1>4 DEF IInv

LEMMA NextIInv == IInv /\ [Next]_vars => IInv'
<1> SUFFICES ASSUME IInv, [Next]_vars PROVE IInv'
  OBVIOUS
<1> USE DEF IInv
<1>1. ASSUME NEW w \in Writes, Update(w) PROVE IInv'
  BY <1>1, UpdateTypes, UpdateInStep, UpdateKnown
<1>2. ASSUME NEW r \in Composite, Expire(r) PROVE IInv'
  <2>1. TypeOK' /\ HandInv' /\ TierInv'
    BY <1>2, UpdateTypes, EmptyInStep
  <2>2. /\ write' = write /\ cleared' = cleared /\ phase' = phase /\ hand' = hand
        /\ \A x \in Composite : redis'[x] \in {NoState, redis[x]} /\ pg'[x] \in {NoState, pg[x]}
    BY <1>2 DEF Expire, sweeps, history, TypeOK
  <2> QED
    BY <2>1, <2>2, KnownKept
<1>3. ASSUME NEW s \in Sweeps, Sweep(s) PROVE IInv'
  BY <1>3, SweepTypes, EmptyInStep, SweepKnown
<1>4. CASE UNCHANGED vars
  <2>1. TypeOK' /\ HandInv'
    BY <1>4 DEF vars, TypeOK, HandInv
  <2>2. TierInv'
    BY <1>4 DEF vars, TierInv, TierOf, StepOf, InFlight
  <2>3. OwnedInv' /\ KnownInv' /\ NothingReturns'
    BY <1>4 DEF vars, OwnedInv, KnownInv, NothingReturns
  <2> QED
    BY <2>1, <2>2, <2>3
<1>5. CASE Terminated
  BY <1>4, <1>5 DEF Terminated
<1> QED
  BY <1>1, <1>2, <1>3, <1>4, <1>5 DEF Next

\* The types of the sweeps, the stores and the history.
THEOREM TypeCorrect == Spec => []TypeOK
<1>1. IInv => TypeOK
  BY DEF IInv
<1> QED
  BY InitIInv, NextIInv, <1>1, PTL DEF Spec

\* For any number of rules, writes and sweeps: unless a store write failed, two writes of
\* a rule overlapped or its window changed tier, a read of the rule's state answers the
\* state written last or nothing (update_state, get_state, clear_state).
THEOREM StoresStayInStep == Spec => []StoresInStep
<1>1. IInv => StoresInStep
  BY DEF IInv, TierInv, StepOf, StoresInStep
<1> QED
  BY InitIInv, NextIInv, <1>1, PTL DEF Spec

\* For any number of rules, writes and sweeps, and whatever fails: a state cleared from
\* both stores is never read again (clear_state, get_state).
THEOREM ClearedStaysCleared == Spec => []NothingReturns
<1>1. IInv => NothingReturns
  BY DEF IInv
<1> QED
  BY InitIInv, NextIInv, <1>1, PTL DEF Spec

------------------------------------------------------------------------------
\* What makes ClearsOnlyWhatFired inductive: a sweep in the middle of a clear that knew
\* the state in force has fired it.
FiredOf(s) ==
    /\ phase[s] \in {"clearing", "purging"} /\ hand[s].seen # NoState
    /\ hand[s].rule \notin muddled
    /\ last[hand[s].rule].state \in hand[s].known
    => [rule |-> hand[s].rule, state |-> last[hand[s].rule].state] \in fired[s]

FiredInv == \A s \in Sweeps : FiredOf(s)

\* A sweep that is not the one that moves.
LEMMA FiredKept ==
    ASSUME NEW s \in Sweeps, FiredOf(s), phase'[s] \in {"clearing", "purging"} =>
             /\ phase[s] \in {"clearing", "purging"} /\ fired'[s] = fired[s]
             /\ hand'[s].seen = hand[s].seen /\ hand'[s].rule = hand[s].rule
             /\ hand'[s].known = hand[s].known,
           muddled \subseteq muddled',
           phase[s] \in {"clearing", "purging"} =>
             \/ last'[hand[s].rule] = last[hand[s].rule]
             \/ last'[hand[s].rule].state \notin hand[s].known
    PROVE  FiredOf(s)'
BY DEF FiredOf

LEMMA UpdateFired ==
    ASSUME IInv, FiredInv, NEW w \in Writes, Update(w)
    PROVE  FiredInv'
<1> USE SweepsAssumption
<1>1. SUFFICES ASSUME NEW s \in Sweeps PROVE FiredOf(s)'
  BY DEF FiredInv
<1>2. phase' = phase /\ fired' = fired /\ hand' = hand
  BY DEF Update, WriteRedis, WriteLong, Checkpoint, sweeps
<1>3. muddled \subseteq muddled'
  BY DEF Update, WriteRedis, WriteLong, Checkpoint, Begins
<1>4. CASE last' = last
  BY <1>2, <1>3, <1>4, FiredKept DEF FiredInv
<1>5. CASE write[w] = "new" /\ \E t \in Tiers : last' = [last EXCEPT ![RuleOf[w]] = [state |-> w, tier |-> t]]
  <2>1. phase[s] \in {"clearing", "purging"} => w \notin hand[s].known /\ hand[s].rule \in Composite
    BY <1>5 DEF IInv, KnownInv, HandInv
  <2>2. phase[s] \in {"clearing", "purging"} =>
          \/ last'[hand[s].rule] = last[hand[s].rule]
          \/ last'[hand[s].rule].state \notin hand[s].known
    BY <1>5, <2>1 DEF IInv, TypeOK
  <2> QED
    BY <1>2, <1>3, <2>2, FiredKept DEF FiredInv
<1>6. CASE Checkpoint(w)
  BY <1>4, <1>6 DEF Checkpoint
<1>7. CASE WriteLong(w)
  BY <1>5, <1>7 DEF WriteLong, Begins, Tiers
<1>8. CASE \E t \in Tiers : WriteRedis(w, t)
  BY <1>5, <1>8 DEF WriteRedis, Begins
<1> QED
  BY <1>6, <1>7, <1>8 DEF Update

\* A state judged: had the sweep known the state in force, that is what it saw.
LEMMA JudgeFired ==
    ASSUME IInv, NEW s \in Sweeps, NEW r \in Composite, NEW v \in {NoState, redis[r], pg[r]},
           Judge(s, r, v), last' = last, muddled' = muddled
    PROVE  FiredOf(s)'
<1> USE SweepsAssumption
<1> DEFINE K == {w \in Writes : RuleOf[w] = r /\ write[w] = "done"}
<1>1. PICK h : h = [rule |-> r, seen |-> v, clean |-> TRUE, known |-> K]
  OBVIOUS
<1>2. h.rule = r /\ h.known = K /\ h.seen = v
  BY <1>1
<1>3. CASE Leaves(s, r)
  <2>1. phase'[s] = "sweeping"
    BY <1>3 DEF Leaves, Goes, IInv, TypeOK
  <2> QED
    BY <2>1 DEF FiredOf
<1>4. CASE Clears(v) /\ Takes(s, r, v)
  <2>1. hand'[s] = h
    BY <1>1, <1>4 DEF Takes, IInv, TypeOK
  <2>2. [rule |-> r, state |-> v] \in fired'[s]
    BY <1>4 DEF Clears, Takes, IInv, TypeOK
  <2>3. ASSUME v # NoState, r \notin muddled, last[r].state \in K
        PROVE  v = last[r].state
    <3>1. ~InFlight(r)
      <4>1. \A w \in Writes : RuleOf[w] = r /\ write[w] = "second" => last[r].state = w
        BY <2>3 DEF IInv, TierInv, TierOf
      <4> QED
        BY <2>3, <4>1 DEF InFlight
    <3>2. redis[r] \in {NoState, last[r].state} /\ pg[r] \in {NoState, last[r].state}
      BY <2>3, <3>1 DEF IInv, TierInv, StepOf
    <3> QED
      BY <2>3, <3>2
  <2> QED
    BY <1>2, <2>1, <2>2, <2>3 DEF FiredOf
<1> QED
  BY <1>3, <1>4 DEF Judge

LEMMA SweepFired ==
    ASSUME IInv, FiredInv, NEW s \in Sweeps, Sweep(s)
    PROVE  FiredInv'
<1> USE SweepsAssumption
<1>1. last' = last /\ muddled' = muddled
  BY DEF Sweep, Tick, Start, CountEvents, ReadRedis, ReadPg, ClearRedis, ClearPg,
         FinishRules, QueueNext, End, Stop, history
<1>2. ASSUME NEW u \in Sweeps \ {s}
      PROVE  phase'[u] = phase[u] /\ fired'[u] = fired[u] /\ hand'[u] = hand[u]
  <2>1. CASE Tick(s) \/ CountEvents(s) \/ FinishRules(s) \/ QueueNext(s) \/ ClearPg(s)
    BY <2>1 DEF Tick, CountEvents, FinishRules, QueueNext, ClearPg, Goes, IInv, TypeOK
  <2>2. CASE Start(s) \/ End(s) \/ Stop(s)
    BY <2>2 DEF Start, End, Stop, Fresh, Goes, IInv, TypeOK
  <2>3. CASE ReadRedis(s) \/ ReadPg(s)
    BY <2>3 DEF ReadRedis, ReadPg, Judge, Takes, Leaves, Goes, IInv, TypeOK
  <2>4. CASE ClearRedis(s)
    BY <2>4 DEF ClearRedis, Goes, IInv, TypeOK
  <2> QED
    BY <2>1, <2>2, <2>3, <2>4 DEF Sweep
<1>3. ASSUME NEW u \in Sweeps \ {s} PROVE FiredOf(u)'
  BY <1>1, <1>2, FiredKept DEF FiredInv
<1>4. CASE phase'[s] \notin {"clearing", "purging"}
  <2>1. FiredOf(s)'
    BY <1>4 DEF FiredOf
  <2> QED
    BY <1>3, <2>1 DEF FiredInv
<1>5. CASE phase'[s] \in {"clearing", "purging"} /\ ReadRedis(s)
  <2>1. PICK r \in todo[s] : Judge(s, r, redis[r])
    BY <1>5 DEF ReadRedis, Goes, IInv, TypeOK
  <2>2. r \in Composite
    BY <1>5 DEF ReadRedis, IInv, HandInv
  <2> QED
    BY <1>1, <1>3, <2>1, <2>2, JudgeFired DEF FiredInv
<1>6. CASE ReadPg(s)
  <2>1. hand[s].rule \in Composite
    BY <1>6 DEF ReadPg, At, IInv, HandInv
  <2>2. \E v \in {NoState, pg[hand[s].rule]} : Judge(s, hand[s].rule, v)
    BY <1>6 DEF ReadPg
  <2> QED
    BY <1>1, <1>3, <2>1, <2>2, JudgeFired DEF FiredInv
<1>7. CASE ClearRedis(s)
  <2>1. PICK h : h = [rule |-> hand[s].rule, seen |-> hand[s].seen,
                      known |-> hand[s].known, clean |-> FALSE]
    OBVIOUS
  <2>2. h.rule = hand[s].rule /\ h.known = hand[s].known /\ h.seen = hand[s].seen
    BY <2>1
  <2>3. phase[s] = "clearing" /\ fired' = fired /\ (hand'[s] = hand[s] \/ hand'[s] = h)
    BY <1>7, <2>1 DEF ClearRedis, At, IInv, TypeOK
  <2>4. FiredOf(s)'
    BY <1>1, <2>2, <2>3, FiredKept DEF FiredInv
  <2> QED
    BY <1>3, <2>4 DEF FiredInv
<1>8. CASE Tick(s) \/ Start(s) \/ CountEvents(s) \/ ClearPg(s) \/ FinishRules(s) \/ QueueNext(s)
           \/ End(s) \/ Stop(s)
  <2>1. phase'[s] \notin {"clearing", "purging"}
    BY <1>8 DEF Tick, Start, CountEvents, ClearPg, FinishRules, QueueNext, End, Stop, Fresh,
                Goes, At, IInv, TypeOK
  <2> QED
    BY <1>4, <2>1
<1> QED
  BY <1>4, <1>5, <1>6, <1>7, <1>8 DEF Sweep

\* The invariant behind ClearsOnlyWhatFired.
FIInv == IInv /\ FiredInv

LEMMA InitFIInv == Init => FIInv
<1>1. Init => FiredInv
  BY DEF Init, FiredInv, FiredOf
<1> QED
  BY <1>1, InitIInv DEF FIInv

LEMMA NextFIInv == FIInv /\ [Next]_vars => FIInv'
<1> SUFFICES ASSUME FIInv, [Next]_vars PROVE FIInv'
  OBVIOUS
<1>1. IInv /\ FiredInv /\ IInv'
  BY NextIInv DEF FIInv
<1>2. ASSUME NEW w \in Writes, Update(w) PROVE FiredInv'
  BY <1>1, <1>2, UpdateFired
<1>3. ASSUME NEW r \in Composite, Expire(r) PROVE FiredInv'
  BY <1>1, <1>3 DEF Expire, sweeps, history, FiredInv, FiredOf
<1>4. ASSUME NEW s \in Sweeps, Sweep(s) PROVE FiredInv'
  BY <1>1, <1>4, SweepFired
<1>5. ASSUME UNCHANGED vars PROVE FiredInv'
  BY <1>1, <1>5 DEF vars, FiredInv, FiredOf
<1> QED
  BY <1>1, <1>2, <1>3, <1>4, <1>5 DEF Next, Terminated, FIInv

\* For any number of rules, writes and sweeps: a state in force that was fully written
\* when the sweep read the rule is cleared only if it is what fired, as long as the
\* rule's stores are in step (evaluate_composite_rules, clear_state).
THEOREM OnlyFiredIsCleared == Spec => ClearsOnlyWhatFired
<1>1. FIInv => OnlyFired
  BY DEF FIInv, FiredInv, FiredOf, OnlyFired, InHand, At
<1> QED
  BY InitFIInv, NextFIInv, <1>1, PTL DEF Spec, ClearsOnlyWhatFired

------------------------------------------------------------------------------
(* What makes FiresOnce inductive: where it promises anything, a state that fired is on   *)
(* its way out of the stores, in the hands of a sweep whose clear went well so far, or    *)
(* gone from them for good; so no other sweep can read it without being noticed.          *)

Firing(r, v) == [rule |-> r, state |-> v]

JobsOf(r, v) == {m \in jobs : m.rule = r /\ m.state = v}

Covered(r, v) ==
    v \in cleared \/ \E u \in Sweeps : InHand(u, r) /\ hand[u].clean /\ v \in hand[u].known

OnceOf(r, v) ==
    /\ \A s, u \in Sweeps : Firing(r, v) \in fired[s] /\ Firing(r, v) \in fired[u] => s = u
    /\ \A s \in Sweeps : Firing(r, v) \in fired[s] => JobsOf(r, v) = {}
    /\ \A m, n \in JobsOf(r, v) : m = n
    /\ (\E s \in Sweeps : Firing(r, v) \in fired[s]) => Covered(r, v)
    /\ JobsOf(r, v) # {} => Covered(r, v)

OnceInv == \A r \in Composite \ unsure, v \in Writes : OnceOf(r, v)

\* A state fires for the rule it belongs to.
OwnerInv ==
    /\ \A s \in Sweeps : \A f \in fired[s] : f.state # NoState => f.rule = RuleOf[f.state]
    /\ \A m \in jobs : m.state # NoState => m.rule = RuleOf[m.state]

\* What is in a store has been written.
WrittenInv ==
    \A r \in Composite, w \in Writes : write[w] = "new" => redis[r] # w /\ pg[r] # w

LEMMA FiringFields ==
    ASSUME NEW r, NEW v, NEW q, NEW w
    PROVE  /\ Firing(r, v).rule = r /\ Firing(r, v).state = v
           /\ Firing(r, v) = Firing(q, w) <=> r = q /\ v = w
<1>1. Firing(r, v).rule = r /\ Firing(r, v).state = v /\ Firing(q, w).rule = q /\ Firing(q, w).state = w
  BY DEF Firing
<1>2. r = q /\ v = w => Firing(r, v) = Firing(q, w)
  OBVIOUS
<1> QED
  BY <1>1, <1>2

LEMMA FiredRecords ==
    ASSUME TypeOK, NEW s \in Sweeps, NEW f \in fired[s]
    PROVE  f = Firing(f.rule, f.state)
BY DEF TypeOK, Firing

\* A step that neither fires nor queues this state, and keeps it covered.
LEMMA OnceKept ==
    ASSUME NEW r, NEW v, OnceOf(r, v), jobs' = jobs,
           \A s \in Sweeps : Firing(r, v) \in fired'[s] => Firing(r, v) \in fired[s],
           Covered(r, v) => Covered(r, v)'
    PROVE  OnceOf(r, v)'
<1>1. JobsOf(r, v)' = JobsOf(r, v)
  BY DEF JobsOf
<1>2. PICK F : F = Firing(r, v)
  OBVIOUS
<1>3. \A s \in Sweeps : F \in fired'[s] => F \in fired[s]
  BY <1>2
<1>4. /\ \A s, u \in Sweeps : F \in fired[s] /\ F \in fired[u] => s = u
      /\ \A s \in Sweeps : F \in fired[s] => JobsOf(r, v) = {}
      /\ \A m, n \in JobsOf(r, v) : m = n
      /\ (\E s \in Sweeps : F \in fired[s]) => Covered(r, v)
      /\ JobsOf(r, v) # {} => Covered(r, v)
  BY <1>2 DEF OnceOf
<1>5. Firing(r, v)' = F
  BY <1>2 DEF Firing
<1>6. /\ \A s, u \in Sweeps : F \in fired'[s] /\ F \in fired'[u] => s = u
      /\ \A s \in Sweeps : F \in fired'[s] => JobsOf(r, v) = {}
      /\ (\E s \in Sweeps : F \in fired'[s]) => Covered(r, v)'
      /\ JobsOf(r, v) # {} => Covered(r, v)'
  BY <1>3, <1>4
<1> QED
  BY <1>1, <1>2, <1>4, <1>6 DEF OnceOf, Firing

\* Sweep s starts or ends nothing of a clear; the others never move with it.
LEMMA CoveredKept ==
    ASSUME NEW r, NEW v, Covered(r, v), cleared \subseteq cleared',
           \A u \in Sweeps : phase[u] \in {"clearing", "purging"} /\ hand[u].rule = r =>
               phase'[u] \in {"clearing", "purging"} /\ hand'[u] = hand[u]
    PROVE  Covered(r, v)'
BY DEF Covered, InHand, At

\* The state sweep s has just read is one that nobody has fired.
LEMMA TakenOnce ==
    ASSUME TypeOK, NothingReturns, WrittenInv, OnceInv, NEW s \in Sweeps, NEW q \in Composite,
           NEW w \in {NoState, redis[q], pg[q]}, OwnedInv,
           phase[s] \notin {"clearing", "purging"}, Takes(s, q, w),
           jobs' = jobs, cleared' = cleared,
           NEW r \in Composite \ unsure', NEW v \in Writes
    PROVE  OnceOf(r, v)'
<1> USE SweepsAssumption
<1> DEFINE K == {x \in Writes : RuleOf[x] = q /\ write[x] = "done"}
<1>1. PICK h : h = [rule |-> q, seen |-> w, clean |-> TRUE, known |-> K]
  OBVIOUS
<1>2. h.rule = q /\ h.clean /\ h.known = K
  BY <1>1
<1>3. /\ phase' = [phase EXCEPT ![s] = "clearing"] /\ hand' = [hand EXCEPT ![s] = h]
      /\ fired' = fired \/ fired' = [fired EXCEPT ![s] = @ \cup {Firing(q, w)}]
      /\ unsure' = IF InFlight(q) \/ \E u \in Sweeps \ {s} : InHand(u, q)
                     THEN unsure \cup {q} ELSE unsure
  BY <1>1 DEF Takes, Goes, Firing
<1>4. OnceOf(r, v)
  BY <1>3 DEF OnceInv
<1>5. \A u \in Sweeps : phase[u] \in {"clearing", "purging"} =>
          phase'[u] \in {"clearing", "purging"} /\ hand'[u] = hand[u]
  BY <1>3 DEF TypeOK
<1>6. Covered(r, v) => Covered(r, v)'
  BY <1>5, CoveredKept
<1>7. CASE r # q \/ v # w
  <2>1. ~(r = q /\ v = w)
    BY <1>7
  <2>2. Firing(r, v) # Firing(q, w)
    BY <2>1, FiringFields
  <2>3. \A u \in Sweeps : Firing(r, v) \in fired'[u] => Firing(r, v) \in fired[u]
    BY <1>3, <2>2 DEF TypeOK
  <2> QED
    BY <1>4, <1>6, <2>3, OnceKept
<1>8. CASE r = q /\ v = w
  <2>1. ~InFlight(q) /\ \A u \in Sweeps \ {s} : ~InHand(u, q)
    BY <1>3, <1>8
  <2>2. v \notin cleared
    BY <1>8 DEF NothingReturns
  <2>3. ~Covered(r, v)
    BY <1>8, <2>1, <2>2 DEF Covered, InHand, At
  <2>4. (\A u \in Sweeps : Firing(r, v) \notin fired[u]) /\ JobsOf(r, v) = {}
    BY <1>4, <2>3 DEF OnceOf
  <2>5. v \in K
    <3>1. RuleOf[v] = q
      BY <1>8 DEF OwnedInv
    <3>2. write[v] \in {"new", "second", "done"} /\ write[v] # "new"
      BY <1>8 DEF TypeOK, WrittenInv
    <3>3. write[v] # "second"
      BY <2>1, <3>1 DEF InFlight
    <3> QED
      BY <3>1, <3>2, <3>3
  <2>6. Covered(r, v)'
    <3>1. hand'[s] = h /\ phase'[s] = "clearing"
      BY <1>3 DEF TypeOK
    <3> QED
      BY <1>2, <1>8, <2>5, <3>1 DEF Covered, InHand, At
  <2>7. \A u \in Sweeps : Firing(r, v) \in fired'[u] => u = s
    BY <1>3, <2>4 DEF TypeOK
  <2>8. JobsOf(r, v)' = {}
    BY <2>4 DEF JobsOf
  <2> QED
    BY <2>6, <2>7, <2>8 DEF OnceOf, Firing
<1> QED
  BY <1>7, <1>8

\* A rule the sweep only passes by.
LEMMA JudgeOnce ==
    ASSUME TypeOK, NothingReturns, WrittenInv, OwnedInv, OnceInv,
           NEW s \in Sweeps, NEW q \in Composite, NEW w \in {NoState, redis[q], pg[q]},
           phase[s] \notin {"clearing", "purging"}, Judge(s, q, w),
           jobs' = jobs, cleared' = cleared
    PROVE  OnceInv'
<1> SUFFICES ASSUME NEW r \in Composite \ unsure', NEW v \in Writes PROVE OnceOf(r, v)'
  BY DEF OnceInv
<1>1. CASE Takes(s, q, w)
  BY <1>1, TakenOnce
<1>2. CASE Leaves(s, q)
  <2>1. /\ fired' = fired /\ unsure' = unsure
        /\ phase' = [phase EXCEPT ![s] = "sweeping"] /\ hand' = [hand EXCEPT ![s] = NoHand]
    BY <1>2 DEF Leaves, Goes
  <2>2. \A u \in Sweeps : phase[u] \in {"clearing", "purging"} =>
          phase'[u] \in {"clearing", "purging"} /\ hand'[u] = hand[u]
    BY <2>1 DEF TypeOK
  <2>3. Covered(r, v) => Covered(r, v)'
    BY <2>2, CoveredKept
  <2>4. OnceOf(r, v)
    BY <2>1 DEF OnceInv
  <2> QED
    BY <2>1, <2>3, <2>4, OnceKept
<1> QED
  BY <1>1, <1>2 DEF Judge

LEMMA QueueOnce ==
    ASSUME TypeOK, OnceInv, NEW s \in Sweeps, QueueNext(s)
    PROVE  OnceInv'
<1> SUFFICES ASSUME NEW r \in Composite \ unsure', NEW v \in Writes PROVE OnceOf(r, v)'
  BY DEF OnceInv
<1>1. PICK f \in fired[s] :
        /\ fired' = [fired EXCEPT ![s] = @ \ {f}]
        /\ \/ jobs' = jobs \cup {[rule |-> f.rule, state |-> f.state, sweep |-> s,
                                  start |-> starts[s]]}
           \/ UNCHANGED jobs
  BY DEF QueueNext
<1>2. UNCHANGED <<phase, hand, unsure, cleared>>
  BY DEF QueueNext, history
<1>3. Covered(r, v) => Covered(r, v)'
  BY <1>2 DEF Covered, InHand, At
<1>4. OnceOf(r, v)
  BY <1>2 DEF OnceInv
<1>5. \A u \in Sweeps : Firing(r, v) \in fired'[u] => Firing(r, v) \in fired[u]
  BY <1>1 DEF TypeOK
<1>6. CASE jobs' = jobs
  BY <1>3, <1>4, <1>5, <1>6, OnceKept
<1>7. PICK m : m = [rule |-> f.rule, state |-> f.state, sweep |-> s, start |-> starts[s]]
  OBVIOUS
<1>8. m.rule = f.rule /\ m.state = f.state
  BY <1>7
<1>9. CASE jobs' = jobs \cup {m} /\ f # Firing(r, v)
  <2>1. ~(m.rule = r /\ m.state = v)
    BY <1>8, <1>9, FiredRecords
  <2>2. JobsOf(r, v)' = JobsOf(r, v)
    BY <1>9, <2>1 DEF JobsOf
  <2>3. PICK F : F = Firing(r, v)
    OBVIOUS
  <2>4. /\ \A u, x \in Sweeps : F \in fired[u] /\ F \in fired[x] => u = x
        /\ \A u \in Sweeps : F \in fired[u] => JobsOf(r, v) = {}
        /\ \A n, o \in JobsOf(r, v) : n = o
        /\ (\E u \in Sweeps : F \in fired[u]) => Covered(r, v)
        /\ JobsOf(r, v) # {} => Covered(r, v)
    BY <1>4, <2>3 DEF OnceOf
  <2>5. /\ \A u, x \in Sweeps : F \in fired'[u] /\ F \in fired'[x] => u = x
        /\ \A u \in Sweeps : F \in fired'[u] => JobsOf(r, v) = {}
        /\ (\E u \in Sweeps : F \in fired'[u]) => Covered(r, v)'
        /\ JobsOf(r, v) # {} => Covered(r, v)'
    BY <1>3, <1>5, <2>3, <2>4
  <2> QED
    BY <2>2, <2>3, <2>4, <2>5 DEF OnceOf, Firing
<1>10. CASE jobs' = jobs \cup {m} /\ f = Firing(r, v)
  <2>1. JobsOf(r, v) = {} /\ Covered(r, v)
    BY <1>1, <1>4, <1>10 DEF OnceOf
  <2>2. JobsOf(r, v)' = {m}
    <3>1. m.rule = r /\ m.state = v
      BY <1>8, <1>10, FiringFields
    <3> QED
      BY <1>10, <2>1, <3>1 DEF JobsOf
  <2>3. \A u \in Sweeps : Firing(r, v) \notin fired'[u]
    <3>1. \A u \in Sweeps : Firing(r, v) \in fired[u] => u = s
      BY <1>1, <1>4, <1>10 DEF OnceOf
    <3> QED
      BY <1>1, <1>5, <1>10, <3>1 DEF TypeOK
  <2> QED
    BY <1>3, <2>1, <2>2, <2>3 DEF OnceOf, Firing
<1> QED
  BY <1>1, <1>6, <1>7, <1>9, <1>10

LEMMA SweepOnce ==
    ASSUME TypeOK, HandInv, NothingReturns, WrittenInv, OwnedInv, OnceInv,
           NEW s \in Sweeps, Sweep(s)
    PROVE  OnceInv'
<1> USE SweepsAssumption
<1>1. CASE QueueNext(s)
  BY <1>1, QueueOnce
<1>2. CASE ReadRedis(s)
  <2>1. PICK q \in todo[s] :
          \/ redis[q] # NoState /\ Judge(s, q, redis[q])
          \/ /\ Goes(s, "select")
             /\ hand' = [hand EXCEPT ![s] = Holding(q)]
             /\ UNCHANGED <<todo, fired, unsure>>
    BY <1>2 DEF ReadRedis
  <2>2. q \in Composite /\ phase[s] = "sweeping" /\ jobs' = jobs /\ cleared' = cleared
    BY <1>2 DEF ReadRedis, HandInv, At
  <2>3. CASE Judge(s, q, redis[q])
    BY <2>2, <2>3, JudgeOnce
  <2>4. CASE /\ Goes(s, "select") /\ hand' = [hand EXCEPT ![s] = Holding(q)]
             /\ UNCHANGED <<todo, fired, unsure>>
    <3>1. \A u \in Sweeps : phase[u] \in {"clearing", "purging"} =>
            phase'[u] \in {"clearing", "purging"} /\ hand'[u] = hand[u]
      BY <2>2, <2>4 DEF TypeOK, Goes
    <3>2. ASSUME NEW r \in Composite \ unsure', NEW v \in Writes PROVE OnceOf(r, v)'
      <4>1. OnceOf(r, v)
        BY <2>4 DEF OnceInv
      <4>2. Covered(r, v) => Covered(r, v)'
        BY <2>2, <3>1, CoveredKept
      <4> QED
        BY <2>2, <2>4, <4>1, <4>2, OnceKept
    <3> QED
      BY <3>2 DEF OnceInv
  <2> QED
    BY <2>1, <2>3, <2>4
<1>3. CASE ReadPg(s)
  <2>1. hand[s].rule \in Composite /\ phase[s] = "select" /\ jobs' = jobs /\ cleared' = cleared
    BY <1>3 DEF ReadPg, At, HandInv
  <2>2. \E w \in {NoState, pg[hand[s].rule]} : Judge(s, hand[s].rule, w)
    BY <1>3 DEF ReadPg
  <2> QED
    BY <2>1, <2>2, JudgeOnce
<1>4. ASSUME jobs' = jobs, unsure \subseteq unsure', cleared \subseteq cleared',
             \A u \in Sweeps : \A f : f \in fired'[u] => f \in fired[u] \/ f.state = NoState,
             \A r \in Composite \ unsure', u \in Sweeps, v \in Writes :
                phase[u] \in {"clearing", "purging"} /\ hand[u].rule = r =>
                  \/ phase'[u] \in {"clearing", "purging"} /\ hand'[u] = hand[u]
                  \/ hand[u].clean => hand[u].known \subseteq cleared'
      PROVE  OnceInv'
  <2> SUFFICES ASSUME NEW r \in Composite \ unsure', NEW v \in Writes PROVE OnceOf(r, v)'
    BY DEF OnceInv
  <2>1. OnceOf(r, v)
    BY <1>4 DEF OnceInv
  <2>2. \A u \in Sweeps : Firing(r, v) \in fired'[u] => Firing(r, v) \in fired[u]
    <3>1. Firing(r, v).state # NoState
      BY FiringFields
    <3> QED
      BY <1>4, <3>1
  <2>3. ASSUME Covered(r, v) PROVE Covered(r, v)'
    <3>1. CASE v \in cleared
      BY <1>4, <3>1 DEF Covered
    <3>2. ASSUME NEW u \in Sweeps, InHand(u, r), hand[u].clean, v \in hand[u].known
          PROVE  Covered(r, v)'
      <4>1. phase[u] \in {"clearing", "purging"} /\ hand[u].rule = r
        BY <3>2 DEF InHand, At
      <4>2. CASE phase'[u] \in {"clearing", "purging"} /\ hand'[u] = hand[u]
        BY <3>2, <4>1, <4>2 DEF Covered, InHand, At
      <4>3. CASE hand[u].known \subseteq cleared'
        BY <3>2, <4>3 DEF Covered
      <4> QED
        BY <1>4, <3>2, <4>1, <4>2, <4>3
    <3> QED
      BY <2>3, <3>1, <3>2 DEF Covered
  <2> QED
    BY <1>4, <2>1, <2>2, <2>3, OnceKept
<1>5. CASE Tick(s) \/ FinishRules(s)
  <2>1. /\ jobs' = jobs /\ unsure' = unsure /\ cleared' = cleared /\ fired' = fired /\ hand' = hand
        /\ phase[s] \notin {"clearing", "purging"}
        /\ \E p \in Phases : phase' = [phase EXCEPT ![s] = p]
    BY <1>5 DEF Tick, FinishRules, At, Goes, history, Phases, Running
  <2>2. \A u \in Sweeps : phase[u] \in {"clearing", "purging"} => phase'[u] = phase[u]
    BY <2>1 DEF TypeOK
  <2> QED
    BY <1>4, <2>1, <2>2
<1>6. CASE CountEvents(s)
  <2>1. PICK q \in todo[s] :
          fired' = [fired EXCEPT ![s] = @ \cup {Firing(q, NoState)}] \/ UNCHANGED fired
    BY <1>6 DEF CountEvents, Firing
  <2>2. jobs' = jobs /\ unsure' = unsure /\ cleared' = cleared /\ hand' = hand /\ phase' = phase
    BY <1>6 DEF CountEvents, history
  <2>3. \A u \in Sweeps : \A f : f \in fired'[u] => f \in fired[u] \/ f = Firing(q, NoState)
    BY <2>1 DEF TypeOK
  <2>4. \A u \in Sweeps : \A f : f \in fired'[u] => f \in fired[u] \/ f.state = NoState
    BY <2>3, FiringFields
  <2> QED
    BY <1>4, <2>2, <2>4
<1>7. CASE Start(s) \/ End(s) \/ Stop(s)
  <2>1. /\ jobs' = jobs /\ cleared' = cleared
        /\ fired' = [fired EXCEPT ![s] = {}] /\ hand' = [hand EXCEPT ![s] = NoHand]
        /\ \E p \in Phases : phase' = [phase EXCEPT ![s] = p]
    BY <1>7 DEF Start, End, Stop, Fresh, Goes, history, Phases, Running
  <2>2. unsure \subseteq unsure' /\ (phase[s] \in {"clearing", "purging"} => hand[s].rule \in unsure')
    BY <1>7 DEF Start, End, Stop, At, history
  <2>3. \A u \in Sweeps : u # s => phase'[u] = phase[u] /\ hand'[u] = hand[u]
    BY <2>1 DEF TypeOK
  <2>4. \A u \in Sweeps : \A f : f \in fired'[u] => f \in fired[u]
    BY <2>1 DEF TypeOK
  <2> QED
    BY <1>4, <2>1, <2>2, <2>3, <2>4
<1>8. CASE ClearRedis(s)
  <2>1. /\ jobs' = jobs /\ cleared' = cleared /\ fired' = fired
        /\ phase' = [phase EXCEPT ![s] = "purging"]
        /\ \/ hand' = hand /\ unsure' = unsure
           \/ /\ \A u \in Sweeps \ {s} : hand'[u] = hand[u]
              /\ unsure' = unsure \cup {hand[s].rule}
    BY <1>8 DEF ClearRedis, Goes, TypeOK
  <2>2. \A u \in Sweeps : phase[u] \in {"clearing", "purging"} => phase'[u] \in {"clearing", "purging"}
    BY <2>1 DEF TypeOK
  <2> QED
    BY <1>4, <2>1, <2>2
<1>9. CASE ClearPg(s)
  <2>1. /\ jobs' = jobs /\ fired' = fired
        /\ phase' = [phase EXCEPT ![s] = "sweeping"] /\ hand' = [hand EXCEPT ![s] = NoHand]
        /\ \/ /\ cleared' = IF hand[s].clean THEN cleared \cup hand[s].known ELSE cleared
              /\ unsure' = unsure
           \/ unsure' = unsure \cup {hand[s].rule} /\ cleared' = cleared
    BY <1>9 DEF ClearPg, Goes
  <2>2. \A u \in Sweeps : u # s => phase'[u] = phase[u] /\ hand'[u] = hand[u]
    BY <2>1 DEF TypeOK
  <2> QED
    BY <1>4, <2>1, <2>2
<1> QED
  BY <1>1, <1>2, <1>3, <1>5, <1>6, <1>7, <1>8, <1>9 DEF Sweep

\* A store only ever holds what has been written.
LEMMA WrittenKept ==
    ASSUME TypeOK, WrittenInv, [Next]_vars
    PROVE  WrittenInv'
<1> USE SweepsAssumption
<1> SUFFICES ASSUME NEW r \in Composite, NEW x \in Writes, write'[x] = "new"
             PROVE  redis'[r] # x /\ pg'[r] # x
  BY DEF WrittenInv
<1> x # NoState
  OBVIOUS
<1>1. ASSUME NEW w \in Writes, Update(w) PROVE redis'[r] # x /\ pg'[r] # x
  <2>1. /\ write' = [write EXCEPT ![w] = "done"] \/ write' = [write EXCEPT ![w] = "second"]
        /\ redis' = redis \/ redis' = [redis EXCEPT ![RuleOf[w]] = w]
        /\ pg' = pg \/ pg' = [pg EXCEPT ![RuleOf[w]] = w]
    <3>1. CASE Checkpoint(w)
      BY <3>1 DEF Checkpoint, Upsert
    <3>2. CASE WriteLong(w)
      BY <3>2 DEF WriteLong, Upsert
    <3>3. CASE \E t \in Tiers : WriteRedis(w, t)
      <4>1. PICK t \in Tiers : WriteRedis(w, t)
        BY <3>3
      <4>2. CASE t = "short"
        BY <4>1, <4>2 DEF WriteRedis
      <4>3. CASE t # "short"
        BY <4>1, <4>3 DEF WriteRedis
      <4> QED
        BY <4>2, <4>3
    <3> QED
      BY <1>1, <3>1, <3>2, <3>3 DEF Update
  <2>2. x # w /\ write[x] = "new"
    BY <2>1 DEF TypeOK
  <2> QED
    BY <2>1, <2>2 DEF TypeOK, WrittenInv
<1>2. ASSUME write' = write, redis'[r] \in {NoState, redis[r]}, pg'[r] \in {NoState, pg[r]}
      PROVE  redis'[r] # x /\ pg'[r] # x
  BY <1>2 DEF WrittenInv
<1>3. ASSUME NEW q \in Composite, Expire(q) PROVE redis'[r] # x /\ pg'[r] # x
  BY <1>2, <1>3 DEF Expire, TypeOK
<1>4. ASSUME NEW s \in Sweeps, Sweep(s) PROVE redis'[r] # x /\ pg'[r] # x
  <2>1. CASE ClearRedis(s) \/ ClearPg(s)
    BY <1>2, <2>1 DEF ClearRedis, ClearPg, Deleted, TypeOK
  <2>2. CASE ReadRedis(s) \/ ReadPg(s)
    BY <1>2, <2>2 DEF ReadRedis, ReadPg, LeavesCache, stores
  <2>3. CASE ~(ClearRedis(s) \/ ClearPg(s) \/ ReadRedis(s) \/ ReadPg(s))
    BY <1>2, <1>4, <2>3 DEF Sweep, Tick, Start, CountEvents, FinishRules, QueueNext, End, Stop, stores
  <2> QED
    BY <2>1, <2>2, <2>3
<1>5. CASE UNCHANGED vars
  BY <1>2, <1>5 DEF vars
<1> QED
  BY <1>1, <1>3, <1>4, <1>5 DEF Next, Terminated

\* What fires fires for its own rule, and is queued for it.
LEMMA OwnerKept ==
    ASSUME TypeOK, HandInv, OwnedInv, OwnerInv, [Next]_vars
    PROVE  OwnerInv'
<1> USE SweepsAssumption
<1>1. ASSUME jobs' = jobs,
             \A u \in Sweeps : \A f : f \in fired'[u] =>
               f \in fired[u] \/ (f.state # NoState => f.rule = RuleOf[f.state])
      PROVE  OwnerInv'
  BY <1>1 DEF OwnerInv
<1>2. ASSUME NEW s \in Sweeps, NEW q \in Composite, NEW v \in {NoState, redis[q], pg[q]},
             Judge(s, q, v), jobs' = jobs
      PROVE  OwnerInv'
  <2>1. fired' = fired \/ fired' = [fired EXCEPT ![s] = @ \cup {Firing(q, v)}]
    BY <1>2 DEF Judge, Takes, Leaves, Firing
  <2>2. \A u \in Sweeps : \A f : f \in fired'[u] => f \in fired[u] \/ f = Firing(q, v)
    BY <2>1 DEF TypeOK
  <2>3. v # NoState => q = RuleOf[v]
    BY DEF OwnedInv
  <2>4. \A u \in Sweeps : \A f : f \in fired'[u] =>
          f \in fired[u] \/ (f.state # NoState => f.rule = RuleOf[f.state])
    BY <2>2, <2>3, FiringFields
  <2> QED
    BY <1>1, <1>2, <2>4
<1>3. CASE (\E w \in Writes : Update(w)) \/ (\E r \in Composite : Expire(r)) \/ UNCHANGED vars
  <2>1. jobs' = jobs /\ fired' = fired
    BY <1>3 DEF Update, WriteRedis, WriteLong, Checkpoint, Expire, sweeps, vars
  <2> QED
    BY <1>1, <2>1
<1>4. ASSUME NEW s \in Sweeps, Sweep(s) PROVE OwnerInv'
  <2>1. CASE ReadRedis(s)
    <3>1. PICK q \in todo[s] :
            \/ redis[q] # NoState /\ Judge(s, q, redis[q])
            \/ UNCHANGED <<todo, fired, unsure>>
      BY <2>1 DEF ReadRedis
    <3>2. q \in Composite /\ jobs' = jobs
      BY <2>1 DEF ReadRedis, HandInv
    <3> QED
      BY <1>1, <1>2, <3>1, <3>2
  <2>2. CASE ReadPg(s)
    <3>1. hand[s].rule \in Composite /\ jobs' = jobs
      BY <2>2 DEF ReadPg, At, HandInv
    <3>2. \E v \in {NoState, pg[hand[s].rule]} : Judge(s, hand[s].rule, v)
      BY <2>2 DEF ReadPg
    <3> QED
      BY <1>2, <3>1, <3>2
  <2>3. CASE QueueNext(s)
    <3>1. PICK f \in fired[s] :
            /\ fired' = [fired EXCEPT ![s] = @ \ {f}]
            /\ \/ jobs' = jobs \cup {[rule |-> f.rule, state |-> f.state, sweep |-> s,
                                      start |-> starts[s]]}
               \/ UNCHANGED jobs
      BY <2>3 DEF QueueNext
    <3>2. \A u \in Sweeps : fired'[u] \subseteq fired[u]
      BY <3>1 DEF TypeOK
    <3>3. PICK m : m = [rule |-> f.rule, state |-> f.state, sweep |-> s, start |-> starts[s]]
      OBVIOUS
    <3>4. m.rule = f.rule /\ m.state = f.state
      BY <3>3
    <3>5. f.state # NoState => f.rule = RuleOf[f.state]
      BY DEF OwnerInv
    <3>6. jobs' \subseteq jobs \cup {m}
      BY <3>1, <3>3
    <3> QED
      BY <3>2, <3>4, <3>5, <3>6 DEF OwnerInv
  <2>4. CASE CountEvents(s)
    <3>1. PICK q \in todo[s] :
            fired' = [fired EXCEPT ![s] = @ \cup {Firing(q, NoState)}] \/ UNCHANGED fired
      BY <2>4 DEF CountEvents, Firing
    <3>2. \A u \in Sweeps : \A f : f \in fired'[u] => f \in fired[u] \/ f = Firing(q, NoState)
      BY <3>1 DEF TypeOK
    <3>3. jobs' = jobs
      BY <2>4 DEF CountEvents
    <3> QED
      BY <1>1, <3>2, <3>3, FiringFields
  <2>5. CASE Start(s) \/ End(s) \/ Stop(s)
    <3>1. jobs' = jobs /\ (fired' = [fired EXCEPT ![s] = {}])
      BY <2>5 DEF Start, End, Stop, Fresh
    <3>2. \A u \in Sweeps : fired'[u] \subseteq fired[u]
      BY <3>1 DEF TypeOK
    <3> QED
      BY <1>1, <3>1, <3>2
  <2>6. CASE Tick(s) \/ FinishRules(s) \/ ClearRedis(s) \/ ClearPg(s)
    <3>1. jobs' = jobs /\ fired' = fired
      BY <2>6 DEF Tick, FinishRules, ClearRedis, ClearPg
    <3> QED
      BY <1>1, <3>1
  <2> QED
    BY <1>4, <2>1, <2>2, <2>3, <2>4, <2>5, <2>6 DEF Sweep
<1> QED
  BY <1>3, <1>4 DEF Next, Terminated

\* The invariant behind FiresOnce.
OIInv == IInv /\ WrittenInv /\ OwnerInv /\ OnceInv

LEMMA InitOIInv == Init => OIInv
<1> SUFFICES ASSUME Init PROVE OIInv
  OBVIOUS
<1>1. WrittenInv
  BY SweepsAssumption DEF Init, WrittenInv
<1>2. OwnerInv /\ OnceInv
  BY DEF Init, OwnerInv, OnceInv, OnceOf, JobsOf
<1> QED
  BY <1>1, <1>2, InitIInv DEF OIInv

LEMMA NextOIInv == OIInv /\ [Next]_vars => OIInv'
<1> SUFFICES ASSUME OIInv, [Next]_vars PROVE OIInv'
  OBVIOUS
<1>1. IInv /\ IInv' /\ WrittenInv /\ OwnerInv /\ OnceInv
  BY NextIInv DEF OIInv
<1>2. WrittenInv' /\ OwnerInv'
  BY <1>1, WrittenKept, OwnerKept DEF IInv
<1>3. ASSUME UNCHANGED <<phase, fired, hand, jobs, unsure, cleared>> PROVE OnceInv'
  BY <1>1, <1>3 DEF OnceInv, OnceOf, JobsOf, Covered, InHand, At, Firing
<1>4. ASSUME NEW w \in Writes, Update(w) PROVE OnceInv'
  BY <1>3, <1>4 DEF Update, WriteRedis, WriteLong, Checkpoint, sweeps
<1>5. ASSUME NEW r \in Composite, Expire(r) PROVE OnceInv'
  BY <1>3, <1>5 DEF Expire, sweeps, history
<1>6. ASSUME NEW s \in Sweeps, Sweep(s) PROVE OnceInv'
  BY <1>1, <1>6, SweepOnce DEF IInv
<1>7. ASSUME UNCHANGED vars PROVE OnceInv'
  BY <1>3, <1>7 DEF vars
<1> QED
  BY <1>1, <1>2, <1>4, <1>5, <1>6, <1>7 DEF Next, Terminated, OIInv

\* For any number of rules, writes and sweeps, overlapping and run again as they may be:
\* one state of a composite rule causes one alert job, unless another sweep had read it
\* too, a write of the rule was on its way, or its clear failed or was cut short
\* (evaluate_composite_rules, clear_state).
THEOREM OneStateOneAlert == Spec => []FiresOnce
<1>1. ASSUME OIInv PROVE FiresOnce
  <2> SUFFICES ASSUME NEW m \in jobs, NEW n \in jobs,
                      m.state = n.state, m.state # NoState, m.rule \notin unsure
               PROVE  m = n
    BY DEF FiresOnce
  <2>1. m.state \in Writes
    BY <1>1 DEF OIInv, IInv, TypeOK, States
  <2>2. m.rule = RuleOf[m.state] /\ n.rule = RuleOf[m.state]
    BY <1>1 DEF OIInv, OwnerInv
  <2>3. m.rule \in Composite \ unsure
    BY <2>1, <2>2, SweepsAssumption
  <2>4. OnceOf(m.rule, m.state)
    BY <1>1, <2>1, <2>3 DEF OIInv, OnceInv
  <2>5. m \in JobsOf(m.rule, m.state) /\ n \in JobsOf(m.rule, m.state)
    BY <2>2 DEF JobsOf
  <2> QED
    BY <2>4, <2>5 DEF OnceOf
<1> QED
  BY InitOIInv, NextOIInv, <1>1, PTL DEF Spec

==============================================================================
