----------------------------- MODULE RuleSweeps -----------------------------
(***************************************************************************)
(* The scheduler's sweeps over threshold and composite rules, and the      *)
(* state of the composite ones (packages/rules/state.py).                  *)
(*                                                                         *)
(* A composite rule's state is one document, kept in Redis under a TTL, in *)
(* PostgreSQL, or in both, as the window passed to update_state says; a    *)
(* read asks Redis first, a clear deletes from both.  Every store call is  *)
(* a step of its own, and every one may fail: RuleStateManager swallows    *)
(* that.  Sweeps are ordinary jobs, so two of them may overlap, and a      *)
(* sweep whose worker dies is run again.  A state is named by the          *)
(* update_state call that wrote it.                                        *)
(***************************************************************************)
EXTENDS Naturals

CONSTANTS
    Composite,    \* enabled composite rules
    Threshold,    \* enabled threshold rules
    Writes,       \* update_state calls
    RuleOf,       \* RuleOf[w]: the rule whose state call w writes
    Hot,          \* states (NoState perhaps among them) that meet their rule's expression
    NoState,      \* get_state's empty dict: neither store has the rule
    Sweeps,       \* sweep jobs the scheduler enqueues
    MaxTries      \* arq's max_tries

Rules == Composite \cup Threshold
States == Writes \cup {NoState}

ASSUME SweepsAssumption ==
    /\ Composite \cap Threshold = {}
    /\ RuleOf \in [Writes -> Composite]
    /\ NoState \notin Writes
    /\ Hot \subseteq States
    /\ MaxTries \in Nat \ {0}

VARIABLES
    redis,     \* redis[r]: the state of rule r in Redis
    pg,        \* pg[r]: its state in PostgreSQL
    write,     \* write[w]: where update_state call w is
    kind,      \* kind[s]: the rules sweep s is for
    starts,    \* starts[s]: how often arq started it
    phase,     \* phase[s]: where it is
    todo,      \* todo[s]: the rules it has still to evaluate
    fired,     \* fired[s]: what fired and has no alert job yet
    hand,      \* hand[s]: the composite rule it is at, the state it read, the writes
               \*          finished by then, and whether every clear since went through
    aborted,   \* aborted[s]: its session is in an aborted transaction
    jobs,      \* create_alert jobs queued: rule, state, and which start of which sweep did it
    last,      \* history: the state of each rule written last, and its tier ...
    muddled,   \* ... the rules whose stores may have come apart: a store write failed,
               \*     two overlapped, or the window moved to another tier
    unsure,    \* ... the rules with a firing not cleanly followed by its clear
    cleared    \* ... the states cleared from both stores

vars == <<redis, pg, write, kind, starts, phase, todo, fired, hand, aborted,
          jobs, last, muddled, unsure, cleared>>

stores == <<redis, pg, write>>
sweeps == <<kind, starts, phase, todo, fired, hand, aborted>>
history == <<last, muddled, unsure, cleared>>

\* window < 1 h, < 1 day, and longer.
Tiers == {"short", "medium", "long"}

Kinds == {"threshold", "composite"}
Running == {"sweeping", "select", "clearing", "purging", "queueing"}
Phases == {"idle", "missed", "queued", "done", "failed", "exhausted"} \cup Running

Holding(r) == [rule |-> r, seen |-> NoState, known |-> {}, clean |-> TRUE]

NoHand == Holding(NoState)

Init ==
    /\ redis = [r \in Composite |-> NoState]
    /\ pg = [r \in Composite |-> NoState]
    /\ write = [w \in Writes |-> "new"]
    /\ kind \in [Sweeps -> Kinds]
    /\ starts = [s \in Sweeps |-> 0]
    /\ phase = [s \in Sweeps |-> "idle"]
    /\ todo = [s \in Sweeps |-> {}]
    /\ fired = [s \in Sweeps |-> {}]
    /\ hand = [s \in Sweeps |-> NoHand]
    /\ aborted = [s \in Sweeps |-> FALSE]
    /\ jobs = {}
    /\ last = [r \in Composite |-> [state |-> NoState, tier |-> "none"]]
    /\ muddled = {} /\ unsure = {} /\ cleared = {}

------------------------------------------------------------------------------
(* update_state and the TTL. *)

InFlight(r) == \E w \in Writes : RuleOf[w] = r /\ write[w] = "second"

\* What the history makes of the start of a write.
Begins(w, t, failed) ==
    LET r == RuleOf[w] IN
    /\ last' = [last EXCEPT ![r] = [state |-> w, tier |-> t]]
    /\ muddled' = IF failed \/ InFlight(r) \/ last[r].tier \notin {"none", t}
                    THEN muddled \cup {r} ELSE muddled

\* ON CONFLICT DO NOTHING.
KeepsExisting(r, w) == IF pg[r] = NoState THEN [pg EXCEPT ![r] = w] ELSE pg

\* INSERT ... ON CONFLICT DO UPDATE.
Upsert(r, w) == [pg EXCEPT ![r] = w]

\* A short or medium window: SET key data EX ttl; the medium one goes on to PostgreSQL.
WriteRedis(w, t) ==
    /\ write[w] = "new" /\ t \in {"short", "medium"}
    /\ write' = [write EXCEPT ![w] = IF t = "short" THEN "done" ELSE "second"]
    /\ \/ redis' = [redis EXCEPT ![RuleOf[w]] = w] /\ Begins(w, t, FALSE)
       \/ UNCHANGED redis /\ Begins(w, t, TRUE)
    /\ UNCHANGED <<pg, sweeps, jobs, unsure, cleared>>

\* A long window: PostgreSQL only.
WriteLong(w) ==
    /\ write[w] = "new"
    /\ write' = [write EXCEPT ![w] = "done"]
    /\ \/ pg' = Upsert(RuleOf[w], w) /\ Begins(w, "long", FALSE)
       \/ UNCHANGED pg /\ Begins(w, "long", TRUE)
    /\ UNCHANGED <<redis, sweeps, jobs, unsure, cleared>>

\* A medium window's checkpoint, an await later (or the caller dies before it).
Checkpoint(w) ==
    /\ write[w] = "second"
    /\ write' = [write EXCEPT ![w] = "done"]
    /\ \/ pg' = Upsert(RuleOf[w], w) /\ UNCHANGED muddled
       \/ UNCHANGED pg /\ muddled' = muddled \cup {RuleOf[w]}
    /\ UNCHANGED <<redis, sweeps, jobs, last, unsure, cleared>>

Expire(r) ==
    /\ redis[r] # NoState
    /\ redis' = [redis EXCEPT ![r] = NoState]
    /\ UNCHANGED <<pg, write, sweeps, jobs, history>>

------------------------------------------------------------------------------
(* A sweep. *)

At(s, phases) == phase[s] \in phases

Goes(s, p) == phase' = [phase EXCEPT ![s] = p]

InHand(s, r) == At(s, {"clearing", "purging"}) /\ hand[s].rule = r

\* A new start, or the end, of a sweep's task: it has nothing in memory but rules R.
Fresh(s, p, R) ==
    /\ Goes(s, p)
    /\ todo' = [todo EXCEPT ![s] = R]
    /\ fired' = [fired EXCEPT ![s] = {}]
    /\ hand' = [hand EXCEPT ![s] = NoHand]
    /\ aborted' = [aborted EXCEPT ![s] = FALSE]

\* The scheduler's interval: it enqueues, or cannot and logs it.
Tick(s) ==
    /\ At(s, {"idle"})
    /\ Goes(s, "queued") \/ Goes(s, "missed")
    /\ UNCHANGED <<stores, kind, starts, todo, fired, hand, aborted, jobs, history>>

\* arq counting tries from one.
HasTries(n) == n <= MaxTries

\* arq starts a job at most max_tries times.
MayStart(n) == n < MaxTries

\* The task opens a session and loads the enabled rules of its kind.
Start(s) ==
    /\ At(s, {"queued"})
    /\ \/ /\ MayStart(starts[s])
          /\ starts' = [starts EXCEPT ![s] = @ + 1]
          /\ Fresh(s, "sweeping", IF kind[s] = "composite" THEN Composite ELSE Threshold)
       \/ /\ ~MayStart(starts[s])
          /\ Fresh(s, "exhausted", {})
          /\ UNCHANGED starts
    /\ UNCHANGED <<stores, kind, jobs, history>>

\* A threshold rule: the events of its window are counted; the count breaches the
\* threshold, does not, or the expression raises.
CountEvents(s) ==
    /\ At(s, {"sweeping"}) /\ kind[s] = "threshold"
    /\ \E r \in todo[s] :
         /\ todo' = [todo EXCEPT ![s] = @ \ {r}]
         /\ \/ fired' = [fired EXCEPT ![s] = @ \cup {[rule |-> r, state |-> NoState]}]
            \/ UNCHANGED fired
    /\ UNCHANGED <<stores, kind, starts, phase, hand, aborted, jobs, history>>

\* A clear_state that slipped out of the "if matched".
ClearsAnyway(v) == TRUE

\* Only a state that matched is cleared.
Clears(v) == v \in Hot

\* What rule r in state v means to sweep s.
Takes(s, r, v) ==
    /\ Goes(s, "clearing")
    /\ hand' = [hand EXCEPT ![s] =
         [rule |-> r, seen |-> v, clean |-> TRUE,
          known |-> {w \in Writes : RuleOf[w] = r /\ write[w] = "done"}]]
    /\ fired' = IF v \in Hot
                  THEN [fired EXCEPT ![s] = @ \cup {[rule |-> r, state |-> v]}]
                  ELSE fired
    /\ unsure' = IF InFlight(r) \/ \E u \in Sweeps \ {s} : InHand(u, r)
                   THEN unsure \cup {r} ELSE unsure
    /\ UNCHANGED todo

Leaves(s, r) ==
    /\ Goes(s, "sweeping")
    /\ todo' = [todo EXCEPT ![s] = @ \ {r}]
    /\ hand' = [hand EXCEPT ![s] = NoHand]
    /\ UNCHANGED <<fired, unsure>>

\* The expression is evaluated on the state read: the rule fires, and its state is to
\* be cleared; or it does not, or raises, and the sweep goes to the next rule.
Judge(s, r, v) == (Clears(v) /\ Takes(s, r, v)) \/ (~Clears(v) /\ Leaves(s, r))

\* get_state asks Redis; without an answer it goes on to PostgreSQL.
ReadRedis(s) ==
    /\ At(s, {"sweeping"}) /\ kind[s] = "composite"
    /\ \E r \in todo[s] :
         \/ redis[r] # NoState /\ Judge(s, r, redis[r])
         \/ /\ Goes(s, "select")
            /\ hand' = [hand EXCEPT ![s] = Holding(r)]
            /\ UNCHANGED <<todo, fired, unsure>>
    /\ UNCHANGED <<stores, kind, starts, aborted, jobs, last, muddled, cleared>>

\* A statement of the sweep's session fails, and may leave it in an aborted transaction,
\* in which every later one fails.
MayAbort(s) ==
    \/ aborted' = [aborted EXCEPT ![s] = TRUE]
    \/ ~aborted[s] /\ UNCHANGED aborted

\* A cache that fills itself on a miss.
FillsCache(r) == redis' = [redis EXCEPT ![r] = pg[r]]

\* get_state only reads.
LeavesCache(r) == UNCHANGED redis

\* The SELECT; a failed one reads as no state.
ReadPg(s) ==
    /\ At(s, {"select"})
    /\ LET r == hand[s].rule IN
         \/ ~aborted[s] /\ Judge(s, r, pg[r]) /\ LeavesCache(r) /\ UNCHANGED aborted
         \/ MayAbort(s) /\ Judge(s, r, NoState) /\ UNCHANGED redis
    /\ UNCHANGED <<pg, write, kind, starts, jobs, last, muddled, cleared>>

\* clear_state: DEL ...
ClearRedis(s) ==
    /\ At(s, {"clearing"})
    /\ Goes(s, "purging")
    /\ LET h == hand[s] IN
         \/ redis' = [redis EXCEPT ![h.rule] = NoState] /\ UNCHANGED <<hand, unsure>>
         \/ /\ hand' = [hand EXCEPT ![s] =
                   [rule |-> h.rule, seen |-> h.seen, known |-> h.known, clean |-> FALSE]]
            /\ unsure' = unsure \cup {h.rule}
            /\ UNCHANGED redis
    /\ UNCHANGED <<pg, write, kind, starts, todo, fired, aborted, jobs, last, muddled, cleared>>

\* A DELETE without its COMMIT.
KeepsRow(r) == pg

Deleted(r) == [pg EXCEPT ![r] = NoState]

\* ... and DELETE.
ClearPg(s) ==
    /\ At(s, {"purging"})
    /\ Goes(s, "sweeping")
    /\ LET h == hand[s] IN
         /\ todo' = [todo EXCEPT ![s] = @ \ {h.rule}]
         /\ hand' = [hand EXCEPT ![s] = NoHand]
         /\ \/ /\ ~aborted[s]
               /\ pg' = Deleted(h.rule)
               /\ cleared' = IF h.clean THEN cleared \cup h.known ELSE cleared
               /\ MayAbort(s)        \* the answer to the COMMIT may be lost
               /\ UNCHANGED unsure
            \/ MayAbort(s) /\ unsure' = unsure \cup {h.rule} /\ UNCHANGED <<pg, cleared>>
    /\ UNCHANGED <<redis, write, kind, starts, fired, jobs, last, muddled>>

\* The evaluator returns what fired; only now are the alerts queued.
FinishRules(s) ==
    /\ At(s, {"sweeping"}) /\ todo[s] = {}
    /\ Goes(s, "queueing")
    /\ UNCHANGED <<stores, kind, starts, todo, fired, hand, aborted, jobs, history>>

\* create_alert is queued, or that raises and is logged.
QueueNext(s) ==
    /\ At(s, {"queueing"})
    /\ \E f \in fired[s] :
         /\ fired' = [fired EXCEPT ![s] = @ \ {f}]
         /\ \/ jobs' = jobs \cup {[rule |-> f.rule, state |-> f.state, sweep |-> s,
                                   start |-> starts[s]]}
            \/ UNCHANGED jobs
    /\ UNCHANGED <<stores, kind, starts, phase, todo, hand, aborted, history>>

End(s) ==
    /\ At(s, {"queueing"}) /\ fired[s] = {}
    /\ Fresh(s, "done", {})
    /\ UNCHANGED <<stores, kind, starts, jobs, history>>

\* No session factory, a failing rule or count query, or job_timeout (not run again);
\* or the worker dies (arq runs the sweep again from the start).
Stop(s) ==
    /\ At(s, Running)
    /\ Fresh(s, "failed", {}) \/ Fresh(s, "queued", {})
    /\ unsure' = IF At(s, {"clearing", "purging"}) THEN unsure \cup {hand[s].rule} ELSE unsure
    /\ UNCHANGED <<stores, kind, starts, jobs, last, muddled, cleared>>

------------------------------------------------------------------------------
Terminated ==
    /\ \A w \in Writes : write[w] = "done"
    /\ \A s \in Sweeps : At(s, {"missed", "done", "failed", "exhausted"})
    /\ UNCHANGED vars

Update(w) == (\E t \in Tiers : WriteRedis(w, t)) \/ WriteLong(w) \/ Checkpoint(w)

Sweep(s) ==
    \/ Tick(s) \/ Start(s) \/ CountEvents(s)
    \/ ReadRedis(s) \/ ReadPg(s) \/ ClearRedis(s) \/ ClearPg(s)
    \/ FinishRules(s) \/ QueueNext(s) \/ End(s) \/ Stop(s)

Next ==
    \/ \E w \in Writes : Update(w)
    \/ \E r \in Composite : Expire(r)
    \/ \E s \in Sweeps : Sweep(s)
    \/ Terminated

Spec == Init /\ [][Next]_vars

------------------------------------------------------------------------------
(* Properties. *)

HandType == [rule : Composite \cup {NoState}, seen : States, known : SUBSET Writes, clean : BOOLEAN]

\* Types; a sweep is started at most max_tries times.
TypeOK ==
    /\ redis \in [Composite -> States]
    /\ pg \in [Composite -> States]
    /\ write \in [Writes -> {"new", "second", "done"}]
    /\ kind \in [Sweeps -> Kinds]
    /\ starts \in [Sweeps -> 0..MaxTries]
    /\ phase \in [Sweeps -> Phases]
    /\ todo \in [Sweeps -> SUBSET Rules]
    /\ fired \in [Sweeps -> SUBSET [rule : Rules, state : States]]
    /\ hand \in [Sweeps -> HandType]
    /\ aborted \in [Sweeps -> BOOLEAN]
    /\ jobs \subseteq [rule : Rules, state : States, sweep : Sweeps, start : 0..MaxTries]
    /\ last \in [Composite -> [state : States, tier : Tiers \cup {"none"}]]
    /\ muddled \subseteq Composite /\ unsure \subseteq Composite /\ cleared \subseteq Writes

\* Both stores hold the state written last or nothing, whatever expires and whatever the
\* sweeps clear between the two writes of a medium window: as long as no store write
\* failed, none overlapped and the rule stayed in its tier, no read is stale
\* (update_state, get_state).
StoresInStep ==
    \A r \in Composite \ muddled :
        /\ redis[r] \in {NoState, last[r].state}
        /\ InFlight(r) \/ pg[r] \in {NoState, last[r].state}

\* A state cleared from both stores never comes back: not from PostgreSQL when Redis
\* misses, not from a sweep that read it before the clear (clear_state, get_state).
NothingReturns == \A r \in Composite : {redis[r], pg[r]} \cap cleared = {}

\* One state of a composite rule causes one alert job.  What excuses a second one is in
\* the code: an overlapping sweep that had read the state too, a write still on its way
\* to PostgreSQL, a clear that failed in a store or was cut short
\* (evaluate_composite_rules: read, fire, clear).
FiresOnce ==
    \A m, n \in jobs :
        m.state = n.state /\ m.state # NoState /\ m.rule \notin unsure => m = n

\* What ClearsOnlyWhatFired says of a step.
OnlyFired ==
    \A s \in Sweeps, r \in Composite \ muddled :
        LET gone == {redis[r], pg[r]} \ {redis'[r], pg'[r]} IN
        /\ InHand(s, r) /\ phase'[s] # phase[s] /\ hand[s].seen # NoState
        /\ last[r].state \in gone \cap hand[s].known
        => [rule |-> r, state |-> last[r].state] \in fired[s]

\* A state that is in force, and was fully written before the sweep read the rule, leaves
\* the stores only if it is what fired: no clear drops conditions nobody evaluated.  For
\* a rule whose stores are in step and a sweep that read some state; a state written
\* after the read is lost (evaluate_composite_rules, clear_state).
ClearsOnlyWhatFired == [][OnlyFired]_vars

==============================================================================
