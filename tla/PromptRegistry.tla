---------------------------- MODULE PromptRegistry ----------------------------
(***************************************************************************)
(* packages/ai/prompt_registry.py: versioned prompt templates in           *)
(* PostgreSQL, one of which may be active for a slot (task_type and        *)
(* model_family together).                                                 *)
(*                                                                         *)
(* The class flushes and leaves the commit to its caller, so a call of     *)
(* register_prompt or promote_prompt is a transaction of several           *)
(* statements under READ COMMITTED: a statement sees what was committed    *)
(* before it, an UPDATE waits for the lock of another transaction on a row *)
(* it has chosen and then looks at the row again.  The table has no        *)
(* uniqueness constraint.  Any transaction may fail and is rolled back.    *)
(***************************************************************************)
EXTENDS Naturals

CONSTANTS
    Prompts,     \* the template rows register_prompt is called for, by id
    NameOf,      \* NameOf[p]: the name column
    SlotOf,      \* SlotOf[p]: the task_type and model_family columns
    Given,       \* Given[p]: the version passed in prompt_data, 0 for none
    Evaluated,   \* prompts with at least one PromptEvaluation row
    Promotions,  \* promote_prompt calls
    NoPrompt     \* no prompt

Slots == {SlotOf[p] : p \in Prompts}
Names == {NameOf[p] : p \in Prompts}

ASSUME RegistryAssumption ==
    /\ Given \in [Prompts -> Nat]
    /\ NoPrompt \notin Prompts

VARIABLES
    reg,      \* reg[p]: where the registration of p is
    version,  \* version[p]: the version column, once chosen
    active,   \* active[p]: the committed is_active column
    step,     \* step[t]: where promotion t is
    target,   \* target[t]: the prompt it promotes
    was,      \* was[t]: is_active of the target as t's session loaded it
    todo,     \* todo[t]: rows its UPDATE has chosen and not yet visited
    off,      \* off[t]: rows it has deactivated, and so locked
    wrote,    \* wrote[t]: whether its flush emitted an UPDATE of the target
    latest,   \* history: the prompt of a slot promoted last
    clashed,  \* history: slots two promotions of which overlapped
    raced     \* history: names two registrations of which overlapped

rows == <<reg, version, raced>>
promotions == <<step, target, was, todo, off, wrote, latest, clashed>>
registryVars == <<rows, active, promotions>>

RegPhases == {"idle", "counted", "stored", "rolled back"}
Steps == {"idle", "loaded", "updating", "flushed",
          "promoted", "refused", "failed"}

RegistryInit ==
    /\ reg = [p \in Prompts |-> "idle"]
    /\ version = [p \in Prompts |-> 0]
    /\ active = [p \in Prompts |-> FALSE]
    /\ step = [t \in Promotions |-> "idle"]
    /\ target = [t \in Promotions |-> NoPrompt]
    /\ was = [t \in Promotions |-> FALSE]
    /\ todo = [t \in Promotions |-> {}]
    /\ off = [t \in Promotions |-> {}]
    /\ wrote = [t \in Promotions |-> FALSE]
    /\ latest = [s \in Slots |-> NoPrompt]
    /\ clashed = {}
    /\ raced = {}

------------------------------------------------------------------------------
(* register_prompt. *)

Stored(p) == reg[p] = "stored"

\* A transaction that has read max(version) and not ended.
Registering(p) == reg[p] = "counted"

\* _next_version(name): the committed versions of the name are Taken, v is one more
\* than the largest of them (max of none is NULL, taken as 0).
Taken(name) == {version[o] : o \in {p \in Prompts : Stored(p) /\ NameOf[p] = name}}

IsNextVersion(name, v) ==
    /\ v \in {u + 1 : u \in Taken(name) \cup {0}}
    /\ \A u \in Taken(name) : u < v

\* The version passed by the caller, or the next one.
ChooseVersion(p, v) == IF Given[p] # 0 THEN v = Given[p] ELSE IsNextVersion(NameOf[p], v)

Count(p) ==
    /\ reg[p] = "idle"
    /\ \E v \in {Given[p]} \cup {u + 1 : u \in Taken(NameOf[p]) \cup {0}} :
          ChooseVersion(p, v) /\ version' = [version EXCEPT ![p] = v]
    /\ reg' = [reg EXCEPT ![p] = "counted"]
    /\ raced' = IF \E o \in Prompts : NameOf[o] = NameOf[p] /\ Registering(o)
                  THEN raced \cup {NameOf[p]} ELSE raced
    /\ UNCHANGED <<active, promotions>>

\* The INSERT (is_active False), the flush and the caller's commit, before which nobody
\* else sees the row.
CommitInsert(p) ==
    /\ reg[p] = "counted"
    /\ reg' = [reg EXCEPT ![p] = "stored"]
    /\ UNCHANGED <<version, raced, active, promotions>>

AbortInsert(p) ==
    /\ Registering(p)
    /\ reg' = [reg EXCEPT ![p] = "rolled back"]
    /\ UNCHANGED <<version, raced, active, promotions>>

------------------------------------------------------------------------------
(* promote_prompt. *)

Slot(t) == SlotOf[target[t]]

\* t has loaded its target and not ended.
Promoting(t) == step[t] \in {"loaded", "updating", "flushed"}

Goes(t, s) == step' = [step EXCEPT ![t] = s]

\* A row t has written is locked until t ends.
Writes(t) == off[t] \cup (IF wrote[t] THEN {target[t]} ELSE {})
LockedAgainst(t, p) == \E u \in Promotions \ {t} : Promoting(u) /\ p \in Writes(u)

\* evaluate_prompt and the SELECT of the template.  Without evaluation rows (which reference
\* a stored template) the promotion is refused; every row scores the placeholder 1.0, so
\* otherwise the average is above _PROMOTION_THRESHOLD.
Load(t, p) ==
    /\ step[t] = "idle"
    /\ target' = [target EXCEPT ![t] = p]
    /\ IF p \in Evaluated /\ Stored(p)
         THEN /\ Goes(t, "loaded")
              /\ was' = [was EXCEPT ![t] = active[p]]
              /\ clashed' = IF \E u \in Promotions : Promoting(u) /\ Slot(u) = SlotOf[p]
                              THEN clashed \cup {SlotOf[p]} ELSE clashed
         ELSE Goes(t, "refused") /\ UNCHANGED <<was, clashed>>
    /\ UNCHANGED <<rows, active, todo, off, wrote, latest>>

DeactivatesOlder(t) ==
    {p \in Prompts : Stored(p) /\ active[p] /\ version[p] < version[target[t]] /\ SlotOf[p] = Slot(t)}

\* The rows deactivate_stmt chooses: the other active prompts of the slot.
Deactivates(t) == {p \in Prompts : Stored(p) /\ active[p] /\ p # target[t] /\ SlotOf[p] = Slot(t)}

BeginUpdate(t) ==
    /\ step[t] = "loaded"
    /\ todo' = [todo EXCEPT ![t] = Deactivates(t)]
    /\ Goes(t, "updating")
    /\ UNCHANGED <<rows, active, target, was, off, wrote, latest, clashed>>

\* The UPDATE at one of its rows: it waits for the row's lock, and leaves the row
\* alone when another transaction has deactivated it meanwhile.
UpdateRow(t, p) ==
    /\ step[t] = "updating" /\ p \in todo[t]
    /\ ~LockedAgainst(t, p)
    /\ todo' = [todo EXCEPT ![t] = @ \ {p}]
    /\ off' = [off EXCEPT ![t] = IF active[p] THEN @ \cup {p} ELSE @]
    /\ UNCHANGED <<rows, active, step, target, was, wrote, latest, clashed>>

\* template.is_active = True and the flush, which emits an UPDATE only if the
\* attribute differs from its loaded value.
Activate(t) ==
    /\ step[t] = "updating" /\ todo[t] = {}
    /\ \/ was[t] /\ UNCHANGED wrote
       \/ /\ ~was[t] /\ ~LockedAgainst(t, target[t])
          /\ wrote' = [wrote EXCEPT ![t] = TRUE]
    /\ Goes(t, "flushed")
    /\ UNCHANGED <<rows, active, target, was, todo, off, latest, clashed>>

CommitPromotion(t) ==
    /\ step[t] = "flushed"
    /\ active' = [p \in Prompts |-> \/ active[p] /\ p \notin off[t]
                                    \/ wrote[t] /\ p = target[t]]
    /\ latest' = [latest EXCEPT ![Slot(t)] = target[t]]
    /\ Goes(t, "promoted")
    /\ UNCHANGED <<rows, target, was, todo, off, wrote, clashed>>

\* A statement or the commit fails, or PostgreSQL ends a deadlock: rolled back.
AbortPromotion(t) ==
    /\ Promoting(t)
    /\ Goes(t, "failed")
    /\ UNCHANGED <<rows, active, target, was, todo, off, wrote, latest, clashed>>

------------------------------------------------------------------------------
RegistryNext ==
    \/ \E p \in Prompts : Count(p) \/ CommitInsert(p) \/ AbortInsert(p)
    \/ \E t \in Promotions :
          \/ \E p \in Prompts : Load(t, p) \/ UpdateRow(t, p)
          \/ BeginUpdate(t) \/ Activate(t)
          \/ CommitPromotion(t) \/ AbortPromotion(t)

RegistrySpec == RegistryInit /\ [][RegistryNext]_registryVars

------------------------------------------------------------------------------
(* What get_active_prompt and get_prompt_by_version read. *)

ActiveIn(s) == {p \in Prompts : Stored(p) /\ active[p] /\ SlotOf[p] = s}

\* ORDER BY version DESC LIMIT 1; ValueError (NoPrompt) when the slot has no active row.
GetActivePrompt(s, p) ==
    \/ p \in ActiveIn(s) /\ \A o \in ActiveIn(s) : version[o] <= version[p]
    \/ p = NoPrompt /\ ActiveIn(s) = {}

------------------------------------------------------------------------------
(* Properties. *)

RegistryTypeOK ==
    /\ reg \in [Prompts -> RegPhases]
    /\ version \in [Prompts -> Nat]
    /\ active \in [Prompts -> BOOLEAN]
    /\ step \in [Promotions -> Steps]
    /\ target \in [Promotions -> Prompts \cup {NoPrompt}]
    /\ was \in [Promotions -> BOOLEAN]
    /\ todo \in [Promotions -> SUBSET Prompts]
    /\ off \in [Promotions -> SUBSET Prompts]
    /\ wrote \in [Promotions -> BOOLEAN]
    /\ latest \in [Slots -> Prompts \cup {NoPrompt}]
    /\ clashed \subseteq Slots
    /\ raced \subseteq Names

\* Unless two promotions for a slot have overlapped, the slot's one active prompt is the
\* one promoted last, and before the first promotion there is none: promote_prompt's
\* deactivation (prompt_registry.py:207) and the activation that follows neither leave a
\* second prompt active nor take the only one away, aborts and re-promotions included.
\* (Overlapping promotions do both: each deactivates what it can see, and a template
\* loaded as active is not written again when the other one has deactivated it.)
OneActivePerSlot ==
    \A s \in Slots \ clashed :
        ActiveIn(s) = IF latest[s] = NoPrompt THEN {} ELSE {latest[s]}

\* get_prompt_by_version finds at most one row (scalar_one_or_none raises on two),
\* unless two registrations of the name overlapped or a caller passed a version itself:
\* max(version) + 1 (prompt_registry.py:236) is read in one statement and used in another.
VersionsDistinct ==
    \A p, o \in {r \in Prompts : Stored(r) /\ Given[r] = 0 /\ NameOf[r] \notin raced} :
        NameOf[p] = NameOf[o] /\ version[p] = version[o] => p = o
==============================================================================
