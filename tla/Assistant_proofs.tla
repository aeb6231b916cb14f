---------------------------- MODULE Assistant_proofs ----------------------------
(***************************************************************************)
(* Proofs about the prompt registry and the queries that read it, for any  *)
(* prompts, slots, promotions and queries: PromptsConsistent.              *)
(*                                                                         *)
(* A promotion that is alone in its slot finds the active column as it has *)
(* loaded it until it commits (AloneInv), so what it deactivates and what  *)
(* it activates add up to one prompt; a registration that is alone with    *)
(* its name keeps the version it has counted ahead of the stored ones.     *)
(***************************************************************************)
EXTENDS Assistant, TLAPS

\* What holds of every promotion, overlapping or not.
PromotionInv ==
    /\ \A p \in Prompts : active[p] => Stored(p)
    /\ \A t \in Promotions :
          /\ Promoting(t) => target[t] \in Prompts /\ Stored(target[t])
          /\ \A p \in todo[t] \cup off[t] : SlotOf[p] = Slot(t)
          /\ step[t] \in {"idle", "loaded"} => todo[t] = {} /\ off[t] = {} /\ ~wrote[t]

\* Promotions that do not overlap in their slot: one at a time, with a view of the slot that
\* nobody changes.
AloneInv ==
    \A t \in Promotions : Promoting(t) /\ Slot(t) \notin clashed =>
        /\ \A u \in Promotions : Promoting(u) /\ Slot(u) = Slot(t) => u = t
        /\ was[t] = active[target[t]]
        /\ step[t] = "updating" => todo[t] \cup off[t] = Deactivates(t) /\ ~wrote[t]
        /\ step[t] = "flushed" => off[t] = Deactivates(t) /\ (wrote[t] = ~was[t])

\* Registrations that do not overlap in their name: one at a time, and ahead of what is stored.
VersionInv ==
    \A p \in Prompts : Registering(p) /\ NameOf[p] \notin raced =>
        /\ \A o \in Prompts : Registering(o) /\ NameOf[o] = NameOf[p] => o = p
        /\ Given[p] = 0 => \A o \in Prompts : Stored(o) /\ NameOf[o] = NameOf[p] => version[o] < version[p]

RegistryInv ==
    /\ RegistryTypeOK /\ PromotionInv /\ AloneInv /\ VersionInv
    /\ OneActivePerSlot /\ VersionsDistinct

------------------------------------------------------------------------------
LEMMA SlotFacts == \A p \in Prompts : SlotOf[p] \in Slots /\ NameOf[p] \in Names
  BY DEF Slots, Names

LEMMA RegistryStarts == RegistryInit => RegistryInv
  <1> SUFFICES ASSUME RegistryInit PROVE RegistryInv
    OBVIOUS
  <1> USE DEF RegistryInit
  <1>1. RegistryTypeOK
    BY DEF RegistryTypeOK, RegPhases, Steps
  <1>2. \A p \in Prompts : ~Stored(p) /\ ~Registering(p) /\ ~active[p]
    BY DEF Stored, Registering
  <1>3. \A t \in Promotions : ~Promoting(t) /\ todo[t] = {} /\ off[t] = {} /\ ~wrote[t]
    BY DEF Promoting
  <1>4. PromotionInv /\ AloneInv
    BY <1>2, <1>3 DEF PromotionInv, AloneInv
  <1>5. VersionInv /\ VersionsDistinct
    BY <1>2 DEF VersionInv, VersionsDistinct
  <1>6. OneActivePerSlot
    BY <1>2 DEF OneActivePerSlot, ActiveIn
  <1> QED
    BY <1>1, <1>4, <1>5, <1>6 DEF RegistryInv

------------------------------------------------------------------------------
(* Types. *)

LEMMA RegistrationTypes ==
    ASSUME RegistryTypeOK, NEW p \in Prompts, Count(p) \/ CommitInsert(p) \/ AbortInsert(p)
    PROVE  RegistryTypeOK'
  <1> USE DEF RegPhases, promotions
  <1>1. CASE Count(p)
    <2>1. PICK v \in {Given[p]} \cup {u + 1 : u \in Taken(NameOf[p]) \cup {0}} :
              version' = [version EXCEPT ![p] = v]
      BY <1>1 DEF Count
    <2>2. v \in Nat
      <3>1. Taken(NameOf[p]) \subseteq Nat
        BY DEF Taken, RegistryTypeOK
      <3>2. Given[p] \in Nat
        BY RegistryAssumption
      <3> QED
        BY <2>1, <3>1, <3>2
    <2>3. version' \in [Prompts -> Nat]
      BY <2>1, <2>2 DEF RegistryTypeOK
    <2>4. reg' \in [Prompts -> RegPhases] /\ raced' \subseteq Names
      BY <1>1, SlotFacts DEF Count, RegistryTypeOK
    <2> QED
      BY <1>1, <2>3, <2>4 DEF Count, RegistryTypeOK
  <1>2. CASE CommitInsert(p)
    BY <1>2 DEF CommitInsert, RegistryTypeOK
  <1>3. CASE AbortInsert(p)
    BY <1>3 DEF AbortInsert, RegistryTypeOK
  <1> QED
    BY <1>1, <1>2, <1>3

PromotionStep(t) ==
    \/ \E p \in Prompts : Load(t, p) \/ UpdateRow(t, p)
    \/ BeginUpdate(t) \/ Activate(t)
    \/ CommitPromotion(t) \/ AbortPromotion(t)

LEMMA PromotionTypes ==
    ASSUME RegistryTypeOK, PromotionInv, NEW t \in Promotions, PromotionStep(t)
    PROVE  RegistryTypeOK'
  <1> USE DEF Steps, rows, Goes
  <1>1. ASSUME NEW p \in Prompts, Load(t, p)
        PROVE  RegistryTypeOK'
    <2>1. /\ target' \in [Promotions -> Prompts \cup {NoPrompt}]
          /\ step' \in [Promotions -> Steps]
      BY <1>1 DEF Load, RegistryTypeOK
    <2>2. was' \in [Promotions -> BOOLEAN] /\ clashed' \subseteq Slots
      BY <1>1, SlotFacts DEF Load, RegistryTypeOK
    <2> QED
      BY <1>1, <2>1, <2>2 DEF Load, RegistryTypeOK
  <1>2. ASSUME NEW p \in Prompts, UpdateRow(t, p)
        PROVE  RegistryTypeOK'
    BY <1>2 DEF UpdateRow, RegistryTypeOK
  <1>3. CASE BeginUpdate(t)
    <2>1. Deactivates(t) \in SUBSET Prompts
      BY DEF Deactivates
    <2> QED
      BY <1>3, <2>1 DEF BeginUpdate, RegistryTypeOK
  <1>4. CASE Activate(t)
    BY <1>4 DEF Activate, RegistryTypeOK
  <1>5. CASE CommitPromotion(t)
    <2>1. target[t] \in Prompts /\ Slot(t) \in Slots
      BY <1>5, SlotFacts DEF CommitPromotion, PromotionInv, Promoting, Slot
    <2>2. active' \in [Prompts -> BOOLEAN]
      BY <1>5 DEF CommitPromotion, RegistryTypeOK
    <2>3. latest' \in [Slots -> Prompts \cup {NoPrompt}] /\ step' \in [Promotions -> Steps]
      BY <1>5, <2>1 DEF CommitPromotion, RegistryTypeOK
    <2> QED
      BY <1>5, <2>2, <2>3 DEF CommitPromotion, RegistryTypeOK
  <1>6. CASE AbortPromotion(t)
    BY <1>6 DEF AbortPromotion, RegistryTypeOK
  <1> QED
    BY <1>1, <1>2, <1>3, <1>4, <1>5, <1>6 DEF PromotionStep

------------------------------------------------------------------------------
(* A registration's step: the promotions and the active columns stay as they are. *)

LEMMA RegistrationFacts ==
    ASSUME RegistryInv, NEW p \in Prompts, Count(p) \/ CommitInsert(p) \/ AbortInsert(p)
    PROVE  /\ active' = active /\ target' = target /\ was' = was /\ todo' = todo /\ off' = off
           /\ wrote' = wrote /\ step' = step /\ latest' = latest /\ clashed' = clashed
           /\ \A o \in Prompts : Stored(o) => Stored(o)' /\ version'[o] = version[o]
           /\ \A o \in Prompts \ {p} : reg'[o] = reg[o] /\ version'[o] = version[o]
           /\ raced \subseteq raced'
  <1> USE DEF RegistryInv, RegistryTypeOK, Stored, Registering, promotions
  <1>1. CASE Count(p)
    BY <1>1 DEF Count
  <1>2. CASE CommitInsert(p)
    BY <1>2 DEF CommitInsert
  <1>3. CASE AbortInsert(p)
    BY <1>3 DEF AbortInsert
  <1> QED
    BY <1>1, <1>2, <1>3

LEMMA RegistrationKeepsSlots ==
    ASSUME RegistryInv, NEW p \in Prompts, Count(p) \/ CommitInsert(p) \/ AbortInsert(p)
    PROVE  PromotionInv' /\ AloneInv' /\ OneActivePerSlot'
  <1>1. \A o \in Prompts : active[o] => Stored(o) /\ Stored(o)'
    BY RegistrationFacts DEF RegistryInv, PromotionInv
  <1>2. \A t \in Promotions : Slot(t)' = Slot(t) /\ Promoting(t)' = Promoting(t)
    BY RegistrationFacts DEF Slot, Promoting
  <1>3. \A t \in Promotions : Deactivates(t)' = Deactivates(t)
    BY <1>1, RegistrationFacts DEF Deactivates, Slot
  <1>4. \A s \in Slots : ActiveIn(s)' = ActiveIn(s)
    BY <1>1, RegistrationFacts DEF ActiveIn
  <1>5. PromotionInv'
    BY <1>1, <1>2, RegistrationFacts DEF RegistryInv, PromotionInv
  <1>6. AloneInv'
    BY <1>2, <1>3, RegistrationFacts DEF RegistryInv, AloneInv
  <1>7. OneActivePerSlot'
    BY <1>4, RegistrationFacts DEF RegistryInv, OneActivePerSlot
  <1> QED
    BY <1>5, <1>6, <1>7

LEMMA RegistrationKeepsVersions ==
    ASSUME RegistryInv, NEW p \in Prompts, Count(p) \/ CommitInsert(p) \/ AbortInsert(p)
    PROVE  VersionInv' /\ VersionsDistinct'
  <1>1. /\ reg \in [Prompts -> RegPhases] /\ version \in [Prompts -> Nat]
        /\ VersionInv /\ VersionsDistinct
    BY DEF RegistryInv, RegistryTypeOK
  <1>2. CASE Count(p)
    <2>1. reg[p] = "idle" /\ reg'[p] = "counted" /\ ~Stored(p) /\ ~Stored(p)'
      BY <1>1, <1>2 DEF Count, Stored
    <2>2. \A o \in Prompts : Stored(o)' <=> Stored(o)
      BY <2>1, RegistrationFacts DEF Stored
    <2>3. NameOf[p] \notin raced' => \A o \in Prompts : NameOf[o] = NameOf[p] => ~Registering(o)
      BY <1>2 DEF Count
    <2>4. Given[p] = 0 => \A o \in Prompts : Stored(o) /\ NameOf[o] = NameOf[p] => version[o] < version'[p]
      <3> SUFFICES ASSUME Given[p] = 0, NEW o \in Prompts, Stored(o), NameOf[o] = NameOf[p]
                   PROVE  version[o] < version'[p]
        OBVIOUS
      <3>1. PICK v : ChooseVersion(p, v) /\ version' = [version EXCEPT ![p] = v]
        BY <1>2 DEF Count
      <3>2. \A u \in Taken(NameOf[p]) : u < v
        BY <3>1 DEF ChooseVersion, IsNextVersion
      <3>3. version[o] \in Taken(NameOf[p])
        BY DEF Taken
      <3>4. version'[p] = v
        BY <1>1, <3>1
      <3> QED
        BY <3>2, <3>3, <3>4
    <2>5. \A o \in Prompts : Registering(o)' <=> Registering(o) \/ o = p
      BY <2>1, RegistrationFacts DEF Registering
    <2>6. VersionInv'
      <3> SUFFICES ASSUME NEW r \in Prompts, Registering(r)', NameOf[r] \notin raced'
                   PROVE  /\ \A o \in Prompts : Registering(o)' /\ NameOf[o] = NameOf[r] => o = r
                          /\ Given[r] = 0 => \A o \in Prompts : Stored(o)' /\ NameOf[o] = NameOf[r]
                                => version'[o] < version'[r]
        BY DEF VersionInv
      <3>1. NameOf[r] \notin raced
        BY RegistrationFacts
      <3>2. CASE r = p
        BY <2>2, <2>3, <2>4, <2>5, <3>2, RegistrationFacts
      <3>3. CASE r # p
        <4>1. Registering(r) /\ NameOf[r] # NameOf[p]
          BY <2>3, <2>5, <3>3
        <4> QED
          BY <1>1, <2>2, <2>5, <3>1, <3>3, <4>1, RegistrationFacts DEF VersionInv
      <3> QED
        BY <3>2, <3>3
    <2>7. VersionsDistinct'
      BY <1>1, <2>2, RegistrationFacts DEF VersionsDistinct
    <2> QED
      BY <2>6, <2>7
  <1>3. CASE CommitInsert(p)
    <2>1. /\ Registering(p) /\ ~Registering(p)' /\ Stored(p)' /\ raced' = raced /\ version' = version
          /\ \A o \in Prompts \ {p} : (Stored(o)' <=> Stored(o)) /\ (Registering(o)' <=> Registering(o))
      BY <1>1, <1>3 DEF CommitInsert, Stored, Registering
    <2>2. VersionInv'
      BY <1>1, <2>1 DEF VersionInv
    <2>3. VersionsDistinct'
      <3> SUFFICES ASSUME NEW r \in Prompts, NEW o \in Prompts, Stored(r)', Stored(o)', Given[r] = 0, Given[o] = 0,
                          NameOf[r] \notin raced, NameOf[r] = NameOf[o], version[r] = version[o]
                   PROVE  r = o
        BY <2>1 DEF VersionsDistinct
      <3>1. version[r] \in Nat /\ version[o] \in Nat
        BY <1>1
      <3>2. CASE r = p /\ o # p
        BY <1>1, <2>1, <3>1, <3>2 DEF VersionInv
      <3>3. CASE o = p /\ r # p
        BY <1>1, <2>1, <3>1, <3>3 DEF VersionInv
      <3>4. CASE o # p /\ r # p
        BY <1>1, <2>1, <3>4 DEF VersionsDistinct
      <3> QED
        BY <3>2, <3>3, <3>4
    <2> QED
      BY <2>2, <2>3
  <1>4. CASE AbortInsert(p)
    <2>1. /\ ~Registering(p)' /\ raced' = raced /\ version' = version
          /\ \A o \in Prompts : Stored(o)' <=> Stored(o)
          /\ \A o \in Prompts \ {p} : Registering(o)' <=> Registering(o)
      BY <1>1, <1>4 DEF AbortInsert, Stored, Registering
    <2> QED
      BY <1>1, <2>1 DEF VersionInv, VersionsDistinct
  <1> QED
    BY <1>2, <1>3, <1>4

------------------------------------------------------------------------------
(* A promotion's step: the stored rows and the other promotions stay as they are. *)

LEMMA OthersStay ==
    ASSUME RegistryInv, NEW t \in Promotions, PromotionStep(t)
    PROVE  /\ UNCHANGED rows
           /\ \A u \in Promotions \ {t} :
                /\ target'[u] = target[u] /\ was'[u] = was[u] /\ todo'[u] = todo[u]
                /\ off'[u] = off[u] /\ wrote'[u] = wrote[u] /\ step'[u] = step[u]
                /\ Slot(u)' = Slot(u) /\ (Promoting(u)' <=> Promoting(u))
  <1> USE DEF RegistryInv, RegistryTypeOK, Goes, rows
  <1> DEFINE Rest == /\ UNCHANGED rows
                     /\ \A u \in Promotions \ {t} :
                          /\ target'[u] = target[u] /\ was'[u] = was[u] /\ todo'[u] = todo[u]
                          /\ off'[u] = off[u] /\ wrote'[u] = wrote[u] /\ step'[u] = step[u]
  <1>1. Rest
    <2>1. ASSUME NEW p \in Prompts, Load(t, p) PROVE Rest
      BY <2>1 DEF Load
    <2>2. ASSUME NEW p \in Prompts, UpdateRow(t, p) PROVE Rest
      BY <2>2 DEF UpdateRow
    <2>3. CASE BeginUpdate(t)
      BY <2>3 DEF BeginUpdate
    <2>4. CASE Activate(t)
      BY <2>4 DEF Activate
    <2>5. CASE CommitPromotion(t)
      BY <2>5 DEF CommitPromotion
    <2>6. CASE AbortPromotion(t)
      BY <2>6 DEF AbortPromotion
    <2> QED
      BY <2>1, <2>2, <2>3, <2>4, <2>5, <2>6 DEF PromotionStep
  <1> QED
    BY <1>1 DEF Slot, Promoting

LEMMA PromotionKeepsVersions ==
    ASSUME RegistryInv, NEW t \in Promotions, PromotionStep(t)
    PROVE  VersionInv' /\ VersionsDistinct'
  BY OthersStay DEF rows, RegistryInv, VersionInv, VersionsDistinct, Registering, Stored

\* Before the commit the active columns stay as they are, and with them what another promotion
\* has of its slot.
LEMMA UncommittedKeepsOthers ==
    ASSUME RegistryInv, NEW t \in Promotions, PromotionStep(t), active' = active,
           latest' = latest, clashed \subseteq clashed',
           Promoting(t)' => \A u \in Promotions \ {t} : Promoting(u) /\ Slot(u) = Slot(t)' => Slot(u) \in clashed'
    PROVE  /\ OneActivePerSlot'
           /\ \A p \in Prompts : Stored(p)' = Stored(p) /\ (active'[p] => Stored(p)')
           /\ \A v \in Promotions \ {t} :
                 /\ Promoting(v)' => target'[v] \in Prompts /\ Stored(target[v])'
                 /\ \A p \in todo'[v] \cup off'[v] : SlotOf[p] = Slot(v)'
                 /\ step'[v] \in {"idle", "loaded"} => todo'[v] = {} /\ off'[v] = {} /\ ~wrote'[v]
                 /\ Promoting(v)' /\ Slot(v)' \notin clashed' =>
                      /\ \A u \in Promotions : Promoting(u)' /\ Slot(u)' = Slot(v)' => u = v
                      /\ was'[v] = active'[target'[v]]
                      /\ step'[v] = "updating" => todo'[v] \cup off'[v] = Deactivates(v)' /\ ~wrote'[v]
                      /\ step'[v] = "flushed" => off'[v] = Deactivates(v)' /\ (wrote'[v] = ~was'[v])
  <1>1. \A p \in Prompts : Stored(p)' = Stored(p)
    BY OthersStay DEF Stored, rows
  <1>2. \A s \in Slots : ActiveIn(s)' = ActiveIn(s)
    BY <1>1 DEF ActiveIn
  <1>3. OneActivePerSlot'
    BY <1>2 DEF RegistryInv, OneActivePerSlot
  <1>4. ASSUME NEW v \in Promotions \ {t}
        PROVE  Deactivates(v)' = Deactivates(v)
    BY <1>1, OthersStay DEF Deactivates, rows
  <1>5. ASSUME NEW v \in Promotions \ {t}
        PROVE  /\ Promoting(v)' => target'[v] \in Prompts /\ Stored(target[v])'
               /\ \A p \in todo'[v] \cup off'[v] : SlotOf[p] = Slot(v)'
               /\ step'[v] \in {"idle", "loaded"} => todo'[v] = {} /\ off'[v] = {} /\ ~wrote'[v]
    <2>1. PromotionInv
      BY DEF RegistryInv
    <2>2. Promoting(v) => target[v] \in Prompts /\ Stored(target[v])
      BY <2>1 DEF PromotionInv
    <2>3. \A p \in todo[v] \cup off[v] : SlotOf[p] = Slot(v)
      BY <2>1 DEF PromotionInv
    <2>4. step[v] \in {"idle", "loaded"} => todo[v] = {} /\ off[v] = {} /\ ~wrote[v]
      BY <2>1 DEF PromotionInv
    <2> QED
      BY <1>1, <2>2, <2>3, <2>4, OthersStay
  <1>6. ASSUME NEW v \in Promotions \ {t}, Promoting(v)', Slot(v)' \notin clashed'
        PROVE  /\ \A u \in Promotions : Promoting(u)' /\ Slot(u)' = Slot(v)' => u = v
               /\ was'[v] = active'[target'[v]]
               /\ step'[v] = "updating" => todo'[v] \cup off'[v] = Deactivates(v)' /\ ~wrote'[v]
               /\ step'[v] = "flushed" => off'[v] = Deactivates(v)' /\ (wrote'[v] = ~was'[v])
    <2>1. Promoting(v) /\ Slot(v) \notin clashed /\ Slot(v)' = Slot(v) /\ Slot(v) \notin clashed'
      BY <1>6, OthersStay
    <2>2. /\ \A u \in Promotions : Promoting(u) /\ Slot(u) = Slot(v) => u = v
          /\ was[v] = active[target[v]]
          /\ step[v] = "updating" => todo[v] \cup off[v] = Deactivates(v) /\ ~wrote[v]
          /\ step[v] = "flushed" => off[v] = Deactivates(v) /\ (wrote[v] = ~was[v])
      BY <2>1 DEF RegistryInv, AloneInv
    <2>3. ASSUME NEW u \in Promotions, Promoting(u)', Slot(u)' = Slot(v)'
          PROVE  u = v
      BY <2>1, <2>2, <2>3, OthersStay
    <2> QED
      BY <1>4, <2>2, <2>3, OthersStay
  <1> QED
    BY <1>1, <1>3, <1>5, <1>6 DEF RegistryInv, PromotionInv

LEMMA UncommittedKeepsSlots ==
    ASSUME RegistryInv, NEW t \in Promotions, PromotionStep(t), ~CommitPromotion(t)
    PROVE  PromotionInv' /\ AloneInv' /\ OneActivePerSlot'
  <1> DEFINE Mine ==
        /\ Promoting(t)' => target'[t] \in Prompts /\ Stored(target[t])'
        /\ \A p \in todo'[t] \cup off'[t] : SlotOf[p] = Slot(t)'
        /\ step'[t] \in {"idle", "loaded"} => todo'[t] = {} /\ off'[t] = {} /\ ~wrote'[t]
  <1> DEFINE MineAlone ==
        Promoting(t)' /\ Slot(t)' \notin clashed' =>
            /\ was'[t] = active'[target'[t]]
            /\ step'[t] = "updating" => todo'[t] \cup off'[t] = Deactivates(t)' /\ ~wrote'[t]
            /\ step'[t] = "flushed" => off'[t] = Deactivates(t)' /\ (wrote'[t] = ~was'[t])
  <1> DEFINE Quiet ==
        /\ active' = active /\ latest' = latest /\ clashed \subseteq clashed'
        /\ Promoting(t)' => \A u \in Promotions \ {t} : Promoting(u) /\ Slot(u) = Slot(t)' => Slot(u) \in clashed'
  <1>1. RegistryTypeOK /\ PromotionInv /\ AloneInv
    BY DEF RegistryInv
  <1>2. /\ Promoting(t) => target[t] \in Prompts /\ Stored(target[t])
        /\ \A p \in todo[t] \cup off[t] : SlotOf[p] = Slot(t)
        /\ step[t] \in {"idle", "loaded"} => todo[t] = {} /\ off[t] = {} /\ ~wrote[t]
    BY <1>1 DEF PromotionInv
  <1>3. /\ Promoting(t) /\ Slot(t) \notin clashed =>
            /\ \A u \in Promotions : Promoting(u) /\ Slot(u) = Slot(t) => u = t
            /\ was[t] = active[target[t]]
            /\ step[t] = "updating" => todo[t] \cup off[t] = Deactivates(t) /\ ~wrote[t]
            /\ step[t] = "flushed" => off[t] = Deactivates(t) /\ (wrote[t] = ~was[t])
    BY <1>1 DEF AloneInv
  <1>4. /\ UNCHANGED rows /\ \A p \in Prompts : Stored(p)' = Stored(p)
    BY OthersStay DEF Stored, rows
  <1>5. ASSUME NEW p \in Prompts, Load(t, p)
        PROVE  Mine /\ MineAlone /\ Quiet
    <2>1. /\ target'[t] = p /\ todo' = todo /\ off' = off /\ wrote' = wrote /\ active' = active
          /\ todo[t] = {} /\ off[t] = {} /\ ~wrote[t]
      BY <1>1, <1>2, <1>5 DEF Load, RegistryTypeOK
    <2>2. CASE Stored(p) /\ p \in Evaluated
      BY <1>1, <1>4, <1>5, <2>1, <2>2 DEF Load, Goes, RegistryTypeOK, Promoting, Slot
    <2>3. CASE ~(Stored(p) /\ p \in Evaluated)
      BY <1>1, <1>5, <2>1, <2>3 DEF Load, Goes, RegistryTypeOK, Promoting
    <2> QED
      BY <2>2, <2>3
  <1>6. ASSUME UNCHANGED <<active, target, was, latest, clashed>>, Promoting(t)
        PROVE  Quiet /\ Slot(t)' = Slot(t) /\ Deactivates(t)' = Deactivates(t)
    BY <1>3, <1>4, <1>6 DEF Slot, Deactivates, Stored, rows
  <1>7. ASSUME BeginUpdate(t)
        PROVE  Mine /\ MineAlone /\ Quiet
    <2>1. UNCHANGED <<active, target, was, latest, clashed>> /\ Promoting(t)
      BY <1>7 DEF BeginUpdate, Promoting
    <2>2. /\ step[t] = "loaded" /\ step'[t] = "updating" /\ todo'[t] = Deactivates(t)
          /\ off' = off /\ wrote' = wrote
      BY <1>1, <1>7 DEF BeginUpdate, Goes, RegistryTypeOK
    <2> QED
      BY <1>2, <1>3, <1>4, <1>6, <2>1, <2>2 DEF Deactivates
  <1>8. ASSUME NEW p \in Prompts, UpdateRow(t, p)
        PROVE  Mine /\ MineAlone /\ Quiet
    <2>1. UNCHANGED <<active, target, was, latest, clashed>> /\ Promoting(t)
      BY <1>8 DEF UpdateRow, Promoting
    <2>2. /\ step[t] = "updating" /\ step' = step /\ p \in todo[t] /\ todo'[t] = todo[t] \ {p}
          /\ off'[t] = (IF active[p] THEN off[t] \cup {p} ELSE off[t]) /\ wrote' = wrote
      BY <1>1, <1>8 DEF UpdateRow, RegistryTypeOK
    <2>3. p \in Deactivates(t) => active[p]
      BY DEF Deactivates
    <2>4. Mine
      BY <1>2, <1>4, <1>6, <2>1, <2>2
    <2>5. MineAlone
      BY <1>3, <1>6, <2>1, <2>2, <2>3
    <2> QED
      BY <1>6, <2>1, <2>4, <2>5
  <1>9. ASSUME Activate(t)
        PROVE  Mine /\ MineAlone /\ Quiet
    <2>1. UNCHANGED <<active, target, was, latest, clashed>> /\ Promoting(t)
      BY <1>9 DEF Activate, Promoting
    <2>2. /\ step[t] = "updating" /\ step'[t] = "flushed" /\ todo[t] = {} /\ todo' = todo /\ off' = off
          /\ (was[t] /\ wrote' = wrote) \/ (~was[t] /\ wrote'[t] = TRUE)
      BY <1>1, <1>9 DEF Activate, Goes, RegistryTypeOK
    <2>3. Mine
      BY <1>2, <1>4, <1>6, <2>1, <2>2
    <2>4. MineAlone
      BY <1>1, <1>3, <1>6, <2>1, <2>2 DEF RegistryTypeOK
    <2> QED
      BY <1>6, <2>1, <2>3, <2>4
  <1>10. ASSUME AbortPromotion(t)
        PROVE  Mine /\ MineAlone /\ Quiet
    <2>1. /\ UNCHANGED <<active, target, todo, off, latest, clashed>>
          /\ step'[t] = "failed" /\ ~Promoting(t)'
      BY <1>1, <1>10 DEF AbortPromotion, Goes, RegistryTypeOK, Promoting
    <2>2. Slot(t)' = Slot(t)
      BY <2>1, <1>4 DEF Slot
    <2> QED
      BY <1>2, <2>1, <2>2
  <1>11. Mine /\ MineAlone /\ Quiet
    BY <1>5, <1>6, <1>7, <1>8, <1>9, <1>10 DEF PromotionStep
  <1>12. PromotionInv'
    BY <1>11, UncommittedKeepsOthers DEF PromotionInv
  <1>13. ASSUME NEW u \in Promotions \ {t}, Promoting(u)', Slot(u)' = Slot(t)', Promoting(t)', Slot(t)' \notin clashed'
         PROVE  FALSE
    BY <1>11, <1>13, OthersStay
  <1>14. AloneInv'
    BY <1>11, <1>13, UncommittedKeepsOthers DEF AloneInv
  <1> QED
    BY <1>11, <1>12, <1>14, UncommittedKeepsOthers

\* The commit changes the active columns of its own slot alone, and there leaves the target.
LEMMA CommitKeepsSlots ==
    ASSUME RegistryInv, NEW t \in Promotions, CommitPromotion(t)
    PROVE  PromotionInv' /\ AloneInv' /\ OneActivePerSlot'
  <1> DEFINE c == target[t]
  <1>1. RegistryTypeOK /\ PromotionInv /\ AloneInv /\ OneActivePerSlot /\ PromotionStep(t)
    BY DEF RegistryInv, PromotionStep
  <1>2. /\ UNCHANGED <<target, was, todo, off, wrote, clashed>> /\ step[t] = "flushed"
        /\ step'[t] = "promoted" /\ Promoting(t) /\ ~Promoting(t)'
    BY <1>1 DEF CommitPromotion, Goes, RegistryTypeOK, Promoting
  <1>3. /\ c \in Prompts /\ Stored(c) /\ Slot(t) \in Slots /\ SlotOf[c] = Slot(t)
        /\ \A p \in off[t] : SlotOf[p] = Slot(t)
    BY <1>1, <1>2, SlotFacts DEF PromotionInv, Slot
  <1>4. \A p \in Prompts : Stored(p)' = Stored(p)
    BY <1>1, OthersStay DEF Stored, rows
  <1>5. \A p \in Prompts : active'[p] = (\/ active[p] /\ p \notin off[t]
                                         \/ wrote[t] /\ p = target[t])
    BY DEF CommitPromotion
  <1>6. \A p \in Prompts : SlotOf[p] # Slot(t) => active'[p] = active[p]
    <2> SUFFICES ASSUME NEW p \in Prompts, SlotOf[p] # Slot(t)
                 PROVE  active'[p] = active[p]
      OBVIOUS
    <2>1. p \notin off[t] /\ p # c
      BY <1>3
    <2>2. active[p] \in BOOLEAN
      BY <1>1 DEF RegistryTypeOK
    <2> QED
      BY <1>5, <2>1, <2>2
  <1>7. \A p \in Prompts : active'[p] => Stored(p)
    BY <1>1, <1>3, <1>5 DEF PromotionInv
  <1>8. PromotionInv'
    <2>1. ASSUME NEW v \in Promotions
          PROVE  /\ Promoting(v)' => target'[v] \in Prompts /\ Stored(target[v])'
                 /\ \A p \in todo'[v] \cup off'[v] : SlotOf[p] = Slot(v)'
                 /\ step'[v] \in {"idle", "loaded"} => todo'[v] = {} /\ off'[v] = {} /\ ~wrote'[v]
      <3>1. /\ Promoting(v) => target[v] \in Prompts /\ Stored(target[v])
            /\ \A p \in todo[v] \cup off[v] : SlotOf[p] = Slot(v)
            /\ step[v] \in {"idle", "loaded"} => todo[v] = {} /\ off[v] = {} /\ ~wrote[v]
        BY <1>1 DEF PromotionInv
      <3>2. Slot(v)' = Slot(v)
        BY <1>2 DEF Slot
      <3>3. CASE v = t
        BY <1>2, <3>1, <3>2, <3>3
      <3>4. CASE v # t
        BY <1>1, <1>2, <1>4, <3>1, <3>2, <3>4, OthersStay
      <3> QED
        BY <3>3, <3>4
    <2> QED
      BY <1>4, <1>7, <2>1 DEF PromotionInv
  <1>9. AloneInv'
    <2> SUFFICES ASSUME NEW v \in Promotions, Promoting(v)', Slot(v)' \notin clashed'
                 PROVE  /\ \A u \in Promotions : Promoting(u)' /\ Slot(u)' = Slot(v)' => u = v
                        /\ was'[v] = active'[target'[v]]
                        /\ step'[v] = "updating" => todo'[v] \cup off'[v] = Deactivates(v)' /\ ~wrote'[v]
                        /\ step'[v] = "flushed" => off'[v] = Deactivates(v)' /\ (wrote'[v] = ~was'[v])
      BY DEF AloneInv
    <2>1. v # t /\ Promoting(v) /\ Slot(v) \notin clashed /\ Slot(v)' = Slot(v) /\ step'[v] = step[v]
      BY <1>1, <1>2, OthersStay
    <2>2. /\ \A u \in Promotions : Promoting(u) /\ Slot(u) = Slot(v) => u = v
          /\ was[v] = active[target[v]]
          /\ step[v] = "updating" => todo[v] \cup off[v] = Deactivates(v) /\ ~wrote[v]
          /\ step[v] = "flushed" => off[v] = Deactivates(v) /\ (wrote[v] = ~was[v])
      BY <1>1, <2>1 DEF AloneInv
    <2>3. Slot(v) # Slot(t)
      BY <1>2, <2>1, <2>2
    <2>4. target[v] \in Prompts /\ active'[target[v]] = active[target[v]]
      BY <1>1, <1>6, <2>1, <2>3 DEF PromotionInv, Slot
    <2>5. Deactivates(v)' = Deactivates(v)
      <3>1. \A p \in Prompts : SlotOf[p] = Slot(v) => active'[p] = active[p]
        BY <1>6, <2>3
      <3>2. version' = version
        BY <1>1, OthersStay DEF rows
      <3> QED
        BY <1>2, <1>4, <2>1, <3>1, <3>2 DEF Deactivates
    <2>6. ASSUME NEW u \in Promotions, Promoting(u)', Slot(u)' = Slot(v)'
          PROVE  u = v
      BY <1>1, <1>2, <2>1, <2>2, <2>6, OthersStay
    <2> QED
      BY <1>2, <2>1, <2>2, <2>4, <2>5, <2>6
  <1>10. OneActivePerSlot'
    <2> SUFFICES ASSUME NEW s \in Slots, s \notin clashed
                 PROVE  ActiveIn(s)' = IF latest'[s] = NoPrompt THEN {} ELSE {latest'[s]}
      BY <1>2 DEF OneActivePerSlot
    <2>1. ActiveIn(s) = IF latest[s] = NoPrompt THEN {} ELSE {latest[s]}
      BY <1>1 DEF OneActivePerSlot
    <2>2. latest' = [latest EXCEPT ![Slot(t)] = c] /\ latest \in [Slots -> Prompts \cup {NoPrompt}]
      BY <1>1 DEF CommitPromotion, RegistryTypeOK
    <2>3. CASE s # Slot(t)
      <3>1. latest'[s] = latest[s]
        BY <2>2, <2>3
      <3>2. ActiveIn(s)' = ActiveIn(s)
        BY <1>4, <1>6, <2>3 DEF ActiveIn
      <3> QED
        BY <2>1, <3>1, <3>2
    <2>4. CASE s = Slot(t)
      <3>1. latest'[s] = c /\ c # NoPrompt
        BY <1>3, <2>2, <2>4, RegistryAssumption
      <3>2. off[t] = Deactivates(t) /\ (wrote[t] = ~was[t]) /\ was[t] = active[c]
        BY <1>1, <1>2, <2>4 DEF AloneInv
      <3>3. active'[c]
        <4>1. c \notin off[t]
          BY <3>2 DEF Deactivates
        <4>2. active[c] \in BOOLEAN
          BY <1>1, <1>3 DEF RegistryTypeOK
        <4>3. active'[c] = (\/ active[c] /\ c \notin off[t]
                            \/ wrote[t] /\ c = target[t])
          BY <1>3, <1>5
        <4>4. CASE active[c]
          BY <4>1, <4>3, <4>4
        <4>5. CASE ~active[c]
          <5>1. wrote[t]
            BY <3>2, <4>5
          <5> QED
            BY <4>3, <5>1
        <4> QED
          BY <4>4, <4>5
      <3>4. \A p \in Prompts : active'[p] /\ SlotOf[p] = Slot(t) => p = c
        BY <1>1, <1>5, <3>2 DEF Deactivates, PromotionInv
      <3>5. ActiveIn(s)' = {c}
        BY <1>3, <1>4, <2>4, <3>3, <3>4 DEF ActiveIn
      <3> QED
        BY <3>1, <3>5
    <2> QED
      BY <2>3, <2>4
  <1> QED
    BY <1>8, <1>9, <1>10

LEMMA RegistryKept == RegistryInv /\ [RegistryNext]_registryVars => RegistryInv'
  <1> SUFFICES ASSUME RegistryInv, [RegistryNext]_registryVars PROVE RegistryInv'
    OBVIOUS
  <1>1. ASSUME NEW p \in Prompts, Count(p) \/ CommitInsert(p) \/ AbortInsert(p)
        PROVE  RegistryInv'
    BY <1>1, RegistrationTypes, RegistrationKeepsSlots, RegistrationKeepsVersions DEF RegistryInv
  <1>2. ASSUME NEW t \in Promotions, PromotionStep(t)
        PROVE  RegistryInv'
    BY <1>2, PromotionTypes, PromotionKeepsVersions, UncommittedKeepsSlots, CommitKeepsSlots DEF RegistryInv
  <1>3. CASE UNCHANGED registryVars
    <2>1. RegistryTypeOK'
      BY <1>3 DEF registryVars, rows, promotions, RegistryInv, RegistryTypeOK
    <2>2. PromotionInv' /\ AloneInv'
      BY <1>3 DEF registryVars, rows, promotions, RegistryInv, PromotionInv, AloneInv, Stored, Promoting, Slot, Deactivates
    <2>3. VersionInv' /\ VersionsDistinct' /\ OneActivePerSlot'
      BY <1>3 DEF registryVars, rows, promotions, RegistryInv, VersionInv, VersionsDistinct, OneActivePerSlot,
                  Stored, Registering, ActiveIn
    <2> QED
      BY <2>1, <2>2, <2>3 DEF RegistryInv
  <1> QED
    BY <1>1, <1>2, <1>3 DEF RegistryNext, PromotionStep

LEMMA ClashesStay == RegistryInv /\ RegistryNext => clashed \subseteq clashed'
  <1> SUFFICES ASSUME RegistryInv, RegistryNext PROVE clashed \subseteq clashed'
    OBVIOUS
  <1>1. ASSUME NEW p \in Prompts, Count(p) \/ CommitInsert(p) \/ AbortInsert(p)
        PROVE  clashed \subseteq clashed'
    BY <1>1, RegistrationFacts
  <1>2. ASSUME NEW t \in Promotions, NEW p \in Prompts, Load(t, p)
        PROVE  clashed \subseteq clashed'
    BY <1>2 DEF Load
  <1>3. ASSUME NEW t \in Promotions, NEW p \in Prompts, UpdateRow(t, p)
        PROVE  clashed \subseteq clashed'
    BY <1>3 DEF UpdateRow
  <1>4. ASSUME NEW t \in Promotions, BeginUpdate(t) \/ Activate(t) \/ CommitPromotion(t) \/ AbortPromotion(t)
        PROVE  clashed \subseteq clashed'
    BY <1>4 DEF BeginUpdate, Activate, CommitPromotion, AbortPromotion
  <1> QED
    BY <1>1, <1>2, <1>3, <1>4 DEF RegistryNext

------------------------------------------------------------------------------
(* The queries. *)

PromptsInv ==
    /\ RegistryInv /\ AnswersUsePromoted
    /\ prompt \in [Queries -> Prompts \cup {NoPrompt}]
    /\ served \in [Queries -> Prompts \cup {NoPrompt}]

QueryStep(q) ==
    \/ \E i \in Inputs : Submit(q, i)
    \/ Prepare(q) \/ ModelAnswers(q) \/ SomeToolEnds(q) \/ Gathered(q) \/ Guard(q)

\* Only Prepare looks a prompt up, and no query writes to the registry.
LEMMA QueryFacts ==
    ASSUME NEW q \in Queries, QueryStep(q)
    PROVE  /\ UNCHANGED registryVars
           /\ Prepare(q) \/ UNCHANGED <<prompt, served>>
  <1>1. ASSUME NEW i \in Inputs, Submit(q, i)
        PROVE  UNCHANGED registryVars /\ UNCHANGED <<prompt, served>>
    BY <1>1 DEF Submit
  <1>2. CASE Prepare(q)
    BY <1>2 DEF Prepare
  <1>3. ASSUME CallFails(q)
        PROVE  UNCHANGED registryVars /\ UNCHANGED <<prompt, served>>
    BY <1>3 DEF CallFails
  <1>4. ASSUME NEW text \in Said, CallAnswers(q, text)
        PROVE  UNCHANGED registryVars /\ UNCHANGED <<prompt, served>>
    BY <1>4 DEF CallAnswers
  <1>5. ASSUME NEW text \in Said, NEW names \in UseNames, CallWantsTools(q, text, names)
        PROVE  UNCHANGED registryVars /\ UNCHANGED <<prompt, served>>
    BY <1>5 DEF CallWantsTools
  <1>6. ASSUME NEW i \in 1 .. MaxUses, NEW o \in Ends, ToolEnds(q, i, o)
        PROVE  UNCHANGED registryVars /\ UNCHANGED <<prompt, served>>
    BY <1>6 DEF ToolEnds
  <1>7. ASSUME Gathered(q) \/ Guard(q)
        PROVE  UNCHANGED registryVars /\ UNCHANGED <<prompt, served>>
    BY <1>7 DEF Gathered, Guard
  <1> QED
    BY <1>1, <1>2, <1>3, <1>4, <1>5, <1>6, <1>7 DEF QueryStep, ModelAnswers, SomeToolEnds

LEMMA PromptsStart == Init => PromptsInv
  <1> SUFFICES ASSUME Init PROVE PromptsInv
    OBVIOUS
  <1>1. RegistryInv
    BY RegistryStarts DEF Init
  <1> QED
    BY <1>1 DEF Init, PromptsInv, AnswersUsePromoted

LEMMA PromptsKept == PromptsInv /\ [Next]_vars => PromptsInv'
  <1> SUFFICES ASSUME PromptsInv, [Next]_vars PROVE PromptsInv'
    OBVIOUS
  <1>1. CASE Registry
    <2>1. RegistryInv' /\ clashed \subseteq clashed'
      BY <1>1, RegistryKept, ClashesStay DEF Registry, PromptsInv
    <2> QED
      BY <1>1, <2>1 DEF Registry, assistantVars, conversation, PromptsInv, AnswersUsePromoted
  <1>2. ASSUME NEW q \in Queries, QueryStep(q)
        PROVE  PromptsInv'
    <2>1. RegistryInv' /\ clashed' = clashed
      BY <1>2, QueryFacts, RegistryKept DEF PromptsInv, registryVars, promotions
    <2>2. CASE UNCHANGED <<prompt, served>>
      BY <2>1, <2>2 DEF PromptsInv, AnswersUsePromoted
    <2>3. CASE Prepare(q)
      <3>1. PICK lost \in BOOLEAN, p \in Prompts \cup {NoPrompt} :
              /\ IF lost THEN p = NoPrompt ELSE GetActivePrompt(AnswerSlot, p)
              /\ prompt' = [prompt EXCEPT ![q] = p]
              /\ served' = [served EXCEPT ![q] = IF lost THEN NoPrompt ELSE latest[AnswerSlot]]
        BY <2>3 DEF Prepare, LooksUp
      <3>2. AnswerSlot \in Slots /\ latest[AnswerSlot] \in Prompts \cup {NoPrompt}
        BY AssistantAssumption DEF PromptsInv, RegistryInv, RegistryTypeOK
      <3>3. /\ prompt' \in [Queries -> Prompts \cup {NoPrompt}]
            /\ served' \in [Queries -> Prompts \cup {NoPrompt}]
        BY <3>1, <3>2 DEF PromptsInv
      <3>4. AnswerSlot \notin clashed => prompt'[q] = served'[q]
        <4> SUFFICES ASSUME AnswerSlot \notin clashed, ~lost
                     PROVE  p = latest[AnswerSlot]
          BY <3>1 DEF PromptsInv
        <4>1. ActiveIn(AnswerSlot) = IF latest[AnswerSlot] = NoPrompt THEN {} ELSE {latest[AnswerSlot]}
          BY <3>2 DEF PromptsInv, RegistryInv, OneActivePerSlot
        <4> QED
          BY <3>1, <4>1 DEF GetActivePrompt
      <3>5. \A r \in Queries \ {q} : prompt'[r] = prompt[r] /\ served'[r] = served[r]
        BY <3>1 DEF PromptsInv
      <3> QED
        BY <2>1, <3>3, <3>4, <3>5 DEF PromptsInv, AnswersUsePromoted
    <2> QED
      BY <1>2, <2>2, <2>3, QueryFacts
  <1>3. CASE UNCHANGED vars
    <2>1. RegistryInv'
      BY <1>3, RegistryKept DEF vars, PromptsInv
    <2> QED
      BY <1>3, <2>1 DEF vars, registryVars, promotions, assistantVars, conversation, PromptsInv, AnswersUsePromoted
  <1> QED
    BY <1>1, <1>2, <1>3 DEF Next, QueryStep, Terminated

\* prompt_registry.py and _get_system_prompt: unless promotions overlapped, a slot has the one
\* active prompt promoted last, versions are distinct, and a query is put with that prompt.
THEOREM PromptsStayConsistent == Spec => []PromptsConsistent
  <1>1. PromptsInv => PromptsConsistent
    BY DEF PromptsInv, RegistryInv, PromptsConsistent
  <1> QED
    BY <1>1, PromptsStart, PromptsKept, PTL DEF Spec

------------------------------------------------------------------------------
(* The tool loop: types, and the results in the messages. *)

Ids == Nat \X Nat
Blocks == [id : Ids, name : Tools \cup Stray]
ResultBlocks == [id : Ids, content : {"result", "error"} \X (Outcomes \cup {"none"}), is_error : BOOLEAN]
Messages == [role : {"user", "assistant"}, uses : Seq(Blocks), results : Seq(ResultBlocks)]
Replies == [kind : {"none", "restricted", "placeholder", "error", "unable", "flagged", "model"},
            text : SUBSET Markers]

QueryTypes ==
    /\ keyed \in BOOLEAN
    /\ at \in [Queries -> Phases]
    /\ input \in [Queries -> Inputs \cup {NoInput}]
    /\ offered \in [Queries -> SUBSET Tools]
    /\ rounds \in [Queries -> 0 .. MaxToolRounds + 1]
    /\ asked \in [Queries -> 0 .. MaxToolRounds + 1]
    /\ uses \in [Queries -> Seq(Blocks)]
    /\ outcome \in [Queries -> Seq(Outcomes \cup {"running"})]
    /\ messages \in [Queries -> Seq(Messages)]
    /\ said \in [Queries -> Said]
    /\ reply \in [Queries -> Replies]
    /\ ended \in [Queries -> SUBSET (Ids \X Outcomes)]

\* No more rounds than calls, one call left whenever the loop may go on, and of every call of
\* the last response that has ended its end is on record.
QueryInv ==
    \A q \in Queries :
        /\ Len(uses[q]) <= MaxUses /\ Len(outcome[q]) = Len(uses[q])
        /\ rounds[q] <= asked[q]
        /\ at[q] \in {"new", "prompt", "asking"} => asked[q] <= MaxToolRounds
        /\ \A i \in DOMAIN uses[q] :
              outcome[q][i] # "running" => <<uses[q][i].id, outcome[q][i]>> \in ended[q]

LoopInv == QueryTypes /\ QueryInv /\ ResultsMatchCalls

\* What ResultsMatchCalls says of an assistant's message and the one that follows it.
Answers(b, a, ends) ==
    /\ b.role = "user"
    /\ DOMAIN b.results = DOMAIN a.uses
    /\ \A i \in DOMAIN a.uses : \E o \in Outcomes :
          /\ <<a.uses[i].id, o>> \in ends
          /\ b.results[i].id = a.uses[i].id
          /\ b.results[i].is_error <=> o \in {"raised", "late", "noserver"}
          /\ o \in {"data", "failed"} => b.results[i].content = <<"result", o>>

Answered(list, k, ends) == k + 1 \in DOMAIN list /\ Answers(list[k + 1], list[k], ends)

LEMMA AnsweredMeaning ==
    ResultsMatchCalls <=>
        \A q \in Queries : \A k \in DOMAIN messages[q] :
            messages[q][k].role = "assistant" => Answered(messages[q], k, ended[q])
  BY DEF ResultsMatchCalls, Answered, Answers

LEMMA AnsweredMeaningNext ==
    ResultsMatchCalls' <=>
        \A q \in Queries : \A k \in DOMAIN messages'[q] :
            messages'[q][k].role = "assistant" => Answered(messages'[q], k, ended'[q])
  BY DEF ResultsMatchCalls, Answered, Answers

LEMMA FixedReplies ==
    \A kind \in {"none", "restricted", "placeholder", "error", "unable", "flagged"} : Fixed(kind) \in Replies
  BY DEF Fixed, Replies

LEMMA ModelReplies ==
    \A text \in Said : FromModel(UNION text) \in Replies /\ Exhausted(text) \in Replies
  <1> SUFFICES ASSUME NEW text \in Said
               PROVE  FromModel(UNION text) \in Replies /\ Exhausted(text) \in Replies
    OBVIOUS
  <1>1. UNION text \subseteq Markers
    BY AssistantAssumption DEF Said
  <1>2. FromModel(UNION text) \in Replies
    BY <1>1 DEF FromModel, Replies
  <1> QED
    BY <1>2, FixedReplies DEF Exhausted

LEMMA LoopStarts == Init => LoopInv
  <1> SUFFICES ASSUME Init PROVE LoopInv
    OBVIOUS
  <1> USE AssistantAssumption
  <1>1. /\ \A q \in Queries : uses[q] = <<>> /\ outcome[q] = <<>> /\ messages[q] = <<>>
        /\ \A q \in Queries : asked[q] = 0 /\ rounds[q] = 0
    BY DEF Init
  <1>2. {} \in Said /\ NoReply \in Replies
    BY FixedReplies DEF Said, NoReply
  <1>3. <<>> \in Seq(Blocks) /\ <<>> \in Seq(Messages) /\ <<>> \in Seq(Outcomes \cup {"running"})
    OBVIOUS
  <1>4. 0 \in 0 .. MaxToolRounds + 1 /\ 0 <= MaxToolRounds /\ 0 <= MaxUses
    OBVIOUS
  <1>5. QueryTypes
    BY <1>2, <1>3, <1>4 DEF Init, QueryTypes, Phases
  <1>6. QueryInv
    BY <1>1, <1>4 DEF QueryInv
  <1>7. ResultsMatchCalls
    BY <1>1 DEF ResultsMatchCalls
  <1> QED
    BY <1>5, <1>6, <1>7 DEF LoopInv

\* A step that leaves the calls and the messages alone.
LEMMA OutsideTheLoop ==
    ASSUME LoopInv, QueryTypes', UNCHANGED <<rounds, uses, outcome, messages, ended>>,
           NEW q \in Queries,
           \A r \in Queries \ {q} : at'[r] = at[r] /\ asked'[r] = asked[r],
           rounds[q] <= asked'[q],
           at'[q] \in {"new", "prompt", "asking"} => asked'[q] <= MaxToolRounds
    PROVE  LoopInv'
  <1>1. QueryInv'
    BY DEF LoopInv, QueryInv
  <1>2. ResultsMatchCalls'
    BY DEF LoopInv, ResultsMatchCalls
  <1> QED
    BY <1>1, <1>2 DEF LoopInv

LEMMA SubmitKeepsLoop ==
    ASSUME LoopInv, NEW q \in Queries, NEW i \in Inputs, Submit(q, i)
    PROVE  LoopInv'
  <1>1. QueryTypes /\ Fixed("restricted") \in Replies
    BY FixedReplies DEF LoopInv
  <1>2. QueryTypes'
    BY <1>1 DEF QueryTypes, Submit, Moves, Phases
  <1>3. \A r \in Queries \ {q} : at'[r] = at[r]
    BY <1>1 DEF QueryTypes, Submit, Moves
  <1>4. asked' = asked /\ asked[q] <= MaxToolRounds /\ rounds[q] <= asked[q]
    BY DEF Submit, LoopInv, QueryInv
  <1>5. UNCHANGED <<rounds, uses, outcome, messages, ended>>
    BY DEF Submit
  <1> QED
    BY <1>2, <1>3, <1>4, <1>5, OutsideTheLoop

LEMMA PrepareKeepsLoop ==
    ASSUME LoopInv, NEW q \in Queries, Prepare(q)
    PROVE  LoopInv'
  <1>1. QueryTypes /\ QueryInv /\ Fixed("placeholder") \in Replies
    BY FixedReplies DEF LoopInv
  <1>2. UserMessage(<<>>) \in Messages
    BY DEF UserMessage, Messages
  <1>3. <<UserMessage(<<>>)>> \in Seq(Messages)
    BY <1>2
  <1>4. PICK names \in {{}, Tools}, phase \in {"asking", "guard", "raised"} :
          /\ Moves(q, phase)
          /\ offered' = offered \/ offered' = [offered EXCEPT ![q] = names]
          /\ messages' = messages \/ messages' = [messages EXCEPT ![q] = <<UserMessage(<<>>)>>]
          /\ reply' = reply \/ reply' = [reply EXCEPT ![q] = Fixed("placeholder")]
    BY DEF Prepare
  <1>5. at[q] = "prompt" /\ UNCHANGED <<keyed, input, rounds, asked, uses, outcome, said, ended>>
    BY DEF Prepare
  <1>6. QueryTypes'
    <2>1. messages' \in [Queries -> Seq(Messages)]
      BY <1>1, <1>3, <1>4 DEF QueryTypes
    <2>2. at' \in [Queries -> Phases] /\ offered' \in [Queries -> SUBSET Tools]
      BY <1>1, <1>4 DEF QueryTypes, Moves, Phases
    <2>3. reply' \in [Queries -> Replies]
      BY <1>1, <1>4 DEF QueryTypes
    <2> QED
      BY <1>1, <1>5, <2>1, <2>2, <2>3 DEF QueryTypes
  <1>7. QueryInv'
    <2>1. asked[q] <= MaxToolRounds
      BY <1>1, <1>5 DEF QueryInv
    <2>2. \A r \in Queries \ {q} : at'[r] = at[r]
      BY <1>1, <1>4 DEF QueryTypes, Moves
    <2> QED
      BY <1>1, <1>5, <2>1, <2>2 DEF QueryInv
  <1>8. ResultsMatchCalls'
    <2>1. \A r \in Queries \ {q} : messages'[r] = messages[r]
      BY <1>1, <1>4 DEF QueryTypes
    <2>2. messages'[q] \in {messages[q], <<UserMessage(<<>>)>>}
      BY <1>1, <1>4 DEF QueryTypes
    <2>3. \A k \in DOMAIN <<UserMessage(<<>>)>> : <<UserMessage(<<>>)>>[k].role = "user"
      BY DEF UserMessage
    <2>4. \A r \in Queries : \A k \in DOMAIN messages'[r] :
              messages'[r][k].role = "assistant" => messages'[r] = messages[r]
      BY <2>1, <2>2, <2>3
    <2>5. \A r \in Queries : \A k \in DOMAIN messages[r] :
              messages[r][k].role = "assistant" => Answered(messages[r], k, ended[r])
      BY AnsweredMeaning DEF LoopInv
    <2>6. \A r \in Queries : \A k \in DOMAIN messages'[r] :
              messages'[r][k].role = "assistant" => Answered(messages'[r], k, ended'[r])
      BY <1>5, <2>4, <2>5
    <2> QED
      BY <2>6, AnsweredMeaningNext
  <1> QED
    BY <1>6, <1>7, <1>8 DEF LoopInv

LEMMA CallFailsKeepsLoop ==
    ASSUME LoopInv, NEW q \in Queries, CallFails(q)
    PROVE  LoopInv'
  <1>1. QueryTypes /\ Fixed("error") \in Replies /\ MaxToolRounds \in Nat
    BY FixedReplies, AssistantAssumption DEF LoopInv
  <1>2. asked[q] <= MaxToolRounds /\ rounds[q] <= asked[q] /\ asked' = [asked EXCEPT ![q] = @ + 1]
        /\ asked[q] \in Nat /\ rounds[q] \in Nat
    BY <1>1 DEF CallFails, Asks, LoopInv, QueryInv, QueryTypes
  <1>3. asked' \in [Queries -> 0 .. MaxToolRounds + 1] /\ asked'[q] = asked[q] + 1
    BY <1>1, <1>2 DEF QueryTypes
  <1>4. QueryTypes'
    BY <1>1, <1>3 DEF QueryTypes, CallFails, Moves, Phases
  <1>5. /\ \A r \in Queries \ {q} : at'[r] = at[r] /\ asked'[r] = asked[r]
        /\ at'[q] = "guard"
    BY <1>1, <1>2 DEF QueryTypes, CallFails, Moves
  <1>6. UNCHANGED <<rounds, uses, outcome, messages, ended>>
    BY DEF CallFails
  <1> QED
    BY <1>2, <1>3, <1>4, <1>5, <1>6, OutsideTheLoop

LEMMA CallAnswersKeepsLoop ==
    ASSUME LoopInv, NEW q \in Queries, NEW text \in Said, CallAnswers(q, text)
    PROVE  LoopInv'
  <1>1. QueryTypes /\ FromModel(UNION text) \in Replies /\ MaxToolRounds \in Nat
    BY ModelReplies, AssistantAssumption DEF LoopInv
  <1>2. asked[q] <= MaxToolRounds /\ rounds[q] <= asked[q] /\ asked' = [asked EXCEPT ![q] = @ + 1]
        /\ asked[q] \in Nat /\ rounds[q] \in Nat
    BY <1>1 DEF CallAnswers, Asks, LoopInv, QueryInv, QueryTypes
  <1>3. asked' \in [Queries -> 0 .. MaxToolRounds + 1] /\ asked'[q] = asked[q] + 1
    BY <1>1, <1>2 DEF QueryTypes
  <1>4. QueryTypes'
    BY <1>1, <1>3 DEF QueryTypes, CallAnswers, Moves, Phases
  <1>5. /\ \A r \in Queries \ {q} : at'[r] = at[r] /\ asked'[r] = asked[r]
        /\ at'[q] = "guard"
    BY <1>1, <1>2 DEF QueryTypes, CallAnswers, Moves
  <1>6. UNCHANGED <<rounds, uses, outcome, messages, ended>>
    BY DEF CallAnswers
  <1> QED
    BY <1>2, <1>3, <1>4, <1>5, <1>6, OutsideTheLoop

LEMMA GuardKeepsLoop ==
    ASSUME LoopInv, NEW q \in Queries, Guard(q)
    PROVE  LoopInv'
  <1>1. QueryTypes /\ Fixed("flagged") \in Replies
    BY FixedReplies DEF LoopInv
  <1>2. reply' \in [Queries -> Replies]
    BY <1>1 DEF QueryTypes, Guard
  <1>3. QueryTypes'
    BY <1>1, <1>2 DEF QueryTypes, Guard, Moves, Phases
  <1>4. /\ \A r \in Queries \ {q} : at'[r] = at[r]
        /\ at'[q] = "done"
    BY <1>1 DEF QueryTypes, Guard, Moves
  <1>5. asked' = asked /\ rounds[q] <= asked[q]
    BY DEF Guard, LoopInv, QueryInv
  <1>6. UNCHANGED <<rounds, uses, outcome, messages, ended>>
    BY DEF Guard
  <1> QED
    BY <1>3, <1>4, <1>5, <1>6, OutsideTheLoop

\* The messages stay, and ends are only added.
LEMMA EndsAreAdded ==
    ASSUME ResultsMatchCalls, messages' = messages, \A q \in Queries : ended[q] \subseteq ended'[q]
    PROVE  ResultsMatchCalls'
  <1>1. ASSUME NEW q \in Queries, NEW k \in DOMAIN messages[q], Answered(messages[q], k, ended[q])
        PROVE  Answered(messages[q], k, ended'[q])
    BY <1>1 DEF Answered, Answers
  <1> QED
    BY <1>1, AnsweredMeaning, AnsweredMeaningNext

LEMMA ToolEndsKeepsLoop ==
    ASSUME LoopInv, NEW q \in Queries, NEW i \in 1 .. MaxUses, NEW o \in Ends, ToolEnds(q, i, o)
    PROVE  LoopInv'
  <1>1. QueryTypes /\ QueryInv /\ ResultsMatchCalls /\ o \in Outcomes
    BY AssistantAssumption DEF LoopInv, Outcomes
  <1>2. /\ i \in DOMAIN uses[q] /\ outcome[q] \in Seq(Outcomes \cup {"running"})
        /\ uses[q] \in Seq(Blocks) /\ Len(outcome[q]) = Len(uses[q])
    BY <1>1 DEF ToolEnds, QueryTypes, QueryInv
  <1>3. uses[q][i].id \in Ids /\ DOMAIN outcome[q] = DOMAIN uses[q]
    <2>1. uses[q][i] \in Blocks
      BY <1>2
    <2>2. DOMAIN outcome[q] = 1 .. Len(outcome[q]) /\ DOMAIN uses[q] = 1 .. Len(uses[q])
      BY <1>2
    <2> QED
      BY <1>2, <2>1, <2>2 DEF Blocks
  <1>4. outcome' = [outcome EXCEPT ![q] = [outcome[q] EXCEPT ![i] = o]]
    BY DEF ToolEnds
  <1>5. /\ [outcome[q] EXCEPT ![i] = o] \in Seq(Outcomes \cup {"running"})
        /\ Len([outcome[q] EXCEPT ![i] = o]) = Len(outcome[q])
    <2>1. outcome[q] \in [1 .. Len(outcome[q]) -> Outcomes \cup {"running"}] /\ Len(outcome[q]) \in Nat
      BY <1>2
    <2> DEFINE new == [outcome[q] EXCEPT ![i] = o]
    <2>2. new \in [1 .. Len(outcome[q]) -> Outcomes \cup {"running"}]
      BY <1>1, <2>1
    <2> HIDE DEF new
    <2> QED
      BY <2>1, <2>2 DEF new
  <1>6. outcome' \in [Queries -> Seq(Outcomes \cup {"running"})] /\ outcome'[q] = [outcome[q] EXCEPT ![i] = o]
        /\ \A r \in Queries \ {q} : outcome'[r] = outcome[r]
    BY <1>1, <1>4, <1>5 DEF QueryTypes
  <1>7. /\ ended' \in [Queries -> SUBSET (Ids \X Outcomes)]
        /\ ended'[q] = ended[q] \cup {<<uses[q][i].id, o>>}
        /\ \A r \in Queries \ {q} : ended'[r] = ended[r]
    BY <1>1, <1>3 DEF ToolEnds, QueryTypes
  <1>8. UNCHANGED <<keyed, at, input, offered, rounds, asked, uses, messages, said, reply>>
    BY DEF ToolEnds
  <1>9. QueryTypes'
    BY <1>1, <1>6, <1>7, <1>8 DEF QueryTypes
  <1>10. QueryInv'
    <2> SUFFICES ASSUME NEW r \in Queries
                 PROVE  /\ Len(outcome'[r]) = Len(uses[r])
                        /\ \A j \in DOMAIN uses[r] :
                              outcome'[r][j] # "running" => <<uses[r][j].id, outcome'[r][j]>> \in ended'[r]
      BY <1>1, <1>8 DEF QueryInv
    <2>1. CASE r # q
      BY <1>1, <1>6, <1>7, <2>1 DEF QueryInv
    <2>2. CASE r = q
      <3>1. \A j \in DOMAIN uses[q] : outcome[q][j] # "running" => <<uses[q][j].id, outcome[q][j]>> \in ended[q]
        BY <1>1 DEF QueryInv
      <3>2. \A j \in DOMAIN uses[q] : outcome'[q][j] = IF j = i THEN o ELSE outcome[q][j]
        BY <1>3, <1>6
      <3> QED
        BY <1>2, <1>5, <1>6, <1>7, <2>2, <3>1, <3>2
    <2> QED
      BY <2>1, <2>2
  <1>11. ResultsMatchCalls'
    BY <1>1, <1>7, <1>8, EndsAreAdded
  <1> QED
    BY <1>9, <1>10, <1>11 DEF LoopInv

LEMMA CallWantsToolsKeepsLoop ==
    ASSUME LoopInv, NEW q \in Queries, NEW text \in Said, NEW names \in UseNames,
           CallWantsTools(q, text, names)
    PROVE  LoopInv'
  <1> DEFINE new == [i \in DOMAIN names |-> [id |-> <<rounds[q] + 1, i>>, name |-> names[i]]]
             res == [i \in DOMAIN names |-> IF names[i] \in Stray THEN "noserver" ELSE "running"]
             lost == {<< <<rounds[q] + 1, i>>, "noserver">> : i \in {j \in DOMAIN names : names[j] \in Stray}}
  <1>1. QueryTypes /\ QueryInv /\ ResultsMatchCalls /\ MaxToolRounds \in Nat /\ MaxUses \in Nat
    BY AssistantAssumption DEF LoopInv
  <1>2. PICK n \in 0 .. MaxUses : names \in [1 .. n -> Tools \cup Stray]
    BY DEF UseNames
  <1>3. n \in Nat /\ n <= MaxUses /\ DOMAIN names = 1 .. n
    BY <1>1, <1>2
  <1>4. /\ rounds[q] \in Nat /\ asked[q] \in Nat /\ rounds[q] <= asked[q] /\ asked[q] <= MaxToolRounds
        /\ asked' = [asked EXCEPT ![q] = @ + 1]
    BY <1>1 DEF CallWantsTools, Asks, QueryInv, QueryTypes
  <1>5. new \in [1 .. n -> Blocks]
    <2>1. \A i \in 1 .. n : <<rounds[q] + 1, i>> \in Ids /\ names[i] \in Tools \cup Stray
      BY <1>2, <1>3, <1>4 DEF Ids
    <2> QED
      BY <1>3, <2>1 DEF Blocks
  <1>6. res \in [1 .. n -> Outcomes \cup {"running"}]
    BY <1>3 DEF Outcomes
  <1>7. lost \subseteq Ids \X Outcomes
    BY <1>3, <1>4 DEF Ids, Outcomes
  <1>8. \A i \in 1 .. n : res[i] # "running" => <<new[i].id, res[i]>> \in lost
    BY <1>3
  <1>9. /\ uses' = [uses EXCEPT ![q] = new] /\ outcome' = [outcome EXCEPT ![q] = res]
        /\ ended' = [ended EXCEPT ![q] = @ \cup lost] /\ rounds' = [rounds EXCEPT ![q] = @ + 1]
        /\ said' = [said EXCEPT ![q] = text]
        /\ UNCHANGED <<keyed, input, offered, messages>>
    BY DEF CallWantsTools
  <1>10. /\ at' \in [Queries -> Phases] /\ at'[q] \notin {"new", "prompt", "asking"}
         /\ \A r \in Queries \ {q} : at'[r] = at[r]
    BY <1>1 DEF CallWantsTools, Moves, QueryTypes, Phases
  <1>11. reply' \in [Queries -> Replies]
    BY <1>1, ModelReplies DEF CallWantsTools, QueryTypes
  <1> HIDE DEF new, res, lost
  <1>12. new \in Seq(Blocks) /\ Len(new) = n /\ DOMAIN new = 1 .. n
         /\ res \in Seq(Outcomes \cup {"running"}) /\ Len(res) = n
    BY <1>3, <1>5, <1>6
  <1>13. /\ uses' \in [Queries -> Seq(Blocks)] /\ uses'[q] = new
         /\ outcome' \in [Queries -> Seq(Outcomes \cup {"running"})] /\ outcome'[q] = res
         /\ \A r \in Queries \ {q} : uses'[r] = uses[r] /\ outcome'[r] = outcome[r]
    BY <1>1, <1>9, <1>12 DEF QueryTypes
  <1>14. /\ ended' \in [Queries -> SUBSET (Ids \X Outcomes)] /\ ended'[q] = ended[q] \cup lost
         /\ \A r \in Queries \ {q} : ended'[r] = ended[r]
    BY <1>1, <1>7, <1>9 DEF QueryTypes
  <1>15. /\ rounds' \in [Queries -> 0 .. MaxToolRounds + 1] /\ asked' \in [Queries -> 0 .. MaxToolRounds + 1]
         /\ rounds'[q] = rounds[q] + 1 /\ asked'[q] = asked[q] + 1
         /\ \A r \in Queries \ {q} : rounds'[r] = rounds[r] /\ asked'[r] = asked[r]
    BY <1>1, <1>4, <1>9 DEF QueryTypes
  <1>16. QueryTypes'
    BY <1>1, <1>9, <1>10, <1>11, <1>13, <1>14, <1>15 DEF QueryTypes
  <1>17. QueryInv'
    <2> SUFFICES ASSUME NEW r \in Queries
                 PROVE  /\ Len(uses'[r]) <= MaxUses /\ Len(outcome'[r]) = Len(uses'[r])
                        /\ rounds'[r] <= asked'[r]
                        /\ at'[r] \in {"new", "prompt", "asking"} => asked'[r] <= MaxToolRounds
                        /\ \A i \in DOMAIN uses'[r] :
                              outcome'[r][i] # "running" => <<uses'[r][i].id, outcome'[r][i]>> \in ended'[r]
      BY DEF QueryInv
    <2>1. CASE r # q
      BY <1>1, <1>10, <1>13, <1>14, <1>15, <2>1 DEF QueryInv
    <2>2. CASE r = q
      BY <1>3, <1>4, <1>8, <1>10, <1>12, <1>13, <1>14, <1>15, <2>2
    <2> QED
      BY <2>1, <2>2
  <1>18. ResultsMatchCalls'
    BY <1>1, <1>9, <1>14, EndsAreAdded
  <1> QED
    BY <1>16, <1>17, <1>18 DEF LoopInv

\* A result block has the id of its call, and says of its end what the end was.
LEMMA ResultBlockFacts ==
    ASSUME NEW id \in Ids, NEW o \in Outcomes
    PROVE  /\ ToolResultBlock(id, CallResult(o)) \in ResultBlocks
           /\ ToolResultBlock(id, CallResult(o)).id = id
           /\ ToolResultBlock(id, CallResult(o)).is_error <=> o \in {"raised", "late", "noserver"}
           /\ o \in {"data", "failed"} => ToolResultBlock(id, CallResult(o)).content = <<"result", o>>
  <1> DEFINE content == IF o \in {"data", "opaque", "failed"} THEN <<"result", o>>
                        ELSE <<"error", IF o \in {"raised", "late", "noserver"} THEN o ELSE "none">>
             error == o \notin {"data", "opaque", "failed", "nothing"}
  <1>1. /\ CallResult(o).success = (o \in {"data", "opaque", "failed", "nothing"})
        /\ CallResult(o).result = (IF o \in {"data", "opaque", "failed"} THEN o ELSE "none")
        /\ CallResult(o).error = (IF o \in {"raised", "late", "noserver"} THEN o ELSE "none")
    BY DEF CallResult
  <1>2. CallResult(o).result # "none" <=> o \in {"data", "opaque", "failed"}
    BY <1>1
  <1>3. content \in {"result", "error"} \X (Outcomes \cup {"none"})
    <2>2. CASE o \in {"data", "opaque", "failed"}
      BY <2>2
    <2>3. CASE o \notin {"data", "opaque", "failed"}
      <3> DEFINE e == IF o \in {"raised", "late", "noserver"} THEN o ELSE "none"
      <3>1. e \in Outcomes \cup {"none"}
        OBVIOUS
      <3>2. content = <<"error", e>>
        BY <2>3
      <3> HIDE DEF e, content
      <3> QED
        BY <3>1, <3>2
    <2> QED
      BY <2>2, <2>3
  <1>4. ToolResultBlock(id, CallResult(o)).content = content
    BY <1>1, <1>2 DEF ToolResultBlock
  <1>5. /\ ToolResultBlock(id, CallResult(o)).id = id
        /\ ToolResultBlock(id, CallResult(o)).is_error = ~CallResult(o).success
    BY DEF ToolResultBlock
  <1>6. ToolResultBlock(id, CallResult(o)).is_error = error
    BY <1>1, <1>5
  <1>7. error <=> o \in {"raised", "late", "noserver"}
    BY DEF Outcomes
  <1>8. ToolResultBlock(id, CallResult(o)) = [id |-> id, content |-> content, is_error |-> error]
    BY <1>1, <1>2 DEF ToolResultBlock
  <1> HIDE DEF content, error
  <1>9. ToolResultBlock(id, CallResult(o)) \in ResultBlocks
    <2>1. error \in BOOLEAN
      BY DEF error
    <2> QED
      BY <1>3, <1>8, <2>1 DEF ResultBlocks
  <1> QED
    BY <1>4, <1>5, <1>6, <1>7, <1>9 DEF content

LEMMA GatheredKeepsLoop ==
    ASSUME LoopInv, NEW q \in Queries, Gathered(q)
    PROVE  LoopInv'
  <1> DEFINE ask == AssistantMessage(uses[q])
             told == UserMessage(Results(q))
             n == Len(uses[q])
  <1>1. QueryTypes /\ QueryInv /\ ResultsMatchCalls
    BY DEF LoopInv
  <1>2. /\ uses[q] \in Seq(Blocks) /\ outcome[q] \in Seq(Outcomes \cup {"running"})
        /\ Len(outcome[q]) = n /\ messages[q] \in Seq(Messages)
    BY <1>1 DEF QueryTypes, QueryInv
  <1>3. n \in Nat /\ DOMAIN uses[q] = 1 .. n /\ DOMAIN outcome[q] = 1 .. n
    BY <1>2
  <1>4. \A i \in 1 .. n :
            /\ uses[q][i].id \in Ids /\ outcome[q][i] \in Outcomes
            /\ <<uses[q][i].id, outcome[q][i]>> \in ended[q]
    <2> SUFFICES ASSUME NEW i \in 1 .. n
                 PROVE  /\ uses[q][i].id \in Ids /\ outcome[q][i] \in Outcomes
                        /\ <<uses[q][i].id, outcome[q][i]>> \in ended[q]
      OBVIOUS
    <2>1. outcome[q][i] # "running"
      BY <1>3 DEF Gathered, Finished
    <2>2. uses[q][i] \in Blocks
      BY <1>2, <1>3
    <2>3. outcome[q][i] \in Outcomes \cup {"running"}
      BY <1>2, <1>3
    <2>4. <<uses[q][i].id, outcome[q][i]>> \in ended[q]
      BY <1>1, <1>3, <2>1 DEF QueryInv
    <2> QED
      BY <2>1, <2>2, <2>3, <2>4 DEF Blocks
  <1>5. /\ DOMAIN Results(q) = 1 .. n
        /\ \A i \in 1 .. n : Results(q)[i] = ToolResultBlock(uses[q][i].id, CallResult(outcome[q][i]))
    BY <1>3 DEF Results
  <1>6. Results(q) \in [1 .. n -> ResultBlocks]
    <2>1. ASSUME NEW i \in 1 .. n
          PROVE  ToolResultBlock(uses[q][i].id, CallResult(outcome[q][i])) \in ResultBlocks
      <3>1. outcome[q][i] \in Outcomes /\ uses[q][i].id \in Ids
        BY <1>4
      <3> QED
        BY <3>1, ResultBlockFacts
    <2> QED
      BY <1>3, <2>1 DEF Results
  <1>7. Results(q) \in Seq(ResultBlocks)
    BY <1>3, <1>6
  <1>8. ask \in Messages /\ told \in Messages
    BY <1>2, <1>7 DEF AssistantMessage, UserMessage, Messages
  <1>9. /\ ask.role = "assistant" /\ ask.uses = uses[q] /\ told.role = "user" /\ told.results = Results(q)
    BY DEF AssistantMessage, UserMessage
  <1> HIDE DEF ask, told
  <1>10. \/ messages' = messages
         \/ messages' = [messages EXCEPT ![q] = messages[q] \o <<ask, told>>]
    BY DEF Gathered, ask, told
  <1> DEFINE longer == messages[q] \o <<ask, told>>
  <1>11. /\ longer \in Seq(Messages) /\ DOMAIN longer = 1 .. Len(messages[q]) + 2
         /\ \A k \in 1 .. Len(messages[q]) : longer[k] = messages[q][k]
         /\ longer[Len(messages[q]) + 1] = ask /\ longer[Len(messages[q]) + 2] = told
         /\ Len(messages[q]) \in Nat /\ DOMAIN messages[q] = 1 .. Len(messages[q])
    BY <1>2, <1>8
  <1> HIDE DEF longer
  <1>12. /\ messages' \in [Queries -> Seq(Messages)]
         /\ messages'[q] = messages[q] \/ messages'[q] = longer
         /\ \A r \in Queries \ {q} : messages'[r] = messages[r]
    BY <1>1, <1>10, <1>11 DEF QueryTypes, longer
  <1>13. UNCHANGED <<keyed, input, offered, rounds, asked, uses, outcome, said, ended>>
    BY DEF Gathered
  <1>14. /\ at' \in [Queries -> Phases] /\ \A r \in Queries \ {q} : at'[r] = at[r]
         /\ at'[q] \in {"new", "prompt", "asking"} => GoesOn(q)
    BY <1>1 DEF Gathered, Moves, QueryTypes, Phases
  <1>15. reply' \in [Queries -> Replies]
    <2>1. Exhausted(said[q]) \in Replies
      BY <1>1, ModelReplies DEF QueryTypes
    <2>2. reply' = reply \/ reply' = [reply EXCEPT ![q] = Exhausted(said[q])]
      BY DEF Gathered
    <2> QED
      BY <1>1, <2>1, <2>2 DEF QueryTypes
  <1>16. QueryTypes'
    BY <1>1, <1>12, <1>13, <1>14, <1>15 DEF QueryTypes
  <1>17. QueryInv'
    <2>1. GoesOn(q) => asked[q] <= MaxToolRounds
      BY <1>1, AssistantAssumption DEF GoesOn, QueryTypes
    <2> QED
      BY <1>1, <1>13, <1>14, <2>1 DEF QueryInv
  <1>18. ASSUME NEW k \in DOMAIN longer, longer[k].role = "assistant"
         PROVE  Answered(longer, k, ended[q])
    <2>1. k # Len(messages[q]) + 2
      BY <1>9, <1>11, <1>18
    <2>2. CASE k = Len(messages[q]) + 1
      <3>1. longer[k] = ask /\ longer[k + 1] = told /\ k + 1 \in DOMAIN longer
        BY <1>11, <2>2
      <3>2. ASSUME NEW i \in 1 .. n
            PROVE  \E o \in Outcomes :
                     /\ <<ask.uses[i].id, o>> \in ended[q]
                     /\ told.results[i].id = ask.uses[i].id
                     /\ told.results[i].is_error <=> o \in {"raised", "late", "noserver"}
                     /\ o \in {"data", "failed"} => told.results[i].content = <<"result", o>>
        <4>1. outcome[q][i] \in Outcomes /\ uses[q][i].id \in Ids /\ <<uses[q][i].id, outcome[q][i]>> \in ended[q]
          BY <1>4
        <4>2. Results(q)[i] = ToolResultBlock(uses[q][i].id, CallResult(outcome[q][i]))
          BY <1>5
        <4>3. /\ Results(q)[i].id = uses[q][i].id
              /\ Results(q)[i].is_error <=> outcome[q][i] \in {"raised", "late", "noserver"}
              /\ outcome[q][i] \in {"data", "failed"} => Results(q)[i].content = <<"result", outcome[q][i]>>
          BY <4>1, <4>2, ResultBlockFacts
        <4> QED
          BY <1>9, <4>1, <4>3
      <3>3. DOMAIN ask.uses = 1 .. n /\ DOMAIN told.results = 1 .. n
        BY <1>3, <1>5, <1>9
      <3>4. Answers(told, ask, ended[q])
        BY <1>9, <3>2, <3>3 DEF Answers
      <3> QED
        BY <3>1, <3>4 DEF Answered
    <2>3. CASE k \in 1 .. Len(messages[q])
      <3>1. longer[k] = messages[q][k]
        BY <1>11, <2>3
      <3>2. Answered(messages[q], k, ended[q])
        BY <1>1, <1>11, <1>18, <2>3, <3>1, AnsweredMeaning
      <3>3. k + 1 \in 1 .. Len(messages[q])
        BY <1>11, <3>2 DEF Answered
      <3>4. longer[k + 1] = messages[q][k + 1] /\ k + 1 \in DOMAIN longer
        BY <1>11, <3>3
      <3> QED
        BY <3>1, <3>2, <3>4 DEF Answered
    <2> QED
      BY <1>11, <2>1, <2>2, <2>3
  <1>19. ResultsMatchCalls'
    <2>1. \A r \in Queries : \A k \in DOMAIN messages[r] :
              messages[r][k].role = "assistant" => Answered(messages[r], k, ended[r])
      BY <1>1, AnsweredMeaning
    <2>2. \A r \in Queries : \A k \in DOMAIN messages'[r] :
              messages'[r][k].role = "assistant" => Answered(messages'[r], k, ended'[r])
      <3> SUFFICES ASSUME NEW r \in Queries, NEW k \in DOMAIN messages'[r],
                          messages'[r][k].role = "assistant"
                   PROVE  Answered(messages'[r], k, ended'[r])
        OBVIOUS
      <3>1. CASE messages'[r] = messages[r]
        BY <1>13, <2>1, <3>1
      <3>2. CASE r = q /\ messages'[q] = longer
        BY <1>13, <1>18, <3>2
      <3> QED
        BY <1>12, <3>1, <3>2
    <2> QED
      BY <2>2, AnsweredMeaningNext
  <1> QED
    BY <1>16, <1>17, <1>19 DEF LoopInv

LEMMA LoopKept == LoopInv /\ [Next]_vars => LoopInv'
  <1> SUFFICES ASSUME LoopInv, [Next]_vars PROVE LoopInv'
    OBVIOUS
  <1>1. CASE Registry \/ UNCHANGED vars
    <2>1. UNCHANGED assistantVars
      BY <1>1 DEF Registry, vars
    <2>2. QueryTypes' /\ QueryInv'
      BY <2>1 DEF assistantVars, conversation, LoopInv, QueryTypes, QueryInv
    <2>3. ResultsMatchCalls'
      BY <2>1, EndsAreAdded DEF assistantVars, conversation, LoopInv
    <2> QED
      BY <2>2, <2>3 DEF LoopInv
  <1>2. ASSUME NEW q \in Queries, QueryStep(q)
        PROVE  LoopInv'
    <2>1. CASE \E i \in Inputs : Submit(q, i)
      BY <2>1, SubmitKeepsLoop
    <2>2. CASE Prepare(q)
      BY <2>2, PrepareKeepsLoop
    <2>3. CASE ModelAnswers(q)
      BY <2>3, CallFailsKeepsLoop, CallAnswersKeepsLoop, CallWantsToolsKeepsLoop DEF ModelAnswers
    <2>4. CASE SomeToolEnds(q)
      BY <2>4, ToolEndsKeepsLoop DEF SomeToolEnds
    <2>5. CASE Gathered(q)
      BY <2>5, GatheredKeepsLoop
    <2>6. CASE Guard(q)
      BY <2>6, GuardKeepsLoop
    <2> QED
      BY <1>2, <2>1, <2>2, <2>3, <2>4, <2>5, <2>6 DEF QueryStep
  <1> QED
    BY <1>1, <1>2 DEF Next, QueryStep, Terminated

\* ai_service.py and tool_coordinator.py: whatever the tools do and in whatever order they end,
\* each tool_use block in the messages is answered by the result of its own call.
THEOREM ResultsStayMatched == Spec => []ResultsMatchCalls
  <1>1. LoopInv => ResultsMatchCalls
    BY DEF LoopInv
  <1> QED
    BY <1>1, LoopStarts, LoopKept, PTL DEF Spec

\* Every variable keeps its type: no query makes more than one model call beyond the bound.
THEOREM TypeCorrect == Spec => []TypeOK
  <1>1. PromptsInv /\ LoopInv => TypeOK
    <2> SUFFICES ASSUME PromptsInv, LoopInv PROVE TypeOK
      OBVIOUS
    <2>1. QueryTypes /\ QueryInv /\ RegistryTypeOK
      BY DEF PromptsInv, RegistryInv, LoopInv
    <2>2. ASSUME NEW q \in Queries
          PROVE  /\ Len(uses[q]) <= MaxUses /\ DOMAIN outcome[q] = DOMAIN uses[q]
                 /\ \A i \in DOMAIN uses[q] : /\ uses[q][i].name \in Tools \cup Stray
                                              /\ outcome[q][i] \in Outcomes \cup {"running"}
                 /\ said[q] \in Said
                 /\ reply[q].kind \in {"none", "restricted", "placeholder", "error", "unable",
                                       "flagged", "model"}
                 /\ reply[q].text \subseteq Markers
      <3>1. uses[q] \in Seq(Blocks) /\ outcome[q] \in Seq(Outcomes \cup {"running"}) /\ reply[q] \in Replies
        BY <2>1 DEF QueryTypes
      <3>2. Len(uses[q]) <= MaxUses /\ Len(outcome[q]) = Len(uses[q])
        BY <2>1 DEF QueryInv
      <3>3. DOMAIN uses[q] = 1 .. Len(uses[q]) /\ DOMAIN outcome[q] = 1 .. Len(uses[q])
        BY <3>1, <3>2
      <3>4. \A i \in DOMAIN uses[q] : uses[q][i] \in Blocks /\ outcome[q][i] \in Outcomes \cup {"running"}
        BY <3>1, <3>3
      <3>5. reply[q].kind \in {"none", "restricted", "placeholder", "error", "unable", "flagged", "model"}
            /\ reply[q].text \subseteq Markers
        BY <3>1 DEF Replies
      <3>6. said[q] \in Said
        BY <2>1 DEF QueryTypes
      <3> QED
        BY <3>2, <3>3, <3>4, <3>5, <3>6 DEF Blocks
    <2> QED
      BY <2>1, <2>2 DEF QueryTypes, PromptsInv, TypeOK
  <1> QED
    BY <1>1, PromptsStart, PromptsKept, LoopStarts, LoopKept, PTL DEF Spec
================================================================================
