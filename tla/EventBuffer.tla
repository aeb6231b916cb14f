----------------------------- MODULE EventBuffer -----------------------------
(***************************************************************************)
(* What the edge agent promises the equipment it listens to, with the      *)
(* queue, the sync task and the HTTP client left out: an event handed over *)
(* is held until the cloud has it.  The buffer has a finite capacity, so   *)
(* it may overwrite events (it logs each one), and it lives on a disk that *)
(* may be damaged (it logs that too); nothing else excuses a loss.         *)
(***************************************************************************)
EXTENDS Naturals, FiniteSets

VARIABLES
    accepted,     \* events handed to the buffer
    pending,      \* events the buffer holds
    delivered,    \* events the cloud has stored
    overwritten,  \* events dropped at capacity
    damaged       \* has a write of the stored copy failed

bufferVars == <<accepted, pending, delivered, overwritten, damaged>>

Vanished == accepted \ (pending \cup delivered \cup overwritten)

BufferInit ==
    /\ accepted = {}
    /\ pending = {}
    /\ delivered = {}
    /\ overwritten = {}
    /\ damaged = FALSE

\* A new event is held; at capacity it takes the place of an older one.
Accept ==
    \E e \in accepted' \ accepted, D \in SUBSET pending :
        /\ Cardinality(D) <= 1
        /\ accepted' = accepted \cup {e}
        /\ pending' = (pending \ D) \cup {e}
        /\ overwritten' = overwritten \cup D
        /\ UNCHANGED <<delivered, damaged>>

\* The cloud stores some of the events it was sent, once or again.
Deliver ==
    /\ delivered' \subseteq accepted
    /\ delivered \subseteq delivered'
    /\ UNCHANGED <<accepted, pending, overwritten, damaged>>

(***************************************************************************)
(* The buffer lets go of events it believes delivered.  It may be wrong    *)
(* about as many of them as it has overwritten events that were already    *)
(* delivered: it counts events, and those made the count wrong.            *)
(***************************************************************************)
Release ==
    /\ pending' \subseteq pending
    /\ UNCHANGED <<accepted, delivered, overwritten, damaged>>
    /\ Cardinality(Vanished') <= Cardinality(overwritten \cap delivered)

\* A failed write of the stored copy: from here on a restart may bring back
\* any older content, or none.
Damage ==
    /\ damaged' = TRUE
    /\ accepted \subseteq accepted'
    /\ delivered \subseteq delivered'
    /\ overwritten \subseteq overwritten'

BufferNext == Accept \/ Deliver \/ Release \/ Damage

BufferSpec == BufferInit /\ [][BufferNext]_bufferVars

==============================================================================
