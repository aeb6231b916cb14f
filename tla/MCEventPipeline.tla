--------------------------- MODULE MCEventPipeline ---------------------------
(* Small instance of EventPipeline for TLC: a batch of two events.  The first
   matches every rule, the second only the rule whose condition is broken. *)
EXTENDS EventPipeline, TLC

CONSTANTS u1, e1, e2, r1, r2, r3

MCItems == u1 :> <<e1, e2>>

MCMatches == e1 :> {r1, r2, r3} @@ e2 :> {r3}

==============================================================================
