--------------------------- MODULE MCAlertLifecycle ---------------------------
(* Small instance of AlertLifecycle for TLC: two firings of one incident and
   one of another entity of the same rule. *)
EXTENDS AlertLifecycle, TLC

CONSTANTS j1, j2, j3, a1, ann

MCFiring ==
    j1 :> [rule |-> "late", entity |-> "truck1", window |-> NoWindow] @@
    j2 :> [rule |-> "late", entity |-> "truck1", window |-> 0] @@
    j3 :> [rule |-> "late", entity |-> "truck2", window |-> NoWindow]

MCUser == a1 :> ann

==============================================================================
