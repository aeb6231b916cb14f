----------------------------- MODULE MCEdgeAgent -----------------------------
(* Small instance of EdgeAgent for TLC. *)
EXTENDS EdgeAgent, TLC

MCPoison == {MaxEvents}

==============================================================================
