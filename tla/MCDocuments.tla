----------------------------- MODULE MCDocuments -----------------------------
(* Small instance of Documents for TLC: one document uploaded, one imported, two jobs
   by hand and a DELETE request. *)
EXTENDS Documents, TLC

CONSTANTS u1, i1, i2, j1, j2, x1

Symmetry == Permutations(Calls)

==============================================================================
