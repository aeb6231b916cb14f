----------------------------- MODULE MCRuleSweeps -----------------------------
(* Small instance of RuleSweeps for TLC: two states of one composite rule, a
   threshold rule, two sweeps of either kind. *)
EXTENDS RuleSweeps, TLC

CONSTANTS c1, t1, w1, w2, s1, s2

MCRuleOf == [w \in {w1, w2} |-> c1]

Symmetry == Permutations(Sweeps)

==============================================================================
