---------------------------- MODULE MCObjectGraph ----------------------------
(* Instances of ObjectGraph for TLC.                                       *)
EXTENDS ObjectGraph

MCBudget == [malloc |-> 3, copy |-> 1, send |-> 1, fail |-> 1]
MCBudgetNoFail == [malloc |-> 2, copy |-> 0, send |-> 1, fail |-> 0]
MCBudgetReuse == [malloc |-> 3, copy |-> 0, send |-> 0, fail |-> 1]
==============================================================================
