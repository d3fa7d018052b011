-------------------------- MODULE MCCostIngestion ---------------------------
EXTENDS CostIngestion

CONSTANTS m1, m2, d1

(* The daily visit asks for two days, a user for either of them.           *)
MCManualWindows == {[start |-> 0, end |-> 1], [start |-> 1, end |-> 2]}
MCDailyWindow == [start |-> 0, end |-> 2]
MCCharged == {{}, {0, 1}}
=============================================================================
