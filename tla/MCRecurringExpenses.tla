------------------------- MODULE MCRecurringExpenses -------------------------
(***************************************************************************)
(* Small instances of RecurringExpenses.                                   *)
(***************************************************************************)
EXTENDS RecurringExpenses

CONSTANTS s1, s2, cron, manual
=============================================================================
