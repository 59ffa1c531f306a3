-------------------------- MODULE MCChartOfAccounts --------------------------
(***************************************************************************)
(* Small instances of ChartOfAccounts.                                     *)
(***************************************************************************)
EXTENDS ChartOfAccounts

CONSTANTS a1, a2, a3, r1, r2, none
=============================================================================
