----------------------------- MODULE MCPayables ------------------------------
(***************************************************************************)
(* Small instances of Payables.                                            *)
(***************************************************************************)
EXTENDS Payables, TLC

CONSTANTS b1, b2, q1, q2

MCSymmetry == Permutations(Bill) \cup Permutations(BillPayment)
=============================================================================
