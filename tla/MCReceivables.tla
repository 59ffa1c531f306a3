---------------------------- MODULE MCReceivables ----------------------------
(***************************************************************************)
(* Small instances of Receivables, alone and with Deposits.                *)
(***************************************************************************)
EXTENDS Deposits, TLC

CONSTANTS i1, i2, p1, p2, d1, d2

MCSymmetry ==
    Permutations(Invoice) \cup Permutations(Payment) \cup Permutations(Deposit)
=============================================================================
