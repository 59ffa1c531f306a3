-------------------------- MODULE MCExpenseClaims ---------------------------
(***************************************************************************)
(* Small instances of ExpenseClaims.                                       *)
(***************************************************************************)
EXTENDS ExpenseClaims, TLC

CONSTANTS e1, r1, r2, l1, l2, l3

MCDocuments == Claim \X {"claim", "reimbursement"}

MCSymmetry == Permutations(Request) \cup Permutations(LineList)
=============================================================================
