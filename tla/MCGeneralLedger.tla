-------------------------- MODULE MCGeneralLedger --------------------------
(***************************************************************************)
(* Small instances of GeneralLedger.  Account 1 is an asset (cash)         *)
(* without a normalSide, account 2 a revenue account.                      *)
(***************************************************************************)
EXTENDS GeneralLedger, FiniteSets, TLC

CONSTANTS r1, r2

MCTypeSide2 == <<"DEBIT", "CREDIT">>
MCNormalSide2 == <<"NULL", "CREDIT">>

\* A sale of 1, a refund of 2, and lines that do not balance.
MCLines2 == {<<1, -1>>, <<-2, 2>>, <<1, 0>>}

MCSymmetry == Permutations(Request)
=============================================================================
