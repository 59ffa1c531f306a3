----------------------------- MODULE MCVouchers ------------------------------
(***************************************************************************)
(* Small instances of Vouchers.                                            *)
(***************************************************************************)
EXTENDS Vouchers

CONSTANTS c1, m1, d1
=============================================================================
