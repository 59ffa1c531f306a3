--------------------------- MODULE MCPeriodClose ---------------------------
(***************************************************************************)
(* Small instances of PeriodClose.  Account 1 is cash, 2 sales, 3 an       *)
(* expense, 4 Income Summary, 5 Retained Earnings.                         *)
(***************************************************************************)
EXTENDS PeriodClose, TLC

CONSTANTS r1, m1, m2

MCTypeSide == <<"DEBIT", "CREDIT", "DEBIT", "CREDIT", "CREDIT">>
MCNormalSide == <<"DEBIT", "CREDIT", "DEBIT", "CREDIT", "CREDIT">>

\* A sale of 3, an expense of 1.
MCSale == <<3, -3, 0, 0, 0>>
MCPurchase == <<-1, 0, 1, 0, 0>>
MCLines == {MCSale, MCPurchase}
MCLinesSale == {MCSale}
=============================================================================
