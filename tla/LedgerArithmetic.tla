-------------------------- MODULE LedgerArithmetic --------------------------
(***************************************************************************)
(* The arithmetic of double entry that every part of the backend shares:   *)
(* the lines of a journal entry, the test that they balance, the mirror    *)
(* image a reversal posts, and the amount by which posting a line moves    *)
(* the cached Account.balance.                                             *)
(*                                                                         *)
(* A list of lines is represented by its net effect: a function that maps  *)
(* every account to (sum of debits) - (sum of credits), in the smallest    *)
(* currency unit.  Everything the code computes from lines is linear in    *)
(* that number, so two lists with the same net are interchangeable.        *)
(***************************************************************************)
EXTENDS Integers

CONSTANTS
    NumAccounts,    \* the accounts of the company are 1 .. NumAccounts
    NormalSide,     \* Account.normalSide: "DEBIT", "CREDIT", or "NULL" (unset)
    TypeSide        \* the normal side of the account's type

Account == 1 .. NumAccounts

ASSUME NumAccountsAssumption == NumAccounts \in Nat

ASSUME SideAssumption ==
    /\ NormalSide \in [Account -> {"DEBIT", "CREDIT", "NULL"}]
    /\ TypeSide \in [Account -> {"DEBIT", "CREDIT"}]

-----------------------------------------------------------------------------
(* f[1] + ... + f[n].                                                      *)
SumTo(f, n) ==
    LET sum[i \in Nat] == IF i = 0 THEN 0 ELSE sum[i-1] + f[i]
    IN  sum[n]

Net == [Account -> Int]

(* Debits equal credits: the double-entry validation.                      *)
IsBalanced(net) == SumTo(net, NumAccounts) = 0

(* The lines with debit and credit swapped.                                *)
Mirror(net) == [a \in Account |-> -net[a]]

(* The accounts the lines name.                                            *)
Touched(net) == {a \in Account : net[a] # 0}

-----------------------------------------------------------------------------
(* The two conventions for an account without a normalSide of its own: the *)
(* journal service takes DEBIT, createAndPostJE takes the side of the type.*)
JournalSide(a) == IF NormalSide[a] = "NULL" THEN "DEBIT" ELSE NormalSide[a]

effectiveNormalSide(a) ==
    IF NormalSide[a] = "NULL" THEN TypeSide[a] ELSE NormalSide[a]

(* The two agree on every account of the chart.                            *)
SidesAgree == \A a \in Account : JournalSide(a) = effectiveNormalSide(a)

(* What posting net debit d does to the balance of an account kept on side.*)
BalanceDelta(side, d) == IF side = "DEBIT" THEN d ELSE 0 - d

(* The balances after the lines are applied by the journal service ...     *)
Apply(bal, net) ==
    [a \in Account |-> bal[a] + BalanceDelta(JournalSide(a), net[a])]

(* ... after it takes them back ...                                        *)
Unapply_OneSide(bal, net) == [a \in Account |-> bal[a] - net[a]]
Unapply(bal, net) ==
    [a \in Account |-> bal[a] - BalanceDelta(JournalSide(a), net[a])]

(* ... and after createAndPostJE applies them.                             *)
ApplyEffective(bal, net) ==
    [a \in Account |-> bal[a] + BalanceDelta(effectiveNormalSide(a), net[a])]

(* The balances as debit amounts: a credit balance counts negative.        *)
AsDebits(bal) ==
    [a \in Account |-> BalanceDelta(effectiveNormalSide(a), bal[a])]
=============================================================================
