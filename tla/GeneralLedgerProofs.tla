------------------------- MODULE GeneralLedgerProofs -------------------------
(***************************************************************************)
(* What holds of GeneralLedger for every number of accounts, entries and   *)
(* requests, first where requests overlap, then where they do not; and of  *)
(* PeriodClose, for every number of managers beside them.                  *)
(***************************************************************************)
EXTENDS PeriodClose, WellFoundedInduction, SequenceTheorems, FiniteSetTheorems, TLAPS

-----------------------------------------------------------------------------
(* Sums.  SumTo is defined by a recursive function; what holds of it for   *)
(* every length is proved by induction on a set of lengths.                *)

(* A set that holds 0 and with every number the next holds all of them:    *)
(* otherwise it misses a least one.                                        *)
LEMMA SetInduction ==
    ASSUME NEW S, 0 \in S, \A n \in Nat : n \in S => n + 1 \in S
    PROVE  Nat \subseteq S
<1> DEFINE T == Nat \ S
<1>1. SUFFICES ASSUME T # {} PROVE FALSE
  OBVIOUS
<1>2. PICK x \in T : \A y \in T : ~(<<y, x>> \in OpToRel(<, Nat))
  <2> DEFINE R == OpToRel(<, Nat)
  <2>1. T \subseteq Nat
    OBVIOUS
  <2>2. IsWellFoundedOn(R, Nat)
    BY NatLessThanWellFounded
  <2> HIDE DEF T, R
  <2>3. \E x \in T : \A y \in T : ~(<<y, x>> \in R)
    BY <1>1, <2>1, <2>2, WFMin
  <2> QED
    BY <2>3 DEF R
<1>3. x - 1 \in T
  <2>1. x \in Nat /\ x # 0
    OBVIOUS
  <2>2. x - 1 \in Nat /\ x = (x - 1) + 1
    BY <2>1
  <2>3. x - 1 \notin S
    BY <2>2
  <2> QED
    BY <2>2, <2>3
<1>4. <<x - 1, x>> \in OpToRel(<, Nat)
  BY <1>3 DEF OpToRel
<1> QED
  BY <1>2, <1>3, <1>4

-----------------------------------------------------------------------------
IsSumPrefix(s, f, n) ==
    s = [i \in 0 .. n |-> IF i = 0 THEN 0 ELSE s[i-1] + f[i]]

(* There are partial sums of every length ...                              *)
LEMMA SumPrefixExists ==
    ASSUME NEW f PROVE \A n \in Nat : \E s : IsSumPrefix(s, f, n)
<1> DEFINE S == {n \in Nat : \E s : IsSumPrefix(s, f, n)}
<1>1. 0 \in S
  <2> DEFINE s == [i \in 0 .. 0 |-> 0]
  <2>1. IsSumPrefix(s, f, 0)
    BY DEF IsSumPrefix
  <2> QED
    BY <2>1
<1>2. ASSUME NEW n \in Nat, n \in S PROVE n + 1 \in S
  <2>1. PICK s : IsSumPrefix(s, f, n)
    BY <1>2
  <2> DEFINE t == [i \in 0 .. n + 1 |-> IF i = n + 1 THEN s[n] + f[n + 1] ELSE s[i]]
             u == [i \in 0 .. n + 1 |-> IF i = 0 THEN 0 ELSE t[i-1] + f[i]]
  <2>2. ASSUME NEW i \in 0 .. n + 1 PROVE t[i] = u[i]
    <3>1. CASE i = n + 1
      <4>1. n \in 0 .. n + 1 /\ n # n + 1 /\ n + 1 # 0 /\ (n + 1) - 1 = n
        OBVIOUS
      <4> QED
        BY <3>1, <4>1
    <3>2. CASE i # n + 1 /\ i # 0
      <4>1. i \in 0 .. n /\ i - 1 \in 0 .. n + 1 /\ i - 1 # n + 1
        BY <3>2
      <4>2. s[i] = s[i-1] + f[i]
        BY <2>1, <3>2, <4>1 DEF IsSumPrefix
      <4> QED
        BY <3>2, <4>1, <4>2
    <3>3. CASE i = 0
      <4>1. s[0] = 0
        BY <2>1 DEF IsSumPrefix
      <4> QED
        BY <3>3, <4>1
    <3> QED
      BY <3>1, <3>2, <3>3
  <2>3. IsSumPrefix(t, f, n + 1)
    <3>1. t = u
      BY <2>2
    <3> QED
      BY <3>1 DEF IsSumPrefix
  <2> HIDE DEF t
  <2> QED
    BY <2>3
<1> HIDE DEF S
<1>3. Nat \subseteq S
  BY <1>1, <1>2, SetInduction
<1> QED
  BY <1>3 DEF S

(* ... and they agree where both are defined.                              *)
LEMMA SumPrefixesAgree ==
    ASSUME NEW f, NEW s, NEW t, NEW n \in Nat, NEW m \in Nat,
           IsSumPrefix(s, f, n), IsSumPrefix(t, f, m)
    PROVE  \A k \in Nat : k <= n /\ k <= m => s[k] = t[k]
<1> DEFINE S == {k \in Nat : k <= n /\ k <= m => s[k] = t[k]}
<1>1. 0 \in S
  BY DEF IsSumPrefix
<1>2. ASSUME NEW k \in Nat, k \in S PROVE k + 1 \in S
  <2>1. SUFFICES ASSUME k + 1 <= n, k + 1 <= m PROVE s[k+1] = t[k+1]
    OBVIOUS
  <2>2. k + 1 \in 0 .. n /\ k + 1 \in 0 .. m /\ k + 1 # 0 /\ (k + 1) - 1 = k
    BY <2>1
  <2>3. s[k+1] = s[k] + f[k+1]
    BY <2>2 DEF IsSumPrefix
  <2>4. t[k+1] = t[k] + f[k+1]
    BY <2>2 DEF IsSumPrefix
  <2>5. s[k] = t[k]
    BY <1>2, <2>1
  <2> QED
    BY <2>3, <2>4, <2>5
<1> HIDE DEF S
<1>3. Nat \subseteq S
  BY <1>1, <1>2, SetInduction
<1> QED
  BY <1>3 DEF S

(* The function that defines SumTo satisfies its recursive equation.       *)
LEMMA SumToStep ==
    ASSUME NEW f
    PROVE  /\ SumTo(f, 0) = 0
           /\ \A n \in Nat : SumTo(f, n + 1) = SumTo(f, n) + f[n + 1]
<1> DEFINE P(n) == CHOOSE s : IsSumPrefix(s, f, n)
           g == [n \in Nat |-> P(n)[n]]
           h == [n \in Nat |-> IF n = 0 THEN 0 ELSE g[n-1] + f[n]]
           sum == CHOOSE s : s = [i \in Nat |-> IF i = 0 THEN 0 ELSE s[i-1] + f[i]]
<1>1. \A n \in Nat : IsSumPrefix(P(n), f, n)
  BY SumPrefixExists
<1>2. ASSUME NEW n \in Nat PROVE g[n] = h[n]
  <2> HIDE DEF P
  <2>1. CASE n = 0
    <3>1. P(0)[0] = 0
      BY <1>1 DEF IsSumPrefix
    <3> QED
      BY <2>1, <3>1
  <2>2. CASE n # 0
    <3>1. n - 1 \in Nat /\ n - 1 <= n /\ n - 1 <= n - 1 /\ n \in 0 .. n
      BY <2>2
    <3>2. P(n)[n] = P(n)[n-1] + f[n]
      BY <1>1, <2>2, <3>1 DEF IsSumPrefix
    <3>3. P(n)[n-1] = P(n-1)[n-1]
      BY <1>1, <3>1, SumPrefixesAgree
    <3> QED
      BY <2>2, <3>1, <3>2, <3>3
  <2> QED
    BY <2>1, <2>2
<1> HIDE DEF g
<1>3. g = h
  <2>1. g = [n \in Nat |-> g[n]]
    BY DEF g
  <2> QED
    BY <1>2, <2>1
<1>4. sum = [i \in Nat |-> IF i = 0 THEN 0 ELSE sum[i-1] + f[i]]
  BY <1>3
<1>5. \A n : SumTo(f, n) = sum[n]
  BY DEF SumTo
<1> HIDE DEF sum
<1>6. sum[0] = 0
  BY <1>4
<1>7. ASSUME NEW n \in Nat PROVE sum[n + 1] = sum[n] + f[n + 1]
  <2>1. n + 1 \in Nat /\ n + 1 # 0 /\ (n + 1) - 1 = n
    OBVIOUS
  <2>2. sum[n + 1] = sum[(n + 1) - 1] + f[n + 1]
    BY <1>4, <2>1
  <2> QED
    BY <2>1, <2>2
<1> QED
  BY <1>5, <1>6, <1>7

-----------------------------------------------------------------------------
(* Sums of integers are integers.                                          *)
LEMMA SumToType ==
    ASSUME NEW f, NEW n \in Nat, \A i \in 1 .. n : f[i] \in Int
    PROVE  SumTo(f, n) \in Int
<1> DEFINE S == {k \in Nat : k <= n => SumTo(f, k) \in Int}
<1>1. 0 \in S
  BY SumToStep
<1>2. ASSUME NEW k \in Nat, k \in S PROVE k + 1 \in S
  <2>1. SUFFICES ASSUME k + 1 <= n PROVE SumTo(f, k + 1) \in Int
    OBVIOUS
  <2>2. SumTo(f, k) \in Int /\ f[k + 1] \in Int
    BY <1>2, <2>1
  <2> QED
    BY <2>2, SumToStep
<1> HIDE DEF S
<1>3. Nat \subseteq S
  BY <1>1, <1>2, SetInduction
<1> QED
  BY <1>3 DEF S

(* The sum of a pointwise sum is the sum of the sums.                      *)
LEMMA SumToAdd ==
    ASSUME NEW f, NEW g, NEW h, NEW n \in Nat,
           \A i \in 1 .. n : f[i] \in Int /\ g[i] \in Int /\ h[i] = f[i] + g[i]
    PROVE  SumTo(h, n) = SumTo(f, n) + SumTo(g, n)
<1> DEFINE S == {k \in Nat : k <= n => SumTo(h, k) = SumTo(f, k) + SumTo(g, k)}
<1>1. 0 \in S
  BY SumToStep
<1>2. ASSUME NEW k \in Nat, k \in S PROVE k + 1 \in S
  <2>1. SUFFICES ASSUME k + 1 <= n
                 PROVE  SumTo(h, k + 1) = SumTo(f, k + 1) + SumTo(g, k + 1)
    OBVIOUS
  <2>2. SumTo(h, k) = SumTo(f, k) + SumTo(g, k)
    BY <1>2, <2>1
  <2>3. SumTo(f, k) \in Int /\ SumTo(g, k) \in Int
    <3>1. \A i \in 1 .. k : f[i] \in Int /\ g[i] \in Int
      BY <2>1
    <3> QED
      BY <3>1, SumToType
  <2>4. /\ f[k + 1] \in Int /\ g[k + 1] \in Int
        /\ h[k + 1] = f[k + 1] + g[k + 1]
    BY <2>1
  <2>5. /\ SumTo(h, k + 1) = SumTo(h, k) + h[k + 1]
        /\ SumTo(f, k + 1) = SumTo(f, k) + f[k + 1]
        /\ SumTo(g, k + 1) = SumTo(g, k) + g[k + 1]
    BY SumToStep
  <2> QED
    BY <2>2, <2>3, <2>4, <2>5
<1> HIDE DEF S
<1>3. Nat \subseteq S
  BY <1>1, <1>2, SetInduction
<1> QED
  BY <1>3 DEF S

(* The sum of zeros is zero.                                               *)
LEMMA SumToZero ==
    ASSUME NEW f, NEW n \in Nat, \A i \in 1 .. n : f[i] = 0
    PROVE  SumTo(f, n) = 0
<1>1. \A i \in 1 .. n : f[i] \in Int /\ f[i] = f[i] + f[i]
  OBVIOUS
<1>2. SumTo(f, n) = SumTo(f, n) + SumTo(f, n)
  BY <1>1, SumToAdd
<1> QED
  BY <1>1, <1>2, SumToType

(* The sum depends on the first n values only.                             *)
LEMMA SumToSame ==
    ASSUME NEW f, NEW g, NEW n \in Nat,
           \A i \in 1 .. n : f[i] \in Int /\ g[i] = f[i]
    PROVE  SumTo(g, n) = SumTo(f, n)
<1> DEFINE zero == [i \in 1 .. n |-> 0]
<1>1. SumTo(zero, n) = 0
  BY SumToZero
<1>2. SumTo(g, n) = SumTo(f, n) + SumTo(zero, n)
  <2>1. \A i \in 1 .. n : f[i] \in Int /\ zero[i] \in Int /\ g[i] = f[i] + zero[i]
    OBVIOUS
  <2> HIDE DEF zero
  <2> QED
    BY <2>1, SumToAdd
<1> QED
  BY <1>1, <1>2, SumToType

(* The sum of the opposites is the opposite of the sum.                    *)
LEMMA SumToMinus ==
    ASSUME NEW f, NEW g, NEW n \in Nat,
           \A i \in 1 .. n : f[i] \in Int /\ g[i] = -f[i]
    PROVE  SumTo(g, n) = -SumTo(f, n)
<1> DEFINE zero == [i \in 1 .. n |-> 0]
<1>1. SumTo(zero, n) = 0
  BY SumToZero
<1>2. SumTo(zero, n) = SumTo(f, n) + SumTo(g, n)
  <2>1. \A i \in 1 .. n : f[i] \in Int /\ g[i] \in Int /\ zero[i] = f[i] + g[i]
    OBVIOUS
  <2> HIDE DEF zero
  <2> QED
    BY <2>1, SumToAdd
<1>3. SumTo(f, n) \in Int /\ SumTo(g, n) \in Int
  BY SumToType
<1> QED
  BY <1>1, <1>2, <1>3

(* Changing one value changes the sum by the difference.                   *)
LEMMA SumToChange ==
    ASSUME NEW f, NEW g, NEW n \in Nat, NEW k \in 1 .. n, g[k] \in Int,
           \A i \in 1 .. n : f[i] \in Int /\ (i # k => g[i] = f[i])
    PROVE  SumTo(g, n) = SumTo(f, n) - f[k] + g[k]
<1> DEFINE d == [i \in 1 .. n |-> IF i = k THEN g[k] - f[k] ELSE 0]
           S == {m \in Nat : m <= n =>
                    SumTo(d, m) = IF m < k THEN 0 ELSE g[k] - f[k]}
<1>1. SumTo(d, n) = g[k] - f[k]
  <2>1. 0 \in S
    BY SumToStep
  <2>2. ASSUME NEW m \in Nat, m \in S PROVE m + 1 \in S
    <3>1. SUFFICES ASSUME m + 1 <= n
                   PROVE  SumTo(d, m + 1) = IF m + 1 < k THEN 0 ELSE g[k] - f[k]
      OBVIOUS
    <3>2. d[m + 1] = IF m + 1 = k THEN g[k] - f[k] ELSE 0
      BY <3>1
    <3>3. SumTo(d, m) = IF m < k THEN 0 ELSE g[k] - f[k]
      BY <2>2, <3>1
    <3>4. SumTo(d, m + 1) = SumTo(d, m) + d[m + 1]
      BY SumToStep
    <3>5. f[k] \in Int
      OBVIOUS
    <3> HIDE DEF d, S
    <3> QED
      BY <3>2, <3>3, <3>4, <3>5
  <2> HIDE DEF S
  <2>3. Nat \subseteq S
    BY <2>1, <2>2, SetInduction
  <2> QED
    BY <2>3 DEF S
<1>2. \A i \in 1 .. n : f[i] \in Int /\ d[i] \in Int /\ g[i] = f[i] + d[i]
  OBVIOUS
<1> HIDE DEF d
<1>3. SumTo(g, n) = SumTo(f, n) + SumTo(d, n)
  BY <1>2, SumToAdd
<1>4. f[k] \in Int /\ SumTo(f, n) \in Int
  BY <1>2, SumToType
<1> QED
  BY <1>1, <1>3, <1>4

-----------------------------------------------------------------------------
(* A mirror image balances when the lines do.                              *)
LEMMA MirrorBalanced ==
    ASSUME NEW net \in Net, IsBalanced(net)
    PROVE  Mirror(net) \in Net /\ IsBalanced(Mirror(net))
<1>1. \A a \in 1 .. NumAccounts : net[a] \in Int /\ Mirror(net)[a] = -net[a]
  BY DEF Mirror, Net, Account
<1>2. SumTo(Mirror(net), NumAccounts) = -SumTo(net, NumAccounts)
  BY <1>1, SumToMinus, NumAccountsAssumption
<1>3. Mirror(net) \in Net
  BY DEF Mirror, Net
<1>4. \A i \in Int : -i = 0 - i
  OBVIOUS
<1>5. SumTo(net, NumAccounts) \in Int
  BY <1>1, SumToType, NumAccountsAssumption
<1>6. SumTo(Mirror(net), NumAccounts) = 0 - SumTo(net, NumAccounts)
  BY <1>2, <1>4, <1>5
<1> QED
  BY <1>3, <1>6 DEF IsBalanced

(* Balances stay integers.                                                 *)
LEMMA ApplyType ==
    ASSUME NEW bal \in [Account -> Int], NEW net \in Net
    PROVE  /\ Apply(bal, net) \in [Account -> Int]
           /\ Unapply(bal, net) \in [Account -> Int]
           /\ ApplyEffective(bal, net) \in [Account -> Int]
BY DEF Apply, Unapply, ApplyEffective, BalanceDelta, Net

(* Applying balanced lines, or taking them back, moves the debit balances  *)
(* and the credit balances by the same amount.                             *)
LEMMA ApplyBalanced ==
    ASSUME SidesAgree, NEW bal \in [Account -> Int], NEW net \in Net, IsBalanced(net)
    PROVE  /\ SumTo(AsDebits(Apply(bal, net)), NumAccounts)
                 = SumTo(AsDebits(bal), NumAccounts)
           /\ SumTo(AsDebits(Unapply(bal, net)), NumAccounts)
                 = SumTo(AsDebits(bal), NumAccounts)
           /\ SumTo(AsDebits(ApplyEffective(bal, net)), NumAccounts)
                 = SumTo(AsDebits(bal), NumAccounts)
<1>1. \A a \in 1 .. NumAccounts :
         /\ net[a] \in Int /\ Mirror(net)[a] \in Int
         /\ AsDebits(bal)[a] \in Int
         /\ AsDebits(Apply(bal, net))[a] = AsDebits(bal)[a] + net[a]
         /\ AsDebits(ApplyEffective(bal, net))[a] = AsDebits(bal)[a] + net[a]
         /\ AsDebits(Unapply(bal, net))[a] = AsDebits(bal)[a] + Mirror(net)[a]
  BY DEF Apply, Unapply, ApplyEffective, AsDebits, BalanceDelta, Net, Mirror,
         Account, SidesAgree
<1>2. /\ SumTo(net, NumAccounts) = 0
      /\ SumTo(Mirror(net), NumAccounts) = 0
  BY MirrorBalanced DEF IsBalanced
<1>3. SumTo(AsDebits(bal), NumAccounts) \in Int
  BY <1>1, SumToType, NumAccountsAssumption
<1>4. SumTo(AsDebits(Apply(bal, net)), NumAccounts)
         = SumTo(AsDebits(bal), NumAccounts) + SumTo(net, NumAccounts)
  BY <1>1, SumToAdd, NumAccountsAssumption
<1>5. SumTo(AsDebits(ApplyEffective(bal, net)), NumAccounts)
         = SumTo(AsDebits(bal), NumAccounts) + SumTo(net, NumAccounts)
  BY <1>1, SumToAdd, NumAccountsAssumption
<1>6. SumTo(AsDebits(Unapply(bal, net)), NumAccounts)
         = SumTo(AsDebits(bal), NumAccounts) + SumTo(Mirror(net), NumAccounts)
  BY <1>1, SumToAdd, NumAccountsAssumption
<1> QED
  BY <1>2, <1>3, <1>4, <1>5, <1>6

(* Zero balances are in balance.                                           *)
LEMMA ZeroBalanced ==
    SumTo(AsDebits([a \in Account |-> 0]), NumAccounts) = 0
<1> DEFINE zero == [a \in Account |-> 0]
<1>1. \A side : BalanceDelta(side, 0) = 0
  BY DEF BalanceDelta
<1>2. \A a \in Account : AsDebits(zero)[a] = BalanceDelta(effectiveNormalSide(a), 0)
  BY DEF AsDebits
<1>3. \A a \in 1 .. NumAccounts : AsDebits(zero)[a] = 0
  BY <1>1, <1>2 DEF Account
<1> QED
  BY <1>3, SumToZero, NumAccountsAssumption

(* A list of naturals has a maximum, 0 when it is empty.                   *)
LEMMA MaximumExists ==
    ASSUME NEW f, NEW n \in Nat, \A i \in 1 .. n : f[i] \in Nat
    PROVE  \E m \in {f[i] : i \in 1 .. n} \cup {0} :
              m \in Nat /\ \A i \in 1 .. n : f[i] <= m
<1> DEFINE Q(k) == \E m \in {f[i] : i \in 1 .. k} \cup {0} :
                      m \in Nat /\ \A i \in 1 .. k : f[i] <= m
           S == {k \in Nat : k <= n => Q(k)}
<1>1. 0 \in S
  OBVIOUS
<1>2. ASSUME NEW k \in Nat, k \in S PROVE k + 1 \in S
  <2>1. SUFFICES ASSUME k + 1 <= n PROVE Q(k + 1)
    OBVIOUS
  <2>2. PICK m \in {f[i] : i \in 1 .. k} \cup {0} :
                m \in Nat /\ \A i \in 1 .. k : f[i] <= m
    BY <1>2, <2>1
  <2>3. f[k + 1] \in Nat /\ \A i \in 1 .. k + 1 : i \in 1 .. k \/ i = k + 1
    BY <2>1
  <2>4. CASE f[k + 1] <= m
    BY <2>2, <2>3, <2>4
  <2>5. CASE m <= f[k + 1]
    <3>1. \A i \in 1 .. k + 1 : f[i] <= f[k + 1]
      BY <2>1, <2>2, <2>3, <2>5
    <3> QED
      BY <2>3, <3>1
  <2> QED
    BY <2>2, <2>3, <2>4, <2>5
<1> HIDE DEF S
<1>3. Nat \subseteq S
  BY <1>1, <1>2, SetInduction
<1> QED
  BY <1>3 DEF S

-----------------------------------------------------------------------------
(* The rows that balance.  Types alone are not inductive for the balance   *)
(* of the ledger: a request applies, or takes back, lines it READ, so the  *)
(* lines in every row and in every request's memory must balance too.      *)
SoundEntry == {x \in Entry : IsBalanced(x.lines)}

Steps == {"idle", "create", "postGuard", "postCommit", "delete",
          "void", "editDraft", "editPosted", "reverse"}

RequestsSound ==
    /\ pc \in [Request -> Steps]
    /\ work \in [Request -> [id : Nat, je : SoundEntry, number : EntryNumber]]
    /\ \A r \in Request : pc[r] \notin {"idle", "create"} => work[r].id \in Entries

RowsSound ==
    /\ balance \in [Account -> Int]
    /\ active \in [Account -> BOOLEAN]
    /\ closedAt \in [Period -> BOOLEAN]
    /\ journal \in Seq(SoundEntry)
    /\ RequestsSound

-----------------------------------------------------------------------------
(* A new entry with balanced lines is sound, whatever it is linked to.     *)
LEMMA NewEntrySound ==
    ASSUME NEW status \in Status, NEW number \in EntryNumber,
           NEW lines \in Net, IsBalanced(lines), NEW date \in Period
    PROVE  /\ NewEntry(status, number, lines, date) \in SoundEntry
           /\ \A e \in Nat :
                 /\ [NewEntry(status, number, lines, date) EXCEPT !.previousId = e]
                       \in SoundEntry
                 /\ [NewEntry(status, number, lines, date) EXCEPT !.reverses = e]
                       \in SoundEntry
           /\ [NewEntry(status, number, lines, date) EXCEPT !.linked = TRUE]
                       \in SoundEntry
BY DEF NewEntry, SoundEntry, Entry

(* The numbers the code builds are entry numbers.                          *)
LEMMA NumbersSound ==
    /\ NoNumber \in EntryNumber
    /\ \A n \in Nat : JE(n) \in EntryNumber
    /\ \A number \in EntryNumber, e \in Nat : VoidNumber(number, e) \in EntryNumber
BY DEF NoNumber, JE, VoidNumber, EntryNumber

(* So is the memory of a request that has read nothing.                    *)
LEMMA NoWorkSound == NoWork \in [id : Nat, je : SoundEntry, number : EntryNumber]
<1> DEFINE zero == [a \in Account |-> 0]
           p == CHOOSE p \in Period : TRUE
<1>1. zero \in Net /\ IsBalanced(zero)
  <2>1. \A a \in 1 .. NumAccounts : zero[a] = 0
    BY DEF Account
  <2>2. SumTo(zero, NumAccounts) = 0
    BY <2>1, SumToZero, NumAccountsAssumption
  <2> QED
    BY <2>2 DEF Net, IsBalanced
<1>2. p \in Period
  BY PeriodAssumption
<1> HIDE DEF zero, p
<1>3. NewEntry("DRAFT", NoNumber, zero, p) \in SoundEntry
  BY <1>1, <1>2, NewEntrySound, NumbersSound DEF Status
<1> QED
  BY <1>3, NumbersSound DEF NoWork, zero, p

(* Facts about a row of the journal, and about writing one.                *)
LEMMA RowSound ==
    ASSUME RowsSound, NEW e \in Entries
    PROVE  /\ e \in Nat
           /\ journal[e] \in SoundEntry
           /\ journal[e].lines \in Net
           /\ IsBalanced(journal[e].lines)
           /\ journal[e].date \in Period
           /\ journal[e].entryNumber \in EntryNumber
<1>1. Entries = 1 .. Len(journal)
  BY DEF Entries, RowsSound
<1>2. journal[e] \in SoundEntry
  BY <1>1, ElementOfSeq DEF RowsSound
<1> QED
  BY <1>1, <1>2 DEF SoundEntry, Entry

(* Writing a sound entry over a row keeps the journal sound ...            *)
LEMMA WriteRow ==
    ASSUME NEW rows \in Seq(SoundEntry), NEW e \in DOMAIN rows, NEW x \in SoundEntry
    PROVE  /\ [rows EXCEPT ![e] = x] \in Seq(SoundEntry)
           /\ DOMAIN [rows EXCEPT ![e] = x] = DOMAIN rows
BY ExceptSeq

(* ... and so does appending one.                                          *)
LEMMA AppendRow ==
    ASSUME NEW rows \in Seq(SoundEntry), NEW x \in SoundEntry
    PROVE  /\ Append(rows, x) \in Seq(SoundEntry)
           /\ DOMAIN rows \subseteq DOMAIN Append(rows, x)
<1>1. /\ Append(rows, x) \in Seq(SoundEntry)
      /\ Len(Append(rows, x)) = Len(rows) + 1
  BY AppendProperties
<1>2. /\ DOMAIN rows = 1 .. Len(rows)
      /\ DOMAIN Append(rows, x) = 1 .. Len(Append(rows, x))
      /\ Len(rows) \in Nat
  BY <1>1
<1> QED
  BY <1>1, <1>2

(* The next JE- number is a natural number.                                *)
LEMMA LastNumberType ==
    ASSUME RowsSound PROVE LastJENumber \in Nat
<1> DEFINE f == [e \in 1 .. Len(journal) |->
                   IF journal[e].entryNumber.voids = 0
                   THEN journal[e].entryNumber.je ELSE 0]
           S == {f[e] : e \in 1 .. Len(journal)} \cup {0}
<1>1. Entries = 1 .. Len(journal) /\ Len(journal) \in Nat
  BY DEF RowsSound, Entries
<1>2. \A e \in Entries : journal[e].entryNumber.je \in Nat
  BY RowSound DEF EntryNumber
<1>3. \A e \in 1 .. Len(journal) : f[e] \in Nat
  BY <1>1, <1>2
<1>4. JENumbers \subseteq S /\ S \subseteq JENumbers \cup {0}
  <2>1. ASSUME NEW n \in JENumbers PROVE n \in S
    <3>1. PICK e \in Entries : journal[e].entryNumber.voids = 0
                               /\ n = journal[e].entryNumber.je
      BY <2>1 DEF JENumbers
    <3>2. f[e] = n
      BY <1>1, <3>1
    <3> QED
      BY <1>1, <3>2
  <2>2. ASSUME NEW n \in S PROVE n \in JENumbers \cup {0}
    <3>1. CASE n = 0
      BY <3>1
    <3>2. CASE n # 0
      <4>1. PICK e \in 1 .. Len(journal) : f[e] = n
        BY <2>2, <3>2
      <4>2. journal[e].entryNumber.voids = 0 /\ journal[e].entryNumber.je = n
        BY <3>2, <4>1
      <4> QED
        BY <1>1, <4>2 DEF JENumbers
    <3> QED
      BY <3>1, <3>2
  <2> QED
    BY <2>1, <2>2
<1> HIDE DEF f
<1>5. PICK m \in S : m \in Nat /\ \A e \in 1 .. Len(journal) : f[e] <= m
  BY <1>1, <1>3, MaximumExists
<1>6. \A n \in JENumbers : n <= m
  BY <1>4, <1>5
<1>7. \E n \in JENumbers \cup {0} : \A k \in JENumbers : k <= n
  BY <1>4, <1>5, <1>6
<1>8. LastJENumber \in JENumbers \cup {0}
  BY <1>7 DEF LastJENumber
<1> QED
  BY <1>3, <1>4, <1>8

-----------------------------------------------------------------------------
(* The three ways a step changes the requests.                             *)
LEMMA FinishSound ==
    ASSUME RowsSound, NEW r \in Request, Finish(r), DOMAIN journal \subseteq DOMAIN journal'
    PROVE  RequestsSound'
<1>1. pc' \in [Request -> Steps]
  BY DEF RowsSound, RequestsSound, Finish, Steps
<1>2. work' \in [Request -> [id : Nat, je : SoundEntry, number : EntryNumber]]
  BY NoWorkSound DEF RowsSound, RequestsSound, Finish
<1>3. ASSUME NEW q \in Request, pc'[q] \notin {"idle", "create"}
      PROVE  work'[q].id \in Entries'
  <2>1. q # r /\ pc'[q] = pc[q] /\ work'[q] = work[q]
    BY <1>3 DEF RowsSound, RequestsSound, Finish
  <2> QED
    BY <1>3, <2>1 DEF RowsSound, RequestsSound, Entries
<1> QED
  BY <1>1, <1>2, <1>3 DEF RequestsSound

(* What a request reads of a sound journal is sound.                       *)
LEMMA ReadSound ==
    ASSUME RowsSound, NEW r \in Request, NEW e \in Entries, NEW next \in Steps,
           ReadEntry(r, e, next)
    PROVE  RowsSound'
<1>1. pc' \in [Request -> Steps]
  BY DEF RowsSound, RequestsSound, ReadEntry
<1>2. [NoWork EXCEPT !.id = e, !.je = journal[e]]
         \in [id : Nat, je : SoundEntry, number : EntryNumber]
  BY NoWorkSound, RowSound
<1>3. work' \in [Request -> [id : Nat, je : SoundEntry, number : EntryNumber]]
  BY <1>2 DEF RowsSound, RequestsSound, ReadEntry
<1>4. ASSUME NEW q \in Request, pc'[q] \notin {"idle", "create"}
      PROVE  work'[q].id \in Entries'
  <2>1. Entries' = Entries
    BY DEF Entries, ReadEntry
  <2>2. CASE q = r
    <3>1. work'[r] = [NoWork EXCEPT !.id = e, !.je = journal[e]]
      BY DEF RowsSound, RequestsSound, ReadEntry
    <3> QED
      BY <2>1, <2>2, <3>1, NoWorkSound
  <2>3. CASE q # r
    <3>1. pc'[q] = pc[q] /\ work'[q] = work[q]
      BY <2>3 DEF RowsSound, RequestsSound, ReadEntry
    <3> QED
      BY <1>4, <2>1, <3>1 DEF RowsSound, RequestsSound
  <2> QED
    BY <2>2, <2>3
<1> QED
  BY <1>1, <1>3, <1>4 DEF RowsSound, RequestsSound, ReadEntry

(* A step that writes balances and rows, and then ends the request.        *)
LEMMA CommitSound ==
    ASSUME RowsSound, NEW r \in Request, Finish(r),
           UNCHANGED <<active, closedAt>>,
           balance' \in [Account -> Int],
           journal' \in Seq(SoundEntry),
           DOMAIN journal \subseteq DOMAIN journal'
    PROVE  RowsSound'
<1>1. RequestsSound'
  BY FinishSound
<1> QED
  BY <1>1 DEF RowsSound

(* What a request holds that has read an entry.                            *)
LEMMA WorkSound ==
    ASSUME RowsSound, NEW r \in Request
    PROVE  /\ work[r].id \in Nat
           /\ work[r].number \in EntryNumber
           /\ work[r].je \in SoundEntry
           /\ work[r].je.lines \in Net
           /\ IsBalanced(work[r].je.lines)
           /\ work[r].je.date \in Period
           /\ work[r].je.entryNumber \in EntryNumber
           /\ pc[r] \notin {"idle", "create"} => work[r].id \in DOMAIN journal
BY DEF RowsSound, RequestsSound, SoundEntry, Entry, Entries

(* An edit leaves balanced lines behind.                                   *)
LEMMA NewLinesSound ==
    ASSUME NEW current \in Net, IsBalanced(current), NEW lines \in NewLines(current)
    PROVE  lines \in Net /\ IsBalanced(lines)
BY LinesAssumption DEF NewLines

(* Marking a row, or rewriting a draft, keeps it sound.                    *)
LEMMA MarkedSound ==
    ASSUME NEW x \in SoundEntry
    PROVE  /\ \A status \in Status : [x EXCEPT !.postingStatus = status] \in SoundEntry
           /\ \A status \in Status, number \in EntryNumber :
                 [x EXCEPT !.postingStatus = status, !.entryNumber = number]
                    \in SoundEntry
           /\ [x EXCEPT !.deletedAt = TRUE] \in SoundEntry
           /\ \A lines \in Net, p \in Period : IsBalanced(lines) =>
                 [x EXCEPT !.lines = lines, !.date = p] \in SoundEntry
BY DEF SoundEntry, Entry

-----------------------------------------------------------------------------
(* Every step of a request keeps the rows sound: one case per action.      *)
LEMMA StepSound ==
    ASSUME RowsSound, NEW r \in Request, Step(r)
    PROVE  RowsSound'
<1> DEFINE e == work[r].id
           je == work[r].je
<1>w. /\ e \in Nat /\ je \in SoundEntry /\ je.lines \in Net
      /\ IsBalanced(je.lines) /\ je.date \in Period
      /\ je.entryNumber \in EntryNumber
      /\ work[r].number \in EntryNumber
      /\ pc[r] \notin {"idle", "create"} => e \in DOMAIN journal
  BY WorkSound
<1>j. journal \in Seq(SoundEntry) /\ balance \in [Account -> Int]
  BY DEF RowsSound
<1>s. Status = {"DRAFT", "POSTED", "VOIDED"}
  BY DEF Status
<1>create. CASE CreateGuard(r)
  <2>1. PICK lines \in Lines, p \in Period :
           /\ IsBalanced(lines)
           /\ work' = [work EXCEPT ![r] =
                         [NoWork EXCEPT !.je = NewEntry("DRAFT", NoNumber, lines, p)]]
    BY <1>create DEF CreateGuard
  <2>2. NewEntry("DRAFT", NoNumber, lines, p) \in SoundEntry
    BY <2>1, LinesAssumption, NewEntrySound, NumbersSound DEF Status
  <2>3. [NoWork EXCEPT !.je = NewEntry("DRAFT", NoNumber, lines, p)]
           \in [id : Nat, je : SoundEntry, number : EntryNumber]
    BY <2>2, NoWorkSound
  <2>4. work' \in [Request -> [id : Nat, je : SoundEntry, number : EntryNumber]]
    BY <2>1, <2>3 DEF RowsSound, RequestsSound
  <2>5. pc' = [pc EXCEPT ![r] = "create"]
    BY <1>create DEF CreateGuard
  <2>6. pc' \in [Request -> Steps]
    BY <2>5 DEF RowsSound, RequestsSound, Steps
  <2>7. ASSUME NEW q \in Request, pc'[q] \notin {"idle", "create"}
        PROVE  work'[q].id \in Entries'
    BY <2>1, <2>5, <2>7, <1>create DEF CreateGuard, RowsSound, RequestsSound, Entries
  <2> QED
    BY <1>create, <2>4, <2>6, <2>7 DEF CreateGuard, RowsSound, RequestsSound
<1>insert. CASE CreateCommit(r)
  <2>1. journal' = Append(journal, je) /\ Finish(r) /\ UNCHANGED <<balance, active, closedAt>>
    BY <1>insert DEF CreateCommit
  <2>2. journal' \in Seq(SoundEntry) /\ DOMAIN journal \subseteq DOMAIN journal'
    BY <1>w, <1>j, <2>1, AppendRow
  <2> QED
    BY <1>j, <2>1, <2>2, CommitSound
<1>postRead. CASE PostRead(r)
  BY <1>postRead, ReadSound DEF PostRead, Steps
<1>postGuard. CASE PostGuard(r)
  <2>1. /\ pc[r] = "postGuard"
        /\ UNCHANGED <<balance, active, closedAt, journal>>
    BY <1>postGuard DEF PostGuard
  <2>2. CASE AllActive(je.lines) /\ ~closedAt[je.date]
    <3> DEFINE number == IF je.entryNumber = NoNumber
                         THEN JE(LastJENumber + 1) ELSE je.entryNumber
    <3>1. /\ pc' = [pc EXCEPT ![r] = "postCommit"]
          /\ work' = [work EXCEPT ![r].number = number]
      BY <1>postGuard, <2>2 DEF PostGuard, Acceptable
    <3>2. number \in EntryNumber
      BY <1>w, LastNumberType, NumbersSound
    <3> HIDE DEF number
    <3>3. RequestsSound'
      BY <2>1, <3>1, <3>2 DEF RowsSound, RequestsSound, Steps, Entries
    <3> QED
      BY <2>1, <3>3 DEF RowsSound
  <2>3. CASE ~(AllActive(je.lines) /\ ~closedAt[je.date])
    <3>1. Finish(r)
      BY <1>postGuard, <2>3 DEF PostGuard, Acceptable
    <3> QED
      BY <1>j, <2>1, <3>1, CommitSound
  <2> QED
    BY <2>2, <2>3
<1>postCommit. CASE PostCommit(r)
  <2>1. pc[r] = "postCommit" /\ Finish(r) /\ UNCHANGED <<active, closedAt>>
    BY <1>postCommit DEF PostCommit
  <2>2. CASE UNCHANGED <<balance, journal>>
    BY <1>j, <2>1, <2>2, CommitSound
  <2>3. CASE /\ balance' = Apply(balance, je.lines)
             /\ journal' = [journal EXCEPT ![e].postingStatus = "POSTED",
                                           ![e].entryNumber = work[r].number]
    <3> DEFINE x == [journal[e] EXCEPT !.postingStatus = "POSTED",
                                       !.entryNumber = work[r].number]
    <3>1. e \in DOMAIN journal /\ journal[e] \in SoundEntry
      BY <1>w, <2>1, RowSound DEF Entries
    <3>2. x \in SoundEntry
      BY <1>w, <1>s, <3>1, MarkedSound
    <3>3. journal' = [journal EXCEPT ![e] = x]
      BY <2>3
    <3> HIDE DEF x
    <3>4. journal' \in Seq(SoundEntry) /\ DOMAIN journal' = DOMAIN journal
      BY <1>j, <3>1, <3>2, <3>3, WriteRow
    <3>5. balance' \in [Account -> Int]
      BY <1>w, <1>j, <2>3, ApplyType
    <3> QED
      BY <2>1, <3>4, <3>5, CommitSound
  <2> QED
    BY <1>postCommit, <2>2, <2>3 DEF PostCommit
<1>deleteRead. CASE DeleteRead(r)
  BY <1>deleteRead, ReadSound DEF DeleteRead, Steps
<1>delete. CASE DeleteCommit(r)
  <2> DEFINE x == [journal[e] EXCEPT !.deletedAt = TRUE]
  <2>1. /\ pc[r] = "delete" /\ Finish(r) /\ UNCHANGED <<balance, active, closedAt>>
        /\ journal' = [journal EXCEPT ![e] = x]
    BY <1>delete DEF DeleteCommit
  <2>2. e \in DOMAIN journal /\ journal[e] \in SoundEntry
    BY <1>w, <2>1, RowSound DEF Entries
  <2>3. x \in SoundEntry
    BY <2>2, MarkedSound
  <2> HIDE DEF x
  <2>4. journal' \in Seq(SoundEntry) /\ DOMAIN journal' = DOMAIN journal
    BY <1>j, <2>1, <2>2, <2>3, WriteRow
  <2> QED
    BY <1>j, <2>1, <2>4, CommitSound
<1>voidRead. CASE VoidRead(r)
  BY <1>voidRead, ReadSound DEF VoidRead, Steps
<1>void. CASE VoidCommit(r)
  <2> DEFINE number == VoidNumber(je.entryNumber, e)
             mirror == [NewEntry("POSTED", number, Mirror(je.lines), je.date)
                           EXCEPT !.reverses = e]
             x == [journal[e] EXCEPT !.postingStatus = "VOIDED"]
  <2>1. pc[r] = "void" /\ Finish(r) /\ UNCHANGED <<active, closedAt>>
    BY <1>void DEF VoidCommit
  <2>2. CASE UNCHANGED <<balance, journal>>
    BY <1>j, <2>1, <2>2, CommitSound
  <2>3. CASE /\ balance' = Unapply(balance, je.lines)
             /\ journal' = Append([journal EXCEPT ![e].postingStatus = "VOIDED"], mirror)
    <3>1. e \in DOMAIN journal /\ journal[e] \in SoundEntry
      BY <1>w, <2>1, RowSound DEF Entries
    <3>2. x \in SoundEntry
      BY <1>s, <3>1, MarkedSound
    <3>3. mirror \in SoundEntry
      BY <1>w, <1>s, MirrorBalanced, NewEntrySound, NumbersSound
    <3>4. journal' = Append([journal EXCEPT ![e] = x], mirror)
      BY <2>3
    <3> HIDE DEF x, mirror
    <3>5. /\ [journal EXCEPT ![e] = x] \in Seq(SoundEntry)
          /\ DOMAIN [journal EXCEPT ![e] = x] = DOMAIN journal
      BY <1>j, <3>1, <3>2, WriteRow
    <3>6. journal' \in Seq(SoundEntry) /\ DOMAIN journal \subseteq DOMAIN journal'
      BY <3>3, <3>4, <3>5, AppendRow
    <3>7. balance' \in [Account -> Int]
      BY <1>w, <1>j, <2>3, ApplyType
    <3> QED
      BY <2>1, <3>6, <3>7, CommitSound
  <2> QED
    BY <1>void, <2>2, <2>3 DEF VoidCommit
<1>editRead. CASE EditRead(r)
  BY <1>editRead, ReadSound DEF EditRead, EditBranch, Steps
<1>editDraft. CASE EditDraftCommit(r)
  <2>1. /\ pc[r] = "editDraft" /\ Finish(r) /\ UNCHANGED <<balance, active, closedAt>>
    BY <1>editDraft DEF EditDraftCommit
  <2>2. PICK lines \in NewLines(journal[e].lines), p \in Period :
           journal' = [journal EXCEPT ![e].lines = lines, ![e].date = p]
    BY <1>editDraft DEF EditDraftCommit
  <2> DEFINE x == [journal[e] EXCEPT !.lines = lines, !.date = p]
  <2>3. e \in DOMAIN journal /\ journal[e] \in SoundEntry
        /\ journal[e].lines \in Net /\ IsBalanced(journal[e].lines)
    BY <1>w, <2>1, RowSound DEF Entries
  <2>4. lines \in Net /\ IsBalanced(lines)
    BY <2>3, NewLinesSound
  <2>5. x \in SoundEntry
    BY <2>3, <2>4, MarkedSound
  <2>6. journal' = [journal EXCEPT ![e] = x]
    BY <2>2
  <2> HIDE DEF x
  <2>7. journal' \in Seq(SoundEntry) /\ DOMAIN journal' = DOMAIN journal
    BY <1>j, <2>3, <2>5, <2>6, WriteRow
  <2> QED
    BY <1>j, <2>1, <2>7, CommitSound
<1>editPosted. CASE EditPostedCommit(r)
  <2> DEFINE rest == [journal EXCEPT ![e].postingStatus = "VOIDED",
                                     ![e].entryNumber = NoNumber]
             x == [journal[e] EXCEPT !.postingStatus = "VOIDED", !.entryNumber = NoNumber]
  <2>1. pc[r] = "editPosted" /\ Finish(r) /\ UNCHANGED <<active, closedAt>>
    BY <1>editPosted DEF EditPostedCommit
  <2>2. CASE UNCHANGED <<balance, journal>>
    BY <1>j, <2>1, <2>2, CommitSound
  <2>3. ASSUME NEW lines \in NewLines(je.lines), NEW p \in Period,
               balance' = ReplaceBalances(balance, je.lines, lines),
               journal' = Append(rest, Replacement(e, je, lines, p))
        PROVE  RowsSound'
    <3>1. e \in DOMAIN journal /\ journal[e] \in SoundEntry
      BY <1>w, <2>1, RowSound DEF Entries
    <3>2. x \in SoundEntry
      BY <1>s, <3>1, MarkedSound, NumbersSound
    <3>3. lines \in Net /\ IsBalanced(lines)
      BY <1>w, NewLinesSound
    <3>4. Replacement(e, je, lines, p) \in SoundEntry
      BY <1>w, <1>s, <3>3, NewEntrySound DEF Replacement
    <3>5. rest = [journal EXCEPT ![e] = x]
      OBVIOUS
    <3> HIDE DEF x, rest
    <3>6. rest \in Seq(SoundEntry) /\ DOMAIN rest = DOMAIN journal
      BY <1>j, <3>1, <3>2, <3>5, WriteRow
    <3>7. journal' \in Seq(SoundEntry) /\ DOMAIN journal \subseteq DOMAIN journal'
      BY <2>3, <3>4, <3>6, AppendRow
    <3>8. balance' \in [Account -> Int]
      BY <1>w, <1>j, <2>3, <3>3, ApplyType DEF ReplaceBalances
    <3> QED
      BY <2>1, <3>7, <3>8, CommitSound
  <2> QED
    BY <1>editPosted, <2>2, <2>3 DEF EditPostedCommit
<1>automatic. CASE CreateAndPostJE(r)
  <2>1. PICK lines \in Lines, p \in Period :
           /\ IsBalanced(lines)
           /\ balance' = ApplyEffective(balance, lines)
           /\ journal' = Append(journal,
                 [NewEntry("POSTED", NoNumber, lines, p) EXCEPT !.linked = TRUE])
    BY <1>automatic DEF CreateAndPostJE
  <2> DEFINE x == [NewEntry("POSTED", NoNumber, lines, p) EXCEPT !.linked = TRUE]
  <2>2. x \in SoundEntry
    BY <1>s, <2>1, LinesAssumption, NewEntrySound, NumbersSound
  <2> HIDE DEF x
  <2>3. journal' \in Seq(SoundEntry) /\ DOMAIN journal \subseteq DOMAIN journal'
    BY <1>j, <2>1, <2>2, AppendRow DEF x
  <2>4. balance' \in [Account -> Int]
    BY <1>j, <2>1, LinesAssumption, ApplyType
  <2>5. UNCHANGED <<active, closedAt, pc, work>>
    BY <1>automatic DEF CreateAndPostJE
  <2> QED
    BY <2>3, <2>4, <2>5 DEF RowsSound, RequestsSound, Entries
<1>reverseRead. CASE ReverseRead(r)
  BY <1>reverseRead, ReadSound DEF ReverseRead, Steps
<1>reverse. CASE ReverseCommit(r)
  <2>1. pc[r] = "reverse" /\ Finish(r) /\ UNCHANGED <<active, closedAt>>
    BY <1>reverse DEF ReverseCommit
  <2>2. PICK p \in Period :
           /\ balance' = ApplyEffective(balance, Mirror(je.lines))
           /\ journal' = Append([journal EXCEPT ![e].postingStatus = "VOIDED"],
                 [NewEntry("POSTED", NoNumber, Mirror(je.lines), p) EXCEPT !.reverses = e])
    BY <1>reverse DEF ReverseCommit
  <2> DEFINE x == [journal[e] EXCEPT !.postingStatus = "VOIDED"]
             y == [NewEntry("POSTED", NoNumber, Mirror(je.lines), p) EXCEPT !.reverses = e]
  <2>3. e \in DOMAIN journal /\ journal[e] \in SoundEntry
    BY <1>w, <2>1, RowSound DEF Entries
  <2>4. x \in SoundEntry
    BY <1>s, <2>3, MarkedSound
  <2>5. Mirror(je.lines) \in Net /\ IsBalanced(Mirror(je.lines))
    BY <1>w, MirrorBalanced
  <2>6. y \in SoundEntry
    BY <1>w, <1>s, <2>5, NewEntrySound, NumbersSound
  <2>7. journal' = Append([journal EXCEPT ![e] = x], y)
    BY <2>2
  <2> HIDE DEF x, y
  <2>8. /\ [journal EXCEPT ![e] = x] \in Seq(SoundEntry)
        /\ DOMAIN [journal EXCEPT ![e] = x] = DOMAIN journal
    BY <1>j, <2>3, <2>4, WriteRow
  <2>9. journal' \in Seq(SoundEntry) /\ DOMAIN journal \subseteq DOMAIN journal'
    BY <2>6, <2>7, <2>8, AppendRow
  <2>10. balance' \in [Account -> Int]
    BY <1>j, <2>2, <2>5, ApplyType
  <2> QED
    BY <2>1, <2>9, <2>10, CommitSound
<1>abandon. CASE Abandon(r)
  <2>1. Finish(r) /\ UNCHANGED <<balance, active, closedAt, journal>>
    BY <1>abandon DEF Abandon
  <2> QED
    BY <1>j, <2>1, CommitSound
<1> QED
  BY <1>create, <1>insert, <1>postRead, <1>postGuard, <1>postCommit, <1>deleteRead,
     <1>delete, <1>voidRead, <1>void, <1>editRead, <1>editDraft, <1>editPosted,
     <1>automatic, <1>reverseRead, <1>reverse, <1>abandon DEF Step

-----------------------------------------------------------------------------
(* The empty journal and idle requests are sound.                          *)
LEMMA InitSound == Init => RowsSound
<1> SUFFICES ASSUME Init PROVE RowsSound
  OBVIOUS
<1>1. journal \in Seq(SoundEntry)
  BY EmptySeq DEF Init
<1>2. RequestsSound
  BY NoWorkSound DEF Init, RequestsSound, Steps
<1> QED
  BY <1>1, <1>2 DEF Init, RowsSound

(* Every step keeps rows and requests sound.                               *)
LEMMA NextSound == RowsSound /\ [Next]_vars => RowsSound'
<1> SUFFICES ASSUME RowsSound, [Next]_vars PROVE RowsSound'
  OBVIOUS
<1>1. CASE Next
  BY <1>1, StepSound DEF Next
<1>2. CASE UNCHANGED vars
  BY <1>2 DEF vars, RowsSound, RequestsSound, Entries
<1> QED
  BY <1>1, <1>2

(* Soundness is stronger than the type invariant.                          *)
LEMMA SoundType == RowsSound => TypeOK
<1> SUFFICES ASSUME RowsSound PROVE TypeOK
  OBVIOUS
<1>1. SoundEntry \subseteq Entry
  BY DEF SoundEntry
<1>2. journal \in Seq(Entry)
  BY <1>1, SeqMonotonic DEF RowsSound
<1> QED
  BY <1>1, <1>2 DEF RowsSound, RequestsSound, TypeOK, Steps

(* Every row that can be written balances, and so does everything a        *)
(* request holds in memory: the double-entry validation of the create,     *)
(* edit and automatic paths is enough for all of them.                     *)
THEOREM RowsAlwaysSound == Spec => []RowsSound
BY InitSound, NextSound, PTL DEF Spec

(* Type correctness.                                                       *)
THEOREM TypeCorrect == Spec => []TypeOK
BY RowsAlwaysSound, SoundType, PTL

-----------------------------------------------------------------------------
(* Every change of the balances comes from balanced lines, so it cancels   *)
(* over the accounts.                                                      *)
LEMMA StepInBalance ==
    ASSUME SidesAgree, RowsSound, LedgerInBalance, [Next]_vars
    PROVE  LedgerInBalance'
<1> DEFINE Sum(bal) == SumTo(AsDebits(bal), NumAccounts)
<1>1. SUFFICES ASSUME balance' # balance PROVE Sum(balance') = Sum(balance)
  BY DEF LedgerInBalance
<1>2. balance \in [Account -> Int]
  BY DEF RowsSound
<1>3. PICK r \in Request : Step(r)
  BY <1>1 DEF Next, vars
<1> DEFINE je == work[r].je
<1>4. je.lines \in Net /\ IsBalanced(je.lines)
  BY WorkSound
<1>5. CASE PostCommit(r)
  <2>1. balance' = Apply(balance, je.lines)
    BY <1>1, <1>5 DEF PostCommit
  <2> QED
    BY <1>2, <1>4, <2>1, ApplyBalanced
<1>6. CASE VoidCommit(r)
  <2>1. balance' = Unapply(balance, je.lines)
    BY <1>1, <1>6 DEF VoidCommit
  <2> QED
    BY <1>2, <1>4, <2>1, ApplyBalanced
<1>7. CASE EditPostedCommit(r)
  <2>1. PICK lines \in NewLines(je.lines) :
           balance' = Apply(Unapply(balance, je.lines), lines)
    BY <1>1, <1>7 DEF EditPostedCommit, ReplaceBalances
  <2>2. lines \in Net /\ IsBalanced(lines)
    BY <1>4, NewLinesSound
  <2>3. Unapply(balance, je.lines) \in [Account -> Int]
    BY <1>2, <1>4, ApplyType
  <2>4. Sum(balance') = Sum(Unapply(balance, je.lines))
    BY <2>1, <2>2, <2>3, ApplyBalanced
  <2>5. Sum(Unapply(balance, je.lines)) = Sum(balance)
    BY <1>2, <1>4, ApplyBalanced
  <2> QED
    BY <2>4, <2>5
<1>8. CASE CreateAndPostJE(r)
  <2>1. PICK lines \in Lines :
           IsBalanced(lines) /\ balance' = ApplyEffective(balance, lines)
    BY <1>8 DEF CreateAndPostJE
  <2> QED
    BY <1>2, <2>1, LinesAssumption, ApplyBalanced
<1>9. CASE ReverseCommit(r)
  <2>1. balance' = ApplyEffective(balance, Mirror(je.lines))
    BY <1>9 DEF ReverseCommit
  <2>2. Mirror(je.lines) \in Net /\ IsBalanced(Mirror(je.lines))
    BY <1>4, MirrorBalanced
  <2> QED
    BY <1>2, <2>1, <2>2, ApplyBalanced
<1> QED
  BY <1>1, <1>3, <1>5, <1>6, <1>7, <1>8, <1>9
     DEF Step, CreateGuard, CreateCommit, PostRead, PostGuard, DeleteRead,
         DeleteCommit, VoidRead, EditRead, EditDraftCommit, ReverseRead, Abandon,
         ReadEntry

(* The cached balances of the chart sum to zero (as debits) in every       *)
(* reachable state, for any number of accounts, entries and overlapping    *)
(* requests, even where the requests race and post an entry twice: every   *)
(* write to Account.balance applies, or takes back, balanced lines.  The   *)
(* one condition is that the journal service and createAndPostJE agree on  *)
(* the side of every account.                                              *)
THEOREM BalancesAlwaysInBalance == SidesAgree => (Spec => []LedgerInBalance)
<1> SUFFICES ASSUME SidesAgree PROVE Spec => []LedgerInBalance
  OBVIOUS
<1>1. Init => LedgerInBalance
  BY ZeroBalanced DEF Init, LedgerInBalance
<1>2. RowsSound /\ LedgerInBalance /\ [Next]_vars => LedgerInBalance'
  BY StepInBalance
<1> QED
  BY <1>1, <1>2, RowsAlwaysSound, PTL DEF Spec

-----------------------------------------------------------------------------
(* VoidedLeavesTrace is not inductive: a request that is about to insert   *)
(* its entry must hold a draft that replaces nothing, never a VOIDED one.  *)
CreatesDrafts ==
    \A r \in Request : pc[r] = "create" =>
       work[r].je.postingStatus = "DRAFT" /\ work[r].je.previousId = 0

(* A step of a request leaves the other requests alone.                    *)
LEMMA OthersUnchanged ==
    ASSUME RowsSound, NEW r \in Request, Step(r), NEW q \in Request, q # r
    PROVE  pc'[q] = pc[q] /\ work'[q] = work[q]
<1>1. CASE Finish(r)
  BY <1>1 DEF Finish, RowsSound, RequestsSound
<1>2. CASE \E e, next : ReadEntry(r, e, next)
  BY <1>2 DEF ReadEntry, RowsSound, RequestsSound
<1>3. CASE CreateGuard(r)
  BY <1>3 DEF CreateGuard, RowsSound, RequestsSound
<1>4. CASE PostGuard(r)
  <2>1. CASE Finish(r)
    BY <1>1, <2>1
  <2>2. CASE ~Finish(r)
    BY <1>4, <2>2 DEF PostGuard, RowsSound, RequestsSound
  <2> QED
    BY <2>1, <2>2
<1>5. CASE CreateAndPostJE(r)
  BY <1>5 DEF CreateAndPostJE
<1> QED
  BY <1>1, <1>2, <1>3, <1>4, <1>5
     DEF Step, CreateCommit, PostRead, PostCommit, DeleteRead, DeleteCommit, VoidRead,
         VoidCommit, EditRead, EditDraftCommit, EditPostedCommit, ReverseRead,
         ReverseCommit, Abandon

(* A request that is about to create an entry creates a draft.             *)
LEMMA CreatesDraftsInductive ==
    ASSUME RowsSound, CreatesDrafts, [Next]_vars PROVE CreatesDrafts'
<1> SUFFICES ASSUME NEW q \in Request, pc'[q] = "create"
             PROVE  work'[q].je.postingStatus = "DRAFT" /\ work'[q].je.previousId = 0
  BY DEF CreatesDrafts
<1>1. CASE pc'[q] = pc[q] /\ work'[q] = work[q]
  BY <1>1 DEF CreatesDrafts
<1>2. CASE CreateGuard(q)
  <2>1. PICK lines \in Lines, p \in Period :
           work' = [work EXCEPT ![q] =
                      [NoWork EXCEPT !.je = NewEntry("DRAFT", NoNumber, lines, p)]]
    BY <1>2 DEF CreateGuard
  <2>2. work'[q].je = NewEntry("DRAFT", NoNumber, lines, p)
    BY <2>1, NoWorkSound DEF RowsSound, RequestsSound
  <2> QED
    BY <2>2 DEF NewEntry
<1>3. CASE Step(q) /\ ~CreateGuard(q)
  <2>1. pc \in [Request -> Steps]
    BY DEF RowsSound, RequestsSound
  <2>2. CASE Finish(q)
    BY <2>1, <2>2 DEF Finish
  <2>3. CASE \E e \in Entries, next \in Steps \ {"create"} : ReadEntry(q, e, next)
    BY <2>1, <2>3 DEF ReadEntry
  <2>4. CASE PostGuard(q)
    BY <2>1, <2>2, <2>4 DEF PostGuard
  <2>5. CASE CreateAndPostJE(q)
    BY <1>1, <2>5 DEF CreateAndPostJE
  <2> QED
    BY <1>3, <2>2, <2>3, <2>4, <2>5
       DEF Step, CreateCommit, PostRead, PostCommit, DeleteRead, DeleteCommit, VoidRead,
           VoidCommit, EditRead, EditBranch, EditDraftCommit, EditPostedCommit,
           ReverseRead, ReverseCommit, Abandon, Steps
<1> QED
  <2>1. CASE UNCHANGED vars
    BY <1>1, <2>1 DEF vars
  <2>2. ASSUME NEW r \in Request, Step(r)
        PROVE  work'[q].je.postingStatus = "DRAFT" /\ work'[q].je.previousId = 0
    BY <1>1, <1>2, <1>3, <2>2, OthersUnchanged
  <2> QED
    BY <2>1, <2>2 DEF Next

(* The three ways a step changes the journal: it rewrites a row without    *)
(* voiding it, it appends a row, or it voids a row and appends the row     *)
(* that corrects it.  No step touches the links of a row.                  *)
KeepsLinks(e, x) == /\ x.previousId = journal[e].previousId
                    /\ x.reverses = journal[e].reverses

Rewrites(e, x) == /\ journal' = [journal EXCEPT ![e] = x]
                  /\ KeepsLinks(e, x)
                  /\ x.postingStatus \in {journal[e].postingStatus, "POSTED"}

Appends(x) == /\ journal' = Append(journal, x)
              /\ x.postingStatus # "VOIDED"

Corrects(e, x, y) == /\ journal' = Append([journal EXCEPT ![e] = x], y)
                     /\ KeepsLinks(e, x)
                     /\ y.postingStatus = "POSTED"
                     /\ e \in {y.previousId, y.reverses}

(* What one step can do to the journal: rewrite a row without voiding it,  *)
(* append, or void a row and append its correction.                        *)
LEMMA JournalShape ==
    ASSUME RowsSound, CreatesDrafts, NEW r \in Request, Step(r), journal' # journal
    PROVE  \/ \E e \in Entries, x \in SoundEntry : Rewrites(e, x)
           \/ \E x \in SoundEntry : Appends(x)
           \/ \E e \in Entries, x, y \in SoundEntry : Corrects(e, x, y)
<1> DEFINE e == work[r].id
           je == work[r].je
<1>w. /\ e \in Nat /\ je \in SoundEntry /\ je.lines \in Net
      /\ IsBalanced(je.lines) /\ je.date \in Period
      /\ je.entryNumber \in EntryNumber
      /\ work[r].number \in EntryNumber
      /\ pc[r] \notin {"idle", "create"} => e \in Entries
  BY WorkSound DEF Entries
<1>s. Status = {"DRAFT", "POSTED", "VOIDED"}
  BY DEF Status
<1>1. CASE CreateCommit(r)
  <2>1. journal' = Append(journal, je) /\ je.postingStatus = "DRAFT"
    BY <1>1 DEF CreateCommit, CreatesDrafts
  <2> QED
    BY <1>w, <2>1 DEF Appends
<1>2. CASE PostCommit(r)
  <2> DEFINE x == [journal[e] EXCEPT !.postingStatus = "POSTED",
                                     !.entryNumber = work[r].number]
  <2>1. e \in Entries /\ journal[e] \in SoundEntry
    BY <1>w, <1>2, RowSound DEF PostCommit
  <2>2. x \in SoundEntry
    BY <1>w, <1>s, <2>1, MarkedSound
  <2>3. journal' = [journal EXCEPT ![e] = x]
    BY <1>2, journal' # journal DEF PostCommit
  <2>4. KeepsLinks(e, x) /\ x.postingStatus = "POSTED"
    BY <2>1 DEF KeepsLinks, SoundEntry, Entry
  <2> HIDE DEF x
  <2>5. Rewrites(e, x)
    BY <2>3, <2>4 DEF Rewrites
  <2> QED
    BY <2>1, <2>2, <2>5
<1>3. CASE DeleteCommit(r)
  <2> DEFINE x == [journal[e] EXCEPT !.deletedAt = TRUE]
  <2>1. e \in Entries /\ journal[e] \in SoundEntry
    BY <1>w, <1>3, RowSound DEF DeleteCommit
  <2>2. x \in SoundEntry
    BY <2>1, MarkedSound
  <2>3. journal' = [journal EXCEPT ![e] = x]
    BY <1>3 DEF DeleteCommit
  <2>4. KeepsLinks(e, x) /\ x.postingStatus = journal[e].postingStatus
    BY <2>1 DEF KeepsLinks, SoundEntry, Entry
  <2> HIDE DEF x
  <2>5. Rewrites(e, x)
    BY <2>3, <2>4 DEF Rewrites
  <2> QED
    BY <2>1, <2>2, <2>5
<1>4. CASE EditDraftCommit(r)
  <2>1. PICK lines \in NewLines(journal[e].lines), p \in Period :
           journal' = [journal EXCEPT ![e].lines = lines, ![e].date = p]
    BY <1>4 DEF EditDraftCommit
  <2> DEFINE x == [journal[e] EXCEPT !.lines = lines, !.date = p]
  <2>2. /\ e \in Entries /\ journal[e] \in SoundEntry
        /\ journal[e].lines \in Net /\ IsBalanced(journal[e].lines)
    BY <1>w, <1>4, RowSound DEF EditDraftCommit
  <2>3. lines \in Net /\ IsBalanced(lines)
    BY <2>2, NewLinesSound
  <2>4. x \in SoundEntry
    BY <2>2, <2>3, MarkedSound
  <2>5. KeepsLinks(e, x) /\ x.postingStatus = journal[e].postingStatus
    BY <2>2 DEF KeepsLinks, SoundEntry, Entry
  <2>6. journal' = [journal EXCEPT ![e] = x]
    BY <2>1
  <2> HIDE DEF x
  <2>7. Rewrites(e, x)
    BY <2>5, <2>6 DEF Rewrites
  <2> QED
    BY <2>2, <2>4, <2>7
<1>5. CASE CreateAndPostJE(r)
  <2>1. PICK lines \in Lines, p \in Period :
           /\ IsBalanced(lines)
           /\ journal' = Append(journal,
                 [NewEntry("POSTED", NoNumber, lines, p) EXCEPT !.linked = TRUE])
    BY <1>5 DEF CreateAndPostJE
  <2> DEFINE x == [NewEntry("POSTED", NoNumber, lines, p) EXCEPT !.linked = TRUE]
  <2>2. x \in SoundEntry
    BY <1>s, <2>1, LinesAssumption, NewEntrySound, NumbersSound
  <2>3. x.postingStatus = "POSTED"
    BY DEF NewEntry
  <2> HIDE DEF x
  <2>4. Appends(x)
    BY <2>1, <2>3 DEF Appends, x
  <2> QED
    BY <2>2, <2>4
<1>6. ASSUME e \in Entries,
             NEW x \in SoundEntry, KeepsLinks(e, x),
             NEW y \in SoundEntry, y.postingStatus = "POSTED",
             e \in {y.previousId, y.reverses},
             journal' = Append([journal EXCEPT ![e] = x], y)
      PROVE  \E d \in Entries, u, v \in SoundEntry : Corrects(d, u, v)
  BY <1>6 DEF Corrects
<1>7. CASE VoidCommit(r)
  <2> DEFINE number == VoidNumber(je.entryNumber, e)
             y == [NewEntry("POSTED", number, Mirror(je.lines), je.date)
                      EXCEPT !.reverses = e]
             x == [journal[e] EXCEPT !.postingStatus = "VOIDED"]
  <2>1. e \in Entries /\ journal[e] \in SoundEntry
    BY <1>w, <1>7, RowSound DEF VoidCommit
  <2>2. x \in SoundEntry /\ KeepsLinks(e, x)
    <3>1. x \in SoundEntry
      BY <1>s, <2>1, MarkedSound
    <3>2. KeepsLinks(e, x)
      BY <2>1 DEF KeepsLinks, SoundEntry, Entry
    <3> QED
      BY <3>1, <3>2
  <2>3. y \in SoundEntry
    BY <1>w, <1>s, MirrorBalanced, NewEntrySound, NumbersSound
  <2>4. y.postingStatus = "POSTED" /\ y.reverses = e
    BY DEF NewEntry
  <2>5. journal' = Append([journal EXCEPT ![e] = x], y)
    BY <1>7, journal' # journal DEF VoidCommit
  <2> HIDE DEF x, y
  <2> QED
    BY <1>6, <2>1, <2>2, <2>3, <2>4, <2>5
<1>8. CASE EditPostedCommit(r)
  <2> DEFINE x == [journal[e] EXCEPT !.postingStatus = "VOIDED", !.entryNumber = NoNumber]
  <2>1. PICK lines \in NewLines(je.lines), p \in Period :
           journal' = Append([journal EXCEPT ![e].postingStatus = "VOIDED",
                                             ![e].entryNumber = NoNumber],
                             Replacement(e, je, lines, p))
    BY <1>8, journal' # journal DEF EditPostedCommit
  <2> DEFINE y == Replacement(e, je, lines, p)
  <2>2. e \in Entries /\ journal[e] \in SoundEntry
    BY <1>w, <1>8, RowSound DEF EditPostedCommit
  <2>3. x \in SoundEntry /\ KeepsLinks(e, x)
    <3>1. x \in SoundEntry
      BY <1>s, <2>2, MarkedSound, NumbersSound
    <3>2. KeepsLinks(e, x)
      BY <2>2 DEF KeepsLinks, SoundEntry, Entry
    <3> QED
      BY <3>1, <3>2
  <2>4. lines \in Net /\ IsBalanced(lines)
    BY <1>w, NewLinesSound
  <2>5. y \in SoundEntry
    BY <1>w, <1>s, <2>4, NewEntrySound DEF Replacement
  <2>6. y.postingStatus = "POSTED" /\ y.previousId = e
    BY DEF Replacement, NewEntry
  <2>7. journal' = Append([journal EXCEPT ![e] = x], y)
    BY <2>1
  <2> HIDE DEF x, y
  <2> QED
    BY <1>6, <2>2, <2>3, <2>5, <2>6, <2>7
<1>9. CASE ReverseCommit(r)
  <2> DEFINE x == [journal[e] EXCEPT !.postingStatus = "VOIDED"]
  <2>1. PICK p \in Period :
           journal' = Append([journal EXCEPT ![e].postingStatus = "VOIDED"],
              [NewEntry("POSTED", NoNumber, Mirror(je.lines), p) EXCEPT !.reverses = e])
    BY <1>9 DEF ReverseCommit
  <2> DEFINE y == [NewEntry("POSTED", NoNumber, Mirror(je.lines), p) EXCEPT !.reverses = e]
  <2>2. e \in Entries /\ journal[e] \in SoundEntry
    BY <1>w, <1>9, RowSound DEF ReverseCommit
  <2>3. x \in SoundEntry /\ KeepsLinks(e, x)
    <3>1. x \in SoundEntry
      BY <1>s, <2>2, MarkedSound
    <3>2. KeepsLinks(e, x)
      BY <2>2 DEF KeepsLinks, SoundEntry, Entry
    <3> QED
      BY <3>1, <3>2
  <2>4. y \in SoundEntry
    BY <1>w, <1>s, MirrorBalanced, NewEntrySound, NumbersSound
  <2>5. y.postingStatus = "POSTED" /\ y.reverses = e
    BY DEF NewEntry
  <2>6. journal' = Append([journal EXCEPT ![e] = x], y)
    BY <2>1
  <2> HIDE DEF x, y
  <2> QED
    BY <1>6, <2>2, <2>3, <2>4, <2>5, <2>6
<1> QED
  BY <1>1, <1>2, <1>3, <1>4, <1>5, <1>7, <1>8, <1>9, journal' # journal
     DEF Step, CreateGuard, PostRead, PostGuard, DeleteRead, VoidRead, EditRead,
         ReverseRead, Abandon, ReadEntry

(* Row by row, what the journal looks like after a row is written and      *)
(* another appended.                                                       *)
LEMMA AppendAt ==
    ASSUME NEW rows \in Seq(SoundEntry), NEW y \in SoundEntry
    PROVE  /\ DOMAIN Append(rows, y) = DOMAIN rows \cup {Len(rows) + 1}
           /\ \A i \in DOMAIN rows : Append(rows, y)[i] = rows[i]
           /\ Append(rows, y)[Len(rows) + 1] = y
<1>1. /\ Append(rows, y) \in Seq(SoundEntry)
      /\ Len(Append(rows, y)) = Len(rows) + 1
      /\ \A i \in 1 .. Len(rows) : Append(rows, y)[i] = rows[i]
      /\ Append(rows, y)[Len(rows) + 1] = y
  BY AppendProperties
<1>2. /\ DOMAIN rows = 1 .. Len(rows)
      /\ DOMAIN Append(rows, y) = 1 .. Len(Append(rows, y))
      /\ Len(rows) \in Nat
  BY <1>1
<1> QED
  BY <1>1, <1>2

Corrected(e) == \E m \in Entries : e \in {journal[m].previousId, journal[m].reverses}

(* A correction stays in the journal, linked to what it corrects.          *)
LEMMA StepLeavesTrace ==
    ASSUME RowsSound, CreatesDrafts, VoidedLeavesTrace, [Next]_vars
    PROVE  VoidedLeavesTrace'
<1>1. SUFFICES ASSUME NEW d \in Entries', journal'[d].postingStatus = "VOIDED"
               PROVE  Corrected(d)'
  BY DEF VoidedLeavesTrace, Corrected
<1>2. \A c \in Entries : journal[c].postingStatus = "VOIDED" => Corrected(c)
  BY DEF VoidedLeavesTrace, Corrected
<1>3. CASE journal' = journal
  BY <1>1, <1>2, <1>3 DEF Entries, Corrected
<1>j. journal \in Seq(SoundEntry)
  BY DEF RowsSound
<1>4. ASSUME NEW e \in Entries, NEW x \in SoundEntry, Rewrites(e, x)
      PROVE  Corrected(d)'
  <2>1. /\ journal' = [journal EXCEPT ![e] = x] /\ KeepsLinks(e, x)
        /\ x.postingStatus \in {journal[e].postingStatus, "POSTED"}
    BY <1>4 DEF Rewrites
  <2>2. /\ Entries' = Entries
        /\ \A m \in Entries : journal'[m] = IF m = e THEN x ELSE journal[m]
    BY <1>j, <2>1 DEF Entries
  <2>3. /\ \A m \in Entries : /\ journal'[m].previousId = journal[m].previousId
                              /\ journal'[m].reverses = journal[m].reverses
        /\ journal[d].postingStatus = "VOIDED"
    BY <1>1, <2>1, <2>2 DEF KeepsLinks
  <2>4. Corrected(d)
    BY <1>1, <1>2, <2>2, <2>3
  <2> QED
    BY <2>2, <2>3, <2>4 DEF Corrected
<1>5. ASSUME NEW x \in SoundEntry, Appends(x) PROVE Corrected(d)'
  <2>1. journal' = Append(journal, x) /\ x.postingStatus # "VOIDED"
    BY <1>5 DEF Appends
  <2>2. /\ Entries' = Entries \cup {Len(journal) + 1}
        /\ \A m \in Entries : journal'[m] = journal[m]
        /\ journal'[Len(journal) + 1] = x
    BY <1>j, <2>1, AppendAt DEF Entries
  <2>3. d \in Entries /\ journal[d].postingStatus = "VOIDED"
    BY <1>1, <2>1, <2>2
  <2> QED
    BY <1>2, <2>2, <2>3 DEF Corrected
<1>6. ASSUME NEW e \in Entries, NEW x \in SoundEntry, NEW y \in SoundEntry,
             Corrects(e, x, y)
      PROVE  Corrected(d)'
  <2> DEFINE rest == [journal EXCEPT ![e] = x]
             last == Len(rest) + 1
  <2>1. /\ journal' = Append(rest, y) /\ KeepsLinks(e, x)
        /\ y.postingStatus = "POSTED" /\ e \in {y.previousId, y.reverses}
    BY <1>6 DEF Corrects
  <2>2. /\ rest \in Seq(SoundEntry) /\ DOMAIN rest = Entries
        /\ \A m \in Entries : rest[m] = IF m = e THEN x ELSE journal[m]
    BY <1>j, WriteRow DEF Entries
  <2> HIDE DEF rest
  <2>3. /\ Entries' = Entries \cup {last}
        /\ \A m \in Entries : journal'[m] = rest[m]
        /\ journal'[last] = y
    BY <2>1, <2>2, AppendAt DEF Entries
  <2> HIDE DEF last
  <2>4. \A m \in Entries : /\ journal'[m].previousId = journal[m].previousId
                          /\ journal'[m].reverses = journal[m].reverses
    BY <2>1, <2>2, <2>3 DEF KeepsLinks
  <2>5. CASE d = e
    BY <2>1, <2>3, <2>5 DEF Corrected
  <2>6. CASE d # e
    <3>1. d \in Entries /\ journal[d].postingStatus = "VOIDED"
      BY <1>1, <2>1, <2>2, <2>3, <2>6
    <3>2. Corrected(d)
      BY <1>2, <3>1
    <3> QED
      BY <2>3, <2>4, <3>2 DEF Corrected
  <2> QED
    BY <2>5, <2>6
<1> QED
  <2>1. CASE journal' # journal
    <3>1. PICK r \in Request : Step(r)
      BY <2>1 DEF Next, vars
    <3> QED
      BY <1>4, <1>5, <1>6, <2>1, <3>1, JournalShape
  <2> QED
    BY <1>3, <2>1

(* No entry is ever just VOIDED: whatever overlaps, fails or is abandoned, *)
(* its replacement or its mirror image is in the journal.  It is the       *)
(* database transaction that gives this, not the checks before it.         *)
THEOREM VoidedAlwaysLeavesTrace == Spec => []VoidedLeavesTrace
<1>1. Init => CreatesDrafts /\ VoidedLeavesTrace
  BY DEF Init, CreatesDrafts, VoidedLeavesTrace, Entries
<1>2. RowsSound /\ CreatesDrafts /\ [Next]_vars => CreatesDrafts'
  BY CreatesDraftsInductive
<1>3. RowsSound /\ CreatesDrafts /\ VoidedLeavesTrace /\ [Next]_vars
         => VoidedLeavesTrace'
  BY StepLeavesTrace
<1> QED
  BY <1>1, <1>2, <1>3, RowsAlwaysSound, PTL DEF Spec
-----------------------------------------------------------------------------
(* Requests that do not overlap: one request at most is between its read   *)
(* and its transaction.  Entries of documents, and of a close, may come at *)
(* any time.                                                               *)
NoOverlap == \A r, s \in Request : pc[r] # "idle" /\ pc[s] # "idle" => r = s

(* What is then true of what a request has read, when it comes to its      *)
(* transaction: it still stands so, and the next number is still the next. *)
ReadIsCurrent(r) ==
    /\ pc[r] \notin {"idle", "create"} => work[r].je = journal[work[r].id]
    /\ pc[r] \in {"postGuard", "postCommit", "delete", "editDraft"} =>
          work[r].je.postingStatus = "DRAFT" /\ ~work[r].je.deletedAt
    /\ pc[r] \in {"void", "editPosted", "reverse"} =>
          work[r].je.postingStatus = "POSTED"
    /\ pc[r] = "postCommit" => work[r].number = JE(LastJENumber + 1)
    /\ pc[r] = "create" => \E lines \in Net, p \in Period :
                              work[r].je = NewEntry("DRAFT", NoNumber, lines, p)

ReadsAreCurrent == \A r \in Request : ReadIsCurrent(r)

(* A draft has no number and no document, what is deleted is a draft, and  *)
(* links lead to entries that were there before.                           *)
RowsInOrder ==
    \A e \in Entries :
       /\ journal[e].postingStatus = "DRAFT" =>
             journal[e].entryNumber = NoNumber /\ ~journal[e].linked
       /\ journal[e].postingStatus # "DRAFT" => ~journal[e].deletedAt
       /\ journal[e].previousId \in 0 .. Len(journal)
       /\ journal[e].reverses \in 0 .. Len(journal)

NumbersDense == \E n \in Nat : JENumbers \ {0} = 1 .. n

SerialInv == /\ ReadsAreCurrent
             /\ RowsInOrder
             /\ CorrectedOnce
             /\ NumbersDense

-----------------------------------------------------------------------------
(* The journal after a row is written ...                                  *)
LEMMA RewriteAt ==
    ASSUME RowsSound, NEW e \in Entries, NEW x \in SoundEntry,
           journal' = [journal EXCEPT ![e] = x]
    PROVE  /\ Entries' = Entries /\ Len(journal') = Len(journal)
           /\ \A m \in Entries : journal'[m] = IF m = e THEN x ELSE journal[m]
<1>1. journal \in Seq(SoundEntry) /\ e \in DOMAIN journal
  BY DEF RowsSound, Entries
<1>2. journal' \in Seq(SoundEntry) /\ DOMAIN journal' = DOMAIN journal
  BY <1>1, WriteRow
<1>3. Len(journal') = Len(journal)
  BY <1>1, <1>2
<1> QED
  BY <1>1, <1>2, <1>3 DEF Entries

(* ... after one is appended ...                                           *)
LEMMA InsertAt ==
    ASSUME RowsSound, NEW y \in SoundEntry, journal' = Append(journal, y)
    PROVE  /\ Len(journal) \in Nat /\ Len(journal') = Len(journal) + 1
           /\ Entries = 1 .. Len(journal) /\ Len(journal) + 1 \notin Entries
           /\ Entries' = Entries \cup {Len(journal) + 1}
           /\ \A m \in Entries : journal'[m] = journal[m]
           /\ journal'[Len(journal) + 1] = y
<1>1. journal \in Seq(SoundEntry)
  BY DEF RowsSound
<1>2. Len(journal) \in Nat /\ Len(journal') = Len(journal) + 1
  BY <1>1, AppendProperties
<1>3. Entries = 1 .. Len(journal)
  BY <1>1 DEF Entries
<1> QED
  BY <1>1, <1>2, <1>3, AppendAt DEF Entries

(* ... after one is written and another appended ...                       *)
LEMMA CorrectAt ==
    ASSUME RowsSound, NEW e \in Entries, NEW x \in SoundEntry, NEW y \in SoundEntry,
           journal' = Append([journal EXCEPT ![e] = x], y)
    PROVE  /\ Len(journal) \in Nat /\ Len(journal') = Len(journal) + 1
           /\ Entries = 1 .. Len(journal) /\ Len(journal) + 1 \notin Entries
           /\ Entries' = Entries \cup {Len(journal) + 1}
           /\ \A m \in Entries : journal'[m] = IF m = e THEN x ELSE journal[m]
           /\ journal'[Len(journal) + 1] = y
<1> DEFINE rest == [journal EXCEPT ![e] = x]
<1>1. journal \in Seq(SoundEntry) /\ e \in DOMAIN journal
  BY DEF RowsSound, Entries
<1>2. rest \in Seq(SoundEntry) /\ DOMAIN rest = DOMAIN journal
  BY <1>1, WriteRow
<1>3. Len(rest) = Len(journal) /\ Len(journal) \in Nat
  BY <1>1, <1>2
<1>4. \A m \in Entries : rest[m] = IF m = e THEN x ELSE journal[m]
  BY DEF Entries
<1> HIDE DEF rest
<1>5. Len(journal') = Len(rest) + 1
  BY <1>2, AppendProperties DEF rest
<1>6. Entries = 1 .. Len(journal)
  BY <1>1 DEF Entries
<1>7. /\ DOMAIN Append(rest, y) = DOMAIN rest \cup {Len(rest) + 1}
      /\ \A i \in DOMAIN rest : Append(rest, y)[i] = rest[i]
      /\ Append(rest, y)[Len(rest) + 1] = y
  BY <1>2, AppendAt
<1>8. journal' = Append(rest, y)
  BY DEF rest
<1> QED
  BY <1>2, <1>3, <1>4, <1>5, <1>6, <1>7, <1>8 DEF Entries

(* ... and after a list of rows is added.                                  *)
LEMMA ConcatAt ==
    ASSUME RowsSound, NEW rows \in Seq(SoundEntry), journal' = journal \o rows
    PROVE  /\ journal' \in Seq(SoundEntry)
           /\ Len(journal) \in Nat /\ Len(rows) \in Nat
           /\ Len(journal') = Len(journal) + Len(rows)
           /\ Entries = 1 .. Len(journal) /\ Entries' = 1 .. Len(journal')
           /\ \A m \in Entries : journal'[m] = journal[m]
           /\ \A i \in 1 .. Len(rows) : journal'[Len(journal) + i] = rows[i]
           /\ \A m \in Entries' \ Entries :
                 /\ m - Len(journal) \in 1 .. Len(rows)
                 /\ journal'[m] = rows[m - Len(journal)]
<1>1. journal \in Seq(SoundEntry)
  BY DEF RowsSound
<1>2. /\ journal' \in Seq(SoundEntry)
      /\ Len(journal') = Len(journal) + Len(rows)
      /\ \A i \in 1 .. Len(journal) + Len(rows) :
            journal'[i] = IF i <= Len(journal) THEN journal[i] ELSE rows[i - Len(journal)]
  BY <1>1, ConcatProperties
<1>3. Len(journal) \in Nat /\ Len(rows) \in Nat
  BY <1>1
<1>4. Entries = 1 .. Len(journal) /\ Entries' = 1 .. Len(journal')
  BY <1>1, <1>2 DEF Entries
<1>5. \A i \in 1 .. Len(rows) : /\ Len(journal) + i \in 1 .. Len(journal) + Len(rows)
                                /\ ~(Len(journal) + i <= Len(journal))
                                /\ (Len(journal) + i) - Len(journal) = i
  BY <1>3
<1>6. \A m \in Entries' \ Entries : /\ m \in 1 .. Len(journal) + Len(rows)
                                   /\ ~(m <= Len(journal))
                                   /\ m - Len(journal) \in 1 .. Len(rows)
  BY <1>2, <1>3, <1>4
<1>7. \A i \in 1 .. Len(rows) : journal'[Len(journal) + i] = rows[i]
  BY <1>2, <1>5
<1>8. \A m \in Entries : journal'[m] = journal[m]
  BY <1>2, <1>3, <1>4
<1> QED
  BY <1>2, <1>3, <1>4, <1>6, <1>7, <1>8
-----------------------------------------------------------------------------
(* What a step does to the books when what its request has read still      *)
(* stands: six kinds of change, each of the journal and the balances at    *)
(* once, as if read and transaction were one.                              *)
Keeps(e, x) == /\ x.lines = journal[e].lines
               /\ x.date = journal[e].date
               /\ x.deletedAt = journal[e].deletedAt
               /\ x.linked = journal[e].linked
               /\ KeepsLinks(e, x)

PostsDraft(e, x) ==
    /\ journal[e].postingStatus = "DRAFT" /\ ~journal[e].deletedAt
    /\ Keeps(e, x)
    /\ x.postingStatus = "POSTED"
    /\ x.entryNumber = JE(LastJENumber + 1)
    /\ journal' = [journal EXCEPT ![e] = x]
    /\ balance' = Apply(balance, journal[e].lines)

RewritesDraft(e, x) ==
    /\ journal[e].postingStatus = "DRAFT"
    /\ x.postingStatus = "DRAFT"
    /\ x.entryNumber = journal[e].entryNumber
    /\ x.linked = journal[e].linked
    /\ KeepsLinks(e, x)
    /\ journal' = [journal EXCEPT ![e] = x]
    /\ balance' = balance

AddsDraft(x) ==
    /\ x.postingStatus = "DRAFT" /\ x.entryNumber = NoNumber /\ ~x.linked
    /\ x.previousId = 0 /\ x.reverses = 0
    /\ journal' = Append(journal, x)
    /\ balance' = balance

Stands(x) == x.postingStatus = "POSTED" /\ ~x.deletedAt

ReversesPosted(e, x, y) ==
    /\ journal[e].postingStatus = "POSTED"
    /\ Keeps(e, x)
    /\ x.postingStatus = "VOIDED"
    /\ x.entryNumber = journal[e].entryNumber
    /\ Stands(y) /\ y.previousId = 0 /\ y.reverses = e
    /\ y.entryNumber = NoNumber \/ y.entryNumber.voids # 0
    /\ y.lines = Mirror(journal[e].lines)
    /\ journal' = Append([journal EXCEPT ![e] = x], y)
    /\ \/ balance' = Unapply(balance, journal[e].lines)
       \/ balance' = ApplyEffective(balance, Mirror(journal[e].lines))

ReplacesPosted(e, x, y) ==
    /\ journal[e].postingStatus = "POSTED"
    /\ Keeps(e, x)
    /\ x.postingStatus = "VOIDED"
    /\ x.entryNumber = NoNumber
    /\ Stands(y) /\ y.previousId = e /\ y.reverses = 0
    /\ y.entryNumber = journal[e].entryNumber
    /\ journal' = Append([journal EXCEPT ![e] = x], y)
    /\ balance' = ReplaceBalances(balance, journal[e].lines, y.lines)

AddsPosted(rows) ==
    /\ \A i \in 1 .. Len(rows) :
          /\ Stands(rows[i])
          /\ rows[i].entryNumber = NoNumber
          /\ rows[i].previousId = 0 /\ rows[i].reverses = 0
    /\ journal' = journal \o rows
    /\ balance' = PostAll(balance, [i \in 1 .. Len(rows) |-> rows[i].lines])

BooksChange ==
    \/ UNCHANGED <<balance, journal>>
    \/ \E e \in Entries, x \in SoundEntry : PostsDraft(e, x)
    \/ \E e \in Entries, x \in SoundEntry : RewritesDraft(e, x)
    \/ \E x \in SoundEntry : AddsDraft(x)
    \/ \E e \in Entries, x, y \in SoundEntry : ReversesPosted(e, x, y)
    \/ \E e \in Entries, x, y \in SoundEntry : ReplacesPosted(e, x, y)
    \/ \E rows \in Seq(SoundEntry) : AddsPosted(rows)

(* An entry that is posted as it is inserted is a list of one ...          *)
LEMMA OneRowAdded ==
    ASSUME RowsSound, NEW x \in SoundEntry,
           Stands(x), x.entryNumber = NoNumber, x.previousId = 0, x.reverses = 0,
           journal' = Append(journal, x),
           balance' = ApplyEffective(balance, x.lines)
    PROVE  \E rows \in Seq(SoundEntry) : AddsPosted(rows)
<1> DEFINE rows == <<x>>
           lists == [i \in 1 .. Len(rows) |-> rows[i].lines]
<1>1. rows \in Seq(SoundEntry) /\ Len(rows) = 1 /\ rows[1] = x
  OBVIOUS
<1>2. journal' = journal \o rows
  <2>1. journal \in Seq(SoundEntry)
    BY DEF RowsSound
  <2> QED
    BY <1>1, <2>1, AppendIsConcat
<1>3. DOMAIN lists = 1 .. 1 /\ lists[1] = x.lines /\ Len(lists) = 1
  <2>1. lists = [i \in 1 .. 1 |-> x.lines]
    BY <1>1
  <2> QED
    BY <2>1
<1> HIDE DEF rows, lists
<1>4. ASSUME NEW a \in Account
      PROVE  SumTo([i \in DOMAIN lists |-> lists[i][a]], Len(lists)) = x.lines[a]
  <2> DEFINE f == [i \in DOMAIN lists |-> lists[i][a]]
  <2>1. f[1] = x.lines[a] /\ x.lines[a] \in Int
    BY <1>3 DEF SoundEntry, Entry, Net
  <2>2. SumTo(f, 0) = 0 /\ SumTo(f, 0 + 1) = SumTo(f, 0) + f[0 + 1]
    BY SumToStep
  <2> HIDE DEF f
  <2>3. SumTo(f, 1) = x.lines[a]
    BY <2>1, <2>2
  <2> QED
    BY <1>3, <2>3 DEF f
<1>5. PostAll(balance, lists) = ApplyEffective(balance, x.lines)
  BY <1>4 DEF PostAll, ApplyEffective
<1>6. AddsPosted(rows)
  BY <1>1, <1>2, <1>5 DEF AddsPosted, lists
<1> QED
  BY <1>1, <1>6
(* ... and so is the entry of a document.                                  *)
LEMMA DocumentAdds ==
    ASSUME RowsSound, NEW r \in Request, CreateAndPostJE(r)
    PROVE  \E rows \in Seq(SoundEntry) : AddsPosted(rows)
<1>1. PICK lines \in Lines, p \in Period :
         /\ IsBalanced(lines)
         /\ balance' = ApplyEffective(balance, lines)
         /\ journal' = Append(journal,
               [NewEntry("POSTED", NoNumber, lines, p) EXCEPT !.linked = TRUE])
  BY DEF CreateAndPostJE
<1> DEFINE x == [NewEntry("POSTED", NoNumber, lines, p) EXCEPT !.linked = TRUE]
<1>2. x \in SoundEntry
  BY <1>1, LinesAssumption, NewEntrySound, NumbersSound DEF Status
<1>3. /\ Stands(x) /\ x.entryNumber = NoNumber /\ x.previousId = 0
      /\ x.reverses = 0 /\ x.lines = lines
  BY DEF NewEntry, Stands
<1>4. journal' = Append(journal, x)
  BY <1>1
<1> HIDE DEF x
<1> QED
  BY <1>1, <1>2, <1>3, <1>4, OneRowAdded

(* Every step of a request is one of them.                                 *)
LEMMA StepChangesBooks ==
    ASSUME RowsSound, RowsInOrder, NEW r \in Request, ReadIsCurrent(r), Step(r)
    PROVE  BooksChange
<1> DEFINE e == work[r].id
           je == work[r].je
<1>w. /\ e \in Nat /\ je \in SoundEntry /\ je.lines \in Net
      /\ IsBalanced(je.lines) /\ je.date \in Period
      /\ je.entryNumber \in EntryNumber
      /\ work[r].number \in EntryNumber
      /\ pc[r] \notin {"idle", "create"} => e \in Entries
  BY WorkSound DEF Entries
<1>c. /\ pc[r] \notin {"idle", "create"} => je = journal[e]
      /\ pc[r] \in {"postGuard", "postCommit", "delete", "editDraft"} =>
            je.postingStatus = "DRAFT" /\ ~je.deletedAt
      /\ pc[r] \in {"void", "editPosted", "reverse"} => je.postingStatus = "POSTED"
      /\ pc[r] = "postCommit" => work[r].number = JE(LastJENumber + 1)
      /\ pc[r] = "create" => \E lines \in Net, p \in Period :
                                je = NewEntry("DRAFT", NoNumber, lines, p)
  BY DEF ReadIsCurrent
<1> HIDE DEF e, je
<1>s. Status = {"DRAFT", "POSTED", "VOIDED"}
  BY DEF Status
<1>j. \A d \in Entries : journal[d] \in SoundEntry /\ journal[d].lines \in Net
                         /\ IsBalanced(journal[d].lines)
  BY RowSound
<1>n. NoNumber \in EntryNumber
  BY NumbersSound
<1>z. \A n \in EntryNumber, d \in Nat : VoidNumber(n, d).voids # 0
  BY DEF VoidNumber, EntryNumber, NoNumber
<1>1. CASE CreateCommit(r)
  <2>1. pc[r] = "create" /\ journal' = Append(journal, je) /\ balance' = balance
    BY <1>1 DEF CreateCommit, je
  <2>2. PICK lines \in Net, p \in Period : je = NewEntry("DRAFT", NoNumber, lines, p)
    BY <1>c, <2>1
  <2>3. /\ je.postingStatus = "DRAFT" /\ je.entryNumber = NoNumber /\ ~je.linked
        /\ je.previousId = 0 /\ je.reverses = 0
    BY <2>2 DEF NewEntry
  <2>4. AddsDraft(je)
    BY <2>1, <2>3 DEF AddsDraft
  <2> QED
    BY <1>w, <2>4 DEF BooksChange
<1>2. CASE PostCommit(r)
  <2>1. /\ pc[r] = "postCommit" /\ e \in Entries /\ je = journal[e]
        /\ je.postingStatus = "DRAFT" /\ ~je.deletedAt
        /\ work[r].number = JE(LastJENumber + 1)
    BY <1>2, <1>w, <1>c DEF PostCommit
  <2>2. CASE ~UNCHANGED <<balance, journal>>
    <3> DEFINE x == [journal[e] EXCEPT !.postingStatus = "POSTED",
                                       !.entryNumber = work[r].number]
    <3>1. /\ journal' = [journal EXCEPT ![e] = x]
          /\ balance' = Apply(balance, je.lines)
      BY <1>2, <2>2 DEF PostCommit, e, je
    <3>2. journal[e] \in SoundEntry
      BY <1>j, <2>1
    <3>3. x \in SoundEntry
      BY <1>w, <1>s, <3>2, MarkedSound
    <3>4. /\ Keeps(e, x) /\ x.postingStatus = "POSTED"
          /\ x.entryNumber = work[r].number
      BY <3>2 DEF Keeps, KeepsLinks, SoundEntry, Entry
    <3> HIDE DEF x
    <3>5. PostsDraft(e, x)
      BY <2>1, <3>1, <3>4 DEF PostsDraft
    <3> QED
      BY <2>1, <3>3, <3>5 DEF BooksChange
  <2> QED
    BY <2>2 DEF BooksChange
<1>3. ASSUME e \in Entries, journal[e].postingStatus = "DRAFT",
             NEW x \in SoundEntry, x.postingStatus = "DRAFT",
             x.entryNumber = journal[e].entryNumber, x.linked = journal[e].linked,
             KeepsLinks(e, x),
             journal' = [journal EXCEPT ![e] = x], balance' = balance
      PROVE  BooksChange
  BY <1>3 DEF RewritesDraft, BooksChange
<1>4. CASE DeleteCommit(r)
  <2> DEFINE x == [journal[e] EXCEPT !.deletedAt = TRUE]
  <2>1. /\ pc[r] = "delete" /\ e \in Entries /\ je = journal[e]
        /\ je.postingStatus = "DRAFT" /\ balance' = balance
        /\ journal' = [journal EXCEPT ![e] = x]
    BY <1>4, <1>w, <1>c DEF DeleteCommit, e
  <2>2. journal[e] \in SoundEntry
    BY <1>j, <2>1
  <2>3. x \in SoundEntry
    BY <2>2, MarkedSound
  <2>4. /\ x.postingStatus = journal[e].postingStatus
        /\ x.entryNumber = journal[e].entryNumber
        /\ x.linked = journal[e].linked /\ KeepsLinks(e, x)
    BY <2>2 DEF KeepsLinks, SoundEntry, Entry
  <2> HIDE DEF x
  <2> QED
    BY <1>3, <2>1, <2>3, <2>4
<1>5. CASE EditDraftCommit(r)
  <2>1. PICK lines \in NewLines(journal[e].lines), p \in Period :
           journal' = [journal EXCEPT ![e].lines = lines, ![e].date = p]
    BY <1>5 DEF EditDraftCommit, e
  <2>2. /\ pc[r] = "editDraft" /\ e \in Entries /\ je = journal[e]
        /\ je.postingStatus = "DRAFT" /\ balance' = balance
    BY <1>5, <1>w, <1>c DEF EditDraftCommit
  <2> DEFINE x == [journal[e] EXCEPT !.lines = lines, !.date = p]
  <2>3. journal[e] \in SoundEntry
    BY <1>j, <2>2
  <2>4. lines \in Net /\ IsBalanced(lines)
    BY <1>j, <2>2, NewLinesSound
  <2>5. x \in SoundEntry
    BY <2>3, <2>4, MarkedSound
  <2>6. /\ x.postingStatus = journal[e].postingStatus
        /\ x.entryNumber = journal[e].entryNumber
        /\ x.linked = journal[e].linked /\ KeepsLinks(e, x)
    BY <2>3 DEF KeepsLinks, SoundEntry, Entry
  <2>7. journal' = [journal EXCEPT ![e] = x]
    BY <2>1
  <2> HIDE DEF x
  <2> QED
    BY <1>3, <2>2, <2>5, <2>6, <2>7
<1>6. CASE CreateAndPostJE(r)
  BY <1>6, DocumentAdds DEF BooksChange
<1>7. ASSUME pc[r] \in {"void", "reverse"}, NEW number \in EntryNumber, NEW p \in Period,
             number = NoNumber \/ number.voids # 0,
             journal' = Append([journal EXCEPT ![e].postingStatus = "VOIDED"],
                [NewEntry("POSTED", number, Mirror(je.lines), p) EXCEPT !.reverses = e]),
             \/ balance' = Unapply(balance, je.lines)
             \/ balance' = ApplyEffective(balance, Mirror(je.lines))
      PROVE  BooksChange
  <2> DEFINE x == [journal[e] EXCEPT !.postingStatus = "VOIDED"]
             y == [NewEntry("POSTED", number, Mirror(je.lines), p) EXCEPT !.reverses = e]
  <2>1. e \in Entries /\ je = journal[e] /\ journal[e].postingStatus = "POSTED"
    BY <1>7, <1>w, <1>c
  <2>2. journal[e] \in SoundEntry
    BY <1>j, <2>1
  <2>3. x \in SoundEntry
    BY <1>s, <2>2, MarkedSound
  <2>4. /\ Keeps(e, x) /\ x.postingStatus = "VOIDED"
        /\ x.entryNumber = journal[e].entryNumber
    BY <2>2 DEF Keeps, KeepsLinks, SoundEntry, Entry
  <2>5. y \in SoundEntry
    BY <1>w, <1>s, <1>7, MirrorBalanced, NewEntrySound
  <2>6. /\ Stands(y) /\ y.previousId = 0 /\ y.reverses = e
        /\ y.entryNumber = number /\ y.lines = Mirror(je.lines)
    BY DEF NewEntry, Stands
  <2>7. journal' = Append([journal EXCEPT ![e] = x], y)
    BY <1>7
  <2> HIDE DEF x, y
  <2>8. ReversesPosted(e, x, y)
    BY <1>7, <2>1, <2>4, <2>6, <2>7 DEF ReversesPosted
  <2> QED
    BY <2>1, <2>3, <2>5, <2>8 DEF BooksChange
<1>8. CASE VoidCommit(r)
  <2> DEFINE number == VoidNumber(je.entryNumber, e)
  <2>1. CASE ~UNCHANGED <<balance, journal>>
    <3>1. /\ pc[r] = "void"
          /\ balance' = Unapply(balance, je.lines)
          /\ journal' = Append([journal EXCEPT ![e].postingStatus = "VOIDED"],
                [NewEntry("POSTED", number, Mirror(je.lines), je.date)
                    EXCEPT !.reverses = e])
      BY <1>8, <2>1 DEF VoidCommit, e, je
    <3>2. number \in EntryNumber /\ number.voids # 0
      BY <1>w, <1>z, NumbersSound
    <3> HIDE DEF number
    <3> QED
      BY <1>7, <1>w, <3>1, <3>2
  <2> QED
    BY <2>1 DEF BooksChange
<1>9. CASE ReverseCommit(r)
  <2>1. PICK p \in Period :
           /\ balance' = ApplyEffective(balance, Mirror(je.lines))
           /\ journal' = Append([journal EXCEPT ![e].postingStatus = "VOIDED"],
                 [NewEntry("POSTED", NoNumber, Mirror(je.lines), p) EXCEPT !.reverses = e])
    BY <1>9 DEF ReverseCommit, e, je
  <2>2. pc[r] = "reverse"
    BY <1>9 DEF ReverseCommit
  <2> QED
    BY <1>7, <1>n, <2>1, <2>2
<1>10. CASE EditPostedCommit(r)
  <2>1. CASE ~UNCHANGED <<balance, journal>>
    <3>1. PICK lines \in NewLines(je.lines), p \in Period :
             /\ balance' = ReplaceBalances(balance, je.lines, lines)
             /\ journal' = Append([journal EXCEPT ![e].postingStatus = "VOIDED",
                                                  ![e].entryNumber = NoNumber],
                                  Replacement(e, je, lines, p))
      BY <1>10, <2>1 DEF EditPostedCommit, e, je
    <3> DEFINE x == [journal[e] EXCEPT !.postingStatus = "VOIDED", !.entryNumber = NoNumber]
               y == Replacement(e, je, lines, p)
    <3>2. e \in Entries /\ je = journal[e] /\ journal[e].postingStatus = "POSTED"
      BY <1>10, <1>w, <1>c DEF EditPostedCommit
    <3>3. journal[e] \in SoundEntry
      BY <1>j, <3>2
    <3>4. x \in SoundEntry
      BY <1>s, <1>n, <3>3, MarkedSound
    <3>5. Keeps(e, x) /\ x.postingStatus = "VOIDED" /\ x.entryNumber = NoNumber
      BY <3>3 DEF Keeps, KeepsLinks, SoundEntry, Entry
    <3>6. lines \in Net /\ IsBalanced(lines)
      BY <1>w, NewLinesSound
    <3>7. y \in SoundEntry
      BY <1>w, <1>s, <3>6, NewEntrySound DEF Replacement
    <3>8. /\ Stands(y) /\ y.previousId = e /\ y.reverses = 0
          /\ y.entryNumber = je.entryNumber /\ y.lines = lines
      BY DEF Replacement, NewEntry, Stands
    <3>9. journal' = Append([journal EXCEPT ![e] = x], y)
      BY <3>1
    <3> HIDE DEF x, y
    <3>10. ReplacesPosted(e, x, y)
      BY <3>1, <3>2, <3>5, <3>8, <3>9 DEF ReplacesPosted
    <3> QED
      BY <3>2, <3>4, <3>7, <3>10 DEF BooksChange
  <2> QED
    BY <2>1 DEF BooksChange
<1>11. ASSUME UNCHANGED <<balance, journal>> PROVE BooksChange
  BY <1>11 DEF BooksChange
<1> QED
  BY <1>1, <1>2, <1>4, <1>5, <1>6, <1>8, <1>9, <1>10, <1>11
     DEF Step, CreateGuard, PostRead, PostGuard, DeleteRead, VoidRead, EditRead,
         ReverseRead, Abandon, ReadEntry
-----------------------------------------------------------------------------
(* The rows stay in order under every such change.                         *)
LEMMA OrderKept ==
    ASSUME RowsSound, RowsInOrder, BooksChange PROVE RowsInOrder'
<1> DEFINE Ordered(x, n) ==
              /\ x.postingStatus = "DRAFT" => x.entryNumber = NoNumber /\ ~x.linked
              /\ x.postingStatus # "DRAFT" => ~x.deletedAt
              /\ x.previousId \in 0 .. n
              /\ x.reverses \in 0 .. n
<1>1. \A e \in Entries : Ordered(journal[e], Len(journal))
  BY DEF RowsInOrder
<1>2. SUFFICES ASSUME NEW d \in Entries' PROVE Ordered(journal'[d], Len(journal'))
  BY DEF RowsInOrder
<1>3. Len(journal) \in Nat /\ Entries = 1 .. Len(journal)
  BY DEF RowsSound, Entries
<1>4. \A x, n : n \in Nat /\ Ordered(x, Len(journal)) /\ Len(journal) <= n => Ordered(x, n)
  BY <1>3
<1>5. CASE UNCHANGED <<balance, journal>>
  BY <1>1, <1>2, <1>5 DEF Entries
<1>6. ASSUME NEW e \in Entries, NEW x \in SoundEntry,
             journal' = [journal EXCEPT ![e] = x], Ordered(x, Len(journal))
      PROVE  Ordered(journal'[d], Len(journal'))
  <2> HIDE DEF Ordered
  <2>1. /\ Entries' = Entries /\ Len(journal') = Len(journal)
        /\ \A m \in Entries : journal'[m] = IF m = e THEN x ELSE journal[m]
    BY <1>6, RewriteAt
  <2> QED
    BY <1>1, <1>2, <1>6, <2>1
<1>7. ASSUME NEW e \in Entries, NEW x \in SoundEntry, PostsDraft(e, x)
      PROVE  Ordered(journal'[d], Len(journal'))
  <2>1. Ordered(x, Len(journal))
    BY <1>1, <1>7 DEF PostsDraft, Keeps, KeepsLinks
  <2> QED
    BY <1>6, <1>7, <2>1 DEF PostsDraft
<1>8. ASSUME NEW e \in Entries, NEW x \in SoundEntry, RewritesDraft(e, x)
      PROVE  Ordered(journal'[d], Len(journal'))
  <2>1. Ordered(x, Len(journal))
    BY <1>1, <1>8 DEF RewritesDraft, KeepsLinks
  <2> QED
    BY <1>6, <1>8, <2>1 DEF RewritesDraft
<1>9. ASSUME NEW x \in SoundEntry, AddsDraft(x)
      PROVE  Ordered(journal'[d], Len(journal'))
  <2>1. /\ Len(journal') = Len(journal) + 1
        /\ Entries' = Entries \cup {Len(journal) + 1}
        /\ \A m \in Entries : journal'[m] = journal[m]
        /\ journal'[Len(journal) + 1] = x
    BY <1>9, InsertAt DEF AddsDraft
  <2>2. Ordered(x, Len(journal))
    BY <1>3, <1>9 DEF AddsDraft
  <2>3. Ordered(journal'[d], Len(journal))
    BY <1>1, <1>2, <2>1, <2>2
  <2> HIDE DEF Ordered
  <2>4. Len(journal') \in Nat /\ Len(journal) <= Len(journal')
    BY <1>3, <2>1
  <2> QED
    BY <1>4, <2>3, <2>4
<1>10. ASSUME NEW e \in Entries, NEW x \in SoundEntry, NEW y \in SoundEntry,
              journal' = Append([journal EXCEPT ![e] = x], y),
              Ordered(x, Len(journal)), Ordered(y, Len(journal))
       PROVE  Ordered(journal'[d], Len(journal'))
  <2> HIDE DEF Ordered
  <2>1. /\ Len(journal') = Len(journal) + 1
        /\ Entries' = Entries \cup {Len(journal) + 1}
        /\ \A m \in Entries : journal'[m] = IF m = e THEN x ELSE journal[m]
        /\ journal'[Len(journal) + 1] = y
    BY <1>10, CorrectAt
  <2>2. Ordered(journal'[d], Len(journal))
    BY <1>1, <1>2, <1>10, <2>1
  <2>3. Len(journal') \in Nat /\ Len(journal) <= Len(journal')
    BY <1>3, <2>1
  <2> QED
    BY <1>4, <2>2, <2>3
<1>11. ASSUME NEW e \in Entries, NEW x \in SoundEntry, NEW y \in SoundEntry,
              ReversesPosted(e, x, y) \/ ReplacesPosted(e, x, y)
       PROVE  Ordered(journal'[d], Len(journal'))
  <2>1. Ordered(x, Len(journal))
    BY <1>1, <1>11 DEF ReversesPosted, ReplacesPosted, Keeps, KeepsLinks
  <2>2. y.postingStatus = "POSTED" /\ ~y.deletedAt
    BY <1>11 DEF ReversesPosted, ReplacesPosted, Stands
  <2>3. y.previousId \in {0, e} /\ y.reverses \in {0, e}
    BY <1>11 DEF ReversesPosted, ReplacesPosted
  <2>4. y.previousId \in 0 .. Len(journal) /\ y.reverses \in 0 .. Len(journal)
    BY <1>3, <2>3
  <2>5. Ordered(y, Len(journal))
    BY <2>2, <2>4
  <2>6. journal' = Append([journal EXCEPT ![e] = x], y)
    BY <1>11 DEF ReversesPosted, ReplacesPosted
  <2> QED
    BY <1>10, <2>1, <2>5, <2>6
<1>12. ASSUME NEW rows \in Seq(SoundEntry), AddsPosted(rows)
       PROVE  Ordered(journal'[d], Len(journal'))
  <2>1. /\ Len(journal') \in Nat /\ Len(journal) <= Len(journal')
        /\ \A m \in Entries : journal'[m] = journal[m]
        /\ \A m \in Entries' \ Entries :
              /\ m - Len(journal) \in 1 .. Len(rows)
              /\ journal'[m] = rows[m - Len(journal)]
    BY <1>12, ConcatAt DEF AddsPosted
  <2>2. \A i \in 1 .. Len(rows) : Ordered(rows[i], Len(journal))
    BY <1>3, <1>12 DEF AddsPosted, Stands
  <2> HIDE DEF Ordered
  <2>3. Ordered(journal'[d], Len(journal))
    BY <1>1, <1>2, <2>1, <2>2
  <2> QED
    BY <1>4, <2>1, <2>3
<1> QED
  BY <1>5, <1>7, <1>8, <1>9, <1>11, <1>12 DEF BooksChange

(* So no entry is corrected twice: a correction asks for an entry that is  *)
(* POSTED, and such an entry has none.                                     *)
LEMMA CorrectedOnceKept ==
    ASSUME RowsSound, RowsSound', RowsInOrder, CorrectedOnce, BooksChange
    PROVE  CorrectedOnce'
<1> DEFINE Links(m) == {journal[m].previousId, journal[m].reverses}
<1>1. \A e \in Entries, m \in Entries : e \in Links(m) =>
         /\ journal[e].postingStatus = "VOIDED"
         /\ \A k \in Entries : e \in Links(k) => k = m
  BY DEF CorrectedOnce
<1>2. SUFFICES ASSUME NEW d \in Entries', NEW m \in Entries', d \in Links(m)'
               PROVE  /\ journal'[d].postingStatus = "VOIDED"
                      /\ \A k \in Entries' : d \in Links(k)' => k = m
  <2>1. ASSUME NEW d \in Entries',
               {m \in Entries' : d \in Links(m)'} # {}
        PROVE  /\ journal'[d].postingStatus = "VOIDED"
               /\ \E m \in {m \in Entries' : d \in Links(m)'} :
                     {k \in Entries' : d \in Links(k)'} = {m}
    <3>1. PICK m \in Entries' : d \in Links(m)'
      BY <2>1
    <3>2. /\ journal'[d].postingStatus = "VOIDED"
          /\ \A k \in Entries' : d \in Links(k)' => k = m
      BY <1>2, <3>1
    <3> QED
      BY <3>1, <3>2
  <2> QED
    BY <2>1 DEF CorrectedOnce
<1> DEFINE Goal == /\ journal'[d].postingStatus = "VOIDED"
                   /\ \A k \in Entries' : d \in Links(k)' => k = m
<1>3. /\ Len(journal) \in Nat /\ Entries = 1 .. Len(journal)
      /\ Len(journal) + 1 \notin Entries
      /\ \A k \in Entries : Links(k) \subseteq 0 .. Len(journal)
  <2>1. Len(journal) \in Nat /\ Entries = 1 .. Len(journal)
    BY DEF RowsSound, Entries
  <2> QED
    BY <2>1 DEF RowsInOrder
<1>4. CASE UNCHANGED <<balance, journal>>
  BY <1>1, <1>2, <1>4 DEF Entries
<1>5. ASSUME Entries \subseteq Entries',
             \A k \in Entries : Links(k)' = Links(k),
             \A k \in Entries : journal[k].postingStatus = "VOIDED"
                                   => journal'[k].postingStatus = "VOIDED",
             \A k \in Entries' \ Entries : Links(k)' = {0}
      PROVE  Goal
  <2>1. d # 0
    <3>1. Entries' \subseteq Nat \ {0}
      BY DEF Entries, RowsSound
    <3> QED
      BY <3>1
  <2>2. \A k \in Entries' : d \in Links(k)' => k \in Entries
    BY <1>5, <2>1
  <2>3. m \in Entries /\ d \in Links(m)
    BY <1>2, <1>5, <2>2
  <2>4. d \in Entries
    BY <1>3, <2>1, <2>3
  <2> QED
    BY <1>1, <1>5, <2>2, <2>3, <2>4
<1>6. ASSUME NEW e \in Entries, NEW x \in SoundEntry, PostsDraft(e, x) \/ RewritesDraft(e, x)
      PROVE  Goal
  <2>1. /\ KeepsLinks(e, x) /\ journal[e].postingStatus = "DRAFT"
        /\ journal' = [journal EXCEPT ![e] = x]
    BY <1>6 DEF PostsDraft, RewritesDraft, Keeps
  <2>2. /\ Entries' = Entries
        /\ \A k \in Entries : journal'[k] = IF k = e THEN x ELSE journal[k]
    BY <2>1, RewriteAt
  <2>3. \A k \in Entries : Links(k)' = Links(k)
    BY <2>1, <2>2 DEF KeepsLinks
  <2>4. \A k \in Entries : journal[k].postingStatus = "VOIDED"
                              => journal'[k].postingStatus = "VOIDED"
    BY <2>1, <2>2
  <2> QED
    BY <1>5, <2>2, <2>3, <2>4
<1>7. ASSUME NEW x \in SoundEntry, AddsDraft(x) PROVE Goal
  <2>1. /\ Entries' = Entries \cup {Len(journal) + 1}
        /\ \A k \in Entries : journal'[k] = journal[k]
        /\ journal'[Len(journal) + 1] = x
        /\ x.previousId = 0 /\ x.reverses = 0
    BY <1>7, InsertAt DEF AddsDraft
  <2>2. /\ \A k \in Entries : Links(k)' = Links(k)
        /\ \A k \in Entries' \ Entries : Links(k)' = {0}
    BY <2>1
  <2> QED
    BY <1>5, <2>1, <2>2
<1>8. ASSUME NEW rows \in Seq(SoundEntry), AddsPosted(rows) PROVE Goal
  <2>1. /\ Entries \subseteq Entries'
        /\ \A k \in Entries : journal'[k] = journal[k]
        /\ \A k \in Entries' \ Entries :
              /\ k - Len(journal) \in 1 .. Len(rows)
              /\ journal'[k] = rows[k - Len(journal)]
    BY <1>8, ConcatAt DEF AddsPosted
  <2>2. \A i \in 1 .. Len(rows) : rows[i].previousId = 0 /\ rows[i].reverses = 0
    BY <1>8 DEF AddsPosted
  <2>3. /\ \A k \in Entries : Links(k)' = Links(k)
        /\ \A k \in Entries' \ Entries : Links(k)' = {0}
    BY <2>1, <2>2
  <2> QED
    BY <1>5, <2>1, <2>3
<1>9. ASSUME NEW e \in Entries, NEW x \in SoundEntry, NEW y \in SoundEntry,
             ReversesPosted(e, x, y) \/ ReplacesPosted(e, x, y)
      PROVE  Goal
  <2>last. PICK last : last = Len(journal) + 1
    OBVIOUS
  <2>0. journal' = Append([journal EXCEPT ![e] = x], y)
    BY <1>9 DEF ReversesPosted, ReplacesPosted
  <2>1. /\ KeepsLinks(e, x) /\ journal[e].postingStatus = "POSTED"
        /\ x.postingStatus = "VOIDED" /\ {y.previousId, y.reverses} = {0, e}
    BY <1>9 DEF ReversesPosted, ReplacesPosted, Keeps
  <2>2. /\ Entries' = Entries \cup {last}
        /\ \A k \in Entries : journal'[k] = IF k = e THEN x ELSE journal[k]
        /\ journal'[last] = y
    BY <2>last, <2>0, CorrectAt
  <2>3. \A k \in Entries : Links(k)' = Links(k)
    BY <2>1, <2>2 DEF KeepsLinks
  <2>4. Links(last)' = {0, e}
    BY <2>1, <2>2
  <2>5. d # 0
    BY <1>3, <2>last, <2>2
  <2>6. \A k \in Entries : e \notin Links(k)
    BY <1>1, <2>1
  <2> HIDE DEF Links
  <2>7. CASE d = e
    <3>1. journal'[d].postingStatus = "VOIDED"
      <4>1. journal'[e] = x
        BY <2>2
      <4> QED
        BY <2>1, <2>7, <4>1
    <3>2. \A k \in Entries' : d \in Links(k)' => k = last
      BY <2>2, <2>3, <2>6, <2>7
    <3> QED
      BY <1>2, <3>1, <3>2
  <2>8. CASE d # e
    <3>1. \A k \in Entries' : d \in Links(k)' => k \in Entries /\ d \in Links(k)
      BY <2>2, <2>3, <2>4, <2>5, <2>8
    <3>2. m \in Entries /\ d \in Links(m)
      BY <1>2, <3>1
    <3>3. d \in Entries
      BY <1>3, <2>5, <3>2
    <3>4. /\ journal[d].postingStatus = "VOIDED"
          /\ \A k \in Entries : d \in Links(k) => k = m
      BY <1>1, <3>2, <3>3
    <3> QED
      BY <2>2, <2>8, <3>1, <3>3, <3>4
  <2> QED
    BY <2>7, <2>8
<1> QED
  BY <1>4, <1>6, <1>7, <1>8, <1>9 DEF BooksChange
(* When the numbers in use are 1 to n, the last of them is n.              *)
LEMMA LastOfDense ==
    ASSUME NEW J, NEW n \in Nat, J \ {0} = 1 .. n
    PROVE  (CHOOSE k \in J \cup {0} : \A m \in J : m <= k) = n
<1> DEFINE last == CHOOSE k \in J \cup {0} : \A m \in J : m <= k
<1>1. n \in J \cup {0} /\ \A k \in J \cup {0} : k \in 0 .. n
  <2>1. n # 0 => n \in 1 .. n
    OBVIOUS
  <2>2. \A k \in J : k # 0 => k \in 1 .. n
    OBVIOUS
  <2> QED
    BY <2>1, <2>2
<1>2. \A m \in J : m <= n
  BY <1>1
<1>3. last \in J \cup {0} /\ \A m \in J : m <= last
  BY <1>1, <1>2
<1> HIDE DEF last
<1>4. last \in 0 .. n /\ n <= last
  <2>1. last \in 0 .. n
    BY <1>1, <1>3
  <2>2. n # 0 => n \in J
    BY <1>1
  <2> QED
    BY <1>3, <2>1, <2>2
<1>5. last = n
  BY <1>4
<1> QED
  BY <1>5 DEF last

(* The numbers in use stay dense: posting a draft takes the next one, an   *)
(* edit passes one on, and nothing else gives or takes one.                *)
LEMMA NumbersKept ==
    ASSUME RowsSound, RowsSound', RowsInOrder, NumbersDense, BooksChange
    PROVE  /\ NumbersDense'
           /\ (\E rows \in Seq(SoundEntry) : AddsPosted(rows))
                 => LastJENumber' = LastJENumber
<1> DEFINE Has(x, k) == x.entryNumber.voids = 0 /\ x.entryNumber.je = k
<1>1. PICK n \in Nat : JENumbers \ {0} = 1 .. n
  BY DEF NumbersDense
<1>2. LastJENumber = n
  BY <1>1, LastOfDense DEF LastJENumber
<1>3. /\ \A k : k \in JENumbers <=> \E e \in Entries : Has(journal[e], k)
      /\ \A k : k \in JENumbers' <=> \E e \in Entries' : Has(journal'[e], k)
  BY DEF JENumbers
<1>4. /\ Len(journal) \in Nat /\ Entries = 1 .. Len(journal)
      /\ Len(journal) + 1 \notin Entries
  BY DEF RowsSound, Entries
<1>5. \A k : k # 0 => ~(NoNumber.voids = 0 /\ NoNumber.je = k)
  BY DEF NoNumber
<1> HIDE DEF Has
<1>6. ASSUME JENumbers' \ {0} = JENumbers \ {0}
      PROVE  NumbersDense' /\ LastJENumber' = LastJENumber
  <2>1. JENumbers' \ {0} = 1 .. n
    BY <1>1, <1>6
  <2>2. LastJENumber' = n
    BY <2>1, LastOfDense DEF LastJENumber
  <2> QED
    BY <1>2, <2>1, <2>2 DEF NumbersDense
<1>7. CASE UNCHANGED <<balance, journal>>
  <2>1. JENumbers' = JENumbers
    BY <1>7 DEF JENumbers, Entries
  <2> QED
    BY <1>6, <2>1
<1>8. ASSUME NEW e \in Entries, NEW x \in SoundEntry, PostsDraft(e, x)
      PROVE  NumbersDense'
  <2>0. journal' = [journal EXCEPT ![e] = x]
    BY <1>8 DEF PostsDraft
  <2>1. /\ x.entryNumber = JE(n + 1)
        /\ journal[e].entryNumber = NoNumber
    BY <1>2, <1>8 DEF PostsDraft, RowsInOrder
  <2>2. /\ Entries' = Entries
        /\ \A k \in Entries : journal'[k] = IF k = e THEN x ELSE journal[k]
    BY <2>0, RewriteAt
  <2>3. \A k : k # 0 => ~Has(journal[e], k)
    BY <1>5, <2>1 DEF Has
  <2>4. \A k : Has(x, k) <=> k = n + 1
    BY <2>1 DEF Has, JE
  <2>5. \A k : k # 0 => (k \in JENumbers' <=> k \in JENumbers \/ k = n + 1)
    <3>1. ASSUME NEW k, k # 0, k \in JENumbers' PROVE k \in JENumbers \/ k = n + 1
      <4>1. PICK d \in Entries : Has(journal'[d], k)
        BY <1>3, <2>2, <3>1
      <4> QED
        BY <1>3, <2>2, <2>4, <4>1
    <3>2. ASSUME NEW k, k # 0, k \in JENumbers PROVE k \in JENumbers'
      <4>1. PICK d \in Entries : Has(journal[d], k)
        BY <1>3, <3>2
      <4>2. d # e /\ Has(journal'[d], k)
        BY <2>2, <2>3, <3>2, <4>1
      <4> QED
        BY <1>3, <2>2, <4>2
    <3>3. n + 1 \in JENumbers'
      BY <1>3, <2>2, <2>4
    <3> QED
      BY <3>1, <3>2, <3>3
  <2>6. \A k : k \in JENumbers /\ k # 0 <=> k \in 1 .. n
    BY <1>1
  <2>7. n + 1 # 0 /\ \A k : k \in 1 .. n + 1 <=> k \in 1 .. n \/ k = n + 1
    OBVIOUS
  <2>8. \A k : k \in JENumbers' \ {0} <=> k \in 1 .. n + 1
    BY <2>5, <2>6, <2>7
  <2>9. JENumbers' \ {0} = 1 .. n + 1
    BY <2>8
  <2> QED
    BY <2>9 DEF NumbersDense
<1>9. ASSUME NEW e \in Entries, NEW x \in SoundEntry, RewritesDraft(e, x)
      PROVE  JENumbers' \ {0} = JENumbers \ {0}
  <2>1. journal' = [journal EXCEPT ![e] = x] /\ x.entryNumber = journal[e].entryNumber
    BY <1>9 DEF RewritesDraft
  <2>2. /\ Entries' = Entries
        /\ \A k \in Entries : journal'[k] = IF k = e THEN x ELSE journal[k]
    BY <2>1, RewriteAt
  <2>3. \A k \in Entries : journal'[k].entryNumber = journal[k].entryNumber
    BY <2>1, <2>2
  <2> QED
    BY <1>3, <2>2, <2>3 DEF Has
<1>10. ASSUME Entries \subseteq Entries',
              \A d \in Entries : journal'[d].entryNumber = journal[d].entryNumber,
              \A d \in Entries' \ Entries : \/ journal'[d].entryNumber = NoNumber
                                            \/ journal'[d].entryNumber.voids # 0
       PROVE  JENumbers' \ {0} = JENumbers \ {0}
  <2>1. \A d \in Entries' \ Entries : \A k : k # 0 => ~Has(journal'[d], k)
    BY <1>5, <1>10 DEF Has
  <2>2. \A d \in Entries : \A k : Has(journal'[d], k) <=> Has(journal[d], k)
    BY <1>10 DEF Has
  <2>3. \A k : k # 0 => (k \in JENumbers' <=> k \in JENumbers)
    BY <1>3, <1>10, <2>1, <2>2
  <2> QED
    BY <2>3
<1>11. ASSUME NEW x \in SoundEntry, AddsDraft(x)
       PROVE  JENumbers' \ {0} = JENumbers \ {0}
  <2>0. journal' = Append(journal, x) /\ x.entryNumber = NoNumber
    BY <1>11 DEF AddsDraft
  <2>1. /\ Entries' = Entries \cup {Len(journal) + 1}
        /\ \A k \in Entries : journal'[k] = journal[k]
        /\ journal'[Len(journal) + 1] = x
    BY <2>0, InsertAt
  <2> QED
    BY <1>10, <2>0, <2>1
<1>12. ASSUME NEW rows \in Seq(SoundEntry), AddsPosted(rows)
       PROVE  JENumbers' \ {0} = JENumbers \ {0}
  <2>1. /\ Entries \subseteq Entries'
        /\ \A k \in Entries : journal'[k] = journal[k]
        /\ \A k \in Entries' \ Entries :
              /\ k - Len(journal) \in 1 .. Len(rows)
              /\ journal'[k] = rows[k - Len(journal)]
    BY <1>12, ConcatAt DEF AddsPosted
  <2>2. \A i \in 1 .. Len(rows) : rows[i].entryNumber = NoNumber
    BY <1>12 DEF AddsPosted
  <2>3. \A d \in Entries' \ Entries : journal'[d].entryNumber = NoNumber
    BY <2>1, <2>2
  <2> QED
    BY <1>10, <2>1, <2>3
<1>13. ASSUME NEW e \in Entries, NEW x \in SoundEntry, NEW y \in SoundEntry,
              ReversesPosted(e, x, y)
       PROVE  JENumbers' \ {0} = JENumbers \ {0}
  <2>0. journal' = Append([journal EXCEPT ![e] = x], y)
    BY <1>13 DEF ReversesPosted
  <2>1. /\ x.entryNumber = journal[e].entryNumber
        /\ y.entryNumber = NoNumber \/ y.entryNumber.voids # 0
    BY <1>13 DEF ReversesPosted
  <2>2. /\ Entries' = Entries \cup {Len(journal) + 1}
        /\ \A k \in Entries : journal'[k] = IF k = e THEN x ELSE journal[k]
        /\ journal'[Len(journal) + 1] = y
    BY <2>0, CorrectAt
  <2> QED
    BY <1>10, <2>1, <2>2
<1>14. ASSUME NEW e \in Entries, NEW x \in SoundEntry, NEW y \in SoundEntry,
              ReplacesPosted(e, x, y)
       PROVE  JENumbers' \ {0} = JENumbers \ {0}
  <2>last. PICK last : last = Len(journal) + 1
    OBVIOUS
  <2>0. journal' = Append([journal EXCEPT ![e] = x], y)
    BY <1>14 DEF ReplacesPosted
  <2>1. x.entryNumber = NoNumber /\ y.entryNumber = journal[e].entryNumber
    BY <1>14 DEF ReplacesPosted
  <2>2. /\ Entries' = Entries \cup {last} /\ last \notin Entries
        /\ \A k \in Entries : journal'[k] = IF k = e THEN x ELSE journal[k]
        /\ journal'[last] = y
    BY <2>last, <2>0, CorrectAt
  <2>3. \A k : k # 0 => ~Has(x, k)
    BY <1>5, <2>1 DEF Has
  <2>4. \A k : Has(y, k) <=> Has(journal[e], k)
    BY <2>1 DEF Has
  <2>5. \A k : k # 0 => (k \in JENumbers' <=> k \in JENumbers)
    <3>1. ASSUME NEW k, k # 0, k \in JENumbers' PROVE k \in JENumbers
      <4>1. PICK d \in Entries' : Has(journal'[d], k)
        BY <1>3, <3>1
      <4>2. d = last => Has(journal[e], k)
        BY <2>2, <2>4, <4>1
      <4>3. d # last => d \in Entries /\ Has(journal[d], k)
        BY <2>2, <2>3, <3>1, <4>1
      <4> QED
        BY <1>3, <4>2, <4>3
    <3>2. ASSUME NEW k, k # 0, k \in JENumbers PROVE k \in JENumbers'
      <4>1. PICK d \in Entries : Has(journal[d], k)
        BY <1>3, <3>2
      <4>2. d = e => Has(journal'[last], k)
        BY <2>2, <2>4, <4>1
      <4>3. d # e => Has(journal'[d], k)
        BY <2>2, <4>1
      <4> QED
        BY <1>3, <2>2, <4>2, <4>3
    <3> QED
      BY <3>1, <3>2
  <2> QED
    BY <2>5
<1>15. NumbersDense'
  BY <1>6, <1>7, <1>8, <1>9, <1>11, <1>12, <1>13, <1>14 DEF BooksChange
<1> QED
  BY <1>6, <1>12, <1>15
-----------------------------------------------------------------------------
(* What a request has read still stands after a step that changes neither  *)
(* the request nor the entries there were, nor takes a number.             *)
LEMMA ReadUndisturbed ==
    ASSUME RowsSound, NEW q \in Request, ReadIsCurrent(q),
           pc'[q] = pc[q], work'[q] = work[q],
           \A d \in Entries : journal'[d] = journal[d],
           LastJENumber' = LastJENumber
    PROVE  ReadIsCurrent(q)'
<1>1. pc[q] \notin {"idle", "create"} => work[q].id \in Entries
  BY DEF RowsSound, RequestsSound
<1> QED
  BY <1>1 DEF ReadIsCurrent

(* A list of posted entries disturbs no request.                           *)
LEMMA ReadsBesideAdded ==
    ASSUME RowsSound, RowsSound', SerialInv, UNCHANGED <<pc, work>>,
           \E rows \in Seq(SoundEntry) : AddsPosted(rows)
    PROVE  ReadsAreCurrent'
<1>1. LastJENumber' = LastJENumber
  BY NumbersKept DEF SerialInv, BooksChange
<1>2. PICK rows \in Seq(SoundEntry) : AddsPosted(rows)
  OBVIOUS
<1>3. \A d \in Entries : journal'[d] = journal[d]
  BY <1>2, ConcatAt DEF AddsPosted
<1>4. ASSUME NEW q \in Request PROVE ReadIsCurrent(q)'
  <2>1. ReadIsCurrent(q)
    BY DEF SerialInv, ReadsAreCurrent
  <2>2. pc'[q] = pc[q] /\ work'[q] = work[q]
    OBVIOUS
  <2> QED
    BY <1>1, <1>3, <2>1, <2>2, ReadUndisturbed
<1> QED
  BY <1>4 DEF ReadsAreCurrent

(* Neither does any step, while no other request is under way.             *)
LEMMA ReadsKept ==
    ASSUME RowsSound, RowsSound', SerialInv, NoOverlap, NEW r \in Request, Step(r)
    PROVE  ReadsAreCurrent'
<1>1. /\ pc \in [Request -> Steps]
      /\ work \in [Request -> [id : Nat, je : SoundEntry, number : EntryNumber]]
  BY DEF RowsSound, RequestsSound
<1>2. ASSUME NEW q \in Request, pc'[q] = "idle" PROVE ReadIsCurrent(q)'
  BY <1>2 DEF ReadIsCurrent
<1>3. CASE pc[r] # "idle" /\ Finish(r)
  <2>1. \A q \in Request : pc'[q] = "idle"
    BY <1>1, <1>3 DEF NoOverlap, Finish
  <2> QED
    BY <1>2, <2>1 DEF ReadsAreCurrent
<1>4. ASSUME journal' = journal, ReadIsCurrent(r)' PROVE ReadsAreCurrent'
  <2>1. LastJENumber' = LastJENumber
    BY <1>4 DEF LastJENumber, JENumbers, Entries
  <2>2. ASSUME NEW q \in Request, q # r PROVE ReadIsCurrent(q)'
    <3>1. pc'[q] = pc[q] /\ work'[q] = work[q]
      BY <2>2, OthersUnchanged
    <3>2. ReadIsCurrent(q)
      BY DEF SerialInv, ReadsAreCurrent
    <3> QED
      BY <1>4, <2>1, <3>1, <3>2, ReadUndisturbed
  <2> QED
    BY <1>4, <2>2 DEF ReadsAreCurrent
<1>5. ASSUME NEW e \in Entries, NEW next \in Steps, ReadEntry(r, e, next),
             ~journal[e].deletedAt, next \notin {"idle", "create", "postCommit"},
             next \in {"postGuard", "delete", "editDraft"}
                => journal[e].postingStatus = "DRAFT",
             next \in {"void", "editPosted", "reverse"}
                => journal[e].postingStatus = "POSTED"
      PROVE  ReadsAreCurrent'
  <2>1. journal' = journal /\ pc'[r] = next
    BY <1>1, <1>5 DEF ReadEntry
  <2>2. work'[r] = [NoWork EXCEPT !.id = e, !.je = journal[e]]
    BY <1>1, <1>5 DEF ReadEntry
  <2>3. work'[r].id = e /\ work'[r].je = journal[e]
    BY <2>2, NoWorkSound
  <2>4. ReadIsCurrent(r)'
    BY <1>5, <2>1, <2>3 DEF ReadIsCurrent
  <2> QED
    BY <1>4, <2>1, <2>4
<1>6. CASE CreateGuard(r)
  <2>1. PICK lines \in Lines, p \in Period :
           work' = [work EXCEPT ![r] =
                      [NoWork EXCEPT !.je = NewEntry("DRAFT", NoNumber, lines, p)]]
    BY <1>6 DEF CreateGuard
  <2>2. work'[r].je = NewEntry("DRAFT", NoNumber, lines, p)
    BY <1>1, <2>1, NoWorkSound
  <2>3. journal' = journal /\ pc'[r] = "create"
    BY <1>1, <1>6 DEF CreateGuard
  <2>4. ReadIsCurrent(r)'
    BY <2>2, <2>3, LinesAssumption DEF ReadIsCurrent
  <2> QED
    BY <1>4, <2>3, <2>4
<1>7. CASE PostGuard(r)
  <2>1. pc[r] = "postGuard" /\ journal' = journal
    BY <1>7 DEF PostGuard
  <2>2. CASE ~Finish(r)
    <3>1. /\ pc' = [pc EXCEPT ![r] = "postCommit"]
          /\ work' = [work EXCEPT ![r].number =
                         IF work[r].je.entryNumber = NoNumber
                         THEN JE(LastJENumber + 1) ELSE work[r].je.entryNumber]
      BY <1>7, <2>2 DEF PostGuard
    <3>2. /\ work[r].id \in Entries /\ work[r].je = journal[work[r].id]
          /\ work[r].je.postingStatus = "DRAFT" /\ ~work[r].je.deletedAt
      BY <1>1, <2>1 DEF SerialInv, ReadsAreCurrent, ReadIsCurrent, RowsSound, RequestsSound
    <3>3. work[r].je.entryNumber = NoNumber
      BY <3>2 DEF SerialInv, RowsInOrder
    <3>4. pc'[r] = "postCommit"
      BY <1>1, <3>1
    <3>5. /\ work'[r].id = work[r].id /\ work'[r].je = work[r].je
          /\ work'[r].number = JE(LastJENumber + 1)
      BY <1>1, <3>1, <3>3
    <3>6. LastJENumber' = LastJENumber
      BY <2>1 DEF LastJENumber, JENumbers, Entries
    <3>7. ReadIsCurrent(r)'
      BY <2>1, <3>2, <3>4, <3>5, <3>6 DEF ReadIsCurrent
    <3> QED
      BY <1>4, <2>1, <3>7
  <2> QED
    BY <1>3, <2>1, <2>2
<1>8. CASE CreateAndPostJE(r)
  <2>1. PICK lines \in Lines, p \in Period :
           /\ IsBalanced(lines)
           /\ balance' = ApplyEffective(balance, lines)
           /\ journal' = Append(journal,
                 [NewEntry("POSTED", NoNumber, lines, p) EXCEPT !.linked = TRUE])
    BY <1>8 DEF CreateAndPostJE
  <2> DEFINE x == [NewEntry("POSTED", NoNumber, lines, p) EXCEPT !.linked = TRUE]
  <2>2. x \in SoundEntry
    BY <2>1, LinesAssumption, NewEntrySound, NumbersSound DEF Status
  <2>3. /\ Stands(x) /\ x.entryNumber = NoNumber /\ x.previousId = 0
        /\ x.reverses = 0 /\ x.lines = lines
    BY DEF NewEntry, Stands
  <2>4. journal' = Append(journal, x)
    BY <2>1
  <2> HIDE DEF x
  <2>5. \E rows \in Seq(SoundEntry) : AddsPosted(rows)
    BY <2>1, <2>2, <2>3, <2>4, OneRowAdded
  <2>6. UNCHANGED <<pc, work>>
    BY <1>8 DEF CreateAndPostJE
  <2> QED
    BY <2>5, <2>6, ReadsBesideAdded
<1>9. \A e \in Entries :
         /\ journal[e].postingStatus \in {"DRAFT", "POSTED", "VOIDED"}
         /\ journal[e].postingStatus = "DRAFT" => ~journal[e].linked
         /\ journal[e].postingStatus # "DRAFT" => ~journal[e].deletedAt
  BY RowSound DEF SerialInv, RowsInOrder, SoundEntry, Entry, Status
<1>10. CASE PostRead(r)
  BY <1>5, <1>10 DEF PostRead, Postable, Steps
<1>11. CASE DeleteRead(r)
  BY <1>5, <1>11 DEF DeleteRead, Steps
<1>12. CASE VoidRead(r)
  BY <1>5, <1>12 DEF VoidRead, Steps
<1>13. CASE EditRead(r)
  BY <1>5, <1>9, <1>13 DEF EditRead, EditBranch, Steps
<1>14. CASE ReverseRead(r)
  BY <1>5, <1>9, <1>14 DEF ReverseRead, Reversible, Steps
<1> QED
  BY <1>3, <1>6, <1>7, <1>8, <1>10, <1>11, <1>12, <1>13, <1>14
     DEF Step, CreateCommit, PostCommit, DeleteCommit, VoidCommit, EditDraftCommit,
         EditPostedCommit, ReverseCommit, Abandon
-----------------------------------------------------------------------------
(* The first n + k values of h are the first n of f and the first k of g.  *)
Follows(f, n, g, k, h) ==
    /\ n \in Nat /\ k \in Nat
    /\ \A i \in 1 .. n : f[i] \in Int /\ h[i] = f[i]
    /\ \A i \in 1 .. k : g[i] \in Int /\ h[n + i] = g[i]

(* The sum of a list and what follows it.                                  *)
LEMMA SumToConcat ==
    ASSUME NEW f, NEW n, NEW g, NEW k, NEW h, Follows(f, n, g, k, h)
    PROVE  SumTo(h, n + k) = SumTo(f, n) + SumTo(g, k)
<1> USE DEF Follows
<1> DEFINE S == {j \in Nat : j <= k => SumTo(h, n + j) = SumTo(f, n) + SumTo(g, j)}
<1>1. 0 \in S
  <2>1. SumTo(h, n) = SumTo(f, n) /\ SumTo(f, n) \in Int
    BY SumToSame, SumToType
  <2>2. SumTo(g, 0) = 0 /\ n + 0 = n
    BY SumToStep
  <2> QED
    BY <2>1, <2>2
<1>2. ASSUME NEW j \in Nat, j \in S PROVE j + 1 \in S
  <2>1. SUFFICES ASSUME j + 1 <= k
                 PROVE  SumTo(h, n + (j + 1)) = SumTo(f, n) + SumTo(g, j + 1)
    OBVIOUS
  <2>2. SumTo(h, n + j) = SumTo(f, n) + SumTo(g, j)
    BY <1>2, <2>1
  <2>3. SumTo(f, n) \in Int /\ SumTo(g, j) \in Int
    <3>1. \A i \in 1 .. j : g[i] \in Int
      BY <2>1
    <3> QED
      BY <3>1, SumToType
  <2>4. g[j + 1] \in Int /\ h[n + (j + 1)] = g[j + 1]
    BY <2>1
  <2>5. /\ n + (j + 1) = (n + j) + 1
        /\ SumTo(h, (n + j) + 1) = SumTo(h, n + j) + h[(n + j) + 1]
        /\ SumTo(g, j + 1) = SumTo(g, j) + g[j + 1]
    BY SumToStep
  <2> QED
    BY <2>2, <2>3, <2>4, <2>5
<1> HIDE DEF S
<1>3. Nat \subseteq S
  BY <1>1, <1>2, SetInduction
<1> QED
  BY <1>3 DEF S

(* The sum of a list and one more value.                                   *)
LEMMA SumToOneMore ==
    ASSUME NEW f, NEW h, NEW n \in Nat,
           \A i \in 1 .. n : f[i] \in Int /\ h[i] = f[i]
    PROVE  SumTo(h, n + 1) = SumTo(f, n) + h[n + 1]
<1>1. SumTo(h, n) = SumTo(f, n)
  BY SumToSame
<1> QED
  BY <1>1, SumToStep

(* A change of balance is linear in what is posted.                        *)
LEMMA DeltaLinear ==
    /\ \A side, c : c \in Int => BalanceDelta(side, c) \in Int
    /\ \A side, c, d : c \in Int /\ d \in Int =>
          BalanceDelta(side, c + d) = BalanceDelta(side, c) + BalanceDelta(side, d)
    /\ \A side, c : c \in Int => BalanceDelta(side, -c) = 0 - BalanceDelta(side, c)
    /\ \A side : BalanceDelta(side, 0) = 0
BY DEF BalanceDelta

-----------------------------------------------------------------------------
(* The balances follow the books through every such change.  Only where    *)
(* createAndPostJE posts may the two conventions about sides differ.       *)
LEMMA BooksKept ==
    ASSUME SidesAgree \/ \E rows \in Seq(SoundEntry) : AddsPosted(rows),
           RowsSound, RowsSound', RowsInOrder, CorrectedOnce, BooksMatchJournal,
           BooksChange
    PROVE  BooksMatchJournal'
<1> SUFFICES ASSUME NEW a \in Account
             PROVE  balance'[a] = BalanceDelta(effectiveNormalSide(a), BookTotal(a)')
  BY DEF BooksMatchJournal
<1> DEFINE side == effectiveNormalSide(a)
           n    == Len(journal)
           f    == [e \in Entries |-> IF InBooks(e) THEN journal[e].lines[a] ELSE 0]
           g    == [e \in Entries' |-> IF InBooks(e)' THEN journal'[e].lines[a] ELSE 0]
<1>1. n \in Nat /\ Entries = 1 .. n /\ n + 1 \notin Entries
  BY DEF RowsSound, Entries
<1>2. /\ balance[a] = BalanceDelta(side, SumTo(f, n))
      /\ BookTotal(a)' = SumTo(g, Len(journal'))
  BY DEF BooksMatchJournal, BookTotal
<1>3. \A e \in Entries : journal[e].lines[a] \in Int
  BY RowSound DEF Net
<1>4. \A i \in 1 .. n : f[i] \in Int
  BY <1>1, <1>3
<1>5. SumTo(f, n) \in Int
  BY <1>1, <1>4, SumToType
<1>6. \A e \in Entries :
         /\ f[e] = IF InBooks(e) THEN journal[e].lines[a] ELSE 0
         /\ e \in Entries' => g[e] = IF InBooks(e)' THEN journal'[e].lines[a] ELSE 0
  OBVIOUS
<1>7. \A e \in Entries' : g[e] = IF InBooks(e)' THEN journal'[e].lines[a] ELSE 0
  OBVIOUS
<1> HIDE DEF f, g, side
<1>8. ASSUME NEW v \in Int, SumTo(g, Len(journal')) = SumTo(f, n) + v,
             balance'[a] = balance[a] + BalanceDelta(side, v)
      PROVE  balance'[a] = BalanceDelta(side, BookTotal(a)')
  BY <1>2, <1>5, <1>8, DeltaLinear
<1>9. \A d, m \in Entries :
         d \in {journal[m].previousId, journal[m].reverses}
            => journal[d].postingStatus = "VOIDED"
  BY DEF CorrectedOnce
<1>10. CASE UNCHANGED <<balance, journal>>
  <2>1. journal' = journal /\ Entries' = Entries
    BY <1>10 DEF Entries
  <2>2. \A d \in Entries : g[d] = f[d]
    <3>1. \A d \in Entries : InBooks(d)' <=> InBooks(d)
      BY <2>1 DEF InBooks
    <3> QED
      BY <1>6, <2>1, <3>1
  <2>3. SumTo(g, Len(journal')) = SumTo(f, n) + 0
    <3>1. SumTo(g, n) = SumTo(f, n)
      BY <1>1, <1>4, <2>2, SumToSame
    <3> QED
      BY <1>5, <2>1, <3>1
  <2>4. balance'[a] = balance[a] + BalanceDelta(side, 0)
    <3>1. balance[a] \in Int
      BY DEF RowsSound
    <3> QED
      BY <1>10, <3>1, DeltaLinear
  <2> QED
    BY <1>8, <2>3, <2>4 DEF side
<1>11. ASSUME NEW e \in Entries, NEW x \in SoundEntry, PostsDraft(e, x)
       PROVE  balance'[a] = BalanceDelta(side, BookTotal(a)')
  <2>0. journal' = [journal EXCEPT ![e] = x]
    BY <1>11 DEF PostsDraft
  <2>1. /\ journal[e].postingStatus = "DRAFT" /\ ~journal[e].deletedAt
        /\ x.postingStatus = "POSTED" /\ ~x.deletedAt
        /\ x.lines = journal[e].lines /\ KeepsLinks(e, x)
        /\ balance' = Apply(balance, journal[e].lines)
    BY <1>11 DEF PostsDraft, Keeps
  <2>2. /\ Entries' = Entries /\ Len(journal') = n
        /\ \A d \in Entries : journal'[d] = IF d = e THEN x ELSE journal[d]
    BY <2>0, RewriteAt
  <2>3. \A d \in Entries : journal'[d].reverses = journal[d].reverses
    BY <2>1, <2>2 DEF KeepsLinks
  <2>4. \A d \in Entries : d # e => (InBooks(d)' <=> InBooks(d))
    BY <2>2, <2>3 DEF InBooks
  <2>5. ~InBooks(e) /\ InBooks(e)'
    BY <2>1, <2>2 DEF InBooks
  <2>6. /\ f[e] = 0 /\ g[e] = journal[e].lines[a]
        /\ \A d \in Entries : d # e => g[d] = f[d]
    BY <1>6, <2>1, <2>2, <2>4, <2>5
  <2>7. SumTo(g, n) = SumTo(f, n) - f[e] + g[e]
    BY <1>1, <1>3, <1>4, <2>6, SumToChange
  <2>8. SumTo(g, Len(journal')) = SumTo(f, n) + journal[e].lines[a]
    BY <1>3, <1>5, <2>2, <2>6, <2>7
  <2>9. balance'[a] = balance[a] + BalanceDelta(side, journal[e].lines[a])
    <3>1. SidesAgree
      <4>1. ASSUME NEW rows \in Seq(SoundEntry), AddsPosted(rows) PROVE FALSE
        BY <2>2, <4>1, ConcatAt, <2>1 DEF AddsPosted
      <4> QED
        BY <4>1
    <3> QED
      BY <2>1, <3>1 DEF Apply, SidesAgree, side
  <2> QED
    BY <1>3, <1>8, <2>8, <2>9
<1>12. ASSUME NEW e \in Entries, NEW x \in SoundEntry, RewritesDraft(e, x)
       PROVE  balance'[a] = BalanceDelta(side, BookTotal(a)')
  <2>0. journal' = [journal EXCEPT ![e] = x]
    BY <1>12 DEF RewritesDraft
  <2>1. /\ journal[e].postingStatus = "DRAFT" /\ x.postingStatus = "DRAFT"
        /\ KeepsLinks(e, x) /\ balance' = balance
    BY <1>12 DEF RewritesDraft
  <2>2. /\ Entries' = Entries /\ Len(journal') = n
        /\ \A d \in Entries : journal'[d] = IF d = e THEN x ELSE journal[d]
    BY <2>0, RewriteAt
  <2>3. \A d \in Entries : journal'[d].reverses = journal[d].reverses
    BY <2>1, <2>2 DEF KeepsLinks
  <2>4. \A d \in Entries : d # e => (InBooks(d)' <=> InBooks(d))
    BY <2>2, <2>3 DEF InBooks
  <2>5. ~InBooks(e) /\ ~InBooks(e)'
    BY <2>1, <2>2 DEF InBooks
  <2>6. \A d \in Entries : g[d] = f[d]
    BY <1>6, <2>2, <2>4, <2>5
  <2>7. SumTo(g, n) = SumTo(f, n)
    BY <1>1, <1>4, <2>6, SumToSame
  <2>8. SumTo(g, Len(journal')) = SumTo(f, n) + 0
    BY <1>5, <2>2, <2>7
  <2>9. balance'[a] = balance[a] + BalanceDelta(side, 0)
    <3>1. balance[a] \in Int
      BY DEF RowsSound
    <3> QED
      BY <2>1, <3>1, DeltaLinear
  <2> QED
    BY <1>8, <2>8, <2>9
<1>13. ASSUME NEW x \in SoundEntry, AddsDraft(x)
       PROVE  balance'[a] = BalanceDelta(side, BookTotal(a)')
  <2>0. /\ journal' = Append(journal, x) /\ x.postingStatus = "DRAFT"
        /\ x.reverses = 0 /\ balance' = balance
    BY <1>13 DEF AddsDraft
  <2>1. /\ Entries' = Entries \cup {n + 1} /\ Len(journal') = n + 1
        /\ \A d \in Entries : journal'[d] = journal[d]
        /\ journal'[n + 1] = x
    BY <2>0, InsertAt
  <2>2. \A d \in Entries : InBooks(d)' <=> InBooks(d)
    <3>1. \A d \in Entries : d # 0
      BY <1>1
    <3> QED
      BY <2>0, <2>1, <3>1 DEF InBooks
  <2>3. \A d \in Entries : g[d] = f[d]
    BY <1>6, <2>1, <2>2
  <2>4. g[n + 1] = 0
    <3>1. \A d \in Entries' : InBooks(d)' => journal'[d].postingStatus # "DRAFT"
      BY DEF InBooks
    <3> QED
      BY <1>7, <2>0, <2>1, <3>1
  <2>5. SumTo(g, n + 1) = SumTo(f, n) + g[n + 1]
    BY <1>1, <1>4, <2>3, SumToOneMore
  <2>6. SumTo(g, Len(journal')) = SumTo(f, n) + 0
    BY <2>1, <2>4, <2>5
  <2>7. balance'[a] = balance[a] + BalanceDelta(side, 0)
    <3>1. balance[a] \in Int
      BY DEF RowsSound
    <3> QED
      BY <2>0, <3>1, DeltaLinear
  <2> QED
    BY <1>8, <2>6, <2>7
<1>14. ASSUME NEW e \in Entries, NEW x \in SoundEntry, NEW y \in SoundEntry,
              journal' = Append([journal EXCEPT ![e] = x], y),
              journal[e].postingStatus = "POSTED", x.postingStatus = "VOIDED",
              Keeps(e, x), Stands(y), y.reverses \in {0, e}
       PROVE  /\ Entries' = Entries \cup {n + 1} /\ Len(journal') = n + 1
              /\ \A d \in Entries : d # e => g[d] = f[d]
              /\ f[e] = journal[e].lines[a]
              /\ g[e] = IF y.reverses = e THEN journal[e].lines[a] ELSE 0
              /\ g[n + 1] = y.lines[a] /\ y.lines[a] \in Int
              /\ \A rows \in Seq(SoundEntry) : ~AddsPosted(rows)
  <2>last. PICK last : last = n + 1
    OBVIOUS
  <2>1. /\ Entries' = Entries \cup {last} /\ Len(journal') = last
        /\ \A d \in Entries : journal'[d] = IF d = e THEN x ELSE journal[d]
        /\ journal'[last] = y
    BY <1>14, <2>last, CorrectAt
  <2>2. \A d \in Entries : journal'[d].reverses = journal[d].reverses
    BY <1>14, <2>1 DEF Keeps, KeepsLinks
  <2>3. ~journal[e].deletedAt /\ ~x.deletedAt /\ x.lines = journal[e].lines
    BY <1>14 DEF RowsInOrder, Keeps
  <2>4. \A d \in Entries : d # e => (InBooks(d)' <=> InBooks(d))
    <3>1. \A d \in Entries : d # 0
      BY <1>1
    <3>2. \A d \in Entries : d # e => journal'[d] = journal[d]
      BY <2>1
    <3>3. \A d \in Entries : d # e =>
             ((\E m \in Entries' : journal'[m].reverses = d)
                 <=> (\E m \in Entries : journal[m].reverses = d))
      BY <1>14, <2>1, <2>2, <3>1
    <3> QED
      BY <3>2, <3>3 DEF InBooks
  <2>5. InBooks(e)
    BY <1>14, <2>3 DEF InBooks
  <2>6. journal'[e] = x
    BY <2>1
  <2>7. InBooks(e)' <=> y.reverses = e
    <3>1. \A m \in Entries : journal[m].reverses # e
      BY <1>9, <1>14
    <3>2. (\E m \in Entries' : journal'[m].reverses = e) <=> y.reverses = e
      BY <2>1, <2>2, <3>1
    <3> QED
      BY <1>14, <2>3, <2>6, <3>2 DEF InBooks
  <2>8. \A d \in Entries' : journal'[d] = y => InBooks(d)'
    BY <1>14 DEF InBooks, Stands
  <2>9. g[last] = y.lines[a] /\ y.lines[a] \in Int
    BY <1>7, <2>1, <2>8 DEF SoundEntry, Entry, Net
  <2>10. f[e] = journal[e].lines[a]
    BY <1>6, <2>5
  <2>11. g[e] = IF y.reverses = e THEN journal[e].lines[a] ELSE 0
    BY <1>6, <2>1, <2>3, <2>6, <2>7
  <2>12. \A d \in Entries : d # e => g[d] = f[d]
    BY <1>6, <2>1, <2>4
  <2>13. \A rows \in Seq(SoundEntry) : ~AddsPosted(rows)
    <3>1. ASSUME NEW rows \in Seq(SoundEntry), AddsPosted(rows) PROVE FALSE
      <4>1. journal'[e] = journal[e]
        BY <3>1, ConcatAt DEF AddsPosted
      <4> QED
        BY <1>14, <2>6, <4>1
    <3> QED
      BY <3>1
  <2> QED
    BY <2>last, <2>1, <2>9, <2>10, <2>11, <2>12, <2>13
<1>15. ASSUME NEW e \in Entries, NEW x \in SoundEntry, NEW y \in SoundEntry,
              ReversesPosted(e, x, y)
       PROVE  balance'[a] = BalanceDelta(side, BookTotal(a)')
  <2>1. /\ Len(journal') = n + 1
        /\ \A d \in Entries : g[d] = f[d]
        /\ g[n + 1] = y.lines[a] /\ y.lines[a] \in Int
        /\ SidesAgree
    <3>1. /\ journal' = Append([journal EXCEPT ![e] = x], y)
          /\ journal[e].postingStatus = "POSTED" /\ x.postingStatus = "VOIDED"
          /\ Keeps(e, x) /\ Stands(y) /\ y.reverses = e
      BY <1>15 DEF ReversesPosted
    <3> QED
      BY <1>14, <3>1
  <2>2. SumTo(g, n + 1) = SumTo(f, n) + g[n + 1]
    BY <1>1, <1>4, <2>1, SumToOneMore
  <2>3. y.lines[a] = -journal[e].lines[a]
    BY <1>15 DEF ReversesPosted, Mirror
  <2>4. balance'[a] = balance[a] + BalanceDelta(side, y.lines[a])
    <3>1. CASE balance' = Unapply(balance, journal[e].lines)
      <4>1. balance'[a] = balance[a] - BalanceDelta(side, journal[e].lines[a])
        BY <2>1, <3>1 DEF Unapply, SidesAgree, side
      <4>2. BalanceDelta(side, y.lines[a]) = 0 - BalanceDelta(side, journal[e].lines[a])
        BY <1>3, <2>3, DeltaLinear
      <4>3. balance[a] \in Int /\ BalanceDelta(side, journal[e].lines[a]) \in Int
        BY <1>3, DeltaLinear DEF RowsSound
      <4> QED
        BY <4>1, <4>2, <4>3
    <3>2. CASE balance' = ApplyEffective(balance, Mirror(journal[e].lines))
      BY <2>3, <3>2 DEF ApplyEffective, Mirror, side
    <3> QED
      BY <1>15, <3>1, <3>2 DEF ReversesPosted
  <2> QED
    BY <1>8, <2>1, <2>2, <2>4
<1>16. ASSUME NEW e \in Entries, NEW x \in SoundEntry, NEW y \in SoundEntry,
              ReplacesPosted(e, x, y)
       PROVE  balance'[a] = BalanceDelta(side, BookTotal(a)')
  <2>1. /\ Len(journal') = n + 1
        /\ \A d \in Entries : d # e => g[d] = f[d]
        /\ f[e] = journal[e].lines[a] /\ g[e] = 0
        /\ g[n + 1] = y.lines[a] /\ y.lines[a] \in Int
        /\ SidesAgree
    <3>1. /\ journal' = Append([journal EXCEPT ![e] = x], y)
          /\ journal[e].postingStatus = "POSTED" /\ x.postingStatus = "VOIDED"
          /\ Keeps(e, x) /\ Stands(y) /\ y.reverses = 0
      BY <1>16 DEF ReplacesPosted
    <3>2. e # 0
      BY <1>1
    <3> QED
      BY <1>14, <3>1, <3>2
  <2>2. SumTo(g, n) = SumTo(f, n) - f[e] + g[e]
    BY <1>1, <1>4, <2>1, SumToChange
  <2>3. SumTo(g, n + 1) = SumTo(g, n) + g[n + 1]
    BY <1>1, SumToStep
  <2>4. SumTo(g, n + 1) = SumTo(f, n) + (y.lines[a] + (-journal[e].lines[a]))
    BY <1>3, <1>5, <2>1, <2>2, <2>3
  <2>5. balance'[a] = balance[a] + BalanceDelta(side, y.lines[a] + (-journal[e].lines[a]))
    <3>1. balance'[a] = (balance[a] - BalanceDelta(side, journal[e].lines[a]))
                           + BalanceDelta(side, y.lines[a])
      BY <1>16, <2>1 DEF ReplacesPosted, ReplaceBalances, Apply, Unapply, SidesAgree, side
    <3>2. -journal[e].lines[a] \in Int
      BY <1>3
    <3>3. BalanceDelta(side, y.lines[a] + (-journal[e].lines[a]))
             = BalanceDelta(side, y.lines[a]) + (0 - BalanceDelta(side, journal[e].lines[a]))
      BY <1>3, <2>1, <3>2, DeltaLinear
    <3>4. /\ balance[a] \in Int
          /\ BalanceDelta(side, journal[e].lines[a]) \in Int
          /\ BalanceDelta(side, y.lines[a]) \in Int
      BY <1>3, <2>1, DeltaLinear DEF RowsSound
    <3> QED
      BY <3>1, <3>3, <3>4
  <2>6. y.lines[a] + (-journal[e].lines[a]) \in Int
    BY <1>3, <2>1
  <2> QED
    BY <1>8, <2>1, <2>4, <2>5, <2>6
<1>17. ASSUME NEW rows \in Seq(SoundEntry), AddsPosted(rows)
       PROVE  balance'[a] = BalanceDelta(side, BookTotal(a)')
  <2> DEFINE k    == Len(rows)
             list == [i \in 1 .. k |-> rows[i].lines]
             h    == [i \in DOMAIN list |-> list[i][a]]
  <2>1. /\ k \in Nat /\ Len(journal') = n + k /\ Entries \subseteq Entries'
        /\ \A d \in Entries : journal'[d] = journal[d]
        /\ \A i \in 1 .. k : n + i \in Entries' /\ journal'[n + i] = rows[i]
        /\ \A d \in Entries' \ Entries : journal'[d].reverses = 0
    <3>1. /\ k \in Nat /\ Len(journal') = n + k
          /\ Entries' = 1 .. Len(journal')
          /\ \A d \in Entries : journal'[d] = journal[d]
          /\ \A i \in 1 .. k : journal'[n + i] = rows[i]
          /\ \A d \in Entries' \ Entries :
                d - n \in 1 .. k /\ journal'[d] = rows[d - n]
      BY <1>17, ConcatAt DEF AddsPosted
    <3>2. \A i \in 1 .. k : rows[i].reverses = 0
      BY <1>17 DEF AddsPosted
    <3>3. Entries \subseteq Entries' /\ \A i \in 1 .. k : n + i \in Entries'
      BY <1>1, <3>1
    <3> QED
      BY <3>1, <3>2, <3>3
  <2>2. \A d \in Entries : InBooks(d)' <=> InBooks(d)
    <3>1. \A d \in Entries : d # 0
      BY <1>1
    <3>2. \A d \in Entries :
             (\E m \in Entries' : journal'[m].reverses = d)
                 <=> (\E m \in Entries : journal[m].reverses = d)
      BY <2>1, <3>1
    <3> QED
      BY <2>1, <3>2 DEF InBooks
  <2>3. \A d \in Entries : g[d] = f[d]
    BY <1>6, <2>1, <2>2
  <2>4. ASSUME NEW i \in 1 .. k PROVE g[n + i] = h[i] /\ h[i] \in Int
    <3>1. rows[i] \in SoundEntry /\ Stands(rows[i])
      BY <1>17, ElementOfSeq DEF AddsPosted
    <3>2. \A d \in Entries' : Stands(journal'[d]) => InBooks(d)'
      BY DEF InBooks, Stands
    <3>3. g[n + i] = rows[i].lines[a]
      BY <1>7, <2>1, <3>1, <3>2
    <3>4. h[i] = rows[i].lines[a]
      OBVIOUS
    <3>5. rows[i].lines[a] \in Int
      BY <3>1 DEF SoundEntry, Entry, Net
    <3> QED
      BY <3>3, <3>4, <3>5
  <2>5. Len(list) = k
    BY <2>1
  <2>6. balance'[a] = balance[a] + BalanceDelta(side, SumTo(h, k))
    BY <1>17, <2>5 DEF AddsPosted, PostAll, side
  <2> HIDE DEF h, k
  <2>7. SumTo(g, n + k) = SumTo(f, n) + SumTo(h, k)
    <3>1. \A i \in 1 .. n : f[i] \in Int /\ g[i] = f[i]
      BY <1>1, <1>4, <2>3
    <3>2. \A i \in 1 .. k : h[i] \in Int /\ g[n + i] = h[i]
      BY <2>4
    <3>3. Follows(f, n, h, k, g)
      BY <1>1, <2>1, <3>1, <3>2 DEF Follows
    <3> QED
      BY <3>3, SumToConcat
  <2>8. SumTo(h, k) \in Int
    BY <2>1, <2>4, SumToType
  <2> QED
    BY <1>8, <2>1, <2>6, <2>7, <2>8
<1> QED
  BY <1>10, <1>11, <1>12, <1>13, <1>15, <1>16, <1>17 DEF BooksChange, side
-----------------------------------------------------------------------------
(* The inductive invariant of requests that do not overlap.                *)
LEMMA SerialStep ==
    ASSUME RowsSound, SerialInv, NoOverlap, [Next]_vars
    PROVE  SerialInv' /\ BooksChange
<1>1. RowsSound'
  BY NextSound
<1>2. CASE UNCHANGED vars
  <2>1. BooksChange
    BY <1>2 DEF vars, BooksChange
  <2>2. RowsInOrder' /\ CorrectedOnce' /\ NumbersDense'
    BY <1>1, <2>1, OrderKept, CorrectedOnceKept, NumbersKept DEF SerialInv
  <2>3. ASSUME NEW q \in Request PROVE ReadIsCurrent(q)'
    <3>1. LastJENumber' = LastJENumber
      BY <1>2 DEF vars, LastJENumber, JENumbers, Entries
    <3>2. ReadIsCurrent(q)
      BY DEF SerialInv, ReadsAreCurrent
    <3> QED
      BY <1>2, <3>1, <3>2, ReadUndisturbed DEF vars
  <2> QED
    BY <2>1, <2>2, <2>3 DEF SerialInv, ReadsAreCurrent
<1>3. ASSUME NEW r \in Request, Step(r) PROVE SerialInv' /\ BooksChange
  <2>1. BooksChange
    BY <1>3, StepChangesBooks DEF SerialInv, ReadsAreCurrent
  <2>2. RowsInOrder' /\ CorrectedOnce' /\ NumbersDense'
    BY <1>1, <2>1, OrderKept, CorrectedOnceKept, NumbersKept DEF SerialInv
  <2>3. ReadsAreCurrent'
    BY <1>1, <1>3, ReadsKept
  <2> QED
    BY <2>1, <2>2, <2>3 DEF SerialInv
<1> QED
  BY <1>2, <1>3 DEF Next

(* It holds of the empty journal.                                          *)
LEMMA SerialInit == Init => SerialInv
<1> SUFFICES ASSUME Init PROVE SerialInv
  OBVIOUS
<1>1. Entries = {}
  BY DEF Init, Entries
<1>2. RowsInOrder /\ CorrectedOnce
  BY <1>1 DEF RowsInOrder, CorrectedOnce
<1>3. ReadsAreCurrent
  BY DEF Init, ReadsAreCurrent, ReadIsCurrent
<1>4. JENumbers \ {0} = 1 .. 0
  BY <1>1 DEF JENumbers
<1> QED
  BY <1>2, <1>3, <1>4 DEF SerialInv, NumbersDense

(* While requests do not overlap, what a request read still stands when    *)
(* its transaction runs, drafts have no number, numbers are dense and      *)
(* corrections unique.  Each of these needs the others.                    *)
THEOREM SerialRequestsStayCurrent == Spec /\ []NoOverlap => []SerialInv
<1>1. RowsSound /\ SerialInv /\ NoOverlap /\ [Next]_vars => SerialInv'
  BY SerialStep
<1> QED
  BY <1>1, SerialInit, RowsAlwaysSound, PTL DEF Spec

(* While requests do not overlap, an entry is corrected at most once, by   *)
(* one replacement or one reversal, and is VOIDED from then on: for any    *)
(* number of accounts, entries and requests, abandoned ones among them,    *)
(* with the entries of documents coming in at any time.                    *)
THEOREM SerialCorrectsOnce == Spec /\ []NoOverlap => []CorrectedOnce
BY SerialRequestsStayCurrent, PTL DEF SerialInv

(* And no JE- number is missing from the register: voids and edits give    *)
(* none up, and a post takes the next.                                     *)
THEOREM SerialNumbersGapFree == Spec /\ []NoOverlap => []NumbersGapFree
<1>1. NumbersDense => NumbersGapFree
  BY LastOfDense DEF NumbersDense, NumbersGapFree, LastJENumber
<1> QED
  BY <1>1, SerialRequestsStayCurrent, PTL DEF SerialInv

-----------------------------------------------------------------------------
(* What such a change does to an entry there was.                          *)
LEMMA ChangeOfEntry ==
    ASSUME RowsSound, BooksChange, NEW d \in Entries
    PROVE  \/ journal'[d] = journal[d]
           \/ \E x \in SoundEntry : PostsDraft(d, x) /\ journal'[d] = x
           \/ \E x \in SoundEntry : RewritesDraft(d, x) /\ journal'[d] = x
           \/ \E x \in SoundEntry : /\ journal[d].postingStatus = "POSTED"
                                    /\ x.postingStatus = "VOIDED"
                                    /\ Keeps(d, x) /\ journal'[d] = x
<1>1. CASE UNCHANGED <<balance, journal>>
  BY <1>1
<1>2. ASSUME NEW e \in Entries, NEW x \in SoundEntry, PostsDraft(e, x) \/ RewritesDraft(e, x)
      PROVE  journal'[d] = IF d = e THEN x ELSE journal[d]
  <2>1. journal' = [journal EXCEPT ![e] = x]
    BY <1>2 DEF PostsDraft, RewritesDraft
  <2>2. \A m \in Entries : journal'[m] = IF m = e THEN x ELSE journal[m]
    BY <2>1, RewriteAt
  <2> QED
    BY <2>2
<1>3. ASSUME NEW x \in SoundEntry, AddsDraft(x) PROVE journal'[d] = journal[d]
  BY <1>3, InsertAt DEF AddsDraft
<1>4. ASSUME NEW e \in Entries, NEW x \in SoundEntry, NEW y \in SoundEntry,
             ReversesPosted(e, x, y) \/ ReplacesPosted(e, x, y)
      PROVE  \/ journal'[d] = journal[d]
             \/ /\ journal[d].postingStatus = "POSTED"
                /\ x.postingStatus = "VOIDED"
                /\ Keeps(d, x) /\ journal'[d] = x
  <2>1. journal' = Append([journal EXCEPT ![e] = x], y)
    BY <1>4 DEF ReversesPosted, ReplacesPosted
  <2>2. \A m \in Entries : journal'[m] = IF m = e THEN x ELSE journal[m]
    BY <2>1, CorrectAt
  <2>3. journal[e].postingStatus = "POSTED" /\ x.postingStatus = "VOIDED" /\ Keeps(e, x)
    BY <1>4 DEF ReversesPosted, ReplacesPosted
  <2> QED
    BY <2>2, <2>3
<1>5. ASSUME NEW rows \in Seq(SoundEntry), AddsPosted(rows) PROVE journal'[d] = journal[d]
  BY <1>5, ConcatAt DEF AddsPosted
<1> QED
  BY <1>1, <1>2, <1>3, <1>4, <1>5 DEF BooksChange

(* While requests do not overlap, an entry only ever goes from DRAFT to    *)
(* POSTED and from POSTED to VOIDED.                                       *)
THEOREM SerialLifecycle == Spec /\ []NoOverlap => EntryLifecycle
<1> DEFINE Goes == \A e \in Entries :
                      LET old == journal[e].postingStatus
                          new == journal'[e].postingStatus
                      IN  \/ new = old
                          \/ old = "DRAFT" /\ new = "POSTED"
                          \/ old = "POSTED" /\ new = "VOIDED"
<1>1. ASSUME RowsSound, SerialInv, NoOverlap, [Next]_vars PROVE Goes
  <2>1. BooksChange
    BY <1>1, SerialStep
  <2> QED
    BY <1>1, <2>1, ChangeOfEntry DEF PostsDraft, RewritesDraft
<1>2. RowsSound /\ SerialInv /\ NoOverlap /\ [Next]_vars => [Goes]_vars
  BY <1>1
<1> HIDE DEF Goes
<1>3. Spec /\ []NoOverlap => [][Goes]_vars
  BY <1>2, SerialRequestsStayCurrent, RowsAlwaysSound, PTL DEF Spec
<1> QED
  BY <1>3 DEF EntryLifecycle, Goes

(* While requests do not overlap, an entry that is posted keeps its lines  *)
(* and its date for ever and is never deleted.                             *)
THEOREM SerialPostedImmutable == Spec /\ []NoOverlap => PostedImmutable
<1> DEFINE Immutable == \A e \in Entries :
                           journal[e].postingStatus # "DRAFT" =>
                              /\ journal'[e].lines = journal[e].lines
                              /\ journal'[e].date = journal[e].date
                              /\ ~journal'[e].deletedAt
<1>1. ASSUME RowsSound, SerialInv, NoOverlap, [Next]_vars PROVE Immutable
  <2>1. BooksChange
    BY <1>1, SerialStep
  <2>2. \A e \in Entries : journal[e].postingStatus # "DRAFT" => ~journal[e].deletedAt
    BY <1>1 DEF SerialInv, RowsInOrder
  <2> QED
    BY <1>1, <2>1, <2>2, ChangeOfEntry DEF PostsDraft, RewritesDraft, Keeps
<1>2. RowsSound /\ SerialInv /\ NoOverlap /\ [Next]_vars => [Immutable]_vars
  BY <1>1
<1> HIDE DEF Immutable
<1>3. Spec /\ []NoOverlap => [][Immutable]_vars
  BY <1>2, SerialRequestsStayCurrent, RowsAlwaysSound, PTL DEF Spec
<1> QED
  BY <1>3 DEF PostedImmutable, Immutable

-----------------------------------------------------------------------------
(* The empty books match the empty journal.                                *)
LEMMA BooksInit == Init => BooksMatchJournal
<1> SUFFICES ASSUME Init, NEW a \in Account
             PROVE  balance[a] = BalanceDelta(effectiveNormalSide(a), BookTotal(a))
  BY DEF BooksMatchJournal
<1>1. balance[a] = 0 /\ Len(journal) = 0
  BY DEF Init
<1>2. BookTotal(a) = 0
  BY <1>1, SumToStep DEF BookTotal
<1> QED
  BY <1>1, <1>2, DeltaLinear

(* While requests do not overlap, and the two conventions about sides      *)
(* agree on the chart, every cached balance is the total of the entries in *)
(* the books: over every sequence of creates, posts, edits, voids,         *)
(* reversals, deletes and documents, for any number of accounts, entries   *)
(* and requests.                                                           *)
THEOREM SerialBooksMatch ==
    SidesAgree => (Spec /\ []NoOverlap => []BooksMatchJournal)
<1> SUFFICES ASSUME SidesAgree PROVE Spec /\ []NoOverlap => []BooksMatchJournal
  OBVIOUS
<1>1. ASSUME RowsSound, SerialInv, NoOverlap, BooksMatchJournal, [Next]_vars
      PROVE  BooksMatchJournal'
  <2>1. RowsSound' /\ BooksChange
    BY <1>1, NextSound, SerialStep
  <2> QED
    BY <1>1, <2>1, BooksKept DEF SerialInv
<1>2. RowsSound /\ SerialInv /\ NoOverlap /\ BooksMatchJournal /\ [Next]_vars
         => BooksMatchJournal'
  BY <1>1
<1> QED
  BY <1>2, BooksInit, SerialRequestsStayCurrent, RowsAlwaysSound, PTL DEF Spec
-----------------------------------------------------------------------------
(* The close of a period, beside the journal.  What a manager holds is     *)
(* sound too, and the columns the close adds to the journal are as long    *)
(* as the journal.                                                         *)
TaskRecord == [phase   : {"none", "begin", "close", "transfer", "reopen"},
               period  : Nat,
               checked : BOOLEAN,
               lines   : Net,
               entries : SUBSET Nat]

TasksSound ==
    /\ task \in [Manager -> TaskRecord]
    /\ \A m \in Manager : /\ task[m].phase # "none" => task[m].period \in Period
                          /\ task[m].entries \subseteq closing

ColumnsSound == /\ closing \subseteq Entries
                /\ reversalOf \in Seq(Nat)
                /\ Len(reversalOf) = Len(journal)

CloseSound == RowsSound /\ ColumnsSound /\ TasksSound

(* A list of lines that may become entries.                                *)
Balanced(list) == list \in Seq(Net) /\ \A i \in DOMAIN list : IsBalanced(list[i])

-----------------------------------------------------------------------------
(* Balances after a list of lines is posted are integers.                  *)
LEMMA PostAllType ==
    ASSUME NEW bal \in [Account -> Int], NEW list \in Seq(Net)
    PROVE  /\ PostAll(bal, list) \in [Account -> Int]
           /\ \A a \in Account :
                 SumTo([i \in DOMAIN list |-> list[i][a]], Len(list)) \in Int
<1>1. ASSUME NEW a \in Account
      PROVE  SumTo([i \in DOMAIN list |-> list[i][a]], Len(list)) \in Int
  <2> DEFINE f == [i \in DOMAIN list |-> list[i][a]]
  <2>1. DOMAIN list = 1 .. Len(list) /\ Len(list) \in Nat
    OBVIOUS
  <2>2. \A i \in 1 .. Len(list) : list[i] \in Net
    BY <2>1
  <2>3. \A i \in 1 .. Len(list) : f[i] \in Int
    BY <2>1, <2>2 DEF Net
  <2> HIDE DEF f
  <2>4. SumTo(f, Len(list)) \in Int
    BY <2>1, <2>3, SumToType
  <2> QED
    BY <2>4 DEF f
<1> QED
  BY <1>1 DEF PostAll, BalanceDelta

(* What a close or a reopening inserts is a list of posted rows.           *)
LEMMA InsertAdds ==
    ASSUME RowsSound, NEW list \in Seq(Net), NEW p \in Period, Insert(list, p)
    PROVE  /\ balance' \in [Account -> Int]
           /\ \E rows \in Seq(SoundEntry) :
                 /\ AddsPosted(rows)
                 /\ Len(rows) = Len(list)
                 /\ \A i \in 1 .. Len(list) :
                       rows[i] = NewEntry("POSTED", NoNumber, list[i], p)
<1> DEFINE rows  == [i \in DOMAIN list |-> NewEntry("POSTED", NoNumber, list[i], p)]
           lists == [i \in 1 .. Len(rows) |-> rows[i].lines]
<1>1. DOMAIN list = 1 .. Len(list) /\ Len(list) \in Nat
  OBVIOUS
<1>2. \A i \in 1 .. Len(list) : list[i] \in Net /\ IsBalanced(list[i])
  BY <1>1 DEF Insert
<1>3. \A i \in 1 .. Len(list) : rows[i] \in SoundEntry
  <2>1. "POSTED" \in Status /\ NoNumber \in EntryNumber
    BY NumbersSound DEF Status
  <2> QED
    BY <1>1, <1>2, <2>1, NewEntrySound
<1>4. rows \in Seq(SoundEntry) /\ Len(rows) = Len(list)
  <2>1. rows = [i \in 1 .. Len(list) |-> NewEntry("POSTED", NoNumber, list[i], p)]
    BY <1>1
  <2> HIDE DEF rows
  <2>2. rows \in [1 .. Len(list) -> SoundEntry]
    BY <1>3, <2>1
  <2> QED
    BY <1>1, <2>2, SeqDef
<1>5. \A i \in 1 .. Len(list) : rows[i] = NewEntry("POSTED", NoNumber, list[i], p)
  BY <1>1
<1>6. lists = list
  <2>1. \A i \in 1 .. Len(list) : rows[i].lines = list[i]
    BY <1>5 DEF NewEntry
  <2>2. lists = [i \in 1 .. Len(list) |-> list[i]]
    BY <1>4, <2>1
  <2>3. list \in [1 .. Len(list) -> Net]
    BY LenProperties
  <2> HIDE DEF lists
  <2> QED
    BY <2>2, <2>3
<1>7. /\ journal' = journal \o rows
      /\ balance' = PostAll(balance, list)
  BY DEF Insert
<1> HIDE DEF rows
<1>8. AddsPosted(rows)
  <2>1. \A i \in 1 .. Len(rows) :
           /\ Stands(rows[i])
           /\ rows[i].entryNumber = NoNumber
           /\ rows[i].previousId = 0 /\ rows[i].reverses = 0
    <3>1. ASSUME NEW i \in 1 .. Len(rows)
          PROVE  rows[i] = NewEntry("POSTED", NoNumber, list[i], p)
      BY <1>4, <1>5
    <3>2. ASSUME NEW l PROVE LET x == NewEntry("POSTED", NoNumber, l, p)
                             IN  /\ Stands(x)
                                 /\ x.entryNumber = NoNumber
                                 /\ x.previousId = 0 /\ x.reverses = 0
      BY DEF NewEntry, Stands
    <3> QED
      BY <3>1, <3>2
  <2> QED
    BY <1>6, <1>7, <2>1 DEF AddsPosted
<1>9. balance' \in [Account -> Int]
  BY <1>7, PostAllType DEF RowsSound
<1> QED
  BY <1>4, <1>5, <1>8, <1>9

(* Such a step keeps the rows sound.                                       *)
LEMMA AddedSound ==
    ASSUME RowsSound, NEW rows \in Seq(SoundEntry), AddsPosted(rows),
           balance' \in [Account -> Int],
           active' \in [Account -> BOOLEAN],
           closedAt' \in [Period -> BOOLEAN],
           UNCHANGED <<pc, work>>
    PROVE  RowsSound'
<1>1. journal' \in Seq(SoundEntry) /\ Entries \subseteq Entries'
  <2>1. journal' = journal \o rows
    BY DEF AddsPosted
  <2>2. /\ journal' \in Seq(SoundEntry)
        /\ Len(journal) \in Nat /\ Len(rows) \in Nat
        /\ Len(journal') = Len(journal) + Len(rows)
        /\ Entries = 1 .. Len(journal) /\ Entries' = 1 .. Len(journal')
    BY <2>1, ConcatAt
  <2> QED
    BY <2>2
<1>2. RequestsSound'
  <2>1. RequestsSound /\ pc' = pc /\ work' = work
    BY DEF RowsSound
  <2>2. \A r \in Request : pc'[r] \notin {"idle", "create"} => work'[r].id \in Entries'
    BY <1>1, <2>1 DEF RequestsSound
  <2> QED
    BY <2>1, <2>2 DEF RequestsSound
<1> QED
  BY <1>1, <1>2 DEF RowsSound
-----------------------------------------------------------------------------
(* What a step of a request may do to an entry there was, and what it may  *)
(* add, whatever the requests have read: only a request that posts,        *)
(* deletes or rewrites a draft does more to an entry than mark it VOIDED.  *)
RowKept(d) == /\ journal'[d].lines = journal[d].lines
              /\ journal'[d].date = journal[d].date
              /\ journal'[d].previousId = journal[d].previousId
              /\ journal'[d].postingStatus \in {journal[d].postingStatus, "VOIDED"}

OnDraft(r, d) == pc[r] \in {"postGuard", "postCommit", "delete", "editDraft"} /\ work[r].id = d

RowsTouched(r) ==
    /\ Entries \subseteq Entries'
    /\ \A d \in Entries : RowKept(d) \/ OnDraft(r, d)
    /\ \A d \in Entries' \ Entries : \/ journal'[d].postingStatus = "POSTED"
                                     \/ pc[r] = "create" /\ journal'[d] = work[r].je

(* A step of a request keeps or rewrites drafts, voids posted entries and  *)
(* adds entries; it leaves the accounts' flags and the periods alone.      *)
LEMMA StepTouches ==
    ASSUME RowsSound, NEW r \in Request, Step(r)
    PROVE  RowsTouched(r) /\ UNCHANGED <<active, closedAt>>
<1> DEFINE e  == work[r].id
           je == work[r].je
<1>w. pc[r] \notin {"idle", "create"} => e \in Entries
  BY WorkSound DEF Entries
<1>u. UNCHANGED <<active, closedAt>>
  BY DEF Step, CreateGuard, CreateCommit, PostRead, PostGuard, PostCommit, DeleteRead,
         DeleteCommit, VoidRead, VoidCommit, EditRead, EditDraftCommit,
         EditPostedCommit, CreateAndPostJE, ReverseRead, ReverseCommit, Abandon,
         ReadEntry
<1>a. CASE journal' = journal
  <2>1. Entries' = Entries
    BY <1>a DEF Entries
  <2>2. \A d \in Entries : RowKept(d)
    BY <1>a DEF RowKept
  <2> QED
    BY <1>u, <2>1, <2>2 DEF RowsTouched
<1>b. ASSUME e \in Entries, pc[r] \in {"postCommit", "delete", "editDraft"},
             NEW x, journal' = [journal EXCEPT ![e] = x]
      PROVE  RowsTouched(r)
  <2>1. Entries' = Entries
    BY <1>b DEF Entries
  <2>2. \A d \in Entries : d # e => journal'[d] = journal[d]
    BY <1>b DEF Entries
  <2>3. \A d \in Entries : RowKept(d) \/ OnDraft(r, d)
    BY <1>b, <2>2 DEF RowKept, OnDraft
  <2> QED
    BY <2>1, <2>3 DEF RowsTouched
<1>c. ASSUME NEW y \in SoundEntry, journal' = Append(journal, y),
             y.postingStatus = "POSTED" \/ (pc[r] = "create" /\ y = je)
      PROVE  RowsTouched(r)
  <2>1. /\ Entries' = Entries \cup {Len(journal) + 1}
        /\ \A d \in Entries : journal'[d] = journal[d]
        /\ journal'[Len(journal) + 1] = y
    BY <1>c, InsertAt
  <2>2. \A d \in Entries : RowKept(d)
    BY <2>1 DEF RowKept
  <2> QED
    BY <1>c, <2>1, <2>2 DEF RowsTouched
<1>d. ASSUME NEW d \in Entries, NEW x \in SoundEntry, NEW y \in SoundEntry,
             journal' = Append([journal EXCEPT ![d] = x], y),
             x.lines = journal[d].lines, x.date = journal[d].date,
             x.previousId = journal[d].previousId, x.postingStatus = "VOIDED",
             y.postingStatus = "POSTED"
      PROVE  RowsTouched(r)
  <2>1. /\ Entries' = Entries \cup {Len(journal) + 1}
        /\ \A m \in Entries : journal'[m] = IF m = d THEN x ELSE journal[m]
        /\ journal'[Len(journal) + 1] = y
    BY <1>d, CorrectAt
  <2>2. \A m \in Entries : RowKept(m)
    BY <1>d, <2>1 DEF RowKept
  <2> QED
    BY <1>d, <2>1, <2>2 DEF RowsTouched
<1>1. CASE CreateCommit(r)
  <2>1. journal' = Append(journal, je) /\ pc[r] = "create"
    BY <1>1 DEF CreateCommit
  <2>2. je \in SoundEntry
    BY WorkSound
  <2> QED
    BY <1>c, <1>u, <2>1, <2>2
<1>2. ASSUME journal' # journal, PostCommit(r) PROVE RowsTouched(r)
  <2>1. pc[r] = "postCommit"
    BY <1>2 DEF PostCommit
  <2>2. journal' = [journal EXCEPT ![e] = [journal[e] EXCEPT
                       !.postingStatus = "POSTED", !.entryNumber = work[r].number]]
    BY <1>2 DEF PostCommit
  <2> QED
    BY <1>b, <1>w, <2>1, <2>2
<1>3. CASE DeleteCommit(r)
  <2>1. pc[r] = "delete"
    BY <1>3 DEF DeleteCommit
  <2>2. journal' = [journal EXCEPT ![e] = [journal[e] EXCEPT !.deletedAt = TRUE]]
    BY <1>3 DEF DeleteCommit
  <2> QED
    BY <1>b, <1>u, <1>w, <2>1, <2>2
<1>4. CASE EditDraftCommit(r)
  <2>1. pc[r] = "editDraft"
    BY <1>4 DEF EditDraftCommit
  <2>2. PICK lines \in NewLines(journal[e].lines), p \in Period :
           journal' = [journal EXCEPT ![e].lines = lines, ![e].date = p]
    BY <1>4 DEF EditDraftCommit
  <2>3. journal' = [journal EXCEPT ![e] = [journal[e] EXCEPT !.lines = lines, !.date = p]]
    BY <2>2
  <2> QED
    BY <1>b, <1>u, <1>w, <2>1, <2>3
<1>5. CASE CreateAndPostJE(r)
  <2>1. PICK lines \in Lines, p \in Period :
           /\ IsBalanced(lines)
           /\ journal' = Append(journal,
                 [NewEntry("POSTED", NoNumber, lines, p) EXCEPT !.linked = TRUE])
    BY <1>5 DEF CreateAndPostJE
  <2> DEFINE y == [NewEntry("POSTED", NoNumber, lines, p) EXCEPT !.linked = TRUE]
  <2>2. y \in SoundEntry
    BY <2>1, LinesAssumption, NewEntrySound, NumbersSound DEF Status
  <2>3. y.postingStatus = "POSTED"
    BY DEF NewEntry
  <2> HIDE DEF y
  <2> QED
    BY <1>c, <1>u, <2>1, <2>2, <2>3 DEF y
<1>6. ASSUME e \in Entries, NEW number \in EntryNumber, NEW lines \in Net,
             IsBalanced(lines), NEW p \in Period, NEW x,
             x = [journal[e] EXCEPT !.postingStatus = "VOIDED"]
                 \/ x = [journal[e] EXCEPT !.postingStatus = "VOIDED",
                                           !.entryNumber = NoNumber],
             NEW y,
             y = [NewEntry("POSTED", number, lines, p) EXCEPT !.reverses = e]
                 \/ y = [NewEntry("POSTED", number, lines, p) EXCEPT !.previousId = e],
             journal' = Append([journal EXCEPT ![e] = x], y)
      PROVE  RowsTouched(r)
  <2>1. journal[e] \in SoundEntry /\ e \in Nat
    BY <1>6, RowSound
  <2>2. x \in SoundEntry
    <3>1. /\ [journal[e] EXCEPT !.postingStatus = "VOIDED"] \in SoundEntry
          /\ [journal[e] EXCEPT !.postingStatus = "VOIDED", !.entryNumber = NoNumber]
                \in SoundEntry
      BY <2>1, MarkedSound, NumbersSound DEF Status
    <3> QED
      BY <1>6, <3>1
  <2>3. /\ x.lines = journal[e].lines /\ x.date = journal[e].date
        /\ x.previousId = journal[e].previousId /\ x.postingStatus = "VOIDED"
    BY <1>6, <2>1 DEF SoundEntry, Entry
  <2>4. y \in SoundEntry
    <3>1. /\ [NewEntry("POSTED", number, lines, p) EXCEPT !.reverses = e] \in SoundEntry
          /\ [NewEntry("POSTED", number, lines, p) EXCEPT !.previousId = e] \in SoundEntry
      BY <1>6, <2>1, NewEntrySound DEF Status
    <3> QED
      BY <1>6, <3>1
  <2>5. y.postingStatus = "POSTED"
    BY <1>6 DEF NewEntry
  <2> QED
    BY <1>6, <1>d, <2>2, <2>3, <2>4, <2>5
<1>j. /\ je.lines \in Net /\ IsBalanced(je.lines) /\ je.date \in Period
      /\ je.entryNumber \in EntryNumber /\ e \in Nat
      /\ Mirror(je.lines) \in Net /\ IsBalanced(Mirror(je.lines))
  BY WorkSound, MirrorBalanced
<1>7. ASSUME journal' # journal, VoidCommit(r) PROVE RowsTouched(r)
  <2> DEFINE number == VoidNumber(je.entryNumber, e)
  <2>1. /\ pc[r] = "void"
        /\ journal' = Append([journal EXCEPT ![e] =
                                 [journal[e] EXCEPT !.postingStatus = "VOIDED"]],
                             [NewEntry("POSTED", number, Mirror(je.lines), je.date)
                                 EXCEPT !.reverses = e])
    BY <1>7 DEF VoidCommit
  <2>2. number \in EntryNumber
    BY <1>j, NumbersSound
  <2> HIDE DEF number
  <2> QED
    BY <1>6, <1>j, <1>w, <2>1, <2>2
<1>8. ASSUME journal' # journal, EditPostedCommit(r) PROVE RowsTouched(r)
  <2>1. pc[r] = "editPosted"
    BY <1>8 DEF EditPostedCommit
  <2>2. PICK lines \in NewLines(je.lines), p \in Period :
           journal' = Append([journal EXCEPT ![e] = [journal[e] EXCEPT
                                 !.postingStatus = "VOIDED", !.entryNumber = NoNumber]],
                             [NewEntry("POSTED", je.entryNumber, lines, p)
                                 EXCEPT !.previousId = e])
    BY <1>8 DEF EditPostedCommit, Replacement
  <2>3. lines \in Net /\ IsBalanced(lines)
    BY <1>j, NewLinesSound
  <2> QED
    BY <1>6, <1>j, <1>w, <2>1, <2>2, <2>3
<1>9. CASE ReverseCommit(r)
  <2>1. pc[r] = "reverse"
    BY <1>9 DEF ReverseCommit
  <2>2. PICK p \in Period :
           journal' = Append([journal EXCEPT ![e] =
                                 [journal[e] EXCEPT !.postingStatus = "VOIDED"]],
                             [NewEntry("POSTED", NoNumber, Mirror(je.lines), p)
                                 EXCEPT !.reverses = e])
    BY <1>9 DEF ReverseCommit
  <2> QED
    BY <1>6, <1>j, <1>u, <1>w, <2>1, <2>2, NumbersSound
<1>10. ASSUME ~(\/ CreateCommit(r) \/ PostCommit(r) \/ DeleteCommit(r) \/ VoidCommit(r)
                \/ EditDraftCommit(r) \/ EditPostedCommit(r) \/ CreateAndPostJE(r)
                \/ ReverseCommit(r))
       PROVE  journal' = journal
  BY <1>10 DEF Step, CreateGuard, PostRead, PostGuard, DeleteRead, VoidRead, EditRead,
               ReverseRead, Abandon, ReadEntry
<1> QED
  BY <1>a, <1>u, <1>1, <1>2, <1>3, <1>4, <1>5, <1>7, <1>8, <1>9, <1>10
-----------------------------------------------------------------------------
(* The lines a close computes are lines.                                   *)
LEMMA ClosingLinesNet ==
    ASSUME RowsSound PROVE [a \in Account |-> ClosingLine(a)] \in Net
<1>1. ASSUME NEW a \in Account PROVE ClosingLine(a) \in Int
  <2>1. balance[a] \in Int
    BY DEF RowsSound
  <2> QED
    BY <2>1 DEF ClosingLine
<1> QED
  BY <1>1 DEF Net

(* So is the entry that moves them to Income Summary.                      *)
LEMMA ToSummaryNet ==
    ASSUME NEW lines \in Net, NEW accounts PROVE ToSummary(lines, accounts) \in Net
<1> DEFINE part == [a \in Account |-> IF a \in accounts THEN lines[a] ELSE 0]
<1>1. part \in [Account -> Int]
  BY DEF Net
<1>2. \A i \in 1 .. NumAccounts : part[i] \in Int
  BY <1>1 DEF Account
<1> HIDE DEF part
<1>3. SumTo(part, NumAccounts) \in Int
  BY <1>2, SumToType, NumAccountsAssumption
<1>4. [part EXCEPT ![IncomeSummary] = 0 - SumTo(part, NumAccounts)] \in [Account -> Int]
  <2>1. 0 - SumTo(part, NumAccounts) \in Int /\ IncomeSummary \in Account
    BY <1>3, ChartAssumption
  <2> QED
    BY <1>1, <2>1
<1> QED
  BY <1>4 DEF ToSummary, Net, part

(* At most one list of lines.                                              *)
LEMMA NonZeroNets ==
    ASSUME NEW lines \in Net
    PROVE  /\ NonZero(lines) \in Seq(Net)
           /\ NonZero(lines) = << >> \/ NonZero(lines) = <<lines>>
BY DEF NonZero

(* The entries of a close are lists of lines.                              *)
LEMMA CloseEntriesNets ==
    ASSUME RowsSound, NEW lines \in Net
    PROVE  CloseEntries(lines) \in Seq(Net)
<1> DEFINE nominal == NominalEntries(lines)
           amount  == PostAll(balance, nominal)[IncomeSummary]
<1>1. /\ NonZero(ToSummary(lines, Revenue)) \in Seq(Net)
      /\ NonZero(ToSummary(lines, Expense)) \in Seq(Net)
  BY ToSummaryNet, NonZeroNets
<1>2. nominal \in Seq(Net)
  BY <1>1, ConcatProperties DEF NominalEntries
<1> HIDE DEF nominal
<1>3. amount \in Int
  <2>1. balance \in [Account -> Int] /\ IncomeSummary \in Account
    BY ChartAssumption DEF RowsSound
  <2> QED
    BY <1>2, <2>1, PostAllType
<1> HIDE DEF amount
<1>4. ToRetained(amount) \in Net
  BY <1>3 DEF ToRetained, Net
<1>5. NonZero(ToRetained(amount)) \in Seq(Net)
  BY <1>4, NonZeroNets
<1>6. nominal \o NonZero(ToRetained(amount)) \in Seq(Net)
  BY <1>2, <1>5, ConcatProperties
<1> QED
  BY <1>6 DEF CloseEntries, nominal, amount

(* The originals of a reopening, in any order, and their mirror images.    *)
LEMMA OriginalsListed ==
    ASSUME RowsSound, NEW S, S \subseteq Entries,
           NEW originals \in Bijection(1 .. Cardinality(S), S)
    PROVE  /\ originals \in Seq(Nat)
           /\ DOMAIN originals = 1 .. Len(originals)
           /\ \A i \in DOMAIN originals : originals[i] \in S
           /\ \A e \in S : \E i \in DOMAIN originals : originals[i] = e
           /\ [i \in DOMAIN originals |-> Mirror(journal[originals[i]].lines)] \in Seq(Net)
           /\ Len([i \in DOMAIN originals |-> Mirror(journal[originals[i]].lines)])
                 = Len(originals)
<1> DEFINE c    == Cardinality(S)
           list == [i \in DOMAIN originals |-> Mirror(journal[originals[i]].lines)]
<1>1. journal \in Seq(SoundEntry)
  BY DEF RowsSound
<1>2. Entries = 1 .. Len(journal) /\ Len(journal) \in Nat
  BY <1>1 DEF Entries
<1>3. c \in Nat
  <2>1. IsFiniteSet(Entries)
    BY <1>2, FS_Interval
  <2> QED
    BY <2>1, FS_Subset, FS_CardinalityType
<1>4. /\ originals \in [1 .. c -> S]
      /\ \A e \in S : \E i \in 1 .. c : originals[i] = e
  BY DEF Bijection, Injection, Surjection
<1> HIDE DEF c
<1>5. S \subseteq Nat
  BY <1>2
<1>6. originals \in Seq(Nat) /\ DOMAIN originals = 1 .. c /\ Len(originals) = c
  <2>1. originals \in [1 .. c -> Nat]
    BY <1>4, <1>5
  <2> QED
    BY <1>3, <2>1, SeqDef
<1>7. \A i \in 1 .. c : Mirror(journal[originals[i]].lines) \in Net
  <2>1. \A e \in S : Mirror(journal[e].lines) \in Net
    BY RowSound, MirrorBalanced
  <2> QED
    BY <1>4, <2>1
<1>8. list \in Seq(Net) /\ Len(list) = c
  <2>1. list \in [1 .. c -> Net]
    BY <1>6, <1>7
  <2> HIDE DEF list
  <2> QED
    BY <1>3, <2>1, SeqDef
<1> QED
  BY <1>4, <1>6, <1>8
-----------------------------------------------------------------------------
(* A manager without a task.                                               *)
LEMMA NoTaskSound == NoTask \in TaskRecord /\ NoTask.phase = "none" /\ NoTask.entries = {}
BY DEF NoTask, TaskRecord, Net

(* The three tasks a manager takes on.                                     *)
LEMMA TasksBegun ==
    ASSUME NEW t \in TaskRecord
    PROVE  /\ \A p \in Nat :
                 /\ [t EXCEPT !.period = p] \in TaskRecord
                 /\ [t EXCEPT !.phase = "begin", !.period = p, !.checked = TRUE] \in TaskRecord
           /\ \A lines \in Net :
                 /\ [t EXCEPT !.phase = "close", !.lines = lines] \in TaskRecord
                 /\ [t EXCEPT !.phase = "transfer", !.lines = lines] \in TaskRecord
           /\ \A p \in Nat, S \in SUBSET Nat :
                 [t EXCEPT !.phase = "reopen", !.period = p, !.entries = S] \in TaskRecord
BY DEF TaskRecord

(* A manager that goes on with a sound task keeps the tasks sound.         *)
LEMMA TaskWritten ==
    ASSUME TasksSound, NEW m \in Manager, NEW t \in TaskRecord,
           t.phase # "none" => t.period \in Period,
           t.entries \subseteq closing', closing \subseteq closing',
           task' = [task EXCEPT ![m] = t]
    PROVE  TasksSound'
<1>1. task' \in [Manager -> TaskRecord]
  BY DEF TasksSound
<1>2. \A n \in Manager : task'[n] = IF n = m THEN t ELSE task[n]
  BY DEF TasksSound
<1>3. ASSUME NEW n \in Manager
      PROVE  /\ task'[n].phase # "none" => task'[n].period \in Period
             /\ task'[n].entries \subseteq closing'
  BY <1>2 DEF TasksSound
<1> QED
  BY <1>1, <1>3 DEF TasksSound

(* The columns of the close after rows are added to the journal.           *)
LEMMA ColumnsAdded ==
    ASSUME RowsSound, ColumnsSound, NEW rows \in Seq(SoundEntry), AddsPosted(rows),
           NEW column \in Seq(Nat), Len(column) = Len(rows),
           reversalOf' = reversalOf \o column,
           closing' \subseteq closing \cup {Len(journal) + i : i \in 1 .. Len(rows)}
    PROVE  /\ ColumnsSound'
           /\ \A e \in Entries : reversalOf'[e] = reversalOf[e]
           /\ \A i \in 1 .. Len(rows) : reversalOf'[Len(journal) + i] = column[i]
<1>1. /\ Len(journal) \in Nat /\ Len(rows) \in Nat
      /\ Len(journal') = Len(journal) + Len(rows)
      /\ Entries = 1 .. Len(journal) /\ Entries' = 1 .. Len(journal')
  BY ConcatAt DEF AddsPosted
<1>2. /\ reversalOf \in Seq(Nat) /\ Len(reversalOf) = Len(journal)
      /\ closing \subseteq Entries
  BY DEF ColumnsSound
<1>3. /\ reversalOf' \in Seq(Nat)
      /\ Len(reversalOf') = Len(journal')
      /\ \A i \in 1 .. Len(journal) + Len(rows) :
            reversalOf'[i] = IF i <= Len(journal) THEN reversalOf[i]
                                                  ELSE column[i - Len(journal)]
  <2>1. /\ reversalOf' \in Seq(Nat)
        /\ Len(reversalOf') = Len(reversalOf) + Len(column)
        /\ \A i \in 1 .. Len(reversalOf) + Len(column) :
              reversalOf'[i] = IF i <= Len(reversalOf) THEN reversalOf[i]
                                                       ELSE column[i - Len(reversalOf)]
    <3>1. PICK S : S = Nat
      OBVIOUS
    <3>2. reversalOf \in Seq(S) /\ column \in Seq(S)
      BY <1>2, <3>1
    <3>3. reversalOf' \in Seq(S)
      BY <3>2, ConcatProperties
    <3>4. /\ Len(reversalOf') = Len(reversalOf) + Len(column)
          /\ \A i \in 1 .. Len(reversalOf) + Len(column) :
                reversalOf'[i] = IF i <= Len(reversalOf) THEN reversalOf[i]
                                                         ELSE column[i - Len(reversalOf)]
      BY <3>2, ConcatProperties
    <3> QED
      BY <3>1, <3>3, <3>4
  <2>2. Len(reversalOf) = Len(journal) /\ Len(column) = Len(rows)
    BY <1>2
  <2>3. Len(reversalOf') = Len(journal')
    BY <1>1, <2>1, <2>2
  <2>4. \A i \in 1 .. Len(journal) + Len(rows) :
           reversalOf'[i] = IF i <= Len(journal) THEN reversalOf[i]
                                                 ELSE column[i - Len(journal)]
    BY <2>1, <2>2, Zenon
  <2> QED
    BY <2>1, <2>3, <2>4
<1>4. closing' \subseteq Entries'
  BY <1>1, <1>2
<1>5. \A i \in 1 .. Len(rows) : /\ Len(journal) + i \in 1 .. Len(journal) + Len(rows)
                                /\ ~(Len(journal) + i <= Len(journal))
                                /\ (Len(journal) + i) - Len(journal) = i
  BY <1>1
<1> QED
  BY <1>1, <1>3, <1>4, <1>5 DEF ColumnsSound

-----------------------------------------------------------------------------
(* A step of a request, beside the managers.                               *)
LEMMA LedgerStepSound ==
    ASSUME CloseSound, NEW r \in Request, Step(r), Unrelated
    PROVE  /\ CloseSound'
           /\ closing \subseteq closing'
           /\ \A e \in Entries : reversalOf'[e] = reversalOf[e]
           /\ \A e \in Entries' \ Entries : reversalOf'[e] = 0
<1>1. RowsSound /\ ColumnsSound /\ TasksSound
  BY DEF CloseSound
<1>2. RowsSound' /\ Entries \subseteq Entries'
  BY <1>1, StepSound, StepTouches DEF RowsTouched
<1>3. /\ journal' \in Seq(SoundEntry) /\ Len(journal') \in Nat
      /\ DOMAIN journal' = 1 .. Len(journal')
  BY <1>2 DEF RowsSound
<1>4. reversalOf' = [e \in DOMAIN journal' |-> IF e \in Entries THEN reversalOf[e] ELSE 0]
  BY DEF Unrelated
<1>5. reversalOf' \in Seq(Nat) /\ Len(reversalOf') = Len(journal')
  <2>1. \A e \in Entries : reversalOf[e] \in Nat
    <3>1. /\ reversalOf \in Seq(Nat) /\ Len(reversalOf) = Len(journal)
          /\ journal \in Seq(SoundEntry)
      BY <1>1 DEF ColumnsSound, RowsSound
    <3>2. Entries = 1 .. Len(reversalOf)
      BY <3>1 DEF Entries
    <3> QED
      BY <3>1, <3>2, ElementOfSeq
  <2>2. reversalOf' \in [1 .. Len(journal') -> Nat]
    BY <1>3, <1>4, <2>1
  <2>3. reversalOf' \in Seq(Nat)
    BY <1>3, <2>2, SeqDef
  <2> QED
    BY <1>3, <2>2, <2>3
<1>6. closing \subseteq closing' /\ closing' \subseteq Entries'
  BY <1>1, <1>2 DEF Unrelated, ColumnsSound, Entries
<1>7. TasksSound'
  BY <1>1, <1>6 DEF TasksSound, Unrelated
<1> QED
  BY <1>2, <1>4, <1>5, <1>6, <1>7 DEF CloseSound, ColumnsSound, Entries

(* A step of a manager that writes nothing but its own task.               *)
LEMMA OwnTaskSound ==
    ASSUME CloseSound, NEW m \in Manager, UNCHANGED <<vars, closing, reversalOf>>,
           TasksSound'
    PROVE  CloseSound'
<1>1. RowsSound'
  BY NextSound DEF CloseSound
<1>2. ColumnsSound'
  BY DEF CloseSound, ColumnsSound, vars, Entries
<1> QED
  BY <1>1, <1>2 DEF CloseSound
(* The steps of a manager that write nothing but its own task.             *)
LEMMA ReadStepsSound ==
    ASSUME CloseSound, NEW m \in Manager,
           \/ CompleteCloseWorkflow(m) \/ CloseRead(m) \/ SummaryRead(m)
           \/ ReopenRead(m) \/ AbandonTask(m)
    PROVE  CloseSound' /\ UNCHANGED <<vars, closing, reversalOf>>
<1>1. UNCHANGED <<vars, closing, reversalOf>>
  BY DEF CompleteCloseWorkflow, CloseRead, SummaryRead, ReopenRead, AbandonTask
<1>2. TasksSound /\ task[m] \in TaskRecord /\ task[m].entries \subseteq closing
  BY DEF CloseSound, TasksSound
<1>3. \A p \in Period : p \in Nat
  BY PeriodOrderAssumption
<1>t. ASSUME NEW t \in TaskRecord, t.phase # "none" => t.period \in Period,
             t.entries \subseteq closing, task' = [task EXCEPT ![m] = t]
      PROVE  CloseSound'
  <2>1. closing' = closing
    BY <1>1
  <2>2. TasksSound'
    BY <1>2, <1>t, <2>1, TaskWritten
  <2> QED
    BY <1>1, <2>2, OwnTaskSound
<1>4. CASE CompleteCloseWorkflow(m)
  <2>1. PICK p \in Period :
           task' = [task EXCEPT ![m] = [NoTask EXCEPT !.phase = "begin", !.period = p,
                                                      !.checked = TRUE]]
    BY <1>4 DEF CompleteCloseWorkflow
  <2> DEFINE t == [NoTask EXCEPT !.phase = "begin", !.period = p, !.checked = TRUE]
  <2>2. t \in TaskRecord
    BY <1>3, NoTaskSound, TasksBegun
  <2>3. t.period = p /\ t.entries = {}
    BY DEF NoTask
  <2>4. task' = [task EXCEPT ![m] = t]
    BY <2>1
  <2> HIDE DEF t
  <2> QED
    BY <1>1, <1>t, <2>2, <2>3, <2>4
<1>5. CASE CloseRead(m)
  <2> DEFINE read == [a \in Account |-> ClosingLine(a)]
  <2>1. read \in Net
    BY ClosingLinesNet DEF CloseSound
  <2> HIDE DEF read
  <2>2. PICK p \in Period :
           \E start \in {[NoTask EXCEPT !.period = p],
                         [NoTask EXCEPT !.phase = "begin", !.period = p, !.checked = TRUE]} :
              task' = [task EXCEPT ![m] = [start EXCEPT !.phase = "close",
                                                         !.lines = read]]
    BY <1>5 DEF CloseRead, read
  <2>s. PICK start \in {[NoTask EXCEPT !.period = p],
                        [NoTask EXCEPT !.phase = "begin", !.period = p, !.checked = TRUE]} :
           task' = [task EXCEPT ![m] = [start EXCEPT !.phase = "close", !.lines = read]]
    BY <2>2
  <2> DEFINE t == [start EXCEPT !.phase = "close", !.lines = read]
  <2>3. start \in TaskRecord
    BY <1>3, <2>s, NoTaskSound, TasksBegun
  <2>4. t \in TaskRecord
    BY <2>1, <2>3, TasksBegun
  <2>5. t.period = p /\ t.entries = {}
    BY <2>s DEF NoTask
  <2>6. task' = [task EXCEPT ![m] = t]
    BY <2>s
  <2> HIDE DEF t
  <2> QED
    BY <1>1, <1>t, <2>4, <2>5, <2>6
<1>6. CASE ReopenRead(m)
  <2>1. PICK p \in Period :
           task' = [task EXCEPT ![m] = [NoTask EXCEPT !.phase = "reopen", !.period = p,
                                                      !.entries = ClosingEntries(p)]]
    BY <1>6 DEF ReopenRead
  <2> DEFINE t == [NoTask EXCEPT !.phase = "reopen", !.period = p,
                                 !.entries = ClosingEntries(p)]
  <2>2. ClosingEntries(p) \subseteq closing /\ ClosingEntries(p) \subseteq Nat
    <3>1. closing \subseteq Entries /\ \A e \in Entries : e \in Nat
      BY RowSound DEF CloseSound, ColumnsSound
    <3> QED
      BY <3>1 DEF ClosingEntries
  <2>3. t \in TaskRecord
    BY <1>3, <2>2, NoTaskSound, TasksBegun
  <2>4. t.period = p /\ t.entries = ClosingEntries(p)
    BY DEF NoTask
  <2>5. task' = [task EXCEPT ![m] = t]
    BY <2>1
  <2> HIDE DEF t
  <2> QED
    BY <1>1, <1>t, <2>2, <2>3, <2>4, <2>5
<1>7. CASE AbandonTask(m)
  <2>1. task' = [task EXCEPT ![m] = NoTask]
    BY <1>7 DEF AbandonTask
  <2>2. NoTask.entries \subseteq closing
    BY NoTaskSound
  <2> QED
    BY <1>1, <1>t, <2>1, <2>2, NoTaskSound
<1>8. CASE SummaryRead(m)
  <2> DEFINE moved == ToRetained(balance[IncomeSummary])
             t == [task[m] EXCEPT !.phase = "transfer", !.lines = moved]
  <2>1. moved \in Net
    BY ChartAssumption DEF CloseSound, RowsSound, ToRetained, Net
  <2>2. task[m].phase = "close" /\ task[m].period \in Period
    BY <1>8 DEF SummaryRead, CloseSound, TasksSound
  <2> HIDE DEF moved
  <2>3. t \in TaskRecord
    BY <1>2, <2>1, TasksBegun
  <2>4. t.period = task[m].period /\ t.entries = task[m].entries
    BY <1>2 DEF TaskRecord
  <2>5. task' = [task EXCEPT ![m] = t]
    BY <1>2, <1>8 DEF SummaryRead, TasksSound, TaskRecord, moved
  <2> HIDE DEF t
  <2> QED
    BY <1>1, <1>2, <1>t, <2>2, <2>3, <2>4, <2>5
<1> QED
  BY <1>1, <1>4, <1>5, <1>6, <1>7, <1>8

(* The step that ends a close or a reopening: it adds a list of rows, and  *)
(* says for which entries they stand.                                      *)
LEMMA AddStepSound ==
    ASSUME CloseSound, NEW m \in Manager, NEW list \in Seq(Net), NEW p \in Period,
           Insert(list, p),
           NEW column \in Seq(Nat), Len(column) = Len(list),
           reversalOf' = reversalOf \o column,
           closing \subseteq closing',
           closing' \subseteq closing \cup {Len(journal) + i : i \in 1 .. Len(list)},
           task' = [task EXCEPT ![m] = NoTask],
           active' = active, closedAt' \in [Period -> BOOLEAN], UNCHANGED <<pc, work>>
    PROVE  /\ CloseSound'
           /\ \E rows \in Seq(SoundEntry) :
                 /\ AddsPosted(rows)
                 /\ Len(rows) = Len(list)
                 /\ \A i \in 1 .. Len(list) :
                       rows[i] = NewEntry("POSTED", NoNumber, list[i], p)
           /\ \A e \in Entries : reversalOf'[e] = reversalOf[e]
           /\ \A i \in 1 .. Len(list) : reversalOf'[Len(journal) + i] = column[i]
<1>1. RowsSound /\ ColumnsSound /\ TasksSound
  BY DEF CloseSound
<1>2. balance' \in [Account -> Int]
  BY <1>1, InsertAdds
<1>3. PICK rows \in Seq(SoundEntry) :
         /\ AddsPosted(rows)
         /\ Len(rows) = Len(list)
         /\ \A i \in 1 .. Len(list) : rows[i] = NewEntry("POSTED", NoNumber, list[i], p)
  BY <1>1, InsertAdds
<1>4. RowsSound'
  <2>1. active' \in [Account -> BOOLEAN]
    BY <1>1 DEF RowsSound
  <2> QED
    BY <1>1, <1>2, <1>3, <2>1, AddedSound
<1>5. /\ ColumnsSound'
      /\ \A e \in Entries : reversalOf'[e] = reversalOf[e]
      /\ \A i \in 1 .. Len(rows) : reversalOf'[Len(journal) + i] = column[i]
  BY <1>1, <1>3, ColumnsAdded
<1>6. TasksSound'
  BY <1>1, NoTaskSound, TaskWritten
<1> QED
  BY <1>3, <1>4, <1>5, <1>6 DEF CloseSound
(* The columns of a new entry.                                             *)
LEMMA NewEntryFields ==
    ASSUME NEW status, NEW number, NEW lines, NEW date
    PROVE  LET x == NewEntry(status, number, lines, date)
           IN  x.lines = lines /\ x.date = date /\ x.previousId = 0
BY DEF NewEntry

(* What the last step of a close adds, whatever it read.                   *)
LEMMA CloseCommitSound ==
    ASSUME CloseSound, NEW m \in Manager, CloseCommit(m)
    PROVE  /\ CloseSound'
           /\ \E rows \in Seq(SoundEntry) :
                 /\ AddsPosted(rows)
                 /\ \A i \in 1 .. Len(rows) :
                       /\ rows[i].date = task[m].period
                       /\ rows[i].previousId = 0
                       /\ reversalOf'[Len(journal) + i] = 0
                 /\ closing' = closing \cup {Len(journal) + i : i \in 1 .. Len(rows)}
           /\ \A e \in Entries : reversalOf'[e] = reversalOf[e]
           /\ closedAt' = [closedAt EXCEPT ![task[m].period] = TRUE]
           /\ task[m].period \in Period
<1> DEFINE list == Prepared(task[m])
           p    == task[m].period
           none == [i \in DOMAIN list |-> 0]
<1>1. /\ Insert(list, p)
      /\ closing' = closing \cup {Len(journal) + i : i \in DOMAIN list}
      /\ reversalOf' = reversalOf \o none
      /\ closedAt' = [closedAt EXCEPT ![p] = TRUE]
      /\ task[m].phase \in {"close", "transfer"}
      /\ task' = [task EXCEPT ![m] = NoTask]
      /\ UNCHANGED <<active, pc, work>>
  BY DEF CloseCommit
<1>2. p \in Period /\ task[m].lines \in Net
  BY <1>1 DEF CloseSound, TasksSound, TaskRecord
<1>3. list \in Seq(Net)
  BY <1>2, CloseEntriesNets, NonZeroNets DEF CloseSound, Prepared
<1> HIDE DEF list, p
<1>4. DOMAIN list = 1 .. Len(list) /\ Len(list) \in Nat
  BY <1>3
<1>5. none \in Seq(Nat) /\ Len(none) = Len(list) /\ \A i \in 1 .. Len(list) : none[i] = 0
  <2>1. none = [i \in 1 .. Len(list) |-> 0]
    BY <1>4
  <2> HIDE DEF none
  <2>2. none \in [1 .. Len(list) -> Nat]
    BY <2>1
  <2>3. none \in Seq(Nat)
    BY <1>4, <2>2, SeqDef
  <2> QED
    BY <1>4, <2>1, <2>2, <2>3
<1> HIDE DEF none
<1>6. closedAt' \in [Period -> BOOLEAN]
  BY <1>1 DEF CloseSound, RowsSound
<1>7. closing' = closing \cup {Len(journal) + i : i \in 1 .. Len(list)}
  BY <1>1, <1>4
<1>8. /\ CloseSound'
      /\ \E rows \in Seq(SoundEntry) :
            /\ AddsPosted(rows)
            /\ Len(rows) = Len(list)
            /\ \A i \in 1 .. Len(list) : rows[i] = NewEntry("POSTED", NoNumber, list[i], p)
      /\ \A e \in Entries : reversalOf'[e] = reversalOf[e]
      /\ \A i \in 1 .. Len(list) : reversalOf'[Len(journal) + i] = none[i]
  BY <1>1, <1>2, <1>3, <1>5, <1>6, <1>7, AddStepSound
<1>9. PICK rows \in Seq(SoundEntry) :
         /\ AddsPosted(rows)
         /\ Len(rows) = Len(list)
         /\ \A i \in 1 .. Len(list) : rows[i] = NewEntry("POSTED", NoNumber, list[i], p)
  BY <1>8
<1>10. ASSUME NEW i \in 1 .. Len(rows)
       PROVE  /\ rows[i].date = p /\ rows[i].previousId = 0
              /\ reversalOf'[Len(journal) + i] = 0
  <2>1. i \in 1 .. Len(list)
    BY <1>9
  <2>2. rows[i].date = p /\ rows[i].previousId = 0
    BY <1>9, <2>1, NewEntryFields
  <2>3. reversalOf'[Len(journal) + i] = 0
    BY <1>5, <1>8, <2>1
  <2> QED
    BY <2>2, <2>3
<1> QED
  BY <1>1, <1>2, <1>7, <1>8, <1>9, <1>10 DEF p

(* What the last step of a reopening adds: for every entry it read, the    *)
(* mirror image of it.                                                     *)
LEMMA ReopenCommitSound ==
    ASSUME CloseSound, NEW m \in Manager, ReopenCommit(m)
    PROVE  /\ CloseSound'
           /\ \E rows \in Seq(SoundEntry) :
                 /\ AddsPosted(rows)
                 /\ \A e \in task[m].entries : \E i \in 1 .. Len(rows) :
                       /\ reversalOf'[Len(journal) + i] = e
                       /\ rows[i].lines = Mirror(journal[e].lines)
           /\ \A e \in Entries : reversalOf'[e] = reversalOf[e]
           /\ closing' = closing
           /\ closedAt' = [closedAt EXCEPT ![task[m].period] = FALSE]
           /\ task[m].period \in Period
<1> DEFINE S == task[m].entries
<1>1. PICK originals \in Bijection(1 .. Cardinality(S), S), today \in Period :
         /\ Insert([i \in DOMAIN originals |-> Mirror(journal[originals[i]].lines)], today)
         /\ reversalOf' = reversalOf \o originals
  BY DEF ReopenCommit
<1>2. /\ closedAt' = [closedAt EXCEPT ![task[m].period] = FALSE]
      /\ task[m].phase = "reopen"
      /\ task' = [task EXCEPT ![m] = NoTask]
      /\ closing' = closing
      /\ UNCHANGED <<active, pc, work>>
  BY DEF ReopenCommit
<1>3. S \subseteq Entries /\ task[m].period \in Period
  BY <1>2 DEF CloseSound, TasksSound, ColumnsSound
<1> DEFINE list == [i \in DOMAIN originals |-> Mirror(journal[originals[i]].lines)]
<1> HIDE DEF S
<1>4. /\ originals \in Seq(Nat)
      /\ DOMAIN originals = 1 .. Len(originals)
      /\ \A e \in S : \E i \in DOMAIN originals : originals[i] = e
      /\ list \in Seq(Net)
      /\ Len(list) = Len(originals)
  BY <1>1, <1>3, OriginalsListed DEF CloseSound
<1>5. \A i \in 1 .. Len(originals) : list[i] = Mirror(journal[originals[i]].lines)
  BY <1>4
<1>6. Insert(list, today)
  BY <1>1
<1> HIDE DEF list
<1>7. closedAt' \in [Period -> BOOLEAN]
  BY <1>2 DEF CloseSound, RowsSound
<1>8. /\ closing \subseteq closing'
      /\ closing' \subseteq closing \cup {Len(journal) + i : i \in 1 .. Len(list)}
  BY <1>2
<1>9. /\ CloseSound'
      /\ \E rows \in Seq(SoundEntry) :
            /\ AddsPosted(rows)
            /\ Len(rows) = Len(list)
            /\ \A i \in 1 .. Len(list) :
                  rows[i] = NewEntry("POSTED", NoNumber, list[i], today)
      /\ \A e \in Entries : reversalOf'[e] = reversalOf[e]
      /\ \A i \in 1 .. Len(list) : reversalOf'[Len(journal) + i] = originals[i]
  <2>1. reversalOf' = reversalOf \o originals
    BY <1>1
  <2>2. originals \in Seq(Nat) /\ Len(originals) = Len(list) /\ list \in Seq(Net)
    BY <1>4
  <2>3. task' = [task EXCEPT ![m] = NoTask] /\ active' = active /\ UNCHANGED <<pc, work>>
    BY <1>2
  <2> QED
    BY <1>6, <1>7, <1>8, <2>1, <2>2, <2>3, AddStepSound
<1>10. PICK rows \in Seq(SoundEntry) :
          /\ AddsPosted(rows)
          /\ Len(rows) = Len(list)
          /\ \A i \in 1 .. Len(list) :
                rows[i] = NewEntry("POSTED", NoNumber, list[i], today)
  BY <1>9
<1>11. ASSUME NEW e \in S
       PROVE  \E i \in 1 .. Len(rows) : /\ reversalOf'[Len(journal) + i] = e
                                        /\ rows[i].lines = Mirror(journal[e].lines)
  <2>1. PICK i \in 1 .. Len(originals) : originals[i] = e
    BY <1>4
  <2>2. i \in 1 .. Len(rows) /\ i \in 1 .. Len(list)
    BY <1>4, <1>10
  <2>3. rows[i].lines = Mirror(journal[e].lines)
    <3>1. rows[i].lines = list[i]
      BY <1>10, <2>2, NewEntryFields
    <3> QED
      BY <1>5, <2>1, <3>1
  <2> QED
    BY <1>9, <2>1, <2>2, <2>3
<1> QED
  BY <1>2, <1>3, <1>9, <1>10, <1>11 DEF S

-----------------------------------------------------------------------------
(* No step of a manager or of a request makes any of this unsound.         *)
LEMMA CloseNextSound ==
    ASSUME CloseSound, [CloseNext]_allVars PROVE CloseSound'
<1>1. CASE UNCHANGED allVars
  <2>1. UNCHANGED <<vars, closing, reversalOf>> /\ task' = task
    BY <1>1 DEF allVars, closeVars
  <2>2. RowsSound'
    BY <2>1, NextSound DEF CloseSound
  <2>3. ColumnsSound' /\ TasksSound'
    BY <2>1 DEF CloseSound, ColumnsSound, TasksSound, vars, Entries
  <2> QED
    BY <2>2, <2>3 DEF CloseSound
<1>2. CASE LedgerStep
  BY <1>2, LedgerStepSound DEF LedgerStep, Next
<1>3. ASSUME NEW m \in Manager, PeriodStep(m) PROVE CloseSound'
  BY <1>3, ReadStepsSound, CloseCommitSound, ReopenCommitSound DEF PeriodStep
<1> QED
  BY <1>1, <1>2, <1>3 DEF CloseNext

(* The state a company starts in is sound.                                 *)
LEMMA CloseInitSound == CloseInit => CloseSound
<1> SUFFICES ASSUME CloseInit PROVE CloseSound
  OBVIOUS
<1>1. RowsSound
  BY InitSound DEF CloseInit
<1>2. journal = << >>
  BY DEF CloseInit, Init
<1>3. ColumnsSound
  BY <1>2 DEF CloseInit, ColumnsSound, Entries
<1>4. TasksSound
  BY NoTaskSound DEF CloseInit, TasksSound
<1> QED
  BY <1>1, <1>3, <1>4 DEF CloseSound

(* Managers and requests together keep the rows, the columns of the close  *)
(* and the tasks sound.                                                    *)
THEOREM CloseAlwaysSound == CloseSpec => []CloseSound
BY CloseInitSound, CloseNextSound, PTL DEF CloseSpec

(* Type correctness of the close.                                          *)
THEOREM CloseTypeCorrect == CloseSpec => []CloseTypeOK
<1>1. CloseSound => CloseTypeOK
  <2> SUFFICES ASSUME CloseSound PROVE CloseTypeOK
    OBVIOUS
  <2>1. TypeOK
    BY SoundType DEF CloseSound
  <2>2. /\ closing \subseteq Entries
        /\ reversalOf \in Seq(Nat)
        /\ DOMAIN reversalOf = Entries
    BY DEF CloseSound, RowsSound, ColumnsSound, Entries
  <2>3. \A m \in Manager :
           /\ task[m].phase \in {"none", "begin", "close", "transfer", "reopen"}
           /\ task[m].phase # "none" => task[m].period \in Period
           /\ task[m].entries \subseteq closing
           /\ task[m].lines \in Net
    BY DEF CloseSound, TasksSound, TaskRecord
  <2> QED
    BY <2>1, <2>2, <2>3 DEF CloseTypeOK
<1> QED
  BY <1>1, CloseAlwaysSound, PTL
-----------------------------------------------------------------------------
(* What a list of lines posts to an account.                               *)
Posted(list, a) == SumTo([i \in DOMAIN list |-> list[i][a]], Len(list))

(* It is an integer.                                                       *)
LEMMA PostedType ==
    ASSUME NEW list \in Seq(Net), NEW a \in Account PROVE Posted(list, a) \in Int
<1>1. [b \in Account |-> 0] \in [Account -> Int]
  OBVIOUS
<1> QED
  BY <1>1, PostAllType DEF Posted

(* If every list of lines balances, what is posted balances: sum the lines *)
(* of one entry after the other, not of one account after the other.       *)
LEMMA PostedBalanced ==
    ASSUME NEW list \in Seq(Net), \A i \in DOMAIN list : IsBalanced(list[i])
    PROVE  SumTo([a \in Account |-> Posted(list, a)], NumAccounts) = 0
<1> DEFINE n       == Len(list)
           f(a)    == [i \in DOMAIN list |-> list[i][a]]
           part(k) == [a \in Account |-> SumTo(f(a), k)]
           S       == {k \in Nat : k <= n => SumTo(part(k), NumAccounts) = 0}
<1>1. n \in Nat /\ DOMAIN list = 1 .. n
  OBVIOUS
<1>2. ASSUME NEW i \in 1 .. n PROVE list[i] \in Net /\ SumTo(list[i], NumAccounts) = 0
  BY <1>1, <1>2 DEF IsBalanced
<1>3. ASSUME NEW a \in Account, NEW k \in Nat, k <= n
      PROVE  SumTo(f(a), k) \in Int
  <2> DEFINE g == f(a)
  <2>1. \A i \in 1 .. k : g[i] \in Int
    <3>1. \A i \in 1 .. k : i \in 1 .. n
      BY <1>1, <1>3
    <3> QED
      BY <1>1, <1>2, <3>1 DEF Net
  <2> HIDE DEF g
  <2>2. SumTo(g, k) \in Int
    BY <1>3, <2>1, SumToType
  <2> QED
    BY <2>2 DEF g
<1>4. 0 \in S
  <2>1. \A a \in Account : SumTo(f(a), 0) = 0
    BY SumToStep
  <2>2. \A a \in 1 .. NumAccounts : part(0)[a] = 0
    BY <2>1 DEF Account
  <2> HIDE DEF part
  <2>3. SumTo(part(0), NumAccounts) = 0
    BY <2>2, SumToZero, NumAccountsAssumption
  <2> QED
    BY <2>3
<1>5. ASSUME NEW k \in Nat, k \in S PROVE k + 1 \in S
  <2>1. SUFFICES ASSUME k + 1 <= n PROVE SumTo(part(k + 1), NumAccounts) = 0
    OBVIOUS
  <2> DEFINE old == part(k)
             new == part(k + 1)
             add == list[k + 1]
  <2>2. k <= n /\ k + 1 \in 1 .. n /\ k + 1 \in Nat
    BY <1>1, <2>1
  <2>3. SumTo(old, NumAccounts) = 0
    BY <1>5, <2>2
  <2>4. add \in Net /\ SumTo(add, NumAccounts) = 0
    BY <1>2, <2>2
  <2>5. ASSUME NEW a \in Account
        PROVE  old[a] \in Int /\ add[a] \in Int /\ new[a] = old[a] + add[a]
    <3>1. SumTo(f(a), k + 1) = SumTo(f(a), k) + f(a)[k + 1]
      BY SumToStep
    <3>2. f(a)[k + 1] = add[a]
      BY <1>1, <2>2
    <3>3. old[a] = SumTo(f(a), k) /\ new[a] = SumTo(f(a), k + 1)
      OBVIOUS
    <3>4. SumTo(f(a), k) \in Int
      BY <1>3, <2>2
    <3>5. add[a] \in Int
      BY <2>4 DEF Net
    <3> HIDE DEF f, old, new, add
    <3> QED
      BY <3>1, <3>2, <3>3, <3>4, <3>5
  <2> HIDE DEF old, new, add
  <2>6. \A a \in 1 .. NumAccounts :
           old[a] \in Int /\ add[a] \in Int /\ new[a] = old[a] + add[a]
    BY <2>5 DEF Account
  <2>7. SumTo(new, NumAccounts) = SumTo(old, NumAccounts) + SumTo(add, NumAccounts)
    BY <2>6, SumToAdd, NumAccountsAssumption
  <2>8. SumTo(new, NumAccounts) = 0
    BY <2>3, <2>4, <2>7
  <2> QED
    BY <2>8 DEF new
<1> HIDE DEF S
<1>6. n \in S
  <2>1. Nat \subseteq S
    BY <1>4, <1>5, SetInduction
  <2> QED
    BY <1>1, <2>1
<1>7. SumTo(part(n), NumAccounts) = 0
  BY <1>1, <1>6 DEF S
<1> QED
  BY <1>7 DEF Posted

(* A close or a reopening keeps the balances in balance.                   *)
LEMMA PostAllBalanced ==
    ASSUME NEW bal \in [Account -> Int], NEW list \in Seq(Net),
           \A i \in DOMAIN list : IsBalanced(list[i])
    PROVE  SumTo(AsDebits(PostAll(bal, list)), NumAccounts)
              = SumTo(AsDebits(bal), NumAccounts)
<1> DEFINE posted == [a \in Account |-> Posted(list, a)]
           old    == AsDebits(bal)
           new    == AsDebits(PostAll(bal, list))
<1>1. ASSUME NEW a \in Account
      PROVE  old[a] \in Int /\ posted[a] \in Int /\ new[a] = old[a] + posted[a]
  <2>1. bal[a] \in Int /\ Posted(list, a) \in Int
    BY PostedType
  <2>2. PostAll(bal, list)[a] = bal[a] + BalanceDelta(effectiveNormalSide(a), Posted(list, a))
    BY DEF PostAll, Posted
  <2>3. \A side, c, d : c \in Int /\ d \in Int =>
           /\ BalanceDelta(side, c) \in Int
           /\ BalanceDelta(side, c + BalanceDelta(side, d)) = BalanceDelta(side, c) + d
    BY DEF BalanceDelta
  <2>4. /\ old[a] = BalanceDelta(effectiveNormalSide(a), bal[a])
        /\ new[a] = BalanceDelta(effectiveNormalSide(a), PostAll(bal, list)[a])
        /\ posted[a] = Posted(list, a)
    BY DEF AsDebits
  <2> HIDE DEF posted, old, new
  <2> QED
    BY <2>1, <2>2, <2>3, <2>4
<1>2. SumTo(posted, NumAccounts) = 0
  BY PostedBalanced
<1> HIDE DEF posted, old, new
<1>3. \A a \in 1 .. NumAccounts :
         old[a] \in Int /\ posted[a] \in Int /\ new[a] = old[a] + posted[a]
  BY <1>1 DEF Account
<1>4. SumTo(new, NumAccounts) = SumTo(old, NumAccounts) + SumTo(posted, NumAccounts)
  BY <1>3, SumToAdd, NumAccountsAssumption
<1>5. SumTo(old, NumAccounts) \in Int
  BY <1>3, SumToType, NumAccountsAssumption
<1>6. SumTo(new, NumAccounts) = SumTo(old, NumAccounts)
  BY <1>2, <1>4, <1>5
<1> QED
  BY <1>6 DEF old, new
-----------------------------------------------------------------------------
(* What a step of a manager does to the ledger: nothing, or it adds a list *)
(* of posted entries.  The requests are as they were.                      *)
LEMMA PeriodStepAdds ==
    ASSUME CloseSound, NEW m \in Manager, PeriodStep(m)
    PROVE  /\ CloseSound'
           /\ \/ UNCHANGED vars
              \/ /\ \E rows \in Seq(SoundEntry) : AddsPosted(rows)
                 /\ UNCHANGED <<pc, work>>
<1>1. CASE \/ CompleteCloseWorkflow(m) \/ CloseRead(m) \/ SummaryRead(m)
           \/ ReopenRead(m) \/ AbandonTask(m)
  BY <1>1, ReadStepsSound
<1>2. CASE CloseCommit(m)
  <2>1. UNCHANGED <<pc, work>>
    BY <1>2 DEF CloseCommit
  <2> QED
    BY <1>2, <2>1, CloseCommitSound
<1>3. CASE ReopenCommit(m)
  <2>1. UNCHANGED <<pc, work>>
    BY <1>3 DEF ReopenCommit
  <2> QED
    BY <1>3, <2>1, ReopenCommitSound
<1> QED
  BY <1>1, <1>2, <1>3 DEF PeriodStep

(* A list of posted entries keeps the balances in balance, whatever the    *)
(* journal service takes for the side of an account.                       *)
LEMMA AddedInBalance ==
    ASSUME RowsSound, LedgerInBalance, NEW rows \in Seq(SoundEntry), AddsPosted(rows)
    PROVE  LedgerInBalance'
<1> DEFINE list == [i \in 1 .. Len(rows) |-> rows[i].lines]
<1>1. balance \in [Account -> Int] /\ Len(rows) \in Nat
  BY DEF RowsSound
<1>2. \A i \in 1 .. Len(rows) : rows[i].lines \in Net /\ IsBalanced(rows[i].lines)
  BY ElementOfSeq DEF SoundEntry, Entry
<1>3. list \in Seq(Net) /\ DOMAIN list = 1 .. Len(rows)
  <2>1. list \in [1 .. Len(rows) -> Net]
    BY <1>2
  <2> HIDE DEF list
  <2> QED
    BY <1>1, <2>1, SeqDef
<1>4. \A i \in DOMAIN list : IsBalanced(list[i])
  BY <1>2, <1>3
<1>5. balance' = PostAll(balance, list)
  BY DEF AddsPosted
<1> HIDE DEF list
<1>6. SumTo(AsDebits(PostAll(balance, list)), NumAccounts)
         = SumTo(AsDebits(balance), NumAccounts)
  BY <1>1, <1>3, <1>4, PostAllBalanced
<1> QED
  BY <1>5, <1>6 DEF LedgerInBalance

(* The chart stays in balance through every close and reopening, whatever  *)
(* the balances and the requests were when the managers read and when they *)
(* commit.                                                                 *)
THEOREM CloseInBalance == SidesAgree => (CloseSpec => []LedgerInBalance)
<1> SUFFICES ASSUME SidesAgree PROVE CloseSpec => []LedgerInBalance
  OBVIOUS
<1>1. ASSUME CloseSound, LedgerInBalance, [CloseNext]_allVars PROVE LedgerInBalance'
  <2>1. CASE UNCHANGED allVars
    BY <1>1, <2>1 DEF allVars, vars, LedgerInBalance
  <2>2. CASE LedgerStep
    BY <1>1, <2>2, StepInBalance DEF LedgerStep, CloseSound
  <2>3. ASSUME NEW m \in Manager, PeriodStep(m) PROVE LedgerInBalance'
    <3>1. CASE UNCHANGED vars
      BY <1>1, <3>1 DEF vars, LedgerInBalance
    <3>2. CASE \E rows \in Seq(SoundEntry) : AddsPosted(rows)
      BY <1>1, <3>2, AddedInBalance DEF CloseSound
    <3> QED
      BY <1>1, <2>3, <3>1, <3>2, PeriodStepAdds
  <2> QED
    BY <1>1, <2>1, <2>2, <2>3 DEF CloseNext
<1>2. CloseInit => LedgerInBalance
  BY ZeroBalanced DEF CloseInit, Init, LedgerInBalance
<1>3. CloseSound /\ LedgerInBalance /\ [CloseNext]_allVars => LedgerInBalance'
  BY <1>1
<1> QED
  BY <1>2, <1>3, CloseAlwaysSound, PTL DEF CloseSpec

-----------------------------------------------------------------------------
(* A company whose entries come from documents and from closing is one     *)
(* whose users never open the journal.                                     *)
LEMMA DocumentsAreRequests == DocumentsNext => CloseNext
BY DEF DocumentsNext, DocumentStep, CloseNext, LedgerStep, Next, Step

(* So all that holds of any company holds of this one: rows balance, every *)
(* task knows its period, and every column of the close its entry.         *)
THEOREM DocumentsAlwaysSound == DocumentsSpec => CloseSpec /\ []CloseSound
<1>1. [DocumentsNext]_allVars => [CloseNext]_allVars
  BY DocumentsAreRequests
<1>2. DocumentsSpec => CloseSpec
  BY <1>1, PTL DEF DocumentsSpec, CloseSpec
<1> QED
  BY <1>2, CloseAlwaysSound, PTL

(* Its steps only ever add posted entries.                                 *)
LEMMA DocumentsStepAdds ==
    ASSUME CloseSound, [DocumentsNext]_allVars
    PROVE  /\ UNCHANGED <<pc, work>>
           /\ \/ UNCHANGED vars
              \/ \E rows \in Seq(SoundEntry) : AddsPosted(rows)
<1>1. CASE UNCHANGED allVars
  BY <1>1 DEF allVars, vars
<1>2. ASSUME NEW r \in Request, CreateAndPostJE(r)
      PROVE  UNCHANGED <<pc, work>> /\ \E rows \in Seq(SoundEntry) : AddsPosted(rows)
  <2>1. UNCHANGED <<pc, work>>
    BY <1>2 DEF CreateAndPostJE
  <2> QED
    BY <1>2, <2>1, DocumentAdds DEF CloseSound
<1>3. ASSUME NEW m \in Manager, PeriodStep(m)
      PROVE  /\ UNCHANGED <<pc, work>>
             /\ UNCHANGED vars \/ \E rows \in Seq(SoundEntry) : AddsPosted(rows)
  BY <1>3, PeriodStepAdds DEF vars
<1> QED
  BY <1>1, <1>2, <1>3 DEF DocumentsNext, DocumentStep

(* Such a company's chart is in balance even where the two conventions     *)
(* about the side of an account differ: only one of them is used.          *)
THEOREM DocumentsInBalance == DocumentsSpec => []LedgerInBalance
<1>1. ASSUME CloseSound, LedgerInBalance, [DocumentsNext]_allVars PROVE LedgerInBalance'
  <2>1. CASE UNCHANGED vars
    BY <1>1, <2>1 DEF vars, LedgerInBalance
  <2>2. CASE \E rows \in Seq(SoundEntry) : AddsPosted(rows)
    BY <1>1, <2>2, AddedInBalance DEF CloseSound
  <2> QED
    BY <1>1, <2>1, <2>2, DocumentsStepAdds
<1>2. CloseInit => LedgerInBalance
  BY ZeroBalanced DEF CloseInit, Init, LedgerInBalance
<1>3. CloseSound /\ LedgerInBalance /\ [DocumentsNext]_allVars => LedgerInBalance'
  BY <1>1
<1> QED
  BY <1>2, <1>3, DocumentsAlwaysSound, PTL DEF DocumentsSpec
-----------------------------------------------------------------------------
(* Managers beside requests that do not overlap.                           *)
LEMMA CloseSerialStep ==
    ASSUME CloseSound, SerialInv, NoOverlap, [CloseNext]_allVars
    PROVE  SerialInv' /\ BooksChange
<1>1. RowsSound /\ RowsSound'
  BY CloseNextSound DEF CloseSound
<1>2. CASE [Next]_vars
  BY <1>1, <1>2, SerialStep
<1>3. CASE (\E rows \in Seq(SoundEntry) : AddsPosted(rows)) /\ UNCHANGED <<pc, work>>
  <2>1. BooksChange
    BY <1>3 DEF BooksChange
  <2>2. RowsInOrder' /\ CorrectedOnce' /\ NumbersDense'
    BY <1>1, <2>1, OrderKept, CorrectedOnceKept, NumbersKept DEF SerialInv
  <2>3. ReadsAreCurrent'
    BY <1>1, <1>3, ReadsBesideAdded
  <2> QED
    BY <2>1, <2>2, <2>3 DEF SerialInv
<1>4. \/ [Next]_vars
      \/ (\E rows \in Seq(SoundEntry) : AddsPosted(rows)) /\ UNCHANGED <<pc, work>>
  <2>1. CASE UNCHANGED allVars
    BY <2>1 DEF allVars
  <2>2. CASE LedgerStep
    BY <2>2 DEF LedgerStep
  <2>3. ASSUME NEW m \in Manager, PeriodStep(m)
        PROVE  \/ UNCHANGED vars
               \/ /\ \E rows \in Seq(SoundEntry) : AddsPosted(rows)
                  /\ UNCHANGED <<pc, work>>
    BY <2>3, PeriodStepAdds
  <2> QED
    BY <2>1, <2>2, <2>3 DEF CloseNext
<1> QED
  BY <1>2, <1>3, <1>4

(* A close or a reopening may come between the read and the transaction of *)
(* a request and disturbs neither: what holds of requests that do not      *)
(* overlap holds beside any number of managers.                            *)
THEOREM CloseKeepsRequestsCurrent == CloseSpec /\ []NoOverlap => []SerialInv
<1>1. CloseInit => SerialInv
  BY SerialInit DEF CloseInit
<1>2. CloseSound /\ SerialInv /\ NoOverlap /\ [CloseNext]_allVars => SerialInv'
  BY CloseSerialStep
<1> QED
  BY <1>1, <1>2, CloseAlwaysSound, PTL DEF CloseSpec

(* So every cached balance is the total of the entries in the books over   *)
(* any sequence of requests, closes and reopenings too: what a close posts *)
(* from what it read it also posts to the balances.                        *)
THEOREM CloseBooksMatch ==
    SidesAgree => (CloseSpec /\ []NoOverlap => []BooksMatchJournal)
<1> SUFFICES ASSUME SidesAgree PROVE CloseSpec /\ []NoOverlap => []BooksMatchJournal
  OBVIOUS
<1>1. ASSUME CloseSound, SerialInv, NoOverlap, BooksMatchJournal, [CloseNext]_allVars
      PROVE  BooksMatchJournal'
  <2>1. RowsSound /\ RowsSound' /\ BooksChange
    BY <1>1, CloseNextSound, CloseSerialStep DEF CloseSound
  <2> QED
    BY <1>1, <2>1, BooksKept DEF SerialInv
<1>2. CloseInit => BooksMatchJournal
  BY BooksInit DEF CloseInit
<1>3. /\ CloseSound /\ SerialInv /\ NoOverlap /\ BooksMatchJournal
      /\ [CloseNext]_allVars
      => BooksMatchJournal'
  BY <1>1
<1> QED
  BY <1>2, <1>3, CloseKeepsRequestsCurrent, CloseAlwaysSound, PTL DEF CloseSpec

(* Where entries come from documents and closing only, this needs no       *)
(* hypothesis: nothing overlaps, and one convention about sides is used.   *)
THEOREM DocumentsBooksMatch == DocumentsSpec => []BooksMatchJournal
<1> DEFINE Idle == \A r \in Request : pc[r] = "idle"
<1>1. DocumentsSpec => []Idle
  <2>1. CloseInit => Idle
    BY DEF CloseInit, Init
  <2>2. CloseSound /\ Idle /\ [DocumentsNext]_allVars => Idle'
    BY DocumentsStepAdds
  <2> HIDE DEF Idle
  <2> QED
    BY <2>1, <2>2, DocumentsAlwaysSound, PTL DEF DocumentsSpec
<1>2. Idle => NoOverlap
  BY DEF NoOverlap
<1>3. ASSUME CloseSound, SerialInv, BooksMatchJournal, [DocumentsNext]_allVars
      PROVE  BooksMatchJournal'
  <2>1. RowsSound /\ RowsSound'
    BY <1>3, CloseNextSound, DocumentsAreRequests DEF CloseSound
  <2>2. CASE UNCHANGED vars
    BY <1>3, <2>2 DEF vars, BooksMatchJournal, BookTotal, InBooks, Entries
  <2>3. CASE \E rows \in Seq(SoundEntry) : AddsPosted(rows)
    <3>1. BooksChange
      BY <2>3 DEF BooksChange
    <3> QED
      BY <1>3, <2>1, <2>3, <3>1, BooksKept DEF SerialInv
  <2> QED
    BY <1>3, <2>2, <2>3, DocumentsStepAdds
<1>4. CloseInit => BooksMatchJournal
  BY BooksInit DEF CloseInit
<1>5. CloseSound /\ SerialInv /\ BooksMatchJournal /\ [DocumentsNext]_allVars
         => BooksMatchJournal'
  BY <1>3
<1> HIDE DEF Idle
<1> QED
  BY <1>1, <1>2, <1>4, <1>5, DocumentsAlwaysSound, CloseKeepsRequestsCurrent, PTL
     DEF DocumentsSpec
-----------------------------------------------------------------------------
(* What one list of lists posts after another.                             *)
LEMMA PostedConcat ==
    ASSUME NEW l \in Seq(Net), NEW k \in Seq(Net), NEW a \in Account
    PROVE  Posted(l \o k, a) = Posted(l, a) + Posted(k, a)
<1> DEFINE both == l \o k
           f == [i \in DOMAIN l |-> l[i][a]]
           g == [i \in DOMAIN k |-> k[i][a]]
           h == [i \in DOMAIN both |-> both[i][a]]
           n == Len(l)
           m == Len(k)
<1>1. n \in Nat /\ m \in Nat /\ DOMAIN l = 1 .. n /\ DOMAIN k = 1 .. m
  OBVIOUS
<1>2. /\ both \in Seq(Net) /\ Len(both) = n + m
      /\ \A i \in 1 .. n + m : both[i] = IF i <= n THEN l[i] ELSE k[i - n]
  BY ConcatProperties
<1>3. DOMAIN both = 1 .. n + m
  BY <1>2
<1> HIDE DEF both, n, m
<1>4. ASSUME NEW i \in 1 .. n PROVE f[i] \in Int /\ h[i] = f[i]
  <2>1. i \in 1 .. n + m /\ i <= n
    BY <1>1
  <2>2. both[i] = l[i]
    BY <1>2, <2>1
  <2>3. l[i] \in Net
    BY ElementOfSeq DEF n
  <2>4. f[i] = l[i][a] /\ h[i] = both[i][a]
    BY <1>1, <1>3, <2>1
  <2> QED
    BY <2>2, <2>3, <2>4 DEF Net
<1>5. ASSUME NEW i \in 1 .. m PROVE g[i] \in Int /\ h[n + i] = g[i]
  <2>1. n + i \in 1 .. n + m /\ ~(n + i <= n) /\ (n + i) - n = i
    BY <1>1
  <2>2. both[n + i] = k[i]
    BY <1>2, <2>1
  <2>3. k[i] \in Net
    BY ElementOfSeq DEF m
  <2>4. g[i] = k[i][a] /\ h[n + i] = both[n + i][a]
    BY <1>1, <1>3, <2>1
  <2> QED
    BY <2>2, <2>3, <2>4 DEF Net
<1> HIDE DEF f, g, h
<1>6. Follows(f, n, g, m, h)
  BY <1>1, <1>4, <1>5 DEF Follows
<1>7. SumTo(h, n + m) = SumTo(f, n) + SumTo(g, m)
  BY <1>6, SumToConcat
<1>8. Posted(both, a) = SumTo(h, n + m)
  BY <1>2 DEF Posted, h
<1>9. Posted(l, a) = SumTo(f, n) /\ Posted(k, a) = SumTo(g, m)
  BY DEF Posted, f, g, n, m
<1> QED
  BY <1>7, <1>8, <1>9 DEF both

(* An entry whose lines are all zero is left out, and posts nothing.       *)
LEMMA PostedNonZero ==
    ASSUME NEW lines \in Net, NEW a \in Account
    PROVE  Posted(NonZero(lines), a) = lines[a]
<1>1. lines[a] \in Int
  BY DEF Net
<1>2. CASE Touched(lines) = {}
  <2>1. lines[a] = 0
    BY <1>2 DEF Touched
  <2>2. NonZero(lines) = << >>
    BY <1>2 DEF NonZero
  <2>3. Posted(<< >>, a) = 0
    BY SumToStep DEF Posted
  <2> QED
    BY <2>1, <2>2, <2>3
<1>3. CASE Touched(lines) # {}
  <2> DEFINE one == <<lines>>
             f   == [i \in DOMAIN one |-> one[i][a]]
  <2>1. NonZero(lines) = one
    BY <1>3 DEF NonZero
  <2>2. Len(one) = 1 /\ f[1] = lines[a]
    OBVIOUS
  <2> HIDE DEF f
  <2>3. SumTo(f, 0) = 0 /\ SumTo(f, 0 + 1) = SumTo(f, 0) + f[0 + 1]
    BY SumToStep
  <2>4. SumTo(f, 1) = lines[a]
    BY <1>1, <2>2, <2>3
  <2>5. Posted(one, a) = SumTo(f, 1)
    BY <2>2 DEF Posted, f
  <2> QED
    BY <2>1, <2>4, <2>5
<1> QED
  BY <1>2, <1>3

(* A close posts to a nominal account what it computed for it.             *)
LEMMA CloseEntriesPost ==
    ASSUME RowsSound, NEW lines \in Net, NEW a \in Nominal
    PROVE  Posted(CloseEntries(lines), a) = lines[a]
<1> DEFINE revenue == ToSummary(lines, Revenue)
           expense == ToSummary(lines, Expense)
           nominal == NonZero(revenue) \o NonZero(expense)
           amount  == PostAll(balance, nominal)[IncomeSummary]
           moved   == ToRetained(amount)
<1>1. /\ a \in Account /\ a # IncomeSummary /\ a # RetainedEarnings
      /\ a \in Revenue <=> a \notin Expense
      /\ lines[a] \in Int
  BY ChartAssumption DEF Nominal, Net
<1>2. ASSUME NEW accounts PROVE ToSummary(lines, accounts)[a] = IF a \in accounts THEN lines[a] ELSE 0
  BY <1>1 DEF ToSummary
<1>3. revenue[a] + expense[a] = lines[a] /\ revenue[a] \in Int /\ expense[a] \in Int
  BY <1>1, <1>2
<1>4. moved[a] = 0
  BY <1>1 DEF ToRetained
<1>5. revenue \in Net /\ expense \in Net
  BY ToSummaryNet
<1> HIDE DEF revenue, expense
<1>6. NonZero(revenue) \in Seq(Net) /\ NonZero(expense) \in Seq(Net)
  BY <1>5, NonZeroNets
<1>7. nominal \in Seq(Net)
  BY <1>6, ConcatProperties
<1>8. Posted(nominal, a) = revenue[a] + expense[a]
  <2>1. Posted(nominal, a) = Posted(NonZero(revenue), a) + Posted(NonZero(expense), a)
    BY <1>1, <1>6, PostedConcat
  <2> QED
    BY <1>1, <1>5, <2>1, PostedNonZero
<1> HIDE DEF nominal
<1>9. moved \in Net
  <2>1. balance \in [Account -> Int] /\ IncomeSummary \in Account
    BY ChartAssumption DEF RowsSound
  <2>2. amount \in Int
    BY <1>7, <2>1, PostAllType
  <2> HIDE DEF amount
  <2> QED
    BY <2>2 DEF ToRetained, Net
<1> HIDE DEF amount, moved
<1>10. NonZero(moved) \in Seq(Net)
  BY <1>9, NonZeroNets
<1>11. Posted(nominal \o NonZero(moved), a) = Posted(nominal, a) + Posted(NonZero(moved), a)
  BY <1>1, <1>7, <1>10, PostedConcat
<1>12. Posted(NonZero(moved), a) = moved[a]
  BY <1>1, <1>9, PostedNonZero
<1>13. Posted(nominal \o NonZero(moved), a) = lines[a]
  BY <1>1, <1>3, <1>4, <1>8, <1>11, <1>12
<1> QED
  BY <1>13 DEF CloseEntries, NominalEntries, nominal, moved, amount, revenue, expense

-----------------------------------------------------------------------------
(* No step deactivates an account, so a close reads all of them.           *)
ChartActive == \A a \in Account : active[a]

(* An account that is active stays so.                                     *)
LEMMA ActiveKept ==
    ASSUME CloseSound, ChartActive, [CloseNext]_allVars PROVE ChartActive'
<1>1. active' = active
  <2>1. CASE UNCHANGED allVars
    BY <2>1 DEF allVars, vars
  <2>2. CASE LedgerStep
    BY <2>2, StepTouches DEF LedgerStep, Next, CloseSound
  <2>3. ASSUME NEW m \in Manager, PeriodStep(m) PROVE active' = active
    BY <2>3 DEF PeriodStep, CompleteCloseWorkflow, CloseRead, SummaryRead, CloseCommit, ReopenRead,
                ReopenCommit, AbandonTask, vars
  <2> QED
    BY <2>1, <2>2, <2>3 DEF CloseNext
<1> QED
  BY <1>1 DEF ChartActive

(* Only the close itself ends a close and writes the journal.              *)
LEMMA OnlyCloseCommits ==
    ASSUME CloseSound, [CloseNext]_allVars, NEW m \in Manager,
           task[m].phase = "close", task'[m] = NoTask, journal' # journal
    PROVE  CloseCommit(m)
<1>1. task[m] # NoTask
  BY NoTaskSound
<1>2. task'[m] # task[m]
  BY <1>1
<1>3. ~LedgerStep /\ ~UNCHANGED allVars
  BY <1>2 DEF LedgerStep, Unrelated, allVars, closeVars
<1>4. PICK n \in Manager : PeriodStep(n)
  BY <1>3 DEF CloseNext
<1>5. \E t : task' = [task EXCEPT ![n] = t]
  <2>1. CASE SummaryRead(n)
    BY <2>1 DEF SummaryRead, CloseSound, TasksSound
  <2>2. CASE ~SummaryRead(n)
    BY <1>4, <2>2 DEF PeriodStep, CompleteCloseWorkflow, CloseRead, CloseCommit,
                      ReopenRead, ReopenCommit, AbandonTask
  <2> QED
    BY <2>1, <2>2
<1>6. n = m
  BY <1>2, <1>5 DEF CloseSound, TasksSound
<1>7. ~ReopenCommit(m)
  BY DEF ReopenCommit
<1>8. ~(\/ CompleteCloseWorkflow(m) \/ CloseRead(m) \/ SummaryRead(m)
        \/ ReopenRead(m) \/ AbandonTask(m))
  BY DEF CompleteCloseWorkflow, CloseRead, SummaryRead, ReopenRead, AbandonTask, vars
<1> QED
  BY <1>4, <1>6, <1>7, <1>8 DEF PeriodStep

(* A close leaves nothing on the accounts it closes, however many there    *)
(* are and whatever they hold: if nothing was posted since it read them,   *)
(* all of them stand at zero when it commits.  What other managers and     *)
(* requests do meanwhile does not matter as long as it posts nothing.      *)
THEOREM CloseLeavesNothingBehind == CloseSpec => CloseLeavesNothing
<1> DEFINE Nothing ==
             \A m \in Manager, a \in Nominal :
                /\ task[m].phase = "close" /\ task'[m] = NoTask /\ journal' # journal
                /\ \A b \in Account : task[m].lines[b] = ClosingLine(b)
                /\ effectiveNormalSide(a) = IF a \in Revenue THEN "CREDIT" ELSE "DEBIT"
                => balance'[a] = 0
<1>1. ASSUME CloseSound, ChartActive, [CloseNext]_allVars,
             NEW m \in Manager, NEW a \in Nominal,
             task[m].phase = "close", task'[m] = NoTask, journal' # journal,
             \A b \in Account : task[m].lines[b] = ClosingLine(b),
             effectiveNormalSide(a) = IF a \in Revenue THEN "CREDIT" ELSE "DEBIT"
      PROVE  balance'[a] = 0
  <2> DEFINE lines == task[m].lines
  <2>1. RowsSound /\ lines \in Net
    BY <1>1 DEF CloseSound, TasksSound, TaskRecord
  <2>2. balance' = PostAll(balance, CloseEntries(lines))
    BY <1>1, OnlyCloseCommits DEF CloseCommit, Insert, Prepared
  <2>3. /\ a \in Account /\ balance[a] \in Int /\ active[a]
        /\ a \in Revenue <=> a \notin Expense
    BY <1>1, <2>1, ChartAssumption DEF Nominal, RowsSound, ChartActive
  <2>4. lines[a] = IF a \in Revenue THEN balance[a] ELSE 0 - balance[a]
    BY <1>1, <2>3 DEF ClosingLine
  <2> HIDE DEF lines
  <2>5. Posted(CloseEntries(lines), a) = lines[a]
    BY <1>1, <2>1, CloseEntriesPost
  <2>6. balance'[a] = balance[a] + BalanceDelta(effectiveNormalSide(a), lines[a])
    BY <2>2, <2>3, <2>5 DEF PostAll, Posted
  <2>7. CASE a \in Revenue
    BY <1>1, <2>3, <2>4, <2>6, <2>7 DEF BalanceDelta
  <2>8. CASE a \notin Revenue
    BY <1>1, <2>3, <2>4, <2>6, <2>8 DEF BalanceDelta
  <2> QED
    BY <2>7, <2>8
<1>2. CloseSound /\ ChartActive /\ [CloseNext]_allVars => [Nothing]_allVars
  BY <1>1
<1>3. CloseInit => ChartActive
  BY DEF CloseInit, ChartActive
<1>4. CloseSound /\ ChartActive /\ [CloseNext]_allVars => ChartActive'
  BY ActiveKept
<1> HIDE DEF Nothing
<1>5. CloseSpec => [][Nothing]_allVars
  BY <1>2, <1>3, <1>4, CloseAlwaysSound, PTL DEF CloseSpec
<1> QED
  BY <1>5 DEF CloseLeavesNothing, Nothing
-----------------------------------------------------------------------------
(* What a close did is undone when its period opens again.  That takes one *)
(* manager at a time: of two, one may close the period again after the     *)
(* other has read which entries to reverse.  Of the requests nothing is    *)
(* asked; they may overlap.                                                *)
OneManager == \A m, n \in Manager : m = n

(* The entries of a close, and those that reverse them, are never drafts,  *)
(* and no request that posts, deletes or rewrites a draft works on one.    *)
OfClose(d) == d \in closing \/ reversalOf[d] # 0

DraftsApart ==
    /\ \A d \in Entries : OfClose(d) => journal[d].postingStatus # "DRAFT"
    /\ \A r \in Request, d \in Entries : OnDraft(r, d) => ~OfClose(d)

(* A reopening has read every entry of a close that stands in its period.  *)
StandsInClose(e, p) == /\ e \in closing
                       /\ journal[e].date = p
                       /\ journal[e].previousId = 0
                       /\ journal[e].postingStatus = "POSTED"

ReopenSeesAll ==
    \A m \in Manager : task[m].phase = "reopen" =>
       \A e \in closing : StandsInClose(e, task[m].period) => e \in task[m].entries

Reversed(e) == \E f \in Entries : /\ reversalOf[f] = e
                                  /\ journal[f].lines = Mirror(journal[e].lines)

CloseUndone == DraftsApart /\ CreatesDrafts /\ ReopenSeesAll /\ OpenPeriodIsUndone

(* A request works on a draft because it read one, or did before.          *)
LEMMA DraftWasRead ==
    ASSUME RowsSound, NEW r \in Request, Step(r), NEW d \in Entries, OnDraft(r, d)'
    PROVE  OnDraft(r, d) \/ journal[d].postingStatus = "DRAFT"
<1>0. /\ pc \in [Request -> Steps]
      /\ work \in [Request -> [id : Nat, je : SoundEntry, number : EntryNumber]]
      /\ pc'[r] \in {"postGuard", "postCommit", "delete", "editDraft"} /\ work'[r].id = d
  BY DEF RowsSound, RequestsSound, OnDraft
<1>1. ~Finish(r)
  BY <1>0 DEF Finish
<1>2. ASSUME NEW e \in Entries, NEW next, ReadEntry(r, e, next)
      PROVE  e = d /\ next \in {"postGuard", "postCommit", "delete", "editDraft"}
  <2>1. work'[r].id = e
    BY <1>0, <1>2, NoWorkSound DEF ReadEntry
  <2>2. pc'[r] = next
    BY <1>0, <1>2 DEF ReadEntry
  <2> QED
    BY <1>0, <2>1, <2>2
<1>3. CASE PostRead(r)
  BY <1>2, <1>3 DEF PostRead, Postable
<1>4. CASE DeleteRead(r)
  BY <1>2, <1>4 DEF DeleteRead
<1>5. CASE EditRead(r)
  <2>1. PICK e \in Entries : /\ journal[e].postingStatus # "VOIDED"
                             /\ ReadEntry(r, e, EditBranch(journal[e].postingStatus))
    BY <1>5 DEF EditRead
  <2>2. e = d /\ EditBranch(journal[e].postingStatus) # "editPosted"
    BY <1>2, <2>1
  <2>3. journal[d].postingStatus \in Status
    BY RowSound DEF SoundEntry, Entry
  <2> QED
    BY <2>1, <2>2, <2>3 DEF EditBranch, Status
<1>6. CASE PostGuard(r)
  <2>1. work'[r].id = work[r].id
    BY <1>0, <1>1, <1>6 DEF PostGuard
  <2>2. pc[r] = "postGuard"
    BY <1>6 DEF PostGuard
  <2> QED
    BY <1>0, <2>1, <2>2 DEF OnDraft
<1>7. ~VoidRead(r) /\ ~ReverseRead(r)
  BY <1>2 DEF VoidRead, ReverseRead
<1>8. ~CreateGuard(r)
  BY <1>0 DEF CreateGuard
<1>9. CASE CreateAndPostJE(r)
  BY <1>0, <1>9 DEF CreateAndPostJE, OnDraft
<1> QED
  BY <1>1, <1>3, <1>4, <1>5, <1>6, <1>7, <1>8, <1>9
     DEF Step, CreateCommit, PostCommit, DeleteCommit, VoidCommit, EditDraftCommit,
         EditPostedCommit, ReverseCommit, Abandon
(* A list of posted entries leaves the drafts apart.                       *)
LEMMA AddedApart ==
    ASSUME CloseSound, CloseUndone, NEW rows \in Seq(SoundEntry), AddsPosted(rows),
           UNCHANGED <<pc, work>>, \A e \in Entries : reversalOf'[e] = reversalOf[e],
           closing' \subseteq closing \cup {Len(journal) + i : i \in 1 .. Len(rows)}
    PROVE  DraftsApart' /\ CreatesDrafts'
<1>1. /\ Entries = 1 .. Len(journal) /\ Len(journal) \in Nat /\ Len(rows) \in Nat
      /\ \A e \in Entries : journal'[e] = journal[e]
      /\ \A e \in Entries' \ Entries : /\ e - Len(journal) \in 1 .. Len(rows)
                                       /\ journal'[e] = rows[e - Len(journal)]
  BY ConcatAt DEF CloseSound, AddsPosted
<1>2. \A e \in Entries : e \in closing' => e \in closing
  BY <1>1
<1>3. \A e \in Entries : OfClose(e)' => OfClose(e)
  BY <1>2 DEF OfClose
<1>4. ASSUME NEW d \in Entries' \ Entries PROVE journal'[d].postingStatus = "POSTED"
  BY <1>1 DEF AddsPosted, Stands
<1>5. ASSUME NEW d \in Entries', OfClose(d)' PROVE journal'[d].postingStatus # "DRAFT"
  <2>1. CASE d \in Entries
    BY <1>1, <1>3, <1>5, <2>1 DEF CloseUndone, DraftsApart
  <2> QED
    BY <1>4, <2>1
<1>6. ASSUME NEW r \in Request, NEW d \in Entries', OnDraft(r, d)' PROVE ~OfClose(d)'
  <2>1. OnDraft(r, d)
    BY <1>6 DEF OnDraft
  <2>2. d \in Entries
    BY <2>1, WorkSound DEF OnDraft, Entries, CloseSound
  <2> QED
    BY <1>3, <2>1, <2>2 DEF CloseUndone, DraftsApart
<1>7. CreatesDrafts'
  BY DEF CloseUndone, CreatesDrafts
<1> QED
  BY <1>5, <1>6, <1>7 DEF DraftsApart

(* An entry that was reversed stays so while nothing rewrites the two.     *)
LEMMA ReversedKept ==
    ASSUME NEW e \in Entries, Reversed(e), journal'[e].lines = journal[e].lines,
           Entries \subseteq Entries',
           \A f \in Entries : reversalOf[f] = e =>
              reversalOf'[f] = e /\ journal'[f].lines = journal[f].lines
    PROVE  Reversed(e)'
BY DEF Reversed

(* A step of a request.                                                    *)
LEMMA LedgerStepUndone ==
    ASSUME CloseSound, CloseUndone, NEW r \in Request, Step(r), Unrelated
    PROVE  CloseUndone'
<1>1. RowsSound /\ closing \subseteq Entries /\ \A d \in Entries : d \in Nat /\ d # 0
  BY DEF CloseSound, ColumnsSound, RowsSound, Entries
<1>2. RowsTouched(r) /\ closedAt' = closedAt
  BY <1>1, StepTouches
<1>3. /\ \A d \in Entries : reversalOf'[d] = reversalOf[d]
      /\ \A d \in Entries' \ Entries : reversalOf'[d] = 0
  BY LedgerStepSound
<1>4. /\ \A d \in Entries : d \in closing' => d \in closing
      /\ \A d \in closing' \ closing : journal'[d].previousId \in closing
      /\ task' = task
  BY DEF Unrelated
<1>5. \A d \in Entries : OfClose(d)' => OfClose(d)
  BY <1>3, <1>4 DEF OfClose
<1>6. \A d \in Entries : OfClose(d) => RowKept(d)
  BY <1>2 DEF CloseUndone, DraftsApart, RowsTouched
<1>7. ASSUME NEW d \in Entries', OfClose(d)' PROVE journal'[d].postingStatus # "DRAFT"
  <2>1. CASE d \in Entries
    <3>1. OfClose(d)
      BY <1>5, <1>7, <2>1
    <3>2. journal[d].postingStatus # "DRAFT"
      BY <2>1, <3>1 DEF CloseUndone, DraftsApart
    <3>3. RowKept(d)
      BY <1>6, <2>1, <3>1
    <3> QED
      BY <3>2, <3>3 DEF RowKept
  <2>2. CASE d \notin Entries
    <3>1. d \in closing'
      BY <1>3, <1>7, <2>2 DEF OfClose
    <3>2. journal'[d].previousId # 0
      BY <1>1, <1>4, <2>2, <3>1
    <3>3. journal'[d].postingStatus = "POSTED"
      BY <1>2, <2>2, <3>2 DEF RowsTouched, CloseUndone, CreatesDrafts
    <3> QED
      BY <3>3
  <2> QED
    BY <2>1, <2>2
<1>8. ASSUME NEW q \in Request, NEW d \in Entries', OnDraft(q, d)' PROVE ~OfClose(d)'
  <2>1. CASE q # r
    <3>1. OnDraft(q, d)
      BY <1>1, <1>8, <2>1, OthersUnchanged DEF OnDraft
    <3>2. d \in Entries
      BY <1>1, <3>1, WorkSound DEF OnDraft, Entries
    <3> QED
      BY <1>5, <3>1, <3>2 DEF CloseUndone, DraftsApart
  <2>2. CASE q = r
    <3>1. CASE d \in Entries
      <4>1. OnDraft(r, d) \/ journal[d].postingStatus = "DRAFT"
        BY <1>1, <1>8, <2>2, <3>1, DraftWasRead
      <4> QED
        BY <1>5, <3>1, <4>1 DEF CloseUndone, DraftsApart
    <3>2. CASE d \notin Entries
      <4>1. journal' # journal
        BY <3>2 DEF Entries
      <4>2. pc'[r] = "idle" \/ (pc'[r] = pc[r] /\ work'[r] = work[r])
        BY <1>1, <4>1 DEF Step, CreateGuard, CreateCommit, PostRead, PostGuard,
           PostCommit, DeleteRead, DeleteCommit, VoidRead, VoidCommit, EditRead,
           EditDraftCommit, EditPostedCommit, CreateAndPostJE, ReverseRead,
           ReverseCommit, Abandon, ReadEntry, Finish, RowsSound, RequestsSound
      <4>3. OnDraft(r, d)
        BY <1>8, <2>2, <4>2 DEF OnDraft
      <4> QED
        BY <1>1, <3>2, <4>3, WorkSound DEF OnDraft, Entries
    <3> QED
      BY <3>1, <3>2
  <2> QED
    BY <2>1, <2>2
<1>9. CreatesDrafts'
  BY <1>1, CreatesDraftsInductive DEF CloseUndone, Next
<1>10. ASSUME NEW e \in closing', journal'[e].previousId = 0,
              journal'[e].postingStatus = "POSTED"
       PROVE  /\ e \in closing /\ e \in Entries /\ RowKept(e)
              /\ journal[e].previousId = 0 /\ journal[e].postingStatus = "POSTED"
  <2>1. e \in closing /\ e \in Entries
    BY <1>1, <1>4, <1>10
  <2>2. RowKept(e)
    BY <1>6, <2>1 DEF OfClose
  <2> QED
    BY <1>10, <2>1, <2>2 DEF RowKept
<1>11. ReopenSeesAll'
  <2> SUFFICES ASSUME NEW m \in Manager, task'[m].phase = "reopen",
                      NEW e \in closing', StandsInClose(e, task[m].period)'
               PROVE  e \in task'[m].entries
    BY <1>4 DEF ReopenSeesAll
  <2>1. StandsInClose(e, task[m].period)
    BY <1>4, <1>10 DEF StandsInClose, RowKept
  <2> QED
    BY <1>4, <1>10, <2>1 DEF StandsInClose, CloseUndone, ReopenSeesAll
<1>12. OpenPeriodIsUndone'
  <2> SUFFICES ASSUME NEW e \in closing', ~closedAt'[journal'[e].date],
                      journal'[e].previousId = 0, journal'[e].postingStatus = "POSTED"
               PROVE  Reversed(e)'
    BY DEF OpenPeriodIsUndone, Reversed
  <2>1. /\ e \in closing /\ e \in Entries /\ RowKept(e)
        /\ journal[e].previousId = 0 /\ journal[e].postingStatus = "POSTED"
    BY <1>10
  <2>2. ~closedAt[journal[e].date] /\ journal'[e].lines = journal[e].lines
    BY <1>2, <2>1 DEF RowKept
  <2>3. Reversed(e)
    BY <2>1, <2>2 DEF CloseUndone, OpenPeriodIsUndone, Reversed
  <2>4. ASSUME NEW f \in Entries, reversalOf[f] = e
        PROVE  reversalOf'[f] = e /\ journal'[f].lines = journal[f].lines
    <3>1. RowKept(f)
      BY <1>1, <1>6, <2>1, <2>4 DEF OfClose
    <3> QED
      BY <1>3, <2>4, <3>1 DEF RowKept
  <2> QED
    BY <1>2, <2>1, <2>2, <2>3, <2>4, ReversedKept DEF RowsTouched
<1> QED
  BY <1>7, <1>8, <1>9, <1>11, <1>12 DEF CloseUndone, DraftsApart
(* The steps of a manager that only read.                                  *)
LEMMA ReadStepsUndone ==
    ASSUME OneManager, CloseSound, CloseUndone, NEW m \in Manager,
           \/ CompleteCloseWorkflow(m) \/ CloseRead(m) \/ SummaryRead(m)
           \/ ReopenRead(m) \/ AbandonTask(m)
    PROVE  CloseUndone'
<1>1. UNCHANGED <<vars, closing, reversalOf>>
  BY DEF CompleteCloseWorkflow, CloseRead, SummaryRead, ReopenRead, AbandonTask
<1>2. DraftsApart' /\ CreatesDrafts' /\ OpenPeriodIsUndone'
  BY <1>1 DEF vars, CloseUndone, DraftsApart, OfClose, OnDraft, Entries, CreatesDrafts,
              OpenPeriodIsUndone
<1>3. ASSUME NEW n \in Manager, task'[n].phase = "reopen",
             NEW e \in closing, StandsInClose(e, task'[n].period)
      PROVE  e \in task'[n].entries
  <2>1. n = m
    BY DEF OneManager
  <2>2. CASE ReopenRead(m)
    <3>1. PICK p \in Period :
             task' = [task EXCEPT ![m] = [NoTask EXCEPT !.phase = "reopen", !.period = p,
                                                        !.entries = ClosingEntries(p)]]
      BY <2>2 DEF ReopenRead
    <3>2. task'[m] = [NoTask EXCEPT !.phase = "reopen", !.period = p,
                                    !.entries = ClosingEntries(p)]
      BY <3>1 DEF CloseSound, TasksSound
    <3>3. task'[m].period = p /\ task'[m].entries = ClosingEntries(p)
      BY <3>2 DEF NoTask
    <3> QED
      BY <1>3, <2>1, <3>3 DEF StandsInClose, ClosingEntries
  <2>3. \E t : task' = [task EXCEPT ![m] = t] /\ (t.phase = "reopen" => ReopenRead(m))
    <3>1. CASE CompleteCloseWorkflow(m)
      <4>1. PICK p \in Period :
               task' = [task EXCEPT ![m] = [NoTask EXCEPT !.phase = "begin", !.period = p,
                                                          !.checked = TRUE]]
        BY <3>1 DEF CompleteCloseWorkflow
      <4>2. [NoTask EXCEPT !.phase = "begin", !.period = p, !.checked = TRUE].phase
               = "begin"
        BY DEF NoTask
      <4> QED
        BY <4>1, <4>2
    <3>2. CASE CloseRead(m)
      <4> DEFINE read == [a \in Account |-> ClosingLine(a)]
      <4>1. PICK start \in TaskRecord :
               task' = [task EXCEPT ![m] = [start EXCEPT !.phase = "close", !.lines = read]]
        <5>1. PICK p \in Period :
                 LET start == IF task[m] = NoTask THEN [NoTask EXCEPT !.period = p]
                                                  ELSE task[m]
                 IN  task' = [task EXCEPT ![m] =
                                [start EXCEPT !.phase = "close", !.lines = read]]
          BY <3>2 DEF CloseRead
        <5>2. p \in Nat /\ task[m] \in TaskRecord
          BY PeriodOrderAssumption DEF CloseSound, TasksSound
        <5>3. [NoTask EXCEPT !.period = p] \in TaskRecord
          BY <5>2, NoTaskSound, TasksBegun
        <5> QED
          BY <5>1, <5>2, <5>3
      <4>2. [start EXCEPT !.phase = "close", !.lines = read].phase = "close"
        BY DEF TaskRecord
      <4> QED
        BY <4>1, <4>2
    <3>3. CASE AbandonTask(m)
      BY <3>3, NoTaskSound DEF AbandonTask
    <3>4. CASE ReopenRead(m)
      BY <3>4 DEF ReopenRead
    <3>5. CASE SummaryRead(m)
      <4> DEFINE t == [task[m] EXCEPT !.phase = "transfer",
                                      !.lines = ToRetained(balance[IncomeSummary])]
      <4>1. task[m] \in TaskRecord /\ task' = [task EXCEPT ![m] = t]
        BY <3>5 DEF SummaryRead, CloseSound, TasksSound
      <4>2. t.phase = "transfer"
        BY <4>1 DEF TaskRecord
      <4> QED
        BY <4>1, <4>2
    <3> QED
      BY <3>1, <3>2, <3>3, <3>4, <3>5
  <2>4. ReopenRead(m)
    BY <1>3, <2>1, <2>3 DEF CloseSound, TasksSound
  <2> QED
    BY <2>2, <2>4
<1>4. ReopenSeesAll'
  <2> SUFFICES ASSUME NEW n \in Manager, task'[n].phase = "reopen",
                      NEW e \in closing, StandsInClose(e, task[n].period)'
               PROVE  e \in task'[n].entries
    BY <1>1 DEF ReopenSeesAll
  <2>1. StandsInClose(e, task'[n].period)
    BY <1>1 DEF StandsInClose, vars
  <2> QED
    BY <1>3, <2>1
<1> QED
  BY <1>2, <1>4 DEF CloseUndone

(* While no manager is reopening, no reopening misses an entry.            *)
LEMMA NothingReopening ==
    ASSUME OneManager, TasksSound, NEW m \in Manager, task' = [task EXCEPT ![m] = NoTask]
    PROVE  ReopenSeesAll'
<1>1. \A n \in Manager : n = m /\ task'[n] = NoTask
  BY DEF OneManager, TasksSound
<1> QED
  BY <1>1, NoTaskSound DEF ReopenSeesAll

(* The step that closes a period: its own entries are in a closed period.  *)
LEMMA CloseCommitUndone ==
    ASSUME OneManager, CloseSound, CloseUndone, NEW m \in Manager, CloseCommit(m)
    PROVE  CloseUndone'
<1> DEFINE p == task[m].period
<1>1. /\ CloseSound'
      /\ \A e \in Entries : reversalOf'[e] = reversalOf[e]
      /\ closedAt' = [closedAt EXCEPT ![p] = TRUE]
      /\ p \in Period
  BY CloseCommitSound
<1>2. PICK rows \in Seq(SoundEntry) :
         /\ AddsPosted(rows)
         /\ \A i \in 1 .. Len(rows) : rows[i].date = p
         /\ closing' = closing \cup {Len(journal) + i : i \in 1 .. Len(rows)}
  BY CloseCommitSound
<1> HIDE DEF p
<1>3. task' = [task EXCEPT ![m] = NoTask] /\ UNCHANGED <<pc, work>>
  BY DEF CloseCommit
<1>4. DraftsApart' /\ CreatesDrafts'
  <2>1. closing' \subseteq closing \cup {Len(journal) + i : i \in 1 .. Len(rows)}
    BY <1>2
  <2> QED
    BY <1>1, <1>2, <1>3, <2>1, AddedApart
<1>5. ReopenSeesAll'
  BY <1>3, NothingReopening DEF CloseSound
<1>6. /\ Entries \subseteq Entries'
      /\ \A e \in Entries : journal'[e] = journal[e]
      /\ \A i \in 1 .. Len(rows) : journal'[Len(journal) + i] = rows[i]
  <2>1. journal' = journal \o rows
    BY <1>2 DEF AddsPosted
  <2>2. /\ Len(journal) \in Nat /\ Len(rows) \in Nat
        /\ Len(journal') = Len(journal) + Len(rows)
        /\ Entries = 1 .. Len(journal) /\ Entries' = 1 .. Len(journal')
        /\ \A e \in Entries : journal'[e] = journal[e]
        /\ \A i \in 1 .. Len(rows) : journal'[Len(journal) + i] = rows[i]
    BY <2>1, ConcatAt DEF CloseSound
  <2>3. Entries \subseteq Entries'
    BY <2>2
  <2> QED
    BY <2>2, <2>3
<1>7. closing \subseteq Entries /\ \A e \in Entries : journal[e].date \in Period
  BY RowSound DEF CloseSound, ColumnsSound
<1>8. closedAt \in [Period -> BOOLEAN]
  BY DEF CloseSound, RowsSound
<1>9. OpenPeriodIsUndone'
  <2> SUFFICES ASSUME NEW e \in closing', ~closedAt'[journal'[e].date],
                      journal'[e].previousId = 0, journal'[e].postingStatus = "POSTED"
               PROVE  Reversed(e)'
    BY DEF OpenPeriodIsUndone, Reversed
  <2>1. journal'[e].date # p
    BY <1>1, <1>8
  <2>2. e \in closing /\ e \in Entries
    BY <1>2, <1>6, <1>7, <2>1
  <2>3. ~closedAt[journal[e].date]
    BY <1>1, <1>6, <1>7, <1>8, <2>2
  <2>4. Reversed(e)
    BY <1>6, <2>2, <2>3 DEF CloseUndone, OpenPeriodIsUndone, Reversed
  <2> QED
    BY <1>1, <1>6, <2>2, <2>4, ReversedKept
<1> QED
  BY <1>4, <1>5, <1>9 DEF CloseUndone

(* The step that reopens a period: it reverses every entry it has read,    *)
(* and it has read all that stand.                                         *)
LEMMA ReopenCommitUndone ==
    ASSUME OneManager, CloseSound, CloseUndone, NEW m \in Manager, ReopenCommit(m)
    PROVE  CloseUndone'
<1> DEFINE p == task[m].period
<1>1. /\ CloseSound'
      /\ \A e \in Entries : reversalOf'[e] = reversalOf[e]
      /\ closing' = closing
      /\ closedAt' = [closedAt EXCEPT ![p] = FALSE]
      /\ p \in Period
  BY ReopenCommitSound
<1>2. PICK rows \in Seq(SoundEntry) :
         /\ AddsPosted(rows)
         /\ \A e \in task[m].entries : \E i \in 1 .. Len(rows) :
               /\ reversalOf'[Len(journal) + i] = e
               /\ rows[i].lines = Mirror(journal[e].lines)
  BY ReopenCommitSound
<1>3. /\ task' = [task EXCEPT ![m] = NoTask] /\ UNCHANGED <<pc, work>>
      /\ task[m].phase = "reopen"
  BY DEF ReopenCommit
<1> HIDE DEF p
<1>4. DraftsApart' /\ CreatesDrafts'
  <2>1. closing' \subseteq closing \cup {Len(journal) + i : i \in 1 .. Len(rows)}
    BY <1>1
  <2> QED
    BY <1>1, <1>2, <1>3, <2>1, AddedApart
<1>5. ReopenSeesAll'
  BY <1>3, NothingReopening DEF CloseSound
<1>6. /\ Entries \subseteq Entries'
      /\ \A e \in Entries : journal'[e] = journal[e]
      /\ \A i \in 1 .. Len(rows) : /\ Len(journal) + i \in Entries'
                                   /\ journal'[Len(journal) + i] = rows[i]
  <2>1. journal' = journal \o rows
    BY <1>2 DEF AddsPosted
  <2>2. /\ Len(journal) \in Nat /\ Len(rows) \in Nat
        /\ Len(journal') = Len(journal) + Len(rows)
        /\ Entries = 1 .. Len(journal) /\ Entries' = 1 .. Len(journal')
        /\ \A e \in Entries : journal'[e] = journal[e]
        /\ \A i \in 1 .. Len(rows) : journal'[Len(journal) + i] = rows[i]
    BY <2>1, ConcatAt DEF CloseSound
  <2>3. /\ Entries \subseteq Entries'
        /\ \A i \in 1 .. Len(rows) : Len(journal) + i \in Entries'
    BY <2>2
  <2> QED
    BY <2>2, <2>3
<1>7. closing \subseteq Entries /\ \A e \in Entries : journal[e].date \in Period
  BY RowSound DEF CloseSound, ColumnsSound
<1>8. closedAt \in [Period -> BOOLEAN]
  BY DEF CloseSound, RowsSound
<1>9. OpenPeriodIsUndone'
  <2> SUFFICES ASSUME NEW e \in closing', ~closedAt'[journal'[e].date],
                      journal'[e].previousId = 0, journal'[e].postingStatus = "POSTED"
               PROVE  Reversed(e)'
    BY DEF OpenPeriodIsUndone, Reversed
  <2>1. e \in closing /\ e \in Entries /\ journal'[e] = journal[e]
    BY <1>1, <1>6, <1>7
  <2>2. CASE journal[e].date = p
    <3>1. e \in task[m].entries
      BY <1>3, <2>1, <2>2 DEF CloseUndone, ReopenSeesAll, StandsInClose, p
    <3>2. PICK i \in 1 .. Len(rows) : /\ reversalOf'[Len(journal) + i] = e
                                      /\ rows[i].lines = Mirror(journal[e].lines)
      BY <1>2, <3>1
    <3> QED
      BY <1>6, <2>1, <3>2 DEF Reversed
  <2>3. CASE journal[e].date # p
    <3>1. ~closedAt[journal[e].date]
      BY <1>1, <1>7, <1>8, <2>1, <2>3
    <3>2. Reversed(e)
      BY <2>1, <3>1 DEF CloseUndone, OpenPeriodIsUndone, Reversed
    <3> QED
      BY <1>1, <1>6, <2>1, <3>2, ReversedKept
  <2> QED
    BY <2>2, <2>3
<1> QED
  BY <1>4, <1>5, <1>9 DEF CloseUndone

(* With one manager at a time, a period that is open again carries nothing *)
(* of its closes: every entry a close posted there, and that nobody has    *)
(* corrected, has been reversed to the cent.  It holds for any number of   *)
(* requests, which may overlap, and of closes, reopenings and periods: the *)
(* invariant it rests on is that no request can reach an entry of a close  *)
(* through the paths that rewrite, post or delete drafts, and that what a  *)
(* reopening has read is still all there is when it commits.               *)
THEOREM ReopeningUndoesTheClose == OneManager => (CloseSpec => []OpenPeriodIsUndone)
<1> SUFFICES ASSUME OneManager PROVE CloseSpec => []OpenPeriodIsUndone
  OBVIOUS
<1>1. CloseInit => CloseUndone
  <2> SUFFICES ASSUME CloseInit PROVE CloseUndone
    OBVIOUS
  <2>1. Entries = {} /\ closing = {}
    BY DEF CloseInit, Init, Entries
  <2>2. \A r \in Request : pc[r] = "idle"
    BY DEF CloseInit, Init
  <2> QED
    BY <2>1, <2>2 DEF CloseUndone, DraftsApart, OnDraft, CreatesDrafts, ReopenSeesAll,
                      OpenPeriodIsUndone
<1>2. ASSUME CloseSound, CloseUndone, [CloseNext]_allVars PROVE CloseUndone'
  <2>1. CASE UNCHANGED allVars
    BY <1>2, <2>1 DEF allVars, closeVars, vars, CloseUndone, DraftsApart, OfClose, OnDraft,
                      Entries, CreatesDrafts, ReopenSeesAll, StandsInClose,
                      OpenPeriodIsUndone
  <2>2. CASE LedgerStep
    BY <1>2, <2>2, LedgerStepUndone DEF LedgerStep, Next
  <2>3. ASSUME NEW m \in Manager, PeriodStep(m) PROVE CloseUndone'
    BY <1>2, <2>3, ReadStepsUndone, CloseCommitUndone, ReopenCommitUndone DEF PeriodStep
  <2> QED
    BY <1>2, <2>1, <2>2, <2>3 DEF CloseNext
<1>3. CloseSound /\ CloseUndone /\ [CloseNext]_allVars => CloseUndone'
  BY <1>2
<1>4. CloseUndone => OpenPeriodIsUndone
  BY DEF CloseUndone
<1> QED
  BY <1>1, <1>3, <1>4, CloseAlwaysSound, PTL DEF CloseSpec
=============================================================================
