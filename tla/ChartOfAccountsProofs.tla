------------------------ MODULE ChartOfAccountsProofs ------------------------
(***************************************************************************)
(* The chart of accounts is a tree, for any number of accounts and of      *)
(* requests, unless two walks overlapped.                                  *)
(*                                                                         *)
(* What a walk has seen is the reason: as long as no account is put under  *)
(* another beside it, the accounts it has seen have their parents among    *)
(* themselves, where it stands, or nowhere; so at the top, nothing that is *)
(* above the new parent is the account that moves.                         *)
(***************************************************************************)
EXTENDS ChartOfAccounts, TLAPS

(* What holds of a request on its walk.                                    *)
SeenIsClosed(w) ==
    /\ w.account \notin w.seen
    /\ \A a \in w.seen : parent[a] \in w.seen \cup {w.at, NoParent}

WalksAreClosed == \A r \in Moving : SeenIsClosed(request[r])

(* The walk starts at the new parent; that one, and what it has seen, are  *)
(* there, also when walks overlap.                                         *)
UnderIsSeen(w) == w.under \in w.seen \/ w.under = w.at
UnderAreSeen == \A r \in Moving : UnderIsSeen(request[r])

ChartInv == ChartTypeOK /\ UnderAreSeen /\ (crossed \/ (Tree /\ WalksAreClosed))

-----------------------------------------------------------------------------
(* A request that moves an account has the fields of one.                  *)
LEMMA MovingType ==
    ASSUME ChartTypeOK, NEW r \in Moving
    PROVE  /\ r \in Request
           /\ request[r] \in [op : {"move"}, account : Rows, under : Account,
                              at : Account \cup {NoParent}, seen : SUBSET Rows]
BY DEF ChartTypeOK, Moving, Idle

(* Initially there is nothing.                                             *)
LEMMA ChartInitInv == ChartInit => ChartInv
<1> SUFFICES ASSUME ChartInit PROVE ChartInv
    OBVIOUS
<1>1. ChartTypeOK
      BY DEF ChartInit, ChartTypeOK, Rows
<1>2. Tree
  <2> SUFFICES ASSUME NEW ring \in (SUBSET Account) \ {{}}
               PROVE  \E a \in ring : parent[a] \notin ring
      BY DEF Tree
  <2>1. PICK a : a \in ring
        OBVIOUS
  <2> QED BY <2>1, ChartAssumption DEF ChartInit
<1>3. Moving = {}
      BY DEF ChartInit, Moving, Idle
<1> QED BY <1>1, <1>2, <1>3 DEF ChartInv, WalksAreClosed, UnderAreSeen

(* A new account has nothing under it, so there is no ring through it.     *)
LEMMA CreateAccountInv ==
    ASSUME ChartInv, NEW a \in Account, CreateAccount(a)
    PROVE  ChartInv'
<1>1. PICK p \in ParentIds : parent' = [parent EXCEPT ![a] = p]
      BY DEF CreateAccount
<1>2. /\ ChartTypeOK
      /\ a \notin Rows /\ Rows' = Rows \cup {a}
      /\ p \in Rows \cup {NoParent}
      BY <1>1 DEF ChartInv, ChartTypeOK, CreateAccount, Rows, ParentIds
<1>3. ChartTypeOK'
  <2>1. account' \in [Account -> {"NONE", "LIVE", "DELETED"}]
        BY <1>2 DEF ChartTypeOK, CreateAccount
  <2>2. parent' \in [Account -> Rows' \cup {NoParent}]
        BY <1>1, <1>2 DEF ChartTypeOK
  <2>3. request' \in [Request ->
          {Idle} \cup [op : {"move"}, account : Rows', under : Account,
                       at : Account \cup {NoParent}, seen : SUBSET Rows']]
        BY <1>2 DEF ChartTypeOK, CreateAccount
  <2> QED BY <1>2, <2>1, <2>2, <2>3 DEF ChartTypeOK, CreateAccount
<1>4. ASSUME Tree PROVE Tree'
  <2> SUFFICES ASSUME NEW ring \in (SUBSET Account) \ {{}},
                      \A x \in ring : parent'[x] \in ring
               PROVE  FALSE
      BY DEF Tree
  <2>1. CASE a \notin ring
        BY <1>1, <1>2, <1>4, <2>1 DEF Tree, ChartTypeOK
  <2>2. CASE a \in ring
    <3>1. p \in ring /\ p \in Rows /\ p # a
          BY <1>1, <1>2, <2>2, ChartAssumption DEF ChartTypeOK
    <3>2. PICK x \in ring \ {a} : parent[x] \notin ring \ {a}
          BY <3>1, <1>4 DEF Tree
    <3>3. parent[x] # a /\ parent'[x] = parent[x]
          BY <1>1, <1>2, <3>2, ChartAssumption DEF ChartTypeOK
    <3> QED BY <3>2, <3>3
  <2> QED BY <2>1, <2>2
<1>5. ASSUME WalksAreClosed PROVE WalksAreClosed'
  <2> SUFFICES ASSUME NEW r \in Moving PROVE SeenIsClosed(request[r])'
      BY DEF WalksAreClosed, Moving, CreateAccount
  <2>1. SeenIsClosed(request[r]) /\ request' = request
        BY <1>5 DEF WalksAreClosed, CreateAccount
  <2>2. request[r].seen \subseteq Rows
        BY <1>2, MovingType
  <2>3. \A x \in request[r].seen : parent'[x] = parent[x]
        BY <1>1, <1>2, <2>2 DEF ChartTypeOK
  <2> QED BY <2>1, <2>3 DEF SeenIsClosed
<1>6. UnderAreSeen'
      BY DEF ChartInv, UnderAreSeen, UnderIsSeen, Moving, CreateAccount
<1> QED BY <1>3, <1>4, <1>5, <1>6 DEF ChartInv, CreateAccount

(* Moving an account to the top takes it out of any ring and out of the    *)
(* way of any walk.                                                        *)
LEMMA MoveToTopInv ==
    ASSUME ChartInv, NEW a \in Account, MoveToTop(a)
    PROVE  ChartInv'
<1>1. /\ ChartTypeOK /\ ChartTypeOK'
      /\ \A x \in Account : parent'[x] = IF x = a THEN NoParent ELSE parent[x]
      BY DEF ChartInv, ChartTypeOK, MoveToTop, Rows
<1>2. ASSUME Tree PROVE Tree'
  <2> SUFFICES ASSUME NEW ring \in (SUBSET Account) \ {{}}
               PROVE  \E x \in ring : parent'[x] \notin ring
      BY DEF Tree
  <2>1. PICK x \in ring : parent[x] \notin ring
        BY <1>2 DEF Tree
  <2> QED BY <1>1, <2>1, ChartAssumption
<1>3. ASSUME WalksAreClosed PROVE WalksAreClosed'
  <2> SUFFICES ASSUME NEW r \in Moving PROVE SeenIsClosed(request[r])'
      BY DEF WalksAreClosed, Moving, MoveToTop
  <2>1. SeenIsClosed(request[r]) /\ request' = request
        BY <1>3 DEF WalksAreClosed, MoveToTop
  <2>2. request[r].seen \subseteq Account
        BY <1>1, MovingType DEF Rows
  <2> QED BY <1>1, <2>1, <2>2 DEF SeenIsClosed
<1>4. UnderAreSeen'
      BY DEF ChartInv, UnderAreSeen, UnderIsSeen, Moving, MoveToTop
<1> QED BY <1>1, <1>2, <1>3, <1>4 DEF ChartInv, MoveToTop

(* Retiring an account leaves the tree as it is.                           *)
LEMMA SoftDeleteAccountInv ==
    ASSUME ChartInv, NEW a \in Account, SoftDeleteAccount(a)
    PROVE  ChartInv'
<1>1. Rows' = Rows
      BY DEF ChartInv, ChartTypeOK, SoftDeleteAccount, Rows, Found
<1>2. ChartTypeOK'
      BY <1>1 DEF ChartInv, ChartTypeOK, SoftDeleteAccount
<1>3. /\ Tree => Tree'
      /\ WalksAreClosed => WalksAreClosed'
      /\ UnderAreSeen => UnderAreSeen'
      BY DEF SoftDeleteAccount, Tree, WalksAreClosed, Moving, SeenIsClosed,
             UnderAreSeen, UnderIsSeen
<1> QED BY <1>2, <1>3 DEF ChartInv, SoftDeleteAccount

(* A walk begins with nothing seen.                                        *)
LEMMA BeginMoveInv ==
    ASSUME ChartInv, NEW r \in Request, NEW a \in Account, BeginMove(r, a)
    PROVE  ChartInv'
<1>1. PICK p \in Account \ {a} :
        request' = [request EXCEPT ![r] =
             [op |-> "move", account |-> a, under |-> p, at |-> p, seen |-> {}]]
      BY DEF BeginMove
<1>2. ChartTypeOK /\ a \in Rows
      BY DEF ChartInv, BeginMove, Found, Rows
<1>3. ChartTypeOK'
      BY <1>1, <1>2 DEF ChartTypeOK, BeginMove, Rows
<1>4. /\ WalksAreClosed => WalksAreClosed'
      /\ UnderAreSeen'
  <2> SUFFICES ASSUME NEW s \in Moving'
               PROVE  /\ WalksAreClosed => SeenIsClosed(request[s])'
                      /\ UnderIsSeen(request[s])'
      BY DEF WalksAreClosed, UnderAreSeen
  <2>0. s \in Request /\ request'[s].op = "move"
        BY DEF Moving
  <2>1. CASE s = r
    <3>1. request'[s] = [op |-> "move", account |-> a, under |-> p, at |-> p, seen |-> {}]
          BY <1>1, <1>2, <2>1 DEF ChartTypeOK
    <3> QED BY <3>1 DEF SeenIsClosed, UnderIsSeen
  <2>2. CASE s # r
    <3>1. request'[s] = request[s] /\ s \in Moving
          BY <1>1, <1>2, <2>0, <2>2 DEF ChartTypeOK, Moving
    <3> QED BY <3>1 DEF WalksAreClosed, SeenIsClosed, BeginMove, ChartInv,
                        UnderAreSeen, UnderIsSeen
  <2> QED BY <2>1, <2>2
<1>5. (Tree => Tree') /\ crossed' = crossed
      BY DEF BeginMove, Tree
<1> QED BY <1>3, <1>4, <1>5 DEF ChartInv

(* A turn of the walk adds where it stands to what it has seen.            *)
LEMMA WalkInv ==
    ASSUME ChartInv, NEW r \in Request, Walk(r)
    PROVE  ChartInv'
<1> DEFINE w == request[r]
           on == [w EXCEPT !.at = parent[w.at], !.seen = w.seen \cup {w.at}]
<1>1. /\ ChartTypeOK /\ r \in Moving /\ w.at # NoParent
      /\ UNCHANGED <<account, parent, crossed>>
      /\ request' = [request EXCEPT ![r] =
            IF Meets(w) \/ w.at \notin Rows THEN Idle ELSE on]
      BY DEF ChartInv, Walk
<1>2. w \in [op : {"move"}, account : Rows, under : Account,
             at : Account \cup {NoParent}, seen : SUBSET Rows]
      BY <1>1, MovingType
<1>3. /\ \A s \in Request : s # r => request'[s] = request[s]
      /\ Rows' = Rows
      BY <1>1 DEF ChartTypeOK, Rows
<1>4. CASE Meets(w) \/ w.at \notin Rows
  <2>1. request'[r] = Idle
        BY <1>1, <1>4 DEF ChartTypeOK
  <2>2. ChartTypeOK'
        BY <1>1, <1>3, <1>4 DEF ChartTypeOK
  <2>3. /\ WalksAreClosed => WalksAreClosed'
        /\ UnderAreSeen'
    <3> SUFFICES ASSUME NEW s \in Moving'
                 PROVE  /\ WalksAreClosed => SeenIsClosed(request[s])'
                        /\ UnderIsSeen(request[s])'
        BY DEF WalksAreClosed, UnderAreSeen
    <3>1. s # r /\ s \in Moving /\ request'[s] = request[s]
          BY <1>3, <2>1 DEF Moving, Idle
    <3> QED BY <1>1, <3>1 DEF WalksAreClosed, SeenIsClosed, ChartInv,
                              UnderAreSeen, UnderIsSeen
  <2> QED BY <1>1, <2>2, <2>3 DEF ChartInv, Tree
<1>5. CASE ~Meets(w) /\ w.at \in Rows
  <2>1. request'[r] = on
        BY <1>1, <1>5 DEF ChartTypeOK
  <2>2. /\ on \in [op : {"move"}, account : Rows, under : Account,
                   at : Account \cup {NoParent}, seen : SUBSET Rows]
        /\ on.account = w.account /\ on.under = w.under
        /\ on.at = parent[w.at] /\ on.seen = w.seen \cup {w.at}
        BY <1>1, <1>2, <1>5 DEF ChartTypeOK, Rows
  <2> HIDE DEF on
  <2>3. request' = [request EXCEPT ![r] = on]
        BY <1>1, <1>5
  <2>4. ChartTypeOK'
        BY <1>1, <1>3, <2>2, <2>3 DEF ChartTypeOK
  <2>5. /\ WalksAreClosed => WalksAreClosed'
        /\ UnderAreSeen'
    <3> SUFFICES ASSUME NEW s \in Moving'
                 PROVE  /\ WalksAreClosed => SeenIsClosed(request[s])'
                        /\ UnderIsSeen(request[s])'
        BY DEF WalksAreClosed, UnderAreSeen
    <3>0. s \in Request
          BY DEF Moving
    <3>1. CASE s # r
      <4>1. s \in Moving /\ request'[s] = request[s]
            BY <1>3, <3>0, <3>1 DEF Moving
      <4> QED BY <1>1, <4>1 DEF WalksAreClosed, SeenIsClosed, ChartInv,
                                UnderAreSeen, UnderIsSeen
    <3>2. CASE s = r
      <4>1. (WalksAreClosed => SeenIsClosed(w)) /\ UnderIsSeen(w)
            BY <1>1 DEF WalksAreClosed, ChartInv, UnderAreSeen
      <4>2. (WalksAreClosed => SeenIsClosed(on)) /\ UnderIsSeen(on)
            BY <1>5, <2>2, <4>1 DEF SeenIsClosed, UnderIsSeen, Meets
      <4> QED BY <1>1, <2>1, <3>2, <4>2 DEF SeenIsClosed, UnderIsSeen
    <3> QED BY <3>1, <3>2
  <2> QED BY <1>1, <2>4, <2>5 DEF ChartInv, Tree
<1> QED BY <1>4, <1>5

(* Were there a ring after the move, what of it the walk has seen would    *)
(* have been a ring before.                                                *)
LEMMA MoveInv ==
    ASSUME ChartInv, NEW r \in Request, Move(r)
    PROVE  ChartInv'
<1> DEFINE w == request[r]
<1>1. /\ ChartTypeOK /\ r \in Moving /\ w.at = NoParent
      /\ parent' = [parent EXCEPT ![w.account] = w.under]
      /\ request' = [request EXCEPT ![r] = Idle]
      /\ crossed' = (crossed \/ Moving # {r})
      /\ account' = account
      BY DEF ChartInv, Move
<1>2. w \in [op : {"move"}, account : Rows, under : Account,
             at : Account \cup {NoParent}, seen : SUBSET Rows]
      BY <1>1, MovingType
<1>3. w.under \in w.seen /\ w.under \in Account /\ w.account \in Account
      BY <1>1, <1>2, ChartAssumption DEF ChartInv, UnderAreSeen, UnderIsSeen, Rows
<1>4. ChartTypeOK'
  <2>1. Rows' = Rows /\ w.under \in Rows
        BY <1>1, <1>2, <1>3 DEF Rows
  <2> QED BY <1>1, <1>2, <2>1 DEF ChartTypeOK
<1>5. \A s \in Moving' : s # r /\ s \in Moving /\ request'[s] = request[s]
      BY <1>1 DEF ChartTypeOK, Moving, Idle
<1>6. UnderAreSeen'
      BY <1>5 DEF ChartInv, UnderAreSeen, UnderIsSeen
<1>7. ASSUME ~crossed' PROVE Tree' /\ WalksAreClosed'
  <2>1. /\ Tree
        /\ \A a \in w.seen : a # w.account /\ parent[a] \in w.seen \cup {NoParent}
        BY <1>1, <1>2, <1>7 DEF ChartInv, WalksAreClosed, SeenIsClosed
  <2>2. Moving' = {}
        BY <1>1, <1>5, <1>7
  <2>3. Tree'
    <3> SUFFICES ASSUME NEW ring \in (SUBSET Account) \ {{}},
                        \A x \in ring : parent'[x] \in ring
                 PROVE  FALSE
        BY DEF Tree
    <3>1. \A x \in Account : parent'[x] = IF x = w.account THEN w.under ELSE parent[x]
          BY <1>1 DEF ChartTypeOK
    <3>2. CASE w.account \notin ring
          BY <2>1, <3>1, <3>2 DEF Tree
    <3>3. CASE w.account \in ring
      <4>1. w.under \in ring
            BY <1>3, <3>1, <3>3
      <4>2. PICK x \in ring \cap w.seen : parent[x] \notin ring \cap w.seen
            BY <1>3, <2>1, <4>1 DEF Tree
      <4>3. parent'[x] = parent[x] /\ parent[x] \in w.seen \cup {NoParent}
            BY <2>1, <3>1, <4>2
      <4> QED BY <4>2, <4>3, ChartAssumption
    <3> QED BY <3>2, <3>3
  <2> QED BY <2>2, <2>3 DEF WalksAreClosed
<1> QED BY <1>4, <1>6, <1>7 DEF ChartInv

(* A request that is given up takes no walk with it.                       *)
LEMMA AbandonInv ==
    ASSUME ChartInv, NEW r \in Request, Abandon(r)
    PROVE  ChartInv'
<1>1. ChartTypeOK /\ UNCHANGED <<account, parent, crossed>> /\ Rows' = Rows
      BY DEF ChartInv, Abandon, Rows
<1>2. ChartTypeOK'
      BY <1>1 DEF ChartTypeOK, Abandon
<1>3. \A s \in Moving' : s \in Moving /\ request'[s] = request[s]
      BY <1>1 DEF ChartTypeOK, Abandon, Moving, Idle
<1>4. (WalksAreClosed => WalksAreClosed') /\ (UnderAreSeen => UnderAreSeen')
      BY <1>1, <1>3 DEF WalksAreClosed, SeenIsClosed, UnderAreSeen, UnderIsSeen
<1>5. Tree => Tree'
      BY <1>1 DEF Tree
<1> QED BY <1>1, <1>2, <1>4, <1>5 DEF ChartInv

(* No step breaks the invariant.                                           *)
LEMMA ChartStepInv == ChartInv /\ [ChartNext]_chartVars => ChartInv'
<1> SUFFICES ASSUME ChartInv, [ChartNext]_chartVars PROVE ChartInv'
    OBVIOUS
<1>1. ASSUME NEW a \in Account, CreateAccount(a) PROVE ChartInv'
      BY <1>1, CreateAccountInv
<1>2. ASSUME NEW a \in Account, MoveToTop(a) PROVE ChartInv'
      BY <1>2, MoveToTopInv
<1>3. ASSUME NEW a \in Account, SoftDeleteAccount(a) PROVE ChartInv'
      BY <1>3, SoftDeleteAccountInv
<1>4. ASSUME NEW r \in Request, NEW a \in Account, BeginMove(r, a) PROVE ChartInv'
      BY <1>4, BeginMoveInv
<1>5. ASSUME NEW r \in Request, Walk(r) PROVE ChartInv'
      BY <1>5, WalkInv
<1>6. ASSUME NEW r \in Request, Move(r) PROVE ChartInv'
      BY <1>6, MoveInv
<1>7. ASSUME NEW r \in Request, Abandon(r) PROVE ChartInv'
      BY <1>7, AbandonInv
<1>8. CASE UNCHANGED chartVars
      BY <1>8 DEF chartVars, ChartInv, ChartTypeOK, Rows, Tree, WalksAreClosed,
                  SeenIsClosed, UnderAreSeen, UnderIsSeen, Moving
<1> QED BY <1>1, <1>2, <1>3, <1>4, <1>5, <1>6, <1>7, <1>8 DEF ChartNext, RequestStep

-----------------------------------------------------------------------------
(* The rows of the chart and what a walk remembers are what they should    *)
(* be, and a parent is always an account that is there, overlapping walks  *)
(* or not.                                                                 *)
THEOREM ChartTypeCorrect == ChartSpec => []ChartTypeOK
<1>1. ChartInv => ChartTypeOK
      BY DEF ChartInv
<1> QED BY <1>1, ChartInitInv, ChartStepInv, PTL DEF ChartSpec

(* The accounts are a tree for any number of accounts and requests, unless *)
(* two walks of assertNoParentCycle overlapped.                            *)
THEOREM ChartStaysATree == ChartSpec => []ChartIsATree
<1>1. ChartInv => ChartIsATree
      BY DEF ChartInv, ChartIsATree
<1> QED BY <1>1, ChartInitInv, ChartStepInv, PTL DEF ChartSpec
=============================================================================
