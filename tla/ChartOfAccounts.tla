--------------------------- MODULE ChartOfAccounts ---------------------------
(***************************************************************************)
(* The tree of accounts: creating, moving and retiring accounts, in        *)
(* accounting.service.ts and accounting.repository.ts.                     *)
(*                                                                         *)
(* Before an account is put under another, the service walks from the new  *)
(* parent to the top, one query per account, and refuses if it meets the   *)
(* account it moves.  The walk is no transaction and takes no locks: other *)
(* requests commit between any two of its steps.                           *)
(*                                                                         *)
(* Codes, types, balances and the active flag only make a request fail,    *)
(* which it may do at any time here; what accounts carry is the subject of *)
(* GeneralLedger.                                                          *)
(***************************************************************************)
EXTENDS Naturals

CONSTANTS
    Account,    \* the accounts there can be
    Request,    \* the requests that can run at a time
    NoParent    \* the parentId of an account at the top

ASSUME ChartAssumption == NoParent \notin Account

VARIABLES
    account,    \* the Account rows: NONE, LIVE, or DELETED (deletedAt)
    parent,     \* ... and their parentId
    request,    \* what each running request does
    crossed     \* history: an account was put under another while some other
                \* request was on its walk

chartVars == <<account, parent, request, crossed>>

-----------------------------------------------------------------------------
Rows == {a \in Account : account[a] # "NONE"}
Found == {a \in Account : account[a] = "LIVE"}

Idle == [op |-> "idle"]
Moving == {r \in Request : request[r].op = "move"}

ChartInit ==
    /\ account = [a \in Account |-> "NONE"]
    /\ parent = [a \in Account |-> NoParent]
    /\ request = [r \in Request |-> Idle]
    /\ crossed = FALSE

(* A parentId refers to a row, deleted or not.                             *)
ParentIds_Any == Account \cup {NoParent}
ParentIds == Rows \cup {NoParent}

CreateAccount(a) ==
    /\ a \notin Rows
    /\ account' = [account EXCEPT ![a] = "LIVE"]
    /\ \E p \in ParentIds : parent' = [parent EXCEPT ![a] = p]
    /\ UNCHANGED <<request, crossed>>

-----------------------------------------------------------------------------
(* updateAccount with a parentId: `at' is where the walk has come, `seen'  *)
(* where it has been.                                                      *)
BeginMove(r, a) ==
    /\ request[r] = Idle
    /\ a \in Found
    /\ \E p \in Account \ {a} :
          request' = [request EXCEPT ![r] =
             [op |-> "move", account |-> a, under |-> p, at |-> p, seen |-> {}]]
    /\ UNCHANGED <<account, parent, crossed>>

(* One turn of assertNoParentCycle.  A parent that is not there ends the   *)
(* walk; the update will fail on it.                                       *)
Meets_Never(w) == FALSE
Meets(w) == w.at = w.account

Walk(r) ==
    /\ r \in Moving
    /\ LET w == request[r] IN
          /\ w.at # NoParent
          /\ request' = [request EXCEPT ![r] =
                IF Meets(w) \/ w.at \notin Rows THEN Idle
                ELSE [w EXCEPT !.at = parent[w.at], !.seen = w.seen \cup {w.at}]]
    /\ UNCHANGED <<account, parent, crossed>>

(* The walk has come to the top: the account is moved, whatever became of  *)
(* it since it was read.                                                   *)
Move(r) ==
    /\ r \in Moving
    /\ request[r].at = NoParent
    /\ parent' = [parent EXCEPT ![request[r].account] = request[r].under]
    /\ request' = [request EXCEPT ![r] = Idle]
    /\ crossed' = (crossed \/ Moving # {r})
    /\ UNCHANGED account

(* updateAccount with a parentId of null: nothing is checked.  The account *)
(* was found before, which may be long before: any row was.                *)
MoveToTop(a) ==
    /\ a \in Rows
    /\ parent' = [parent EXCEPT ![a] = NoParent]
    /\ UNCHANGED <<account, request, crossed>>

(* deactivateAccount leaves the account where it is in the tree.           *)
SoftDeleteAccount(a) ==
    /\ a \in Found
    /\ account' = [account EXCEPT ![a] = "DELETED"]
    /\ UNCHANGED <<parent, request, crossed>>

(* A check refuses, a query fails or the process ends.                     *)
Abandon(r) ==
    /\ request[r] # Idle
    /\ request' = [request EXCEPT ![r] = Idle]
    /\ UNCHANGED <<account, parent, crossed>>

RequestStep(r) ==
    \/ \E a \in Account : BeginMove(r, a)
    \/ Walk(r) \/ Move(r) \/ Abandon(r)

ChartNext ==
    \/ \E a \in Account : CreateAccount(a) \/ MoveToTop(a) \/ SoftDeleteAccount(a)
    \/ \E r \in Request : RequestStep(r)

(* A request that is on its walk goes on.                                  *)
ChartSpec ==
    /\ ChartInit /\ [][ChartNext]_chartVars
    /\ \A r \in Request : WF_chartVars(Walk(r))

-----------------------------------------------------------------------------
ChartTypeOK ==
    /\ account \in [Account -> {"NONE", "LIVE", "DELETED"}]
    /\ parent \in [Account -> Rows \cup {NoParent}]
    /\ request \in [Request ->
          {Idle} \cup [op : {"move"}, account : Rows, under : Account,
                       at : Account \cup {NoParent}, seen : SUBSET Rows]]
    /\ crossed \in BOOLEAN

(* No accounts are under each other in a ring: of any set of accounts, one *)
(* has its parent outside of it.  The walk makes sure of that, unless two  *)
(* walks overlap, with whatever creating, deleting and moving to the top   *)
(* there is beside it.                                                     *)
Tree == \A ring \in (SUBSET Account) \ {{}} : \E a \in ring : parent[a] \notin ring

ChartIsATree == crossed \/ Tree

(* The walk comes to an end, even while accounts on its way are moved to   *)
(* the top or new ones are added: unless walks overlap.  (It has no limit  *)
(* and would go round a ring for ever.)                                    *)
WalksEnd ==
    \A r \in Request :
       r \in Moving ~> (crossed \/ request[r].op # "move" \/ request[r].at = NoParent)
=============================================================================
