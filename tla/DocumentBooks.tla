---------------------------- MODULE DocumentBooks ----------------------------
(***************************************************************************)
(* What the books promise of a document, whatever its kind: its amount is  *)
(* entered once, as a whole, and taken out once, as a whole.  A document   *)
(* that was taken out may be one that can be entered again (an invoice     *)
(* that is sent anew) or one that is gone for good.                        *)
(*                                                                         *)
(* How often the operations behind it are called, in which order, and      *)
(* where they stop, does not show.                                         *)
(***************************************************************************)
EXTENDS Integers

CONSTANTS
    Document,
    Amount      \* what a document may be entered with, numbers

VARIABLES
    stage,      \* of a document: out of the books, in them, or gone
    carried     \* what the books carry of it

BooksVars == <<stage, carried>>

BooksInit ==
    /\ stage = [d \in Document |-> "out"]
    /\ carried = [d \in Document |-> 0]

Enter(d) ==
    /\ stage[d] = "out"
    /\ stage' = [stage EXCEPT ![d] = "in"]
    /\ \E amount \in Amount : carried' = [carried EXCEPT ![d] = amount]

Leave(d) ==
    /\ stage[d] = "in"
    /\ \E next \in {"out", "gone"} : stage' = [stage EXCEPT ![d] = next]
    /\ carried' = [carried EXCEPT ![d] = 0]

BooksNext == \E d \in Document : Enter(d) \/ Leave(d)

BooksSpec == BooksInit /\ [][BooksNext]_BooksVars
=============================================================================
