--------------------------- MODULE SubLedgerProofs ---------------------------
(***************************************************************************)
(* What posting an entry and posting its mirror image do to the journal    *)
(* and to the control account, for every ledger that is built on them; and *)
(* sums over documents.                                                    *)
(***************************************************************************)
EXTENDS SubLedger, FiniteSetTheorems, TLAPS

EntryRow == [doc : Document, amount : Int, postingStatus : {"POSTED", "VOIDED"}]

(* What posting for document d, or reversing an entry of it, leaves alone: *)
(* the entries and the balances of every other document.                   *)
Elsewhere(d) ==
    /\ \A e \in DOMAIN journal :
          /\ e \in DOMAIN journal'
          /\ journal'[e].doc = journal[e].doc
          /\ journal[e].doc # d => journal'[e] = journal[e]
    /\ \A x \in Document \ {d} : control'[x] = control[x]

(* A new entry leaves those before it alone and moves the balance of its   *)
(* document only (createPostedJE).                                         *)
LEMMA CreatePostedEffect ==
    ASSUME JournalTypeOK, NEW d \in Document, NEW amount \in Int,
           CreatePosted(d, amount)
    PROVE  /\ JournalTypeOK'
           /\ Len(journal') = Len(journal) + 1
           /\ \A e \in DOMAIN journal : e \in DOMAIN journal' /\ journal'[e] = journal[e]
           /\ NextEntry \in DOMAIN journal' /\ NextEntry \in Nat \ {NoEntry}
           /\ journal'[NextEntry] = PostedEntry(d, amount)
           /\ control'[d] = control[d] + amount
           /\ \A x \in Document \ {d} : control'[x] = control[x]
<1>1. PostedEntry(d, amount) \in EntryRow
  BY DEF PostedEntry, EntryRow
<1>2. /\ journal \in Seq(EntryRow)
      /\ journal' = Append(journal, PostedEntry(d, amount))
  BY DEF JournalTypeOK, CreatePosted, EntryRow
<1>3. /\ journal' \in Seq(EntryRow)
      /\ Len(journal') = Len(journal) + 1
      /\ \A e \in DOMAIN journal : e \in DOMAIN journal' /\ journal'[e] = journal[e]
      /\ NextEntry \in DOMAIN journal' /\ NextEntry \in Nat \ {NoEntry}
      /\ journal'[NextEntry] = PostedEntry(d, amount)
  BY <1>1, <1>2 DEF NextEntry, NoEntry
<1>4. /\ control' \in [Document -> Int]
      /\ control'[d] = control[d] + amount
      /\ \A x \in Document \ {d} : control'[x] = control[x]
  BY DEF JournalTypeOK, CreatePosted
<1> QED
  BY <1>3, <1>4 DEF JournalTypeOK, EntryRow

(* The mirror image takes the entry out of the balance of its document     *)
(* and marks it VOIDED (createReversingJE); other entries stay as they     *)
(* are, and every entry keeps its document.                                *)
LEMMA PostMirrorEffect ==
    ASSUME JournalTypeOK, NEW e \in DOMAIN journal, PostMirror(e)
    PROVE  /\ JournalTypeOK'
           /\ \A x \in DOMAIN journal :
                 /\ x \in DOMAIN journal'
                 /\ journal'[x].doc = journal[x].doc
                 /\ x # e => journal'[x] = journal[x]
           /\ journal'[e] = [journal[e] EXCEPT !.postingStatus = "VOIDED"]
           /\ journal[e].doc \in Document
           /\ control'[journal[e].doc] = control[journal[e].doc] - journal[e].amount
           /\ \A x \in Document \ {journal[e].doc} : control'[x] = control[x]
<1> DEFINE marked == [journal EXCEPT ![e].postingStatus = "VOIDED"]
           mirror == PostedEntry(journal[e].doc, 0 - journal[e].amount)
<1>a. journal \in Seq(EntryRow)
  BY DEF JournalTypeOK, EntryRow
<1>1. journal[e] \in EntryRow
  BY <1>a
<1>2. /\ marked \in Seq(EntryRow) /\ Len(marked) = Len(journal)
      /\ DOMAIN marked = DOMAIN journal
      /\ \A x \in DOMAIN journal : /\ marked[x].doc = journal[x].doc
                                   /\ x # e => marked[x] = journal[x]
      /\ marked[e] = [journal[e] EXCEPT !.postingStatus = "VOIDED"]
  BY <1>a, <1>1 DEF EntryRow
<1>3. mirror \in EntryRow
  BY <1>1 DEF PostedEntry, EntryRow
<1>4. journal' = Append(marked, mirror)
  BY DEF PostMirror
<1> HIDE DEF marked, mirror
<1>5. /\ journal' \in Seq(EntryRow)
      /\ \A x \in DOMAIN marked : x \in DOMAIN journal' /\ journal'[x] = marked[x]
  BY <1>2, <1>3, <1>4
<1>6. /\ journal[e].doc \in Document
      /\ control' \in [Document -> Int]
      /\ control'[journal[e].doc] = control[journal[e].doc] - journal[e].amount
      /\ \A x \in Document \ {journal[e].doc} : control'[x] = control[x]
  BY <1>1 DEF JournalTypeOK, PostMirror, EntryRow
<1> QED
  BY <1>2, <1>5, <1>6 DEF JournalTypeOK, EntryRow

-----------------------------------------------------------------------------
(* Sums over documents, as the ledgers write them: a fold over a function. *)
Sum(f, S) == FoldFunctionOnSet(+, 0, f, S)

(* If some subsets of a finite set are bad, one of them has none below it. *)
LEMMA SmallestBad ==
    ASSUME NEW S, IsFiniteSet(S), NEW bad \in SUBSET (SUBSET S), bad # {}
    PROVE  \E T \in bad : \A U \in SUBSET T : U # T => U \notin bad
<1> DEFINE R == StrictSubsetOrdering(S)
<1>1. IsWellFoundedOn(R, SUBSET S)
  BY FS_StrictSubsetOrderingWellFounded, FS_FiniteSubsetsOfFinite
<1>2. \A T, U \in SUBSET S : <<U, T>> \in R <=> U \subseteq T /\ U # T
  BY DEF StrictSubsetOrdering
<1> HIDE DEF R
<1>3. PICK T \in bad : \A U \in bad : ~(<<U, T>> \in R)
  BY <1>1, WFMin
<1> QED
  BY <1>2, <1>3

(* The function by which the fold is defined, on the subsets of S: it takes*)
(* a chosen element out, and goes on with the rest.                        *)
Chosen(T) == CHOOSE x \in T : TRUE

IsPartial(g, f, S) ==
    g = [T \in SUBSET S |-> IF T = {} THEN 0 ELSE f[Chosen(T)] + g[T \ {Chosen(T)}]]

(* What is chosen is in the set.                                           *)
LEMMA ChosenIsIn == \A T : T # {} => Chosen(T) \in T
  BY DEF Chosen

(* Two such functions agree where both are defined ...                     *)
LEMMA PartialsAgree ==
    ASSUME NEW S, NEW T, IsFiniteSet(S), NEW f, NEW g, NEW h,
           IsPartial(g, f, S), IsPartial(h, f, T)
    PROVE  \A U \in SUBSET (S \cap T) : g[U] = h[U]
<1> DEFINE bad == {U \in SUBSET (S \cap T) : g[U] # h[U]}
<1>1. SUFFICES ASSUME bad # {} PROVE FALSE
  OBVIOUS
<1>2. bad \in SUBSET (SUBSET S)
  OBVIOUS
<1>3. PICK U \in bad : \A V \in SUBSET U : V # U => V \notin bad
  <2> HIDE DEF bad
  <2> QED
    BY <1>1, <1>2, SmallestBad
<1>4. /\ g[U] = IF U = {} THEN 0 ELSE f[Chosen(U)] + g[U \ {Chosen(U)}]
      /\ h[U] = IF U = {} THEN 0 ELSE f[Chosen(U)] + h[U \ {Chosen(U)}]
  BY <1>3 DEF IsPartial
<1>5. U # {}
  BY <1>3, <1>4
<1>6. U \ {Chosen(U)} \in SUBSET U /\ U \ {Chosen(U)} # U
  BY <1>5, ChosenIsIn
<1>7. g[U \ {Chosen(U)}] = h[U \ {Chosen(U)}]
  BY <1>3, <1>6
<1> QED
  BY <1>3, <1>4, <1>5, <1>7

(* ... and there is one on every finite set.                               *)
LEMMA PartialExists ==
    ASSUME NEW S, IsFiniteSet(S), NEW f
    PROVE  \E g : IsPartial(g, f, S)
<1> DEFINE bad == {T \in SUBSET S : ~ \E g : IsPartial(g, f, T)}
<1>1. SUFFICES ASSUME bad # {} PROVE FALSE
  OBVIOUS
<1>2. bad \in SUBSET (SUBSET S)
  OBVIOUS
<1>3. PICK T \in bad : \A U \in SUBSET T : U # T => U \notin bad
  <2> HIDE DEF bad
  <2> QED
    BY <1>1, <1>2, SmallestBad
<1>4. T \in SUBSET S
  BY <1>3
<1> DEFINE Part(U) == CHOOSE g : IsPartial(g, f, U)
           Below(U) == U \ {Chosen(U)}
           value == [U \in SUBSET T |->
                       IF U = {} THEN 0 ELSE f[Chosen(U)] + Part(Below(U))[Below(U)]]
<1>5. \A U \in SUBSET T : U # T => IsPartial(Part(U), f, U)
  <2>1. \A U \in SUBSET T : U # T => \E g : IsPartial(g, f, U)
    BY <1>3, <1>4
  <2> QED
    BY <2>1
<1>6. \A U \in SUBSET T : U # {} => Below(U) \in SUBSET U /\ Below(U) # U
  BY ChosenIsIn
<1> HIDE DEF Part, Below
<1>7. ASSUME NEW U \in SUBSET T, U # T
      PROVE  Part(U)[U] = value[U]
  <2>1. Part(U)[U] = IF U = {} THEN 0 ELSE f[Chosen(U)] + Part(U)[Below(U)]
    BY <1>5, <1>7 DEF IsPartial, Below
  <2>2. ASSUME U # {} PROVE Part(U)[Below(U)] = Part(Below(U))[Below(U)]
    <3>1. Below(U) \in SUBSET U /\ Below(U) # U
      BY <1>6, <2>2
    <3>2. Below(U) \in SUBSET T /\ Below(U) # T
      BY <1>7, <3>1
    <3>3. IsPartial(Part(U), f, U) /\ IsPartial(Part(Below(U)), f, Below(U))
      BY <1>5, <1>7, <3>2
    <3>4. IsFiniteSet(U)
      BY <1>4, <1>7, FS_Subset
    <3>5. Below(U) \in SUBSET (U \cap Below(U))
      BY <3>1
    <3> QED
      BY <3>3, <3>4, <3>5, PartialsAgree
  <2> QED
    BY <2>1, <2>2
<1>8. IsPartial(value, f, T)
  <2>1. \A U \in SUBSET T : U # {} =>
           value[U] = f[Chosen(U)] + value[U \ {Chosen(U)}]
    <3> TAKE U \in SUBSET T
    <3> HAVE U # {}
    <3>1. Below(U) \in SUBSET T /\ Below(U) # T
      BY <1>6
    <3>2. Part(Below(U))[Below(U)] = value[Below(U)]
      BY <1>7, <3>1
    <3>3. value[U] = f[Chosen(U)] + Part(Below(U))[Below(U)]
      OBVIOUS
    <3> QED
      BY <3>2, <3>3 DEF Below
  <2>2. \A U \in SUBSET T : value[U] =
           IF U = {} THEN 0 ELSE f[Chosen(U)] + value[U \ {Chosen(U)}]
    BY <2>1
  <2>3. value = [U \in SUBSET T |-> value[U]]
    OBVIOUS
  <2> HIDE DEF value
  <2> QED
    BY <2>2, <2>3 DEF IsPartial
<1> QED
  BY <1>3, <1>8

(* A sum is the chosen element's share and the sum over the others.        *)
LEMMA SumUnfolds ==
    ASSUME NEW S, IsFiniteSet(S), NEW f
    PROVE  /\ Sum(f, {}) = 0
           /\ S # {} => Sum(f, S) = f[Chosen(S)] + Sum(f, S \ {Chosen(S)})
<1> DEFINE Part(T) == CHOOSE g : IsPartial(g, f, T)
<1>1. \A T : Sum(f, T) = Part(T)[T]
  BY DEF Sum, FoldFunctionOnSet, MapThenFoldSet, IsPartial, Chosen
<1>2. \A T : IsFiniteSet(T) => IsPartial(Part(T), f, T)
  BY PartialExists
<1> HIDE DEF Part
<1>3. Sum(f, {}) = 0
  BY <1>1, <1>2, FS_EmptySet DEF IsPartial
<1>4. ASSUME S # {} PROVE Sum(f, S) = f[Chosen(S)] + Sum(f, S \ {Chosen(S)})
  <2> DEFINE T == S \ {Chosen(S)}
  <2>1. IsFiniteSet(T) /\ T \in SUBSET S
    BY FS_Subset
  <2>2. Part(S)[S] = f[Chosen(S)] + Part(S)[T]
    BY <1>2, <1>4 DEF IsPartial
  <2>3. T \in SUBSET (S \cap T)
    OBVIOUS
  <2> HIDE DEF T
  <2>4. Part(S)[T] = Part(T)[T]
    BY <1>2, <2>1, <2>3, PartialsAgree
  <2> QED
    BY <1>1, <2>2, <2>4 DEF T
<1> QED
  BY <1>3, <1>4

(* ... and so it is for every other element, whichever is chosen.          *)
LEMMA SumTakesOut ==
    ASSUME NEW S, IsFiniteSet(S), NEW f, \A x \in S : f[x] \in Int
    PROVE  /\ Sum(f, S) \in Int
           /\ \A x \in S : Sum(f, S) = f[x] + Sum(f, S \ {x})
<1> DEFINE Good(T) == /\ Sum(f, T) \in Int
                      /\ \A x \in T : Sum(f, T) = f[x] + Sum(f, T \ {x})
           bad == {T \in SUBSET S : ~Good(T)}
<1>1. SUFFICES ASSUME bad # {} PROVE FALSE
  OBVIOUS
<1>2. bad \in SUBSET (SUBSET S)
  OBVIOUS
<1>3. PICK T \in bad : \A U \in SUBSET T : U # T => U \notin bad
  <2> HIDE DEF bad
  <2> QED
    BY <1>1, <1>2, SmallestBad
<1>4. T \in SUBSET S /\ ~Good(T)
  BY <1>3
<1>5. \A U \in SUBSET T : U # T => Good(U)
  BY <1>3, <1>4
<1>6. \A U \in SUBSET T : IsFiniteSet(U)
  BY <1>4, FS_Subset
<1> DEFINE y == Chosen(T)
<1> HIDE DEF bad
<1>7. CASE T = {}
  BY <1>4, <1>7, SumUnfolds, FS_EmptySet
<1>8. CASE T # {}
  <2>1. y \in T /\ Sum(f, T) = f[y] + Sum(f, T \ {y})
    BY <1>6, <1>8, ChosenIsIn, SumUnfolds
  <2> HIDE DEF y
  <2>2. f[y] \in Int /\ Sum(f, T \ {y}) \in Int
    BY <1>4, <1>5, <2>1
  <2>3. Sum(f, T) \in Int
    BY <2>1, <2>2
  <2>4. ASSUME NEW x \in T, x # y PROVE Sum(f, T) = f[x] + Sum(f, T \ {x})
    <3> DEFINE U == (T \ {x}) \ {y}
    <3>1. (T \ {y}) \ {x} = U /\ x \in T \ {y} /\ y \in T \ {x}
      BY <2>1, <2>4
    <3>2. Good(T \ {y}) /\ Good(T \ {x}) /\ Good(U)
      BY <1>5, <2>1, <2>4
    <3> HIDE DEF U
    <3>3. Sum(f, T \ {y}) = f[x] + Sum(f, U) /\ Sum(f, T \ {x}) = f[y] + Sum(f, U)
      BY <3>1, <3>2 DEF U
    <3>4. f[x] \in Int /\ Sum(f, U) \in Int
      BY <1>4, <2>4, <3>2
    <3> QED
      BY <2>1, <2>2, <3>3, <3>4
  <2> QED
    BY <1>4, <2>1, <2>3, <2>4
<1> QED
  BY <1>7, <1>8

(* A property of the sums over the subsets of a finite set that holds for  *)
(* the empty one and survives one more element holds for all: `good' has   *)
(* the subsets for which it holds.                                         *)
LEMMA SubsetInduction ==
    ASSUME NEW S, IsFiniteSet(S), NEW good, {} \in good,
           \A T \in SUBSET S : \A x \in T : T \ {x} \in good => T \in good
    PROVE  S \in good
<1> DEFINE bad == {T \in SUBSET S : T \notin good}
<1>1. SUFFICES ASSUME bad # {} PROVE FALSE
  OBVIOUS
<1>2. bad \in SUBSET (SUBSET S)
  OBVIOUS
<1>3. PICK T \in bad : \A U \in SUBSET T : U # T => U \notin bad
  <2> HIDE DEF bad
  <2> QED
    BY <1>1, <1>2, SmallestBad
<1>4. PICK x \in T : TRUE
  BY <1>3
<1>5. T \ {x} \in SUBSET T /\ T \ {x} # T
  BY <1>4
<1>6. T \ {x} \in good
  BY <1>3, <1>5
<1> QED
  BY <1>3, <1>4, <1>6

(* Sums are added element by element.                                      *)
LEMMA SumAdds ==
    ASSUME NEW S, IsFiniteSet(S), NEW f, NEW g, NEW h,
           \A x \in S : f[x] \in Int /\ g[x] \in Int /\ h[x] = f[x] + g[x]
    PROVE  Sum(h, S) = Sum(f, S) + Sum(g, S)
<1> DEFINE good == {T \in SUBSET S : Sum(h, T) = Sum(f, T) + Sum(g, T)}
<1>1. {} \in good
  BY SumUnfolds, FS_EmptySet
<1>2. ASSUME NEW T \in SUBSET S, NEW x \in T, T \ {x} \in good PROVE T \in good
  <2>1. IsFiniteSet(T) /\ IsFiniteSet(T \ {x})
    BY FS_Subset
  <2>2. \A y \in T : f[y] \in Int /\ g[y] \in Int /\ h[y] \in Int
    OBVIOUS
  <2>3. /\ Sum(f, T) = f[x] + Sum(f, T \ {x})
        /\ Sum(g, T) = g[x] + Sum(g, T \ {x})
        /\ Sum(h, T) = h[x] + Sum(h, T \ {x})
    BY <2>1, <2>2, SumTakesOut
  <2>4. Sum(f, T \ {x}) \in Int /\ Sum(g, T \ {x}) \in Int
    BY <2>1, <2>2, SumTakesOut
  <2>5. Sum(h, T \ {x}) = Sum(f, T \ {x}) + Sum(g, T \ {x})
    BY <1>2
  <2>6. f[x] \in Int /\ g[x] \in Int /\ h[x] = f[x] + g[x]
    OBVIOUS
  <2>7. Sum(h, T) = Sum(f, T) + Sum(g, T)
    BY <2>3, <2>4, <2>5, <2>6
  <2> QED
    BY <2>7
<1> HIDE DEF good
<1>3. S \in good
  BY <1>1, <1>2, SubsetInduction
<1> QED
  BY <1>3 DEF good

(* Equal shares have equal sums.                                           *)
LEMMA SumSame ==
    ASSUME NEW S, IsFiniteSet(S), NEW f, NEW g, \A x \in S : f[x] \in Int /\ g[x] = f[x]
    PROVE  Sum(g, S) = Sum(f, S)
<1> DEFINE good == {T \in SUBSET S : Sum(g, T) = Sum(f, T)}
<1>1. {} \in good
  BY SumUnfolds, FS_EmptySet
<1>2. ASSUME NEW T \in SUBSET S, NEW x \in T, T \ {x} \in good PROVE T \in good
  <2>1. IsFiniteSet(T)
    BY FS_Subset
  <2>2. /\ Sum(f, T) = f[x] + Sum(f, T \ {x})
        /\ Sum(g, T) = g[x] + Sum(g, T \ {x})
    BY <2>1, SumTakesOut
  <2> QED
    BY <1>2, <2>2
<1> HIDE DEF good
<1>3. S \in good
  BY <1>1, <1>2, SubsetInduction
<1> QED
  BY <1>3 DEF good

(* A sum changes by as much as one of its shares does.                     *)
LEMMA SumChanges ==
    ASSUME NEW S, IsFiniteSet(S), NEW f, NEW g, NEW x \in S,
           \A y \in S : f[y] \in Int /\ g[y] \in Int,
           \A y \in S \ {x} : g[y] = f[y]
    PROVE  Sum(g, S) = Sum(f, S) - f[x] + g[x]
<1>1. IsFiniteSet(S \ {x})
  BY FS_Subset
<1>2. Sum(g, S \ {x}) = Sum(f, S \ {x})
  BY <1>1, SumSame
<1>3. /\ Sum(f, S) = f[x] + Sum(f, S \ {x})
      /\ Sum(g, S) = g[x] + Sum(g, S \ {x})
      /\ Sum(f, S) \in Int
  BY SumTakesOut
<1>4. Sum(f, S \ {x}) \in Int
  BY <1>1, SumTakesOut
<1> QED
  BY <1>2, <1>3, <1>4

(* A sum of naturals is one.                                               *)
LEMMA SumIsNatural ==
    ASSUME NEW S, IsFiniteSet(S), NEW f, \A x \in S : f[x] \in Nat
    PROVE  Sum(f, S) \in Nat
<1> DEFINE good == {T \in SUBSET S : Sum(f, T) \in Nat}
<1>1. {} \in good
  <2>1. Sum(f, {}) = 0
    BY SumUnfolds, FS_EmptySet
  <2> QED
    BY <2>1
<1>2. ASSUME NEW T \in SUBSET S, NEW x \in T, T \ {x} \in good PROVE T \in good
  <2>1. Sum(f, T) = f[x] + Sum(f, T \ {x})
    <3>1. IsFiniteSet(T) /\ \A y \in T : f[y] \in Int
      BY FS_Subset
    <3> QED
      BY <3>1, SumTakesOut
  <2>2. f[x] \in Nat /\ Sum(f, T \ {x}) \in Nat
    BY <1>2
  <2> QED
    BY <2>1, <2>2
<1> HIDE DEF good
<1>3. S \in good
  BY <1>1, <1>2, SubsetInduction
<1> QED
  BY <1>3 DEF good

(* It is at least each of its shares, and zero if all of them are.         *)
LEMMA SumBounds ==
    ASSUME NEW S, IsFiniteSet(S), NEW f, \A x \in S : f[x] \in Nat
    PROVE  /\ \A x \in S : f[x] <= Sum(f, S)
           /\ (\A x \in S : f[x] = 0) => Sum(f, S) = 0
<1>1. ASSUME NEW x \in S PROVE f[x] <= Sum(f, S)
  <2>1. Sum(f, S) = f[x] + Sum(f, S \ {x})
    BY SumTakesOut
  <2>2. f[x] \in Nat /\ Sum(f, S \ {x}) \in Nat
    BY FS_Subset, SumIsNatural
  <2> QED
    BY <2>1, <2>2
<1>2. ASSUME \A x \in S : f[x] = 0 PROVE Sum(f, S) = 0
  <2>1. \A x \in S : f[x] \in Int /\ f[x] = f[x] + f[x]
    BY <1>2
  <2>2. Sum(f, S) = Sum(f, S) + Sum(f, S) /\ Sum(f, S) \in Int
    BY <2>1, SumAdds, SumTakesOut
  <2> QED
    BY <2>2
<1> QED
  BY <1>1, <1>2
=============================================================================
