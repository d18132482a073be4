------------------------- MODULE MessageStoreProofs -------------------------
(***************************************************************************)
(* What a page of a listing is, whatever the table holds: the rows that    *)
(* ORDER BY and LIMIT return are the first ones in the order, all of them  *)
(* when there are no more than the limit, and exactly the limit otherwise. *)
(* The proofs about the relay and about the catch-up cite these lemmas.    *)
(***************************************************************************)
EXTENDS MessageStore, TLAPS, FiniteSetTheorems, WellFoundedInduction

\* Every nonempty set of positive numbers has a least element, so the next
\* page of a thread read starts at a row of the page before it.
LEMMA LeastElement ==
    ASSUME NEW S \in SUBSET Nat, S # {}
    PROVE  LET least == CHOOSE x \in S : \A y \in S : x <= y
           IN  least \in S /\ \A y \in S : least <= y
<1> DEFINE Less == {ss \in Nat \X Nat : ss[1] < ss[2]}
<1>1. IsWellFoundedOn(Less, Nat)
  BY NatLessThanWellFounded DEF OpToRel
<1> HIDE DEF Less
<1>2. PICK x \in S : \A y \in S : ~ (<<y, x>> \in Less)
  BY <1>1, WFMin
<1>3. ASSUME NEW y \in S
      PROVE  x <= y
  <2>1. x \in Nat /\ y \in Nat
    OBVIOUS
  <2>2. y < x => <<y, x>> \in Less
    BY <2>1, Zenon DEF Less
  <2>3. ~(y < x)
    BY <1>2, <2>2
  <2>4. QED
    BY <2>1, <2>3
<1>4. QED
  BY <1>3

\* A bounded one has a greatest element, so a page has a last row.
LEMMA GreatestElement ==
    ASSUME NEW m \in Nat, NEW S \in SUBSET (0..m), S # {}
    PROVE  LET greatest == CHOOSE x \in S : \A y \in S : y <= x
           IN  greatest \in S /\ \A y \in S : y <= greatest
<1> DEFINE T == {z \in 0..m : m - z \in S}
<1>1. PICK s \in S : TRUE
  OBVIOUS
<1>2. m - s \in T
  OBVIOUS
<1>3. T \in SUBSET Nat /\ T # {}
  BY <1>2
<1>4. PICK t \in T : \A z \in T : t <= z
  BY <1>3, LeastElement
<1>5. m - t \in S
  BY <1>4
<1>6. ASSUME NEW y \in S PROVE y <= m - t
  <2>1. m - y \in T
    OBVIOUS
  <2>2. t <= m - y /\ t \in 0..m /\ y \in 0..m
    BY <1>4, <2>1
  <2>3. QED
    BY <2>2
<1>7. \E x \in S : \A y \in S : y <= x
  BY <1>5, <1>6
<1>8. QED
  BY <1>7

LEMMA FiniteBelow ==
    ASSUME NEW m \in Nat, NEW S \in SUBSET (1..m)
    PROVE  IsFiniteSet(S) /\ Cardinality(S) \in Nat
<1>1. IsFiniteSet(1..m)
  BY FS_Interval
<1>2. IsFiniteSet(S)
  BY <1>1, FS_Subset
<1>3. QED
  BY <1>2, FS_CardinalityType

LEMMA SmallerSet ==
    ASSUME NEW m \in Nat, NEW T \in SUBSET (1..m), NEW S \in SUBSET T
    PROVE  Cardinality(S) <= Cardinality(T)
BY FiniteBelow, FS_Subset

LEMMA OneLess ==
    ASSUME NEW m \in Nat, NEW T \in SUBSET (1..m), NEW x \in T
    PROVE  Cardinality(T \ {x}) = Cardinality(T) - 1
BY FiniteBelow, FS_RemoveElement

\* ORDER BY id ASC LIMIT n.
LEMMA OldestFacts ==
    ASSUME NEW m \in Nat, NEW ids \in SUBSET (1..m), NEW n \in Nat
    PROVE  /\ Oldest(ids, n) \subseteq ids
           /\ \A x \in ids \ Oldest(ids, n), y \in Oldest(ids, n) : y < x
           /\ Cardinality(Oldest(ids, n)) <= n
           /\ Oldest(ids, n) # ids => Cardinality(Oldest(ids, n)) = n
           /\ Cardinality(ids) <= n => Oldest(ids, n) = ids
<1> DEFINE page == Oldest(ids, n)
           Before(x) == {y \in ids : y < x}
<1>1. page \subseteq ids /\ \A x \in ids : x \in page <=> Cardinality(Before(x)) < n
  BY DEF Oldest
<1>2. \A x \in ids : Before(x) \in SUBSET (1..m) /\ Cardinality(Before(x)) \in Nat
  BY FiniteBelow
<1>3. \A x \in ids : x \in Nat /\ x \in 0..m
  OBVIOUS
<1> HIDE DEF page
<1>4. ASSUME NEW x \in ids \ page, NEW y \in page PROVE y < x
  <2> SUFFICES ASSUME x <= y PROVE FALSE
    BY <1>1
  <2>1. x \in ids /\ y \in ids /\ x \in Nat /\ y \in Nat
    BY <1>1, <1>3
  <2>2. \A z \in Before(x) : z \in Before(y)
    BY <1>3, <2>1
  <2>3. Before(x) \in SUBSET Before(y)
    BY <2>2
  <2>4. Cardinality(Before(x)) <= Cardinality(Before(y))
    BY <1>1, <1>2, <2>3, SmallerSet
  <2>5. QED
    BY <1>1, <1>2, <2>4
<1>5. Cardinality(page) \in Nat /\ page \in SUBSET (1..m)
  BY <1>1, FiniteBelow
<1>6. Cardinality(page) <= n
  <2>1. CASE page = {}
    BY <2>1, FS_EmptySet
  <2>2. CASE page # {}
    <3>1. page \in SUBSET (0..m)
      BY <1>1, <1>3
    <3>2. PICK last \in page : \A y \in page : y <= last
      BY <2>2, <3>1, GreatestElement
    <3>3. page \ {last} \in SUBSET Before(last)
      BY <1>1, <3>2
    <3>4. Cardinality(page \ {last}) <= Cardinality(Before(last))
      BY <1>1, <1>2, <3>3, SmallerSet
    <3>5. Cardinality(page \ {last}) = Cardinality(page) - 1
      BY <1>5, OneLess
    <3>6. QED
      BY <1>1, <1>2, <1>5, <3>4, <3>5
  <2>3. QED
    BY <2>1, <2>2
<1>7. ASSUME page # ids PROVE Cardinality(page) = n
  <2>1. ids \ page # {} /\ ids \ page \in SUBSET Nat
    BY <1>1, <1>7, <1>3
  <2>2. PICK x \in ids \ page : \A y \in ids \ page : x <= y
    BY <2>1, LeastElement
  <2>3. \A z \in Before(x) : z \in page
    BY <1>3, <2>2
  <2>4. Before(x) \in SUBSET page
    BY <2>3
  <2>5. Cardinality(Before(x)) <= Cardinality(page)
    BY <1>5, <2>4, SmallerSet
  <2>6. QED
    BY <1>1, <1>2, <1>5, <1>6, <2>5
<1>8. ASSUME Cardinality(ids) <= n PROVE page = ids
  <2>1. ASSUME NEW x \in ids PROVE x \in page
    <3>1. Before(x) \in SUBSET (ids \ {x})
      OBVIOUS
    <3>2. Cardinality(Before(x)) <= Cardinality(ids \ {x})
      BY <3>1, SmallerSet
    <3>3. Cardinality(ids \ {x}) = Cardinality(ids) - 1 /\ Cardinality(ids) \in Nat
      BY OneLess, FiniteBelow
    <3>4. QED
      BY <1>1, <1>2, <1>8, <3>2, <3>3
  <2>2. QED
    BY <1>1, <2>1
<1>9. QED
  BY <1>1, <1>4, <1>6, <1>7, <1>8 DEF page

\* ORDER BY id DESC LIMIT n.
LEMMA NewestFacts ==
    ASSUME NEW m \in Nat, NEW ids \in SUBSET (1..m), NEW n \in Nat
    PROVE  /\ Newest(ids, n) \subseteq ids
           /\ \A x \in ids \ Newest(ids, n), y \in Newest(ids, n) : x < y
           /\ Newest(ids, n) # ids => Cardinality(Newest(ids, n)) = n
<1> DEFINE page == Newest(ids, n)
           After(x) == {y \in ids : y > x}
<1>1. page \subseteq ids /\ \A x \in ids : x \in page <=> Cardinality(After(x)) < n
  BY DEF Newest
<1>2. \A x \in ids : After(x) \in SUBSET (1..m) /\ Cardinality(After(x)) \in Nat
  BY FiniteBelow
<1>3. \A x \in ids : x \in Nat /\ x \in 0..m
  OBVIOUS
<1> HIDE DEF page
<1>4. ASSUME NEW x \in ids \ page, NEW y \in page PROVE x < y
  <2> SUFFICES ASSUME y <= x PROVE FALSE
    BY <1>1
  <2>1. x \in ids /\ y \in ids /\ x \in Nat /\ y \in Nat
    BY <1>1, <1>3
  <2>2. \A z \in After(x) : z \in After(y)
    BY <1>3, <2>1
  <2>3. After(x) \in SUBSET After(y)
    BY <2>2
  <2>4. Cardinality(After(x)) <= Cardinality(After(y))
    BY <1>1, <1>2, <2>3, SmallerSet
  <2>5. QED
    BY <1>1, <1>2, <2>4
<1>5. Cardinality(page) \in Nat /\ page \in SUBSET (1..m)
  BY <1>1, FiniteBelow
<1>6. Cardinality(page) <= n
  <2>1. CASE page = {}
    BY <2>1, FS_EmptySet
  <2>2. CASE page # {}
    <3>1. page \in SUBSET Nat
      BY <1>1, <1>3
    <3>2. PICK last \in page : \A y \in page : last <= y
      BY <2>2, <3>1, LeastElement
    <3>3. page \ {last} \in SUBSET After(last)
      BY <1>1, <3>2
    <3>4. Cardinality(page \ {last}) <= Cardinality(After(last))
      BY <1>1, <1>2, <3>3, SmallerSet
    <3>5. Cardinality(page \ {last}) = Cardinality(page) - 1
      BY <1>5, OneLess
    <3>6. QED
      BY <1>1, <1>2, <1>5, <3>4, <3>5
  <2>3. QED
    BY <2>1, <2>2
<1>7. ASSUME page # ids PROVE Cardinality(page) = n
  <2>1. ids \ page # {} /\ ids \ page \in SUBSET (0..m)
    BY <1>1, <1>7, <1>3
  <2>2. PICK x \in ids \ page : \A y \in ids \ page : y <= x
    BY <2>1, GreatestElement
  <2>3. \A z \in After(x) : z \in page
    BY <1>3, <2>2
  <2>4. After(x) \in SUBSET page
    BY <2>3
  <2>5. Cardinality(After(x)) <= Cardinality(page)
    BY <1>5, <2>4, SmallerSet
  <2>6. QED
    BY <1>1, <1>2, <1>5, <1>6, <2>5
<1>8. QED
  BY <1>1, <1>4, <1>7 DEF page
=============================================================================
