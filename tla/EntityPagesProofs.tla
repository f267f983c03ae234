------------------------- MODULE EntityPagesProofs --------------------------
(***************************************************************************)
(* Proofs about EntityPages: what the scan returns, and what a listing     *)
(* that is asked for page by page may miss or repeat while entities come   *)
(* and go.                                                                 *)
(*                                                                         *)
(* The scan is a recursive function, so its proofs are by induction on the *)
(* slots.  Induction is stated here about sets of numbers, which the       *)
(* provers can instantiate, and derived from the well-foundedness of       *)
(* strict inclusion between finite sets.                                   *)
(***************************************************************************)
EXTENDS EntityPages, FiniteSetTheorems, TLAPS

-----------------------------------------------------------------------------
(* Induction and ranks.                                                    *)

\* A nonempty set of naturals has a least element.
LEMMA LeastNatural ==
    ASSUME NEW S \in SUBSET Nat, S # {}
    PROVE  \E m \in S : \A n \in S : m <= n
<1> DEFINE below == {0..n : n \in S}
<1>1. below \in SUBSET FiniteSubsetsOf(Nat) /\ below # {}
  <2>1. \A n \in S : IsFiniteSet(0..n) /\ 0..n \in SUBSET Nat
    BY FS_Interval
  <2>2. \A n \in S : 0..n \in FiniteSubsetsOf(Nat)
    BY <2>1 DEF FiniteSubsetsOf
  <2> QED
    BY <2>2
<1>2. PICK least \in below :
        \A other \in below : <<other, least>> \notin StrictSubsetOrdering(Nat)
  BY <1>1, FS_StrictSubsetOrderingWellFounded, WFMin
<1>3. PICK m \in S : least = 0..m
  BY <1>2
<1>4. ASSUME NEW n \in S PROVE m <= n
  <2>1. SUFFICES ASSUME n < m PROVE FALSE
    OBVIOUS
  <2>2. 0..n \subseteq 0..m /\ m \in 0..m /\ m \notin 0..n /\ 0..n # 0..m
    BY <2>1
  <2>3. 0..m \in SUBSET Nat /\ 0..n \in SUBSET Nat
    OBVIOUS
  <2>4. <<0..n, 0..m>> \in StrictSubsetOrdering(Nat)
    BY <2>2, <2>3 DEF StrictSubsetOrdering
  <2> QED
    BY <1>2, <1>3, <2>4
<1> QED
  BY <1>4

\* Induction: a set of naturals with 0 and every successor is all of them.
LEMMA SetInduction ==
    ASSUME NEW S \in SUBSET Nat, 0 \in S, \A n \in S : n + 1 \in S
    PROVE  S = Nat
<1>1. SUFFICES ASSUME Nat \ S # {} PROVE FALSE
  OBVIOUS
<1>2. PICK m \in Nat \ S : \A n \in Nat \ S : m <= n
  BY <1>1, LeastNatural
<1>3. m # 0 /\ m - 1 \in Nat
  BY <1>2
<1>4. m - 1 \in S
  BY <1>2, <1>3
<1> QED
  BY <1>2, <1>3, <1>4

\* How many members of S are below i: the place of i in a list of S in order.
Rank(S, i) == Cardinality({j \in S : j < i})

\* Sets of slots are finite, and so are their parts.
LEMMA SlotsFinite ==
    ASSUME NEW S \in SUBSET Indices
    PROVE  IsFiniteSet(S) /\ Cardinality(S) \in Nat
<1>1. IsFiniteSet(Indices)
  BY ConstantsAssumption, FS_Interval DEF Indices
<1> QED
  BY <1>1, FS_Subset, FS_CardinalityType

\* A smaller set has fewer elements.
LEMMA SlotsSubset ==
    ASSUME NEW S \in SUBSET Indices, NEW T \in SUBSET S
    PROVE  Cardinality(T) <= Cardinality(S)
  BY SlotsFinite, FS_Subset

\* Ranks are numbers below the size of the set.
LEMMA RankType ==
    ASSUME NEW S \in SUBSET Indices, NEW i \in Int
    PROVE  /\ Rank(S, i) \in Nat
           /\ Rank(S, i) <= Cardinality(S)
           /\ i \in S => Rank(S, i) < Cardinality(S)
<1> DEFINE T == {j \in S : j < i}
<1>1. T \in SUBSET S /\ T \in SUBSET Indices /\ (i \in S => T # S)
  <2>1. i \notin T
    OBVIOUS
  <2> QED
    BY <2>1
<1>2. Cardinality(T) \in Nat /\ Cardinality(S) \in Nat
  BY <1>1, SlotsFinite
<1>3. Cardinality(T) <= Cardinality(S) /\ (Cardinality(S) = Cardinality(T) => S = T)
  BY <1>1, SlotsFinite, FS_Subset
<1> QED
  BY <1>1, <1>2, <1>3 DEF Rank

\* A later member has the higher rank, so no two have the same.
LEMMA RankRises ==
    ASSUME NEW S \in SUBSET Indices, NEW i \in S, NEW j \in S, i < j
    PROVE  Rank(S, i) < Rank(S, j)
<1> DEFINE T == {k \in S : k < i}  U == {k \in S : k < j}
<1>1. i \in Int /\ j \in Int /\ S \subseteq Int
  BY DEF Indices
<1>2. T \in SUBSET U /\ T # U /\ U \in SUBSET Indices /\ T \in SUBSET Indices
  <2>1. \A k \in S : k < i => k < j
    BY <1>1
  <2>2. i \in U /\ i \notin T
    BY <1>1
  <2> QED
    BY <2>1, <2>2
<1>3. IsFiniteSet(U) /\ Cardinality(U) \in Nat /\ Cardinality(T) \in Nat
  BY <1>2, SlotsFinite
<1>4. Cardinality(T) <= Cardinality(U) /\ Cardinality(U) # Cardinality(T)
  BY <1>2, <1>3, FS_Subset
<1> QED
  BY <1>3, <1>4 DEF Rank

LEMMA RankUnique ==
    ASSUME NEW S \in SUBSET Indices, NEW i \in S, NEW j \in S, Rank(S, i) = Rank(S, j)
    PROVE  i = j
<1>1. i \in Int /\ j \in Int
  BY DEF Indices
<1>2. Rank(S, i) \in Nat
  BY <1>1, RankType
<1>3. CASE i < j
  BY <1>2, <1>3, RankRises
<1>4. CASE j < i
  BY <1>2, <1>4, RankRises
<1> QED
  BY <1>1, <1>3, <1>4

\* One more member moves those behind it by one, and no other.
LEMMA RankAdd ==
    ASSUME NEW S \in SUBSET Indices, NEW x \in Indices \ S, NEW i \in Int
    PROVE  Rank(S \cup {x}, i) = IF x < i THEN Rank(S, i) + 1 ELSE Rank(S, i)
<1> DEFINE T == {k \in S : k < i}
<1>1. T \in SUBSET Indices /\ x \notin T
  OBVIOUS
<1>2. {k \in S \cup {x} : k < i} = IF x < i THEN T \cup {x} ELSE T
  OBVIOUS
<1>3. Cardinality(T \cup {x}) = Cardinality(T) + 1
  BY <1>1, SlotsFinite, FS_AddElement
<1> QED
  BY <1>2, <1>3 DEF Rank

-----------------------------------------------------------------------------
(* The scan.                                                               *)

\* page is the slice of S, in order, that from and lim ask for.
IsSlice(S, page, from, lim) ==
    /\ page \in Seq(S)
    /\ Len(page) = IF Cardinality(S) <= from THEN 0
                   ELSE IF Cardinality(S) - from < lim THEN Cardinality(S) - from ELSE lim
    /\ \A k \in 1..Len(page) : Rank(S, page[k]) = from + k - 1

\* What one matching slot behind those scanned does to the page: it is appended when its
\* rank is in the slice.
LEMMA SliceAppend ==
    ASSUME NEW S \in SUBSET Indices, NEW x \in Indices, \A i \in S : i < x,
           NEW from \in Nat, NEW lim \in Nat, NEW page, IsSlice(S, page, from, lim)
    PROVE  IsSlice(S \cup {x},
                   IF Cardinality(S) >= from /\ Len(page) < lim THEN Append(page, x) ELSE page,
                   from, lim)
<1>1. x \in Int /\ x \notin S /\ S \subseteq Int
  BY DEF Indices
<1>2. Cardinality(S) \in Nat /\ Cardinality(S \cup {x}) = Cardinality(S) + 1
  BY <1>1, SlotsFinite, FS_AddElement
<1>3. \A i \in S : Rank(S \cup {x}, i) = Rank(S, i)
  <2> TAKE i \in S
  <2>1. i \in Int /\ ~(x < i)
    BY <1>1
  <2> QED
    BY <1>1, <2>1, RankAdd
<1>4. Rank(S \cup {x}, x) = Cardinality(S)
  <2>1. \A j \in S \cup {x} : j < x <=> j \in S
    BY <1>1
  <2>2. {j \in S \cup {x} : j < x} = S
    BY <2>1
  <2> QED
    BY <2>2 DEF Rank
<1>5. page \in Seq(S) /\ page \in Seq(S \cup {x}) /\ Len(page) \in Nat
  BY DEF IsSlice
<1>6. ASSUME NEW k \in 1..Len(page)
     PROVE  page[k] \in S /\ Rank(S \cup {x}, page[k]) = from + k - 1
  <2>1. page[k] \in S
    BY <1>5
  <2> QED
    BY <1>3, <2>1 DEF IsSlice
<1> DEFINE next == IF Cardinality(S) >= from /\ Len(page) < lim THEN Append(page, x) ELSE page
<1>7. Len(next) = IF Cardinality(S) + 1 <= from THEN 0
                  ELSE IF Cardinality(S) + 1 - from < lim THEN Cardinality(S) + 1 - from ELSE lim
  BY <1>2, <1>5 DEF IsSlice
<1>8. next \in Seq(S \cup {x})
  BY <1>5
<1>9. ASSUME NEW k \in 1..Len(next) PROVE Rank(S \cup {x}, next[k]) = from + k - 1
  <2>1. CASE k \in 1..Len(page)
    <3>1. next[k] = page[k]
      BY <1>5, <2>1
    <3> QED
      BY <1>6, <2>1, <3>1
  <2>2. CASE k \notin 1..Len(page)
    <3>1. Cardinality(S) >= from /\ Len(page) < lim /\ k = Len(page) + 1 /\ next[k] = x
      BY <1>5, <2>2
    <3>2. Len(page) = Cardinality(S) - from
      BY <1>2, <3>1 DEF IsSlice
    <3> QED
      BY <1>2, <1>4, <3>1, <3>2
  <2> QED
    BY <2>1, <2>2
<1> HIDE DEF next
<1>10. IsSlice(S \cup {x}, next, from, lim)
  <2>1. Len(next) = IF Cardinality(S \cup {x}) <= from THEN 0
                    ELSE IF Cardinality(S \cup {x}) - from < lim
                           THEN Cardinality(S \cup {x}) - from ELSE lim
    BY <1>2, <1>7
  <2> QED
    BY <1>8, <1>9, <2>1, Zenon DEF IsSlice
<1> QED
  BY <1>10 DEF next

\* at is the scan's recursion.
IsScan(at, from, lim, f) ==
    /\ Scan(from, lim, f) = at[EntityCount]
    /\ at[0] = [matched |-> 0, page |-> <<>>]
    /\ \A i \in 1..MaxIndex :
         at[i] = IF ~(Valid(i) /\ Matches(i, f)) THEN at[i - 1]
                 ELSE [matched |-> at[i - 1].matched + 1,
                       page |-> IF InPage(at[i - 1].matched, from)
                                     /\ Len(at[i - 1].page) < lim
                                  THEN Append(at[i - 1].page, i) ELSE at[i - 1].page]

\* The scan's recursion is well defined.
LEMMA ScanEquations ==
    ASSUME NEW from, NEW lim, NEW f
    PROVE  \E at : IsScan(at, from, lim, f)
<1> DEFINE First == [matched |-> 0, page |-> <<>>]
           Step(before, i) ==
               IF ~(Valid(i) /\ Matches(i, f)) THEN before
               ELSE [matched |-> before.matched + 1,
                     page |-> IF InPage(before.matched, from) /\ Len(before.page) < lim
                                THEN Append(before.page, i) ELSE before.page]
           Upto(g, n) == g = [i \in 0..n |-> IF i = 0 THEN First ELSE Step(g[i - 1], i)]
           at == CHOOSE g : Upto(g, MaxIndex)
<1>1. Scan(from, lim, f) = at[EntityCount]
  BY DEF Scan
<1> HIDE DEF First, Step
<1>2. \A n \in Nat : \E g : Upto(g, n)
  <2> DEFINE T == {n \in Nat : \E g : Upto(g, n)}
  <2>1. 0 \in T
    <3>1. Upto([i \in 0..0 |-> First], 0)
      OBVIOUS
    <3> QED
      BY <3>1
  <2>2. ASSUME NEW n \in T PROVE n + 1 \in T
    <3>1. PICK g : Upto(g, n)
      OBVIOUS
    <3>2. PICK h : h = [i \in 0..(n + 1) |-> IF i = n + 1 THEN Step(g[n], n + 1) ELSE g[i]]
      OBVIOUS
    <3>3. \A i \in 0..n : h[i] = g[i]
      BY <3>2
    <3>4. ASSUME NEW i \in 0..(n + 1)
         PROVE  h[i] = IF i = 0 THEN First ELSE Step(h[i - 1], i)
      <4>1. CASE i = n + 1
        BY <3>2, <3>3, <4>1
      <4>2. CASE i # n + 1
        BY <3>1, <3>3, <4>2
      <4> QED
        BY <4>1, <4>2
    <3>5. Upto(h, n + 1)
      BY <3>2, <3>4
    <3> QED
      BY <3>5
  <2> HIDE DEF Upto
  <2>3. T = Nat
    BY <2>1, <2>2, SetInduction
  <2> QED
    BY <2>3
<1>3. Upto(at, MaxIndex)
  BY <1>2, ConstantsAssumption
<1> HIDE DEF at
<1>4. at[0] = First /\ \A i \in 1..MaxIndex : at[i] = Step(at[i - 1], i)
  BY <1>3, ConstantsAssumption
<1> QED
  BY <1>1, <1>4 DEF First, Step, IsScan
\* Slots hold a class, no name or nothing.
EdictsOK == edicts \in [Indices -> Classes \cup {Free, Unnamed}]

\* The entities a filter lets through.
Matching(f) == {i \in Indices : edicts[i] \in f}

\* Every used slot is within the count, and so every match is.
LEMMA CountCovers ==
    ASSUME EdictsOK
    PROVE  EntityCount \in 0..MaxIndex /\ \A i \in Indices : edicts[i] # Free => i <= EntityCount
<1> DEFINE Used == {i \in Indices : edicts[i] # Free}
           Last(i) == i \in Used /\ \A j \in Indices : edicts[j] # Free => j <= i
<1>1. CASE Used = {}
  BY <1>1, ConstantsAssumption DEF EntityCount
<1>2. CASE Used # {}
  <2> DEFINE Back == {MaxIndex - i : i \in Used}
  <2>1. Back \in SUBSET Nat /\ Back # {}
    BY <1>2, ConstantsAssumption DEF Indices
  <2>2. PICK b \in Back : \A c \in Back : b <= c
    BY <2>1, LeastNatural
  <2>3. PICK i \in Used : b = MaxIndex - i
    BY <2>2
  <2>4. \A j \in Used : j <= i
    <3> TAKE j \in Used
    <3>1. MaxIndex - j \in Back /\ i \in Int /\ j \in Int
      BY DEF Indices
    <3> QED
      BY <2>2, <2>3, <3>1, ConstantsAssumption
  <2>5. Last(i)
    BY <2>3, <2>4
  <2>6. EntityCount = CHOOSE j \in Indices : Last(j)
    BY <1>2 DEF EntityCount
  <2>7. EntityCount \in Indices /\ Last(EntityCount)
    BY <2>3, <2>5, <2>6
  <2> QED
    BY <2>7, ConstantsAssumption DEF Indices
<1> QED
  BY <1>1, <1>2

\* The scan counts the matching entities and its page is their slice.
LEMMA ScanIsSlice ==
    ASSUME EdictsOK, NEW from \in Nat, NEW lim \in Nat, NEW f \in SUBSET Classes
    PROVE  /\ Scan(from, lim, f).matched = Cardinality(Matching(f))
           /\ IsSlice(Matching(f), Scan(from, lim, f).page, from, lim)
<1>1. PICK at : IsScan(at, from, lim, f)
  BY ScanEquations
<1> DEFINE Scanned(n) == {i \in Matching(f) : i <= n}
           Sound(n) == /\ at[n].matched = Cardinality(Scanned(n))
                       /\ IsSlice(Scanned(n), at[n].page, from, lim)
           T == {n \in Nat : n <= MaxIndex => Sound(n)}
<1>2. Sound(0)
  <2>1. Scanned(0) = {} /\ Cardinality({}) = 0
    BY FS_EmptySet DEF Matching, Indices
  <2>2. at[0].matched = 0 /\ at[0].page = <<>> /\ Len(<<>>) = 0 /\ <<>> \in Seq({})
    BY <1>1 DEF IsScan
  <2>3. IsSlice({}, <<>>, from, lim)
    BY <2>1, <2>2 DEF IsSlice
  <2> QED
    BY <2>1, <2>2, <2>3
<1>3. ASSUME NEW n \in T PROVE n + 1 \in T
  <2>1. SUFFICES ASSUME n + 1 \in 1..MaxIndex, Sound(n) PROVE Sound(n + 1)
    BY ConstantsAssumption
  <2>2. Scanned(n) \in SUBSET Indices /\ \A i \in Scanned(n) : i < n + 1
    BY DEF Matching, Indices
  <2>3. n + 1 \in Indices /\ n + 1 \notin Scanned(n)
    BY <2>1, <2>2 DEF Indices
  <2>4. Valid(n + 1) /\ Matches(n + 1, f) <=> edicts[n + 1] \in f
    BY DEF Valid, Matches
  <2>5. CASE edicts[n + 1] \in f
    <3>1. Scanned(n + 1) = Scanned(n) \cup {n + 1}
      <4>1. \A i \in Matching(f) : i <= n + 1 <=> i <= n \/ i = n + 1
        BY DEF Matching, Indices
      <4>2. n + 1 \in Matching(f)
        BY <2>3, <2>5 DEF Matching
      <4> QED
        BY <4>1, <4>2
    <3>2. Cardinality(Scanned(n + 1)) = Cardinality(Scanned(n)) + 1
      BY <2>2, <2>3, <3>1, SlotsFinite, FS_AddElement
    <3>3. at[n + 1] = [matched |-> at[n].matched + 1,
                       page |-> IF at[n].matched >= from /\ Len(at[n].page) < lim
                                  THEN Append(at[n].page, n + 1) ELSE at[n].page]
      BY <1>1, <2>1, <2>4, <2>5 DEF InPage, IsScan
    <3> HIDE DEF Scanned
    <3>4. IsSlice(Scanned(n) \cup {n + 1},
                  IF Cardinality(Scanned(n)) >= from /\ Len(at[n].page) < lim
                    THEN Append(at[n].page, n + 1) ELSE at[n].page, from, lim)
      BY <2>1, <2>2, <2>3, SliceAppend
    <3>5. at[n + 1].matched = Cardinality(Scanned(n + 1))
      BY <2>1, <3>2, <3>3
    <3>6. IsSlice(Scanned(n + 1), at[n + 1].page, from, lim)
      <4>1. at[n + 1].page = IF Cardinality(Scanned(n)) >= from /\ Len(at[n].page) < lim
                               THEN Append(at[n].page, n + 1) ELSE at[n].page
        BY <2>1, <3>3
      <4> QED
        BY <3>1, <3>4, <4>1
    <3> QED
      BY <3>5, <3>6
  <2>6. CASE edicts[n + 1] \notin f
    <3>1. Scanned(n + 1) = Scanned(n)
      <4>1. \A i \in Matching(f) : i <= n + 1 <=> i <= n
        BY <2>6 DEF Matching, Indices
      <4> QED
        BY <4>1
    <3>2. at[n + 1] = at[n]
      <4>1. (n + 1) - 1 = n
        OBVIOUS
      <4> QED
        BY <1>1, <2>1, <2>4, <2>6, <4>1 DEF IsScan
    <3> HIDE DEF Scanned
    <3> QED
      BY <2>1, <3>1, <3>2
  <2> QED
    BY <2>5, <2>6
<1>4. T = Nat
  <2> HIDE DEF Sound
  <2>1. 0 \in T
    BY <1>2
  <2> QED
    BY <1>3, <2>1, SetInduction
<1>5. Sound(EntityCount)
  BY <1>4, CountCovers, ConstantsAssumption
<1>6. Scanned(EntityCount) = Matching(f)
  <2>1. \A i \in Matching(f) : i <= EntityCount
    BY CountCovers, ConstantsAssumption DEF Matching
  <2> QED
    BY <2>1
<1> HIDE DEF Scanned
<1> QED
  BY <1>1, <1>5, <1>6 DEF IsScan
-----------------------------------------------------------------------------
(* Pages.                                                                  *)

\* What a slice's page holds: members of S, each at the place its rank says, and all
\* whose rank is in the slice.
HoldsSlice(S, page, from, lim) ==
    /\ Len(page) \in Nat /\ Len(page) <= lim /\ page \in Seq(S)
    /\ \A k \in 1..Len(page) : page[k] \in S /\ Rank(S, page[k]) = from + k - 1
    /\ \A i \in S : from <= Rank(S, i) /\ Rank(S, i) < from + lim
                    => Rank(S, i) < from + Len(page)
    /\ \A i \in S : from <= Rank(S, i) /\ Rank(S, i) < from + Len(page)
                    => page[Rank(S, i) - from + 1] = i

LEMMA SliceMembers ==
    ASSUME NEW S \in SUBSET Indices, NEW page, NEW from \in Nat, NEW lim \in Nat,
           IsSlice(S, page, from, lim)
    PROVE  HoldsSlice(S, page, from, lim)
<1>1. Len(page) \in Nat /\ page \in Seq(S) /\ Cardinality(S) \in Nat
  BY SlotsFinite DEF IsSlice
<1>2. Len(page) = IF Cardinality(S) <= from THEN 0
                  ELSE IF Cardinality(S) - from < lim THEN Cardinality(S) - from ELSE lim
  BY DEF IsSlice
<1>3. ASSUME NEW k \in 1..Len(page) PROVE page[k] \in S /\ Rank(S, page[k]) = from + k - 1
  BY <1>1 DEF IsSlice
<1>4. ASSUME NEW i \in S PROVE Rank(S, i) \in Nat /\ Rank(S, i) < Cardinality(S)
  BY RankType DEF Indices
<1>5. ASSUME NEW i \in S, from <= Rank(S, i), Rank(S, i) < from + lim
     PROVE  Rank(S, i) < from + Len(page)
  BY <1>1, <1>2, <1>4, <1>5
<1>6. ASSUME NEW i \in S, from <= Rank(S, i), Rank(S, i) < from + Len(page)
     PROVE  page[Rank(S, i) - from + 1] = i
  <2> DEFINE k == Rank(S, i) - from + 1
  <2>1. k \in 1..Len(page)
    BY <1>1, <1>4, <1>6
  <2>2. page[k] \in S /\ Rank(S, page[k]) = Rank(S, i)
    BY <1>3, <1>4, <2>1
  <2> QED
    BY <2>2, RankUnique
<1>7. Len(page) <= lim
  BY <1>1, <1>2
<1> QED
  BY <1>1, <1>3, <1>5, <1>6, <1>7 DEF HoldsSlice

\* As many of them as the page is long.
LEMMA SliceSize ==
    ASSUME NEW S \in SUBSET Indices, NEW page, NEW from \in Nat, NEW lim \in Nat,
           IsSlice(S, page, from, lim)
    PROVE  Len(page) = Cardinality({i \in S : Rank(S, i) >= from /\ Rank(S, i) < from + lim})
<1> DEFINE W == {i \in S : Rank(S, i) >= from /\ Rank(S, i) < from + lim}
           g == [k \in 1..Len(page) |-> page[k]]
<1>0. HoldsSlice(S, page, from, lim)
  BY SliceMembers
<1>1. Len(page) \in Nat /\ Len(page) <= lim
  BY <1>0 DEF HoldsSlice
<1>2. ASSUME NEW k \in 1..Len(page) PROVE page[k] \in W /\ Rank(S, page[k]) = from + k - 1
  <2>1. page[k] \in S /\ Rank(S, page[k]) = from + k - 1
    BY <1>0 DEF HoldsSlice
  <2>2. from + k - 1 >= from /\ from + k - 1 < from + lim
    BY <1>1
  <2> QED
    BY <2>1, <2>2
<1>3. ASSUME NEW i \in W PROVE \E k \in 1..Len(page) : g[k] = i
  <2>1. Rank(S, i) \in Nat
    BY RankType DEF Indices
  <2>2. Rank(S, i) < from + Len(page)
    BY <1>0 DEF HoldsSlice
  <2>3. Rank(S, i) - from + 1 \in 1..Len(page)
    BY <1>1, <2>1, <2>2
  <2>4. page[Rank(S, i) - from + 1] = i
    BY <1>0, <2>2 DEF HoldsSlice
  <2> QED
    BY <2>3, <2>4
<1>4. \A j, k \in 1..Len(page) : g[j] = g[k] => j = k
  <2> SUFFICES ASSUME NEW j \in 1..Len(page), NEW k \in 1..Len(page), page[j] = page[k]
               PROVE  j = k
    OBVIOUS
  <2> QED
    BY <1>1, <1>2
<1>5. g \in [1..Len(page) -> W]
  BY <1>2
<1> HIDE DEF W, g
<1>6. ExistsBijection(1..Len(page), W)
  <2>1. g \in Injection(1..Len(page), W)
    BY <1>4, <1>5 DEF Injection, IsInjective
  <2>2. g \in Surjection(1..Len(page), W)
    BY <1>3, <1>5 DEF Surjection
  <2> QED
    BY <2>1, <2>2 DEF ExistsBijection, Bijection
<1> QED
  BY <1>1, <1>6, FS_CountingElements DEF W

\* A list of all entities that match is a slice of them, and carries their number.
LEMMA ListIsSlice ==
    ASSUME EdictsOK, NEW offset \in Int, NEW lim \in Nat, NEW f \in SUBSET Classes
    PROVE  LET list == ListEntities(offset, lim, 0, f)
               from == IF offset < 0 THEN 0 ELSE offset
           IN  /\ list.total = Cardinality(Matching(f))
               /\ IsSlice(Matching(f), list.entities, from, CapPage(lim))
<1> DEFINE from == IF offset < 0 THEN 0 ELSE offset
<1>1. from \in Nat /\ CapPage(lim) \in Nat
  BY ConstantsAssumption DEF CapPage
<1>2. ListEntities(offset, lim, 0, f) =
        [entities |-> Scan(from, CapPage(lim), f).page,
         total |-> Scan(from, CapPage(lim), f).matched]
  BY DEF ListEntities, LastTotal
<1> HIDE DEF from
<1>3. /\ Scan(from, CapPage(lim), f).matched = Cardinality(Matching(f))
      /\ IsSlice(Matching(f), Scan(from, CapPage(lim), f).page, from, CapPage(lim))
  BY <1>1, ScanIsSlice
<1> QED
  BY <1>2, <1>3 DEF from
\* PageIsSlice holds of every state whose slots hold what slots hold.
LEMMA SlicesFromEdicts ==
    ASSUME EdictsOK PROVE PageIsSlice
<1> SUFFICES ASSUME NEW f \in SUBSET Classes, NEW offset \in -1..(MaxIndex + 1),
                    NEW lim \in -1..(kMaxPageLimit + 1), NEW id \in 0..MaxIndex
             PROVE
      LET all == {i \in Indices : edicts[i] \in f /\ id \in {0, i}}
          from == IF offset < 0 THEN 0 ELSE offset
          size == IF lim > kMaxPageLimit THEN kMaxPageLimit ELSE lim
          rank(i) == Cardinality({j \in all : j < i})
          list == ListEntities(offset, lim, id, f)
      IN IF lim < 0 THEN list.entities = <<>> /\ list.total = 0
         ELSE /\ list.total = Cardinality(all)
              /\ Len(list.entities) =
                    Cardinality({i \in all : rank(i) >= from /\ rank(i) < from + size})
              /\ \A k \in 1..Len(list.entities) :
                    list.entities[k] \in all /\ rank(list.entities[k]) = from + k - 1
  BY DEF PageIsSlice
<1> DEFINE all == {i \in Indices : edicts[i] \in f /\ id \in {0, i}}
           from == IF offset < 0 THEN 0 ELSE offset
           list == ListEntities(offset, lim, id, f)
<1>1. offset \in Int /\ lim \in Int /\ id \in Nat /\ from \in Nat
  BY ConstantsAssumption
<1>2. all \in SUBSET Indices
  OBVIOUS
<1>3. CASE lim < 0
  BY <1>3 DEF ListEntities
<1>4. ASSUME lim >= 0 PROVE CapPage(lim) \in Nat /\ lim \in Nat
  BY <1>1, <1>4, ConstantsAssumption DEF CapPage
<1>5. ASSUME lim >= 0
     PROVE  list.total = Cardinality(all) /\ IsSlice(all, list.entities, from, CapPage(lim))
  <2>1. CASE id = 0
    <3>1. all = Matching(f)
      BY <2>1 DEF Matching
    <3> HIDE DEF all
    <3> QED
      BY <1>1, <1>4, <1>5, <2>1, <3>1, ListIsSlice
  <2>2. CASE id # 0
    <3> DEFINE found == id \in Indices /\ Valid(id) /\ Matches(id, f)
               page == IF found /\ from = 0 /\ CapPage(lim) > 0 THEN <<id>> ELSE <<>>
    <3>1. list = [entities |-> page, total |-> IF found THEN 1 ELSE 0]
      BY <1>1, <1>5, <2>2 DEF ListEntities, ListOne
    <3>2. all = IF found THEN {id} ELSE {}
      BY <2>2 DEF Valid, Matches
    <3>3. Cardinality(all) = IF found THEN 1 ELSE 0
      BY <3>2, FS_EmptySet, FS_Singleton
    <3>4. found => Rank(all, id) = 0
      <4>1. found => {j \in all : j < id} = {}
        BY <1>1, <3>2
      <4> QED
        BY <4>1, FS_EmptySet DEF Rank
    <3>5. IsSlice(all, page, from, CapPage(lim))
      <4> HIDE DEF all, from
      <4>1. CASE found /\ from = 0 /\ CapPage(lim) > 0
        <5>1. page = <<id>> /\ Len(page) = 1 /\ page \in Seq(all)
          BY <3>2, <4>1
        <5>2. \A k \in 1..Len(page) : Rank(all, page[k]) = from + k - 1
          BY <3>4, <4>1, <5>1
        <5>3. Len(page) = IF Cardinality(all) <= from THEN 0
                          ELSE IF Cardinality(all) - from < CapPage(lim)
                                 THEN Cardinality(all) - from ELSE CapPage(lim)
          BY <1>4, <1>5, <3>3, <4>1, <5>1
        <5> HIDE DEF page
        <5> QED
          BY <5>1, <5>2, <5>3, Zenon DEF IsSlice
      <4>2. CASE ~(found /\ from = 0 /\ CapPage(lim) > 0)
        <5>1. page = <<>> /\ Len(page) = 0 /\ page \in Seq(all)
          BY <4>2
        <5>2. \A k \in 1..Len(page) : Rank(all, page[k]) = from + k - 1
          BY <5>1
        <5>3. Len(page) = IF Cardinality(all) <= from THEN 0
                          ELSE IF Cardinality(all) - from < CapPage(lim)
                                 THEN Cardinality(all) - from ELSE CapPage(lim)
          BY <1>1, <1>4, <1>5, <3>3, <4>2, <5>1
        <5> HIDE DEF page
        <5> QED
          BY <5>1, <5>2, <5>3, Zenon DEF IsSlice
      <4> QED
        BY <4>1, <4>2
    <3> QED
      BY <3>1, <3>3, <3>5
  <2> QED
    BY <2>1, <2>2
<1>6. CASE lim >= 0
  <2>1. HoldsSlice(all, list.entities, from, CapPage(lim))
    <3> HIDE DEF all, list, from
    <3> QED
      BY <1>1, <1>2, <1>4, <1>5, <1>6, SliceMembers
  <2>2. Len(list.entities) =
          Cardinality({i \in all : Rank(all, i) >= from /\ Rank(all, i) < from + CapPage(lim)})
    <3> HIDE DEF all, list, from
    <3> QED
      BY <1>1, <1>2, <1>4, <1>5, <1>6, SliceSize
  <2>4. \A k \in 1..Len(list.entities) :
          list.entities[k] \in all /\ Rank(all, list.entities[k]) = from + k - 1
    BY <2>1 DEF HoldsSlice
  <2>5. list.total = Cardinality(all)
    BY <1>5, <1>6
  <2>6. ~(lim < 0)
    BY <1>1, <1>6
  <2> QED
    BY <2>2, <2>4, <2>5, <2>6, Zenon DEF Rank, CapPage
<1> QED
  BY <1>1, <1>3, <1>6
-----------------------------------------------------------------------------
(* What a listing has missed and may repeat.                               *)

\* The entities of a list.
Listed(s) == {s[k] : k \in DOMAIN s}

\* Of the entities st: those the listing s has passed without listing them, those it has
\* listed and will come to again, and the places where it has repeated one.
MissedOf(s, st, all) == {i \in st \ Listed(s) : Rank(all, i) < Len(s)}
AgainOf(s, st, all) == {i \in st \cap Listed(s) : Rank(all, i) >= Len(s)}
TwiceOf(s, st) == {k \in DOMAIN s : s[k] \in st /\ \E j \in 1..(k - 1) : s[j] = s[k]}

LEMMA CountsFinite ==
    ASSUME NEW s \in Seq(Indices), NEW st \in SUBSET Indices, NEW all
    PROVE  /\ MissedOf(s, st, all) \in SUBSET Indices /\ AgainOf(s, st, all) \in SUBSET Indices
           /\ TwiceOf(s, st) \in SUBSET (1..Len(s)) /\ IsFiniteSet(TwiceOf(s, st))
           /\ Cardinality(MissedOf(s, st, all)) \in Nat
           /\ Cardinality(AgainOf(s, st, all)) \in Nat
           /\ Cardinality(TwiceOf(s, st)) \in Nat
<1>1. MissedOf(s, st, all) \in SUBSET Indices /\ AgainOf(s, st, all) \in SUBSET Indices
  BY DEF MissedOf, AgainOf
<1>2. TwiceOf(s, st) \in SUBSET (1..Len(s)) /\ IsFiniteSet(1..Len(s))
  <2>1. DOMAIN s = 1..Len(s) /\ Len(s) \in Int
    OBVIOUS
  <2> QED
    BY <2>1, FS_Interval DEF TwiceOf
<1>3. IsFiniteSet(TwiceOf(s, st)) /\ Cardinality(TwiceOf(s, st)) \in Nat
  BY <1>2, FS_Subset, FS_CardinalityType
<1> QED
  BY <1>1, <1>2, <1>3, SlotsFinite

\* The page that follows the list misses nothing, and what it repeats it does not come
\* to again.
LEMMA PageCounts ==
    ASSUME NEW all \in SUBSET Indices, NEW st \in SUBSET all, NEW s \in Seq(Indices),
           NEW page, NEW lim \in Nat, HoldsSlice(all, page, Len(s), lim)
    PROVE  /\ MissedOf(s \o page, st, all) \subseteq MissedOf(s, st, all)
           /\ Cardinality(TwiceOf(s \o page, st)) + Cardinality(AgainOf(s \o page, st, all))
                <= Cardinality(TwiceOf(s, st)) + Cardinality(AgainOf(s, st, all))
<1> DEFINE n == Len(s)  m == Len(page)  t == s \o page
<1>1. /\ n \in Nat /\ m \in Nat /\ page \in Seq(Indices) /\ t \in Seq(Indices) /\ Len(t) = n + m
      /\ DOMAIN s = 1..n /\ DOMAIN t = 1..(n + m)
  BY DEF HoldsSlice
<1>2. /\ \A k \in 1..n : t[k] = s[k]
      /\ \A k \in 1..m : t[n + k] = page[k]
  BY <1>1
<1>3. ASSUME NEW k \in 1..m PROVE page[k] \in all /\ Rank(all, page[k]) = n + k - 1
  BY DEF HoldsSlice
<1>4. ASSUME NEW i \in all PROVE Rank(all, i) \in Nat
  <2>1. i \in Int
    BY DEF Indices
  <2> QED
    BY <2>1, RankType
<1>5. ASSUME NEW i \in all, n <= Rank(all, i), Rank(all, i) < n + m
     PROVE  i \in Listed(t)
  <2>1. Rank(all, i) \in Nat
    BY <1>4
  <2>2. Rank(all, i) - n + 1 \in 1..m /\ page[Rank(all, i) - n + 1] = i
    BY <1>1, <1>5, <2>1 DEF HoldsSlice
  <2>3. t[n + (Rank(all, i) - n + 1)] = i
    BY <1>2, <2>2
  <2>4. n + (Rank(all, i) - n + 1) \in DOMAIN t
    BY <1>1, <2>2
  <2> QED
    BY <2>3, <2>4 DEF Listed
<1>6. Listed(s) \subseteq Listed(t)
  BY <1>1, <1>2 DEF Listed
<1>7. MissedOf(t, st, all) \subseteq MissedOf(s, st, all)
  <2> SUFFICES ASSUME NEW i \in MissedOf(t, st, all) PROVE i \in MissedOf(s, st, all)
    OBVIOUS
  <2>1. i \in st /\ i \notin Listed(t) /\ Rank(all, i) < n + m
    BY <1>1 DEF MissedOf
  <2>2. Rank(all, i) < n
    BY <1>1, <1>5, <1>4, <2>1
  <2> QED
    BY <1>6, <2>1, <2>2 DEF MissedOf
<1> DEFINE Fresh == {k \in (n + 1)..(n + m) : k \in TwiceOf(t, st)}
           g == [k \in Fresh |-> t[k]]
           Over == AgainOf(s, st, all)
           Left == AgainOf(t, st, all)
<1>8. \A k \in Fresh : k - n \in 1..m /\ t[k] = page[k - n]
                      /\ t[k] \in st /\ Rank(all, t[k]) = k - 1
  <2> TAKE k \in Fresh
  <2>1. k - n \in 1..m /\ k = n + (k - n)
    BY <1>1
  <2>2. t[k] = page[k - n]
    BY <1>2, <2>1
  <2>3. Rank(all, page[k - n]) = n + (k - n) - 1
    BY <1>3, <2>1
  <2> QED
    BY <1>1, <2>1, <2>2, <2>3 DEF TwiceOf
<1>9. \A k \in Fresh : t[k] \in Over \ Left
  <2> TAKE k \in Fresh
  <2>1. PICK j \in 1..(k - 1) : t[j] = t[k]
    BY DEF TwiceOf
  <2>2. k \in (n + 1)..(n + m) /\ t[k] \in all
    BY <1>8
  <2>3. j \in 1..n
    <3>1. SUFFICES ASSUME j \in (n + 1)..(n + m) PROVE FALSE
      BY <1>1, <2>1, <2>2
    <3>2. j - n \in 1..m /\ j = n + (j - n)
      BY <1>1, <3>1
    <3>3. t[j] = page[j - n]
      BY <1>2, <3>2
    <3>4. Rank(all, t[j]) = n + (j - n) - 1
      BY <1>3, <3>2, <3>3
    <3>5. Rank(all, t[j]) = k - 1
      BY <1>8, <2>1
    <3> QED
      BY <1>1, <2>1, <2>2, <3>2, <3>4, <3>5
  <2>4. t[k] \in Listed(s)
    BY <1>1, <1>2, <2>1, <2>3 DEF Listed
  <2>5. Rank(all, t[k]) >= n /\ Rank(all, t[k]) < n + m
    BY <1>1, <1>8, <2>2
  <2> QED
    BY <1>1, <1>8, <2>4, <2>5 DEF AgainOf
<1>10. Left \subseteq Over
  <2> SUFFICES ASSUME NEW i \in Left PROVE i \in Over
    OBVIOUS
  <2>1. i \in st /\ i \in Listed(t) /\ Rank(all, i) >= n + m
    BY <1>1 DEF AgainOf
  <2>2. PICK k \in 1..(n + m) : t[k] = i
    BY <1>1, <2>1 DEF Listed
  <2>3. k \in 1..n
    <3>1. SUFFICES ASSUME k \in (n + 1)..(n + m) PROVE FALSE
      BY <1>1, <2>2
    <3>2. k - n \in 1..m /\ k = n + (k - n)
      BY <1>1, <3>1
    <3>3. i = page[k - n] /\ Rank(all, i) = n + (k - n) - 1
      BY <1>2, <1>3, <2>2, <3>2
    <3> QED
      BY <1>1, <2>1, <3>1, <3>3
  <2>4. i \in Listed(s)
    BY <1>1, <1>2, <2>2, <2>3 DEF Listed
  <2>5. Rank(all, i) >= n
    BY <1>1, <1>4, <2>1
  <2> QED
    BY <2>1, <2>4, <2>5 DEF AgainOf
<1>11. Cardinality(Fresh) <= Cardinality(Over \ Left) /\ IsFiniteSet(Fresh)
  <2>1. Over \in SUBSET Indices /\ IsFiniteSet(Over \ Left)
    BY CountsFinite, SlotsFinite, FS_Difference
  <2>2. g \in [Fresh -> Over \ Left]
    BY <1>9
  <2>3. \A j, k \in Fresh : g[j] = g[k] => j = k
    <3> SUFFICES ASSUME NEW j \in Fresh, NEW k \in Fresh, t[j] = t[k] PROVE j = k
      OBVIOUS
    <3>1. Rank(all, t[j]) = j - 1 /\ Rank(all, t[k]) = k - 1
      BY <1>8
    <3> QED
      BY <1>1, <3>1
  <2> HIDE DEF Fresh, g, Over, Left
  <2>4. g \in Injection(Fresh, Over \ Left)
    BY <2>2, <2>3 DEF Injection, IsInjective
  <2> QED
    BY <2>1, <2>4, FS_Injection
<1>12. Cardinality(Over \ Left) = Cardinality(Over) - Cardinality(Left)
  <2>1. Over \cap Left = Left /\ IsFiniteSet(Over)
    BY <1>10, CountsFinite, SlotsFinite
  <2> HIDE DEF Over, Left
  <2> QED
    BY <2>1, FS_Difference
<1>13. Cardinality(TwiceOf(t, st)) <= Cardinality(TwiceOf(s, st)) + Cardinality(Fresh)
  <2>1. TwiceOf(t, st) \subseteq TwiceOf(s, st) \cup Fresh
    <3> SUFFICES ASSUME NEW k \in TwiceOf(t, st), k \notin Fresh PROVE k \in TwiceOf(s, st)
      OBVIOUS
    <3>1. k \in 1..(n + m) /\ t[k] \in st
      BY <1>1 DEF TwiceOf
    <3>2. k \in 1..n
      BY <1>1, <3>1
    <3>3. PICK j \in 1..(k - 1) : t[j] = t[k]
      BY DEF TwiceOf
    <3>4. j \in 1..n /\ t[j] = s[j] /\ t[k] = s[k]
      BY <1>1, <1>2, <3>2, <3>3
    <3> QED
      BY <1>1, <3>1, <3>2, <3>3, <3>4 DEF TwiceOf
  <2>2. IsFiniteSet(TwiceOf(s, st)) /\ Cardinality(TwiceOf(s, st)) \in Nat
    BY CountsFinite
  <2> HIDE DEF Fresh, t
  <2>3. /\ IsFiniteSet(TwiceOf(s, st) \cup Fresh)
        /\ Cardinality(TwiceOf(s, st) \cup Fresh) = Cardinality(TwiceOf(s, st))
              + Cardinality(Fresh) - Cardinality(TwiceOf(s, st) \cap Fresh)
    BY <1>11, <2>2, FS_Union
  <2>4. Cardinality(TwiceOf(s, st) \cap Fresh) \in Nat /\ Cardinality(Fresh) \in Nat
    BY <1>11, <2>2, FS_Intersection, FS_CardinalityType
  <2>5. Cardinality(TwiceOf(t, st)) <= Cardinality(TwiceOf(s, st) \cup Fresh)
    BY <2>1, <2>3, FS_Subset
  <2>6. Cardinality(TwiceOf(s, st) \cup Fresh) \in Nat
    BY <2>3, FS_CardinalityType
  <2>7. Cardinality(TwiceOf(t, st)) \in Nat
    BY <2>1, <2>3, FS_Subset, FS_CardinalityType
  <2> QED
    BY <2>2, <2>3, <2>4, <2>5, <2>6, <2>7
<1>14. /\ Cardinality(Over) \in Nat /\ Cardinality(Left) \in Nat /\ Cardinality(Fresh) \in Nat
       /\ Cardinality(TwiceOf(s, st)) \in Nat /\ Cardinality(TwiceOf(t, st)) \in Nat
  BY <1>1, <1>11, CountsFinite, FS_CardinalityType
<1> HIDE DEF Fresh, Over, Left, t
<1> QED
  BY <1>7, <1>11, <1>12, <1>13, <1>14 DEF Over, Left, t
\* An entity that comes puts at most one that was listed in the way of the next page.
LEMMA SpawnCounts ==
    ASSUME NEW all \in SUBSET Indices, NEW st \in SUBSET all, NEW s \in Seq(Indices),
           NEW x \in Indices \ all
    PROVE  /\ MissedOf(s, st, all \cup {x}) \subseteq MissedOf(s, st, all)
           /\ Cardinality(AgainOf(s, st, all \cup {x})) <= Cardinality(AgainOf(s, st, all)) + 1
<1>1. \A i \in st : i \in all /\ i \in Int
  BY DEF Indices
<1> DEFINE more == all \cup {x}
<1>2. ASSUME NEW i \in st
     PROVE  /\ Rank(all, i) \in Nat /\ Rank(more, i) \in Nat
            /\ Rank(all, i) <= Rank(more, i)
            /\ Rank(more, i) <= Rank(all, i) + 1
  <2>1. i \in Int
    BY <1>1
  <2>2. Rank(all, i) \in Nat
    BY <2>1, RankType
  <2>3. Rank(all \cup {x}, i) = IF x < i THEN Rank(all, i) + 1 ELSE Rank(all, i)
    BY <2>1, RankAdd
  <2> QED
    BY <2>2, <2>3
<1>3. Len(s) \in Nat
  OBVIOUS
<1> HIDE DEF more
<1>4. MissedOf(s, st, more) \subseteq MissedOf(s, st, all)
  <2> SUFFICES ASSUME NEW i \in MissedOf(s, st, more) PROVE i \in MissedOf(s, st, all)
    OBVIOUS
  <2>1. i \in st \ Listed(s) /\ Rank(more, i) < Len(s)
    BY DEF MissedOf
  <2>2. Rank(all, i) < Len(s)
    BY <1>2, <1>3, <2>1
  <2> QED
    BY <2>1, <2>2 DEF MissedOf
<1> DEFINE A == AgainOf(s, st, all)  B == AgainOf(s, st, more)
<1>5. A \in SUBSET Indices /\ B \in SUBSET Indices
  BY <1>1 DEF AgainOf
<1>6. A \subseteq B /\ \A i \in B \ A : i \in st /\ Rank(all, i) = Len(s) - 1
  <2>1. ASSUME NEW i \in A PROVE i \in B
    <3>1. i \in st \cap Listed(s) /\ Rank(all, i) >= Len(s)
      BY DEF AgainOf
    <3>2. Rank(more, i) >= Len(s)
      BY <1>2, <1>3, <3>1
    <3> QED
      BY <3>1, <3>2 DEF AgainOf
  <2>2. ASSUME NEW i \in B \ A PROVE i \in st /\ Rank(all, i) = Len(s) - 1
    <3>1. i \in st /\ Rank(more, i) >= Len(s) /\ ~(Rank(all, i) >= Len(s))
      BY DEF AgainOf
    <3> QED
      BY <1>2, <1>3, <3>1
  <2> QED
    BY <2>1, <2>2
<1>7. CASE B \ A = {}
  <2>1. B = A /\ Cardinality(A) \in Nat
    BY <1>5, <1>6, <1>7, SlotsFinite
  <2> HIDE DEF A, B, more
  <2>2. Cardinality(B) <= Cardinality(A) + 1
    BY <2>1
  <2> QED
    BY <1>4, <2>2, Zenon DEF A, B, more
<1>8. CASE B \ A # {}
  <2>1. PICK b \in B \ A : TRUE
    BY <1>8
  <2>2. \A i \in B \ A : i = b
    BY <1>1, <1>6, <2>1, RankUnique
  <2>3. B = A \cup {b} /\ b \notin A
    BY <1>6, <2>1, <2>2
  <2>4. Cardinality(B) = Cardinality(A) + 1 /\ Cardinality(A) \in Nat
    BY <1>5, <2>3, SlotsFinite, FS_AddElement
  <2> HIDE DEF A, B, more
  <2>5. Cardinality(B) <= Cardinality(A) + 1
    BY <2>4
  <2> QED
    BY <1>4, <2>5, Zenon DEF A, B, more
<1> QED
  BY <1>7, <1>8

\* An entity that goes takes at most one that was not listed past the next page.
LEMMA RemoveCounts ==
    ASSUME NEW all \in SUBSET Indices, NEW st \in SUBSET all, NEW s \in Seq(Indices),
           NEW x \in all
    PROVE  /\ Cardinality(MissedOf(s, st \ {x}, all \ {x}))
                <= Cardinality(MissedOf(s, st, all)) + 1
           /\ AgainOf(s, st \ {x}, all \ {x}) \subseteq AgainOf(s, st, all)
           /\ TwiceOf(s, st \ {x}) \subseteq TwiceOf(s, st)
<1> DEFINE rest == all \ {x}
<1>1. rest \in SUBSET Indices /\ x \in Indices \ rest /\ rest \cup {x} = all
  OBVIOUS
<1>2. \A i \in st \ {x} : i \in rest /\ i \in all /\ i \in Int
  BY DEF Indices
<1>3. ASSUME NEW i \in st \ {x}
     PROVE  /\ Rank(rest, i) \in Nat
            /\ Rank(all, i) \in {Rank(rest, i), Rank(rest, i) + 1}
  <2> HIDE DEF rest
  <2>1. i \in Int
    BY <1>2
  <2>2. Rank(rest, i) \in Nat
    BY <1>1, <2>1, RankType
  <2>3. Rank(rest \cup {x}, i) = IF x < i THEN Rank(rest, i) + 1 ELSE Rank(rest, i)
    BY <1>1, <2>1, RankAdd
  <2> QED
    BY <1>1, <2>2, <2>3
<1>4. Len(s) \in Nat
  OBVIOUS
<1> HIDE DEF rest
<1>5. AgainOf(s, st \ {x}, rest) \subseteq AgainOf(s, st, all)
  BY <1>3, <1>4 DEF AgainOf
<1>6. TwiceOf(s, st \ {x}) \subseteq TwiceOf(s, st)
  BY DEF TwiceOf
<1> DEFINE A == MissedOf(s, st, all)  B == MissedOf(s, st \ {x}, rest)
<1>7. A \in SUBSET Indices /\ B \in SUBSET Indices
  BY <1>1, <1>2 DEF MissedOf
<1>8. \A i \in B \ A : i \in st \ {x} /\ Rank(all, i) = Len(s)
  BY <1>3, <1>4 DEF MissedOf
<1>9. Cardinality(A) \in Nat /\ Cardinality(B) \in Nat /\ IsFiniteSet(A)
  BY <1>7, SlotsFinite
<1>10. Cardinality(B) <= Cardinality(A) + 1
  <2>1. CASE B \ A = {}
    <3>1. B \in SUBSET A
      BY <2>1
    <3> HIDE DEF A, B
    <3> QED
      BY <1>7, <1>9, <3>1, SlotsSubset
  <2>2. CASE B \ A # {}
    <3>1. PICK b \in B \ A : TRUE
      BY <2>2
    <3>2. \A i \in B \ A : i = b
      BY <1>2, <1>8, <3>1, RankUnique
    <3>3. B \in SUBSET (A \cup {b}) /\ b \notin A /\ A \cup {b} \in SUBSET Indices
      BY <1>7, <3>1, <3>2
    <3> HIDE DEF A, B
    <3>4. Cardinality(A \cup {b}) = Cardinality(A) + 1
      BY <1>9, <3>3, FS_AddElement
    <3> QED
      BY <1>9, <3>3, <3>4, SlotsSubset
  <2> QED
    BY <2>1, <2>2
<1> QED
  BY <1>5, <1>6, <1>10 DEF rest

-----------------------------------------------------------------------------
(* The inductive invariant.                                                *)

\* The types, and that what has matched throughout matches.
TypeInv ==
    /\ EdictsOK
    /\ phase \in {"idle", "listing", "done"}
    /\ filter \in SUBSET Classes
    /\ limit \in 0..MaxLimit
    /\ seen \in Seq(Indices)
    /\ steady \in SUBSET Matching(filter)
    /\ removed \in Nat /\ inserted \in Nat

\* Nothing is listed before the first page; afterwards a page is not empty by its limit.
Begun ==
    /\ phase = "idle" => seen = <<>>
    /\ phase # "idle" => limit >= 1

\* What the listing has passed without listing it was moved there by a removal.
MissedBound == Cardinality(MissedOf(seen, steady, Matching(filter))) <= removed

\* What it has repeated or will come to again was moved there by an insertion.
AgainBound ==
    Cardinality(TwiceOf(seen, steady)) + Cardinality(AgainOf(seen, steady, Matching(filter)))
        <= inserted

\* A client stops when it has passed all that match.
DoneCovers == phase = "done" => Len(seen) >= Cardinality(Matching(filter))

PInv == TypeInv /\ Begun /\ ShortPageIsLast /\ MissedBound /\ AgainBound /\ DoneCovers

\* What a page of the list does to the client's account of it.
LEMMA AskKeeps ==
    ASSUME EdictsOK, seen \in Seq(Indices),
           NEW f \in SUBSET Classes, NEW lim \in 1..MaxLimit, NEW st \in SUBSET Matching(f),
           Ask(Len(seen), lim, f)
    PROVE  /\ seen' \in Seq(Indices) /\ phase' \in {"listing", "done"}
           /\ ShortPageIsLast'
           /\ MissedOf(seen', st, Matching(f)) \subseteq MissedOf(seen, st, Matching(f))
           /\ Cardinality(TwiceOf(seen', st)) + Cardinality(AgainOf(seen', st, Matching(f)))
                <= Cardinality(TwiceOf(seen, st)) + Cardinality(AgainOf(seen, st, Matching(f)))
           /\ phase' = "done" => Len(seen') >= Cardinality(Matching(f))
<1> DEFINE cap == CapLimit(lim)
           list == ListEntities(Len(seen), cap, 0, f)
           page == list.entities
           all == Matching(f)
<1>1. cap \in Nat /\ cap >= 1 /\ CapPage(cap) = cap
  BY ConstantsAssumption DEF CapLimit, CapPage
<1>2. Len(seen) \in Nat /\ all \in SUBSET Indices
  BY DEF Matching
<1>3. list.total = Cardinality(all) /\ IsSlice(all, page, Len(seen), cap)
  <2> HIDE DEF cap
  <2>1. (IF Len(seen) < 0 THEN 0 ELSE Len(seen)) = Len(seen) /\ Len(seen) \in Int
    BY <1>2
  <2> QED
    BY <1>1, <2>1, ListIsSlice
<1>4. reply' = [entities |-> page, total |-> list.total, offset |-> Len(seen), limit |-> cap]
  BY DEF Ask, GetEntities
<1>5. /\ seen' = seen \o page
      /\ phase' = IF page = <<>> \/ Len(seen) + Len(page) >= list.total
                  THEN "done" ELSE "listing"
  BY DEF Ask, GetEntities
<1> HIDE DEF cap, list, page, all
<1>6. HoldsSlice(all, page, Len(seen), cap)
  BY <1>1, <1>2, <1>3, SliceMembers
<1>7. page \in Seq(Indices) /\ Len(page) \in Nat /\ Cardinality(all) \in Nat
  BY <1>2, <1>6, SlotsFinite DEF HoldsSlice
<1>8. Len(page) = IF Cardinality(all) <= Len(seen) THEN 0
                  ELSE IF Cardinality(all) - Len(seen) < cap
                         THEN Cardinality(all) - Len(seen) ELSE cap
  BY <1>3 DEF IsSlice
<1>9. Len(page) < cap => Len(seen) + Len(page) >= Cardinality(all)
  BY <1>1, <1>2, <1>7, <1>8
<1>10. ShortPageIsLast'
  BY <1>3, <1>4, <1>9 DEF ShortPageIsLast
<1>11. seen' \in Seq(Indices) /\ Len(seen') = Len(seen) + Len(page)
  BY <1>5, <1>7
<1>12. phase' = "done" => Len(seen') >= Cardinality(all)
  <2>1. page = <<>> => Len(page) < cap
    BY <1>1
  <2> QED
    BY <1>3, <1>5, <1>9, <1>11, <2>1
<1>13. phase' \in {"listing", "done"}
  BY <1>5
<1>14. st \in SUBSET all
  BY DEF all
<1>15. /\ MissedOf(seen', st, all) \subseteq MissedOf(seen, st, all)
       /\ Cardinality(TwiceOf(seen', st)) + Cardinality(AgainOf(seen', st, all))
            <= Cardinality(TwiceOf(seen, st)) + Cardinality(AgainOf(seen, st, all))
  BY <1>1, <1>2, <1>5, <1>6, <1>14, PageCounts
<1> QED
  BY <1>10, <1>11, <1>12, <1>13, <1>15 DEF all

\* Nothing is missed or repeated before the first page.
LEMMA NothingYet ==
    ASSUME NEW all \in SUBSET Indices, NEW st \in SUBSET all
    PROVE  /\ Cardinality(MissedOf(<<>>, st, all)) = 0
           /\ Cardinality(AgainOf(<<>>, st, all)) = 0
           /\ Cardinality(TwiceOf(<<>>, st)) = 0
<1>1. \A i \in st : Rank(all, i) \in Nat
  <2> TAKE i \in st
  <2>1. i \in Int
    BY DEF Indices
  <2> QED
    BY <2>1, RankType
<1>2. MissedOf(<<>>, st, all) = {} /\ AgainOf(<<>>, st, all) = {} /\ TwiceOf(<<>>, st) = {}
  <2>1. DOMAIN <<>> = {} /\ Len(<<>>) = 0
    OBVIOUS
  <2> QED
    BY <1>1, <2>1 DEF MissedOf, AgainOf, TwiceOf, Listed
<1> QED
  BY <1>2, FS_EmptySet

LEMMA InitPInv == Init => PInv
<1> SUFFICES ASSUME Init PROVE PInv
  OBVIOUS
<1> USE DEF Init
<1>1. TypeInv
  BY ConstantsAssumption DEF TypeInv, EdictsOK
<1>2. Begun /\ ShortPageIsLast /\ DoneCovers
  BY DEF Begun, ShortPageIsLast, DoneCovers, NoReply
<1>3. Matching(filter) \in SUBSET Indices /\ steady \in SUBSET Matching(filter)
  BY DEF Matching
<1>4. MissedBound /\ AgainBound
  BY <1>3, NothingYet DEF MissedBound, AgainBound
<1> QED
  BY <1>1, <1>2, <1>4 DEF PInv

\* A page keeps the invariant: the first one starts the account, the others go on with it.
LEMMA FirstPageKeeps == PInv /\ FirstPage => PInv'
<1> SUFFICES ASSUME PInv, FirstPage PROVE PInv'
  OBVIOUS
<1>1. PICK lim \in 1..MaxLimit, f \in SUBSET Classes :
        /\ limit' = lim /\ filter' = f /\ Ask(0, lim, f)
        /\ steady' = {i \in Indices : edicts[i] \in f}
  BY DEF FirstPage
<1>2. edicts' = edicts /\ removed' = removed /\ inserted' = inserted /\ seen = <<>>
  BY DEF FirstPage, PInv, Begun
<1>3. Matching(f) \in SUBSET Indices /\ steady' = Matching(f) /\ Matching(filter)' = Matching(f)
  BY <1>1, <1>2 DEF Matching
<1>4. EdictsOK /\ seen \in Seq(Indices) /\ Len(seen) = 0 /\ removed \in Nat /\ inserted \in Nat
  BY <1>2 DEF PInv, TypeInv
<1>5. Ask(Len(seen), lim, f)
  BY <1>1, <1>4
<1>6. /\ seen' \in Seq(Indices) /\ phase' \in {"listing", "done"}
      /\ ShortPageIsLast'
      /\ MissedOf(seen', steady', Matching(f)) \subseteq MissedOf(seen, steady', Matching(f))
      /\ Cardinality(TwiceOf(seen', steady')) + Cardinality(AgainOf(seen', steady', Matching(f)))
           <= Cardinality(TwiceOf(seen, steady'))
                + Cardinality(AgainOf(seen, steady', Matching(f)))
      /\ phase' = "done" => Len(seen') >= Cardinality(Matching(f))
  BY <1>3, <1>4, <1>5, AskKeeps
<1>7. /\ Cardinality(MissedOf(seen, steady', Matching(f))) = 0
      /\ Cardinality(AgainOf(seen, steady', Matching(f))) = 0
      /\ Cardinality(TwiceOf(seen, steady')) = 0
  BY <1>2, <1>3, NothingYet
<1>8. MissedBound'
  <2>1. Cardinality(MissedOf(seen', steady', Matching(f)))
          <= Cardinality(MissedOf(seen, steady', Matching(f)))
    BY <1>3, <1>4, <1>6, CountsFinite, SlotsSubset
  <2>2. Cardinality(MissedOf(seen', steady', Matching(f))) \in Nat
    BY <1>3, <1>6, CountsFinite
  <2> QED
    BY <1>2, <1>3, <1>4, <1>7, <2>1, <2>2 DEF MissedBound
<1>9. AgainBound'
  <2>1. Cardinality(TwiceOf(seen', steady')) \in Nat
          /\ Cardinality(AgainOf(seen', steady', Matching(f))) \in Nat
    BY <1>3, <1>6, CountsFinite
  <2> QED
    BY <1>2, <1>3, <1>4, <1>6, <1>7, <2>1 DEF AgainBound
<1>10. TypeInv'
  BY <1>1, <1>2, <1>3, <1>4, <1>6, ConstantsAssumption DEF TypeInv, EdictsOK
<1>11. Begun' /\ DoneCovers'
  BY <1>1, <1>3, <1>6 DEF Begun, DoneCovers
<1> QED
  BY <1>6, <1>8, <1>9, <1>10, <1>11 DEF PInv
LEMMA NextPageKeeps == PInv /\ NextPage => PInv'
<1> SUFFICES ASSUME PInv, NextPage PROVE PInv'
  OBVIOUS
<1>1. /\ phase = "listing" /\ Ask(Len(seen), limit, filter)
      /\ edicts' = edicts /\ filter' = filter /\ limit' = limit /\ steady' = steady
      /\ removed' = removed /\ inserted' = inserted
  BY DEF NextPage
<1> DEFINE all == Matching(filter)
<1>2. all \in SUBSET Indices /\ all' = all
  BY <1>1 DEF Matching
<1>3. /\ EdictsOK /\ filter \in SUBSET Classes /\ limit \in 1..MaxLimit
      /\ seen \in Seq(Indices) /\ steady \in SUBSET all
      /\ removed \in Nat /\ inserted \in Nat
  BY <1>1, ConstantsAssumption DEF PInv, TypeInv, Begun
<1> HIDE DEF all
<1>4. /\ seen' \in Seq(Indices) /\ phase' \in {"listing", "done"}
      /\ ShortPageIsLast'
      /\ MissedOf(seen', steady, all) \subseteq MissedOf(seen, steady, all)
      /\ Cardinality(TwiceOf(seen', steady)) + Cardinality(AgainOf(seen', steady, all))
           <= Cardinality(TwiceOf(seen, steady)) + Cardinality(AgainOf(seen, steady, all))
      /\ phase' = "done" => Len(seen') >= Cardinality(all)
  BY <1>1, <1>3, AskKeeps DEF all
<1>5. /\ Cardinality(MissedOf(seen, steady, all)) <= removed
      /\ Cardinality(TwiceOf(seen, steady)) + Cardinality(AgainOf(seen, steady, all)) <= inserted
  BY DEF PInv, MissedBound, AgainBound, all
<1>6. /\ MissedOf(seen, steady, all) \in SUBSET Indices
      /\ Cardinality(MissedOf(seen, steady, all)) \in Nat
      /\ Cardinality(MissedOf(seen', steady, all)) \in Nat
      /\ Cardinality(TwiceOf(seen, steady)) \in Nat /\ Cardinality(TwiceOf(seen', steady)) \in Nat
      /\ Cardinality(AgainOf(seen, steady, all)) \in Nat
      /\ Cardinality(AgainOf(seen', steady, all)) \in Nat
  BY <1>2, <1>3, <1>4, CountsFinite
<1>7. MissedBound'
  <2>1. Cardinality(MissedOf(seen', steady, all)) <= Cardinality(MissedOf(seen, steady, all))
    BY <1>4, <1>6, SlotsSubset
  <2>2. Cardinality(MissedOf(seen', steady, all)) <= removed
    BY <1>3, <1>5, <1>6, <2>1
  <2> QED
    BY <1>1, <1>2, <2>2 DEF MissedBound, all
<1>8. AgainBound'
  <2>1. Cardinality(TwiceOf(seen', steady)) + Cardinality(AgainOf(seen', steady, all)) <= inserted
    BY <1>3, <1>4, <1>5, <1>6
  <2> QED
    BY <1>1, <1>2, <2>1 DEF AgainBound, all
<1>9. TypeInv'
  BY <1>1, <1>2, <1>3, <1>4, ConstantsAssumption DEF TypeInv, EdictsOK, all
<1>10. Begun' /\ DoneCovers'
  BY <1>1, <1>2, <1>3, <1>4 DEF Begun, DoneCovers, all
<1> QED
  BY <1>4, <1>7, <1>8, <1>9, <1>10 DEF PInv

\* So does an entity that comes, and one that goes.
LEMMA SpawnKeeps == ASSUME PInv, NEW i \in Indices, Spawn(i) PROVE PInv'
<1>1. /\ phase = "listing" /\ edicts[i] = Free
      /\ phase' = phase /\ filter' = filter /\ limit' = limit /\ reply' = reply
      /\ seen' = seen /\ steady' = steady /\ removed' = removed
  BY DEF Spawn, client
<1>2. PICK c \in Classes \cup {Unnamed} :
        /\ edicts' = [edicts EXCEPT ![i] = c]
        /\ inserted' = IF c \in filter THEN inserted + 1 ELSE inserted
  BY DEF Spawn
<1> DEFINE all == Matching(filter)  more == Matching(filter)'
<1>3. /\ EdictsOK /\ filter \in SUBSET Classes /\ seen \in Seq(Indices)
      /\ steady \in SUBSET all /\ removed \in Nat /\ inserted \in Nat
      /\ limit \in 0..MaxLimit
  BY DEF PInv, TypeInv
<1>4. all \in SUBSET Indices /\ i \in Indices \ all
  BY <1>1, <1>3, ConstantsAssumption DEF Matching
<1>5. more = IF c \in filter THEN all \cup {i} ELSE all
  BY <1>1, <1>2, <1>3, ConstantsAssumption DEF Matching, EdictsOK
<1>6. EdictsOK'
  BY <1>2, <1>3 DEF EdictsOK
<1>7. /\ Cardinality(MissedOf(seen, steady, all)) <= removed
      /\ Cardinality(TwiceOf(seen, steady)) + Cardinality(AgainOf(seen, steady, all)) <= inserted
  BY DEF PInv, MissedBound, AgainBound
<1> HIDE DEF all, more
<1>8. /\ MissedOf(seen, steady, more) \subseteq MissedOf(seen, steady, all)
      /\ Cardinality(AgainOf(seen, steady, more)) <=
            Cardinality(AgainOf(seen, steady, all)) + (IF c \in filter THEN 1 ELSE 0)
  <2>1. CASE c \in filter
    BY <1>3, <1>4, <1>5, <2>1, SpawnCounts
  <2>2. CASE c \notin filter
    <3>1. Cardinality(AgainOf(seen, steady, all)) \in Nat
      BY <1>3, <1>4, CountsFinite
    <3> QED
      BY <1>5, <2>2, <3>1
  <2> QED
    BY <2>1, <2>2
<1>9. /\ MissedOf(seen, steady, all) \in SUBSET Indices
      /\ Cardinality(MissedOf(seen, steady, all)) \in Nat
      /\ Cardinality(MissedOf(seen, steady, more)) \in Nat
      /\ Cardinality(TwiceOf(seen, steady)) \in Nat
      /\ Cardinality(AgainOf(seen, steady, all)) \in Nat
      /\ Cardinality(AgainOf(seen, steady, more)) \in Nat
  BY <1>3, <1>4, CountsFinite
<1>10. MissedBound'
  <2>1. Cardinality(MissedOf(seen, steady, more)) <= Cardinality(MissedOf(seen, steady, all))
    BY <1>8, <1>9, SlotsSubset
  <2>2. Cardinality(MissedOf(seen, steady, more)) <= removed
    BY <1>3, <1>7, <1>9, <2>1
  <2> QED
    BY <1>1, <2>2 DEF MissedBound, more
<1>11. AgainBound'
  <2>1. Cardinality(TwiceOf(seen, steady)) + Cardinality(AgainOf(seen, steady, more)) <= inserted'
    BY <1>2, <1>3, <1>7, <1>8, <1>9
  <2> QED
    BY <1>1, <2>1 DEF AgainBound, more
<1>12. TypeInv'
  <2>1. steady \in SUBSET more
    BY <1>3, <1>5
  <2>2. inserted' \in Nat
    BY <1>2, <1>3
  <2> QED
    BY <1>1, <1>3, <1>6, <2>1, <2>2 DEF TypeInv, more
<1>13. Begun' /\ DoneCovers' /\ ShortPageIsLast'
  BY <1>1 DEF PInv, Begun, DoneCovers, ShortPageIsLast
<1> QED
  BY <1>10, <1>11, <1>12, <1>13 DEF PInv

LEMMA RemoveKeeps == ASSUME PInv, NEW i \in Indices, Remove(i) PROVE PInv'
<1>1. /\ phase = "listing" /\ edicts[i] # Free
      /\ edicts' = [edicts EXCEPT ![i] = Free]
      /\ removed' = IF edicts[i] \in filter THEN removed + 1 ELSE removed
      /\ steady' = steady \ {i}
      /\ phase' = phase /\ filter' = filter /\ limit' = limit /\ reply' = reply
      /\ seen' = seen /\ inserted' = inserted
  BY DEF Remove, client
<1> DEFINE all == Matching(filter)  rest == Matching(filter)'  st == steady \ {i}
<1>2. /\ EdictsOK /\ filter \in SUBSET Classes /\ seen \in Seq(Indices)
      /\ steady \in SUBSET all /\ removed \in Nat /\ inserted \in Nat
      /\ limit \in 0..MaxLimit
  BY DEF PInv, TypeInv
<1>3. all \in SUBSET Indices /\ (edicts[i] \in filter <=> i \in all)
  BY DEF Matching
<1>4. rest = all \ {i}
  BY <1>1, <1>2, ConstantsAssumption DEF Matching, EdictsOK
<1>5. EdictsOK'
  BY <1>1, <1>2 DEF EdictsOK
<1>6. /\ Cardinality(MissedOf(seen, steady, all)) <= removed
      /\ Cardinality(TwiceOf(seen, steady)) + Cardinality(AgainOf(seen, steady, all)) <= inserted
  BY DEF PInv, MissedBound, AgainBound
<1>7. steady \in SUBSET Indices /\ st \in SUBSET Indices /\ st \in SUBSET rest
  BY <1>2, <1>3, <1>4
<1> HIDE DEF all, rest, st
<1>8. /\ MissedOf(seen, steady, all) \in SUBSET Indices
      /\ AgainOf(seen, steady, all) \in SUBSET Indices
      /\ Cardinality(MissedOf(seen, steady, all)) \in Nat
      /\ Cardinality(MissedOf(seen, st, rest)) \in Nat
      /\ IsFiniteSet(TwiceOf(seen, steady))
      /\ Cardinality(TwiceOf(seen, steady)) \in Nat /\ Cardinality(TwiceOf(seen, st)) \in Nat
      /\ Cardinality(AgainOf(seen, steady, all)) \in Nat
      /\ Cardinality(AgainOf(seen, st, rest)) \in Nat
  BY <1>2, <1>7, CountsFinite
<1>9. /\ Cardinality(MissedOf(seen, st, rest)) <=
            Cardinality(MissedOf(seen, steady, all)) + (IF i \in all THEN 1 ELSE 0)
      /\ AgainOf(seen, st, rest) \subseteq AgainOf(seen, steady, all)
      /\ TwiceOf(seen, st) \subseteq TwiceOf(seen, steady)
  <2>1. CASE i \in all
    BY <1>2, <1>3, <1>4, <2>1, RemoveCounts DEF st
  <2>2. CASE i \notin all
    <3>1. rest = all /\ st = steady
      BY <1>2, <1>4, <2>2 DEF st
    <3> QED
      BY <1>8, <2>2, <3>1
  <2> QED
    BY <2>1, <2>2
<1>10. MissedBound'
  <2>1. Cardinality(MissedOf(seen, st, rest)) <= removed'
    BY <1>1, <1>2, <1>3, <1>6, <1>8, <1>9
  <2> QED
    BY <1>1, <2>1 DEF MissedBound, rest, st
<1>11. AgainBound'
  <2>1. Cardinality(AgainOf(seen, st, rest)) <= Cardinality(AgainOf(seen, steady, all))
    BY <1>8, <1>9, SlotsSubset
  <2>2. Cardinality(TwiceOf(seen, st)) <= Cardinality(TwiceOf(seen, steady))
    BY <1>8, <1>9, FS_Subset
  <2>3. Cardinality(TwiceOf(seen, st)) + Cardinality(AgainOf(seen, st, rest)) <= inserted
    BY <1>2, <1>6, <1>8, <2>1, <2>2
  <2> QED
    BY <1>1, <2>3 DEF AgainBound, rest, st
<1>12. TypeInv'
  <2>1. removed' \in Nat
    BY <1>1, <1>2
  <2> QED
    BY <1>1, <1>2, <1>5, <1>7, <2>1 DEF TypeInv, rest, st
<1>13. Begun' /\ DoneCovers' /\ ShortPageIsLast'
  BY <1>1 DEF PInv, Begun, DoneCovers, ShortPageIsLast
<1> QED
  BY <1>10, <1>11, <1>12, <1>13 DEF PInv

LEMMA StepKeeps == PInv /\ [Next]_vars => PInv'
<1> SUFFICES ASSUME PInv, [Next]_vars PROVE PInv'
  OBVIOUS
<1>1. CASE FirstPage
  BY <1>1, FirstPageKeeps
<1>2. CASE NextPage
  BY <1>2, NextPageKeeps
<1>3. CASE UNCHANGED vars
  BY <1>3 DEF vars, client, PInv, TypeInv, EdictsOK, Matching, Begun, ShortPageIsLast,
              MissedBound, AgainBound, DoneCovers
<1>4. ASSUME NEW i \in Indices, Spawn(i) PROVE PInv'
  BY <1>4, SpawnKeeps
<1>5. ASSUME NEW i \in Indices, Remove(i) PROVE PInv'
  BY <1>5, RemoveKeeps
<1> QED
  BY <1>1, <1>2, <1>3, <1>4, <1>5 DEF Next, Finished

-----------------------------------------------------------------------------
(* The theorems.                                                           *)

\* The invariant holds in every reachable state.
THEOREM Invariance == Spec => []PInv
<1>1. Init => PInv
  BY InitPInv
<1>2. PInv /\ [Next]_vars => PInv'
  BY StepKeeps
<1> QED
  BY <1>1, <1>2, PTL DEF Spec

\* The slots, the client's state and the history keep their types, and what is steady matches.
THEOREM TypeCorrect == Spec => []TypeInv
<1>1. PInv => TypeInv
  BY DEF PInv
<1> QED
  BY <1>1, Invariance, PTL

\* list_entities returns the slice of the matching entities that offset and limit ask for,
\* and their number, whatever the slots hold.
THEOREM SliceSafety == Spec => []PageIsSlice
<1>1. PInv => PageIsSlice
  BY SlicesFromEdicts DEF PInv, TypeInv
<1> QED
  BY <1>1, Invariance, PTL

\* A page shorter than the limit its reply repeats is the last: the handler's cap and the
\* scan's agree.
THEOREM ShortPageSafety == Spec => []ShortPageIsLast
<1>1. PInv => ShortPageIsLast
  BY DEF PInv
<1> QED
  BY <1>1, Invariance, PTL

\* A listing that asks for page after page misses and repeats, of what was there
\* throughout, no more than was removed and spawned meanwhile.
THEOREM ListingSafety == Spec => []OffByChangesOnly
<1>1. PInv => OffByChangesOnly
  <2> SUFFICES ASSUME PInv PROVE OffByChangesOnly
    OBVIOUS
  <2> DEFINE all == Matching(filter)
  <2>1. /\ all \in SUBSET Indices /\ steady \in SUBSET all /\ seen \in Seq(Indices)
        /\ removed \in Nat /\ inserted \in Nat
    BY DEF PInv, TypeInv, Matching
  <2>2. /\ Cardinality(TwiceOf(seen, steady)) \in Nat
        /\ Cardinality(AgainOf(seen, steady, all)) \in Nat
    BY <2>1, CountsFinite
  <2>3. Cardinality(Twice) <= inserted
    <3>1. Twice = TwiceOf(seen, steady)
      BY DEF Twice, TwiceOf
    <3> QED
      BY <2>1, <2>2, <3>1 DEF PInv, AgainBound
  <2>4. ASSUME phase = "done"
       PROVE  steady \ {seen[k] : k \in DOMAIN seen} = MissedOf(seen, steady, all)
    <3>1. ASSUME NEW i \in steady PROVE Rank(all, i) < Len(seen)
      <4>1. i \in all /\ i \in Int
        BY <2>1 DEF Indices
      <4>2. Rank(all, i) \in Nat /\ Rank(all, i) < Cardinality(all)
        BY <2>1, <4>1, RankType
      <4>3. Len(seen) >= Cardinality(all) /\ Len(seen) \in Nat /\ Cardinality(all) \in Nat
        BY <2>1, <2>4, SlotsFinite DEF PInv, DoneCovers
      <4> QED
        BY <4>2, <4>3
    <3> QED
      BY <3>1 DEF MissedOf, Listed
  <2>5. Cardinality(MissedOf(seen, steady, all)) <= removed
    BY DEF PInv, MissedBound
  <2> QED
    BY <2>3, <2>4, <2>5 DEF OffByChangesOnly
<1> QED
  BY <1>1, Invariance, PTL
=============================================================================
