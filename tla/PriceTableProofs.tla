-------------------------- MODULE PriceTableProofs --------------------------
(***************************************************************************)
(* The price table, for any names, files, prices and numbers of rows and    *)
(* saves.  The filters and the sort of PriceTable are sequences of the      *)
(* items at a set of positions, so the lemmas begin with positions.  The    *)
(* inductive invariant relates the requests under way to the table and the *)
(* list of the server: a request with no other beside it carries that list, *)
(* a save that was sent from an untouched table carries that table, and     *)
(* every name that must not vanish is in the table and in each list sent.   *)
(***************************************************************************)
EXTENDS PriceTable, FiniteSetTheorems, FunctionTheorems, SequenceTheorems,
        WellFoundedInduction, TLAPS

-----------------------------------------------------------------------------
(* Positions.                                                               *)

\* The positions up to one of them are counted without a gap, so that each k up to their
\* number is the number of one position, and of one only.
LEMMA NthIs ==
  ASSUME NEW n \in Nat, NEW I \in SUBSET (1..n)
  PROVE  /\ Cardinality(I) \in Nat
         /\ \A k \in 1..Cardinality(I) : Nth(I, k) \in I
         /\ \A i \in I : \E k \in 1..Cardinality(I) : Nth(I, k) = i
         /\ \A k, l \in 1..Cardinality(I) : Nth(I, k) = Nth(I, l) => k = l
<1> DEFINE UpTo(i) == {j \in I : j <= i}
           rank == [i \in I |-> Cardinality(UpTo(i))]
           c == Cardinality(I)
<1>0. \A i \in I : i \in Int
  OBVIOUS
<1>1. IsFiniteSet(I) /\ c \in Nat
  <2>1. IsFiniteSet(1..n)
    BY FS_Interval
  <2>2. IsFiniteSet(I)
    BY <2>1, FS_Subset
  <2> QED
    BY <2>2, FS_CardinalityType
<1>2. ASSUME NEW i \in I
      PROVE  IsFiniteSet(UpTo(i)) /\ Cardinality(UpTo(i)) \in 1..c
  <2>1. UpTo(i) \subseteq I /\ i \in UpTo(i)
    OBVIOUS
  <2> HIDE DEF UpTo
  <2>2. IsFiniteSet(UpTo(i)) /\ Cardinality(UpTo(i)) <= c
    BY <1>1, <2>1, FS_Subset
  <2>3. Cardinality(UpTo(i)) \in Nat /\ Cardinality(UpTo(i)) # 0
    BY <2>1, <2>2, FS_CardinalityType, FS_EmptySet
  <2> QED
    BY <1>1, <2>2, <2>3
<1>3. ASSUME NEW i \in I, NEW j \in I, i < j
      PROVE  Cardinality(UpTo(i)) # Cardinality(UpTo(j))
  <2>1. UpTo(i) \subseteq UpTo(j) /\ j \in UpTo(j) /\ j \notin UpTo(i)
    <3>1. i \in Int /\ j \in Int /\ \A h \in I : h \in Int
      BY <1>0
    <3>2. \A h \in I : h <= i => h <= j
      BY <1>3, <3>1
    <3>3. j <= j /\ ~(j <= i)
      BY <1>3, <3>1
    <3> QED
      BY <3>2, <3>3
  <2> HIDE DEF UpTo
  <2>2. IsFiniteSet(UpTo(j))
    BY <1>2
  <2> QED
    BY <2>1, <2>2, FS_Subset
<1>4. \A i, j \in I : rank[i] = rank[j] => i = j
  <2>1. \A i, j \in I : i < j \/ j < i \/ i = j
    OBVIOUS
  <2> HIDE DEF UpTo
  <2> QED
    BY <1>3, <2>1
<1>5. rank \in Injection(I, 1..c)
  <2> HIDE DEF UpTo
  <2> QED
    BY <1>2, <1>4 DEF Injection, IsInjective
<1> HIDE DEF rank
<1>6. IsFiniteSet(1..c) /\ Cardinality(1..c) = c
  BY <1>1, FS_Interval
<1>7. rank \in Surjection(I, 1..c)
  BY <1>1, <1>5, <1>6, FS_Injection
<1>8. ASSUME NEW k \in 1..c
      PROVE  Nth(I, k) \in I /\ rank[Nth(I, k)] = k
  <2>1. PICK i \in I : rank[i] = k
    BY <1>7 DEF Surjection
  <2> QED
    BY <2>1 DEF Nth, rank
<1>9. \A i \in I : rank[i] \in 1..c
  BY <1>5 DEF Injection
<1> QED
  BY <1>1, <1>4, <1>8, <1>9

\* The items at some positions of a list: one for each position.
LEMMA AmongIs ==
  ASSUME NEW n \in Nat, NEW list, DOMAIN list = 1..n, NEW I \in SUBSET (1..n),
         NEW S, \A i \in I : list[i] \in S
  PROVE  /\ Among(list, I) \in Seq(S)
         /\ \E at \in Bijection(DOMAIN Among(list, I), I) :
               \A k \in DOMAIN Among(list, I) : Among(list, I)[k] = list[at[k]]
<1> DEFINE c == Cardinality(I)
           at == [k \in 1..c |-> Nth(I, k)]
           r == Among(list, I)
<1>1. /\ c \in Nat
      /\ \A k \in 1..c : Nth(I, k) \in I
      /\ \A i \in I : \E k \in 1..c : Nth(I, k) = i
      /\ \A k, l \in 1..c : Nth(I, k) = Nth(I, l) => k = l
  BY NthIs
<1>2. r = [k \in 1..c |-> list[Nth(I, k)]]
  BY DEF Among
<1> HIDE DEF c, r
<1>3. DOMAIN r = 1..c /\ \A k \in 1..c : r[k] = list[Nth(I, k)]
  BY <1>2
<1>4. r \in Seq(S)
  <2>1. \A k \in 1..c : list[Nth(I, k)] \in S
    BY <1>1
  <2>2. r \in [1..c -> S]
    BY <1>2, <2>1
  <2> QED
    BY <1>1, <2>2
<1>5. at \in Bijection(1..c, I)
  BY <1>1 DEF Bijection, Injection, Surjection, IsInjective
<1>6. \A k \in 1..c : r[k] = list[at[k]]
  BY <1>3
<1> HIDE DEF at
<1> QED
  BY <1>3, <1>4, <1>5, <1>6 DEF r

\* All items are the list, no items are none.
LEMMA AmongAll ==
  ASSUME NEW S, NEW list \in Seq(S)
  PROVE  Among(list, DOMAIN list) = list
<1> DEFINE n == Len(list)
<1>1. n \in Nat /\ DOMAIN list = 1..n /\ list = [k \in 1..n |-> list[k]]
  OBVIOUS
<1> HIDE DEF n
<1>2. Cardinality(1..n) = n
  <2>1. n \in Nat
    BY <1>1
  <2> QED
    BY <2>1, FS_Interval
<1>3. ASSUME NEW i \in 1..n
      PROVE  Cardinality({j \in 1..n : j <= i}) = i
  <2>1. {j \in 1..n : j <= i} = 1..i /\ i \in Nat
    BY <1>1
  <2> HIDE DEF n
  <2>2. Cardinality(1..i) = i
    BY <2>1, FS_Interval
  <2> QED
    BY <2>1, <2>2
<1>4. \A k \in 1..n : Nth(1..n, k) = k
  BY <1>3 DEF Nth
<1> QED
  BY <1>1, <1>2, <1>4 DEF Among

LEMMA AmongNone ==
  ASSUME NEW list
  PROVE  Among(list, {}) = <<>>
<1>1. Cardinality({}) = 0
  BY FS_EmptySet
<1>2. Among(list, {}) = [k \in 1..0 |-> list[Nth({}, k)]]
  BY <1>1 DEF Among
<1>3. 1..0 = {} /\ DOMAIN <<>> = {}
  OBVIOUS
<1> QED
  BY <1>2, <1>3

\* What follows another list keeps its order behind it.
LEMMA JoinIs ==
  ASSUME NEW S, NEW f \in Seq(S), NEW g \in Seq(S)
  PROVE  /\ f \o g \in Seq(S)
         /\ \A j \in DOMAIN f : j \in DOMAIN (f \o g) /\ (f \o g)[j] = f[j]
         /\ \A j \in DOMAIN g : Len(f) + j \in DOMAIN (f \o g) /\ (f \o g)[Len(f) + j] = g[j]
         /\ \A j \in DOMAIN (f \o g) : j \in DOMAIN f \/ \E k \in DOMAIN g : j = Len(f) + k
<1> DEFINE m == Len(f)
           n == Len(g)
           r == f \o g
<1>1. /\ m \in Nat /\ n \in Nat /\ DOMAIN f = 1..m /\ DOMAIN g = 1..n /\ DOMAIN r = 1..(m + n)
      /\ r \in Seq(S)
  BY ConcatProperties
<1>2. \A j \in 1..(m + n) : r[j] = IF j <= m THEN f[j] ELSE g[j - m]
  BY ConcatProperties
<1> HIDE DEF m, n, r
<1>3. ASSUME NEW j \in 1..m
      PROVE  j \in 1..(m + n) /\ r[j] = f[j]
  BY <1>1, <1>2
<1>4. ASSUME NEW j \in 1..n
      PROVE  m + j \in 1..(m + n) /\ r[m + j] = g[j]
  <2>1. m + j \in 1..(m + n) /\ ~(m + j <= m) /\ (m + j) - m = j
    BY <1>1
  <2> QED
    BY <1>2, <2>1
<1>5. ASSUME NEW j \in 1..(m + n)
      PROVE  j \in 1..m \/ \E k \in 1..n : j = m + k
  <2>1. CASE j > m
    <3>1. (j - m) \in 1..n /\ j = m + (j - m)
      BY <1>1, <2>1
    <3> QED
      BY <3>1
  <2> QED
    BY <1>1, <2>1
<1> QED
  BY <1>1, <1>3, <1>4, <1>5 DEF m, n, r

-----------------------------------------------------------------------------
(* Lists of rows.                                                           *)

NamedRows == [model : Names, price : 0..(MaxPrice + 1)]
Rows == [model : Names \cup {Blank}, price : 0..(MaxPrice + 1)]

\* What getTablePrices sends: every name of the table, and a name twice only if it is there twice.
LEMMA FilledIs ==
  ASSUME NEW list \in Seq(Rows)
  PROVE  /\ Filled(list) \in Seq(NamedRows)
         /\ NamesIn(Filled(list)) = NamesIn(list)
         /\ Distinct(Filled(list)) <=>
              \A i, j \in DOMAIN list :
                 list[i].model # Blank /\ list[i].model = list[j].model => i = j
<1> DEFINE n == Len(list)
           I == {i \in DOMAIN list : list[i].model # Blank}
           r == Filled(list)
<1>1. n \in Nat /\ DOMAIN list = 1..n /\ I \in SUBSET (1..n) /\ \A i \in DOMAIN list : list[i] \in Rows
  OBVIOUS
<1>2. \A i \in I : list[i] \in NamedRows
  BY <1>1 DEF Rows, NamedRows
<1>3. r = Among(list, I)
  BY DEF Filled
<1>4. \A i : i \in I <=> i \in DOMAIN list /\ list[i].model # Blank
  OBVIOUS
<1> HIDE DEF n, I, r
<1>5. r \in Seq(NamedRows) /\ \E at \in Bijection(DOMAIN r, I) : \A k \in DOMAIN r : r[k] = list[at[k]]
  BY <1>1, <1>2, <1>3, AmongIs
<1>6. PICK at \in Bijection(DOMAIN r, I) : \A k \in DOMAIN r : r[k] = list[at[k]]
  BY <1>5
<1>7. /\ \A k \in DOMAIN r : at[k] \in I
      /\ \A k, l \in DOMAIN r : at[k] = at[l] => k = l
      /\ \A i \in I : \E k \in DOMAIN r : at[k] = i
  BY <1>6 DEF Bijection, Injection, Surjection, IsInjective
<1>8. NamesIn(r) = NamesIn(list)
  BY <1>4, <1>6, <1>7 DEF NamesIn
<1>9. Distinct(r) <=>
        \A i, j \in DOMAIN list : list[i].model # Blank /\ list[i].model = list[j].model => i = j
  <2>1. ASSUME Distinct(r), NEW i \in DOMAIN list, NEW j \in DOMAIN list,
               list[i].model # Blank, list[i].model = list[j].model
        PROVE  i = j
    <3>1. i \in I /\ j \in I
      BY <1>4, <2>1
    <3>2. PICK k \in DOMAIN r, l \in DOMAIN r : at[k] = i /\ at[l] = j
      BY <1>7, <3>1
    <3> QED
      BY <1>6, <2>1, <3>2 DEF Distinct
  <2>2. ASSUME \A i, j \in DOMAIN list : list[i].model # Blank /\ list[i].model = list[j].model => i = j,
               NEW k \in DOMAIN r, NEW l \in DOMAIN r, r[k].model = r[l].model
        PROVE  k = l
    BY <1>4, <1>6, <1>7, <2>2
  <2> QED
    BY <2>1, <2>2 DEF Distinct
<1> QED
  BY <1>5, <1>8, <1>9 DEF r

\* Rows that all have a name are sent as they are, and so is what is rendered for them.
LEMMA RowsForIs ==
  ASSUME NEW list \in Seq(NamedRows)
  PROVE  /\ list \in Seq(Rows) /\ RowsFor(list) \in Seq(Rows)
         /\ NamesIn(RowsFor(list)) = NamesIn(list)
         /\ Filled(RowsFor(list)) = list
<1>1. /\ list \in Seq(Rows)
      /\ \A i \in DOMAIN list : list[i].model \in Names /\ list[i].model # Blank
  <2>1. \A r \in NamedRows : r \in Rows /\ r.model \in Names /\ r.model # Blank
    BY PriceTableAssumption DEF NamedRows, Rows
  <2>2. \A i \in DOMAIN list : list[i] \in NamedRows
    OBVIOUS
  <2>3. list \in Seq(Rows)
    <3>1. \A i \in 1..Len(list) : list[i] \in Rows
      BY <2>1, <2>2
    <3> QED
      BY <3>1
  <2> QED
    BY <2>1, <2>2, <2>3
<1>2. CASE list # <<>>
  <2>1. {i \in DOMAIN list : list[i].model # Blank} = DOMAIN list
    BY <1>1
  <2>2. Filled(list) = list
    BY <2>1, AmongAll DEF Filled
  <2> QED
    BY <1>1, <1>2, <2>2 DEF RowsFor
<1>3. CASE list = <<>>
  <2> DEFINE one == <<Row(Blank, 0)>>
  <2>1. RowsFor(list) = one
    BY <1>3 DEF RowsFor
  <2>2. one \in Seq(Rows)
    BY PriceTableAssumption DEF Rows, Row
  <2>3. DOMAIN one = {1} /\ one[1].model = Blank /\ DOMAIN list = {}
    BY <1>3 DEF Row
  <2> HIDE DEF one
  <2>4. {i \in DOMAIN one : one[i].model # Blank} = {}
    BY <2>3
  <2>5. Filled(one) = <<>>
    BY <2>4, AmongNone DEF Filled
  <2>6. NamesIn(one) = {} /\ NamesIn(list) = {}
    BY <2>3 DEF NamesIn
  <2> QED
    BY <1>1, <1>3, <2>1, <2>2, <2>5, <2>6
<1> QED
  BY <1>2, <1>3

\* Names in the order of the names, each once.
LEMMA SortedIs ==
  ASSUME NEW S \in SUBSET Names
  PROVE  /\ Sorted(S) \in Seq(S)
         /\ \A m \in S : \E k \in DOMAIN Sorted(S) : Sorted(S)[k] = m
         /\ \A k, l \in DOMAIN Sorted(S) : Sorted(S)[k] = Sorted(S)[l] => k = l
<1> DEFINE n == Len(Order)
           I == {i \in DOMAIN Order : Order[i] \in S}
           r == Sorted(S)
<1>1. /\ n \in Nat /\ DOMAIN Order = 1..n
      /\ \A i, j \in DOMAIN Order : Order[i] = Order[j] => i = j
      /\ \A m \in S : \E i \in DOMAIN Order : Order[i] = m
  BY PriceTableAssumption DEF IsInjective, Names, Range
<1>2. /\ I \in SUBSET (1..n) /\ \A i \in I : Order[i] \in S
      /\ \A i \in I, j \in I : Order[i] = Order[j] => i = j
      /\ \A m \in S : \E i \in I : Order[i] = m
  BY <1>1
<1>3. r = Among(Order, I)
  BY DEF Sorted
<1> HIDE DEF n, I, r
<1>4. r \in Seq(S) /\ \E at \in Bijection(DOMAIN r, I) : \A k \in DOMAIN r : r[k] = Order[at[k]]
  <2>1. n \in Nat /\ DOMAIN Order = 1..n
    BY <1>1
  <2>2. I \in SUBSET (1..n) /\ \A i \in I : Order[i] \in S
    BY <1>2
  <2>3. /\ Among(Order, I) \in Seq(S)
        /\ \E at \in Bijection(DOMAIN Among(Order, I), I) :
              \A k \in DOMAIN Among(Order, I) : Among(Order, I)[k] = Order[at[k]]
    BY <2>1, <2>2, AmongIs
  <2> QED
    BY <1>3, <2>3
<1>5. PICK at \in Bijection(DOMAIN r, I) : \A k \in DOMAIN r : r[k] = Order[at[k]]
  BY <1>4
<1>6. /\ \A k \in DOMAIN r : at[k] \in I
      /\ \A k, l \in DOMAIN r : at[k] = at[l] => k = l
      /\ \A i \in I : \E k \in DOMAIN r : at[k] = i
  BY <1>5 DEF Bijection, Injection, Surjection, IsInjective
<1>7. \A m \in S : \E k \in DOMAIN r : r[k] = m
  BY <1>2, <1>5, <1>6
<1>8. ASSUME NEW k \in DOMAIN r, NEW l \in DOMAIN r, r[k] = r[l]
      PROVE  k = l
  <2>1. at[k] \in I /\ at[l] \in I /\ Order[at[k]] = Order[at[l]]
    BY <1>5, <1>6, <1>8
  <2>2. at[k] = at[l]
    BY <1>2, <2>1
  <2> QED
    BY <1>6, <2>2
<1> QED
  BY <1>4, <1>7, <1>8 DEF r

\* What the server lists: its names, each once, with their prices.
LEMMA ListedIs ==
  ASSUME NEW list \in Lists
  PROVE  /\ Listed(list) \in Seq(NamedRows)
         /\ NamesIn(Listed(list)) = DOMAIN list
         /\ Distinct(Listed(list))
         /\ \A k \in DOMAIN Listed(list) : Listed(list)[k].price = list[Listed(list)[k].model]
<1>1. PICK M \in SUBSET Names : list \in [M -> 0..MaxPrice]
  BY DEF Lists
<1> DEFINE m == Sorted(M)
           r == Listed(list)
<1>2. /\ m \in Seq(M)
      /\ \A x \in M : \E k \in DOMAIN m : m[k] = x
      /\ \A k, l \in DOMAIN m : m[k] = m[l] => k = l
  BY SortedIs
<1>3. DOMAIN list = M /\ \A x \in M : list[x] \in 0..MaxPrice
  BY <1>1
<1>4. r = [i \in DOMAIN m |-> Row(m[i], list[m[i]])]
  BY <1>3 DEF Listed
<1> HIDE DEF m, r
<1>5. Len(m) \in Nat /\ DOMAIN m = 1..Len(m) /\ \A k \in DOMAIN m : m[k] \in M
  BY <1>2
<1>6. DOMAIN r = DOMAIN m /\ \A k \in DOMAIN m : r[k].model = m[k] /\ r[k].price = list[m[k]]
  BY <1>4 DEF Row
<1>7. r \in Seq(NamedRows)
  <2>1. ASSUME NEW x \in M
        PROVE  Row(x, list[x]) \in NamedRows
    <3>1. list[x] \in 0..(MaxPrice + 1)
      BY <1>3, PriceTableAssumption
    <3> QED
      BY <3>1 DEF Row, NamedRows
  <2>2. r \in [1..Len(m) -> NamedRows]
    BY <1>4, <1>5, <2>1
  <2> QED
    BY <1>5, <2>2
<1>8. NamesIn(r) = M
  <2>1. Blank \notin M
    BY PriceTableAssumption
  <2> QED
    BY <1>2, <1>5, <1>6, <2>1 DEF NamesIn
<1>9. Distinct(r)
  BY <1>2, <1>6 DEF Distinct
<1> QED
  BY <1>3, <1>6, <1>7, <1>8, <1>9 DEF r

\* Every set of positions that is not empty has a least one, and a greatest one.
LEMMA Ends ==
  ASSUME NEW n \in Nat, NEW S \in SUBSET (1..n), S # {}
  PROVE  /\ Min(S) \in S /\ \A j \in S : Min(S) <= j
         /\ Max(S) \in S
<1> DEFINE R == {ss \in Nat \X Nat : ss[1] < ss[2]}
<1>1. \A i, j \in Nat : i < j => <<i, j>> \in R
  OBVIOUS
<1>2. IsWellFoundedOn(R, Nat)
  BY NatLessThanWellFounded DEF OpToRel
<1> HIDE DEF R
<1>3. ASSUME NEW T \in SUBSET Nat, T # {}
      PROVE  \E i \in T : \A j \in T : i <= j
  <2>1. \E i \in T : \A j \in T : ~ (<<j, i>> \in R)
    BY <1>2, <1>3, WFMin
  <2>2. PICK i \in T : \A j \in T : ~ (<<j, i>> \in R)
    BY <2>1
  <2>3. \A j \in T : ~ (j < i)
    BY <1>1, <2>2
  <2> QED
    BY <2>3
<1>4. S \subseteq Nat /\ \A j \in S : j <= n
  OBVIOUS
<1>5. \E i \in S : \A j \in S : i <= j
  BY <1>3, <1>4
<1>6. \E i \in S : \A j \in S : i >= j
  <2> DEFINE T == {n - j : j \in S}
  <2>1. T \subseteq Nat /\ T # {}
    <3>1. \A j \in S : n - j \in Nat
      BY <1>4
    <3> QED
      BY <3>1
  <2>2. PICK x \in T : \A y \in T : x <= y
    BY <1>3, <2>1
  <2>3. PICK i \in S : x = n - i
    BY <2>2
  <2>4. ASSUME NEW j \in S
        PROVE  i >= j
    <3>1. n - i <= n - j
      BY <2>2, <2>3
    <3>2. i \in Nat /\ j \in Nat
      BY <1>4
    <3> QED
      BY <3>1, <3>2
  <2> QED
    BY <2>4
<1> QED
  BY <1>5, <1>6 DEF Min, Max

\* A merge keeps a name for each lower case form, one of those it was given.
LEMMA MapOfIs ==
  ASSUME NEW list \in Seq(NamedRows)
  PROVE  /\ MapOf(list) \in Seq(NamedRows)
         /\ \A k \in DOMAIN MapOf(list) : \E i \in DOMAIN list : MapOf(list)[k] = list[i]
         /\ \A i \in DOMAIN list : \E k \in DOMAIN MapOf(list) :
               Fold[MapOf(list)[k].model] = Fold[list[i].model]
         /\ \A k, l \in DOMAIN MapOf(list) :
               Fold[MapOf(list)[k].model] = Fold[MapOf(list)[l].model] => k = l
<1> DEFINE n == Len(list)
           items == [i \in DOMAIN list |-> list[Max(Same(list, i))]]
           I == {i \in DOMAIN list : i = Min(Same(list, i))}
           r == MapOf(list)
<1>1. n \in Nat /\ DOMAIN list = 1..n /\ \A i \in DOMAIN list : list[i] \in NamedRows
  OBVIOUS
<1>2. ASSUME NEW i \in DOMAIN list
      PROVE  /\ Min(Same(list, i)) \in DOMAIN list
             /\ Fold[list[Min(Same(list, i))].model] = Fold[list[i].model]
             /\ Max(Same(list, i)) \in DOMAIN list
             /\ Fold[list[Max(Same(list, i))].model] = Fold[list[i].model]
  <2>1. Same(list, i) \in SUBSET (1..n) /\ i \in Same(list, i)
    BY <1>1 DEF Same
  <2>2. Min(Same(list, i)) \in Same(list, i) /\ Max(Same(list, i)) \in Same(list, i)
    BY <1>1, <2>1, Ends
  <2> QED
    BY <2>2 DEF Same
<1>3. ASSUME NEW i \in DOMAIN list, NEW j \in DOMAIN list, Fold[list[i].model] = Fold[list[j].model]
      PROVE  Same(list, i) = Same(list, j)
  BY <1>3 DEF Same
<1>4. r = Among(items, I)
  BY DEF MapOf
<1>5. I \in SUBSET (1..n) /\ \A i : i \in I <=> i \in DOMAIN list /\ i = Min(Same(list, i))
  BY <1>1
<1>6. /\ DOMAIN items = 1..n
      /\ \A i \in DOMAIN list : items[i] = list[Max(Same(list, i))]
  BY <1>1
<1> HIDE DEF n, items, I, r
<1>7. \A i \in DOMAIN list : items[i] \in NamedRows /\ Fold[items[i].model] = Fold[list[i].model]
  BY <1>1, <1>2, <1>6
<1>8. r \in Seq(NamedRows) /\ \E at \in Bijection(DOMAIN r, I) : \A k \in DOMAIN r : r[k] = items[at[k]]
  <2>1. \A i \in I : items[i] \in NamedRows
    BY <1>5, <1>7
  <2> QED
    BY <1>1, <1>4, <1>5, <1>6, <2>1, AmongIs
<1>9. PICK at \in Bijection(DOMAIN r, I) : \A k \in DOMAIN r : r[k] = items[at[k]]
  BY <1>8
<1>10. /\ \A k \in DOMAIN r : at[k] \in I
       /\ \A k, l \in DOMAIN r : at[k] = at[l] => k = l
       /\ \A i \in I : \E k \in DOMAIN r : at[k] = i
  BY <1>9 DEF Bijection, Injection, Surjection, IsInjective
<1>11. \A k \in DOMAIN r : at[k] \in DOMAIN list /\ r[k] = list[Max(Same(list, at[k]))]
  BY <1>5, <1>6, <1>9, <1>10
<1>12. ASSUME NEW i \in DOMAIN list
       PROVE  \E k \in DOMAIN r : Fold[r[k].model] = Fold[list[i].model]
  <2> DEFINE j == Min(Same(list, i))
  <2>1. j \in DOMAIN list /\ Fold[list[j].model] = Fold[list[i].model]
    BY <1>2
  <2>2. Same(list, j) = Same(list, i)
    BY <1>3, <2>1
  <2>3. j \in I
    BY <1>5, <2>1, <2>2
  <2> HIDE DEF j
  <2>4. PICK k \in DOMAIN r : at[k] = j
    BY <1>10, <2>3
  <2>5. Fold[r[k].model] = Fold[list[j].model]
    BY <1>7, <1>9, <2>1, <2>4
  <2> QED
    BY <2>1, <2>5
<1>13. ASSUME NEW k \in DOMAIN r, NEW l \in DOMAIN r, Fold[r[k].model] = Fold[r[l].model]
       PROVE  k = l
  <2>1. Fold[list[at[k]].model] = Fold[list[at[l]].model]
    BY <1>7, <1>9, <1>11, <1>13
  <2>2. Same(list, at[k]) = Same(list, at[l])
    BY <1>3, <1>11, <2>1
  <2>3. at[k] = at[l]
    BY <1>5, <1>10, <2>2
  <2> QED
    BY <1>10, <2>3
<1>14. \A k \in DOMAIN r : \E i \in DOMAIN list : r[k] = list[i]
  BY <1>2, <1>11
<1> QED
  BY <1>8, <1>12, <1>13, <1>14 DEF r

-----------------------------------------------------------------------------
(* The invariant.                                                           *)

\* What a request can be.
Loads == [stage : {"sent"}, alone : BOOLEAN] \cup [stage : {"read"}, alone : BOOLEAN, list : Seq(NamedRows)]
Saves == [stage : {"sent", "applied", "refused", "listed"}, alone : BOOLEAN,
          list : Seq(NamedRows), kept : SUBSET Names]

Typed ==
    /\ rows \in Seq(Rows)
    /\ picker \in DOMAIN rows \cup {Closed, Gone}
    /\ offered \subseteq Names /\ known \subseteq Called
    /\ load \in Loads \cup {Idle} /\ stray \in Loads \cup {Idle}
    /\ saves \in [Slots -> Saves \cup {Idle}]
    /\ stored \in Lists /\ clean \in BOOLEAN

\* A load with nothing beside it finds the list as it stays,
LoneLoad ==
    load # Idle /\ load.alone =>
        UnderWay = {} /\ (load.stage = "read" => load.list = Listed(stored))
\* and so does a save.
LoneSave ==
    \A s \in UnderWay : saves[s].alone =>
        UnderWay = {s} /\ (saves[s].stage = "listed" => saves[s].list = Listed(stored))
\* Saves of an untouched table carry it.
CleanSaves ==
    clean => \A s \in UnderWay : saves[s].stage = "sent" => saves[s].list = TablePrices
\* Names that must not vanish are there.
KeptIsThere ==
    /\ kept \subseteq NamesIn(rows)
    /\ \A s \in UnderWay : saves[s].stage = "sent" => saves[s].kept \subseteq NamesIn(saves[s].list)

IInv == Typed /\ LoneLoad /\ LoneSave /\ CleanTableIsStored /\ CleanSaves /\ KeptIsThere

\* An untouched table never offers to save anything but the list of the server.
LEMMA InvInit == Init => IInv
<1> SUFFICES ASSUME Init PROVE IInv
  OBVIOUS
<1>1. rows = <<>> /\ rows \in Seq(Rows) /\ kept = {}
  BY DEF Init
<1>2. stored \in Lists
  <2>1. PICK M \in SUBSET Names : stored = [m \in M |-> 1]
    BY DEF Init
  <2>2. 1 \in 0..MaxPrice
    BY PriceTableAssumption
  <2> QED
    BY <2>1, <2>2 DEF Lists
<1>3. load \in Loads /\ load.stage = "sent" /\ UnderWay = {}
  BY DEF Init, Loads, UnderWay
<1> QED
  BY <1>1, <1>2, <1>3 DEF Init, IInv, Typed, LoneLoad, LoneSave, CleanTableIsStored, CleanSaves, KeptIsThere,
     UnderWay

\* An action of the user on the table: the table is touched, requests go on, and names that
\* must not vanish are still there.
LEMMA TableChanges ==
  ASSUME IInv, UNCHANGED <<requests, known>>, clean' = FALSE, rows' \in Seq(Rows),
         picker' \in DOMAIN rows' \cup {Closed, Gone}, offered' \subseteq Names,
         kept' \subseteq NamesIn(rows')
  PROVE  IInv'
<1>1. UNCHANGED <<load, stray, saves, stored, known>> /\ UnderWay' = UnderWay
  BY DEF requests, UnderWay
<1>2. Typed'
  BY <1>1 DEF IInv, Typed
<1>3. LoneLoad' /\ LoneSave'
  BY <1>1 DEF IInv, LoneLoad, LoneSave
<1>4. CleanTableIsStored' /\ CleanSaves'
  BY DEF CleanTableIsStored, CleanSaves
<1>5. KeptIsThere'
  BY <1>1 DEF IInv, KeptIsThere
<1> QED
  BY <1>2, <1>3, <1>4, <1>5 DEF IInv

\* One that leaves the table as it is.
LEMMA TableStays ==
  ASSUME IInv, UNCHANGED <<rows, clean, known, requests, kept>>,
         picker' \in DOMAIN rows' \cup {Closed, Gone}, offered' \subseteq Names
  PROVE  IInv'
<1>1. UNCHANGED <<rows, load, stray, saves, stored, known, clean, kept>> /\ UnderWay' = UnderWay
  BY DEF requests, UnderWay
<1>2. Typed'
  BY <1>1 DEF IInv, Typed
<1>3. LoneLoad' /\ LoneSave'
  BY <1>1 DEF IInv, LoneLoad, LoneSave
<1>4. CleanTableIsStored' /\ CleanSaves'
  BY <1>1 DEF IInv, CleanTableIsStored, CleanSaves, TablePrices
<1>5. KeptIsThere'
  BY <1>1 DEF IInv, KeptIsThere
<1> QED
  BY <1>2, <1>3, <1>4, <1>5 DEF IInv

\* A row put in the place of another, or behind the others.
LEMMA RowPut ==
  ASSUME NEW list \in Seq(Rows), NEW r \in Rows
  PROVE  /\ Append(list, r) \in Seq(Rows) /\ NamesIn(list) \subseteq NamesIn(Append(list, r))
         /\ \A i \in DOMAIN list :
               /\ [list EXCEPT ![i] = r] \in Seq(Rows)
               /\ DOMAIN [list EXCEPT ![i] = r] = DOMAIN list
               /\ NamesIn(list) \ ({list[i].model} \ {r.model}) \subseteq NamesIn([list EXCEPT ![i] = r])
<1>1. /\ Append(list, r) \in Seq(Rows)
      /\ \A j \in DOMAIN list : j \in DOMAIN Append(list, r) /\ Append(list, r)[j] = list[j]
  OBVIOUS
<1>2. NamesIn(list) \subseteq NamesIn(Append(list, r))
  BY <1>1 DEF NamesIn
<1>3. ASSUME NEW i \in DOMAIN list
      PROVE  /\ [list EXCEPT ![i] = r] \in Seq(Rows)
             /\ DOMAIN [list EXCEPT ![i] = r] = DOMAIN list
             /\ NamesIn(list) \ ({list[i].model} \ {r.model}) \subseteq NamesIn([list EXCEPT ![i] = r])
  <2> DEFINE new == [list EXCEPT ![i] = r]
  <2>1. /\ new \in Seq(Rows) /\ DOMAIN new = DOMAIN list /\ new[i] = r
        /\ \A j \in DOMAIN list : j # i => new[j] = list[j]
    OBVIOUS
  <2> HIDE DEF new
  <2>2. NamesIn(list) \ ({list[i].model} \ {r.model}) \subseteq NamesIn(new)
    BY <2>1 DEF NamesIn
  <2> QED
    BY <2>1, <2>2 DEF new
<1> QED
  BY <1>1, <1>2, <1>3

\* A list without one of its rows.
LEMMA RowRemoved ==
  ASSUME NEW list \in Seq(Rows), NEW i \in DOMAIN list
  PROVE  /\ RemoveAt(list, i) \in Seq(Rows)
         /\ NamesIn(list) \ {list[i].model} \subseteq NamesIn(RemoveAt(list, i))
<1> DEFINE n == Len(list)
           before == SubSeq(list, 1, i - 1)
           after == SubSeq(list, i + 1, n)
           new == RemoveAt(list, i)
<1>1. n \in Nat /\ DOMAIN list = 1..n /\ i \in 1..n
  OBVIOUS
<1>2. /\ before \in Seq(Rows) /\ DOMAIN before = 1..(i - 1)
      /\ \A j \in 1..(i - 1) : before[j] = list[j]
  BY <1>1
<1>3. /\ after \in Seq(Rows) /\ DOMAIN after = 1..(n - i)
      /\ \A j \in 1..(n - i) : after[j] = list[i + j]
  <2>1. i + 1 \in 1..(n + 1) /\ n - (i + 1) + 1 = n - i /\ \A j \in 1..(n - i) : (i + 1) + j - 1 = i + j
    BY <1>1
  <2>2. \A j \in 1..(n - i) : i + j \in 1..n
    BY <1>1
  <2>3. Len(after) = n - i
    BY <1>1, <2>1
  <2>4. after \in Seq(Rows)
    BY <1>1
  <2>5. DOMAIN after = 1..(n - i)
    BY <2>3, <2>4
  <2>6. \A j \in 1..(n - i) : after[j] = list[i + j]
    BY <1>1, <2>1
  <2> QED
    BY <2>4, <2>5, <2>6
<1>4. new = before \o after
  BY DEF RemoveAt
<1> HIDE DEF n, before, after, new
<1>5. /\ new \in Seq(Rows)
      /\ \A j \in DOMAIN before : j \in DOMAIN new /\ new[j] = before[j]
      /\ \A j \in DOMAIN after : Len(before) + j \in DOMAIN new /\ new[Len(before) + j] = after[j]
  <2> DEFINE join == before \o after
  <2>1. /\ join \in Seq(Rows)
        /\ \A j \in DOMAIN before : j \in DOMAIN join /\ join[j] = before[j]
        /\ \A j \in DOMAIN after : Len(before) + j \in DOMAIN join /\ join[Len(before) + j] = after[j]
    <3>1. before \in Seq(Rows) /\ after \in Seq(Rows)
      BY <1>2, <1>3
    <3> QED
      BY <3>1, JoinIs
  <2>2. join = new
    BY <1>4
  <2> HIDE DEF join
  <2> QED
    BY <2>1, <2>2
<1>6. ASSUME NEW j \in 1..n, j # i
      PROVE  \E k \in DOMAIN new : new[k] = list[j]
  <2>1. CASE j < i
    <3>1. j \in 1..(i - 1)
      BY <1>1, <2>1
    <3>2. j \in DOMAIN before /\ before[j] = list[j]
      BY <1>2, <3>1
    <3> QED
      BY <1>5, <3>2
  <2>2. CASE j > i
    <3>1. (j - i) \in 1..(n - i) /\ i + (j - i) = j
      BY <1>1, <2>2
    <3> QED
      BY <1>3, <1>5, <3>1
  <2> QED
    BY <1>1, <1>6, <2>1, <2>2
<1>7. NamesIn(list) \ {list[i].model} \subseteq NamesIn(new)
  BY <1>1, <1>6 DEF NamesIn
<1> QED
  BY <1>5, <1>7 DEF new

\* Of what is offered, every name comes from a page.
LEMMA RequestedIs ==
  ASSUME known \subseteq Called
  PROVE  Requested \subseteq Called
<1> DEFINE Of(S, k) == Sorted({m \in S : Fold[m] = k})
           One(k) == IF Of(known, k) # <<>> THEN Last(Of(known, k)) ELSE Head(Of(Called, k))
<1>1. Requested = {One(k) : k \in {Fold[m] : m \in known \cup Called}}
  BY DEF Requested
<1>2. ASSUME NEW m \in Called
      PROVE  One(Fold[m]) \in Called
  <2> DEFINE k == Fold[m]
             A == {x \in known : Fold[x] = k}
             B == {x \in Called : Fold[x] = k}
             a == Sorted(A)
             b == Sorted(B)
  <2>1. A \in SUBSET Called /\ B \in SUBSET Called /\ m \in B /\ A \in SUBSET Names /\ B \in SUBSET Names
    BY PriceTableAssumption
  <2>2. One(k) = IF a # <<>> THEN Last(a) ELSE Head(b)
    OBVIOUS
  <2> HIDE DEF A, B, a, b, One, Of, k
  <2>3. a \in Seq(A) /\ b \in Seq(B) /\ \E i \in DOMAIN b : b[i] = m
    BY <2>1, SortedIs DEF a, b
  <2>4. CASE a # <<>>
    <3>1. Last(a) \in A
      BY <2>3, <2>4 DEF Last
    <3> QED
      BY <2>1, <2>2, <2>4, <3>1 DEF k
  <2>5. CASE a = <<>>
    <3>1. b # <<>>
      BY <2>3
    <3>2. Head(b) \in B
      BY <2>3, <3>1
    <3> QED
      BY <2>1, <2>2, <2>5, <3>2 DEF k
  <2> QED
    BY <2>4, <2>5
<1> HIDE DEF One
<1> QED
  BY <1>1, <1>2

\* A merge loses no name but to one of the same lower case form.
LEMMA MergedIs ==
  ASSUME rows \in Seq(Rows), NEW file \in Seq(NamedRows)
  PROVE  /\ Merged(file) \in Seq(NamedRows) /\ Distinct(Merged(file))
         /\ \A m \in NamesIn(rows) :
               (\A n \in (NamesIn(rows) \cup NamesIn(file)) \ {m} : Fold[n] # Fold[m])
                  => m \in NamesIn(Merged(file))
<1> DEFINE list == TablePrices \o file
           map == Merged(file)
<1>1. TablePrices \in Seq(NamedRows) /\ NamesIn(TablePrices) = NamesIn(rows)
  BY FilledIs DEF TablePrices
<1>2. /\ list \in Seq(NamedRows)
      /\ \A j \in DOMAIN TablePrices : j \in DOMAIN list /\ list[j] = TablePrices[j]
      /\ \A j \in DOMAIN list : (j \in DOMAIN TablePrices /\ list[j] = TablePrices[j])
                                   \/ \E k \in DOMAIN file : list[j] = file[k]
  BY <1>1, JoinIs
<1>3. map = MapOf(list)
  BY DEF Merged
<1> HIDE DEF list, map
<1>4. /\ map \in Seq(NamedRows)
      /\ \A k \in DOMAIN map : \E i \in DOMAIN list : map[k] = list[i]
      /\ \A i \in DOMAIN list : \E k \in DOMAIN map : Fold[map[k].model] = Fold[list[i].model]
      /\ \A k, l \in DOMAIN map : Fold[map[k].model] = Fold[map[l].model] => k = l
  <2> DEFINE of == MapOf(list)
  <2>1. /\ of \in Seq(NamedRows)
        /\ \A k \in DOMAIN of : \E i \in DOMAIN list : of[k] = list[i]
        /\ \A i \in DOMAIN list : \E k \in DOMAIN of : Fold[of[k].model] = Fold[list[i].model]
        /\ \A k, l \in DOMAIN of : Fold[of[k].model] = Fold[of[l].model] => k = l
    <3>1. list \in Seq(NamedRows)
      BY <1>2
    <3> QED
      BY <3>1, MapOfIs
  <2> QED
    BY <1>3, <2>1
<1>5. Distinct(map)
  BY <1>4 DEF Distinct
<1>6. \A k \in DOMAIN map : map[k].model # Blank
  <2>1. \A r \in NamedRows : r.model # Blank
    BY PriceTableAssumption DEF NamedRows
  <2>2. \A k \in DOMAIN map : map[k] \in NamedRows
    BY <1>4
  <2> QED
    BY <2>1, <2>2
<1>7. ASSUME NEW m \in NamesIn(rows),
             \A n \in (NamesIn(rows) \cup NamesIn(file)) \ {m} : Fold[n] # Fold[m]
      PROVE  m \in NamesIn(map)
  <2>1. PICK i \in DOMAIN TablePrices : TablePrices[i].model = m
    BY <1>1 DEF NamesIn
  <2>2. PICK k \in DOMAIN map : Fold[map[k].model] = Fold[m]
    <3>1. i \in DOMAIN list /\ list[i].model = m
      BY <1>2, <2>1
    <3> QED
      BY <1>4, <3>1
  <2>3. map[k].model \in NamesIn(rows) \cup NamesIn(file)
    <3>1. PICK j \in DOMAIN list : map[k] = list[j]
      BY <1>4
    <3>2. CASE j \in DOMAIN TablePrices /\ list[j] = TablePrices[j]
      <4>1. map[k].model \in NamesIn(TablePrices)
        BY <1>6, <3>1, <3>2 DEF NamesIn
      <4> QED
        BY <1>1, <4>1
    <3>3. CASE \E h \in DOMAIN file : list[j] = file[h]
      BY <1>6, <3>1, <3>3 DEF NamesIn
    <3> QED
      BY <1>2, <3>2, <3>3
  <2>4. map[k].model = m
    BY <1>7, <2>2, <2>3
  <2> QED
    BY <1>6, <2>4 DEF NamesIn
<1> QED
  BY <1>4, <1>5, <1>7 DEF map

\* The auto fill puts its rows behind those of the table.
LEMMA FillIs ==
  ASSUME rows \in Seq(Rows)
  PROVE  LET fill == [i \in DOMAIN Sorted(Discovered) |-> Row(Sorted(Discovered)[i], 0)]
         IN  /\ fill \in Seq(NamedRows)
             /\ \A i \in DOMAIN fill : fill[i].model \in Discovered
             /\ \A i, j \in DOMAIN fill : fill[i].model = fill[j].model => i = j
<1> DEFINE D == Discovered
           names == Sorted(D)
           fill == [i \in DOMAIN names |-> Row(names[i], 0)]
<1>1. D \in SUBSET Names
  BY PriceTableAssumption DEF Discovered
<1> HIDE DEF D
<1>2. names \in Seq(D) /\ \A k, l \in DOMAIN names : names[k] = names[l] => k = l
  BY <1>1, SortedIs
<1> HIDE DEF names
<1>3. ASSUME NEW m \in D
      PROVE  Row(m, 0) \in NamedRows /\ Row(m, 0).model = m
  BY <1>1, PriceTableAssumption DEF Row, NamedRows
<1>4. Len(names) \in Nat /\ DOMAIN names = 1..Len(names) /\ \A i \in DOMAIN names : names[i] \in D
  BY <1>2
<1>5. fill \in [1..Len(names) -> NamedRows]
  BY <1>3, <1>4
<1>6. fill \in Seq(NamedRows)
  BY <1>4, <1>5
<1>7. \A i \in DOMAIN fill : fill[i].model = names[i] /\ i \in DOMAIN names
  BY <1>3, <1>4
<1> HIDE DEF fill
<1>8. \A i \in DOMAIN fill : fill[i].model \in D
  BY <1>4, <1>7
<1>9. \A i, j \in DOMAIN fill : fill[i].model = fill[j].model => i = j
  BY <1>2, <1>7
<1> QED
  BY <1>6, <1>8, <1>9 DEF fill, names, D

\* The buttons and fields of the table keep the invariant,
LEMMA RowsKeep ==
  ASSUME IInv, Add \/ EditModel \/ EditPrice \/ (\E i \in DOMAIN rows : RemoveRow(i) \/ CloneRow(i))
  PROVE  IInv'
<1>1. /\ rows \in Seq(Rows) /\ picker \in DOMAIN rows \cup {Closed, Gone} /\ offered \subseteq Names
      /\ kept \subseteq NamesIn(rows)
  BY DEF IInv, Typed, KeptIsThere
<1>2. ASSUME NEW m \in Names \cup {Blank}, NEW p \in 0..(MaxPrice + 1)
      PROVE  Row(m, p) \in Rows /\ Row(m, p).model = m
  BY DEF Row, Rows
<1>3. \A i \in DOMAIN rows : rows[i].model \in Names \cup {Blank} /\ rows[i].price \in 0..(MaxPrice + 1)
  <2>1. \A r \in Rows : r.model \in Names \cup {Blank} /\ r.price \in 0..(MaxPrice + 1)
    BY DEF Rows
  <2> QED
    BY <1>1, <2>1
<1>4. CASE Add
  <2>1. Row(Blank, 0) \in Rows
    BY <1>2, PriceTableAssumption
  <2>2. /\ rows' = Append(rows, Row(Blank, 0)) /\ UNCHANGED <<requests, kept, known>>
        /\ clean' = FALSE /\ picker' = Closed /\ offered' = {}
    BY <1>4 DEF Add, Press, Put
  <2>3. rows' \in Seq(Rows) /\ kept' \subseteq NamesIn(rows')
    BY <1>1, <2>1, <2>2, RowPut
  <2> QED
    BY <2>2, <2>3, TableChanges
<1>5. ASSUME NEW i \in DOMAIN rows, NEW r \in Rows, Edit(i, r)
      PROVE  IInv'
  <2>1. /\ rows' = [rows EXCEPT ![i] = r] /\ clean' = FALSE /\ UNCHANGED <<requests, known>>
        /\ kept' = kept \ ({rows[i].model} \ {r.model})
        /\ (picker' = Closed /\ offered' = {}) \/ UNCHANGED <<picker, offered>>
    BY <1>5 DEF Edit, Put
  <2>2. rows' \in Seq(Rows) /\ DOMAIN rows' = DOMAIN rows
        /\ NamesIn(rows) \ ({rows[i].model} \ {r.model}) \subseteq NamesIn(rows')
    BY <1>1, <2>1, RowPut
  <2>3. picker' \in DOMAIN rows' \cup {Closed, Gone} /\ offered' \subseteq Names
    BY <1>1, <2>1, <2>2
  <2>4. kept' \subseteq NamesIn(rows')
    BY <1>1, <2>1, <2>2
  <2> QED
    BY <2>1, <2>2, <2>3, <2>4, TableChanges
<1>6. CASE EditModel
  <2>1. PICK i \in DOMAIN rows, m \in Names \cup {Blank} : Edit(i, Row(m, rows[i].price))
    BY <1>6 DEF EditModel
  <2>2. Row(m, rows[i].price) \in Rows
    BY <1>2, <1>3
  <2> QED
    BY <1>5, <2>1, <2>2
<1>7. CASE EditPrice
  <2>1. PICK i \in DOMAIN rows, p \in 0..(MaxPrice + 1) : Edit(i, Row(rows[i].model, p))
    BY <1>7 DEF EditPrice
  <2>2. Row(rows[i].model, p) \in Rows
    BY <1>2, <1>3
  <2> QED
    BY <1>5, <2>1, <2>2
<1>8. ASSUME NEW i \in DOMAIN rows, RemoveRow(i)
      PROVE  IInv'
  <2>1. /\ rows' = RemoveAt(rows, i) /\ clean' = FALSE /\ UNCHANGED <<requests, known>>
        /\ kept' = kept \ {rows[i].model} /\ picker' = Closed /\ offered' = {}
    BY <1>8 DEF RemoveRow, Press, Put
  <2>2. rows' \in Seq(Rows) /\ kept' \subseteq NamesIn(rows')
    BY <1>1, <2>1, RowRemoved
  <2> QED
    BY <2>1, <2>2, TableChanges
<1>9. ASSUME NEW i \in DOMAIN rows, CloneRow(i)
      PROVE  IInv'
  <2> DEFINE m == IF rows[i].model = Blank THEN Blank ELSE CopyOf[rows[i].model]
  <2>1. /\ rows' = Append(rows, Row(m, rows[i].price)) /\ clean' = FALSE
        /\ UNCHANGED <<requests, kept, known>> /\ picker' = Closed /\ offered' = {}
        /\ rows[i].model \in DOMAIN CopyOf \cup {Blank}
    BY <1>9 DEF CloneRow, Press, Put
  <2>2. m \in Names \cup {Blank}
    BY <2>1, PriceTableAssumption DEF Range
  <2> HIDE DEF m
  <2>3. Row(m, rows[i].price) \in Rows
    BY <1>2, <1>3, <2>2
  <2>4. rows' \in Seq(Rows) /\ kept' \subseteq NamesIn(rows')
    BY <1>1, <2>1, <2>3, RowPut
  <2> QED
    BY <2>1, <2>4, TableChanges
<1> QED
  BY <1>4, <1>6, <1>7, <1>8, <1>9

\* so do an import and the auto fill,
LEMMA BulkKeeps ==
  ASSUME IInv, AutoFill \/ \E file \in Files, mode \in {"merge", "replace"} : Import(file, mode)
  PROVE  IInv'
<1>1. rows \in Seq(Rows) /\ kept \subseteq NamesIn(rows)
  BY DEF IInv, Typed, KeptIsThere
<1>2. ASSUME NEW file \in Files, NEW mode \in {"merge", "replace"}, Import(file, mode)
      PROVE  IInv'
  <2>1. file \in Seq(NamedRows)
    BY PriceTableAssumption DEF NamedRows
  <2>2. /\ clean' = FALSE /\ UNCHANGED <<requests, known>> /\ picker' = Closed /\ offered' = {}
        /\ rows' = RowsFor(IF mode = "replace" THEN file ELSE Merged(file))
        /\ kept' = IF mode = "replace" THEN kept \cap NamesIn(file)
                   ELSE {m \in kept : \A n \in (NamesIn(rows) \cup NamesIn(file)) \ {m} : Fold[n] # Fold[m]}
    BY <1>2 DEF Import, Press, Put
  <2>3. CASE mode = "replace"
    <3>1. rows' = RowsFor(file) /\ kept' \subseteq NamesIn(file)
      BY <2>2, <2>3
    <3>2. rows' \in Seq(Rows) /\ kept' \subseteq NamesIn(rows')
      BY <2>1, <3>1, RowsForIs
    <3> QED
      BY <2>2, <3>2, TableChanges
  <2>4. CASE mode = "merge"
    <3>1. rows' = RowsFor(Merged(file)) /\ kept' \subseteq NamesIn(Merged(file))
               /\ Merged(file) \in Seq(NamedRows)
      <4>1. /\ rows' = RowsFor(Merged(file))
            /\ kept' = {m \in kept : \A n \in (NamesIn(rows) \cup NamesIn(file)) \ {m} : Fold[n] # Fold[m]}
        BY <2>2, <2>4
      <4> QED
        BY <1>1, <2>1, <4>1, MergedIs
    <3>2. rows' \in Seq(Rows) /\ kept' \subseteq NamesIn(rows')
      BY <3>1, RowsForIs
    <3> QED
      BY <2>2, <3>2, TableChanges
  <2> QED
    BY <2>3, <2>4
<1>3. CASE AutoFill
  <2> DEFINE fill == [i \in DOMAIN Sorted(Discovered) |-> Row(Sorted(Discovered)[i], 0)]
  <2>1. /\ rows' = rows \o fill /\ clean' = FALSE /\ UNCHANGED <<requests, kept, known>>
        /\ picker' = Closed /\ offered' = {}
    BY <1>3 DEF AutoFill, Press, Put
  <2>2. fill \in Seq(Rows)
    BY <1>1, FillIs, RowsForIs
  <2> HIDE DEF fill
  <2>3. /\ rows \o fill \in Seq(Rows)
        /\ \A j \in DOMAIN rows : j \in DOMAIN (rows \o fill) /\ (rows \o fill)[j] = rows[j]
    BY <1>1, <2>2, JoinIs
  <2>4. NamesIn(rows) \subseteq NamesIn(rows \o fill)
    BY <2>3 DEF NamesIn
  <2> QED
    BY <1>1, <2>1, <2>3, <2>4, TableChanges
<1> QED
  BY <1>2, <1>3

\* and the picker.
LEMMA PickerKeeps ==
  ASSUME IInv, (\E i \in DOMAIN rows : OpenPicker(i)) \/ ClosePicker \/ \E m \in offered : Pick(m)
  PROVE  IInv'
<1>1. /\ rows \in Seq(Rows) /\ picker \in DOMAIN rows \cup {Closed, Gone} /\ offered \subseteq Names
      /\ kept \subseteq NamesIn(rows) /\ known \subseteq Called
  BY DEF IInv, Typed, KeptIsThere
<1>2. ASSUME NEW i \in DOMAIN rows, OpenPicker(i)
      PROVE  IInv'
  <2>1. /\ UNCHANGED <<rows, clean, known, requests, kept>> /\ picker' = i
        /\ offered' = OfferedFor(i)
    BY <1>2 DEF OpenPicker
  <2>2. OfferedFor(i) \subseteq Requested
    BY DEF OfferedFor
  <2>3. offered' \subseteq Names /\ picker' \in DOMAIN rows' \cup {Closed, Gone}
    BY <1>1, <2>1, <2>2, RequestedIs, PriceTableAssumption
  <2> QED
    BY <2>1, <2>3, TableStays
<1>3. CASE ClosePicker
  BY <1>3, TableStays DEF ClosePicker, Press
<1>4. ASSUME NEW m \in offered, Pick(m)
      PROVE  IInv'
  <2>1. picker # Closed /\ picker' = Closed /\ offered' = {} /\ UNCHANGED <<requests, known>>
    BY <1>4 DEF Pick, Press
  <2>2. CASE picker = Gone
    <3>1. UNCHANGED <<rows, clean, known, requests, kept>>
      BY <1>4, <2>1, <2>2 DEF Pick
    <3> QED
      BY <2>1, <3>1, TableStays
  <2>3. CASE picker # Gone
    <3> DEFINE r == [rows[picker] EXCEPT !.model = m]
    <3>1. picker \in DOMAIN rows
      BY <1>1, <2>1, <2>3
    <3>2. /\ rows' = [rows EXCEPT ![picker] = r] /\ clean' = FALSE
          /\ kept' = kept \ ({rows[picker].model} \ {m})
      BY <1>4, <2>3, <3>1 DEF Pick, Put
    <3>3. r \in Rows /\ r.model = m
      <4>1. rows[picker] \in Rows /\ m \in Names
        BY <1>1, <3>1
      <4> QED
        BY <4>1 DEF Rows
    <3> HIDE DEF r
    <3>4. rows' \in Seq(Rows)
          /\ NamesIn(rows) \ ({rows[picker].model} \ {m}) \subseteq NamesIn(rows')
      BY <1>1, <3>1, <3>2, <3>3, RowPut
    <3>5. kept' \subseteq NamesIn(rows')
      BY <1>1, <3>2, <3>4
    <3> QED
      BY <2>1, <3>2, <3>4, <3>5, TableChanges
  <2> QED
    BY <2>2, <2>3
<1> QED
  BY <1>2, <1>3, <1>4

-----------------------------------------------------------------------------
(* The requests.                                                            *)

\* Marked as having another beside it, a request is the same but for that, and none is none.
LEMMA BesideIs ==
  ASSUME NEW r
  PROVE  /\ r \in Loads \cup {Idle} => Beside(r) \in Loads \cup {Idle}
         /\ r \in Saves \cup {Idle} => Beside(r) \in Saves \cup {Idle}
         /\ r = Idle => Beside(r) = Idle
         /\ Beside(r) # Idle => r # Idle
         /\ r \in Loads /\ Beside(r) # Idle => ~Beside(r).alone
         /\ r \in Saves /\ Beside(r) # Idle =>
               /\ ~Beside(r).alone /\ Beside(r).stage = r.stage
               /\ Beside(r).list = r.list /\ Beside(r).kept = r.kept
<1> DEFINE b == [r EXCEPT !.alone = FALSE]
<1>1. Beside(r) = IF r = Idle THEN r ELSE b
  BY DEF Beside
<1>2. r \in Loads => b \in Loads /\ b.alone = FALSE
  BY DEF Loads
<1>3. r \in Saves => b \in Saves /\ b.alone = FALSE /\ b.stage = r.stage /\ b.list = r.list /\ b.kept = r.kept
  BY DEF Saves
<1> HIDE DEF b
<1> QED
  BY <1>1, <1>2, <1>3

\* The table and what must not vanish, for a step that leaves them and what was sent.
LEMMA TableAsItWas ==
  ASSUME IInv, UNCHANGED <<rows, stored, clean, kept>>,
         \A s \in Slots : saves'[s] # Idle /\ saves'[s].stage = "sent" =>
            /\ saves[s] # Idle /\ saves[s].stage = "sent"
            /\ saves'[s].list = saves[s].list /\ saves'[s].kept = saves[s].kept
  PROVE  CleanTableIsStored' /\ CleanSaves' /\ KeptIsThere'
<1>1. CleanTableIsStored'
  BY DEF IInv, CleanTableIsStored, TablePrices
<1>2. CleanSaves'
  BY DEF IInv, CleanSaves, TablePrices, UnderWay
<1>3. KeptIsThere'
  BY DEF IInv, KeptIsThere, UnderWay
<1> QED
  BY <1>1, <1>2, <1>3

\* Leaving the page, or asking for it again, puts a load beside every save.
LEMMA ReloadKeeps ==
  ASSUME IInv, Reload
  PROVE  IInv'
<1>1. /\ picker' = Closed /\ offered' = {} /\ stray' = load
      /\ load' = [stage |-> "sent", alone |-> UnderWay = {}]
      /\ saves' = [s \in Slots |-> Beside(saves[s])]
      /\ UNCHANGED <<rows, clean, known, stored, kept>>
  BY DEF Reload, Press
<1>2. \A s \in Slots : saves[s] \in Saves \cup {Idle} /\ saves'[s] = Beside(saves[s])
  BY <1>1 DEF IInv, Typed
<1>3. load' \in Loads /\ load'.stage = "sent" /\ (load'.alone => UnderWay = {})
  BY <1>1 DEF Loads
<1>4. Typed'
  <2>1. saves' \in [Slots -> Saves \cup {Idle}]
    BY <1>1, <1>2, BesideIs
  <2> QED
    BY <1>1, <1>3, <2>1 DEF IInv, Typed
<1>5. UnderWay' \subseteq UnderWay /\ LoneSave'
  BY <1>2, BesideIs DEF UnderWay, LoneSave
<1>6. LoneLoad'
  BY <1>3, <1>5 DEF LoneLoad
<1>7. CleanTableIsStored' /\ CleanSaves' /\ KeptIsThere'
  <2>1. \A s \in Slots : saves'[s] # Idle => saves[s] # Idle /\ saves'[s].stage = saves[s].stage
                            /\ saves'[s].list = saves[s].list /\ saves'[s].kept = saves[s].kept
    BY <1>2, BesideIs
  <2> QED
    BY <1>1, <2>1, TableAsItWas
<1> QED
  BY <1>4, <1>5, <1>6, <1>7 DEF IInv

\* The server reads its list; answers that are lost or come too late change nothing.
LEMMA LoadsKeep ==
  ASSUME IInv, LoadRead \/ LoadFailed \/ StrayRead \/ StrayAnswered
  PROVE  IInv'
<1>1. /\ UNCHANGED <<rows, known, picker, offered, saves, stored, clean, kept>> /\ UnderWay' = UnderWay
  BY DEF LoadRead, LoadFailed, StrayRead, StrayAnswered, UnderWay
<1>2. Listed(stored) \in Seq(NamedRows)
  BY ListedIs DEF IInv, Typed
<1>3. load' \in Loads \cup {Idle} /\ stray' \in Loads \cup {Idle} /\ LoneLoad'
  <2>1. load \in Loads \cup {Idle} /\ stray \in Loads \cup {Idle}
    BY DEF IInv, Typed
  <2>2. CASE LoadRead
    <3>1. /\ load' = [stage |-> "read", alone |-> load.alone, list |-> Listed(stored)]
          /\ load # Idle /\ UNCHANGED stray
      BY <2>2 DEF LoadRead
    <3>2. load.alone \in BOOLEAN
      BY <2>1, <3>1 DEF Loads
    <3>3. load' \in Loads /\ load'.alone = load.alone /\ load'.list = Listed(stored)
      BY <1>2, <3>1, <3>2 DEF Loads
    <3> QED
      BY <1>1, <2>1, <3>1, <3>3 DEF IInv, LoneLoad
  <2>3. CASE LoadFailed
    BY <2>1, <2>3 DEF LoadFailed, LoneLoad
  <2>4. CASE StrayRead
    <3>1. /\ stray' = [stage |-> "read", alone |-> stray.alone, list |-> Listed(stored)]
          /\ stray # Idle /\ UNCHANGED load
      BY <2>4 DEF StrayRead
    <3>2. stray.alone \in BOOLEAN
      BY <2>1, <3>1 DEF Loads
    <3>3. stray' \in Loads
      BY <1>2, <3>1, <3>2 DEF Loads
    <3> QED
      BY <1>1, <2>1, <3>1, <3>3 DEF IInv, LoneLoad
  <2>5. CASE StrayAnswered
    BY <1>1, <2>1, <2>5 DEF StrayAnswered, IInv, LoneLoad
  <2> QED
    BY <2>2, <2>3, <2>4, <2>5
<1>4. Typed'
  BY <1>1, <1>3 DEF IInv, Typed
<1>5. LoneSave'
  BY <1>1 DEF IInv, LoneSave
<1>6. CleanTableIsStored' /\ CleanSaves' /\ KeptIsThere'
  BY <1>1, TableAsItWas
<1> QED
  BY <1>3, <1>4, <1>5, <1>6 DEF IInv

\* An answer that is rendered is what the table then holds.
LEMMA ShownIs ==
  ASSUME NEW list \in Seq(NamedRows), NEW alone, Shown(list, alone)
  PROVE  /\ rows' \in Seq(Rows) /\ kept' \subseteq NamesIn(rows') /\ TablePrices' = list
         /\ picker' \in {Closed, Gone} /\ clean' = alone
<1>1. /\ rows' = RowsFor(list) /\ kept' = NamesIn(list) /\ clean' = alone
      /\ picker' = IF picker = Closed THEN Closed ELSE Gone
  BY DEF Shown, RenderPrices
<1>2. TablePrices' = Filled(rows')
  BY DEF TablePrices
<1> QED
  BY <1>1, <1>2, RowsForIs

\* The answer to a load.
LEMMA LoadAnsweredKeeps ==
  ASSUME IInv, LoadAnswered
  PROVE  IInv'
<1>1. /\ load # Idle /\ load.stage = "read" /\ load' = Idle /\ known' \in {known, Called}
      /\ Shown(load.list, load.alone) /\ UNCHANGED <<offered, stray, saves, stored>>
      /\ UnderWay' = UnderWay
  BY DEF LoadAnswered, UnderWay
<1>2. load.list \in Seq(NamedRows) /\ load.alone \in BOOLEAN
  BY <1>1 DEF IInv, Typed, Loads
<1>3. /\ rows' \in Seq(Rows) /\ kept' \subseteq NamesIn(rows') /\ TablePrices' = load.list
      /\ picker' \in {Closed, Gone} /\ clean' = load.alone
  BY <1>1, <1>2, ShownIs
<1>4. Typed'
  BY <1>1, <1>2, <1>3 DEF IInv, Typed
<1>5. LoneLoad' /\ LoneSave'
  BY <1>1 DEF IInv, LoneLoad, LoneSave
<1>6. clean' => UnderWay = {} /\ load.list = Listed(stored)
  BY <1>1, <1>3 DEF IInv, LoneLoad
<1>7. CleanTableIsStored' /\ CleanSaves'
  BY <1>1, <1>3, <1>6 DEF CleanTableIsStored, CleanSaves
<1>8. KeptIsThere'
  BY <1>1, <1>3 DEF IInv, KeptIsThere
<1> QED
  BY <1>4, <1>5, <1>7, <1>8 DEF IInv

\* A save takes the table as it is, beside every request under way.
LEMMA SavePricesKeeps ==
  ASSUME IInv, NEW s \in Slots, SavePrices(s)
  PROVE  IInv'
<1> DEFINE new == [stage |-> "sent", alone |-> UnderWay = {} /\ load = Idle,
                   list |-> TablePrices, kept |-> kept]
<1>1. /\ saves[s] = Idle /\ load' = Beside(load) /\ picker' = Closed /\ offered' = {}
      /\ saves' = [t \in Slots |-> IF t # s THEN Beside(saves[t]) ELSE new]
      /\ UNCHANGED <<rows, clean, known, stray, stored, kept>>
  BY DEF SavePrices, Press
<1>2. rows \in Seq(Rows) /\ kept \subseteq NamesIn(rows)
  BY DEF IInv, Typed, KeptIsThere
<1>3. TablePrices \in Seq(NamedRows) /\ NamesIn(TablePrices) = NamesIn(rows)
  BY <1>2, FilledIs DEF TablePrices
<1>4. /\ new \in Saves /\ new.stage = "sent" /\ new.list = TablePrices /\ new.kept = kept
      /\ new.alone => UnderWay = {}
  <2>1. kept \in SUBSET Names
    <3>1. NamesIn(rows) \subseteq Names
      <4>1. \A i \in DOMAIN rows : rows[i].model \in Names \cup {Blank}
        <5>1. \A r \in Rows : r.model \in Names \cup {Blank}
          BY DEF Rows
        <5> QED
          BY <1>2, <5>1
      <4> QED
        BY <4>1 DEF NamesIn
    <3> QED
      BY <1>2, <3>1
  <2>2. (UnderWay = {} /\ load = Idle) \in BOOLEAN
    OBVIOUS
  <2> QED
    BY <1>3, <2>1, <2>2 DEF Saves
<1> HIDE DEF new
<1>5. saves'[s] = new /\ \A t \in Slots : t # s => saves'[t] = Beside(saves[t])
  BY <1>1
<1>6. \A t \in Slots : saves[t] \in Saves \cup {Idle}
  BY DEF IInv, Typed
<1>7. \A t \in Slots : t # s /\ saves'[t] # Idle =>
         /\ saves[t] # Idle /\ ~saves'[t].alone /\ saves'[t].stage = saves[t].stage
         /\ saves'[t].list = saves[t].list /\ saves'[t].kept = saves[t].kept
  BY <1>5, <1>6, BesideIs
<1>8. Typed'
  <2>1. saves' \in [Slots -> Saves \cup {Idle}]
    BY <1>1, <1>4, <1>6, BesideIs
  <2>2. load' \in Loads \cup {Idle}
    BY <1>1, BesideIs DEF IInv, Typed
  <2> QED
    BY <1>1, <2>1, <2>2 DEF IInv, Typed
<1>9. LoneLoad'
  <2>1. load \in Loads \cup {Idle}
    BY DEF IInv, Typed
  <2>2. load' # Idle => ~load'.alone
    BY <1>1, <2>1, BesideIs
  <2> QED
    BY <2>2 DEF LoneLoad
<1>10. LoneSave'
  <2> SUFFICES ASSUME NEW t \in UnderWay', saves'[t].alone
               PROVE  UnderWay' = {t} /\ saves'[t].stage # "listed"
    BY DEF LoneSave
  <2>1. t = s /\ UnderWay = {} /\ saves'[t].stage = "sent"
    BY <1>4, <1>5, <1>7 DEF UnderWay
  <2> QED
    BY <1>7, <2>1 DEF UnderWay
<1>11. CleanTableIsStored' /\ TablePrices' = TablePrices
  BY <1>1 DEF IInv, CleanTableIsStored, TablePrices
<1>12. CleanSaves'
  BY <1>1, <1>4, <1>5, <1>7, <1>11 DEF IInv, CleanSaves, UnderWay
<1>13. KeptIsThere'
  <2>1. \A t \in UnderWay' : saves'[t].stage = "sent" => saves'[t].kept \subseteq NamesIn(saves'[t].list)
    <3>1. kept \subseteq NamesIn(TablePrices)
      BY <1>2, <1>3
    <3> QED
      BY <1>4, <1>5, <1>7, <3>1 DEF IInv, KeptIsThere, UnderWay
  <2> QED
    BY <1>1, <1>2, <2>1 DEF KeptIsThere
<1> QED
  BY <1>8, <1>9, <1>10, <1>11, <1>12, <1>13 DEF IInv

\* The list that a save leaves on the server: its names and prices, so that of a list the
\* server gave it makes the same again.
LEMMA AppliedIs ==
  ASSUME NEW list \in Seq(NamedRows), Valid(list)
  PROVE  LET new == [m \in NamesIn(list) |-> (CHOOSE r \in Range(list) : r.model = m).price]
         IN  new \in Lists /\ \A l \in Lists : list = Listed(l) => new = l
<1> DEFINE of(m) == CHOOSE r \in Range(list) : r.model = m
           new == [m \in NamesIn(list) |-> of(m).price]
<1>1. ASSUME NEW m \in NamesIn(list)
      PROVE  \E k \in DOMAIN list : of(m) = list[k] /\ list[k].model = m
  <2>1. \E r \in Range(list) : r.model = m
    BY DEF NamesIn, Range
  <2>2. of(m) \in Range(list) /\ of(m).model = m
    BY <2>1
  <2> HIDE DEF of
  <2> QED
    BY <2>2 DEF Range
<1>2. \A k \in DOMAIN list : list[k].model \in Names /\ list[k].price \in 0..MaxPrice
  <2>1. \A r \in NamedRows : r.model \in Names /\ r.price \in 0..(MaxPrice + 1)
    BY DEF NamedRows
  <2>2. \A k \in DOMAIN list : list[k] \in NamedRows /\ list[k].price <= MaxPrice
    BY DEF Valid
  <2>3. \A p \in 0..(MaxPrice + 1) : p <= MaxPrice => p \in 0..MaxPrice
    BY PriceTableAssumption
  <2> QED
    BY <2>1, <2>2, <2>3
<1> HIDE DEF of
<1>3. new \in Lists
  <2>1. NamesIn(list) \in SUBSET Names
    BY <1>2 DEF NamesIn
  <2>2. new \in [NamesIn(list) -> 0..MaxPrice]
    BY <1>1, <1>2
  <2> QED
    BY <2>1, <2>2 DEF Lists
<1>4. ASSUME NEW l \in Lists, list = Listed(l)
      PROVE  new = l
  <2>1. NamesIn(list) = DOMAIN l /\ \A k \in DOMAIN list : list[k].price = l[list[k].model]
    BY <1>4, ListedIs
  <2>2. \A m \in DOMAIN l : of(m).price = l[m]
    BY <1>1, <2>1
  <2>3. l = [m \in DOMAIN l |-> l[m]]
    BY DEF Lists
  <2> QED
    BY <2>1, <2>2, <2>3
<1> QED
  BY <1>3, <1>4 DEF of

\* The server takes the list of a save, or refuses it.
LEMMA SaveAppliedKeeps ==
  ASSUME IInv, NEW s \in Slots, SaveApplied(s)
  PROVE  IInv'
<1> DEFINE list == saves[s].list
           new == [m \in NamesIn(list) |-> (CHOOSE r \in Range(list) : r.model = m).price]
           stage == IF Valid(list) THEN "applied" ELSE "refused"
<1>1. /\ saves[s] # Idle /\ saves[s].stage = "sent"
      /\ stored' = IF Valid(list) THEN new ELSE stored
      /\ saves' = [saves EXCEPT ![s].stage = stage]
      /\ UNCHANGED <<rows, known, picker, offered, load, stray, clean, kept>>
  BY DEF SaveApplied
<1>2. saves[s] \in Saves /\ \A t \in Slots : saves[t] \in Saves \cup {Idle}
  BY <1>1 DEF IInv, Typed
<1>3. list \in Seq(NamedRows)
  BY <1>2 DEF Saves
<1>4. stage \in {"applied", "refused"}
  OBVIOUS
<1>5. /\ saves'[s] \in Saves /\ saves'[s].stage = stage /\ saves'[s].alone = saves[s].alone
      /\ \A t \in Slots : t # s => saves'[t] = saves[t]
      /\ saves' \in [Slots -> Saves \cup {Idle}]
  <2> HIDE DEF stage, list, new
  <2>1. [saves[s] EXCEPT !.stage = stage] \in Saves
    BY <1>2, <1>4 DEF Saves
  <2>2. saves \in [Slots -> Saves \cup {Idle}]
    BY DEF IInv, Typed
  <2>3. saves' = [saves EXCEPT ![s] = [saves[s] EXCEPT !.stage = stage]]
    BY <1>1
  <2>4. saves'[s] = [saves[s] EXCEPT !.stage = stage]
    BY <2>2, <2>3
  <2>5. saves'[s].stage = stage /\ saves'[s].alone = saves[s].alone
    BY <1>2, <2>4 DEF Saves
  <2> QED
    BY <2>1, <2>2, <2>3, <2>4, <2>5
<1>6. stored' \in Lists /\ (clean => stored' = stored)
  <2>1. stored \in Lists /\ (clean => list = Listed(stored))
    BY <1>1 DEF IInv, Typed, CleanTableIsStored, CleanSaves, UnderWay
  <2>2. Valid(list) => new \in Lists /\ \A l \in Lists : list = Listed(l) => new = l
    BY <1>3, AppliedIs
  <2> HIDE DEF list, new
  <2> QED
    BY <1>1, <2>1, <2>2
<1> HIDE DEF stage, new, list
<1>7. UnderWay' \subseteq UnderWay /\ s \in UnderWay
  BY <1>1, <1>5 DEF UnderWay
<1>8. Typed'
  BY <1>1, <1>5, <1>6 DEF IInv, Typed
<1>9. LoneLoad'
  <2>1. load # Idle => ~load.alone
    BY <1>7 DEF IInv, LoneLoad
  <2> QED
    BY <1>1, <2>1 DEF LoneLoad
<1>10. LoneSave'
  <2> SUFFICES ASSUME NEW t \in UnderWay', saves'[t].alone
               PROVE  UnderWay' = {t} /\ saves'[t].stage # "listed"
    BY DEF LoneSave
  <2>1. t \in Slots /\ t \in UnderWay /\ saves[t].alone
    BY <1>5, <1>7 DEF UnderWay
  <2>2. UnderWay = {t}
    BY <2>1 DEF IInv, LoneSave
  <2> QED
    BY <1>4, <1>5, <1>7, <2>2
<1>11. CleanTableIsStored'
  BY <1>1, <1>6 DEF IInv, CleanTableIsStored, TablePrices
<1>12. CleanSaves'
  BY <1>1, <1>4, <1>5 DEF IInv, CleanSaves, TablePrices, UnderWay
<1>13. KeptIsThere'
  BY <1>1, <1>4, <1>5 DEF IInv, KeptIsThere, UnderWay
<1> QED
  BY <1>8, <1>9, <1>10, <1>11, <1>12, <1>13 DEF IInv

\* The list that answers a save is read after it.
LEMMA SaveListedKeeps ==
  ASSUME IInv, NEW s \in Slots, SaveListed(s)
  PROVE  IInv'
<1> DEFINE new == [saves[s] EXCEPT !.stage = "listed", !.list = Listed(stored)]
<1>1. /\ saves[s] # Idle /\ saves' = [saves EXCEPT ![s] = new]
      /\ UNCHANGED <<rows, known, picker, offered, load, stray, stored, clean, kept>>
  BY DEF SaveListed
<1>2. saves[s] \in Saves /\ saves \in [Slots -> Saves \cup {Idle}]
  BY <1>1 DEF IInv, Typed
<1>3. new \in Saves /\ new.stage = "listed" /\ new.list = Listed(stored) /\ new.alone = saves[s].alone
  <2>1. Listed(stored) \in Seq(NamedRows)
    BY ListedIs DEF IInv, Typed
  <2> QED
    BY <1>2, <2>1 DEF Saves
<1> HIDE DEF new
<1>4. /\ saves'[s] = new /\ saves' \in [Slots -> Saves \cup {Idle}]
      /\ \A t \in Slots : t # s => saves'[t] = saves[t]
  BY <1>1, <1>2, <1>3
<1>5. UnderWay' \subseteq UnderWay /\ s \in UnderWay
  BY <1>1, <1>4 DEF UnderWay
<1>6. Typed'
  BY <1>1, <1>4 DEF IInv, Typed
<1>7. LoneLoad'
  <2>1. load # Idle => ~load.alone
    BY <1>5 DEF IInv, LoneLoad
  <2> QED
    BY <1>1, <2>1 DEF LoneLoad
<1>8. LoneSave'
  <2> SUFFICES ASSUME NEW t \in UnderWay', saves'[t].alone
               PROVE  UnderWay' = {t} /\ (saves'[t].stage = "listed" => saves'[t].list = Listed(stored)')
    BY DEF LoneSave
  <2>1. t \in Slots /\ t \in UnderWay /\ saves[t].alone
    BY <1>3, <1>4, <1>5 DEF UnderWay
  <2>2. UnderWay = {t}
    BY <2>1 DEF IInv, LoneSave
  <2> QED
    BY <1>1, <1>3, <1>4, <1>5, <2>2
<1>9. CleanTableIsStored' /\ CleanSaves' /\ KeptIsThere'
  BY <1>1, <1>3, <1>4, TableAsItWas
<1> QED
  BY <1>6, <1>7, <1>8, <1>9 DEF IInv

\* A save that ends, with its answer rendered or not.
LEMMA SaveEndsKeeps ==
  ASSUME IInv, NEW s \in Slots, SaveAnswered(s) \/ SaveFailed(s)
  PROVE  IInv'
<1>1. /\ saves[s] # Idle /\ saves' = [saves EXCEPT ![s] = Idle]
      /\ UNCHANGED <<known, offered, load, stray, stored>>
  BY DEF SaveAnswered, SaveFailed
<1>2. saves[s] \in Saves /\ saves \in [Slots -> Saves \cup {Idle}]
  BY <1>1 DEF IInv, Typed
<1>3. /\ saves'[s] = Idle /\ saves' \in [Slots -> Saves \cup {Idle}]
      /\ \A t \in Slots : t # s => saves'[t] = saves[t]
  BY <1>1, <1>2
<1>4. UnderWay' = UnderWay \ {s} /\ s \in UnderWay
  BY <1>1, <1>3 DEF UnderWay
<1>5. LoneLoad'
  <2>1. load # Idle => ~load.alone
    BY <1>4 DEF IInv, LoneLoad
  <2> QED
    BY <1>1, <2>1 DEF LoneLoad
<1>6. LoneSave'
  <2> SUFFICES ASSUME NEW t \in UnderWay', saves'[t].alone
               PROVE  FALSE
    BY DEF LoneSave
  <2>1. t \in UnderWay /\ t # s /\ saves[t].alone
    BY <1>3, <1>4 DEF UnderWay
  <2> QED
    BY <1>4, <2>1 DEF IInv, LoneSave
<1>7. CASE SaveFailed(s)
  <2>1. UNCHANGED <<rows, picker, clean, kept>>
    BY <1>7 DEF SaveFailed
  <2>2. Typed'
    BY <1>1, <1>3, <2>1 DEF IInv, Typed
  <2>3. CleanTableIsStored' /\ CleanSaves' /\ KeptIsThere'
    BY <1>1, <1>3, <2>1, TableAsItWas
  <2> QED
    BY <1>5, <1>6, <2>2, <2>3 DEF IInv
<1>8. CASE SaveAnswered(s)
  <2>1. saves[s].stage = "listed" /\ Shown(saves[s].list, saves[s].alone)
    BY <1>8 DEF SaveAnswered
  <2>2. saves[s].list \in Seq(NamedRows) /\ saves[s].alone \in BOOLEAN
    BY <1>2 DEF Saves
  <2>3. /\ rows' \in Seq(Rows) /\ kept' \subseteq NamesIn(rows') /\ TablePrices' = saves[s].list
        /\ picker' \in {Closed, Gone} /\ clean' = saves[s].alone
    BY <2>1, <2>2, ShownIs
  <2>4. Typed'
    BY <1>1, <1>3, <2>2, <2>3 DEF IInv, Typed
  <2>5. clean' => UnderWay' = {} /\ saves[s].list = Listed(stored)
    BY <1>4, <2>1, <2>3 DEF IInv, LoneSave
  <2>6. CleanTableIsStored' /\ CleanSaves'
    BY <1>1, <2>3, <2>5 DEF CleanTableIsStored, CleanSaves
  <2>7. KeptIsThere'
    BY <1>3, <1>4, <2>3 DEF IInv, KeptIsThere, UnderWay
  <2> QED
    BY <1>5, <1>6, <2>4, <2>6, <2>7 DEF IInv
<1> QED
  BY <1>7, <1>8

-----------------------------------------------------------------------------
(* Theorems.                                                                *)

\* Every step keeps the invariant (app.js:649-862, 878-907, 2940-2954, 3163-3210;
\* pricing.go:130-154).
THEOREM TableInvariant == Spec => []IInv
<1>1. ASSUME IInv, [Next]_vars
      PROVE  IInv'
  <2>1. CASE Add \/ EditModel \/ EditPrice \/ \E i \in DOMAIN rows : RemoveRow(i) \/ CloneRow(i)
    BY <1>1, <2>1, RowsKeep
  <2>2. CASE AutoFill \/ \E file \in Files, mode \in {"merge", "replace"} : Import(file, mode)
    BY <1>1, <2>2, BulkKeeps
  <2>3. CASE (\E i \in DOMAIN rows : OpenPicker(i)) \/ ClosePicker \/ \E m \in offered : Pick(m)
    BY <1>1, <2>3, PickerKeeps
  <2>4. CASE Reload
    BY <1>1, <2>4, ReloadKeeps
  <2>5. CASE LoadRead \/ LoadFailed \/ StrayRead \/ StrayAnswered
    BY <1>1, <2>5, LoadsKeep
  <2>6. CASE LoadAnswered
    BY <1>1, <2>6, LoadAnsweredKeeps
  <2>7. CASE \E s \in Slots : \/ SavePrices(s) \/ SaveApplied(s) \/ SaveListed(s)
                              \/ SaveAnswered(s) \/ SaveFailed(s)
    BY <1>1, <2>7, SavePricesKeeps, SaveAppliedKeeps, SaveListedKeeps, SaveEndsKeeps
  <2>8. CASE UNCHANGED vars
    <3>1. /\ UNCHANGED <<rows, known, picker, offered, load, stray, saves, stored, clean, kept>>
          /\ UNCHANGED requests
      BY <2>8 DEF vars, requests
    <3>2. picker' \in DOMAIN rows' \cup {Closed, Gone} /\ offered' \subseteq Names
      BY <1>1, <3>1 DEF IInv, Typed
    <3> QED
      BY <1>1, <3>1, <3>2, TableStays
  <2> QED
    BY <1>1, <2>1, <2>2, <2>3, <2>4, <2>5, <2>6, <2>7, <2>8 DEF Next
<1> QED
  BY <1>1, InvInit, PTL DEF Spec

\* A table that nobody edited since one lone request filled it is what the server stores,
\* for any names, files, prices, rows and saves under way (app.js:2940-2954, 3163-3171).
THEOREM TableCorrect == Spec => []TableIsHonest
<1>1. ASSUME IInv
      PROVE  TableIsHonest
  <2>1. \A i \in DOMAIN rows : rows[i] \in [model : Names \cup {Blank}, price : 0..(MaxPrice + 1)]
    <3>1. \A i \in DOMAIN rows : rows[i] \in Rows
      BY <1>1 DEF IInv, Typed
    <3> QED
      BY <3>1 DEF Rows
  <2>2. \A s \in UnderWay : saves[s].stage \in {"sent", "applied", "refused", "listed"}
    BY <1>1 DEF IInv, Typed, Saves, UnderWay
  <2> QED
    BY <1>1, <2>1, <2>2 DEF IInv, Typed, TableIsHonest, TypeOK
<1> QED
  BY <1>1, TableInvariant, PTL

\* A save deletes no price the table had shown unless the user dropped it there, or a merge
\* folded it (app.js:848-851, 3163-3166; pricing.go:130-154).
THEOREM VanishCorrect == Spec => OnlyDroppedVanish
<1>1. ASSUME IInv
      PROVE  [\A s \in Slots :
                SaveApplied(s) => (DOMAIN stored \ DOMAIN stored') \cap saves[s].kept = {}]_vars
  <2> SUFFICES ASSUME NEW s \in Slots, SaveApplied(s)
               PROVE  (DOMAIN stored \ DOMAIN stored') \cap saves[s].kept = {}
    OBVIOUS
  <2>1. /\ saves[s] # Idle /\ saves[s].stage = "sent"
        /\ DOMAIN stored' = NamesIn(saves[s].list) \/ stored' = stored
    BY DEF SaveApplied
  <2>2. saves[s].kept \subseteq NamesIn(saves[s].list)
    BY <1>1, <2>1 DEF IInv, KeptIsThere, UnderWay
  <2> QED
    BY <2>1, <2>2
<1> QED
  BY <1>1, TableInvariant, PTL DEF OnlyDroppedVanish

\* A merge and the auto fill put no name twice into a table that had each once
\* (app.js:848-851, 3185-3210; pricing.go:49-58).
THEOREM SavableCorrect == Spec => SavableStays
<1>1. ASSUME IInv
      PROVE  [Distinct(TablePrices) /\ (AutoFill \/ \E f \in Files : Import(f, "merge"))
                => Distinct(TablePrices')]_vars
  <2>1. rows \in Seq(Rows)
    BY <1>1 DEF IInv, Typed
  <2>2. ASSUME NEW f \in Files, Import(f, "merge")
        PROVE  Distinct(TablePrices')
    <3>1. rows' = RowsFor(Merged(f))
      BY <2>2 DEF Import, Put
    <3>2. f \in Seq(NamedRows)
      BY PriceTableAssumption DEF NamedRows
    <3>3. Merged(f) \in Seq(NamedRows) /\ Distinct(Merged(f))
      BY <2>1, <3>2, MergedIs
    <3>4. TablePrices' = Merged(f)
      BY <3>1, <3>3, RowsForIs DEF TablePrices
    <3> QED
      BY <3>3, <3>4
  <2>3. ASSUME AutoFill, Distinct(TablePrices)
        PROVE  Distinct(TablePrices')
    <3> DEFINE fill == [i \in DOMAIN Sorted(Discovered) |-> Row(Sorted(Discovered)[i], 0)]
               join == rows \o fill
    <3>1. rows' = join
      BY <2>3 DEF AutoFill, Put
    <3>2. /\ fill \in Seq(NamedRows)
          /\ \A i \in DOMAIN fill : fill[i].model \in Discovered
          /\ \A i, j \in DOMAIN fill : fill[i].model = fill[j].model => i = j
      BY <2>1, FillIs
    <3>3. fill \in Seq(Rows)
      BY <3>2, RowsForIs
    <3> HIDE DEF fill
    <3>4. /\ join \in Seq(Rows)
          /\ \A j \in DOMAIN rows : j \in DOMAIN join /\ join[j] = rows[j]
          /\ \A j \in DOMAIN fill : Len(rows) + j \in DOMAIN join /\ join[Len(rows) + j] = fill[j]
          /\ \A j \in DOMAIN join : j \in DOMAIN rows \/ \E k \in DOMAIN fill : j = Len(rows) + k
      BY <2>1, <3>3, JoinIs
    <3> HIDE DEF join
    <3>5. \A i, j \in DOMAIN rows : rows[i].model # Blank /\ rows[i].model = rows[j].model => i = j
      BY <2>1, <2>3, FilledIs DEF TablePrices
    <3>6. ASSUME NEW i \in DOMAIN rows, NEW j \in DOMAIN fill
          PROVE  rows[i].model # Blank => rows[i].model # fill[j].model
      BY <3>2 DEF Discovered, NamesIn
    <3>7. ASSUME NEW i \in DOMAIN join, NEW j \in DOMAIN join,
                 join[i].model # Blank, join[i].model = join[j].model
          PROVE  i = j
      <4>1. CASE i \in DOMAIN rows /\ j \in DOMAIN rows
        BY <3>4, <3>5, <3>7, <4>1
      <4>2. CASE i \in DOMAIN rows /\ \E k \in DOMAIN fill : j = Len(rows) + k
        <5>1. PICK k \in DOMAIN fill : j = Len(rows) + k
          BY <4>2
        <5>2. join[i] = rows[i] /\ join[j] = fill[k]
          BY <3>4, <4>2, <5>1
        <5> QED
          BY <3>6, <3>7, <4>2, <5>2
      <4>3. CASE j \in DOMAIN rows /\ \E k \in DOMAIN fill : i = Len(rows) + k
        <5>1. PICK k \in DOMAIN fill : i = Len(rows) + k
          BY <4>3
        <5>2. join[j] = rows[j] /\ join[i] = fill[k]
          BY <3>4, <4>3, <5>1
        <5> QED
          BY <3>6, <3>7, <4>3, <5>2
      <4>4. CASE (\E k \in DOMAIN fill : i = Len(rows) + k) /\ \E k \in DOMAIN fill : j = Len(rows) + k
        <5>1. PICK k \in DOMAIN fill, l \in DOMAIN fill : i = Len(rows) + k /\ j = Len(rows) + l
          BY <4>4
        <5>2. join[i] = fill[k] /\ join[j] = fill[l]
          BY <3>4, <5>1
        <5>3. k = l
          BY <3>2, <3>7, <5>2
        <5> QED
          BY <5>1, <5>3
      <4> QED
        BY <3>4, <4>1, <4>2, <4>3, <4>4
    <3>8. Distinct(Filled(join))
      BY <3>4, <3>7, FilledIs
    <3> QED
      BY <3>1, <3>8 DEF TablePrices
  <2> QED
    BY <2>2, <2>3
<1> QED
  BY <1>1, TableInvariant, PTL DEF SavableStays
=============================================================================
