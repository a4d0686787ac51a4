--------------------------- MODULE ReadCacheProofs ---------------------------
(***************************************************************************)
(* The read cache for any requests, keys, body sizes and limits.  Entries: *)
(* the bytes counted are those stored, whatever is replaced, expires or is *)
(* evicted.  Flights: the loader of a key is the one that inflight names.  *)
(* Versions: what is stored, or loaded in the current generation, is not   *)
(* older than the commit the last clear() followed.                        *)
(***************************************************************************)
EXTENDS ReadCache, FiniteSetTheorems, FunctionTheorems, SequenceTheorems, WellFoundedInduction, TLAPS

\* A nonempty set of naturals has a least element.
LEMMA LeastElement ==
  ASSUME NEW S \in SUBSET Nat, S # {}
  PROVE  \E n \in S : \A m \in S : n <= m
<1> DEFINE R == {ss \in Nat \X Nat : ss[1] < ss[2]}
<1>1. \A m, n \in Nat : m < n => <<m, n>> \in R
  OBVIOUS
<1>2. IsWellFoundedOn(R, Nat)
  BY NatLessThanWellFounded DEF OpToRel
<1>3. \E x \in S : \A y \in S : ~ (<<y, x>> \in R)
  BY <1>2, WFMin
<1> HIDE DEF R
<1>4. PICK n \in S : \A y \in S : ~ (<<y, n>> \in R)
  BY <1>3
<1>5. \A m \in S : ~ (m < n)
  BY <1>1, <1>4
<1> QED
  BY <1>5
-----------------------------------------------------------------------------
(* Sequences of different keys.                                            *)

Distinct(keys) == \A i, j \in 1..Len(keys) : keys[i] = keys[j] => i = j

\* Removing a key leaves the others, once each.
LEMMA WithoutKey ==
  ASSUME order \in Seq(Keys), Distinct(order), NEW k \in Keys
  PROVE  /\ Without(k) \in Seq(Keys) /\ Distinct(Without(k))
         /\ ToSet(Without(k)) = Cached \ {k}
         /\ Len(Without(k)) = IF k \in Cached THEN Len(order) - 1 ELSE Len(order)
<1>1. CASE k \notin Cached
  BY <1>1 DEF Without, Cached
<1>2. CASE k \in Cached
  <2> DEFINE i == CHOOSE j \in DOMAIN order : order[j] = k
  <2> DEFINE s == RemoveAt(order, i)
  <2>1. i \in 1..Len(order) /\ order[i] = k
    BY <1>2 DEF Cached, ToSet
  <2> HIDE DEF i
  <2>2. /\ s \in Seq(Keys) /\ Len(s) = Len(order) - 1
        /\ \A j \in 1..(i - 1) : s[j] = order[j]
        /\ \A j \in i..(Len(order) - 1) : s[j] = order[j + 1]
    <3> DEFINE before == SubSeq(order, 1, i - 1)
               after == SubSeq(order, i + 1, Len(order))
    <3>1. /\ before \in Seq(Keys) /\ Len(before) = i - 1
          /\ \A j \in 1..(i - 1) : before[j] = order[j]
      BY <2>1
    <3>2. /\ after \in Seq(Keys) /\ Len(after) = Len(order) - i
          /\ \A j \in 1..(Len(order) - i) : after[j] = order[i + j]
      BY <2>1
    <3>3. s = before \o after
      BY DEF RemoveAt
    <3> HIDE DEF before, after, s
    <3>4. /\ s \in Seq(Keys) /\ Len(s) = Len(before) + Len(after)
          /\ \A j \in 1..Len(before) : s[j] = before[j]
          /\ \A j \in 1..Len(after) : s[Len(before) + j] = after[j]
      <4>0. Len(before) \in Nat /\ Len(after) \in Nat
        BY <3>1, <3>2
      <4>1. \A h \in 1..Len(after) :
                /\ Len(before) + h \in 1..(Len(before) + Len(after))
                /\ ~(Len(before) + h <= Len(before)) /\ (Len(before) + h) - Len(before) = h
        BY <4>0
      <4>2. \A h \in 1..Len(before) : h \in 1..(Len(before) + Len(after)) /\ h <= Len(before)
        BY <4>0
      <4>3. /\ s \in Seq(Keys) /\ Len(s) = Len(before) + Len(after)
              /\ \A h \in 1..(Len(before) + Len(after)) :
                    s[h] = IF h <= Len(before) THEN before[h] ELSE after[h - Len(before)]
        BY <3>1, <3>2, <3>3, ConcatProperties
      <4> QED
        BY <4>1, <4>2, <4>3
    <3>5. Len(s) = Len(order) - 1 /\ i \in Nat /\ Len(order) \in Nat
      BY <2>1, <3>1, <3>2, <3>4
    <3>6. \A j \in 1..(i - 1) : s[j] = order[j]
      BY <3>1, <3>4
    <3>7. ASSUME NEW j \in i..(Len(order) - 1) PROVE s[j] = order[j + 1]
      <4>1. PICK h \in 1..Len(after) : Len(before) + h = j /\ i + h = j + 1
        <5>1. j - (i - 1) \in 1..Len(after)
          BY <2>1, <3>1, <3>2, <3>5
        <5> QED
          BY <3>1, <3>5, <5>1
      <4>2. s[Len(before) + h] = after[h] /\ after[h] = order[i + h]
        BY <3>2, <3>4
      <4> QED
        BY <4>1, <4>2
    <3> QED
      BY <3>4, <3>5, <3>6, <3>7
  <2> HIDE DEF s
  <2>3. Distinct(s)
    BY <2>1, <2>2 DEF Distinct
  <2>4. ToSet(s) \subseteq Cached \ {k}
    BY <2>1, <2>2 DEF Distinct, ToSet, Cached
  <2>5. ASSUME NEW x \in Cached \ {k} PROVE x \in ToSet(s)
    <3>1. PICK j \in 1..Len(order) : order[j] = x
      BY <2>5 DEF Cached, ToSet
    <3>2. CASE j < i
      BY <2>1, <2>2, <3>1, <3>2 DEF ToSet
    <3>3. CASE j > i
      <4>1. j - 1 \in 1..Len(s) /\ s[j - 1] = x
        BY <2>1, <2>2, <3>1, <3>3
      <4> QED
        BY <4>1, <2>2 DEF ToSet
    <3> QED
      BY <2>1, <3>1, <3>2, <3>3
  <2>6. Without(k) = s
    BY <1>2 DEF Without, s, i
  <2> QED
    BY <1>2, <2>2, <2>3, <2>4, <2>5, <2>6
<1> QED
  BY <1>1, <1>2

\* Appending a new key.
LEMMA WithKey ==
  ASSUME NEW keys \in Seq(Keys), Distinct(keys), NEW k \in Keys \ ToSet(keys)
  PROVE  /\ Append(keys, k) \in Seq(Keys) /\ Distinct(Append(keys, k))
         /\ ToSet(Append(keys, k)) = ToSet(keys) \cup {k}
         /\ Len(Append(keys, k)) = Len(keys) + 1
<1> DEFINE s == Append(keys, k)
<1>1. /\ s \in Seq(Keys) /\ Len(s) = Len(keys) + 1
      /\ \A i \in 1..Len(keys) : s[i] = keys[i]
      /\ s[Len(keys) + 1] = k
  OBVIOUS
<1> HIDE DEF s
<1>2. Distinct(s)
  BY <1>1 DEF Distinct, ToSet
<1>3. ToSet(s) = ToSet(keys) \cup {k}
  <2>1. ToSet(s) \subseteq ToSet(keys) \cup {k}
    BY <1>1 DEF ToSet
  <2>2. k \in ToSet(s) /\ ToSet(keys) \subseteq ToSet(s)
    BY <1>1 DEF ToSet
  <2> QED
    BY <2>1, <2>2
<1> QED
  BY <1>1, <1>2, <1>3 DEF s

\* Cutting a sequence of different keys splits their set.
LEMMA CutKeys ==
  ASSUME NEW keys \in Seq(Keys), Distinct(keys), NEW n \in 0..Len(keys)
  PROVE  LET old == SubSeq(keys, 1, n)  new == SubSeq(keys, n + 1, Len(keys)) IN
         /\ old \in Seq(Keys) /\ new \in Seq(Keys) /\ Distinct(old) /\ Distinct(new)
         /\ Len(old) = n /\ Len(new) = Len(keys) - n
         /\ ToSet(old) \cap ToSet(new) = {}
         /\ ToSet(old) \cup ToSet(new) = ToSet(keys)
<1> DEFINE old == SubSeq(keys, 1, n)
           new == SubSeq(keys, n + 1, Len(keys))
<1>1. /\ old \in Seq(Keys) /\ Len(old) = n
      /\ new \in Seq(Keys) /\ Len(new) = Len(keys) - n
      /\ \A i \in 1..n : old[i] = keys[i]
      /\ \A i \in 1..(Len(keys) - n) : new[i] = keys[n + i]
  OBVIOUS
<1> HIDE DEF old, new
<1>2. Distinct(old) /\ Distinct(new)
  <2>1. Len(keys) \in Nat /\ n \in Nat
    OBVIOUS
  <2>2. \A i \in 1..Len(new) : n + i \in 1..Len(keys)
    BY <1>1, <2>1
  <2>3. \A i \in 1..Len(old) : i \in 1..Len(keys)
    BY <1>1, <2>1
  <2>4. Distinct(old)
    BY <1>1, <2>3 DEF Distinct
  <2>5. Distinct(new)
    <3> SUFFICES ASSUME NEW i \in 1..Len(new), NEW j \in 1..Len(new), new[i] = new[j]
                 PROVE  i = j
      BY DEF Distinct
    <3>1. keys[n + i] = keys[n + j] /\ n + i \in 1..Len(keys) /\ n + j \in 1..Len(keys)
      BY <1>1, <2>2
    <3>2. n + i = n + j
      BY <3>1 DEF Distinct
    <3> QED
      BY <2>1, <3>2
  <2> QED
    BY <2>4, <2>5
<1>3. ToSet(old) \cap ToSet(new) = {}
  <2> SUFFICES ASSUME NEW i \in 1..Len(old), NEW j \in 1..Len(new), old[i] = new[j]
               PROVE  FALSE
    BY <1>1 DEF ToSet
  <2>1. /\ i \in 1..Len(keys) /\ n + j \in 1..Len(keys) /\ i # n + j
        /\ keys[i] = keys[n + j]
    BY <1>1
  <2> QED
    BY <2>1 DEF Distinct
<1>4. ToSet(old) \cup ToSet(new) = ToSet(keys)
  <2>1. ToSet(old) \subseteq ToSet(keys) /\ ToSet(new) \subseteq ToSet(keys)
    <3>1. ASSUME NEW i \in 1..Len(old) PROVE old[i] \in ToSet(keys)
      BY <1>1, <3>1 DEF ToSet
    <3>2. ASSUME NEW i \in 1..Len(new) PROVE new[i] \in ToSet(keys)
      <4>1. n + i \in 1..Len(keys) /\ new[i] = keys[n + i]
        BY <1>1, <3>2
      <4> QED
        BY <4>1 DEF ToSet
    <3> QED
      BY <1>1, <3>1, <3>2 DEF ToSet
  <2>2. ASSUME NEW i \in 1..Len(keys) PROVE keys[i] \in ToSet(old) \cup ToSet(new)
    <3>1. CASE i <= n
      BY <1>1, <3>1 DEF ToSet
    <3>2. CASE i > n
      <4>1. i - n \in 1..Len(new) /\ new[i - n] = keys[i]
        BY <1>1, <3>2
      <4> QED
        BY <1>1, <4>1 DEF ToSet
    <3> QED
      BY <3>1, <3>2
  <2>3. ToSet(keys) \subseteq ToSet(old) \cup ToSet(new)
    BY <2>2 DEF ToSet
  <2> QED
    BY <2>1, <2>3
<1> QED
  BY <1>1, <1>2, <1>3, <1>4 DEF old, new

\* The keys of a sequence are finitely many.
LEMMA KeysFinite ==
  ASSUME NEW keys \in Seq(Keys)
  PROVE  IsFiniteSet(ToSet(keys))
<1>1. keys \in Surjection(1..Len(keys), ToSet(keys))
  <2>1. DOMAIN keys = 1..Len(keys) /\ keys \in [1..Len(keys) -> ToSet(keys)]
    BY DEF ToSet
  <2>2. \A x \in ToSet(keys) : \E i \in 1..Len(keys) : keys[i] = x
    BY <2>1 DEF ToSet
  <2> QED
    BY <2>1, <2>2, Fun_IsSurj
<1> QED
  BY <1>1, FS_Interval, FS_Surjection
-----------------------------------------------------------------------------
(* Bytes.                                                                  *)

Reply == [version : Nat, size : Nat]

\* The bytes of the bodies of a set of keys.
Stock(S, bodies) == UNION {{k} \X (1..bodies[k].size) : k \in S}

\* One body has as many bytes as its size.
LEMMA StockOfOne ==
  ASSUME NEW bodies \in [Keys -> Reply], NEW k \in Keys
  PROVE  /\ IsFiniteSet({k} \X (1..bodies[k].size))
         /\ Cardinality({k} \X (1..bodies[k].size)) = bodies[k].size
<1>1. PICK n \in Nat : n = bodies[k].size
  BY DEF Reply
<1>2. /\ IsFiniteSet(1..bodies[k].size)
      /\ Cardinality(1..bodies[k].size) = bodies[k].size
  <2>1. IsFiniteSet(1..n) /\ Cardinality(1..n) = IF 1 > n THEN 0 ELSE n - 1 + 1
    BY FS_Interval
  <2>2. Cardinality(1..n) = n
    BY <2>1
  <2> QED
    BY <1>1, <2>1, <2>2
<1>3. IsFiniteSet({k}) /\ Cardinality({k}) = 1
  BY FS_Singleton
<1>4. /\ IsFiniteSet({k} \X (1..n))
      /\ Cardinality({k} \X (1..n)) = Cardinality({k}) * Cardinality(1..n)
  BY <1>1, <1>2, <1>3, FS_Product
<1>5. Cardinality({k} \X (1..n)) = n
  BY <1>1, <1>2, <1>3, <1>4
<1> QED
  BY <1>1, <1>4, <1>5

\* The bytes of finitely many bodies are finitely many.
LEMMA StockFinite ==
  ASSUME NEW S \in SUBSET Keys, IsFiniteSet(S), NEW bodies \in [Keys -> Reply]
  PROVE  IsFiniteSet(Stock(S, bodies))
<1> DEFINE T == {{k} \X (1..bodies[k].size) : k \in S}
           f == [k \in S |-> {k} \X (1..bodies[k].size)]
<1>1. f \in Surjection(S, T)
  BY Fun_IsSurj
<1>2. IsFiniteSet(T)
  <2> HIDE DEF f, T
  <2> QED
    BY <1>1, FS_Surjection
<1>3. \A t \in T : IsFiniteSet(t)
  BY StockOfOne
<1>4. IsFiniteSet(UNION T)
  <2> HIDE DEF T
  <2> QED
    BY <1>2, <1>3, FS_UNION
<1> QED
  BY <1>4 DEF Stock

\* Bodies of different keys share no byte.
LEMMA StockSplits ==
  ASSUME NEW S \in SUBSET Keys, NEW T \in SUBSET Keys, S \cap T = {},
         IsFiniteSet(S), IsFiniteSet(T), NEW bodies \in [Keys -> Reply]
  PROVE  Cardinality(Stock(S \cup T, bodies))
             = Cardinality(Stock(S, bodies)) + Cardinality(Stock(T, bodies))
<1>1. Stock(S \cup T, bodies) = Stock(S, bodies) \cup Stock(T, bodies)
  BY DEF Stock
<1>2. Stock(S, bodies) \cap Stock(T, bodies) = {}
  BY DEF Stock
<1>3. Cardinality(Stock(S, bodies) \cap Stock(T, bodies)) = 0
  BY <1>2, FS_EmptySet
<1>4. /\ IsFiniteSet(Stock(S, bodies)) /\ IsFiniteSet(Stock(T, bodies))
      /\ Cardinality(Stock(S, bodies)) \in Nat /\ Cardinality(Stock(T, bodies)) \in Nat
  BY StockFinite, FS_CardinalityType
<1>5. Cardinality(Stock(S, bodies) \cup Stock(T, bodies))
          = Cardinality(Stock(S, bodies)) + Cardinality(Stock(T, bodies))
                - Cardinality(Stock(S, bodies) \cap Stock(T, bodies))
  BY <1>4, FS_Union
<1> DEFINE a == Cardinality(Stock(S, bodies))
           b == Cardinality(Stock(T, bodies))
<1>6. Cardinality(Stock(S \cup T, bodies)) = a + b - 0
  BY <1>1, <1>3, <1>5
<1>7. a \in Nat /\ b \in Nat
  BY <1>4
<1>8. a + b - 0 = a + b
  <2> HIDE DEF a, b
  <2> QED
    BY <1>7
<1> QED
  BY <1>6, <1>8

\* One more body adds its size.
LEMMA StockGrows ==
  ASSUME NEW S \in SUBSET Keys, IsFiniteSet(S), NEW k \in Keys \ S,
         NEW bodies \in [Keys -> Reply]
  PROVE  Cardinality(Stock(S \cup {k}, bodies)) = Cardinality(Stock(S, bodies)) + bodies[k].size
<1>1. Stock({k}, bodies) = {k} \X (1..bodies[k].size)
  BY DEF Stock
<1>2. IsFiniteSet({k})
  BY FS_Singleton
<1>3. Cardinality(Stock(S \cup {k}, bodies))
          = Cardinality(Stock(S, bodies)) + Cardinality(Stock({k}, bodies))
  BY <1>2, StockSplits
<1> QED
  BY <1>1, <1>3, StockOfOne

\* Only the bodies of the keys count.
LEMMA StockDepends ==
  ASSUME NEW S \in SUBSET Keys, NEW b \in [Keys -> Reply], NEW c \in [Keys -> Reply],
         \A k \in S : b[k] = c[k]
  PROVE  Stock(S, b) = Stock(S, c)
BY DEF Stock

\* What Weight counts.
LEMMA WeightIsStock ==
  ASSUME NEW keys, NEW bodies
  PROVE  Weight(keys, bodies) = Cardinality(Stock(ToSet(keys), bodies))
BY DEF Weight, BytesOf, Stock

\* Evictions stops where the rest fits, at the latest with an empty rest.
LEMMA EvictionsFit ==
  ASSUME NEW keys \in Seq(Keys), NEW bodies \in [Keys -> Reply]
  PROVE  LET n == Evictions(keys, bodies) IN
         n \in 0..Len(keys) /\ Fits(SubSeq(keys, n + 1, Len(keys)), bodies)
<1> DEFINE Rest(n) == SubSeq(keys, n + 1, Len(keys))
           Stops == {n \in 0..Len(keys) : Fits(Rest(n), bodies)}
<1>1. Fits(Rest(Len(keys)), bodies)
  <2>1. Rest(Len(keys)) = <<>> /\ Len(Rest(Len(keys))) = 0
    OBVIOUS
  <2>2. Stock(ToSet(<<>>), bodies) = {}
    BY DEF Stock, ToSet
  <2>3. Weight(Rest(Len(keys)), bodies) = 0
    BY <2>1, <2>2, WeightIsStock, FS_EmptySet
  <2> QED
    BY <2>1, <2>3, CacheAssumption DEF Fits
<1>2. PICK n \in Stops : \A m \in Stops : n <= m
  <2>1. Len(keys) \in Stops /\ Stops \subseteq Nat
    BY <1>1
  <2> QED
    BY <2>1, LeastElement
<1>3. \A m \in 0..(n - 1) : ~Fits(Rest(m), bodies)
  <2> SUFFICES ASSUME NEW m \in 0..(n - 1), Fits(Rest(m), bodies) PROVE FALSE
    OBVIOUS
  <2>1. n \in 0..Len(keys) /\ m \in 0..Len(keys) /\ ~(n <= m)
    OBVIOUS
  <2> QED
    BY <1>2, <2>1
<1>4. \E m \in 0..Len(keys) :
          Fits(Rest(m), bodies) /\ \A l \in 0..(m - 1) : ~Fits(Rest(l), bodies)
  BY <1>2, <1>3
<1> QED
  BY <1>4 DEF Evictions
-----------------------------------------------------------------------------
(* Entries.                                                                *)

\* The map and its bookkeeping: no key twice, no body without an entry, the bytes counted
\* are those stored, and both limits hold.
Entries ==
    /\ order \in Seq(Keys) /\ Distinct(order) /\ expired \subseteq Cached
    /\ body \in [Keys -> Reply] /\ \A k \in Keys \ Cached : body[k] = NoReply
    /\ bytes = Weight(order, body)
    /\ Len(order) <= MaxItems /\ bytes <= MaxBytes

\* What is counted without the body of k, whether or not there is one.
LEMMA BytesWithout ==
  ASSUME Entries, NEW k \in Keys
  PROVE  /\ IsFiniteSet(Cached) /\ Cached \in SUBSET Keys /\ bytes \in Nat
         /\ body[k].size \in Nat
         /\ Cardinality(Stock(Cached \ {k}, body)) \in Nat
         /\ bytes = Cardinality(Stock(Cached \ {k}, body)) + body[k].size
<1> USE DEF Entries
<1>1. IsFiniteSet(Cached) /\ Cached \in SUBSET Keys
  BY KeysFinite DEF Cached, ToSet
<1>2. /\ IsFiniteSet(Cached \ {k}) /\ IsFiniteSet(Stock(Cached, body))
      /\ IsFiniteSet(Stock(Cached \ {k}, body))
  BY <1>1, FS_RemoveElement, StockFinite
<1>3. bytes = Cardinality(Stock(Cached, body)) /\ bytes \in Nat
  BY <1>2, WeightIsStock, FS_CardinalityType DEF Cached
<1>4. body[k].size \in Nat /\ Cardinality(Stock(Cached \ {k}, body)) \in Nat
  BY <1>2, FS_CardinalityType DEF Reply
<1>5. CASE k \in Cached
  <2>1. (Cached \ {k}) \cup {k} = Cached
    BY <1>5
  <2>2. Cardinality(Stock((Cached \ {k}) \cup {k}, body))
            = Cardinality(Stock(Cached \ {k}, body)) + body[k].size
    BY <1>1, <1>2, StockGrows
  <2> QED
    BY <1>1, <1>3, <1>4, <2>1, <2>2
<1>6. CASE k \notin Cached
  <2>1. Cached \ {k} = Cached /\ body[k].size = 0
    BY <1>6 DEF NoReply
  <2>2. bytes = Cardinality(Stock(Cached \ {k}, body))
    BY <1>3, <2>1
  <2>3. bytes = Cardinality(Stock(Cached \ {k}, body)) + body[k].size
    BY <1>4, <2>1, <2>2
  <2> QED
    BY <1>1, <1>3, <1>4, <2>3
<1> QED
  BY <1>5, <1>6

\* A step that leaves the entries alone.
LEMMA EntriesFrame ==
  ASSUME Entries, UNCHANGED <<order, body, bytes>>, expired' \subseteq Cached
  PROVE  Entries' /\ Cached' = Cached
<1>1. Cached' = Cached /\ Distinct(order)' /\ Distinct(order) /\ order' = order /\ body' = body
  BY DEF Cached, Distinct, Entries
<1>2. Weight(order, body)' = Weight(order, body)
  BY <1>1 DEF Weight, BytesOf
<1> QED
  BY <1>1, <1>2 DEF Entries

\* removeLocked
LEMMA RemoveKeeps ==
  ASSUME Entries, NEW k \in Keys, Remove1(k)
  PROVE  Entries' /\ Cached' = Cached \ {k}
<1>1. /\ order' = Without(k) /\ body' = [body EXCEPT ![k] = NoReply]
      /\ expired' = expired \ {k} /\ bytes' = bytes - body[k].size
  BY DEF Remove1
<1>2. /\ order' \in Seq(Keys) /\ Distinct(order)' /\ Cached' = Cached \ {k}
      /\ Len(order') <= Len(order)
  BY <1>1, WithoutKey DEF Entries, Distinct, Cached
<1>3. body' \in [Keys -> Reply] /\ \A x \in Keys \ Cached' : body'[x] = NoReply
  BY <1>1, <1>2 DEF Entries, Reply, NoReply
<1>4. bytes' = Cardinality(Stock(Cached \ {k}, body)) /\ bytes' <= bytes
  <2>1. /\ bytes = Cardinality(Stock(Cached \ {k}, body)) + body[k].size
        /\ Cardinality(Stock(Cached \ {k}, body)) \in Nat /\ body[k].size \in Nat
    BY BytesWithout
  <2> QED
    BY <1>1, <2>1
<1>5. Stock(Cached \ {k}, body) = Stock(Cached', body')
  BY <1>1, <1>2, <1>3, StockDepends, BytesWithout DEF Entries
<1>6. bytes' = Weight(order', body')
  BY <1>4, <1>5, WeightIsStock DEF Cached
<1>7. Len(order') <= MaxItems /\ bytes' <= MaxBytes
  BY <1>2, <1>4, BytesWithout, CacheAssumption DEF Entries
<1> QED
  BY <1>1, <1>2, <1>3, <1>6, <1>7 DEF Entries

\* setOwnedLocked, for a body that is not too large by itself.
LEMMA InsertKeeps ==
  ASSUME Entries, NEW k \in Keys, NEW b \in Reply, Insert(k, b)
  PROVE  /\ Entries' /\ Cached' \subseteq Cached \cup {k}
         /\ \A x \in Cached' : body'[x] = IF x = k THEN b ELSE body[x]
<1> DEFINE keys == Append(Without(k), k)
           bodies == [body EXCEPT ![k] = b]
           n == Evictions(keys, bodies)
           old == SubSeq(keys, 1, n)
           new == SubSeq(keys, n + 1, Len(keys))
<1>1. /\ order' = new /\ expired' = expired \ (ToSet(old) \cup {k})
      /\ body' = [x \in Keys |-> IF x \in ToSet(old) THEN NoReply ELSE bodies[x]]
      /\ bytes' = bytes - body[k].size + b.size - Weight(old, bodies)
  BY DEF Insert
<1>2. /\ keys \in Seq(Keys) /\ Distinct(keys)
      /\ ToSet(keys) = (Cached \ {k}) \cup {k}
  BY WithoutKey, WithKey DEF Entries
<1>3. bodies \in [Keys -> Reply] /\ bodies[k] = b /\ \A x \in Keys \ {k} : bodies[x] = body[x]
  BY DEF Entries
<1>4. n \in 0..Len(keys) /\ Fits(new, bodies)
  BY <1>2, <1>3, EvictionsFit
<1>5. /\ old \in Seq(Keys) /\ new \in Seq(Keys) /\ Distinct(new)
      /\ ToSet(old) \cap ToSet(new) = {} /\ ToSet(old) \cup ToSet(new) = ToSet(keys)
  <2> HIDE DEF keys, n
  <2> QED
    BY <1>2, <1>4, CutKeys
<1> HIDE DEF keys, n, bodies, old, new
<1>6. Weight(keys, bodies) = bytes - body[k].size + b.size
  <2>1. Stock(Cached \ {k}, bodies) = Stock(Cached \ {k}, body)
    BY <1>3, BytesWithout, StockDepends DEF Entries
  <2>2. IsFiniteSet(Cached \ {k}) /\ Cached \ {k} \in SUBSET Keys
    BY BytesWithout, FS_RemoveElement
  <2>3. Cardinality(Stock((Cached \ {k}) \cup {k}, bodies))
            = Cardinality(Stock(Cached \ {k}, bodies)) + b.size
    BY <1>3, <2>2, StockGrows
  <2>4. Weight(keys, bodies) = Cardinality(Stock(Cached \ {k}, body)) + b.size
    BY <1>2, <2>1, <2>3, WeightIsStock
  <2>5. /\ bytes = Cardinality(Stock(Cached \ {k}, body)) + body[k].size
        /\ Cardinality(Stock(Cached \ {k}, body)) \in Nat /\ body[k].size \in Nat
    BY BytesWithout
  <2>6. b.size \in Nat
    BY DEF Reply
  <2> QED
    BY <2>4, <2>5, <2>6
<1>7. /\ Weight(keys, bodies) = Weight(old, bodies) + Weight(new, bodies)
      /\ Weight(old, bodies) \in Nat /\ Weight(new, bodies) \in Nat
  <2>1. /\ IsFiniteSet(ToSet(old)) /\ IsFiniteSet(ToSet(new))
        /\ ToSet(old) \in SUBSET Keys /\ ToSet(new) \in SUBSET Keys
    BY <1>5, KeysFinite DEF ToSet
  <2>2. Cardinality(Stock(ToSet(old) \cup ToSet(new), bodies))
            = Cardinality(Stock(ToSet(old), bodies)) + Cardinality(Stock(ToSet(new), bodies))
    BY <1>3, <1>5, <2>1, StockSplits
  <2>3. /\ Cardinality(Stock(ToSet(old), bodies)) \in Nat
        /\ Cardinality(Stock(ToSet(new), bodies)) \in Nat
    BY <1>3, <2>1, StockFinite, FS_CardinalityType
  <2> QED
    BY <1>5, <2>2, <2>3, WeightIsStock
<1>8. bytes' = Weight(new, bodies)
  <2>1. bytes' = Weight(keys, bodies) - Weight(old, bodies)
    <3>1. bytes \in Nat /\ body[k].size \in Nat /\ b.size \in Nat
      BY BytesWithout DEF Reply
    <3> QED
      BY <1>1, <1>6, <1>7, <3>1
  <2> QED
    BY <1>7, <2>1
<1>9. Cached' = ToSet(new)
  BY <1>1 DEF Cached
<1>10. \A x \in Cached' : body'[x] = bodies[x]
  <2>1. ToSet(new) \in SUBSET Keys
    BY <1>5 DEF ToSet
  <2> QED
    BY <1>1, <1>5, <1>9, <2>1
<1>11. body' \in [Keys -> Reply] /\ \A x \in Keys \ Cached' : body'[x] = NoReply
  BY <1>1, <1>2, <1>3, <1>5, <1>9 DEF Entries, Reply, NoReply
<1>12. bytes' = Weight(order', body')
  <2>1. ToSet(new) \in SUBSET Keys
    BY <1>5 DEF ToSet
  <2>2. Stock(ToSet(new), bodies) = Stock(ToSet(new), body')
    BY <1>3, <1>9, <1>10, <1>11, <2>1, StockDepends
  <2> QED
    BY <1>1, <1>8, <2>2, WeightIsStock
<1>13. Len(order') <= MaxItems /\ bytes' <= MaxBytes
  BY <1>1, <1>4, <1>8 DEF Fits
<1>14. expired' \subseteq Cached'
  BY <1>1, <1>2, <1>5, <1>9 DEF Entries
<1>15. Distinct(order)'
  BY <1>1, <1>5 DEF Distinct
<1>16. Cached' \subseteq Cached \cup {k}
  BY <1>2, <1>5, <1>9
<1>17. \A x \in Cached' : body'[x] = IF x = k THEN b ELSE body[x]
  BY <1>3, <1>10, <1>16, BytesWithout
<1> QED
  BY <1>1, <1>5, <1>11, <1>12, <1>13, <1>14, <1>15, <1>16, <1>17 DEF Entries

\* A hit moves its key to the end of the order.
LEMMA TouchKeeps ==
  ASSUME Entries, NEW k \in Cached, order' = Append(Without(k), k),
         UNCHANGED <<body, expired, bytes>>
  PROVE  Entries' /\ Cached' = Cached
<1>1. k \in Keys
  BY DEF Entries, Cached, ToSet
<1>2. /\ order' \in Seq(Keys) /\ Distinct(order)' /\ ToSet(order') = Cached
      /\ Len(order') = Len(order)
  <2>1. /\ Without(k) \in Seq(Keys) /\ Distinct(Without(k))
        /\ ToSet(Without(k)) = Cached \ {k} /\ Len(Without(k)) = Len(order) - 1
    BY <1>1, WithoutKey DEF Entries
  <2>2. /\ order' \in Seq(Keys) /\ Distinct(order') /\ ToSet(order') = (Cached \ {k}) \cup {k}
        /\ Len(order') = Len(Without(k)) + 1
    BY <1>1, <2>1, WithKey
  <2>3. Len(order) \in Nat
    BY DEF Entries
  <2> QED
    BY <2>1, <2>2, <2>3 DEF Distinct
<1>3. Weight(order', body') = Weight(order, body)
  BY <1>2, WeightIsStock DEF Cached
<1> QED
  BY <1>2, <1>3 DEF Entries, Cached
-----------------------------------------------------------------------------
(* Requests.                                                               *)

\* The types the steps rely on.
Typed ==
    /\ rpc \in [Readers -> {"idle", "acquire", "wait", "load", "finish", "done"}]
    /\ key \in [Readers -> Keys \cup {None}] /\ \A r \in Readers : rpc[r] # "idle" => key[r] \in Keys
    /\ gen \in [Readers -> Nat] /\ leader \in [Readers -> Readers \cup {None}]
    /\ reply \in [Readers -> Reply] /\ floor \in [Readers -> Nat]
    /\ inflight \in [Keys -> Readers \cup {None}]
    /\ generation \in Nat /\ version \in Nat /\ published \in Nat

\* A load is the flight of its key, a flight is a load of its key, which has no entry, and
\* who waits does so for a load of the same key or one that is over.
Flights ==
    /\ \A r \in Readers : rpc[r] \in {"load", "finish"} => inflight[key[r]] = r
    /\ \A k \in Keys : inflight[k] # None =>
          k \notin Cached /\ rpc[inflight[k]] \in {"load", "finish"} /\ key[inflight[k]] = k
    /\ \A r \in Readers : rpc[r] = "wait" =>
          /\ leader[r] \in Readers /\ key[leader[r]] = key[r]
          /\ rpc[leader[r]] \in {"load", "finish", "done"}

\* Entries, and answers loaded in the present generation, are not older than the commit the
\* last clear() followed; no answer is older than the one followed before its request began.
Versions ==
    /\ published <= version
    /\ \A k \in Cached : body[k].version >= published
    /\ \A r \in Readers :
          /\ floor[r] <= published /\ gen[r] <= generation
          /\ rpc[r] \notin {"finish", "done"} => reply[r] = NoReply
          /\ rpc[r] \in {"finish", "done"} /\ reply[r] # NoReply => reply[r].version >= floor[r]
          /\ rpc[r] = "finish" /\ gen[r] = generation /\ reply[r] # NoReply =>
                reply[r].version >= published

IInv == Entries /\ Typed /\ Flights /\ Versions

\* The look-up drops an expired entry and nothing else.
LEMMA DropKeeps ==
  ASSUME Entries, NEW k \in Keys, k \notin Cached \ expired, DropExpired(k)
  PROVE  /\ Entries' /\ Cached' = Cached \ {k}
         /\ \A x \in Cached' : body'[x] = body[x]
<1>1. CASE k \in expired
  <2>1. Remove1(k)
    BY <1>1 DEF DropExpired
  <2>2. Entries' /\ Cached' = Cached \ {k}
    BY <2>1, RemoveKeeps
  <2>3. body' = [body EXCEPT ![k] = NoReply] /\ body \in [Keys -> Reply] /\ Cached \subseteq Keys
    BY <2>1, BytesWithout DEF Remove1, Entries
  <2> QED
    BY <2>2, <2>3
<1>2. CASE k \notin expired
  <2>1. UNCHANGED <<order, body, expired, bytes>> /\ k \notin Cached
    BY <1>2 DEF DropExpired
  <2> QED
    BY <2>1, EntriesFrame DEF Entries
<1> QED
  BY <1>1, <1>2

\* Steps that leave the entries alone.
LEMMA RequestKeeps ==
  ASSUME IInv, NEW r \in Readers, Query(r) \/ Wake(r) \/ \E k \in Keys : Start(r, k)
  PROVE  IInv'
<1> USE DEF IInv
<1>1. Entries' /\ Cached' = Cached /\ UNCHANGED <<body, inflight, generation, version, published>>
  <2>1. UNCHANGED <<order, body, expired, bytes, inflight, generation, version, published>>
    BY DEF Query, Wake, Start, cacheVars, dataVars
  <2> QED
    BY <2>1, EntriesFrame DEF Entries
<1>2. CASE \E k \in Keys : Start(r, k)
  <2>1. Typed'
    BY <1>2 DEF Start, cacheVars, dataVars, Typed
  <2>2. Flights'
    BY <1>1, <1>2 DEF Start, Typed, Flights
  <2>3. Versions'
    BY <1>1, <1>2 DEF Start, Typed, Versions
  <2> QED
    BY <1>1, <2>1, <2>2, <2>3
<1>3. CASE Query(r)
  <2>1. Typed'
    BY <1>3, CacheAssumption DEF Query, cacheVars, dataVars, Typed, Reply
  <2>2. Flights'
    BY <1>1, <1>3 DEF Query, Typed, Flights
  <2>3. Versions'
    <3>1. rpc[r] = "load" /\ reply[r] = NoReply /\ rpc' = [rpc EXCEPT ![r] = "finish"]
      BY <1>3 DEF Query, Versions
    <3>2. UNCHANGED <<gen, floor>>
      BY <1>3 DEF Query
    <3>3. CASE UNCHANGED reply
      BY <1>1, <3>1, <3>2, <3>3 DEF Typed, Versions
    <3>4. CASE \E n \in Sizes : reply' = [reply EXCEPT ![r] = [version |-> version, size |-> n]]
      BY <1>1, <3>1, <3>2, <3>4 DEF Typed, Versions
    <3> QED
      BY <1>3, <3>3, <3>4 DEF Query
  <2> QED
    BY <1>1, <2>1, <2>2, <2>3
<1>4. CASE Wake(r)
  <2>1. Typed'
    BY <1>4 DEF Wake, cacheVars, dataVars, Typed
  <2>2. Flights'
    BY <1>1, <1>4 DEF Wake, Typed, Flights
  <2>3. Versions'
    BY <1>1, <1>4 DEF Wake, Typed, Versions
  <2> QED
    BY <1>1, <2>1, <2>2, <2>3
<1> QED
  BY <1>2, <1>3, <1>4

\* acquire
LEMMA AcquireKeeps ==
  ASSUME IInv, NEW r \in Readers, Hit(r) \/ Join(r) \/ Lead(r)
  PROVE  IInv'
<1> USE DEF IInv
<1>1. key[r] \in Keys /\ rpc[r] = "acquire"
  BY DEF Hit, Join, Lead, Typed
<1>2. CASE Hit(r)
  <2>1. Entries' /\ Cached' = Cached
    BY <1>2, TouchKeeps DEF Hit
  <2>2. body[key[r]] \in Reply /\ body[key[r]].version >= published
    BY <1>1, <1>2 DEF Hit, Entries, Versions
  <2>3. Typed'
    BY <1>2, <2>2 DEF Hit, dataVars, Typed
  <2>4. Flights'
    BY <1>2, <2>1 DEF Hit, Typed, Flights
  <2>5. Versions'
    <3>1. floor[r] \in Nat /\ published \in Nat /\ body[key[r]].version \in Nat
      BY <2>2 DEF Typed, Reply
    <3>2. body[key[r]].version >= floor[r]
      BY <2>2, <3>1 DEF Versions
    <3> QED
      BY <1>2, <2>1, <2>2, <3>2 DEF Hit, dataVars, Typed, Versions
  <2> QED
    BY <2>1, <2>3, <2>4, <2>5
<1>3. CASE Join(r)
  <2>1. Entries' /\ Cached' = Cached \ {key[r]} /\ \A x \in Cached' : body'[x] = body[x]
    BY <1>1, <1>3, DropKeeps DEF Join
  <2>2. Typed'
    BY <1>1, <1>3 DEF Join, dataVars, Typed
  <2>3. Flights'
    BY <1>1, <1>3, <2>1, CacheAssumption DEF Join, Typed, Flights
  <2>4. Versions'
    BY <1>3, <2>1 DEF Join, dataVars, Typed, Versions
  <2> QED
    BY <2>1, <2>2, <2>3, <2>4
<1>4. CASE Lead(r)
  <2>1. Entries' /\ Cached' = Cached \ {key[r]} /\ \A x \in Cached' : body'[x] = body[x]
    BY <1>1, <1>4, DropKeeps DEF Lead
  <2>2. Typed'
    BY <1>1, <1>4 DEF Lead, dataVars, Typed
  <2>3. Flights'
    BY <1>1, <1>4, <2>1, CacheAssumption DEF Lead, Typed, Flights
  <2>4. Versions'
    BY <1>4, <2>1 DEF Lead, dataVars, Typed, Versions
  <2> QED
    BY <2>1, <2>2, <2>3, <2>4
<1> QED
  BY <1>2, <1>3, <1>4

\* finish
LEMMA FinishKeeps ==
  ASSUME IInv, NEW r \in Readers, Finish(r)
  PROVE  IInv'
<1> USE DEF IInv
<1>1. /\ rpc[r] = "finish" /\ key[r] \in Keys /\ rpc' = [rpc EXCEPT ![r] = "done"]
      /\ inflight' = [inflight EXCEPT ![key[r]] = None]
      /\ UNCHANGED <<key, gen, leader, reply, floor, generation, version, published>>
  BY DEF Finish, dataVars, Typed
<1>2. /\ Entries' /\ Cached' \subseteq Cached \cup {key[r]}
      /\ \A k \in Cached' : body'[k].version >= published
  <2>1. CASE Cacheable(reply[r]) /\ generation = gen[r]
    <3>1. Insert(key[r], reply[r]) /\ reply[r] \in Reply
      BY <2>1 DEF Finish, Typed
    <3>2. reply[r].version >= published
      BY <1>1, <2>1 DEF Versions, Cacheable
    <3> QED
      BY <1>1, <3>1, <3>2, InsertKeeps DEF Versions
  <2>2. CASE ~(Cacheable(reply[r]) /\ generation = gen[r])
    <3>1. UNCHANGED <<order, body, expired, bytes>>
      BY <2>2 DEF Finish
    <3> QED
      BY <3>1, EntriesFrame DEF Entries, Versions
  <2> QED
    BY <2>1, <2>2
<1>3. Typed'
  BY <1>1 DEF Typed
<1>4. Flights'
  BY <1>1, <1>2 DEF Typed, Flights
<1>5. Versions'
  BY <1>1, <1>2 DEF Typed, Versions
<1> QED
  BY <1>2, <1>3, <1>4, <1>5

\* Expiry, commits and clear().
LEMMA DataKeeps ==
  ASSUME IInv,
         \/ Ingest \/ \E k \in Keys : Expire(k)
         \/ \E w \in Writers : Commit(w) \/ Clear(w)
  PROVE  IInv'
<1> USE DEF IInv
<1>1. CASE Ingest \/ \E w \in Writers : Commit(w)
  <2>1. Entries' /\ Cached' = Cached /\ UNCHANGED <<readerVars, cacheVars, published>>
    <3>1. UNCHANGED <<readerVars, cacheVars, published>>
      BY <1>1 DEF Ingest, Commit
    <3> QED
      BY <3>1, EntriesFrame DEF Entries, cacheVars
  <2>2. version' = version + 1
    BY <1>1 DEF Ingest, Commit
  <2>3. Typed' /\ Flights' /\ Versions'
    BY <2>1, <2>2 DEF readerVars, cacheVars, Typed, Flights, Versions
  <2> QED
    BY <2>1, <2>3
<1>2. CASE \E k \in Keys : Expire(k)
  <2>1. Entries' /\ Cached' = Cached
    <3>1. UNCHANGED <<order, body, bytes>> /\ expired' \subseteq Cached
      BY <1>2 DEF Expire, Entries
    <3> QED
      BY <3>1, EntriesFrame
  <2>2. Typed' /\ Flights' /\ Versions'
    BY <1>2, <2>1 DEF Expire, readerVars, dataVars, Typed, Flights, Versions
  <2> QED
    BY <2>1, <2>2
<1>3. CASE \E w \in Writers : Clear(w)
  <2>1. /\ order' = <<>> /\ body' = [k \in Keys |-> NoReply] /\ expired' = {} /\ bytes' = 0
        /\ generation' = generation + 1 /\ published' = version
        /\ UNCHANGED <<readerVars, inflight, version>>
    BY <1>3 DEF Clear
  <2>2. Cached' = {}
    BY <2>1 DEF Cached, ToSet
  <2>3. Weight(order', body') = 0
    <3>1. Stock(ToSet(<<>>), body') = {}
      BY DEF Stock, ToSet
    <3> QED
      BY <2>1, <3>1, WeightIsStock, FS_EmptySet
  <2>4. Entries'
    BY <2>1, <2>2, <2>3, CacheAssumption DEF Entries, Distinct, Reply, NoReply
  <2>5. Typed'
    BY <2>1 DEF readerVars, Typed
  <2>6. Flights'
    BY <2>1, <2>2 DEF readerVars, Flights
  <2>7. Versions'
    BY <2>1, <2>2 DEF readerVars, Typed, Versions
  <2> QED
    BY <2>4, <2>5, <2>6, <2>7
<1> QED
  BY <1>1, <1>2, <1>3

\* The invariant of the read cache.
THEOREM CacheInvariant == Spec => []IInv
<1>1. Init => IInv
  <2> SUFFICES ASSUME Init PROVE IInv
    OBVIOUS
  <2>1. Cached = {}
    BY DEF Init, Cached, ToSet
  <2>2. Weight(order, body) = 0
    <3>1. Stock(ToSet(<<>>), body) = {}
      BY DEF Stock, ToSet
    <3> QED
      BY <3>1, WeightIsStock, FS_EmptySet DEF Init
  <2>3. Entries
    BY <2>1, <2>2, CacheAssumption DEF Init, Entries, Distinct, Reply, NoReply
  <2>4. Typed /\ Flights /\ Versions
    BY <2>1 DEF Init, Typed, Flights, Versions, Reply, NoReply
  <2> QED
    BY <2>3, <2>4 DEF IInv
<1>2. IInv /\ [Next]_vars => IInv'
  <2> SUFFICES ASSUME IInv, [Next]_vars PROVE IInv'
    OBVIOUS
  <2>1. CASE \E r \in Readers : Read(r) \/ \E k \in Keys : Start(r, k)
    BY <2>1, RequestKeeps, AcquireKeeps, FinishKeeps DEF Read
  <2>2. CASE Ingest \/ (\E k \in Keys : Expire(k)) \/ \E w \in Writers : Commit(w) \/ Clear(w)
    BY <2>2, DataKeeps
  <2>3. CASE Finished \/ UNCHANGED vars
    <3>1. UNCHANGED <<readerVars, cacheVars, dataVars>>
      BY <2>3 DEF Finished, vars
    <3>2. Entries' /\ Cached' = Cached
      BY <3>1, EntriesFrame DEF cacheVars, IInv, Entries
    <3> QED
      BY <3>1, <3>2 DEF readerVars, cacheVars, dataVars, IInv, Typed, Flights, Versions
  <2> QED
    BY <2>1, <2>2, <2>3 DEF Next
<1> QED
  BY <1>1, <1>2, PTL DEF Spec

\* Requests, entries and counters stay in their domains.
THEOREM TypeCorrect == Spec => []TypeOK
<1>1. IInv => TypeOK
  <2> SUFFICES ASSUME IInv PROVE TypeOK
    OBVIOUS
  <2>1. ASSUME Keys # {} PROVE bytes \in Nat
    BY <2>1, BytesWithout DEF IInv
  <2>2. ASSUME Keys = {} PROVE bytes \in Nat
    <3>1. IsFiniteSet(ToSet(order)) /\ ToSet(order) \in SUBSET Keys
      BY KeysFinite DEF IInv, Entries, ToSet
    <3> QED
      BY <3>1, StockFinite, WeightIsStock, FS_CardinalityType DEF IInv, Entries
  <2> QED
    BY <2>1, <2>2 DEF IInv, Entries, Typed, TypeOK
<1> QED
  BY <1>1, CacheInvariant, PTL

\* The bytes counted are those of the bodies stored, no key has two entries, and neither limit
\* is exceeded (read_cache.go:72-91).
THEOREM LimitsCorrect == Spec => []WithinLimits
<1>1. IInv => WithinLimits
  BY DEF IInv, Entries, Distinct, WithinLimits
<1> QED
  BY <1>1, CacheInvariant, PTL

\* One load per key at a time, and none leaves its waiters behind (read_cache.go:94-196).
THEOREM FlightsCorrect == Spec => []FlightsAreSound
<1>1. IInv => SingleFlight
  BY DEF IInv, Typed, Flights, SingleFlight
<1>2. IInv => EveryFlightLands
  BY DEF IInv, Typed, Flights, EveryFlightLands
<1> QED
  BY <1>1, <1>2, CacheInvariant, PTL DEF FlightsAreSound

\* No request gets a response older than the commit of a clear() that returned before it began
\* (read_cache.go:120-122).
THEOREM FreshCorrect == Spec => []FreshAfterClear
<1>1. IInv => FreshAfterClear
  BY DEF IInv, Versions, FreshAfterClear
<1> QED
  BY <1>1, CacheInvariant, PTL
=============================================================================
