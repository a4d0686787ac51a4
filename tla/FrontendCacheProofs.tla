------------------------ MODULE FrontendCacheProofs ------------------------
(***************************************************************************)
(* The browser's cache for any keys, requests and limits: what is served   *)
(* was received for the same key less than a TTL ago and stored since the  *)
(* last clear, the two tiers agree while sessionStorage takes entries, and *)
(* the timer is due before anything displayed expires, or as soon after as *)
(* the end of the load allows.                                             *)
(***************************************************************************)
EXTENDS FrontendCache, SequenceTheorems, TLAPS

\* A Map that has at most one entry of a key.
Distinct(m) == \A i, j \in DOMAIN m : m[i].k = m[j].k => i = j

\* Sequences of entries of different keys: removing one leaves the others.
LEMMA Removing ==
  ASSUME NEW m \in Seq(Entry), Distinct(m), NEW i \in DOMAIN m
  PROVE  /\ RemoveAt(m, i) \in Seq(Entry) /\ Distinct(RemoveAt(m, i))
         /\ ToSet(RemoveAt(m, i)) \subseteq {e \in ToSet(m) : e.k # m[i].k}
<1> DEFINE s == RemoveAt(m, i)
<1>1. i \in 1..Len(m) /\ Len(m) \in Nat
  OBVIOUS
<1>2. /\ s \in Seq(Entry) /\ Len(s) = Len(m) - 1
      /\ \A j \in 1..(i - 1) : s[j] = m[j]
      /\ \A j \in i..(Len(m) - 1) : s[j] = m[j + 1]
  <2> DEFINE before == SubSeq(m, 1, i - 1)
             after == SubSeq(m, i + 1, Len(m))
  <2>1. /\ before \in Seq(Entry) /\ Len(before) = i - 1
        /\ \A j \in 1..(i - 1) : before[j] = m[j]
    BY <1>1
  <2>2. /\ after \in Seq(Entry) /\ Len(after) = Len(m) - i
        /\ \A j \in 1..(Len(m) - i) : after[j] = m[i + j]
    BY <1>1
  <2>3. s = before \o after
    BY DEF RemoveAt
  <2> HIDE DEF before, after, s
  <2>4. /\ s \in Seq(Entry) /\ Len(s) = Len(before) + Len(after)
        /\ \A j \in 1..Len(before) : s[j] = before[j]
        /\ \A j \in 1..Len(after) : s[Len(before) + j] = after[j]
    <3>0. Len(before) \in Nat /\ Len(after) \in Nat
      BY <2>1, <2>2
    <3>1. \A h \in 1..Len(after) :
              /\ Len(before) + h \in 1..(Len(before) + Len(after))
              /\ ~(Len(before) + h <= Len(before)) /\ (Len(before) + h) - Len(before) = h
      BY <3>0
    <3>2. \A h \in 1..Len(before) : h \in 1..(Len(before) + Len(after)) /\ h <= Len(before)
      BY <3>0
    <3>3. /\ s \in Seq(Entry) /\ Len(s) = Len(before) + Len(after)
            /\ \A h \in 1..(Len(before) + Len(after)) :
                  s[h] = IF h <= Len(before) THEN before[h] ELSE after[h - Len(before)]
      BY <2>1, <2>2, <2>3, ConcatProperties
    <3> QED
      BY <3>1, <3>2, <3>3
  <2>5. Len(s) = Len(m) - 1 /\ i \in Nat /\ Len(m) \in Nat
    BY <1>1, <2>1, <2>2, <2>4
  <2>6. \A j \in 1..(i - 1) : s[j] = m[j]
    BY <2>1, <2>4
  <2>7. ASSUME NEW j \in i..(Len(m) - 1) PROVE s[j] = m[j + 1]
    <3>1. PICK h \in 1..Len(after) : Len(before) + h = j /\ i + h = j + 1
      <4>1. j - (i - 1) \in 1..Len(after)
        BY <1>1, <2>1, <2>2, <2>5
      <4> QED
        BY <2>1, <2>5, <4>1
    <3>2. s[Len(before) + h] = after[h] /\ after[h] = m[i + h]
      BY <2>2, <2>4
    <3> QED
      BY <3>1, <3>2
  <2> QED
    BY <2>4, <2>5, <2>6, <2>7
<1> HIDE DEF s
<1>3. \A j \in 1..Len(s) : \E h \in 1..Len(m) :
          h = (IF j < i THEN j ELSE j + 1) /\ h # i /\ s[j] = m[h]
  <2> SUFFICES ASSUME NEW j \in 1..Len(s)
               PROVE  LET h == IF j < i THEN j ELSE j + 1
                      IN  h \in 1..Len(m) /\ h # i /\ s[j] = m[h]
    OBVIOUS
  <2>1. CASE j < i
    BY <1>1, <1>2, <2>1
  <2>2. CASE ~(j < i)
    <3>1. j \in i..(Len(m) - 1)
      BY <1>1, <1>2, <2>2
    <3> QED
      BY <1>1, <1>2, <2>2, <3>1
  <2> QED
    BY <2>1, <2>2
<1>4. Distinct(s)
  <2> SUFFICES ASSUME NEW a \in 1..Len(s), NEW b \in 1..Len(s), s[a].k = s[b].k
               PROVE  a = b
    BY <1>2 DEF Distinct
  <2>1. PICK h \in 1..Len(m) : h = (IF a < i THEN a ELSE a + 1) /\ s[a] = m[h]
    BY <1>3
  <2>2. PICK g \in 1..Len(m) : g = (IF b < i THEN b ELSE b + 1) /\ s[b] = m[g]
    BY <1>3
  <2>3. h = g
    BY <2>1, <2>2 DEF Distinct
  <2> QED
    BY <1>1, <1>2, <2>1, <2>2, <2>3
<1>5. ToSet(s) \subseteq {e \in ToSet(m) : e.k # m[i].k}
  <2> SUFFICES ASSUME NEW e \in ToSet(s) PROVE e \in ToSet(m) /\ e.k # m[i].k
    OBVIOUS
  <2>1. PICK j \in 1..Len(s) : e = s[j]
    BY <1>2 DEF ToSet
  <2>2. PICK h \in 1..Len(m) : h # i /\ s[j] = m[h]
    BY <1>3
  <2> QED
    BY <1>1, <2>1, <2>2 DEF ToSet, Distinct
<1> QED
  BY <1>2, <1>4, <1>5 DEF s

\* Keeping the entries after the first n.
LEMMA Cutting ==
  ASSUME NEW m \in Seq(Entry), Distinct(m), NEW n \in Int, n <= Len(m)
  PROVE  LET old == SubSeq(m, 1, n)  rest == SubSeq(m, Len(old) + 1, Len(m)) IN
         /\ rest \in Seq(Entry) /\ Distinct(rest) /\ ToSet(rest) \subseteq ToSet(m)
         /\ \A e \in ToSet(rest) : ~ Held(ToSet(old), e.k)
<1> DEFINE old == SubSeq(m, 1, n)
           c == Len(old)
           rest == SubSeq(m, c + 1, Len(m))
<1>1. /\ old \in Seq(Entry) /\ c \in 0..Len(m) /\ Len(m) \in Nat
      /\ \A i \in 1..c : old[i] = m[i]
  OBVIOUS
<1> HIDE DEF old
<1>2. /\ rest \in Seq(Entry) /\ Len(rest) = Len(m) - c
      /\ \A i \in 1..(Len(m) - c) : rest[i] = m[c + i]
  BY <1>1
<1> HIDE DEF c, rest
<1>3. \A i \in 1..Len(rest) : c + i \in 1..Len(m) /\ rest[i] = m[c + i]
  BY <1>1, <1>2
<1>4. Distinct(rest)
  <2> SUFFICES ASSUME NEW a \in 1..Len(rest), NEW b \in 1..Len(rest), rest[a].k = rest[b].k
               PROVE  a = b
    BY <1>2 DEF Distinct
  <2>1. c + a = c + b
    BY <1>3 DEF Distinct
  <2> QED
    BY <1>1, <1>2, <2>1
<1>5. ToSet(rest) \subseteq ToSet(m)
  BY <1>2, <1>3 DEF ToSet
<1>6. ASSUME NEW e \in ToSet(rest), NEW o \in ToSet(old), o.k = e.k PROVE FALSE
  <2>1. PICK i \in 1..Len(rest) : e = rest[i]
    BY <1>2 DEF ToSet
  <2>2. PICK j \in 1..c : o = old[j]
    BY <1>1 DEF ToSet, c
  <2>3. /\ c + i \in DOMAIN m /\ j \in DOMAIN m
        /\ m[c + i] = e /\ m[j] = o
    BY <1>1, <1>3, <2>1, <2>2
  <2>4. j = c + i
    BY <1>6, <2>3 DEF Distinct
  <2> QED
    BY <1>1, <1>2, <2>1, <2>2, <2>4
<1> QED
  BY <1>2, <1>4, <1>5, <1>6 DEF rest, c, old, Held

\* Appending an entry of a new key.
LEMMA Appending ==
  ASSUME NEW m \in Seq(Entry), Distinct(m), NEW e \in Entry, ~ Held(ToSet(m), e.k)
  PROVE  /\ Append(m, e) \in Seq(Entry) /\ Distinct(Append(m, e))
         /\ ToSet(Append(m, e)) \subseteq ToSet(m) \cup {e}
<1> DEFINE s == Append(m, e)
<1>1. /\ s \in Seq(Entry) /\ Len(s) = Len(m) + 1
      /\ \A i \in 1..Len(m) : s[i] = m[i]
      /\ s[Len(m) + 1] = e
  OBVIOUS
<1> HIDE DEF s
<1>2. \A i \in 1..Len(m) : m[i].k # e.k
  BY DEF Held, ToSet
<1>3. Distinct(s)
  BY <1>1, <1>2 DEF Distinct
<1>4. ToSet(s) \subseteq ToSet(m) \cup {e}
  BY <1>1 DEF ToSet
<1> QED
  BY <1>1, <1>3, <1>4 DEF s

\* Map.set: one entry per key, the new one for its key and the others as they were.
LEMMA Setting ==
  ASSUME NEW m \in Seq(Entry), Distinct(m), NEW e \in Entry
  PROVE  /\ MapSet(m, e) \in Seq(Entry) /\ Distinct(MapSet(m, e))
         /\ ToSet(MapSet(m, e)) \subseteq {x \in ToSet(m) : x.k # e.k} \cup {e}
<1>1. CASE Held(ToSet(m), e.k)
  <2> DEFINE s == [i \in DOMAIN m |-> IF m[i].k = e.k THEN e ELSE m[i]]
  <2>1. s \in Seq(Entry) /\ DOMAIN s = DOMAIN m
    <3>1. \A i \in 1..Len(m) : m[i] \in Entry
      OBVIOUS
    <3>2. s \in [1..Len(m) -> Entry]
      BY <3>1
    <3> QED
      BY <3>2
  <2>2. \A i \in DOMAIN m : s[i].k = m[i].k /\ s[i] \in {e, m[i]} /\ (m[i].k = e.k => s[i] = e)
    OBVIOUS
  <2> HIDE DEF s
  <2>3. Distinct(s)
    BY <2>1, <2>2 DEF Distinct
  <2>4. ToSet(s) \subseteq {x \in ToSet(m) : x.k # e.k} \cup {e}
    BY <2>1, <2>2 DEF ToSet
  <2>5. MapSet(m, e) = s
    BY <1>1 DEF MapSet, s
  <2> QED
    BY <2>1, <2>3, <2>4, <2>5
<1>2. CASE ~ Held(ToSet(m), e.k)
  <2>1. \A x \in ToSet(m) : x.k # e.k
    BY <1>2 DEF Held
  <2> QED
    BY <1>2, <2>1, Appending DEF MapSet
<1> QED
  BY <1>1, <1>2
-----------------------------------------------------------------------------
(* The inductive invariant.                                                *)

\* A cached entry belongs to the key in its cache key, was stored since the last clear, and
\* expires within a TTL.
Owned(e) == e.k[1] = e.owner /\ e.exp <= now + TTL /\ e.epoch = clears

Store ==
    /\ mem \in Seq(Entry) /\ Distinct(mem)
    /\ session \subseteq Entry /\ (\A e, s \in session : e.k = s.k => e = s)
    /\ \A e \in ToSet(mem) \cup session : Owned(e)
    /\ TiersAgree

\* The cache key of a request was computed with the management key it was sent with.
Requests == \A f \in flights : f.owner \in Keys /\ f.path \in Paths /\ f.k = <<f.owner, f.path>>

Clock ==
    /\ key \in Keys \cup {NoKey} /\ full \in BOOLEAN
    /\ now \in 1..MaxTime /\ clears \in 0..MaxClears

\* The deadline of the refresh is not after anything the load has met.
Load ==
    /\ {loading, completed} \subseteq BOOLEAN /\ opening \in {"awaited", "superseded", "over"}
    /\ deadline \in Nat /\ timerAt \in Nat \cup {NoTime}
    /\ \A exp \in used : exp \in Nat /\ deadline # 0 /\ deadline <= exp
    /\ RefreshInTime

Answers == ServedIsOwn /\ ClearForgets

IInv == Clock /\ Store /\ Requests /\ Load /\ Answers

LEMMA Types ==
  ASSUME IInv
  PROVE  /\ now \in Nat /\ clears \in Nat /\ TTL \in Nat /\ TTL > 0 /\ now > 0
         /\ ToSet(mem) \subseteq Entry
<1>1. ToSet(mem) \subseteq Entry
  BY DEF IInv, Store, ToSet
<1> QED
  BY <1>1, CacheAssumption DEF IInv, Clock

LEMMA Consequences == IInv => ServedIsValid /\ TiersAgree /\ RefreshInTime
BY Types DEF IInv, ServedIsValid, TypeOK, Store, Clock, Load, Answers, Distinct

LEMMA InitIInv == Init => IInv
<1> SUFFICES ASSUME Init PROVE IInv
  OBVIOUS
<1>1. mem \in Seq(Entry) /\ ToSet(mem) = {} /\ DOMAIN mem = {}
  BY DEF Init, ToSet
<1>2. 1 \in 1..MaxTime /\ 0 \in 0..MaxClears
  BY CacheAssumption DEF Init
<1> QED
  BY <1>1, <1>2 DEF Init, IInv, Store, Clock, Requests, Load, Answers, Distinct, ServedIsOwn,
                    ClearForgets, TiersAgree, RefreshInTime, NoTime
-----------------------------------------------------------------------------
(* What the steps share.                                                   *)

\* Entries that only move from one tier to the other, or are dropped.
LEMMA Moving ==
  ASSUME IInv, mem' \in Seq(Entry), Distinct(mem'), ToSet(mem') \subseteq ToSet(mem) \cup session,
         session' \subseteq session, TiersAgree', now' \in Nat, now <= now', clears' = clears
  PROVE  Store'
<1>1. ASSUME NEW e \in ToSet(mem) \cup session PROVE e \in Entry /\ e.exp <= now' + TTL
  BY Types DEF IInv, Store, Owned, Entry
<1>2. \A e \in ToSet(mem') \cup session' : Owned(e)'
  BY <1>1 DEF IInv, Store, Owned
<1> QED
  BY <1>2 DEF IInv, Store

\* All of it but the clock, when neither the clock nor a clear intervenes.
LEMMA Serving ==
  ASSUME IInv, NEW e \in Entry, Owned(e), Live(e), key = e.owner, Serve(e),
         UNCHANGED <<key, clockVars, loadVars>>
  PROVE  Load' /\ Answers'
<1>1. e.exp \in Nat /\ e.exp > now /\ now \in Nat /\ now > 0 /\ e.exp <= now + TTL
  BY Types DEF Entry, Owned, Live
<1>2. deadline' = IF deadline = 0 \/ e.exp < deadline THEN e.exp ELSE deadline
  BY DEF Serve, TrackCacheExpiry
<1>3. deadline \in Nat /\ deadline' \in Nat /\ deadline' # 0 /\ deadline' <= e.exp
      /\ (deadline # 0 => deadline' <= deadline)
  BY <1>1, <1>2 DEF IInv, Load
<1>4. \A exp \in used : exp \in Nat /\ deadline' <= exp
  BY <1>3 DEF IInv, Load
<1>5. used' = IF loading THEN used \cup {e.exp} ELSE used
  BY DEF Serve
<1>6. \A exp \in used' : exp \in Nat /\ deadline' # 0 /\ deadline' <= exp
  BY <1>1, <1>3, <1>4, <1>5
<1>7. RefreshInTime'
  BY <1>5 DEF IInv, Load, RefreshInTime, clockVars, loadVars
<1>8. Load'
  BY <1>3, <1>6, <1>7 DEF IInv, Load, loadVars
<1>9. ServedIsOwn'
  BY <1>1 DEF Serve, ServedIsOwn
<1>10. ClearForgets'
  BY DEF Serve, ClearForgets, Owned
<1> QED
  BY <1>8, <1>9, <1>10 DEF Answers

LEMMA Asking ==
  ASSUME IInv, NEW p \in Paths, key # NoKey, Fetch(p),
         UNCHANGED <<key, clockVars, loadVars>>
  PROVE  Requests' /\ Load' /\ Answers'
<1>1. Requests'
  BY DEF IInv, Clock, Requests, Fetch
<1>2. Load' /\ Answers'
  BY DEF IInv, Load, Answers, RefreshInTime, ServedIsOwn, ClearForgets, Fetch, clockVars, loadVars
<1> QED
  BY <1>1, <1>2
-----------------------------------------------------------------------------
(* The steps.                                                              *)

LEMMA LookupMemStep ==
  ASSUME IInv, NEW p \in Paths, NEW force \in BOOLEAN, LookupMem(p, force)
  PROVE  IInv'
<1> DEFINE k == <<key, p>>
           e == Get(ToSet(mem), k)
<1>1. e \in ToSet(mem) /\ e.k = k
  BY DEF LookupMem, Held, Get
<1>2. e \in Entry /\ e \in ToSet(mem) \cup session /\ Owned(e) /\ key = e.owner
  BY <1>1, Types DEF IInv, Store, Owned
<1>3. UNCHANGED <<key, clockVars, loadVars>> /\ Clock' /\ key # NoKey
  BY DEF LookupMem, IInv, Clock, clockVars
<1> HIDE DEF e
<1>4. CASE ~force /\ Live(e)
  <2>1. Serve(e) /\ UNCHANGED <<mem, session, flights>>
    BY <1>4 DEF LookupMem, e
  <2>2. Load' /\ Answers'
    BY <1>2, <1>3, <1>4, <2>1, Serving
  <2>3. Store' /\ Requests'
    BY <1>3, <2>1 DEF IInv, Store, Requests, TiersAgree, Owned, Distinct, clockVars
  <2> QED
    BY <1>3, <2>2, <2>3 DEF IInv
<1>5. CASE ~(~force /\ Live(e))
  <2>1. Fetch(p) /\ mem' = MemWithout(k) /\ session' = Without(session, k)
    BY <1>5 DEF LookupMem, e
  <2>2. Requests' /\ Load' /\ Answers'
    BY <1>3, <2>1, Asking
  <2> DEFINE i == CHOOSE j \in DOMAIN mem : mem[j].k = k
  <2>3. i \in DOMAIN mem /\ mem[i].k = k
    BY <1>1 DEF ToSet
  <2>4. mem' = RemoveAt(mem, i)
    BY <2>1 DEF MemWithout
  <2> HIDE DEF i
  <2>5. mem' \in Seq(Entry) /\ Distinct(mem') /\ ToSet(mem') \subseteq {x \in ToSet(mem) : x.k # k}
    BY <2>3, <2>4, Removing DEF IInv, Store
  <2>6. TiersAgree'
    BY <1>3, <2>1, <2>5 DEF IInv, Store, TiersAgree, Without, clockVars
  <2>7. Store'
    BY <1>3, <2>1, <2>5, <2>6, Moving, Types DEF Without, clockVars
  <2> QED
    BY <1>3, <2>2, <2>7 DEF IInv
<1> QED
  BY <1>4, <1>5

LEMMA LookupSessionStep ==
  ASSUME IInv, NEW p \in Paths, NEW force \in BOOLEAN, LookupSession(p, force)
  PROVE  IInv'
<1> DEFINE k == <<key, p>>
           e == Get(session, k)
<1>1. UNCHANGED <<key, clockVars, loadVars>> /\ Clock' /\ key # NoKey
  BY DEF LookupSession, IInv, Clock, clockVars
<1>2. CASE ~force /\ Held(session, k)
  <2>1. e \in session /\ e.k = k
    BY <1>2 DEF Held, Get
  <2>2. e \in Entry /\ Owned(e) /\ key = e.owner
    BY <2>1 DEF IInv, Store, Owned
  <2> HIDE DEF e
  <2>3. CASE Live(e)
    <3>1. Serve(e) /\ mem' = Append(mem, e) /\ UNCHANGED <<session, flights>>
      BY <1>2, <2>3 DEF LookupSession, e
    <3>2. Load' /\ Answers'
      BY <1>1, <2>2, <2>3, <3>1, Serving
    <3>3. ~ Held(ToSet(mem), e.k)
      BY <2>1 DEF LookupSession
    <3>4. mem' \in Seq(Entry) /\ Distinct(mem') /\ ToSet(mem') \subseteq ToSet(mem) \cup {e}
      BY <2>2, <3>1, <3>3, Appending DEF IInv, Store
    <3>5. TiersAgree'
      BY <1>1, <2>1, <3>1, <3>4 DEF IInv, Store, TiersAgree, clockVars
    <3>6. Store'
      BY <1>1, <2>1, <3>1, <3>4, <3>5, Moving, Types DEF clockVars
    <3>7. Requests'
      BY <3>1 DEF IInv, Requests
    <3> QED
      BY <1>1, <3>2, <3>6, <3>7 DEF IInv
  <2>4. CASE ~ Live(e)
    <3>1. Fetch(p) /\ session' = Without(session, k) /\ UNCHANGED mem
      BY <1>2, <2>4 DEF LookupSession, e
    <3>2. Requests' /\ Load' /\ Answers'
      BY <1>1, <3>1, Asking
    <3>3. \A x \in ToSet(mem) : x.k # k
      BY DEF LookupSession, Held
    <3>4. TiersAgree'
      BY <1>1, <3>1, <3>3 DEF IInv, Store, TiersAgree, Without, clockVars
    <3>5. Store'
      BY <1>1, <3>1, <3>4, Moving, Types DEF Without, IInv, Store, clockVars
    <3> QED
      BY <1>1, <3>2, <3>5 DEF IInv
  <2> QED
    BY <2>3, <2>4
<1>3. CASE ~(~force /\ Held(session, k))
  <2>1. Fetch(p) /\ UNCHANGED <<mem, session>>
    BY <1>3 DEF LookupSession
  <2>2. Requests' /\ Load' /\ Answers'
    BY <1>1, <2>1, Asking
  <2>3. Store'
    BY <1>1, <2>1 DEF IInv, Store, TiersAgree, Owned, Distinct, clockVars
  <2> QED
    BY <1>1, <2>2, <2>3 DEF IInv
<1> QED
  BY <1>2, <1>3

LEMMA AnsweredStep ==
  ASSUME IInv, NEW f \in flights, Answered(f)
  PROVE  IInv'
<1> DEFINE e == [k |-> f.k, exp |-> now + TTL, owner |-> f.owner, epoch |-> clears]
<1>1. /\ flights' = flights \ {f} /\ mem' = MapSet(Remaining, e) /\ session' = SessionAfter(e)
      /\ deadline' = TrackCacheExpiry(e.exp)
      /\ used' = IF loading THEN used \cup {e.exp} ELSE used
      /\ UNCHANGED <<key, clockVars, loadVars, served>>
  BY DEF Answered, StoredKey
<1>2. f.owner \in Keys /\ f.path \in Paths /\ f.k = <<f.owner, f.path>>
  BY DEF IInv, Requests
<1>3. now + TTL \in Nat /\ now + TTL > 0 /\ now + TTL <= now + TTL
  BY Types
<1>4. /\ e \in Entry /\ Owned(e) /\ e.exp \in Nat /\ e.exp # 0 /\ e.k = f.k
  BY <1>2, <1>3, Types DEF Entry, CacheKey, Owned
<1> HIDE DEF e
<1>5. Clock' /\ Requests'
  BY <1>1 DEF IInv, Clock, Requests, clockVars
<1>6. Answers'
  BY <1>1 DEF IInv, Answers, ServedIsOwn, ClearForgets
<1>7. Load'
  <2>1. deadline' = IF deadline = 0 \/ e.exp < deadline THEN e.exp ELSE deadline
    BY <1>1 DEF TrackCacheExpiry
  <2>2. deadline' \in Nat /\ deadline' # 0 /\ deadline' <= e.exp
        /\ (deadline # 0 => deadline' <= deadline)
    BY <1>4, <2>1 DEF IInv, Load
  <2>3. \A exp \in used : exp \in Nat /\ deadline' <= exp
    BY <2>2 DEF IInv, Load
  <2>4. \A exp \in used' : exp \in Nat /\ deadline' # 0 /\ deadline' <= exp
    BY <1>1, <1>4, <2>2, <2>3
  <2>5. RefreshInTime'
    BY <1>1 DEF IInv, Load, RefreshInTime, clockVars, loadVars
  <2> QED
    BY <1>1, <2>2, <2>4, <2>5 DEF IInv, Load, loadVars
<1>8. Store'
  <2> DEFINE n == Len(mem) - MaxItems + 1
  <2>1. n \in Int /\ n <= Len(mem) /\ mem \in Seq(Entry) /\ Distinct(mem)
    BY CacheAssumption DEF IInv, Store
  <2> HIDE DEF n
  <2>2. /\ Remaining \in Seq(Entry) /\ Distinct(Remaining)
        /\ ToSet(Remaining) \subseteq ToSet(mem)
        /\ \A x \in ToSet(Remaining) : ~ Held(ToSet(Evicted), x.k)
    BY <2>1, Cutting DEF Remaining, Evicted, n
  <2>3. /\ mem' \in Seq(Entry) /\ Distinct(mem')
        /\ ToSet(mem') \subseteq {x \in ToSet(Remaining) : x.k # e.k} \cup {e}
    BY <1>1, <1>4, <2>2, Setting
  <2> DEFINE rest == session \ {s \in session : Held(ToSet(Evicted), s.k)}
  <2>4. session' = IF full THEN rest ELSE Without(rest, e.k) \cup {e}
    BY <1>1 DEF SessionAfter
  <2>5. rest \subseteq session
    OBVIOUS
  <2>6. session' \subseteq Entry /\ (\A x, s \in session' : x.k = s.k => x = s)
    BY <1>4, <2>4, <2>5 DEF IInv, Store, Without
  <2>7. ASSUME NEW x \in ToSet(mem') \cup session' PROVE Owned(x)'
    <3>1. x \in ToSet(mem) \cup session \cup {e}
      BY <2>2, <2>3, <2>4, <2>5 DEF Without
    <3>2. Owned(x)
      BY <1>4, <3>1 DEF IInv, Store
    <3> QED
      BY <1>1, <3>2 DEF Owned, clockVars
  <2>8. TiersAgree'
    <3> SUFFICES ASSUME ~full, NEW x \in ToSet(mem') PROVE x \in session'
      BY <1>1 DEF TiersAgree, clockVars
    <3>1. CASE x = e
      BY <2>4, <3>1
    <3>2. CASE x \in ToSet(Remaining) /\ x.k # e.k
      <4>1. x \in session
        BY <2>2, <3>2 DEF IInv, Store, TiersAgree
      <4>2. x \in rest
        BY <2>2, <3>2, <4>1
      <4> QED
        BY <2>4, <3>2, <4>2 DEF Without
    <3> QED
      BY <2>3, <3>1, <3>2
  <2> QED
    BY <2>3, <2>6, <2>7, <2>8 DEF Store
<1> QED
  BY <1>5, <1>6, <1>7, <1>8 DEF IInv

\* An empty Map, whatever becomes of the entries of sessionStorage.
LEMMA EmptyMap ==
  ASSUME mem' = <<>>
  PROVE  mem' \in Seq(Entry) /\ Distinct(mem') /\ ToSet(mem') = {} /\ TiersAgree'
BY DEF Distinct, ToSet, TiersAgree

LEMMA ClearedStep ==
  ASSUME IInv, Cleared, key' \in Keys \cup {NoKey}, UNCHANGED timerAt,
         {loading', completed'} \subseteq BOOLEAN, opening' \in {"awaited", "superseded", "over"}
  PROVE  IInv'
<1>1. /\ clears < MaxClears /\ clears' = clears + 1 /\ mem' = <<>> /\ session' = {}
      /\ deadline' = 0 /\ used' = {} /\ UNCHANGED <<full, flights, now, served>>
  BY DEF Cleared, Forget
<1>2. Clock'
  BY <1>1, CacheAssumption DEF IInv, Clock
<1>3. Store'
  BY <1>1, EmptyMap DEF Store
<1>4. Requests' /\ Load' /\ Answers'
  BY <1>1 DEF IInv, Requests, Load, Answers, RefreshInTime, ServedIsOwn, ClearForgets
<1> QED
  BY <1>2, <1>3, <1>4 DEF IInv

\* A load that starts, with the Map emptied before or not.
LEMMA StartStep ==
  ASSUME IInv, StartLoad \/ ActivateRange \/ Reload
  PROVE  IInv'
<1>1. /\ mem' = mem \/ mem' = <<>>
      /\ flights' = flights \/ flights' = {}
      /\ loading' = TRUE /\ completed' = FALSE /\ deadline' = 0 /\ used' = {}
      /\ opening' \in {"awaited", "superseded", "over"}
      /\ timerAt' = timerAt \/ timerAt' = NoTime
      /\ UNCHANGED <<key, session, clockVars, served>>
  BY DEF StartLoad, ActivateRange, Reload, LoadBegins, IInv, Load
<1>2. Clock' /\ Requests' /\ Load' /\ Answers'
  BY <1>1 DEF IInv, Clock, Requests, Load, Answers, RefreshInTime, ServedIsOwn,
              ClearForgets, NoTime, clockVars
<1>3. mem' \in Seq(Entry) /\ Distinct(mem') /\ ToSet(mem') \subseteq ToSet(mem) /\ TiersAgree'
  <2>1. CASE mem' = mem
    BY <1>1, <2>1 DEF IInv, Store, TiersAgree, clockVars
  <2>2. CASE mem' = <<>>
    BY <2>2, EmptyMap
  <2> QED
    BY <1>1, <2>1, <2>2
<1>4. Store'
  BY <1>1, <1>3, Moving, Types DEF clockVars
<1> QED
  BY <1>2, <1>4 DEF IInv

\* What scheduleAutoRefresh makes of a deadline that is not after anything the load has met.
LEMMA Scheduling ==
  ASSUME IInv, NEW watched \in BOOLEAN, NEW delay \in {NoTime, RetryDelay},
         ScheduleAutoRefresh(watched, delay)
  PROVE  /\ timerAt' \in Nat \cup {NoTime}
         /\ timerAt' # NoTime =>
               \A exp \in used :
                  timerAt' <= exp \/ timerAt' <= now + (IF delay = NoTime THEN 0 ELSE delay)
<1> USE Types
<1>1. RetryDelay \in Nat /\ AutoRefresh \in Nat /\ RetryDelay # NoTime
  BY CacheAssumption DEF NoTime
<1>2. CASE ~watched \/ key = NoKey
  <2>1. timerAt' = NoTime
    BY <1>2 DEF ScheduleAutoRefresh
  <2> QED
    BY <2>1
<1>3. CASE watched /\ key # NoKey /\ delay # NoTime
  <2>1. timerAt' = now + delay /\ delay = RetryDelay
    BY <1>3 DEF ScheduleAutoRefresh
  <2> QED
    BY <1>1, <1>3, <2>1
<1>4. CASE watched /\ key # NoKey /\ delay = NoTime
  <2>1. timerAt' = DueTime
    BY <1>4 DEF ScheduleAutoRefresh
  <2>2. CASE deadline = 0
    BY <1>1, <2>1, <2>2 DEF DueTime, IInv, Load
  <2>3. CASE deadline # 0 /\ deadline > now
    BY <2>1, <2>3 DEF DueTime, IInv, Load
  <2>4. CASE deadline # 0 /\ ~(deadline > now)
    BY <1>4, <2>1, <2>4 DEF DueTime, IInv, Load
  <2> QED
    BY <2>2, <2>3, <2>4
<1> QED
  BY <1>2, <1>3, <1>4

\* A load that ends one way or the other, or leaves the timer to init().
LEMMA TimedStep ==
  ASSUME IInv, UNCHANGED <<key, mem, session, clockVars, flights, deadline, used, served>>,
         {loading', completed'} \subseteq BOOLEAN, opening' \in {"awaited", "superseded", "over"},
         timerAt' \in Nat \cup {NoTime}, RefreshInTime'
  PROVE  IInv'
<1>1. Clock' /\ Requests' /\ Answers' /\ Store'
  BY DEF IInv, Clock, Requests, Answers, Store, Owned, Distinct, TiersAgree, ServedIsOwn,
         ClearForgets, clockVars
<1>2. Load'
  BY DEF IInv, Load
<1> QED
  BY <1>1, <1>2 DEF IInv

LEMMA LoadCompletesStep ==
  ASSUME IInv, NEW watched \in BOOLEAN, LoadCompletes(watched)
  PROVE  IInv'
<1>1. /\ UNCHANGED <<key, mem, session, clockVars, flights, deadline, used, served>>
      /\ loading' = FALSE /\ completed' = TRUE /\ opening' \in {"awaited", "superseded", "over"}
      /\ ScheduleAutoRefresh(watched, NoTime)
  BY DEF LoadCompletes, LoadEnds, IInv, Load
<1>2. /\ timerAt' \in Nat \cup {NoTime}
      /\ timerAt' # NoTime => \A exp \in used : timerAt' <= exp \/ timerAt' <= now + 0
  BY <1>1, Scheduling
<1>3. RefreshInTime'
  BY <1>1, <1>2 DEF RefreshInTime, clockVars
<1> QED
  BY <1>1, <1>2, <1>3, TimedStep

LEMMA LoadFailsStep ==
  ASSUME IInv, NEW watched \in BOOLEAN, LoadFails(watched)
  PROVE  IInv'
<1> DEFINE delay == IF opening = "awaited" THEN NoTime ELSE RetryDelay
<1>1. /\ UNCHANGED <<key, mem, session, clockVars, flights, deadline, used, served>>
      /\ loading' = FALSE /\ completed' = FALSE /\ opening' \in {"awaited", "superseded", "over"}
      /\ ScheduleAutoRefresh(watched, delay)
  BY DEF LoadFails, LoadEnds, IInv, Load
<1>2. /\ timerAt' \in Nat \cup {NoTime}
      /\ timerAt' # NoTime =>
            \A exp \in used :
               timerAt' <= exp \/ timerAt' <= now + (IF delay = NoTime THEN 0 ELSE delay)
  BY <1>1, Scheduling
<1>3. now + (IF delay = NoTime THEN 0 ELSE delay) <= now + RetryDelay
      /\ now + (IF delay = NoTime THEN 0 ELSE delay) \in Nat /\ now + RetryDelay \in Nat
  BY Types, CacheAssumption
<1> HIDE DEF delay
<1>4. timerAt' # NoTime => \A exp \in used : timerAt' <= exp \/ timerAt' <= now + RetryDelay
  BY <1>2, <1>3
<1>5. RefreshInTime'
  BY <1>1, <1>4 DEF RefreshInTime, clockVars
<1> QED
  BY <1>1, <1>2, <1>5, TimedStep

LEMMA StartAutoRefreshStep ==
  ASSUME IInv, NEW watched \in BOOLEAN, StartAutoRefresh(watched)
  PROVE  IInv'
<1>1. /\ UNCHANGED <<key, mem, session, clockVars, flights, loading, completed, deadline,
                      used, served>>
      /\ opening' = "over" /\ ScheduleAutoRefresh(watched, NoTime)
  BY DEF StartAutoRefresh
<1>2. /\ timerAt' \in Nat \cup {NoTime}
      /\ timerAt' # NoTime => \A exp \in used : timerAt' <= exp \/ timerAt' <= now + 0
  BY <1>1, Scheduling
<1>3. now + 0 = now /\ now <= now + RetryDelay /\ now + RetryDelay \in Nat /\ now \in Nat
  BY Types, CacheAssumption
<1>4. timerAt' # NoTime =>
          \A exp \in used :
             timerAt' <= exp \/ timerAt' <= now + (IF completed THEN 0 ELSE RetryDelay)
  BY <1>2, <1>3
<1>5. RefreshInTime'
  BY <1>1, <1>4 DEF RefreshInTime, clockVars
<1> QED
  BY <1>1, <1>2, <1>5, TimedStep DEF IInv, Load

LEMMA HideStep == IInv /\ Hide => IInv'
<1> SUFFICES ASSUME IInv, Hide PROVE IInv'
  OBVIOUS
<1>1. RefreshInTime'
  BY DEF Hide, RefreshInTime
<1> QED
  BY <1>1, TimedStep DEF Hide, IInv, Load

LEMMA TickStep == IInv /\ Tick => IInv'
<1> SUFFICES ASSUME IInv, Tick PROVE IInv'
  OBVIOUS
<1>1. /\ now < MaxTime /\ now' = now + 1
      /\ UNCHANGED <<key, mem, session, full, clears, flights, loadVars, deadline, used, served>>
  BY DEF Tick
<1>2. now' \in Nat /\ now <= now' /\ now' \in 1..MaxTime
  BY <1>1, Types, CacheAssumption
<1>3. Clock' /\ Requests' /\ Answers'
  BY <1>1, <1>2 DEF IInv, Clock, Requests, Answers, ServedIsOwn, ClearForgets
<1>4. ToSet(mem') \subseteq ToSet(mem) /\ Distinct(mem') /\ TiersAgree'
  BY <1>1 DEF IInv, Store, Distinct, TiersAgree
<1>5. Store'
  BY <1>1, <1>2, <1>4, Moving DEF IInv, Store
<1>6. RefreshInTime'
  <2> DEFINE late == IF completed THEN 0 ELSE RetryDelay
  <2>1. late \in Nat
    BY CacheAssumption
  <2> SUFFICES ASSUME ~loading, timerAt # NoTime, NEW exp \in used
               PROVE  timerAt <= exp \/ timerAt <= now' + late
    BY <1>1 DEF RefreshInTime, loadVars
  <2>2. timerAt <= exp \/ timerAt <= now + late
    BY DEF IInv, Load, RefreshInTime
  <2> HIDE DEF late
  <2>3. timerAt \in Nat
    BY DEF IInv, Load
  <2> QED
    BY <1>1, <2>1, <2>2, <2>3, Types
<1>7. Load'
  BY <1>1, <1>6 DEF IInv, Load, loadVars
<1> QED
  BY <1>3, <1>5, <1>7 DEF IInv

LEMMA NextIInv == IInv /\ [Next]_vars => IInv'
<1> SUFFICES ASSUME IInv, [Next]_vars PROVE IInv'
  OBVIOUS
<1>1. ASSUME NEW p \in Paths, NEW force \in BOOLEAN, LookupMem(p, force) PROVE IInv'
  BY <1>1, LookupMemStep
<1>2. ASSUME NEW p \in Paths, NEW force \in BOOLEAN, LookupSession(p, force) PROVE IInv'
  BY <1>2, LookupSessionStep
<1>3. ASSUME NEW f \in flights, Answered(f) PROVE IInv'
  BY <1>3, AnsweredStep
<1>4. ASSUME NEW f \in flights, Failed(f) PROVE IInv'
  BY <1>4 DEF Failed, loadVars, IInv, Clock, Requests, Load, Answers, Store, Owned, Distinct, TiersAgree,
              RefreshInTime, ServedIsOwn, ClearForgets, clockVars
<1>5. CASE ClearAfterSave
  BY <1>5, ClearedStep DEF ClearAfterSave, IInv, Clock, Load, loadVars
<1>6. CASE LoseKey
  BY <1>6, ClearedStep DEF LoseKey, IInv, Load, loadVars
<1>7. ASSUME NEW k \in Keys, SaveKey(k) PROVE IInv'
  BY <1>7, ClearedStep DEF SaveKey, LoadBegins, IInv, Load
<1>8. CASE StartLoad \/ ActivateRange \/ Reload
  BY <1>8, StartStep
<1>9. ASSUME NEW watched \in BOOLEAN,
             LoadCompletes(watched) \/ LoadFails(watched) \/ StartAutoRefresh(watched)
      PROVE  IInv'
  BY <1>9, LoadCompletesStep, LoadFailsStep, StartAutoRefreshStep
<1>10. CASE Hide \/ Tick
  BY <1>10, HideStep, TickStep
<1>11. CASE UNCHANGED vars
  BY <1>11 DEF vars, loadVars, IInv, Clock, Requests, Load, Answers, Store, Owned, Distinct, TiersAgree,
               RefreshInTime, ServedIsOwn, ClearForgets
<1> QED
  BY <1>1, <1>2, <1>3, <1>4, <1>5, <1>6, <1>7, <1>8, <1>9, <1>10, <1>11 DEF Next
-----------------------------------------------------------------------------
(* The theorems.                                                           *)

\* Entries belong to their key and to the time since the last clear, requests to the key they
\* were sent with, and the deadline is not after what the load has met (cached in app.js).
THEOREM BrowserCacheInvariant == Spec => []IInv
BY InitIInv, NextIInv, PTL DEF Spec

\* What the cache serves was received for the same key less than a TTL ago, and stored since
\* the last clear, from either tier and through any change of key or reload.
THEOREM ServedCorrect == Spec => []ServedIsValid
<1>1. IInv => ServedIsValid
  BY Consequences
<1> QED
  BY <1>1, BrowserCacheInvariant, PTL

\* While sessionStorage takes entries, the Map never holds one that is not also there.
THEOREM TiersCorrect == Spec => []TiersAgree
<1>1. IInv => TiersAgree
  BY Consequences
<1> QED
  BY <1>1, BrowserCacheInvariant, PTL

\* The timer of the automatic refresh is due before anything displayed expires, or at once;
\* after a load that failed it is due within the delay of the retry (scheduleAutoRefresh and
\* the finally of loadActivePage in app.js).
THEOREM RefreshCorrect == Spec => []RefreshInTime
<1>1. IInv => RefreshInTime
  BY Consequences
<1> QED
  BY <1>1, BrowserCacheInvariant, PTL
=============================================================================
