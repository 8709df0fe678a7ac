------------------------ MODULE BlockHashCacheProofs ------------------------
(***************************************************************************)
(* The properties of BlockHashCache for every set of hashes, every         *)
(* capacity and every history.                                             *)
(***************************************************************************)
EXTENDS BlockHashCache, SequenceTheorems, TLAPS

Distinct(s) == \A i, j \in 1..Len(s) : s[i] = s[j] => i = j

(***************************************************************************)
(* Dropping the i-th of distinct keys leaves the others, still distinct.   *)
(***************************************************************************)
LEMMA RemoveAtProperties ==
  ASSUME NEW S, NEW s \in Seq(S), NEW i \in 1..Len(s), Distinct(s)
  PROVE  /\ RemoveAt(s, i) \in Seq(S)
         /\ Len(RemoveAt(s, i)) = Len(s) - 1
         /\ Distinct(RemoveAt(s, i))
         /\ ToSet(RemoveAt(s, i)) = ToSet(s) \ {s[i]}
<1> DEFINE a == SubSeq(s, 1, i - 1)
           b == SubSeq(s, i + 1, Len(s))
           r == RemoveAt(s, i)
<1>1. /\ Len(s) \in Nat /\ DOMAIN s = 1..Len(s)
      /\ \A j \in 1..Len(s) : s[j] \in S
  BY LenProperties
<1>2. /\ a \in Seq(S) /\ Len(a) = i - 1
      /\ \A j \in 1..i - 1 : a[j] = s[j]
  <2>1. \A j \in 1..i - 1 : s[j] \in S
    BY <1>1
  <2>2. QED
    BY <1>1, <2>1, SubSeqProperties
<1>3. /\ b \in Seq(S) /\ Len(b) = Len(s) - i
      /\ \A j \in 1..Len(s) - i : b[j] = s[i + j]
  <2>1. \A j \in i + 1..Len(s) : s[j] \in S
    BY <1>1
  <2>2. /\ b \in Seq(S)
        /\ Len(b) = IF i + 1 <= Len(s) THEN Len(s) - (i + 1) + 1 ELSE 0
        /\ \A j \in 1..Len(s) - (i + 1) + 1 : b[j] = s[(i + 1) + j - 1]
    <3>1. i + 1 \in Int /\ Len(s) \in Int
      BY <1>1
    <3>2. QED
      BY <2>1, <3>1, SubSeqProperties
  <2>3. Len(s) - (i + 1) + 1 = Len(s) - i
    BY <1>1
  <2>4. \A j \in 1..Len(s) - i : (i + 1) + j - 1 = i + j
    BY <1>1
  <2>5. Len(b) = Len(s) - i
    <3> HIDE DEF b
    <3>1. i \in Int /\ Len(s) \in Int /\ i <= Len(s)
      BY <1>1
    <3>2. CASE i + 1 <= Len(s)
      BY <2>2, <2>3, <3>2
    <3>3. CASE ~(i + 1 <= Len(s))
      BY <2>2, <3>1, <3>3
    <3>4. QED
      BY <3>2, <3>3
  <2>6. QED
    <3> HIDE DEF b
    <3> QED
      BY <2>2, <2>3, <2>4, <2>5
<1> HIDE DEF a, b, r
<1>4. /\ r \in Seq(S)
      /\ Len(r) = Len(s) - 1
      /\ \A j \in 1..Len(s) - 1 : r[j] = IF j < i THEN s[j] ELSE s[j + 1]
  <2>1. /\ a \o b \in Seq(S)
        /\ Len(a \o b) = Len(a) + Len(b)
        /\ \A j \in 1..Len(a) + Len(b) :
             (a \o b)[j] = IF j <= Len(a) THEN a[j] ELSE b[j - Len(a)]
    BY <1>2, <1>3, ConcatProperties
  <2>2. r = a \o b
    BY DEF RemoveAt, a, b, r
  <2>3. Len(a) + Len(b) = Len(s) - 1
    BY <1>1, <1>2, <1>3
  <2>4. ASSUME NEW j \in 1..Len(s) - 1
        PROVE  r[j] = IF j < i THEN s[j] ELSE s[j + 1]
    <3>1. r[j] = IF j <= i - 1 THEN a[j] ELSE b[j - (i - 1)]
      BY <1>2, <2>1, <2>2, <2>3
    <3>2. CASE j < i
      BY <1>1, <1>2, <3>1, <3>2
    <3>3. CASE ~(j < i)
      <4>1. /\ j - (i - 1) \in 1..Len(s) - i
            /\ i + (j - (i - 1)) = j + 1
            /\ ~(j <= i - 1)
        BY <1>1, <3>3
      <4>2. QED
        BY <1>3, <3>1, <3>3, <4>1
    <3>4. QED
      BY <3>2, <3>3
  <2>5. QED
    BY <2>1, <2>2, <2>3, <2>4
<1>5. Distinct(r)
  BY <1>1, <1>4 DEF Distinct
<1>6. DOMAIN r = 1..Len(r)
  BY <1>4, LenProperties
<1>7. ToSet(r) = ToSet(s) \ {s[i]}
  <2>1. ASSUME NEW x \in ToSet(r)
        PROVE  x \in ToSet(s) /\ x # s[i]
    BY <1>1, <1>4, <1>6 DEF ToSet, Distinct
  <2>2. ASSUME NEW x \in ToSet(s), x # s[i]
        PROVE  x \in ToSet(r)
    <3>1. PICK j \in 1..Len(s) : x = s[j]
      BY <1>1 DEF ToSet
    <3>2. CASE j < i
      BY <1>1, <1>4, <1>6, <3>1, <3>2 DEF ToSet
    <3>3. CASE j > i
      <4>1. j - 1 \in 1..Len(s) - 1 /\ ~(j - 1 < i) /\ (j - 1) + 1 = j
        BY <1>1, <3>3
      <4>2. r[j - 1] = x
        BY <1>4, <3>1, <4>1
      <4>3. QED
        BY <1>4, <1>6, <4>1, <4>2 DEF ToSet
    <3>4. QED
      BY <2>2, <3>1, <3>2, <3>3, <1>1
  <2>3. QED
    BY <2>1, <2>2
<1>8. QED
  BY <1>4, <1>5, <1>7 DEF r

(***************************************************************************)
(* Appending a fresh key to distinct keys.                                 *)
(***************************************************************************)
LEMMA AppendFresh ==
  ASSUME NEW S, NEW s \in Seq(S), NEW k \in S, Distinct(s), k \notin ToSet(s)
  PROVE  /\ Append(s, k) \in Seq(S)
         /\ Len(Append(s, k)) = Len(s) + 1
         /\ Distinct(Append(s, k))
         /\ ToSet(Append(s, k)) = ToSet(s) \cup {k}
<1> DEFINE t == Append(s, k)
<1>1. /\ Len(s) \in Nat /\ DOMAIN s = 1..Len(s)
  BY LenProperties
<1>2. /\ t \in Seq(S) /\ Len(t) = Len(s) + 1
      /\ \A i \in 1..Len(s) : t[i] = s[i]
      /\ t[Len(s) + 1] = k
  BY AppendProperties
<1>3. DOMAIN t = 1..Len(s) + 1
  BY <1>2, LenProperties
<1> HIDE DEF t
<1>4. \A i \in 1..Len(s) : t[i] # k
  BY <1>1, <1>2 DEF ToSet
<1>5. Distinct(t)
  <2> SUFFICES ASSUME NEW i \in 1..Len(s) + 1, NEW j \in 1..Len(s) + 1, t[i] = t[j]
               PROVE  i = j
    BY <1>2 DEF Distinct
  <2>1. CASE i \in 1..Len(s) /\ j \in 1..Len(s)
    BY <1>2, <2>1 DEF Distinct
  <2>2. CASE i = Len(s) + 1 \/ j = Len(s) + 1
    BY <1>1, <1>2, <1>4, <2>2
  <2>3. QED
    BY <1>1, <2>1, <2>2
<1>6. ToSet(t) = ToSet(s) \cup {k}
  <2>1. \A x \in ToSet(t) : x \in ToSet(s) \cup {k}
    BY <1>1, <1>2, <1>3 DEF ToSet
  <2>2. \A x \in ToSet(s) \cup {k} : x \in ToSet(t)
    BY <1>1, <1>2, <1>3 DEF ToSet
  <2>3. QED
    BY <2>1, <2>2
<1>7. QED
  BY <1>2, <1>5, <1>6 DEF t

(***************************************************************************)
(* insert_and_get_evicted: the list stays duplicate free and bounded, ends *)
(* up with exactly the old keys but the evicted one, and the new key; it   *)
(* evicts only when it is full, and then its oldest key.                   *)
(***************************************************************************)
LEMMA LruInsertProperties ==
  ASSUME NEW keys \in Seq(Hashes), NEW k \in Hashes,
         Distinct(keys), Len(keys) <= Limit
  PROVE  /\ LruInsert(keys, k) \in Seq(Hashes)
         /\ Distinct(LruInsert(keys, k))
         /\ Len(LruInsert(keys, k)) <= Limit
         /\ ToSet(LruInsert(keys, k)) = (ToSet(keys) \ {Evicted(keys, k)}) \cup {k}
         /\ Evicted(keys, k) # None =>
              /\ Evicted(keys, k) \in ToSet(keys)
              /\ Evicted(keys, k) # k
              /\ Evicted(keys, k) = Head(keys)
              /\ Len(keys) = Limit
<1>1. /\ Len(keys) \in Nat /\ DOMAIN keys = 1..Len(keys)
      /\ \A i \in 1..Len(keys) : keys[i] \in Hashes
  BY LenProperties
<1>2. ToSet(keys) \subseteq Hashes
  BY <1>1 DEF ToSet
<1>3. CASE k \in ToSet(keys)
  <2> DEFINE i == IndexOf(keys, k)
             r == RemoveAt(keys, i)
  <2>1. i \in 1..Len(keys) /\ keys[i] = k
    BY <1>1, <1>3 DEF IndexOf, ToSet
  <2> HIDE DEF i
  <2>2. /\ r \in Seq(Hashes)
        /\ Len(r) = Len(keys) - 1
        /\ Distinct(r)
        /\ ToSet(r) = ToSet(keys) \ {k}
    BY <2>1, RemoveAtProperties
  <2>3. LruInsert(keys, k) = Append(r, k) /\ Evicted(keys, k) = None
    BY <1>3 DEF LruInsert, Evicted, i
  <2> HIDE DEF r
  <2>4. /\ Append(r, k) \in Seq(Hashes)
        /\ Len(Append(r, k)) = Len(r) + 1
        /\ Distinct(Append(r, k))
        /\ ToSet(Append(r, k)) = ToSet(r) \cup {k}
    BY <2>2, AppendFresh
  <2>5. None \notin ToSet(keys)
    BY <1>2, NoneAssumption
  <2>6. Len(Append(r, k)) <= Limit
    BY <1>1, <2>2, <2>4, LimitAssumption
  <2>7. QED
    BY <1>3, <2>2, <2>3, <2>4, <2>5, <2>6
<1>4. CASE k \notin ToSet(keys) /\ Len(keys) >= Limit
  <2>1. Len(keys) = Limit /\ keys # <<>>
    <3>1. Len(keys) = Limit
      <4> DEFINE n == Len(keys)
      <4>1. n \in Int /\ Limit \in Int /\ n <= Limit /\ n >= Limit
        BY <1>1, <1>4, LimitAssumption
      <4> HIDE DEF n
      <4>2. n = Limit
        BY <4>1
      <4>3. QED
        BY <4>2 DEF n
    <3>2. Len(keys) # 0
      BY <3>1, LimitAssumption
    <3>3. QED
      BY <3>1, <3>2, EmptySeq
  <2>2. 1 \in 1..Len(keys) /\ Head(keys) = keys[1]
    BY <1>1, <2>1, LimitAssumption
  <2>3. Tail(keys) = RemoveAt(keys, 1)
    <3>1. Tail(keys) = SubSeq(keys, 2, Len(keys))
      BY <2>1, TailIsSubSeq
    <3>2. SubSeq(keys, 1, 1 - 1) = <<>>
      BY SubSeqEmpty
    <3>3. SubSeq(keys, 2, Len(keys)) \in Seq(Hashes)
      BY <2>1, <3>1, HeadTailProperties
    <3>4. <<>> \o SubSeq(keys, 2, Len(keys)) = SubSeq(keys, 2, Len(keys))
      BY <3>3, ConcatEmptySeq
    <3>5. 1 + 1 = 2
      OBVIOUS
    <3>6. QED
      BY <3>1, <3>2, <3>4, <3>5 DEF RemoveAt
  <2>4. /\ Tail(keys) \in Seq(Hashes)
        /\ Len(Tail(keys)) = Len(keys) - 1
        /\ Distinct(Tail(keys))
        /\ ToSet(Tail(keys)) = ToSet(keys) \ {Head(keys)}
    <3>1. /\ RemoveAt(keys, 1) \in Seq(Hashes)
          /\ Len(RemoveAt(keys, 1)) = Len(keys) - 1
          /\ Distinct(RemoveAt(keys, 1))
          /\ ToSet(RemoveAt(keys, 1)) = ToSet(keys) \ {keys[1]}
      BY <2>2, RemoveAtProperties
    <3>2. QED
      BY <2>2, <2>3, <3>1
  <2>5. LruInsert(keys, k) = Append(Tail(keys), k) /\ Evicted(keys, k) = Head(keys)
    BY <1>4 DEF LruInsert, Evicted
  <2>6. Head(keys) \in ToSet(keys)
    BY <1>1, <2>2 DEF ToSet
  <2>7. /\ Append(Tail(keys), k) \in Seq(Hashes)
        /\ Len(Append(Tail(keys), k)) = Len(Tail(keys)) + 1
        /\ Distinct(Append(Tail(keys), k))
        /\ ToSet(Append(Tail(keys), k)) = ToSet(Tail(keys)) \cup {k}
    <3> DEFINE t == Tail(keys)
    <3>1. t \in Seq(Hashes) /\ Distinct(t) /\ k \notin ToSet(t)
      BY <1>4, <2>4
    <3> HIDE DEF t
    <3>2. /\ Append(t, k) \in Seq(Hashes)
          /\ Len(Append(t, k)) = Len(t) + 1
          /\ Distinct(Append(t, k))
          /\ ToSet(Append(t, k)) = ToSet(t) \cup {k}
      BY <3>1, AppendFresh
    <3>3. QED
      BY <3>2 DEF t
  <2>8. Len(Append(Tail(keys), k)) <= Limit
    BY <1>1, <2>1, <2>4, <2>7, LimitAssumption
  <2>9. QED
    BY <1>4, <2>1, <2>4, <2>5, <2>6, <2>7, <2>8
<1>5. CASE k \notin ToSet(keys) /\ ~(Len(keys) >= Limit)
  <2>1. LruInsert(keys, k) = Append(keys, k) /\ Evicted(keys, k) = None
    BY <1>5 DEF LruInsert, Evicted
  <2>2. /\ Append(keys, k) \in Seq(Hashes)
        /\ Len(Append(keys, k)) = Len(keys) + 1
        /\ Distinct(Append(keys, k))
        /\ ToSet(Append(keys, k)) = ToSet(keys) \cup {k}
    BY <1>5, AppendFresh
  <2>3. Len(Append(keys, k)) <= Limit
    BY <1>1, <1>5, <2>2, LimitAssumption
  <2>4. None \notin ToSet(keys)
    BY <1>2, NoneAssumption
  <2>5. QED
    BY <2>1, <2>2, <2>3, <2>4
<1>6. QED
  BY <1>3, <1>4, <1>5
-----------------------------------------------------------------------------
(* A hash is only ever cached with its own number. *)
LeftValues == \A k \in Hashes : cache.left_to_right[k] \in {None, NumberOf[k]}

(* The inductive invariant. *)
IInv == TypeOK /\ KeysTracked /\ LeftValues /\ ReverseSound

(* The three assignments that end insert. *)
LEMMA WriteEntries ==
  ASSUME NEW m \in BiMap, NEW h \in Hashes, NEW v \in Numbers, NEW L \in Seq(Hashes)
  PROVE  LET n == [left_to_right |-> [m.left_to_right EXCEPT ![h] = v],
                   right_to_left |-> [m.right_to_left EXCEPT ![v] = h],
                   lru_keys |-> L]
         IN  /\ n \in BiMap
             /\ n.lru_keys = L
             /\ \A k \in Hashes :
                  n.left_to_right[k] = IF k = h THEN v ELSE m.left_to_right[k]
             /\ \A w \in Numbers :
                  n.right_to_left[w] = IF w = v THEN h ELSE m.right_to_left[w]
<1> DEFINE l == m.left_to_right
           r == m.right_to_left
<1>1. l \in [Hashes -> Numbers \cup {None}] /\ r \in [Numbers -> Hashes \cup {None}]
  BY DEF BiMap
<1> HIDE DEF l, r
<1>2. /\ [l EXCEPT ![h] = v] \in [Hashes -> Numbers \cup {None}]
      /\ [r EXCEPT ![v] = h] \in [Numbers -> Hashes \cup {None}]
  BY <1>1
<1>3. QED
  BY <1>1, <1>2 DEF BiMap, l, r

(* evict forgets a cached key and the reverse entry of its number. *)
LEMMA EvictEffect ==
  ASSUME NEW m \in BiMap, NEW e \in Hashes, m.left_to_right[e] \in Numbers
  PROVE  LET n == evict(m, e)
         IN  /\ n \in BiMap
             /\ \A k \in Hashes :
                  n.left_to_right[k] = IF k = e THEN None ELSE m.left_to_right[k]
             /\ \A w \in Numbers :
                  n.right_to_left[w] =
                    IF w = m.left_to_right[e] THEN None ELSE m.right_to_left[w]
<1> DEFINE n == evict(m, e)
           l == m.left_to_right
           r == m.right_to_left
           v == l[e]
<1>1. l \in [Hashes -> Numbers \cup {None}] /\ r \in [Numbers -> Hashes \cup {None}]
  BY DEF BiMap
<1>2. v \in Numbers /\ v # None
  BY NoneAssumption
<1>3. n = [m EXCEPT !.left_to_right[e] = None, !.right_to_left[v] = None]
  BY <1>2 DEF evict
<1>4. n = [left_to_right |-> [l EXCEPT ![e] = None],
           right_to_left |-> [r EXCEPT ![v] = None],
           lru_keys |-> m.lru_keys]
  <2> HIDE DEF v, n
  <2> QED
    BY <1>3 DEF BiMap
<1>5. m.lru_keys \in Seq(Hashes)
  BY DEF BiMap
<1> HIDE DEF n, l, r, v
<1>6. /\ [l EXCEPT ![e] = None] \in [Hashes -> Numbers \cup {None}]
      /\ [r EXCEPT ![v] = None] \in [Numbers -> Hashes \cup {None}]
  BY <1>1
<1>7. n \in BiMap
  BY <1>4, <1>5, <1>6 DEF BiMap
<1>8. QED
  BY <1>1, <1>2, <1>4, <1>7 DEF n, l, r, v

(***************************************************************************)
(* What one insertion does to the three parts of the map, in a state of    *)
(* the invariant: the evicted key's two entries go, the new ones come.     *)
(***************************************************************************)
LEMMA InsertEffect ==
  ASSUME IInv, NEW h \in Hashes
  PROVE  LET e == Evicted(cache.lru_keys, h)
             n == insert(cache, h, NumberOf[h])
         IN  /\ n \in BiMap
             /\ n.lru_keys = LruInsert(cache.lru_keys, h)
             /\ \A k \in Hashes : n.left_to_right[k] =
                  IF k = h THEN NumberOf[h]
                  ELSE IF k = e THEN None ELSE cache.left_to_right[k]
             /\ \A v \in Numbers : n.right_to_left[v] =
                  IF v = NumberOf[h] THEN h
                  ELSE IF e # None /\ v = NumberOf[e] THEN None
                  ELSE cache.right_to_left[v]
<1> DEFINE e == Evicted(cache.lru_keys, h)
           L == LruInsert(cache.lru_keys, h)
           m == IF e = None THEN cache ELSE evict(cache, e)
           n == insert(cache, h, NumberOf[h])
<1>1. cache \in BiMap /\ cache.lru_keys \in Seq(Hashes)
  BY DEF IInv, TypeOK, BiMap
<1>2. Distinct(cache.lru_keys) /\ Len(cache.lru_keys) <= Limit
  BY DEF IInv, TypeOK, KeysTracked, Distinct
<1>3. /\ L \in Seq(Hashes)
      /\ e # None => e \in ToSet(cache.lru_keys)
  BY <1>1, <1>2, LruInsertProperties
<1>4. NumberOf[h] \in Numbers
  BY NumberOfAssumption
<1>5. n = [left_to_right |-> [m.left_to_right EXCEPT ![h] = NumberOf[h]],
           right_to_left |-> [m.right_to_left EXCEPT ![NumberOf[h]] = h],
           lru_keys |-> L]
  BY DEF insert
<1> HIDE DEF e, n, L, m
<1>6. /\ m \in BiMap
      /\ \A k \in Hashes :
           m.left_to_right[k] = IF k = e THEN None ELSE cache.left_to_right[k]
      /\ \A v \in Numbers :
           m.right_to_left[v] = IF e # None /\ v = NumberOf[e]
                                THEN None ELSE cache.right_to_left[v]
  <2>1. CASE e = None
    <3>1. m = cache /\ \A k \in Hashes : k # e
      BY <2>1, NoneAssumption DEF m
    <3>2. QED
      BY <1>1, <2>1, <3>1
  <2>2. CASE e # None
    <3>1. e \in Hashes /\ cache.left_to_right[e] = NumberOf[e]
      BY <1>3, <2>2 DEF IInv, KeysTracked, LeftValues, Cached
    <3>2. NumberOf[e] \in Numbers
      BY <3>1, NumberOfAssumption
    <3>3. m = evict(cache, e)
      BY <2>2 DEF m
    <3>4. QED
      BY <1>1, <2>2, <3>1, <3>2, <3>3, EvictEffect
  <2>3. QED
    BY <2>1, <2>2
<1>7. /\ n \in BiMap
      /\ n.lru_keys = L
      /\ \A k \in Hashes :
           n.left_to_right[k] = IF k = h THEN NumberOf[h] ELSE m.left_to_right[k]
      /\ \A w \in Numbers :
           n.right_to_left[w] = IF w = NumberOf[h] THEN h ELSE m.right_to_left[w]
  BY <1>3, <1>4, <1>5, <1>6, WriteEntries
<1>8. QED
  BY <1>6, <1>7 DEF e, n, L

(* The invariant is inductive. *)
LEMMA IInvInitially == Init => IInv
<1> SUFFICES ASSUME Init PROVE IInv
  OBVIOUS
<1>1. /\ cache = new /\ inserted = <<>>
      /\ cache.lru_keys = <<>> /\ Len(<<>>) = 0 /\ ToSet(cache.lru_keys) = {}
      /\ \A k \in Hashes : cache.left_to_right[k] = None
      /\ \A v \in Numbers : cache.right_to_left[v] = None
  BY DEF Init, new, ToSet
<1>2. TypeOK
  BY <1>1, MaxInsertsAssumption, LimitAssumption DEF TypeOK, new, BiMap
<1>3. KeysTracked
  BY <1>1 DEF KeysTracked, Cached
<1>4. LeftValues /\ ReverseSound
  BY <1>1 DEF LeftValues, ReverseSound
<1>5. QED
  BY <1>2, <1>3, <1>4 DEF IInv

LEMMA IInvPreserved == IInv /\ [Next]_vars => IInv'
<1> SUFFICES ASSUME IInv, [Next]_vars PROVE IInv'
  OBVIOUS
<1>1. ASSUME NEW h \in Hashes, Insert(h)
      PROVE  IInv'
  <2> DEFINE e == Evicted(cache.lru_keys, h)
  <2>1. cache' = insert(cache, h, NumberOf[h])
    BY <1>1 DEF Insert
  <2>2. /\ cache' \in BiMap
        /\ cache'.lru_keys = LruInsert(cache.lru_keys, h)
        /\ \A k \in Hashes : cache'.left_to_right[k] =
             IF k = h THEN NumberOf[h]
             ELSE IF k = e THEN None ELSE cache.left_to_right[k]
        /\ \A v \in Numbers : cache'.right_to_left[v] =
             IF v = NumberOf[h] THEN h
             ELSE IF e # None /\ v = NumberOf[e] THEN None
             ELSE cache.right_to_left[v]
    BY <2>1, InsertEffect
  <2>3. cache.lru_keys \in Seq(Hashes) /\ Distinct(cache.lru_keys)
        /\ Len(cache.lru_keys) <= Limit
        /\ ToSet(cache.lru_keys) = Cached(cache)
    BY DEF IInv, TypeOK, BiMap, KeysTracked, Distinct
  <2>4. /\ Distinct(cache'.lru_keys)
        /\ Len(cache'.lru_keys) <= Limit
        /\ ToSet(cache'.lru_keys) = (Cached(cache) \ {e}) \cup {h}
        /\ e # None => e \in Cached(cache) /\ e # h
    BY <2>2, <2>3, LruInsertProperties
  <2>5. /\ NumberOf[h] \in Numbers /\ NumberOf[h] # None
        /\ \A k \in Hashes : NumberOf[k] \in Numbers
    BY NumberOfAssumption, NoneAssumption
  <2> HIDE DEF e
  <2>6. TypeOK'
    <3>1. Append(inserted, h) \in Seq(Hashes) /\ Len(Append(inserted, h)) = Len(inserted) + 1
      BY AppendProperties DEF IInv, TypeOK
    <3>2. Len(inserted) \in Nat /\ Len(inserted) < MaxInserts
      BY <1>1, LenProperties DEF Insert, IInv, TypeOK
    <3>3. QED
      BY <1>1, <2>2, <2>4, <3>1, <3>2, MaxInsertsAssumption DEF TypeOK, Insert
  <2>7. KeysTracked'
    <3>1. Cached(cache') = (Cached(cache) \ {e}) \cup {h}
      BY <2>2, <2>5 DEF Cached
    <3>2. QED
      BY <2>4, <3>1 DEF KeysTracked, Distinct
  <2>8. LeftValues'
    BY <2>2, <2>5 DEF LeftValues, IInv
  <2>9. ReverseSound'
    <3> SUFFICES ASSUME NEW v \in Numbers, cache'.right_to_left[v] # None
                 PROVE  cache'.left_to_right[cache'.right_to_left[v]] = v
      BY DEF ReverseSound
    <3>1. CASE v = NumberOf[h]
      BY <2>2, <3>1
    <3>2. CASE v # NumberOf[h]
      <4> DEFINE k == cache.right_to_left[v]
      <4>1. /\ ~(e # None /\ v = NumberOf[e])
            /\ cache'.right_to_left[v] = k
            /\ k # None
        BY <2>2, <3>2
      <4>2. k \in Hashes /\ cache.left_to_right[k] = v
        BY <4>1 DEF IInv, ReverseSound, TypeOK, BiMap
      <4>3. v # None
        BY NoneAssumption
      <4>4. v = NumberOf[k]
        BY <4>2, <4>3 DEF IInv, LeftValues
      <4>5. k # h /\ k # e
        BY <3>2, <4>1, <4>4
      <4>6. QED
        BY <2>2, <4>1, <4>2, <4>5
    <3>3. QED
      BY <3>1, <3>2
  <2>10. QED
    BY <2>6, <2>7, <2>8, <2>9 DEF IInv
<1>2. CASE UNCHANGED vars
  BY <1>2 DEF vars, IInv, TypeOK, KeysTracked, LeftValues, ReverseSound, Cached
<1>3. QED
  BY <1>1, <1>2 DEF Next

LEMMA IInvAlways == Spec => []IInv
BY IInvInitially, IInvPreserved, PTL DEF Spec

(***************************************************************************)
(* The two maps and the LRU list of the cache always have their types, and *)
(* no sequence of inserts makes the list longer than its limit.            *)
(***************************************************************************)
THEOREM TypeCorrect == Spec => []TypeOK
<1>1. IInv => TypeOK
  BY DEF IInv
<1>2. QED
  BY <1>1, IInvAlways, PTL

(***************************************************************************)
(* The reverse lookup of a number never returns a hash that the cache does *)
(* not hold with that number, whatever hashes the sources deliver.         *)
(***************************************************************************)
THEOREM ReverseLookupSound == Spec => []ReverseSound
<1>1. IInv => ReverseSound
  BY DEF IInv
<1>2. QED
  BY <1>1, IInvAlways, PTL

(***************************************************************************)
(* The LRU list and the hash map hold the same hashes, so that its limit   *)
(* is one of both: nothing leaks, nothing is evicted twice.                *)
(***************************************************************************)
THEOREM CacheBounded == Spec => []KeysTracked
<1>1. IInv => KeysTracked
  BY DEF IInv
<1>2. QED
  BY <1>1, IInvAlways, PTL

(* An uncontested hash, while cached, is found under its number. *)
LeftFound ==
  \A k \in Cached(cache) \cap Uncontested : cache.right_to_left[NumberOf[k]] = k

(***************************************************************************)
(* For a hash whose number no other hash claims, the two maps are each     *)
(* other's inverse.  Beyond IInv this needs that such a hash, once cached, *)
(* is found under its number until it is evicted.                          *)
(***************************************************************************)
THEOREM BothDirectionsAgree == Spec => []InverseMaps
<1>1. Init => LeftFound
  BY DEF Init, new, LeftFound, Cached
<1>2. IInv /\ LeftFound /\ [Next]_vars => LeftFound'
  <2> SUFFICES ASSUME IInv, LeftFound, [Next]_vars PROVE LeftFound'
    OBVIOUS
  <2>1. ASSUME NEW h \in Hashes, Insert(h)
        PROVE  LeftFound'
    <3> DEFINE e == Evicted(cache.lru_keys, h)
    <3>1. cache' = insert(cache, h, NumberOf[h])
      BY <2>1 DEF Insert
    <3>2. /\ \A k \in Hashes : cache'.left_to_right[k] =
               IF k = h THEN NumberOf[h]
               ELSE IF k = e THEN None ELSE cache.left_to_right[k]
          /\ \A v \in Numbers : cache'.right_to_left[v] =
               IF v = NumberOf[h] THEN h
               ELSE IF e # None /\ v = NumberOf[e] THEN None
               ELSE cache.right_to_left[v]
      BY <3>1, InsertEffect
    <3>3. cache.lru_keys \in Seq(Hashes) /\ Distinct(cache.lru_keys)
          /\ Len(cache.lru_keys) <= Limit
          /\ ToSet(cache.lru_keys) = Cached(cache)
      BY DEF IInv, TypeOK, BiMap, KeysTracked, Distinct
    <3>4. e # None => e \in Hashes
      BY <3>3, LruInsertProperties DEF Cached
    <3> HIDE DEF e
    <3> SUFFICES ASSUME NEW k \in Hashes, cache'.left_to_right[k] # None, k \in Uncontested
                 PROVE  cache'.right_to_left[NumberOf[k]] = k
      BY DEF LeftFound, Cached, Uncontested
    <3>5. NumberOf[k] \in Numbers
      BY NumberOfAssumption
    <3>6. CASE k = h
      BY <3>2, <3>5, <3>6
    <3>7. CASE k # h
      <4>1. k # e /\ k \in Cached(cache)
        BY <3>2, <3>7 DEF Cached
      <4>2. NumberOf[k] # NumberOf[h] /\ ~(e # None /\ NumberOf[k] = NumberOf[e])
        BY <3>4, <3>7, <4>1 DEF Uncontested
      <4>3. QED
        BY <3>2, <3>5, <4>1, <4>2 DEF LeftFound
    <3>8. QED
      BY <3>6, <3>7
  <2>2. CASE UNCHANGED vars
    BY <2>2 DEF vars, LeftFound, Cached
  <2>3. QED
    BY <2>1, <2>2 DEF Next
<1>3. IInv /\ LeftFound => InverseMaps
  <2> SUFFICES ASSUME IInv, LeftFound, NEW k \in Uncontested, NEW v \in Numbers
               PROVE  cache.left_to_right[k] = v <=> cache.right_to_left[v] = k
    BY DEF InverseMaps
  <2>1. k \in Hashes /\ k # None /\ v # None
    BY NoneAssumption DEF Uncontested
  <2>2. ASSUME cache.left_to_right[k] = v
        PROVE  cache.right_to_left[v] = k
    BY <2>1, <2>2 DEF IInv, LeftValues, LeftFound, Cached
  <2>3. ASSUME cache.right_to_left[v] = k
        PROVE  cache.left_to_right[k] = v
    BY <2>1, <2>3 DEF IInv, ReverseSound
  <2>4. QED
    BY <2>2, <2>3
<1>4. QED
  BY <1>1, <1>2, <1>3, IInvAlways, PTL DEF Spec

(***************************************************************************)
(* Only a full cache forgets a hash, and it is the oldest one.             *)
(***************************************************************************)
THEOREM OldestForgottenFirst == Spec => ForgetsOnlyTheOldest
<1> DEFINE A == \A k \in Cached(cache) \ Cached(cache)' :
                  /\ Len(cache.lru_keys) = Limit
                  /\ k = Head(cache.lru_keys)
<1>1. IInv /\ [Next]_vars => [A]_vars
  <2> SUFFICES ASSUME IInv, NEW h \in Hashes, Insert(h) PROVE A
    BY DEF Next
  <2>1. cache' = insert(cache, h, NumberOf[h])
    BY DEF Insert
  <2>2. \A k \in Hashes : cache'.left_to_right[k] =
          IF k = h THEN NumberOf[h]
          ELSE IF k = Evicted(cache.lru_keys, h) THEN None
          ELSE cache.left_to_right[k]
    BY <2>1, InsertEffect
  <2>3. cache.lru_keys \in Seq(Hashes) /\ Distinct(cache.lru_keys)
        /\ Len(cache.lru_keys) <= Limit
    BY DEF IInv, TypeOK, BiMap, KeysTracked, Distinct
  <2>4. Evicted(cache.lru_keys, h) # None =>
          /\ Evicted(cache.lru_keys, h) = Head(cache.lru_keys)
          /\ Len(cache.lru_keys) = Limit
    BY <2>3, LruInsertProperties
  <2>5. NumberOf[h] # None
    BY NumberOfAssumption, NoneAssumption
  <2> SUFFICES ASSUME NEW k \in Hashes, cache.left_to_right[k] # None,
                      ~(cache'.left_to_right[k] # None)
               PROVE  Len(cache.lru_keys) = Limit /\ k = Head(cache.lru_keys)
    BY DEF Cached
  <2>6. k = Evicted(cache.lru_keys, h) /\ k # None
    BY <2>2, <2>5, NoneAssumption
  <2>7. QED
    BY <2>4, <2>6
<1>2. QED
  BY <1>1, IInvAlways, PTL DEF Spec, ForgetsOnlyTheOldest
=============================================================================
