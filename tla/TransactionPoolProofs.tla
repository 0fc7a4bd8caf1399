------------------------ MODULE TransactionPoolProofs ------------------------
(***************************************************************************)
(* What each operation of the two pools does to the invariants of its      *)
(* pool: Indexed for the future pool, PoolInv for the pending pool.  Then  *)
(* what it does to the senders that the selector has excluded (Quiet), and *)
(* what the transactions of a list say about the nonces of their senders.  *)
(* The operations are functions on the state of a pool, so nothing here is *)
(* about behaviours: TransactionManagerProofs is.                          *)
(***************************************************************************)
EXTENDS PendingPool, FuturePool, CollectionProofs

-----------------------------------------------------------------------------
(* The future pool.                                                        *)

\* FutureIndexed, of a pool.
Indexed(f) ==
  \A a \in DOMAIN f.buckets :
    /\ Bucket(f, a) # {}
    /\ Bucket(f, a) \subseteq {t \in f.all : From[t] = a}
    /\ \A t, u \in Bucket(f, a) : SameString(t, u) => t = u

\* Deleting a transaction by hash takes it out of the only bucket it can be in, with
\* every other one under its string: FutureTransactionPool.del.
LEMMA DelIndexed ==
  ASSUME NEW f, NEW t, Indexed(f)
  PROVE  Indexed(del(f, t).pool)
<1>1. CASE t \notin f.all
  BY <1>1 DEF del
<1>2. CASE t \in f.all
  <2> DEFINE gone == {u \in Bucket(f, From[t]) : SameString(u, t)}
             rest == [txs |-> Bucket(f, From[t]) \ gone]
             put == Put(f.buckets, From[t], rest)
             g == [all |-> f.all \ {t}, buckets |-> DropEmpty(put)]
  <2>1. del(f, t).pool = g
    BY <1>2 DEF del
  <2>2. ASSUME NEW a \in DOMAIN g.buckets
        PROVE  /\ Bucket(g, a) # {}
               /\ Bucket(g, a) \subseteq {u \in g.all : From[u] = a}
               /\ \A u, v \in Bucket(g, a) : SameString(u, v) => u = v
    <3>1. a \in DOMAIN put /\ put[a].txs # {} /\ Bucket(g, a) = put[a].txs
      BY ZenonT(60), <2>2 DEF DropEmpty, Bucket, At
    <3>2. CASE a = From[t]
      <4>1. put[a].txs = Bucket(f, a) \ gone
        BY <3>1, <3>2 DEF Put
      <4>2. t \notin Bucket(g, a)
        BY SMTT(60), <3>1, <3>2, <4>1 DEF SameString
      <4>3. a \in DOMAIN f.buckets
        BY ZenonT(60), <3>1, <4>1 DEF Bucket, At
      <4>4. /\ Bucket(f, a) \subseteq {u \in f.all : From[u] = a}
            /\ \A u, v \in Bucket(f, a) : SameString(u, v) => u = v
        BY <4>3 DEF Indexed
      <4>5. Bucket(g, a) \subseteq Bucket(f, a) /\ Bucket(g, a) # {} /\ g.all = f.all \ {t}
        BY ZenonT(60), <3>1, <4>1
      <4> HIDE DEF g
      <4> QED
        BY <4>2, <4>4, <4>5
    <3>3. CASE a # From[t]
      <4>1. a \in DOMAIN f.buckets /\ Bucket(g, a) = Bucket(f, a)
        BY ZenonT(60), <3>1, <3>3 DEF Put, Bucket, At
      <4>2. /\ Bucket(f, a) \subseteq {u \in f.all : From[u] = a}
            /\ \A u, v \in Bucket(f, a) : SameString(u, v) => u = v
        BY <4>1 DEF Indexed
      <4>3. g.all = f.all \ {t} /\ Bucket(g, a) # {}
        BY ZenonT(60), <3>1
      <4> HIDE DEF g
      <4> QED
        BY <3>3, <4>1, <4>2, <4>3
    <3> QED
      BY ZenonT(60), <3>2, <3>3
  <2> QED
    BY SMTT(60), <2>1, <2>2 DEF Indexed
<1> QED
  BY <1>1, <1>2

\* Evicting the highest nonce of a largest bucket, or nothing: evict.
LEMMA EvictIndexed ==
  ASSUME NEW f, Indexed(f), NEW s \in evict(f)
  PROVE  Indexed(s.pool)
<1>1. s.pool = f \/ \E t : s.pool = del(f, t).pool
  BY DEF evict
<1> QED
  BY <1>1, DelIndexed

\* Adding a transaction to the index and to its bucket, in the place of the one under
\* the same string, with the eviction that may follow: Set.
LEMMA SetIndexed ==
  ASSUME NEW f, NEW t, Indexed(f), NEW s \in Set(f, t)
  PROVE  Indexed(s.pool)
<1> DEFINE old == {u \in Bucket(f, From[t]) : SameString(u, t)}
           entry == [txs |-> (Bucket(f, From[t]) \ old) \union {t}]
           g == [all |-> f.all \union {t}, buckets |-> Put(f.buckets, From[t], entry)]
<1>1. s.pool = f \/ s.pool = g \/ s \in evict(g)
  BY SMTT(60) DEF Set
<1>2. ASSUME NEW a \in DOMAIN g.buckets
      PROVE  /\ Bucket(g, a) # {}
             /\ Bucket(g, a) \subseteq {u \in g.all : From[u] = a}
             /\ \A u, v \in Bucket(g, a) : SameString(u, v) => u = v
  <2>1. g.all = f.all \union {t}
    OBVIOUS
  <2>2. CASE a = From[t]
    <3>1. Bucket(g, a) = (Bucket(f, a) \ old) \union {t}
      BY <2>2 DEF Put, Bucket, At
    <3>2. /\ Bucket(f, a) \subseteq {u \in f.all : From[u] = a}
          /\ \A u, v \in Bucket(f, a) : SameString(u, v) => u = v
      BY DEF Indexed, Bucket, At
    <3>3. \A u \in Bucket(f, a) \ old : ~SameString(u, t) /\ ~SameString(t, u)
      BY <2>2 DEF SameString
    <3> HIDE DEF g, old
    <3> QED
      BY <2>1, <2>2, <3>1, <3>2, <3>3
  <2>3. CASE a # From[t]
    <3>1. a \in DOMAIN f.buckets /\ Bucket(g, a) = Bucket(f, a)
      BY <1>2, <2>3 DEF Put, Bucket, At
    <3>2. /\ Bucket(f, a) # {}
          /\ Bucket(f, a) \subseteq {u \in f.all : From[u] = a}
          /\ \A u, v \in Bucket(f, a) : SameString(u, v) => u = v
      BY <3>1 DEF Indexed
    <3> HIDE DEF g
    <3> QED
      BY <2>1, <3>1, <3>2
  <2> QED
    BY SMTT(60), <2>2, <2>3
<1>3. Indexed(g)
  BY ZenonT(60), <1>2 DEF Indexed
<1> HIDE DEF g
<1> QED
  BY <1>1, <1>3, EvictIndexed

\* Forgetting the lowest nonces of a sender: FutureTransactionPool.Prune.
LEMMA PruneIndexed ==
  ASSUME NEW f, NEW a, NEW n, Indexed(f)
  PROVE  Indexed(FuturePrune(f, a, n))
<1> DEFINE gone == {t \in Bucket(f, a) : Nonce[t] <= n}
           put == Put(f.buckets, a, [txs |-> Bucket(f, a) \ gone])
           g == FuturePrune(f, a, n)
<1>1. CASE a \notin DOMAIN f.buckets
  <2>1. g.all = f.all /\ g.buckets = f.buckets
    BY <1>1 DEF FuturePrune, Bucket, At
  <2>2. \A x : Bucket(g, x) = Bucket(f, x)
    BY <2>1 DEF Bucket
  <2> HIDE DEF g
  <2>3. Indexed(g)
    BY <2>1, <2>2 DEF Indexed
  <2> QED
    BY <2>3 DEF g
<1>2. CASE a \in DOMAIN f.buckets
  <2>1. g.all = f.all \ gone /\ g.buckets = DropEmpty(put)
    BY <1>2 DEF FuturePrune
  <2>2. ASSUME NEW x \in DOMAIN g.buckets
        PROVE  /\ Bucket(g, x) # {}
               /\ Bucket(g, x) \subseteq {u \in g.all : From[u] = x}
               /\ \A u, v \in Bucket(g, x) : SameString(u, v) => u = v
    <3> HIDE DEF g
    <3>1. x \in DOMAIN put /\ put[x].txs # {} /\ Bucket(g, x) = put[x].txs
      BY ZenonT(60), <2>1, <2>2 DEF DropEmpty, Bucket, At
    <3>2. x \in DOMAIN f.buckets
      BY <1>2, <3>1 DEF Put
    <3>3. put[x].txs = IF x = a THEN Bucket(f, a) \ gone ELSE Bucket(f, x)
      BY <3>1, <3>2 DEF Put, Bucket, At
    <3>4. /\ Bucket(f, x) \subseteq {u \in f.all : From[u] = x}
          /\ \A u, v \in Bucket(f, x) : SameString(u, v) => u = v
      BY <3>2 DEF Indexed
    <3>5. gone \subseteq {u \in f.all : From[u] = a}
      BY <1>2 DEF Indexed
    <3> HIDE DEF gone, put
    <3> QED
      BY <2>1, <3>1, <3>3, <3>4, <3>5
  <2> HIDE DEF g
  <2>3. Indexed(g)
    BY <2>2 DEF Indexed
  <2> QED
    BY <2>3 DEF g
<1> QED
  BY <1>1, <1>2

\* Nothing ever leaves the future pool by Del.
LEMMA DelNever == ASSUME NEW f, NEW t PROVE Del(f, t) = [deleted |-> FALSE, pool |-> f]
  BY DEF Del, del

-----------------------------------------------------------------------------
(* Enumerates.                                                                  *)

\* A list is a function on its places.
LEMMA ListType ==
  ASSUME NEW A, NEW s \in Seq(A)
  PROVE  /\ Len(s) \in Nat
         /\ DOMAIN s = 1..Len(s)
         /\ s \in [1..Len(s) -> A]
  OBVIOUS

\* The empty list is the only one without a place.
LEMMA EmptyList ==
  ASSUME NEW A
  PROVE  <<>> \in Seq(A) /\ Len(<<>>) = 0 /\ \A s \in Seq(A) : s # <<>> => Len(s) \in Nat \ {0}
  OBVIOUS

\* A list is one of a larger set.
LEMMA ListOfMore ==
  ASSUME NEW A, NEW B, NEW s \in Seq(A), A \subseteq B
  PROVE  s \in Seq(B)
  OBVIOUS

\* A list with an element at its end.
LEMMA AppendList ==
  ASSUME NEW A, NEW s \in Seq(A), NEW e \in A
  PROVE  /\ Append(s, e) \in Seq(A) /\ Len(Append(s, e)) = Len(s) + 1
         /\ Append(s, e)[Len(s) + 1] = e
         /\ \A i \in 1..Len(s) : Append(s, e)[i] = s[i]
  OBVIOUS

\* A list without its first element.
LEMMA HeadTail ==
  ASSUME NEW A, NEW s \in Seq(A), s # <<>>
  PROVE  /\ Head(s) \in A /\ Tail(s) \in Seq(A) /\ Len(Tail(s)) = Len(s) - 1
         /\ \A i \in 1..Len(Tail(s)) : Tail(s)[i] = s[i + 1]
  OBVIOUS

\* Two lists, one after the other.
LEMMA ConcatList ==
  ASSUME NEW A, NEW s \in Seq(A), NEW t \in Seq(A)
  PROVE  /\ s \o t \in Seq(A) /\ Len(s \o t) = Len(s) + Len(t)
         /\ \A i \in 1..(Len(s) + Len(t)) :
              (s \o t)[i] = IF i <= Len(s) THEN s[i] ELSE t[i - Len(s)]
  OBVIOUS

\* Three lists are put together in either order.
LEMMA ConcatAssoc ==
  ASSUME NEW A, NEW s \in Seq(A), NEW t \in Seq(A), NEW u \in Seq(A)
  PROVE  (s \o t) \o u = s \o (t \o u)
  OBVIOUS

\* A part of a list.
LEMMA PartOfList ==
  ASSUME NEW A, NEW s \in Seq(A), NEW m \in 1..(Len(s) + 1), NEW n \in 0..Len(s), m <= n + 1
  PROVE  /\ SubSeq(s, m, n) \in Seq(A)
         /\ Len(SubSeq(s, m, n)) = n - m + 1
         /\ \A i \in 1..(n - m + 1) : SubSeq(s, m, n)[i] = s[m + i - 1]
  OBVIOUS

\* Two lists with the same elements in the same places.
LEMMA SameList ==
  ASSUME NEW A, NEW s \in Seq(A), NEW t \in Seq(A), Len(s) = Len(t),
         \A i \in 1..Len(s) : s[i] = t[i]
  PROVE  s = t
  OBVIOUS

\* A list is its part up to some place and the rest.
LEMMA ConcatParts ==
  ASSUME NEW A, NEW s \in Seq(A), NEW k \in 0..Len(s)
  PROVE  /\ SubSeq(s, 1, k) \in Seq(A) /\ SubSeq(s, k + 1, Len(s)) \in Seq(A)
         /\ s = SubSeq(s, 1, k) \o SubSeq(s, k + 1, Len(s))
<1> DEFINE n == Len(s)
           u == SubSeq(s, 1, k)
           v == SubSeq(s, k + 1, n)
<1>0. n \in Nat /\ k \in Nat /\ k <= n
  OBVIOUS
<1>1. u \in Seq(A) /\ Len(u) = k /\ \A i \in 1..k : u[i] = s[i]
  BY <1>0
<1>2. v \in Seq(A) /\ Len(v) = n - k /\ \A i \in 1..(n - k) : v[i] = s[k + i]
  BY <1>0
<1> HIDE DEF u, v
<1>3. /\ u \o v \in Seq(A) /\ Len(u \o v) = n
      /\ \A i \in 1..n : (u \o v)[i] = IF i <= k THEN u[i] ELSE v[i - k]
  BY <1>0, <1>1, <1>2, ConcatList
<1>4. ASSUME NEW i \in 1..n PROVE (u \o v)[i] = s[i]
  <2>1. CASE i <= k
    BY <1>0, <1>1, <1>3, <2>1
  <2>2. CASE ~(i <= k)
    <3>1. i - k \in 1..(n - k) /\ k + (i - k) = i
      BY <1>0, <2>2
    <3> QED BY <1>2, <1>3, <2>2, <3>1
  <2> QED BY ZenonT(60), <2>1, <2>2
<1>5. u \o v = s
  <2> DEFINE w == u \o v
  <2>1. w \in Seq(A) /\ Len(w) = Len(s) /\ \A i \in 1..Len(w) : w[i] = s[i]
    BY <1>3, <1>4
  <2> HIDE DEF w
  <2>2. w = s
    BY <2>1, SameList
  <2> QED BY <2>2 DEF w
<1> QED BY ZenonT(60), <1>1, <1>2, <1>5 DEF u, v

\* Every element of the list is there once.
Distinct(s) == \A i, j \in DOMAIN s : s[i] = s[j] => i = j

\* Removing an element keeps the others.
LEMMA RemoveFirstMembers ==
  ASSUME NEW A, NEW s \in Seq(A), Distinct(s), NEW a
  PROVE  /\ RemoveFirst(s, a) \in Seq(A)
         /\ Distinct(RemoveFirst(s, a))
         /\ Members(RemoveFirst(s, a)) = Members(s) \ {a}
<1> DEFINE at == {i \in 1..Len(s) : s[i] = a}
           k == Min(at)
           r == RemoveFirst(s, a)
<1>0. Len(s) \in Nat /\ DOMAIN s = 1..Len(s) /\ \A i \in 1..Len(s) : s[i] \in A
  BY ListType
<1>1. CASE at = {}
  <2>1. r = s
    BY <1>1 DEF RemoveFirst
  <2>2. a \notin Members(s)
    BY <1>0, <1>1 DEF Members
  <2> QED BY <2>1, <2>2
<1>2. CASE at # {}
  <2>1. r = SubSeq(s, 1, k - 1) \o SubSeq(s, k + 1, Len(s))
    BY ZenonT(60), <1>2 DEF RemoveFirst
  <2>2. k \in at
    <3>1. at \in SUBSET Nat
      BY <1>0
    <3> HIDE DEF at
    <3> QED BY <1>2, <3>1, MinProperty
  <2>3. k \in 1..Len(s) /\ s[k] = a
    BY <2>2
  <2> HIDE DEF k, at, r
  <2> DEFINE u == SubSeq(s, 1, k - 1)
             v == SubSeq(s, k + 1, Len(s))
  <2>4. /\ u \in Seq(A) /\ Len(u) = k - 1
        /\ \A i \in 1..(k - 1) : u[i] = s[i]
    BY <1>0, <2>3, PartOfList
  <2>5. /\ v \in Seq(A) /\ Len(v) = Len(s) - k
        /\ \A i \in 1..(Len(s) - k) : v[i] = s[i + k]
    <3> DEFINE m == k + 1
               n == Len(s)
    <3>1. m \in 1..(Len(s) + 1) /\ n \in 0..Len(s) /\ m <= n + 1
      BY <1>0, <2>3
    <3> HIDE DEF m, n
    <3>2. /\ v \in Seq(A)
          /\ Len(v) = n - m + 1
          /\ \A i \in 1..(n - m + 1) : v[i] = s[m + i - 1]
      <4>1. v = SubSeq(s, m, n)
        BY DEF m, n
      <4> HIDE DEF v
      <4> QED BY SMTT(60), <3>1, <4>1, PartOfList
    <3> HIDE DEF v
    <3>3. n - m + 1 = Len(s) - k /\ \A i \in 1..(Len(s) - k) : m + i - 1 = i + k
      BY <1>0, <2>3 DEF m, n
    <3> QED BY SMTT(60), <3>2, <3>3
  <2>6. r = u \o v
    BY <2>1
  <2> HIDE DEF u, v
  <2>7. /\ r \in Seq(A) /\ Len(r) = Len(s) - 1
        /\ \A i \in 1..(Len(s) - 1) : r[i] = IF i < k THEN s[i] ELSE s[i + 1]
    <3>1. /\ r \in Seq(A) /\ Len(r) = Len(u) + Len(v)
          /\ \A i \in 1..(Len(u) + Len(v)) : r[i] = IF i <= Len(u) THEN u[i] ELSE v[i - Len(u)]
      BY ZenonT(60), <2>4, <2>5, <2>6, ConcatList
    <3>2. Len(r) = Len(s) - 1
      BY <1>0, <2>3, <2>4, <2>5, <3>1
    <3>3. ASSUME NEW i \in 1..(Len(s) - 1) PROVE r[i] = IF i < k THEN s[i] ELSE s[i + 1]
      <4>1. CASE i < k
        <5>1. i <= Len(u) /\ i \in 1..(Len(u) + Len(v)) /\ i \in 1..(k - 1)
          BY <1>0, <2>3, <2>4, <2>5, <4>1
        <5> QED BY SMTT(60), <2>4, <3>1, <4>1, <5>1
      <4>2. CASE ~(i < k)
        <5>1. /\ ~(i <= Len(u)) /\ i \in 1..(Len(u) + Len(v))
              /\ i - Len(u) \in 1..(Len(s) - k) /\ (i - Len(u)) + k = i + 1
          BY <1>0, <2>3, <2>4, <2>5, <4>2
        <5>2. r[i] = v[i - Len(u)]
          BY <3>1, <5>1
        <5>3. v[i - Len(u)] = s[i + 1]
          BY SMTT(60), <2>5, <5>1
        <5> QED BY <4>2, <5>2, <5>3
      <4> QED BY <4>1, <4>2
    <3> QED BY <3>1, <3>2, <3>3
  <2>8. DOMAIN r = 1..(Len(s) - 1)
    BY <2>7, ListType
  <2>9. Distinct(r)
    <3> SUFFICES ASSUME NEW i \in DOMAIN r, NEW j \in DOMAIN r, r[i] = r[j] PROVE i = j
      BY DEF Distinct
    <3> DEFINE old(n) == IF n < k THEN n ELSE n + 1
    <3>1. /\ old(i) \in DOMAIN s /\ r[i] = s[old(i)]
          /\ old(j) \in DOMAIN s /\ r[j] = s[old(j)]
      BY SMTT(60), <1>0, <2>3, <2>7, <2>8
    <3>2. old(i) = old(j)
      BY ZenonT(60), <3>1 DEF Distinct
    <3> QED BY <1>0, <2>3, <2>8, <3>2
  <2>10. ASSUME NEW x \in Members(r) PROVE x \in Members(s) \ {a}
    <3>1. PICK i \in DOMAIN r : x = r[i]
      BY <2>10 DEF Members
    <3>2. PICK j \in DOMAIN s : j # k /\ x = s[j]
      BY <1>0, <2>3, <2>7, <2>8, <3>1
    <3> QED BY <1>0, <2>3, <3>2 DEF Members, Distinct
  <2>11. ASSUME NEW x \in Members(s) \ {a} PROVE x \in Members(r)
    <3>1. PICK j \in DOMAIN s : x = s[j]
      BY <2>11 DEF Members
    <3>2. j # k
      BY <2>3, <2>11, <3>1
    <3>3. PICK i \in DOMAIN r : x = r[i]
      <4>1. CASE j < k
        BY SMTT(60), <1>0, <2>3, <2>7, <2>8, <3>1, <4>1
      <4>2. CASE j > k
        <5>1. j - 1 \in DOMAIN r /\ ~(j - 1 < k) /\ (j - 1) + 1 = j
          BY <1>0, <2>3, <2>8, <3>1, <4>2
        <5> QED BY SMTT(60), <2>7, <2>8, <3>1, <5>1
      <4> QED BY <1>0, <2>3, <3>1, <3>2, <4>1, <4>2
    <3> QED BY <3>3 DEF Members
  <2> QED BY <2>7, <2>9, <2>10, <2>11 DEF r
<1> QED BY <1>1, <1>2

\* The members of lists put together.
LEMMA ConcatMembers ==
  ASSUME NEW A, NEW s \in Seq(A), NEW t \in Seq(A)
  PROVE  /\ s \o t \in Seq(A)
         /\ Members(s \o t) = Members(s) \union Members(t)
         /\ Distinct(s) /\ Distinct(t) /\ Members(s) \cap Members(t) = {} => Distinct(s \o t)
<1>0. /\ Len(s) \in Nat /\ DOMAIN s = 1..Len(s)
      /\ Len(t) \in Nat /\ DOMAIN t = 1..Len(t)
  BY ListType
<1> DEFINE r == s \o t
<1>1. /\ r \in Seq(A) /\ Len(r) = Len(s) + Len(t)
      /\ \A i \in 1..(Len(s) + Len(t)) : r[i] = IF i <= Len(s) THEN s[i] ELSE t[i - Len(s)]
  BY ConcatList
<1>2. DOMAIN r = 1..(Len(s) + Len(t))
  BY <1>1, ListType
<1> HIDE DEF r
<1>3. /\ \A i \in DOMAIN s : i \in DOMAIN r /\ r[i] = s[i]
      /\ \A i \in DOMAIN t : Len(s) + i \in DOMAIN r /\ r[Len(s) + i] = t[i]
  BY SMTT(60), <1>0, <1>1, <1>2
<1>4. \A i \in DOMAIN r : \/ i \in DOMAIN s /\ r[i] = s[i]
                          \/ i \notin DOMAIN s /\ i - Len(s) \in DOMAIN t /\ r[i] = t[i - Len(s)]
  BY <1>0, <1>1, <1>2
<1>5. Members(r) = Members(s) \union Members(t)
  BY <1>3, <1>4 DEF Members
<1>6. ASSUME Distinct(s), Distinct(t), Members(s) \cap Members(t) = {},
             NEW i \in DOMAIN r, NEW j \in DOMAIN r, r[i] = r[j]
      PROVE  i = j
  <2>1. CASE i \in DOMAIN s /\ j \in DOMAIN s
    BY <1>3, <1>6, <2>1 DEF Distinct
  <2>2. CASE i \notin DOMAIN s /\ j \notin DOMAIN s
    <3>1. i - Len(s) = j - Len(s)
      BY <1>4, <1>6, <2>2 DEF Distinct
    <3> QED BY <1>0, <1>2, <3>1
  <2>3. CASE i \in DOMAIN s /\ j \notin DOMAIN s
    <3>1. r[i] \in Members(s) /\ r[j] \in Members(t)
      BY <1>3, <1>4, <2>3, Zenon DEF Members
    <3> QED BY <1>6, <3>1
  <2>4. CASE i \notin DOMAIN s /\ j \in DOMAIN s
    <3>1. r[j] \in Members(s) /\ r[i] \in Members(t)
      BY <1>3, <1>4, <2>4, Zenon DEF Members
    <3> QED BY <1>6, <3>1
  <2> QED BY <2>1, <2>2, <2>3, <2>4
<1>7. Distinct(s) /\ Distinct(t) /\ Members(s) \cap Members(t) = {} => Distinct(r)
  BY <1>6 DEF Distinct
<1> QED BY <1>1, <1>5, <1>7 DEF r

\* A list of distinct elements is as long as the set of them is large.
LEMMA DistinctLength ==
  ASSUME NEW A, NEW s \in Seq(A), Distinct(s)
  PROVE  Len(s) = Cardinality(Members(s))
<1> DEFINE first(n) == {s[i] : i \in 1..n}
           B == {n \in 0..Len(s) : ~(IsFiniteSet(first(n)) /\ Cardinality(first(n)) = n)}
<1>1. Len(s) \in Nat /\ DOMAIN s = 1..Len(s)
  BY ListType
<1>2. ASSUME B # {} PROVE FALSE
  <2> DEFINE n == Min(B)
  <2>1. n \in B /\ \A m \in B : n <= m
    <3>1. B \in SUBSET Nat
      BY <1>1
    <3> HIDE DEF B
    <3> QED BY <1>2, <3>1, MinProperty
  <2> HIDE DEF n
  <2>2. n \in 0..Len(s) /\ ~(IsFiniteSet(first(n)) /\ Cardinality(first(n)) = n)
    BY <2>1
  <2>3. n # 0
    <3>1. first(0) = {}
      OBVIOUS
    <3> HIDE DEF first
    <3> QED BY ZenonT(60), <2>2, <3>1, EmptyIsFinite, SizeType
  <2>4. n - 1 \in 0..Len(s) /\ ~(n <= n - 1) /\ n \in 1..Len(s)
    BY <1>1, <2>2, <2>3
  <2>5. IsFiniteSet(first(n - 1)) /\ Cardinality(first(n - 1)) = n - 1
    BY ZenonT(60), <2>1, <2>4
  <2>6. first(n) = first(n - 1) \union {s[n]}
    BY <1>1, <2>4
  <2>7. s[n] \notin first(n - 1)
    BY <1>1, <2>4 DEF Distinct
  <2> HIDE DEF first
  <2>8. IsFiniteSet(first(n)) /\ Cardinality(first(n)) = Cardinality(first(n - 1)) + 1
    BY <2>5, <2>6, <2>7, SizeAdd
  <2> QED BY <2>2, <2>4, <2>5, <2>8
<1>3. Cardinality(first(Len(s))) = Len(s)
  <2>1. Len(s) \in 0..Len(s)
    BY <1>1
  <2> HIDE DEF first
  <2> QED BY <1>2, <2>1
<1>4. first(Len(s)) = Members(s)
  BY <1>1 DEF Members
<1> QED BY ZenonT(60), <1>3, <1>4

-----------------------------------------------------------------------------
(* Enumerates of lists.                                                         *)

\* F[i] has the elements of the first i lists.
IsFlat(F, c) == F[0] = <<>> /\ \A i \in 1..Len(c) : F[i] = F[i - 1] \o c[i]

\* The recursion of FlattenSeq, up to the list n.
Flattens(h, c, n) == h = [i \in 0..n |-> IF i = 0 THEN <<>> ELSE h[i - 1] \o c[i]]

CanFlatten(c, n) == \E h : Flattens(h, c, n)

\* FlattenSeq puts the lists together one after the other.
LEMMA FlatExists ==
  ASSUME NEW A, NEW c \in Seq(Seq(A))
  PROVE  \E F : IsFlat(F, c) /\ FlattenSeq(c) = F[Len(c)] /\ \A i \in 0..Len(c) : F[i] \in Seq(A)
<1>0. Len(c) \in Nat /\ \A i \in 1..Len(c) : c[i] \in Seq(A)
  BY ListType
<1> DEFINE B == {n \in 0..Len(c) : ~CanFlatten(c, n)}
<1>1. B = {}
  <2> SUFFICES ASSUME B # {} PROVE FALSE
    OBVIOUS
  <2>1. B \in SUBSET Nat
    BY <1>0
  <2>2. Min(B) \in B /\ \A n \in B : Min(B) <= n
    <3> HIDE DEF B
    <3> QED BY <2>1, MinProperty
  <2> DEFINE n == Min(B)
  <2> HIDE DEF n
  <2>3. n \in 0..Len(c) /\ ~CanFlatten(c, n) /\ n - 1 \notin B
    <3>1. n \in B /\ \A m \in B : n <= m
      BY <2>2 DEF n
    <3> QED BY <1>0, <3>1
  <2>4. CASE n = 0
    <3>1. Flattens([i \in 0..n |-> <<>>], c, n)
      BY <2>4 DEF Flattens
    <3> QED BY <2>3, <3>1 DEF CanFlatten
  <2>5. CASE n # 0
    <3>0. n - 1 \in 0..Len(c) /\ n \in Nat \ {0}
      BY <1>0, <2>3, <2>5
    <3>1. PICK h : Flattens(h, c, n - 1)
      BY <2>3, <3>0 DEF CanFlatten
    <3> DEFINE g == [i \in 0..n |-> IF i = 0 THEN <<>> ELSE h[i - 1] \o c[i]]
    <3>2. ASSUME NEW i \in 0..(n - 1) PROVE g[i] = h[i]
      <4>1. h[i] = IF i = 0 THEN <<>> ELSE h[i - 1] \o c[i]
        BY <3>1, Zenon DEF Flattens
      <4>2. i \in 0..n
        BY <3>0
      <4> QED BY <4>1, <4>2
    <3>3. ASSUME NEW i \in 0..n PROVE g[i] = IF i = 0 THEN <<>> ELSE g[i - 1] \o c[i]
      <4>1. CASE i = 0
        BY <4>1
      <4>2. CASE i # 0
        <5>1. i - 1 \in 0..(n - 1)
          BY <1>0, <2>3, <2>5, <4>2
        <5>2. g[i] = h[i - 1] \o c[i]
          BY ZenonT(60), <4>2
        <5> HIDE DEF g
        <5> QED BY ZenonT(60), <3>2, <4>2, <5>1, <5>2
      <4> QED BY <4>1, <4>2
    <3>4. g = [i \in 0..n |-> g[i]]
      OBVIOUS
    <3> HIDE DEF g
    <3>5. Flattens(g, c, n)
      BY <3>3, <3>4, Zenon DEF Flattens
    <3> QED BY <2>3, <3>5 DEF CanFlatten
  <2> QED BY <2>4, <2>5
<1> DEFINE F == CHOOSE f : Flattens(f, c, Len(c))
<1>2. Flattens(F, c, Len(c))
  <2>1. CanFlatten(c, Len(c))
    BY <1>0, <1>1
  <2> QED BY <2>1, Zenon DEF CanFlatten
<1>6. FlattenSeq(c) = F[Len(c)]
  BY Zenon DEF FlattenSeq, Flattens
<1> HIDE DEF F
<1>4. /\ \A i \in 1..Len(c) : F[i] = F[i - 1] \o c[i]
      /\ F[0] = <<>>
  <2>1. \A i \in 0..Len(c) : F[i] = IF i = 0 THEN <<>> ELSE F[i - 1] \o c[i]
    BY <1>2, Zenon DEF Flattens
  <2>2. 0 \in 0..Len(c) /\ \A i \in 1..Len(c) : i \in 0..Len(c) /\ i # 0
    BY <1>0
  <2> QED BY <2>1, <2>2, Zenon
<1> DEFINE D == {i \in 0..Len(c) : F[i] \notin Seq(A)}
<1>7. D = {}
  <2> SUFFICES ASSUME D # {} PROVE FALSE
    OBVIOUS
  <2>1. D \in SUBSET Nat
    BY <1>0
  <2>2. Min(D) \in D /\ \A n \in D : Min(D) <= n
    <3> HIDE DEF D
    <3> QED BY <2>1, MinProperty
  <2> DEFINE n == Min(D)
  <2> HIDE DEF n
  <2>3. n \in 0..Len(c) /\ F[n] \notin Seq(A) /\ n - 1 \notin D
    <3>1. n \in D /\ \A m \in D : n <= m
      BY <2>2 DEF n
    <3> QED BY SMTT(60), <1>0, <3>1
  <2>4. CASE n = 0
    BY ZenonT(60), <1>4, <2>3, <2>4, EmptyList
  <2>5. CASE n # 0
    <3>1. n \in 1..Len(c) /\ n - 1 \in 0..Len(c)
      BY <1>0, <2>3, <2>5
    <3>2. F[n - 1] \in Seq(A) /\ c[n] \in Seq(A) /\ F[n] = F[n - 1] \o c[n]
      BY ZenonT(60), <1>0, <1>4, <2>3, <3>1
    <3> QED BY <2>3, <3>2, ConcatList
  <2> QED BY <2>4, <2>5
<1> QED BY <1>4, <1>6, <1>7 DEF IsFlat

\* The elements of a list of lists are those of its parts.
LEMMA FlatConcat ==
  ASSUME NEW A, NEW p \in Seq(Seq(A)), NEW y \in Seq(Seq(A)), NEW c, c = p \o y
  PROVE  FlattenSeq(c) = FlattenSeq(p) \o FlattenSeq(y)
<1> DEFINE k == Len(p)
<1>0. /\ c \in Seq(Seq(A)) /\ k \in Nat /\ Len(y) \in Nat /\ Len(c) = k + Len(y) /\ Len(c) \in Nat
      /\ \A i \in 1..k : i \in 1..Len(c) /\ c[i] = p[i]
      /\ \A i \in 1..Len(y) : k + i \in 1..Len(c) /\ c[k + i] = y[i] /\ y[i] \in Seq(A)
  <2>1. /\ c \in Seq(Seq(A)) /\ Len(c) = Len(p) + Len(y)
        /\ \A i \in 1..Len(p) + Len(y) : c[i] = IF i <= Len(p) THEN p[i] ELSE y[i - Len(p)]
    BY ConcatList
  <2>2. Len(p) \in Nat /\ Len(y) \in Nat /\ \A i \in 1..Len(y) : y[i] \in Seq(A)
    BY ListType
  <2>3. ASSUME NEW i \in 1..Len(y) PROVE k + i \in 1..Len(c) /\ c[k + i] = y[i]
    <3>1. k + i \in 1..Len(p) + Len(y) /\ ~(k + i <= Len(p)) /\ (k + i) - Len(p) = i
      BY SMTT(60), <2>2
    <3> QED BY <2>1, <3>1
  <2> QED BY SMTT(60), <2>1, <2>2, <2>3
<1>1. PICK F : IsFlat(F, c) /\ FlattenSeq(c) = F[Len(c)] /\ \A i \in 0..Len(c) : F[i] \in Seq(A)
  BY ZenonT(60), <1>0, FlatExists
<1>2. PICK G : IsFlat(G, p) /\ FlattenSeq(p) = G[Len(p)] /\ \A i \in 0..Len(p) : G[i] \in Seq(A)
  BY FlatExists
<1>3. PICK H : IsFlat(H, y) /\ FlattenSeq(y) = H[Len(y)] /\ \A i \in 0..Len(y) : H[i] \in Seq(A)
  BY FlatExists
<1> HIDE DEF k
<1>4. /\ F[0] = <<>> /\ \A i \in 1..Len(c) : F[i] = F[i - 1] \o c[i]
      /\ G[0] = <<>> /\ \A i \in 1..k : G[i] = G[i - 1] \o p[i]
      /\ H[0] = <<>> /\ \A i \in 1..Len(y) : H[i] = H[i - 1] \o y[i]
  BY <1>1, <1>2, <1>3, Zenon DEF IsFlat, k
<1> DEFINE D == {i \in 0..k : F[i] # G[i]}
<1>5. D = {}
  <2> SUFFICES ASSUME D # {} PROVE FALSE
    OBVIOUS
  <2>1. D \in SUBSET Nat
    BY <1>0
  <2>2. Min(D) \in D /\ \A n \in D : Min(D) <= n
    <3> HIDE DEF D
    <3> QED BY ZenonT(60), <2>1, MinProperty
  <2> DEFINE n == Min(D)
  <2> HIDE DEF n
  <2>3. n \in 0..k /\ F[n] # G[n] /\ n - 1 \notin D
    <3>1. n \in D /\ \A m \in D : n <= m
      BY <2>2 DEF n
    <3> QED BY <1>0, <3>1
  <2>4. n \in 1..k /\ n - 1 \in 0..k
    BY <1>0, <1>4, <2>3
  <2>5. F[n - 1] = G[n - 1]
    BY <2>3, <2>4
  <2> QED BY ZenonT(60), <1>0, <1>4, <2>3, <2>4, <2>5
<1> DEFINE Ok(i) == F[k + i] = G[k] \o H[i]
           E == {i \in 0..Len(y) : ~Ok(i)}
<1> HIDE DEF Ok
<1>6. E = {}
  <2> SUFFICES ASSUME E # {} PROVE FALSE
    OBVIOUS
  <2>1. E \in SUBSET Nat
    BY <1>0
  <2>2. Min(E) \in E /\ \A n \in E : Min(E) <= n
    <3> HIDE DEF E
    <3> QED BY ZenonT(60), <2>1, MinProperty
  <2> DEFINE n == Min(E)
  <2> HIDE DEF n
  <2>3. n \in 0..Len(y) /\ ~Ok(n) /\ n - 1 \notin E
    <3>1. n \in E /\ \A m \in E : n <= m
      BY <2>2 DEF n
    <3> QED BY <1>0, <3>1
  <2>4. G[k] \in Seq(A) /\ F[k] = G[k]
    BY <1>0, <1>2, <1>5 DEF k
  <2>5. n # 0
    <3>1. ASSUME n = 0 PROVE FALSE
      <4>1. F[k + n] = G[k] /\ H[n] = <<>>
        BY <1>0, <1>4, <2>4, <3>1
      <4>2. G[k] \o <<>> = G[k]
        BY <2>4
      <4> QED BY <2>3, <4>1, <4>2 DEF Ok
    <3> QED BY <3>1
  <2>6. /\ n \in 1..Len(y) /\ n - 1 \in 0..Len(y)
        /\ (k + n) - 1 = k + (n - 1)
    BY <1>0, <2>3, <2>5
  <2> DEFINE g == G[k]
             h == H[n - 1]
             b == y[n]
  <2>7. F[k + (n - 1)] = g \o h
    BY ZenonT(60), <2>3, <2>6 DEF Ok
  <2>8. k + n \in 1..Len(c) /\ c[k + n] = b
    BY ZenonT(60), <1>0, <2>6
  <2>9. F[k + n] = F[(k + n) - 1] \o c[k + n]
    BY ZenonT(60), <1>4, <2>8
  <2>10. H[n] = h \o b /\ h \in Seq(A) /\ b \in Seq(A) /\ g \in Seq(A)
    BY ZenonT(60), <1>0, <1>3, <1>4, <2>4, <2>6
  <2>11. F[k + n] # g \o H[n]
    BY ZenonT(60), <2>3 DEF Ok
  <2> HIDE DEF g, h, b
  <2>12. F[k + n] = (g \o h) \o b
    BY ZenonT(60), <2>6, <2>7, <2>8, <2>9
  <2>13. (g \o h) \o b = g \o (h \o b)
    <3>1. g \in Seq(A) /\ h \in Seq(A) /\ b \in Seq(A)
      BY <2>10
    <3> DEFINE Cat(u, v) == u \o v
    <3>2. \A S : \A u, v, w \in Seq(S) : Cat(Cat(u, v), w) = Cat(u, Cat(v, w))
      BY ConcatAssoc, Zenon
    <3> HIDE DEF Cat
    <3>3. Cat(Cat(g, h), b) = Cat(g, Cat(h, b))
      BY <3>1, <3>2
    <3> QED BY <3>3 DEF Cat
  <2> QED BY <2>10, <2>11, <2>12, <2>13
<1>7. Ok(Len(y))
  <2>1. Len(y) \in 0..Len(y)
    BY <1>0
  <2> QED BY <1>6, <2>1, Zenon
<1> QED BY <1>0, <1>1, <1>2, <1>3, <1>7 DEF k, Ok

\* Enumerates of bounded length are lists.
LEMMA BoundedIsSeq ==
  ASSUME NEW S, NEW n \in Nat, NEW s \in BoundedSeq(S, n)
  PROVE  s \in Seq(S)
<1>1. PICK m \in 0..n : s \in [1..m -> S]
  BY DEF BoundedSeq
<1>2. m \in Nat
  OBVIOUS
<1> QED BY <1>1, <1>2

\* A list read from its end.
LEMMA ReverseTyped ==
  ASSUME NEW S, NEW s \in Seq(S)
  PROVE  Reverse(s) \in Seq(S)
<1>1. Len(s) \in Nat /\ \A i \in 1..Len(s) : s[i] \in S
  BY ListType
<1>2. \A i \in 1..Len(s) : Len(s) - i + 1 \in 1..Len(s)
  BY <1>1
<1> DEFINE n == Len(s)
           r == [i \in 1..n |-> s[n - i + 1]]
<1>3. r \in [1..n -> S]
  BY <1>1, <1>2
<1>4. r \in Seq(S)
  <2> HIDE DEF r
  <2> QED BY <1>1, <1>3
<1> QED BY <1>4 DEF Reverse

\* FlattenSeq yields a list.
LEMMA FlatTyped ==
  ASSUME NEW A, NEW c \in Seq(Seq(A))
  PROVE  FlattenSeq(c) \in Seq(A)
<1>1. PICK F : FlattenSeq(c) = F[Len(c)] /\ \A i \in 0..Len(c) : F[i] \in Seq(A)
  BY FlatExists
<1>2. Len(c) \in 0..Len(c)
  BY ListType
<1> QED BY <1>1, <1>2

-----------------------------------------------------------------------------
(* The pending pool: an invariant that each of its operations keeps.       *)

\* The transactions of S that Of gives to a.
Those(S, Of, a) == {t \in S : Of[t] = a}

\* No two transactions have the same sender and nonce.
Keyed(S) == S \in SUBSET Tx /\ IsFiniteSet(S) /\ \A t, u \in S : SameKey(t, u) => t = u

\* An entry of the index by sender for the transactions S: NonceBounds, and its shape.
Bounded(af, S) ==
  /\ af = [minNonce |-> af.minNonce, maxNonce |-> af.maxNonce, txs |-> S]
  /\ af.minNonce \in Nat /\ af.maxNonce \in Nat
  /\ \A t \in S : af.minNonce <= Nonce[t] /\ Nonce[t] <= af.maxNonce
  /\ \E t \in S : Nonce[t] = af.maxNonce

\* An index of S by Of with the totals of W; entries may be empty.
Counted(map, S, Of, W) ==
  /\ {Of[t] : t \in S} \subseteq DOMAIN map
  /\ \A a \in DOMAIN map :
       map[a] = [total |-> Total(W, Those(S, Of, a)), txs |-> Those(S, Of, a)]

IsPool(p) ==
  p = [all |-> p.all, from |-> p.from, payer |-> p.payer, point |-> p.point,
       incl |-> p.incl, excl |-> p.excl, nonceCache |-> p.nonceCache]

SendersInv(p) ==
  /\ Keyed(p.all)
  /\ DOMAIN p.from = {From[t] : t \in p.all}
  /\ \A a \in DOMAIN p.from : Bounded(p.from[a], Those(p.all, From, a))

TotalsInv(p) ==
  /\ DOMAIN p.point = {From[t] : t \in p.all}
  /\ DOMAIN p.payer = {PayerOrFrom[t] : t \in p.all}
  /\ Counted(p.point, p.all, From, PointChange)
  /\ Counted(p.payer, p.all, PayerOrFrom, Bandwidth)

SelectorInv(p) ==
  /\ p.incl \in Seq(Account) /\ p.excl \in Seq(Account)
  /\ Distinct(p.incl) /\ Distinct(p.excl)
  /\ Members(p.incl) \cap Members(p.excl) = {}
  /\ Members(p.incl) \union Members(p.excl) = DOMAIN p.from

PoolInv(p) == IsPool(p) /\ SendersInv(p) /\ TotalsInv(p) /\ SelectorInv(p)

\* The index after a transaction has entered the entry of b.
Entered(W, map, b, t) == Put(map, b, Enter(W, At(map, b, newAccount), t))

\* The fields after push.
Pushed(p, t, q) ==
  /\ IsPool(q)
  /\ q.all = p.all \union {t}
  /\ q.from = Put(p.from, From[t], set(At(p.from, From[t], newAccountFrom), t))
  /\ q.payer = Entered(Bandwidth, p.payer, PayerOrFrom[t], t)
  /\ q.point = Entered(PointChange, p.point, From[t], t)
  /\ q.incl = IF From[t] \in Members(p.incl) THEN p.incl ELSE Append(p.incl, From[t])
  /\ q.excl = RemoveFirst(p.excl, From[t])
  /\ q.nonceCache = p.nonceCache

\* What push makes of the fields of a pool.
LEMMA PushFields ==
  ASSUME NEW p, IsPool(p), NEW t, NEW q, q = push(p, t)
  PROVE  Pushed(p, t, q)
  BY ZenonT(60) DEF Pushed, IsPool, push, Include, Entered

\* The fields after replace, which takes old out of what it has for its payer and its sender.
Replaced(p, t, old, payer, point, q) ==
  /\ IsPool(q)
  /\ q.all = (p.all \ {old}) \union {t}
  /\ q.from = Put(p.from, From[t], set(remove(p.from[From[t]], Nonce[t]), t))
  /\ q.payer = DropEmpty(Entered(Bandwidth, payer, PayerOrFrom[t], t))
  /\ From[t] \in DOMAIN point => q.point = Entered(PointChange, point, From[t], t)
  /\ q.incl = p.incl /\ q.excl = p.excl /\ q.nonceCache = p.nonceCache

\* What replace makes of them: the selector stays.
LEMMA ReplaceFields ==
  ASSUME NEW p, IsPool(p), NEW t, NEW q, q = replace(p, t),
         NEW old, old = get(p.from[From[t]], Nonce[t]),
         NEW payer, payer = Leave(Bandwidth, p.payer, PayerOrFrom, {old}),
         NEW point, point = Leave(PointChange, p.point, From, {old})
  PROVE  Replaced(p, t, old, payer, point, q)
  BY ZenonT(60) DEF Replaced, IsPool, replace, Entered, At

\* What Prune takes out of the entry of a sender, and what is left of it.
Gone(af, n) == {t \in af.txs : Nonce[t] \in af.minNonce..af.maxNonce /\ Nonce[t] <= n}

Rest(af, n) ==
  [af EXCEPT !.minNonce = Min({m \in af.minNonce..(af.maxNonce + 1) : WithNonce(Gone(af, n), m) = {}}),
             !.txs = @ \ Gone(af, n)]

\* The fields after Prune of a pool that has the sender.
Pruned(p, a, gone, rest, q) ==
  /\ IsPool(q)
  /\ q.all = p.all \ gone
  /\ q.from = DropEmpty(Put(p.from, a, rest))
  /\ q.payer = DropEmpty(Leave(Bandwidth, p.payer, PayerOrFrom, gone))
  /\ q.point = DropEmpty(Leave(PointChange, p.point, From, gone))
  /\ q.incl = IF rest.txs = {} THEN RemoveFirst(p.incl, a) ELSE p.incl
  /\ q.excl = IF rest.txs = {} THEN RemoveFirst(p.excl, a) ELSE p.excl
  /\ q.nonceCache = p.nonceCache

\* What Prune makes of the fields of a pool that has the sender.
LEMMA PruneFields ==
  ASSUME NEW p, NEW a, NEW n, NEW q, NEW gone, NEW rest,
         IsPool(p), a \in DOMAIN p.from, q = Prune(p, a, n),
         gone = Gone(p.from[a], n), rest = Rest(p.from[a], n)
  PROVE  Pruned(p, a, gone, rest, q)
  BY ZenonT(60) DEF Pruned, IsPool, Prune, Remove, Gone, Rest

\* get finds a transaction exactly if there is one.
LEMMA TheTxFound ==
  ASSUME NEW S \in SUBSET Tx
  PROVE  /\ TheTx(S) = NoTx <=> S = {}
         /\ S # {} => TheTx(S) \in S
  BY TransactionsAssumption DEF TheTx

\* A transaction with a new nonce enters the entry of its sender: set.
LEMMA SetBounded ==
  ASSUME NEW S \in SUBSET Tx, NEW af, NEW t \in Tx, WithNonce(S, Nonce[t]) = {},
         (S = {} /\ af = newAccountFrom) \/ Bounded(af, S)
  PROVE  Bounded(set(af, t), S \union {t})
<1> DEFINE g == set(af, t)
<1>0. Nonce[t] \in Nat /\ \A u \in S : Nonce[u] \in Nat
  BY TransactionsAssumption
<1>1. af.txs = S
  BY DEF Bounded, newAccountFrom
<1>2. g = [minNonce |-> g.minNonce, maxNonce |-> g.maxNonce, txs |-> S \union {t}]
  <2>1. (S \ WithNonce(S, Nonce[t])) \union {t} = S \union {t}
    OBVIOUS
  <2> QED BY <1>1, <2>1 DEF set
<1>3. CASE S = {}
  <2>1. g.minNonce = Nonce[t] /\ g.maxNonce = Nonce[t]
    BY <1>1, <1>3 DEF set
  <2> HIDE DEF g
  <2>2. Bounded(g, S \union {t})
    BY <1>0, <1>2, <1>3, <2>1 DEF Bounded
  <2> QED BY <2>2 DEF g
<1>4. CASE S # {}
  <2>1. Bounded(af, S)
    BY <1>4
  <2>2. /\ g.minNonce = IF af.minNonce > Nonce[t] THEN Nonce[t] ELSE af.minNonce
        /\ g.maxNonce = IF af.maxNonce < Nonce[t] THEN Nonce[t] ELSE af.maxNonce
    BY <1>1, <1>4 DEF set
  <2> HIDE DEF g
  <2>3. /\ g.minNonce \in Nat /\ g.maxNonce \in Nat
        /\ \A u \in S \union {t} : g.minNonce <= Nonce[u] /\ Nonce[u] <= g.maxNonce
        /\ \E u \in S \union {t} : Nonce[u] = g.maxNonce
    BY <1>0, <2>1, <2>2 DEF Bounded
  <2>4. Bounded(g, S \union {t})
    BY <1>2, <2>3, Zenon DEF Bounded
  <2> QED BY <2>4 DEF g
<1> QED BY <1>3, <1>4

\* A transaction takes the place of one with its nonce: remove and set in replace.
LEMMA ReplaceBounded ==
  ASSUME NEW S \in SUBSET Tx, NEW af, NEW t \in Tx, Bounded(af, S),
         NEW old \in S, WithNonce(S, Nonce[t]) = {old}
  PROVE  Bounded(set(remove(af, Nonce[t]), t), (S \ {old}) \union {t})
<1> DEFINE h == remove(af, Nonce[t])
           g == set(h, t)
           R == S \ {old}
<1>0. /\ Nonce[t] \in Nat /\ \A u \in S : Nonce[u] \in Nat
      /\ Nonce[old] = Nonce[t] /\ \A u \in R : Nonce[u] # Nonce[t]
  BY TransactionsAssumption DEF WithNonce
<1>1. /\ h.txs = R
      /\ h.minNonce = IF af.minNonce = Nonce[t] THEN Nonce[t] + 1 ELSE af.minNonce
      /\ h.maxNonce = IF af.maxNonce = Nonce[t] THEN Nonce[t] - 1 ELSE af.maxNonce
  BY DEF remove, Bounded
<1> HIDE DEF h
<1>2. /\ g = [minNonce |-> g.minNonce, maxNonce |-> g.maxNonce, txs |-> R \union {t}]
      /\ g.minNonce = IF R = {} \/ h.minNonce > Nonce[t] THEN Nonce[t] ELSE h.minNonce
      /\ g.maxNonce = IF R = {} \/ h.maxNonce < Nonce[t] THEN Nonce[t] ELSE h.maxNonce
  <2>1. (R \ WithNonce(R, Nonce[t])) \union {t} = R \union {t}
    BY <1>0 DEF WithNonce
  <2> HIDE DEF R
  <2> QED BY <1>1, <2>1 DEF set
<1> HIDE DEF g
<1>3. /\ af.minNonce \in Nat /\ af.maxNonce \in Nat
      /\ \A u \in S : af.minNonce <= Nonce[u] /\ Nonce[u] <= af.maxNonce
      /\ \E u \in S : Nonce[u] = af.maxNonce
  BY DEF Bounded
<1>4. CASE R = {}
  <2>1. g.minNonce = Nonce[t] /\ g.maxNonce = Nonce[t]
    BY <1>2, <1>4
  <2>2. Bounded(g, R \union {t})
    <3> HIDE DEF R
    <3> QED BY <1>0, <1>2, <1>4, <2>1 DEF Bounded
  <2> QED BY <2>2 DEF g, h
<1>5. CASE R # {}
  <2>1. g.minNonce = af.minNonce /\ g.maxNonce = af.maxNonce
    BY <1>0, <1>1, <1>2, <1>3, <1>5
  <2>2. /\ \A u \in R \union {t} : g.minNonce <= Nonce[u] /\ Nonce[u] <= g.maxNonce
        /\ \E u \in R \union {t} : Nonce[u] = g.maxNonce
    BY <1>0, <1>3, <2>1
  <2>3. Bounded(g, R \union {t})
    BY <1>2, <1>3, <2>1, <2>2, Zenon DEF Bounded
  <2> QED BY <2>3 DEF g, h
<1> QED BY <1>4, <1>5

\* The lowest nonces leave the entry of a sender: Prune.
LEMMA RestBounded ==
  ASSUME NEW S \in SUBSET Tx, NEW af, Bounded(af, S), NEW n \in Int
  PROVE  /\ Gone(af, n) = {t \in S : Nonce[t] <= n}
         /\ Rest(af, n).txs = S \ Gone(af, n)
         /\ S \ Gone(af, n) # {} => Bounded(Rest(af, n), S \ Gone(af, n))
<1> DEFINE gone == Gone(af, n)
           M == {m \in af.minNonce..(af.maxNonce + 1) : WithNonce(gone, m) = {}}
           r == Rest(af, n)
<1>0. /\ af = [minNonce |-> af.minNonce, maxNonce |-> af.maxNonce, txs |-> S]
      /\ af.minNonce \in Nat /\ af.maxNonce \in Nat
      /\ \A t \in S : Nonce[t] \in Nat /\ af.minNonce <= Nonce[t] /\ Nonce[t] <= af.maxNonce
      /\ \E t \in S : Nonce[t] = af.maxNonce
  BY TransactionsAssumption DEF Bounded
<1>1. gone = {t \in S : Nonce[t] <= n}
  BY <1>0 DEF Gone
<1>2. r = [minNonce |-> Min(M), maxNonce |-> af.maxNonce, txs |-> S \ gone]
  <2> DEFINE low == Min(M)
  <2>1. r = [af EXCEPT !.minNonce = low, !.txs = @ \ gone]
    BY DEF Rest
  <2> HIDE DEF low, gone, r, M
  <2>2. r = [minNonce |-> low, maxNonce |-> af.maxNonce, txs |-> S \ gone]
    <3>1. PICK lo, hi : af = [minNonce |-> lo, maxNonce |-> hi, txs |-> S]
      BY <1>0
    <3> QED BY ZenonT(60), <2>1, <3>1
  <2> QED BY <2>2 DEF low
<1>3. Min(M) \in M /\ \A m \in M : Min(M) <= m
  <2>1. M \in SUBSET Nat
    BY <1>0
  <2>2. af.maxNonce + 1 \in M
    BY <1>0, <1>1 DEF WithNonce
  <2> HIDE DEF M
  <2> QED BY <2>1, <2>2, MinProperty
<1>4. Min(M) \in Nat
  BY <1>0, <1>3
<1>5. ASSUME NEW t \in S \ gone PROVE Min(M) <= Nonce[t] /\ Nonce[t] <= af.maxNonce
  <2>1. Nonce[t] \in af.minNonce..(af.maxNonce + 1)
    BY <1>0
  <2>2. WithNonce(gone, Nonce[t]) = {}
    BY <1>1, <1>5 DEF WithNonce
  <2> QED BY <1>0, <1>3, <2>1, <2>2
<1>6. ASSUME S \ gone # {} PROVE \E t \in S \ gone : Nonce[t] = af.maxNonce
  BY <1>0, <1>1, <1>6
<1> HIDE DEF gone, M, r
<1>7. r.txs = S \ gone
  BY <1>2
<1>8. S \ gone # {} => Bounded(r, S \ gone)
  BY <1>0, <1>2, <1>4, <1>5, <1>6 DEF Bounded
<1> QED BY <1>1, <1>7, <1>8 DEF r, gone

\* The totals of the indexes by payer and by sender.
LEMMA TotalFacts ==
  ASSUME NEW W \in [Tx -> Int], NEW S \in SUBSET Tx, IsFiniteSet(S)
  PROVE  /\ Total(W, {}) = 0 /\ Total(W, S) \in Int
         /\ \A t \in Tx \ S : Total(W, S \union {t}) = Total(W, S) + W[t]
         /\ \A R \in SUBSET S : Total(W, S) - Total(W, R) = Total(W, S \ R)
<1>0. \A x \in Tx : W[x] \in Int
  OBVIOUS
<1>1. Total(W, {}) = 0
  BY SumEmpty DEF Total
<1>2. Total(W, S) \in Int
  BY <1>0, SumType DEF Total
<1>3. ASSUME NEW t \in Tx \ S PROVE Total(W, S \union {t}) = Total(W, S) + W[t]
  <2> DEFINE T == S \union {t}
  <2>1. IsFiniteSet(T) /\ t \in T /\ T \ {t} = S /\ \A x \in T : W[x] \in Int
    BY SMTT(60), <1>0, AddIsFinite
  <2> HIDE DEF T
  <2>2. SumFunctionOnSet(W, T) = W[t] + SumFunctionOnSet(W, T \ {t})
    BY <2>1, SumTake
  <2>3. Total(W, T) = W[t] + Total(W, S) /\ W[t] \in Int
    BY <1>0, <2>1, <2>2 DEF Total
  <2>4. Total(W, T) = Total(W, S) + W[t]
    BY <1>2, <2>3
  <2> QED BY <2>4 DEF T
<1>4. ASSUME NEW R \in SUBSET S PROVE Total(W, S) - Total(W, R) = Total(W, S \ R)
  BY <1>0, SumMinus DEF Total
<1> QED BY <1>1, <1>2, <1>3, <1>4

\* A weight of transactions, and a key that no transaction of S has.
Weight(W) == W \in [Tx -> Int]

NewKey(S, t) == t \in Tx \ S /\ \A u \in S : ~SameKey(u, t)

\* A transaction with a new key enters an index: Enter.
LEMMA EnterCounted ==
  ASSUME NEW W, NEW Of, NEW S, NEW t, NEW map, NEW new,
         Weight(W), Keyed(S), NewKey(S, t), Counted(map, S, Of, W),
         new = Entered(W, map, Of[t], t)
  PROVE  Counted(new, S \union {t}, Of, W)
<1>0. W \in [Tx -> Int] /\ t \in Tx \ S /\ \A u \in S : ~SameKey(u, t)
  BY DEF Weight, NewKey
<1> DEFINE b == Of[t]
           X == Those(S, Of, b)
           acc == At(map, b, newAccount)
           entry == Enter(W, acc, t)
<1>1. X \in SUBSET Tx /\ IsFiniteSet(X) /\ t \in Tx \ X
  BY <1>0, PartIsFinite DEF Keyed, Those
<1>2. acc.total = Total(W, X) /\ acc.txs = X
  <2>1. CASE b \in DOMAIN map
    BY <2>1 DEF Counted, At
  <2>2. CASE b \notin DOMAIN map
    <3>1. X = {}
      BY <2>2 DEF Counted, Those
    <3> QED BY <1>0, <1>1, <2>2, <3>1, TotalFacts DEF At, newAccount
  <2> QED BY <2>1, <2>2
<1>3. {u \in X : SameKey(u, t)} = {}
  BY <1>0 DEF Those
<1> HIDE DEF X, acc
<1>4. entry = [total |-> Total(W, X \union {t}), txs |-> X \union {t}]
  <2>1. /\ Total(W, {}) = 0 /\ Total(W, X) \in Int /\ W[t] \in Int
        /\ Total(W, X \union {t}) = Total(W, X) + W[t]
    BY <1>0, <1>1, TotalFacts
  <2>2. entry = [total |-> Total(W, X) - Total(W, {}) + W[t], txs |-> (X \ {}) \union {t}]
    BY <1>2, <1>3 DEF Enter
  <2>3. Total(W, X) - Total(W, {}) + W[t] = Total(W, X \union {t})
    BY <2>1
  <2> QED BY <2>2, <2>3, Zenon
<1> HIDE DEF entry
<1>5. /\ DOMAIN new = DOMAIN map \union {b}
      /\ \A a \in DOMAIN new : new[a] = IF a = b THEN entry ELSE map[a]
  BY DEF Entered, Put, entry, acc
<1>6. ASSUME NEW a \in DOMAIN new
      PROVE  new[a] = [total |-> Total(W, Those(S \union {t}, Of, a)),
                       txs |-> Those(S \union {t}, Of, a)]
  <2>1. CASE a = b
    <3>1. Those(S \union {t}, Of, a) = X \union {t}
      BY <2>1 DEF Those, X
    <3> QED BY <1>4, <1>5, <2>1, <3>1
  <2>2. CASE a # b
    <3>1. Those(S \union {t}, Of, a) = Those(S, Of, a)
      BY <2>2 DEF Those
    <3>2. a \in DOMAIN map /\ new[a] = map[a]
      BY <1>5, <2>2
    <3> QED BY <3>1, <3>2 DEF Counted
  <2> QED BY <2>1, <2>2
<1>7. {Of[u] : u \in S \union {t}} \subseteq DOMAIN new
  BY <1>5 DEF Counted
<1> QED BY <1>5, <1>6, <1>7, Zenon DEF Counted

\* Transactions leave an index: Leave.
LEMMA LeaveCounted ==
  ASSUME NEW W, NEW Of, NEW S, NEW R, NEW map, NEW new,
         Weight(W), Keyed(S), R \in SUBSET S, Counted(map, S, Of, W),
         new = Leave(W, map, Of, R)
  PROVE  Counted(new, S \ R, Of, W)
<1>1. DOMAIN new = DOMAIN map
  BY DEF Leave
<1>2. ASSUME NEW a \in DOMAIN map
      PROVE  new[a] = [total |-> Total(W, Those(S \ R, Of, a)), txs |-> Those(S \ R, Of, a)]
  <2> DEFINE X == Those(S, Of, a)
             old == {u \in map[a].txs : \E t \in R : Of[t] = a /\ SameKey(u, t)}
  <2>1. new[a] = [total |-> map[a].total - Total(W, old), txs |-> map[a].txs \ old]
    BY DEF Leave
  <2>2. map[a].total = Total(W, X) /\ map[a].txs = X
    BY DEF Counted
  <2>3. old = Those(R, Of, a)
    <3>1. ASSUME NEW u \in old PROVE u \in Those(R, Of, a)
      BY <2>2 DEF Keyed, Those
    <3>2. ASSUME NEW u \in Those(R, Of, a) PROVE u \in old
      BY <2>2 DEF Those, SameKey
    <3> QED BY <3>1, <3>2
  <2> HIDE DEF old
  <2>4. X \in SUBSET Tx /\ IsFiniteSet(X) /\ old \in SUBSET X /\ X \ old = Those(S \ R, Of, a)
    BY <2>3, PartIsFinite DEF Keyed, Those
  <2> HIDE DEF X
  <2>5. Total(W, X) - Total(W, old) = Total(W, X \ old)
    BY <2>4, TotalFacts DEF Weight
  <2> QED BY SMTT(60), <2>1, <2>2, <2>4, <2>5
<1>3. {Of[u] : u \in S \ R} \subseteq DOMAIN new
  BY <1>1 DEF Counted
<1> QED BY <1>1, <1>2, <1>3, Zenon DEF Counted

\* An index without its empty entries has those of the transactions.
LEMMA DropDomain ==
  ASSUME NEW W, NEW Of, NEW S, NEW map, NEW new, Counted(map, S, Of, W), new = DropEmpty(map)
  PROVE  DOMAIN new = {Of[t] : t \in S}
<1>1. DOMAIN new = {a \in DOMAIN map : map[a].txs # {}}
  BY DEF DropEmpty
<1>2. \A a \in DOMAIN map : map[a].txs = Those(S, Of, a)
  BY DEF Counted
<1> QED BY <1>1, <1>2 DEF Counted, Those

\* The totals stay right when the empty entries are dropped.
LEMMA DropCounted ==
  ASSUME NEW W, NEW Of, NEW S, NEW map, NEW new, Counted(map, S, Of, W), new = DropEmpty(map)
  PROVE  Counted(new, S, Of, W)
<1>1. /\ DOMAIN new \subseteq DOMAIN map
      /\ \A a \in DOMAIN new : new[a] = map[a]
  BY DEF DropEmpty
<1>2. DOMAIN new = {Of[t] : t \in S}
  BY DropDomain, Zenon
<1> QED BY <1>1, <1>2 DEF Counted

\* A new element at the end of a list.
LEMMA AppendMembers ==
  ASSUME NEW A, NEW s \in Seq(A), NEW a \in A
  PROVE  /\ Append(s, a) \in Seq(A)
         /\ Members(Append(s, a)) = Members(s) \union {a}
         /\ Distinct(s) /\ a \notin Members(s) => Distinct(Append(s, a))
<1> DEFINE r == Append(s, a)
<1>1. /\ r \in Seq(A) /\ Len(s) \in Nat /\ DOMAIN s = 1..Len(s)
      /\ DOMAIN r = 1..(Len(s) + 1) /\ r[Len(s) + 1] = a
      /\ \A i \in 1..Len(s) : r[i] = s[i]
  BY ListType, AppendList
<1> HIDE DEF r
<1>2. Members(r) = Members(s) \union {a}
  BY <1>1 DEF Members
<1>3. ASSUME Distinct(s), a \notin Members(s), NEW i \in DOMAIN r, NEW j \in DOMAIN r, r[i] = r[j]
      PROVE  i = j
  <2>1. \A n \in 1..Len(s) : r[n] # a
    BY SMTT(60), <1>1, <1>3 DEF Members
  <2>2. \A n \in DOMAIN r : n \in 1..Len(s) \/ n = Len(s) + 1
    BY <1>1
  <2> QED BY <1>1, <1>3, <2>1, <2>2 DEF Distinct
<1> QED BY <1>1, <1>2, <1>3 DEF Distinct, r

\* The entry of a sender, present or not, has what the pool has of it.
LEMMA SenderEntry ==
  ASSUME NEW p, SendersInv(p), NEW t \in Tx, NEW af, af = At(p.from, From[t], newAccountFrom)
  PROVE  /\ af.txs = Those(p.all, From, From[t]) /\ af.txs \in SUBSET Tx
         /\ (af.txs = {} /\ af = newAccountFrom) \/ Bounded(af, af.txs)
         /\ WithNonce(af.txs, Nonce[t]) = {u \in p.all : SameKey(u, t)}
<1>1. CASE From[t] \in DOMAIN p.from
  <2>1. af = p.from[From[t]] /\ Bounded(af, Those(p.all, From, From[t]))
    BY <1>1 DEF SendersInv, At
  <2>2. af.txs = Those(p.all, From, From[t])
    BY <2>1 DEF Bounded
  <2>3. af.txs \in SUBSET Tx /\ WithNonce(af.txs, Nonce[t]) = {u \in p.all : SameKey(u, t)}
    BY <2>2 DEF SendersInv, Keyed, Those, WithNonce, SameKey
  <2> QED BY <2>1, <2>2, <2>3
<1>2. CASE From[t] \notin DOMAIN p.from
  <2>1. Those(p.all, From, From[t]) = {} /\ {u \in p.all : SameKey(u, t)} = {}
    BY <1>2 DEF SendersInv, Those, SameKey
  <2> QED BY <1>2, <2>1 DEF At, newAccountFrom, WithNonce
<1> QED BY <1>1, <1>2

\* push adds a transaction under a key that is not in the pool.
LEMMA PushPool ==
  ASSUME NEW p, PoolInv(p), NEW t \in Tx, t \notin p.all,
         get(At(p.from, From[t], newAccountFrom), Nonce[t]) = NoTx,
         NEW q, q = push(p, t)
  PROVE  PoolInv(q)
<1> DEFINE a == From[t]
           af == At(p.from, a, newAccountFrom)
           X == Those(p.all, From, a)
<1>0. IsPool(p) /\ SendersInv(p) /\ TotalsInv(p) /\ SelectorInv(p) /\ Keyed(p.all)
  BY DEF PoolInv, SendersInv
<1>1. /\ IsPool(q)
      /\ q.all = p.all \union {t}
      /\ q.from = Put(p.from, From[t], set(At(p.from, From[t], newAccountFrom), t))
      /\ q.payer = Entered(Bandwidth, p.payer, PayerOrFrom[t], t)
      /\ q.point = Entered(PointChange, p.point, From[t], t)
      /\ q.incl = IF From[t] \in Members(p.incl) THEN p.incl ELSE Append(p.incl, From[t])
      /\ q.excl = RemoveFirst(p.excl, From[t])
  <2>1. Pushed(p, t, q)
    BY ZenonT(60), <1>0, PushFields
  <2> QED BY ZenonT(60), <2>1 DEF Pushed
<1>2. /\ af.txs = X /\ X \in SUBSET Tx
      /\ (X = {} /\ af = newAccountFrom) \/ Bounded(af, X)
      /\ WithNonce(X, Nonce[t]) = {u \in p.all : SameKey(u, t)}
  <2> HIDE DEF af
  <2>1. af = At(p.from, From[t], newAccountFrom)
    BY DEF af
  <2> QED BY ZenonT(60), <1>0, <2>1, SenderEntry
<1>3. WithNonce(X, Nonce[t]) = {}
  <2> HIDE DEF X
  <2>1. WithNonce(X, Nonce[t]) \in SUBSET Tx /\ TheTx(WithNonce(X, Nonce[t])) = NoTx
    BY <1>2 DEF WithNonce, get
  <2> QED BY <2>1, TheTxFound
<1>4. \A u \in p.all : ~SameKey(u, t) /\ ~SameKey(t, u)
  BY <1>2, <1>3 DEF SameKey
<1>5. Bounded(set(af, t), X \union {t})
  <2> HIDE DEF af, X
  <2> QED BY <1>2, <1>3, SetBounded
<1>6. Keyed(q.all)
  <2>1. IsFiniteSet(p.all) => IsFiniteSet(p.all \union {t})
    BY AddIsFinite
  <2> QED BY <1>0, <1>1, <1>4, <2>1 DEF Keyed
<1>7. SendersInv(q)
  <2> DEFINE s == set(af, t)
  <2>1. /\ DOMAIN q.from = DOMAIN p.from \union {a}
        /\ \A x \in DOMAIN q.from : q.from[x] = IF x = a THEN s ELSE p.from[x]
    BY <1>1 DEF Put
  <2>2. DOMAIN q.from = {From[u] : u \in q.all}
    BY <1>0, <1>1, <2>1 DEF SendersInv
  <2>3. ASSUME NEW x \in DOMAIN q.from PROVE Bounded(q.from[x], Those(q.all, From, x))
    <3> HIDE DEF s
    <3>1. CASE x = a
      <4>1. Those(q.all, From, x) = X \union {t}
        BY <1>1, <3>1 DEF Those
      <4>2. Bounded(s, X \union {t})
        BY <1>5 DEF s
      <4> QED BY <2>1, <3>1, <4>1, <4>2
    <3>2. CASE x # a
      <4>1. Those(q.all, From, x) = Those(p.all, From, x)
        BY <1>1, <3>2 DEF Those
      <4> QED BY <1>0, <2>1, <3>2, <4>1 DEF SendersInv
    <3> QED BY <3>1, <3>2
  <2> QED BY <1>6, <2>2, <2>3 DEF SendersInv
<1>8. TotalsInv(q)
  <2>1. Weight(Bandwidth) /\ Weight(PointChange)
    BY TransactionsAssumption DEF Weight
  <2>2. NewKey(p.all, t)
    BY <1>4 DEF NewKey
  <2>3. Counted(q.payer, q.all, PayerOrFrom, Bandwidth) /\ DOMAIN q.payer = DOMAIN p.payer \union {PayerOrFrom[t]}
    <3> DEFINE S == p.all
               map == p.payer
               new == q.payer
    <3>1. Keyed(S) /\ NewKey(S, t) /\ Counted(map, S, PayerOrFrom, Bandwidth)
      BY <1>0, <2>2 DEF TotalsInv
    <3>2. new = Entered(Bandwidth, map, PayerOrFrom[t], t) /\ q.all = S \union {t}
      BY <1>1
    <3> HIDE DEF S, map, new
    <3>3. Counted(new, S \union {t}, PayerOrFrom, Bandwidth)
      BY <2>1, <3>1, <3>2, EnterCounted, ZenonT(60)
    <3>4. DOMAIN new = DOMAIN map \union {PayerOrFrom[t]}
      BY <3>2 DEF Entered, Put
    <3> QED BY <3>2, <3>3, <3>4 DEF map, new
  <2>4. Counted(q.point, q.all, From, PointChange) /\ DOMAIN q.point = DOMAIN p.point \union {From[t]}
    <3> DEFINE S == p.all
               map == p.point
               new == q.point
    <3>1. Keyed(S) /\ NewKey(S, t) /\ Counted(map, S, From, PointChange)
      BY <1>0, <2>2 DEF TotalsInv
    <3>2. new = Entered(PointChange, map, From[t], t) /\ q.all = S \union {t}
      BY <1>1
    <3> HIDE DEF S, map, new
    <3>3. Counted(new, S \union {t}, From, PointChange)
      BY <2>1, <3>1, <3>2, EnterCounted, ZenonT(60)
    <3>4. DOMAIN new = DOMAIN map \union {From[t]}
      BY <3>2 DEF Entered, Put
    <3> QED BY <3>2, <3>3, <3>4 DEF map, new
  <2> QED BY <1>0, <1>1, <2>3, <2>4 DEF TotalsInv
<1>9. SelectorInv(q)
  <2>1. a \in Account
    BY TransactionsAssumption
  <2>2. /\ q.excl \in Seq(Account) /\ Distinct(q.excl) /\ Members(q.excl) = Members(p.excl) \ {a}
    BY <1>0, <1>1, RemoveFirstMembers DEF SelectorInv
  <2>3. /\ q.incl \in Seq(Account) /\ Distinct(q.incl) /\ Members(q.incl) = Members(p.incl) \union {a}
    <3>1. p.incl \in Seq(Account) /\ Distinct(p.incl)
      BY ZenonT(60), <1>0 DEF SelectorInv
    <3>2. q.incl = IF a \in Members(p.incl) THEN p.incl ELSE Append(p.incl, a)
      BY ZenonT(60), <1>1
    <3>3. CASE a \in Members(p.incl)
      BY ZenonT(60), <3>1, <3>2, <3>3
    <3>4. CASE a \notin Members(p.incl)
      <4>1. q.incl = Append(p.incl, a)
        BY ZenonT(60), <3>2, <3>4
      <4> QED BY <2>1, <3>1, <3>4, <4>1, AppendMembers
    <3> QED BY ZenonT(60), <3>3, <3>4
  <2>4. DOMAIN q.from = DOMAIN p.from \union {a}
    BY <1>1 DEF Put
  <2> QED BY <1>0, <2>2, <2>3, <2>4 DEF SelectorInv
<1> QED BY <1>1, <1>7, <1>8, <1>9 DEF PoolInv

\* replace puts a transaction in the place of the one with its key.
LEMMA ReplacePool ==
  ASSUME NEW p, PoolInv(p), NEW t \in Tx, t \notin p.all,
         get(At(p.from, From[t], newAccountFrom), Nonce[t]) # NoTx,
         NEW q, q = replace(p, t)
  PROVE  /\ PoolInv(q)
         /\ \E old \in p.all : SameKey(old, t) /\ q.all = (p.all \ {old}) \union {t}
<1> DEFINE a == From[t]
           af == At(p.from, a, newAccountFrom)
           X == Those(p.all, From, a)
           old == get(p.from[a], Nonce[t])
           R == p.all \ {old}
           payer == Leave(Bandwidth, p.payer, PayerOrFrom, {old})
           point == Leave(PointChange, p.point, From, {old})
<1>0. IsPool(p) /\ SendersInv(p) /\ TotalsInv(p) /\ SelectorInv(p) /\ Keyed(p.all)
  BY DEF PoolInv, SendersInv
<1>1. /\ af.txs = X /\ X \in SUBSET Tx
      /\ (X = {} /\ af = newAccountFrom) \/ Bounded(af, X)
      /\ WithNonce(X, Nonce[t]) = {u \in p.all : SameKey(u, t)}
  <2> HIDE DEF af
  <2>1. af = At(p.from, From[t], newAccountFrom)
    BY DEF af
  <2> QED BY <1>0, <2>1, SenderEntry
<1>2. TheTx(WithNonce(X, Nonce[t])) # NoTx
  BY <1>1, Zenon DEF get
<1>3. a \in DOMAIN p.from /\ af = p.from[a] /\ Bounded(af, X)
  <2>1. X # {}
    BY <1>2 DEF WithNonce, TheTx
  <2>2. a \in DOMAIN p.from
    BY <1>0, <2>1 DEF SendersInv, Those
  <2> QED BY <1>1, <2>1, <2>2 DEF At
<1>4. old = TheTx(WithNonce(X, Nonce[t]))
  BY <1>1, <1>3, Zenon DEF get
<1>5. old \in WithNonce(X, Nonce[t])
  <2>1. WithNonce(X, Nonce[t]) \in SUBSET Tx
    BY <1>1 DEF WithNonce
  <2> HIDE DEF X, old
  <2> QED BY <1>2, <1>4, <2>1, TheTxFound
<1>6. old \in X /\ old \in p.all /\ SameKey(old, t)
  <2> HIDE DEF old
  <2>1. old \in {u \in p.all : SameKey(u, t)}
    BY <1>1, <1>5
  <2> QED BY <1>5, <2>1 DEF WithNonce
<1>7. WithNonce(X, Nonce[t]) = {old} /\ Keyed(R) /\ NewKey(R, t) /\ Keyed(R \union {t})
  <2> HIDE DEF old, X
  <2>1. \A u \in p.all : SameKey(u, t) => u = old
    BY <1>0, <1>6 DEF Keyed, SameKey
  <2>2. WithNonce(X, Nonce[t]) = {old}
    BY <1>1, <1>6, <2>1
  <2>3. Keyed(R)
    BY <1>0, PartIsFinite DEF Keyed
  <2>4. NewKey(R, t)
    BY <2>1 DEF NewKey
  <2>5. \A u \in R : ~SameKey(u, t) /\ ~SameKey(t, u)
    BY <2>1 DEF SameKey
  <2>6. Keyed(R \union {t})
    <3> HIDE DEF R
    <3> QED BY ZenonT(60), <2>3, <2>5, AddIsFinite DEF Keyed
  <2> QED BY <2>2, <2>3, <2>4, <2>6
<1>8. a \in DOMAIN point /\ DOMAIN point = DOMAIN p.point
  BY <1>0, <1>6 DEF Leave, TotalsInv, SameKey
<1>9. /\ IsPool(q)
      /\ q.all = R \union {t}
      /\ q.from = Put(p.from, a, set(remove(p.from[a], Nonce[t]), t))
      /\ q.payer = DropEmpty(Entered(Bandwidth, payer, PayerOrFrom[t], t))
      /\ q.point = Entered(PointChange, point, a, t)
      /\ q.incl = p.incl /\ q.excl = p.excl
  <2>1. /\ old = get(p.from[From[t]], Nonce[t])
        /\ payer = Leave(Bandwidth, p.payer, PayerOrFrom, {old})
        /\ point = Leave(PointChange, p.point, From, {old})
    BY ZenonT(60)
  <2> HIDE DEF old, payer, point
  <2>2. Replaced(p, t, old, payer, point, q)
    BY ZenonT(60), <1>0, <2>1, ReplaceFields
  <2> QED BY ZenonT(60), <1>8, <2>2 DEF Replaced
<1>10. Bounded(set(remove(af, Nonce[t]), t), (X \ {old}) \union {t})
  <2> HIDE DEF af, X, old
  <2> QED BY <1>1, <1>3, <1>6, <1>7, ReplaceBounded
<1> HIDE DEF old
<1>11. {From[u] : u \in q.all} = {From[u] : u \in p.all}
  BY <1>6, <1>9 DEF SameKey
<1>12. SendersInv(q)
  <2> DEFINE s == set(remove(af, Nonce[t]), t)
  <2>1. /\ DOMAIN q.from = DOMAIN p.from
        /\ \A x \in DOMAIN q.from : q.from[x] = IF x = a THEN s ELSE p.from[x]
    BY <1>3, <1>9 DEF Put
  <2> HIDE DEF s
  <2>2. ASSUME NEW x \in DOMAIN q.from PROVE Bounded(q.from[x], Those(q.all, From, x))
    <3>1. CASE x = a
      <4>1. Those(q.all, From, x) = (X \ {old}) \union {t}
        BY <1>9, <3>1 DEF Those
      <4>2. Bounded(s, (X \ {old}) \union {t})
        BY <1>10 DEF s
      <4> QED BY <2>1, <3>1, <4>1, <4>2
    <3>2. CASE x # a
      <4>1. Those(q.all, From, x) = Those(p.all, From, x)
        BY <1>6, <1>9, <3>2 DEF Those, SameKey
      <4> QED BY <1>0, <2>1, <3>2, <4>1 DEF SendersInv
    <3> QED BY <3>1, <3>2
  <2> QED BY ZenonT(60), <1>0, <1>7, <1>9, <1>11, <2>1, <2>2 DEF SendersInv
<1>13. TotalsInv(q)
  <2>1. Weight(Bandwidth) /\ Weight(PointChange) /\ {old} \in SUBSET p.all
    BY <1>6, TransactionsAssumption DEF Weight
  <2>2. Counted(payer, R, PayerOrFrom, Bandwidth) /\ Counted(point, R, From, PointChange)
    <3> DEFINE S == p.all
               m1 == p.payer
               m2 == p.point
               O == {old}
    <3>1. /\ Keyed(S) /\ O \in SUBSET S /\ R = S \ O
          /\ Counted(m1, S, PayerOrFrom, Bandwidth) /\ Counted(m2, S, From, PointChange)
          /\ payer = Leave(Bandwidth, m1, PayerOrFrom, O) /\ point = Leave(PointChange, m2, From, O)
      BY <1>0, <2>1 DEF TotalsInv
    <3> HIDE DEF S, m1, m2, O, payer, point, R
    <3>2. Counted(payer, S \ O, PayerOrFrom, Bandwidth)
      BY <2>1, <3>1, LeaveCounted, ZenonT(60)
    <3>3. Counted(point, S \ O, From, PointChange)
      BY <2>1, <3>1, LeaveCounted, ZenonT(60)
    <3> QED BY <3>1, <3>2, <3>3
  <2> HIDE DEF payer, point, R
  <2>3. Counted(q.point, q.all, From, PointChange) /\ DOMAIN q.point = {From[u] : u \in q.all}
    <3> DEFINE new == q.point
    <3>1. new = Entered(PointChange, point, From[t], t)
      BY <1>9
    <3> HIDE DEF new
    <3>2. Counted(new, R \union {t}, From, PointChange)
      BY <1>7, <2>1, <2>2, <3>1, EnterCounted, ZenonT(60)
    <3>3. DOMAIN new = DOMAIN point
      BY <1>8, <3>1 DEF Entered, Put
    <3>4. q.all = R \union {t} /\ DOMAIN point = {From[u] : u \in p.all}
      BY ZenonT(60), <1>0, <1>8, <1>9 DEF TotalsInv
    <3> QED BY <1>11, <3>2, <3>3, <3>4 DEF new
  <2>4. Counted(q.payer, q.all, PayerOrFrom, Bandwidth) /\ DOMAIN q.payer = {PayerOrFrom[u] : u \in q.all}
    <3> DEFINE mid == Entered(Bandwidth, payer, PayerOrFrom[t], t)
               new == q.payer
               T == R \union {t}
    <3>1. new = DropEmpty(mid) /\ q.all = T
      BY <1>9
    <3>2. mid = Entered(Bandwidth, payer, PayerOrFrom[t], t)
      OBVIOUS
    <3> HIDE DEF mid, new
    <3>3. Counted(mid, R \union {t}, PayerOrFrom, Bandwidth)
      BY <1>7, <2>1, <2>2, <3>2, EnterCounted, ZenonT(60)
    <3>4. Counted(mid, T, PayerOrFrom, Bandwidth)
      BY <3>3
    <3> HIDE DEF T
    <3>5. Counted(new, T, PayerOrFrom, Bandwidth)
      BY <3>1, <3>4, DropCounted, ZenonT(60)
    <3>6. DOMAIN new = {PayerOrFrom[u] : u \in T}
      BY <3>1, <3>4, DropDomain, ZenonT(60)
    <3> QED BY <3>1, <3>5, <3>6 DEF new
  <2> QED BY <2>3, <2>4 DEF TotalsInv
<1>14. SelectorInv(q)
  <2>1. DOMAIN q.from = DOMAIN p.from
    BY ZenonT(60), <1>0, <1>11, <1>12 DEF SendersInv
  <2> QED BY <1>0, <1>9, <2>1 DEF SelectorInv
<1> QED BY <1>6, <1>9, <1>12, <1>13, <1>14 DEF PoolInv

\* Prune takes out the transactions of a sender that are not above the limit.
LEMMA PrunePool ==
  ASSUME NEW p, PoolInv(p), NEW a, NEW n \in Int, NEW q, q = Prune(p, a, n)
  PROVE  /\ PoolInv(q)
         /\ q.all = {t \in p.all : ~(From[t] = a /\ Nonce[t] <= n)}
<1>0. IsPool(p) /\ SendersInv(p) /\ TotalsInv(p) /\ SelectorInv(p) /\ Keyed(p.all)
  BY DEF PoolInv, SendersInv
<1>1. CASE a \notin DOMAIN p.from
  <2>1. q = p
    BY <1>1 DEF Prune
  <2>2. \A t \in p.all : From[t] # a
    BY <1>0, <1>1 DEF SendersInv
  <2> QED BY <2>1, <2>2
<1>2. CASE a \in DOMAIN p.from
  <2> DEFINE af == p.from[a]
             X == Those(p.all, From, a)
             gone == Gone(af, n)
             rest == Rest(af, n)
  <2>1. /\ IsPool(q)
        /\ q.all = p.all \ gone
        /\ q.from = DropEmpty(Put(p.from, a, rest))
        /\ q.payer = DropEmpty(Leave(Bandwidth, p.payer, PayerOrFrom, gone))
        /\ q.point = DropEmpty(Leave(PointChange, p.point, From, gone))
        /\ q.incl = IF rest.txs = {} THEN RemoveFirst(p.incl, a) ELSE p.incl
        /\ q.excl = IF rest.txs = {} THEN RemoveFirst(p.excl, a) ELSE p.excl
    <3> HIDE DEF gone, rest
    <3>1. gone = Gone(p.from[a], n) /\ rest = Rest(p.from[a], n)
      BY DEF gone, rest
    <3>2. Pruned(p, a, gone, rest, q)
      BY ZenonT(60), <1>0, <1>2, <3>1, PruneFields
    <3> QED BY ZenonT(60), <3>2 DEF Pruned
  <2>2. X \in SUBSET Tx /\ Bounded(af, X) /\ X \subseteq p.all
    <3>1. X \in SUBSET Tx /\ X \subseteq p.all
      BY <1>0 DEF Keyed, Those
    <3>2. Bounded(af, X)
      BY <1>0, <1>2, Zenon DEF SendersInv
    <3> QED BY <3>1, <3>2
  <2>3. /\ gone = {t \in X : Nonce[t] <= n}
        /\ rest.txs = X \ gone
        /\ X \ gone # {} => Bounded(rest, X \ gone)
    <3> HIDE DEF X, af
    <3> QED BY ZenonT(60), <2>2, RestBounded
  <2> HIDE DEF gone, rest
  <2>4. gone \in SUBSET p.all /\ \A t \in gone : From[t] = a
    BY <2>3 DEF Those
  <2>5. q.all = {t \in p.all : ~(From[t] = a /\ Nonce[t] <= n)}
    BY <2>1, <2>3 DEF Those
  <2>6. Keyed(q.all)
    BY <1>0, <2>1, PartIsFinite DEF Keyed
  <2>7. Those(q.all, From, a) = X \ gone /\ \A x : x # a => Those(q.all, From, x) = Those(p.all, From, x)
    BY <2>1, <2>4 DEF Those
  <2>8. /\ \A x : x \in DOMAIN q.from <=> x \in DOMAIN p.from /\ (x = a => rest.txs # {})
        /\ \A x \in DOMAIN q.from : q.from[x] = IF x = a THEN rest ELSE p.from[x]
    <3> DEFINE put == Put(p.from, a, rest)
    <3>1. /\ DOMAIN put = DOMAIN p.from
          /\ \A x \in DOMAIN p.from : put[x] = IF x = a THEN rest ELSE p.from[x]
      BY <1>2 DEF Put
    <3>2. \A x \in DOMAIN p.from : x # a => p.from[x].txs # {}
      <4> SUFFICES ASSUME NEW x \in DOMAIN p.from PROVE p.from[x].txs # {}
        OBVIOUS
      <4>1. Bounded(p.from[x], Those(p.all, From, x))
        BY <1>0 DEF SendersInv
      <4>2. p.from[x].txs = Those(p.all, From, x) /\ Those(p.all, From, x) # {}
        BY <4>1 DEF Bounded
      <4> QED BY <4>2
    <3> HIDE DEF put
    <3>3. /\ DOMAIN q.from = {x \in DOMAIN put : put[x].txs # {}}
          /\ \A x \in DOMAIN q.from : q.from[x] = put[x]
      <4>1. q.from = DropEmpty(put)
        BY <2>1 DEF put
      <4> QED BY <4>1, Zenon DEF DropEmpty
    <3> QED BY <1>2, <3>1, <3>2, <3>3
  <2>9. SendersInv(q)
    <3>1. DOMAIN q.from = {From[t] : t \in q.all}
      <4>1. ASSUME NEW x PROVE x \in DOMAIN q.from <=> Those(q.all, From, x) # {}
        <5>1. x \in DOMAIN p.from <=> Those(p.all, From, x) # {}
          BY <1>0 DEF SendersInv, Those
        <5> QED BY <1>2, <2>3, <2>7, <2>8, <5>1
      <4> QED BY <4>1 DEF Those
    <3>2. ASSUME NEW x \in DOMAIN q.from PROVE Bounded(q.from[x], Those(q.all, From, x))
      <4>1. CASE x = a
        BY SMTT(60), <2>3, <2>7, <2>8, <4>1
      <4>2. CASE x # a
        BY <1>0, <2>7, <2>8, <4>2 DEF SendersInv
      <4> QED BY <4>1, <4>2
    <3> QED BY <2>6, <3>1, <3>2 DEF SendersInv
  <2>10. TotalsInv(q)
    <3> DEFINE S == p.all
               T == q.all
               m1 == p.payer
               m2 == p.point
               l1 == Leave(Bandwidth, m1, PayerOrFrom, gone)
               l2 == Leave(PointChange, m2, From, gone)
               n1 == q.payer
               n2 == q.point
    <3>1. Weight(Bandwidth) /\ Weight(PointChange)
      BY TransactionsAssumption DEF Weight
    <3>2. /\ Keyed(S) /\ gone \in SUBSET S /\ T = S \ gone
          /\ Counted(m1, S, PayerOrFrom, Bandwidth) /\ Counted(m2, S, From, PointChange)
          /\ l1 = Leave(Bandwidth, m1, PayerOrFrom, gone) /\ l2 = Leave(PointChange, m2, From, gone)
          /\ n1 = DropEmpty(l1) /\ n2 = DropEmpty(l2)
      BY <1>0, <2>1, <2>4 DEF TotalsInv
    <3> HIDE DEF S, T, m1, m2, l1, l2, n1, n2
    <3>3. Counted(l1, S \ gone, PayerOrFrom, Bandwidth)
      BY <3>1, <3>2, LeaveCounted, ZenonT(60)
    <3>4. Counted(l2, S \ gone, From, PointChange)
      BY <3>1, <3>2, LeaveCounted, ZenonT(60)
    <3>5. Counted(l1, T, PayerOrFrom, Bandwidth) /\ Counted(l2, T, From, PointChange)
      BY <3>2, <3>3, <3>4
    <3>6. Counted(n1, T, PayerOrFrom, Bandwidth)
      BY <3>2, <3>5, DropCounted, ZenonT(60)
    <3>7. Counted(n2, T, From, PointChange)
      BY <3>2, <3>5, DropCounted, ZenonT(60)
    <3>8. DOMAIN n1 = {PayerOrFrom[t] : t \in T}
      <4>1. Counted(l1, T, PayerOrFrom, Bandwidth)
        BY <3>5
      <4>2. n1 = DropEmpty(l1)
        BY <3>2
      <4> QED BY <4>1, <4>2, DropDomain, ZenonT(60)
    <3>9. DOMAIN n2 = {From[t] : t \in T}
      <4>1. Counted(l2, T, From, PointChange)
        BY <3>5
      <4>2. n2 = DropEmpty(l2)
        BY <3>2
      <4> QED BY <4>1, <4>2, DropDomain, ZenonT(60)
    <3> QED BY <3>6, <3>7, <3>8, <3>9 DEF TotalsInv, n1, n2, T
  <2>11. SelectorInv(q)
    <3>1. CASE rest.txs = {}
      <4>0. /\ p.incl \in Seq(Account) /\ Distinct(p.incl) /\ q.incl = RemoveFirst(p.incl, a)
            /\ p.excl \in Seq(Account) /\ Distinct(p.excl) /\ q.excl = RemoveFirst(p.excl, a)
        BY ZenonT(60), <1>0, <2>1, <3>1 DEF SelectorInv
      <4>1. /\ q.incl \in Seq(Account) /\ Distinct(q.incl) /\ Members(q.incl) = Members(p.incl) \ {a}
        BY <4>0, RemoveFirstMembers
      <4>2. /\ q.excl \in Seq(Account) /\ Distinct(q.excl) /\ Members(q.excl) = Members(p.excl) \ {a}
        BY <4>0, RemoveFirstMembers
      <4>3. DOMAIN q.from = DOMAIN p.from \ {a}
        BY <2>8, <3>1
      <4> QED BY <1>0, <4>1, <4>2, <4>3 DEF SelectorInv
    <3>2. CASE rest.txs # {}
      <4>1. DOMAIN q.from = DOMAIN p.from
        BY <2>8, <3>2
      <4> QED BY <1>0, <2>1, <3>2, <4>1 DEF SelectorInv
    <3> QED BY <3>1, <3>2
  <2> QED BY <2>1, <2>5, <2>9, <2>10, <2>11 DEF PoolInv
<1> QED BY <1>1, <1>2

\* PushOrReplace, whatever it does.
LEMMA PushOrReplacePool ==
  ASSUME NEW p, PoolInv(p), NEW t \in Tx, NEW n, NEW points, NEW elapsed, NEW r,
         r = PushOrReplace(p, t, n, points, elapsed)
  PROVE  /\ PoolInv(r.pool)
         /\ r.pool = p \/ (r.ok /\ \A u \in r.pool.all : u \in p.all \/ u = t)
<1>1. CASE CanPush(p, t, n, points)
  <2>1. r = [ok |-> TRUE, pool |-> push(p, t)]
    BY <1>1 DEF PushOrReplace
  <2>2. t \notin p.all /\ get(At(p.from, From[t], newAccountFrom), Nonce[t]) = NoTx
    BY <1>1 DEF CanPush
  <2>3. r.ok /\ r.pool = push(p, t)
    BY <2>1
  <2>4. PoolInv(r.pool)
    BY <2>2, <2>3, PushPool
  <2>5. r.pool.all = p.all \union {t}
    <3>1. Pushed(p, t, r.pool)
      BY ZenonT(60), <2>3, PushFields DEF PoolInv
    <3> QED BY ZenonT(60), <3>1 DEF Pushed
  <2> QED BY <2>3, <2>4, <2>5
<1>2. CASE ~CanPush(p, t, n, points) /\ CanReplace(p, t, elapsed, points)
  <2>1. r = [ok |-> TRUE, pool |-> replace(p, t)]
    BY <1>2 DEF PushOrReplace
  <2>2. t \notin p.all /\ get(At(p.from, From[t], newAccountFrom), Nonce[t]) # NoTx
    BY <1>2 DEF CanReplace
  <2>3. r.ok /\ r.pool = replace(p, t)
    BY <2>1
  <2>4. PoolInv(r.pool) /\ \E old \in p.all : r.pool.all = (p.all \ {old}) \union {t}
    BY <2>2, <2>3, ReplacePool
  <2> QED BY <2>3, <2>4
<1>3. CASE ~CanPush(p, t, n, points) /\ ~CanReplace(p, t, elapsed, points)
  <2>1. r = [ok |-> FALSE, pool |-> p]
    BY <1>3 DEF PushOrReplace
  <2> QED BY <2>1
<1> QED BY <1>1, <1>2, <1>3

\* The elements of a part of a list.
Slice(s, m, n) == {s[i] : i \in m..n}

IsPart(s, m, n) == m \in 1..(Len(s) + 1) /\ n \in 0..Len(s) /\ m <= n + 1

\* A list of elements of A without repetitions whose members are those of M.
Enumerates(s, A, M) == s \in Seq(A) /\ Distinct(s) /\ Members(s) = M

\* A part of a list without repetitions has none either, and has the members of its slice.
LEMMA PartMembers ==
  ASSUME NEW A, NEW s \in Seq(A), NEW m, NEW n, NEW r, Distinct(s), IsPart(s, m, n),
         r = SubSeq(s, m, n)
  PROVE  Enumerates(r, A, Slice(s, m, n))
<1>0. /\ Len(s) \in Nat /\ DOMAIN s = 1..Len(s)
      /\ m \in 1..(Len(s) + 1) /\ n \in 0..Len(s) /\ m <= n + 1
  BY ListType DEF IsPart
<1>1. /\ r \in Seq(A) /\ Len(r) = n - m + 1
      /\ \A i \in 1..(n - m + 1) : r[i] = s[m + i - 1]
  BY <1>0, PartOfList
<1>2. DOMAIN r = 1..(n - m + 1)
  BY <1>1, ListType
<1>3. \A i \in m..n : i - m + 1 \in DOMAIN r /\ r[i - m + 1] = s[i]
  <2> SUFFICES ASSUME NEW i \in m..n PROVE i - m + 1 \in DOMAIN r /\ r[i - m + 1] = s[i]
    BY ZenonT(60)
  <2>1. i - m + 1 \in 1..(n - m + 1) /\ m + (i - m + 1) - 1 = i
    BY <1>0
  <2> QED BY SMTT(60), <1>1, <1>2, <2>1
<1>4. \A i \in DOMAIN r : m + i - 1 \in m..n /\ m + i - 1 \in DOMAIN s
  BY SMTT(60), <1>0, <1>2
<1>5. Members(r) = Slice(s, m, n)
  <2>1. ASSUME NEW x \in Members(r) PROVE x \in {s[i] : i \in m..n}
    BY SMTT(60), <1>1, <1>2, <1>4 DEF Members
  <2>2. ASSUME NEW x \in {s[i] : i \in m..n} PROVE x \in Members(r)
    BY ZenonT(60), <1>3 DEF Members
  <2> QED BY <2>1, <2>2 DEF Slice
<1>6. ASSUME NEW i \in DOMAIN r, NEW j \in DOMAIN r, r[i] = r[j] PROVE i = j
  <2>1. m + i - 1 = m + j - 1
    BY SMTT(60), <1>1, <1>2, <1>4, <1>6 DEF Distinct
  <2> QED BY SMTT(60), <1>0, <1>2, <2>1
<1> QED BY <1>1, <1>5, <1>6 DEF Distinct, Enumerates

\* peekFirst finds the lowest nonce of a sender.
LEMMA PeekFound ==
  ASSUME NEW af, NEW S \in SUBSET Tx, Bounded(af, S)
  PROVE  /\ peekFirst(af) \in S
         /\ \A t \in S : Nonce[peekFirst(af)] <= Nonce[t]
<1>0. /\ af.txs = S /\ \E t \in S : TRUE
      /\ \A t \in S : Nonce[t] \in Nat /\ Nonce[t] \in af.minNonce..af.maxNonce
  BY TransactionsAssumption DEF Bounded
<1> DEFINE F == {t \in S : \A u \in S : Nonce[t] <= Nonce[u]}
           N == {Nonce[t] : t \in S}
<1>1. peekFirst(af) = TheTx(F)
  <2>1. {t \in af.txs : Nonce[t] \in af.minNonce..af.maxNonce} = S
    BY <1>0
  <2> QED BY <2>1, Zenon DEF peekFirst
<1>2. N \in SUBSET Nat /\ N # {}
  BY <1>0
<1>3. Min(N) \in N /\ \A n \in N : Min(N) <= n
  <2> HIDE DEF N
  <2> QED BY <1>2, MinProperty
<1>4. PICK t \in S : Min(N) = Nonce[t]
  BY ZenonT(60), <1>3
<1>5. t \in F
  BY <1>3, <1>4
<1>6. TheTx(F) \in F
  <2>1. F \in SUBSET Tx /\ F # {}
    BY <1>5
  <2> HIDE DEF F
  <2> QED BY <2>1, TheTxFound
<1> QED BY <1>1, <1>6

\* A sender at which PoolNext stops.
Stops(p, a) ==
  \/ a \notin DOMAIN p.from
  \/ a \notin DOMAIN p.nonceCache
  \/ get(p.from[a], p.nonceCache[a]) # NoTx

\* The fields that only a push, a replacement or Prune changes.
SameTxs(p, q) ==
  q.all = p.all /\ q.from = p.from /\ q.payer = p.payer /\ q.point = p.point

\* PoolNext excludes only senders at which it does not stop, and returns a transaction of
\* the first other one.
LEMMA NextPool ==
  ASSUME NEW p, PoolInv(p), NEW r, r = PoolNext(p)
  PROVE  /\ PoolInv(r.pool) /\ SameTxs(p, r.pool) /\ r.pool.nonceCache = p.nonceCache
         /\ \A x \in Members(r.pool.excl) \ Members(p.excl) : ~Stops(p, x)
         /\ r.tx = NoTx => \A x \in Members(p.incl) : ~Stops(p, x)
         /\ r.tx # NoTx => r.tx \in p.all /\ From[r.tx] \notin Members(r.pool.excl)
<1> DEFINE s == p.incl
           turns == {i \in DOMAIN s : Stops(p, s[i])}
           k == IF turns = {} THEN Len(s) + 1 ELSE Min(turns)
           a == s[k]
           u == SubSeq(s, 1, k - 1)
           v == SubSeq(s, k + 1, Len(s))
           q == r.pool
           peek == IF a \notin DOMAIN p.from THEN NoTx
                   ELSE IF a \in DOMAIN p.nonceCache THEN get(p.from[a], p.nonceCache[a])
                   ELSE peekFirst(p.from[a])
<1>0. IsPool(p) /\ SendersInv(p) /\ TotalsInv(p) /\ SelectorInv(p) /\ Keyed(p.all)
  BY DEF PoolInv, SendersInv
<1>1. s \in Seq(Account) /\ Len(s) \in Nat /\ DOMAIN s = 1..Len(s)
  BY <1>0, ListType DEF SelectorInv
<1>2. r = IF turns = {} THEN [tx |-> NoTx, pool |-> [p EXCEPT !.incl = <<>>, !.excl = p.excl \o u]]
          ELSE [tx |-> peek, pool |-> [p EXCEPT !.incl = Append(v, a), !.excl = p.excl \o u]]
  BY Zenon DEF PoolNext, Stops
<1>3. /\ IsPool(q) /\ SameTxs(p, q) /\ q.nonceCache = p.nonceCache
      /\ q.excl = p.excl \o u
      /\ turns = {} => r.tx = NoTx /\ q.incl = <<>>
      /\ turns # {} => r.tx = peek /\ q.incl = Append(v, a)
  <2> HIDE DEF turns, peek, u, v, a, k
  <2>1. PICK all, from, payer, point, incl, excl, nonceCache :
           p = [all |-> all, from |-> from, payer |-> payer, point |-> point,
                incl |-> incl, excl |-> excl, nonceCache |-> nonceCache]
    BY <1>0, Zenon DEF IsPool
  <2> DEFINE e == p.excl \o u
             i == Append(v, a)
  <2> HIDE DEF e, i
  <2>2. CASE turns = {}
    <3>1. r = [tx |-> NoTx, pool |-> [p EXCEPT !.incl = <<>>, !.excl = e]]
      BY <1>2, <2>2, Zenon DEF e
    <3>2. r.tx = NoTx /\ q = [p EXCEPT !.incl = <<>>, !.excl = e]
      BY <3>1
    <3> HIDE DEF q
    <3>3. /\ IsPool(q) /\ SameTxs(p, q) /\ q.nonceCache = p.nonceCache
          /\ q.excl = e /\ q.incl = <<>>
      BY ZenonT(60), <2>1, <3>2 DEF IsPool, SameTxs
    <3> QED BY <2>2, <3>2, <3>3 DEF e
  <2>3. CASE turns # {}
    <3>1. r = [tx |-> peek, pool |-> [p EXCEPT !.incl = i, !.excl = e]]
      BY <1>2, <2>3, Zenon DEF e, i
    <3>2. r.tx = peek /\ q = [p EXCEPT !.incl = i, !.excl = e]
      BY <3>1
    <3> HIDE DEF q
    <3>3. /\ IsPool(q) /\ SameTxs(p, q) /\ q.nonceCache = p.nonceCache
          /\ q.excl = e /\ q.incl = i
      BY ZenonT(60), <2>1, <3>2 DEF IsPool, SameTxs
    <3> QED BY <2>3, <3>2, <3>3 DEF e, i
  <2> QED BY <2>2, <2>3
<1>4. turns # {} => k \in turns
  <2>1. turns \in SUBSET Nat
    BY <1>1
  <2> HIDE DEF turns
  <2> QED BY ZenonT(60), <2>1, MinProperty
<1>5. k \in 1..(Len(s) + 1) /\ (turns # {} => k \in 1..Len(s) /\ Stops(p, a))
  BY SMTT(60), <1>1, <1>4
<1>6. \A i \in 1..(k - 1) : i \in DOMAIN s /\ ~Stops(p, s[i])
  <2> SUFFICES ASSUME NEW i \in 1..(k - 1) PROVE i \in DOMAIN s /\ ~Stops(p, s[i])
    OBVIOUS
  <2>1. i \in DOMAIN s
    BY <1>1, <1>5
  <2>2. CASE turns = {}
    BY <2>1, <2>2
  <2>3. CASE turns # {}
    <3>1. \A n \in turns : Min(turns) <= n
      <4>1. turns \in SUBSET Nat
        BY <1>1
      <4> HIDE DEF turns
      <4> QED BY <2>3, <4>1, MinProperty
    <3>2. k = Min(turns) /\ ~(k <= i)
      BY SMTT(60), <1>1, <1>5, <2>3
    <3>3. i \notin turns
      <4> HIDE DEF turns, k
      <4> QED BY <3>1, <3>2
    <3> QED BY <2>1, <3>3
  <2> QED BY <2>1, <2>2, <2>3
<1> HIDE DEF k, turns
<1>7. Distinct(s) /\ Distinct(p.excl) /\ p.excl \in Seq(Account)
      /\ Members(s) \cap Members(p.excl) = {} /\ Members(s) \union Members(p.excl) = DOMAIN p.from
  BY <1>0 DEF SelectorInv
<1>8. u \in Seq(Account) /\ Members(u) = Slice(s, 1, k - 1) /\ Distinct(u)
  <2> DEFINE m == 1
             n == k - 1
  <2>1. IsPart(s, m, n)
    BY <1>1, <1>5 DEF IsPart
  <2>2. u = SubSeq(s, m, n)
    OBVIOUS
  <2> HIDE DEF s, m, n, u
  <2>3. Enumerates(u, Account, Slice(s, m, n))
    BY <1>1, <1>7, <2>1, <2>2, PartMembers, Zenon
  <2> QED BY <2>3 DEF m, n, Enumerates
<1>9. Members(u) \subseteq Members(s) /\ \A x \in Members(u) : ~Stops(p, x)
  <2> HIDE DEF u, s
  <2> QED BY ZenonT(60), <1>6, <1>8 DEF Members, Slice
<1>10. q.excl \in Seq(Account) /\ Distinct(q.excl) /\ Members(q.excl) = Members(p.excl) \union Members(u)
  <2> HIDE DEF u, s, q
  <2>1. Members(p.excl) \cap Members(u) = {}
    BY <1>7, <1>9
  <2> QED BY <1>3, <1>7, <1>8, <2>1, ConcatMembers
<1>11. CASE turns = {}
  <2>1. Members(u) = Members(s)
    <3>1. k - 1 = Len(s)
      BY <1>1, <1>11 DEF k
    <3> HIDE DEF s, u
    <3> QED BY ZenonT(60), <1>1, <1>8, <3>1 DEF Members, Slice
  <2>2. q.incl \in Seq(Account) /\ Distinct(q.incl) /\ Members(q.incl) = {}
    <3> DEFINE e == q.incl
    <3>1. e = <<>>
      BY <1>3, <1>11
    <3> HIDE DEF e
    <3>2. e \in Seq(Account) /\ DOMAIN e = {}
      BY <3>1
    <3> QED BY <3>2 DEF e, Distinct, Members
  <2> HIDE DEF u, s, q
  <2>3. SelectorInv(q)
    BY <1>3, <1>7, <1>10, <2>1, <2>2 DEF SelectorInv, SameTxs
  <2>4. SendersInv(q) /\ TotalsInv(q)
    BY <1>0, <1>3 DEF SendersInv, TotalsInv, SameTxs
  <2>5. PoolInv(q)
    BY <1>3, <2>3, <2>4 DEF PoolInv
  <2>6. r.tx = NoTx
    BY <1>3, <1>11
  <2> QED BY <1>3, <1>9, <1>10, <2>1, <2>5, <2>6 DEF q, s
<1>12. CASE turns # {}
  <2>1. v \in Seq(Account) /\ Members(v) = Slice(s, k + 1, Len(s)) /\ Distinct(v)
    <3> DEFINE m == k + 1
               n == Len(s)
    <3>1. IsPart(s, m, n)
      BY <1>1, <1>5, <1>12 DEF IsPart
    <3>2. v = SubSeq(s, m, n)
      OBVIOUS
    <3> HIDE DEF s, m, n, v
    <3>3. Enumerates(v, Account, Slice(s, m, n))
      BY <1>1, <1>7, <3>1, <3>2, PartMembers, Zenon
    <3> QED BY <3>3 DEF m, n, Enumerates
  <2>2. a \in Account /\ a \in Members(s) /\ a \notin Members(u) /\ a \notin Members(v)
    <3>1. k \in DOMAIN s
      BY <1>1, <1>5, <1>12
    <3>2. a \notin Members(u)
      BY <1>5, <1>9, <1>12
    <3>3. \A i \in (k + 1)..Len(s) : i \in DOMAIN s /\ i # k
      BY <1>1, <1>5, <1>12
    <3>4. a \notin Members(v)
      <4> HIDE DEF v, s
      <4> QED BY <1>7, <2>1, <3>1, <3>3 DEF Distinct, Slice
    <3>5. a \in Account /\ a \in Members(s)
      BY <1>1, <3>1 DEF Members
    <3> QED BY <3>2, <3>4, <3>5
  <2>3. Members(s) = Members(u) \union {a} \union Members(v)
    <3>1. \A i \in DOMAIN s : i \in 1..(k - 1) \/ i = k \/ i \in (k + 1)..Len(s)
      BY <1>1, <1>5, <1>12
    <3>2. \A i \in (k + 1)..Len(s) : i \in DOMAIN s
      BY <1>1, <1>5, <1>12
    <3> HIDE DEF u, v, s
    <3>3. Members(v) \subseteq Members(s)
      BY <2>1, <3>2 DEF Members, Slice
    <3>4. Members(s) \subseteq Members(u) \union {a} \union Members(v)
      BY ZenonT(60), <1>8, <2>1, <3>1 DEF Members, Slice
    <3> QED BY <1>9, <2>2, <3>3, <3>4
  <2>4. Members(u) \cap Members(v) = {}
    <3>1. \A i \in 1..(k - 1), j \in (k + 1)..Len(s) : i \in DOMAIN s /\ j \in DOMAIN s /\ i # j
      BY <1>1, <1>5, <1>12
    <3> HIDE DEF u, v, s
    <3> QED BY <1>7, <1>8, <2>1, <3>1 DEF Distinct, Slice
  <2> HIDE DEF u, v
  <2>5. q.incl \in Seq(Account) /\ Distinct(q.incl) /\ Members(q.incl) = Members(v) \union {a}
    <3>1. q.incl = Append(v, a)
      BY <1>3, <1>12
    <3> HIDE DEF a, q, s
    <3>2. /\ Append(v, a) \in Seq(Account) /\ Members(Append(v, a)) = Members(v) \union {a}
          /\ Distinct(Append(v, a))
      BY <2>1, <2>2, AppendMembers
    <3> QED BY <3>1, <3>2
  <2> HIDE DEF q
  <2>6. SelectorInv(q)
    <3> HIDE DEF a, s
    <3> QED BY <1>3, <1>7, <1>10, <2>2, <2>3, <2>4, <2>5 DEF SelectorInv, SameTxs
  <2>7. SendersInv(q) /\ TotalsInv(q)
    BY <1>0, <1>3 DEF SendersInv, TotalsInv, SameTxs
  <2>8. PoolInv(q)
    BY <1>3, <2>6, <2>7 DEF PoolInv
  <2>9. r.tx = peek
    BY <1>3, <1>12
  <2>10. a \in DOMAIN p.from /\ a \notin Members(q.excl)
    <3> HIDE DEF a, s
    <3> QED BY <1>7, <1>10, <2>2
  <2> DEFINE X == Those(p.all, From, a)
  <2>11. X \in SUBSET Tx /\ Bounded(p.from[a], X)
    <3>1. X \in SUBSET Tx
      BY <1>0 DEF Keyed, Those
    <3>2. Bounded(p.from[a], X)
      <4> HIDE DEF a
      <4> QED BY <1>0, <2>10, Zenon DEF SendersInv
    <3> QED BY <3>1, <3>2
  <2>12. peek \in X
    <3> HIDE DEF a, X
    <3>1. CASE a \in DOMAIN p.nonceCache
      <4> DEFINE N == WithNonce(p.from[a].txs, p.nonceCache[a])
      <4>1. get(p.from[a], p.nonceCache[a]) # NoTx
        BY <1>5, <1>12, <2>10, <3>1 DEF Stops
      <4>2. p.from[a].txs = X
        BY <2>11 DEF Bounded
      <4>3. N \in SUBSET X
        BY <4>2 DEF WithNonce
      <4>4. get(p.from[a], p.nonceCache[a]) = TheTx(N)
        BY DEF get
      <4> HIDE DEF N
      <4>5. TheTx(N) \in N
        BY <2>11, <4>1, <4>3, <4>4, TheTxFound
      <4> QED BY <2>10, <3>1, <4>3, <4>4, <4>5
    <3>2. CASE a \notin DOMAIN p.nonceCache
      <4>1. peekFirst(p.from[a]) \in X
        BY <2>11, PeekFound
      <4> QED BY <2>10, <3>2, <4>1
    <3> QED BY <3>1, <3>2
  <2>13. r.tx # NoTx /\ r.tx \in p.all /\ From[r.tx] = a
    <3> HIDE DEF a, peek
    <3> QED BY <2>9, <2>11, <2>12, TransactionsAssumption DEF Those
  <2> HIDE DEF a, s
  <2> QED BY <1>3, <1>9, <1>10, <2>8, <2>10, <2>13 DEF q
<1> QED BY <1>11, <1>12

\* The selector starts again: the minter forgets what it excluded.
LEMMA ResetPool ==
  ASSUME NEW p, PoolInv(p), NEW q, q = ResetSelector(p)
  PROVE  PoolInv(q) /\ SameTxs(p, q) /\ Members(q.excl) = {} /\ DOMAIN q.nonceCache = {}
<1>0. IsPool(p) /\ SendersInv(p) /\ TotalsInv(p) /\ SelectorInv(p)
  BY DEF PoolInv
<1> DEFINE s == p.incl \o p.excl
<1>1. /\ IsPool(q) /\ SameTxs(p, q) /\ q.incl = s /\ q.excl = <<>> /\ q.nonceCache = EmptyMap
  <2>1. PICK all, from, payer, point, incl, excl, nonceCache :
           p = [all |-> all, from |-> from, payer |-> payer, point |-> point,
                incl |-> incl, excl |-> excl, nonceCache |-> nonceCache]
    BY <1>0, Zenon DEF IsPool
  <2>2. q = [p EXCEPT !.incl = s, !.excl = <<>>, !.nonceCache = EmptyMap]
    BY <2>1 DEF ResetSelector
  <2> HIDE DEF s
  <2> QED BY ZenonT(60), <2>1, <2>2 DEF IsPool, SameTxs
<1>2. s \in Seq(Account) /\ Distinct(s) /\ Members(s) = Members(p.incl) \union Members(p.excl)
  BY <1>0, ConcatMembers DEF SelectorInv
<1> HIDE DEF s
<1>3. q.excl \in Seq(Account) /\ DOMAIN q.excl = {} /\ DOMAIN q.nonceCache = {}
  BY <1>1 DEF EmptyMap
<1>4. Distinct(q.excl) /\ Members(q.excl) = {}
  BY <1>3 DEF Distinct, Members
<1>5. SelectorInv(q)
  BY <1>0, <1>1, <1>2, <1>3, <1>4 DEF SelectorInv, SameTxs
<1>6. SendersInv(q) /\ TotalsInv(q)
  BY <1>0, <1>1 DEF SendersInv, TotalsInv, SameTxs
<1> QED BY <1>1, <1>3, <1>4, <1>5, <1>6 DEF PoolInv

\* The minter notes the nonce it needs of a sender.
LEMMA CachePool ==
  ASSUME NEW p, PoolInv(p), NEW a, NEW n, NEW q, q = SetRequiredNonce(p, a, n)
  PROVE  /\ PoolInv(q) /\ SameTxs(p, q) /\ q.excl = p.excl
         /\ DOMAIN q.nonceCache = DOMAIN p.nonceCache \union {a}
         /\ \A x \in DOMAIN q.nonceCache : q.nonceCache[x] = IF x = a THEN n ELSE p.nonceCache[x]
<1>0. IsPool(p) /\ SendersInv(p) /\ TotalsInv(p) /\ SelectorInv(p)
  BY DEF PoolInv
<1>1. /\ IsPool(q) /\ SameTxs(p, q) /\ q.incl = p.incl /\ q.excl = p.excl
      /\ q.nonceCache = Put(p.nonceCache, a, n)
  <2>1. PICK all, from, payer, point, incl, excl, nonceCache :
           p = [all |-> all, from |-> from, payer |-> payer, point |-> point,
                incl |-> incl, excl |-> excl, nonceCache |-> nonceCache]
    BY <1>0, Zenon DEF IsPool
  <2> QED BY <2>1 DEF IsPool, SameTxs, SetRequiredNonce
<1>2. SelectorInv(q) /\ SendersInv(q) /\ TotalsInv(q)
  BY <1>0, <1>1 DEF SelectorInv, SendersInv, TotalsInv, SameTxs
<1> QED BY <1>1, <1>2 DEF PoolInv, Put

\* The empty pool is in order.
LEMMA NewPool == PoolInv(NewPendingTransactionPool)
<1> DEFINE p == NewPendingTransactionPool
<1>1. /\ IsPool(p) /\ p.all = {} /\ p.from = <<>> /\ p.payer = <<>> /\ p.point = <<>>
      /\ p.incl = <<>> /\ p.excl = <<>>
  BY DEF NewPendingTransactionPool, IsPool, EmptyMap
<1>2. DOMAIN <<>> = {} /\ <<>> \in Seq(Account) /\ IsFiniteSet({})
  BY EmptyList, EmptyIsFinite
<1>3. Members(<<>>) = {} /\ Distinct(<<>>)
  BY <1>2 DEF Members, Distinct
<1> HIDE DEF p
<1>4. SendersInv(p)
  BY <1>1, <1>2 DEF SendersInv, Keyed
<1>5. TotalsInv(p)
  BY <1>1, <1>2 DEF TotalsInv, Counted
<1>6. SelectorInv(p)
  BY <1>1, <1>2, <1>3 DEF SelectorInv
<1> QED BY <1>1, <1>4, <1>5, <1>6 DEF PoolInv, p

-----------------------------------------------------------------------------
(* What the minter need not notice.                                        *)

\* No transaction of a has the nonce n.
Missing(p, a, n) == \A t \in p.all : ~(From[t] = a /\ Nonce[t] = n)

\* A change of the pool that the selector need not notice: it excludes no other sender,
\* and an excluded sender gets no new nonce.
Quiet(p, q) ==
  /\ q.nonceCache = p.nonceCache
  /\ Members(q.excl) \subseteq Members(p.excl)
  /\ \A t \in q.all : From[t] \in Members(q.excl) => \E u \in p.all : SameKey(u, t)

\* A nonce that get does not find is missing.
LEMMA GetNone ==
  ASSUME NEW p, PoolInv(p), NEW a \in DOMAIN p.from, NEW n, get(p.from[a], n) = NoTx
  PROVE  Missing(p, a, n)
<1> DEFINE af == p.from[a]
           S == Those(p.all, From, a)
<1>1. Bounded(af, S) /\ S \in SUBSET Tx
  BY ZenonT(60) DEF PoolInv, SendersInv, Keyed, Those
<1>2. get(af, n) = NoTx
  OBVIOUS
<1> HIDE DEF af, S
<1>3. af.txs = S
  BY <1>1 DEF Bounded
<1> DEFINE W == WithNonce(S, n)
<1>4. W \in SUBSET Tx /\ TheTx(W) = NoTx
  BY <1>1, <1>2, <1>3 DEF get, WithNonce
<1>5. W = {}
  <2> HIDE DEF W
  <2> QED BY <1>4, TheTxFound
<1> QED BY <1>5 DEF WithNonce, Missing, S, Those

\* push lets the sender take part again; the others keep what they have.
LEMMA PushQuiet ==
  ASSUME NEW p, PoolInv(p), NEW t, NEW q, q = push(p, t)
  PROVE  Quiet(p, q)
<1> DEFINE a == From[t]
           s == p.excl
<1>1. IsPool(p) /\ s \in Seq(Account) /\ Distinct(s)
  BY DEF PoolInv, SelectorInv
<1>2. q.all = p.all \union {t} /\ q.nonceCache = p.nonceCache /\ q.excl = RemoveFirst(s, a)
  <2>1. Pushed(p, t, q)
    BY ZenonT(60), <1>1, PushFields
  <2> QED BY ZenonT(60), <2>1 DEF Pushed
<1> HIDE DEF s
<1>3. Members(q.excl) = Members(s) \ {a}
  <2> HIDE DEF a
  <2> QED BY <1>1, <1>2, RemoveFirstMembers
<1>4. \A u \in q.all : From[u] \in Members(q.excl) => u \in p.all
  BY <1>2, <1>3
<1> QED BY <1>2, <1>3, <1>4 DEF Quiet, SameKey, s

\* replace puts a transaction in the place of one with its nonce.
LEMMA ReplaceQuiet ==
  ASSUME NEW p, PoolInv(p), NEW t \in Tx, t \notin p.all,
         get(At(p.from, From[t], newAccountFrom), Nonce[t]) # NoTx,
         NEW q, q = replace(p, t)
  PROVE  Quiet(p, q)
<1>1. IsPool(p)
  BY DEF PoolInv
<1>2. q.excl = p.excl /\ q.nonceCache = p.nonceCache
  BY <1>1 DEF IsPool, replace
<1>3. PICK old \in p.all : SameKey(old, t) /\ q.all = (p.all \ {old}) \union {t}
  BY ReplacePool
<1> QED BY <1>2, <1>3 DEF Quiet, SameKey

\* PushOrReplace includes the sender again, or replaces under the same key.
LEMMA PushOrReplaceQuiet ==
  ASSUME NEW p, PoolInv(p), NEW t \in Tx, NEW n, NEW points, NEW elapsed, NEW r,
         r = PushOrReplace(p, t, n, points, elapsed)
  PROVE  Quiet(p, r.pool)
<1> DEFINE q == r.pool
<1>1. CASE CanPush(p, t, n, points)
  <2>1. q = push(p, t)
    BY <1>1 DEF PushOrReplace
  <2> HIDE DEF q
  <2>2. Quiet(p, q)
    BY <2>1, PushQuiet
  <2> QED BY <2>2 DEF q
<1>2. CASE ~CanPush(p, t, n, points) /\ CanReplace(p, t, elapsed, points)
  <2>1. q = replace(p, t)
    BY <1>2 DEF PushOrReplace
  <2>2. t \notin p.all /\ get(At(p.from, From[t], newAccountFrom), Nonce[t]) # NoTx
    BY <1>2 DEF CanReplace
  <2> HIDE DEF q
  <2>3. Quiet(p, q)
    BY <2>1, <2>2, ReplaceQuiet
  <2> QED BY <2>3 DEF q
<1>3. CASE ~CanPush(p, t, n, points) /\ ~CanReplace(p, t, elapsed, points)
  <2>1. q = p
    BY <1>3 DEF PushOrReplace
  <2> QED BY <2>1 DEF Quiet, SameKey
<1> QED BY <1>1, <1>2, <1>3

\* Prune only takes transactions out.
LEMMA PruneQuiet ==
  ASSUME NEW p, PoolInv(p), NEW a, NEW n \in Int, NEW q, q = Prune(p, a, n)
  PROVE  Quiet(p, q)
<1> DEFINE s == p.excl
<1>1. IsPool(p) /\ s \in Seq(Account) /\ Distinct(s)
  BY DEF PoolInv, SelectorInv
<1>2. q.all \subseteq p.all
  <2>1. q.all = {t \in p.all : ~(From[t] = a /\ Nonce[t] <= n)}
    BY PrunePool
  <2> QED BY <2>1
<1>3. q.nonceCache = p.nonceCache /\ (q.excl = s \/ q.excl = RemoveFirst(s, a))
  <2>1. CASE a \notin DOMAIN p.from
    BY <2>1 DEF Prune
  <2>2. CASE a \in DOMAIN p.from
    <3> DEFINE rest == Rest(p.from[a], n)
               gone == Gone(p.from[a], n)
    <3>1. rest = Rest(p.from[a], n) /\ gone = Gone(p.from[a], n)
      OBVIOUS
    <3> HIDE DEF rest, gone
    <3>2. IsPool(p)
      BY <1>1
    <3>3. Pruned(p, a, gone, rest, q)
      BY ZenonT(60), <2>2, <3>1, <3>2, PruneFields
    <3> QED BY ZenonT(60), <3>3 DEF Pruned, s
  <2> QED BY <2>1, <2>2
<1> HIDE DEF s
<1>4. Members(RemoveFirst(s, a)) = Members(s) \ {a}
  BY <1>1, RemoveFirstMembers
<1>5. Members(q.excl) \subseteq Members(s)
  BY <1>3, <1>4
<1> QED BY <1>2, <1>3, <1>5 DEF Quiet, SameKey, s

\* A transaction that enters the pending pool has the key of one that is there, or a nonce
\* above the account's.
LEMMA PushedAbove ==
  ASSUME NEW p, PoolInv(p), NEW t \in Tx, NEW n, NEW points, NEW elapsed, NEW r,
         r = PushOrReplace(p, t, n, points, elapsed)
  PROVE  \A u \in r.pool.all :
           \/ \E old \in p.all : SameKey(old, u)
           \/ u = t /\ r.ok /\ (n \in Nat => n < Nonce[t])
<1> DEFINE q == r.pool
<1>0. IsPool(p) /\ \A u \in p.all : SameKey(u, u)
  BY DEF PoolInv, SameKey
<1>1. CASE CanPush(p, t, n, points)
  <2>1. q = push(p, t) /\ r.ok
    BY <1>1 DEF PushOrReplace
  <2>2. isAcceptableNonce(At(p.from, From[t], newAccountFrom), Nonce[t], n)
    BY <1>1 DEF CanPush
  <2>3. n \in Nat => n < Nonce[t]
    BY <2>2, TransactionsAssumption DEF isAcceptableNonce
  <2> HIDE DEF q
  <2>4. q.all = p.all \union {t}
    BY ZenonT(60), <1>0, <2>1, PushFields DEF Pushed
  <2> QED BY <1>0, <2>1, <2>3, <2>4 DEF q
<1>2. CASE ~CanPush(p, t, n, points) /\ CanReplace(p, t, elapsed, points)
  <2>1. q = replace(p, t)
    BY <1>2 DEF PushOrReplace
  <2>2. t \notin p.all /\ get(At(p.from, From[t], newAccountFrom), Nonce[t]) # NoTx
    BY <1>2 DEF CanReplace
  <2> HIDE DEF q
  <2>3. PICK old \in p.all : SameKey(old, t) /\ q.all = (p.all \ {old}) \union {t}
    BY <2>1, <2>2, ReplacePool
  <2> QED BY <1>0, <2>3 DEF q
<1>3. CASE ~CanPush(p, t, n, points) /\ ~CanReplace(p, t, elapsed, points)
  <2>1. q = p
    BY <1>3 DEF PushOrReplace
  <2> QED BY <1>0, <2>1
<1> QED BY <1>1, <1>2, <1>3

-----------------------------------------------------------------------------
(* Counting the transactions of a sender.                                  *)

\* Where the transactions of a are in a list, and how many there are.
Places(txs, a) == {i \in DOMAIN txs : From[txs[i]] = a}

Count(txs, a) == Cardinality(Places(txs, a))

InOrder(txs) ==
  \A i \in DOMAIN txs : Nonce[txs[i]] = Cardinality({j \in 1..i : From[txs[j]] = From[txs[i]]})

Joined(w, u, v) == u \in Seq(Tx) /\ v \in Seq(Tx) /\ w = u \o v

Fewer(u, w, a) == Count(u, a) < Count(w, a)

HasNonce(txs, a, n) == \E i \in DOMAIN txs : From[txs[i]] = a /\ Nonce[txs[i]] = n

\* The number of transactions of a sender in a list is a natural number.
LEMMA CountTyped ==
  ASSUME NEW txs \in Seq(Tx), NEW a
  PROVE  IsFiniteSet(Places(txs, a)) /\ Count(txs, a) \in Nat
<1>1. Len(txs) \in Nat /\ DOMAIN txs = 1..Len(txs)
  BY ListType
<1> DEFINE I == Places(txs, a)
<1>2. I \subseteq 1..Len(txs) /\ IsFiniteSet(1..Len(txs))
  BY <1>1, IntervalIsFinite DEF Places
<1>3. IsFiniteSet(I)
  BY <1>2, PartIsFinite
<1> HIDE DEF I
<1>4. Cardinality(I) \in Nat
  BY <1>3, SizeType
<1> QED BY <1>3, <1>4 DEF Count, I

\* The places in a list are those of its first part and others.
LEMMA CountPrefix ==
  ASSUME NEW u \in Seq(Tx), NEW v \in Seq(Tx), NEW w, w = u \o v, NEW a
  PROVE  /\ Count(u, a) <= Count(w, a)
         /\ \A i \in Places(w, a) : i \in Places(u, a) \/ i > Len(u)
<1>1. /\ Len(u) \in Nat /\ DOMAIN u = 1..Len(u) /\ Len(v) \in Nat
      /\ w \in Seq(Tx) /\ DOMAIN w = 1..(Len(u) + Len(v))
      /\ \A i \in 1..(Len(u) + Len(v)) : w[i] = IF i <= Len(u) THEN u[i] ELSE v[i - Len(u)]
  <2>1. w \in Seq(Tx) /\ Len(w) = Len(u) + Len(v)
    BY ConcatList
  <2>2. \A i \in 1..(Len(u) + Len(v)) : w[i] = IF i <= Len(u) THEN u[i] ELSE v[i - Len(u)]
    BY ConcatList
  <2> QED BY <2>1, <2>2, ListType
<1>2. \A i \in 1..Len(u) : i \in DOMAIN w /\ w[i] = u[i]
  BY <1>1
<1>3. Places(u, a) \subseteq Places(w, a)
  BY <1>1, <1>2 DEF Places
<1>4. Count(u, a) <= Count(w, a)
  <2> DEFINE I == Places(u, a)
             J == Places(w, a)
  <2>1. IsFiniteSet(J) /\ I \subseteq J
    BY ZenonT(60), <1>1, <1>3, CountTyped
  <2> HIDE DEF I, J
  <2>2. Cardinality(I) <= Cardinality(J)
    BY <2>1, SizeType
  <2> QED BY <2>2 DEF Count, I, J
<1>5. ASSUME NEW i \in Places(w, a), ~(i > Len(u)) PROVE i \in Places(u, a)
  <2>1. i \in DOMAIN w /\ From[w[i]] = a
    BY DEF Places
  <2>2. i \in 1..Len(u)
    BY <1>1, <1>5, <2>1
  <2> QED BY <1>1, <1>2, <2>1, <2>2 DEF Places
<1> QED BY <1>4, <1>5

\* When a list that is in order has more transactions of a than its first part, the last
\* one is in the other part, and its nonce counts them all.
LEMMA CountLast ==
  ASSUME NEW u, NEW v, NEW w, NEW a, Joined(w, u, v), InOrder(w), Fewer(u, w, a)
  PROVE  HasNonce(v, a, Count(w, a))
<1>0. u \in Seq(Tx) /\ v \in Seq(Tx) /\ w = u \o v /\ Count(u, a) < Count(w, a)
  BY DEF Joined, Fewer
<1>1. /\ Len(u) \in Nat /\ DOMAIN u = 1..Len(u) /\ Len(v) \in Nat /\ DOMAIN v = 1..Len(v)
      /\ w \in Seq(Tx) /\ DOMAIN w = 1..(Len(u) + Len(v))
      /\ \A i \in 1..(Len(u) + Len(v)) : w[i] = IF i <= Len(u) THEN u[i] ELSE v[i - Len(u)]
  <2>1. w \in Seq(Tx) /\ Len(w) = Len(u) + Len(v)
    BY <1>0, ConcatList
  <2>2. \A i \in 1..(Len(u) + Len(v)) : w[i] = IF i <= Len(u) THEN u[i] ELSE v[i - Len(u)]
    BY <1>0, ConcatList
  <2> QED BY <1>0, <2>1, <2>2, ListType
<1> DEFINE I == Places(u, a)
           J == Places(w, a)
           g == [i \in J |-> i]
<1>2. Count(u, a) \in Nat /\ Count(w, a) \in Nat /\ IsFiniteSet(I) /\ IsFiniteSet(J)
  BY ZenonT(60), <1>0, <1>1, CountTyped
<1>3. PICK i \in J : i > Len(u)
  <2> SUFFICES ASSUME \A i \in J : ~(i > Len(u)) PROVE FALSE
    OBVIOUS
  <2>1. J \subseteq I
    BY ZenonT(60), <1>0, CountPrefix
  <2> HIDE DEF I, J
  <2>2. Cardinality(J) <= Cardinality(I)
    BY <1>2, <2>1, SizeType
  <2> QED BY <1>0, <1>2, <2>2 DEF Count, I, J
<1>4. PICK m \in J : \A j \in J : j <= m
  <2>1. J # {} /\ \A j \in J : g[j] \in Nat /\ g[j] = j
    BY <1>1, <1>3 DEF Places
  <2> HIDE DEF g, J
  <2>2. PICK m \in J : \A j \in J : g[j] <= g[m]
    BY <1>2, <2>1, Largest
  <2> QED BY <2>1, <2>2
<1>5. /\ m \in 1..(Len(u) + Len(v)) /\ From[w[m]] = a /\ m > Len(u)
      /\ m - Len(u) \in 1..Len(v) /\ w[m] = v[m - Len(u)]
  <2>1. m \in DOMAIN w /\ From[w[m]] = a /\ i \in DOMAIN w
    BY DEF Places
  <2>2. m >= i
    BY <1>4
  <2>3. m \in 1..(Len(u) + Len(v)) /\ i \in 1..(Len(u) + Len(v))
    BY <1>1, <2>1
  <2>4. m > Len(u) /\ m - Len(u) \in 1..Len(v)
    BY <1>1, <1>3, <2>2, <2>3
  <2>5. w[m] = v[m - Len(u)]
    BY <1>1, <2>3, <2>4
  <2> QED BY <2>1, <2>3, <2>4, <2>5
<1>6. J = {j \in 1..m : From[w[j]] = From[w[m]]}
  <2>1. ASSUME NEW j \in J PROVE j \in 1..m /\ From[w[j]] = From[w[m]]
    BY <1>1, <1>4, <1>5 DEF Places
  <2>2. ASSUME NEW j \in 1..m, From[w[j]] = From[w[m]] PROVE j \in J
    BY <1>1, <1>5, <2>2 DEF Places
  <2> QED BY <2>1, <2>2
<1>7. Nonce[w[m]] = Cardinality(J)
  <2>1. m \in DOMAIN w
    BY <1>1, <1>5
  <2> QED BY <1>6, <2>1 DEF InOrder
<1> QED BY SMTT(60), <1>1, <1>5, <1>7 DEF Count, HasNonce

=============================================================================
