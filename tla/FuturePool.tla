------------------------------ MODULE FuturePool ------------------------------
(***************************************************************************)
(* The future transaction pool (core/transaction_future.go): transactions  *)
(* whose nonce is too high for the pending pool, by hash and in one bucket *)
(* per sender.  A bucket is a pair of heaps that always hold the same      *)
(* transactions, so it is a set here; its lowest and highest nonce and the *)
(* largest bucket are what the heaps have on top.                          *)
(***************************************************************************)
EXTENDS Transactions

CONSTANTS
  size,                \* capacity
  InvalidRune          \* nonces that are not the code point of a character

ASSUME FutureAssumption == size \in Nat /\ InvalidRune \subseteq Nat

\* string(nonce), the key in a bucket: Go converts the integer to the character with
\* that code, and every invalid one to U+FFFD.
StringOf(n) == IF n \in InvalidRune THEN 65533 ELSE n

NewFutureTransactionPool == [all |-> {}, buckets |-> EmptyMap]

Bucket(f, a) == At(f.buckets, a, [txs |-> {}]).txs

SameString(t, u) == StringOf(Nonce[t]) = StringOf(Nonce[u])

\* bucket.peekFirst and bucket.peekLast
peekLower(S) == TheTx({t \in S : \A u \in S : Nonce[t] <= Nonce[u]})
peekLast(S) == TheTx({t \in S : \A u \in S : Nonce[u] <= Nonce[t]})

PeekLowerNonce(f, a) == peekLower(Bucket(f, a))

\* Mutant: the transaction leaves the index by hash and stays in its bucket.
del_KeepsBucket(f, t) ==
  IF t \notin f.all THEN [deleted |-> FALSE, pool |-> f]
  ELSE [deleted |-> TRUE, pool |-> [f EXCEPT !.all = @ \ {t}]]

del(f, t) ==
  IF t \notin f.all THEN [deleted |-> FALSE, pool |-> f]
  ELSE LET gone == {u \in Bucket(f, From[t]) : SameString(u, t)}
           rest == [txs |-> Bucket(f, From[t]) \ gone]
       IN  [deleted |-> gone # {},
            pool |-> [all |-> f.all \ {t},
                      buckets |-> DropEmpty(Put(f.buckets, From[t], rest))]]

Del(f, t) == IF t \in f.all THEN [deleted |-> FALSE, pool |-> f] ELSE del(f, t)

\* Ties between the largest buckets are broken by the shape of the heap.
evict(f) ==
  IF Cardinality(f.all) <= size THEN {[evicted |-> NoTx, pool |-> f]}
  ELSE {LET last == peekLast(Bucket(f, a))
            d == del(f, last)
        IN  [evicted |-> IF d.deleted THEN last ELSE NoTx, pool |-> d.pool] :
          a \in {x \in DOMAIN f.buckets : \A y \in DOMAIN f.buckets :
                   Cardinality(Bucket(f, y)) <= Cardinality(Bucket(f, x))}}

\* What Set may do.  A transaction replaced in its bucket stays in the index by hash,
\* and nothing is evicted then.
Set(f, t) ==
  IF t \in f.all THEN {[evicted |-> NoTx, pool |-> f]}
  ELSE LET old == {u \in Bucket(f, From[t]) : SameString(u, t)}
           g == [all |-> f.all \union {t},
                 buckets |-> Put(f.buckets, From[t],
                                 [txs |-> (Bucket(f, From[t]) \ old) \union {t}])]
       IN  IF old # {} THEN {[evicted |-> TheTx(old), pool |-> g]} ELSE evict(g)

\* Prune: the loop deletes the lowest nonce until it is above the limit.
FuturePrune(f, a, nonceLowerLimit) ==
  LET gone == {t \in Bucket(f, a) : Nonce[t] <= nonceLowerLimit}
  IN  [all |-> f.all \ gone,
       buckets |-> IF a \notin DOMAIN f.buckets THEN f.buckets
                   ELSE DropEmpty(Put(f.buckets, a, [txs |-> Bucket(f, a) \ gone]))]

=============================================================================
