----------------------------- MODULE Transactions -----------------------------
(***************************************************************************)
(* Transactions as the pools see them, and the maps the pools keep.  A     *)
(* transaction is its hash.  Its bandwidth is one number, and a unit of it *)
(* costs one point.                                                        *)
(***************************************************************************)
EXTENDS Lists

CONSTANTS
  Account,
  Tx,
  NoTx,                \* nil
  From,                \* From[t]: the sender
  PayerOrFrom,         \* PayerOrFrom[t]: who pays for its bandwidth
  Nonce,               \* Nonce[t]
  Bandwidth,           \* Bandwidth[t]
  PointChange          \* PointChange[t]: the points the sender gains or loses

ASSUME TransactionsAssumption ==
  /\ NoTx \notin Tx
  /\ From \in [Tx -> Account]
  /\ PayerOrFrom \in [Tx -> Account]
  /\ Nonce \in [Tx -> Nat \ {0}]
  /\ Bandwidth \in [Tx -> Nat]
  /\ PointChange \in [Tx -> Int]

\* The transactions of S with this nonce.
WithNonce(S, n) == {t \in S : Nonce[t] = n}

\* The transaction of a set that has at most one.
TheTx(S) == IF S = {} THEN NoTx ELSE CHOOSE t \in S : TRUE

\* addrNonceKey: the key under which payers and points are kept.
SameKey(t, u) == From[t] = From[u] /\ Nonce[t] = Nonce[u]

(* A map holds an entry for every account of its domain.                   *)

EmptyMap == <<>>

At(map, a, new) == IF a \in DOMAIN map THEN map[a] ELSE new

Put(map, a, entry) ==
  [x \in DOMAIN map \union {a} |-> IF x = a THEN entry ELSE map[x]]

\* Entries without a transaction are deleted.
DropEmpty(map) == [a \in {x \in DOMAIN map : map[x].txs # {}} |-> map[a]]

=============================================================================
