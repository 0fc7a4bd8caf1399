----------------------- MODULE TransactionManagerProofs -----------------------
(***************************************************************************)
(* The properties of TransactionManager for every set of accounts and      *)
(* transactions, every size of the pools and any number of clients.        *)
(*                                                                         *)
(* FutureIndexed is inductive as it stands.  The two about the indexes of  *)
(* the pending pool follow from ShapeInv: the pool is in order (PoolInv)   *)
(* and what is on its way to it are transactions.  NextExhaustive needs    *)
(* MintInv, what the selector has excluded while a block is made, and      *)
(* PendingAboveChain needs AboveInv, what the chain manager is about to    *)
(* delete.                                                                 *)
(***************************************************************************)
EXTENDS TransactionManager, TransactionPoolProofs

\* No transaction is in a bucket of the future pool that its index by hash does not
\* know, whatever clients, chain manager and minter do, so that the loop of
\* FutureTransactionPool.Prune always makes progress.
THEOREM FutureIndexedCorrect == Spec => []FutureIndexed
<1>1. FutureIndexed <=> Indexed(future)
  BY DEF FutureIndexed, Indexed
<1>2. Init => FutureIndexed
  BY DEF Init, NewFutureTransactionPool, EmptyMap, FutureIndexed
<1>3. FutureIndexed /\ [Next]_vars => FutureIndexed'
  <2> SUFFICES ASSUME Indexed(future), [Next]_vars
               PROVE  Indexed(future)'
    BY <1>1 DEF FutureIndexed, Indexed
  <2>1. CASE UNCHANGED future
    BY <2>1
  <2>2. ASSUME NEW c, NEW t, toFuture(c, t)
        PROVE  Indexed(future')
    <3>1. PICK s \in Set(future, t) : future' = s.pool
      BY <2>2 DEF toFuture
    <3> QED
      BY <3>1, SetIndexed
  <2>3. ASSUME NEW c, pushToPool(c)
        PROVE  Indexed(future')
    <3>1. (\E t : toFuture(c, t)) \/ future' = future
      BY <2>3 DEF pushToPool, toPending
    <3> QED
      BY <2>2, <3>1
  <2>4. ASSUME NEW c, moveBetweenPool(c)
        PROVE  Indexed(future')
    <3>1. \/ future' = future
          \/ \E t : future' = Del(future, t).pool
      BY <2>4 DEF moveBetweenPool
    <3>2. ASSUME NEW t PROVE Indexed(Del(future, t).pool)
      BY DelIndexed DEF Del
    <3> QED
      BY <3>1, <3>2
  <2>5. ASSUME NEW a, DelByAddressNonce(a)
        PROVE  Indexed(future')
    BY <2>5, PruneIndexed DEF DelByAddressNonce
  <2>6. \/ UNCHANGED future
        \/ \E c : pushToPool(c)
        \/ \E c : moveBetweenPool(c)
        \/ \E a : DelByAddressNonce(a)
    BY DEF Next, vars, Push, transit, NewTail, PushReverted, MintStart, MintNext, MintExec,
           MintEnd
  <2> QED
    BY <2>1, <2>3, <2>4, <2>5, <2>6
<1> QED
  BY <1>2, <1>3, PTL DEF Spec

-----------------------------------------------------------------------------
(* The transactions of a chain.                                            *)

\* A chain is a list of lists of transactions.
LEMMA ChainsTyped ==
  ASSUME NEW c \in Chains
  PROVE  c \in Seq(Seq(Tx)) /\ Consecutive(c)
<1>1. Consecutive(c) /\ c \in BoundedSeq(TxBlock, MaxBlocks)
  BY DEF Chains
<1>2. MaxBlocks \in Nat /\ MaxBlockTxs \in Nat
  BY ManagerAssumption
<1>3. c \in Seq(TxBlock)
  BY <1>1, <1>2, BoundedIsSeq
<1>4. TxBlock \subseteq Seq(Tx)
  BY <1>2, BoundedIsSeq DEF TxBlock
<1>5. c \in Seq(Seq(Tx))
  BY <1>3, <1>4, ListOfMore
<1> QED BY <1>1, <1>5

\* TxsOf yields a list of transactions, of which each part of the chain has its own.
LEMMA TxsTyped ==
  ASSUME NEW A, NEW c \in Seq(Seq(A))
  PROVE  TxsOf(c) \in Seq(A)
BY FlatTyped DEF TxsOf

\* The transactions of two chains in a row are those of the first and of the second.
LEMMA TxsConcat ==
  ASSUME NEW A, NEW p \in Seq(Seq(A)), NEW y \in Seq(Seq(A)), NEW c, c = p \o y
  PROVE  TxsOf(c) = TxsOf(p) \o TxsOf(y)
BY ZenonT(60), FlatConcat DEF TxsOf

\* addrNonce has a sender of these transactions with a nonce that none of its
\* transactions exceeds.
LEMMA AddrNonceMax ==
  ASSUME NEW txs \in Seq(Tx), NEW a
  PROVE  /\ a \in DOMAIN addrNonce(txs) => addrNonce(txs)[a] \in Nat
         /\ \A i \in DOMAIN txs :
              From[txs[i]] = a => a \in DOMAIN addrNonce(txs) /\ Nonce[txs[i]] <= addrNonce(txs)[a]
<1>1. Len(txs) \in Nat /\ DOMAIN txs = 1..Len(txs) /\ \A i \in DOMAIN txs : txs[i] \in Tx
  BY ListType
<1>2. \A i \in DOMAIN txs : Nonce[txs[i]] \in Nat
  BY <1>1, TransactionsAssumption
<1> DEFINE J == {j \in DOMAIN txs : From[txs[j]] = a}
           N == {Nonce[txs[i]] : i \in J}
<1>3. a \in DOMAIN addrNonce(txs) <=> J # {}
  BY DEF addrNonce
<1>4. CASE J = {}
  BY <1>3, <1>4
<1>5. CASE J # {}
  <2>1. IsFiniteSet(J)
    <3>1. J \subseteq 1..Len(txs) /\ IsFiniteSet(1..Len(txs))
      BY <1>1, IntervalIsFinite
    <3> QED BY <3>1, PartIsFinite
  <2> DEFINE g == [i \in J |-> Nonce[txs[i]]]
  <2>2. PICK m \in J : \A i \in J : g[i] <= g[m]
    <3>1. \A i \in J : g[i] \in Nat
      BY <1>2
    <3> HIDE DEF g, J
    <3> QED BY SMTT(60), <1>5, <2>1, <3>1, Largest
  <2>3. addrNonce(txs)[a] = Max(N)
    BY <1>3, <1>5, Zenon DEF addrNonce
  <2>4. N \subseteq Nat /\ Nonce[txs[m]] \in N /\ \A y \in N : Nonce[txs[m]] >= y
    BY ZenonT(60), <1>2, <2>2
  <2>5. Max(N) \in N /\ \A y \in N : Max(N) >= y
    <3> HIDE DEF N
    <3> QED BY ZenonT(60), <2>4 DEF Max
  <2>6. \A i \in J : Nonce[txs[i]] \in N
    OBVIOUS
  <2>7. \A i \in J : Nonce[txs[i]] <= Max(N)
    <3> HIDE DEF N, J
    <3> QED BY ZenonT(60), <2>4, <2>5, <2>6
  <2> HIDE DEF N
  <2> QED BY ZenonT(60), <1>3, <1>5, <2>3, <2>4, <2>5, <2>7
<1> QED BY <1>4, <1>5

-----------------------------------------------------------------------------
(* The pending pool is in order after every step.                          *)

\* What callers and the chain manager are about to push are transactions, and what the
\* chain manager is about to delete is below a nonce.
CallersInv ==
  /\ caller = [c \in Callers |-> caller[c]]
  /\ \A c \in Callers : caller[c].pc = "push" => caller[c].tx \in Tx

WorkInv ==
  /\ cm = [del |-> cm.del, push |-> cm.push]
  /\ \A a \in DOMAIN cm.del : cm.del[a] \in Nat
  /\ cm.push \in Seq(Tx)
  /\ chain \in Seq(Seq(Tx))

ShapeInv == PoolInv(pending) /\ CallersInv /\ WorkInv

\* A caller goes on: nothing but its own position changes.
LEMMA GotoCallers ==
  ASSUME CallersInv, NEW c \in Callers, NEW at, Goto(c, at), at.pc = "push" => at.tx \in Tx
  PROVE  CallersInv'
<1> DEFINE f == caller
           g == caller'
<1>1. f = [x \in Callers |-> f[x]] /\ g = [f EXCEPT ![c] = at]
  BY DEF CallersInv, Goto
<1>2. \A x \in Callers : f[x].pc = "push" => f[x].tx \in Tx
  BY DEF CallersInv
<1> HIDE DEF f, g
<1>3. g = [x \in Callers |-> g[x]] /\ \A x \in Callers : g[x] = IF x = c THEN at ELSE f[x]
  BY <1>1
<1>4. \A x \in Callers : g[x].pc = "push" => g[x].tx \in Tx
  BY <1>2, <1>3
<1> QED BY <1>3, <1>4 DEF CallersInv, g

\* moveBetweenPool stops at Del.
LEMMA MoveKeeps ==
  ASSUME NEW c, moveBetweenPool(c)
  PROVE  Goto(c, idle) /\ UNCHANGED <<chain, pending, future, cm, mint, late>>
<1>1. ASSUME NEW t PROVE Del(future, t).deleted = FALSE /\ Del(future, t).pool = future
  BY DelNever
<1> QED BY ZenonT(60), <1>1 DEF moveBetweenPool

\* What pushToPool does: the transaction goes to one of the pools.
LEMMA PushEffect ==
  ASSUME NEW c, pushToPool(c), NEW t, t = caller[c].tx, NEW n, n = caller[c].nonce
  PROVE  \/ \E s \in Set(future, t) : future' = s.pool /\ Goto(c, idle)
              /\ UNCHANGED <<chain, pending, cm, mint, late>>
         \/ \E points \in Points, elapsed \in BOOLEAN : \E r :
              /\ r = PushOrReplace(pending, t, n, points, elapsed)
              /\ pending' = r.pool
              /\ late' = late \union
                   IF r.ok /\ c # CM /\ n # AccountNonce(chain, From[t])
                   THEN {<<From[t], Nonce[t]>>} ELSE {}
              /\ Goto(c, IF r.ok THEN transiting(From[t], n) ELSE idle)
              /\ UNCHANGED <<chain, future, cm, mint>>
<1>1. CASE toFuture(c, t)
  BY <1>1 DEF toFuture
<1>2. CASE toPending(c, t, n)
  BY <1>2, Zenon DEF toPending
<1> QED BY <1>1, <1>2, Zenon DEF pushToPool

\* pushToPool, with its replacement or its detour through the future pool.
LEMMA PushKeepsPool ==
  ASSUME ShapeInv, NEW c \in Callers, pushToPool(c)
  PROVE  ShapeInv'
<1> DEFINE t == caller[c].tx
           n == caller[c].nonce
<1>0. PoolInv(pending) /\ CallersInv /\ WorkInv /\ t \in Tx
  BY DEF ShapeInv, CallersInv, pushToPool
<1>1. \/ pending' = pending
      \/ \E points, elapsed, r : r = PushOrReplace(pending, t, n, points, elapsed) /\ pending' = r.pool
  BY PushEffect
<1>2. PoolInv(pending')
  <2> HIDE DEF t, n
  <2>1. ASSUME NEW points, NEW elapsed, NEW r, r = PushOrReplace(pending, t, n, points, elapsed)
        PROVE  PoolInv(r.pool)
    BY <1>0, <2>1, PushOrReplacePool
  <2> QED BY <1>0, <1>1, <2>1
<1>3. UNCHANGED <<chain, cm>> /\ \E b : Goto(c, IF b THEN transiting(From[t], n) ELSE idle)
  <2>1. \/ UNCHANGED <<chain, cm>> /\ Goto(c, idle)
        \/ UNCHANGED <<chain, cm>> /\ \E r : Goto(c, IF r.ok THEN transiting(From[t], n) ELSE idle)
    BY PushEffect
  <2> QED BY <2>1
<1>4. WorkInv'
  BY <1>0, <1>3 DEF WorkInv
<1>5. CallersInv'
  <2>1. PICK b : Goto(c, IF b THEN transiting(From[t], n) ELSE idle)
    BY <1>3
  <2> DEFINE at == IF b THEN transiting(From[t], n) ELSE idle
  <2>2. at.pc # "push"
    BY DEF transiting, idle
  <2> HIDE DEF at
  <2> QED BY <1>0, <2>1, <2>2, GotoCallers DEF at
<1> QED BY <1>2, <1>4, <1>5 DEF ShapeInv

\* NewTail: what it hands to the chain manager are nonces and transactions.
LEMMA NewTailKeepsPool ==
  ASSUME ShapeInv, NEW k \in 0..MaxBlocks, NEW c \in Chains, NewTail(k, c)
  PROVE  ShapeInv'
<1> DEFINE Y == SubSeq(c, k + 1, Len(c))
           X == SubSeq(chain, k + 1, Len(chain))
<1>1. c \in Seq(Seq(Tx)) /\ chain \in Seq(Seq(Tx)) /\ k \in Nat /\ k <= Len(c) /\ k <= Len(chain)
  BY ChainsTyped, ManagerAssumption DEF ShapeInv, WorkInv, NewTail
<1>2. Y \in Seq(Seq(Tx)) /\ X \in Seq(Seq(Tx))
  <2>1. ASSUME NEW A, NEW s \in Seq(A), k <= Len(s) PROVE SubSeq(s, k + 1, Len(s)) \in Seq(A)
    <3>1. k \in 0..Len(s)
      BY <1>1, <2>1, ListType
    <3> QED BY <3>1, ConcatParts
  <2> QED BY <1>1, <2>1
<1>3. cm' = [del |-> addrNonce(TxsOf(Y)), push |-> TxsOf(Reverse(X))] /\ chain' = c
      /\ UNCHANGED <<pending, caller>>
  BY DEF NewTail
<1> HIDE DEF X, Y
<1>4. TxsOf(Y) \in Seq(Tx) /\ TxsOf(Reverse(X)) \in Seq(Tx)
  BY <1>2, ReverseTyped, TxsTyped
<1>5. \A a \in DOMAIN addrNonce(TxsOf(Y)) : addrNonce(TxsOf(Y))[a] \in Nat
  BY <1>4, AddrNonceMax
<1>6. cm'.del = addrNonce(TxsOf(Y)) /\ cm'.push = TxsOf(Reverse(X))
      /\ cm' = [del |-> cm'.del, push |-> cm'.push]
  BY <1>3
<1>7. WorkInv'
  BY <1>1, <1>3, <1>4, <1>5, <1>6 DEF WorkInv
<1> QED BY <1>3, <1>7 DEF ShapeInv, CallersInv

\* DelByAddressNonce takes transactions out.
LEMMA DeleteKeepsPool ==
  ASSUME ShapeInv, NEW a, DelByAddressNonce(a)
  PROVE  ShapeInv'
<1>0. PoolInv(pending) /\ CallersInv /\ WorkInv /\ CM \in Callers
  BY DEF ShapeInv, Callers
<1>1. a \in DOMAIN cm.del /\ cm.del[a] \in Int /\ pending' = Prune(pending, a, cm.del[a])
  BY <1>0 DEF DelByAddressNonce, WorkInv
<1>2. PoolInv(pending')
  <2> DEFINE n == cm.del[a]
             q == pending'
  <2>1. n \in Int /\ q = Prune(pending, a, n)
    BY <1>1
  <2> HIDE DEF n, q
  <2>2. PoolInv(q)
    BY <1>0, <2>1, PrunePool
  <2> QED BY <2>2 DEF q
<1>3. CallersInv'
  <2> DEFINE at == transiting(a, AccountNonce(chain, a))
  <2>1. Goto(CM, at) /\ at.pc # "push"
    BY DEF DelByAddressNonce, transiting
  <2> HIDE DEF at
  <2> QED BY <1>0, <2>1, GotoCallers
<1>4. WorkInv'
  <2> DEFINE rest == [x \in DOMAIN cm.del \ {a} |-> cm.del[x]]
  <2>1. cm = [del |-> cm.del, push |-> cm.push] /\ cm' = [cm EXCEPT !.del = rest] /\ chain' = chain
    BY <1>0 DEF DelByAddressNonce, WorkInv
  <2>2. \A x \in DOMAIN rest : rest[x] \in Nat
    BY <1>0 DEF WorkInv
  <2> HIDE DEF rest
  <2>3. PICK d, e : cm = [del |-> d, push |-> e]
    BY <2>1, Zenon
  <2>4. cm' = [del |-> rest, push |-> cm.push]
    BY <2>1, <2>3
  <2>5. cm'.del = rest /\ cm'.push = cm.push /\ cm' = [del |-> cm'.del, push |-> cm'.push]
    BY <2>4
  <2> QED BY <1>0, <2>1, <2>2, <2>5 DEF WorkInv
<1> QED BY <1>2, <1>3, <1>4 DEF ShapeInv

\* PushReverted takes the next transaction to push.
LEMMA RevertedKeepsPool ==
  ASSUME ShapeInv, PushReverted
  PROVE  ShapeInv'
<1>0. PoolInv(pending) /\ CallersInv /\ WorkInv /\ CM \in Callers
  BY DEF ShapeInv, Callers
<1>1. cm.push \in Seq(Tx) /\ cm.push # <<>> /\ cm = [del |-> cm.del, push |-> cm.push]
  BY <1>0 DEF PushReverted, WorkInv
<1>2. Head(cm.push) \in Tx /\ Tail(cm.push) \in Seq(Tx)
  BY <1>1, HeadTail
<1>3. CallersInv'
  <2> DEFINE at == pushing(Head(cm.push), AccountNonce(chain, From[Head(cm.push)]))
  <2>1. Goto(CM, at) /\ at.tx \in Tx
    BY <1>2 DEF PushReverted, ReadTail, pushing
  <2> HIDE DEF at
  <2> QED BY <1>0, <2>1, GotoCallers
<1>4. WorkInv'
  <2> DEFINE rest == Tail(cm.push)
  <2>1. cm' = [cm EXCEPT !.push = rest] /\ chain' = chain
    BY DEF PushReverted
  <2>2. rest \in Seq(Tx)
    BY <1>2
  <2> HIDE DEF rest
  <2>3. PICK d, e : cm = [del |-> d, push |-> e]
    BY <1>1, Zenon
  <2>4. cm' = [del |-> cm.del, push |-> rest]
    BY <2>1, <2>3
  <2>5. cm'.del = cm.del /\ cm'.push = rest /\ cm' = [del |-> cm'.del, push |-> cm'.push]
    BY <2>4
  <2> QED BY <1>0, <2>1, <2>2, <2>5 DEF WorkInv
<1>5. pending' = pending
  BY DEF PushReverted
<1> QED BY <1>0, <1>3, <1>4, <1>5 DEF ShapeInv

\* The calls of makeBlock only move senders in the selector.
LEMMA MintKeepsPool ==
  ASSUME ShapeInv, MintStart \/ MintNext \/ MintExec \/ MintEnd
  PROVE  ShapeInv'
<1>0. PoolInv(pending) /\ CallersInv /\ WorkInv
  BY DEF ShapeInv
<1>1. \/ pending' = pending
      \/ pending' = ResetSelector(pending)
      \/ pending' = PoolNext(pending).pool
      \/ \E a, n : pending' = SetRequiredNonce(pending, a, n)
  BY DEF MintStart, MintNext, MintExec, MintEnd
<1>2. PoolInv(pending')
  <2> DEFINE q == pending'
  <2>1. ASSUME q = ResetSelector(pending) PROVE PoolInv(q)
    <3> HIDE DEF q
    <3> QED BY <1>0, <2>1, ResetPool
  <2>2. ASSUME q = PoolNext(pending).pool PROVE PoolInv(q)
    <3> DEFINE r == PoolNext(pending)
    <3>1. r = PoolNext(pending) /\ q = r.pool
      BY <2>2
    <3> HIDE DEF q, r
    <3>2. PoolInv(r.pool)
      BY <1>0, <3>1, NextPool, ZenonT(60)
    <3> QED BY <3>1, <3>2
  <2>3. ASSUME NEW a, NEW n, q = SetRequiredNonce(pending, a, n) PROVE PoolInv(q)
    <3> HIDE DEF q
    <3> QED BY <1>0, <2>3, CachePool
  <2> QED BY <1>0, <1>1, <2>1, <2>2, <2>3
<1>3. UNCHANGED <<chain, caller, cm>>
  BY DEF MintStart, MintNext, MintExec, MintEnd
<1>4. CallersInv' /\ WorkInv'
  BY <1>0, <1>3 DEF CallersInv, WorkInv
<1> QED BY <1>2, <1>4 DEF ShapeInv

\* ShapeInv is inductive.
LEMMA ShapeInit == Init => ShapeInv
<1> SUFFICES ASSUME Init PROVE ShapeInv
  OBVIOUS
<1>1. PoolInv(pending)
  BY NewPool DEF Init
<1>2. CallersInv
  BY DEF Init, CallersInv, idle
<1>3. WorkInv
  <2>1. cm = [del |-> <<>>, push |-> <<>>] /\ chain = <<>>
    BY DEF Init, EmptyMap
  <2>2. cm.del = <<>> /\ cm.push = <<>> /\ DOMAIN cm.del = {}
    BY <2>1
  <2>3. <<>> \in Seq(Tx) /\ <<>> \in Seq(Seq(Tx))
    BY EmptyList
  <2> QED BY <2>1, <2>2, <2>3 DEF WorkInv
<1> QED BY <1>1, <1>2, <1>3 DEF ShapeInv

\* Every step leaves the pending pool in order.
LEMMA ShapeStep ==
  ASSUME ShapeInv, [Next]_vars
  PROVE  ShapeInv'
<1>0. PoolInv(pending) /\ CallersInv /\ WorkInv
  BY DEF ShapeInv
<1>1. ASSUME NEW c \in Client, NEW t \in Tx, Push(c, t) PROVE ShapeInv'
  <2> DEFINE at == pushing(t, AccountNonce(chain, From[t]))
  <2>1. Goto(c, at) /\ at.tx \in Tx /\ c \in Callers
    BY <1>1 DEF Push, ReadTail, pushing, Callers
  <2> HIDE DEF at
  <2>2. CallersInv'
    BY <1>0, <2>1, GotoCallers
  <2>3. UNCHANGED <<chain, pending, cm>>
    BY <1>1 DEF Push
  <2> QED BY <1>0, <2>2, <2>3 DEF ShapeInv, WorkInv
<1>2. ASSUME NEW c \in Callers, transit(c) \/ moveBetweenPool(c) PROVE ShapeInv'
  <2>1. UNCHANGED <<chain, pending, cm>> /\ \E at : Goto(c, at) /\ at.pc # "push"
    <3>1. CASE transit(c)
      <4> DEFINE t == PeekLowerNonce(future, caller[c].addr)
                 at == IF t = NoTx THEN idle ELSE moving(t, caller[c].nonce)
      <4>1. Goto(c, at) /\ UNCHANGED <<chain, pending, cm>>
        BY <3>1 DEF transit
      <4>2. at.pc # "push"
        <5> HIDE DEF t
        <5> QED BY DEF idle, moving
      <4> QED BY <4>1, <4>2
    <3>2. CASE moveBetweenPool(c)
      BY <3>2, MoveKeeps DEF idle
    <3> QED BY <1>2, <3>1, <3>2
  <2>2. CallersInv'
    BY <1>0, <2>1, GotoCallers
  <2> QED BY <1>0, <2>1, <2>2 DEF ShapeInv, WorkInv
<1>3. CASE UNCHANGED vars
  BY <1>0, <1>3 DEF vars, ShapeInv, CallersInv, WorkInv
<1>4. CASE Next
  <2>1. \/ \E c \in Client, t \in Tx : Push(c, t)
        \/ \E c \in Callers : pushToPool(c)
        \/ \E c \in Callers : transit(c) \/ moveBetweenPool(c)
        \/ \E c \in Chains, k \in 0..MaxBlocks : NewTail(k, c)
        \/ \E a \in Account : DelByAddressNonce(a)
        \/ PushReverted
        \/ MintStart \/ MintNext \/ MintExec \/ MintEnd
    BY <1>4 DEF Next
  <2> QED BY <1>1, <1>2, <2>1, PushKeepsPool, NewTailKeepsPool, DeleteKeepsPool,
             RevertedKeepsPool, MintKeepsPool
<1> QED BY <1>3, <1>4

\* ShapeInv is an invariant.
LEMMA ShapeHolds == Spec => []ShapeInv
<1>1. ShapeInv /\ [Next]_vars => ShapeInv'
  BY ShapeStep
<1> QED BY <1>1, ShapeInit, PTL DEF Spec

\* The indexes of the pending pool agree, whatever clients, chain manager and minter do:
\* nothing is counted twice or lost by push, replace and Prune, so no payer is held to
\* transactions that are gone, and the selector has each sender once.
THEOREM PendingIndexedCorrect == Spec => []PendingIndexed
<1>1. ShapeInv => PendingIndexed
  <2> SUFFICES ASSUME ShapeInv PROVE PendingIndexed
    OBVIOUS
  <2> DEFINE p == pending
             senders == p.incl \o p.excl
  <2>1. IsPool(p) /\ SendersInv(p) /\ TotalsInv(p) /\ SelectorInv(p) /\ Keyed(p.all)
    BY DEF ShapeInv, PoolInv, SendersInv
  <2>2. /\ senders \in Seq(Account) /\ Distinct(senders)
        /\ Members(senders) = DOMAIN p.from
    <3> DEFINE incl == p.incl
               excl == p.excl
    <3>1. /\ incl \in Seq(Account) /\ excl \in Seq(Account) /\ Distinct(incl) /\ Distinct(excl)
          /\ Members(incl) \cap Members(excl) = {}
          /\ Members(incl) \union Members(excl) = DOMAIN p.from
      BY <2>1 DEF SelectorInv
    <3> HIDE DEF incl, excl
    <3>2. /\ incl \o excl \in Seq(Account) /\ Distinct(incl \o excl)
          /\ Members(incl \o excl) = DOMAIN p.from
      <4>1. /\ incl \o excl \in Seq(Account)
            /\ Members(incl \o excl) = Members(incl) \union Members(excl)
            /\ Distinct(incl) /\ Distinct(excl) /\ Members(incl) \cap Members(excl) = {}
                 => Distinct(incl \o excl)
        BY <3>1, ConcatMembers, Zenon
      <4> QED BY <3>1, <4>1, Zenon
    <3> QED BY <3>2 DEF incl, excl
  <2>3. Len(senders) = Cardinality(DOMAIN p.from)
    <3> HIDE DEF senders
    <3> QED BY <2>2, DistinctLength
  <2>4. ASSUME NEW a \in DOMAIN p.from PROVE p.from[a].txs = Those(p.all, From, a)
    <3> DEFINE af == p.from[a]
               S == Those(p.all, From, a)
    <3>1. Bounded(af, S)
      BY <2>1 DEF SendersInv
    <3> HIDE DEF af, S
    <3>2. af.txs = S
      BY <3>1 DEF Bounded
    <3> QED BY <3>2 DEF af, S
  <2>5. \A a \in DOMAIN p.from :
          p.point[a] = [total |-> Total(PointChange, Those(p.all, From, a)),
                        txs |-> Those(p.all, From, a)]
    <3>1. DOMAIN p.from = DOMAIN p.point /\ Counted(p.point, p.all, From, PointChange)
      BY <2>1 DEF SendersInv, TotalsInv
    <3> QED BY <3>1, Zenon DEF Counted
  <2>6. \A a \in DOMAIN p.payer :
          p.payer[a] = [total |-> Total(Bandwidth, Those(p.all, PayerOrFrom, a)),
                        txs |-> Those(p.all, PayerOrFrom, a)]
    BY <2>1, Zenon DEF TotalsInv, Counted
  <2>7. /\ DOMAIN p.from = {From[t] : t \in p.all}
        /\ DOMAIN p.point = DOMAIN p.from
        /\ DOMAIN p.payer = {PayerOrFrom[t] : t \in p.all}
    BY <2>1 DEF SendersInv, TotalsInv
  <2>8. \A t, u \in p.all : SameKey(t, u) => t = u
    BY <2>1 DEF Keyed
  <2> QED BY <2>2, <2>3, <2>4, <2>5, <2>6, <2>7, <2>8, Zenon DEF PendingIndexed, Those
<1> QED BY <1>1, ShapeHolds, PTL

\* The nonce bounds of a sender enclose its transactions, and the upper one is exact.
THEOREM NonceBoundsCorrect == Spec => []NonceBounds
<1>1. ShapeInv => NonceBounds
  <2> SUFFICES ASSUME ShapeInv, NEW a \in DOMAIN pending.from, NEW af, af = pending.from[a]
               PROVE  /\ \A t \in af.txs : af.minNonce <= Nonce[t] /\ Nonce[t] <= af.maxNonce
                      /\ WithNonce(af.txs, af.maxNonce) # {}
    BY DEF NonceBounds
  <2> DEFINE S == Those(pending.all, From, a)
  <2>1. Bounded(af, S)
    BY DEF ShapeInv, PoolInv, SendersInv
  <2> HIDE DEF S
  <2>2. af.txs = S
    BY <2>1 DEF Bounded
  <2> QED BY <2>1, <2>2 DEF Bounded, WithNonce
<1> QED BY <1>1, ShapeHolds, PTL

-----------------------------------------------------------------------------
(* The minter: what it excludes has nothing for its block.                 *)

MintShape ==
  /\ mint = [pc |-> mint.pc, nonce |-> mint.nonce, tx |-> mint.tx, failed |-> mint.failed]
  /\ mint.nonce \in [Account -> Nat]
  /\ mint.pc = "exec" => mint.tx \in Tx

\* While a block is made, the nonce that the selector requires of a sender is the next one
\* of the block, and no excluded sender has it, unless the last execution of the sender
\* failed.  The sender of the transaction being executed is not excluded.
Excludes(p, m) ==
  m.pc # "idle" =>
    /\ m.pc = "exec" => From[m.tx] \notin Members(p.excl)
    /\ \A a \in Account \ m.failed :
         /\ a \in DOMAIN p.nonceCache => p.nonceCache[a] = m.nonce[a] + 1
         /\ a \in Members(p.excl) => a \in DOMAIN p.nonceCache /\ Missing(p, a, p.nonceCache[a])

MintInv == MintShape /\ Excludes(pending, mint)

\* What the selector excludes stays excluded rightly through a quiet change of the pool.
LEMMA QuietKeeps ==
  ASSUME NEW p, NEW q, NEW m, Excludes(p, m), Quiet(p, q)
  PROVE  Excludes(q, m)
<1> SUFFICES ASSUME m.pc # "idle" PROVE Excludes(q, m)
  BY DEF Excludes
<1>1. /\ m.pc = "exec" => From[m.tx] \notin Members(p.excl)
      /\ \A a \in Account \ m.failed :
           /\ a \in DOMAIN p.nonceCache => p.nonceCache[a] = m.nonce[a] + 1
           /\ a \in Members(p.excl) => a \in DOMAIN p.nonceCache /\ Missing(p, a, p.nonceCache[a])
  BY DEF Excludes
<1>2. q.nonceCache = p.nonceCache /\ Members(q.excl) \subseteq Members(p.excl)
  BY DEF Quiet
<1>3. ASSUME NEW a \in Members(q.excl), NEW n, Missing(p, a, n) PROVE Missing(q, a, n)
  BY <1>3 DEF Missing, Quiet, SameKey
<1> HIDE DEF Missing
<1> QED BY <1>1, <1>2, <1>3 DEF Excludes

\* The nonce of an account is a natural number.
LEMMA AccountNonceTyped ==
  ASSUME NEW c \in Seq(Seq(Tx)), NEW a
  PROVE  AccountNonce(c, a) \in Nat
<1> DEFINE txs == TxsOf(c)
           I == {i \in DOMAIN txs : From[txs[i]] = a}
<1>1. Len(txs) \in Nat /\ DOMAIN txs = 1..Len(txs)
  BY TxsTyped, ListType
<1>2. I \subseteq 1..Len(txs) /\ IsFiniteSet(1..Len(txs))
  BY <1>1, IntervalIsFinite
<1>3. IsFiniteSet(I)
  BY <1>2, PartIsFinite
<1>4. Cardinality(I) \in Nat
  <2> HIDE DEF I
  <2> QED BY <1>3, SizeType
<1> QED BY <1>4 DEF AccountNonce

\* MintStart: the selector forgets what it has excluded.
LEMMA MintStartKeeps ==
  ASSUME ShapeInv, MintInv, MintStart
  PROVE  MintInv'
<1> DEFINE nonces == [a \in Account |-> AccountNonce(chain, a)]
           q == pending'
           m == mint'
<1>1. PoolInv(pending) /\ chain \in Seq(Seq(Tx))
  BY DEF ShapeInv, WorkInv
<1>2. nonces \in [Account -> Nat]
  BY <1>1, AccountNonceTyped
<1>3. PICK pc, nonce, tx, failed : mint = [pc |-> pc, nonce |-> nonce, tx |-> tx, failed |-> failed]
  BY Zenon DEF MintInv, MintShape
<1>4. m = [mint EXCEPT !.pc = "next", !.nonce = nonces] /\ q = ResetSelector(pending)
  BY DEF MintStart
<1> HIDE DEF nonces, q, m
<1>5. m = [pc |-> "next", nonce |-> nonces, tx |-> tx, failed |-> failed]
  BY ZenonT(60), <1>3, <1>4
<1>6. Members(q.excl) = {} /\ DOMAIN q.nonceCache = {}
  BY ZenonT(60), <1>1, <1>4, ResetPool
<1>7. Excludes(q, m)
  BY <1>6 DEF Excludes
<1>8. /\ m = [pc |-> m.pc, nonce |-> m.nonce, tx |-> m.tx, failed |-> m.failed]
      /\ m.nonce \in [Account -> Nat] /\ m.pc # "exec"
  BY <1>2, <1>5
<1> QED BY <1>7, <1>8 DEF MintInv, MintShape, m, q

\* MintNext: a sender is excluded when it does not have the nonce required.
LEMMA MintNextKeeps ==
  ASSUME ShapeInv, MintInv, MintNext
  PROVE  MintInv'
<1> DEFINE p == pending
           r == PoolNext(p)
           q == r.pool
           m == mint'
<1>1. PoolInv(p) /\ Excludes(p, mint) /\ mint.pc = "next" /\ pending' = q
  BY DEF ShapeInv, MintInv, MintNext
<1>2. /\ SameTxs(p, q) /\ q.nonceCache = p.nonceCache
      /\ \A x \in Members(q.excl) \ Members(p.excl) : ~Stops(p, x)
      /\ r.tx # NoTx => r.tx \in p.all /\ From[r.tx] \notin Members(q.excl)
  <2> HIDE DEF r, p
  <2>1. r = PoolNext(p)
    BY DEF r
  <2>2. /\ SameTxs(p, r.pool) /\ r.pool.nonceCache = p.nonceCache
        /\ \A x \in Members(r.pool.excl) \ Members(p.excl) : ~Stops(p, x)
        /\ r.tx # NoTx => r.tx \in p.all /\ From[r.tx] \notin Members(r.pool.excl)
    BY <1>1, <2>1, NextPool
  <2> QED BY <2>2
<1>3. PICK pc, nonce, tx, failed : mint = [pc |-> pc, nonce |-> nonce, tx |-> tx, failed |-> failed]
  BY Zenon DEF MintInv, MintShape
<1>4. mint.nonce \in [Account -> Nat] /\ p.all \in SUBSET Tx
  BY <1>1 DEF MintInv, MintShape, PoolInv, SendersInv, Keyed
<1>5. m = IF r.tx = NoTx THEN mint ELSE [mint EXCEPT !.pc = "exec", !.tx = r.tx]
  BY DEF MintNext
<1> HIDE DEF m, q, r, p
<1>6. /\ m = [pc |-> m.pc, nonce |-> m.nonce, tx |-> m.tx, failed |-> m.failed]
      /\ m.nonce = mint.nonce /\ m.failed = mint.failed
      /\ m.pc = "exec" => r.tx # NoTx /\ m.tx = r.tx
      /\ m.pc # "idle"
  BY ZenonT(60), <1>1, <1>3, <1>5
<1>7. ASSUME NEW x \in Members(q.excl) \ Members(p.excl)
      PROVE  x \in DOMAIN p.nonceCache /\ Missing(p, x, p.nonceCache[x])
  <2>1. x \in DOMAIN p.from /\ x \in DOMAIN p.nonceCache /\ get(p.from[x], p.nonceCache[x]) = NoTx
    BY <1>2 DEF Stops
  <2> QED BY <1>1, <2>1, GetNone
<1>8. \A x, n : Missing(q, x, n) <=> Missing(p, x, n)
  BY <1>2 DEF Missing, SameTxs
<1>9. \A a \in Account \ mint.failed :
        /\ a \in DOMAIN p.nonceCache => p.nonceCache[a] = mint.nonce[a] + 1
        /\ a \in Members(p.excl) => a \in DOMAIN p.nonceCache /\ Missing(p, a, p.nonceCache[a])
  BY <1>1 DEF Excludes
<1>10. Excludes(q, m)
  <2> HIDE DEF Missing
  <2>1. \A a \in Account \ m.failed :
          /\ a \in DOMAIN q.nonceCache => q.nonceCache[a] = m.nonce[a] + 1
          /\ a \in Members(q.excl) => a \in DOMAIN q.nonceCache /\ Missing(q, a, q.nonceCache[a])
    BY <1>2, <1>6, <1>7, <1>8, <1>9
  <2>2. m.pc = "exec" => From[m.tx] \notin Members(q.excl)
    BY <1>2, <1>6
  <2> QED BY <2>1, <2>2 DEF Excludes
<1>11. m.pc = "exec" => m.tx \in Tx
  BY <1>2, <1>4, <1>6
<1> QED BY <1>1, <1>4, <1>6, <1>10, <1>11 DEF MintInv, MintShape, m

\* The required nonce that MintExec notes is the next one of the block, unless the
\* execution fails.
LEMMA MintExecKeeps ==
  ASSUME ShapeInv, MintInv, MintExec
  PROVE  MintInv'
<1> DEFINE p == pending
           q == pending'
           m == mint'
           a == From[mint.tx]
           acc == mint.nonce[a]
           back == [mint EXCEPT !.pc = "next", !.tx = NoTx]
<1>1. /\ PoolInv(p) /\ Excludes(p, mint) /\ mint.pc = "exec" /\ a \in Account /\ acc \in Nat
      /\ mint.nonce \in [Account -> Nat]
  BY TransactionsAssumption DEF ShapeInv, MintInv, MintShape, MintExec
<1>2. \/ /\ q = SetRequiredNonce(p, a, acc + 1) /\ m = back
      \/ /\ q = SetRequiredNonce(p, a, acc + 2)
         /\ m \in {[back EXCEPT !.nonce[a] = @ + 1, !.failed = @ \ {a}],
                   [back EXCEPT !.failed = @ \union {a}], notMinting}
  BY DEF MintExec
<1>3. PICK pc, nonce, tx, failed : mint = [pc |-> pc, nonce |-> nonce, tx |-> tx, failed |-> failed]
  BY Zenon DEF MintInv, MintShape
<1>4. mint.nonce = nonce /\ mint.failed = failed
  BY <1>3
<1>5. \/ m = notMinting
      \/ \E n : \E f, g :
           /\ m = [pc |-> "next", nonce |-> f, tx |-> NoTx, failed |-> g]
           /\ q = SetRequiredNonce(p, a, n) /\ f \in [Account -> Nat]
           /\ \A x \in Account \ {a} : f[x] = nonce[x] /\ (x \in g <=> x \in failed)
           /\ a \in g \/ n = f[a] + 1
  <2> HIDE DEF p, q, m, a
  <2>0. back = [pc |-> "next", nonce |-> nonce, tx |-> NoTx, failed |-> failed]
    <3>1. back = [mint EXCEPT !.pc = "next", !.tx = NoTx]
      OBVIOUS
    <3> HIDE DEF back, acc
    <3> QED BY ZenonT(60), <1>3, <3>1
  <2> HIDE DEF back
  <2>1. CASE q = SetRequiredNonce(p, a, acc + 1) /\ m = back
    <3>1. acc + 1 = nonce[a] + 1 /\ nonce \in [Account -> Nat]
      BY <1>1, <1>4
    <3>2. m = [pc |-> "next", nonce |-> nonce, tx |-> NoTx, failed |-> failed]
      BY <2>0, <2>1
    <3> QED BY <2>1, <3>1, <3>2, Zenon
  <2>2. CASE q = SetRequiredNonce(p, a, acc + 2) /\ m = [back EXCEPT !.nonce[a] = @ + 1, !.failed = @ \ {a}]
    <3> DEFINE f == [nonce EXCEPT ![a] = @ + 1]
    <3>1. m = [pc |-> "next", nonce |-> f, tx |-> NoTx, failed |-> failed \ {a}]
      BY ZenonT(60), <2>0, <2>2
    <3>2. f \in [Account -> Nat] /\ f[a] = acc + 1 /\ \A x \in Account \ {a} : f[x] = nonce[x]
      BY <1>1, <1>4
    <3> HIDE DEF f
    <3>3. acc + 2 = f[a] + 1
      BY <1>1, <3>2
    <3>4. \A x \in Account \ {a} : x \in failed \ {a} <=> x \in failed
      OBVIOUS
    <3> QED BY <2>2, <3>1, <3>2, <3>3, <3>4, ZenonT(60)
  <2>3. CASE q = SetRequiredNonce(p, a, acc + 2) /\ m = [back EXCEPT !.failed = @ \union {a}]
    <3>1. m = [pc |-> "next", nonce |-> nonce, tx |-> NoTx, failed |-> failed \union {a}]
      BY SMTT(60), <2>0, <2>3
    <3>2. /\ \A x \in Account \ {a} : x \in failed \union {a} <=> x \in failed
          /\ a \in failed \union {a} /\ nonce \in [Account -> Nat]
      BY <1>1, <1>4
    <3> QED BY <2>3, <3>1, <3>2, Zenon
  <2> QED BY <1>2, <2>1, <2>2, <2>3
<1>6. CASE m = notMinting
  <2>1. /\ m = [pc |-> m.pc, nonce |-> m.nonce, tx |-> m.tx, failed |-> m.failed]
        /\ m.nonce \in [Account -> Nat] /\ m.pc = "idle"
    BY <1>6 DEF notMinting
  <2> HIDE DEF m, q
  <2>2. Excludes(q, m)
    BY <2>1 DEF Excludes
  <2> QED BY <2>1, <2>2 DEF MintInv, MintShape, m, q
<1>7. ASSUME NEW n, NEW f, NEW g,
             m = [pc |-> "next", nonce |-> f, tx |-> NoTx, failed |-> g],
             q = SetRequiredNonce(p, a, n), f \in [Account -> Nat],
             \A x \in Account \ {a} : f[x] = nonce[x] /\ (x \in g <=> x \in failed),
             a \in g \/ n = f[a] + 1
      PROVE  MintInv'
  <2>1. /\ \A x \in Account \ failed :
             /\ x \in DOMAIN p.nonceCache => p.nonceCache[x] = nonce[x] + 1
             /\ x \in Members(p.excl) => x \in DOMAIN p.nonceCache /\ Missing(p, x, p.nonceCache[x])
        /\ a \notin Members(p.excl)
    BY <1>1, <1>4 DEF Excludes
  <2> HIDE DEF p, q, m, a
  <2>2. /\ SameTxs(p, q) /\ q.excl = p.excl
        /\ DOMAIN q.nonceCache = DOMAIN p.nonceCache \union {a}
        /\ \A x \in DOMAIN q.nonceCache : q.nonceCache[x] = IF x = a THEN n ELSE p.nonceCache[x]
    BY <1>1, <1>7, CachePool
  <2>3. \A x, k : Missing(q, x, k) <=> Missing(p, x, k)
    BY <2>2 DEF Missing, SameTxs
  <2>4. m.pc = "next" /\ m.failed = g /\ m.nonce = f
    BY <1>7
  <2>5. ASSUME NEW x \in Account \ m.failed
        PROVE  /\ x \in DOMAIN q.nonceCache => q.nonceCache[x] = m.nonce[x] + 1
               /\ x \in Members(q.excl) => x \in DOMAIN q.nonceCache /\ Missing(q, x, q.nonceCache[x])
    <3>1. CASE x = a
      BY <1>7, <2>1, <2>2, <2>4, <3>1
    <3>2. CASE x # a
      <4>1. x \in Account \ failed /\ m.nonce[x] = nonce[x]
        BY <1>7, <2>4, <3>2
      <4>2. x \in DOMAIN q.nonceCache <=> x \in DOMAIN p.nonceCache
        BY <2>2, <3>2
      <4>3. x \in DOMAIN q.nonceCache => q.nonceCache[x] = p.nonceCache[x]
        BY <2>2, <3>2
      <4> QED BY <2>1, <2>2, <2>3, <4>1, <4>2, <4>3
    <3> QED BY <3>1, <3>2
  <2>6. Excludes(q, m)
    BY <2>4, <2>5 DEF Excludes
  <2>7. m = [pc |-> m.pc, nonce |-> m.nonce, tx |-> m.tx, failed |-> m.failed]
    BY <1>7
  <2> QED BY <1>7, <2>4, <2>6, <2>7 DEF MintInv, MintShape, m, q
<1> QED BY <1>5, <1>6, <1>7

\* The pools change without the minter: the invariant stays.
LEMMA OthersKeepMint ==
  ASSUME MintInv, UNCHANGED mint, Quiet(pending, pending')
  PROVE  MintInv'
<1> DEFINE q == pending'
<1>1. Excludes(pending, mint) /\ Quiet(pending, q)
  BY DEF MintInv
<1> HIDE DEF q
<1>2. Excludes(q, mint)
  BY <1>1, QuietKeeps
<1> QED BY <1>2 DEF MintInv, MintShape, q

\* Every step keeps MintInv.
LEMMA MintStep ==
  ASSUME ShapeInv, MintInv, [Next]_vars
  PROVE  MintInv'
<1>0. PoolInv(pending) /\ CallersInv /\ WorkInv
  BY DEF ShapeInv
<1>1. Quiet(pending, pending)
  BY DEF Quiet, SameKey
<1>2. CASE UNCHANGED <<pending, mint>>
  BY <1>1, <1>2, OthersKeepMint
<1>3. ASSUME NEW c \in Callers, pushToPool(c) PROVE MintInv'
  <2> DEFINE t == caller[c].tx
             n == caller[c].nonce
  <2>1. t \in Tx
    BY <1>0, <1>3 DEF CallersInv, pushToPool
  <2>2. UNCHANGED mint
    BY <1>3, PushEffect
  <2>3. \/ pending' = pending
        \/ \E points, elapsed, r : r = PushOrReplace(pending, t, n, points, elapsed) /\ pending' = r.pool
    BY <1>3, PushEffect
  <2> HIDE DEF t, n
  <2>4. ASSUME NEW points, NEW elapsed, NEW r, r = PushOrReplace(pending, t, n, points, elapsed)
        PROVE  Quiet(pending, r.pool)
    BY <1>0, <2>1, <2>4, PushOrReplaceQuiet
  <2>5. Quiet(pending, pending')
    BY <1>1, <2>3, <2>4
  <2> QED BY <2>2, <2>5, OthersKeepMint
<1>4. ASSUME NEW a, DelByAddressNonce(a) PROVE MintInv'
  <2> DEFINE n == cm.del[a]
             q == pending'
  <2>1. n \in Int /\ q = Prune(pending, a, n) /\ UNCHANGED mint
    BY <1>0, <1>4 DEF DelByAddressNonce, WorkInv
  <2>2. Quiet(pending, q)
    <3> HIDE DEF n, q
    <3> QED BY <1>0, <2>1, PruneQuiet
  <2> QED BY <2>1, <2>2, OthersKeepMint
<1>5. ASSUME MintEnd PROVE MintInv'
  <2> DEFINE m == mint'
             q == pending'
  <2>1. /\ m = [pc |-> m.pc, nonce |-> m.nonce, tx |-> m.tx, failed |-> m.failed]
        /\ m.nonce \in [Account -> Nat] /\ m.pc = "idle"
    BY <1>5 DEF MintEnd, notMinting
  <2> HIDE DEF m, q
  <2>2. Excludes(q, m)
    BY <2>1 DEF Excludes
  <2> QED BY <2>1, <2>2 DEF MintInv, MintShape, m, q
<1>6. \/ UNCHANGED <<pending, mint>>
      \/ \E c \in Callers : pushToPool(c)
      \/ \E a : DelByAddressNonce(a)
      \/ MintStart \/ MintNext \/ MintExec \/ MintEnd
  <2>1. ASSUME NEW c, moveBetweenPool(c) PROVE UNCHANGED <<pending, mint>>
    BY <2>1, MoveKeeps
  <2> QED BY <2>1 DEF Next, vars, Push, transit, NewTail, PushReverted
<1> QED BY <1>2, <1>3, <1>4, <1>5, <1>6, MintStartKeeps, MintNextKeeps, MintExecKeeps

\* When Next has no transaction for makeBlock, none of the pending ones could be executed
\* in the block, however the pools have changed since the block was begun, except those of
\* senders whose last execution failed.
THEOREM NextIsExhaustive == Spec => []NextExhaustive
<1>1. Init => MintInv
  <2> SUFFICES ASSUME Init PROVE MintInv
    OBVIOUS
  <2>1. mint = notMinting
    BY DEF Init
  <2>2. /\ mint = [pc |-> mint.pc, nonce |-> mint.nonce, tx |-> mint.tx, failed |-> mint.failed]
        /\ mint.nonce \in [Account -> Nat] /\ mint.pc = "idle"
    BY <2>1 DEF notMinting
  <2> QED BY <2>2 DEF MintInv, MintShape, Excludes
<1>2. ShapeInv /\ MintInv /\ [Next]_vars => MintInv'
  BY MintStep
<1>3. ShapeInv /\ MintInv => NextExhaustive
  <2> SUFFICES ASSUME ShapeInv, MintInv, mint.pc = "next", PoolNext(pending).tx = NoTx,
                      NEW t \in Tx, Ready(t), From[t] \notin mint.failed
               PROVE  FALSE
    BY DEF NextExhaustive
  <2> DEFINE p == pending
             r == PoolNext(p)
             a == From[t]
  <2>1. /\ PoolInv(p) /\ Excludes(p, mint) /\ r.tx = NoTx /\ t \in p.all /\ a \in Account
        /\ Nonce[t] = mint.nonce[a] + 1
    BY TransactionsAssumption DEF ShapeInv, MintInv, Ready
  <2>2. a \in Members(p.incl) \/ a \in Members(p.excl)
    BY <2>1 DEF PoolInv, SendersInv, SelectorInv
  <2>3. /\ a \in DOMAIN p.nonceCache => p.nonceCache[a] = mint.nonce[a] + 1
        /\ a \in Members(p.excl) => a \in DOMAIN p.nonceCache /\ Missing(p, a, p.nonceCache[a])
    BY <2>1 DEF Excludes
  <2>4. ~Missing(p, a, mint.nonce[a] + 1)
    BY <2>1 DEF Missing
  <2>5. \A x \in Members(p.incl) : ~Stops(p, x)
    <3> HIDE DEF r, p
    <3>1. r = PoolNext(p)
      BY DEF r
    <3> QED BY <2>1, <3>1, NextPool
  <2>6. a \in Members(p.incl) => a \in DOMAIN p.nonceCache /\ Missing(p, a, p.nonceCache[a])
    <3>1. a \in Members(p.incl) =>
            a \in DOMAIN p.from /\ a \in DOMAIN p.nonceCache /\ get(p.from[a], p.nonceCache[a]) = NoTx
      BY <2>5 DEF Stops
    <3> HIDE DEF a, p
    <3> QED BY <2>1, <3>1, GetNone
  <2> QED BY <2>2, <2>3, <2>4, <2>6
<1> QED BY <1>1, <1>2, <1>3, ShapeHolds, PTL DEF Spec

-----------------------------------------------------------------------------
(* The chain manager: what the chain has executed leaves the pool.         *)

\* c has the blocks of P, its first k, and of Y.
Splits(c, k, P, Y) ==
  /\ c \in Seq(Seq(Tx)) /\ k \in 0..Len(c)
  /\ P = SubSeq(c, 1, k) /\ Y = SubSeq(c, k + 1, Len(c))

\* A chain is the part that it shares with another one, and its own part.
LEMMA ChainSplit ==
  ASSUME NEW c, NEW k, NEW P, NEW Y, Splits(c, k, P, Y)
  PROVE  Joined(TxsOf(c), TxsOf(P), TxsOf(Y))
<1>0. /\ c \in Seq(Seq(Tx)) /\ k \in 0..Len(c)
      /\ P = SubSeq(c, 1, k) /\ Y = SubSeq(c, k + 1, Len(c))
  BY DEF Splits
<1> DEFINE A == Seq(Tx)
<1>1. c \in Seq(A)
  BY <1>0
<1> HIDE DEF A
<1>2. P \in Seq(A) /\ Y \in Seq(A) /\ c = P \o Y
  BY ZenonT(60), <1>0, <1>1, ConcatParts
<1>4. TxsOf(c) = TxsOf(P) \o TxsOf(Y)
  BY ZenonT(60), <1>2, TxsConcat DEF A
<1> QED BY <1>2, <1>4, TxsTyped DEF A, Joined

\* What the chain has executed, the pool does not have, but for what is about to be
\* deleted and for late keys: PendingAboveChain.
Above(S, c, del_, keys) ==
  \A t \in S :
    Nonce[t] <= AccountNonce(c, From[t]) =>
      \/ From[t] \in DOMAIN del_ /\ Nonce[t] <= del_[From[t]]
      \/ <<From[t], Nonce[t]>> \in keys

\* The chain manager is the one that changes the chain: it pushes with the present tail.
ReadInv == caller[CM].pc = "push" => caller[CM].nonce = AccountNonce(chain, From[caller[CM].tx])

AboveInv == Above(pending.all, chain, cm.del, late) /\ ReadInv

\* The nonce of an account counts its transactions.
LEMMA NonceIsCount == ASSUME NEW c, NEW a PROVE AccountNonce(c, a) = Count(TxsOf(c), a)
  BY DEF AccountNonce, Count, Places

\* What the new chain has executed more than the old one is what the chain manager is
\* about to delete.
LEMMA NewTailDeletes ==
  ASSUME ShapeInv, NEW k \in 0..MaxBlocks, NEW c \in Chains, NewTail(k, c), NEW a,
         AccountNonce(chain, a) < AccountNonce(c, a)
  PROVE  a \in DOMAIN cm'.del /\ AccountNonce(c, a) <= cm'.del[a]
<1> DEFINE P == SubSeq(c, 1, k)
           Y == SubSeq(c, k + 1, Len(c))
           X == SubSeq(chain, k + 1, Len(chain))
<1>1. /\ c \in Seq(Seq(Tx)) /\ chain \in Seq(Seq(Tx)) /\ Consecutive(c)
      /\ k \in 0..Len(c) /\ k \in 0..Len(chain) /\ P = SubSeq(chain, 1, k)
  <2>1. c \in Seq(Seq(Tx)) /\ chain \in Seq(Seq(Tx)) /\ Consecutive(c)
    BY ChainsTyped DEF ShapeInv, WorkInv
  <2>2. k \in Nat /\ k <= Len(c) /\ k <= Len(chain) /\ P = SubSeq(chain, 1, k)
    BY ManagerAssumption DEF NewTail
  <2> QED BY <2>1, <2>2, ListType
<1>2. cm'.del = addrNonce(TxsOf(Y))
  BY DEF NewTail
<1>3. Splits(c, k, P, Y) /\ Splits(chain, k, P, X)
  BY <1>1 DEF Splits
<1> HIDE DEF P, Y, X
<1> DEFINE u == TxsOf(P)
           v == TxsOf(Y)
           w == TxsOf(c)
           o == TxsOf(chain)
<1>4. Joined(w, u, v) /\ Joined(o, u, TxsOf(X))
  BY <1>3, ChainSplit
<1>5. u \in Seq(Tx) /\ v \in Seq(Tx) /\ w \in Seq(Tx) /\ o \in Seq(Tx)
  BY <1>1, <1>4, TxsTyped DEF Joined
<1>6. InOrder(w)
  BY <1>1 DEF Consecutive, InOrder
<1>7. AccountNonce(c, a) = Count(w, a) /\ AccountNonce(chain, a) = Count(o, a)
  BY NonceIsCount
<1> HIDE DEF u, v, w, o
<1>8. Count(u, a) <= Count(o, a)
  <2> DEFINE x == TxsOf(X)
  <2>1. u \in Seq(Tx) /\ x \in Seq(Tx) /\ o = u \o x
    BY <1>4 DEF Joined
  <2> HIDE DEF x
  <2> QED BY ZenonT(60), <2>1, CountPrefix
<1>9. Fewer(u, w, a)
  <2>1. Count(u, a) \in Nat /\ Count(o, a) \in Nat /\ Count(w, a) \in Nat
    BY <1>5, CountTyped
  <2> QED BY <1>7, <1>8, <2>1 DEF Fewer
<1>10. HasNonce(v, a, Count(w, a))
  BY <1>4, <1>6, <1>9, CountLast, ZenonT(60)
<1>11. PICK i \in DOMAIN v : From[v[i]] = a /\ Nonce[v[i]] = Count(w, a)
  BY <1>10 DEF HasNonce
<1>12. a \in DOMAIN addrNonce(v) /\ Nonce[v[i]] <= addrNonce(v)[a]
  BY <1>5, <1>11, AddrNonceMax
<1> QED BY <1>2, <1>7, <1>11, <1>12 DEF v

\* NewTail: what it executes is handed to the chain manager for deletion.
LEMMA NewTailKeepsAbove ==
  ASSUME ShapeInv, AboveInv, NEW k \in 0..MaxBlocks, NEW c \in Chains, NewTail(k, c)
  PROVE  AboveInv'
<1> DEFINE del_ == cm'.del
<1>1. /\ c \in Seq(Seq(Tx)) /\ chain \in Seq(Seq(Tx)) /\ pending.all \in SUBSET Tx
      /\ DOMAIN cm.del = {}
  BY ChainsTyped DEF ShapeInv, WorkInv, PoolInv, SendersInv, Keyed, NewTail, EmptyMap
<1>2. chain' = c /\ UNCHANGED <<pending, late>> /\ caller'[CM] = idle
  BY DEF NewTail
<1>3. ASSUME NEW t \in pending.all, Nonce[t] <= AccountNonce(c, From[t]),
             <<From[t], Nonce[t]>> \notin late
      PROVE  From[t] \in DOMAIN del_ /\ Nonce[t] <= del_[From[t]]
  <2> DEFINE a == From[t]
             old == AccountNonce(chain, a)
             new == AccountNonce(c, a)
  <2>1. old \in Nat /\ new \in Nat /\ Nonce[t] \in Nat
    BY <1>1, AccountNonceTyped, TransactionsAssumption
  <2>2. ~(Nonce[t] <= old)
    BY ZenonT(60), <1>1, <1>3 DEF AboveInv, Above
  <2>3. old < new
    <3> HIDE DEF old, new
    <3> QED BY <1>3, <2>1, <2>2 DEF new
  <2>4. a \in DOMAIN del_ /\ new <= del_[a]
    BY <2>3, NewTailDeletes
  <2>5. del_[a] \in Nat
    BY <2>4, NewTailKeepsPool DEF ShapeInv, WorkInv
  <2> HIDE DEF del_
  <2> QED BY <1>3, <2>1, <2>4, <2>5
<1>4. Above(pending.all, c, del_, late)
  BY <1>3 DEF Above
<1>5. ReadInv'
  BY <1>2 DEF ReadInv, idle
<1> QED BY <1>2, <1>4, <1>5 DEF AboveInv

\* A push by a client with an old tail makes a key late; every other one is above the chain.
LEMMA PushKeepsAbove ==
  ASSUME ShapeInv, AboveInv, NEW c \in Callers, pushToPool(c)
  PROVE  AboveInv'
<1> DEFINE t == caller[c].tx
           n == caller[c].nonce
           nonce == AccountNonce(chain, From[t])
<1>0. /\ PoolInv(pending) /\ CallersInv /\ chain \in Seq(Seq(Tx)) /\ caller[c].pc = "push" /\ t \in Tx
      /\ nonce \in Nat
  BY AccountNonceTyped DEF ShapeInv, CallersInv, WorkInv, pushToPool
<1>1. Above(pending.all, chain, cm.del, late) /\ (c = CM => n = nonce)
  BY <1>0 DEF AboveInv, ReadInv
<1>2. ASSUME NEW at, Goto(c, at), at.pc # "push", UNCHANGED chain PROVE ReadInv'
  BY <1>0, <1>2 DEF Goto, ReadInv, AboveInv, CallersInv, Callers
<1>3. CASE \E s \in Set(future, t) : future' = s.pool /\ Goto(c, idle)
             /\ UNCHANGED <<chain, pending, cm, mint, late>>
  <2>1. ReadInv'
    BY <1>2, <1>3 DEF idle
  <2> QED BY <1>1, <1>3, <2>1 DEF AboveInv
<1>4. ASSUME NEW points, NEW elapsed, NEW r,
             r = PushOrReplace(pending, t, n, points, elapsed),
             pending' = r.pool,
             late' = late \union IF r.ok /\ c # CM /\ n # nonce
                                 THEN {<<From[t], Nonce[t]>>} ELSE {},
             Goto(c, IF r.ok THEN transiting(From[t], n) ELSE idle),
             UNCHANGED <<chain, future, cm, mint>>
      PROVE  AboveInv'
  <2>1. ReadInv'
    <3> DEFINE at == IF r.ok THEN transiting(From[t], n) ELSE idle
    <3>1. at.pc # "push" /\ Goto(c, at)
      BY <1>4 DEF transiting, idle
    <3> HIDE DEF at
    <3> QED BY <1>2, <1>4, <3>1
  <2>2. \A u \in r.pool.all :
          \/ \E old \in pending.all : SameKey(old, u)
          \/ u = t /\ r.ok /\ (n \in Nat => n < Nonce[t])
    <3> HIDE DEF t, n
    <3>1. PoolInv(pending) /\ t \in Tx /\ r = PushOrReplace(pending, t, n, points, elapsed)
      BY ZenonT(60), <1>0, <1>4
    <3> QED BY <3>1, PushedAbove
  <2>3. ASSUME NEW u \in r.pool.all, Nonce[u] <= AccountNonce(chain, From[u])
        PROVE  \/ From[u] \in DOMAIN cm.del /\ Nonce[u] <= cm.del[From[u]]
               \/ <<From[u], Nonce[u]>> \in late'
    <3>1. CASE \E old \in pending.all : SameKey(old, u)
      BY <1>1, <1>4, <2>3, <3>1 DEF Above, SameKey
    <3>2. CASE u = t /\ r.ok /\ (n \in Nat => n < Nonce[t])
      <4>1. Nonce[t] \in Nat /\ Nonce[t] <= nonce
        BY <1>0, <2>3, <3>2, TransactionsAssumption
      <4>2. n # nonce
        <5> HIDE DEF n, nonce
        <5> QED BY <1>0, <3>2, <4>1
      <4>3. <<From[t], Nonce[t]>> \in late'
        <5> HIDE DEF n, nonce, t
        <5> QED BY <1>1, <1>4, <3>2, <4>2
      <4> QED BY <3>2, <4>3
    <3> QED BY <2>2, <3>1, <3>2
  <2> QED BY <1>4, <2>1, <2>3 DEF AboveInv, Above
<1> QED BY <1>3, <1>4, PushEffect

\* The chain manager deletes what is not above the nonce it has noted.
LEMMA DeleteKeepsAbove ==
  ASSUME ShapeInv, AboveInv, NEW a, DelByAddressNonce(a)
  PROVE  AboveInv'
<1> DEFINE n == cm.del[a]
           q == pending'
           rest == [x \in DOMAIN cm.del \ {a} |-> cm.del[x]]
<1>0. PoolInv(pending) /\ CallersInv /\ WorkInv /\ CM \in Callers
  BY DEF ShapeInv, Callers
<1>1. n \in Int /\ q = Prune(pending, a, n) /\ late' = StillLate(late, q) /\ chain' = chain
  BY <1>0 DEF DelByAddressNonce, WorkInv
<1>2. q.all = {t \in pending.all : ~(From[t] = a /\ Nonce[t] <= n)}
  <2> HIDE DEF n, q
  <2> QED BY <1>0, <1>1, PrunePool
<1>3. cm'.del = rest
  <2>1. cm = [del |-> cm.del, push |-> cm.push] /\ cm' = [cm EXCEPT !.del = rest]
    BY <1>0 DEF DelByAddressNonce, WorkInv
  <2> HIDE DEF rest
  <2>2. PICK d, e : cm = [del |-> d, push |-> e]
    BY <2>1, Zenon
  <2> QED BY <2>1, <2>2
<1>4. ASSUME NEW t \in q.all, Nonce[t] <= AccountNonce(chain, From[t])
      PROVE  \/ From[t] \in DOMAIN rest /\ Nonce[t] <= rest[From[t]]
             \/ <<From[t], Nonce[t]>> \in late'
  <2>1. t \in pending.all /\ ~(From[t] = a /\ Nonce[t] <= n)
    BY <1>2
  <2>2. \/ From[t] \in DOMAIN cm.del /\ Nonce[t] <= cm.del[From[t]]
        \/ <<From[t], Nonce[t]>> \in late
    BY <1>4, <2>1 DEF AboveInv, Above
  <2>3. CASE From[t] \in DOMAIN cm.del /\ Nonce[t] <= cm.del[From[t]]
    BY <2>1, <2>3
  <2>4. CASE <<From[t], Nonce[t]>> \in late
    <3> HIDE DEF q
    <3> QED BY <1>1, <2>4 DEF StillLate
  <2> QED BY <2>2, <2>3, <2>4
<1>5. ReadInv'
  <2> DEFINE at == transiting(a, AccountNonce(chain, a))
  <2>1. Goto(CM, at) /\ at.pc # "push"
    BY DEF DelByAddressNonce, transiting
  <2> HIDE DEF at
  <2>2. caller'[CM] = at
    BY <1>0, <2>1 DEF Goto, CallersInv
  <2> QED BY <2>1, <2>2 DEF ReadInv
<1> QED BY SMTT(60), <1>1, <1>3, <1>4, <1>5 DEF AboveInv, Above

\* What does not change the transactions of the pool, the chain and the work of the chain
\* manager.
LEMMA OthersKeepAbove ==
  ASSUME AboveInv, pending'.all = pending.all, UNCHANGED <<chain, late>>, cm'.del = cm.del, ReadInv'
  PROVE  AboveInv'
  BY DEF AboveInv, Above

\* The calls of makeBlock add nothing to the pool.
LEMMA MintKeepsAbove ==
  ASSUME ShapeInv, AboveInv, MintStart \/ MintNext \/ MintExec \/ MintEnd
  PROVE  AboveInv'
<1>0. PoolInv(pending)
  BY DEF ShapeInv
<1>1. \/ pending' = pending
      \/ pending' = ResetSelector(pending)
      \/ pending' = PoolNext(pending).pool
      \/ \E a, n : pending' = SetRequiredNonce(pending, a, n)
  BY DEF MintStart, MintNext, MintExec, MintEnd
<1> DEFINE q == pending'
<1>2. q.all = pending.all
  <2>1. ASSUME q = ResetSelector(pending) PROVE q.all = pending.all
    <3> HIDE DEF q
    <3> QED BY <1>0, <2>1, ResetPool DEF SameTxs
  <2>2. ASSUME q = PoolNext(pending).pool PROVE q.all = pending.all
    <3> DEFINE r == PoolNext(pending)
    <3>1. r = PoolNext(pending) /\ q = r.pool
      BY <2>2
    <3> HIDE DEF q, r
    <3>2. SameTxs(pending, r.pool)
      BY <1>0, <3>1, NextPool, ZenonT(60)
    <3> QED BY <3>1, <3>2 DEF SameTxs
  <2>3. ASSUME NEW a, NEW n, q = SetRequiredNonce(pending, a, n) PROVE q.all = pending.all
    <3> HIDE DEF q
    <3> QED BY <1>0, <2>3, CachePool DEF SameTxs
  <2> QED BY <1>1, <2>1, <2>2, <2>3
<1>3. UNCHANGED <<chain, caller, cm, late>>
  BY DEF MintStart, MintNext, MintExec, MintEnd
<1>4. ReadInv'
  BY <1>3 DEF AboveInv, ReadInv
<1> QED BY <1>2, <1>3, <1>4, OthersKeepAbove

\* The remaining steps of callers and of the chain manager.
LEMMA CallersKeepAbove ==
  ASSUME ShapeInv, AboveInv,
         \/ \E c \in Client, t \in Tx : Push(c, t)
         \/ \E c \in Callers : transit(c) \/ moveBetweenPool(c)
         \/ PushReverted
  PROVE  AboveInv'
<1>0. CallersInv /\ WorkInv
  BY DEF ShapeInv
<1>1. ASSUME NEW c \in Callers, NEW at, Goto(c, at), UNCHANGED chain,
             c = CM /\ at.pc = "push" => at.nonce = AccountNonce(chain, From[at.tx])
      PROVE  ReadInv'
  <2>1. caller'[CM] = IF c = CM THEN at ELSE caller[CM]
    BY <1>0, <1>1 DEF Goto, CallersInv, Callers
  <2>2. CASE c = CM
    BY <1>1, <2>1, <2>2 DEF ReadInv
  <2>3. CASE c # CM
    BY <1>1, <2>1, <2>3 DEF ReadInv, AboveInv
  <2> QED BY <2>2, <2>3
<1>2. ASSUME NEW c \in Client, NEW t \in Tx, Push(c, t) PROVE AboveInv'
  <2>1. UNCHANGED <<pending, chain, late, cm>> /\ c # CM /\ c \in Callers
        /\ Goto(c, pushing(t, AccountNonce(chain, From[t])))
    BY <1>2, ManagerAssumption DEF Push, ReadTail, Callers
  <2>2. ReadInv'
    BY <1>1, <2>1
  <2> QED BY <2>1, <2>2, OthersKeepAbove
<1>3. ASSUME NEW c \in Callers, transit(c) \/ moveBetweenPool(c) PROVE AboveInv'
  <2>1. UNCHANGED <<chain, pending, cm, late>> /\ \E at : Goto(c, at) /\ at.pc # "push"
    <3>1. CASE transit(c)
      <4> DEFINE t == PeekLowerNonce(future, caller[c].addr)
                 at == IF t = NoTx THEN idle ELSE moving(t, caller[c].nonce)
      <4>1. Goto(c, at) /\ UNCHANGED <<chain, pending, cm, late>>
        BY <3>1 DEF transit
      <4>2. at.pc # "push"
        <5> HIDE DEF t
        <5> QED BY DEF idle, moving
      <4> QED BY <4>1, <4>2
    <3>2. CASE moveBetweenPool(c)
      BY <3>2, MoveKeeps DEF idle
    <3> QED BY <1>3, <3>1, <3>2
  <2>2. ReadInv'
    BY <1>1, <2>1
  <2> QED BY <2>1, <2>2, OthersKeepAbove
<1>4. ASSUME PushReverted PROVE AboveInv'
  <2> DEFINE t == Head(cm.push)
             rest == Tail(cm.push)
             at == pushing(t, AccountNonce(chain, From[t]))
  <2>1. /\ Goto(CM, at) /\ CM \in Callers /\ UNCHANGED <<chain, pending, late>>
        /\ cm = [del |-> cm.del, push |-> cm.push] /\ cm' = [cm EXCEPT !.push = rest]
    BY <1>0, <1>4 DEF PushReverted, ReadTail, WorkInv, Callers
  <2>2. at.nonce = AccountNonce(chain, From[at.tx])
    BY DEF pushing
  <2> HIDE DEF at, rest
  <2>3. ReadInv'
    BY <1>1, <2>1, <2>2
  <2>4. PICK d, e : cm = [del |-> d, push |-> e]
    BY <2>1, Zenon
  <2>5. cm'.del = cm.del
    BY <2>1, <2>4
  <2> QED BY <2>1, <2>3, <2>5, OthersKeepAbove
<1> QED BY <1>2, <1>3, <1>4

\* What the main chain has executed is not pending any more, whatever blocks come and go,
\* unless the chain manager is about to delete it or a client with an older tail brought it.
THEOREM PendingStaysAboveChain == Spec => []PendingAboveChain
<1>1. Init => AboveInv
  <2> SUFFICES ASSUME Init PROVE AboveInv
    OBVIOUS
  <2>1. pending.all = {}
    BY DEF Init, NewPendingTransactionPool
  <2>2. caller[CM].pc # "push"
    BY DEF Init, Callers, idle
  <2> QED BY <2>1, <2>2 DEF AboveInv, Above, ReadInv
<1>2. ShapeInv /\ AboveInv /\ [Next]_vars => AboveInv'
  <2> SUFFICES ASSUME ShapeInv, AboveInv, [Next]_vars PROVE AboveInv'
    OBVIOUS
  <2>1. CASE UNCHANGED vars
    BY <2>1 DEF vars, AboveInv, Above, ReadInv
  <2>2. CASE Next
    <3>1. \/ \/ \E c \in Client, t \in Tx : Push(c, t)
             \/ \E c \in Callers : transit(c) \/ moveBetweenPool(c)
             \/ PushReverted
          \/ \E c \in Callers : pushToPool(c)
          \/ \E c \in Chains, k \in 0..MaxBlocks : NewTail(k, c)
          \/ \E a \in Account : DelByAddressNonce(a)
          \/ MintStart \/ MintNext \/ MintExec \/ MintEnd
      BY <2>2 DEF Next
    <3> QED BY <3>1, CallersKeepAbove, PushKeepsAbove, NewTailKeepsAbove, DeleteKeepsAbove,
               MintKeepsAbove
  <2> QED BY <2>1, <2>2
<1>3. AboveInv => PendingAboveChain
  BY DEF AboveInv, Above, PendingAboveChain
<1> QED BY <1>1, <1>2, <1>3, ShapeHolds, PTL DEF Spec
=============================================================================
