-------------------------- MODULE TransactionManager --------------------------
(***************************************************************************)
(* The transaction manager (core/transaction_manager.go) with its two      *)
(* pools, and those who use it: clients that push transactions (rpc calls  *)
(* and the network loop), the chain manager that rearranges the pools when *)
(* the main tail changes (rearrangeTransactions), and the minter that      *)
(* takes transactions for a block (makeBlock of consensus/dpos).           *)
(*                                                                         *)
(* A client reads the tail before it takes the lock of the manager, and    *)
(* uses the accounts of that tail under the lock.  Account points come     *)
(* from the ledger: they are any of Points here.  Broadcasting a           *)
(* transaction changes nothing of the node and is left out.                *)
(***************************************************************************)
EXTENDS PendingPool, FuturePool

CONSTANTS
  Client,
  CM,                  \* the chain manager, as a caller of push and transit
  Points,              \* the points an account may have
  IsMiner,             \* does this node mint blocks?
  MayRevert,           \* bound: may the main chain change to another branch?
  MaxBlocks,           \* bound: blocks with transactions on the main chain
  MaxBlockTxs          \* bound: transactions of a block

ASSUME ManagerAssumption ==
  /\ CM \notin Client
  /\ Points \subseteq Nat
  /\ {IsMiner, MayRevert} \subseteq BOOLEAN
  /\ {MaxBlocks, MaxBlockTxs} \subseteq Nat

VARIABLES
  chain,               \* blocks of the main chain that have transactions
  pending, future,     \* the pools
  caller,              \* where each caller of push or transit is
  cm,                  \* what rearrangeTransactions still has to delete and to push
  mint,                \* the minter: position, account nonces of its block, transaction
  late                 \* history: keys that entered pending from an old tail

vars == <<chain, pending, future, caller, cm, mint, late>>

Callers == Client \union {CM}

-----------------------------------------------------------------------------
(* The ledger, as far as nonces go: the transactions of an account are     *)
(* executed in the order of their nonces, without a gap.                   *)

TxsOf(blocks) == FlattenSeq(blocks)

AccountNonce(c, a) == Cardinality({i \in DOMAIN TxsOf(c) : From[TxsOf(c)[i]] = a})

Consecutive(c) ==
  LET txs == TxsOf(c)
  IN  \A i \in DOMAIN txs :
        Nonce[txs[i]] = Cardinality({j \in 1..i : From[txs[j]] = From[txs[i]]})

TxBlock == BoundedSeq(Tx, MaxBlockTxs) \ {<<>>}

Chains == {c \in BoundedSeq(TxBlock, MaxBlocks) : Consecutive(c)}

-----------------------------------------------------------------------------
(* Callers of the manager.                                                 *)

idle == [pc |-> "idle"]
pushing(t, n) == [pc |-> "push", tx |-> t, nonce |-> n]
transiting(a, n) == [pc |-> "transit", addr |-> a, nonce |-> n]
moving(t, n) == [pc |-> "move", tx |-> t, nonce |-> n]

Goto(c, at) == caller' = [caller EXCEPT ![c] = at]

\* push of a transaction reads the tail, which has the nonce of the sender.
ReadTail(c, t) == Goto(c, pushing(t, AccountNonce(chain, From[t])))

Push(c, t) ==
  /\ caller[c] = idle
  /\ ReadTail(c, t)
  /\ UNCHANGED <<chain, pending, future, cm, mint, late>>

\* The keys of late transactions that stay in the pool.
StillLate(keys, p) == {k \in keys : \E t \in p.all : k = <<From[t], Nonce[t]>>}

toFuture(c, t) ==
  /\ \E s \in Set(future, t) : future' = s.pool
  /\ Goto(c, idle)
  /\ UNCHANGED <<chain, pending, cm, mint, late>>

toPending(c, t, n) ==
  \E points \in Points, elapsed \in BOOLEAN :
    LET r == PushOrReplace(pending, t, n, points, elapsed)
        stale == IF r.ok /\ c # CM /\ n # AccountNonce(chain, From[t])
                 THEN {<<From[t], Nonce[t]>>} ELSE {}
    IN  /\ pending' = r.pool
        /\ late' = late \union stale
        /\ Goto(c, IF r.ok THEN transiting(From[t], n) ELSE idle)
        /\ UNCHANGED <<chain, future, cm, mint>>

pushToPool(c) ==
  /\ caller[c].pc = "push"
  /\ LET t == caller[c].tx
         n == caller[c].nonce
     IN  \/ Nonce[t] > NonceUpperLimit(pending, From[t], n) /\ toFuture(c, t)
         \/ Nonce[t] <= NonceUpperLimit(pending, From[t], n) /\ toPending(c, t, n)

transit(c) ==
  /\ caller[c].pc = "transit"
  /\ LET t == PeekLowerNonce(future, caller[c].addr)
     IN  Goto(c, IF t = NoTx THEN idle ELSE moving(t, caller[c].nonce))
  /\ UNCHANGED <<chain, pending, future, cm, mint, late>>

\* A caller whose Del finds nothing to delete, or whose push fails, stops.
moveBetweenPool(c) ==
  /\ caller[c].pc = "move"
  /\ \E points \in Points, elapsed \in BOOLEAN :
       LET t == caller[c].tx
           n == caller[c].nonce
           fits == Nonce[t] <= NonceUpperLimit(pending, From[t], n)
           d == Del(future, t)
           r == PushOrReplace(pending, t, n, points, elapsed)
           moved == fits /\ d.deleted
       IN  /\ future' = IF fits THEN d.pool ELSE future
           /\ pending' = IF moved THEN r.pool ELSE pending
           /\ late' = IF moved /\ r.ok /\ c # CM /\ n # AccountNonce(chain, From[t])
                      THEN late \union {<<From[t], Nonce[t]>>} ELSE late
           /\ Goto(c, IF moved /\ r.ok THEN transiting(From[t], n) ELSE idle)
  /\ UNCHANGED <<chain, cm, mint>>

-----------------------------------------------------------------------------
(* rearrangeTransactions: when the main tail has changed, the pools forget *)
(* what the new blocks executed, then the reverted blocks, from the old    *)
(* tail down, give their transactions back.  The filter for transactions   *)
(* of the new blocks compares addresses in memory, so it finds none.       *)

\* Mutant: the first nonce of each sender.
addrNonce_First(txs) ==
  [a \in {From[txs[i]] : i \in DOMAIN txs} |->
     Min({Nonce[txs[i]] : i \in {j \in DOMAIN txs : From[txs[j]] = a}})]

\* The highest nonce of each sender.
addrNonce(txs) ==
  [a \in {From[txs[i]] : i \in DOMAIN txs} |->
     Max({Nonce[txs[i]] : i \in {j \in DOMAIN txs : From[txs[j]] = a}})]

\* The new main chain shares its first k blocks with the old one.
NewTail(k, c) ==
  /\ caller[CM] = idle /\ cm.del = EmptyMap /\ cm.push = <<>>
  /\ k <= Len(chain) /\ k <= Len(c) /\ SubSeq(c, 1, k) = SubSeq(chain, 1, k)
  /\ k < Len(chain) \/ k < Len(c)
  /\ MayRevert \/ k = Len(chain)
  /\ chain' = c
  /\ cm' = [del |-> addrNonce(TxsOf(SubSeq(c, k + 1, Len(c)))),
            push |-> TxsOf(Reverse(SubSeq(chain, k + 1, Len(chain))))]
  /\ UNCHANGED <<pending, future, caller, mint, late>>

DelByAddressNonce(a) ==
  /\ caller[CM] = idle /\ a \in DOMAIN cm.del
  /\ pending' = Prune(pending, a, cm.del[a])
  /\ future' = FuturePrune(future, a, cm.del[a])
  /\ late' = StillLate(late, pending')
  /\ cm' = [cm EXCEPT !.del = [x \in DOMAIN @ \ {a} |-> @[x]]]
  /\ Goto(CM, transiting(a, AccountNonce(chain, a)))
  /\ UNCHANGED <<chain, mint>>

PushReverted ==
  /\ caller[CM] = idle /\ cm.del = EmptyMap /\ cm.push # <<>>
  /\ ReadTail(CM, Head(cm.push))
  /\ cm' = [cm EXCEPT !.push = Tail(@)]
  /\ UNCHANGED <<chain, pending, future, mint, late>>

-----------------------------------------------------------------------------
(* makeBlock: the minter executes transactions on a child of the tail      *)
(* until its deadline.                                                     *)

notMinting == [pc |-> "idle", nonce |-> [a \in Account |-> 0], tx |-> NoTx, failed |-> {}]

MintStart ==
  /\ IsMiner /\ mint.pc = "idle"
  /\ pending' = ResetSelector(pending)
  /\ mint' = [mint EXCEPT !.pc = "next", !.nonce = [a \in Account |-> AccountNonce(chain, a)]]
  /\ UNCHANGED <<chain, future, caller, cm, late>>

MintNext ==
  /\ mint.pc = "next"
  /\ UNCHANGED <<chain, future, caller, cm, late>>
  /\ LET r == PoolNext(pending)
     IN  /\ pending' = r.pool
         /\ mint' = IF r.tx = NoTx THEN mint ELSE [mint EXCEPT !.pc = "exec", !.tx = r.tx]

\* The required nonce is set before the execution, which may fail.
MintExec ==
  /\ mint.pc = "exec"
  /\ UNCHANGED <<chain, future, caller, cm, late>>
  /\ LET a == From[mint.tx]
         acc == mint.nonce[a]
         back == [mint EXCEPT !.pc = "next", !.tx = NoTx]
     IN  \/ /\ acc + 1 # Nonce[mint.tx]
            /\ pending' = SetRequiredNonce(pending, a, acc + 1)
            /\ mint' = back
         \/ /\ acc + 1 = Nonce[mint.tx]
            /\ pending' = SetRequiredNonce(pending, a, acc + 2)
            /\ mint' \in {[back EXCEPT !.nonce[a] = @ + 1, !.failed = @ \ {a}],
                          [back EXCEPT !.failed = @ \union {a}],
                          notMinting}

MintEnd ==
  /\ mint.pc = "next"
  /\ mint' = notMinting
  /\ UNCHANGED <<chain, pending, future, caller, cm, late>>

-----------------------------------------------------------------------------
Init ==
  /\ chain = <<>>
  /\ pending = NewPendingTransactionPool
  /\ future = NewFutureTransactionPool
  /\ caller = [c \in Callers |-> idle]
  /\ cm = [del |-> EmptyMap, push |-> <<>>]
  /\ mint = notMinting
  /\ late = {}

Next ==
  \/ \E c \in Client, t \in Tx : Push(c, t)
  \/ \E c \in Callers : pushToPool(c) \/ transit(c) \/ moveBetweenPool(c)
  \/ \E c \in Chains, k \in 0..MaxBlocks : NewTail(k, c)
  \/ \E a \in Account : DelByAddressNonce(a)
  \/ PushReverted
  \/ MintStart \/ MintNext \/ MintExec \/ MintEnd

Spec == Init /\ [][Next]_vars

\* The minter goes on until its deadline.
FairSpec == Spec /\ WF_vars(MintNext \/ MintExec)

-----------------------------------------------------------------------------

\* The indexes of the pending pool agree: the transactions by hash are those of the
\* senders, which have one per nonce; payers and points hold the same ones, and their
\* totals are what these use and change, so no payer is held to transactions that are
\* gone; the selector has each sender once; no entry is empty.
PendingIndexed ==
  LET Sent(a) == {t \in pending.all : From[t] = a}
      Paid(a) == {t \in pending.all : PayerOrFrom[t] = a}
      senders == pending.incl \o pending.excl
  IN  /\ DOMAIN pending.from = {From[t] : t \in pending.all}
      /\ DOMAIN pending.point = DOMAIN pending.from
      /\ DOMAIN pending.payer = {PayerOrFrom[t] : t \in pending.all}
      /\ \A a \in DOMAIN pending.from :
           /\ pending.from[a].txs = Sent(a)
           /\ pending.point[a] = [total |-> Total(PointChange, Sent(a)), txs |-> Sent(a)]
      /\ \A a \in DOMAIN pending.payer :
           pending.payer[a] = [total |-> Total(Bandwidth, Paid(a)), txs |-> Paid(a)]
      /\ \A t, u \in pending.all : SameKey(t, u) => t = u
      /\ Members(senders) = DOMAIN pending.from
      /\ Len(senders) = Cardinality(DOMAIN pending.from)

\* The nonce bounds of a sender enclose its transactions and the upper one is exact, so
\* that peekFirst finds the lowest nonce, also after a reorganisation has brought back
\* nonces below those in the pool.
NonceBounds ==
  \A a \in DOMAIN pending.from :
    LET af == pending.from[a]
    IN  /\ \A t \in af.txs : af.minNonce <= Nonce[t] /\ Nonce[t] <= af.maxNonce
        /\ WithNonce(af.txs, af.maxNonce) # {}

\* Every transaction in a bucket is known by hash, under its sender, and no bucket is
\* empty: otherwise the loop of FutureTransactionPool.Prune would never end.
FutureIndexed ==
  \A a \in DOMAIN future.buckets :
    /\ Bucket(future, a) # {}
    /\ Bucket(future, a) \subseteq {t \in future.all : From[t] = a}
    /\ \A t, u \in Bucket(future, a) : SameString(t, u) => t = u

\* What the main chain has executed is not pending any more, unless the chain manager is
\* about to delete it or a client that had read an older tail brought it.
PendingAboveChain ==
  \A t \in pending.all :
    Nonce[t] <= AccountNonce(chain, From[t]) =>
      \/ From[t] \in DOMAIN cm.del /\ Nonce[t] <= cm.del[From[t]]
      \/ <<From[t], Nonce[t]>> \in late

\* t is pending, and the next transaction of its sender in the block being made.
Ready(t) == t \in pending.all /\ Nonce[t] = mint.nonce[From[t]] + 1

\* When Next tells makeBlock that there is no transaction, no pending transaction could
\* be executed in the block, except those of senders whose last execution failed.
NextExhaustive ==
  (mint.pc = "next" /\ PoolNext(pending).tx = NoTx)
    => \A t \in Tx : Ready(t) => From[t] \in mint.failed

\* While a block is being made, a sender with a transaction that could be executed gets
\* its turn before the deadline is over, or its transaction leaves the pool: the round-robin selector lets no
\* sender starve another one, even one whose execution fails again and again.
NoStarvation ==
  \A a \in Account :
    (mint.pc = "next" /\ a \notin mint.failed /\ \E t \in Tx : From[t] = a /\ Ready(t))
      ~> \/ mint.pc = "exec" /\ From[mint.tx] = a /\ Nonce[mint.tx] = mint.nonce[a] + 1
         \/ \A t \in Tx : From[t] = a => ~Ready(t)
         \/ mint.pc = "idle"

\* A future transaction does not stay behind: when nobody is working on the pools, none
\* has the nonce that the pending pool would take next.
TransitComplete ==
  (/\ \A c \in Callers : caller[c] = idle
   /\ cm.del = EmptyMap /\ cm.push = <<>>)
    => \A a \in DOMAIN future.buckets :
         Nonce[PeekLowerNonce(future, a)] > NonceUpperLimit(pending, a, AccountNonce(chain, a))

=============================================================================
