----------------------------- MODULE PendingPool -----------------------------
(***************************************************************************)
(* The pending transaction pool (core/transaction_pending.go), as functions*)
(* on its state: every operation runs under the lock of the pool.          *)
(*                                                                         *)
(* The pool keeps each transaction in four indexes: by hash, by sender and *)
(* nonce, by payer (with the bandwidth it will use) and by sender again    *)
(* (with the points it will gain or lose), and a round-robin list of the   *)
(* senders for the minter.                                                 *)
(***************************************************************************)
EXTENDS Transactions

CONSTANT MaxPendingByAccount

ASSUME PendingAssumption == MaxPendingByAccount \in Nat \ {0}

-----------------------------------------------------------------------------
(* AccountFrom: the transactions of a sender by nonce, between two bounds. *)

newAccountFrom == [minNonce |-> 0, maxNonce |-> 0, txs |-> {}]

get(af, n) == TheTx(WithNonce(af.txs, n))

isAcceptableNonce(af, n, accNonce) ==
  IF af.txs = {} THEN accNonce + 1 = n
  ELSE accNonce < n /\ n <= accNonce + MaxPendingByAccount /\ n <= af.maxNonce + 1

\* Mutant: only the upper bound follows.
set_KeepsMin(af, t) ==
  [minNonce |-> IF af.txs = {} THEN Nonce[t] ELSE af.minNonce,
   maxNonce |-> IF af.txs = {} \/ af.maxNonce < Nonce[t] THEN Nonce[t] ELSE af.maxNonce,
   txs |-> (af.txs \ WithNonce(af.txs, Nonce[t])) \union {t}]

set(af, t) ==
  [minNonce |-> IF af.txs = {} \/ af.minNonce > Nonce[t] THEN Nonce[t] ELSE af.minNonce,
   maxNonce |-> IF af.txs = {} \/ af.maxNonce < Nonce[t] THEN Nonce[t] ELSE af.maxNonce,
   txs |-> (af.txs \ WithNonce(af.txs, Nonce[t])) \union {t}]

\* Removes a nonce that is there.
remove(af, n) ==
  [minNonce |-> IF af.minNonce = n THEN n + 1 ELSE af.minNonce,
   maxNonce |-> IF af.maxNonce = n THEN n - 1 ELSE af.maxNonce,
   txs |-> af.txs \ WithNonce(af.txs, n)]

\* Scans from the lower to the upper bound.
peekFirst(af) ==
  LET seen == {t \in af.txs : Nonce[t] \in af.minNonce..af.maxNonce}
  IN  TheTx({t \in seen : \A u \in seen : Nonce[t] <= Nonce[u]})

-----------------------------------------------------------------------------
(* AccountPayer and AccountPoint: transactions under the key (sender,      *)
(* nonce) with a running total of a weight of them, W.                     *)

newAccount == [total |-> 0, txs |-> {}]

Total(W, S) == SumFunctionOnSet(W, S)

Enter(W, acc, t) ==
  LET old == {u \in acc.txs : SameKey(u, t)}
  IN  [total |-> acc.total - Total(W, old) + W[t], txs |-> (acc.txs \ old) \union {t}]

\* The transactions of R leave the accounts that Of names.
Leave(W, map, Of, R) ==
  [a \in DOMAIN map |->
     LET old == {u \in map[a].txs : \E t \in R : Of[t] = a /\ SameKey(u, t)}
     IN  [total |-> map[a].total - Total(W, old), txs |-> map[a].txs \ old]]

-----------------------------------------------------------------------------
(* The round-robin list of senders: included and excluded ones.            *)

\* Mutant: an excluded sender stays excluded.
Include_OnlyNew(p, a) ==
  [p EXCEPT !.incl = IF a \in Members(p.incl \o p.excl) THEN @ ELSE Append(@, a)]

Include(p, a) ==
  [p EXCEPT !.incl = IF a \in Members(p.incl) THEN @ ELSE Append(@, a),
            !.excl = RemoveFirst(@, a)]

Remove(p, a) == [p EXCEPT !.incl = RemoveFirst(@, a), !.excl = RemoveFirst(@, a)]

-----------------------------------------------------------------------------
(* The pool.                                                               *)

NewPendingTransactionPool ==
  [all |-> {}, from |-> EmptyMap, payer |-> EmptyMap, point |-> EmptyMap,
   incl |-> <<>>, excl |-> <<>>, nonceCache |-> EmptyMap]

\* The largest nonce that need not wait in the future pool.
NonceUpperLimit(p, a, accNonce) ==
  IF a \notin DOMAIN p.from THEN accNonce + 1
  ELSE Min({accNonce + MaxPendingByAccount, p.from[a].maxNonce + 1})

AtLeastZero(n) == IF n < 0 THEN 0 ELSE n

\* Can the payer, who has this many points, pay for t and for all that it pays for
\* in the pool?  The point changes of its own transactions count.
EnoughPoints(p, t, points) ==
  LET payer == PayerOrFrom[t]
      usage == Enter(Bandwidth, At(p.payer, payer, newAccount), t).total
      modified == AtLeastZero(usage - At(p.point, payer, newAccount).total)
      avail == IF payer # From[t] THEN points ELSE AtLeastZero(points + PointChange[t])
  IN  modified <= avail

\* push and replace under the checks of PushOrReplace; replacing waits for
\* AllowReplacePendingDuration to have elapsed since the old one came.
CanPush(p, t, accNonce, points) ==
  /\ t \notin p.all
  /\ get(At(p.from, From[t], newAccountFrom), Nonce[t]) = NoTx
  /\ isAcceptableNonce(At(p.from, From[t], newAccountFrom), Nonce[t], accNonce)
  /\ EnoughPoints(p, t, points)

CanReplace(p, t, elapsed, points) ==
  /\ t \notin p.all
  /\ get(At(p.from, From[t], newAccountFrom), Nonce[t]) # NoTx
  /\ elapsed
  /\ EnoughPoints(p, t, points)

push(p, t) ==
  Include([p EXCEPT !.all = @ \union {t},
                    !.from = Put(@, From[t], set(At(@, From[t], newAccountFrom), t)),
                    !.payer = Put(@, PayerOrFrom[t],
                                  Enter(Bandwidth, At(@, PayerOrFrom[t], newAccount), t)),
                    !.point = Put(@, From[t],
                                  Enter(PointChange, At(@, From[t], newAccount), t))],
          From[t])

\* Mutant: the new payer's account is charged, the old one's is not relieved.
replace_KeepsPayer(p, t) ==
  LET old == get(p.from[From[t]], Nonce[t])
      point == Leave(PointChange, p.point, From, {old})
  IN  [p EXCEPT !.all = (@ \ {old}) \union {t},
                !.from = Put(@, From[t], set(remove(@[From[t]], Nonce[t]), t)),
                !.payer = Put(@, PayerOrFrom[t],
                              Enter(Bandwidth, At(@, PayerOrFrom[t], newAccount), t)),
                !.point = Put(point, From[t], Enter(PointChange, point[From[t]], t))]

replace(p, t) ==
  LET old == get(p.from[From[t]], Nonce[t])
      payer == Leave(Bandwidth, p.payer, PayerOrFrom, {old})
      point == Leave(PointChange, p.point, From, {old})
  IN  [p EXCEPT !.all = (@ \ {old}) \union {t},
                !.from = Put(@, From[t], set(remove(@[From[t]], Nonce[t]), t)),
                !.payer = DropEmpty(Put(payer, PayerOrFrom[t],
                             Enter(Bandwidth, At(payer, PayerOrFrom[t], newAccount), t))),
                !.point = Put(point, From[t], Enter(PointChange, point[From[t]], t))]

PushOrReplace(p, t, accNonce, points, elapsed) ==
  IF CanPush(p, t, accNonce, points) THEN [ok |-> TRUE, pool |-> push(p, t)]
  ELSE IF CanReplace(p, t, elapsed, points) THEN [ok |-> TRUE, pool |-> replace(p, t)]
  ELSE [ok |-> FALSE, pool |-> p]

\* Removes, from the lowest nonce up, what is not above the limit.  The lower bound
\* follows as long as the removed nonces are consecutive.
Prune(p, a, nonceLowerLimit) ==
  IF a \notin DOMAIN p.from THEN p
  ELSE LET af == p.from[a]
           gone == {t \in af.txs : /\ Nonce[t] \in af.minNonce..af.maxNonce
                                   /\ Nonce[t] <= nonceLowerLimit}
           rest == [af EXCEPT !.minNonce = Min({n \in af.minNonce..(af.maxNonce + 1) :
                                                  WithNonce(gone, n) = {}}),
                              !.txs = @ \ gone]
           q == [p EXCEPT !.all = @ \ gone,
                          !.from = DropEmpty(Put(@, a, rest)),
                          !.payer = DropEmpty(Leave(Bandwidth, @, PayerOrFrom, gone)),
                          !.point = DropEmpty(Leave(PointChange, @, From, gone))]
       IN  IF rest.txs = {} THEN Remove(q, a) ELSE q

\* Mutant: the sender whose turn it was stays in front.
PoolNext_StaysInFront(p) ==
  LET stops(a) == \/ a \notin DOMAIN p.from
                  \/ a \notin DOMAIN p.nonceCache
                  \/ get(p.from[a], p.nonceCache[a]) # NoTx
      turns == {i \in DOMAIN p.incl : stops(p.incl[i])}
      k == IF turns = {} THEN Len(p.incl) + 1 ELSE Min(turns)
      a == p.incl[k]
      excl == p.excl \o SubSeq(p.incl, 1, k - 1)
  IN  IF turns = {} THEN [tx |-> NoTx, pool |-> [p EXCEPT !.incl = <<>>, !.excl = excl]]
      ELSE [tx |-> IF a \notin DOMAIN p.from THEN NoTx
                   ELSE IF a \in DOMAIN p.nonceCache THEN get(p.from[a], p.nonceCache[a])
                   ELSE peekFirst(p.from[a]),
            pool |-> [p EXCEPT !.incl = SubSeq(@, k, Len(@)), !.excl = excl]]

\* Next: takes the senders in turn, and excludes those whose required nonce is not there.
PoolNext(p) ==
  LET stops(a) == \/ a \notin DOMAIN p.from
                  \/ a \notin DOMAIN p.nonceCache
                  \/ get(p.from[a], p.nonceCache[a]) # NoTx
      turns == {i \in DOMAIN p.incl : stops(p.incl[i])}
      k == IF turns = {} THEN Len(p.incl) + 1 ELSE Min(turns)
      a == p.incl[k]
      excl == p.excl \o SubSeq(p.incl, 1, k - 1)
  IN  IF turns = {} THEN [tx |-> NoTx, pool |-> [p EXCEPT !.incl = <<>>, !.excl = excl]]
      ELSE [tx |-> IF a \notin DOMAIN p.from THEN NoTx
                   ELSE IF a \in DOMAIN p.nonceCache THEN get(p.from[a], p.nonceCache[a])
                   ELSE peekFirst(p.from[a]),
            pool |-> [p EXCEPT !.incl = Append(SubSeq(@, k + 1, Len(@)), a), !.excl = excl]]

SetRequiredNonce(p, a, n) == [p EXCEPT !.nonceCache = Put(@, a, n)]

ResetSelector(p) ==
  [p EXCEPT !.incl = @ \o p.excl, !.excl = <<>>, !.nonceCache = EmptyMap]

=============================================================================
