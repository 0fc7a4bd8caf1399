------------------------------- MODULE Ledger -------------------------------
(***************************************************************************)
(* The state a block executes on: accounts (core/state), candidates        *)
(* (consensus/dpos/state), the alias index and certificates, and the       *)
(* transactions of core/transaction that change them, run the way          *)
(* core/block.go runs them: the checks of ExecuteTransaction, Execute      *)
(* inside Atomic, then AcceptTransaction, which uses up the nonce and      *)
(* charges the points.  A block sets the time, runs transactions and pays  *)
(* the reward.  Amounts are unbounded here; in the code they are 128-bit   *)
(* and no sum exceeds the supply.                                          *)
(***************************************************************************)
EXTENDS Integers, FiniteSets, Functions

CONSTANTS
  Accounts,
  None,             \* no payer, no candidacy, no alias, no certificate
  Names,            \* alias names
  Hashes,           \* certificate hashes
  Amounts,          \* the values transactions carry
  TotalTokens,      \* the coins the genesis block brings into being
  Genesis,          \* account |-> the coins the genesis block distributes to it
  GenesisAlias,     \* account |-> the name of a first block producer, or None
  GenesisStake,     \* what a first block producer stakes
  Usage,            \* points a transaction costs
  MinCollateral,    \* AliasCollateralMinimum, CandidateCollateralMinimum
  VoteMaximum,
  RegenDuration,    \* PointsRegenerateDuration
  WaitDuration,     \* UnstakingWaitDuration
  InflationDiv,     \* 1 / InflationRate
  BlockLimit,       \* CPULimit, in transactions
  MaxTime,          \* bound: the last timestamp
  InflationRoundDown,
  Expirations,      \* the expiration times certificates carry
  Coinbases,        \* the accounts proposers let their rewards be paid to
  Sponsors,         \* the accounts that sign as payers of others' transactions
  SelfPay           \* TRUE: they also sign as payers of their own

Producers == {a \in Accounts : GenesisAlias[a] # None}

Time == 0..MaxTime

CandidateIDs == Accounts \X Nat

Account ==
  [balance : Nat, staking : Nat, unstaking : Nat, lastUnstaking : Time,
   points : Nat, lastPoints : Time, nonce : Nat, voted : SUBSET CandidateIDs,
   candidate : CandidateIDs \cup {None}, alias : Names \cup {None}, collateral : Nat]

Candidate == [addr : Accounts, collateral : Nat, votePower : Nat]

Certificate ==
  [issuer : Accounts, certified : Accounts, expiration : Nat, revocation : Time \cup {-1}]

ASSUME LedgerAssumption ==
  /\ IsFiniteSet(Accounts)
  /\ None \notin Accounts \cup Names
  /\ None \notin CandidateIDs /\ None \notin Certificate
  /\ Amounts \subseteq Nat
  /\ Genesis \in [Accounts -> Nat]
  /\ TotalTokens \in Nat
  /\ TotalTokens = SumFunction(Genesis)
  /\ GenesisAlias \in [Accounts -> Names \cup {None}]
  /\ \A a, b \in Producers : GenesisAlias[a] = GenesisAlias[b] => a = b
  /\ \A a \in Producers : Genesis[a] >= GenesisStake + 2 * MinCollateral
  /\ {GenesisStake, Usage, MinCollateral, VoteMaximum, BlockLimit, MaxTime} \subseteq Nat
  /\ {RegenDuration, WaitDuration, InflationDiv, InflationRoundDown} \subseteq Nat \ {0}
  /\ Sponsors \cup Coinbases \subseteq Accounts
  /\ Expirations \subseteq Nat
  /\ SelfPay \in BOOLEAN

VARIABLES
  acc,        \* address |-> account as it was last put
  cand,       \* candidate ID |-> candidate, a partial function
  owner,      \* alias name |-> the account that has it, or None
  issued,     \* address |-> hash |-> certificate or None
  received,   \* the same, in the account of the certified
  supply,
  timestamp,  \* of the block being executed
  usage,      \* cpuUsage of the block
  open        \* FALSE when the block has paid its reward

tables == <<cand, owner, issued, received>>
vars == <<acc, cand, owner, issued, received, supply, timestamp, usage, open>>

newAccount ==
  [balance |-> 0, staking |-> 0, unstaking |-> 0, lastUnstaking |-> 0,
   points |-> 0, lastPoints |-> 0, nonce |-> 0,
   voted |-> {}, candidate |-> None, alias |-> None, collateral |-> 0]

(***************************************************************************)
(* Reading an account brings it up to the block's time.                    *)
(***************************************************************************)
Least(m, n) == IF m < n THEN m ELSE n
Greatest(m, n) == IF m > n THEN m ELSE n

\* Points never exceed the stake here (PointsWithinStake): the code fails otherwise.
currentPoints(a, now) ==
  LET elapsed == now - a.lastPoints
      regen == (a.staking * elapsed) \div RegenDuration
  IN IF elapsed >= RegenDuration \/ regen >= a.staking - a.points THEN a.staking
     ELSE a.points + regen

updatePoints(a, now) ==
  IF a.lastPoints = now THEN a
  ELSE [a EXCEPT !.points = currentPoints(a, now), !.lastPoints = now]

\* Mutant: the date is cleared and the coins are not paid out.
updateUnstaking_Unpaid(a, now) ==
  IF a.lastUnstaking = 0 \/ now - a.lastUnstaking < WaitDuration THEN a
  ELSE [a EXCEPT !.lastUnstaking = 0]

updateUnstaking(a, now) ==
  IF a.lastUnstaking = 0 \/ now - a.lastUnstaking < WaitDuration THEN a
  ELSE [a EXCEPT !.balance = @ + a.unstaking, !.unstaking = 0, !.lastUnstaking = 0]

GetAccount(A, a) == updateUnstaking(updatePoints(A[a], timestamp), timestamp)

(***************************************************************************)
(* ExecuteTransaction and AcceptTransaction around Execute.                *)
(***************************************************************************)
Payers(from) == {None} \cup (Sponsors \ (IF SelfPay THEN {} ELSE {from}))

\* checkAvailablePoint: the sender's points count with the change the
\* transaction will bring, a payer's count as they are.
PointsAvailable(from, payer, change) ==
  IF payer = None THEN Greatest(0, GetAccount(acc, from).points + change) >= Usage
  ELSE GetAccount(acc, payer).points >= Usage

\* AcceptTransaction on the accounts A that Execute left: the copies of sender
\* and payer are read, changed and put, the payer's last.
Charged(A, from, payer) ==
  LET f == GetAccount(A, from)
      p == GetAccount(A, payer)
  IN IF payer = None
     THEN [A EXCEPT ![from] = [f EXCEPT !.nonce = @ + 1, !.points = @ - Usage]]
     ELSE [A EXCEPT ![from] = [f EXCEPT !.nonce = @ + 1],
                    ![payer] = [p EXCEPT !.points = @ - Usage]]

\* Subtracting the points must not underflow; when it does, the whole block is
\* given up.
Chargeable(A, from, payer) ==
  GetAccount(A, IF payer = None THEN from ELSE payer).points >= Usage

\* One transaction: ok tells whether Execute succeeds, A what it makes of the
\* accounts; a failed execution is rolled back and charged all the same.
Run(from, payer, change, ok, A) ==
  LET B == IF ok THEN A ELSE acc
  IN /\ open
     /\ usage < BlockLimit
     /\ PointsAvailable(from, payer, change)
     /\ Chargeable(B, from, payer)
     /\ acc' = Charged(B, from, payer)
     /\ usage' = usage + 1
     /\ UNCHANGED <<supply, timestamp, open>>

(***************************************************************************)
(* The Execute methods.  Each one reads the accounts it changes, and reads *)
(* the second only after the first is put.                                 *)
(***************************************************************************)
\* Mutant: the receiver is read before the sender is put.
TransferTx_ReadsEarly(from, payer, to, value) ==
  LET sender == GetAccount(acc, from)
      receiver == GetAccount(acc, to)
  IN /\ Run(from, payer, 0, sender.balance >= value,
            [acc EXCEPT ![from] = [sender EXCEPT !.balance = @ - value],
                        ![to] = [receiver EXCEPT !.balance = @ + value]])
     /\ UNCHANGED tables

TransferTx(from, payer, to, value) ==
  LET sender == GetAccount(acc, from)
      sent == [acc EXCEPT ![from] = [sender EXCEPT !.balance = @ - value]]
      receiver == GetAccount(sent, to)
  IN /\ Run(from, payer, 0, sender.balance >= value,
            [sent EXCEPT ![to] = [receiver EXCEPT !.balance = @ + value]])
     /\ UNCHANGED tables

\* AddVotePowerToCandidate or SubVotePowerToCandidate on each of ids, without
\* those that have quit.
ChangeVotePower(C, ids, amount) ==
  [c \in DOMAIN C |-> IF c \in ids THEN [C[c] EXCEPT !.votePower = @ + amount] ELSE C[c]]

\* SubVotePowerToCandidate fails where the power is less than the amount.
Subtractable(C, ids, amount) == \A c \in ids \cap DOMAIN C : C[c].votePower >= amount

\* Mutant: the balance is not looked at.
StakeTx_NoCheck(from, payer, amount) ==
  LET user == GetAccount(acc, from)
  IN /\ Run(from, payer, amount, TRUE,
            [acc EXCEPT ![from] = [user EXCEPT !.balance = @ - amount,
                                               !.staking = @ + amount,
                                               !.points = @ + amount]])
     /\ cand' = ChangeVotePower(cand, user.voted, amount)
     /\ UNCHANGED <<owner, issued, received>>

StakeTx(from, payer, amount) ==
  LET user == GetAccount(acc, from)
      ok == user.balance >= amount
  IN /\ Run(from, payer, amount, ok,
            [acc EXCEPT ![from] = [user EXCEPT !.balance = @ - amount,
                                               !.staking = @ + amount,
                                               !.points = @ + amount]])
     /\ cand' = IF ok THEN ChangeVotePower(cand, user.voted, amount) ELSE cand
     /\ UNCHANGED <<owner, issued, received>>

\* Mutant: the points are not cut to the remaining stake.
UnstakeTx_KeepsPoints(from, payer, amount) ==
  LET account == GetAccount(acc, from)
      ok == account.staking >= amount /\ Subtractable(cand, account.voted, amount)
  IN /\ Run(from, payer, -amount, ok,
            [acc EXCEPT ![from] = [account EXCEPT !.staking = @ - amount,
                                                  !.unstaking = @ + amount,
                                                  !.lastUnstaking = timestamp]])
     /\ cand' = IF ok THEN ChangeVotePower(cand, account.voted, -amount) ELSE cand
     /\ UNCHANGED <<owner, issued, received>>

UnstakeTx(from, payer, amount) ==
  LET account == GetAccount(acc, from)
      ok == account.staking >= amount /\ Subtractable(cand, account.voted, amount)
  IN /\ Run(from, payer, -amount, ok,
            [acc EXCEPT ![from] = [account EXCEPT !.staking = @ - amount,
                                                  !.unstaking = @ + amount,
                                                  !.lastUnstaking = timestamp,
                                                  !.points = Least(@, account.staking - amount)]])
     /\ cand' = IF ok THEN ChangeVotePower(cand, account.voted, -amount) ELSE cand
     /\ UNCHANGED <<owner, issued, received>>

\* Mutant: the old votes are not taken back.
VoteTx_KeepsOld(from, payer, candidateIDs) ==
  LET voter == GetAccount(acc, from)
      ok == Cardinality(candidateIDs) <= VoteMaximum /\ candidateIDs \subseteq DOMAIN cand
  IN /\ Run(from, payer, 0, ok, [acc EXCEPT ![from] = [voter EXCEPT !.voted = candidateIDs]])
     /\ cand' = IF ok THEN ChangeVotePower(cand, candidateIDs, voter.staking) ELSE cand
     /\ UNCHANGED <<owner, issued, received>>

\* The new votes count first; the old ones, possibly for the same candidates,
\* are taken back after.
VoteTx(from, payer, candidateIDs) ==
  LET voter == GetAccount(acc, from)
      added == ChangeVotePower(cand, candidateIDs, voter.staking)
      ok == /\ Cardinality(candidateIDs) <= VoteMaximum
            /\ candidateIDs \subseteq DOMAIN cand
            /\ Subtractable(added, voter.voted, voter.staking)
  IN /\ Run(from, payer, 0, ok, [acc EXCEPT ![from] = [voter EXCEPT !.voted = candidateIDs]])
     /\ cand' = IF ok THEN ChangeVotePower(added, voter.voted, -voter.staking) ELSE cand
     /\ UNCHANGED <<owner, issued, received>>

\* A candidate's ID is the hash of the transaction that made it one.
txHash(from) == <<from, acc[from].nonce + 1>>

BecomeCandidateTx(from, payer, collateral) ==
  LET account == GetAccount(acc, from)
      ok == /\ account.candidate = None
            /\ account.alias # None
            /\ collateral >= MinCollateral
            /\ account.balance >= collateral
      new == [addr |-> from, collateral |-> collateral, votePower |-> 0]
  IN /\ Run(from, payer, 0, ok, [acc EXCEPT ![from] = [account EXCEPT !.balance = @ - collateral,
                                                                      !.candidate = txHash(from)]])
     /\ cand' = IF ok THEN [c \in DOMAIN cand \cup {txHash(from)} |->
                              IF c = txHash(from) THEN new ELSE cand[c]]
                ELSE cand
     /\ UNCHANGED <<owner, issued, received>>

\* Mutant: the candidate is deleted and its ID stays in the account.
QuitCandidateTx_KeepsID(from, payer) ==
  LET account == GetAccount(acc, from)
      ok == account.candidate \in DOMAIN cand
  IN /\ Run(from, payer, 0, ok,
            [acc EXCEPT ![from] = [account EXCEPT !.balance = @ + cand[account.candidate].collateral]])
     /\ cand' = IF ok THEN Restrict(cand, DOMAIN cand \ {account.candidate}) ELSE cand
     /\ UNCHANGED <<owner, issued, received>>

QuitCandidateTx(from, payer) ==
  LET account == GetAccount(acc, from)
      ok == account.candidate # None /\ account.candidate \in DOMAIN cand
  IN /\ Run(from, payer, 0, ok,
            [acc EXCEPT ![from] = [account EXCEPT !.balance = @ + cand[account.candidate].collateral,
                                                  !.candidate = None]])
     /\ cand' = IF ok THEN Restrict(cand, DOMAIN cand \ {account.candidate}) ELSE cand
     /\ UNCHANGED <<owner, issued, received>>

RegisterAliasTx(from, payer, name, collateral) ==
  LET account == GetAccount(acc, from)
      ok == /\ collateral >= MinCollateral
            /\ account.alias = None
            /\ owner[name] = None
            /\ account.balance >= collateral
  IN /\ Run(from, payer, 0, ok, [acc EXCEPT ![from] = [account EXCEPT !.balance = @ - collateral,
                                                                      !.alias = name,
                                                                      !.collateral = collateral]])
     /\ owner' = IF ok THEN [owner EXCEPT ![name] = from] ELSE owner
     /\ UNCHANGED <<cand, issued, received>>

\* Mutant: the index still names the account.
DeregisterAliasTx_KeepsIndex(from, payer) ==
  LET account == GetAccount(acc, from)
      ok == account.alias # None /\ owner[account.alias] = from
  IN /\ Run(from, payer, 0, ok,
            [acc EXCEPT ![from] = [account EXCEPT !.balance = @ + account.collateral,
                                                  !.alias = None, !.collateral = 0]])
     /\ UNCHANGED tables

DeregisterAliasTx(from, payer) ==
  LET account == GetAccount(acc, from)
      ok == account.alias # None /\ owner[account.alias] = from
  IN /\ Run(from, payer, 0, ok,
            [acc EXCEPT ![from] = [account EXCEPT !.balance = @ + account.collateral,
                                                  !.alias = None, !.collateral = 0]])
     /\ owner' = IF ok THEN [owner EXCEPT ![account.alias] = None] ELSE owner
     /\ UNCHANGED <<cand, issued, received>>

\* Execute reads and puts issuer and certified: both are brought up to date.
Touched(a, b) ==
  LET once == [acc EXCEPT ![a] = GetAccount(acc, a)]
  IN [once EXCEPT ![b] = GetAccount(once, b)]

AddCertificationTx(from, payer, certified, hash, expiration) ==
  LET ok == received[certified][hash] = None /\ issued[from][hash] = None
      cert == [issuer |-> from, certified |-> certified,
               expiration |-> expiration, revocation |-> -1]
  IN /\ Run(from, payer, 0, ok, Touched(certified, from))
     /\ received' = IF ok THEN [received EXCEPT ![certified][hash] = cert] ELSE received
     /\ issued' = IF ok THEN [issued EXCEPT ![from][hash] = cert] ELSE issued
     /\ UNCHANGED <<cand, owner>>

\* Mutant: only the issuer's copy is revoked.
RevokeCertificationTx_OneCopy(from, payer, hash) ==
  LET cert == issued[from][hash]
      ok == /\ cert # None
            /\ cert.issuer = from
            /\ cert.revocation = -1
            /\ cert.expiration >= timestamp
  IN /\ Run(from, payer, 0, ok, Touched(from, cert.certified))
     /\ issued' = IF ok THEN [issued EXCEPT ![from][hash].revocation = timestamp] ELSE issued
     /\ UNCHANGED <<cand, owner, received>>

RevokeCertificationTx(from, payer, hash) ==
  LET cert == issued[from][hash]
      ok == /\ cert # None
            /\ cert.issuer = from
            /\ cert.revocation = -1
            /\ cert.expiration >= timestamp
      revoked == [cert EXCEPT !.revocation = timestamp]
  IN /\ Run(from, payer, 0, ok, Touched(from, cert.certified))
     /\ issued' = IF ok THEN [issued EXCEPT ![from][hash] = revoked] ELSE issued
     /\ received' = IF ok THEN [received EXCEPT ![cert.certified][hash] = revoked] ELSE received
     /\ UNCHANGED <<cand, owner>>

(***************************************************************************)
(* Blocks.                                                                 *)
(***************************************************************************)
calcMintReward(s) == ((s \div InflationDiv) \div InflationRoundDown) * InflationRoundDown

PayReward(coinbase) ==
  LET reward == calcMintReward(supply)
  IN /\ open
     /\ acc' = [acc EXCEPT ![coinbase] = [GetAccount(acc, coinbase) EXCEPT !.balance = @ + reward]]
     /\ supply' = supply + reward
     /\ open' = FALSE
     /\ UNCHANGED <<cand, owner, issued, received, timestamp, usage>>

\* InitChild: a later timestamp and no usage yet.
InitChild(ts) ==
  /\ ~open
  /\ ts > timestamp
  /\ timestamp' = ts
  /\ usage' = 0
  /\ open' = TRUE
  /\ UNCHANGED <<acc, cand, owner, issued, received, supply>>

\* The genesis block, executed at time 0 and price 0: coins for every account;
\* each block producer stakes, registers its alias, becomes a candidate and
\* votes for itself, with nonces 1 to 4.
GenesisAccount(a) ==
  IF a \in Producers
  THEN [newAccount EXCEPT !.balance = Genesis[a] - GenesisStake - 2 * MinCollateral,
                          !.staking = GenesisStake, !.points = GenesisStake, !.nonce = 4,
                          !.alias = GenesisAlias[a], !.collateral = MinCollateral,
                          !.candidate = <<a, 3>>, !.voted = {<<a, 3>>}]
  ELSE [newAccount EXCEPT !.balance = Genesis[a]]

Init ==
  /\ acc = [a \in Accounts |-> GenesisAccount(a)]
  /\ cand = [c \in Producers \X {3} |->
               [addr |-> c[1], collateral |-> MinCollateral, votePower |-> GenesisStake]]
  /\ owner = [n \in Names |-> IF \E a \in Producers : GenesisAlias[a] = n
                              THEN CHOOSE a \in Producers : GenesisAlias[a] = n ELSE None]
  /\ issued = [a \in Accounts |-> [h \in Hashes |-> None]]
  /\ received = [a \in Accounts |-> [h \in Hashes |-> None]]
  /\ supply = TotalTokens
  /\ timestamp = 0
  /\ usage = 0
  /\ open = FALSE

Transact(f, p) ==
  \/ \E v \in Amounts :
       \/ \E to \in Accounts : TransferTx(f, p, to, v)
       \/ StakeTx(f, p, v)
       \/ UnstakeTx(f, p, v)
       \/ BecomeCandidateTx(f, p, v)
       \/ \E n \in Names : RegisterAliasTx(f, p, n, v)
  \/ \E ids \in SUBSET (DOMAIN cand \cup UNION {acc[a].voted : a \in Accounts}) : VoteTx(f, p, ids)
  \/ QuitCandidateTx(f, p)
  \/ DeregisterAliasTx(f, p)
  \/ \E h \in Hashes :
       \/ \E to \in Accounts, t \in Expirations : AddCertificationTx(f, p, to, h, t)
       \/ RevokeCertificationTx(f, p, h)

Next ==
  \/ \E f \in Accounts : \E p \in Payers(f) : Transact(f, p)
  \/ \E a \in Coinbases : PayReward(a)
  \/ \E t \in Time : InitChild(t)

Spec == Init /\ [][Next]_vars

(***************************************************************************)
(* Properties.                                                             *)
(***************************************************************************)
\* Accounts, candidates, the alias index and the certificates have the types
\* of their protocol buffers; no balance, stake or vote power is negative.
TypeOK ==
  /\ acc \in [Accounts -> Account]
  /\ DOMAIN cand \subseteq CandidateIDs
  /\ cand \in [DOMAIN cand -> Candidate]
  /\ owner \in [Names -> Accounts \cup {None}]
  /\ issued \in [Accounts -> [Hashes -> Certificate \cup {None}]]
  /\ received \in [Accounts -> [Hashes -> Certificate \cup {None}]]
  /\ supply \in Nat
  /\ timestamp \in Time
  /\ usage \in 0..BlockLimit
  /\ open \in BOOLEAN

\* What an account owns: its balance, its stake, the stake on its way back and
\* the collateral of its alias.
Holdings(account) ==
  account.balance + account.staking + account.unstaking + account.collateral

\* No transaction creates or destroys coins, whoever pays and whichever way it
\* fails; only PayReward does, by what it adds to the supply.
Conservation ==
  supply = SumFunction([a \in Accounts |-> Holdings(acc[a])])
           + SumFunction([c \in DOMAIN cand |-> cand[c].collateral])

\* A candidate's vote power is the sum of the stakes of those who vote for it,
\* through stakes, unstakes, revotes and candidates that quit and return.
VotePowerIsStake ==
  \A c \in DOMAIN cand :
    cand[c].votePower =
      SumFunctionOnSet([a \in Accounts |-> acc[a].staking], {a \in Accounts : c \in acc[a].voted})

\* Points never exceed the stake.  currentPoints subtracts them from it, and
\* GetAccount fails for good on an account where that underflows.
PointsWithinStake == \A a \in Accounts : acc[a].points <= acc[a].staking

\* Coins on their way back carry the time they left, so updateUnstaking will
\* return them; lastUnstaking 0 means that there are none.
UnstakingDated ==
  \A a \in Accounts : acc[a].unstaking > 0 => acc[a].lastUnstaking > 0

\* The accounts' candidate IDs and the candidate state are each other's inverse.
CandidateIndex ==
  /\ \A a \in Accounts :
       acc[a].candidate # None =>
         /\ acc[a].candidate \in DOMAIN cand
         /\ cand[acc[a].candidate].addr = a
  /\ \A c \in DOMAIN cand : acc[cand[c].addr].candidate = c

\* The alias index names exactly the account that has the alias.
AliasIndex ==
  \A a \in Accounts, n \in Names : owner[n] = a <=> acc[a].alias = n

\* The issuer's and the certified's copy of a certificate are the same, also
\* after a revocation, which changes two accounts.
CertCopiesAgree ==
  \A a \in Accounts, h \in Hashes :
    /\ issued[a][h] # None =>
         /\ issued[a][h].issuer = a
         /\ received[issued[a][h].certified][h] = issued[a][h]
    /\ received[a][h] # None =>
         /\ received[a][h].certified = a
         /\ issued[received[a][h].issuer][h] = received[a][h]
=============================================================================
