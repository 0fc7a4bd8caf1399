---------------------------- MODULE LedgerProofs ----------------------------
(***************************************************************************)
(* The invariants of Ledger, for every finite set of accounts and every    *)
(* sequence of blocks.  First those that need no sum: types, points within *)
(* the stake, dated unstaking, and the three double entries.  Then the two *)
(* that are about sums: coins are conserved, and vote power is the stake   *)
(* behind it.                                                              *)
(*                                                                         *)
(* Every transaction goes through Run, so either argument has three        *)
(* layers: what reading an account does (GetSound, GetCoins), what running *)
(* a transaction does to what Execute left (RunSound, RunMoves), and what  *)
(* each Execute leaves.                                                    *)
(***************************************************************************)
EXTENDS Ledger, CollectionProofs, TLAPS

\* An account that can be read: its type, and what currentPoints and
\* updateUnstaking rely on.
Sound(r, ts) ==
  /\ r \in Account
  /\ r.points <= r.staking
  /\ r.lastPoints <= ts
  /\ r.unstaking > 0 => r.lastUnstaking > 0

SoundAll(A, ts) == A \in [Accounts -> Account] /\ \A a \in Accounts : Sound(A[a], ts)

\* What the indexes know of an account.
SameKeys(r, s) == r.candidate = s.candidate /\ r.alias = s.alias

\* Division of naturals, by Z3.
LEMMA DivNat ==
  ASSUME NEW n \in Nat, NEW d \in Nat \ {0}
  PROVE  n \div d \in Nat
  OBVIOUS

\* Reading an account leaves it sound and changes neither its stake nor its keys:
\* updatePoints and updateUnstaking.
LEMMA GetSound ==
  ASSUME NEW A, NEW a \in Accounts, timestamp \in Time, SoundAll(A, timestamp)
  PROVE  LET r == GetAccount(A, a)
         IN /\ Sound(r, timestamp)
            /\ r.staking = A[a].staking /\ r.nonce = A[a].nonce
            /\ r.collateral = A[a].collateral /\ r.voted = A[a].voted
            /\ SameKeys(r, A[a])
<1> DEFINE x == A[a]
           u == updatePoints(x, timestamp)
           r == updateUnstaking(u, timestamp)
           regen == (x.staking * (timestamp - x.lastPoints)) \div RegenDuration
<1>1. Sound(x, timestamp) /\ x \in Account
  BY DEF SoundAll
<1>2. regen \in Nat
  <2>1. x.staking * (timestamp - x.lastPoints) \in Nat
    <3>1. x.staking \in Nat /\ timestamp - x.lastPoints \in Nat
      BY <1>1, LedgerAssumption DEF Sound, Account, Time
    <3> QED BY <3>1
  <2>2. RegenDuration \in Nat \ {0}
    BY LedgerAssumption
  <2> QED BY <2>1, <2>2, DivNat
<1>3. u = [x EXCEPT !.points = u.points, !.lastPoints = timestamp]
  BY ZenonT(60), <1>1 DEF updatePoints, Account
<1>4. u.points \in Nat /\ u.points <= x.staking
  <2> HIDE DEF x
  <2>1. currentPoints(x, timestamp) = x.staking
        \/ (currentPoints(x, timestamp) = x.points + regen /\ ~(regen >= x.staking - x.points))
    BY DEF currentPoints
  <2>2. x.points \in Nat /\ x.staking \in Nat /\ x.points <= x.staking
    BY <1>1 DEF Sound, Account
  <2>3. currentPoints(x, timestamp) \in Nat /\ currentPoints(x, timestamp) <= x.staking
    <3> HIDE DEF regen
    <3> QED BY <1>2, <2>1, <2>2
  <2> QED BY <1>1, <2>2, <2>3 DEF updatePoints, Account
<1>5. Sound(u, timestamp) /\ u.staking = x.staking /\ u.nonce = x.nonce
      /\ u.collateral = x.collateral /\ u.voted = x.voted /\ SameKeys(u, x)
  <2> HIDE DEF u, x
  <2>1. timestamp \in Time /\ timestamp <= timestamp
    BY LedgerAssumption DEF Time
  <2> QED BY ZenonT(60), <1>1, <1>3, <1>4, <2>1 DEF Sound, Account, SameKeys
<1>6. r = u \/ r = [u EXCEPT !.balance = @ + u.unstaking, !.unstaking = 0, !.lastUnstaking = 0]
  BY DEF updateUnstaking
<1>7. 0 \in Time
  BY LedgerAssumption DEF Time
<1>8. Sound(r, timestamp) /\ r.staking = x.staking /\ r.nonce = x.nonce
      /\ r.collateral = x.collateral /\ r.voted = x.voted /\ SameKeys(r, x)
  <2> HIDE DEF r, u, x
  <2>1. CASE r = u
    BY <1>5, <2>1
  <2>2. CASE r = [u EXCEPT !.balance = @ + u.unstaking, !.unstaking = 0, !.lastUnstaking = 0]
    <3>1. u \in Account /\ u.balance + u.unstaking \in Nat
      BY <1>5 DEF Sound, Account
    <3>2. r \in Account /\ r.unstaking = 0 /\ r.points = u.points /\ r.staking = u.staking
          /\ r.lastPoints = u.lastPoints /\ r.nonce = u.nonce /\ r.collateral = u.collateral
          /\ r.voted = u.voted /\ SameKeys(r, u)
      BY ZenonT(60), <2>2, <3>1, <1>7 DEF Account, SameKeys
    <3> QED BY <1>5, <3>2 DEF Sound, SameKeys
  <2> QED BY <1>6, <2>1, <2>2
<1> QED BY <1>8 DEF GetAccount

\* Putting a sound account leaves all of them sound.
LEMMA PutSound ==
  ASSUME NEW A, NEW a \in Accounts, NEW r, NEW ts, SoundAll(A, ts), Sound(r, ts)
  PROVE  SoundAll([A EXCEPT ![a] = r], ts)
<1> DEFINE B == [A EXCEPT ![a] = r]
<1>1. B \in [Accounts -> Account] /\ B[a] = r /\ \A b \in Accounts \ {a} : B[b] = A[b]
  BY DEF SoundAll, Sound
<1> HIDE DEF B
<1>2. SoundAll(B, ts)
  BY <1>1 DEF SoundAll
<1> QED BY <1>2 DEF B

\* Running a transaction, charged and perhaps rolled back, leaves the accounts sound
\* and their keys as Execute left them: ExecuteTransaction, AcceptTransaction.
LEMMA RunSound ==
  ASSUME NEW from \in Accounts, NEW payer \in Accounts \cup {None}, NEW change,
         NEW ok \in BOOLEAN, NEW A, timestamp \in Time, usage \in 0..BlockLimit,
         SoundAll(acc, timestamp), ok => SoundAll(A, timestamp),
         Run(from, payer, change, ok, A)
  PROVE  /\ SoundAll(acc', timestamp)
         /\ \A a \in Accounts : SameKeys(acc'[a], IF ok THEN A[a] ELSE acc[a])
         /\ usage' \in 0..BlockLimit /\ open /\ open' = open
         /\ timestamp' = timestamp /\ supply' = supply
<1> DEFINE B == IF ok THEN A ELSE acc
           f == GetAccount(B, from)
           p == GetAccount(B, payer)
           f1 == [f EXCEPT !.nonce = @ + 1]
           f2 == [f EXCEPT !.nonce = @ + 1, !.points = @ - Usage]
           p1 == [p EXCEPT !.points = @ - Usage]
<1>1. SoundAll(B, timestamp) /\ \A a \in Accounts : B[a] = IF ok THEN A[a] ELSE acc[a]
  OBVIOUS
<1>2. /\ acc' = Charged(B, from, payer) /\ Chargeable(B, from, payer)
      /\ usage' \in 0..BlockLimit /\ open /\ open' = open
      /\ timestamp' = timestamp /\ supply' = supply
  BY LedgerAssumption DEF Run
<1>3. Usage \in Nat
  BY LedgerAssumption
<1>4. Sound(f, timestamp) /\ SameKeys(f, B[from])
  <2> HIDE DEF B
  <2> QED BY <1>1, GetSound
<1>5. CASE payer = None
  <2>1. acc' = [B EXCEPT ![from] = f2] /\ f.points >= Usage
    BY <1>2, <1>5 DEF Charged, Chargeable
  <2>2. Sound(f2, timestamp) /\ SameKeys(f2, f)
    <3> HIDE DEF f
    <3>1. f \in Account /\ f.nonce + 1 \in Nat /\ f.points - Usage \in Nat
          /\ f.points - Usage <= f.staking
      BY <1>3, <1>4, <2>1 DEF Sound, Account
    <3>2. f2 \in Account /\ f2.points = f.points - Usage /\ f2.staking = f.staking
          /\ f2.unstaking = f.unstaking /\ f2.lastUnstaking = f.lastUnstaking
          /\ f2.lastPoints = f.lastPoints /\ SameKeys(f2, f)
      BY ZenonT(60), <3>1 DEF Account, SameKeys
    <3> QED BY <1>4, <3>1, <3>2 DEF Sound
  <2>3. SoundAll(acc', timestamp) /\ \A a \in Accounts : SameKeys(acc'[a], B[a])
    <3> HIDE DEF f2, f, B
    <3>1. SoundAll([B EXCEPT ![from] = f2], timestamp)
      BY <1>1, <2>2, PutSound
    <3> QED BY <1>1, <1>4, <2>1, <2>2, <3>1 DEF SameKeys, SoundAll
  <2> HIDE DEF B
  <2> QED BY <1>1, <1>2, <2>3
<1>6. CASE payer \in Accounts
  <2>0. payer # None
    BY <1>6, LedgerAssumption
  <2>1. acc' = [B EXCEPT ![from] = f1, ![payer] = p1] /\ p.points >= Usage
    BY <1>2, <2>0 DEF Charged, Chargeable
  <2>2. Sound(p, timestamp) /\ SameKeys(p, B[payer])
    <3> HIDE DEF B
    <3> QED BY <1>1, <1>6, GetSound
  <2>3. Sound(f1, timestamp) /\ SameKeys(f1, f)
    <3> HIDE DEF f
    <3>1. f \in Account /\ f.nonce + 1 \in Nat
      BY <1>4 DEF Sound, Account
    <3>2. f1 \in Account /\ f1.points = f.points /\ f1.staking = f.staking
          /\ f1.unstaking = f.unstaking /\ f1.lastUnstaking = f.lastUnstaking
          /\ f1.lastPoints = f.lastPoints /\ SameKeys(f1, f)
      BY <3>1 DEF Account, SameKeys
    <3> QED BY <1>4, <3>1, <3>2 DEF Sound
  <2>4. Sound(p1, timestamp) /\ SameKeys(p1, p)
    <3> HIDE DEF p
    <3>1. p \in Account /\ p.points - Usage \in Nat /\ p.points - Usage <= p.staking
      BY <1>3, <2>1, <2>2 DEF Sound, Account
    <3>2. p1 \in Account /\ p1.points = p.points - Usage /\ p1.staking = p.staking
          /\ p1.unstaking = p.unstaking /\ p1.lastUnstaking = p.lastUnstaking
          /\ p1.lastPoints = p.lastPoints /\ SameKeys(p1, p)
      BY <3>1 DEF Account, SameKeys
    <3> QED BY <2>2, <3>1, <3>2 DEF Sound
  <2>5. SoundAll(acc', timestamp) /\ \A a \in Accounts : SameKeys(acc'[a], B[a])
    <3> HIDE DEF f1, p1, f, p, B
    <3>1. SoundAll([B EXCEPT ![from] = f1], timestamp)
      BY <1>1, <2>3, PutSound
    <3>2. SoundAll([B EXCEPT ![from] = f1, ![payer] = p1], timestamp)
      BY ZenonT(60), <1>6, <2>4, <3>1, PutSound
    <3>3. B \in [Accounts -> Account]
      BY <1>1 DEF SoundAll
    <3>4. \A a \in Accounts : acc'[a] = IF a = payer THEN p1 ELSE IF a = from THEN f1 ELSE B[a]
      BY <2>1, <3>3
    <3> QED BY ZenonT(60), <1>4, <2>1, <2>2, <2>3, <2>4, <3>2, <3>4 DEF SameKeys
  <2> HIDE DEF B
  <2> QED BY <1>1, <1>2, <2>5
<1> QED BY <1>5, <1>6

(***************************************************************************)
(* The inductive invariant.  A candidate's ID names its account, which is  *)
(* why an account that is no candidate finds its next ID free.             *)
(***************************************************************************)
IDsNamed == \A c \in DOMAIN cand : c[1] = cand[c].addr

IInv ==
  /\ TypeOK
  /\ SoundAll(acc, timestamp)
  /\ open => timestamp > 0
  /\ CandidateIndex
  /\ IDsNamed
  /\ AliasIndex
  /\ CertCopiesAgree

\* Candidates as a transaction that neither adds nor removes one leaves them.
SameCandidates(C, D) ==
  /\ DOMAIN D = DOMAIN C
  /\ D \in [DOMAIN C -> Candidate]
  /\ \A c \in DOMAIN C : D[c].addr = C[c].addr

\* Vote power moves and nothing else does: AddVotePowerToCandidate,
\* SubVotePowerToCandidate.
LEMMA ChangeVotePowerSame ==
  ASSUME NEW C, NEW ids, NEW amount \in Int, C \in [DOMAIN C -> Candidate],
         \A c \in ids \cap DOMAIN C : C[c].votePower + amount >= 0
  PROVE  SameCandidates(C, ChangeVotePower(C, ids, amount))
<1> DEFINE D == ChangeVotePower(C, ids, amount)
<1>1. DOMAIN D = DOMAIN C
  BY DEF ChangeVotePower
<1>2. ASSUME NEW c \in DOMAIN C
      PROVE  D[c] \in Candidate /\ D[c].addr = C[c].addr
  <2>1. C[c] \in Candidate
    OBVIOUS
  <2>2. CASE c \in ids
    <3>1. C[c].votePower + amount \in Nat
      BY <2>1, <2>2 DEF Candidate
    <3>2. D[c] = [C[c] EXCEPT !.votePower = @ + amount]
      BY <2>2 DEF ChangeVotePower
    <3> QED BY <2>1, <3>1, <3>2 DEF Candidate
  <2>3. CASE c \notin ids
    BY <2>1, <2>3 DEF ChangeVotePower
  <2> QED BY <2>2, <2>3
<1>3. D = [c \in DOMAIN C |-> D[c]]
  BY DEF ChangeVotePower
<1> HIDE DEF D
<1>4. SameCandidates(C, D)
  BY <1>1, <1>2, <1>3 DEF SameCandidates
<1> QED BY <1>4 DEF D

\* A transaction that changes no key of an account preserves the candidate index and
\* the alias index.
LEMMA KeysKept ==
  ASSUME IInv, SoundAll(acc', timestamp), timestamp' = timestamp,
         \A a \in Accounts : SameKeys(acc'[a], acc[a]),
         SameCandidates(cand, cand'), owner' = owner,
         usage' \in 0..BlockLimit, open, open' = open, supply' = supply
  PROVE  /\ CandidateIndex' /\ IDsNamed' /\ AliasIndex'
         /\ acc' \in [Accounts -> Account] /\ SoundAll(acc', timestamp')
         /\ DOMAIN cand' \subseteq CandidateIDs /\ cand' \in [DOMAIN cand' -> Candidate]
         /\ owner' \in [Names -> Accounts \cup {None}]
         /\ supply' \in Nat /\ timestamp' \in Time /\ usage' \in 0..BlockLimit
         /\ open' \in BOOLEAN /\ (open' => timestamp' > 0)
<1>1. cand \in [DOMAIN cand -> Candidate] /\ DOMAIN cand \subseteq CandidateIDs
      /\ \A c \in DOMAIN cand : cand[c].addr \in Accounts
  BY DEF IInv, TypeOK, Candidate
<1>2. CandidateIndex' /\ IDsNamed'
  BY <1>1 DEF IInv, CandidateIndex, IDsNamed, SameKeys, SameCandidates
<1>3. AliasIndex'
  BY DEF IInv, AliasIndex, SameKeys
<1>4. acc' \in [Accounts -> Account] /\ SoundAll(acc', timestamp')
  BY DEF SoundAll
<1>5. DOMAIN cand' \subseteq CandidateIDs /\ cand' \in [DOMAIN cand' -> Candidate]
  BY <1>1 DEF SameCandidates
<1>6. /\ owner' \in [Names -> Accounts \cup {None}]
      /\ supply' \in Nat /\ timestamp' \in Time /\ open' \in BOOLEAN
      /\ (open' => timestamp' > 0)
  BY DEF IInv, TypeOK
<1> QED BY <1>2, <1>3, <1>4, <1>5, <1>6

\* The same, when the certificates are left alone too.
LEMMA AllKept ==
  ASSUME IInv, SoundAll(acc', timestamp), timestamp' = timestamp,
         \A a \in Accounts : SameKeys(acc'[a], acc[a]),
         SameCandidates(cand, cand'), owner' = owner,
         issued' = issued, received' = received,
         usage' \in 0..BlockLimit, open, open' = open, supply' = supply
  PROVE  IInv'
<1>1. CertCopiesAgree' /\ issued' \in [Accounts -> [Hashes -> Certificate \cup {None}]]
      /\ received' \in [Accounts -> [Hashes -> Certificate \cup {None}]]
  BY DEF IInv, TypeOK, CertCopiesAgree
<1> QED BY <1>1, KeysKept DEF IInv, TypeOK

\* A coin transfer, also to oneself: TransferTx.Execute.
LEMMA TransferInv ==
  ASSUME IInv, NEW from \in Accounts, NEW payer \in Accounts \cup {None},
         NEW to \in Accounts, NEW value \in Nat, TransferTx(from, payer, to, value)
  PROVE  IInv'
<1> DEFINE sender == GetAccount(acc, from)
           ok == sender.balance >= value
           s1 == [sender EXCEPT !.balance = @ - value]
           sent == [acc EXCEPT ![from] = s1]
           receiver == GetAccount(sent, to)
           r1 == [receiver EXCEPT !.balance = @ + value]
           A == [sent EXCEPT ![to] = r1]
<1>1. Run(from, payer, 0, ok, A) /\ UNCHANGED tables
  BY DEF TransferTx
<1>2. SoundAll(acc, timestamp) /\ timestamp \in Time /\ usage \in 0..BlockLimit
  BY DEF IInv, TypeOK
<1>3. Sound(sender, timestamp) /\ SameKeys(sender, acc[from]) /\ sender \in Account
  BY <1>2, GetSound DEF Sound
<1>4. ok \in BOOLEAN
  OBVIOUS
<1>5. ASSUME ok
      PROVE  SoundAll(A, timestamp) /\ \A a \in Accounts : SameKeys(A[a], acc[a])
  <2>1. Sound(s1, timestamp) /\ SameKeys(s1, sender)
    <3> HIDE DEF sender
    <3>1. sender.balance - value \in Nat
      BY <1>3, <1>5 DEF Account
    <3>2. s1 \in Account /\ s1.points = sender.points /\ s1.staking = sender.staking
          /\ s1.unstaking = sender.unstaking /\ s1.lastUnstaking = sender.lastUnstaking
          /\ s1.lastPoints = sender.lastPoints /\ SameKeys(s1, sender)
      BY <1>3, <3>1 DEF Account, SameKeys
    <3> QED BY <1>3, <3>2 DEF Sound
  <2>2. SoundAll(sent, timestamp)
    <3> HIDE DEF s1, sender
    <3> QED BY <1>2, <2>1, PutSound
  <2>3. Sound(receiver, timestamp) /\ SameKeys(receiver, sent[to]) /\ receiver \in Account
    <3> HIDE DEF sent
    <3> QED BY <1>2, <2>2, GetSound DEF Sound
  <2>4. Sound(r1, timestamp) /\ SameKeys(r1, receiver)
    <3> HIDE DEF receiver
    <3>1. receiver.balance + value \in Nat
      BY <2>3 DEF Account
    <3>2. r1 \in Account /\ r1.points = receiver.points /\ r1.staking = receiver.staking
          /\ r1.unstaking = receiver.unstaking /\ r1.lastUnstaking = receiver.lastUnstaking
          /\ r1.lastPoints = receiver.lastPoints /\ SameKeys(r1, receiver)
      BY <2>3, <3>1 DEF Account, SameKeys
    <3> QED BY <2>3, <3>2 DEF Sound
  <2>5. SoundAll(A, timestamp)
    <3> HIDE DEF r1, sent
    <3> QED BY <2>2, <2>4, PutSound
  <2>6. \A a \in Accounts : SameKeys(sent[a], acc[a])
    <3> HIDE DEF s1, sender
    <3>1. acc \in [Accounts -> Account]
      BY <1>2 DEF SoundAll
    <3> QED BY <1>3, <2>1, <3>1 DEF SameKeys
  <2>7. \A a \in Accounts : SameKeys(A[a], acc[a])
    <3> HIDE DEF r1, sent, receiver
    <3>1. sent \in [Accounts -> Account]
      BY <2>2 DEF SoundAll
    <3> QED BY <2>3, <2>4, <2>6, <3>1 DEF SameKeys
  <2> QED BY ZenonT(60), <2>5, <2>7
<1> HIDE DEF A, ok
<1>6. /\ SoundAll(acc', timestamp) /\ usage' \in 0..BlockLimit /\ open /\ open' = open
      /\ \A a \in Accounts : SameKeys(acc'[a], IF ok THEN A[a] ELSE acc[a])
      /\ timestamp' = timestamp /\ supply' = supply
  BY SMTT(60), <1>1, <1>2, <1>4, <1>5, RunSound
<1>7. \A a \in Accounts : SameKeys(acc'[a], acc[a])
  BY <1>4, <1>5, <1>6 DEF SameKeys
<1>8. SameCandidates(cand, cand') /\ owner' = owner /\ issued' = issued /\ received' = received
  BY <1>1 DEF tables, SameCandidates, IInv, TypeOK
<1> QED BY <1>6, <1>7, <1>8, AllKept

\* A change of one account that keeps its keys, with the vote power that moves with it.
\* StakeTx, UnstakeTx and VoteTx are of this form.
LEMMA OneAccountInv ==
  ASSUME IInv, NEW from \in Accounts, NEW payer \in Accounts \cup {None}, NEW change,
         NEW ok \in BOOLEAN, NEW r, Run(from, payer, change, ok, [acc EXCEPT ![from] = r]),
         ok => Sound(r, timestamp) /\ SameKeys(r, acc[from]),
         SameCandidates(cand, cand'), UNCHANGED <<owner, issued, received>>
  PROVE  IInv'
<1>2. SoundAll(acc, timestamp) /\ timestamp \in Time /\ usage \in 0..BlockLimit
      /\ acc \in [Accounts -> Account]
  BY DEF IInv, TypeOK
<1>3. ok => SoundAll([acc EXCEPT ![from] = r], timestamp)
  BY ZenonT(60), <1>2, PutSound
<1>6. /\ SoundAll(acc', timestamp) /\ usage' \in 0..BlockLimit /\ open /\ open' = open
      /\ \A a \in Accounts : SameKeys(acc'[a], IF ok THEN [acc EXCEPT ![from] = r][a] ELSE acc[a])
      /\ timestamp' = timestamp /\ supply' = supply
  BY ZenonT(60), <1>2, <1>3, RunSound
<1>7. \A a \in Accounts : SameKeys(acc'[a], acc[a])
  BY <1>2, <1>6 DEF SameKeys
<1> QED BY <1>6, <1>7, AllKept

\* Candidates that a transaction leaves alone.
LEMMA CandidatesSame ==
  ASSUME IInv
  PROVE  SameCandidates(cand, cand) /\ cand \in [DOMAIN cand -> Candidate]
  BY DEF IInv, TypeOK, SameCandidates

\* StakeTx.Execute.
LEMMA StakeInv ==
  ASSUME IInv, NEW from \in Accounts, NEW payer \in Accounts \cup {None},
         NEW amount \in Nat, StakeTx(from, payer, amount)
  PROVE  IInv'
<1> DEFINE user == GetAccount(acc, from)
           ok == user.balance >= amount
           r == [user EXCEPT !.balance = @ - amount, !.staking = @ + amount, !.points = @ + amount]
<1>1. Run(from, payer, amount, ok, [acc EXCEPT ![from] = r])
      /\ cand' = (IF ok THEN ChangeVotePower(cand, user.voted, amount) ELSE cand)
      /\ UNCHANGED <<owner, issued, received>>
  BY DEF StakeTx
<1>2. Sound(user, timestamp) /\ SameKeys(user, acc[from])
  BY GetSound DEF IInv, TypeOK
<1>3. ok \in BOOLEAN
  OBVIOUS
<1>4. ok => Sound(r, timestamp) /\ SameKeys(r, acc[from])
  <2> HIDE DEF user
  <2>1. SUFFICES ASSUME ok PROVE Sound(r, timestamp) /\ SameKeys(r, acc[from])
    OBVIOUS
  <2>2. user \in Account /\ user.balance - amount \in Nat /\ user.staking + amount \in Nat
        /\ user.points + amount \in Nat /\ user.points + amount <= user.staking + amount
    BY <1>2, <2>1 DEF Sound, Account
  <2>3. r \in Account /\ r.points = user.points + amount /\ r.staking = user.staking + amount
        /\ r.unstaking = user.unstaking /\ r.lastUnstaking = user.lastUnstaking
        /\ r.lastPoints = user.lastPoints /\ SameKeys(r, user)
    BY ZenonT(60), <2>2 DEF Account, SameKeys
  <2> QED BY <1>2, <2>2, <2>3 DEF Sound, SameKeys
<1>5. SameCandidates(cand, cand')
  <2>1. \A c \in user.voted \cap DOMAIN cand : cand[c].votePower + amount >= 0
    BY CandidatesSame DEF Candidate
  <2> QED BY <1>1, <2>1, CandidatesSame, ChangeVotePowerSame
<1> HIDE DEF ok, r
<1> QED BY <1>1, <1>3, <1>4, <1>5, OneAccountInv

\* UnstakeTx.Execute: the points follow the stake down, and the date is that of an
\* open block, hence not zero.
LEMMA UnstakeInv ==
  ASSUME IInv, NEW from \in Accounts, NEW payer \in Accounts \cup {None},
         NEW amount \in Nat, UnstakeTx(from, payer, amount)
  PROVE  IInv'
<1> DEFINE account == GetAccount(acc, from)
           ok == account.staking >= amount /\ Subtractable(cand, account.voted, amount)
           r == [account EXCEPT !.staking = @ - amount, !.unstaking = @ + amount,
                                !.lastUnstaking = timestamp,
                                !.points = Least(@, account.staking - amount)]
<1>1. Run(from, payer, -amount, ok, [acc EXCEPT ![from] = r])
      /\ cand' = (IF ok THEN ChangeVotePower(cand, account.voted, -amount) ELSE cand)
      /\ UNCHANGED <<owner, issued, received>>
  BY DEF UnstakeTx
<1>2. Sound(account, timestamp) /\ SameKeys(account, acc[from])
  BY GetSound DEF IInv, TypeOK
<1>3. ok \in BOOLEAN /\ timestamp \in Time /\ timestamp > 0
  <2>1. open
    BY <1>1 DEF Run
  <2> QED BY <2>1 DEF IInv, TypeOK, Subtractable
<1>4. ok => Sound(r, timestamp) /\ SameKeys(r, acc[from])
  <2> HIDE DEF account
  <2>1. SUFFICES ASSUME ok PROVE Sound(r, timestamp) /\ SameKeys(r, acc[from])
    OBVIOUS
  <2> DEFINE pts == Least(account.points, account.staking - amount)
  <2>2. account \in Account /\ account.staking - amount \in Nat
        /\ account.unstaking + amount \in Nat
        /\ pts \in Nat /\ pts <= account.staking - amount
    BY <1>2, <2>1 DEF Sound, Account, Least
  <2> HIDE DEF pts
  <2>3. r \in Account /\ r.points = pts /\ r.staking = account.staking - amount
        /\ r.lastUnstaking = timestamp /\ r.lastPoints = account.lastPoints
        /\ SameKeys(r, account)
    BY ZenonT(60), <1>3, <2>2 DEF Account, SameKeys, pts
  <2> QED BY <1>2, <1>3, <2>2, <2>3 DEF Sound, SameKeys
<1>5. SameCandidates(cand, cand')
  <2>0. -amount \in Int
    OBVIOUS
  <2>1. CASE ok
    <3>1. \A c \in account.voted \cap DOMAIN cand : cand[c].votePower + (-amount) >= 0
      BY <2>1, CandidatesSame DEF Candidate, Subtractable
    <3> QED BY <1>1, <2>0, <2>1, <3>1, CandidatesSame, ChangeVotePowerSame
  <2>2. CASE ~ok
    BY <1>1, <2>2, CandidatesSame
  <2> QED BY <1>3, <2>1, <2>2
<1> HIDE DEF ok, r
<1> QED BY <1>1, <1>3, <1>4, <1>5, OneAccountInv

\* VoteTx.Execute.
LEMMA VoteInv ==
  ASSUME IInv, NEW from \in Accounts, NEW payer \in Accounts \cup {None},
         NEW ids, VoteTx(from, payer, ids)
  PROVE  IInv'
<1> DEFINE voter == GetAccount(acc, from)
           added == ChangeVotePower(cand, ids, voter.staking)
           ok == /\ Cardinality(ids) <= VoteMaximum
                 /\ ids \subseteq DOMAIN cand
                 /\ Subtractable(added, voter.voted, voter.staking)
           r == [voter EXCEPT !.voted = ids]
<1>1. Run(from, payer, 0, ok, [acc EXCEPT ![from] = r])
      /\ cand' = (IF ok THEN ChangeVotePower(added, voter.voted, -voter.staking) ELSE cand)
      /\ UNCHANGED <<owner, issued, received>>
  BY ZenonT(60) DEF VoteTx
<1>2. Sound(voter, timestamp) /\ SameKeys(voter, acc[from])
  BY GetSound DEF IInv, TypeOK
<1>3. ok \in BOOLEAN
  OBVIOUS
<1>4. ok => Sound(r, timestamp) /\ SameKeys(r, acc[from])
  <2> HIDE DEF voter, added
  <2>1. SUFFICES ASSUME ok PROVE Sound(r, timestamp) /\ SameKeys(r, acc[from])
    OBVIOUS
  <2>2. voter \in Account /\ ids \subseteq CandidateIDs
    BY <1>2, <2>1 DEF Sound, IInv, TypeOK
  <2>3. r \in Account /\ r.points = voter.points /\ r.staking = voter.staking
        /\ r.unstaking = voter.unstaking /\ r.lastUnstaking = voter.lastUnstaking
        /\ r.lastPoints = voter.lastPoints /\ SameKeys(r, voter)
    BY <2>2 DEF Account, SameKeys
  <2> QED BY <1>2, <2>2, <2>3 DEF Sound, SameKeys
<1>5. SameCandidates(cand, cand')
  <2>0. voter.staking \in Int /\ -voter.staking \in Int /\ voter.staking >= 0
    BY <1>2 DEF Sound, Account
  <2>1. CASE ok
    <3>1. SameCandidates(cand, added)
      <4> HIDE DEF voter
      <4>1. \A c \in ids \cap DOMAIN cand : cand[c].votePower + voter.staking >= 0
        BY <2>0, CandidatesSame DEF Candidate
      <4> QED BY <2>0, <4>1, CandidatesSame, ChangeVotePowerSame
    <3>2. \A c \in voter.voted \cap DOMAIN added : added[c].votePower + (-voter.staking) >= 0
      <4> HIDE DEF voter, added
      <4> QED BY <2>0, <2>1, <3>1 DEF Candidate, Subtractable, SameCandidates
    <3>3. SameCandidates(added, ChangeVotePower(added, voter.voted, -voter.staking))
      <4> HIDE DEF voter, added
      <4> QED BY <2>0, <3>1, <3>2, ChangeVotePowerSame DEF SameCandidates
    <3> HIDE DEF voter, added
    <3> QED BY <1>1, <2>1, <3>1, <3>3 DEF SameCandidates
  <2>2. CASE ~ok
    BY <1>1, <2>2, CandidatesSame
  <2> QED BY <1>3, <2>1, <2>2
<1> HIDE DEF ok, r
<1> QED BY <1>1, <1>3, <1>4, <1>5, OneAccountInv

\* The types and clocks after a transaction that changes the keys of one account.
LEMMA KeyRun ==
  ASSUME IInv, NEW from \in Accounts, NEW payer \in Accounts \cup {None},
         NEW ok \in BOOLEAN, NEW r, Run(from, payer, 0, ok, [acc EXCEPT ![from] = r]),
         ok => Sound(r, timestamp)
  PROVE  /\ acc' \in [Accounts -> Account] /\ SoundAll(acc', timestamp')
         /\ SameKeys(acc'[from], IF ok THEN r ELSE acc[from])
         /\ \A a \in Accounts \ {from} : SameKeys(acc'[a], acc[a])
         /\ supply' \in Nat /\ timestamp' \in Time /\ usage' \in 0..BlockLimit
         /\ open' \in BOOLEAN /\ (open' => timestamp' > 0)
<1>2. SoundAll(acc, timestamp) /\ timestamp \in Time /\ usage \in 0..BlockLimit
      /\ acc \in [Accounts -> Account]
  BY DEF IInv, TypeOK
<1>3. ok => SoundAll([acc EXCEPT ![from] = r], timestamp)
  BY ZenonT(60), <1>2, PutSound
<1>6. /\ SoundAll(acc', timestamp) /\ usage' \in 0..BlockLimit /\ open /\ open' = open
      /\ \A a \in Accounts : SameKeys(acc'[a], IF ok THEN [acc EXCEPT ![from] = r][a] ELSE acc[a])
      /\ timestamp' = timestamp /\ supply' = supply
  BY ZenonT(60), <1>2, <1>3, RunSound
<1>7. SameKeys(acc'[from], IF ok THEN r ELSE acc[from])
      /\ \A a \in Accounts \ {from} : SameKeys(acc'[a], acc[a])
  BY <1>2, <1>6 DEF SameKeys
<1>8. acc' \in [Accounts -> Account] /\ SoundAll(acc', timestamp')
  BY <1>6 DEF SoundAll
<1> QED BY <1>6, <1>7, <1>8 DEF IInv, TypeOK

\* BecomeCandidateTx.Execute: the new ID was free.
LEMMA BecomeInv ==
  ASSUME IInv, NEW from \in Accounts, NEW payer \in Accounts \cup {None},
         NEW collateral \in Nat, BecomeCandidateTx(from, payer, collateral)
  PROVE  IInv'
<1> DEFINE account == GetAccount(acc, from)
           ok == /\ account.candidate = None
                 /\ account.alias # None
                 /\ collateral >= MinCollateral
                 /\ account.balance >= collateral
           id == txHash(from)
           new == [addr |-> from, collateral |-> collateral, votePower |-> 0]
           r == [account EXCEPT !.balance = @ - collateral, !.candidate = id]
           more == [c \in DOMAIN cand \cup {id} |-> IF c = id THEN new ELSE cand[c]]
<1>1. Run(from, payer, 0, ok, [acc EXCEPT ![from] = r])
      /\ cand' = (IF ok THEN more ELSE cand) /\ UNCHANGED <<owner, issued, received>>
  BY ZenonT(60) DEF BecomeCandidateTx
<1>2. Sound(account, timestamp) /\ SameKeys(account, acc[from])
  BY GetSound DEF IInv, TypeOK
<1>3. ok \in BOOLEAN
  OBVIOUS
<1>4. id \in CandidateIDs /\ id[1] = from
  BY DEF txHash, IInv, TypeOK, Account, CandidateIDs
<1>5. ok => /\ Sound(r, timestamp) /\ r.candidate = id /\ r.alias = acc[from].alias
  <2> HIDE DEF account, id
  <2>1. SUFFICES ASSUME ok
                 PROVE  Sound(r, timestamp) /\ r.candidate = id /\ r.alias = acc[from].alias
    OBVIOUS
  <2>2. account \in Account /\ account.balance - collateral \in Nat
    BY <1>2, <2>1 DEF Sound, Account
  <2>3. r \in Account /\ r.points = account.points /\ r.staking = account.staking
        /\ r.unstaking = account.unstaking /\ r.lastUnstaking = account.lastUnstaking
        /\ r.lastPoints = account.lastPoints /\ r.candidate = id /\ r.alias = account.alias
    BY ZenonT(60), <1>4, <2>2 DEF Account
  <2> QED BY <1>2, <2>2, <2>3 DEF Sound, SameKeys
<1>6. ok => acc[from].candidate = None
  BY <1>2 DEF SameKeys
<1> HIDE DEF ok, r, account
<1>7. /\ acc' \in [Accounts -> Account] /\ SoundAll(acc', timestamp')
      /\ SameKeys(acc'[from], IF ok THEN r ELSE acc[from])
      /\ \A a \in Accounts \ {from} : SameKeys(acc'[a], acc[a])
      /\ supply' \in Nat /\ timestamp' \in Time /\ usage' \in 0..BlockLimit
      /\ open' \in BOOLEAN /\ (open' => timestamp' > 0)
  BY <1>1, <1>3, <1>5, KeyRun
<1>8. /\ CertCopiesAgree' /\ owner' = owner /\ owner' \in [Names -> Accounts \cup {None}]
      /\ issued' \in [Accounts -> [Hashes -> Certificate \cup {None}]]
      /\ received' \in [Accounts -> [Hashes -> Certificate \cup {None}]]
  BY ZenonT(60), <1>1 DEF IInv, TypeOK, CertCopiesAgree
<1>9. AliasIndex'
  <2>1. \A a \in Accounts : acc'[a].alias = acc[a].alias
    BY <1>3, <1>5, <1>7 DEF SameKeys
  <2> QED BY <1>8, <2>1 DEF IInv, AliasIndex
<1>10. /\ DOMAIN cand' \subseteq CandidateIDs /\ cand' \in [DOMAIN cand' -> Candidate]
       /\ IDsNamed' /\ CandidateIndex'
  <2>0. /\ DOMAIN cand \subseteq CandidateIDs /\ cand \in [DOMAIN cand -> Candidate]
        /\ IDsNamed /\ CandidateIndex
        /\ \A c \in DOMAIN cand : c # None /\ cand[c].addr \in Accounts
    BY LedgerAssumption DEF IInv, TypeOK, Candidate
  <2>1. CASE ok
    <3> HIDE DEF id
    <3>1. id \notin DOMAIN cand
      BY <1>4, <1>6, <2>0, <2>1 DEF IDsNamed, CandidateIndex
    <3>2. /\ DOMAIN cand' = DOMAIN cand \cup {id} /\ cand'[id] = new
          /\ \A c \in DOMAIN cand : cand'[c] = cand[c]
      BY <1>1, <2>1, <3>1
    <3>3. new \in Candidate /\ new.addr = from
      BY DEF Candidate
    <3>4. DOMAIN cand' \subseteq CandidateIDs /\ cand' \in [DOMAIN cand' -> Candidate]
      BY <1>1, <1>4, <2>0, <2>1, <3>2, <3>3
    <3>5. acc'[from].candidate = id
      BY <1>5, <1>7, <2>1 DEF SameKeys
    <3>6. \A a \in Accounts \ {from} : acc'[a].candidate = acc[a].candidate
      BY <1>7 DEF SameKeys
    <3> HIDE DEF new, more
    <3>7. IDsNamed'
      BY <1>4, <2>0, <3>2, <3>3 DEF IDsNamed
    <3>8. CandidateIndex'
      <4>1. \A c \in DOMAIN cand : cand[c].addr # from
        BY <1>6, <2>0, <2>1 DEF CandidateIndex
      <4> QED BY <2>0, <3>2, <3>3, <3>5, <3>6, <4>1 DEF CandidateIndex
    <3> QED BY <3>4, <3>7, <3>8
  <2>2. CASE ~ok
    <3>1. cand' = cand /\ \A a \in Accounts : acc'[a].candidate = acc[a].candidate
      BY <1>1, <1>7, <2>2 DEF SameKeys
    <3> QED BY <2>0, <3>1 DEF IDsNamed, CandidateIndex
  <2> QED BY <1>3, <2>1, <2>2
<1> QED BY <1>7, <1>8, <1>9, <1>10 DEF IInv, TypeOK

\* QuitCandidateTx.Execute.
LEMMA QuitInv ==
  ASSUME IInv, NEW from \in Accounts, NEW payer \in Accounts \cup {None},
         QuitCandidateTx(from, payer)
  PROVE  IInv'
<1> DEFINE account == GetAccount(acc, from)
           id == account.candidate
           ok == id # None /\ id \in DOMAIN cand
           r == [account EXCEPT !.balance = @ + cand[id].collateral, !.candidate = None]
<1>1. Run(from, payer, 0, ok, [acc EXCEPT ![from] = r])
      /\ cand' = (IF ok THEN Restrict(cand, DOMAIN cand \ {id}) ELSE cand)
      /\ UNCHANGED <<owner, issued, received>>
  BY DEF QuitCandidateTx
<1>2. Sound(account, timestamp) /\ SameKeys(account, acc[from])
  BY GetSound DEF IInv, TypeOK
<1>3. ok \in BOOLEAN
  OBVIOUS
<1>4. /\ DOMAIN cand \subseteq CandidateIDs /\ cand \in [DOMAIN cand -> Candidate]
      /\ IDsNamed /\ CandidateIndex
      /\ \A c \in DOMAIN cand : c # None /\ cand[c].addr \in Accounts /\ cand[c].collateral \in Nat
  BY LedgerAssumption DEF IInv, TypeOK, Candidate
<1>5. ok => /\ Sound(r, timestamp) /\ r.candidate = None /\ r.alias = acc[from].alias
  <2> HIDE DEF account
  <2>1. SUFFICES ASSUME ok
                 PROVE  Sound(r, timestamp) /\ r.candidate = None /\ r.alias = acc[from].alias
    OBVIOUS
  <2>2. account \in Account /\ account.balance + cand[id].collateral \in Nat
    BY <1>2, <1>4, <2>1 DEF Sound, Account
  <2>3. r \in Account /\ r.points = account.points /\ r.staking = account.staking
        /\ r.unstaking = account.unstaking /\ r.lastUnstaking = account.lastUnstaking
        /\ r.lastPoints = account.lastPoints /\ r.candidate = None /\ r.alias = account.alias
    BY ZenonT(60), <2>2 DEF Account
  <2> QED BY <1>2, <2>2, <2>3 DEF Sound, SameKeys
<1>6. id = acc[from].candidate
  BY <1>2 DEF SameKeys
<1> HIDE DEF ok, r, account, id
<1>7. /\ acc' \in [Accounts -> Account] /\ SoundAll(acc', timestamp')
      /\ SameKeys(acc'[from], IF ok THEN r ELSE acc[from])
      /\ \A a \in Accounts \ {from} : SameKeys(acc'[a], acc[a])
      /\ supply' \in Nat /\ timestamp' \in Time /\ usage' \in 0..BlockLimit
      /\ open' \in BOOLEAN /\ (open' => timestamp' > 0)
  BY <1>1, <1>3, <1>5, KeyRun
<1>8. /\ CertCopiesAgree' /\ owner' = owner /\ owner' \in [Names -> Accounts \cup {None}]
      /\ issued' \in [Accounts -> [Hashes -> Certificate \cup {None}]]
      /\ received' \in [Accounts -> [Hashes -> Certificate \cup {None}]]
  BY ZenonT(60), <1>1 DEF IInv, TypeOK, CertCopiesAgree
<1>9. AliasIndex'
  <2>1. \A a \in Accounts : acc'[a].alias = acc[a].alias
    BY <1>3, <1>5, <1>7 DEF SameKeys
  <2> QED BY <1>8, <2>1 DEF IInv, AliasIndex
<1>10. /\ DOMAIN cand' \subseteq CandidateIDs /\ cand' \in [DOMAIN cand' -> Candidate]
       /\ IDsNamed' /\ CandidateIndex'
  <2>1. CASE ok
    <3>1. /\ DOMAIN cand' = DOMAIN cand \ {id}
          /\ \A c \in DOMAIN cand \ {id} : cand'[c] = cand[c]
          /\ cand' \in [DOMAIN cand \ {id} -> Candidate]
      BY <1>1, <1>4, <2>1 DEF Restrict
    <3>2. acc'[from].candidate = None
      BY <1>5, <1>7, <2>1 DEF SameKeys
    <3>3. \A a \in Accounts \ {from} : acc'[a].candidate = acc[a].candidate
      BY <1>7 DEF SameKeys
    <3>4. id # None /\ id \in DOMAIN cand /\ cand[id].addr = from
      BY <1>4, <1>6, <2>1 DEF ok, CandidateIndex
    <3>5. IDsNamed'
      BY <1>4, <3>1 DEF IDsNamed
    <3>6. CandidateIndex'
      <4>1. \A c \in DOMAIN cand \ {id} : cand[c].addr # from
        BY <1>4, <1>6, <3>4 DEF CandidateIndex
      <4>2. \A a \in Accounts \ {from} : acc[a].candidate # id
        BY <1>4, <3>4 DEF CandidateIndex
      <4> QED BY <1>4, <3>1, <3>2, <3>3, <4>1, <4>2 DEF CandidateIndex
    <3> QED BY <1>4, <3>1, <3>5, <3>6
  <2>2. CASE ~ok
    <3>1. cand' = cand /\ \A a \in Accounts : acc'[a].candidate = acc[a].candidate
      BY <1>1, <1>7, <2>2 DEF SameKeys
    <3> QED BY <1>4, <3>1 DEF IDsNamed, CandidateIndex
  <2> QED BY <1>3, <2>1, <2>2
<1> QED BY <1>7, <1>8, <1>9, <1>10 DEF IInv, TypeOK

\* RegisterAliasTx.Execute.
LEMMA RegisterInv ==
  ASSUME IInv, NEW from \in Accounts, NEW payer \in Accounts \cup {None}, NEW name \in Names,
         NEW collateral \in Nat, RegisterAliasTx(from, payer, name, collateral)
  PROVE  IInv'
<1> DEFINE account == GetAccount(acc, from)
           ok == /\ collateral >= MinCollateral
                 /\ account.alias = None
                 /\ owner[name] = None
                 /\ account.balance >= collateral
           r == [account EXCEPT !.balance = @ - collateral, !.alias = name,
                                !.collateral = collateral]
<1>1. Run(from, payer, 0, ok, [acc EXCEPT ![from] = r])
      /\ owner' = (IF ok THEN [owner EXCEPT ![name] = from] ELSE owner)
      /\ UNCHANGED <<cand, issued, received>>
  BY ZenonT(60) DEF RegisterAliasTx
<1>2. Sound(account, timestamp) /\ SameKeys(account, acc[from])
  BY GetSound DEF IInv, TypeOK
<1>3. ok \in BOOLEAN
  OBVIOUS
<1>5. ok => Sound(r, timestamp) /\ r.candidate = acc[from].candidate /\ r.alias = name
  <2> HIDE DEF account
  <2>1. SUFFICES ASSUME ok
                 PROVE  Sound(r, timestamp) /\ r.candidate = acc[from].candidate /\ r.alias = name
    OBVIOUS
  <2>2. account \in Account /\ account.balance - collateral \in Nat
    BY <1>2, <2>1 DEF Sound, Account
  <2>3. r \in Account /\ r.points = account.points /\ r.staking = account.staking
        /\ r.unstaking = account.unstaking /\ r.lastUnstaking = account.lastUnstaking
        /\ r.lastPoints = account.lastPoints /\ r.candidate = account.candidate /\ r.alias = name
    BY ZenonT(60), <2>2 DEF Account
  <2> QED BY <1>2, <2>2, <2>3 DEF Sound, SameKeys
<1>6. ok => acc[from].alias = None /\ owner[name] = None
  BY <1>2 DEF SameKeys
<1> HIDE DEF ok, r, account
<1>7. /\ acc' \in [Accounts -> Account] /\ SoundAll(acc', timestamp')
      /\ SameKeys(acc'[from], IF ok THEN r ELSE acc[from])
      /\ \A a \in Accounts \ {from} : SameKeys(acc'[a], acc[a])
      /\ supply' \in Nat /\ timestamp' \in Time /\ usage' \in 0..BlockLimit
      /\ open' \in BOOLEAN /\ (open' => timestamp' > 0)
  BY SMTT(60), <1>1, <1>3, <1>5, KeyRun
<1>8. /\ CertCopiesAgree'
      /\ issued' \in [Accounts -> [Hashes -> Certificate \cup {None}]]
      /\ received' \in [Accounts -> [Hashes -> Certificate \cup {None}]]
  BY ZenonT(60), <1>1 DEF IInv, TypeOK, CertCopiesAgree
<1>9. /\ DOMAIN cand' \subseteq CandidateIDs /\ cand' \in [DOMAIN cand' -> Candidate]
      /\ IDsNamed' /\ CandidateIndex'
  <2>1. cand' = cand /\ \A a \in Accounts : acc'[a].candidate = acc[a].candidate
    BY ZenonT(60), <1>1, <1>3, <1>5, <1>7 DEF SameKeys
  <2>2. DOMAIN cand \subseteq CandidateIDs /\ cand \in [DOMAIN cand -> Candidate]
        /\ \A c \in DOMAIN cand : cand[c].addr \in Accounts
    BY DEF IInv, TypeOK, Candidate
  <2> QED BY ZenonT(60), <2>1, <2>2 DEF IInv, IDsNamed, CandidateIndex
<1>10. owner' \in [Names -> Accounts \cup {None}] /\ AliasIndex'
  <2>0. owner \in [Names -> Accounts \cup {None}] /\ AliasIndex
        /\ None \notin Accounts /\ None \notin Names
    BY LedgerAssumption DEF IInv, TypeOK
  <2>1. \A a \in Accounts \ {from} : acc'[a].alias = acc[a].alias
    BY <1>7 DEF SameKeys
  <2>2. CASE ok
    <3>1. acc'[from].alias = name
      BY <1>5, <1>7, <2>2 DEF SameKeys
    <3>2. owner' \in [Names -> Accounts \cup {None}] /\ owner'[name] = from
          /\ \A n \in Names \ {name} : owner'[n] = owner[n]
      BY <1>1, <2>0, <2>2
    <3>3. ASSUME NEW a \in Accounts, NEW n \in Names
          PROVE  owner'[n] = a <=> acc'[a].alias = n
      <4>1. owner[n] = a <=> acc[a].alias = n
        BY ZenonT(60), <2>0 DEF AliasIndex
      <4>2. CASE a = from
        <5>1. acc[a].alias = None
          BY ZenonT(60), <1>6, <2>2, <4>2
        <5> QED BY <2>0, <3>1, <3>2, <4>1, <4>2, <5>1
      <4>3. CASE a # from
        <5>1. owner[name] # a
          BY ZenonT(60), <1>6, <2>0, <2>2, <4>3
        <5>2. acc'[a].alias = acc[a].alias
          BY ZenonT(60), <2>1, <4>3
        <5> QED BY <2>0, <3>2, <4>1, <4>3, <5>1, <5>2
      <4> QED BY ZenonT(60), <4>2, <4>3
    <3> QED BY ZenonT(60), <3>2, <3>3 DEF AliasIndex
  <2>3. CASE ~ok
    <3>1. owner' = owner /\ \A a \in Accounts : acc'[a].alias = acc[a].alias
      BY <1>1, <1>7, <2>3 DEF SameKeys
    <3> QED BY <2>0, <3>1 DEF AliasIndex
  <2> QED BY <1>3, <2>2, <2>3
<1> QED BY <1>7, <1>8, <1>9, <1>10 DEF IInv, TypeOK

\* DeregisterAliasTx.Execute.
LEMMA DeregisterInv ==
  ASSUME IInv, NEW from \in Accounts, NEW payer \in Accounts \cup {None},
         DeregisterAliasTx(from, payer)
  PROVE  IInv'
<1> DEFINE account == GetAccount(acc, from)
           ok == account.alias # None /\ owner[account.alias] = from
           name == account.alias
           r == [account EXCEPT !.balance = @ + account.collateral, !.alias = None,
                                !.collateral = 0]
<1>1. Run(from, payer, 0, ok, [acc EXCEPT ![from] = r])
      /\ owner' = (IF ok THEN [owner EXCEPT ![name] = None] ELSE owner)
      /\ UNCHANGED <<cand, issued, received>>
  BY DEF DeregisterAliasTx
<1>2. Sound(account, timestamp) /\ SameKeys(account, acc[from])
  BY GetSound DEF IInv, TypeOK
<1>3. ok \in BOOLEAN
  OBVIOUS
<1>5. ok => Sound(r, timestamp) /\ r.candidate = acc[from].candidate /\ r.alias = None
  <2> HIDE DEF account
  <2>2. account \in Account /\ account.balance + account.collateral \in Nat
    BY <1>2 DEF Sound, Account
  <2>3. r \in Account /\ r.points = account.points /\ r.staking = account.staking
        /\ r.unstaking = account.unstaking /\ r.lastUnstaking = account.lastUnstaking
        /\ r.lastPoints = account.lastPoints /\ r.candidate = account.candidate /\ r.alias = None
    BY ZenonT(60), <2>2 DEF Account
  <2> QED BY <1>2, <2>2, <2>3 DEF Sound, SameKeys
<1>6. /\ name = acc[from].alias /\ (ok => name # None /\ owner[name] = from)
      /\ (ok => name \in Names)
  BY <1>2 DEF SameKeys, Sound, Account
<1> HIDE DEF ok, r, account, name
<1>7. /\ acc' \in [Accounts -> Account] /\ SoundAll(acc', timestamp')
      /\ SameKeys(acc'[from], IF ok THEN r ELSE acc[from])
      /\ \A a \in Accounts \ {from} : SameKeys(acc'[a], acc[a])
      /\ supply' \in Nat /\ timestamp' \in Time /\ usage' \in 0..BlockLimit
      /\ open' \in BOOLEAN /\ (open' => timestamp' > 0)
  BY SMTT(60), <1>1, <1>3, <1>5, KeyRun
<1>8. /\ CertCopiesAgree'
      /\ issued' \in [Accounts -> [Hashes -> Certificate \cup {None}]]
      /\ received' \in [Accounts -> [Hashes -> Certificate \cup {None}]]
  BY ZenonT(60), <1>1 DEF IInv, TypeOK, CertCopiesAgree
<1>9. /\ DOMAIN cand' \subseteq CandidateIDs /\ cand' \in [DOMAIN cand' -> Candidate]
      /\ IDsNamed' /\ CandidateIndex'
  <2>1. cand' = cand /\ \A a \in Accounts : acc'[a].candidate = acc[a].candidate
    BY ZenonT(60), <1>1, <1>3, <1>5, <1>7 DEF SameKeys
  <2>2. DOMAIN cand \subseteq CandidateIDs /\ cand \in [DOMAIN cand -> Candidate]
        /\ \A c \in DOMAIN cand : cand[c].addr \in Accounts
    BY DEF IInv, TypeOK, Candidate
  <2> QED BY ZenonT(60), <2>1, <2>2 DEF IInv, IDsNamed, CandidateIndex
<1>10. owner' \in [Names -> Accounts \cup {None}] /\ AliasIndex'
  <2>0. owner \in [Names -> Accounts \cup {None}] /\ AliasIndex
        /\ None \notin Accounts /\ None \notin Names
    BY LedgerAssumption DEF IInv, TypeOK
  <2>1. \A a \in Accounts \ {from} : acc'[a].alias = acc[a].alias
    BY <1>7 DEF SameKeys
  <2>2. CASE ok
    <3>1. acc'[from].alias = None
      BY <1>5, <1>7, <2>2 DEF SameKeys
    <3>2. owner' \in [Names -> Accounts \cup {None}] /\ owner'[name] = None
          /\ \A n \in Names \ {name} : owner'[n] = owner[n]
      BY <1>1, <1>6, <2>0, <2>2
    <3>3. ASSUME NEW a \in Accounts, NEW n \in Names
          PROVE  owner'[n] = a <=> acc'[a].alias = n
      <4>1. owner[n] = a <=> acc[a].alias = n
        BY ZenonT(60), <2>0 DEF AliasIndex
      <4>2. CASE a = from
        <5>1. acc[a].alias = name
          BY ZenonT(60), <1>6, <2>2, <4>2
        <5> QED BY <2>0, <3>1, <3>2, <4>1, <4>2, <5>1
      <4>3. CASE a # from
        <5>1. owner[name] # a
          BY ZenonT(60), <1>6, <2>0, <2>2, <4>3
        <5>2. acc'[a].alias = acc[a].alias
          BY ZenonT(60), <2>1, <4>3
        <5> QED BY <2>0, <3>2, <4>1, <4>3, <5>1, <5>2
      <4> QED BY ZenonT(60), <4>2, <4>3
    <3> QED BY ZenonT(60), <3>2, <3>3 DEF AliasIndex
  <2>3. CASE ~ok
    <3>1. owner' = owner /\ \A a \in Accounts : acc'[a].alias = acc[a].alias
      BY <1>1, <1>7, <2>3 DEF SameKeys
    <3> QED BY <2>0, <3>1 DEF AliasIndex
  <2> QED BY <1>3, <2>2, <2>3
<1> QED BY <1>7, <1>8, <1>9, <1>10 DEF IInv, TypeOK

\* Reading and putting two accounts changes no key.
LEMMA TouchedSound ==
  ASSUME IInv, NEW a \in Accounts, NEW b \in Accounts
  PROVE  /\ SoundAll(Touched(a, b), timestamp)
         /\ \A c \in Accounts : SameKeys(Touched(a, b)[c], acc[c])
<1> DEFINE x == GetAccount(acc, a)
           once == [acc EXCEPT ![a] = x]
           y == GetAccount(once, b)
<1>1. SoundAll(acc, timestamp) /\ timestamp \in Time /\ acc \in [Accounts -> Account]
  BY DEF IInv, TypeOK
<1>2. Sound(x, timestamp) /\ SameKeys(x, acc[a])
  BY <1>1, GetSound
<1>3. SoundAll(once, timestamp) /\ once \in [Accounts -> Account]
      /\ \A c \in Accounts : SameKeys(once[c], acc[c])
  <2> HIDE DEF x
  <2> QED BY <1>1, <1>2, PutSound DEF SoundAll, SameKeys
<1>4. Sound(y, timestamp) /\ SameKeys(y, once[b])
  <2> HIDE DEF once
  <2> QED BY <1>1, <1>3, GetSound
<1>5. SoundAll([once EXCEPT ![b] = y], timestamp)
      /\ \A c \in Accounts : SameKeys([once EXCEPT ![b] = y][c], acc[c])
  <2> HIDE DEF once, y
  <2> QED BY ZenonT(60), <1>3, <1>4, PutSound DEF SameKeys
<1> QED BY ZenonT(60), <1>5 DEF Touched

\* The part of a certificate transaction that is not about certificates.
LEMMA CertRun ==
  ASSUME IInv, NEW from \in Accounts, NEW payer \in Accounts \cup {None},
         NEW ok \in BOOLEAN, NEW A, Run(from, payer, 0, ok, A), UNCHANGED <<cand, owner>>,
         ok => SoundAll(A, timestamp) /\ \A a \in Accounts : SameKeys(A[a], acc[a]),
         CertCopiesAgree',
         issued' \in [Accounts -> [Hashes -> Certificate \cup {None}]],
         received' \in [Accounts -> [Hashes -> Certificate \cup {None}]]
  PROVE  IInv'
<1>1. SoundAll(acc, timestamp) /\ timestamp \in Time /\ usage \in 0..BlockLimit
  BY DEF IInv, TypeOK
<1>2. /\ SoundAll(acc', timestamp) /\ usage' \in 0..BlockLimit /\ open /\ open' = open
      /\ \A a \in Accounts : SameKeys(acc'[a], IF ok THEN A[a] ELSE acc[a])
      /\ timestamp' = timestamp /\ supply' = supply
  BY ZenonT(60), <1>1, RunSound
<1>3. \A a \in Accounts : SameKeys(acc'[a], acc[a])
  BY <1>2 DEF SameKeys
<1>4. SameCandidates(cand, cand') /\ owner' = owner
  BY CandidatesSame
<1> QED BY <1>2, <1>3, <1>4, KeysKept DEF IInv, TypeOK

\* AddCertificationTx.Execute: neither copy may exist before.
LEMMA AddCertInv ==
  ASSUME IInv, NEW from \in Accounts, NEW payer \in Accounts \cup {None},
         NEW certified \in Accounts, NEW hash \in Hashes, NEW expiration \in Nat,
         AddCertificationTx(from, payer, certified, hash, expiration)
  PROVE  IInv'
<1> DEFINE ok == received[certified][hash] = None /\ issued[from][hash] = None
           cert == [issuer |-> from, certified |-> certified,
                    expiration |-> expiration, revocation |-> -1]
<1>1. /\ Run(from, payer, 0, ok, Touched(certified, from)) /\ UNCHANGED <<cand, owner>>
      /\ received' = (IF ok THEN [received EXCEPT ![certified][hash] = cert] ELSE received)
      /\ issued' = (IF ok THEN [issued EXCEPT ![from][hash] = cert] ELSE issued)
  BY DEF AddCertificationTx
<1>2. /\ issued \in [Accounts -> [Hashes -> Certificate \cup {None}]]
      /\ received \in [Accounts -> [Hashes -> Certificate \cup {None}]]
      /\ CertCopiesAgree
  BY DEF IInv, TypeOK
<1>3. cert \in Certificate /\ cert # None /\ cert.issuer = from /\ cert.certified = certified
  <2>1. cert \in Certificate
    BY ZenonT(60) DEF Certificate
  <2> HIDE DEF Certificate
  <2>2. None \notin Certificate
    BY ZenonT(60), LedgerAssumption
  <2> QED BY ZenonT(60), <2>1, <2>2
<1>4. ok \in BOOLEAN
  OBVIOUS
<1> HIDE DEF cert
<1>5. /\ CertCopiesAgree'
      /\ issued' \in [Accounts -> [Hashes -> Certificate \cup {None}]]
      /\ received' \in [Accounts -> [Hashes -> Certificate \cup {None}]]
  <2>1. CASE ok
    <3>1. /\ issued' \in [Accounts -> [Hashes -> Certificate \cup {None}]]
          /\ received' \in [Accounts -> [Hashes -> Certificate \cup {None}]]
      BY <1>1, <1>2, <1>3, <2>1
    <3>2. \A a \in Accounts, h \in Hashes :
            /\ issued'[a][h] = IF a = from /\ h = hash THEN cert ELSE issued[a][h]
            /\ received'[a][h] = IF a = certified /\ h = hash THEN cert ELSE received[a][h]
      BY <1>1, <1>2, <2>1
    <3>3. \A a \in Accounts, h \in Hashes :
            /\ issued[a][h] # None => issued[a][h].certified \in Accounts
            /\ received[a][h] # None => received[a][h].issuer \in Accounts
      BY <1>2 DEF Certificate
    <3>5. ASSUME NEW a \in Accounts, NEW h \in Hashes, issued'[a][h] # None
          PROVE  /\ issued'[a][h].issuer = a
                 /\ received'[issued'[a][h].certified][h] = issued'[a][h]
      <4>1. CASE a = from /\ h = hash
        BY ZenonT(60), <1>3, <2>1, <3>2, <4>1
      <4>2. CASE ~(a = from /\ h = hash)
        <5>1. issued'[a][h] = issued[a][h] /\ issued[a][h].certified \in Accounts
          BY <3>2, <3>3, <3>5, <4>2
        <5>2. issued[a][h].issuer = a /\ received[issued[a][h].certified][h] = issued[a][h]
          BY <1>2, <3>5, <5>1 DEF CertCopiesAgree
        <5>3. ~(issued[a][h].certified = certified /\ h = hash)
          BY <1>3, <2>1, <3>5, <4>2, <5>1, <5>2
        <5> QED BY <3>2, <5>1, <5>2, <5>3
      <4> QED BY <4>1, <4>2
    <3>6. ASSUME NEW a \in Accounts, NEW h \in Hashes, received'[a][h] # None
          PROVE  /\ received'[a][h].certified = a
                 /\ issued'[received'[a][h].issuer][h] = received'[a][h]
      <4>1. CASE a = certified /\ h = hash
        BY ZenonT(60), <1>3, <2>1, <3>2, <4>1
      <4>2. CASE ~(a = certified /\ h = hash)
        <5>1. received'[a][h] = received[a][h] /\ received[a][h].issuer \in Accounts
          BY <3>2, <3>3, <3>6, <4>2
        <5>2. received[a][h].certified = a /\ issued[received[a][h].issuer][h] = received[a][h]
          BY <1>2, <3>6, <5>1 DEF CertCopiesAgree
        <5>3. ~(received[a][h].issuer = from /\ h = hash)
          BY <1>3, <2>1, <3>6, <4>2, <5>1, <5>2
        <5> QED BY <3>2, <5>1, <5>2, <5>3
      <4> QED BY <4>1, <4>2
    <3> QED BY <3>1, <3>5, <3>6 DEF CertCopiesAgree
  <2>2. CASE ~ok
    BY ZenonT(60), <1>1, <1>2, <2>2 DEF CertCopiesAgree
  <2> QED BY <2>1, <2>2
<1> DEFINE A == Touched(certified, from)
<1>6. SoundAll(A, timestamp) /\ \A a \in Accounts : SameKeys(A[a], acc[a])
  BY TouchedSound
<1>7. Run(from, payer, 0, ok, A) /\ UNCHANGED <<cand, owner>>
  BY <1>1
<1> HIDE DEF ok, A
<1> QED BY ZenonT(60), <1>4, <1>5, <1>6, <1>7, CertRun

\* RevokeCertificationTx.Execute: the issuer's copy says where the other one is.
LEMMA RevokeInv ==
  ASSUME IInv, NEW from \in Accounts, NEW payer \in Accounts \cup {None}, NEW hash \in Hashes,
         RevokeCertificationTx(from, payer, hash)
  PROVE  IInv'
<1> DEFINE cert == issued[from][hash]
           ok == /\ cert # None
                 /\ cert.issuer = from
                 /\ cert.revocation = -1
                 /\ cert.expiration >= timestamp
           revoked == [cert EXCEPT !.revocation = timestamp]
<1>1. /\ Run(from, payer, 0, ok, Touched(from, cert.certified)) /\ UNCHANGED <<cand, owner>>
      /\ issued' = (IF ok THEN [issued EXCEPT ![from][hash] = revoked] ELSE issued)
      /\ received' = (IF ok THEN [received EXCEPT ![cert.certified][hash] = revoked] ELSE received)
  BY ZenonT(60) DEF RevokeCertificationTx
<1>2. /\ issued \in [Accounts -> [Hashes -> Certificate \cup {None}]]
      /\ received \in [Accounts -> [Hashes -> Certificate \cup {None}]]
      /\ CertCopiesAgree /\ timestamp \in Time
  BY DEF IInv, TypeOK
<1>3. ok => /\ revoked \in Certificate /\ revoked # None
            /\ revoked.issuer = from /\ revoked.certified = cert.certified
            /\ cert.certified \in Accounts /\ cert # None /\ cert.issuer = from
  <2>1. SUFFICES ASSUME ok
                 PROVE  /\ revoked \in Certificate /\ revoked # None
                        /\ revoked.issuer = from /\ revoked.certified = cert.certified
                        /\ cert.certified \in Accounts /\ cert # None /\ cert.issuer = from
    OBVIOUS
  <2>2. cert \in Certificate
    BY <1>2, <2>1
  <2> HIDE DEF cert
  <2>3. revoked \in Certificate /\ revoked.issuer = cert.issuer
        /\ revoked.certified = cert.certified /\ cert.certified \in Accounts
    BY ZenonT(60), <1>2, <2>2 DEF Certificate
  <2> QED BY <2>1, <2>3, LedgerAssumption
<1>4. ok \in BOOLEAN
  OBVIOUS
<1> HIDE DEF revoked, ok
<1>5. /\ CertCopiesAgree'
      /\ issued' \in [Accounts -> [Hashes -> Certificate \cup {None}]]
      /\ received' \in [Accounts -> [Hashes -> Certificate \cup {None}]]
  <2>1. CASE ok
    <3>1. /\ issued' \in [Accounts -> [Hashes -> Certificate \cup {None}]]
          /\ received' \in [Accounts -> [Hashes -> Certificate \cup {None}]]
      BY <1>1, <1>2, <1>3, <2>1
    <3>2. \A a \in Accounts, h \in Hashes :
            /\ issued'[a][h] = IF a = from /\ h = hash THEN revoked ELSE issued[a][h]
            /\ received'[a][h] = IF a = cert.certified /\ h = hash THEN revoked ELSE received[a][h]
      BY <1>1, <1>2, <1>3, <2>1
    <3>3. \A a \in Accounts, h \in Hashes :
            /\ issued[a][h] # None => issued[a][h].certified \in Accounts
            /\ received[a][h] # None => received[a][h].issuer \in Accounts
      BY <1>2 DEF Certificate
    <3>4. received[cert.certified][hash] = cert
      BY <1>2, <1>3, <2>1 DEF CertCopiesAgree
    <3>5. ASSUME NEW a \in Accounts, NEW h \in Hashes, issued'[a][h] # None
          PROVE  /\ issued'[a][h].issuer = a
                 /\ received'[issued'[a][h].certified][h] = issued'[a][h]
      <4>1. CASE a = from /\ h = hash
        <5> HIDE DEF cert
        <5>1. issued'[from][hash] = revoked /\ received'[cert.certified][hash] = revoked
          BY ZenonT(60), <1>3, <2>1, <3>2
        <5> QED BY ZenonT(60), <1>3, <2>1, <4>1, <5>1
      <4>2. CASE ~(a = from /\ h = hash)
        <5>1. issued'[a][h] = issued[a][h] /\ issued[a][h].certified \in Accounts
          BY <3>2, <3>3, <3>5, <4>2
        <5>2. issued[a][h].issuer = a /\ received[issued[a][h].certified][h] = issued[a][h]
          BY <1>2, <3>5, <5>1 DEF CertCopiesAgree
        <5>3. ~(issued[a][h].certified = cert.certified /\ h = hash)
          BY <1>3, <3>4, <2>1, <3>5, <4>2, <5>1, <5>2
        <5> QED BY <3>2, <5>1, <5>2, <5>3
      <4> QED BY <4>1, <4>2
    <3>6. ASSUME NEW a \in Accounts, NEW h \in Hashes, received'[a][h] # None
          PROVE  /\ received'[a][h].certified = a
                 /\ issued'[received'[a][h].issuer][h] = received'[a][h]
      <4>1. CASE a = cert.certified /\ h = hash
        <5> HIDE DEF cert
        <5>1. issued'[from][hash] = revoked /\ received'[cert.certified][hash] = revoked
          BY ZenonT(60), <1>3, <2>1, <3>2
        <5> QED BY ZenonT(60), <1>3, <2>1, <4>1, <5>1
      <4>2. CASE ~(a = cert.certified /\ h = hash)
        <5>1. received'[a][h] = received[a][h] /\ received[a][h].issuer \in Accounts
          BY <3>2, <3>3, <3>6, <4>2
        <5>2. received[a][h].certified = a /\ issued[received[a][h].issuer][h] = received[a][h]
          BY <1>2, <3>6, <5>1 DEF CertCopiesAgree
        <5>3. ~(received[a][h].issuer = from /\ h = hash)
          BY <1>3, <3>4, <2>1, <3>6, <4>2, <5>1, <5>2
        <5> QED BY <3>2, <5>1, <5>2, <5>3
      <4> QED BY <4>1, <4>2
    <3> QED BY <3>1, <3>5, <3>6 DEF CertCopiesAgree
  <2>2. CASE ~ok
    BY ZenonT(60), <1>1, <1>2, <2>2 DEF CertCopiesAgree
  <2> QED BY <1>4, <2>1, <2>2
<1>6. ok => /\ SoundAll(Touched(from, cert.certified), timestamp)
            /\ \A a \in Accounts : SameKeys(Touched(from, cert.certified)[a], acc[a])
  BY <1>3, TouchedSound
<1> HIDE DEF cert
<1> QED BY <1>1, <1>4, <1>5, <1>6, CertRun

\* PayReward: the reward is a natural number.
LEMMA RewardInv ==
  ASSUME IInv, NEW coinbase \in Accounts, PayReward(coinbase)
  PROVE  IInv'
<1> DEFINE reward == calcMintReward(supply)
           x == GetAccount(acc, coinbase)
           r == [x EXCEPT !.balance = @ + reward]
<1>1. /\ acc' = [acc EXCEPT ![coinbase] = r] /\ supply' = supply + reward /\ open' = FALSE
      /\ UNCHANGED <<cand, owner, issued, received, timestamp, usage>>
  BY DEF PayReward
<1>2. reward \in Nat
  <2>1. supply \in Nat /\ InflationDiv \in Nat \ {0} /\ InflationRoundDown \in Nat \ {0}
    BY LedgerAssumption DEF IInv, TypeOK
  <2>2. (supply \div InflationDiv) \div InflationRoundDown \in Nat
    BY <2>1, DivNat
  <2>3. \A m, n \in Nat : m * n \in Nat
    OBVIOUS
  <2> QED BY <2>1, <2>2, <2>3 DEF calcMintReward
<1>3. Sound(x, timestamp) /\ SameKeys(x, acc[coinbase])
  BY GetSound DEF IInv, TypeOK
<1>4. Sound(r, timestamp) /\ SameKeys(r, x)
  <2> HIDE DEF x, reward
  <2>1. x \in Account /\ x.balance + reward \in Nat
    BY <1>2, <1>3 DEF Sound, Account
  <2>2. r \in Account /\ r.points = x.points /\ r.staking = x.staking
        /\ r.unstaking = x.unstaking /\ r.lastUnstaking = x.lastUnstaking
        /\ r.lastPoints = x.lastPoints /\ SameKeys(r, x)
    BY <2>1 DEF Account, SameKeys
  <2> QED BY <1>3, <2>2 DEF Sound
<1> HIDE DEF r, x, reward
<1>5. SoundAll(acc', timestamp') /\ acc' \in [Accounts -> Account]
      /\ \A a \in Accounts : SameKeys(acc'[a], acc[a])
  <2>1. SoundAll(acc, timestamp) /\ acc \in [Accounts -> Account]
    BY DEF IInv, TypeOK
  <2>2. SoundAll([acc EXCEPT ![coinbase] = r], timestamp)
    BY ZenonT(60), <1>4, <2>1, PutSound
  <2> QED BY <1>1, <1>3, <1>4, <2>1, <2>2 DEF SoundAll, SameKeys
<1>6. supply' \in Nat
  BY <1>1, <1>2 DEF IInv, TypeOK
<1>7. CandidateIndex' /\ AliasIndex' /\ IDsNamed' /\ CertCopiesAgree'
  <2>1. \A c \in DOMAIN cand : cand[c].addr \in Accounts
    BY DEF IInv, TypeOK, Candidate
  <2>2. CandidateIndex /\ IDsNamed /\ AliasIndex /\ CertCopiesAgree
    BY ZenonT(60) DEF IInv
  <2>3. /\ UNCHANGED <<cand, owner, issued, received>>
        /\ \A a \in Accounts : acc'[a].candidate = acc[a].candidate /\ acc'[a].alias = acc[a].alias
    BY ZenonT(60), <1>1, <1>5 DEF SameKeys
  <2>4. CandidateIndex' /\ IDsNamed'
    BY ZenonT(60), <2>1, <2>2, <2>3 DEF CandidateIndex, IDsNamed
  <2>5. CertCopiesAgree'
    BY ZenonT(60), <2>2, <2>3 DEF CertCopiesAgree
  <2>6. AliasIndex'
    BY <2>2, <2>3 DEF AliasIndex
  <2> QED BY ZenonT(60), <2>4, <2>5, <2>6
<1> QED BY ZenonT(60), <1>1, <1>5, <1>6, <1>7 DEF IInv, TypeOK

\* InitChild: time moves on, so what is before it stays before it.
LEMMA ChildInv ==
  ASSUME IInv, NEW ts \in Time, InitChild(ts)
  PROVE  IInv'
<1>1. /\ timestamp' = ts /\ ts > timestamp /\ usage' = 0 /\ open' = TRUE
      /\ UNCHANGED <<acc, cand, owner, issued, received, supply>>
  BY DEF InitChild
<1>2. SoundAll(acc', timestamp')
  <2>1. \A a \in Accounts : acc[a].lastPoints \in Int
    BY DEF IInv, TypeOK, Account, Time
  <2>2. ts \in Int /\ timestamp \in Int
    BY DEF IInv, TypeOK, Time
  <2> QED BY <1>1, <2>1, <2>2 DEF IInv, SoundAll, Sound
<1>3. usage' \in 0..BlockLimit /\ timestamp' > 0
  BY <1>1, LedgerAssumption DEF IInv, TypeOK, Time
<1> QED
  BY <1>1, <1>2, <1>3
  DEF IInv, TypeOK, CandidateIndex, IDsNamed, AliasIndex, CertCopiesAgree

\* The genesis block.
LEMMA InitInv ==
  ASSUME Init
  PROVE  IInv
<1>1. timestamp = 0 /\ timestamp \in Time /\ usage \in 0..BlockLimit /\ open = FALSE
      /\ supply \in Nat
  BY LedgerAssumption DEF Init, Time
<1>2. ASSUME NEW a \in Accounts
      PROVE  /\ Sound(acc[a], timestamp)
             /\ acc[a].candidate = IF a \in Producers THEN <<a, 3>> ELSE None
             /\ acc[a].alias = GenesisAlias[a]
  <2>1. acc[a] = GenesisAccount(a)
    BY DEF Init
  <2>2. CASE a \in Producers
    <3>1. Genesis[a] - GenesisStake - 2 * MinCollateral \in Nat
          /\ GenesisStake \in Nat /\ MinCollateral \in Nat /\ GenesisAlias[a] \in Names
          /\ <<a, 3>> \in CandidateIDs
      BY <2>2, LedgerAssumption DEF Producers, CandidateIDs
    <3>2. acc[a] = [balance |-> Genesis[a] - GenesisStake - 2 * MinCollateral,
                    staking |-> GenesisStake, unstaking |-> 0, lastUnstaking |-> 0,
                    points |-> GenesisStake, lastPoints |-> 0, nonce |-> 4,
                    voted |-> {<<a, 3>>}, candidate |-> <<a, 3>>,
                    alias |-> GenesisAlias[a], collateral |-> MinCollateral]
      BY ZenonT(120), <2>1, <2>2 DEF GenesisAccount, newAccount
    <3>3. {<<a, 3>>} \in SUBSET CandidateIDs
      BY <3>1
    <3>4. acc[a] \in Account
      <4> HIDE DEF CandidateIDs
      <4> QED BY <1>1, <3>1, <3>2, <3>3 DEF Account
    <3> QED BY <1>1, <2>2, <3>1, <3>2, <3>4 DEF Sound
  <2>3. CASE a \notin Producers
    <3>1. Genesis[a] \in Nat /\ GenesisAlias[a] = None
      BY <2>3, LedgerAssumption DEF Producers
    <3> QED BY <1>1, <2>1, <2>3, <3>1 DEF GenesisAccount, newAccount, Sound, Account
  <2> QED BY <2>2, <2>3
<1>3. acc \in [Accounts -> Account] /\ SoundAll(acc, timestamp)
  <2>1. acc = [a \in Accounts |-> acc[a]]
    BY DEF Init
  <2> QED BY ZenonT(60), <1>2, <2>1 DEF SoundAll, Sound
<1>4. /\ DOMAIN cand = Producers \X {3} /\ \A c \in DOMAIN cand : cand[c].addr = c[1]
      /\ cand \in [DOMAIN cand -> Candidate] /\ DOMAIN cand \subseteq CandidateIDs
  BY LedgerAssumption DEF Init, Candidate, CandidateIDs, Producers
<1>5. CandidateIndex /\ IDsNamed
  <2>1. \A c \in DOMAIN cand : c[1] \in Producers /\ c = <<c[1], 3>>
    BY <1>4
  <2>2. \A a \in Accounts : acc[a].candidate = IF a \in Producers THEN <<a, 3>> ELSE None
    BY ZenonT(60), <1>2
  <2>3. \A a \in Producers : a \in Accounts /\ <<a, 3>> \in DOMAIN cand /\ <<a, 3>>[1] = a
    BY <1>4 DEF Producers
  <2> QED BY ZenonT(120), <1>4, <2>1, <2>2, <2>3 DEF CandidateIndex, IDsNamed
<1>6. owner \in [Names -> Accounts \cup {None}] /\ AliasIndex
  <2>1. ASSUME NEW n \in Names
        PROVE  /\ owner[n] \in Accounts \cup {None}
               /\ \A a \in Accounts : owner[n] = a <=> GenesisAlias[a] = n
    <3>0. None \notin Accounts /\ None \notin Names
      BY LedgerAssumption
    <3>1. CASE \E a \in Producers : GenesisAlias[a] = n
      <4>1. owner[n] \in Producers /\ GenesisAlias[owner[n]] = n
        BY <3>1 DEF Init
      <4> QED BY <3>0, <4>1, LedgerAssumption DEF Producers
    <3>2. CASE ~ \E a \in Producers : GenesisAlias[a] = n
      BY <3>0, <3>2 DEF Init, Producers
    <3> QED BY <3>1, <3>2
  <2>2. owner = [n \in Names |-> owner[n]]
    BY DEF Init
  <2>3. \A a \in Accounts : acc[a].alias = GenesisAlias[a]
    BY ZenonT(60), <1>2
  <2> QED BY <2>1, <2>2, <2>3 DEF AliasIndex
<1>7. /\ CertCopiesAgree
      /\ issued \in [Accounts -> [Hashes -> Certificate \cup {None}]]
      /\ received \in [Accounts -> [Hashes -> Certificate \cup {None}]]
  BY DEF Init, CertCopiesAgree
<1> QED BY ZenonT(60), <1>1, <1>3, <1>4, <1>5, <1>6, <1>7 DEF IInv, TypeOK

\* One case per transaction and per step of a block.
LEMMA NextInv ==
  ASSUME IInv, [Next]_vars
  PROVE  IInv'
<1>1. CASE UNCHANGED vars
  BY <1>1 DEF vars, IInv, TypeOK, SoundAll, CandidateIndex, IDsNamed, AliasIndex, CertCopiesAgree
<1>2. ASSUME NEW f \in Accounts, NEW p \in Payers(f), Transact(f, p)
      PROVE  IInv'
  <2>1. p \in Accounts \cup {None} /\ Amounts \subseteq Nat /\ Expirations \subseteq Nat
    BY LedgerAssumption DEF Payers
  <2>2. CASE \E v \in Amounts, to \in Accounts : TransferTx(f, p, to, v)
    BY <2>1, <2>2, TransferInv
  <2>3. CASE \E v \in Amounts : StakeTx(f, p, v)
    BY <2>1, <2>3, StakeInv
  <2>4. CASE \E v \in Amounts : UnstakeTx(f, p, v)
    BY <2>1, <2>4, UnstakeInv
  <2>5. CASE \E v \in Amounts : BecomeCandidateTx(f, p, v)
    BY <2>1, <2>5, BecomeInv
  <2>6. CASE \E v \in Amounts, n \in Names : RegisterAliasTx(f, p, n, v)
    BY <2>1, <2>6, RegisterInv
  <2>7. CASE \E ids : VoteTx(f, p, ids)
    BY <2>1, <2>7, VoteInv
  <2>8. CASE QuitCandidateTx(f, p)
    BY <2>1, <2>8, QuitInv
  <2>9. CASE DeregisterAliasTx(f, p)
    BY <2>1, <2>9, DeregisterInv
  <2>10. CASE \E h \in Hashes, to \in Accounts, t \in Expirations : AddCertificationTx(f, p, to, h, t)
    BY <2>1, <2>10, AddCertInv
  <2>11. CASE \E h \in Hashes : RevokeCertificationTx(f, p, h)
    BY <2>1, <2>11, RevokeInv
  <2> QED
    BY ZenonT(60), <1>2, <2>2, <2>3, <2>4, <2>5, <2>6, <2>7, <2>8, <2>9, <2>10, <2>11 DEF Transact
<1>3. CASE \E a \in Coinbases : PayReward(a)
  BY <1>3, LedgerAssumption, RewardInv
<1>4. CASE \E t \in Time : InitChild(t)
  BY <1>4, ChildInv
<1> QED BY <1>1, <1>2, <1>3, <1>4 DEF Next

\* The inductive invariant holds.
LEMMA LedgerInductive == Spec => []IInv
<1>1. Init => IInv
  BY InitInv
<1>2. IInv /\ [Next]_vars => IInv'
  BY NextInv
<1> QED BY <1>1, <1>2, PTL DEF Spec

\* No transaction, executed or rolled back, makes a balance, a stake, points or vote
\* power negative: the checks of every Execute and of AcceptTransaction suffice.
THEOREM TypesHold == Spec => []TypeOK
<1>1. IInv => TypeOK
  BY DEF IInv
<1> QED BY <1>1, LedgerInductive, PTL

\* currentPoints never underflows, so GetAccount never fails on an account for good.
THEOREM PointsStayWithinStake == Spec => []PointsWithinStake
<1>1. IInv => PointsWithinStake
  BY DEF IInv, SoundAll, Sound, PointsWithinStake
<1> QED BY <1>1, LedgerInductive, PTL

\* updateUnstaking never takes pending coins for none.
THEOREM UnstakingIsDated == Spec => []UnstakingDated
<1>1. IInv => UnstakingDated
  BY DEF IInv, SoundAll, Sound, UnstakingDated
<1> QED BY <1>1, LedgerInductive, PTL

\* Accounts and candidate state agree on who is a candidate, through every
\* BecomeCandidateTx and QuitCandidateTx.
THEOREM CandidatesIndexed == Spec => []CandidateIndex
<1>1. IInv => CandidateIndex
  BY DEF IInv
<1> QED BY <1>1, LedgerInductive, PTL

\* No alias has two owners and no account is indexed under an alias it gave up:
\* RegisterAliasTx, DeregisterAliasTx, DelAccountAlias.
THEOREM AliasesIndexed == Spec => []AliasIndex
<1>1. IInv => AliasIndex
  BY DEF IInv
<1> QED BY <1>1, LedgerInductive, PTL

\* The two copies of a certificate never differ: AddCertificationTx,
\* RevokeCertificationTx.
THEOREM CertificatesAgree == Spec => []CertCopiesAgree
<1>1. IInv => CertCopiesAgree
  BY DEF IInv
<1> QED BY <1>1, LedgerInductive, PTL

(***************************************************************************)
(* The sums of the ledger.                                                 *)
(***************************************************************************)
Coins(A) == SumFunction([a \in Accounts |-> Holdings(A[a])])

Voters(A, c) == {a \in Accounts : c \in A[a].voted}

Power(A, c) == SumFunctionOnSet([a \in Accounts |-> A[a].staking], Voters(A, c))

\* What a voter adds to the power of c.
Share(r, c) == IF c \in r.voted THEN r.staking ELSE 0

Collaterals(C) == SumFunction([c \in DOMAIN C |-> C[c].collateral])

\* Two accounts that count the same in every sum.
SameCoins(r, s) ==
  /\ Holdings(r) = Holdings(s) /\ r.staking = s.staking /\ r.voted = s.voted
  /\ r.alias = s.alias /\ r.collateral = s.collateral

\* What an account holds is a natural number.
LEMMA HoldingsNat ==
  ASSUME NEW r \in Account
  PROVE  Holdings(r) \in Nat /\ r.staking \in Nat /\ r.nonce \in Nat
  BY DEF Holdings, Account

\* The accounts' sums are integers.
LEMMA CoinsType ==
  ASSUME NEW A \in [Accounts -> Account]
  PROVE  Coins(A) \in Int /\ \A c : Power(A, c) \in Int
<1> DEFINE g == [a \in Accounts |-> Holdings(A[a])]
           k == [a \in Accounts |-> A[a].staking]
<1>1. \A a \in Accounts : g[a] \in Int /\ k[a] \in Int
  BY HoldingsNat
<1>2. IsFiniteSet(Accounts) /\ \A c : IsFiniteSet(Voters(A, c)) /\ Voters(A, c) \subseteq Accounts
  BY LedgerAssumption, PartIsFinite DEF Voters
<1>3. Coins(A) = SumFunctionOnSet(g, Accounts)
  BY DEF Coins, SumFunction
<1>4. \A c : Power(A, c) = SumFunctionOnSet(k, Voters(A, c))
  BY DEF Power
<1> HIDE DEF g, k
<1>5. SumFunctionOnSet(g, Accounts) \in Int
  BY <1>1, <1>2, SumType
<1>6. ASSUME NEW c PROVE Power(A, c) \in Int
  <2>1. IsFiniteSet(Voters(A, c)) /\ \A a \in Voters(A, c) : k[a] \in Int
    BY <1>1, <1>2
  <2> QED BY <1>4, <2>1, SumType
<1> QED BY <1>3, <1>5, <1>6

\* One account changes what it holds.
LEMMA CoinsMove ==
  ASSUME NEW A \in [Accounts -> Account], NEW B \in [Accounts -> Account], NEW x \in Accounts,
         \A a \in Accounts \ {x} : Holdings(B[a]) = Holdings(A[a])
  PROVE  Coins(B) = Coins(A) + (Holdings(B[x]) - Holdings(A[x]))
<1> DEFINE g == [a \in Accounts |-> Holdings(A[a])]
           h == [a \in Accounts |-> Holdings(B[a])]
<1>1. \A a \in Accounts : g[a] \in Int /\ h[a] \in Int
  BY HoldingsNat
<1>2. Coins(A) = SumFunctionOnSet(g, Accounts) /\ Coins(B) = SumFunctionOnSet(h, Accounts)
  BY DEF Coins, SumFunction
<1>3. g[x] = Holdings(A[x]) /\ h[x] = Holdings(B[x]) /\ \A a \in Accounts \ {x} : h[a] = g[a]
  OBVIOUS
<1>4. IsFiniteSet(Accounts)
  BY LedgerAssumption
<1> HIDE DEF g, h
<1>5. SumFunctionOnSet(h, Accounts) = SumFunctionOnSet(g, Accounts) + (h[x] - g[x])
  BY <1>1, <1>3, <1>4, SumUpdate
<1> QED BY <1>2, <1>3, <1>5

\* No account changes what it holds.
LEMMA CoinsSame ==
  ASSUME NEW A, NEW B, \A a \in Accounts : Holdings(B[a]) = Holdings(A[a])
  PROVE  Coins(B) = Coins(A)
<1>1. [a \in Accounts |-> Holdings(B[a])] = [a \in Accounts |-> Holdings(A[a])]
  OBVIOUS
<1> QED BY <1>1, Zenon DEF Coins

\* One account changes its votes or its stake.
LEMMA PowerMove ==
  ASSUME NEW A \in [Accounts -> Account], NEW B \in [Accounts -> Account], NEW x \in Accounts,
         \A a \in Accounts \ {x} : B[a].staking = A[a].staking /\ B[a].voted = A[a].voted, NEW c
  PROVE  Power(B, c) = Power(A, c) - Share(A[x], c) + Share(B[x], c)
<1> DEFINE g == [a \in Accounts |-> A[a].staking]
           h == [a \in Accounts |-> B[a].staking]
           V == Voters(A, c)
           W == Voters(B, c)
<1>1. \A a \in Accounts : g[a] \in Int /\ h[a] \in Int
  BY HoldingsNat
<1>2. Power(A, c) = SumFunctionOnSet(g, V) /\ Power(B, c) = SumFunctionOnSet(h, W)
  BY DEF Power
<1>3. /\ V \subseteq Accounts /\ W \subseteq Accounts /\ \A y : y # x => (y \in V <=> y \in W)
      /\ x \in V <=> c \in A[x].voted
      /\ x \in W <=> c \in B[x].voted
  BY DEF Voters
<1>4. IsFiniteSet(V) /\ IsFiniteSet(W)
  BY <1>3, LedgerAssumption, PartIsFinite
<1>5. g[x] = A[x].staking /\ h[x] = B[x].staking /\ \A a \in Accounts \ {x} : h[a] = g[a]
  OBVIOUS
<1>6. (\A y \in V : g[y] \in Int) /\ (\A y \in W : h[y] \in Int)
  BY <1>1, <1>3
<1>7. V \ {x} = W \ {x} /\ IsFiniteSet(V \ {x}) /\ \A y \in V \ {x} : h[y] = g[y]
  BY <1>3, <1>4, <1>5, PartIsFinite
<1> DEFINE rest == SumFunctionOnSet(g, V \ {x})
<1> HIDE DEF g, h, V, W
<1>8. rest = SumFunctionOnSet(h, W \ {x})
  <2> DEFINE U == V \ {x}
  <2>1. IsFiniteSet(U) /\ \A y \in U : g[y] = h[y]
    BY <1>7
  <2> HIDE DEF U
  <2>2. SumFunctionOnSet(g, U) = SumFunctionOnSet(h, U)
    BY <2>1, SumSame
  <2> QED BY ZenonT(60), <1>7, <2>2 DEF U
<1>9. /\ rest \in Int
      /\ x \in V => SumFunctionOnSet(g, V) = g[x] + rest
      /\ x \notin V => SumFunctionOnSet(g, V) = rest
  BY ZenonT(60), <1>4, <1>6, SumSplit
<1>10. /\ x \in W => SumFunctionOnSet(h, W) = h[x] + rest
       /\ x \notin W => SumFunctionOnSet(h, W) = rest
  BY SMTT(60), <1>4, <1>6, <1>8, SumSplit
<1> HIDE DEF rest
<1>11. g[x] \in Int /\ h[x] \in Int
  BY <1>1
<1>12. Share(A[x], c) \in Int /\ Power(A, c) = Share(A[x], c) + rest
  BY <1>2, <1>3, <1>5, <1>9, <1>11 DEF Share
<1>13. Share(B[x], c) \in Int /\ Power(B, c) = Share(B[x], c) + rest
  BY <1>2, <1>3, <1>5, <1>9, <1>10, <1>11 DEF Share
<1> QED BY <1>9, <1>12, <1>13

\* No account changes its votes or its stake.
LEMMA PowerSame ==
  ASSUME NEW A, NEW B, NEW c,
         \A a \in Accounts : B[a].staking = A[a].staking /\ B[a].voted = A[a].voted
  PROVE  Power(B, c) = Power(A, c)
<1>1. [a \in Accounts |-> B[a].staking] = [a \in Accounts |-> A[a].staking]
  OBVIOUS
<1>2. Voters(A, c) = Voters(B, c)
  BY DEF Voters
<1> QED BY <1>1, <1>2, Zenon DEF Power

(***************************************************************************)
(* Reading accounts and running transactions moves no coins.               *)
(***************************************************************************)

\* The fields of an account.
Fields == {"balance", "staking", "unstaking", "lastUnstaking", "points", "lastPoints",
           "nonce", "voted", "candidate", "alias", "collateral"}

\* What reading an account changes adds up to nothing: updatePoints, updateUnstaking.
LEMMA GetCoins ==
  ASSUME NEW A, NEW a \in Accounts, A[a] \in Account
  PROVE  /\ SameCoins(GetAccount(A, a), A[a])
         /\ GetAccount(A, a).nonce = A[a].nonce /\ DOMAIN GetAccount(A, a) = Fields
<1> DEFINE x == A[a]
           u == updatePoints(x, timestamp)
           r == updateUnstaking(u, timestamp)
<1>1. /\ u.balance = x.balance /\ u.staking = x.staking /\ u.unstaking = x.unstaking
      /\ u.collateral = x.collateral /\ u.voted = x.voted /\ u.nonce = x.nonce
      /\ u.lastUnstaking = x.lastUnstaking /\ u.alias = x.alias /\ DOMAIN u = Fields
  BY DEF updatePoints, Account, Fields
<1>2. x.balance \in Nat /\ x.staking \in Nat /\ x.unstaking \in Nat /\ x.collateral \in Nat
  BY DEF Account
<1> HIDE DEF x, u
<1>3. CASE r = u
  BY ZenonT(60), <1>1, <1>3 DEF SameCoins, Holdings, GetAccount, x, u
<1>4. CASE r = [u EXCEPT !.balance = @ + u.unstaking, !.unstaking = 0, !.lastUnstaking = 0]
  <2>2. /\ r.balance = u.balance + u.unstaking /\ r.unstaking = 0 /\ r.staking = u.staking
        /\ r.collateral = u.collateral /\ r.voted = u.voted /\ r.nonce = u.nonce
        /\ r.alias = u.alias /\ DOMAIN r = Fields
    BY <1>1, <1>4 DEF Fields
  <2> HIDE DEF r
  <2>3. SameCoins(r, x) /\ r.nonce = x.nonce /\ DOMAIN r = Fields
    BY <1>1, <1>2, <2>2 DEF SameCoins, Holdings
  <2> QED BY <2>3 DEF GetAccount, r, x, u
<1> QED BY <1>3, <1>4 DEF updateUnstaking

\* Charging a transaction moves no coins, and no nonce goes down.  The sender's goes up,
\* unless it pays for itself as a payer: AcceptTransaction.
LEMMA RunCoins ==
  ASSUME NEW from \in Accounts, NEW payer \in Accounts \cup {None}, NEW change,
         NEW ok \in BOOLEAN, NEW A, acc \in [Accounts -> Account],
         ok => A \in [Accounts -> Account], Run(from, payer, change, ok, A)
  PROVE  \A a \in Accounts :
           LET b == IF ok THEN A[a] ELSE acc[a]
           IN /\ SameCoins(acc'[a], b) /\ acc'[a].nonce >= b.nonce
              /\ a = from /\ payer # from => acc'[a].nonce = b.nonce + 1
<1> DEFINE B == IF ok THEN A ELSE acc
           f == GetAccount(B, from)
           p == GetAccount(B, payer)
           f1 == [f EXCEPT !.nonce = @ + 1]
           f2 == [f EXCEPT !.nonce = @ + 1, !.points = @ - Usage]
           p1 == [p EXCEPT !.points = @ - Usage]
<1>1. B \in [Accounts -> Account] /\ \A a \in Accounts : B[a] = IF ok THEN A[a] ELSE acc[a]
  OBVIOUS
<1>2. acc' = Charged(B, from, payer)
  BY DEF Run
<1> HIDE DEF B
<1>3. SameCoins(f, B[from]) /\ f.nonce = B[from].nonce /\ DOMAIN f = Fields
  BY ZenonT(60), <1>1, GetCoins
<1>4. \A a \in Accounts : B[a].nonce \in Nat /\ SameCoins(B[a], B[a])
  BY <1>1, HoldingsNat DEF SameCoins
<1>5. SameCoins(f1, f) /\ f1.nonce = f.nonce + 1 /\ SameCoins(f2, f) /\ f2.nonce = f.nonce + 1
  <2> HIDE DEF f
  <2> QED BY <1>3 DEF Fields, SameCoins, Holdings
<1>6. CASE payer = None
  <2>1. acc' = [B EXCEPT ![from] = f2] /\ payer # from
    BY <1>2, <1>6, LedgerAssumption DEF Charged
  <2> HIDE DEF f2, f
  <2>2. \A a \in Accounts : acc'[a] = IF a = from THEN f2 ELSE B[a]
    BY <1>1, <2>1
  <2> QED BY <1>1, <1>3, <1>4, <1>5, <2>2 DEF SameCoins
<1>7. CASE payer \in Accounts
  <2>1. payer # None
    BY <1>7, LedgerAssumption
  <2>2. acc' = [B EXCEPT ![from] = f1, ![payer] = p1]
    BY <1>2, <2>1 DEF Charged
  <2>3. SameCoins(p, B[payer]) /\ p.nonce = B[payer].nonce /\ DOMAIN p = Fields
    BY ZenonT(60), <1>1, <1>7, GetCoins
  <2>4. SameCoins(p1, p) /\ p1.nonce = p.nonce
    <3> HIDE DEF p
    <3> QED BY <2>3 DEF Fields, SameCoins, Holdings
  <2> HIDE DEF f1, f, p1, p
  <2>5. \A a \in Accounts : acc'[a] = IF a = payer THEN p1 ELSE IF a = from THEN f1 ELSE B[a]
    BY <1>1, <2>2
  <2> QED BY <1>1, <1>3, <1>4, <1>5, <2>3, <2>4, <2>5 DEF SameCoins
<1> QED BY ZenonT(60), <1>6, <1>7

(***************************************************************************)
(* The inductive invariant.  An ID that was voted for stays voted for when *)
(* its candidate quits, and a new candidate starts without power: its ID   *)
(* must be one that nobody voted for.  IDs carry the nonce of their        *)
(* transaction, so it is enough that those in use are not ahead.           *)
(***************************************************************************)
IDsUsed ==
  /\ \A c \in DOMAIN cand : c[2] <= acc[c[1]].nonce
  /\ \A a \in Accounts : \A c \in acc[a].voted : c[2] <= acc[c[1]].nonce

Votes == VotePowerIsStake /\ IDsUsed

\* RegisterAliasTx overwrites the collateral: there is none without an alias.
AliasBacked == \A a \in Accounts : acc[a].alias = None => acc[a].collateral = 0

SumInv ==
  /\ IsFiniteSet(DOMAIN cand)
  /\ Conservation
  /\ AliasBacked
  /\ SelfPay \/ Votes

\* The sums after a step that makes q of the account from and leaves the other
\* accounts' coins, stakes and votes alone.
Moved(from, q) ==
  /\ Coins(acc') = Coins(acc) + (Holdings(q) - Holdings(acc[from]))
  /\ \A c : Power(acc', c) = Power(acc, c) - Share(acc[from], c) + Share(q, c)
  /\ acc'[from].voted = q.voted
  /\ acc'[from].alias = q.alias /\ acc'[from].collateral = q.collateral
  /\ \A a \in Accounts \ {from} :
       /\ acc'[a].voted = acc[a].voted
       /\ acc'[a].alias = acc[a].alias /\ acc'[a].collateral = acc[a].collateral
  /\ \A a \in Accounts : acc'[a].nonce >= acc[a].nonce

\* A transaction that changes one account moves what that account gains or loses.
LEMMA RunMoves ==
  ASSUME IInv, IInv', NEW from \in Accounts, NEW payer \in Accounts \cup {None}, NEW change,
         NEW ok \in BOOLEAN, NEW r, Run(from, payer, change, ok, [acc EXCEPT ![from] = r]),
         ok => r \in Account /\ r.nonce = acc[from].nonce
  PROVE  /\ Moved(from, IF ok THEN r ELSE acc[from])
         /\ payer # from => acc'[from].nonce = acc[from].nonce + 1
<1> DEFINE A == [acc EXCEPT ![from] = r]
           q == IF ok THEN r ELSE acc[from]
<1>1. acc \in [Accounts -> Account] /\ acc' \in [Accounts -> Account]
  BY ZenonT(60) DEF IInv, TypeOK
<1>2. ok => A \in [Accounts -> Account]
  BY <1>1
<1>3. \A a \in Accounts : (IF ok THEN A[a] ELSE acc[a]) = IF a = from THEN q ELSE acc[a]
  BY <1>1
<1>4. Run(from, payer, change, ok, A)
  OBVIOUS
<1> HIDE DEF A
<1>5. \A a \in Accounts :
        LET b == IF ok THEN A[a] ELSE acc[a]
        IN /\ SameCoins(acc'[a], b) /\ acc'[a].nonce >= b.nonce
           /\ a = from /\ payer # from => acc'[a].nonce = b.nonce + 1
  BY <1>1, <1>2, <1>4, RunCoins, ZenonT(60)
<1>6. q.nonce = acc[from].nonce
  OBVIOUS
<1> HIDE DEF q
<1>7. /\ SameCoins(acc'[from], q) /\ (payer # from => acc'[from].nonce = acc[from].nonce + 1)
      /\ \A a \in Accounts \ {from} : SameCoins(acc'[a], acc[a])
      /\ \A a \in Accounts : acc'[a].nonce >= acc[a].nonce
  BY ZenonT(60), <1>3, <1>5, <1>6
<1>8. Coins(acc') = Coins(acc) + (Holdings(q) - Holdings(acc[from]))
  <2>1. Coins(acc') = Coins(acc) + (Holdings(acc'[from]) - Holdings(acc[from]))
    BY ZenonT(60), <1>1, <1>7, CoinsMove DEF SameCoins
  <2> QED BY ZenonT(60), <1>7, <2>1 DEF SameCoins
<1>9. ASSUME NEW c
      PROVE  Power(acc', c) = Power(acc, c) - Share(acc[from], c) + Share(q, c)
  <2>1. Power(acc', c) = Power(acc, c) - Share(acc[from], c) + Share(acc'[from], c)
    BY SMTT(60), <1>1, <1>7, PowerMove DEF SameCoins
  <2>2. Share(acc'[from], c) = Share(q, c)
    BY <1>7 DEF SameCoins, Share
  <2> QED BY <2>1, <2>2
<1>10. Moved(from, q)
  BY ZenonT(60), <1>7, <1>8, <1>9 DEF Moved, SameCoins
<1> QED BY ZenonT(60), <1>7, <1>10 DEF q

\* Coins that leave the account and come back as collateral, or the other way round.
LEMMA CoinsKept ==
  ASSUME IInv, Conservation, NEW from \in Accounts, NEW q \in Account, Moved(from, q),
         supply' = supply, Collaterals(cand) \in Int, Collaterals(cand') \in Int,
         Holdings(q) + Collaterals(cand') = Holdings(acc[from]) + Collaterals(cand)
  PROVE  Conservation'
<1>1. supply = Coins(acc) + Collaterals(cand)
  BY DEF Conservation, Coins, Collaterals
<1>2. Conservation' <=> supply' = Coins(acc') + Collaterals(cand')
  BY DEF Conservation, Coins, Collaterals
<1>3. acc \in [Accounts -> Account]
  BY DEF IInv, TypeOK
<1>4. Coins(acc) \in Int /\ Holdings(q) \in Int /\ Holdings(acc[from]) \in Int
  BY <1>3, CoinsType, HoldingsNat
<1>5. Coins(acc') = Coins(acc) + (Holdings(q) - Holdings(acc[from]))
  BY DEF Moved
<1> QED BY <1>1, <1>2, <1>4, <1>5

\* Vote power that moves as the votes and the stake of one account do.
LEMMA VotesKept ==
  ASSUME IInv, IInv', Votes, NEW from \in Accounts, NEW q, Moved(from, q),
         DOMAIN cand' \subseteq DOMAIN cand, q.voted \subseteq acc[from].voted \cup DOMAIN cand,
         \A c \in DOMAIN cand' :
           cand'[c].votePower = cand[c].votePower - Share(acc[from], c) + Share(q, c)
  PROVE  Votes'
<1>1. ASSUME NEW c \in DOMAIN cand'
      PROVE  cand'[c].votePower = Power(acc', c)
  <2>1. cand[c].votePower = Power(acc, c)
    BY DEF Votes, VotePowerIsStake, Power, Voters
  <2> QED BY <2>1 DEF Moved
<1>2. VotePowerIsStake'
  BY <1>1 DEF VotePowerIsStake, Power, Voters
<1>3. /\ \A c \in DOMAIN cand : c[1] \in Accounts /\ c[2] \in Nat
      /\ \A a \in Accounts : \A c \in acc[a].voted : c[1] \in Accounts /\ c[2] \in Nat
      /\ \A a \in Accounts : acc[a].nonce \in Nat /\ acc'[a].nonce \in Nat
  BY DEF IInv, TypeOK, Account, CandidateIDs
<1>4. \A c : c[1] \in Accounts /\ c[2] \in Nat /\ c[2] <= acc[c[1]].nonce => c[2] <= acc'[c[1]].nonce
  BY <1>3 DEF Moved
<1>5. \A a \in Accounts : \A c \in acc'[a].voted :
        c \in DOMAIN cand \/ \E b \in Accounts : c \in acc[b].voted
  BY ZenonT(60) DEF Moved
<1>6. IDsUsed'
  BY ZenonT(60), <1>3, <1>4, <1>5 DEF IDsUsed, Votes
<1> QED BY <1>2, <1>6 DEF Votes

\* The sum of the collaterals is an integer, and depends on the collaterals only.
LEMMA CollateralsSame ==
  ASSUME NEW C, NEW D, DOMAIN D = DOMAIN C, IsFiniteSet(DOMAIN C), C \in [DOMAIN C -> Candidate],
         \A c \in DOMAIN C : D[c].collateral = C[c].collateral
  PROVE  Collaterals(D) = Collaterals(C) /\ Collaterals(C) \in Int
<1> DEFINE g == [c \in DOMAIN C |-> C[c].collateral]
<1>1. g = [c \in DOMAIN D |-> D[c].collateral] /\ \A c \in DOMAIN C : g[c] \in Int
  BY DEF Candidate
<1>2. Collaterals(C) = SumFunctionOnSet(g, DOMAIN C) /\ Collaterals(D) = SumFunction(g)
  BY <1>1, Zenon DEF Collaterals, SumFunction
<1>3. SumFunction(g) = SumFunctionOnSet(g, DOMAIN C)
  BY DEF SumFunction
<1> HIDE DEF g
<1> QED BY <1>1, <1>2, <1>3, SumType

\* One candidate more, or one less.
LEMMA CollateralsMove ==
  ASSUME NEW C, NEW D, NEW id \in DOMAIN D, DOMAIN C = DOMAIN D \ {id}, IsFiniteSet(DOMAIN D),
         D \in [DOMAIN D -> Candidate], \A c \in DOMAIN C : C[c] = D[c]
  PROVE  /\ Collaterals(D) = D[id].collateral + Collaterals(C)
         /\ Collaterals(C) \in Int /\ Collaterals(D) \in Int
<1> DEFINE g == [c \in DOMAIN D |-> D[c].collateral]
           h == [c \in DOMAIN C |-> C[c].collateral]
           S == DOMAIN D
           T == DOMAIN C
<1>1. /\ \A c \in S : g[c] \in Int
      /\ \A c \in T : h[c] = g[c]
      /\ g[id] = D[id].collateral /\ g[id] \in Int
  BY DEF Candidate
<1>2. Collaterals(D) = SumFunctionOnSet(g, S) /\ Collaterals(C) = SumFunctionOnSet(h, T)
  BY DEF Collaterals, SumFunction
<1>3. IsFiniteSet(T) /\ T = S \ {id} /\ id \in S
  BY PartIsFinite
<1> HIDE DEF g, h, S, T
<1>4. SumFunctionOnSet(h, T) = SumFunctionOnSet(g, T)
  BY <1>1, <1>3, SumSame
<1>5. SumFunctionOnSet(g, T) \in Int /\ SumFunctionOnSet(g, S) = g[id] + SumFunctionOnSet(g, T)
  BY <1>1, <1>3, SumSplit DEF S
<1> QED BY <1>1, <1>2, <1>4, <1>5

\* What ChangeVotePower adds and what it leaves alone.
LEMMA ChangeVotePowerAdds ==
  ASSUME NEW C, NEW ids, NEW amount, C \in [DOMAIN C -> Candidate]
  PROVE  /\ DOMAIN ChangeVotePower(C, ids, amount) = DOMAIN C
         /\ \A c \in DOMAIN C :
              LET d == ChangeVotePower(C, ids, amount)[c]
              IN /\ d.collateral = C[c].collateral
                 /\ d.votePower = IF c \in ids THEN C[c].votePower + amount ELSE C[c].votePower
<1> DEFINE D == ChangeVotePower(C, ids, amount)
<1>1. DOMAIN D = DOMAIN C
  BY DEF ChangeVotePower
<1>2. ASSUME NEW c \in DOMAIN C
      PROVE  /\ D[c].collateral = C[c].collateral
             /\ D[c].votePower = IF c \in ids THEN C[c].votePower + amount ELSE C[c].votePower
  <2>1. C[c] \in Candidate
    OBVIOUS
  <2>2. CASE c \in ids
    <3>1. D[c] = [C[c] EXCEPT !.votePower = @ + amount]
      BY <2>2 DEF ChangeVotePower
    <3> QED BY <2>1, <2>2, <3>1 DEF Candidate
  <2>3. CASE c \notin ids
    BY <2>3 DEF ChangeVotePower
  <2> QED BY <2>2, <2>3
<1> QED BY <1>1, <1>2

\* A record that may replace the account from without changing what it owns.
Kept(from, r) ==
  /\ r \in Account /\ r.nonce = acc[from].nonce /\ Holdings(r) = Holdings(acc[from])
  /\ r.voted \subseteq acc[from].voted \cup DOMAIN cand
  /\ r.alias = None => r.collateral = 0

\* The candidates lose the votes of the account from and gain those of r.
Revoted(from, r) ==
  \A c \in DOMAIN cand :
    cand'[c].votePower = cand[c].votePower - Share(acc[from], c) + Share(r, c)

\* A transaction that leaves what the account owns, together with its vote power.
\* StakeTx, UnstakeTx and VoteTx are of this form.
LEMMA VotingSum ==
  ASSUME IInv, IInv', SumInv, NEW from \in Accounts, NEW payer \in Accounts \cup {None},
         NEW change, NEW ok \in BOOLEAN, NEW r,
         Run(from, payer, change, ok, [acc EXCEPT ![from] = r]),
         ok => Kept(from, r) /\ Revoted(from, r),
         ~ok => cand' = cand,
         DOMAIN cand' = DOMAIN cand,
         \A c \in DOMAIN cand : cand'[c].collateral = cand[c].collateral
  PROVE  SumInv'
<1> DEFINE q == IF ok THEN r ELSE acc[from]
<1>1. acc[from] \in Account /\ cand \in [DOMAIN cand -> Candidate]
  BY DEF IInv, TypeOK
<1>2. Moved(from, q) /\ supply' = supply
  BY ZenonT(60), RunMoves DEF Run, Kept
<1>3. q \in Account /\ Holdings(q) = Holdings(acc[from])
      /\ q.voted \subseteq acc[from].voted \cup DOMAIN cand
  BY <1>1 DEF Kept
<1>4. \A c \in DOMAIN cand :
        cand'[c].votePower = cand[c].votePower - Share(acc[from], c) + Share(q, c)
  <2>1. CASE ok
    BY ZenonT(60), <2>1 DEF Revoted
  <2>2. CASE ~ok
    <3>1. \A c : Share(acc[from], c) \in Int
      BY <1>1, HoldingsNat DEF Share
    <3>2. \A c \in DOMAIN cand : cand[c].votePower \in Int
      BY <1>1 DEF Candidate
    <3> QED BY <2>2, <3>1, <3>2
  <2> QED BY <2>1, <2>2
<1>5. Collaterals(cand') = Collaterals(cand) /\ Collaterals(cand) \in Int
  BY <1>1, CollateralsSame DEF SumInv
<1> HIDE DEF q
<1>6. Conservation'
  BY <1>2, <1>3, <1>5, CoinsKept DEF SumInv
<1>7. Votes => Votes'
  BY ZenonT(60), <1>2, <1>3, <1>4, VotesKept
<1>8. q.alias = None => q.collateral = 0
  BY DEF q, SumInv, AliasBacked, Kept
<1>9. AliasBacked'
  BY ZenonT(60), <1>2, <1>8 DEF SumInv, AliasBacked, Moved
<1> QED BY <1>6, <1>7, <1>9 DEF SumInv

\* StakeTx.Execute: balance becomes stake, and the candidates voted for gain it.
LEMMA StakeSum ==
  ASSUME IInv, IInv', SumInv, NEW from \in Accounts, NEW payer \in Accounts \cup {None},
         NEW amount \in Nat, StakeTx(from, payer, amount)
  PROVE  SumInv'
<1> DEFINE user == GetAccount(acc, from)
           ok == user.balance >= amount
           r == [user EXCEPT !.balance = @ - amount, !.staking = @ + amount, !.points = @ + amount]
<1>1. Run(from, payer, amount, ok, [acc EXCEPT ![from] = r])
      /\ cand' = (IF ok THEN ChangeVotePower(cand, user.voted, amount) ELSE cand)
  BY DEF StakeTx
<1>2. user \in Account /\ SameCoins(user, acc[from]) /\ user.nonce = acc[from].nonce
      /\ acc[from] \in Account /\ cand \in [DOMAIN cand -> Candidate]
  BY ZenonT(60), GetSound, GetCoins DEF IInv, TypeOK, Sound
<1>3. ok \in BOOLEAN
  OBVIOUS
<1> HIDE DEF user
<1>4. ASSUME ok
      PROVE  /\ r \in Account /\ r.nonce = acc[from].nonce /\ Holdings(r) = Holdings(acc[from])
             /\ r.voted = acc[from].voted /\ r.staking = acc[from].staking + amount
             /\ r.alias = acc[from].alias /\ r.collateral = acc[from].collateral
  <2>1. user.balance \in Nat /\ user.staking \in Nat /\ user.unstaking \in Nat
        /\ user.collateral \in Nat /\ user.points \in Nat
    BY <1>2 DEF Account
  <2>2. user.balance - amount \in Nat /\ user.staking + amount \in Nat /\ user.points + amount \in Nat
    BY <1>4, <2>1
  <2>3. /\ r \in Account /\ r.balance = user.balance - amount /\ r.staking = user.staking + amount
        /\ r.unstaking = user.unstaking /\ r.collateral = user.collateral
        /\ r.voted = user.voted /\ r.nonce = user.nonce /\ r.alias = user.alias
    BY ZenonT(60), <1>2, <2>2 DEF Account
  <2> HIDE DEF r
  <2>4. Holdings(r) = Holdings(user)
    BY <2>1, <2>3 DEF Holdings
  <2> QED BY <1>2, <2>3, <2>4 DEF SameCoins
<1>5. /\ DOMAIN cand' = DOMAIN cand
      /\ \A c \in DOMAIN cand : cand'[c].collateral = cand[c].collateral
  BY <1>1, <1>2, ChangeVotePowerAdds
<1>6. ASSUME ok, NEW c \in DOMAIN cand
      PROVE  cand'[c].votePower = cand[c].votePower - Share(acc[from], c) + Share(r, c)
  <2>1. cand'[c].votePower =
          IF c \in user.voted THEN cand[c].votePower + amount ELSE cand[c].votePower
    BY <1>1, <1>2, <1>6, ChangeVotePowerAdds
  <2>2. cand[c].votePower \in Int /\ acc[from].staking \in Int /\ user.voted = acc[from].voted
    BY <1>2 DEF Candidate, Account, SameCoins
  <2> HIDE DEF r
  <2>3. user.voted = acc[from].voted /\ r.voted = acc[from].voted /\ r.staking = acc[from].staking + amount
    BY ZenonT(60), <1>4, <1>6, <2>2
  <2> HIDE DEF ok
  <2>4. CASE c \in acc[from].voted
    <3>1. /\ cand'[c].votePower = cand[c].votePower + amount
          /\ Share(acc[from], c) = acc[from].staking /\ Share(r, c) = acc[from].staking + amount
      BY ZenonT(60), <2>1, <2>3, <2>4 DEF Share
    <3> QED BY <2>2, <3>1
  <2>5. CASE c \notin acc[from].voted
    <3>1. /\ cand'[c].votePower = cand[c].votePower
          /\ Share(acc[from], c) = 0 /\ Share(r, c) = 0
      BY ZenonT(60), <2>1, <2>3, <2>5 DEF Share
    <3> QED BY <2>2, <3>1
  <2> QED BY ZenonT(60), <2>4, <2>5
<1> HIDE DEF ok, r
<1>7. acc[from].alias = None => acc[from].collateral = 0
  BY DEF SumInv, AliasBacked
<1>8. (ok => Kept(from, r) /\ Revoted(from, r)) /\ (~ok => cand' = cand)
  BY <1>1, <1>4, <1>6, <1>7 DEF Kept, Revoted
<1> QED BY ZenonT(60), <1>1, <1>3, <1>5, <1>8, VotingSum

\* UnstakeTx.Execute: stake becomes coins on their way back.
LEMMA UnstakeSum ==
  ASSUME IInv, IInv', SumInv, NEW from \in Accounts, NEW payer \in Accounts \cup {None},
         NEW amount \in Nat, UnstakeTx(from, payer, amount)
  PROVE  SumInv'
<1> DEFINE account == GetAccount(acc, from)
           ok == account.staking >= amount /\ Subtractable(cand, account.voted, amount)
           r == [account EXCEPT !.staking = @ - amount, !.unstaking = @ + amount,
                                !.lastUnstaking = timestamp,
                                !.points = Least(@, account.staking - amount)]
<1>1. Run(from, payer, -amount, ok, [acc EXCEPT ![from] = r])
      /\ cand' = (IF ok THEN ChangeVotePower(cand, account.voted, -amount) ELSE cand)
  BY DEF UnstakeTx
<1>2. account \in Account /\ SameCoins(account, acc[from]) /\ account.nonce = acc[from].nonce
      /\ acc[from] \in Account /\ cand \in [DOMAIN cand -> Candidate] /\ timestamp \in Time
  BY GetSound, GetCoins DEF IInv, TypeOK, Sound
<1>3. ok \in BOOLEAN
  BY DEF Subtractable
<1> HIDE DEF account
<1>4. ASSUME ok
      PROVE  /\ r \in Account /\ r.nonce = acc[from].nonce /\ Holdings(r) = Holdings(acc[from])
             /\ r.voted = acc[from].voted /\ r.staking = acc[from].staking - amount
             /\ r.alias = acc[from].alias /\ r.collateral = acc[from].collateral
  <2>1. account.balance \in Nat /\ account.staking \in Nat /\ account.unstaking \in Nat
        /\ account.collateral \in Nat /\ account.points \in Nat
    BY <1>2 DEF Account
  <2> DEFINE pts == Least(account.points, account.staking - amount)
  <2>2. account.staking - amount \in Nat /\ account.unstaking + amount \in Nat /\ pts \in Nat
    BY <1>4, <2>1 DEF Least
  <2> HIDE DEF pts
  <2>3. /\ r \in Account /\ r.balance = account.balance /\ r.staking = account.staking - amount
        /\ r.unstaking = account.unstaking + amount /\ r.collateral = account.collateral
        /\ r.voted = account.voted /\ r.nonce = account.nonce /\ r.alias = account.alias
    BY ZenonT(60), <1>2, <2>2 DEF Account, pts
  <2> HIDE DEF r
  <2>4. Holdings(r) = Holdings(account)
    BY <2>1, <2>3 DEF Holdings
  <2> QED BY <1>2, <2>3, <2>4 DEF SameCoins
<1>5. /\ DOMAIN cand' = DOMAIN cand
      /\ \A c \in DOMAIN cand : cand'[c].collateral = cand[c].collateral
  BY <1>1, <1>2, ChangeVotePowerAdds
<1>6. ASSUME ok, NEW c \in DOMAIN cand
      PROVE  cand'[c].votePower = cand[c].votePower - Share(acc[from], c) + Share(r, c)
  <2>1. cand'[c].votePower =
          IF c \in account.voted THEN cand[c].votePower + (-amount) ELSE cand[c].votePower
    BY <1>1, <1>2, <1>6, ChangeVotePowerAdds
  <2>2. cand[c].votePower \in Int /\ acc[from].staking \in Int /\ account.voted = acc[from].voted
    BY <1>2 DEF Candidate, Account, SameCoins
  <2> HIDE DEF r
  <2>3. account.voted = acc[from].voted /\ r.voted = acc[from].voted /\ r.staking = acc[from].staking - amount
    BY ZenonT(60), <1>4, <1>6, <2>2
  <2> HIDE DEF ok
  <2>4. CASE c \in acc[from].voted
    <3>1. /\ cand'[c].votePower = cand[c].votePower + (-amount)
          /\ Share(acc[from], c) = acc[from].staking /\ Share(r, c) = acc[from].staking - amount
      BY ZenonT(60), <2>1, <2>3, <2>4 DEF Share
    <3> QED BY <2>2, <3>1
  <2>5. CASE c \notin acc[from].voted
    <3>1. /\ cand'[c].votePower = cand[c].votePower
          /\ Share(acc[from], c) = 0 /\ Share(r, c) = 0
      BY ZenonT(60), <2>1, <2>3, <2>5 DEF Share
    <3> QED BY <2>2, <3>1
  <2> QED BY ZenonT(60), <2>4, <2>5
<1> HIDE DEF ok, r
<1>7. acc[from].alias = None => acc[from].collateral = 0
  BY DEF SumInv, AliasBacked
<1>8. (ok => Kept(from, r) /\ Revoted(from, r)) /\ (~ok => cand' = cand)
  BY <1>1, <1>4, <1>6, <1>7 DEF Kept, Revoted
<1> QED BY ZenonT(60), <1>1, <1>3, <1>5, <1>8, VotingSum

\* VoteTx.Execute: the stake moves from the old candidates to the new ones, of which
\* some may be the same.
LEMMA VoteSum ==
  ASSUME IInv, IInv', SumInv, NEW from \in Accounts, NEW payer \in Accounts \cup {None},
         NEW ids, VoteTx(from, payer, ids)
  PROVE  SumInv'
<1> DEFINE voter == GetAccount(acc, from)
           added == ChangeVotePower(cand, ids, voter.staking)
           ok == /\ Cardinality(ids) <= VoteMaximum
                 /\ ids \subseteq DOMAIN cand
                 /\ Subtractable(added, voter.voted, voter.staking)
           r == [voter EXCEPT !.voted = ids]
<1>1. Run(from, payer, 0, ok, [acc EXCEPT ![from] = r])
      /\ cand' = (IF ok THEN ChangeVotePower(added, voter.voted, -voter.staking) ELSE cand)
  BY ZenonT(60) DEF VoteTx
<1>2. voter \in Account /\ SameCoins(voter, acc[from]) /\ voter.nonce = acc[from].nonce
      /\ acc[from] \in Account /\ cand \in [DOMAIN cand -> Candidate]
      /\ DOMAIN cand \subseteq CandidateIDs
  BY ZenonT(60), GetSound, GetCoins DEF IInv, TypeOK, Sound
<1>3. ok \in BOOLEAN
  BY ZenonT(60)
<1> HIDE DEF voter
<1>4. ASSUME ok
      PROVE  /\ r \in Account /\ r.nonce = acc[from].nonce /\ Holdings(r) = Holdings(acc[from])
             /\ r.voted = ids /\ r.staking = acc[from].staking /\ ids \subseteq DOMAIN cand
             /\ r.alias = acc[from].alias /\ r.collateral = acc[from].collateral
  <2>1. ids \subseteq DOMAIN cand /\ ids \in SUBSET CandidateIDs
    BY <1>2, <1>4
  <2>2. /\ r \in Account /\ r.balance = voter.balance /\ r.staking = voter.staking
        /\ r.unstaking = voter.unstaking /\ r.collateral = voter.collateral
        /\ r.voted = ids /\ r.nonce = voter.nonce /\ r.alias = voter.alias
    BY <1>2, <2>1 DEF Account
  <2> HIDE DEF r
  <2> QED BY <1>2, <2>1, <2>2 DEF SameCoins, Holdings
<1>5. /\ added \in [DOMAIN cand -> Candidate] /\ DOMAIN added = DOMAIN cand
      /\ \A c \in DOMAIN cand :
           /\ added[c].collateral = cand[c].collateral
           /\ added[c].votePower =
                IF c \in ids THEN cand[c].votePower + voter.staking ELSE cand[c].votePower
  <2>1. voter.staking \in Int /\ \A c \in ids \cap DOMAIN cand : cand[c].votePower + voter.staking >= 0
    BY <1>2 DEF Account, Candidate
  <2>2. SameCandidates(cand, added)
    BY <1>2, <2>1, ChangeVotePowerSame
  <2> QED BY <1>2, <2>2, ChangeVotePowerAdds DEF SameCandidates
<1> HIDE DEF added
<1>6. /\ DOMAIN cand' = DOMAIN cand
      /\ \A c \in DOMAIN cand : cand'[c].collateral = cand[c].collateral
  BY <1>1, <1>2, <1>5, ChangeVotePowerAdds
<1>7. ASSUME ok, NEW c \in DOMAIN cand
      PROVE  cand'[c].votePower = cand[c].votePower - Share(acc[from], c) + Share(r, c)
  <2>1. cand'[c].votePower =
          IF c \in voter.voted THEN added[c].votePower + (-voter.staking) ELSE added[c].votePower
    BY <1>1, <1>5, <1>7, ChangeVotePowerAdds
  <2>2. cand[c].votePower \in Int /\ voter.staking \in Int /\ voter.voted = acc[from].voted
        /\ voter.staking = acc[from].staking
    BY <1>2 DEF Candidate, Account, SameCoins
  <2> HIDE DEF r
  <2>3. r.voted = ids /\ r.staking = acc[from].staking
        /\ added[c].votePower =
             IF c \in ids THEN cand[c].votePower + voter.staking ELSE cand[c].votePower
    BY ZenonT(60), <1>4, <1>5, <1>7
  <2> HIDE DEF ok
  <2> DEFINE old == Share(acc[from], c)
             new == Share(r, c)
             stake == acc[from].staking
             kept == cand[c].votePower
             more == added[c].votePower
  <2>4. /\ (c \in ids => new = stake /\ more = kept + stake)
        /\ (c \notin ids => new = 0 /\ more = kept)
    BY ZenonT(60), <2>2, <2>3 DEF Share
  <2>5. /\ (c \in acc[from].voted => old = stake /\ cand'[c].votePower = more + (-stake))
        /\ (c \notin acc[from].voted => old = 0 /\ cand'[c].votePower = more)
    BY ZenonT(60), <2>1, <2>2 DEF Share
  <2>6. kept \in Int /\ stake \in Int
    BY ZenonT(60), <2>2
  <2> HIDE DEF old, new, stake, kept, more
  <2>7. cand'[c].votePower = kept - old + new
    BY <2>4, <2>5, <2>6
  <2> QED BY ZenonT(60), <2>7 DEF old, new, kept
<1> HIDE DEF ok, r
<1>8. acc[from].alias = None => acc[from].collateral = 0
  BY DEF SumInv, AliasBacked
<1>9. (ok => Kept(from, r) /\ Revoted(from, r)) /\ (~ok => cand' = cand)
  BY <1>1, <1>4, <1>7, <1>8 DEF Kept, Revoted
<1> QED BY ZenonT(60), <1>1, <1>3, <1>6, <1>9, VotingSum

\* RegisterAliasTx.Execute: the account had no collateral to overwrite.
LEMMA RegisterSum ==
  ASSUME IInv, IInv', SumInv, NEW from \in Accounts, NEW payer \in Accounts \cup {None},
         NEW name \in Names, NEW collateral \in Nat,
         RegisterAliasTx(from, payer, name, collateral)
  PROVE  SumInv'
<1> DEFINE account == GetAccount(acc, from)
           ok == /\ collateral >= MinCollateral
                 /\ account.alias = None
                 /\ owner[name] = None
                 /\ account.balance >= collateral
           r == [account EXCEPT !.balance = @ - collateral, !.alias = name,
                                !.collateral = collateral]
<1>1. Run(from, payer, 0, ok, [acc EXCEPT ![from] = r]) /\ cand' = cand
  BY ZenonT(60) DEF RegisterAliasTx
<1>2. account \in Account /\ SameCoins(account, acc[from]) /\ account.nonce = acc[from].nonce
      /\ acc[from] \in Account /\ cand \in [DOMAIN cand -> Candidate]
  BY ZenonT(60), GetSound, GetCoins DEF IInv, TypeOK, Sound
<1>3. ok \in BOOLEAN
  OBVIOUS
<1> HIDE DEF account
<1>4. ASSUME ok
      PROVE  /\ r \in Account /\ r.nonce = acc[from].nonce /\ Holdings(r) = Holdings(acc[from])
             /\ r.voted = acc[from].voted /\ r.staking = acc[from].staking /\ r.alias # None
  <2>1. account.balance \in Nat /\ account.staking \in Nat /\ account.unstaking \in Nat
        /\ account.balance - collateral \in Nat
    BY <1>2, <1>4 DEF Account
  <2>2. /\ r \in Account /\ r.balance = account.balance - collateral
        /\ r.staking = account.staking /\ r.unstaking = account.unstaking
        /\ r.collateral = collateral /\ r.voted = account.voted /\ r.nonce = account.nonce
        /\ r.alias = name
    BY ZenonT(60), <1>2, <2>1 DEF Account
  <2>3. account.collateral = 0 /\ name # None
    BY ZenonT(60), <1>2, <1>4, LedgerAssumption DEF SumInv, AliasBacked, SameCoins
  <2> HIDE DEF r
  <2>4. Holdings(r) = Holdings(account)
    BY <2>1, <2>2, <2>3 DEF Holdings
  <2> QED BY <1>2, <2>2, <2>3, <2>4 DEF SameCoins
<1> HIDE DEF ok, r
<1>5. ok => Revoted(from, r)
  BY <1>1, <1>2, <1>4 DEF Revoted, Share, Account, Candidate
<1>6. ok => Kept(from, r)
  BY <1>4 DEF Kept
<1> QED BY ZenonT(60), <1>1, <1>3, <1>5, <1>6, VotingSum

\* DeregisterAliasTx.Execute: the collateral goes back to the balance.
LEMMA DeregisterSum ==
  ASSUME IInv, IInv', SumInv, NEW from \in Accounts, NEW payer \in Accounts \cup {None},
         DeregisterAliasTx(from, payer)
  PROVE  SumInv'
<1> DEFINE account == GetAccount(acc, from)
           ok == account.alias # None /\ owner[account.alias] = from
           r == [account EXCEPT !.balance = @ + account.collateral, !.alias = None,
                                !.collateral = 0]
<1>1. Run(from, payer, 0, ok, [acc EXCEPT ![from] = r]) /\ cand' = cand
  BY DEF DeregisterAliasTx
<1>2. account \in Account /\ SameCoins(account, acc[from]) /\ account.nonce = acc[from].nonce
      /\ acc[from] \in Account /\ cand \in [DOMAIN cand -> Candidate]
  BY GetSound, GetCoins DEF IInv, TypeOK, Sound
<1>3. ok \in BOOLEAN
  OBVIOUS
<1> HIDE DEF account
<1>4. /\ r \in Account /\ r.nonce = acc[from].nonce /\ Holdings(r) = Holdings(acc[from])
      /\ r.voted = acc[from].voted /\ r.staking = acc[from].staking /\ r.collateral = 0
  <2>1. account.balance \in Nat /\ account.staking \in Nat /\ account.unstaking \in Nat
        /\ account.collateral \in Nat /\ account.balance + account.collateral \in Nat
    BY <1>2 DEF Account
  <2>2. /\ r \in Account /\ r.balance = account.balance + account.collateral
        /\ r.staking = account.staking /\ r.unstaking = account.unstaking
        /\ r.collateral = 0 /\ r.voted = account.voted /\ r.nonce = account.nonce
    BY ZenonT(60), <1>2, <2>1 DEF Account
  <2> HIDE DEF r
  <2>3. Holdings(r) = Holdings(account)
    BY <2>1, <2>2 DEF Holdings
  <2> QED BY <1>2, <2>2, <2>3 DEF SameCoins
<1> HIDE DEF ok, r
<1>5. ok => Revoted(from, r)
  BY <1>1, <1>2, <1>4 DEF Revoted, Share, Account, Candidate
<1>6. ok => Kept(from, r)
  BY <1>4 DEF Kept
<1> QED BY ZenonT(60), <1>1, <1>3, <1>5, <1>6, VotingSum

\* BecomeCandidateTx.Execute: the collateral moves to the candidate, which starts without
\* power under an ID that nobody has voted for.
LEMMA BecomeSum ==
  ASSUME IInv, IInv', SumInv, NEW from \in Accounts, NEW payer \in Accounts \cup {None},
         SelfPay \/ payer # from, NEW collateral \in Nat,
         BecomeCandidateTx(from, payer, collateral)
  PROVE  SumInv'
<1> DEFINE account == GetAccount(acc, from)
           ok == /\ account.candidate = None
                 /\ account.alias # None
                 /\ collateral >= MinCollateral
                 /\ account.balance >= collateral
           id == txHash(from)
           new == [addr |-> from, collateral |-> collateral, votePower |-> 0]
           r == [account EXCEPT !.balance = @ - collateral, !.candidate = id]
           more == [c \in DOMAIN cand \cup {id} |-> IF c = id THEN new ELSE cand[c]]
<1>1. Run(from, payer, 0, ok, [acc EXCEPT ![from] = r])
      /\ cand' = (IF ok THEN more ELSE cand)
  BY ZenonT(60) DEF BecomeCandidateTx
<1>2. /\ account \in Account /\ SameCoins(account, acc[from]) /\ account.nonce = acc[from].nonce
      /\ acc[from] \in Account /\ cand \in [DOMAIN cand -> Candidate]
      /\ cand' \in [DOMAIN cand' -> Candidate] /\ account.candidate = acc[from].candidate
  BY GetSound, GetCoins DEF IInv, TypeOK, Sound, SameKeys
<1>3. ok \in BOOLEAN
  OBVIOUS
<1>4. id \in CandidateIDs /\ id[1] = from /\ id[2] = acc[from].nonce + 1
  BY <1>2, HoldingsNat DEF txHash, CandidateIDs
<1> HIDE DEF account, id
<1>5. ASSUME ok
      PROVE  /\ r \in Account /\ r.nonce = acc[from].nonce
             /\ Holdings(r) = Holdings(acc[from]) - collateral
             /\ r.voted = acc[from].voted /\ r.staking = acc[from].staking
             /\ r.alias = acc[from].alias /\ r.collateral = acc[from].collateral
  <2>1. account.balance \in Nat /\ account.staking \in Nat /\ account.unstaking \in Nat
        /\ account.collateral \in Nat /\ account.balance - collateral \in Nat
    BY <1>2, <1>5 DEF Account
  <2>2. /\ r \in Account /\ r.balance = account.balance - collateral
        /\ r.staking = account.staking /\ r.unstaking = account.unstaking
        /\ r.collateral = account.collateral /\ r.voted = account.voted
        /\ r.nonce = account.nonce /\ r.alias = account.alias
    BY ZenonT(60), <1>2, <1>4, <2>1 DEF Account
  <2> HIDE DEF r
  <2>3. Holdings(r) = Holdings(account) - collateral
    BY <2>1, <2>2 DEF Holdings
  <2> QED BY <1>2, <2>2, <2>3 DEF SameCoins
<1>6. CASE ~ok
  <2>1. cand' = cand
    BY <1>1, <1>6
  <2> HIDE DEF ok, r
  <2> QED BY ZenonT(60), <1>1, <1>3, <1>6, <2>1, VotingSum
<1>7. CASE ok
  <2>1. Moved(from, r) /\ supply' = supply /\ (payer # from => acc'[from].nonce = acc[from].nonce + 1)
    <3> HIDE DEF ok, r
    <3> QED BY ZenonT(60), <1>1, <1>5, <1>7, RunMoves DEF Run
  <2>2. id \notin DOMAIN cand
    <3>1. /\ \A c \in DOMAIN cand : c # None /\ cand[c].addr \in Accounts
          /\ IDsNamed /\ CandidateIndex
      BY ZenonT(60), <1>2, LedgerAssumption DEF IInv, TypeOK, Candidate
    <3>2. acc[from].candidate = None
      BY <1>2, <1>7
    <3> QED BY <1>4, <3>1, <3>2 DEF IDsNamed, CandidateIndex
  <2>3. /\ DOMAIN cand' = DOMAIN cand \cup {id} /\ cand'[id] = new
        /\ \A c \in DOMAIN cand : cand'[c] = cand[c]
    BY <1>1, <1>7, <2>2
  <2>4. IsFiniteSet(DOMAIN cand')
    BY ZenonT(60), <2>3, AddIsFinite DEF SumInv
  <2>5. /\ Collaterals(cand') = collateral + Collaterals(cand)
        /\ Collaterals(cand) \in Int /\ Collaterals(cand') \in Int
    <3>1. DOMAIN cand = DOMAIN cand' \ {id} /\ id \in DOMAIN cand' /\ cand'[id].collateral = collateral
      BY <2>2, <2>3
    <3> QED BY SMTT(60), <1>2, <2>3, <2>4, <3>1, CollateralsMove
  <2> HIDE DEF ok, r, new, more
  <2>6. Conservation'
    <3>1. Holdings(acc[from]) \in Int
      BY <1>2, HoldingsNat
    <3>2. Holdings(r) + Collaterals(cand') = Holdings(acc[from]) + Collaterals(cand)
      BY <1>5, <1>7, <2>5, <3>1
    <3> QED BY ZenonT(60), <1>5, <1>7, <2>1, <2>5, <3>2, CoinsKept DEF SumInv
  <2>7. AliasBacked'
    BY ZenonT(60), <1>5, <1>7, <2>1 DEF SumInv, AliasBacked, Moved
  <2>8. ASSUME Votes, payer # from
        PROVE  Votes'
    <3>1. ASSUME NEW c
          PROVE  Power(acc', c) = Power(acc, c)
      <4>1. Share(r, c) = Share(acc[from], c) /\ Share(r, c) \in Int
        BY <1>2, <1>5, <1>7, HoldingsNat DEF Share
      <4>2. Power(acc, c) \in Int
        BY SMTT(60), CoinsType DEF IInv, TypeOK
      <4> QED BY <2>1, <4>1, <4>2 DEF Moved
    <3>2. /\ \A c \in DOMAIN cand : c[1] \in Accounts /\ c[2] \in Nat
          /\ \A a \in Accounts : \A c \in acc[a].voted : c[1] \in Accounts /\ c[2] \in Nat
          /\ \A a \in Accounts : acc[a].nonce \in Nat /\ acc'[a].nonce \in Nat
      BY DEF IInv, TypeOK, Account, CandidateIDs
    <3>3. Power(acc, id) = 0
      <4>1. Voters(acc, id) = {}
        <5>1. ASSUME NEW a \in Accounts PROVE id \notin acc[a].voted
          <6>1. id \in acc[a].voted => id[2] <= acc[id[1]].nonce
            BY ZenonT(60), <2>8 DEF Votes, IDsUsed
          <6>2. acc[from].nonce \in Nat
            BY ZenonT(60), <3>2
          <6> QED BY <1>4, <6>1, <6>2
        <5> QED BY ZenonT(60), <5>1 DEF Voters
      <4> QED BY <4>1, SumEmpty DEF Power
    <3>4. VotePowerIsStake'
      <4>1. \A c \in DOMAIN cand : cand[c].votePower = Power(acc, c)
        BY <2>8 DEF Votes, VotePowerIsStake, Power, Voters
      <4>2. cand'[id].votePower = 0
        BY <2>3 DEF new
      <4>3. \A c \in DOMAIN cand' : cand'[c].votePower = Power(acc', c)
        BY <2>3, <3>1, <3>3, <4>1, <4>2
      <4> QED BY <4>3 DEF VotePowerIsStake, Power, Voters
    <3>5. \A c : c[1] \in Accounts /\ c[2] \in Nat /\ c[2] <= acc[c[1]].nonce
                   => c[2] <= acc'[c[1]].nonce
      BY <2>1, <3>2 DEF Moved
    <3>6. \A a \in Accounts : acc'[a].voted = acc[a].voted
      BY <1>5, <1>7, <2>1 DEF Moved
    <3>7. id[2] <= acc'[id[1]].nonce
      <4>1. acc'[from].nonce = acc[from].nonce + 1 /\ acc[from].nonce \in Nat
        BY ZenonT(60), <2>1, <2>8, <3>2
      <4> QED BY <1>4, <4>1
    <3>8. IDsUsed'
      BY <2>3, <2>8, <3>2, <3>5, <3>6, <3>7 DEF Votes, IDsUsed
    <3> QED BY <3>4, <3>8 DEF Votes
  <2> QED BY <2>4, <2>6, <2>7, <2>8 DEF SumInv
<1> QED BY <1>6, <1>7

\* QuitCandidateTx.Execute: the collateral comes back; votes for the candidate stay with
\* the voters and count for nobody.
LEMMA QuitSum ==
  ASSUME IInv, IInv', SumInv, NEW from \in Accounts, NEW payer \in Accounts \cup {None},
         QuitCandidateTx(from, payer)
  PROVE  SumInv'
<1> DEFINE account == GetAccount(acc, from)
           id == account.candidate
           ok == id # None /\ id \in DOMAIN cand
           r == [account EXCEPT !.balance = @ + cand[id].collateral, !.candidate = None]
<1>1. Run(from, payer, 0, ok, [acc EXCEPT ![from] = r])
      /\ cand' = (IF ok THEN Restrict(cand, DOMAIN cand \ {id}) ELSE cand)
  BY DEF QuitCandidateTx
<1>2. account \in Account /\ SameCoins(account, acc[from]) /\ account.nonce = acc[from].nonce
      /\ acc[from] \in Account /\ cand \in [DOMAIN cand -> Candidate]
  BY GetSound, GetCoins DEF IInv, TypeOK, Sound
<1>3. ok \in BOOLEAN
  OBVIOUS
<1> HIDE DEF account
<1>4. ASSUME ok
      PROVE  /\ r \in Account /\ r.nonce = acc[from].nonce /\ cand[id].collateral \in Nat
             /\ Holdings(r) = Holdings(acc[from]) + cand[id].collateral
             /\ r.voted = acc[from].voted /\ r.staking = acc[from].staking
             /\ r.alias = acc[from].alias /\ r.collateral = acc[from].collateral
  <2>0. cand[id].collateral \in Nat
    BY <1>2, <1>4 DEF Candidate
  <2>1. account.balance \in Nat /\ account.staking \in Nat /\ account.unstaking \in Nat
        /\ account.collateral \in Nat /\ account.balance + cand[id].collateral \in Nat
    BY <1>2, <2>0 DEF Account
  <2>2. /\ r \in Account /\ r.balance = account.balance + cand[id].collateral
        /\ r.staking = account.staking /\ r.unstaking = account.unstaking
        /\ r.collateral = account.collateral /\ r.voted = account.voted
        /\ r.nonce = account.nonce /\ r.alias = account.alias
    BY ZenonT(60), <1>2, <2>1 DEF Account
  <2> HIDE DEF r
  <2>3. Holdings(r) = Holdings(account) + cand[id].collateral
    BY <2>0, <2>1, <2>2 DEF Holdings
  <2> QED BY <1>2, <2>0, <2>2, <2>3 DEF SameCoins
<1>6. CASE ~ok
  <2>1. cand' = cand
    BY <1>1, <1>6
  <2> HIDE DEF ok, r
  <2> QED BY ZenonT(60), <1>1, <1>3, <1>6, <2>1, VotingSum
<1>7. CASE ok
  <2>1. Moved(from, r) /\ supply' = supply
    <3> HIDE DEF ok, r
    <3> QED BY ZenonT(60), <1>1, <1>4, <1>7, RunMoves DEF Run
  <2>2. /\ DOMAIN cand' = DOMAIN cand \ {id} /\ id \in DOMAIN cand
        /\ \A c \in DOMAIN cand' : cand'[c] = cand[c]
    BY <1>1, <1>7 DEF Restrict
  <2>3. IsFiniteSet(DOMAIN cand')
    BY <2>2, PartIsFinite DEF SumInv
  <2>4. /\ Collaterals(cand) = cand[id].collateral + Collaterals(cand')
        /\ Collaterals(cand) \in Int /\ Collaterals(cand') \in Int
    BY <1>2, <2>2, CollateralsMove DEF SumInv
  <2> HIDE DEF ok, r, id
  <2>5. Conservation'
    <3>1. Holdings(acc[from]) \in Int
      BY <1>2, HoldingsNat
    <3>2. Holdings(r) + Collaterals(cand') = Holdings(acc[from]) + Collaterals(cand)
      BY <1>4, <1>7, <2>4, <3>1
    <3> QED BY <1>4, <1>7, <2>1, <2>4, <3>2, CoinsKept DEF SumInv
  <2>6. AliasBacked'
    BY <1>4, <1>7, <2>1 DEF SumInv, AliasBacked, Moved
  <2>7. ASSUME Votes PROVE Votes'
    <3>1. ASSUME NEW c \in DOMAIN cand'
          PROVE  cand'[c].votePower = cand[c].votePower - Share(acc[from], c) + Share(r, c)
      <4>1. Share(r, c) = Share(acc[from], c) /\ Share(r, c) \in Int
        BY <1>2, <1>4, <1>7, HoldingsNat DEF Share
      <4>2. cand[c].votePower \in Int /\ cand'[c] = cand[c]
        BY <1>2, <2>2 DEF Candidate
      <4> QED BY <4>1, <4>2
    <3>2. DOMAIN cand' \subseteq DOMAIN cand /\ r.voted \subseteq acc[from].voted \cup DOMAIN cand
      BY <1>4, <1>7, <2>2
    <3> QED BY <2>1, <2>7, <3>1, <3>2, VotesKept
  <2> QED BY <2>3, <2>5, <2>6, <2>7 DEF SumInv
<1> QED BY <1>6, <1>7

\* A step after which every stake, vote and alias is what it was, and the coins have grown
\* as the supply has.
LEMMA StakesKept ==
  ASSUME IInv, IInv', SumInv, cand' = cand,
         \A a \in Accounts :
           /\ acc'[a].staking = acc[a].staking /\ acc'[a].voted = acc[a].voted
           /\ acc'[a].alias = acc[a].alias /\ acc'[a].collateral = acc[a].collateral
           /\ acc'[a].nonce >= acc[a].nonce,
         NEW gain \in Int, Coins(acc') = Coins(acc) + gain, supply' = supply + gain
  PROVE  SumInv'
<1>1. acc \in [Accounts -> Account] /\ cand \in [DOMAIN cand -> Candidate]
  BY DEF IInv, TypeOK
<1>2. Conservation'
  <2>1. supply = Coins(acc) + Collaterals(cand)
    BY DEF SumInv, Conservation, Coins, Collaterals
  <2>2. Conservation' <=> supply' = Coins(acc') + Collaterals(cand')
    BY DEF Conservation, Coins, Collaterals
  <2>3. Coins(acc) \in Int /\ Collaterals(cand) \in Int
    BY <1>1, CoinsType, CollateralsSame DEF SumInv
  <2> QED BY <2>1, <2>2, <2>3
<1>3. AliasBacked'
  BY DEF SumInv, AliasBacked
<1>4. ASSUME Votes PROVE Votes'
  <2>1. \A c : Power(acc', c) = Power(acc, c)
    BY PowerSame
  <2>2. \A c \in DOMAIN cand : cand[c].votePower = Power(acc, c)
    BY <1>4 DEF Votes, VotePowerIsStake, Power, Voters
  <2>3. VotePowerIsStake'
    BY <2>1, <2>2 DEF VotePowerIsStake, Power, Voters
  <2>4. /\ \A c \in DOMAIN cand : c[1] \in Accounts /\ c[2] \in Nat
        /\ \A a \in Accounts : \A c \in acc[a].voted : c[1] \in Accounts /\ c[2] \in Nat
        /\ \A a \in Accounts : acc[a].nonce \in Nat /\ acc'[a].nonce \in Nat
    BY DEF IInv, TypeOK, Account, CandidateIDs
  <2>5. \A c : c[1] \in Accounts /\ c[2] \in Nat /\ c[2] <= acc[c[1]].nonce
                 => c[2] <= acc'[c[1]].nonce
    BY <2>4
  <2>6. IDsUsed'
    BY <1>4, <2>4, <2>5 DEF Votes, IDsUsed
  <2> QED BY <2>3, <2>6 DEF Votes
<1> QED BY <1>2, <1>3, <1>4 DEF SumInv

\* A transaction that leaves the sum of the accounts and no trace but in balances.
LEMMA RunStakesKept ==
  ASSUME IInv, IInv', SumInv, NEW from \in Accounts, NEW payer \in Accounts \cup {None},
         NEW ok \in BOOLEAN, NEW A, Run(from, payer, 0, ok, A), cand' = cand,
         ok => /\ A \in [Accounts -> Account]
               /\ Coins(A) = Coins(acc)
               /\ \A a \in Accounts :
                    /\ A[a].staking = acc[a].staking /\ A[a].voted = acc[a].voted
                    /\ A[a].alias = acc[a].alias /\ A[a].collateral = acc[a].collateral
                    /\ A[a].nonce = acc[a].nonce
  PROVE  SumInv'
<1> DEFINE B == IF ok THEN A ELSE acc
<1>1. acc \in [Accounts -> Account] /\ supply \in Int
  BY DEF IInv, TypeOK
<1>2. \A a \in Accounts :
        LET b == IF ok THEN A[a] ELSE acc[a]
        IN /\ SameCoins(acc'[a], b) /\ acc'[a].nonce >= b.nonce
           /\ a = from /\ payer # from => acc'[a].nonce = b.nonce + 1
  <2>1. ok => A \in [Accounts -> Account]
    OBVIOUS
  <2> QED BY ZenonT(60), <1>1, <2>1, RunCoins
<1>3. /\ \A a \in Accounts : SameCoins(acc'[a], B[a]) /\ acc'[a].nonce >= acc[a].nonce
      /\ \A a \in Accounts :
           /\ B[a].staking = acc[a].staking /\ B[a].voted = acc[a].voted
           /\ B[a].alias = acc[a].alias /\ B[a].collateral = acc[a].collateral
      /\ Coins(B) = Coins(acc)
  BY <1>2
<1> HIDE DEF B
<1>4. Coins(acc') = Coins(B)
  BY <1>3, CoinsSame DEF SameCoins
<1>5. Coins(acc) \in Int
  BY <1>1, CoinsType
<1>6. Coins(acc') = Coins(acc) + 0 /\ supply' = supply + 0
  BY <1>1, <1>3, <1>4, <1>5 DEF Run
<1> QED BY <1>3, <1>6, StakesKept DEF SameCoins

\* TransferTx.Execute: what the sender loses the receiver gains, also when they are one.
LEMMA TransferSum ==
  ASSUME IInv, IInv', SumInv, NEW from \in Accounts, NEW payer \in Accounts \cup {None},
         NEW to \in Accounts, NEW value \in Nat, TransferTx(from, payer, to, value)
  PROVE  SumInv'
<1> DEFINE sender == GetAccount(acc, from)
           ok == sender.balance >= value
           s1 == [sender EXCEPT !.balance = @ - value]
           sent == [acc EXCEPT ![from] = s1]
           receiver == GetAccount(sent, to)
           r1 == [receiver EXCEPT !.balance = @ + value]
           A == [sent EXCEPT ![to] = r1]
<1>1. Run(from, payer, 0, ok, A) /\ cand' = cand
  BY DEF TransferTx, tables
<1>2. acc \in [Accounts -> Account] /\ SoundAll(acc, timestamp) /\ timestamp \in Time
  BY DEF IInv, TypeOK
<1>3. sender \in Account /\ Sound(sender, timestamp) /\ SameCoins(sender, acc[from])
      /\ sender.nonce = acc[from].nonce
  BY <1>2, GetSound, GetCoins DEF Sound
<1>4. ok \in BOOLEAN
  OBVIOUS
<1>5. ASSUME ok
      PROVE  /\ A \in [Accounts -> Account]
             /\ Coins(A) = Coins(acc)
             /\ \A a \in Accounts :
                  /\ A[a].staking = acc[a].staking /\ A[a].voted = acc[a].voted
                  /\ A[a].alias = acc[a].alias /\ A[a].collateral = acc[a].collateral
                  /\ A[a].nonce = acc[a].nonce
  <2>1. /\ s1 \in Account /\ Sound(s1, timestamp) /\ Holdings(s1) = Holdings(acc[from]) - value
        /\ s1.staking = acc[from].staking /\ s1.voted = acc[from].voted
        /\ s1.alias = acc[from].alias /\ s1.collateral = acc[from].collateral
        /\ s1.nonce = acc[from].nonce
    <3> HIDE DEF sender
    <3>1. sender.balance - value \in Nat /\ sender.balance \in Nat /\ sender.staking \in Nat
          /\ sender.unstaking \in Nat /\ sender.collateral \in Nat
      BY <1>3, <1>5 DEF Account
    <3>2. /\ s1 \in Account /\ s1.balance = sender.balance - value /\ s1.points = sender.points
          /\ s1.staking = sender.staking /\ s1.unstaking = sender.unstaking
          /\ s1.lastUnstaking = sender.lastUnstaking /\ s1.lastPoints = sender.lastPoints
          /\ s1.voted = sender.voted /\ s1.alias = sender.alias
          /\ s1.collateral = sender.collateral /\ s1.nonce = sender.nonce
      BY <1>3, <3>1 DEF Account
    <3> HIDE DEF s1
    <3>3. Holdings(s1) = Holdings(sender) - value
      BY <3>1, <3>2 DEF Holdings
    <3> QED BY <1>3, <3>2, <3>3 DEF Sound, SameCoins
  <2> HIDE DEF s1
  <2>2. /\ sent \in [Accounts -> Account] /\ SoundAll(sent, timestamp)
        /\ sent[from] = s1 /\ \A a \in Accounts \ {from} : sent[a] = acc[a]
    BY ZenonT(60), <1>2, <2>1, PutSound
  <2> HIDE DEF sent
  <2>3. receiver \in Account /\ SameCoins(receiver, sent[to]) /\ receiver.nonce = sent[to].nonce
    BY <1>2, <2>2, GetSound, GetCoins DEF Sound
  <2>4. /\ r1 \in Account /\ Holdings(r1) = Holdings(sent[to]) + value
        /\ r1.staking = sent[to].staking /\ r1.voted = sent[to].voted
        /\ r1.alias = sent[to].alias /\ r1.collateral = sent[to].collateral
        /\ r1.nonce = sent[to].nonce
    <3> HIDE DEF receiver
    <3>1. receiver.balance + value \in Nat /\ receiver.balance \in Nat /\ receiver.staking \in Nat
          /\ receiver.unstaking \in Nat /\ receiver.collateral \in Nat
      BY <2>3 DEF Account
    <3>2. /\ r1 \in Account /\ r1.balance = receiver.balance + value
          /\ r1.staking = receiver.staking /\ r1.unstaking = receiver.unstaking
          /\ r1.voted = receiver.voted /\ r1.alias = receiver.alias
          /\ r1.collateral = receiver.collateral /\ r1.nonce = receiver.nonce
      BY <2>3, <3>1 DEF Account
    <3> HIDE DEF r1
    <3>3. Holdings(r1) = Holdings(receiver) + value
      BY <3>1, <3>2 DEF Holdings
    <3> QED BY <2>3, <3>2, <3>3 DEF SameCoins
  <2> HIDE DEF r1
  <2>5. /\ A \in [Accounts -> Account] /\ A[to] = r1
        /\ \A a \in Accounts \ {to} : A[a] = sent[a]
    BY <2>2, <2>4
  <2> HIDE DEF A
  <2>6. Coins(A) = Coins(acc)
    <3>1. Coins(sent) = Coins(acc) + (Holdings(s1) - Holdings(acc[from]))
      BY <1>2, <2>2, CoinsMove
    <3>2. Coins(A) = Coins(sent) + (Holdings(r1) - Holdings(sent[to]))
      BY <2>2, <2>5, CoinsMove
    <3>3. Coins(acc) \in Int /\ Holdings(acc[from]) \in Int /\ Holdings(sent[to]) \in Int
      BY <1>2, <2>2, CoinsType, HoldingsNat
    <3> QED BY <2>1, <2>4, <3>1, <3>2, <3>3
  <2> QED BY <2>1, <2>2, <2>4, <2>5, <2>6
<1> HIDE DEF A, ok
<1> QED BY ZenonT(60), <1>1, <1>4, <1>5, RunStakesKept

\* Reading and putting two accounts moves no coins: the certificate transactions.
LEMMA TouchedSum ==
  ASSUME IInv, IInv', SumInv, NEW from \in Accounts, NEW payer \in Accounts \cup {None},
         NEW ok \in BOOLEAN, NEW x \in Accounts, NEW y,  ok => y \in Accounts,
         Run(from, payer, 0, ok, Touched(x, y)), cand' = cand
  PROVE  SumInv'
<1> DEFINE u == GetAccount(acc, x)
           once == [acc EXCEPT ![x] = u]
           v == GetAccount(once, y)
           A == Touched(x, y)
<1>1. acc \in [Accounts -> Account] /\ SoundAll(acc, timestamp) /\ timestamp \in Time
  BY DEF IInv, TypeOK
<1>2. Sound(u, timestamp) /\ u \in Account /\ SameCoins(u, acc[x]) /\ u.nonce = acc[x].nonce
  BY ZenonT(60), <1>1, GetSound, GetCoins DEF Sound
<1>3. /\ once \in [Accounts -> Account] /\ SoundAll(once, timestamp)
      /\ once[x] = u /\ \A a \in Accounts \ {x} : once[a] = acc[a]
  <2> HIDE DEF u
  <2> QED BY ZenonT(60), <1>1, <1>2, PutSound
<1>4. ASSUME ok
      PROVE  /\ A \in [Accounts -> Account]
             /\ Coins(A) = Coins(acc)
             /\ \A a \in Accounts :
                  /\ A[a].staking = acc[a].staking /\ A[a].voted = acc[a].voted
                  /\ A[a].alias = acc[a].alias /\ A[a].collateral = acc[a].collateral
                  /\ A[a].nonce = acc[a].nonce
  <2>1. A = [once EXCEPT ![y] = v]
    BY Zenon DEF Touched
  <2> HIDE DEF once, u, A
  <2>2. v \in Account /\ SameCoins(v, once[y]) /\ v.nonce = once[y].nonce
    BY ZenonT(60), <1>1, <1>3, <1>4, GetSound, GetCoins DEF Sound
  <2> HIDE DEF v
  <2>3. /\ A \in [Accounts -> Account] /\ A[y] = v
        /\ \A a \in Accounts \ {y} : A[a] = once[a]
    BY <1>3, <1>4, <2>1, <2>2
  <2>4. \A a \in Accounts : SameCoins(A[a], acc[a]) /\ A[a].nonce = acc[a].nonce
    BY <1>2, <1>3, <1>4, <2>2, <2>3 DEF SameCoins
  <2>5. Coins(A) = Coins(acc)
    BY <2>4, CoinsSame DEF SameCoins
  <2> QED BY <2>3, <2>4, <2>5 DEF SameCoins
<1>5. Run(from, payer, 0, ok, A)
  OBVIOUS
<1> HIDE DEF A
<1> QED BY <1>4, <1>5, RunStakesKept

\* PayReward: the supply grows by what the account gains.
LEMMA RewardSum ==
  ASSUME IInv, IInv', SumInv, NEW coinbase \in Accounts, PayReward(coinbase)
  PROVE  SumInv'
<1> DEFINE reward == calcMintReward(supply)
           x == GetAccount(acc, coinbase)
           r == [x EXCEPT !.balance = @ + reward]
<1>1. /\ acc' = [acc EXCEPT ![coinbase] = r] /\ supply' = supply + reward /\ cand' = cand
  BY DEF PayReward
<1>2. reward \in Int
  <2>1. supply \in Int /\ supply' \in Int
    BY DEF IInv, TypeOK
  <2>2. supply \in Nat /\ InflationDiv \in Nat \ {0} /\ InflationRoundDown \in Nat \ {0}
    BY LedgerAssumption DEF IInv, TypeOK
  <2>3. (supply \div InflationDiv) \div InflationRoundDown \in Nat
    BY <2>2, DivNat
  <2>4. \A m, n \in Nat : m * n \in Int
    OBVIOUS
  <2> QED BY <2>2, <2>3, <2>4 DEF calcMintReward
<1>3. acc \in [Accounts -> Account] /\ acc' \in [Accounts -> Account]
      /\ x \in Account /\ SameCoins(x, acc[coinbase]) /\ x.nonce = acc[coinbase].nonce
  BY GetSound, GetCoins DEF IInv, TypeOK, Sound
<1> HIDE DEF x, reward
<1>4. /\ acc'[coinbase] = r /\ \A a \in Accounts \ {coinbase} : acc'[a] = acc[a]
  BY <1>1, <1>3
<1>5. /\ Holdings(r) = Holdings(x) + reward /\ r.staking = x.staking /\ r.voted = x.voted
      /\ r.alias = x.alias /\ r.collateral = x.collateral /\ r.nonce = x.nonce
  <2>1. x.balance \in Nat /\ x.staking \in Nat /\ x.unstaking \in Nat /\ x.collateral \in Nat
    BY <1>3 DEF Account
  <2>2. /\ r.balance = x.balance + reward /\ r.staking = x.staking
        /\ r.unstaking = x.unstaking /\ r.collateral = x.collateral /\ r.voted = x.voted
        /\ r.alias = x.alias /\ r.nonce = x.nonce
    BY <1>3 DEF Account
  <2> HIDE DEF r
  <2> QED BY <1>2, <2>1, <2>2 DEF Holdings
<1> HIDE DEF r
<1>6. Coins(acc') = Coins(acc) + reward
  <2>1. Coins(acc') = Coins(acc) + (Holdings(r) - Holdings(acc[coinbase]))
    BY <1>3, <1>4, CoinsMove
  <2>2. Holdings(acc[coinbase]) \in Int /\ Holdings(r) = Holdings(acc[coinbase]) + reward
    BY <1>3, <1>5, HoldingsNat DEF SameCoins
  <2> QED BY <1>2, <2>1, <2>2
<1>7. \A a \in Accounts :
        /\ acc'[a].staking = acc[a].staking /\ acc'[a].voted = acc[a].voted
        /\ acc'[a].alias = acc[a].alias /\ acc'[a].collateral = acc[a].collateral
        /\ acc'[a].nonce >= acc[a].nonce
  <2>1. \A a \in Accounts : acc[a].nonce \in Nat
    BY <1>3, HoldingsNat
  <2> QED BY <1>3, <1>4, <1>5, <2>1 DEF SameCoins
<1> QED BY ZenonT(60), <1>1, <1>2, <1>6, <1>7, StakesKept

\* PrepareChild: no account and no candidate changes.
LEMMA ChildSum ==
  ASSUME IInv, SumInv, acc' = acc, cand' = cand, supply' = supply
  PROVE  SumInv'
  BY DEF SumInv, Conservation, AliasBacked, Votes, VotePowerIsStake, IDsUsed

\* Genesis distributes the supply, and what the first block producers stake and pledge
\* they take from their share.
LEMMA InitSum ==
  ASSUME Init
  PROVE  SumInv
<1> DEFINE D == DOMAIN cand
           g == [a \in Accounts |-> Holdings(acc[a])]
           k == [c \in D |-> cand[c].collateral]
           Of(T) == {c \in D : c[1] \in T}
<1>1. /\ D = Producers \X {3} /\ Producers \subseteq Accounts
      /\ \A c \in D : cand[c].collateral = MinCollateral /\ cand[c].votePower = GenesisStake
      /\ GenesisStake \in Nat /\ MinCollateral \in Nat
  BY ZenonT(60), LedgerAssumption DEF Init, Producers
<1>2. /\ supply = SumFunctionOnSet(Genesis, Accounts) /\ IsFiniteSet(Accounts)
      /\ \A a \in Accounts : Genesis[a] \in Nat
  <2>1. SumFunction(Genesis) = SumFunctionOnSet(Genesis, DOMAIN Genesis)
    BY Zenon DEF SumFunction, SumFunctionOnSet, FoldFunction, FoldFunctionOnSet
  <2>2. DOMAIN Genesis = Accounts
    BY LedgerAssumption
  <2> QED BY <2>1, <2>2, LedgerAssumption DEF Init
<1>3. ASSUME NEW a \in Accounts
      PROVE  /\ acc[a].alias = None => acc[a].collateral = 0
             /\ a \in Producers => /\ Holdings(acc[a]) = Genesis[a] - MinCollateral
                                   /\ acc[a].voted = {<<a, 3>>} /\ acc[a].staking = GenesisStake
                                   /\ acc[a].nonce = 4
             /\ a \notin Producers => Holdings(acc[a]) = Genesis[a] /\ acc[a].voted = {}
  <2>1. acc[a] = GenesisAccount(a)
    BY DEF Init
  <2>2. CASE a \in Producers
    <3>1. GenesisAlias[a] # None
      BY <2>2 DEF Producers
    <3> DEFINE rest == Genesis[a] - GenesisStake - 2 * MinCollateral
               id == <<a, 3>>
    <3>2. acc[a] = [balance |-> rest,
                    staking |-> GenesisStake, unstaking |-> 0, lastUnstaking |-> 0,
                    points |-> GenesisStake, lastPoints |-> 0, nonce |-> 4,
                    voted |-> {id}, candidate |-> id,
                    alias |-> GenesisAlias[a], collateral |-> MinCollateral]
      BY ZenonT(120), <2>1, <2>2 DEF GenesisAccount, newAccount
    <3>3. Holdings(acc[a]) = Genesis[a] - MinCollateral
      <4> HIDE DEF id
      <4>1. /\ acc[a].balance = rest /\ acc[a].staking = GenesisStake /\ acc[a].unstaking = 0
            /\ acc[a].collateral = MinCollateral
        <5> HIDE DEF rest
        <5> QED BY <3>2
      <4>2. Genesis[a] \in Nat /\ GenesisStake \in Nat /\ MinCollateral \in Nat
        BY ZenonT(60), <1>1, <1>2
      <4> QED BY <4>1, <4>2 DEF Holdings
    <3> HIDE DEF rest, id
    <3>4. acc[a].voted = {id}
      BY <3>2
    <3>5. acc[a].staking = GenesisStake /\ acc[a].nonce = 4
      BY <3>2
    <3>6. acc[a].alias = GenesisAlias[a]
      BY <3>2
    <3> QED BY ZenonT(60), <2>2, <3>1, <3>3, <3>4, <3>5, <3>6 DEF id
  <2>3. CASE a \notin Producers
    BY <1>2, <2>1, <2>3 DEF GenesisAccount, newAccount, Holdings
  <2> QED BY <2>2, <2>3
<1>4. IsFiniteSet(D)
  <2> DEFINE f == [a \in Accounts |-> <<a, 3>>]
  <2>1. IsFiniteSet(Producers)
    BY <1>1, <1>2, PartIsFinite
  <2>2. \A a \in Producers : f[a] = <<a, 3>>
    BY <1>1
  <2>3. \A c : c \in Producers \X {3} <=> \E a \in Producers : c = <<a, 3>>
    OBVIOUS
  <2>4. D = Producers \X {3}
    BY <1>1
  <2> HIDE DEF D, f, Producers
  <2>5. \A c : c \in D <=> \E a \in Producers : c = f[a]
    BY <2>2, <2>3, <2>4, SMT
  <2>6. D = {f[a] : a \in Producers}
    BY <2>5, Zenon
  <2> QED BY <2>1, <2>6, ImageIsFinite
<1>5. \A T \in SUBSET Accounts :
        SumFunctionOnSet(g, T) + SumFunctionOnSet(k, Of(T)) = SumFunctionOnSet(Genesis, T)
  <2> DEFINE F == {T \in SUBSET Accounts :
                     SumFunctionOnSet(g, T) + SumFunctionOnSet(k, Of(T))
                       # SumFunctionOnSet(Genesis, T)}
  <2> SUFFICES ASSUME F # {} PROVE FALSE
    BY ZenonT(60)
  <2>1. PICK T \in F : \A U \in F : U \subseteq T => U = T
    <3>1. F \in SUBSET (SUBSET Accounts)
      OBVIOUS
    <3> HIDE DEF F
    <3> QED BY <1>2, <3>1, SmallestSet
  <2>2. T # {}
    <3>1. Of({}) = {} /\ 0 + 0 = 0
      OBVIOUS
    <3> QED BY ZenonT(60), <3>1, SumEmpty
  <2>3. PICK e \in T : TRUE
    BY <2>2
  <2> DEFINE U == T \ {e}
  <2>4. SumFunctionOnSet(g, U) + SumFunctionOnSet(k, Of(U)) = SumFunctionOnSet(Genesis, U)
    BY <2>1, <2>3
  <2>5. T \subseteq Accounts /\ e \in Accounts /\ IsFiniteSet(T) /\ IsFiniteSet(Of(T))
    BY <1>2, <1>4, <2>3, PartIsFinite
  <2>6. /\ \A a \in T : g[a] \in Int /\ Genesis[a] \in Int
        /\ \A c \in Of(T) : k[c] \in Int
        /\ \A c \in D : k[c] = MinCollateral
    <3>1. ASSUME NEW a \in T PROVE g[a] \in Int /\ Genesis[a] \in Int
      <4>1. a \in Accounts /\ Genesis[a] \in Nat /\ g[a] = Holdings(acc[a])
        BY ZenonT(60), <1>2, <2>5
      <4>2. Holdings(acc[a]) = Genesis[a] - MinCollateral \/ Holdings(acc[a]) = Genesis[a]
        BY ZenonT(60), <1>3, <4>1
      <4>3. MinCollateral \in Nat
        BY ZenonT(60), <1>1
      <4> HIDE DEF g
      <4> QED BY <4>1, <4>2, <4>3
    <3>2. \A c \in D : k[c] = MinCollateral
      BY ZenonT(60), <1>1
    <3>3. MinCollateral \in Int
      BY <1>1
    <3> QED BY ZenonT(60), <3>1, <3>2, <3>3
  <2>7. g[e] = Holdings(acc[e])
    BY <2>5
  <2>8. SumFunctionOnSet(g, T) + SumFunctionOnSet(k, Of(T)) # SumFunctionOnSet(Genesis, T)
    OBVIOUS
  <2>9. CASE e \in Producers
    <3>1. <<e, 3>> \in Of(T) /\ Of(T) \ {<<e, 3>>} = Of(U)
      BY <1>1, <2>3, <2>9
    <3> HIDE DEF g, k, D, Of, F, U
    <3>2. SumFunctionOnSet(k, Of(T)) = k[<<e, 3>>] + SumFunctionOnSet(k, Of(T) \ {<<e, 3>>})
      BY <2>5, <2>6, <3>1, SumTake
    <3>3. /\ SumFunctionOnSet(g, T) = g[e] + SumFunctionOnSet(g, T \ {e})
          /\ SumFunctionOnSet(Genesis, T) = Genesis[e] + SumFunctionOnSet(Genesis, T \ {e})
      BY <2>3, <2>5, <2>6, SumTake
    <3>4. SumFunctionOnSet(k, Of(T) \ {<<e, 3>>}) \in Int /\ SumFunctionOnSet(g, T \ {e}) \in Int
      BY ZenonT(60), <2>5, <2>6, SumSplit
    <3>5. k[<<e, 3>>] = MinCollateral /\ g[e] = Genesis[e] - MinCollateral
      BY <1>3, <2>5, <2>6, <2>7, <2>9, <3>1 DEF Of
    <3>6. SumFunctionOnSet(k, Of(T)) = MinCollateral + SumFunctionOnSet(k, Of(U))
          /\ SumFunctionOnSet(k, Of(U)) \in Int
      BY <3>1, <3>2, <3>4, <3>5, Zenon
    <3>7. /\ SumFunctionOnSet(g, T) = (Genesis[e] - MinCollateral) + SumFunctionOnSet(g, U)
          /\ SumFunctionOnSet(g, U) \in Int
          /\ SumFunctionOnSet(Genesis, T) = Genesis[e] + SumFunctionOnSet(Genesis, U)
      BY <3>3, <3>4, <3>5, Zenon DEF U
    <3>8. Genesis[e] \in Int /\ MinCollateral \in Int
      BY <1>1, <1>2, <2>5
    <3> QED BY <2>4, <2>8, <3>6, <3>7, <3>8
  <2>10. CASE e \notin Producers
    <3>1. Of(T) = Of(U)
      BY <1>1, <2>3, <2>10
    <3> HIDE DEF g, k, D, Of, F, U
    <3>3. /\ SumFunctionOnSet(g, T) = g[e] + SumFunctionOnSet(g, T \ {e})
          /\ SumFunctionOnSet(Genesis, T) = Genesis[e] + SumFunctionOnSet(Genesis, T \ {e})
      BY <2>3, <2>5, <2>6, SumTake
    <3>4. SumFunctionOnSet(k, Of(T)) \in Int /\ SumFunctionOnSet(g, T \ {e}) \in Int
      BY ZenonT(60), <2>5, <2>6, SumSplit, SumType
    <3>5. g[e] = Genesis[e]
      BY <1>3, <2>5, <2>7, <2>10
    <3> QED BY <1>2, <2>4, <2>5, <2>8, <3>1, <3>3, <3>4, <3>5 DEF U
  <2> QED BY <2>9, <2>10
<1>6. Conservation
  <2>1. Of(Accounts) = D
    BY <1>1
  <2>2. DOMAIN g = Accounts /\ DOMAIN k = D
    OBVIOUS
  <2>3. supply = SumFunctionOnSet(g, Accounts) + SumFunctionOnSet(k, D)
    <3> HIDE DEF g, k, D, Of
    <3> QED BY <1>2, <1>5, <2>1
  <2>4. SumFunction(g) = SumFunctionOnSet(g, Accounts) /\ SumFunction(k) = SumFunctionOnSet(k, D)
    <3> HIDE DEF g, k, D
    <3> QED BY <2>2, Zenon DEF SumFunction, SumFunctionOnSet, FoldFunction, FoldFunctionOnSet
  <2>5. supply = SumFunction(g) + SumFunction(k)
    <3> HIDE DEF g, k, D
    <3> QED BY <2>3, <2>4
  <2> QED BY <2>5, Zenon DEF Conservation
<1>7. VotePowerIsStake
  <2> DEFINE s == [a \in Accounts |-> acc[a].staking]
  <2>1. ASSUME NEW c \in D
        PROVE  cand[c].votePower = SumFunctionOnSet(s, {a \in Accounts : c \in acc[a].voted})
    <3>1. PICK a \in Producers : c = <<a, 3>>
      BY <1>1
    <3>2. {b \in Accounts : c \in acc[b].voted} = {a}
      BY <1>1, <1>3, <3>1
    <3>3. s[a] = GenesisStake /\ cand[c].votePower = GenesisStake
      BY <1>1, <1>3, <3>1
    <3> HIDE DEF s, D
    <3>4. IsFiniteSet({a}) /\ {a} \ {a} = {} /\ \A x \in {a} : s[x] \in Int
      <4>1. IsFiniteSet({a})
        BY SingletonIsFinite, Zenon
      <4>2. {a} \ {a} = {} /\ \A x \in {a} : s[x] \in Int
        BY <1>1, <3>3
      <4> QED BY <4>1, <4>2
    <3>5. SumFunctionOnSet(s, {a}) = s[a] + SumFunctionOnSet(s, {a} \ {a})
      BY <3>4, SumTake
    <3>6. SumFunctionOnSet(s, {a} \ {a}) = 0
      BY <3>4, SumEmpty
    <3>7. SumFunctionOnSet(s, {a}) = GenesisStake
      BY <1>1, <3>3, <3>5, <3>6
    <3> QED BY <3>2, <3>3, <3>7, Zenon
  <2> QED BY <2>1, Zenon DEF VotePowerIsStake
<1>8. IDsUsed
  <2>1. ASSUME NEW a \in Producers PROVE <<a, 3>>[2] <= acc[<<a, 3>>[1]].nonce
    BY <1>1, <1>3, <2>1
  <2>2. \A c \in D : c[2] <= acc[c[1]].nonce
    BY <1>1, <2>1
  <2>3. \A a \in Accounts : \A c \in acc[a].voted : c[2] <= acc[c[1]].nonce
    BY <1>3, <2>1
  <2> QED BY <2>2, <2>3 DEF IDsUsed
<1>9. AliasBacked
  BY <1>3 DEF AliasBacked
<1> QED BY <1>4, <1>6, <1>7, <1>8, <1>9 DEF SumInv, Votes

\* Every transaction and every block step keeps the sums.
LEMMA NextSum ==
  ASSUME IInv, SumInv, [Next]_vars
  PROVE  SumInv'
<1>0. IInv'
  BY NextInv
<1>1. CASE UNCHANGED vars
  BY <1>1, ChildSum DEF vars
<1>2. ASSUME NEW f \in Accounts, NEW p \in Payers(f), Transact(f, p)
      PROVE  SumInv'
  <2>1. p \in Accounts \cup {None} /\ Amounts \subseteq Nat
    BY LedgerAssumption DEF Payers
  <2>12. SelfPay \/ p # f
    BY LedgerAssumption DEF Payers
  <2>2. CASE \E v \in Amounts, to \in Accounts : TransferTx(f, p, to, v)
    BY <1>0, <2>1, <2>2, TransferSum
  <2>3. CASE \E v \in Amounts : StakeTx(f, p, v)
    BY <1>0, <2>1, <2>3, StakeSum
  <2>4. CASE \E v \in Amounts : UnstakeTx(f, p, v)
    BY <1>0, <2>1, <2>4, UnstakeSum
  <2>5. CASE \E v \in Amounts : BecomeCandidateTx(f, p, v)
    BY <1>0, <2>1, <2>5, <2>12, BecomeSum
  <2>6. CASE \E v \in Amounts, n \in Names : RegisterAliasTx(f, p, n, v)
    BY <1>0, <2>1, <2>6, RegisterSum
  <2>7. CASE \E ids : VoteTx(f, p, ids)
    BY <1>0, <2>1, <2>7, VoteSum
  <2>8. CASE QuitCandidateTx(f, p)
    BY <1>0, <2>1, <2>8, QuitSum
  <2>9. CASE DeregisterAliasTx(f, p)
    BY <1>0, <2>1, <2>9, DeregisterSum
  <2>10. CASE \E h \in Hashes, to \in Accounts, t \in Expirations : AddCertificationTx(f, p, to, h, t)
    <3>1. PICK h \in Hashes, to \in Accounts, t \in Expirations : AddCertificationTx(f, p, to, h, t)
      BY <2>10
    <3> DEFINE ok == received[to][h] = None /\ issued[f][h] = None
    <3>2. Run(f, p, 0, ok, Touched(to, f)) /\ cand' = cand /\ ok \in BOOLEAN
      BY ZenonT(60), <3>1 DEF AddCertificationTx
    <3> HIDE DEF ok
    <3> QED BY <1>0, <2>1, <3>2, TouchedSum
  <2>11. CASE \E h \in Hashes : RevokeCertificationTx(f, p, h)
    <3>1. PICK h \in Hashes : RevokeCertificationTx(f, p, h)
      BY <2>11
    <3> DEFINE cert == issued[f][h]
               ok == /\ cert # None
                     /\ cert.issuer = f
                     /\ cert.revocation = -1
                     /\ cert.expiration >= timestamp
    <3>2. Run(f, p, 0, ok, Touched(f, cert.certified)) /\ cand' = cand /\ ok \in BOOLEAN
      BY ZenonT(60), <3>1 DEF RevokeCertificationTx
    <3>3. ok => cert.certified \in Accounts
      <4>1. cert \in Certificate \cup {None}
        BY DEF IInv, TypeOK
      <4> QED BY <4>1 DEF Certificate
    <3> HIDE DEF ok, cert
    <3> QED BY <1>0, <2>1, <3>2, <3>3, TouchedSum
  <2> QED
    BY ZenonT(60), <1>2, <2>2, <2>3, <2>4, <2>5, <2>6, <2>7, <2>8, <2>9, <2>10, <2>11 DEF Transact
<1>3. CASE \E a \in Coinbases : PayReward(a)
  BY <1>0, <1>3, LedgerAssumption, RewardSum
<1>4. CASE \E t \in Time : InitChild(t)
  BY <1>4, ChildSum DEF InitChild, tables
<1> QED BY <1>1, <1>2, <1>3, <1>4 DEF Next

\* Both inductive invariants hold.
LEMMA SumInductive == Spec => [](IInv /\ SumInv)
<1>1. Init => IInv /\ SumInv
  BY InitInv, InitSum
<1>2. (IInv /\ SumInv) /\ [Next]_vars => (IInv /\ SumInv)'
  BY NextInv, NextSum
<1> QED BY <1>1, <1>2, PTL DEF Spec

\* No transaction, executed, rolled back or paid by another, creates or destroys coins:
\* what the accounts hold and what the candidates pledged add up to the supply.
THEOREM CoinsConserved == Spec => []Conservation
<1>1. IInv /\ SumInv => Conservation
  BY DEF SumInv
<1> QED BY <1>1, SumInductive, PTL

\* A candidate's vote power is the stake of those who vote for it, as long as nobody
\* signs as the payer of a transaction of their own.
THEOREM VotePowerBacked ==
  ASSUME ~SelfPay
  PROVE  Spec => []VotePowerIsStake
<1>1. IInv /\ SumInv => VotePowerIsStake
  BY DEF SumInv, Votes
<1> QED BY <1>1, SumInductive, PTL
=============================================================================
