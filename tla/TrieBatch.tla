------------------------------ MODULE TrieBatch -----------------------------
(***************************************************************************)
(* The transactional map of common/trie/batch.go over the trie of          *)
(* common/trie/trie.go, driven the way core and consensus/dpos drive it:   *)
(* a block's state is opened at a stored root, prepared, changed by        *)
(* batches (one per transaction) and by direct writes, flushed, and its    *)
(* root goes into a block header; a block that fails is dropped and the    *)
(* next one starts from a stored root again.                               *)
(***************************************************************************)
EXTENDS Trie

CONSTANTS
  Keys,         \* the keys, as routes (KeyToRoute)
  Values,       \* the values, pairs of the key that has them and a version
  Churn,        \* TRUE: a session may both insert and delete the same key
  MaxBatch,     \* bound: the keys one batch writes
  MaxWrites,    \* bound: the commits and direct writes of one session
  MaxSessions,  \* bound: the prepared sessions
  MaxTorn,      \* bound: the nodes an interrupted flush has written
  DeleteFresh   \* TRUE: delete may be called on a key the trie does not hold

\* No two keys share a value: accounts, aliases and candidates name their owner.
ASSUME RoutesAssumption ==
  /\ \A k \in Keys : k \in Seq(1..Width) /\ Len(k) > 0
  /\ \A v \in Values : v[1] \in Keys

VARIABLES
  trie,       \* struct Trie and the nodes it points to, see module Trie
  rootHash,
  batching,
  dirties,    \* key |-> [value, deleteFlag], a partial function
  view,       \* key |-> what Get answers, Absent for ErrNotFound (derived)
  flushed,    \* the roots that were flushed, what block headers hold, each with
              \* the view it had in storage then
  sessions,   \* how many sessions were prepared (bound)
  writes,     \* how many commits and direct writes this session has made (bound)
  inserted,   \* the keys this session has added (history)
  deleted     \* the keys this session has deleted (history)

session == <<sessions, writes, inserted, deleted>>
vars == <<trie, rootHash, batching, dirties, view, flushed, sessions, writes, inserted, deleted>>

Absent == <<Nil, 0>>

\* Objects that nothing refers to are dropped, and an object is named by one of
\* the hashes it is cached under: states that differ in identities only are one.
Collect(T) ==
  LET Name(i) == CHOOSE h \in DOMAIN T.temp : T.temp[h].id = i
      live == {Name(T.temp[h].id) : h \in DOMAIN T.temp}
  IN [T EXCEPT !.temp = [h \in DOMAIN @ |-> [@[h] EXCEPT !.id = Name(@)]],
               !.heap = [h \in live |-> @[T.temp[h].id]]]

Answer(g) == IF g.ok THEN g.out ELSE Absent

ContentAt(T, root) == [k \in Keys |-> Answer(get(T, root, k))]

Has(k) == view[k] # Absent

Closed == [prepared |-> FALSE, temp |-> << >>, heap |-> << >>, stor |-> {}]

Init ==
  /\ trie = Closed
  /\ rootHash = Nil
  /\ batching = FALSE
  /\ dirties = << >>
  /\ view = [k \in Keys |-> Absent]
  /\ flushed = {[root |-> Nil, view |-> view]}
  /\ sessions = 0
  /\ writes = 0
  /\ inserted = {}
  /\ deleted = {}

NewSession == writes' = 0 /\ inserted' = {} /\ deleted' = {}

\* NewBatch, and Clone of a flushed state: a trie object at a stored root. What
\* an earlier object had not flushed is gone with it.
NewBatch(r) ==
  /\ r = Nil \/ r \in trie.stor
  /\ LET T == [Closed EXCEPT !.stor = trie.stor]
     IN /\ trie' = T
        /\ view' = ContentAt(T, r)
  /\ rootHash' = r
  /\ batching' = FALSE
  /\ dirties' = << >>
  /\ NewSession
  /\ UNCHANGED <<flushed, sessions>>

Prepare ==
  /\ ~trie.prepared
  /\ sessions < MaxSessions
  /\ sessions' = sessions + 1
  /\ trie' = [trie EXCEPT !.prepared = TRUE, !.temp = << >>]
  /\ NewSession
  /\ UNCHANGED <<rootHash, batching, dirties, view, flushed>>

\* The nodes Flush writes: those that are referred to and not yet stored.
Unflushed ==
  {trie.heap[trie.temp[h].id].h :
     h \in {x \in DOMAIN trie.temp : ~trie.temp[x].saved /\ trie.temp[x].refCount >= 1}}

Flush ==
  /\ trie.prepared /\ ~batching
  /\ LET T == [Closed EXCEPT !.stor = trie.stor \cup Unflushed]
         v == ContentAt(T, rootHash)
     IN /\ trie' = T
        /\ view' = v
        /\ flushed' = flushed \cup {[root |-> rootHash, view |-> v]}
  /\ NewSession
  /\ UNCHANGED <<rootHash, batching, dirties, sessions>>

\* Flush puts node by node, in the order of a Go map: a Put that fails, or a
\* crash, leaves any of them.  The block is lost; the next one starts at a root
\* that was flushed (bound: there is a next one).
FlushInterrupted(r) ==
  /\ trie.prepared /\ ~batching
  /\ sessions < MaxSessions
  /\ \E put \in UNION {kSubset(n, Unflushed) : n \in 1..MaxTorn} :
       LET T == [Closed EXCEPT !.stor = trie.stor \cup put]
       IN /\ trie' = T
          /\ view' = ContentAt(T, r)
  /\ rootHash' = r
  /\ NewSession
  /\ UNCHANGED <<batching, dirties, flushed, sessions>>

BeginBatch ==
  /\ trie.prepared /\ ~batching
  /\ batching' = TRUE
  /\ dirties' = << >>
  /\ UNCHANGED <<trie, rootHash, view, flushed, session>>

\* The trie after the writes ws, some of them deletes.
Applied(T, root, puts, dels) ==
  /\ writes < MaxWrites
  /\ writes' = writes + 1
  /\ UNCHANGED sessions
  /\ trie' = Collect(T)
  /\ rootHash' = root
  /\ view' = ContentAt(T, root)
  /\ inserted' = inserted \cup {k \in puts : trie.prepared /\ ~Has(k)}
  /\ deleted' = deleted \cup {k \in dels : trie.prepared /\ Has(k)}

Dirty(k, d) ==
  /\ Cardinality(DOMAIN dirties \cup {k}) <= MaxBatch
  /\ dirties' = [i \in DOMAIN dirties \cup {k} |-> IF i = k THEN d ELSE dirties[i]]

Put(k, v) ==
  /\ trie.prepared
  /\ Churn \/ k \notin deleted
  /\ IF batching
     THEN /\ Dirty(k, [value |-> v, deleteFlag |-> FALSE])
          /\ UNCHANGED <<trie, rootHash, view, session>>
     ELSE /\ \E u \in {update(trie, rootHash, k, v)} :
               Applied(u.T, IF u.ok THEN u.out ELSE rootHash, {k}, {})
          /\ UNCHANGED dirties
  /\ UNCHANGED <<batching, flushed>>

\* The callers delete what they have just read (DelAccountAlias), and no
\* transaction deletes what it has put.
MayDelete(k) == (DeleteFresh \/ Has(k)) /\ (Churn \/ k \notin inserted)

\* batchDelete: a key of the batch is only flagged; another one must be in the
\* trie, and reading it brings its nodes into the cache.
batchDelete(k) ==
  /\ \/ /\ k \in DOMAIN dirties
        /\ ~dirties[k].deleteFlag
        /\ Dirty(k, [dirties[k] EXCEPT !.deleteFlag = TRUE])
        /\ UNCHANGED <<trie, view>>
     \/ /\ k \notin DOMAIN dirties
        /\ \E g \in {get(trie, rootHash, k)} :
             /\ g.ok
             /\ trie' = Collect(g.T)
             /\ view' = ContentAt(g.T, rootHash)
        /\ Dirty(k, [value |-> Absent, deleteFlag |-> TRUE])
  /\ UNCHANGED <<rootHash, session>>

Delete(k) ==
  /\ trie.prepared /\ MayDelete(k)
  /\ IF batching THEN batchDelete(k)
     ELSE /\ \E u \in {delete(trie, rootHash, k)} :
               Applied(u.T, IF u.ok THEN u.out ELSE rootHash, {}, {k})
          /\ UNCHANGED dirties
  /\ UNCHANGED <<batching, flushed>>

\* The write u of entry d after the writes s; an error other than ErrNotFound of
\* a delete ends the loop.
Written(s, d, u) ==
  [ok |-> u.ok \/ d.deleteFlag, T |-> u.T, root |-> IF u.ok THEN u.out ELSE s.root]

\* Mutant: a flagged entry is skipped.
CommitOne_SkipsDeletes(s, k) ==
  IF ~s.ok \/ dirties[k].deleteFlag THEN s
  ELSE Written(s, dirties[k], update(s.T, s.root, k, dirties[k].value))

\* One entry of dirties written to the trie.
CommitOne(s, k) ==
  IF ~s.ok THEN s
  ELSE Written(s, dirties[k], IF dirties[k].deleteFlag THEN delete(s.T, s.root, k)
                              ELSE update(s.T, s.root, k, dirties[k].value))

\* Commit ranges over a Go map: the order is any.
Commit ==
  /\ batching
  /\ \E order \in SetToSeqs(DOMAIN dirties) :
       \E s \in {FoldLeft(CommitOne, [ok |-> TRUE, T |-> trie, root |-> rootHash], order)} :
         LET dels == {k \in DOMAIN dirties : dirties[k].deleteFlag}
         IN /\ Applied(s.T, s.root, DOMAIN dirties \ dels, dels)
            /\ batching' = ~s.ok
            /\ dirties' = IF s.ok THEN << >> ELSE dirties
  /\ UNCHANGED flushed

RollBack ==
  /\ batching
  /\ batching' = FALSE
  /\ dirties' = << >>
  /\ UNCHANGED <<trie, rootHash, view, flushed, session>>

Next ==
  \/ Prepare \/ Flush \/ BeginBatch \/ Commit \/ RollBack
  \/ \E f \in flushed : NewBatch(f.root) \/ FlushInterrupted(f.root)
  \/ \E k \in Keys : Delete(k)
  \/ \E v \in Values : Put(v[1], v)

Spec == Init /\ [][Next]_vars
-----------------------------------------------------------------------------
(***************************************************************************)
(* Properties.                                                             *)
(***************************************************************************)

\* The shape a trie must have for a set of <<route, value>> pairs, whatever the
\* puts and deletes that led to it.
RECURSIVE Canonical(_)
Canonical(S) ==
  LET r0 == (CHOOSE e \in S : TRUE)[1]
      m == Max({n \in 0..Len(r0) : \A e \in S : prefixLen(r0, e[1]) >= n})
      Below(i) == {<<Tail(e[1]), e[2]>> : e \in {x \in S : x[1] # << >> /\ x[1][1] = i}}
      Here == {e \in S : e[1] = << >>}
      Shape == IF Cardinality(S) = 1 /\ Here # {} THEN valNode((CHOOSE e \in Here : TRUE)[2])
               ELSE branchNode([i \in 1..Slot |->
                      IF i = Slot THEN Canonical(Here) ELSE Canonical(Below(i))])
  IN IF S = {} THEN Nil
     ELSE IF m = 0 THEN Shape
     ELSE extNode(SubSeq(r0, 1, m), Canonical({<<Drop(e[1], m), e[2]>> : e \in S}))

\* The root hash is a function of the content: two nodes that execute the same
\* transactions agree on it, although Commit writes in the order of a Go map and
\* the one may have reached the content by other puts and deletes.
RootIsCanonical ==
  rootHash = Canonical({<<k, view[k]>> : k \in {x \in Keys : Has(x)}})

\* All nodes below a root can be loaded from storage.
RECURSIVE Stored(_)
Stored(h) ==
  /\ h \in trie.stor
  /\ Kind(h) = "ext" => Stored(h[3])
  /\ Kind(h) = "branch" => \A i \in 1..Slot : h[2][i] = Nil \/ Stored(h[2][i])

\* Flush leaves out no node that a flushed root refers to: the reference counts
\* never drop a node that is still in use.
FlushComplete == \A f \in flushed : f.root = Nil \/ Stored(f.root)

\* The iterator yields each key with the prefix once, with the value Get answers.
IteratorComplete ==
  \A p \in {<< >>} \cup {SubSeq(k, 1, n) : k \in Keys, n \in 1..2} :
    LET it == Iterate(trie, rootHash, p)
    IN /\ Cardinality({it[i].key : i \in DOMAIN it}) = Len(it)
       /\ {it[i] : i \in DOMAIN it}
            = {[key |-> k, value |-> view[k]] :
                 k \in {x \in Keys : IsPrefix(p, x) /\ Has(x)}}

\* Refinement: the batch over the trie is the transactional map it is used as.
Map == INSTANCE AtomicMap WITH
  content <- view,
  batch <- batching,
  writes <- [k \in DOMAIN dirties |-> IF dirties[k].deleteFlag THEN Absent ELSE dirties[k].value],
  versions <- {f.view : f \in flushed}

\* Every step of the batch is a step of AtomicMap: a put or delete changes its
\* own key only, a batch is applied whole or not at all, and a block state opened
\* at a stored root reads what was flushed there.
ImplementsAtomicMap == Map!Spec
=============================================================================
