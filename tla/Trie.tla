-------------------------------- MODULE Trie --------------------------------
(***************************************************************************)
(* The Merkle Patricia trie of common/trie/trie.go and the iterator of     *)
(* common/trie/iterator.go: node kinds, the node cache of a prepared       *)
(* session with its reference counts, and the recursive put, get and       *)
(* delete.  A node's hash is its content (hashing is taken to be           *)
(* injective), so a root determines the whole tree below it.  Nodes are    *)
(* objects with an identity: the code changes them in place, and the cache *)
(* may hold one object under two hashes.                                   *)
(*                                                                         *)
(* The operators take and return a record T of the fields of struct Trie   *)
(* and what they point to:                                                 *)
(*   prepared  the flag;                                                   *)
(*   temp      tempNodes, hash |-> [id, refCount, saved];                  *)
(*   heap      the node objects, id |-> [c : content, h : its Hash field]; *)
(*   stor      the hashes that have a node in storage.                     *)
(* Each returns [ok, T, out]; ok is FALSE for ErrNotFound.                 *)
(***************************************************************************)
EXTENDS Integers, Sequences, FiniteSets, SequencesExt

CONSTANT Width      \* branching of the model's nibbles; 16 in the code

Slot == Width + 1   \* Val[16], the value that ends at a branch
Nil == << >>        \* the empty hash

valNode(v) == <<"val", v>>
extNode(path, next) == <<"ext", path, next>>
branchNode(children) == <<"branch", children>>
emptyBranchNode == branchNode([i \in 1..Slot |-> Nil])

Kind(c) == c[1]

Return(T, out) == [ok |-> TRUE, T |-> T, out |-> out]
NotFound(T) == [ok |-> FALSE, T |-> T, out |-> Nil]

prefixLen(a, b) ==
  Max({n \in 0..Len(a) : n <= Len(b) /\ SubSeq(a, 1, n) = SubSeq(b, 1, n)})

Drop(route, n) == SubSeq(route, n + 1, Len(route))

\* The identity of a new object: any that no live object has.
NewId(T) == CHOOSE i \in {<<"new", n>> : n \in 1..(Cardinality(DOMAIN T.heap) + 1)} :
              i \notin DOMAIN T.heap

Alloc(T, c, h) == [T EXCEPT !.heap = @ @@ (NewId(T) :> [c |-> c, h |-> h])]

(***************************************************************************)
(* The node cache.                                                         *)
(***************************************************************************)
\* The object with this hash. A prepared trie hands out the cached object
\* itself; outside a session every fetch decodes a fresh one.
fetchNode(T, hash) ==
  IF T.prepared /\ hash \in DOMAIN T.temp THEN Return(T, T.temp[hash].id)
  ELSE IF hash \notin T.stor THEN NotFound(T)
  ELSE LET id == NewId(T)
           entry == [id |-> id, refCount |-> 0, saved |-> TRUE]
           A == Alloc(T, hash, hash)
       IN Return(IF T.prepared THEN [A EXCEPT !.temp = @ @@ (hash :> entry)] ELSE A, id)

\* The object that a fetch f has returned, and its content.
Node(f) == f.T.heap[f.out]
Content(f) == Node(f).c

\* Hash the object; in a session count one more reference, to the entry that
\* is there if there is one, else store it at once.
saveNode(T, id) ==
  LET hash == T.heap[id].c
      N == [T EXCEPT !.heap[id].h = hash]
      entry == [id |-> id, refCount |-> 1, saved |-> hash \in T.stor]
  IN Return(IF ~T.prepared THEN [N EXCEPT !.stor = @ \cup {hash}]
            ELSE IF hash \in DOMAIN T.temp THEN [N EXCEPT !.temp[hash].refCount = @ + 1]
            ELSE [N EXCEPT !.temp = @ @@ (hash :> entry)],
            hash)

saveNew(T, c) == saveNode(Alloc(T, c, Nil), NewId(T))

deprecateNode(T, hash) ==
  IF ~T.prepared \/ hash \notin DOMAIN T.temp \/ T.temp[hash].saved THEN T
  ELSE IF T.temp[hash].refCount > 1 THEN [T EXCEPT !.temp[hash].refCount = @ - 1]
  ELSE [T EXCEPT !.temp = Restrict(@, DOMAIN @ \ {hash})]

\* Assignments to a node's Val, in place.
SetChild(T, id, i, hash) == [T EXCEPT !.heap[id].c[2][i] = hash]
SetPath(T, id, path) == [T EXCEPT !.heap[id].c[2] = path]
SetNext(T, id, hash) == [T EXCEPT !.heap[id].c[3] = hash]

\* The slot of a branch a route leads to, and what is left of the route.
SlotOf(route) == IF route = << >> THEN Slot ELSE Head(route)
RestOf(route) == IF route = << >> THEN route ELSE Tail(route)

(***************************************************************************)
(* Get.                                                                    *)
(***************************************************************************)
RECURSIVE get(_, _, _)

\* get at the node that f has fetched.
getFrom(f, c, route) ==
  CASE Kind(c) = "branch" -> get(f.T, c[2][SlotOf(route)], RestOf(route))
    [] Kind(c) = "ext" ->
         IF IsPrefix(c[2], route) THEN get(f.T, c[3], Drop(route, Len(c[2])))
         ELSE NotFound(f.T)
    [] Kind(c) = "val" ->
         IF route = << >> THEN Return(f.T, c[2]) ELSE NotFound(f.T)

getFetched(f, route) == IF f.ok THEN getFrom(f, Content(f), route) ELSE f

get(T, root, route) == getFetched(fetchNode(T, root), route)

(***************************************************************************)
(* Put.  An operator that follows a call takes what the call returned.     *)
(***************************************************************************)
\* An extension above the node that r has saved.
saveExt(r, path) == IF path = << >> THEN r ELSE saveNew(r.T, extNode(path, r.out))

\* A new value node, under an extension when route has nibbles left.
newLeaf(T, route, value) == saveExt(saveNew(T, valNode(value)), route)

\* A branch with the node h in slot i and the new leaf in slot j.
saveBranch(leaf, i, h, j) ==
  saveNew(leaf.T, branchNode([emptyBranchNode[2] EXCEPT ![i] = h, ![j] = leaf.out]))

\* r without the node h, which it replaces.
Deprecating(r, h) == [r EXCEPT !.T = deprecateNode(@, h)]

\* Mutant: the old value node is given up although the new branch refers to it.
updateVal_DropsOld(T, n, route, value) ==
  IF route = << >> THEN Deprecating(newLeaf(T, route, value), n.h)
  ELSE saveBranch(Deprecating(newLeaf(T, Tail(route), value), n.h), Slot, n.h, Head(route))

\* put on an existing value node n: replaced when the key ends here, else it
\* moves into the value slot of a new branch.
updateVal(T, n, route, value) ==
  IF route = << >> THEN Deprecating(newLeaf(T, route, value), n.h)
  ELSE saveBranch(newLeaf(T, Tail(route), value), Slot, n.h, Head(route))

\* put on an extension n whose path leaves the route after m nibbles: the path
\* is cut in two around a new branch. rest is the part below, saved.
splitBelow(rest, n, m, route, value) ==
  saveExt(saveBranch(Deprecating(newLeaf(rest.T, Drop(route, m + 1), value), n.h),
                     n.c[2][m + 1], rest.out,
                     IF m = Len(route) THEN Slot ELSE route[m + 1]),
          SubSeq(n.c[2], 1, m))

\* The object keeps the part below.
splitExt(T, id, n, m, route, value) ==
  splitBelow(IF m + 1 = Len(n.c[2]) THEN Return(T, n.c[3])
             ELSE saveNode(SetPath(T, id, Drop(n.c[2], m + 1)), id),
             n, m, route, value)

\* The parent object id, formerly with hash h, after the put or delete below it.
Reattach(sub, id, i, h) ==
  IF ~sub.ok THEN sub
  ELSE saveNode(deprecateNode(SetChild(sub.T, id, i, sub.out), h), id)

ReattachNext(sub, id, h) ==
  IF ~sub.ok THEN sub
  ELSE saveNode(deprecateNode(SetNext(sub.T, id, sub.out), h), id)

RECURSIVE update(_, _, _, _)

updateBranch(T, id, n, route, value) ==
  Reattach(IF route = << >> THEN saveNew(deprecateNode(T, n.c[2][Slot]), valNode(value))
           ELSE update(T, n.c[2][Head(route)], Tail(route), value),
           id, SlotOf(route), n.h)

updateExt(T, id, n, m, route, value) ==
  IF m = Len(n.c[2])
  THEN ReattachNext(update(T, n.c[3], Drop(route, m), value), id, n.h)
  ELSE splitExt(T, id, n, m, route, value)

\* update at the node n that f has fetched.
updateFrom(f, n, route, value) ==
  CASE Kind(n.c) = "branch" -> updateBranch(f.T, f.out, n, route, value)
    [] Kind(n.c) = "ext" -> updateExt(f.T, f.out, n, prefixLen(n.c[2], route), route, value)
    [] Kind(n.c) = "val" -> updateVal(f.T, n, route, value)

updateFetched(f, route, value) ==
  IF f.ok THEN updateFrom(f, Node(f), route, value) ELSE f

update(T, root, route, value) ==
  IF root = Nil THEN newLeaf(T, route, value)
  ELSE updateFetched(fetchNode(T, root), route, value)

(***************************************************************************)
(* Delete.                                                                 *)
(***************************************************************************)
\* Mutant: an extension child stays below a new extension.
mergeChild_NoMerge(g, n, child, i) ==
  IF i = Slot THEN Return(g.T, child) ELSE saveNew(g.T, extNode(<<i>>, child))

\* The only child of a branch, the node n that g has fetched, takes the branch's
\* place behind its nibble i.
mergeChild(g, n, child, i) ==
  CASE Kind(n.c) = "branch" -> saveNew(g.T, extNode(<<i>>, child))
    [] Kind(n.c) = "ext" ->
         saveNode(SetPath(deprecateNode(g.T, n.h), g.out, <<i>> \o n.c[2]), g.out)
    [] Kind(n.c) = "val" ->
         IF i = Slot THEN Return(g.T, n.h) ELSE saveNew(g.T, extNode(<<i>>, n.h))

collapseFetched(g, child, i) == IF g.ok THEN mergeChild(g, Node(g), child, i) ELSE g

\* The branch at id, formerly root, after one of its children has changed: with
\* one child left, or none, it collapses.
collapseBranch(T, id, root, c) ==
  LET kids == {j \in 1..Slot : c[2][j] # Nil}
      i == IF kids = {} THEN 1 ELSE Max(kids)
  IN IF Cardinality(kids) < 2
     THEN collapseFetched(fetchNode(deprecateNode(T, root), c[2][i]), c[2][i], i)
     ELSE saveNode(deprecateNode(T, root), id)

deleteChild(T, id, root) == collapseBranch(T, id, root, T.heap[id].c)

deleteBranch(sub, id, i, root) ==
  IF ~sub.ok THEN sub ELSE deleteChild(SetChild(sub.T, id, i, sub.out), id, root)

\* The extension at id, formerly root, above its new child, which g has fetched:
\* two extensions in a row become one.
joinExt(g, id, root, hash) ==
  IF ~g.ok THEN g
  ELSE IF Kind(Content(g)) = "ext"
  THEN saveNode(deprecateNode(SetPath(g.T, g.out, g.T.heap[id].c[2] \o Content(g)[2]), hash), g.out)
  ELSE saveNode(deprecateNode(SetNext(g.T, id, hash), root), id)

deleteExt(sub, id, root) ==
  IF ~sub.ok THEN sub
  ELSE IF sub.out = Nil THEN Deprecating(sub, root)
  ELSE joinExt(fetchNode(sub.T, sub.out), id, root, sub.out)

RECURSIVE delete(_, _, _)

deleteFrom(f, c, root, route) ==
  CASE Kind(c) = "branch" ->
         deleteBranch(delete(f.T, c[2][SlotOf(route)], RestOf(route)), f.out, SlotOf(route), root)
    [] Kind(c) = "ext" ->
         IF IsPrefix(c[2], route)
         THEN deleteExt(delete(f.T, c[3], Drop(route, Len(c[2]))), f.out, root)
         ELSE NotFound(f.T)
    [] Kind(c) = "val" -> Return(deprecateNode(f.T, root), Nil)

deleteFetched(f, root, route) ==
  IF f.ok THEN deleteFrom(f, Content(f), root, route) ELSE f

delete(T, root, route) == deleteFetched(fetchNode(T, root), root, route)

(***************************************************************************)
(* The iterator.                                                           *)
(***************************************************************************)
RECURSIVE subTrie(_, _, _, _)

subTrieFrom(f, c, prefix, route) ==
  CASE Kind(c) = "branch" ->
         subTrie(f.T, c[2][Head(prefix)], Tail(prefix), Append(route, Head(prefix)))
    [] Kind(c) = "ext" /\ prefixLen(c[2], prefix) \in {Len(c[2]), Len(prefix)} ->
         subTrie(f.T, c[3], Drop(prefix, prefixLen(c[2], prefix)), route \o c[2])
    [] OTHER -> [root |-> Nil, route |-> route]

subTrieFetched(f, prefix, route) ==
  IF f.ok THEN subTrieFrom(f, Content(f), prefix, route) ELSE [root |-> Nil, route |-> route]

\* getSubTrieWithMaxCommonPrefix: the subtrie that holds the keys with this
\* prefix, and the route to it; Nil when there is none.
subTrie(T, root, prefix, route) ==
  IF prefix = << >> THEN [root |-> root, route |-> route]
  ELSE subTrieFetched(fetchNode(T, root), prefix, route)

RECURSIVE leaves(_, _, _)

leavesFrom(f, c, route) ==
  CASE Kind(c) = "val" -> <<[key |-> route, value |-> c[2]]>>
    [] Kind(c) = "ext" -> leaves(f.T, c[3], route \o c[2])
    [] Kind(c) = "branch" ->
         leaves(f.T, c[2][Slot], route)
           \o FlattenSeq([i \in 1..Width |-> leaves(f.T, c[2][i], Append(route, i))])

leavesFetched(f, route) == leavesFrom(f, Content(f), route)

\* What successive calls of Next yield below a node: the pairs of key and value,
\* a branch's own value before its children.
leaves(T, root, route) ==
  IF root = Nil THEN << >> ELSE leavesFetched(fetchNode(T, root), route)

\* Mutant: the walk starts at the prefix and not at the subtrie's own route.
Iterate_FromPrefix(T, root, prefix) ==
  leaves(T, subTrie(T, root, prefix, << >>).root, prefix)

\* Keys and the iterator's Next until it is exhausted.
Iterate(T, root, prefix) ==
  LET s == subTrie(T, root, prefix, << >>)
  IN leaves(T, s.root, s.route)
=============================================================================
