------------------------------- MODULE BlockPool -------------------------------
(***************************************************************************)
(* The pool of received blocks (core/blockpool.go): an LRU cache of linked *)
(* blocks.  A linked block points to its parent and its children in the    *)
(* pool; the links are set when a block is pushed and cut when it leaves   *)
(* the cache, by Remove or by eviction.  BlockManager uses the pool as a   *)
(* set and reads FindChildren and FindUnlinkedAncestor off that set.       *)
(***************************************************************************)
EXTENDS BlockTree

CONSTANT size     \* capacity of the cache

\* A capacity, and no block but the genesis block that names itself as its parent.
ASSUME PoolAssumption ==
  /\ size \in Nat \ {0}
  /\ \A b \in Block \ {Genesis} : ParentHash[b] # b

\* A hash commits to what it was computed from: no block descends from itself.
ASSUME HashAssumption == \A b \in Block \ {Genesis} : b \notin Ancestors[ParentHash[b]]

VARIABLES
  cache,          \* rank of every block in the LRU cache, 1 the least recently used
  link            \* [parent, children]: the pointers of the linked blocks

vars == <<cache, link>>

Cached == DOMAIN cache

Init ==
  /\ cache = [b \in {} |-> 0]
  /\ link = [parent |-> [b \in Block |-> NoBlock], children |-> [b \in Block |-> {}]]

-----------------------------------------------------------------------------
(* The LRU cache.                                                          *)

\* Mutant: a look-up leaves the order as it is.
Get_Peek(c, b) == c

\* Get: a block that is found becomes the most recently used one.
Get(c, b) ==
  IF b \notin DOMAIN c THEN c
  ELSE [x \in DOMAIN c |-> IF x = b THEN Cardinality(DOMAIN c)
                           ELSE IF c[x] > c[b] THEN c[x] - 1 ELSE c[x]]

\* The cache without b.
Drop(c, b) ==
  [x \in DOMAIN c \ {b} |-> IF c[x] > c[b] THEN c[x] - 1 ELSE c[x]]

Insert(c, b) ==
  [x \in DOMAIN c \union {b} |-> IF x = b THEN Cardinality(DOMAIN c) + 1 ELSE c[x]]

Oldest(c) == CHOOSE b \in DOMAIN c : c[b] = 1

-----------------------------------------------------------------------------
(* Links.                                                                  *)

\* Every block of bs gets the parent p.
linkParent(l, bs, p) ==
  [parent |-> [x \in Block |-> IF x \in bs THEN p ELSE l.parent[x]],
   children |-> [x \in Block |-> IF x = p THEN l.children[x] \union bs ELSE l.children[x]]]

\* Mutant: the children keep their pointer to the block that leaves.
dispose_OneSided(l, b) ==
  [parent |-> [x \in Block |-> IF x = b THEN NoBlock ELSE l.parent[x]],
   children |-> [x \in Block |-> IF x = b THEN {}
                                 ELSE IF x = l.parent[b] THEN l.children[x] \ {b}
                                 ELSE l.children[x]]]

\* Cut all links of a block.
dispose(l, b) ==
  [parent |-> [x \in Block |-> IF x = b \/ x \in l.children[b] THEN NoBlock ELSE l.parent[x]],
   children |-> [x \in Block |-> IF x = b THEN {}
                                 ELSE IF x = l.parent[b] THEN l.children[x] \ {b}
                                 ELSE l.children[x]]]

\* Get on every key, oldest first, leaves the order as it is.
findChildLinkedBlocks(b) == {c \in Cached : c # Genesis /\ ParentHash[c] = b}

-----------------------------------------------------------------------------
(* Operations.                                                             *)

\* Mutant: blocks that came before their parent are not linked to it.
Push_OneWay(b) ==
  /\ b \notin Cached
  /\ LET p == ParentHash[b]
         inserted == Insert(Get(cache, p), b)
         linked == IF p \in Cached THEN linkParent(link, {b}, p) ELSE link
     IN  IF Cardinality(DOMAIN inserted) > size
         THEN /\ cache' = Drop(inserted, Oldest(inserted))
              /\ link' = dispose(linked, Oldest(inserted))
         ELSE cache' = inserted /\ link' = linked

\* Push of a block that is not in the pool: link it to its parent and its
\* children, add it, and let the cache evict its oldest block.
Push(b) ==
  /\ b \notin Cached
  /\ LET p == ParentHash[b]
         inserted == Insert(Get(cache, p), b)
         up == IF p \in Cached THEN linkParent(link, {b}, p) ELSE link
         linked == linkParent(up, findChildLinkedBlocks(b), b)
     IN  IF Cardinality(DOMAIN inserted) > size
         THEN /\ cache' = Drop(inserted, Oldest(inserted))
              /\ link' = dispose(linked, Oldest(inserted))
         ELSE cache' = inserted /\ link' = linked

\* Remove.
Remove(b) ==
  /\ b \in Cached
  /\ cache' = Drop(cache, b)
  /\ link' = dispose(link, b)

\* FindParent and FindUnlinkedAncestor look the parent up, FindChildren the block
\* itself: that block becomes the most recently used one.
Find(b) ==
  /\ cache' = Get(cache, b)
  /\ UNCHANGED link

\* What FindUnlinkedAncestor returns: the end of the parent links, from b's parent.
FindUnlinkedAncestor(b) ==
  LET climb[x \in Block] == IF link.parent[x] = NoBlock THEN x ELSE climb[link.parent[x]]
  IN  IF ParentHash[b] \in Cached THEN climb[ParentHash[b]] ELSE NoBlock

\* What FindChildren returns.
FindChildren(b) == IF b \in Cached THEN link.children[b] ELSE findChildLinkedBlocks(b)

Next ==
  \E b \in Block \ {Genesis} : Push(b) \/ Remove(b) \/ Find(b)

Spec == Init /\ [][Next]_vars

-----------------------------------------------------------------------------
(* Properties.                                                             *)

TypeOK ==
  /\ Cached \subseteq Block \ {Genesis}
  /\ Cardinality(Cached) <= size
  /\ cache \in [Cached -> 1..Cardinality(Cached)]
  /\ \A b, c \in Cached : cache[b] = cache[c] => b = c
  /\ link \in [parent : [Block -> Block \union {NoBlock}], children : [Block -> SUBSET Block]]

\* The links are the parent relation of the blocks in the pool, in both directions,
\* whatever was pushed, removed and evicted in whatever order: no pointer leads to
\* a block that has left the cache, and none is missing.
LinksAreParents ==
  \A b \in Block :
    /\ link.parent[b] =
         IF b \in Cached /\ ParentHash[b] \in Cached THEN ParentHash[b] ELSE NoBlock
    /\ link.children[b] = IF b \in Cached THEN ChildrenIn(Cached, b) ELSE {}

\* What the finders return is a matter of the set of blocks in the pool alone:
\* FindChildren its children there, FindUnlinkedAncestor the end of its unbroken
\* ancestry there.
FindersAgree ==
  \A b \in Block \ {Genesis} :
    /\ FindChildren(b) = ChildrenIn(Cached, b)
    /\ FindUnlinkedAncestor(b) = UnlinkedAncestorIn(Cached, b)

\* A pool of two or more blocks does not evict the parent of the block being
\* pushed, however long the parent has been in the pool.
ParentSurvives ==
  [][\A b \in Block \ {Genesis} :
       (size > 1 /\ b \notin Cached /\ b \in Cached' /\ ParentHash[b] \in Cached)
         => ParentHash[b] \in Cached']_vars

=============================================================================
