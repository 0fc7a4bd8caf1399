---------------------------- MODULE BlockPoolProofs ----------------------------
(***************************************************************************)
(* For every pool size and every set of blocks: the links of the block     *)
(* pool are the parent relation of the blocks in it, the finders that      *)
(* follow them agree with the set of blocks, and a push does not evict the *)
(* parent of the block it adds.  The argument needs the ranks of the LRU   *)
(* cache to be a numbering of the cached blocks: otherwise the oldest      *)
(* block, which an eviction disposes of, need not be in the cache.         *)
(***************************************************************************)
EXTENDS BlockPool, CollectionProofs

-----------------------------------------------------------------------------
(* Ancestors, as what is reached by parent hashes.                         *)

\* A set of blocks that no parent hash leaves.
Closed(S) == \A x \in S : ParentHash[x] \in S

\* Ancestors is the climb of CollectionProofs along parent hashes.
LEMMA AncestorsClimb ==
  ASSUME NEW b \in Block
  PROVE  Ancestors[b] = Climb(Block, ParentHash, b)
BY Zenon DEF Ancestors, Climb

\* Leastness: a closed set that holds b holds every ancestor of b.
LEMMA AncestorsLeast ==
  ASSUME NEW b \in Block, NEW S \in SUBSET Block, b \in S, Closed(S)
  PROVE  Ancestors[b] \subseteq S
<1>1. Climb(Block, ParentHash, b) \subseteq S
  BY ClimbLeast DEF Closed, ClosedUnder
<1> QED BY <1>1, AncestorsClimb

\* Ancestors are blocks, a block is its own ancestor, and a parent of an
\* ancestor is an ancestor.
LEMMA AncestorsClosed ==
  ASSUME NEW b \in Block
  PROVE  /\ Ancestors[b] \in SUBSET Block
         /\ b \in Ancestors[b]
         /\ Closed(Ancestors[b])
BY AncestorsClimb, ClimbClosed, TreeAssumption DEF Closed, ClosedUnder

\* Ancestry is transitive.
LEMMA AncestorsTransitive ==
  ASSUME NEW c \in Block, NEW b \in Ancestors[c]
  PROVE  Ancestors[b] \subseteq Ancestors[c]
<1>1. b \in Block /\ b \in Climb(Block, ParentHash, c)
  BY AncestorsClimb, AncestorsClosed
<1> QED BY <1>1, AncestorsClimb, ClimbTransitive, TreeAssumption

\* The ancestors of a block are the block and the ancestors of its parent.
LEMMA AncestorsUnfold ==
  ASSUME NEW b \in Block
  PROVE  Ancestors[b] = {b} \union Ancestors[ParentHash[b]]
<1>1. ParentHash[b] \in Block
  BY TreeAssumption
<1> QED BY <1>1, AncestorsClimb, ClimbUnfold, TreeAssumption

\* The ancestors of a block form a line: of two of them, one is an ancestor of
\* the other.
LEMMA AncestorsLinear ==
  ASSUME NEW b \in Block, NEW a \in Ancestors[b], NEW c \in Ancestors[b]
  PROVE  a \in Ancestors[c] \/ c \in Ancestors[a]
<1>1. a \in Block /\ c \in Block
  BY AncestorsClosed
<1> QED BY <1>1, AncestorsClimb, ClimbLinear, TreeAssumption

-----------------------------------------------------------------------------


\* The ranks number the blocks of the cache from 1.
Ranked(c) ==
  /\ IsFiniteSet(DOMAIN c)
  /\ c \in [DOMAIN c -> 1..Cardinality(DOMAIN c)]
  /\ \A x, y \in DOMAIN c : c[x] = c[y] => x = y
  /\ \A i \in 1..Cardinality(DOMAIN c) : \E x \in DOMAIN c : c[x] = i

\* The links l are the parent relation of the set S of blocks.
Linked(S, l) ==
  /\ l \in [parent : [Block -> Block \union {NoBlock}], children : [Block -> SUBSET Block]]
  /\ \A b \in Block :
       /\ l.parent[b] = IF b \in S /\ ParentHash[b] \in S THEN ParentHash[b] ELSE NoBlock
       /\ l.children[b] = IF b \in S THEN ChildrenIn(S, b) ELSE {}

\* The inductive invariant.
Inv ==
  /\ Cached \subseteq Block \ {Genesis}
  /\ Cardinality(Cached) <= size
  /\ Ranked(cache)
  /\ Linked(Cached, link)

-----------------------------------------------------------------------------
(* The LRU cache.                                                          *)

\* A look-up keeps the blocks of the cache and numbers them anew.
LEMMA GetRanked ==
  ASSUME NEW c, NEW b, Ranked(c)
  PROVE  /\ DOMAIN Get(c, b) = DOMAIN c
         /\ Ranked(Get(c, b))
         /\ b \in DOMAIN c => Get(c, b)[b] = Cardinality(DOMAIN c)
<1> DEFINE n == Cardinality(DOMAIN c)
<1>1. n \in Nat
  BY SizeType DEF Ranked
<1>2. CASE b \notin DOMAIN c
  BY <1>2 DEF Get
<1>3. CASE b \in DOMAIN c
  <2> DEFINE d == Get(c, b)
  <2>1. d = [x \in DOMAIN c |-> IF x = b THEN n ELSE IF c[x] > c[b] THEN c[x] - 1 ELSE c[x]]
    BY <1>3 DEF Get
  <2>2. DOMAIN d = DOMAIN c /\ d[b] = n
    BY <2>1, <1>3
  <2>3. \A x \in DOMAIN c : c[x] \in 1..n
    BY DEF Ranked
  <2>4. d \in [DOMAIN c -> 1..n]
    <3>1. \A x \in DOMAIN c : (IF x = b THEN n ELSE IF c[x] > c[b] THEN c[x] - 1 ELSE c[x]) \in 1..n
      BY <1>1, <1>3, <2>3
    <3>2. QED BY <3>1, <2>1
  <2>5. \A x, y \in DOMAIN c : d[x] = d[y] => x = y
    <3>1. \A x, y \in DOMAIN c : c[x] = c[y] => x = y
      BY DEF Ranked
    <3>2. \A x \in DOMAIN c : x # b => c[x] # c[b]
      BY <3>1, <1>3
    <3>3. QED BY <2>1, <2>3, <3>1, <3>2, <1>1, <1>3
  <2>6. \A i \in 1..n : \E x \in DOMAIN c : d[x] = i
    <3> SUFFICES ASSUME NEW i \in 1..n PROVE \E x \in DOMAIN c : d[x] = i
      OBVIOUS
    <3>1. CASE i = n
      BY <3>1, <2>2, <1>3
    <3>2. CASE i # n /\ i >= c[b]
      <4>1. i + 1 \in 1..n
        BY <3>2, <1>1
      <4>2. PICK x \in DOMAIN c : c[x] = i + 1
        BY <4>1 DEF Ranked
      <4>3. x # b /\ c[x] > c[b]
        BY <4>2, <3>2, <2>3, <1>3
      <4>4. d[x] = i
        BY <4>2, <4>3, <2>1
      <4>5. QED BY <4>4
    <3>3. CASE i < c[b]
      <4>1. PICK x \in DOMAIN c : c[x] = i
        BY DEF Ranked
      <4>2. x # b /\ ~(c[x] > c[b])
        BY <4>1, <3>3, <2>3, <1>3
      <4>3. d[x] = i
        BY <4>1, <4>2, <2>1
      <4>4. QED BY <4>3
    <3>4. QED BY <3>1, <3>2, <3>3, <2>3, <1>1, <1>3
  <2>7. QED BY <2>2, <2>4, <2>5, <2>6, <1>3 DEF Ranked
<1>4. QED BY <1>2, <1>3

\* Adding a block gives it the highest rank.
LEMMA InsertRanked ==
  ASSUME NEW c, NEW b, Ranked(c), b \notin DOMAIN c
  PROVE  /\ DOMAIN Insert(c, b) = DOMAIN c \union {b}
         /\ Ranked(Insert(c, b))
         /\ Cardinality(DOMAIN Insert(c, b)) = Cardinality(DOMAIN c) + 1
         /\ \A x \in DOMAIN c : Insert(c, b)[x] = c[x]
         /\ Insert(c, b)[b] = Cardinality(DOMAIN c) + 1
<1> DEFINE n == Cardinality(DOMAIN c)
           d == Insert(c, b)
<1>1. n \in Nat /\ IsFiniteSet(DOMAIN c)
  BY SizeType DEF Ranked
<1>2. /\ DOMAIN d = DOMAIN c \union {b}
      /\ d[b] = n + 1
      /\ \A x \in DOMAIN c : d[x] = c[x]
  BY DEF Insert
<1>3. IsFiniteSet(DOMAIN d) /\ Cardinality(DOMAIN d) = n + 1
  BY <1>1, <1>2, AddIsFinite, SizeAdd
<1>4. \A x \in DOMAIN c : c[x] \in 1..n
  BY DEF Ranked
<1>5. d \in [DOMAIN d -> 1..(n + 1)]
  <2>1. \A x \in DOMAIN d : d[x] \in 1..(n + 1)
    BY <1>1, <1>2, <1>4
  <2>2. d = [x \in DOMAIN d |-> d[x]]
    BY <1>2 DEF Insert
  <2>3. QED BY <2>1, <2>2
<1>6. \A x, y \in DOMAIN d : d[x] = d[y] => x = y
  <2>1. \A x, y \in DOMAIN c : c[x] = c[y] => x = y
    BY DEF Ranked
  <2>2. QED BY <1>1, <1>2, <1>4, <2>1
<1>7. \A i \in 1..(n + 1) : \E x \in DOMAIN d : d[x] = i
  <2>1. \A i \in 1..n : \E x \in DOMAIN c : c[x] = i
    BY DEF Ranked
  <2>2. QED BY <1>1, <1>2, <2>1
<1>8. QED BY <1>2, <1>3, <1>5, <1>6, <1>7 DEF Ranked

\* Dropping a block closes the gap in the ranks.
LEMMA DropRanked ==
  ASSUME NEW c, NEW b, Ranked(c), b \in DOMAIN c
  PROVE  /\ DOMAIN Drop(c, b) = DOMAIN c \ {b}
         /\ Ranked(Drop(c, b))
         /\ Cardinality(DOMAIN Drop(c, b)) = Cardinality(DOMAIN c) - 1
<1> DEFINE n == Cardinality(DOMAIN c)
           d == Drop(c, b)
<1>1. n \in Nat /\ IsFiniteSet(DOMAIN c)
  BY SizeType DEF Ranked
<1>2. d = [x \in DOMAIN c \ {b} |-> IF c[x] > c[b] THEN c[x] - 1 ELSE c[x]]
  BY DEF Drop
<1>3. DOMAIN d = DOMAIN c \ {b}
  BY <1>2
<1>4. IsFiniteSet(DOMAIN d) /\ Cardinality(DOMAIN d) = n - 1
  BY <1>1, <1>3, SizeRemove
<1>5. \A x \in DOMAIN c : c[x] \in 1..n /\ (x # b => c[x] # c[b])
  BY DEF Ranked
<1>6. d \in [DOMAIN d -> 1..(n - 1)]
  <2>1. \A x \in DOMAIN d : (IF c[x] > c[b] THEN c[x] - 1 ELSE c[x]) \in 1..(n - 1)
    BY <1>1, <1>3, <1>5
  <2>2. QED BY <2>1, <1>2, <1>3
<1>7. \A x, y \in DOMAIN d : d[x] = d[y] => x = y
  <2>1. \A x, y \in DOMAIN c : c[x] = c[y] => x = y
    BY DEF Ranked
  <2>2. QED BY <1>1, <1>2, <1>3, <1>5, <2>1
<1>8. \A i \in 1..(n - 1) : \E x \in DOMAIN d : d[x] = i
  <2> SUFFICES ASSUME NEW i \in 1..(n - 1) PROVE \E x \in DOMAIN d : d[x] = i
    OBVIOUS
  <2>1. CASE i < c[b]
    <3>1. i \in 1..n
      BY <1>1
    <3>2. PICK x \in DOMAIN c : c[x] = i
      BY <3>1 DEF Ranked
    <3>3. x # b /\ ~(c[x] > c[b])
      BY <3>2, <2>1, <1>5
    <3>4. QED BY <3>2, <3>3, <1>2, <1>3
  <2>2. CASE i >= c[b]
    <3>1. i + 1 \in 1..n
      BY <1>1
    <3>2. PICK x \in DOMAIN c : c[x] = i + 1
      BY <3>1 DEF Ranked
    <3>3. x # b /\ c[x] > c[b]
      BY <3>2, <2>2, <1>5
    <3>4. d[x] = i
      BY <3>2, <3>3, <1>2
    <3>5. QED BY <3>3, <3>4, <1>3
  <2>3. QED BY <2>1, <2>2, <1>5, <1>1
<1>9. QED BY <1>3, <1>4, <1>6, <1>7, <1>8 DEF Ranked

\* A cache that is not empty has an oldest block.
LEMMA OldestRanked ==
  ASSUME NEW c, Ranked(c), Cardinality(DOMAIN c) > 0
  PROVE  Oldest(c) \in DOMAIN c /\ c[Oldest(c)] = 1
<1>1. 1 \in 1..Cardinality(DOMAIN c)
  BY SizeType DEF Ranked
<1>2. \E b \in DOMAIN c : c[b] = 1
  BY <1>1 DEF Ranked
<1>3. QED BY <1>2 DEF Oldest

-----------------------------------------------------------------------------
(* Links.                                                                  *)

\* dispose of a block of the pool leaves the links of the others.
LEMMA DisposeLinks ==
  ASSUME NEW S \in SUBSET (Block \ {Genesis}), NEW l, NEW b \in S, Linked(S, l)
  PROVE  Linked(S \ {b}, dispose(l, b))
<1> DEFINE d == dispose(l, b)
           T == S \ {b}
<1>1. /\ \A x \in Block : l.parent[x] \in Block \union {NoBlock}
      /\ \A x \in Block : l.children[x] \in SUBSET Block
  BY DEF Linked
<1>2. /\ d.parent = [x \in Block |-> IF x = b \/ x \in l.children[b] THEN NoBlock ELSE l.parent[x]]
      /\ d.children = [x \in Block |-> IF x = b THEN {}
                                       ELSE IF x = l.parent[b] THEN l.children[x] \ {b}
                                       ELSE l.children[x]]
  BY DEF dispose
<1>3. d \in [parent : [Block -> Block \union {NoBlock}], children : [Block -> SUBSET Block]]
  BY <1>1, <1>2 DEF dispose
<1>4. ASSUME NEW x \in Block
      PROVE  d.parent[x] = IF x \in T /\ ParentHash[x] \in T THEN ParentHash[x] ELSE NoBlock
  <2>1. l.children[b] = {y \in S : ParentHash[y] = b}
    BY ZenonT(60) DEF Linked, ChildrenIn
  <2>2. l.parent[x] = IF x \in S /\ ParentHash[x] \in S THEN ParentHash[x] ELSE NoBlock
    BY DEF Linked
  <2>3. QED BY <1>2, <2>1, <2>2
<1>5. ASSUME NEW x \in Block
      PROVE  d.children[x] = IF x \in T THEN ChildrenIn(T, x) ELSE {}
  <2>1. l.children[x] = IF x \in S THEN {y \in S : ParentHash[y] = x} ELSE {}
    BY ZenonT(60) DEF Linked, ChildrenIn
  <2>2. l.parent[b] = IF ParentHash[b] \in S THEN ParentHash[b] ELSE NoBlock
    BY DEF Linked
  <2>3. NoBlock \notin Block /\ ParentHash[b] \in Block
    BY TreeAssumption
  <2>4. CASE x = b
    BY <1>2, <2>4
  <2>5. CASE x # b /\ x = l.parent[b]
    BY SMTT(60), <1>2, <2>1, <2>2, <2>3, <2>5 DEF ChildrenIn
  <2>6. CASE x # b /\ x # l.parent[b]
    <3>1. d.children[x] = l.children[x]
      BY <1>2, <2>6
    <3>2. x \in S => ParentHash[b] # x
      BY <2>2, <2>6
    <3>3. QED BY <3>1, <3>2, <2>1, <2>6 DEF ChildrenIn
  <2>7. QED BY <2>4, <2>5, <2>6
<1>6. QED BY ZenonT(60), <1>3, <1>4, <1>5 DEF Linked

\* The links Push sets: the new block to its parent, its children to it.
LEMMA PushLinks ==
  ASSUME NEW S \in SUBSET (Block \ {Genesis}), NEW l, NEW b \in Block \ {Genesis},
         b \notin S, Linked(S, l),
         NEW up, up = IF ParentHash[b] \in S THEN linkParent(l, {b}, ParentHash[b]) ELSE l
  PROVE  Linked(S \union {b}, linkParent(up, {c \in S : c # Genesis /\ ParentHash[c] = b}, b))
<1> DEFINE C == {c \in S : c # Genesis /\ ParentHash[c] = b}
           d == linkParent(up, C, b)
           T == S \union {b}
           p == ParentHash[b]
<1>0. p # b /\ p \in Block /\ NoBlock \notin Block
  BY TreeAssumption, PoolAssumption
<1>1. /\ \A x \in Block : l.parent[x] \in Block \union {NoBlock}
      /\ \A x \in Block : l.children[x] \in SUBSET Block
      /\ l.parent \in [Block -> Block \union {NoBlock}]
      /\ l.children \in [Block -> SUBSET Block]
  BY DEF Linked
<1>2. /\ \A x \in Block : up.parent[x] = IF x = b /\ p \in S THEN p ELSE l.parent[x]
      /\ \A x \in Block : up.children[x] = IF x = p /\ p \in S THEN l.children[x] \union {b}
                                            ELSE l.children[x]
  BY DEF linkParent
<1>3. /\ d.parent = [x \in Block |-> IF x \in C THEN b ELSE up.parent[x]]
      /\ d.children = [x \in Block |-> IF x = b THEN up.children[x] \union C ELSE up.children[x]]
  BY DEF linkParent
<1>4. d \in [parent : [Block -> Block \union {NoBlock}], children : [Block -> SUBSET Block]]
  <2>1. \A x \in Block : (IF x \in C THEN b ELSE up.parent[x]) \in Block \union {NoBlock}
    BY ZenonT(60), <1>0, <1>1, <1>2
  <2>2. \A x \in Block : (IF x = b THEN up.children[x] \union C ELSE up.children[x]) \in SUBSET Block
    <3>1. ASSUME NEW x \in Block PROVE up.children[x] \subseteq Block
      <4>1. l.children[x] \subseteq Block
        BY <1>1
      <4>2. up.children[x] \subseteq l.children[x] \union {b}
        BY ZenonT(60), <1>2
      <4>3. QED BY SMTT(60), <4>1, <4>2
    <3>2. C \subseteq Block
      OBVIOUS
    <3>3. QED BY ZenonT(60), <3>1, <3>2
  <2>3. QED BY <2>1, <2>2 DEF linkParent
<1>5. ASSUME NEW x \in Block
      PROVE  d.parent[x] = IF x \in T /\ ParentHash[x] \in T THEN ParentHash[x] ELSE NoBlock
  <2>1. l.parent[x] = IF x \in S /\ ParentHash[x] \in S THEN ParentHash[x] ELSE NoBlock
    BY DEF Linked
  <2>2. CASE x = b
    BY ZenonT(60), <2>1, <2>2, <1>0, <1>2, <1>3
  <2>3. CASE x \in C
    BY <2>3, <1>3
  <2>4. CASE x # b /\ x \notin C
    <3>1. d.parent[x] = l.parent[x]
      BY ZenonT(120), <2>4, <1>2, <1>3
    <3>2. x \in S => ParentHash[x] # b
      BY <2>4
    <3>3. QED BY <3>1, <3>2, <2>1, <2>4
  <2>5. QED BY <2>2, <2>3, <2>4
<1>6. ASSUME NEW x \in Block
      PROVE  d.children[x] = IF x \in T THEN ChildrenIn(T, x) ELSE {}
  <2>1. l.children[x] = IF x \in S THEN {y \in S : ParentHash[y] = x} ELSE {}
    BY ZenonT(60) DEF Linked, ChildrenIn
  <2>2. CASE x = b
    <3>1. d.children[x] = C
      BY ZenonT(60), <1>0, <1>2, <1>3, <2>1, <2>2
    <3>2. C = {y \in T : ParentHash[y] = b}
      BY <1>0
    <3>3. QED BY ZenonT(60), <3>1, <3>2, <2>2 DEF ChildrenIn
  <2>3. CASE x # b /\ x = p /\ p \in S
    BY ZenonT(120), <1>2, <1>3, <2>1, <2>3 DEF ChildrenIn
  <2>4. CASE x # b /\ ~(x = p /\ p \in S)
    <3>1. d.children[x] = l.children[x]
      BY ZenonT(60), <1>2, <1>3, <2>4
    <3>2. QED BY <3>1, <2>1, <2>4 DEF ChildrenIn
  <2>5. QED BY <2>2, <2>3, <2>4
<1>7. QED BY ZenonT(60), <1>4, <1>5, <1>6 DEF Linked

-----------------------------------------------------------------------------
(* The invariant.                                                          *)

\* The new pool is empty.
LEMMA InitInv == Init => Inv
<1> SUFFICES ASSUME Init PROVE Inv
  OBVIOUS
<1>1. Cached = {} /\ IsFiniteSet(Cached) /\ Cardinality(Cached) = 0
  BY EmptyIsFinite, SizeType DEF Init, Cached
<1>2. Ranked(cache)
  BY <1>1 DEF Ranked, Init, Cached
<1>3. Linked(Cached, link)
  BY <1>1 DEF Linked, Init, ChildrenIn
<1>4. QED BY <1>1, <1>2, <1>3, PoolAssumption DEF Inv

\* What a push makes of the cache before the eviction.
LEMMA PushInserts ==
  ASSUME Inv, NEW b \in Block \ {Genesis}, b \notin Cached,
         NEW c, c = Insert(Get(cache, ParentHash[b]), b)
  PROVE  /\ DOMAIN c = Cached \union {b}
         /\ Ranked(c)
         /\ Cardinality(DOMAIN c) = Cardinality(Cached) + 1
         /\ ParentHash[b] \in Cached => c[ParentHash[b]] = Cardinality(Cached)
         /\ Oldest(c) \in Cached \union {b}
         /\ c[Oldest(c)] = 1
         /\ Cardinality(Cached) \in Nat
<1> DEFINE h == Get(cache, ParentHash[b])
<1>1. /\ DOMAIN h = Cached
      /\ Ranked(h)
      /\ ParentHash[b] \in Cached => h[ParentHash[b]] = Cardinality(Cached)
  BY GetRanked DEF Inv, Cached
<1> HIDE DEF h
<1>2. c = Insert(h, b)
  BY DEF h
<1>3. /\ DOMAIN c = Cached \union {b}
      /\ Ranked(c)
      /\ Cardinality(DOMAIN c) = Cardinality(Cached) + 1
      /\ \A x \in Cached : c[x] = h[x]
  <2>1. b \notin DOMAIN h
    BY <1>1
  <2>2. /\ DOMAIN Insert(h, b) = DOMAIN h \union {b}
        /\ Ranked(Insert(h, b))
        /\ Cardinality(DOMAIN Insert(h, b)) = Cardinality(DOMAIN h) + 1
        /\ \A x \in DOMAIN h : Insert(h, b)[x] = h[x]
    BY ZenonT(60), <1>1, <2>1, InsertRanked
  <2>3. QED BY <2>2, <1>1, <1>2
<1>4. Cardinality(Cached) \in Nat
  BY SizeType DEF Inv, Ranked, Cached
<1>5. Oldest(c) \in DOMAIN c /\ c[Oldest(c)] = 1
  BY <1>3, <1>4, OldestRanked
<1>6. QED BY <1>1, <1>3, <1>4, <1>5

\* Push keeps the ranks a numbering and the links the parent relation.
LEMMA PushPreserves ==
  ASSUME Inv, NEW b \in Block \ {Genesis}, Push(b)
  PROVE  Inv'
<1> DEFINE p == ParentHash[b]
           inserted == Insert(Get(cache, p), b)
           up == IF p \in Cached THEN linkParent(link, {b}, p) ELSE link
           linked == linkParent(up, findChildLinkedBlocks(b), b)
           old == Oldest(inserted)
<1>1. b \notin Cached
  BY DEF Push
<1>2. /\ DOMAIN inserted = Cached \union {b}
      /\ Ranked(inserted)
      /\ Cardinality(DOMAIN inserted) = Cardinality(Cached) + 1
      /\ old \in Cached \union {b}
      /\ Cardinality(Cached) \in Nat
  BY <1>1, PushInserts
<1>3. Cached \in SUBSET (Block \ {Genesis})
  BY DEF Inv
<1>4. Linked(Cached \union {b}, linked)
  BY ZenonT(60), <1>1, <1>3, PushLinks DEF Inv, findChildLinkedBlocks
<1>5. IF Cardinality(DOMAIN inserted) > size
      THEN cache' = Drop(inserted, old) /\ link' = dispose(linked, old)
      ELSE cache' = inserted /\ link' = linked
  BY DEF Push
<1>6. size \in Nat /\ Cardinality(Cached) <= size
  BY PoolAssumption DEF Inv
<1> HIDE DEF inserted, linked, old
<1>7. CASE Cardinality(DOMAIN inserted) > size
  <2>1. /\ Cached' = (Cached \union {b}) \ {old}
        /\ Ranked(cache')
        /\ Cardinality(Cached') = Cardinality(Cached)
    <3>1. /\ DOMAIN Drop(inserted, old) = DOMAIN inserted \ {old}
          /\ Ranked(Drop(inserted, old))
          /\ Cardinality(DOMAIN Drop(inserted, old)) = Cardinality(DOMAIN inserted) - 1
      BY ZenonT(60), <1>2, DropRanked
    <3>2. Cached' = DOMAIN Drop(inserted, old) /\ cache' = Drop(inserted, old)
      BY <1>5, <1>7 DEF Cached
    <3>3. QED BY <3>1, <3>2, <1>2
  <2>2. Linked((Cached \union {b}) \ {old}, dispose(linked, old))
    BY <1>2, <1>3, <1>4, DisposeLinks
  <2>3. QED BY <2>1, <2>2, <1>3, <1>5, <1>6, <1>7 DEF Inv
<1>8. CASE ~(Cardinality(DOMAIN inserted) > size)
  <2>1. /\ Cached' = Cached \union {b}
        /\ Ranked(cache')
        /\ Cardinality(Cached') <= size
        /\ link' = linked
    BY <1>2, <1>5, <1>6, <1>8 DEF Cached
  <2>2. QED BY <2>1, <1>3, <1>4 DEF Inv
<1>9. QED BY <1>7, <1>8

\* So does Remove, which disposes of the links of the block.
LEMMA RemovePreserves ==
  ASSUME Inv, NEW b \in Block \ {Genesis}, Remove(b)
  PROVE  Inv'
<1>1. /\ b \in Cached
      /\ cache' = Drop(cache, b)
      /\ link' = dispose(link, b)
  BY DEF Remove
<1>2. /\ Cached' = Cached \ {b}
      /\ Ranked(cache')
      /\ Cardinality(Cached') = Cardinality(Cached) - 1
  BY <1>1, DropRanked DEF Inv, Cached
<1>3. Linked(Cached \ {b}, dispose(link, b))
  BY <1>1, DisposeLinks DEF Inv
<1>4. Cardinality(Cached) \in Nat /\ size \in Nat
  BY SizeType, PoolAssumption DEF Inv, Ranked, Cached
<1>5. QED BY <1>1, <1>2, <1>3, <1>4 DEF Inv

\* So do the look-ups, which change the ranks only.
LEMMA FindPreserves ==
  ASSUME Inv, NEW b \in Block \ {Genesis}, Find(b)
  PROVE  Inv'
<1>1. cache' = Get(cache, b) /\ link' = link
  BY DEF Find
<1>2. Cached' = Cached /\ Ranked(cache')
  BY <1>1, GetRanked DEF Inv, Cached
<1>3. QED BY <1>1, <1>2 DEF Inv

\* Inv is an invariant of the pool.
LEMMA Invariance == Spec => []Inv
<1>1. Inv /\ [Next]_vars => Inv'
  <2> SUFFICES ASSUME Inv, [Next]_vars PROVE Inv'
    OBVIOUS
  <2>1. CASE UNCHANGED vars
    BY <2>1 DEF vars, Inv, Cached
  <2>2. CASE Next
    BY <2>2, PushPreserves, RemovePreserves, FindPreserves DEF Next
  <2>3. QED BY <2>1, <2>2
<1>2. QED BY <1>1, InitInv, PTL DEF Spec

-----------------------------------------------------------------------------
(* The theorems.                                                           *)

\* The pool never exceeds its size and the LRU ranks stay a numbering of it.
THEOREM TypeCorrect == Spec => []TypeOK
<1>1. Inv => TypeOK
  BY DEF Inv, TypeOK, Ranked, Linked, Cached
<1>2. QED BY <1>1, Invariance, PTL

\* The links of the linked blocks are the parent relation of the cached blocks,
\* after any sequence of Push, Remove, eviction and look-ups.
THEOREM LinksStayParents == Spec => []LinksAreParents
<1>1. Inv => LinksAreParents
  BY DEF Inv, LinksAreParents, Linked
<1>2. QED BY <1>1, Invariance, PTL

\* Push never evicts the parent of the block it adds from a pool of two or more.
THEOREM PushKeepsParent == Spec => ParentSurvives
<1>1. ASSUME Inv, [Next]_vars, NEW b \in Block \ {Genesis},
             size > 1, b \notin Cached, b \in Cached', ParentHash[b] \in Cached
      PROVE  ParentHash[b] \in Cached'
  <2>1. CASE UNCHANGED vars
    BY <2>1, <1>1 DEF vars, Cached
  <2>2. ASSUME NEW x \in Block \ {Genesis}, Remove(x) \/ Find(x)
        PROVE  FALSE
    <3>1. CASE Remove(x)
      BY <3>1, <1>1 DEF Remove, Drop, Cached
    <3>2. CASE Find(x)
      BY <3>2, <1>1, GetRanked DEF Find, Inv, Cached
    <3>3. QED BY <2>2, <3>1, <3>2
  <2>3. ASSUME NEW x \in Block \ {Genesis}, Push(x)
        PROVE  ParentHash[b] \in Cached'
    <3> DEFINE c == Insert(Get(cache, ParentHash[x]), x)
               old == Oldest(c)
    <3>1. x \notin Cached
      BY <2>3 DEF Push
    <3>2. /\ DOMAIN c = Cached \union {x}
          /\ Ranked(c)
          /\ Cardinality(DOMAIN c) = Cardinality(Cached) + 1
          /\ ParentHash[x] \in Cached => c[ParentHash[x]] = Cardinality(Cached)
          /\ old \in Cached \union {x}
          /\ c[old] = 1
          /\ Cardinality(Cached) \in Nat
      BY ZenonT(60), <3>1, <1>1, PushInserts
    <3>3. cache' = IF Cardinality(DOMAIN c) > size THEN Drop(c, old) ELSE c
      BY <2>3 DEF Push
    <3> HIDE DEF c, old
    <3>4. Cached' = IF Cardinality(DOMAIN c) > size THEN (Cached \union {x}) \ {old}
                    ELSE Cached \union {x}
      BY ZenonT(60), <3>2, <3>3, DropRanked DEF Cached
    <3>5. x = b
      BY <3>4, <1>1
    <3>6. CASE Cardinality(DOMAIN c) > size
      <4>1. size \in Nat
        BY PoolAssumption
      <4>2. Cardinality(Cached) > 1
        BY <3>2, <3>6, <4>1, <1>1
      <4>3. old # ParentHash[b]
        BY <3>2, <3>5, <4>2, <1>1
      <4>4. QED BY <3>4, <3>6, <4>3, <1>1
    <3>7. CASE ~(Cardinality(DOMAIN c) > size)
      BY <3>4, <3>7, <1>1
    <3>8. QED BY <3>6, <3>7
  <2>4. QED BY <2>1, <2>2, <2>3, <1>1 DEF Next
<1>2. Inv /\ [Next]_vars =>
        [\A b \in Block \ {Genesis} :
           (size > 1 /\ b \notin Cached /\ b \in Cached' /\ ParentHash[b] \in Cached)
             => ParentHash[b] \in Cached']_vars
  BY <1>1
<1>3. QED BY <1>2, Invariance, PTL DEF Spec, ParentSurvives

-----------------------------------------------------------------------------
(* Climbing the links.  Hashes lead into no cycle, so no set of pooled     *)
(* blocks holds the parents of all its members: the set of the blocks for  *)
(* which the climb ends at a wrong place would be such a set.              *)

\* A finite set of blocks without the genesis block is not closed.
LEMMA NoClosedPool ==
  ASSUME NEW B \in SUBSET (Block \ {Genesis}), IsFiniteSet(B), Closed(B)
  PROVE  B = {}
<1> SUFFICES ASSUME B # {} PROVE FALSE
  OBVIOUS
<1> DEFINE F == {Ancestors[x] : x \in B}
<1>1. \A x \in B : Ancestors[x] \subseteq B
  BY AncestorsLeast
<1>2. F \in SUBSET (SUBSET B) /\ F # {}
  BY <1>1
<1>4. PICK T \in F : \A U \in F : U \subseteq T => U = T
  <2> HIDE DEF F
  <2> QED BY <1>2, SmallestSet, ZenonT(60)
<1>5. PICK x \in B : T = Ancestors[x]
  BY <1>4
<1> DEFINE p == ParentHash[x]
<1>6. p \in B /\ Ancestors[p] \in F
  BY DEF Closed
<1>7. Ancestors[p] \subseteq Ancestors[x] /\ x \in Ancestors[x]
  BY AncestorsUnfold, AncestorsClosed
<1>8. x \notin Ancestors[p]
  BY HashAssumption
<1> QED BY <1>4, <1>5, <1>6, <1>7, <1>8

\* Two blocks that descend from each other are the same.
LEMMA AncestorsAntisymmetric ==
  ASSUME NEW a \in Block, NEW c \in Block, a \in Ancestors[c], c \in Ancestors[a]
  PROVE  a = c
<1> SUFFICES ASSUME a # c PROVE FALSE
  OBVIOUS
<1>1. ParentHash[c] \in Block
  BY TreeAssumption
<1>2. a \in Ancestors[ParentHash[c]]
  BY AncestorsUnfold
<1>3. c \in Ancestors[ParentHash[c]]
  BY <1>1, <1>2, AncestorsTransitive
<1>4. c = Genesis
  BY <1>3, HashAssumption
<1>5. Ancestors[Genesis] \subseteq {Genesis}
  <2>1. {Genesis} \in SUBSET Block /\ Closed({Genesis})
    BY TreeAssumption DEF Closed
  <2> QED BY <2>1, AncestorsLeast, TreeAssumption
<1> QED BY <1>4, <1>5

\* The ends of x's unbroken ancestry in S.
Top(S, x) ==
  {a \in Ancestors[x] : Path(a, x) \subseteq S /\ ParentHash[a] \notin S}

\* There is at most one.
LEMMA TopUnique ==
  ASSUME NEW S, NEW x \in Block, NEW a \in Top(S, x), NEW c \in Top(S, x)
  PROVE  a = c
<1>1. ASSUME NEW u \in Top(S, x), NEW v \in Top(S, x), u \in Ancestors[v], u # v
      PROVE  FALSE
  <2>1. v \in Block /\ v \in Ancestors[x]
    BY AncestorsClosed DEF Top
  <2>2. u \in Ancestors[ParentHash[v]]
    BY <1>1, <2>1, AncestorsUnfold
  <2>3. ParentHash[v] \in Ancestors[x]
    BY <2>1, AncestorsClosed DEF Closed
  <2>4. ParentHash[v] \in Path(u, x)
    BY <2>2, <2>3 DEF Path
  <2> QED BY <2>4 DEF Top
<1>2. a \in Ancestors[c] \/ c \in Ancestors[a]
  BY AncestorsLinear DEF Top
<1> QED BY <1>1, <1>2

\* A block whose parent is not in S is its own end; otherwise the parent's end is
\* the block's.
LEMMA TopStep ==
  ASSUME NEW S \in SUBSET Block, NEW x \in S
  PROVE  /\ ParentHash[x] \notin S => x \in Top(S, x)
         /\ ParentHash[x] \in S => Top(S, ParentHash[x]) \subseteq Top(S, x)
<1> DEFINE p == ParentHash[x]
<1>1. x \in Block /\ p \in Block
  BY TreeAssumption
<1>2. Ancestors[x] = {x} \union Ancestors[p]
  BY <1>1, AncestorsUnfold
<1>3. Path(x, x) \subseteq S
  <2>1. \A y \in Path(x, x) : y = x
    BY <1>1, AncestorsClosed, AncestorsAntisymmetric DEF Path
  <2> QED BY <2>1
<1>4. \A a : Path(a, x) \subseteq {x} \union Path(a, p)
  BY <1>2 DEF Path
<1>5. x \in Ancestors[x]
  BY <1>1, AncestorsClosed
<1> HIDE DEF p
<1>6. p \notin S => x \in Top(S, x)
  BY <1>3, <1>5 DEF Top, p
<1>7. \A a \in Top(S, p) : a \in Top(S, x)
  BY <1>2, <1>4 DEF Top
<1> QED BY <1>6, <1>7 DEF p

\* In a finite set without the genesis block there is an end.
LEMMA TopExists ==
  ASSUME NEW S \in SUBSET (Block \ {Genesis}), IsFiniteSet(S), NEW x \in S
  PROVE  Top(S, x) # {}
<1> DEFINE B == {y \in S : Top(S, y) = {}}
<1>1. IsFiniteSet(B) /\ B \in SUBSET (Block \ {Genesis})
  BY PartIsFinite
<1>2. ASSUME NEW y \in B PROVE ParentHash[y] \in B
  <2>1. y \in S /\ Top(S, y) = {} /\ S \in SUBSET Block
    BY <1>2
  <2> QED BY <2>1, TopStep
<1>3. B = {}
  <2> HIDE DEF B
  <2>1. Closed(B)
    BY <1>2 DEF Closed
  <2> QED BY <1>1, <2>1, NoClosedPool
<1> QED BY <1>3

\* f climbs: it follows the parent links l to their end.
Climbs(f, l) ==
  f = [x \in Block |-> IF l.parent[x] = NoBlock THEN x ELSE f[l.parent[x]]]

\* Something climbs links that are the parent relation of S ...
LEMMA ClimbExists ==
  ASSUME NEW S \in SUBSET (Block \ {Genesis}), IsFiniteSet(S), NEW l, Linked(S, l)
  PROVE  \E f : Climbs(f, l)
<1> DEFINE End(x) == CHOOSE a \in Top(S, x) : TRUE
           f == [x \in Block |-> IF x \in S THEN End(x) ELSE x]
<1>1. ASSUME NEW x \in Block
      PROVE  f[x] = IF l.parent[x] = NoBlock THEN x ELSE f[l.parent[x]]
  <2> DEFINE p == ParentHash[x]
  <2>1. l.parent[x] = (IF x \in S /\ p \in S THEN p ELSE NoBlock) /\ p # NoBlock /\ p \in Block
    BY TreeAssumption DEF Linked
  <2>2. CASE x \notin S
    BY <2>1, <2>2
  <2>3. CASE x \in S /\ p \notin S
    <3>1. x \in Top(S, x)
      BY <2>3, TopStep
    <3>2. End(x) \in Top(S, x)
      BY <3>1
    <3>3. End(x) = x
      BY <3>1, <3>2, TopUnique
    <3> QED BY <2>1, <2>3, <3>3
  <2>4. CASE x \in S /\ p \in S
    <3>1. End(p) \in Top(S, p)
      BY <2>4, TopExists
    <3>2. End(p) \in Top(S, x)
      BY <2>4, <3>1, TopStep
    <3>3. End(x) \in Top(S, x)
      BY <3>2
    <3>4. End(x) = End(p)
      BY <3>2, <3>3, TopUnique
    <3> HIDE DEF End
    <3> QED BY <2>1, <2>4, <3>4
  <2> QED BY <2>2, <2>3, <2>4
<1>2. Climbs(f, l)
  <2>1. f = [x \in Block |-> f[x]]
    OBVIOUS
  <2> HIDE DEF f
  <2> QED BY <1>1, <2>1 DEF Climbs
<1> QED BY <1>2

\* ... and it ends where the unbroken ancestry does.
LEMMA ClimbEnds ==
  ASSUME NEW S \in SUBSET (Block \ {Genesis}), IsFiniteSet(S), NEW l, Linked(S, l),
         NEW f, Climbs(f, l)
  PROVE  \A x \in S : f[x] \in Top(S, x)
<1> DEFINE B == {x \in S : f[x] \notin Top(S, x)}
<1>1. IsFiniteSet(B) /\ B \in SUBSET (Block \ {Genesis})
  BY PartIsFinite
<1>2. ASSUME NEW x \in B PROVE ParentHash[x] \in B
  <2> DEFINE p == ParentHash[x]
  <2>1. x \in S /\ S \in SUBSET Block /\ x \in Block /\ p \in Block /\ p # NoBlock
        /\ f[x] \notin Top(S, x)
    BY TreeAssumption
  <2>2. f[x] = IF l.parent[x] = NoBlock THEN x ELSE f[l.parent[x]]
    BY <2>1 DEF Climbs
  <2>3. l.parent[x] = IF p \in S THEN p ELSE NoBlock
    BY <2>1 DEF Linked
  <2>4. p \in S /\ f[x] = f[p]
    BY <2>1, <2>2, <2>3, TopStep
  <2>5. f[p] \notin Top(S, p)
    BY <2>1, <2>4, TopStep
  <2> QED BY <2>4, <2>5
<1>3. B = {}
  <2> HIDE DEF B
  <2>1. Closed(B)
    BY <1>2 DEF Closed
  <2> QED BY <1>1, <2>1, NoClosedPool
<1> QED BY <1>3

\* What FindUnlinkedAncestor computes.
LEMMA AncestorIsClimb ==
  ASSUME NEW b
  PROVE  FindUnlinkedAncestor(b) =
           IF ParentHash[b] \in Cached THEN (CHOOSE f : Climbs(f, link))[ParentHash[b]]
           ELSE NoBlock
BY Zenon DEF FindUnlinkedAncestor, Climbs

\* What UnlinkedAncestorIn says.
LEMMA AncestorIsTop ==
  ASSUME NEW S, NEW b
  PROVE  UnlinkedAncestorIn(S, b) =
           IF Top(S, ParentHash[b]) = {} THEN NoBlock
           ELSE CHOOSE a \in Top(S, ParentHash[b]) : TRUE
<1> DEFINE linked == {a \in Ancestors[ParentHash[b]] : Path(a, ParentHash[b]) \subseteq S}
           top == {a \in linked : ParentHash[a] \notin S}
<1>1. UnlinkedAncestorIn(S, b) = IF top = {} THEN NoBlock ELSE CHOOSE a \in top : TRUE
  BY Zenon DEF UnlinkedAncestorIn
<1>2. top = Top(S, ParentHash[b])
  BY DEF Top
<1> HIDE DEF top
<1> QED BY <1>1, <1>2, Zenon

\* The finders, which follow links and scan the cache, answer from the set of
\* blocks in the pool alone, for every pool size and every set of blocks: what
\* the block manager relies on when it uses the pool as a set.
THEOREM FindersReadTheSet == Spec => []FindersAgree
<1>1. ASSUME Inv, NEW b \in Block \ {Genesis}
      PROVE  FindChildren(b) = ChildrenIn(Cached, b)
  BY ZenonT(60), <1>1 DEF FindChildren, findChildLinkedBlocks, ChildrenIn, Inv, Linked
<1>2. ASSUME Inv, NEW b \in Block \ {Genesis}
      PROVE  FindUnlinkedAncestor(b) = UnlinkedAncestorIn(Cached, b)
  <2> DEFINE p == ParentHash[b]
             climb == CHOOSE f : Climbs(f, link)
  <2>1. p \in Block
    BY TreeAssumption
  <2>2. /\ Cached \in SUBSET (Block \ {Genesis})
        /\ IsFiniteSet(Cached)
        /\ Linked(Cached, link)
    BY <1>2 DEF Inv, Ranked, Cached
  <2>3. CASE p \in Cached
    <3>1. Climbs(climb, link)
      BY <2>2, ClimbExists
    <3> HIDE DEF climb
    <3>2. climb[p] \in Top(Cached, p)
      BY <2>2, <2>3, <3>1, ClimbEnds
    <3>3. (CHOOSE a \in Top(Cached, p) : TRUE) \in Top(Cached, p)
      BY <3>2
    <3>4. (CHOOSE a \in Top(Cached, p) : TRUE) = climb[p]
      BY <2>1, <3>2, <3>3, TopUnique
    <3>5. UnlinkedAncestorIn(Cached, b) = climb[p]
      BY ZenonT(60), <3>2, <3>4, AncestorIsTop
    <3> QED BY <2>3, <3>5, AncestorIsClimb DEF climb
  <2>4. CASE p \notin Cached
    <3>1. ASSUME NEW a \in Top(Cached, p) PROVE FALSE
      <4>1. p \in Path(a, p)
        BY <2>1, AncestorsClosed DEF Path, Top
      <4> QED BY <2>4, <4>1 DEF Top
    <3>2. UnlinkedAncestorIn(Cached, b) = NoBlock
      BY <3>1, AncestorIsTop
    <3> QED BY <2>4, <3>2, AncestorIsClimb
  <2> QED BY <2>3, <2>4
<1>3. Inv => FindersAgree
  BY <1>1, <1>2 DEF FindersAgree
<1> QED BY <1>3, Invariance, PTL
=============================================================================
