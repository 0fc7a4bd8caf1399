------------------------------ MODULE BlockTree ------------------------------
(***************************************************************************)
(* The universe of blocks a node may ever meet, and the pure functions the *)
(* node computes on it: ancestry, the height/timestamp/interval checks of  *)
(* core/block_manager.go and the slot arithmetic of consensus/dpos.        *)
(*                                                                         *)
(* A block is an opaque value: a hash names exactly one block, and its     *)
(* header fields are functions of it.  The genesis block is its own parent *)
(* here; in the code its parent hash (zeros) names no block.               *)
(***************************************************************************)
EXTENDS Integers, FiniteSets

CONSTANTS
  Block,        \* every block data that can be received, minted or stored
  Genesis,      \* the genesis block, at height GenesisHeight
  NoBlock,      \* nil: an absent key, a nil pointer, an error result
  ParentHash,   \* ParentHash[b]: the block named by b's parent hash
  Height,       \* Height[b]: the height b's header claims
  Timestamp,    \* Timestamp[b]: seconds
  Executable,   \* blocks whose execution on their parent succeeds
  DynastySize   \* number of proposers of a dynasty

GenesisHeight == 1
BlockInterval == 3

ASSUME TreeAssumption ==
  /\ Genesis \in Block
  /\ NoBlock \notin Block
  /\ ParentHash \in [Block -> Block]
  /\ ParentHash[Genesis] = Genesis
  /\ Height \in [Block -> Nat]
  /\ Height[Genesis] = GenesisHeight
  /\ Timestamp \in [Block -> Nat]
  /\ Executable \subseteq Block
  /\ DynastySize \in Nat \ {0}

-----------------------------------------------------------------------------
(* Following parent hashes.                                                *)

\* Ancestors[b]: b and every block reached from it by parent hashes, i.e. the
\* least set that holds b and is closed under ParentHash.
Ancestors ==
  [b \in Block |->
     {a \in Block : \A S \in SUBSET Block :
                      (b \in S /\ \A x \in S : ParentHash[x] \in S) => a \in S}]

\* The blocks of the path from b down to c, both included.
Path(c, b) == {x \in Ancestors[b] : c \in Ancestors[x]}

\* The highest block of a set of blocks, NoBlock when there is none.
Highest(S) ==
  IF \E x \in S : \A y \in S : Height[y] <= Height[x]
  THEN CHOOSE x \in S : \A y \in S : Height[y] <= Height[x]
  ELSE NoBlock

\* The children of b in a set of blocks.
ChildrenIn(S, b) == {c \in S : ParentHash[c] = b}

\* The end of b's unbroken ancestry in a set of blocks, NoBlock when already b's
\* parent is not in it.
UnlinkedAncestorIn(S, b) ==
  LET linked == {a \in Ancestors[ParentHash[b]] : Path(a, ParentHash[b]) \subseteq S}
      top == {a \in linked : ParentHash[a] \notin S}
  IN  IF top = {} THEN NoBlock ELSE CHOOSE a \in top : TRUE

-----------------------------------------------------------------------------
(* The checks of processTask that depend only on the block and its parent. *)

verifyBlockHeight(b) == Height[ParentHash[b]] + 1 = Height[b]

verifyTimestamp(b) == Timestamp[b] > Timestamp[ParentHash[b]]

VerifyInterval(b) == (Timestamp[b] - Timestamp[ParentHash[b]]) % BlockInterval = 0

Verified(b) ==
  /\ verifyBlockHeight(b)
  /\ verifyTimestamp(b)
  /\ VerifyInterval(b)
  /\ b \in Executable

-----------------------------------------------------------------------------
(* Dynasties and the last irreversible block.                              *)

consensusSize == (DynastySize * 2) \div 3 + 1

calcDynastyIndex(ts) == ts \div (DynastySize * BlockInterval)

calcProposerIndex(ts) == (ts \div BlockInterval) % DynastySize

\* FindLIB walks from the tail towards the genesis block while it stays in the
\* tail's dynasty and has not met the current LIB, and returns the first block
\* at which enough distinct proposer indices have been seen.  When its cursor is
\* at c it has visited Path(c, tail).
Confirmed(c, tail, lib) ==
  /\ \A x \in Path(c, tail) :
       /\ calcDynastyIndex(Timestamp[x]) = calcDynastyIndex(Timestamp[tail])
       /\ x # lib
  /\ Cardinality({calcProposerIndex(Timestamp[x]) : x \in Path(c, tail)})
       >= consensusSize

FindLIB(tail, lib) ==
  LET found == Highest({c \in Ancestors[tail] : Confirmed(c, tail, lib)})
  IN  IF found = NoBlock THEN lib ELSE found

=============================================================================
