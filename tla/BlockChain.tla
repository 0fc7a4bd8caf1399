------------------------------ MODULE BlockChain ------------------------------
(***************************************************************************)
(* The block store of one node (core/blockchain.go) and the goroutines     *)
(* that write to it: the workers running processTask and the minter's      *)
(* directPush, which store blocks, and the single chain manager, which     *)
(* moves the main tail and the last irreversible block (LIB).              *)
(*                                                                         *)
(* Every storage Put is a step of its own, so that a crash can fall        *)
(* between any two; memory is lost in a crash and rebuilt by Setup.        *)
(***************************************************************************)
EXTENDS BlockTree

CONSTANTS
  Worker,          \* goroutines that can be inside processTask or directPush
  TailCacheSize,   \* capacity of the tailBlocks LRU
  MayCrash,        \* whether the process may be killed
  StorageMayFail   \* whether storage.Put may return an error

ASSUME ChainAssumption ==
  /\ TailCacheSize \in Nat \ {0}
  /\ MayCrash \in BOOLEAN
  /\ StorageMayFail \in BOOLEAN

\* Storage.
VARIABLES
  stored,      \* blocks under their hash key
  index,       \* index[h]: hash under the height key h, or NoBlock
  tailKey,     \* hash under tailBlockKey, or NoBlock
  libKey,      \* hash under libKey, or NoBlock
  faulted      \* history: a Put of the chain manager has failed

\* Memory.
VARIABLES
  node,        \* phase of the process: down, Setup's steps, up
  mainTail,    \* bc.mainTailBlock
  lib,         \* bc.lib
  tailBlocks,  \* bc.tailBlocks, the keys of an LRU
  trig,        \* whether trigCh (capacity 1) holds a trigger
  cm,          \* locals and position of runChainManager
  task         \* task[w]: locals and position of worker w

durable == <<stored, index, tailKey, libKey, faulted>>
vars == <<stored, index, tailKey, libKey, faulted,
          node, mainTail, lib, tailBlocks, trig, cm, task>>

Heights == {Height[b] : b \in Block}

IdleTask == [pc |-> "idle", block |-> NoBlock, cur |-> NoBlock, lib |-> NoBlock]

\* The chain manager at its select: it remembers its last choice of a tail and
\* of a LIB, and nothing else.
Waiting(tail, LIB) ==
  [pc |-> "wait", mainTail |-> tail, LIB |-> LIB, keys |-> {},
   newTail |-> NoBlock, ancestor |-> NoBlock, at |-> NoBlock]

IdleCM == Waiting(NoBlock, NoBlock)

-----------------------------------------------------------------------------
(* Reads of the chain.                                                     *)

\* BlockByHeight(Height[x]) returns x.
OnCanonical(x) == Height[x] <= Height[mainTail] /\ index[Height[x]] = x

\* Mutant: breakAtLIB is ignored.
FindAncestorOnCanonical_IgnoresLIB(b, floor) ==
  Highest({x \in Ancestors[b] : OnCanonical(x)})

\* FindAncestorOnCanonical, without a height below which it gives up (floor 0)
\* or giving up below the LIB: the highest ancestor that the height index
\* holds, or NoBlock for its errors.
FindAncestorOnCanonical(b, floor) ==
  Highest({x \in Ancestors[b] : OnCanonical(x) /\ floor <= Height[x]})

IsForkedBeforeLIB(b) == FindAncestorOnCanonical(b, Height[lib]) = NoBlock

\* ForkChoice keeps the main tail unless a tail that is not forked before the
\* LIB is strictly higher.  Of several highest tails the code takes the least
\* recently added one; the order of the LRU is abstracted, so any of them.
ForkChoices(list) ==
  LET eligible == {t \in list : /\ ~IsForkedBeforeLIB(t)
                                /\ Height[t] > Height[mainTail]}
      best == {t \in eligible : \A u \in eligible : Height[u] <= Height[t]}
  IN  IF best = {} THEN {mainTail} ELSE best

\* tailBlockList takes the keys first and then each key's block: a key removed
\* in between may be missing.
tailBlockLists(keys) ==
  {(keys \intersect tailBlocks) \union removed : removed \in SUBSET (keys \ tailBlocks)}

\* addToTailBlocks: when the LRU is full another key is evicted.
TailBlocksAfterAdd(b) ==
  IF Cardinality(tailBlocks \union {b}) <= TailCacheSize
  THEN {tailBlocks \union {b}}
  ELSE {(tailBlocks \ {t}) \union {b} : t \in tailBlocks \ {b}}

-----------------------------------------------------------------------------
(* Setup: genesis initialisation, loading, re-indexing.                    *)

Init ==
  /\ stored = {}
  /\ index = [h \in Heights |-> NoBlock]
  /\ tailKey = NoBlock
  /\ libKey = NoBlock
  /\ faulted = FALSE
  /\ node = "down"
  /\ mainTail = NoBlock
  /\ lib = NoBlock
  /\ tailBlocks = {}
  /\ trig = FALSE
  /\ cm = IdleCM
  /\ task = [w \in Worker |-> IdleTask]

memory == <<mainTail, lib, tailBlocks, trig, cm, task>>

\* Mutant: Setup looks for the genesis block by its hash.
Setup_ByHash ==
  /\ node = "down"
  /\ node' = IF Genesis \in stored THEN "load" ELSE "genesis"
  /\ UNCHANGED <<durable, memory>>

\* Setup looks for the genesis block by its height.
Setup ==
  /\ node = "down"
  /\ node' = IF index[GenesisHeight] = NoBlock THEN "genesis" ELSE "load"
  /\ UNCHANGED <<durable, memory>>

\* initGenesisToStorage: four Puts in this order.
StoreGenesisBlock ==
  /\ node = "genesis"
  /\ stored' = stored \union {Genesis}
  /\ node' = "genesisTail"
  /\ UNCHANGED <<index, tailKey, libKey, faulted, memory>>

StoreGenesisTail ==
  /\ node = "genesisTail"
  /\ tailKey' = Genesis
  /\ node' = "genesisHeight"
  /\ UNCHANGED <<stored, index, libKey, faulted, memory>>

StoreGenesisHeight ==
  /\ node = "genesisHeight"
  /\ index' = [index EXCEPT ![GenesisHeight] = Genesis]
  /\ node' = "genesisLIB"
  /\ UNCHANGED <<stored, tailKey, libKey, faulted, memory>>

StoreGenesisLIB ==
  /\ node = "genesisLIB"
  /\ libKey' = Genesis
  /\ node' = "load"
  /\ UNCHANGED <<stored, index, tailKey, faulted, memory>>

\* Mutants: a missing LIB goes unnoticed; the height index is not rebuilt.
Load_WithoutKeyCheck ==
  /\ node = "load"
  /\ mainTail' = tailKey
  /\ tailBlocks' = {tailKey}
  /\ lib' = libKey
  /\ cm' = Waiting(tailKey, libKey)
  /\ node' = "up"
  /\ UNCHANGED <<trig, task, durable>>

Load_WithoutReindex ==
  /\ libKey # NoBlock
  /\ Load_WithoutKeyCheck

\* Load the tail and the LIB; a missing key makes Setup fail.  The locals of
\* the chain manager that Start runs begin as the tail and the LIB.
Load ==
  /\ node = "load"
  /\ IF tailKey = NoBlock \/ libKey = NoBlock
     THEN node' = "failed" /\ UNCHANGED memory
     ELSE /\ mainTail' = tailKey
          /\ tailBlocks' = {tailKey}
          /\ lib' = libKey
          /\ cm' = [Waiting(tailKey, libKey) EXCEPT !.at = tailKey]
          /\ node' = "reindex"
          /\ UNCHANGED <<trig, task>>
  /\ UNCHANGED durable

\* buildIndexByBlockHeight(lib, mainTail), one Put per block, then Start.  (A
\* chain that is only the genesis block skips it; its loop would be empty.)
Reindex ==
  /\ node = "reindex"
  /\ IF cm.at = lib
     THEN node' = "up" /\ cm' = Waiting(cm.mainTail, cm.LIB) /\ UNCHANGED index
     ELSE /\ index' = [index EXCEPT ![Height[cm.at]] = cm.at]
          /\ cm' = [cm EXCEPT !.at = ParentHash[cm.at]]
          /\ UNCHANGED node
  /\ UNCHANGED <<stored, tailKey, libKey, faulted, mainTail, lib, tailBlocks, trig, task>>

\* The process dies; storage is all that is left.
Crash ==
  /\ MayCrash
  /\ node # "down"
  /\ node' = "down"
  /\ mainTail' = NoBlock
  /\ lib' = NoBlock
  /\ tailBlocks' = {}
  /\ trig' = FALSE
  /\ cm' = IdleCM
  /\ task' = [w \in Worker |-> IdleTask]
  /\ UNCHANGED durable

-----------------------------------------------------------------------------
(* Workers: processTask, and the minter's directPush.                      *)

chainState == <<index, tailKey, libKey, faulted, node, mainTail, lib, cm>>

\* SetTailBlock holds bc.mu while it builds the index, and the main tail and the
\* LIB are read under bc.mu.
Readable == node = "up" /\ cm.pc # "index"

\* A worker takes a block that is not on the chain while its parent is (other
\* blocks are answered with an error at once).  IsForkedBeforeLIB(parent)
\* begins: it reads the main tail and descends to its height.
TaskStart(w, b) ==
  /\ Readable
  /\ task[w].pc = "idle"
  /\ b \notin stored
  /\ ParentHash[b] \in stored
  /\ \E cur \in Ancestors[ParentHash[b]] :
       /\ IF Height[ParentHash[b]] <= Height[mainTail]
          THEN cur = ParentHash[b]
          ELSE Height[cur] = Height[mainTail]
       /\ task' = [task EXCEPT ![w] = [pc |-> "lib", block |-> b,
                                       cur |-> cur, lib |-> NoBlock]]
  /\ UNCHANGED <<stored, tailBlocks, trig, chainState>>

\* The LIB is read after the descent, under its own lock.
TaskReadLIB(w) ==
  /\ Readable
  /\ task[w].pc = "lib"
  /\ task' = [task EXCEPT ![w].pc = "walk", ![w].lib = lib]
  /\ UNCHANGED <<stored, tailBlocks, trig, chainState>>

\* The loop of FindAncestorOnCanonical: give up below the LIB that was read (or
\* above the main tail, where BlockByHeight fails), else read the height index,
\* no longer under the lock, and stop at a canonical block or go to the parent.
TaskWalk(w) ==
  /\ Readable
  /\ task[w].pc = "walk"
  /\ LET t == task[w]
     IN  task' = [task EXCEPT ![w].pc =
                    IF Height[t.cur] \in Height[t.lib] .. Height[mainTail]
                    THEN "read" ELSE "forked"]
  /\ UNCHANGED <<stored, tailBlocks, trig, chainState>>

TaskReadIndex(w) ==
  /\ task[w].pc = "read"
  /\ LET t == task[w]
         canonical == index[Height[t.cur]]
     IN  task' = [task EXCEPT ![w] =
                    IF canonical = NoBlock THEN [t EXCEPT !.pc = "forked"]
                    ELSE IF canonical = t.cur THEN [t EXCEPT !.pc = "execute"]
                    ELSE [t EXCEPT !.pc = "walk", !.cur = ParentHash[@]]]
  /\ UNCHANGED <<stored, tailBlocks, trig, chainState>>

\* The block is dropped: forked before the LIB, failed a check, failed to
\* execute, or could not be stored.
TaskReject(w) ==
  /\ \/ task[w].pc = "forked"
     \/ task[w].pc = "execute" /\ ~Verified(task[w].block)
     \/ task[w].pc = "execute" /\ StorageMayFail
  /\ task' = [task EXCEPT ![w] = IdleTask]
  /\ UNCHANGED <<stored, tailBlocks, trig, chainState>>

\* The minter made a child of the main tail and will push it when its slot
\* comes, whatever the main tail is by then.
MintStart(w, b) ==
  /\ Readable
  /\ task[w].pc = "idle"
  /\ b \notin stored
  /\ ParentHash[b] = mainTail
  /\ Verified(b)
  /\ task' = [task EXCEPT ![w] = [pc |-> "execute", block |-> b,
                                  cur |-> NoBlock, lib |-> NoBlock]]
  /\ UNCHANGED <<stored, tailBlocks, trig, chainState>>

\* PutVerifiedNewBlock: store the block, add it to the tails, remove its parent
\* from the tails.  Then wake the chain manager without blocking.
TaskStore(w) ==
  /\ task[w].pc = "execute"
  /\ Verified(task[w].block)
  /\ stored' = stored \union {task[w].block}
  /\ task' = [task EXCEPT ![w].pc = "addTail"]
  /\ UNCHANGED <<tailBlocks, trig, chainState>>

TaskAddTail(w) ==
  /\ task[w].pc = "addTail"
  /\ tailBlocks' \in TailBlocksAfterAdd(task[w].block)
  /\ task' = [task EXCEPT ![w].pc = "removeTail"]
  /\ UNCHANGED <<stored, trig, chainState>>

\* Mutant: the main tail is taken for the parent.
TaskRemoveTail_MainTail(w) ==
  /\ task[w].pc = "removeTail"
  /\ tailBlocks' = tailBlocks \ {mainTail}
  /\ task' = [task EXCEPT ![w].pc = "trigger"]
  /\ UNCHANGED <<stored, trig, chainState>>

TaskRemoveTail(w) ==
  /\ task[w].pc = "removeTail"
  /\ tailBlocks' = tailBlocks \ {ParentHash[task[w].block]}
  /\ task' = [task EXCEPT ![w].pc = "trigger"]
  /\ UNCHANGED <<stored, trig, chainState>>

\* Mutant: trigCh has no buffer.
TaskTrigger_Unbuffered(w) ==
  /\ task[w].pc = "trigger"
  /\ trig' = (trig \/ cm.pc = "wait")
  /\ task' = [task EXCEPT ![w] = IdleTask]
  /\ UNCHANGED <<stored, tailBlocks, chainState>>

TaskTrigger(w) ==
  /\ task[w].pc = "trigger"
  /\ trig' = TRUE
  /\ task' = [task EXCEPT ![w] = IdleTask]
  /\ UNCHANGED <<stored, tailBlocks, chainState>>

-----------------------------------------------------------------------------
(* runChainManager.                                                        *)

CMReceive ==
  /\ cm.pc = "wait"
  /\ trig
  /\ trig' = FALSE
  /\ cm' = [cm EXCEPT !.pc = "choose", !.keys = tailBlocks]
  /\ UNCHANGED <<durable, node, mainTail, lib, tailBlocks, task>>

\* Mutant: a switch reverts and re-indexes everything above the LIB.
CMForkChoice_FromLIB ==
  /\ cm.pc = "choose"
  /\ \E list \in tailBlockLists(cm.keys) : \E newTail \in ForkChoices(list) :
       cm' = IF newTail = cm.mainTail
             THEN Waiting(cm.mainTail, cm.LIB)
             ELSE [pc |-> "index", mainTail |-> newTail, LIB |-> cm.LIB,
                   keys |-> {}, newTail |-> newTail, ancestor |-> lib,
                   at |-> newTail]
  /\ UNCHANGED <<durable, node, mainTail, lib, tailBlocks, trig, task>>

\* ForkChoice; when the choice differs from the last one, the local mainTail is
\* set at once and SetTailBlock begins.  Its two failures come before anything
\* is written: no ancestor on the canonical chain at or above the LIB, and
\* loadBetweenBlocks not meeting the ancestor on the way down from the old tail.
CMForkChoice ==
  /\ cm.pc = "choose"
  /\ \E list \in tailBlockLists(cm.keys) : \E newTail \in ForkChoices(list) :
       LET ancestor == FindAncestorOnCanonical(newTail, Height[lib])
       IN  cm' = IF newTail = cm.mainTail
                 THEN Waiting(cm.mainTail, cm.LIB)
                 ELSE IF ancestor = NoBlock \/ ancestor \notin Ancestors[mainTail]
                 THEN Waiting(newTail, cm.LIB)
                 ELSE [pc |-> "index", mainTail |-> newTail, LIB |-> cm.LIB,
                       keys |-> {}, newTail |-> newTail,
                       ancestor |-> ancestor, at |-> newTail]
  /\ UNCHANGED <<durable, node, mainTail, lib, tailBlocks, trig, task>>

\* buildIndexByBlockHeight(ancestor, newTail), from the top.
CMIndex ==
  /\ cm.pc = "index"
  /\ IF cm.at = cm.ancestor
     THEN cm' = [cm EXCEPT !.pc = "tailKey"] /\ UNCHANGED index
     ELSE /\ index' = [index EXCEPT ![Height[cm.at]] = cm.at]
          /\ cm' = [cm EXCEPT !.at = ParentHash[@]]
  /\ UNCHANGED <<stored, tailKey, libKey, faulted, node, mainTail, lib, tailBlocks, trig, task>>

\* Mutant: the new tail is not written to storage.
CMStoreTail_MemoryOnly ==
  /\ cm.pc = "tailKey"
  /\ cm' = [cm EXCEPT !.pc = "setTail"]
  /\ UNCHANGED <<durable, node, mainTail, lib, tailBlocks, trig, task>>

CMStoreTail ==
  /\ cm.pc = "tailKey"
  /\ tailKey' = cm.newTail
  /\ cm' = [cm EXCEPT !.pc = "setTail"]
  /\ UNCHANGED <<stored, index, libKey, faulted, node, mainTail, lib, tailBlocks, trig, task>>

\* The main tail moves in memory; SetTailBlock returns and transactions are
\* rearranged.
CMSetTail ==
  /\ cm.pc = "setTail"
  /\ mainTail' = cm.newTail
  /\ cm' = [cm EXCEPT !.pc = "findLIB"]
  /\ UNCHANGED <<durable, node, lib, tailBlocks, trig, task>>

\* Mutant: without enough confirmations the LIB falls back to the genesis block.
CMFindLIB_FromScratch ==
  /\ cm.pc = "findLIB"
  /\ LET newLIB == FindLIB(mainTail, Genesis)
     IN  cm' = IF newLIB = cm.LIB
               THEN Waiting(cm.mainTail, cm.LIB)
               ELSE [cm EXCEPT !.pc = "libKey", !.LIB = newLIB]
  /\ UNCHANGED <<durable, node, mainTail, lib, tailBlocks, trig, task>>

\* FindLIB, and the two early returns before SetLIB writes.
CMFindLIB ==
  /\ cm.pc = "findLIB"
  /\ LET newLIB == FindLIB(mainTail, lib)
     IN  cm' = IF newLIB = cm.LIB
               THEN Waiting(cm.mainTail, cm.LIB)
               ELSE IF Height[lib] > Height[newLIB] \/ lib = newLIB
               THEN Waiting(cm.mainTail, newLIB)
               ELSE [cm EXCEPT !.pc = "libKey", !.LIB = newLIB]
  /\ UNCHANGED <<durable, node, mainTail, lib, tailBlocks, trig, task>>

CMStoreLIB ==
  /\ cm.pc = "libKey"
  /\ libKey' = cm.LIB
  /\ cm' = [cm EXCEPT !.pc = "setLIB"]
  /\ UNCHANGED <<stored, index, tailKey, faulted, node, mainTail, lib, tailBlocks, trig, task>>

CMSetLIB ==
  /\ cm.pc = "setLIB"
  /\ lib' = cm.LIB
  /\ cm' = [cm EXCEPT !.pc = "prune"]
  /\ UNCHANGED <<durable, node, mainTail, tailBlocks, trig, task>>

\* removeForkedBranch of every tail forked before the new LIB.  removeBlock
\* fails above the main tail, and then the tail stays; it deletes the bare hash,
\* which is no key of the store, so no block is removed from storage.
CMPrune ==
  /\ cm.pc = "prune"
  /\ tailBlocks' = {t \in tailBlocks : ~IsForkedBeforeLIB(t)
                                       \/ Height[t] > Height[mainTail]}
  /\ cm' = Waiting(cm.mainTail, cm.LIB)
  /\ UNCHANGED <<durable, node, mainTail, lib, trig, task>>

\* A Put fails: the chain manager logs the error and waits for a trigger; what
\* was written, and the locals set before, stay.
CMStorageError ==
  /\ StorageMayFail
  /\ \/ cm.pc = "index" /\ cm.at # cm.ancestor
     \/ cm.pc \in {"tailKey", "libKey"}
  /\ cm' = Waiting(cm.mainTail, cm.LIB)
  /\ faulted' = TRUE
  /\ UNCHANGED <<stored, index, tailKey, libKey, node, mainTail, lib, tailBlocks, trig, task>>

-----------------------------------------------------------------------------
(* The node.                                                               *)

SetupNext ==
  \/ Setup
  \/ StoreGenesisBlock
  \/ StoreGenesisTail
  \/ StoreGenesisHeight
  \/ StoreGenesisLIB
  \/ Load
  \/ Reindex

TaskStep(w) ==
  \/ TaskReadLIB(w)
  \/ TaskWalk(w)
  \/ TaskReadIndex(w)
  \/ TaskReject(w)
  \/ TaskStore(w)
  \/ TaskAddTail(w)
  \/ TaskRemoveTail(w)
  \/ TaskTrigger(w)

CMNext ==
  \/ CMReceive
  \/ CMForkChoice
  \/ CMIndex
  \/ CMStoreTail
  \/ CMSetTail
  \/ CMFindLIB
  \/ CMStoreLIB
  \/ CMSetLIB
  \/ CMPrune

Next ==
  \/ SetupNext
  \/ \E w \in Worker, b \in Block : TaskStart(w, b) \/ MintStart(w, b)
  \/ \E w \in Worker : TaskStep(w)
  \/ CMNext
  \/ CMStorageError
  \/ Crash

Spec == Init /\ [][Next]_vars

\* Setup runs to its end, a goroutine that can move is eventually scheduled, and
\* a block is only taken up when somebody sends it.
FairSpec ==
  /\ Spec
  /\ WF_vars(SetupNext)
  /\ WF_vars(CMNext)
  /\ \A w \in Worker : WF_vars(TaskStep(w))

-----------------------------------------------------------------------------
(* Properties.                                                             *)

ManagerRecord ==
  [pc : {"wait", "choose", "index", "tailKey", "setTail", "findLIB", "libKey",
         "setLIB", "prune"},
   mainTail : Block \union {NoBlock}, LIB : Block \union {NoBlock},
   keys : SUBSET Block, newTail : Block \union {NoBlock},
   ancestor : Block \union {NoBlock}, at : Block \union {NoBlock}]

TaskRecord ==
  [pc : {"idle", "lib", "walk", "read", "forked", "execute", "addTail",
         "removeTail", "trigger"},
   block : Block \union {NoBlock}, cur : Block \union {NoBlock},
   lib : Block \union {NoBlock}]

TypeOK ==
  /\ stored \subseteq Block
  /\ index \in [Heights -> Block \union {NoBlock}]
  /\ tailKey \in Block \union {NoBlock}
  /\ libKey \in Block \union {NoBlock}
  /\ faulted \in BOOLEAN
  /\ node \in {"down", "genesis", "genesisTail", "genesisHeight", "genesisLIB",
               "load", "reindex", "failed", "up"}
  /\ mainTail \in Block \union {NoBlock}
  /\ lib \in Block \union {NoBlock}
  /\ tailBlocks \subseteq Block
  /\ trig \in BOOLEAN
  /\ cm \in ManagerRecord
  /\ task \in [Worker -> TaskRecord]
  /\ node \in {"reindex", "up"} => mainTail \in Block /\ lib \in Block

\* The LIB is on the main chain, in memory and in storage, in every state of a
\* tail switch, a LIB change and a restart.
LIBOnMainChain ==
  /\ libKey # NoBlock => libKey \in Ancestors[tailKey]
  /\ lib # NoBlock => lib \in Ancestors[mainTail]

\* A block that became irreversible stays so: the stored LIB is only ever
\* replaced by a descendant, across reorganisations, storage errors, crashes and
\* restarts.
LIBIrreversible ==
  [][libKey # NoBlock => libKey' # NoBlock /\ libKey \in Ancestors[libKey']]_vars

\* The tail and the LIB in storage behave like the head and the final block of
\* an IrreversibleChain, across tail switches, storage errors, crashes and
\* restarts; before the genesis block is stored they stand at it.
Promise == INSTANCE IrreversibleChain WITH
  head  <- IF tailKey = NoBlock THEN Genesis ELSE tailKey,
  final <- IF libKey = NoBlock THEN Genesis ELSE libKey

ImplementsIrreversibleChain == Promise!Spec

\* Between two tail switches BlockByHeight answers with the main chain: the
\* height index holds every ancestor of the main tail, also after a restart that
\* follows a crash in the middle of a switch, unless a Put has failed.
CanonicalIndex ==
  ~faulted /\ node = "up" /\ cm.pc \notin {"index", "tailKey", "setTail"} =>
    \A b \in Ancestors[mainTail] : index[Height[b]] = b

\* BlockByHeight is stable up to the LIB: at no moment, not even inside a switch,
\* after a crash or before re-indexing, does the height index hold another block
\* than the LIB's ancestor at its height, unless a Put has failed (two failures
\* can leave a foreign block below the LIB, where re-indexing does not go).
IrreversibleIndex ==
  ~faulted /\ libKey # NoBlock => \A b \in Ancestors[libKey] : index[Height[b]] = b

\* A tail switch reverts exactly the blocks that leave the main chain: the
\* ancestor SetTailBlock finds in the index is where the two branches part,
\* unless a Put has failed and left the index of an abandoned switch.
RevertsExactly ==
  ~faulted /\ cm.pc \in {"index", "tailKey", "setTail"} =>
    Ancestors[cm.newTail] \intersect Ancestors[mainTail] = Ancestors[cm.ancestor]

\* Setup can only fail in a node that died while it stored its genesis block
\* (between the height key and the LIB key); any other crash can be recovered.
SetupRecovers == node = "failed" => tailKey = Genesis /\ libKey = NoBlock

\* When no worker and no chain manager is at work, the tails hold every stored
\* block that has no stored child and is not forked before the LIB ("tailBlocks
\* all tail blocks including mainTailBlock").
TailBlocksComplete ==
  node = "up" /\ cm.pc = "wait" /\ ~trig /\ (\A w \in Worker : task[w] = IdleTask) =>
    \A b \in stored :
      \/ b \in tailBlocks
      \/ \E c \in stored \ {Genesis} : ParentHash[c] = b
      \/ lib \notin Ancestors[b]

\* A worker drops a block as forked before the LIB only when it is: the LIB is
\* not an ancestor of its parent ("IsForkedBeforeLIB checks if the block is
\* forked before LIB").
ForkVerdictSound ==
  \A w \in Worker : task[w].pc = "forked" =>
    lib \notin Ancestors[ParentHash[task[w].block]]

\* No wake-up is lost: while no crash interferes, again and again the main tail
\* is at least as high as every stored block that is not forked before the LIB.
\* The trigger channel keeps one trigger, the chain manager reads the tails in
\* two steps and remembers its last choice; none of that may strand a branch.
BestTailAdopted ==
  []<>(node = "up" /\ \A b \in stored : \/ Height[b] <= Height[mainTail]
                                        \/ lib \notin Ancestors[b])

=============================================================================
