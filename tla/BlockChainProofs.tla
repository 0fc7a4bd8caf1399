--------------------------- MODULE BlockChainProofs ---------------------------
(***************************************************************************)
(* The chain of a node is irreversible up to its LIB, for every universe   *)
(* of blocks, any number of workers, and with crashes and storage errors.  *)
(*                                                                         *)
(* LIBOnMainChain is not inductive: whether a tail switch keeps the LIB    *)
(* depends on what the chain manager has chosen some steps before, on the  *)
(* heights of stored blocks, and on storage and memory agreeing.  Inv adds *)
(* exactly that.                                                           *)
(*                                                                         *)
(* On top of Inv, one invariant each: IndexInv for the height index while  *)
(* the tail is switched, RecoverInv for what a restart finds in storage,   *)
(* TailsInv for the set of tails that ForkChoice picks from.               *)
(***************************************************************************)
EXTENDS BlockChain, CollectionProofs

-----------------------------------------------------------------------------
(* Ancestors, as what is reached by parent hashes.                         *)

\* A set of blocks that no parent hash leaves.
Closed(S) == \A x \in S : ParentHash[x] \in S

\* Ancestors is the climb of CollectionProofs along parent hashes.
LEMMA AncestorsClimb ==
  ASSUME NEW b \in Block
  PROVE  Ancestors[b] = Climb(Block, ParentHash, b)
BY Zenon DEF Ancestors, Climb

\* Leastness: a closed set that holds b holds every ancestor of b.
LEMMA AncestorsLeast ==
  ASSUME NEW b \in Block, NEW S \in SUBSET Block, b \in S, Closed(S)
  PROVE  Ancestors[b] \subseteq S
<1>1. Climb(Block, ParentHash, b) \subseteq S
  BY ClimbLeast DEF Closed, ClosedUnder
<1> QED BY <1>1, AncestorsClimb

\* Ancestors are blocks, a block is its own ancestor, and a parent of an
\* ancestor is an ancestor.
LEMMA AncestorsClosed ==
  ASSUME NEW b \in Block
  PROVE  /\ Ancestors[b] \in SUBSET Block
         /\ b \in Ancestors[b]
         /\ Closed(Ancestors[b])
BY AncestorsClimb, ClimbClosed, TreeAssumption DEF Closed, ClosedUnder

\* Ancestry is transitive.
LEMMA AncestorsTransitive ==
  ASSUME NEW c \in Block, NEW b \in Ancestors[c]
  PROVE  Ancestors[b] \subseteq Ancestors[c]
<1>1. b \in Block /\ b \in Climb(Block, ParentHash, c)
  BY AncestorsClimb, AncestorsClosed
<1> QED BY <1>1, AncestorsClimb, ClimbTransitive, TreeAssumption

\* The ancestors of a block are the block and the ancestors of its parent.
LEMMA AncestorsUnfold ==
  ASSUME NEW b \in Block
  PROVE  Ancestors[b] = {b} \union Ancestors[ParentHash[b]]
<1>1. ParentHash[b] \in Block
  BY TreeAssumption
<1> QED BY <1>1, AncestorsClimb, ClimbUnfold, TreeAssumption

\* The ancestors of a block form a line: of two of them, one is an ancestor of
\* the other.
LEMMA AncestorsLinear ==
  ASSUME NEW b \in Block, NEW a \in Ancestors[b], NEW c \in Ancestors[b]
  PROVE  a \in Ancestors[c] \/ c \in Ancestors[a]
<1>1. a \in Block /\ c \in Block
  BY AncestorsClosed
<1> QED BY <1>1, AncestorsClimb, ClimbLinear, TreeAssumption

\* What the block store promises about a set of stored blocks: a parent is
\* stored before its child, and the child passed its checks against it.
Grounded(S) ==
  /\ S \in SUBSET Block
  /\ \A b \in S \ {Genesis} : ParentHash[b] \in S /\ verifyBlockHeight(b)

\* The ancestors of a stored block are stored.
LEMMA GroundedAncestors ==
  ASSUME NEW S, Grounded(S), NEW b \in S
  PROVE  Ancestors[b] \subseteq S
<1>1. Closed(S)
  BY TreeAssumption DEF Closed, Grounded
<1> QED
  BY <1>1, AncestorsLeast DEF Grounded

\* Heights strictly decrease along stored ancestors.
LEMMA GroundedHeights ==
  ASSUME NEW S, Grounded(S), NEW b \in S, NEW a \in Ancestors[b], a # b
  PROVE  Height[a] < Height[b]
<1> DEFINE T == {x \in S : x = b \/ Height[x] < Height[b]}
<1>1. T \in SUBSET Block /\ b \in T /\ b \in Block
  BY DEF Grounded
<1>2. b # Genesis
  <2>1. {Genesis} \in SUBSET Block /\ Closed({Genesis})
    BY TreeAssumption DEF Closed
  <2>2. Ancestors[Genesis] \subseteq {Genesis}
    BY <2>1, AncestorsLeast, TreeAssumption
  <2> QED
    BY <2>2
<1>3. ASSUME NEW x \in T
      PROVE  ParentHash[x] \in T
  <2>1. CASE x = Genesis
    BY <2>1, <1>2, TreeAssumption
  <2>2. CASE x # Genesis
    <3>1. ParentHash[x] \in S /\ Height[ParentHash[x]] + 1 = Height[x]
      BY <2>2 DEF Grounded, verifyBlockHeight
    <3>2. Height[ParentHash[x]] \in Nat /\ Height[x] \in Nat /\ Height[b] \in Nat
      BY <3>1, TreeAssumption DEF Grounded
    <3> QED
      BY <3>1, <3>2
  <2> QED
    BY <2>1, <2>2
<1>4. a \in T
  <2>1. Closed(T)
    BY <1>3 DEF Closed
  <2> HIDE DEF T
  <2> QED
    BY <2>1, <1>1, AncestorsLeast
<1> QED
  BY <1>4

\* Of two ancestors of a stored block, one that is not lower than the other
\* descends from it: the argument behind breakAtLIB.
LEMMA HigherDescends ==
  ASSUME NEW S, Grounded(S), NEW b \in S,
         NEW a \in Ancestors[b], NEW c \in Ancestors[b], Height[a] <= Height[c]
  PROVE  a \in Ancestors[c]
<1>1. b \in Block /\ a \in S /\ c \in S /\ a \in Block /\ c \in Block
  BY GroundedAncestors DEF Grounded
<1>2. CASE c \in Ancestors[a] /\ c # a
  <2>1. Height[c] < Height[a]
    BY <1>1, <1>2, GroundedHeights
  <2> QED
    BY <1>1, <2>1, TreeAssumption
<1>3. CASE c = a
  BY <1>1, <1>3, AncestorsClosed
<1> QED
  BY <1>1, <1>2, <1>3, AncestorsLinear

\* Highest returns an element of the set, at least as high as every other, or
\* NoBlock.
LEMMA HighestProperty ==
  ASSUME NEW S \in SUBSET Block, Highest(S) # NoBlock
  PROVE  Highest(S) \in S /\ \A y \in S : Height[y] <= Height[Highest(S)]
BY DEF Highest

\* FindLIB returns the old LIB or an ancestor of the tail.
LEMMA FindLIBProperty ==
  ASSUME NEW tail \in Block, NEW old \in Block
  PROVE  FindLIB(tail, old) = old \/ FindLIB(tail, old) \in Ancestors[tail]
<1> DEFINE S == {c \in Ancestors[tail] : Confirmed(c, tail, old)}
<1>1. S \in SUBSET Block
  BY AncestorsClosed
<1>2. Highest(S) # NoBlock => Highest(S) \in S
  BY <1>1, HighestProperty
<1> QED
  BY <1>2 DEF FindLIB

-----------------------------------------------------------------------------


Switching == cm.pc \in {"index", "tailKey", "setTail"}
Finalizing == cm.pc \in {"libKey", "setLIB"}

\* Storage: blocks are stored after their parents; the LIB key is written last
\* in genesis initialisation, and the stored LIB is on the stored main chain.
StorageInv ==
  /\ Grounded(stored)
  /\ tailKey # NoBlock => tailKey \in stored
  /\ libKey # NoBlock => /\ tailKey # NoBlock
                         /\ index[GenesisHeight] # NoBlock
                         /\ libKey \in Ancestors[tailKey]
  /\ libKey = NoBlock => tailKey \in {NoBlock, Genesis}

\* The phases of Setup.
SetupInv ==
  /\ node \in {"genesis", "genesisTail", "genesisHeight", "genesisLIB"} =>
       libKey = NoBlock
  /\ node \in {"genesisTail", "genesisHeight", "genesisLIB"} => Genesis \in stored
  /\ node \in {"genesisHeight", "genesisLIB"} => tailKey = Genesis
  /\ node = "genesisLIB" => index[GenesisHeight] # NoBlock
  /\ node \notin {"reindex", "up"} => mainTail = NoBlock /\ lib = NoBlock
  /\ node # "up" => /\ cm.pc = "wait"
                    /\ ~trig
                    /\ \A w \in Worker : task[w].pc = "idle"
  /\ node = "reindex" \/ cm.pc = "index" => cm.at \in Block

\* Memory follows storage, except between a Put and the assignment after it.
MemoryInv ==
  node \in {"reindex", "up"} =>
    /\ libKey # NoBlock
    /\ mainTail \in stored
    /\ lib \in Ancestors[mainTail]
    /\ tailKey = IF cm.pc = "setTail" THEN cm.newTail ELSE mainTail
    /\ libKey = IF cm.pc = "setLIB" THEN cm.LIB ELSE lib

\* What the chain manager has established when it starts to write.
ManagerInv ==
  /\ tailBlocks \subseteq stored
  /\ cm.keys \subseteq stored
  /\ Switching => /\ cm.newTail \in stored
                  /\ cm.newTail = mainTail \/ Height[mainTail] < Height[cm.newTail]
                  /\ lib \in Ancestors[cm.newTail]
  /\ Finalizing => /\ cm.LIB \in Ancestors[mainTail]
                   /\ lib \in Ancestors[cm.LIB]

\* A worker holds a block whose parent is stored.
TaskInv ==
  \A w \in Worker :
    /\ task[w].pc # "idle" => /\ task[w].block \in Block \ {Genesis}
                              /\ ParentHash[task[w].block] \in stored
    /\ task[w].pc \in {"lib", "walk", "read"} => task[w].cur \in Block
    /\ task[w].pc \in {"addTail", "removeTail", "trigger"} => task[w].block \in stored

Inv == TypeOK /\ StorageInv /\ SetupInv /\ MemoryInv /\ ManagerInv /\ TaskInv

-----------------------------------------------------------------------------
\* The genesis block is an ancestor of itself only.
LEMMA GenesisAncestor == Genesis \in Ancestors[Genesis]
BY AncestorsClosed, TreeAssumption

\* The empty store satisfies the invariant.
LEMMA InitInv == Init => Inv
<1> SUFFICES ASSUME Init PROVE Inv
  OBVIOUS
<1>1. TypeOK
  BY ZenonT(60), TreeAssumption DEF Init, TypeOK, ManagerRecord, TaskRecord, IdleCM,
     Waiting, IdleTask
<1>2. StorageInv
  BY DEF Init, StorageInv, Grounded
<1>3. SetupInv /\ MemoryInv /\ ManagerInv /\ TaskInv
  BY DEF Init, SetupInv, MemoryInv, ManagerInv, TaskInv, IdleCM, Waiting, IdleTask,
         Switching, Finalizing
<1> QED
  BY <1>1, <1>2, <1>3 DEF Inv

-----------------------------------------------------------------------------
(* Setup and crashes.                                                      *)

\* Setup, genesis initialisation, loading and re-indexing keep the invariant.
LEMMA SetupPreserves == Inv /\ SetupNext => Inv'
<1> SUFFICES ASSUME Inv, SetupNext PROVE Inv'
  OBVIOUS
<1> USE TreeAssumption DEF Inv, ManagerRecord, TaskRecord
<1>g. Genesis \in Ancestors[Genesis]
  BY GenesisAncestor
<1>h. GenesisHeight \in Heights
  BY DEF Heights
<1>1. CASE Setup
  BY <1>1 DEF Setup, durable, memory, TypeOK, StorageInv, SetupInv, MemoryInv,
              ManagerInv, TaskInv, Switching, Finalizing
<1>2. CASE StoreGenesisBlock
  BY <1>2 DEF StoreGenesisBlock, memory, TypeOK, StorageInv, SetupInv, MemoryInv,
              ManagerInv, TaskInv, Switching, Finalizing, Grounded
<1>3. CASE StoreGenesisTail
  BY <1>3 DEF StoreGenesisTail, memory, TypeOK, StorageInv, SetupInv, MemoryInv,
              ManagerInv, TaskInv, Switching, Finalizing
<1>4. CASE StoreGenesisHeight
  BY <1>4, <1>h DEF StoreGenesisHeight, memory, TypeOK, StorageInv, SetupInv,
              MemoryInv, ManagerInv, TaskInv, Switching, Finalizing
<1>5. CASE StoreGenesisLIB
  BY <1>5, <1>g DEF StoreGenesisLIB, memory, TypeOK, StorageInv, SetupInv,
              MemoryInv, ManagerInv, TaskInv, Switching, Finalizing
<1>6. CASE Load
  BY <1>6 DEF Load, durable, memory, TypeOK, StorageInv, SetupInv, MemoryInv,
              ManagerInv, TaskInv, Switching, Finalizing, IdleCM, Waiting
<1>7. CASE Reindex
  BY <1>7, <1>h DEF Reindex, TypeOK, StorageInv, SetupInv, MemoryInv, ManagerInv,
              TaskInv, Switching, Finalizing, Waiting
<1> QED
  BY <1>1, <1>2, <1>3, <1>4, <1>5, <1>6, <1>7 DEF SetupNext

\* A crash loses the memory and keeps the invariant.
LEMMA CrashPreserves == Inv /\ Crash => Inv'
<1> SUFFICES ASSUME Inv, Crash PROVE Inv'
  OBVIOUS
<1> QED
  BY ZenonT(60), TreeAssumption DEF Inv, ManagerRecord, TaskRecord, Crash, durable, TypeOK,
     StorageInv, SetupInv, MemoryInv,
     ManagerInv, TaskInv, Switching, Finalizing, IdleCM, Waiting, IdleTask

-----------------------------------------------------------------------------
(* Workers.                                                                *)

\* What no step of a worker touches, and the invariants that follow from it.
LEMMA WorkerFrame ==
  ASSUME Inv, UNCHANGED chainState, stored \subseteq stored',
         Grounded(stored'), tailBlocks' \subseteq stored',
         node = "up"
  PROVE  StorageInv' /\ MemoryInv' /\ ManagerInv'
BY DEF Inv, chainState, StorageInv, MemoryInv, ManagerInv, Switching, Finalizing

\* Taking up a block, from the network or from the minter.
LEMMA StartPreserves ==
  ASSUME Inv, NEW w \in Worker, NEW b \in Block, TaskStart(w, b) \/ MintStart(w, b)
  PROVE  Inv'
<1> USE TreeAssumption DEF Inv, TaskRecord
<1>1. node = "up" /\ b \notin stored /\ UNCHANGED <<stored, tailBlocks, trig, chainState>>
  BY DEF TaskStart, MintStart, Readable
<1>2. ParentHash[b] \in stored
  BY DEF TaskStart, MintStart, Readable, MemoryInv
<1>3. \E t \in [pc : {"lib", "execute"}, block : {b}, cur : Block \union {NoBlock},
                lib : {NoBlock}] :
        /\ task' = [task EXCEPT ![w] = t]
        /\ t.pc = "lib" => t.cur \in Block
  <2>1. CASE TaskStart(w, b)
    <3>1. Ancestors[ParentHash[b]] \subseteq Block
      BY AncestorsClosed
    <3>2. PICK cur \in Ancestors[ParentHash[b]] :
            task' = [task EXCEPT ![w] = [pc |-> "lib", block |-> b, cur |-> cur,
                                         lib |-> NoBlock]]
      BY ZenonT(60), <2>1 DEF TaskStart
    <3> DEFINE t == [pc |-> "lib", block |-> b, cur |-> cur, lib |-> NoBlock]
    <3>3. /\ t \in [pc : {"lib", "execute"}, block : {b},
                   cur : Block \union {NoBlock}, lib : {NoBlock}]
          /\ t.cur \in Block
      BY <3>1
    <3> QED
      BY ZenonT(60), <3>2, <3>3
  <2>2. CASE MintStart(w, b)
    <3> DEFINE t == [pc |-> "execute", block |-> b, cur |-> NoBlock, lib |-> NoBlock]
    <3>1. task' = [task EXCEPT ![w] = t]
      BY <2>2 DEF MintStart
    <3>2. /\ t \in [pc : {"lib", "execute"}, block : {b},
                   cur : Block \union {NoBlock}, lib : {NoBlock}]
          /\ t.pc # "lib"
      OBVIOUS
    <3> HIDE DEF t
    <3> QED
      BY ZenonT(60), <3>1, <3>2
  <2> QED
    BY <2>1, <2>2
<1>4. PICK t \in [pc : {"lib", "execute"}, block : {b}, cur : Block \union {NoBlock},
                  lib : {NoBlock}] :
        /\ task' = [task EXCEPT ![w] = t]
        /\ t.pc = "lib" => t.cur \in Block
  BY ZenonT(60), <1>3
<1>5. TypeOK'
  BY <1>1, <1>4 DEF TypeOK, chainState
<1>6. StorageInv' /\ MemoryInv' /\ ManagerInv'
  BY <1>1, WorkerFrame DEF chainState, StorageInv, ManagerInv
<1>7. SetupInv'
  BY <1>1 DEF SetupInv, chainState
<1>8. TaskInv'
  BY <1>1, <1>2, <1>4 DEF TaskInv, TypeOK
<1> QED
  BY <1>5, <1>6, <1>7, <1>8

\* Every further step of a worker.
LEMMA TaskPreserves ==
  ASSUME Inv, NEW w \in Worker, TaskStep(w)
  PROVE  Inv'
<1> USE TreeAssumption DEF Inv
<1>1. UNCHANGED chainState
  BY DEF TaskStep, TaskReadLIB, TaskWalk, TaskReadIndex, TaskReject, TaskStore,
         TaskAddTail, TaskRemoveTail, TaskTrigger
<1>2. task[w].pc # "idle" /\ node = "up"
  BY DEF TaskStep, TaskReadLIB, TaskWalk, TaskReadIndex, TaskReject, TaskStore,
         TaskAddTail, TaskRemoveTail, TaskTrigger, SetupInv
<1>3. task[w].block \in Block \ {Genesis} /\ ParentHash[task[w].block] \in stored
  BY <1>2 DEF TaskInv
<1>4. /\ stored \subseteq stored'
      /\ Grounded(stored')
      /\ tailBlocks' \subseteq stored'
      /\ trig' \in BOOLEAN
  <2>1. CASE TaskStore(w)
    BY <2>1, <1>3 DEF TaskStore, Verified, Grounded, StorageInv, ManagerInv, TypeOK
  <2>2. CASE TaskAddTail(w)
    <3>1. task[w].block \in stored
      BY <2>2 DEF TaskAddTail, TaskInv
    <3> QED
      BY <2>2, <3>1 DEF TaskAddTail, TailBlocksAfterAdd, StorageInv, ManagerInv, TypeOK
  <2>3. CASE TaskRemoveTail(w)
    BY <2>3 DEF TaskRemoveTail, StorageInv, ManagerInv, TypeOK
  <2>4. CASE TaskTrigger(w)
    BY <2>4 DEF TaskTrigger, StorageInv, ManagerInv, TypeOK
  <2>5. CASE TaskReadLIB(w) \/ TaskWalk(w) \/ TaskReadIndex(w) \/ TaskReject(w)
    BY <2>5 DEF TaskReadLIB, TaskWalk, TaskReadIndex, TaskReject, StorageInv,
                ManagerInv, TypeOK
  <2> QED
    BY <2>1, <2>2, <2>3, <2>4, <2>5 DEF TaskStep
<1>5. /\ task' \in [Worker -> TaskRecord]
      /\ \A v \in Worker \ {w} : task'[v] = task[v]
      /\ task'[w].pc # "idle" => task'[w].block = task[w].block
      /\ task'[w].pc \in {"lib", "walk", "read"} => task'[w].cur \in Block
      /\ task'[w].pc \in {"addTail", "removeTail", "trigger"} =>
           task[w].block \in stored'
  <2>0. task \in [Worker -> TaskRecord] /\ lib \in Block
    BY <1>2 DEF TypeOK, TaskRecord
  <2>1. CASE TaskReadLIB(w)
    <3>1. task[w].cur \in Block
      BY <2>1 DEF TaskReadLIB, TaskInv
    <3> DEFINE t == [task[w] EXCEPT !.pc = "walk", !.lib = lib]
    <3>2. task' = [task EXCEPT ![w] = t]
      BY ZenonT(60), <2>0, <2>1 DEF TaskReadLIB
    <3>3. t \in TaskRecord /\ t.pc = "walk" /\ t.block = task[w].block
          /\ t.cur = task[w].cur
      BY ZenonT(120), <2>0, <3>1 DEF TaskRecord
    <3> HIDE DEF t
    <3> QED
      BY <2>0, <3>1, <3>2, <3>3
  <2>2. CASE TaskWalk(w)
    <3>1. task[w].cur \in Block
      BY <2>2 DEF TaskWalk, TaskInv
    <3>2. PICK pc \in {"read", "forked"} : task' = [task EXCEPT ![w].pc = pc]
      BY ZenonT(60), <2>2 DEF TaskWalk
    <3> DEFINE t == [task[w] EXCEPT !.pc = pc]
    <3>3. task' = [task EXCEPT ![w] = t]
      BY <2>0, <3>2
    <3>4. t \in TaskRecord /\ t.pc = pc /\ t.block = task[w].block
          /\ t.cur = task[w].cur
      BY <2>0, <3>1 DEF TaskRecord
    <3> HIDE DEF t
    <3> QED
      BY <2>0, <3>1, <3>3, <3>4
  <2>3. CASE TaskReadIndex(w)
    <3>1. task[w].cur \in Block /\ ParentHash[task[w].cur] \in Block
      BY <2>3 DEF TaskReadIndex, TaskInv
    <3> DEFINE canonical == index[Height[task[w].cur]]
    <3>2. CASE canonical = NoBlock \/ canonical = task[w].cur
      BY <2>0, <2>3, <3>1, <3>2 DEF TaskReadIndex, TaskRecord
    <3>3. CASE canonical # NoBlock /\ canonical # task[w].cur
      <4> DEFINE t == [task[w] EXCEPT !.pc = "walk", !.cur = ParentHash[@]]
      <4>1. task' = [task EXCEPT ![w] = t]
        BY <2>3, <3>3 DEF TaskReadIndex
      <4>2. t.pc = "walk" /\ t.block = task[w].block /\ t.cur = ParentHash[task[w].cur]
        BY ZenonT(120), <2>0 DEF TaskRecord
      <4>3. t \in TaskRecord
        BY ZenonT(120), <2>0, <3>1 DEF TaskRecord
      <4> HIDE DEF t
      <4> QED
        BY <2>0, <3>1, <4>1, <4>2, <4>3
    <3> QED
      BY <3>2, <3>3
  <2>4. CASE TaskReject(w) \/ TaskTrigger(w)
    BY <2>0, <2>4 DEF TaskReject, TaskTrigger, IdleTask, TaskRecord
  <2>5. CASE TaskStore(w)
    BY SMTT(60), <2>0, <2>5 DEF TaskStore, TaskRecord
  <2>6. CASE TaskAddTail(w) \/ TaskRemoveTail(w)
    <3>1. task[w].block \in stored'
      BY <2>6, <1>4 DEF TaskAddTail, TaskRemoveTail, TaskInv
    <3> QED
      BY <2>0, <2>6, <3>1 DEF TaskAddTail, TaskRemoveTail, TaskRecord
  <2> QED
    BY <2>1, <2>2, <2>3, <2>4, <2>5, <2>6 DEF TaskStep
<1>6. TypeOK'
  BY <1>1, <1>4, <1>5 DEF TypeOK, chainState, Grounded, TaskRecord
<1>7. StorageInv' /\ MemoryInv' /\ ManagerInv'
  BY <1>1, <1>2, <1>4, WorkerFrame
<1>8. SetupInv'
  BY <1>1, <1>2 DEF SetupInv, chainState
<1>9. TaskInv'
  BY <1>3, <1>4, <1>5 DEF TaskInv, TypeOK, TaskRecord
<1> QED
  BY <1>6, <1>7, <1>8, <1>9

-----------------------------------------------------------------------------
(* The chain manager.                                                      *)

\* The reason why a tail switch never leaves the LIB behind: the ancestor that
\* SetTailBlock found is not lower than the LIB, and both are on the old main
\* chain, so the ancestor, and with it the new tail, descends from the LIB.  The
\* height index need not be right for this.
LEMMA SwitchKeepsLIB ==
  ASSUME Inv, node = "up", NEW t \in stored, NEW a,
         a = FindAncestorOnCanonical(t, Height[lib]),
         a # NoBlock, a \in Ancestors[mainTail]
  PROVE  lib \in Ancestors[t]
<1> DEFINE S == {x \in Ancestors[t] : OnCanonical(x) /\ Height[lib] <= Height[x]}
<1>1. t \in Block /\ Grounded(stored) /\ mainTail \in stored /\ lib \in Ancestors[mainTail]
  BY DEF Inv, StorageInv, MemoryInv, TypeOK
<1>2. S \in SUBSET Block /\ a = Highest(S)
  BY <1>1, AncestorsClosed DEF FindAncestorOnCanonical
<1>3. a \in Ancestors[t] /\ Height[lib] <= Height[a]
  BY <1>2, HighestProperty
<1>4. lib \in Ancestors[a]
  BY <1>1, <1>3, HigherDescends
<1> QED
  BY <1>1, <1>3, <1>4, AncestorsTransitive

\* FindLIB and the guard of SetLIB only let the LIB move up the main chain.
LEMMA NewLIBDescends ==
  ASSUME Inv, node = "up", NEW n, n = FindLIB(mainTail, lib), n # lib,
         ~(Height[lib] > Height[n])
  PROVE  n \in Ancestors[mainTail] /\ lib \in Ancestors[n]
<1>1. /\ mainTail \in Block /\ lib \in Block /\ Grounded(stored)
      /\ mainTail \in stored /\ lib \in Ancestors[mainTail]
  BY DEF Inv, StorageInv, MemoryInv, TypeOK
<1>2. n \in Ancestors[mainTail]
  BY <1>1, FindLIBProperty
<1>3. n \in Block /\ Height[lib] <= Height[n]
  BY <1>1, <1>2, AncestorsClosed, TreeAssumption
<1> QED
  BY <1>1, <1>2, <1>3, HigherDescends

\* ForkChoice returns the main tail or a higher tail of the list.
LEMMA ForkChoiceProperty ==
  ASSUME NEW list, NEW t \in ForkChoices(list)
  PROVE  t = mainTail \/ (t \in list /\ Height[t] > Height[mainTail])
BY DEF ForkChoices

\* What no step of the chain manager touches.
LEMMA ManagerFrame ==
  ASSUME Inv, node = "up", UNCHANGED <<stored, node, task>>
  PROVE  TaskInv'
BY DEF Inv, TaskInv

\* ForkChoice and the checks before SetTailBlock writes.
LEMMA ForkChoicePreserves == Inv /\ CMForkChoice => Inv'
<1> SUFFICES ASSUME Inv, CMForkChoice PROVE Inv'
  OBVIOUS
<1> USE TreeAssumption
<1>1. cm.pc = "choose" /\ node = "up"
  BY DEF Inv, SetupInv, CMForkChoice
<1>2. UNCHANGED <<stored, index, tailKey, libKey, faulted, node, mainTail, lib, tailBlocks, trig,
                  task>>
  BY DEF CMForkChoice, durable
<1>l. PICK list \in tailBlockLists(cm.keys) : \E t \in ForkChoices(list) :
        LET a == FindAncestorOnCanonical(t, Height[lib])
        IN  cm' = IF t = cm.mainTail
                  THEN Waiting(cm.mainTail, cm.LIB)
                  ELSE IF a = NoBlock \/ a \notin Ancestors[mainTail]
                  THEN Waiting(t, cm.LIB)
                  ELSE [pc |-> "index", mainTail |-> t, LIB |-> cm.LIB, keys |-> {},
                        newTail |-> t, ancestor |-> a, at |-> t]
  BY ZenonT(60) DEF CMForkChoice
<1>3. PICK t \in ForkChoices(list) :
        LET a == FindAncestorOnCanonical(t, Height[lib])
        IN  cm' = IF t = cm.mainTail
                  THEN Waiting(cm.mainTail, cm.LIB)
                  ELSE IF a = NoBlock \/ a \notin Ancestors[mainTail]
                  THEN Waiting(t, cm.LIB)
                  ELSE [pc |-> "index", mainTail |-> t, LIB |-> cm.LIB, keys |-> {},
                        newTail |-> t, ancestor |-> a, at |-> t]
  BY ZenonT(60), <1>l
<1> DEFINE a == FindAncestorOnCanonical(t, Height[lib])
<1>4. /\ mainTail \in stored /\ mainTail \in Block /\ stored \in SUBSET Block
      /\ Height[mainTail] \in Nat
      /\ cm.mainTail \in Block \union {NoBlock} /\ cm.LIB \in Block \union {NoBlock}
  BY <1>1 DEF Inv, TypeOK, MemoryInv, ManagerRecord
<1>5. list \subseteq stored
  BY DEF tailBlockLists, Inv, ManagerInv
<1>6. t \in stored /\ t \in Block /\ (t = mainTail \/ Height[mainTail] < Height[t])
  BY <1>4, <1>5, ForkChoiceProperty
<1>7. TaskInv'
  BY <1>1, <1>2, ManagerFrame
<1>8. CASE \E u \in {cm.mainTail, t} : cm' = Waiting(u, cm.LIB)
  <2>1. cm' \in ManagerRecord /\ cm'.pc = "wait" /\ cm'.keys = {}
    BY <1>4, <1>6, <1>8 DEF Waiting, ManagerRecord
  <2>2. TypeOK'
    BY <1>2, <2>1 DEF Inv, TypeOK
  <2>3. StorageInv' /\ SetupInv' /\ MemoryInv' /\ ManagerInv'
    BY <1>1, <1>2, <2>1 DEF Inv, StorageInv, SetupInv, MemoryInv, ManagerInv,
       Switching, Finalizing
  <2> QED
    BY <1>7, <2>2, <2>3 DEF Inv
<1>9. CASE /\ a # NoBlock /\ a \in Ancestors[mainTail]
           /\ cm' = [pc |-> "index", mainTail |-> t, LIB |-> cm.LIB, keys |-> {},
                     newTail |-> t, ancestor |-> a, at |-> t]
  <2>0. a \in Block
    BY <1>4, <1>9, AncestorsClosed
  <2>1. cm' \in ManagerRecord
    BY <1>4, <1>6, <1>9, <2>0 DEF ManagerRecord
  <2>2. cm'.pc = "index" /\ cm'.keys = {} /\ cm'.newTail = t /\ cm'.at = t
    BY <1>9
  <2>3. lib \in Ancestors[t]
    BY <1>1, <1>6, <1>9, SwitchKeepsLIB
  <2>4. TypeOK'
    BY <1>2, <2>1 DEF Inv, TypeOK
  <2>5. StorageInv' /\ SetupInv' /\ MemoryInv'
    BY <1>1, <1>2, <1>6, <2>2 DEF Inv, StorageInv, SetupInv, MemoryInv
  <2>6. ManagerInv'
    BY <1>2, <1>6, <2>2, <2>3 DEF Inv, ManagerInv, Switching, Finalizing
  <2> QED
    BY <1>7, <2>4, <2>5, <2>6 DEF Inv
<1> QED
  BY <1>3, <1>8, <1>9

\* FindLIB and the early returns of SetLIB.
LEMMA FindLIBPreserves == Inv /\ CMFindLIB => Inv'
<1> SUFFICES ASSUME Inv, CMFindLIB PROVE Inv'
  OBVIOUS
<1> DEFINE n == FindLIB(mainTail, lib)
<1>1. cm.pc = "findLIB" /\ node = "up"
  BY DEF Inv, SetupInv, CMFindLIB
<1>2. UNCHANGED <<stored, index, tailKey, libKey, faulted, node, mainTail, lib, tailBlocks, trig,
                  task>>
  BY DEF CMFindLIB, durable
<1>3. cm' = IF n = cm.LIB THEN Waiting(cm.mainTail, cm.LIB)
            ELSE IF Height[lib] > Height[n] \/ lib = n THEN Waiting(cm.mainTail, n)
            ELSE [cm EXCEPT !.pc = "libKey", !.LIB = n]
  BY DEF CMFindLIB
<1>4. mainTail \in Block /\ lib \in Block /\ cm \in ManagerRecord
  BY <1>1 DEF Inv, TypeOK
<1>5. n \in Block
  BY <1>4, FindLIBProperty, AncestorsClosed
<1>6. TaskInv'
  BY <1>1, <1>2, ManagerFrame
<1> HIDE DEF n
<1>7. CASE cm' = Waiting(cm.mainTail, cm.LIB) \/ cm' = Waiting(cm.mainTail, n)
  <2>1. cm' \in ManagerRecord /\ cm'.pc = "wait" /\ cm'.keys = {}
    BY <1>4, <1>5, <1>7 DEF Waiting, ManagerRecord
  <2>2. TypeOK'
    BY <1>2, <2>1 DEF Inv, TypeOK
  <2>3. StorageInv' /\ SetupInv' /\ MemoryInv' /\ ManagerInv'
    BY <1>1, <1>2, <2>1 DEF Inv, StorageInv, SetupInv, MemoryInv, ManagerInv,
       Switching, Finalizing
  <2> QED
    BY <1>6, <2>2, <2>3 DEF Inv
<1>8. CASE ~(Height[lib] > Height[n]) /\ lib # n /\ cm' = [cm EXCEPT !.pc = "libKey", !.LIB = n]
  <2>1. cm' \in ManagerRecord
    BY ZenonT(60), <1>4, <1>5, <1>8 DEF ManagerRecord
  <2>2. cm'.pc = "libKey" /\ cm'.LIB = n /\ cm'.keys = cm.keys /\ cm'.newTail = cm.newTail
    BY <1>4, <1>8 DEF ManagerRecord
  <2>3. n \in Ancestors[mainTail] /\ lib \in Ancestors[n]
    BY <1>1, <1>8, NewLIBDescends DEF n
  <2>4. TypeOK'
    BY <1>2, <2>1 DEF Inv, TypeOK
  <2>5. StorageInv' /\ SetupInv' /\ MemoryInv'
    BY <1>1, <1>2, <2>2 DEF Inv, StorageInv, SetupInv, MemoryInv
  <2>6. ManagerInv'
    BY <1>2, <2>2, <2>3 DEF Inv, ManagerInv, Switching, Finalizing
  <2> QED
    BY <1>6, <2>4, <2>5, <2>6 DEF Inv
<1> QED
  BY <1>3, <1>7, <1>8

\* The Puts and assignments of SetTailBlock and SetLIB, a turn that ends, and a
\* turn that an error ends.
LEMMA ManagerWritesPreserve ==
  ASSUME Inv,
         \/ CMReceive \/ CMIndex \/ CMStoreTail \/ CMSetTail
         \/ CMStoreLIB \/ CMSetLIB \/ CMPrune \/ CMStorageError
  PROVE  Inv'
<1> USE TreeAssumption
<1>1. node = "up" /\ UNCHANGED <<stored, node, task>>
  BY DEF Inv, SetupInv, CMReceive, CMIndex, CMStoreTail, CMSetTail, CMStoreLIB, CMSetLIB,
     CMPrune, CMStorageError, TypeOK, durable
<1>2. TaskInv'
  BY <1>1, ManagerFrame
<1>3. cm \in ManagerRecord /\ stored \in SUBSET Block /\ tailBlocks \in SUBSET Block
  BY DEF Inv, TypeOK
<1>h. GenesisHeight \in Heights
  BY DEF Heights
<1>4. CASE CMReceive
  <2>1. cm' \in ManagerRecord /\ cm'.pc = "choose" /\ cm'.keys = tailBlocks
    BY ZenonT(60), <1>3, <1>4 DEF CMReceive, ManagerRecord
  <2> QED
    BY ZenonT(60), <1>1, <1>2, <1>4, <2>1 DEF Inv, CMReceive, durable, TypeOK, StorageInv,
       SetupInv,
       MemoryInv, ManagerInv, Switching, Finalizing
<1>5. CASE CMIndex
  <2>1. cm.at \in Block /\ cm.pc = "index"
    BY <1>5 DEF CMIndex, Inv, SetupInv
  <2>2. /\ cm' \in ManagerRecord /\ cm'.newTail = cm.newTail /\ cm'.keys = cm.keys
        /\ cm'.pc \in {"index", "tailKey"} /\ cm'.at \in Block
    BY <1>3, <1>5, <2>1 DEF CMIndex, ManagerRecord
  <2>3. /\ index' \in [Heights -> Block \union {NoBlock}]
        /\ index[GenesisHeight] # NoBlock => index'[GenesisHeight] # NoBlock
    BY <1>5, <1>h, <2>1 DEF CMIndex, Inv, TypeOK
  <2> QED
    BY <1>1, <1>2, <1>5, <2>1, <2>2, <2>3 DEF Inv, CMIndex, TypeOK, StorageInv, SetupInv,
       MemoryInv, ManagerInv, Switching, Finalizing
<1>6. CASE CMStoreTail
  <2>1. /\ cm' \in ManagerRecord /\ cm'.pc = "setTail" /\ cm'.newTail = cm.newTail
        /\ cm'.keys = cm.keys
    BY <1>3, <1>6 DEF CMStoreTail, ManagerRecord
  <2> QED
    BY <1>1, <1>2, <1>6, <2>1 DEF Inv, CMStoreTail, TypeOK, StorageInv, SetupInv,
       MemoryInv, ManagerInv, Switching, Finalizing
<1>7. CASE CMSetTail
  <2>1. cm' \in ManagerRecord /\ cm'.pc = "findLIB" /\ cm'.keys = cm.keys
    BY <1>3, <1>7 DEF CMSetTail, ManagerRecord
  <2> QED
    BY <1>1, <1>2, <1>3, <1>7, <2>1 DEF Inv, CMSetTail, durable, TypeOK, StorageInv,
       SetupInv, MemoryInv, ManagerInv, Switching, Finalizing
<1>8. CASE CMStoreLIB
  <2>1. /\ cm' \in ManagerRecord /\ cm'.pc = "setLIB" /\ cm'.LIB = cm.LIB
        /\ cm'.keys = cm.keys
    BY <1>3, <1>8 DEF CMStoreLIB, ManagerRecord
  <2>2. cm.LIB \in Ancestors[mainTail] /\ cm.LIB \in Block /\ tailKey = mainTail
    BY <1>1, <1>8, AncestorsClosed DEF CMStoreLIB, Inv, ManagerInv, Finalizing,
       MemoryInv, TypeOK
  <2> QED
    BY <1>1, <1>2, <1>8, <2>1, <2>2 DEF Inv, CMStoreLIB, TypeOK, StorageInv, SetupInv,
       MemoryInv, ManagerInv, Switching, Finalizing
<1>9. CASE CMSetLIB
  <2>1. cm' \in ManagerRecord /\ cm'.pc = "prune" /\ cm'.keys = cm.keys
    BY <1>3, <1>9 DEF CMSetLIB, ManagerRecord
  <2>2. cm.LIB \in Ancestors[mainTail] /\ cm.LIB \in Block
    BY <1>1, <1>9, AncestorsClosed DEF CMSetLIB, Inv, ManagerInv, Finalizing, TypeOK
  <2> QED
    BY <1>1, <1>2, <1>9, <2>1, <2>2 DEF Inv, CMSetLIB, durable, TypeOK, StorageInv,
       SetupInv, MemoryInv, ManagerInv, Switching, Finalizing
<1>10. CASE CMPrune \/ CMStorageError
  <2>1. cm' \in ManagerRecord /\ cm'.pc = "wait" /\ cm'.keys = {}
    <3>1. cm' = Waiting(cm.mainTail, cm.LIB)
      BY ZenonT(60), <1>10 DEF CMPrune, CMStorageError
    <3>2. cm.mainTail \in Block \union {NoBlock} /\ cm.LIB \in Block \union {NoBlock}
      BY <1>3 DEF ManagerRecord
    <3> QED BY <3>1, <3>2 DEF Waiting, ManagerRecord
  <2>2. tailBlocks' \subseteq tailBlocks /\ cm.pc \notin {"setTail", "setLIB"}
    BY <1>10 DEF CMPrune, CMStorageError
  <2> QED
    BY ZenonT(60), <1>1, <1>2, <1>10, <2>1, <2>2 DEF Inv, CMPrune, CMStorageError, durable,
       TypeOK,
       StorageInv, SetupInv, MemoryInv, ManagerInv, Switching, Finalizing
<1> QED
  BY <1>4, <1>5, <1>6, <1>7, <1>8, <1>9, <1>10

-----------------------------------------------------------------------------
(* The theorems.                                                           *)

\* Every step of the node keeps the invariant.
LEMMA NextPreserves == Inv /\ [Next]_vars => Inv'
<1> SUFFICES ASSUME Inv, [Next]_vars PROVE Inv'
  OBVIOUS
<1>1. CASE SetupNext
  BY <1>1, SetupPreserves
<1>2. CASE \E w \in Worker, b \in Block : TaskStart(w, b) \/ MintStart(w, b)
  BY <1>2, StartPreserves
<1>3. CASE \E w \in Worker : TaskStep(w)
  BY <1>3, TaskPreserves
<1>4. CASE CMNext \/ CMStorageError
  BY <1>4, ManagerWritesPreserve, ForkChoicePreserves, FindLIBPreserves DEF CMNext
<1>5. CASE Crash
  BY <1>5, CrashPreserves
<1>6. CASE UNCHANGED vars
  BY <1>6 DEF vars, Inv, TypeOK, StorageInv, SetupInv, MemoryInv, ManagerInv, TaskInv,
     Switching, Finalizing
<1> QED
  BY <1>1, <1>2, <1>3, <1>4, <1>5, <1>6 DEF Next

\* Inv is an invariant of the node.
LEMMA Invariance == Spec => []Inv
BY InitInv, NextPreserves, PTL DEF Spec

\* The block store keeps its types; in particular a node that is up has a main
\* tail and a LIB (the pointers the code dereferences unchecked).
THEOREM TypeCorrect == Spec => []TypeOK
<1>1. Inv => TypeOK
  BY DEF Inv
<1> QED
  BY Invariance, <1>1, PTL

\* The LIB is on the main chain in every state of SetTailBlock, SetLIB, Setup
\* and a crash, even if Puts fail.
THEOREM LIBStaysOnMainChain == Spec => []LIBOnMainChain
<1>1. Inv => LIBOnMainChain
  BY DEF Inv, LIBOnMainChain, StorageInv, SetupInv, MemoryInv
<1> QED
  BY Invariance, <1>1, PTL

\* The stored LIB changes in two steps only.
LEMMA LIBChanges ==
  ASSUME Inv, [Next]_vars, libKey' # libKey
  PROVE  \/ StoreGenesisLIB
         \/ CMStoreLIB
BY ZenonT(60) DEF Next, SetupNext, TaskStep, CMNext, vars, durable, memory, chainState,
   Setup, StoreGenesisBlock, StoreGenesisTail, StoreGenesisHeight, Load, Reindex, Crash,
   TaskStart, MintStart, TaskReadLIB, TaskWalk, TaskReadIndex, TaskReject, TaskStore,
   TaskAddTail, TaskRemoveTail, TaskTrigger, CMReceive, CMForkChoice, CMIndex,
   CMStoreTail, CMSetTail, CMFindLIB, CMSetLIB, CMPrune, CMStorageError

\* The stored tail changes in two steps only.
LEMMA TailChanges ==
  ASSUME Inv, [Next]_vars, tailKey' # tailKey
  PROVE  \/ StoreGenesisTail
         \/ CMStoreTail
BY ZenonT(60) DEF Next, SetupNext, TaskStep, CMNext, vars, durable, memory, chainState,
   Setup, StoreGenesisBlock, StoreGenesisLIB, StoreGenesisHeight, Load, Reindex, Crash,
   TaskStart, MintStart, TaskReadLIB, TaskWalk, TaskReadIndex, TaskReject, TaskStore,
   TaskAddTail, TaskRemoveTail, TaskTrigger, CMReceive, CMForkChoice, CMIndex,
   CMStoreLIB, CMSetTail, CMFindLIB, CMSetLIB, CMPrune, CMStorageError

\* When the chain manager writes the LIB key, the new LIB descends from the old.
LEMMA StoreLIBStep ==
  ASSUME Inv, CMStoreLIB
  PROVE  /\ libKey \in Block /\ libKey' \in Block
         /\ libKey \in Ancestors[libKey'] /\ libKey' \in Ancestors[tailKey]
         /\ tailKey \in Block /\ tailKey' = tailKey
<1>1. node = "up" /\ cm.pc = "libKey" /\ tailKey' = tailKey /\ libKey' = cm.LIB
  BY DEF CMStoreLIB, Inv, SetupInv
<1>2. /\ tailKey = mainTail /\ libKey = lib /\ mainTail \in Block /\ lib \in Block
      /\ cm.LIB \in Ancestors[mainTail] /\ lib \in Ancestors[cm.LIB]
  BY <1>1 DEF Inv, MemoryInv, ManagerInv, Finalizing, TypeOK
<1> QED
  BY <1>1, <1>2, AncestorsClosed

\* A stored LIB is only ever replaced by a descendant, in every execution with
\* any interleaving of workers, crashes, restarts and storage errors.
THEOREM LIBIsIrreversible == Spec => LIBIrreversible
<1>1. ASSUME Inv, [Next]_vars, libKey # NoBlock
      PROVE  libKey' # NoBlock /\ libKey \in Ancestors[libKey']
  <2>1. libKey \in Block
    BY <1>1 DEF Inv, TypeOK
  <2>2. CASE libKey' = libKey
    BY <1>1, <2>1, <2>2, AncestorsClosed
  <2>3. CASE StoreGenesisLIB
    BY <1>1, <2>3 DEF StoreGenesisLIB, Inv, SetupInv
  <2>4. CASE CMStoreLIB
    BY <1>1, <2>4, StoreLIBStep, TreeAssumption
  <2> QED
    BY <1>1, <2>2, <2>3, <2>4, LIBChanges
<1>2. Inv /\ [Next]_vars =>
        [libKey # NoBlock => libKey' # NoBlock /\ libKey \in Ancestors[libKey']]_vars
  BY <1>1
<1> QED
  BY Invariance, <1>2, PTL DEF Spec, LIBIrreversible

\* Storage implements the abstract chain: the tail moves only to higher blocks
\* that descend from the LIB, and the LIB only towards the tail.
THEOREM StoreImplementsChain == Spec => ImplementsIrreversibleChain
<1> DEFINE H == IF tailKey = NoBlock THEN Genesis ELSE tailKey
           F == IF libKey = NoBlock THEN Genesis ELSE libKey
<1>1. Init => Promise!Init
  BY DEF Init, Promise!Init
<1>2. ASSUME Inv, [Next]_vars
      PROVE  Promise!Next \/ UNCHANGED <<H, F>>
  <2>0. /\ tailKey \in Block \union {NoBlock} /\ libKey \in Block \union {NoBlock}
        /\ Genesis \in Block /\ NoBlock \notin Block
    BY <1>2, TreeAssumption DEF Inv, TypeOK
  <2>1. CASE libKey' = libKey /\ tailKey' = tailKey
    BY <2>1
  <2>2. CASE StoreGenesisLIB
    BY <1>2, <2>2, <2>0 DEF StoreGenesisLIB, Inv, SetupInv
  <2>3. CASE StoreGenesisTail
    BY <1>2, <2>3, <2>0 DEF StoreGenesisTail, Inv, SetupInv, StorageInv
  <2>4. CASE CMStoreLIB
    <3>1. /\ libKey \in Block /\ libKey' \in Block
          /\ libKey \in Ancestors[libKey'] /\ libKey' \in Ancestors[tailKey]
          /\ tailKey \in Block /\ tailKey' = tailKey
      BY <1>2, <2>4, StoreLIBStep
    <3> QED
      BY <2>0, <3>1 DEF Promise!Next, Promise!Finalize, Promise!Ancestors, Ancestors
  <2>5. CASE CMStoreTail
    <3>1. node = "up" /\ cm.pc = "tailKey" /\ libKey' = libKey /\ tailKey' = cm.newTail
      BY <1>2, <2>5 DEF CMStoreTail, Inv, SetupInv
    <3>2. /\ tailKey = mainTail /\ libKey = lib /\ mainTail \in Block /\ lib \in Block
          /\ cm.newTail \in Block /\ lib \in Ancestors[cm.newTail]
          /\ cm.newTail = mainTail \/ Height[mainTail] < Height[cm.newTail]
      BY <1>2, <3>1 DEF Inv, MemoryInv, ManagerInv, Switching, TypeOK
    <3>3. Height[mainTail] \in Nat /\ Height[cm.newTail] \in Nat
      BY <3>2, TreeAssumption
    <3>4. CASE cm.newTail = mainTail
      BY <3>1, <3>2, <3>4
    <3>5. CASE Height[cm.newTail] > Height[mainTail]
      BY <2>0, <3>1, <3>2, <3>5 DEF Promise!Next, Promise!Switch, Promise!Ancestors,
         Ancestors
    <3> QED
      BY <3>2, <3>3, <3>4, <3>5
  <2> QED
    BY <1>2, <2>1, <2>2, <2>3, <2>4, <2>5, LIBChanges, TailChanges
<1>3. Inv /\ [Next]_vars => [Promise!Next]_<<H, F>>
  BY <1>2
<1> QED
  BY Invariance, <1>1, <1>3, PTL DEF Spec, ImplementsIrreversibleChain, Promise!Spec


-----------------------------------------------------------------------------
(* The height index.  CanonicalIndex, IrreversibleIndex and RevertsExactly *)
(* hold until a Put fails; together with what a switch and re-indexing     *)
(* have written so far they are inductive.                                 *)

\* The height index holds each block of S.
Indexed(S) == \A b \in S : index[Height[b]] = b

\* The height index holds the blocks of b's chain that are higher than c.
IndexedAbove(c, b) == \A x \in Ancestors[b] : Height[c] < Height[x] => index[Height[x]] = x

\* A tail switch: the two branches part at the ancestor, up to which the index is
\* right; above the ancestor it holds what buildIndexByBlockHeight has written.
SwitchIndex ==
  /\ cm.ancestor \in Block
  /\ lib \in Ancestors[cm.ancestor]
  /\ Ancestors[cm.newTail] \intersect Ancestors[mainTail] = Ancestors[cm.ancestor]
  /\ Indexed(Ancestors[cm.ancestor])
  /\ cm.pc = "index" => /\ cm.at \in Ancestors[cm.newTail]
                        /\ cm.ancestor \in Ancestors[cm.at]
                        /\ IndexedAbove(cm.at, cm.newTail)
  /\ cm.pc # "index" => Indexed(Ancestors[cm.newTail])

IndexInv ==
  /\ node = "genesisLIB" => Indexed({Genesis})
  /\ libKey # NoBlock => Indexed(Ancestors[libKey])
  /\ node = "reindex" => /\ cm.at \in Ancestors[mainTail]
                         /\ lib \in Ancestors[cm.at]
                         /\ IndexedAbove(cm.at, mainTail)
  /\ node = "up" /\ ~Switching => Indexed(Ancestors[mainTail])
  /\ node = "up" /\ Switching => SwitchIndex

\* Setup takes the genesis block for stored when its height key is; the tail key
\* is written before.
RecoverInv ==
  /\ index[GenesisHeight] # NoBlock => tailKey # NoBlock
  /\ node = "load" => index[GenesisHeight] # NoBlock
  /\ SetupRecovers

-----------------------------------------------------------------------------
\* Two ancestors of a stored block at one height are one block.
LEMMA SameHeight ==
  ASSUME NEW S, Grounded(S), NEW b \in S, NEW a \in Ancestors[b], NEW c \in Ancestors[b],
         Height[a] = Height[c]
  PROVE  a = c
<1>1. a \in S /\ c \in S /\ Height[a] \in Nat /\ Height[c] \in Nat
  BY GroundedAncestors, TreeAssumption DEF Grounded
<1>2. a \in Ancestors[c]
  BY <1>1, HigherDescends
<1> QED BY <1>1, <1>2, GroundedHeights

\* An ancestor is not higher.
LEMMA AncestorsLower ==
  ASSUME NEW S, Grounded(S), NEW b \in S, NEW a \in Ancestors[b]
  PROVE  /\ a \in S /\ a \in Block /\ b \in Block
         /\ Height[a] \in Nat /\ Height[b] \in Nat /\ Height[a] <= Height[b]
<1>1. a \in S /\ a \in Block /\ b \in Block /\ Height[a] \in Nat /\ Height[b] \in Nat
  BY GroundedAncestors, TreeAssumption DEF Grounded
<1> QED BY <1>1, GroundedHeights

\* One round of buildIndexByBlockHeight(floor, top), at the block at: it writes above
\* the floor, and the blocks of the chain above at's parent are then indexed.
LEMMA IndexStep ==
  ASSUME NEW S, Grounded(S), NEW top \in S, NEW at \in Ancestors[top],
         NEW floor \in Ancestors[at], at # floor,
         index'[Height[at]] = at, \A h \in Heights \ {Height[at]} : index'[h] = index[h],
         IndexedAbove(at, top)
  PROVE  /\ ParentHash[at] \in Ancestors[top]
         /\ floor \in Ancestors[ParentHash[at]]
         /\ \A x \in Ancestors[top] : Height[ParentHash[at]] < Height[x] => index'[Height[x]] = x
         /\ \A x \in Ancestors[floor] : index'[Height[x]] = index[Height[x]]
<1>1. at \in S /\ at \in Block /\ Height[at] \in Nat /\ Height[at] \in Heights
  BY AncestorsLower DEF Heights
<1>2. Height[floor] < Height[at] /\ floor \in S /\ Height[floor] \in Nat
  BY <1>1, GroundedHeights, AncestorsLower
<1>3. at # Genesis
  <2>1. {Genesis} \in SUBSET Block /\ Closed({Genesis})
    BY TreeAssumption DEF Closed
  <2>2. Ancestors[Genesis] \subseteq {Genesis}
    BY <2>1, AncestorsLeast, TreeAssumption
  <2> QED BY <2>2
<1>4. ParentHash[at] \in S /\ Height[ParentHash[at]] + 1 = Height[at]
  BY <1>1, <1>3 DEF Grounded, verifyBlockHeight
<1>5. ParentHash[at] \in Ancestors[top]
  BY AncestorsClosed DEF Closed, Grounded
<1>6. floor \in Ancestors[ParentHash[at]]
  BY <1>1, AncestorsUnfold
<1>7. ASSUME NEW x \in Ancestors[top], Height[ParentHash[at]] < Height[x]
      PROVE  index'[Height[x]] = x
  <2>1. Height[x] \in Nat /\ Height[ParentHash[at]] \in Nat /\ Height[x] \in Heights
    BY <1>4, AncestorsLower, TreeAssumption DEF Grounded, Heights
  <2>2. CASE Height[x] = Height[at]
    BY <1>1, <2>2, SameHeight
  <2>3. CASE Height[at] < Height[x]
    BY <1>1, <2>1, <2>3 DEF IndexedAbove
  <2> QED BY <1>1, <1>4, <1>7, <2>1, <2>2, <2>3
<1>8. ASSUME NEW x \in Ancestors[floor]
      PROVE  index'[Height[x]] = index[Height[x]]
  <2>1. Height[x] \in Nat /\ Height[x] <= Height[floor] /\ Height[x] \in Heights
    BY <1>2, AncestorsLower DEF Heights
  <2> QED BY <1>1, <1>2, <2>1
<1> QED BY <1>5, <1>6, <1>7, <1>8

\* When buildIndexByBlockHeight has reached its floor, the whole chain is indexed.
LEMMA IndexDone ==
  ASSUME NEW S, Grounded(S), NEW top \in S, NEW floor \in Ancestors[top],
         IndexedAbove(floor, top), Indexed(Ancestors[floor])
  PROVE  Indexed(Ancestors[top])
<1> SUFFICES ASSUME NEW x \in Ancestors[top] PROVE index[Height[x]] = x
  BY DEF Indexed
<1>1. Height[x] \in Nat /\ Height[floor] \in Nat
  BY AncestorsLower
<1>2. CASE Height[floor] < Height[x]
  BY <1>2 DEF IndexedAbove
<1>3. CASE Height[x] <= Height[floor]
  BY <1>3, HigherDescends DEF Indexed
<1> QED BY <1>1, <1>2, <1>3

\* The ancestor that SetTailBlock finds in a right index is where the branches part.
LEMMA MeetProperty ==
  ASSUME Inv, node = "up", Indexed(Ancestors[mainTail]), NEW t \in stored, NEW a,
         a = FindAncestorOnCanonical(t, Height[lib]),
         a # NoBlock, a \in Ancestors[mainTail]
  PROVE  /\ a \in Block /\ lib \in Ancestors[a] /\ a \in Ancestors[t]
         /\ Ancestors[t] \intersect Ancestors[mainTail] = Ancestors[a]
         /\ Indexed(Ancestors[a])
<1> DEFINE S == {x \in Ancestors[t] : OnCanonical(x) /\ Height[lib] <= Height[x]}
<1>1. /\ t \in Block /\ Grounded(stored) /\ mainTail \in stored /\ lib \in Ancestors[mainTail]
      /\ mainTail \in Block
  BY DEF Inv, StorageInv, MemoryInv, TypeOK
<1>2. S \in SUBSET Block /\ a = Highest(S)
  BY <1>1, AncestorsClosed DEF FindAncestorOnCanonical
<1>3. a \in Ancestors[t] /\ Height[lib] <= Height[a] /\ \A x \in S : Height[x] <= Height[a]
  BY <1>2, HighestProperty
<1>4. lib \in Ancestors[a]
  BY <1>1, <1>3, HigherDescends
<1>5. a \in Block /\ Height[a] \in Nat /\ Height[lib] \in Nat
  BY <1>1, AncestorsLower
<1>6. Ancestors[a] \subseteq Ancestors[t] /\ Ancestors[a] \subseteq Ancestors[mainTail]
  BY <1>1, <1>3, AncestorsTransitive
<1>7. ASSUME NEW x \in Ancestors[t] \intersect Ancestors[mainTail]
      PROVE  x \in Ancestors[a]
  <2>1. Height[x] \in Nat /\ Height[x] <= Height[mainTail] /\ index[Height[x]] = x
    BY <1>1, AncestorsLower DEF Indexed
  <2>2. Height[x] <= Height[a]
    BY <1>3, <1>5, <2>1 DEF OnCanonical
  <2> QED BY <1>1, <1>3, <2>2, HigherDescends
<1>8. Indexed(Ancestors[a])
  BY <1>6 DEF Indexed
<1> QED BY <1>3, <1>4, <1>5, <1>6, <1>7, <1>8


\* A step that leaves the index, the stored LIB and the main tail alone, and the chain
\* manager inside or outside a switch.
LEMMA IndexFrame ==
  ASSUME IndexInv, UNCHANGED <<index, libKey, node, mainTail, lib>>,
         node # "reindex" \/ cm' = cm,
         \/ UNCHANGED cm
         \/ ~Switching /\ ~Switching'
  PROVE  IndexInv'
<1>1. CASE UNCHANGED cm
  BY <1>1 DEF IndexInv, SwitchIndex, Indexed, IndexedAbove, Switching
<1>2. CASE ~Switching /\ ~Switching' /\ node # "reindex"
  BY <1>2 DEF IndexInv, Indexed
<1> QED BY <1>1, <1>2

\* Setup up to loading.
LEMMA SetupIndex ==
  ASSUME Inv, Inv', IndexInv,
         Setup \/ StoreGenesisBlock \/ StoreGenesisTail \/ StoreGenesisHeight
           \/ StoreGenesisLIB \/ Load
  PROVE  IndexInv'
<1>1. CASE Setup \/ StoreGenesisBlock \/ StoreGenesisTail
  <2>1. node' \notin {"genesisLIB", "reindex", "up"} /\ libKey' = libKey /\ index' = index
    BY <1>1 DEF Setup, StoreGenesisBlock, StoreGenesisTail, durable
  <2> QED BY <2>1 DEF IndexInv, Indexed
<1>2. CASE StoreGenesisHeight
  <2>1. /\ node' = "genesisLIB" /\ libKey' = libKey /\ libKey = NoBlock
        /\ index' = [index EXCEPT ![GenesisHeight] = Genesis]
    BY <1>2 DEF StoreGenesisHeight, Inv, SetupInv
  <2>2. index'[Height[Genesis]] = Genesis
    BY <2>1, TreeAssumption DEF Inv, TypeOK, Heights
  <2> QED BY <2>1, <2>2 DEF IndexInv, Indexed
<1>3. CASE StoreGenesisLIB
  <2>1. /\ node = "genesisLIB" /\ node' = "load" /\ libKey' = Genesis /\ index' = index
    BY <1>3 DEF StoreGenesisLIB
  <2>2. Ancestors[Genesis] \subseteq {Genesis}
    <3>1. {Genesis} \in SUBSET Block /\ Closed({Genesis})
      BY TreeAssumption DEF Closed
    <3> QED BY <3>1, AncestorsLeast, TreeAssumption
  <2> QED BY <2>1, <2>2 DEF IndexInv, Indexed
<1>4. CASE Load
  <2>1. index' = index /\ libKey' = libKey /\ tailKey' = tailKey /\ stored' = stored
        /\ node' \in {"failed", "reindex"}
    BY <1>4 DEF Load, durable
  <2>2. CASE node' = "failed"
    BY <2>1, <2>2 DEF IndexInv, Indexed
  <2>3. CASE node' = "reindex"
    <3>1. /\ tailKey # NoBlock /\ libKey # NoBlock /\ mainTail' = tailKey /\ lib' = libKey
          /\ cm'.at = tailKey
      BY <1>4, <2>3 DEF Load, Waiting
    <3>2. /\ tailKey \in stored /\ libKey \in Ancestors[tailKey] /\ Grounded(stored)
      BY <3>1 DEF Inv, StorageInv
    <3>3. \A x \in Ancestors[tailKey] : ~(Height[tailKey] < Height[x])
      BY <3>2, AncestorsLower
    <3>4. tailKey \in Ancestors[tailKey]
      BY <3>2, AncestorsClosed DEF Grounded
    <3> QED BY <2>1, <2>3, <3>1, <3>2, <3>3, <3>4 DEF IndexInv, Indexed, IndexedAbove
  <2> QED BY <2>1, <2>2, <2>3
<1> QED BY <1>1, <1>2, <1>3, <1>4

\* Re-indexing between the LIB and the tail.
LEMMA ReindexIndex ==
  ASSUME Inv, Inv', IndexInv, Reindex
  PROVE  IndexInv'
<1>1. /\ node = "reindex" /\ Grounded(stored) /\ mainTail \in stored /\ libKey # NoBlock
      /\ libKey = lib /\ index \in [Heights -> Block \union {NoBlock}]
      /\ cm \in ManagerRecord /\ cm.pc = "wait"
  BY DEF Reindex, Inv, MemoryInv, StorageInv, SetupInv, TypeOK
<1>2. /\ cm.at \in Ancestors[mainTail] /\ lib \in Ancestors[cm.at]
      /\ IndexedAbove(cm.at, mainTail) /\ Indexed(Ancestors[lib])
  BY <1>1 DEF IndexInv
<1>3. UNCHANGED <<stored, libKey, mainTail, lib>>
  BY DEF Reindex
<1>4. CASE cm.at = lib
  <2>1. Indexed(Ancestors[mainTail])
    BY <1>1, <1>2, <1>4, IndexDone
  <2>2. node' = "up" /\ cm'.pc = "wait" /\ index' = index
    BY <1>4 DEF Reindex, Waiting
  <2> QED BY <1>1, <1>2, <1>3, <2>1, <2>2 DEF IndexInv, Indexed, Switching
<1>5. CASE cm.at # lib
  <2>1. /\ index' = [index EXCEPT ![Height[cm.at]] = cm.at] /\ node' = "reindex"
        /\ cm' = [cm EXCEPT !.at = ParentHash[cm.at]]
    BY <1>1, <1>5 DEF Reindex
  <2>2. cm'.at = ParentHash[cm.at]
    BY <1>1, <2>1 DEF ManagerRecord
  <2>3. /\ ParentHash[cm.at] \in Ancestors[mainTail]
        /\ lib \in Ancestors[ParentHash[cm.at]]
        /\ \A x \in Ancestors[mainTail] :
             Height[ParentHash[cm.at]] < Height[x] => index'[Height[x]] = x
        /\ \A x \in Ancestors[lib] : index'[Height[x]] = index[Height[x]]
    <3>1. index'[Height[cm.at]] = cm.at
          /\ \A h \in Heights \ {Height[cm.at]} : index'[h] = index[h]
      BY <1>1, <1>2, <2>1, AncestorsLower DEF Heights
    <3> QED BY <1>1, <1>2, <1>5, <3>1, IndexStep
  <2> QED BY <1>1, <1>2, <1>3, <2>1, <2>2, <2>3 DEF IndexInv, Indexed, IndexedAbove
<1> QED BY <1>4, <1>5

\* ForkChoice: a switch begins with a right index.
LEMMA ForkChoiceIndex ==
  ASSUME Inv, Inv', IndexInv, CMForkChoice
  PROVE  IndexInv'
<1>1. cm.pc = "choose" /\ node = "up" /\ node' = "up"
      /\ UNCHANGED <<stored, index, libKey, mainTail, lib>>
  BY DEF Inv, SetupInv, CMForkChoice, durable
<1>2. Indexed(Ancestors[mainTail]) /\ (libKey # NoBlock => Indexed(Ancestors[libKey]))
  BY <1>1 DEF IndexInv, Switching
<1>3. \E t, a :
        \/ cm'.pc = "wait"
        \/ /\ a = FindAncestorOnCanonical(t, Height[lib])
           /\ a # NoBlock /\ a \in Ancestors[mainTail]
           /\ cm' = [pc |-> "index", mainTail |-> t, LIB |-> cm.LIB, keys |-> {},
                     newTail |-> t, ancestor |-> a, at |-> t]
  <2>1. PICK list \in tailBlockLists(cm.keys) : \E t \in ForkChoices(list) :
          LET a == FindAncestorOnCanonical(t, Height[lib])
          IN  cm' = IF t = cm.mainTail
                    THEN Waiting(cm.mainTail, cm.LIB)
                    ELSE IF a = NoBlock \/ a \notin Ancestors[mainTail]
                    THEN Waiting(t, cm.LIB)
                    ELSE [pc |-> "index", mainTail |-> t, LIB |-> cm.LIB, keys |-> {},
                          newTail |-> t, ancestor |-> a, at |-> t]
    BY ZenonT(60) DEF CMForkChoice
  <2>2. PICK t \in ForkChoices(list) :
          LET a == FindAncestorOnCanonical(t, Height[lib])
          IN  cm' = IF t = cm.mainTail
                    THEN Waiting(cm.mainTail, cm.LIB)
                    ELSE IF a = NoBlock \/ a \notin Ancestors[mainTail]
                    THEN Waiting(t, cm.LIB)
                    ELSE [pc |-> "index", mainTail |-> t, LIB |-> cm.LIB, keys |-> {},
                          newTail |-> t, ancestor |-> a, at |-> t]
    BY ZenonT(60), <2>1
  <2>3. \A u, v : Waiting(u, v).pc = "wait"
    BY DEF Waiting
  <2> QED BY ZenonT(60), <2>2, <2>3
<1>4. CASE cm'.pc = "wait"
  BY <1>1, <1>2, <1>4 DEF IndexInv, Indexed, Switching
<1>5. CASE \E t, a :
             /\ a = FindAncestorOnCanonical(t, Height[lib])
             /\ a # NoBlock /\ a \in Ancestors[mainTail]
             /\ cm' = [pc |-> "index", mainTail |-> t, LIB |-> cm.LIB, keys |-> {},
                       newTail |-> t, ancestor |-> a, at |-> t]
  <2>1. PICK t, a :
             /\ a = FindAncestorOnCanonical(t, Height[lib])
             /\ a # NoBlock /\ a \in Ancestors[mainTail]
             /\ cm' = [pc |-> "index", mainTail |-> t, LIB |-> cm.LIB, keys |-> {},
                       newTail |-> t, ancestor |-> a, at |-> t]
    BY <1>5, Zenon
  <2>2. cm'.pc = "index" /\ cm'.newTail = t /\ cm'.ancestor = a /\ cm'.at = t
    BY <2>1
  <2>3. t \in stored /\ Grounded(stored)
    BY <1>1, <2>2 DEF Inv, ManagerInv, Switching, StorageInv
  <2>4. /\ a \in Block /\ lib \in Ancestors[a] /\ a \in Ancestors[t]
        /\ Ancestors[t] \intersect Ancestors[mainTail] = Ancestors[a]
        /\ Indexed(Ancestors[a])
    BY <1>1, <1>2, <2>1, <2>3, MeetProperty
  <2>5. \A x \in Ancestors[t] : ~(Height[t] < Height[x])
    BY <2>3, AncestorsLower
  <2>6. t \in Ancestors[t]
    BY <2>3, AncestorsClosed DEF Grounded
  <2> HIDE DEF Inv
  <2> QED BY <1>1, <1>2, <2>2, <2>4, <2>5, <2>6 DEF IndexInv, SwitchIndex, Indexed,
             IndexedAbove, Switching
<1> QED BY <1>3, <1>4, <1>5

\* The Puts of buildIndexByBlockHeight inside a switch.
LEMMA IndexIndex ==
  ASSUME Inv, Inv', IndexInv, CMIndex
  PROVE  IndexInv'
<1>1. /\ node = "up" /\ cm.pc = "index" /\ Grounded(stored) /\ libKey = lib /\ libKey # NoBlock
      /\ cm.newTail \in stored /\ index \in [Heights -> Block \union {NoBlock}]
      /\ cm \in ManagerRecord
  BY DEF CMIndex, Inv, MemoryInv, StorageInv, SetupInv, ManagerInv, Switching, TypeOK
<1>2. SwitchIndex /\ Indexed(Ancestors[lib])
  BY <1>1 DEF IndexInv, Switching
<1>3. /\ cm.at \in Ancestors[cm.newTail] /\ cm.ancestor \in Ancestors[cm.at]
      /\ IndexedAbove(cm.at, cm.newTail) /\ cm.ancestor \in Block
      /\ lib \in Ancestors[cm.ancestor] /\ Indexed(Ancestors[cm.ancestor])
      /\ Ancestors[cm.newTail] \intersect Ancestors[mainTail] = Ancestors[cm.ancestor]
  BY <1>1, <1>2 DEF SwitchIndex
<1>4. UNCHANGED <<stored, libKey, mainTail, lib, node>>
  BY DEF CMIndex
<1>5. CASE cm.at = cm.ancestor
  <2>1. /\ cm'.pc = "tailKey" /\ cm'.newTail = cm.newTail /\ cm'.ancestor = cm.ancestor
        /\ index' = index
    BY <1>1, <1>5 DEF CMIndex, ManagerRecord
  <2>2. Indexed(Ancestors[cm.newTail])
    BY <1>1, <1>3, <1>5, IndexDone
  <2> QED BY <1>1, <1>2, <1>3, <1>4, <2>1, <2>2 DEF IndexInv, SwitchIndex, Indexed, Switching
<1>6. CASE cm.at # cm.ancestor
  <2>1. /\ index' = [index EXCEPT ![Height[cm.at]] = cm.at]
        /\ cm'.pc = "index" /\ cm'.newTail = cm.newTail /\ cm'.ancestor = cm.ancestor
        /\ cm'.at = ParentHash[cm.at]
    BY <1>1, <1>6 DEF CMIndex, ManagerRecord
  <2>2. /\ ParentHash[cm.at] \in Ancestors[cm.newTail]
        /\ cm.ancestor \in Ancestors[ParentHash[cm.at]]
        /\ \A x \in Ancestors[cm.newTail] :
             Height[ParentHash[cm.at]] < Height[x] => index'[Height[x]] = x
        /\ \A x \in Ancestors[cm.ancestor] : index'[Height[x]] = index[Height[x]]
    <3>1. index'[Height[cm.at]] = cm.at
          /\ \A h \in Heights \ {Height[cm.at]} : index'[h] = index[h]
      BY <1>1, <1>3, <2>1, AncestorsLower DEF Heights
    <3> DEFINE at == cm.at
               floor == cm.ancestor
               top == cm.newTail
    <3>2. /\ top \in stored /\ at \in Ancestors[top] /\ floor \in Ancestors[at] /\ at # floor
          /\ index'[Height[at]] = at /\ IndexedAbove(at, top)
          /\ \A h \in Heights \ {Height[at]} : index'[h] = index[h]
          /\ Grounded(stored)
      BY ZenonT(60), <1>1, <1>3, <1>6, <3>1
    <3> HIDE DEF at, floor, top
    <3>3. /\ ParentHash[at] \in Ancestors[top] /\ floor \in Ancestors[ParentHash[at]]
          /\ \A x \in Ancestors[top] : Height[ParentHash[at]] < Height[x] => index'[Height[x]] = x
          /\ \A x \in Ancestors[floor] : index'[Height[x]] = index[Height[x]]
      BY <3>2, IndexStep
    <3> QED BY ZenonT(60), <3>3 DEF at, floor, top
  <2>3. Ancestors[lib] \subseteq Ancestors[cm.ancestor]
    BY <1>3, AncestorsTransitive
  <2> QED BY <1>1, <1>2, <1>3, <1>4, <2>1, <2>2, <2>3 DEF IndexInv, SwitchIndex, Indexed,
             IndexedAbove, Switching
<1> QED BY <1>5, <1>6

\* The other steps of a switch and of a LIB change.
LEMMA WritesIndex ==
  ASSUME Inv, Inv', IndexInv, CMStoreTail \/ CMSetTail \/ CMStoreLIB \/ CMSetLIB
  PROVE  IndexInv'
<1>1. node = "up" /\ node' = "up" /\ index' = index /\ cm \in ManagerRecord
  BY DEF CMStoreTail, CMSetTail, CMStoreLIB, CMSetLIB, durable, Inv, SetupInv, TypeOK
<1>2. CASE CMStoreTail
  <2>1. /\ cm.pc = "tailKey" /\ cm'.pc = "setTail" /\ cm'.newTail = cm.newTail
        /\ cm'.ancestor = cm.ancestor /\ UNCHANGED <<libKey, mainTail, lib>>
    BY <1>1, <1>2 DEF CMStoreTail, ManagerRecord
  <2> QED BY <1>1, <2>1 DEF IndexInv, SwitchIndex, Indexed, Switching
<1>3. CASE CMSetTail
  <2>1. /\ cm.pc = "setTail" /\ cm'.pc = "findLIB" /\ mainTail' = cm.newTail
        /\ UNCHANGED <<libKey, lib>>
    BY <1>1, <1>3 DEF CMSetTail, durable, ManagerRecord
  <2> QED BY <1>1, <2>1 DEF IndexInv, SwitchIndex, Indexed, Switching
<1>4. CASE CMStoreLIB
  <2>1. /\ cm.pc = "libKey" /\ cm'.pc = "setLIB" /\ mainTail' = mainTail /\ libKey' = cm.LIB
    BY <1>1, <1>4 DEF CMStoreLIB, ManagerRecord
  <2>2. cm.LIB \in Ancestors[mainTail] /\ mainTail \in Block
    BY <1>1, <2>1 DEF Inv, ManagerInv, Finalizing, TypeOK
  <2>3. Ancestors[cm.LIB] \subseteq Ancestors[mainTail]
    BY <2>2, AncestorsTransitive
  <2> QED BY <1>1, <2>1, <2>3 DEF IndexInv, Indexed, Switching
<1>5. CASE CMSetLIB
  <2>1. /\ cm.pc = "setLIB" /\ cm'.pc = "prune" /\ UNCHANGED <<libKey, mainTail>>
    BY <1>1, <1>5 DEF CMSetLIB, durable, ManagerRecord
  <2> QED BY <1>1, <2>1 DEF IndexInv, Indexed, Switching
<1> QED BY <1>2, <1>3, <1>4, <1>5

\* Every step keeps the index invariant until a Put fails.
LEMMA NextIndex ==
  ASSUME Inv, [Next]_vars, ~faulted => IndexInv
  PROVE  ~faulted' => IndexInv'
<1>1. Inv'
  BY NextPreserves
<1>2. SUFFICES ASSUME ~faulted' PROVE IndexInv'
  OBVIOUS
<1>3. CASE CMStorageError
  BY <1>2, <1>3 DEF CMStorageError
<1>4. ASSUME [Next]_vars, ~CMStorageError PROVE faulted' = faulted
  BY ZenonT(60), <1>4 DEF Next, SetupNext, TaskStep, CMNext, vars, durable, memory, chainState,
     Setup, StoreGenesisBlock, StoreGenesisTail, StoreGenesisHeight, StoreGenesisLIB, Load,
     Reindex, Crash,
     TaskStart, MintStart, TaskReadLIB, TaskWalk, TaskReadIndex, TaskReject, TaskStore,
     TaskAddTail, TaskRemoveTail, TaskTrigger, CMReceive, CMForkChoice, CMIndex,
     CMStoreTail, CMSetTail, CMFindLIB, CMStoreLIB, CMSetLIB, CMPrune
<1>5. CASE ~CMStorageError
  <2>1. IndexInv
    BY <1>2, <1>4, <1>5
  <2>2. CASE SetupNext
    BY <1>1, <2>1, <2>2, SetupIndex, ReindexIndex DEF SetupNext
  <2>3. CASE \E w \in Worker, b \in Block : TaskStart(w, b) \/ MintStart(w, b)
    <3>1. UNCHANGED chainState
      BY <2>3 DEF TaskStart, MintStart
    <3> QED BY <2>1, <3>1, IndexFrame DEF chainState
  <2>4. CASE \E w \in Worker : TaskStep(w)
    <3>1. UNCHANGED chainState
      BY <2>4 DEF TaskStep, TaskReadLIB, TaskWalk, TaskReadIndex, TaskReject, TaskStore,
         TaskAddTail, TaskRemoveTail, TaskTrigger
    <3> QED BY <2>1, <3>1, IndexFrame DEF chainState
  <2>5. CASE CMReceive \/ CMFindLIB \/ CMPrune
    <3>1. UNCHANGED <<index, libKey, node, mainTail, lib>> /\ node = "up"
      BY <2>5 DEF CMReceive, CMFindLIB, CMPrune, durable, Inv, SetupInv
    <3>2. ~Switching /\ ~Switching'
      <4>1. cm \in ManagerRecord /\ cm.pc \in {"wait", "findLIB", "prune"}
        BY <2>5 DEF CMReceive, CMFindLIB, CMPrune, Inv, TypeOK
      <4>2. cm'.pc \in {"choose", "wait", "libKey"}
        <5>1. \A u, v : Waiting(u, v).pc = "wait"
          BY DEF Waiting
        <5>2. CASE CMReceive
          BY <4>1, <5>2 DEF CMReceive, ManagerRecord
        <5>3. CASE CMPrune
          BY <5>1, <5>3 DEF CMPrune
        <5>4. CASE CMFindLIB
          <6>1. \A n : [cm EXCEPT !.pc = "libKey", !.LIB = n].pc = "libKey"
            BY <4>1 DEF ManagerRecord
          <6> QED BY ZenonT(60), <5>1, <5>4, <6>1 DEF CMFindLIB
        <5> QED BY <2>5, <5>2, <5>3, <5>4
      <4> QED BY <4>1, <4>2 DEF Switching
    <3> QED BY <2>1, <3>1, <3>2, IndexFrame
  <2>6. CASE CMForkChoice
    BY <1>1, <2>1, <2>6, ForkChoiceIndex
  <2>7. CASE CMIndex
    BY <1>1, <2>1, <2>7, IndexIndex
  <2>8. CASE CMStoreTail \/ CMSetTail \/ CMStoreLIB \/ CMSetLIB
    BY <1>1, <2>1, <2>8, WritesIndex
  <2>9. CASE Crash
    BY <2>1, <2>9 DEF Crash, durable, IndexInv, Indexed
  <2>10. CASE UNCHANGED vars
    BY <2>1, <2>10, IndexFrame DEF vars
  <2> QED
    BY <1>5, <2>2, <2>3, <2>4, <2>5, <2>6, <2>7, <2>8, <2>9, <2>10 DEF Next, CMNext
<1> QED BY <1>3, <1>5

\* The index invariant holds until a Put fails.
LEMMA IndexInductive == Spec => [](Inv /\ (~faulted => IndexInv))
<1>1. Init => Inv /\ (~faulted => IndexInv)
  BY InitInv DEF Init, IndexInv
<1>2. (Inv /\ (~faulted => IndexInv)) /\ [Next]_vars => (Inv /\ (~faulted => IndexInv))'
  BY NextPreserves, NextIndex
<1> QED BY <1>1, <1>2, PTL DEF Spec

\* BlockByHeight answers with the main chain whenever SetTailBlock is not running, also
\* after any crash and restart, unless a Put has failed.
THEOREM IndexIsCanonical == Spec => []CanonicalIndex
<1>1. Inv /\ (~faulted => IndexInv) => CanonicalIndex
  BY DEF IndexInv, CanonicalIndex, Indexed, Switching
<1> QED BY <1>1, IndexInductive, PTL

\* BlockByHeight never answers with another block at or below the stored LIB, not even
\* inside SetTailBlock or before re-indexing, unless a Put has failed.
THEOREM IndexIsStableToLIB == Spec => []IrreversibleIndex
<1>1. Inv /\ (~faulted => IndexInv) => IrreversibleIndex
  BY DEF IndexInv, IrreversibleIndex, Indexed
<1> QED BY <1>1, IndexInductive, PTL

\* SetTailBlock reverts exactly the blocks that leave the main chain, unless a Put has
\* failed.
THEOREM SwitchRevertsExactly == Spec => []RevertsExactly
<1>1. Inv /\ (~faulted => IndexInv) => RevertsExactly
  <2>1. Inv /\ Switching => node = "up"
    BY DEF Inv, SetupInv, Switching
  <2> QED BY <2>1 DEF IndexInv, SwitchIndex, RevertsExactly, Switching
<1> QED BY <1>1, IndexInductive, PTL

\* Setup fails only in a node that died between the height key and the LIB key of its
\* genesis block: every other crash can be recovered, also after Puts have failed.
THEOREM SetupCanRecover == Spec => []SetupRecovers
<1>1. Init => RecoverInv
  BY TreeAssumption DEF Init, RecoverInv, SetupRecovers, Heights
<1>2. ASSUME Inv, RecoverInv, [Next]_vars PROVE RecoverInv'
  <2>0. GenesisHeight \in Heights /\ NoBlock \notin Block /\ Genesis \in Block
    BY TreeAssumption DEF Heights
  <2>1. CASE SetupNext
    <3>1. CASE Setup \/ StoreGenesisBlock \/ StoreGenesisTail
      BY <1>2, <2>0, <3>1 DEF Setup, StoreGenesisBlock, StoreGenesisTail, durable, memory,
         RecoverInv, SetupRecovers
    <3>2. CASE StoreGenesisHeight \/ StoreGenesisLIB
      BY <1>2, <2>0, <3>2 DEF StoreGenesisHeight, StoreGenesisLIB, RecoverInv, SetupRecovers,
         Inv, SetupInv, TypeOK
    <3>3. CASE Load
      BY <1>2, <2>0, <3>3 DEF Load, durable, RecoverInv, SetupRecovers, Inv, StorageInv
    <3>4. CASE Reindex
      <4>1. tailKey' = tailKey /\ tailKey # NoBlock /\ node' \in {"reindex", "up"}
        BY <1>2, <3>4 DEF Reindex, Inv, MemoryInv, StorageInv
      <4> QED BY <4>1 DEF RecoverInv, SetupRecovers
    <3> QED BY <2>1, <3>1, <3>2, <3>3, <3>4 DEF SetupNext
  <2>2. CASE /\ \/ \E w \in Worker, b \in Block : TaskStart(w, b) \/ MintStart(w, b)
                \/ \E w \in Worker : TaskStep(w)
    <3>1. UNCHANGED chainState
      BY ZenonT(60), <2>2 DEF TaskStart, MintStart, TaskStep, TaskReadLIB, TaskWalk, TaskReadIndex,
         TaskReject, TaskStore, TaskAddTail, TaskRemoveTail, TaskTrigger
    <3> QED BY <1>2, <3>1 DEF chainState, RecoverInv, SetupRecovers
  <2>3. CASE CMNext \/ CMStorageError
    <3>1. node = "up" /\ node' = "up"
      BY <1>2, <2>3 DEF Inv, SetupInv, CMNext, CMReceive, CMForkChoice, CMIndex, CMStoreTail,
         CMSetTail, CMFindLIB, CMStoreLIB, CMSetLIB, CMPrune, CMStorageError, durable
    <3>2. libKey' # NoBlock /\ tailKey' # NoBlock
      <4>1. Inv'
        BY <1>2, NextPreserves
      <4> QED BY <3>1, <4>1 DEF Inv, MemoryInv, StorageInv
    <3> QED BY <3>1, <3>2 DEF RecoverInv, SetupRecovers
  <2>4. CASE Crash
    BY <1>2, <2>4 DEF Crash, durable, RecoverInv, SetupRecovers
  <2>5. CASE UNCHANGED vars
    BY <1>2, <2>5 DEF vars, RecoverInv, SetupRecovers
  <2> QED BY <1>2, <2>1, <2>2, <2>3, <2>4, <2>5 DEF Next
<1>3. RecoverInv => SetupRecovers
  BY DEF RecoverInv
<1> QED BY <1>1, <1>2, <1>3, Invariance, PTL DEF Spec


-----------------------------------------------------------------------------
(* The tails.  While no key is evicted and nothing is lost, every branch   *)
(* end that can still be chosen is a tail, or a worker is about to add it. *)

\* A nonempty finite set of blocks has a highest one.
LEMMA HighestExists ==
  ASSUME NEW S \in SUBSET Block, IsFiniteSet(S), S # {}
  PROVE  Highest(S) # NoBlock
<1>1. \A y \in S : Height[y] \in Nat
  BY TreeAssumption
<1>2. \E x \in S : \A y \in S : Height[y] <= Height[x]
  BY <1>1, Largest
<1>3. Highest(S) \in S
  BY <1>2 DEF Highest
<1> QED BY <1>3, TreeAssumption

\* The blocks a node can ever store.
Storable == {Genesis} \union {b \in Block : Verified(b)}

\* b cannot be lost to ForkChoice.
Kept(b) ==
  \/ b \in tailBlocks
  \/ \E c \in stored \ {Genesis} : ParentHash[c] = b
  \/ lib \notin Ancestors[b]
  \/ \E w \in Worker : task[w].pc = "addTail" /\ task[w].block = b

TailsInv ==
  /\ ~faulted
  /\ stored \subseteq Storable
  /\ node # "up" => stored \subseteq {Genesis}
  /\ node \in {"reindex", "up"} => \A b \in stored : Kept(b)

\* Setup, genesis initialisation, loading and re-indexing, in a node that never crashed.
LEMMA SetupTails ==
  ASSUME Inv, Inv', TailsInv, SetupNext
  PROVE  TailsInv'
<1>1. ~faulted' /\ stored' \subseteq stored \union {Genesis} /\ node # "up"
  BY DEF TailsInv, SetupNext, Setup, StoreGenesisBlock, StoreGenesisTail, StoreGenesisHeight,
     StoreGenesisLIB, Load, Reindex, durable
<1>2. stored' \subseteq Storable /\ stored' \subseteq {Genesis}
  BY <1>1 DEF TailsInv, Storable
<1>3. CASE Load /\ node' = "reindex"
  <2>1. tailBlocks' = {tailKey} /\ tailKey # NoBlock /\ stored' = stored
    BY <1>3 DEF Load, durable
  <2>2. tailKey \in stored
    BY <2>1 DEF Inv, StorageInv
  <2> QED BY <1>1, <1>2, <2>1, <2>2 DEF TailsInv, Kept
<1>4. CASE Reindex
  <2>1. node = "reindex" /\ UNCHANGED <<stored, lib, tailBlocks, task>>
    BY <1>4 DEF Reindex
  <2> QED BY <1>1, <1>2, <2>1 DEF TailsInv, Kept
<1>5. CASE ~Reindex /\ ~(Load /\ node' = "reindex")
  <2>1. node' \notin {"reindex", "up"}
    BY <1>5 DEF SetupNext, Setup, StoreGenesisBlock, StoreGenesisTail, StoreGenesisHeight,
       StoreGenesisLIB, Load
  <2> QED BY <1>1, <1>2, <2>1 DEF TailsInv
<1> QED BY <1>3, <1>4, <1>5

\* Workers: no tail is evicted as long as all that can be stored fits.
LEMMA WorkerTails ==
  ASSUME Inv, TailsInv, IsFiniteSet(Storable), Cardinality(Storable) <= TailCacheSize,
         NEW w \in Worker,
         TaskStep(w) \/ \E b \in Block : TaskStart(w, b) \/ MintStart(w, b)
  PROVE  TailsInv'
<1>1. UNCHANGED chainState
  BY DEF TaskStart, MintStart, TaskStep, TaskReadLIB, TaskWalk, TaskReadIndex, TaskReject,
     TaskStore, TaskAddTail, TaskRemoveTail, TaskTrigger
<1>2. node = "up" /\ task \in [Worker -> TaskRecord] /\ stored \subseteq Storable /\ ~faulted
      /\ tailBlocks \subseteq stored /\ \A b \in stored : Kept(b)
  BY DEF TaskStart, MintStart, TaskStep, TaskReadLIB, TaskWalk, TaskReadIndex, TaskReject,
     TaskStore, TaskAddTail, TaskRemoveTail, TaskTrigger, Readable, Inv, SetupInv, TypeOK,
     TailsInv, ManagerInv
<1>3. SUFFICES stored' \subseteq Storable /\ \A b \in stored' : Kept(b)'
  BY <1>1, <1>2 DEF TailsInv, chainState
<1>4. \A v \in Worker \ {w} : task'[v] = task[v]
  BY <1>2 DEF TaskStart, MintStart, TaskStep, TaskReadLIB, TaskWalk, TaskReadIndex, TaskReject,
     TaskStore, TaskAddTail, TaskRemoveTail, TaskTrigger
<1>5. lib' = lib
  BY <1>1 DEF chainState
<1>6. CASE TaskStore(w)
  <2>1. /\ task[w].pc = "execute" /\ Verified(task[w].block)
        /\ stored' = stored \union {task[w].block} /\ tailBlocks' = tailBlocks
    BY <1>6 DEF TaskStore
  <2>2. task'[w].pc = "addTail" /\ task'[w].block = task[w].block
    BY <1>2, <1>6 DEF TaskStore, TaskRecord
  <2>3. task[w].block \in Block
    BY <2>1 DEF Inv, TaskInv
  <2>4. stored' \subseteq Storable
    BY <1>2, <2>1, <2>3 DEF Storable
  <2>5. \A b \in stored : Kept(b)'
    BY <1>2, <1>4, <1>5, <2>1 DEF Kept
  <2> QED BY <2>1, <2>2, <2>4, <2>5 DEF Kept
<1>7. CASE TaskAddTail(w)
  <2>1. /\ task[w].pc = "addTail" /\ tailBlocks' \in TailBlocksAfterAdd(task[w].block)
        /\ stored' = stored
    BY <1>7 DEF TaskAddTail
  <2>2. task[w].block \in stored
    BY <2>1 DEF Inv, TaskInv
  <2>3. tailBlocks \union {task[w].block} \in SUBSET Storable
    BY <1>2, <2>2
  <2>4. Cardinality(tailBlocks \union {task[w].block}) <= TailCacheSize
    <3>1. Cardinality(tailBlocks \union {task[w].block}) <= Cardinality(Storable)
          /\ Cardinality(tailBlocks \union {task[w].block}) \in Nat
          /\ Cardinality(Storable) \in Nat
      BY <2>3, SizeType
    <3> QED BY <3>1, ChainAssumption
  <2>5. tailBlocks' = tailBlocks \union {task[w].block}
    BY <2>1, <2>4 DEF TailBlocksAfterAdd
  <2> QED BY <1>2, <1>4, <1>5, <2>1, <2>5 DEF Kept
<1>8. CASE TaskRemoveTail(w)
  <2>1. /\ task[w].pc = "removeTail" /\ tailBlocks' = tailBlocks \ {ParentHash[task[w].block]}
        /\ stored' = stored
    BY <1>8 DEF TaskRemoveTail
  <2>2. task[w].block \in stored \ {Genesis}
    BY <2>1 DEF Inv, TaskInv
  <2> QED BY <1>2, <1>4, <1>5, <2>1, <2>2 DEF Kept
<1>9. CASE ~TaskStore(w) /\ ~TaskAddTail(w) /\ ~TaskRemoveTail(w)
  <2>1. UNCHANGED <<stored, tailBlocks>> /\ task[w].pc # "addTail"
    BY <1>9 DEF TaskStart, MintStart, TaskStep, TaskReadLIB, TaskWalk, TaskReadIndex,
       TaskReject, TaskTrigger
  <2> QED BY <1>2, <1>4, <1>5, <2>1 DEF Kept
<1> QED BY <1>6, <1>7, <1>8, <1>9

\* A tail that descends from the LIB is not taken for one forked before it.
LEMMA TailNotForked ==
  ASSUME Inv, IndexInv, TailsInv, IsFiniteSet(Storable), node = "up", ~Switching,
         NEW b \in stored, lib \in Ancestors[b]
  PROVE  ~IsForkedBeforeLIB(b)
<1> DEFINE S == {x \in Ancestors[b] : OnCanonical(x) /\ Height[lib] <= Height[x]}
<1>1. /\ Grounded(stored) /\ mainTail \in stored /\ lib \in Ancestors[mainTail]
      /\ stored \subseteq Storable /\ Indexed(Ancestors[mainTail])
  BY DEF Inv, StorageInv, MemoryInv, TailsInv, IndexInv
<1>2. Height[lib] \in Nat /\ Height[lib] <= Height[mainTail] /\ index[Height[lib]] = lib
  BY <1>1, AncestorsLower DEF Indexed
<1>3. lib \in S
  BY <1>2 DEF OnCanonical
<1>4. S \in SUBSET Storable /\ S \in SUBSET Block
  BY <1>1, GroundedAncestors DEF Grounded
<1>5. IsFiniteSet(S)
  BY <1>4, PartIsFinite
<1>6. Highest(S) # NoBlock
  <2> HIDE DEF S
  <2> QED BY <1>3, <1>4, <1>5, HighestExists
<1> QED BY <1>6 DEF IsForkedBeforeLIB, FindAncestorOnCanonical

\* The chain manager: the LIB only moves up, and pruning spares what descends from it.
LEMMA ManagerTails ==
  ASSUME Inv, IndexInv, TailsInv, IsFiniteSet(Storable), CMNext
  PROVE  TailsInv'
<1>1. /\ node = "up" /\ node' = "up" /\ UNCHANGED <<stored, task, faulted>>
  BY DEF Inv, SetupInv, CMNext, CMReceive, CMForkChoice, CMIndex, CMStoreTail,
     CMSetTail, CMFindLIB, CMStoreLIB, CMSetLIB, CMPrune, durable
<1>2. SUFFICES \A b \in stored : Kept(b)'
  BY <1>1 DEF TailsInv
<1>3. \A b \in stored : Kept(b)
  BY <1>1 DEF TailsInv
<1>4. CASE CMSetLIB
  <2>1. /\ tailBlocks' = tailBlocks /\ lib' = cm.LIB /\ lib \in Ancestors[cm.LIB]
    BY <1>4 DEF CMSetLIB, Inv, ManagerInv, Finalizing
  <2>2. \A b \in stored : lib \notin Ancestors[b] => lib' \notin Ancestors[b]
    BY <2>1, AncestorsTransitive DEF Inv, TypeOK
  <2> QED BY <1>1, <1>3, <2>1, <2>2 DEF Kept
<1>5. CASE CMPrune
  <2>1. /\ cm.pc = "prune" /\ lib' = lib
        /\ tailBlocks' = {t \in tailBlocks : ~IsForkedBeforeLIB(t)
                                             \/ Height[t] > Height[mainTail]}
    BY <1>5 DEF CMPrune
  <2>2. \A b \in stored : lib \in Ancestors[b] => ~IsForkedBeforeLIB(b)
    BY <1>1, <2>1, TailNotForked DEF Switching
  <2> QED BY <1>1, <1>3, <2>1, <2>2 DEF Kept
<1>6. CASE ~CMSetLIB /\ ~CMPrune
  <2>1. UNCHANGED <<lib, tailBlocks>>
    BY <1>6 DEF CMNext, CMReceive, CMForkChoice, CMIndex, CMStoreTail,
       CMSetTail, CMFindLIB, CMStoreLIB, durable
  <2> QED BY <1>1, <1>3, <2>1 DEF Kept
<1> QED BY <1>4, <1>5, <1>6

\* tailBlocks holds every branch end that descends from the LIB when nobody is at work, in
\* a run without crashes and failing Puts and with room for the tails: no interleaving of
\* the workers' additions and removals with pruning loses one.
THEOREM TailsComplete ==
  ASSUME ~MayCrash, ~StorageMayFail, IsFiniteSet(Storable),
         Cardinality(Storable) <= TailCacheSize
  PROVE  Spec => []TailBlocksComplete
<1>1. Init => TailsInv
  BY DEF Init, TailsInv
<1>2. ASSUME Inv, ~faulted => IndexInv, TailsInv, [Next]_vars PROVE TailsInv'
  <2>1. CASE SetupNext
    BY <1>2, <2>1, NextPreserves, SetupTails
  <2>2. CASE \/ \E w \in Worker, b \in Block : TaskStart(w, b) \/ MintStart(w, b)
             \/ \E w \in Worker : TaskStep(w)
    BY <1>2, <2>2, WorkerTails
  <2>3. CASE CMNext
    BY <1>2, <2>3, ManagerTails DEF TailsInv
  <2>4. CASE CMStorageError \/ Crash
    BY <2>4 DEF CMStorageError, Crash
  <2>5. CASE UNCHANGED vars
    BY <1>2, <2>5 DEF vars, TailsInv, Kept
  <2> QED BY <1>2, <2>1, <2>2, <2>3, <2>4, <2>5 DEF Next
<1>3. TailsInv => TailBlocksComplete
  BY DEF TailsInv, Kept, TailBlocksComplete, IdleTask
<1> QED BY <1>1, <1>2, <1>3, IndexInductive, PTL DEF Spec
=============================================================================
