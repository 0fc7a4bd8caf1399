-------------------------- MODULE BlockManagerProofs --------------------------
(***************************************************************************)
(* The distributor never waits for a result that nobody will send, for any *)
(* set of blocks, any number of pushers and workers and any channel sizes. *)
(* A block may have several workers at once, so the workers are a bag;     *)
(* what is needed of it is which workers a step adds and keeps.            *)
(***************************************************************************)
EXTENDS BlockManager, TLAPS

Result == [block : Block, isValid : BOOLEAN]
Workers == [block : Block, pc : {"check", "execute", "valid", "invalid"}]

\* What is running and what the channels carry.
WorkersInv == IsABag(task) /\ BagToSet(task) \subseteq Workers

ChannelsInv ==
  /\ finishWorkCh \in Seq(Result)
  /\ newBlockCh \in Seq(Block)
  /\ pool \subseteq Block
  /\ wm \in [blocks : SUBSET Block, finish : BOOLEAN]

PushState == [pc : {"idle", "quit"}, block : {NoBlock}]
             \union [pc : {"pool", "ancestor", "request"}, block : Block]
             \union [pc : {"send"}, block : Block, send : Block]

PushersInv == pusher \in [Pusher -> PushState]

Inv == WorkersInv /\ ChannelsInv /\ PushersInv /\ WorkIsTracked

-----------------------------------------------------------------------------
(* The bag of workers.                                                     *)

\* The workers a step starts are added to those that run.
LEMMA StartedWorkers ==
  ASSUME NEW T \in SUBSET Block, WorkersInv, task' = Started(T)
  PROVE  /\ WorkersInv'
         /\ \A t \in BagToSet(task) : t \in BagToSet(task')
         /\ \A b \in T : \E t \in BagToSet(task') : t.block = b
<1> DEFINE R == {Running(b, "check") : b \in T}
<1>1. /\ DOMAIN task' = DOMAIN task \union R
      /\ \A e \in DOMAIN task' : task'[e] = (IF e \in DOMAIN task THEN task[e] ELSE 0)
                                            + (IF e \in R THEN 1 ELSE 0)
      /\ task' = [e \in DOMAIN task' |-> task'[e]]
  BY DEF Started, SetToBag, (+)
<1>2. R \subseteq Workers /\ \A b \in T : Running(b, "check") \in R
                                          /\ Running(b, "check").block = b
  BY DEF Workers, Running
<1>3. \A e \in DOMAIN task : task[e] \in Nat /\ task[e] > 0
  BY DEF WorkersInv, IsABag
<1> HIDE DEF R
<1>4. \A e \in DOMAIN task' : task'[e] \in {n \in Nat : n > 0}
  BY <1>1, <1>3
<1> QED BY <1>1, <1>2, <1>4 DEF WorkersInv, IsABag, BagToSet

\* A worker that goes on: another copy of it and the other workers stay.
LEMMA MovedWorker ==
  ASSUME NEW t \in BagToSet(task), NEW pc \in {"check", "execute", "valid", "invalid"},
         WorkersInv, task' = Move(t, pc)
  PROVE  /\ WorkersInv'
         /\ \A u \in BagToSet(task) \ {t} : u \in BagToSet(task')
         /\ \E u \in BagToSet(task') : u.block = t.block
<1> DEFINE r == Running(t.block, pc)
           B == [e \in DOMAIN task |-> IF e \in {t} THEN task[e] - 1 ELSE task[e]]
           rest == task (-) SetToBag({t})
<1>1. rest = [e \in {d \in DOMAIN B : B[d] > 0} |-> B[e]]
  BY DEF SetToBag, (-)
<1>2. \A e \in DOMAIN task : task[e] \in Nat /\ task[e] > 0
  BY DEF WorkersInv, IsABag
<1>b. /\ DOMAIN B = DOMAIN task
      /\ \A e \in DOMAIN task : B[e] \in Int /\ (e # t => B[e] > 0)
  BY <1>2
<1> HIDE DEF rest, B
<1>r. /\ DOMAIN rest = {d \in DOMAIN B : B[d] > 0}
      /\ \A e \in DOMAIN rest : rest[e] = B[e]
  BY <1>1
<1>3. /\ DOMAIN rest \subseteq DOMAIN task
      /\ \A e \in DOMAIN task \ {t} : e \in DOMAIN rest
      /\ \A e \in DOMAIN rest : rest[e] \in Nat /\ rest[e] > 0
  BY <1>b, <1>r
<1>4. /\ DOMAIN task' = DOMAIN rest \union {r}
      /\ \A e \in DOMAIN task' : task'[e] = (IF e \in DOMAIN rest THEN rest[e] ELSE 0)
                                            + (IF e \in {r} THEN 1 ELSE 0)
      /\ task' = [e \in DOMAIN task' |-> task'[e]]
  BY DEF Move, SetToBag, (+), rest
<1>5. r \in Workers /\ r.block = t.block
  BY DEF WorkersInv, Workers, Running
<1> HIDE DEF r
<1>6. \A e \in DOMAIN task' : task'[e] \in {n \in Nat : n > 0}
  BY <1>3, <1>4
<1>7. DOMAIN task' \subseteq Workers
  BY <1>3, <1>4, <1>5 DEF WorkersInv, BagToSet
<1> QED BY <1>3, <1>4, <1>5, <1>6, <1>7 DEF WorkersInv, IsABag, BagToSet

\* A worker that ends: the other workers stay.
LEMMA EndedWorker ==
  ASSUME NEW t \in BagToSet(task), WorkersInv, task' = task (-) SetToBag({t})
  PROVE  /\ WorkersInv'
         /\ \A u \in BagToSet(task) \ {t} : u \in BagToSet(task')
<1> DEFINE B == [e \in DOMAIN task |-> IF e \in {t} THEN task[e] - 1 ELSE task[e]]
<1>1. task' = [e \in {d \in DOMAIN B : B[d] > 0} |-> B[e]]
  BY DEF SetToBag, (-)
<1>2. \A e \in DOMAIN task : task[e] \in Nat /\ task[e] > 0
  BY DEF WorkersInv, IsABag
<1>b. /\ DOMAIN B = DOMAIN task
      /\ \A e \in DOMAIN task : B[e] \in Int /\ (e # t => B[e] > 0)
  BY <1>2
<1> HIDE DEF B
<1>r. /\ DOMAIN task' = {d \in DOMAIN B : B[d] > 0}
      /\ \A e \in DOMAIN task' : task'[e] = B[e]
      /\ task' = [e \in DOMAIN task' |-> task'[e]]
  BY <1>1
<1>3. /\ DOMAIN task' \subseteq DOMAIN task
      /\ \A e \in DOMAIN task \ {t} : e \in DOMAIN task'
      /\ \A e \in DOMAIN task' : task'[e] \in {n \in Nat : n > 0}
  BY SMTT(60), <1>b, <1>r
<1> QED BY SMTT(60), <1>3, <1>r DEF WorkersInv, IsABag, BagToSet

-----------------------------------------------------------------------------
(* The steps.                                                              *)

\* Nothing is in work when the manager starts.
LEMMA InitInv ==
  ASSUME Init
  PROVE  Inv
<1>1. WorkersInv
  BY DEF Init, WorkersInv, IsABag, BagToSet, EmptyBag, SetToBag
<1>2. ChannelsInv
  BY DEF Init, ChannelsInv
<1>3. PushersInv
  BY DEF Init, PushersInv, PushState, IdlePusher
<1> QED BY <1>1, <1>2, <1>3 DEF Init, Inv, WorkIsTracked

\* The unlinked ancestor of a block is a block, or there is none.
LEMMA AncestorType ==
  ASSUME NEW b \in Block, FindUnlinkedAncestor(b) # NoBlock
  PROVE  FindUnlinkedAncestor(b) \in Block
<1>1. Ancestors[ParentHash[b]] \subseteq Block
  BY TreeAssumption DEF Ancestors
<1> QED BY <1>1 DEF FindUnlinkedAncestor, UnlinkedAncestorIn

\* push moves a block from the pusher to the pool and to the channel.
LEMMA PushInv ==
  ASSUME Inv, NEW p \in Pusher,
         PushStep(p) \/ \E b \in Block \ {Genesis} : PushStart(p, b)
  PROVE  Inv'
<1>0. /\ pusher \in [Pusher -> PushState]
      /\ pusher[p] \in PushState
      /\ newBlockCh \in Seq(Block)
      /\ pool \subseteq Block
  BY DEF Inv, ChannelsInv, PushersInv
<1>1. UNCHANGED <<task, finishWorkCh, wm>>
  BY DEF PushStep, PushPool, PushFindAncestor, PushSend, requestMissingBlock, PushStart
<1>2. PushersInv' /\ newBlockCh' \in Seq(Block) /\ pool' \subseteq Block
  <2>1. CASE \E b \in Block \ {Genesis} : PushStart(p, b)
    BY <2>1, <1>0 DEF PushStart, PushersInv, PushState
  <2>2. CASE PushPool(p)
    <3>1. pusher[p] \in [pc : {"pool", "ancestor", "request"}, block : Block]
      BY <1>0, <2>2 DEF PushPool, PushState
    <3>2. pool' \subseteq Block
      BY <1>0, <2>2, <3>1 DEF PushPool, PoolAfterPush
    <3>3. pusher' = [pusher EXCEPT ![p] = IdlePusher]
          \/ pusher' = [pusher EXCEPT ![p].pc = "ancestor"]
      BY <2>2 DEF PushPool
    <3>4. [pusher[p] EXCEPT !.pc = "ancestor"] \in PushState
      BY <3>1 DEF PushState
    <3>5. IdlePusher \in PushState
      BY DEF PushState, IdlePusher
    <3> QED BY <1>0, <2>2, <3>2, <3>3, <3>4, <3>5 DEF PushersInv, PushPool
  <2>3. CASE PushFindAncestor(p)
    <3>1. pusher[p].block \in Block
      BY <1>0, <2>3 DEF PushFindAncestor, PushState
    <3>2. PICK s \in Block :
            pusher' = [pusher EXCEPT ![p] = [pc |-> "send", block |-> pusher[p].block,
                                             send |-> s]]
      BY ZenonT(60), <2>3, <3>1, AncestorType DEF PushFindAncestor
    <3> QED BY <1>0, <2>3, <3>1, <3>2 DEF PushersInv, PushState, PushFindAncestor
  <2>4. CASE PushSend(p)
    <3>1. pusher[p].send \in Block /\ pusher[p].block \in Block
      BY <1>0, <2>4 DEF PushSend, PushState
    <3> QED BY <1>0, <2>4, <3>1 DEF PushersInv, PushState, PushSend, IdlePusher
  <2>5. CASE p = Loop /\ requestMissingBlock
    BY <1>0, <2>5 DEF PushersInv, PushState, requestMissingBlock, IdlePusher
  <2> QED BY <2>1, <2>2, <2>3, <2>4, <2>5 DEF PushStep
<1> QED BY <1>1, <1>2 DEF Inv, WorkersInv, ChannelsInv, WorkIsTracked

\* A worker goes on, or it ends and its result is in the channel.
LEMMA TaskInv ==
  ASSUME Inv, NEW t \in BagToSet(task),
         TaskCheck(t) \/ TaskExecute(t) \/ alarmExecutionResult(t)
  PROVE  Inv'
<1>0. /\ finishWorkCh \in Seq(Result)
      /\ WorkersInv
      /\ t \in Workers
  BY DEF Inv, ChannelsInv, WorkersInv
<1>1. PushersInv' /\ UNCHANGED <<wm, pool, newBlockCh>>
  BY DEF Inv, PushersInv, TaskCheck, TaskExecute, alarmExecutionResult
<1>2. CASE TaskCheck(t) \/ TaskExecute(t)
  <2>1. finishWorkCh' = finishWorkCh
    BY <1>2 DEF TaskCheck, TaskExecute
  <2>2. PICK pc \in {"check", "execute", "valid", "invalid"} : task' = Move(t, pc)
    BY <1>2 DEF TaskCheck, TaskExecute
  <2>3. /\ WorkersInv'
        /\ \A u \in BagToSet(task) \ {t} : u \in BagToSet(task')
        /\ \E u \in BagToSet(task') : u.block = t.block
    BY <1>0, <2>2, MovedWorker
  <2>4. WorkIsTracked'
    BY <1>1, <2>1, <2>3 DEF Inv, WorkIsTracked
  <2> QED BY <1>1, <2>1, <2>3, <2>4 DEF Inv, ChannelsInv
<1>3. CASE alarmExecutionResult(t)
  <2> DEFINE r == [block |-> t.block, isValid |-> t.pc = "valid"]
  <2>1. r \in Result /\ r.block = t.block
    BY <1>0 DEF Workers, Result
  <2>2. finishWorkCh' = Append(finishWorkCh, r) /\ task' = task (-) SetToBag({t})
    BY <1>3 DEF alarmExecutionResult
  <2>3. /\ WorkersInv'
        /\ \A u \in BagToSet(task) \ {t} : u \in BagToSet(task')
    BY ZenonT(60), <1>0, <2>2, EndedWorker
  <2> HIDE DEF r
  <2>4. /\ finishWorkCh' \in Seq(Result)
        /\ \A i \in DOMAIN finishWorkCh :
             i \in DOMAIN finishWorkCh' /\ finishWorkCh'[i] = finishWorkCh[i]
        /\ \E i \in DOMAIN finishWorkCh' : finishWorkCh'[i] = r
    <3>1. /\ Len(finishWorkCh) \in Nat
          /\ Len(finishWorkCh') = Len(finishWorkCh) + 1
          /\ finishWorkCh'[Len(finishWorkCh) + 1] = r
          /\ finishWorkCh' \in Seq(Result)
      BY <1>0, <2>1, <2>2
    <3> QED BY <1>0, <2>1, <2>2, <3>1
  <2>5. WorkIsTracked'
    BY <1>1, <2>1, <2>3, <2>4 DEF Inv, WorkIsTracked
  <2> QED BY <1>1, <2>3, <2>4, <2>5 DEF Inv, ChannelsInv
<1> QED BY <1>2, <1>3

\* The distributor forgets a block when it takes the block's result and adds it
\* when it starts a worker for it.
LEMMA DistInv ==
  ASSUME Inv, DistStep \/ DistClose
  PROVE  Inv'
<1>0. /\ WorkersInv
      /\ finishWorkCh \in Seq(Result)
      /\ newBlockCh \in Seq(Block)
      /\ pool \subseteq Block
      /\ wm \in [blocks : SUBSET Block, finish : BOOLEAN]
      /\ WorkIsTracked
  BY DEF Inv, ChannelsInv
<1>1. PushersInv'
  BY DEF Inv, PushersInv, DistStep, DistFinish, DistChildren, DistNew, DistClose
<1>2. CASE DistFinish
  <2> DEFINE r == Head(finishWorkCh)
  <2>1. /\ wm' = [wm EXCEPT !.blocks = @ \ {r.block}]
        /\ pool' = pool \ {r.block}
        /\ finishWorkCh # <<>>
        /\ finishWorkCh' = Tail(finishWorkCh)
        /\ UNCHANGED <<task, newBlockCh>>
    BY <1>2 DEF DistFinish
  <2>2. /\ finishWorkCh' \in Seq(Result)
        /\ Len(finishWorkCh) \in Nat
        /\ Len(finishWorkCh') = Len(finishWorkCh) - 1
        /\ \A i \in 1 .. Len(finishWorkCh) : i # 1 =>
             i - 1 \in 1 .. Len(finishWorkCh') /\ finishWorkCh'[i - 1] = finishWorkCh[i]
        /\ finishWorkCh[1] = r
    BY <1>0, <2>1
  <2> HIDE DEF r
  <2>3. /\ wm' \in [blocks : SUBSET Block, finish : BOOLEAN]
        /\ wm'.blocks = wm.blocks \ {r.block}
    BY <1>0, <2>1
  <2>4. \A i \in DOMAIN finishWorkCh : finishWorkCh[i].block # r.block =>
          \E j \in DOMAIN finishWorkCh' : finishWorkCh'[j] = finishWorkCh[i]
    BY SMTT(60), <1>0, <2>2
  <2>5. WorkIsTracked'
    BY SMTT(60), <1>0, <2>1, <2>3, <2>4 DEF WorkIsTracked
  <2> QED BY <1>0, <1>1, <2>1, <2>2, <2>3, <2>5 DEF Inv, ChannelsInv, WorkersInv
<1>3. CASE DistChildren
  <2> DEFINE C == FindChildren(dist.block)
  <2>1. /\ wm' = [wm EXCEPT !.blocks = @ \union C]
        /\ task' = Started(C)
        /\ UNCHANGED <<pool, newBlockCh, finishWorkCh>>
    BY <1>3 DEF DistChildren
  <2>2. C \subseteq Block
    BY <1>0 DEF FindChildren, ChildrenIn
  <2> HIDE DEF C
  <2>3. /\ WorkersInv'
        /\ \A t \in BagToSet(task) : t \in BagToSet(task')
        /\ \A b \in C : \E t \in BagToSet(task') : t.block = b
    BY <1>0, <2>1, <2>2, StartedWorkers
  <2>4. /\ wm' \in [blocks : SUBSET Block, finish : BOOLEAN]
        /\ wm'.blocks = wm.blocks \union C
    BY <1>0, <2>1, <2>2
  <2>5. WorkIsTracked'
    BY <1>0, <2>1, <2>3, <2>4 DEF WorkIsTracked
  <2> QED BY <1>0, <1>1, <2>1, <2>3, <2>4, <2>5 DEF Inv, ChannelsInv
<1>4. CASE DistNew
  <2> DEFINE b == Head(newBlockCh)
  <2>1. /\ b \in Block
        /\ newBlockCh' \in Seq(Block)
        /\ UNCHANGED <<pool, finishWorkCh>>
    BY <1>0, <1>4 DEF DistNew
  <2>2. CASE UNCHANGED <<wm, task>>
    BY <1>0, <1>1, <2>1, <2>2 DEF Inv, ChannelsInv, WorkersInv, WorkIsTracked
  <2>3. CASE wm' = [wm EXCEPT !.blocks = @ \union {b}] /\ task' = Started({b})
    <3> HIDE DEF b
    <3>1. /\ WorkersInv'
          /\ \A t \in BagToSet(task) : t \in BagToSet(task')
          /\ \A c \in {b} : \E t \in BagToSet(task') : t.block = c
      <4>1. {b} \in SUBSET Block
        BY <2>1
      <4> QED BY ZenonT(60), <1>0, <2>3, <4>1, StartedWorkers
    <3>2. /\ wm' \in [blocks : SUBSET Block, finish : BOOLEAN]
          /\ wm'.blocks = wm.blocks \union {b}
      BY SMTT(60), <1>0, <2>1, <2>3
    <3>3. WorkIsTracked'
      BY <1>0, <2>1, <3>1, <3>2 DEF WorkIsTracked
    <3> QED BY <1>0, <1>1, <2>1, <3>1, <3>2, <3>3 DEF Inv, ChannelsInv
  <2> QED BY <1>4, <2>2, <2>3 DEF DistNew
<1>5. CASE DistClose
  <2>1. /\ wm' = [wm EXCEPT !.finish = TRUE]
        /\ UNCHANGED <<pool, newBlockCh, finishWorkCh, task>>
    BY <1>5 DEF DistClose
  <2>2. wm' \in [blocks : SUBSET Block, finish : BOOLEAN] /\ wm'.blocks = wm.blocks
    BY ZenonT(60), <1>0, <2>1
  <2> QED BY SMTT(60), <1>0, <1>1, <2>1, <2>2 DEF Inv, ChannelsInv, WorkersInv, WorkIsTracked
<1> QED BY <1>2, <1>3, <1>4, <1>5 DEF DistStep

\* No step breaks the invariant.
LEMMA NextInv ==
  ASSUME Inv, [Next]_vars
  PROVE  Inv'
<1>1. CASE \E b \in Block : TaskStep(b)
  BY <1>1, TaskInv DEF TaskStep
<1>2. CASE \E p \in Pusher : PushStep(p) \/ \E b \in Block \ {Genesis} : PushStart(p, b)
  BY <1>2, PushInv
<1>3. CASE DistStep \/ DistClose
  BY <1>3, DistInv
<1>4. CASE LoopQuit
  BY <1>4, ManagerAssumption
     DEF LoopQuit, Inv, WorkersInv, ChannelsInv, PushersInv, PushState, WorkIsTracked
<1>5. CASE UNCHANGED <<task, finishWorkCh, newBlockCh, pool, wm, pusher>>
  BY <1>5 DEF Inv, WorkersInv, ChannelsInv, PushersInv, WorkIsTracked
<1>6. (\E b \in Block \ {Genesis} : Announce(b))
      \/ (\E b \in Block : handleRequestBlock(b)) \/ Stop \/ StopStep \/ vars' = vars
      => UNCHANGED <<task, finishWorkCh, newBlockCh, pool, wm, pusher>>
  BY DEF Announce, handleRequestBlock, Stop, StopStep, vars
<1> QED BY <1>1, <1>2, <1>3, <1>4, <1>5, <1>6 DEF Next

\* The distributor never waits for a result that nobody will send: a block in the
\* workManager has a running processTask or a result in finishWorkCh, for any
\* blocks, pushers and channel sizes, and while the manager stops.
THEOREM WorkStaysTracked == Spec => []WorkIsTracked
<1>1. Inv => WorkIsTracked
  BY DEF Inv
<1> QED BY InitInv, NextInv, <1>1, PTL DEF Spec
=============================================================================
