----------------------------- MODULE BlockManager -----------------------------
(***************************************************************************)
(* How a received block reaches the chain (core/block_manager.go with      *)
(* core/blockpool.go): the message loop and the other callers of push put  *)
(* it in the block pool and hand its unlinked ancestor to the distributor, *)
(* the distributor starts a worker for a block whose parent is on the      *)
(* chain and, when a worker has finished, for the children in the pool.    *)
(* The loop asks a peer for a missing parent.  Stop takes all of this down.*)
(*                                                                         *)
(* What a worker checks and what the chain manager does is the subject of  *)
(* BlockChain; here a block is Valid or not.  The pushers other than the   *)
(* loop are the sync service's downloads.                                  *)
(***************************************************************************)
EXTENDS BlockTree, Sequences, Bags

CONSTANTS
  Valid,               \* blocks that processTask accepts once their parent is stored
  Pusher,              \* goroutines that call push
  Loop,                \* the one of them that runs bm.loop
  PoolSize,            \* capacity of the block pool
  newBlockChannelSize,
  finishWorkChannelSize,
  MayStop              \* whether Stop may be called

ASSUME ManagerAssumption ==
  /\ Valid \subseteq Block
  /\ Loop \in Pusher
  /\ PoolSize \in Nat \ {0}
  /\ newBlockChannelSize \in Nat \ {0}
  /\ finishWorkChannelSize \in Nat \ {0}
  /\ MayStop \in BOOLEAN

VARIABLES
  stored,        \* blocks on the chain
  pool,          \* blocks in the block pool
  newBlockCh,    \* channel to the distributor
  finishWorkCh,  \* channel from the workers: [block, isValid]
  wm,            \* the distributor's workManager: [blocks, finish]
  dist,          \* the distributor: [pc, block]
  task,          \* bag of running processTask calls: [block, pc]
  pusher,        \* pusher[p]: [pc, block] of a call of push
  inbox,         \* block messages on their way to this node
  requests,      \* blocks whose parent was asked for
  stop           \* progress of Stop

vars == <<stored, pool, newBlockCh, finishWorkCh, wm, dist, task, pusher, inbox,
          requests, stop>>

IdlePusher == [pc |-> "idle", block |-> NoBlock]

-----------------------------------------------------------------------------
(* The block pool as a set; BlockPool shows that its links agree with it.  *)

FindChildren(b) == ChildrenIn(pool, b)

FindUnlinkedAncestor(b) == UnlinkedAncestorIn(pool, b)

\* A full pool evicts another block.
PoolAfterPush(b) ==
  IF Cardinality(pool \union {b}) <= PoolSize
  THEN {pool \union {b}}
  ELSE {(pool \ {e}) \union {b} : e \in pool}

-----------------------------------------------------------------------------
Init ==
  /\ stored = {Genesis}
  /\ pool = {}
  /\ newBlockCh = <<>>
  /\ finishWorkCh = <<>>
  /\ wm = [blocks |-> {}, finish |-> FALSE]
  /\ dist = [pc |-> "select", block |-> NoBlock]
  /\ task = EmptyBag
  /\ pusher = [p \in Pusher |-> IdlePusher]
  /\ inbox = {}
  /\ requests = {}
  /\ stop = "running"

-----------------------------------------------------------------------------
(* push, and the message loop around it.                                   *)

\* A peer broadcasts a block; the same block may come any number of times.
Announce(b) ==
  /\ b \notin inbox
  /\ inbox' = inbox \union {b}
  /\ UNCHANGED <<stored, pool, newBlockCh, finishWorkCh, wm, dist, task, pusher,
                 requests, stop>>

\* A peer, which has the block and its parent, answers a request with the parent.
handleRequestBlock(b) ==
  /\ b \in requests
  /\ requests' = requests \ {b}
  /\ inbox' = inbox \union ({ParentHash[b]} \ {Genesis})
  /\ UNCHANGED <<stored, pool, newBlockCh, finishWorkCh, wm, dist, task, pusher, stop>>

\* push begins: a block in the pool or on the chain is a duplicate.
PushStart(p, b) ==
  /\ pusher[p].pc = "idle"
  /\ IF p = Loop THEN b \in inbox /\ inbox' = inbox \ {b} ELSE UNCHANGED inbox
  /\ pusher' = IF b \in pool \union stored THEN pusher
               ELSE [pusher EXCEPT ![p] = [pc |-> "pool", block |-> b]]
  /\ UNCHANGED <<stored, pool, newBlockCh, finishWorkCh, wm, dist, task, requests, stop>>

\* bp.Push, which checks for a duplicate again under the lock of the pool.
PushPool(p) ==
  /\ pusher[p].pc = "pool"
  /\ LET b == pusher[p].block
     IN  IF b \in pool
         THEN pusher' = [pusher EXCEPT ![p] = IdlePusher] /\ UNCHANGED pool
         ELSE /\ pool' \in PoolAfterPush(b)
              /\ pusher' = [pusher EXCEPT ![p].pc = "ancestor"]
  /\ UNCHANGED <<stored, newBlockCh, finishWorkCh, wm, dist, task, inbox, requests, stop>>

\* pushToDistributor: find the unlinked ancestor and send it; the send blocks
\* while the channel is full.
PushFindAncestor(p) ==
  /\ pusher[p].pc = "ancestor"
  /\ LET b == pusher[p].block
     IN  pusher' = [pusher EXCEPT ![p] =
                      [pc |-> "send", block |-> b,
                       send |-> IF FindUnlinkedAncestor(b) = NoBlock
                                THEN b ELSE FindUnlinkedAncestor(b)]]
  /\ UNCHANGED <<stored, pool, newBlockCh, finishWorkCh, wm, dist, task, inbox,
                 requests, stop>>

PushSend(p) ==
  /\ pusher[p].pc = "send"
  /\ Len(newBlockCh) < newBlockChannelSize
  /\ newBlockCh' = Append(newBlockCh, pusher[p].send)
  /\ pusher' = [pusher EXCEPT ![p] =
                  IF p = Loop THEN [pc |-> "request", block |-> pusher[p].block]
                  ELSE IdlePusher]
  /\ UNCHANGED <<stored, pool, finishWorkCh, wm, dist, task, inbox, requests, stop>>

\* What activateSync may return: TRUE when a download of the sync service is
\* running or was started for the block.
activateSync == IF Pusher = {Loop} THEN {FALSE} ELSE BOOLEAN

\* The loop goes on with requestMissingBlock, unless sync is activated, the block
\* is on the chain by now, has left the pool, or its unlinked ancestor connects
\* to the chain.
requestMissingBlock ==
  /\ pusher[Loop].pc = "request"
  /\ LET b == pusher[Loop].block
         top == IF FindUnlinkedAncestor(b) = NoBlock THEN b ELSE FindUnlinkedAncestor(b)
     IN  \E ok \in activateSync :
           requests' = IF ~ok /\ b \notin stored /\ b \in pool /\ ParentHash[top] \notin stored
                       THEN requests \union {top} ELSE requests
  /\ pusher' = [pusher EXCEPT ![Loop] = IdlePusher]
  /\ UNCHANGED <<stored, pool, newBlockCh, finishWorkCh, wm, dist, task, inbox, stop>>

PushStep(p) ==
  \/ PushPool(p)
  \/ PushFindAncestor(p)
  \/ PushSend(p)
  \/ p = Loop /\ requestMissingBlock

-----------------------------------------------------------------------------
(* processTask.                                                            *)

Running(b, pc) == [block |-> b, pc |-> pc]
Move(t, pc) == (task (-) SetToBag({t})) (+) SetToBag({Running(t.block, pc)})

\* Is the block new, and its parent on the chain?
TaskCheck(t) ==
  /\ BagIn(t, task)
  /\ t.pc = "check"
  /\ task' = Move(t, IF t.block \in stored \/ ParentHash[t.block] \notin stored
                     THEN "invalid" ELSE "execute")
  /\ UNCHANGED <<stored, pool, newBlockCh, finishWorkCh, wm, dist, pusher, inbox,
                 requests, stop>>

\* Verify, execute and store it.
TaskExecute(t) ==
  /\ BagIn(t, task)
  /\ t.pc = "execute"
  /\ IF t.block \in Valid
     THEN stored' = stored \union {t.block} /\ task' = Move(t, "valid")
     ELSE task' = Move(t, "invalid") /\ UNCHANGED stored
  /\ UNCHANGED <<pool, newBlockCh, finishWorkCh, wm, dist, pusher, inbox, requests, stop>>

\* alarmExecutionResult: the send blocks while the channel is full.
alarmExecutionResult(t) ==
  /\ BagIn(t, task)
  /\ t.pc \in {"valid", "invalid"}
  /\ Len(finishWorkCh) < finishWorkChannelSize
  /\ finishWorkCh' = Append(finishWorkCh, [block |-> t.block, isValid |-> t.pc = "valid"])
  /\ task' = task (-) SetToBag({t})
  /\ UNCHANGED <<stored, pool, newBlockCh, wm, dist, pusher, inbox, requests, stop>>

TaskStep(b) ==
  \E t \in BagToSet(task) :
    t.block = b /\ (TaskCheck(t) \/ TaskExecute(t) \/ alarmExecutionResult(t))

-----------------------------------------------------------------------------
(* runDistributor.                                                         *)

Started(blocks) == task (+) SetToBag({Running(b, "check") : b \in blocks})

\* The end of a turn: after closeWorkersCh was closed the distributor returns
\* once no block is in work.
NextTurn(w) == [pc |-> IF w.finish /\ w.blocks = {} THEN "done" ELSE "select",
                block |-> NoBlock]

\* Mutant: a rejected block stays in the workManager.
DistFinish_KeepsRejected ==
  /\ dist.pc = "select"
  /\ finishWorkCh # <<>>
  /\ LET result == Head(finishWorkCh)
         w == IF result.isValid THEN [wm EXCEPT !.blocks = @ \ {result.block}] ELSE wm
     IN  /\ wm' = w
         /\ pool' = pool \ {result.block}
         /\ dist' = IF ~result.isValid \/ w.finish THEN NextTurn(w)
                    ELSE [pc |-> "children", block |-> result.block]
  /\ finishWorkCh' = Tail(finishWorkCh)
  /\ UNCHANGED <<stored, newBlockCh, task, pusher, inbox, requests, stop>>

\* A result: the block leaves the workManager and the pool; the children of a
\* valid block are looked up next, unless the node is stopping.
DistFinish ==
  /\ dist.pc = "select"
  /\ finishWorkCh # <<>>
  /\ LET result == Head(finishWorkCh)
         w == [wm EXCEPT !.blocks = @ \ {result.block}]
     IN  /\ wm' = w
         /\ pool' = pool \ {result.block}
         /\ dist' = IF ~result.isValid \/ w.finish THEN NextTurn(w)
                    ELSE [pc |-> "children", block |-> result.block]
  /\ finishWorkCh' = Tail(finishWorkCh)
  /\ UNCHANGED <<stored, newBlockCh, task, pusher, inbox, requests, stop>>

\* Mutant: children are looked up only when a new block is announced.
DistChildren_Dropped ==
  /\ dist.pc = "children"
  /\ dist' = NextTurn(wm)
  /\ UNCHANGED <<stored, pool, newBlockCh, finishWorkCh, wm, task, pusher, inbox,
                 requests, stop>>

\* Every child in the pool gets a worker.
DistChildren ==
  /\ dist.pc = "children"
  /\ LET children == FindChildren(dist.block)
         w == [wm EXCEPT !.blocks = @ \union children]
     IN  /\ wm' = w
         /\ task' = Started(children)
         /\ dist' = NextTurn(w)
  /\ UNCHANGED <<stored, pool, newBlockCh, finishWorkCh, pusher, inbox, requests, stop>>

\* A new block gets a worker unless it has one or its parent is not on the chain.
DistNew ==
  /\ dist.pc = "select"
  /\ newBlockCh # <<>>
  /\ LET b == Head(newBlockCh)
     IN  IF b \in wm.blocks \/ ParentHash[b] \notin stored
         THEN UNCHANGED <<wm, task>>
         ELSE /\ wm' = [wm EXCEPT !.blocks = @ \union {b}]
              /\ task' = Started({b})
  /\ newBlockCh' = Tail(newBlockCh)
  /\ UNCHANGED <<stored, pool, finishWorkCh, dist, pusher, inbox, requests, stop>>

\* closeWorkersCh is closed.
DistClose ==
  /\ dist.pc = "select"
  /\ stop # "running"
  /\ wm' = [wm EXCEPT !.finish = TRUE]
  /\ dist' = NextTurn(wm')
  /\ UNCHANGED <<stored, pool, newBlockCh, finishWorkCh, task, pusher, inbox, requests,
                 stop>>

DistStep == DistFinish \/ DistChildren \/ DistNew

-----------------------------------------------------------------------------
(* Stop: the distributor, then the chain manager, then the loop.           *)

Stop ==
  /\ MayStop
  /\ stop = "running"
  /\ stop' = "workers"
  /\ UNCHANGED <<stored, pool, newBlockCh, finishWorkCh, wm, dist, task, pusher, inbox,
                 requests>>

StopStep ==
  /\ \/ stop = "workers" /\ dist.pc = "done" /\ stop' = "chainManager"
     \/ stop = "chainManager" /\ stop' = "loop"
     \/ stop = "loop" /\ pusher[Loop].pc = "quit" /\ stop' = "stopped"
  /\ UNCHANGED <<stored, pool, newBlockCh, finishWorkCh, wm, dist, task, pusher, inbox,
                 requests>>

\* The loop, at its select, sees quitCh closed.
LoopQuit ==
  /\ stop = "loop"
  /\ pusher[Loop].pc = "idle"
  /\ pusher' = [pusher EXCEPT ![Loop] = [pc |-> "quit", block |-> NoBlock]]
  /\ UNCHANGED <<stored, pool, newBlockCh, finishWorkCh, wm, dist, task, inbox, requests,
                 stop>>

-----------------------------------------------------------------------------
Next ==
  \/ \E b \in Block \ {Genesis} : Announce(b)
  \/ \E b \in Block : handleRequestBlock(b)
  \/ \E p \in Pusher, b \in Block \ {Genesis} : PushStart(p, b)
  \/ \E p \in Pusher : PushStep(p)
  \/ \E b \in Block : TaskStep(b)
  \/ DistStep
  \/ DistClose
  \/ Stop
  \/ StopStep
  \/ LoopQuit

Spec == Init /\ [][Next]_vars

\* Goroutines that can move do (the senders of a channel are served in turn),
\* the loop receives what is sent to it, a download delivers every block, and a
\* peer answers.  Once Stop is called, a select that finds closeWorkersCh or
\* quitCh ready again and again takes that case (Go picks among ready cases at
\* random).
FairSpec ==
  /\ Spec
  /\ \A p \in Pusher : WF_vars(PushStep(p))
  /\ \A p \in Pusher, b \in Block \ {Genesis} : SF_vars(PushStart(p, b))
  /\ WF_vars(\E b \in Block : handleRequestBlock(b))
  /\ \A b \in Block \ {Genesis} : SF_vars(TaskStep(b))
  /\ WF_vars(DistStep)
  /\ SF_vars(DistClose)
  /\ WF_vars(StopStep)
  /\ SF_vars(LoopQuit)

-----------------------------------------------------------------------------
(* Properties.                                                             *)

\* The workManager never waits for a result that nobody will send: a block in
\* wm.blocks has a running worker or a result in the channel, although a block
\* may get several workers and its first result removes it.
WorkIsTracked ==
  \A b \in wm.blocks :
    \/ \E t \in BagToSet(task) : t.block = b
    \/ \E i \in DOMAIN finishWorkCh : finishWorkCh[i].block = b

\* No block is stranded: with room in the pool, a block whose ancestors are all
\* valid reaches the chain, in whatever order it, its parents and its children
\* were received, unless the node is stopped first.
OrphanConnects ==
  \A b \in Block \ {Genesis} :
    (b \in pool /\ Ancestors[b] \ {Genesis} \subseteq Valid)
      ~> b \in stored \/ stop # "running"

\* Stop returns ("Stop stops BlockManager service").
StopTerminates == stop # "running" ~> stop = "stopped"

=============================================================================
