------------------------------- MODULE Download -------------------------------
(***************************************************************************)
(* Catching up with the network: sync/download.go and the request handlers *)
(* of sync/sync_service.go, the part of the block manager that starts a    *)
(* download (activateSync) and waits for a pushed block                    *)
(* (PushBlockDataSync2), and the event emitter that wakes it.              *)
(*                                                                         *)
(* One download is followed, from the block that starts it to stop: a later*)
(* one starts from the same fields.  Around it the node goes on receiving  *)
(* and executing blocks and moving its LIB, and the peers move their tails.*)
(* Only blocks that some node stores are sent: their heights are right.    *)
(***************************************************************************)
EXTENDS BlockTree

CONSTANTS
  Peers,      \* the nodes that answer requests
  Tails,      \* the canonical tails they may have
  Broadcast,  \* blocks other nodes may send unasked
  Starts,     \* the main tails the node may begin with
  Retries,    \* numberOfRetries
  Limit,      \* activeDownloadLimit
  Depth       \* how far below the tail the LIB stays, at least

ASSUME DownloadAssumption ==
  /\ Broadcast \subseteq Block
  /\ Tails \subseteq Block
  /\ Starts \subseteq Block
  /\ Retries \in Nat \ {0}
  /\ Limit \in Nat \ {0}
  /\ Depth \in Nat
  /\ \A b \in Block \ {Genesis} : Height[b] = Height[ParentHash[b]] + 1

VARIABLES
  chain,     \* blocks BlockByHash finds in storage
  pool,      \* blocks in the block pool
  lib,       \* LIB
  peer,      \* the canonical tail of each peer
  dl,        \* the download and its start goroutine
  work,      \* the downloadBlockByHeight goroutine of each height
  eventCh    \* block events on their way: about to be triggered, or queued

vars == <<chain, pool, lib, peer, dl, work, eventCh>>

Heights == UNION {1..Height[b] : b \in Block}

\* The block at a height of the chain that ends in t; NoBlock is the storage's
\* "not found".
BlockAt(t, h) ==
  IF \E a \in Ancestors[t] : Height[a] = h
  THEN CHOOSE a \in Ancestors[t] : Height[a] = h
  ELSE NoBlock

\* The stored blocks that are not forked before the LIB, and the main tail's
\* height: fork choice takes the highest of them.
Eligible == {c \in chain : lib \in Ancestors[c]}

tailHeight == Height[Highest(Eligible)]

-----------------------------------------------------------------------------
(* The download's fields and its workers.                                  *)

NoDownload ==
  [pc |-> "idle", target |-> NoBlock, base |-> NoBlock, low |-> 0, high |-> 0,
   retry |-> 0, height |-> 0, requests |-> 0, torn |-> FALSE]

NoWorker == [pc |-> "off", retry |-> 0, block |-> NoBlock, got |-> "none"]

IsDownloadActivated == dl.pc \notin {"idle", "finished", "failed"}

targetHeight == Height[dl.target]

try == (dl.high + dl.low) \div 2

\* The workers that run, and those registered with the emitter.
Running == {h \in Heights : work[h].pc # "off"}
Subscribed == {h \in Heights : work[h].pc \in {"check", "wait"}}

-----------------------------------------------------------------------------
(* The rest of the node.                                                   *)

VerifyHeightAndTimestamp(l, b) ==
  /\ Height[b] > Height[l]
  /\ Timestamp[b] > Timestamp[l]
  /\ Height[b] <= (Timestamp[b] - Timestamp[l]) \div BlockInterval + Height[l]
  /\ Timestamp[b] >= (Height[l] - Height[b]) * BlockInterval + Timestamp[l]

Duplicated(b) == b \in pool \cup chain

\* push: a new block goes to the pool unless it cannot follow the LIB.
Pushed(b) ==
  IF Duplicated(b) \/ ~VerifyHeightAndTimestamp(lib, b) THEN pool ELSE pool \cup {b}

\* handleReceiveBlock: push, then activateSync.  A block above the main tail
\* starts a download when none is active.
ReceiveBlock(b) ==
  /\ ~Duplicated(b)
  /\ VerifyHeightAndTimestamp(lib, b)
  /\ pool' = pool \cup {b}
  /\ dl' = IF dl.pc = "idle" /\ tailHeight < Height[b]
           THEN [NoDownload EXCEPT !.pc = "start", !.target = b]
           ELSE dl
  /\ UNCHANGED <<chain, lib, peer, work, eventCh>>

\* processTask on a pooled block whose parent is stored.  The block is stored
\* and its event follows, or it is dropped with an invalid event.
ProcessTask(b) ==
  /\ b \in pool
  /\ ParentHash[b] \in chain
  /\ pool' = pool \ {b}
  /\ IF lib \in Ancestors[b] /\ b \in Executable
     THEN /\ chain' = chain \cup {b}
          /\ eventCh' = eventCh \cup {[topic |-> "accepted", block |-> b]}
     ELSE /\ UNCHANGED chain
          /\ eventCh' = eventCh \cup {[topic |-> "invalid", block |-> b]}
  /\ UNCHANGED <<lib, peer, dl, work>>

\* SetLIB: the LIB moves up the main chain.  Storage keeps the branches it
\* leaves (removeBlock deletes a key that no block has).
SetLIB(b) ==
  /\ b \in Eligible \ {lib}
  /\ \E t \in Eligible : /\ b \in Ancestors[t]
                         /\ Height[b] + Depth <= Height[t]
                         /\ Height[t] = tailHeight
  /\ lib' = b
  /\ UNCHANGED <<chain, pool, peer, dl, work, eventCh>>

\* The least recently used pooled block gives way to another one.
Evict(b) ==
  /\ b \in pool
  /\ pool' = pool \ {b}
  /\ UNCHANGED <<chain, lib, peer, dl, work, eventCh>>

\* A peer's canonical tail changes.
PeerMoves(p) ==
  /\ \E t \in Tails : peer' = [peer EXCEPT ![p] = t]
  /\ UNCHANGED <<chain, pool, lib, dl, work, eventCh>>

\* The emitter's loop: the event reaches the registered subscribers.  A
\* PushBlockDataSync2 call only looks at those of its own block.
Dispatch(e) ==
  /\ e \in eventCh
  /\ eventCh' = eventCh \ {e}
  /\ work' = [h \in Heights |->
                IF h \in Subscribed /\ work[h].block = e.block /\ work[h].got = "none"
                THEN [work[h] EXCEPT !.got = e.topic] ELSE work[h]]
  /\ UNCHANGED <<chain, pool, lib, peer, dl>>

-----------------------------------------------------------------------------
(* A peer's answer: handleFindBaseRequest and handleBlockByHeightRequest   *)
(* read the hash at the target height, then the block at the height asked  *)
(* for; the peer's tail may move in between.                               *)

\* Peer p answers with its hash at the target height, which is the target, and
\* with block b at height h.
Answers(p, h, b) ==
  /\ BlockAt(peer[p], targetHeight) = dl.target
  /\ \E t \in Tails : /\ b = BlockAt(t, h)
                      /\ peer' = [peer EXCEPT ![p] = t]

\* The two reads saw different chains.
Torn(h, b) == b # BlockAt(dl.target, h)

-----------------------------------------------------------------------------
(* findBaseBlock.                                                          *)

\* The search starts between the LIB and the target.
FindBaseBlock ==
  /\ dl.pc = "start"
  /\ dl' = [dl EXCEPT !.pc = "search", !.base = lib, !.low = Height[lib],
                      !.high = targetHeight]
  /\ UNCHANGED <<chain, pool, lib, peer, work, eventCh>>

\* Mutant: a known block raises low but does not become the base.
HandleFindBaseResponse_KeepsBase(p, b) ==
  /\ dl.pc = "search" /\ try # dl.low
  /\ Answers(p, try, b)
  /\ dl' = IF b \notin chain
           THEN [dl EXCEPT !.high = try, !.retry = 0, !.torn = @ \/ Torn(try, b)]
           ELSE [dl EXCEPT !.low = try, !.retry = 0, !.torn = @ \/ Torn(try, b)]
  /\ UNCHANGED <<chain, pool, lib, work, eventCh>>

\* handleFindBaseResponse, on an answer with the right target.  A block the peer
\* could not find is sent as an empty hash, which is unknown here too.
HandleFindBaseResponse(p, b) ==
  /\ dl.pc = "search" /\ try # dl.low
  /\ Answers(p, try, b)
  /\ dl' = IF b \notin chain
           THEN [dl EXCEPT !.high = try, !.retry = 0, !.torn = @ \/ Torn(try, b)]
           ELSE [dl EXCEPT !.low = try, !.base = b, !.retry = 0, !.torn = @ \/ Torn(try, b)]
  /\ UNCHANGED <<chain, pool, lib, work, eventCh>>

\* Mutant: one retry too many.
FindBaseRequestFails_OneMore ==
  /\ dl.pc = "search" /\ try # dl.low
  /\ dl' = IF dl.retry < Retries
           THEN [dl EXCEPT !.retry = @ + 1]
           ELSE [dl EXCEPT !.pc = "failed"]
  /\ UNCHANGED <<chain, pool, lib, peer, work, eventCh>>

\* No answer in time, or one with another target: ask again, at most Retries
\* times in all.
FindBaseRequestFails ==
  /\ dl.pc = "search" /\ try # dl.low
  /\ dl' = IF dl.retry + 1 < Retries
           THEN [dl EXCEPT !.retry = @ + 1]
           ELSE [dl EXCEPT !.pc = "failed"]
  /\ UNCHANGED <<chain, pool, lib, peer, work, eventCh>>

-----------------------------------------------------------------------------
(* stepUpRequest.                                                          *)

StepUpRequest ==
  /\ dl.pc = "search" /\ try = dl.low
  /\ dl' = [dl EXCEPT !.pc = "step", !.height = Height[dl.base]]
  /\ UNCHANGED <<chain, pool, lib, peer, work, eventCh>>

\* The ticker: one more worker, within the limit.
Tick ==
  /\ dl.pc = "step"
  /\ dl.requests < Limit
  /\ dl.height # targetHeight
  /\ dl' = [dl EXCEPT !.requests = @ + 1, !.height = @ + 1]
  /\ work' = [work EXCEPT ![dl.height + 1] = [NoWorker EXCEPT !.pc = "ask"]]
  /\ UNCHANGED <<chain, pool, lib, peer, eventCh>>

\* Mutant: the end is tested before numberOfRequests is decremented.
Collect_TestsFirst(h) ==
  /\ dl.pc = "step"
  /\ work[h].pc \in {"ok", "error"}
  /\ work' = [work EXCEPT ![h] = NoWorker]
  /\ dl' = IF work[h].pc = "error" THEN [dl EXCEPT !.pc = "failed"]
           ELSE [dl EXCEPT !.requests = @ - 1,
                           !.pc = IF dl.requests = 0 /\ dl.height = targetHeight
                                  THEN "finished" ELSE @]
  /\ UNCHANGED <<chain, pool, lib, peer, eventCh>>

\* Mutant: the download finishes while other workers still run.
Collect_NotLast(h) ==
  /\ dl.pc = "step"
  /\ work[h].pc \in {"ok", "error"}
  /\ work' = [work EXCEPT ![h] = NoWorker]
  /\ dl' = IF work[h].pc = "error" THEN [dl EXCEPT !.pc = "failed"]
           ELSE [dl EXCEPT !.requests = @ - 1,
                           !.pc = IF dl.height = targetHeight THEN "finished" ELSE @]
  /\ UNCHANGED <<chain, pool, lib, peer, eventCh>>

\* A worker's result arrives: an error ends the download, the last success
\* finishes it.
Collect(h) ==
  /\ dl.pc = "step"
  /\ work[h].pc \in {"ok", "error"}
  /\ work' = [work EXCEPT ![h] = NoWorker]
  /\ dl' = IF work[h].pc = "error" THEN [dl EXCEPT !.pc = "failed"]
           ELSE [dl EXCEPT !.requests = @ - 1,
                           !.pc = IF dl.requests = 1 /\ dl.height = targetHeight
                                  THEN "finished" ELSE @]
  /\ UNCHANGED <<chain, pool, lib, peer, eventCh>>

-----------------------------------------------------------------------------
(* downloadBlockByHeight: one goroutine per height.                        *)

\* The attempt at height h failed: another one, or the error is reported.
\* Once stepUpRequest has returned the context is done and the worker ends.
Again(h) ==
  IF dl.pc # "step" THEN NoWorker
  ELSE IF work[h].retry + 1 < Retries
  THEN [NoWorker EXCEPT !.pc = "ask", !.retry = work[h].retry + 1]
  ELSE [NoWorker EXCEPT !.pc = "error"]

Succeeded == [NoWorker EXCEPT !.pc = "ok"]

\* handleBlockByHeightResponse up to PushBlockDataSync2's push: the
\* subscriber is registered first.  A block push refuses fails the attempt.
HandleBlockByHeightResponse(h, p, b) ==
  /\ work[h].pc = "ask"
  /\ Answers(p, h, b)
  /\ pool' = Pushed(b)
  /\ work' = [work EXCEPT ![h] =
                IF Duplicated(b) \/ VerifyHeightAndTimestamp(lib, b)
                THEN [@ EXCEPT !.pc = "check", !.block = b] ELSE Again(h)]
  /\ dl' = [dl EXCEPT !.torn = @ \/ Torn(h, b)]
  /\ UNCHANGED <<chain, lib, eventCh>>

\* No answer, another target, or the context is done.
BlockByHeightRequestFails(h) ==
  /\ work[h].pc = "ask"
  /\ work' = [work EXCEPT ![h] = Again(h)]
  /\ UNCHANGED <<chain, pool, lib, peer, dl, eventCh>>

\* Mutant: the call waits without looking whether the block is stored.
CheckStored_Waits(h) ==
  /\ work[h].pc = "check"
  /\ work' = [work EXCEPT ![h] = [@ EXCEPT !.pc = "wait"]]
  /\ UNCHANGED <<chain, pool, lib, peer, dl, eventCh>>

\* PushBlockDataSync2 after its push: done when the block is stored already.
CheckStored(h) ==
  /\ work[h].pc = "check"
  /\ work' = [work EXCEPT ![h] = IF @.block \in chain THEN Succeeded
                                 ELSE [@ EXCEPT !.pc = "wait"]]
  /\ UNCHANGED <<chain, pool, lib, peer, dl, eventCh>>

\* The event of its block wakes the call.
WakeUp(h) ==
  /\ work[h].pc = "wait"
  /\ work[h].got # "none"
  /\ work' = [work EXCEPT ![h] = IF @.got = "accepted" THEN Succeeded ELSE Again(h)]
  /\ UNCHANGED <<chain, pool, lib, peer, dl, eventCh>>

\* Its 60 seconds are over, or the download was stopped.
PushTimesOut(h) ==
  /\ work[h].pc = "wait"
  /\ work' = [work EXCEPT ![h] = Again(h)]
  /\ UNCHANGED <<chain, pool, lib, peer, dl, eventCh>>

\* Mutant: the result is sent without watching the context.
Abandon_Blocks(h) == FALSE /\ UNCHANGED work[h]

\* A worker whose result nobody receives any more returns.
Abandon(h) ==
  /\ work[h].pc \in {"ok", "error"}
  /\ dl.pc # "step"
  /\ work' = [work EXCEPT ![h] = NoWorker]
  /\ UNCHANGED <<chain, pool, lib, peer, dl, eventCh>>

\* The service stops: stop cancels the download, whatever it is doing.
ServiceStop ==
  /\ IsDownloadActivated
  /\ dl' = [dl EXCEPT !.pc = "failed"]
  /\ UNCHANGED <<chain, pool, lib, peer, work, eventCh>>

-----------------------------------------------------------------------------

Init ==
  /\ \E t \in Starts : chain = Ancestors[t]
  /\ pool = {}
  /\ lib = Genesis
  /\ peer \in [Peers -> Tails]
  /\ dl = NoDownload
  /\ work = [h \in Heights |-> NoWorker]
  /\ eventCh = {}

DownloadStep ==
  \/ FindBaseBlock
  \/ \E p \in Peers, b \in Block \cup {NoBlock} : HandleFindBaseResponse(p, b)
  \/ FindBaseRequestFails
  \/ StepUpRequest
  \/ Tick
  \/ \E h \in Heights : Collect(h)

WorkerStep(h) ==
  \/ \E p \in Peers, b \in Block : HandleBlockByHeightResponse(h, p, b)
  \/ BlockByHeightRequestFails(h)
  \/ CheckStored(h)
  \/ WakeUp(h)
  \/ PushTimesOut(h)
  \/ Abandon(h)

Next ==
  \/ \E b \in Broadcast : ReceiveBlock(b)
  \/ \E b \in Block : ProcessTask(b) \/ SetLIB(b) \/ Evict(b)
  \/ \E p \in Peers : PeerMoves(p)
  \/ \E e \in eventCh : Dispatch(e)
  \/ DownloadStep
  \/ \E h \in Heights : WorkerStep(h)
  \/ ServiceStop

Spec == Init /\ [][Next]_vars

\* The goroutines of the download run; requests are bounded by their context.
FairSpec ==
  /\ Spec
  /\ WF_vars(DownloadStep)
  /\ \A h \in Heights : WF_vars(WorkerStep(h))

-----------------------------------------------------------------------------
(* Properties.                                                             *)

Worker ==
  [pc : {"off", "ask", "check", "wait", "ok", "error"}, retry : 0..(Retries - 1),
   block : Block \cup {NoBlock}, got : {"none", "accepted", "invalid"}]

Downloads ==
  [pc : {"idle", "start", "search", "step", "finished", "failed"},
   target : Block \cup {NoBlock}, base : Block \cup {NoBlock}, low : Nat, high : Nat,
   retry : 0..(Retries - 1), height : Nat, requests : 0..Limit, torn : BOOLEAN]

\* Types.  A request is tried at most numberOfRetries times, and at most
\* activeDownloadLimit heights are under way (download.go:138, 213, 233).
TypeOK ==
  /\ chain \subseteq Block
  /\ pool \subseteq Block
  /\ lib \in Block
  /\ peer \in [Peers -> Tails]
  /\ dl \in Downloads
  /\ work \in [Heights -> Worker]
  /\ eventCh \subseteq [topic : {"accepted", "invalid"}, block : Block]

\* The binary search keeps its interval: the base is a block at height low, low
\* stays below high, and the base lies on the target's chain or on that of the
\* LIB it started from, whatever the peers and the node's own chain do between
\* two answers (findBaseBlock, download.go:117-186).
SearchSound ==
  dl.pc \in {"search", "step"} =>
    /\ Height[dl.base] = dl.low
    /\ dl.low < dl.high /\ dl.high <= targetHeight
    /\ dl.base \in Ancestors[dl.target] \/ dl.base \in Ancestors[lib] \/ dl.torn

\* stepUpRequest never waits for a result that cannot come: until it returns
\* there is a height left to request or a worker that will report, and
\* numberOfRequests is the number of its workers (download.go:193-223).
StepUpCanEnd ==
  dl.pc = "step" =>
    /\ dl.height < targetHeight \/ dl.requests > 0
    /\ dl.height <= targetHeight
    /\ dl.requests = Cardinality(Running)

\* No lost wake-up in PushBlockDataSync2: a call that waits for a block which is
\* already stored still has the block's event to come, or has it in its channel,
\* although the block may be pushed and executed by others at any moment
\* (block_manager.go:460-494).
NoLostWakeup ==
  \A h \in Heights :
    work[h].pc = "wait" /\ work[h].block \in chain =>
      \/ work[h].got # "none"
      \/ \E e \in eventCh : e.block = work[h].block

\* A download that ends without an error has brought in its target, although the
\* workers finish in any order and other blocks are executed meanwhile; unless a
\* peer's answer mixed two of its chains (start, download.go:95-105).
FinishedOnTarget == dl.pc = "finished" => dl.target \in chain \/ dl.torn

\* A download ends, and its workers with it, so that the downloading flag does
\* not keep activateSync from starting the next one (stop, download.go:109).
DownloadEnds == IsDownloadActivated ~> (~IsDownloadActivated /\ Running = {})

===============================================================================
