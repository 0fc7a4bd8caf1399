---------------------------- MODULE DownloadProofs ----------------------------
(***************************************************************************)
(* The download's safety properties for every block tree, number of peers, *)
(* retry count and request limit.  The two that speak of the binary search *)
(* and of its end rest on BaseBelow: the LIB is still below the target when*)
(* the start goroutine reads it.                                           *)
(***************************************************************************)
EXTENDS Download, CollectionProofs

-----------------------------------------------------------------------------
(* Ancestors, as what is reached by parent hashes.                         *)

\* A set of blocks that no parent hash leaves.
Closed(S) == \A x \in S : ParentHash[x] \in S

\* Ancestors is the climb of CollectionProofs along parent hashes.
LEMMA AncestorsClimb ==
  ASSUME NEW b \in Block
  PROVE  Ancestors[b] = Climb(Block, ParentHash, b)
BY Zenon DEF Ancestors, Climb

\* Leastness: a closed set that holds b holds every ancestor of b.
LEMMA AncestorsLeast ==
  ASSUME NEW b \in Block, NEW S \in SUBSET Block, b \in S, Closed(S)
  PROVE  Ancestors[b] \subseteq S
<1>1. Climb(Block, ParentHash, b) \subseteq S
  BY ClimbLeast DEF Closed, ClosedUnder
<1> QED BY <1>1, AncestorsClimb

\* Ancestors are blocks, a block is its own ancestor, and a parent of an
\* ancestor is an ancestor.
LEMMA AncestorsClosed ==
  ASSUME NEW b \in Block
  PROVE  /\ Ancestors[b] \in SUBSET Block
         /\ b \in Ancestors[b]
         /\ Closed(Ancestors[b])
BY AncestorsClimb, ClimbClosed, TreeAssumption DEF Closed, ClosedUnder

\* Ancestry is transitive.
LEMMA AncestorsTransitive ==
  ASSUME NEW c \in Block, NEW b \in Ancestors[c]
  PROVE  Ancestors[b] \subseteq Ancestors[c]
<1>1. b \in Block /\ b \in Climb(Block, ParentHash, c)
  BY AncestorsClimb, AncestorsClosed
<1> QED BY <1>1, AncestorsClimb, ClimbTransitive, TreeAssumption

-----------------------------------------------------------------------------


\* The block is stored.
Stored(b) == b \in chain

\* The download's fields name blocks, and workers exist only once it steps up.
Formed ==
  /\ dl.pc # "idle" => dl.target \in Block
  /\ dl.pc \in {"search", "step"} => dl.base \in Block
  /\ dl.pc \in {"idle", "start", "search"} =>
       dl.requests = 0 /\ \A h \in Heights : work[h] = NoWorker
  /\ \A h \in Subscribed : work[h].block \in Block
  /\ \A h \in Heights \ Subscribed : work[h].got = "none"

\* What an accepted event tells stays true.
Arrived ==
  /\ \A e \in eventCh : e.topic = "accepted" => Stored(e.block)
  /\ \A h \in Subscribed : work[h].got = "accepted" => Stored(work[h].block)

\* While stepping up: a worker handles the target's ancestor at its height, and
\* the heights without one, up to the last requested, are stored.
Covered ==
  dl.pc = "step" =>
    /\ dl.low <= dl.height
    /\ \A h \in Running : dl.low < h /\ h <= dl.height
    /\ ~dl.torn =>
         \A h \in Heights : dl.low < h /\ h <= dl.height =>
           /\ h \in Subscribed => work[h].block = BlockAt(dl.target, h)
           /\ work[h].pc \in {"ok", "off"} => /\ BlockAt(dl.target, h) \in Block
                                              /\ Stored(BlockAt(dl.target, h))

\* The LIB has not reached the target when the search starts.
BaseBelow == dl.pc = "start" => Height[lib] < targetHeight

\* The types PushBlockDataSync2 needs, which hold whatever the LIB does.
WaitTypes ==
  /\ chain \subseteq Block
  /\ pool \subseteq Block
  /\ work \in [Heights -> Worker]
  /\ eventCh \subseteq [topic : {"accepted", "invalid"}, block : Block]

WaitInv == WaitTypes /\ NoLostWakeup

\* The inductive invariant.
IInv ==
  /\ TypeOK
  /\ Formed
  /\ Arrived
  /\ SearchSound
  /\ StepUpCanEnd
  /\ Covered
  /\ FinishedOnTarget

-----------------------------------------------------------------------------
(* Blocks of a chain by height.                                            *)

\* The block at a height of a chain is an ancestor of its tail with that height.
LEMMA AtSound ==
  ASSUME NEW t \in Block, NEW h
  PROVE  /\ BlockAt(t, h) \in Block \cup {NoBlock}
         /\ BlockAt(t, h) # NoBlock =>
              BlockAt(t, h) \in Ancestors[t] /\ Height[BlockAt(t, h)] = h
<1>1. CASE \E a \in Ancestors[t] : Height[a] = h
  <2>1. BlockAt(t, h) \in Ancestors[t] /\ Height[BlockAt(t, h)] = h
    BY <1>1 DEF BlockAt
  <2> QED
    BY <2>1, AncestorsClosed
<1>2. CASE ~ \E a \in Ancestors[t] : Height[a] = h
  BY <1>2 DEF BlockAt
<1> QED
  BY <1>1, <1>2

\* Heights fall along parent hashes, so no other ancestor has the tail's height.
LEMMA AtSelf ==
  ASSUME NEW t \in Block
  PROVE  BlockAt(t, Height[t]) = t
<1> DEFINE S == {x \in Block : x = t \/ Height[x] < Height[t]}
<1>1. t \in S /\ S \in SUBSET Block
  OBVIOUS
<1>2. ASSUME NEW x \in S
      PROVE  ParentHash[x] \in S
  <2>1. x \in Block /\ ParentHash[x] \in Block /\ Height[x] \in Nat
        /\ Height[t] \in Nat /\ Height[ParentHash[x]] \in Nat
    BY TreeAssumption
  <2>2. CASE x = Genesis
    BY <2>2, TreeAssumption
  <2>3. CASE x # Genesis
    BY <2>1, <2>3, DownloadAssumption
  <2> QED
    BY <2>2, <2>3
<1>3. Ancestors[t] \subseteq S
  BY ZenonT(60), <1>1, <1>2, AncestorsLeast DEF Closed
<1>4. ASSUME NEW a \in Ancestors[t], Height[a] = Height[t]
      PROVE  a = t
  BY <1>3, <1>4, TreeAssumption
<1>5. t \in Ancestors[t]
  BY AncestorsClosed
<1> QED
  BY <1>4, <1>5 DEF BlockAt

\* What a step may do to the node's storage and LIB.
Storage ==
  /\ chain \subseteq chain'
  /\ lib' = lib \/ lib \in Ancestors[lib']

\* A stored block stays stored.
LEMMA StoredStays ==
  ASSUME NEW b \in Block, lib \in Block, lib' \in Block, Stored(b), Storage
  PROVE  Stored(b)'
BY DEF Stored, Storage

-----------------------------------------------------------------------------
(* No lost wake-up.                                                        *)

\* A failed attempt leaves a well-formed worker that does not wait.
LEMMA AgainTypes ==
  ASSUME WaitTypes, NEW h \in Heights
  PROVE  /\ Again(h) \in Worker /\ NoWorker \in Worker /\ Succeeded \in Worker
         /\ Again(h).pc # "wait" /\ NoWorker.pc # "wait" /\ Succeeded.pc # "wait"
         /\ Again(h).pc # "check" /\ NoWorker.pc # "check" /\ Succeeded.pc # "check"
<1>1. NoWorker \in Worker /\ NoWorker.pc = "off"
  BY DownloadAssumption DEF NoWorker, Worker
<1>2. Succeeded \in Worker /\ Succeeded.pc = "ok"
  BY DownloadAssumption DEF Succeeded, NoWorker, Worker
<1>3. work[h].retry \in 0..(Retries - 1)
  BY DEF WaitTypes, Worker
<1>4. CASE dl.pc # "step"
  BY <1>1, <1>2, <1>4 DEF Again
<1>5. CASE dl.pc = "step" /\ work[h].retry + 1 < Retries
  <2> DEFINE r == work[h].retry + 1
  <2>1. r \in 0..(Retries - 1)
    BY <1>3, <1>5, DownloadAssumption
  <2>2. Again(h) = [pc |-> "ask", retry |-> r, block |-> NoBlock, got |-> "none"]
    BY ZenonT(60), <1>5 DEF Again, NoWorker
  <2> HIDE DEF r
  <2>3. Again(h) \in Worker /\ Again(h).pc = "ask"
    BY <2>1, <2>2 DEF Worker
  <2> QED
    BY <1>1, <1>2, <2>3
<1>6. CASE dl.pc = "step" /\ ~(work[h].retry + 1 < Retries)
  <2>1. Again(h) = [NoWorker EXCEPT !.pc = "error"]
    BY <1>6 DEF Again
  <2>2. Again(h) \in Worker /\ Again(h).pc = "error"
    BY <2>1, DownloadAssumption DEF NoWorker, Worker
  <2> QED
    BY <1>1, <1>2, <2>2
<1> QED
  BY <1>4, <1>5, <1>6

\* One worker changes and it does not start to wait for a stored block: no call
\* loses its event.
LEMMA OneWorker ==
  ASSUME WaitInv, NEW h \in Heights, NEW w \in Worker,
         work' = [work EXCEPT ![h] = w],
         w.pc = "wait" => w.block \notin chain,
         UNCHANGED <<chain, eventCh>>, pool' \subseteq Block
  PROVE  WaitInv'
<1>1. WaitTypes'
  BY DEF WaitInv, WaitTypes
<1>2. ASSUME NEW k \in Heights, work'[k].pc = "wait", work'[k].block \in chain'
      PROVE  work'[k].got # "none" \/ \E e \in eventCh' : e.block = work'[k].block
  <2>1. CASE k = h
    BY <2>1, <1>2 DEF WaitInv, WaitTypes
  <2>2. CASE k # h
    <3>1. work'[k] = work[k]
      BY <2>2 DEF WaitInv, WaitTypes
    <3> QED
      BY <3>1, <1>2 DEF WaitInv, NoLostWakeup
  <2> QED
    BY <2>1, <2>2
<1> QED
  BY <1>1, <1>2 DEF WaitInv, NoLostWakeup

\* Every step keeps WaitInv.
LEMMA WaitStep ==
  ASSUME WaitInv, [Next]_vars
  PROVE  WaitInv'
<1> USE DEF WaitInv
<1>1. CASE UNCHANGED vars
  BY <1>1 DEF vars, WaitTypes, NoLostWakeup
<1>2. ASSUME NEW b \in Broadcast, ReceiveBlock(b)
      PROVE  WaitInv'
  BY <1>2, DownloadAssumption DEF ReceiveBlock, WaitTypes, NoLostWakeup
<1>3. ASSUME NEW b \in Block, ProcessTask(b)
      PROVE  WaitInv'
  <2>1. CASE lib \in Ancestors[b] /\ b \in Executable
    <3> DEFINE e == [topic |-> "accepted", block |-> b]
    <3>1. chain' = chain \cup {b} /\ eventCh' = eventCh \cup {e} /\ work' = work
          /\ pool' = pool \ {b}
      BY <1>3, <2>1 DEF ProcessTask
    <3>2. WaitTypes'
      BY <3>1 DEF WaitTypes
    <3>3. e.block = b
      OBVIOUS
    <3> HIDE DEF e
    <3> QED
      BY <3>1, <3>2, <3>3 DEF NoLostWakeup
  <2>2. CASE ~(lib \in Ancestors[b] /\ b \in Executable)
    <3>1. chain' = chain /\ work' = work /\ pool' = pool \ {b}
          /\ eventCh' = eventCh \cup {[topic |-> "invalid", block |-> b]}
      BY <1>3, <2>2 DEF ProcessTask
    <3> QED
      BY <3>1 DEF WaitTypes, NoLostWakeup
  <2> QED
    BY <2>1, <2>2
<1>4. ASSUME NEW b \in Block, SetLIB(b) \/ Evict(b)
      PROVE  WaitInv'
  BY <1>4 DEF SetLIB, Evict, WaitTypes, NoLostWakeup
<1>5. ASSUME NEW p \in Peers, PeerMoves(p)
      PROVE  WaitInv'
  BY <1>5 DEF PeerMoves, WaitTypes, NoLostWakeup
<1>6. ASSUME NEW e \in eventCh, Dispatch(e)
      PROVE  WaitInv'
  <2>1. ASSUME NEW h \in Heights
        PROVE  /\ work'[h] \in Worker
               /\ work'[h].pc = work[h].pc /\ work'[h].block = work[h].block
               /\ work[h].got # "none" => work'[h].got # "none"
               /\ work[h].pc = "wait" /\ work[h].block = e.block => work'[h].got # "none"
    <3>1. work[h] \in Worker /\ e.topic \in {"accepted", "invalid"}
      BY DEF WaitTypes
    <3>2. work'[h] = IF h \in Subscribed /\ work[h].block = e.block /\ work[h].got = "none"
                     THEN [work[h] EXCEPT !.got = e.topic] ELSE work[h]
      BY <1>6 DEF Dispatch
    <3> QED
      BY <3>1, <3>2 DEF Worker, Subscribed
  <2>2. work' \in [Heights -> Worker]
    BY <1>6, <2>1 DEF Dispatch
  <2>3. chain' = chain /\ pool' = pool /\ eventCh' = eventCh \ {e}
    BY <1>6 DEF Dispatch
  <2>4. ASSUME NEW h \in Heights, work'[h].pc = "wait", work'[h].block \in chain',
               work'[h].got = "none"
        PROVE  \E f \in eventCh' : f.block = work'[h].block
    <3>1. PICK f \in eventCh : f.block = work[h].block
      BY <2>1, <2>3, <2>4 DEF NoLostWakeup
    <3>2. f # e
      BY <2>1, <2>4, <3>1
    <3> QED
      BY <2>1, <2>3, <3>1, <3>2
  <2> QED
    BY <2>2, <2>3, <2>4 DEF WaitTypes, NoLostWakeup
<1>7. CASE DownloadStep
  <2>1. CASE FindBaseBlock \/ (\E p \in Peers, b \in Block \cup {NoBlock} : HandleFindBaseResponse(p, b))
             \/ FindBaseRequestFails \/ StepUpRequest
    BY ZenonT(60), <2>1 DEF FindBaseBlock, HandleFindBaseResponse, FindBaseRequestFails,
       StepUpRequest,
                WaitTypes, NoLostWakeup
  <2>2. CASE Tick
    <3> DEFINE w == [NoWorker EXCEPT !.pc = "ask"]
    <3>1. w \in Worker /\ w.pc # "wait"
      BY DownloadAssumption DEF NoWorker, Worker
    <3>2. work' = [work EXCEPT ![dl.height + 1] = w] /\ UNCHANGED <<chain, pool, eventCh>>
      BY <2>2 DEF Tick
    <3> HIDE DEF w
    <3>3. CASE dl.height + 1 \in Heights
      BY ZenonT(60), <3>1, <3>2, <3>3, OneWorker DEF WaitTypes
    <3>4. CASE dl.height + 1 \notin Heights
      <4>1. work' = work
        BY <3>2, <3>4 DEF WaitTypes
      <4> QED
        BY <4>1, <3>2 DEF WaitTypes, NoLostWakeup
    <3> QED
      BY <3>3, <3>4
  <2>3. ASSUME NEW h \in Heights, Collect(h)
        PROVE  WaitInv'
    BY ZenonT(60), <2>3, AgainTypes, OneWorker DEF Collect, WaitTypes
  <2> QED
    BY <1>7, <2>1, <2>2, <2>3 DEF DownloadStep
<1>8. ASSUME NEW h \in Heights, WorkerStep(h)
      PROVE  WaitInv'
  <2>1. ASSUME NEW p \in Peers, NEW b \in Block, HandleBlockByHeightResponse(h, p, b)
        PROVE  WaitInv'
    <3> DEFINE c == [work[h] EXCEPT !.pc = "check", !.block = b]
               w == IF Duplicated(b) \/ VerifyHeightAndTimestamp(lib, b) THEN c ELSE Again(h)
    <3>1. c \in Worker /\ c.pc = "check"
      BY ZenonT(60) DEF WaitTypes, Worker
    <3>2. w \in Worker /\ w.pc # "wait"
      BY <3>1, AgainTypes
    <3>3. work' = [work EXCEPT ![h] = w] /\ UNCHANGED <<chain, eventCh>> /\ pool' \subseteq Block
      BY <2>1 DEF HandleBlockByHeightResponse, Pushed, WaitTypes
    <3> HIDE DEF w
    <3> QED
      BY ZenonT(60), <3>2, <3>3, OneWorker
  <2>2. CASE BlockByHeightRequestFails(h) \/ PushTimesOut(h) \/ Abandon(h)
    BY <2>2, AgainTypes, OneWorker DEF BlockByHeightRequestFails, PushTimesOut, Abandon, WaitTypes
  <2>3. CASE CheckStored(h)
    <3>1. CASE work[h].block \in chain
      BY ZenonT(60), <2>3, <3>1, AgainTypes, OneWorker DEF CheckStored, WaitTypes
    <3>2. CASE work[h].block \notin chain
      <4> DEFINE w == [work[h] EXCEPT !.pc = "wait"]
      <4>1. w \in Worker /\ w.block = work[h].block
        BY DEF WaitTypes, Worker
      <4>2. work' = [work EXCEPT ![h] = w] /\ UNCHANGED <<chain, pool, eventCh>>
        BY <2>3, <3>2 DEF CheckStored
      <4> HIDE DEF w
      <4> QED
        BY ZenonT(60), <3>2, <4>1, <4>2, OneWorker DEF WaitTypes
    <3> QED
      BY <3>1, <3>2
  <2>4. CASE WakeUp(h)
    BY ZenonT(60), <2>4, AgainTypes, OneWorker DEF WakeUp, WaitTypes
  <2> QED
    BY <1>8, <2>1, <2>2, <2>3, <2>4 DEF WorkerStep
<1>9. CASE ServiceStop
  BY <1>9 DEF ServiceStop, WaitTypes, NoLostWakeup
<1> QED
  BY <1>1, <1>2, <1>3, <1>4, <1>5, <1>6, <1>7, <1>8, <1>9 DEF Next

\* No PushBlockDataSync2 call waits for a block whose event has already gone by,
\* whatever the LIB does.
THEOREM WakeupsKept == Spec => []NoLostWakeup
<1>1. Init => WaitInv
  <2>1. SUFFICES ASSUME Init PROVE WaitInv
    OBVIOUS
  <2>2. NoWorker \in Worker /\ NoWorker.pc = "off"
    BY DownloadAssumption DEF NoWorker, Worker
  <2>3. chain \subseteq Block
    BY <2>1, AncestorsClosed, DownloadAssumption DEF Init
  <2> QED
    BY <2>1, <2>2, <2>3 DEF Init, WaitInv, WaitTypes, NoLostWakeup
<1>2. WaitInv /\ [Next]_vars => WaitInv'
  BY WaitStep
<1>3. WaitInv => NoLostWakeup
  BY DEF WaitInv
<1> QED
  BY <1>1, <1>2, <1>3, PTL DEF Spec

-----------------------------------------------------------------------------
(* The inductive invariant.                                                *)

\* Steps of the rest of the node and of the peers.
LEMMA NodeStep ==
  ASSUME IInv, TypeOK', UNCHANGED <<dl, work>>, Storage,
         \A e \in eventCh' : e \in eventCh \/ e.topic # "accepted" \/ e.block \in chain'
  PROVE  IInv'
<1> USE DEF IInv
<1>1. lib \in Block /\ lib' \in Block
  BY DEF TypeOK
<1>2. Formed'
  BY DEF Formed, Subscribed
<1>3. Arrived'
  <2>1. ASSUME NEW e \in eventCh', e.topic = "accepted"
        PROVE  Stored(e.block)'
    <3>1. CASE e.block \in chain'
      BY <3>1 DEF Stored
    <3>2. CASE e \in eventCh
      <4>1. e.block \in Block /\ Stored(e.block)
        BY <2>1, <3>2 DEF TypeOK, Arrived
      <4> QED
        BY <1>1, <4>1, StoredStays
    <3> QED
      BY <2>1, <3>1, <3>2
  <2>2. ASSUME NEW h \in Subscribed', (work[h].got)' = "accepted"
        PROVE  Stored(work[h].block)'
    <3>1. h \in Subscribed /\ work'[h] = work[h]
      BY DEF Subscribed
    <3>2. work[h].block \in Block /\ Stored(work[h].block)
      BY <2>2, <3>1 DEF Arrived, Formed
    <3> DEFINE b == work[h].block
    <3>3. Stored(b)'
      <4>1. b' = b
        BY <3>1
      <4> HIDE DEF b
      <4> QED
        BY <1>1, <3>2, <4>1, StoredStays DEF b, Stored, Storage
    <3> QED
      BY <3>3
  <2> QED
    BY <2>1, <2>2 DEF Arrived
<1>4. SearchSound'
  <2>1. ASSUME NEW b \in Block, b \in Ancestors[lib]
        PROVE  b \in Ancestors[lib']
    BY <1>1, <2>1, AncestorsTransitive DEF Storage
  <2> QED
    BY <2>1 DEF SearchSound, Formed, targetHeight
<1>5. StepUpCanEnd'
  BY DEF StepUpCanEnd, Running, targetHeight
<1>6. ASSUME NEW b \in Block, Stored(b)
      PROVE  Stored(b)'
  BY <1>1, <1>6, StoredStays
<1>7. Covered'
  <2>1. ASSUME dl.pc = "step", ~dl.torn, NEW h \in Heights, dl.low < h, h <= dl.height
        PROVE  /\ h \in Subscribed => work[h].block = BlockAt(dl.target, h)
               /\ work[h].pc \in {"ok", "off"} => /\ BlockAt(dl.target, h) \in Block
                                                  /\ Stored(BlockAt(dl.target, h))'
    <3> DEFINE b == BlockAt(dl.target, h)
    <3>1. /\ h \in Subscribed => work[h].block = b
          /\ work[h].pc \in {"ok", "off"} => b \in Block /\ Stored(b)
      BY <2>1 DEF Covered
    <3>2. b' = b
      BY DEF BlockAt
    <3> HIDE DEF b
    <3>3. b \in Block /\ Stored(b) => Stored(b)'
      BY <1>6, <3>2 DEF Stored
    <3> QED
      BY <3>1, <3>3 DEF b
  <2>2. Subscribed' = Subscribed /\ Running' = Running
    BY DEF Subscribed, Running
  <2> QED
    BY <2>1, <2>2 DEF Covered, BlockAt
<1>8. FinishedOnTarget'
  <2>1. CASE dl.pc = "finished" /\ ~dl.torn
    <3> DEFINE b == dl.target
    <3>1. b \in Block /\ Stored(b) /\ b' = b
      BY <2>1 DEF Formed, FinishedOnTarget, Stored
    <3> HIDE DEF b
    <3>2. Stored(b)'
      BY <1>6, <3>1 DEF Stored
    <3> QED
      BY <3>2 DEF b, FinishedOnTarget, Stored
  <2>2. CASE ~(dl.pc = "finished" /\ ~dl.torn)
    BY <2>2 DEF FinishedOnTarget
  <2> QED
    BY <2>1, <2>2
<1> QED
  BY <1>2, <1>3, <1>4, <1>5, <1>7, <1>8

\* Facts about the workers of a download that steps up: they are finitely many
\* and no request is outstanding exactly when none runs.
LEMMA RunningCount ==
  ASSUME IInv, dl.pc = "step"
  PROVE  /\ IsFiniteSet(Running)
         /\ dl.requests = Cardinality(Running)
         /\ dl.requests \in Nat
         /\ dl.requests = 0 <=> Running = {}
<1>1. Running \subseteq 1..dl.height
  BY TreeAssumption DEF IInv, Covered, Running, Heights
<1>2. dl.height \in Nat
  BY DEF IInv, TypeOK, Downloads
<1>3. IsFiniteSet(Running)
  <2>1. IsFiniteSet(1..dl.height)
    BY <1>2, IntervalIsFinite
  <2> QED
    BY ZenonT(60), <1>1, <2>1, PartIsFinite
<1> QED
  BY <1>3, SizeType, EmptyIsFinite, SizeType DEF IInv, StepUpCanEnd

\* The worker of height h becomes w, and an answer may have been torn.
LEMMA WorkerChange ==
  ASSUME IInv, TypeOK', NEW h \in Heights, NEW w \in Worker, NEW x \in BOOLEAN,
         UNCHANGED <<chain, lib, eventCh>>,
         work[h].pc # "off",
         work' = [work EXCEPT ![h] = w],
         dl' = [dl EXCEPT !.torn = x], dl.torn => x,
         w.pc \in {"check", "wait"} =>
           /\ w.block \in Block
           /\ w.got = "accepted" => Stored(w.block)
           /\ dl.pc = "step" /\ ~x => w.block = BlockAt(dl.target, h),
         w.pc \notin {"check", "wait"} => w.got = "none",
         dl.pc = "step" =>
           /\ w.pc # "off"
           /\ w.pc = "ok" /\ ~x => /\ BlockAt(dl.target, h) \in Block
                                   /\ Stored(BlockAt(dl.target, h))
  PROVE  IInv'
<1> USE DEF IInv
<1>1. /\ dl'.pc = dl.pc /\ dl'.target = dl.target /\ dl'.base = dl.base
      /\ dl'.low = dl.low /\ dl'.high = dl.high /\ dl'.height = dl.height
      /\ dl'.requests = dl.requests /\ dl'.torn = x
  BY DEF TypeOK, Downloads
<1>2. work'[h] = w /\ \A k \in Heights : k # h => work'[k] = work[k]
  BY DEF TypeOK
<1>3. dl.pc \notin {"idle", "start", "search"}
  BY DEF Formed, NoWorker
<1>4. \A k \in Heights : k \in Subscribed' <=>
        IF k = h THEN w.pc \in {"check", "wait"} ELSE k \in Subscribed
  BY <1>2 DEF Subscribed
<1>5. Formed'
  BY <1>1, <1>2, <1>3, <1>4 DEF Formed, Subscribed
<1>6. Arrived'
  BY <1>2, <1>4 DEF Arrived, Stored, Subscribed
<1>7. SearchSound'
  BY <1>1 DEF SearchSound, targetHeight
<1>8. dl.pc = "step" => Running' = Running
  BY <1>2 DEF Running
<1>9. StepUpCanEnd'
  BY <1>1, <1>8 DEF StepUpCanEnd, targetHeight
<1>10. Covered'
  <2>1. CASE dl.pc = "step"
    <3>1. dl'.low <= dl'.height /\ \A k \in Running' : dl'.low < k /\ k <= dl'.height
      BY <1>1, <1>8, <2>1 DEF Covered
    <3>2. ASSUME ~x, NEW k \in Heights, dl.low < k, k <= dl.height
          PROVE  /\ k \in Subscribed' => work'[k].block = BlockAt(dl.target, k)
                 /\ work'[k].pc \in {"ok", "off"} => /\ BlockAt(dl.target, k) \in Block
                                                     /\ Stored(BlockAt(dl.target, k))
      <4>1. CASE k = h
        BY <1>2, <1>4, <2>1, <3>2, <4>1
      <4>2. CASE k # h
        BY <1>2, <1>4, <2>1, <3>2, <4>2 DEF Covered
      <4> QED
        BY <4>1, <4>2
    <3>3. \A k \in Heights : BlockAt(dl.target, k)' = BlockAt(dl.target, k)
      BY <1>1 DEF BlockAt
    <3>4. \A b : Stored(b)' <=> Stored(b)
      BY DEF Stored
    <3> QED
      BY <1>1, <2>1, <3>1, <3>2, <3>3, <3>4 DEF Covered, Stored
  <2>2. CASE dl.pc # "step"
    BY <1>1, <2>2 DEF Covered
  <2> QED
    BY <2>1, <2>2
<1>11. FinishedOnTarget'
  BY <1>1 DEF FinishedOnTarget
<1> QED
  BY <1>5, <1>6, <1>7, <1>9, <1>10, <1>11

\* A failed attempt keeps a worker of a download that still steps up running,
\* and one that has succeeded reports success.
LEMMA AgainShape ==
  ASSUME TypeOK, NEW h \in Heights
  PROVE  /\ Again(h) \in Worker /\ Again(h).pc \in {"ask", "error", "off"}
         /\ Again(h).got = "none"
         /\ dl.pc = "step" => Again(h).pc # "off"
         /\ Succeeded \in Worker /\ Succeeded.pc = "ok" /\ Succeeded.got = "none"
<1>1. WaitTypes
  BY DEF TypeOK, WaitTypes
<1>2. Again(h) \in Worker /\ Succeeded \in Worker
  BY <1>1, AgainTypes
<1> QED
  BY <1>2 DEF Again, Succeeded, NoWorker

\* Steps of one worker.
LEMMA WorkerKeeps ==
  ASSUME IInv, NEW h \in Heights, WorkerStep(h)
  PROVE  IInv'
<1> USE DEF IInv
<1>1. work[h] \in Worker /\ dl \in Downloads /\ lib \in Block
  BY DEF TypeOK
<1>2. dl.torn \in BOOLEAN /\ dl = [dl EXCEPT !.torn = dl.torn]
  BY <1>1 DEF Downloads
<1>3. ASSUME NEW w \in Worker, work' = [work EXCEPT ![h] = w], work[h].pc # "off",
             UNCHANGED <<chain, pool, lib, peer, dl, eventCh>>,
             w.pc \in {"check", "wait"} =>
               /\ w.block \in Block
               /\ w.got = "accepted" => Stored(w.block)
               /\ dl.pc = "step" /\ ~dl.torn => w.block = BlockAt(dl.target, h),
             w.pc \notin {"check", "wait"} => w.got = "none",
             dl.pc = "step" =>
               /\ w.pc # "off"
               /\ w.pc = "ok" /\ ~dl.torn => /\ BlockAt(dl.target, h) \in Block
                                             /\ Stored(BlockAt(dl.target, h))
      PROVE  IInv'
  <2>1. TypeOK'
    BY <1>3 DEF TypeOK
  <2>2. dl' = [dl EXCEPT !.torn = dl.torn]
    BY <1>2, <1>3
  <2> QED
    BY ZenonT(60), <1>2, <1>3, <2>1, <2>2, WorkerChange
<1>4. ASSUME dl.pc = "step", work[h].pc # "off"
      PROVE  dl.low < h /\ h <= dl.height
  BY <1>4 DEF Covered, Running
<1>5. ASSUME work[h].pc \in {"ask", "wait"}, work' = [work EXCEPT ![h] = Again(h)],
             UNCHANGED <<chain, pool, lib, peer, dl, eventCh>>
      PROVE  IInv'
  <2> DEFINE w == Again(h)
  <2>1. /\ w \in Worker /\ w.pc \in {"ask", "error", "off"} /\ w.got = "none"
        /\ dl.pc = "step" => w.pc # "off"
    BY AgainShape
  <2> HIDE DEF w
  <2> QED
    BY ZenonT(60), <1>3, <1>5, <2>1 DEF w
<1>6. ASSUME work[h].pc \in {"check", "wait"}, Stored(work[h].block),
             work' = [work EXCEPT ![h] = Succeeded],
             UNCHANGED <<chain, pool, lib, peer, dl, eventCh>>
      PROVE  IInv'
  <2> DEFINE w == Succeeded
  <2>1. w \in Worker /\ w.pc = "ok" /\ w.got = "none"
    BY AgainShape
  <2>2. work[h].block \in Block
    BY <1>6 DEF Formed, Subscribed
  <2>3. dl.pc = "step" /\ ~dl.torn => work[h].block = BlockAt(dl.target, h)
    BY <1>4, <1>6 DEF Covered, Subscribed
  <2> HIDE DEF w
  <2>4. dl.pc = "step" /\ ~dl.torn => /\ BlockAt(dl.target, h) \in Block
                                      /\ Stored(BlockAt(dl.target, h))
    BY <1>6, <2>2, <2>3
  <2> QED
    BY ZenonT(60), <1>3, <1>6, <2>1, <2>4 DEF w
<1>7. ASSUME NEW p \in Peers, NEW b \in Block, HandleBlockByHeightResponse(h, p, b)
      PROVE  IInv'
  <2> DEFINE c == [work[h] EXCEPT !.pc = "check", !.block = b]
             w == IF Duplicated(b) \/ VerifyHeightAndTimestamp(lib, b) THEN c ELSE Again(h)
             x == dl.torn \/ Torn(h, b)
  <2>1. work[h].got = "none" /\ work[h].pc = "ask"
    BY <1>7 DEF HandleBlockByHeightResponse, Formed, Subscribed
  <2>2. c \in Worker /\ c.pc = "check" /\ c.block = b /\ c.got = "none"
    BY ZenonT(60), <1>1, <2>1 DEF Worker
  <2> HIDE DEF c
  <2>3. /\ w \in Worker /\ w.pc \in {"check", "ask", "error", "off"}
        /\ w.got = "none" /\ w.pc = "check" => w.block = b
        /\ dl.pc = "step" => w.pc # "off"
    BY <2>2, AgainShape
  <2>4. w.got = "none"
    BY <2>2, AgainShape
  <2>5. /\ work' = [work EXCEPT ![h] = w] /\ dl' = [dl EXCEPT !.torn = x]
        /\ UNCHANGED <<chain, lib, eventCh>>
    BY <1>7 DEF HandleBlockByHeightResponse, c
  <2>6. pool' \subseteq Block /\ peer' \in [Peers -> Tails]
    BY <1>7 DEF HandleBlockByHeightResponse, Pushed, Answers, TypeOK
  <2>7. x \in BOOLEAN /\ (dl.torn => x) /\ (~x => b = BlockAt(dl.target, h))
    BY <1>2 DEF Torn
  <2> HIDE DEF w, x
  <2>8. dl' \in Downloads
    BY <1>1, <2>5, <2>7 DEF Downloads
  <2>9. TypeOK'
    BY <2>3, <2>5, <2>6, <2>8 DEF TypeOK
  <2> QED
    BY ZenonT(60), <2>1, <2>3, <2>4, <2>5, <2>7, <2>9, WorkerChange
<1>8. CASE BlockByHeightRequestFails(h) \/ PushTimesOut(h)
  BY <1>5, <1>8 DEF BlockByHeightRequestFails, PushTimesOut
<1>9. CASE CheckStored(h)
  <2>1. CASE work[h].block \in chain
    BY <1>6, <1>9, <2>1 DEF CheckStored, Stored
  <2>2. CASE work[h].block \notin chain
    <3> DEFINE w == [work[h] EXCEPT !.pc = "wait"]
    <3>1. w \in Worker /\ w.pc = "wait" /\ w.block = work[h].block /\ w.got = work[h].got
      BY <1>1 DEF Worker
    <3>2. h \in Subscribed /\ work[h].pc = "check"
      BY <1>9 DEF CheckStored, Subscribed
    <3>3. /\ work[h].block \in Block
          /\ work[h].got = "accepted" => Stored(work[h].block)
          /\ dl.pc = "step" /\ ~dl.torn => work[h].block = BlockAt(dl.target, h)
      BY <3>2, <1>4 DEF Formed, Arrived, Covered
    <3>4. work' = [work EXCEPT ![h] = w] /\ UNCHANGED <<chain, pool, lib, peer, dl, eventCh>>
      BY <1>9, <2>2 DEF CheckStored
    <3> HIDE DEF w
    <3> QED
      BY ZenonT(60), <1>3, <3>1, <3>2, <3>3, <3>4
  <2> QED
    BY <2>1, <2>2
<1>10. CASE WakeUp(h)
  <2>1. CASE work[h].got = "accepted"
    <3>1. work[h].pc = "wait" /\ Stored(work[h].block)
      BY <1>10, <2>1 DEF WakeUp, Arrived, Subscribed
    <3> QED
      BY <1>6, <1>10, <2>1, <3>1 DEF WakeUp
  <2>2. CASE work[h].got # "accepted"
    BY <1>5, <1>10, <2>2 DEF WakeUp
  <2> QED
    BY <2>1, <2>2
<1>11. CASE Abandon(h)
  <2>1. NoWorker \in Worker /\ NoWorker.pc = "off" /\ NoWorker.got = "none"
    BY DownloadAssumption DEF NoWorker, Worker
  <2> QED
    BY ZenonT(60), <1>3, <1>11, <2>1 DEF Abandon
<1> QED
  BY <1>7, <1>8, <1>9, <1>10, <1>11 DEF WorkerStep

\* An event reaches its subscribers.
LEMMA DispatchKeeps ==
  ASSUME IInv, NEW e \in eventCh, Dispatch(e)
  PROVE  IInv'
<1> USE DEF IInv
<1>1. /\ chain' = chain /\ pool' = pool /\ lib' = lib /\ peer' = peer /\ dl' = dl
      /\ eventCh' = eventCh \ {e}
  BY DEF Dispatch
<1>2. e.topic \in {"accepted", "invalid"} /\ e.block \in Block
  BY DEF TypeOK
<1>3. ASSUME NEW h \in Heights
      PROVE  /\ work'[h] \in Worker
             /\ work'[h].pc = work[h].pc /\ work'[h].block = work[h].block
             /\ \/ work'[h] = work[h]
                \/ /\ h \in Subscribed /\ work[h].block = e.block
                   /\ work'[h].got = e.topic
  <2>1. work'[h] = IF h \in Subscribed /\ work[h].block = e.block /\ work[h].got = "none"
                   THEN [work[h] EXCEPT !.got = e.topic] ELSE work[h]
    BY DEF Dispatch
  <2>2. work[h] \in Worker
    BY DEF TypeOK
  <2> QED
    BY <1>2, <2>1, <2>2 DEF Worker
<1>4. work' \in [Heights -> Worker]
  BY <1>3 DEF Dispatch
<1>5. TypeOK'
  BY <1>1, <1>4 DEF TypeOK
<1>6. Subscribed' = Subscribed /\ Running' = Running
  BY <1>3 DEF Subscribed, Running
<1>7. Formed'
  BY <1>1, <1>3, <1>6 DEF Formed, Subscribed, NoWorker
<1>8. \A b : Stored(b)' <=> Stored(b)
  BY <1>1 DEF Stored
<1>9. Arrived'
  <2>1. ASSUME NEW h \in Subscribed, work'[h].got = "accepted"
        PROVE  Stored(work'[h].block)
    BY <1>3, <2>1 DEF Arrived, Subscribed
  <2> QED
    BY <1>1, <1>6, <1>8, <2>1 DEF Arrived, Stored
<1>10. SearchSound' /\ StepUpCanEnd' /\ FinishedOnTarget'
  BY <1>1, <1>6 DEF SearchSound, StepUpCanEnd, FinishedOnTarget, targetHeight
<1>11. Covered'
  <2>1. \A k \in Heights : BlockAt(dl.target, k)' = BlockAt(dl.target, k)
    BY <1>1 DEF BlockAt
  <2> QED
    BY <1>1, <1>3, <1>6, <1>8, <2>1 DEF Covered, Stored
<1> QED
  BY <1>5, <1>7, <1>9, <1>10, <1>11

\* Steps of the start goroutine that touch no worker and stay in the search, or
\* leave it for the step-up, or end the download without success.
LEMMA SearchKeeps ==
  ASSUME IInv, BaseBelow, UNCHANGED <<chain, pool, lib, work, eventCh>>,
         \/ FindBaseBlock
         \/ \E p \in Peers, b \in Block \cup {NoBlock} : HandleFindBaseResponse(p, b)
         \/ FindBaseRequestFails
         \/ StepUpRequest
         \/ ServiceStop
  PROVE  IInv'
<1> USE DEF IInv
<1>1. dl \in Downloads /\ lib \in Block
  BY DEF TypeOK
<1>2. Subscribed' = Subscribed /\ Running' = Running
  BY DEF Subscribed, Running
<1>3. \A b : Stored(b)' <=> Stored(b)
  BY DEF Stored
<1>4. Arrived'
  BY <1>2, <1>3 DEF Arrived, Stored
<1>5. ASSUME dl' \in Downloads, peer' \in [Peers -> Tails], dl'.target \in Block,
             dl'.pc \in {"search", "step"} => dl'.base \in Block,
             dl'.pc \in {"idle", "start", "search"} =>
               dl'.requests = 0 /\ \A h \in Heights : work[h] = NoWorker,
             SearchSound', StepUpCanEnd', Covered', dl'.pc # "finished"
      PROVE  IInv'
  <2>1. TypeOK'
    BY <1>5 DEF TypeOK
  <2>2. Formed'
    BY <1>2, <1>5 DEF Formed
  <2>3. FinishedOnTarget'
    BY <1>5 DEF FinishedOnTarget
  <2> QED
    BY <1>4, <1>5, <2>1, <2>2, <2>3
<1>6. ASSUME FindBaseBlock PROVE IInv'
  <2>1. dl' = [dl EXCEPT !.pc = "search", !.base = lib, !.low = Height[lib],
                         !.high = targetHeight] /\ peer' = peer /\ dl.pc = "start"
    BY <1>6 DEF FindBaseBlock
  <2>2. dl.target \in Block /\ Height[lib] \in Nat /\ targetHeight \in Nat
        /\ Height[lib] < targetHeight /\ lib \in Ancestors[lib]
    BY <1>1, <2>1, TreeAssumption, AncestorsClosed DEF Formed, BaseBelow, targetHeight
  <2>3. dl' \in Downloads
    BY ZenonT(60), <1>1, <2>1, <2>2 DEF Downloads
  <2>4. /\ dl'.pc = "search" /\ dl'.base = lib /\ dl'.low = Height[lib]
        /\ dl'.high = targetHeight /\ dl'.target = dl.target /\ dl'.requests = dl.requests
    BY <1>1, <2>1 DEF Downloads
  <2>5. SearchSound'
    BY <2>2, <2>4 DEF SearchSound, targetHeight
  <2>6. StepUpCanEnd' /\ Covered'
    BY <2>4 DEF StepUpCanEnd, Covered
  <2> QED
    BY <1>1, <1>5, <2>1, <2>2, <2>3, <2>4, <2>5, <2>6 DEF Formed, TypeOK
<1>7. ASSUME NEW p \in Peers, NEW b \in Block \cup {NoBlock}, HandleFindBaseResponse(p, b)
      PROVE  IInv'
  <2> DEFINE x == dl.torn \/ Torn(try, b)
             k == try
  <2>1. dl.pc = "search" /\ k # dl.low /\ Answers(p, k, b)
    BY ZenonT(60), <1>7 DEF HandleFindBaseResponse
  <2>2. /\ dl.target \in Block /\ dl.base \in Block /\ dl.low \in Nat /\ dl.high \in Nat
        /\ targetHeight \in Nat /\ dl.low < dl.high /\ dl.high <= targetHeight
    BY <1>1, <2>1, TreeAssumption DEF Formed, SearchSound, Downloads, targetHeight
  <2>3. k \in Nat /\ dl.low < k /\ k < dl.high
    BY <2>1, <2>2 DEF try
  <2>4. x \in BOOLEAN /\ (dl.torn => x) /\ (~x => b = BlockAt(dl.target, k))
    BY <1>1 DEF Torn, Downloads
  <2>5. PICK t \in Tails : b = BlockAt(t, k) /\ peer' = [peer EXCEPT ![p] = t]
    BY ZenonT(60), <2>1 DEF Answers
  <2>6. t \in Block /\ peer' \in [Peers -> Tails]
    BY <2>5, DownloadAssumption DEF TypeOK
  <2>7. dl' = IF b \notin chain
              THEN [dl EXCEPT !.high = k, !.retry = 0, !.torn = x]
              ELSE [dl EXCEPT !.low = k, !.base = b, !.retry = 0, !.torn = x]
    BY ZenonT(60), <1>7 DEF HandleFindBaseResponse
  <2>8. 0 \in 0..(Retries - 1)
    BY DownloadAssumption
  <2> HIDE DEF x, k
  <2>9. CASE b \notin chain
    <3>1. /\ dl' \in Downloads
          /\ dl'.pc = "search" /\ dl'.base = dl.base /\ dl'.low = dl.low
          /\ dl'.high = k /\ dl'.target = dl.target /\ dl'.torn = x
          /\ dl'.requests = dl.requests
      BY ZenonT(60), <1>1, <2>1, <2>3, <2>4, <2>7, <2>9, <2>8 DEF Downloads
    <3>2. SearchSound'
      BY <2>1, <2>2, <2>3, <2>4, <3>1 DEF SearchSound, targetHeight
    <3>3. StepUpCanEnd' /\ Covered'
      BY <3>1 DEF StepUpCanEnd, Covered
    <3> QED
      BY <1>5, <2>1, <2>2, <2>6, <3>1, <3>2, <3>3 DEF Formed
  <2>10. CASE b \in chain
    <3>1. b \in Block /\ b # NoBlock
      BY <2>10, TreeAssumption DEF TypeOK
    <3>2. /\ dl' \in Downloads
          /\ dl'.pc = "search" /\ dl'.base = b /\ dl'.low = k
          /\ dl'.high = dl.high /\ dl'.target = dl.target /\ dl'.torn = x
          /\ dl'.requests = dl.requests
      BY ZenonT(60), <1>1, <2>1, <2>3, <2>4, <2>7, <2>10, <2>8, <3>1 DEF Downloads
    <3>3. Height[b] = k
      BY <2>5, <2>6, <3>1, AtSound
    <3>4. ~x => b \in Ancestors[dl.target]
      BY <2>2, <2>4, <3>1, AtSound
    <3>5. SearchSound'
      BY <2>2, <2>3, <3>2, <3>3, <3>4 DEF SearchSound, targetHeight
    <3>6. StepUpCanEnd' /\ Covered'
      BY <3>2 DEF StepUpCanEnd, Covered
    <3> QED
      BY <1>5, <2>1, <2>2, <2>6, <3>1, <3>2, <3>5, <3>6 DEF Formed
  <2> QED
    BY <2>9, <2>10
<1>8. ASSUME FindBaseRequestFails PROVE IInv'
  <2>1. dl.pc = "search" /\ peer' = peer
    BY <1>8 DEF FindBaseRequestFails
  <2>2. CASE dl.retry + 1 < Retries
    <3> DEFINE r == dl.retry + 1
    <3>1. dl' = [dl EXCEPT !.retry = r] /\ r \in 0..(Retries - 1)
      BY <1>1, <1>8, <2>2, DownloadAssumption DEF FindBaseRequestFails, Downloads
    <3> HIDE DEF r
    <3>2. /\ dl' \in Downloads
          /\ dl'.pc = "search" /\ dl'.base = dl.base /\ dl'.low = dl.low
          /\ dl'.high = dl.high /\ dl'.target = dl.target /\ dl'.torn = dl.torn
          /\ dl'.requests = dl.requests
      BY <1>1, <2>1, <3>1 DEF Downloads
    <3>3. SearchSound' /\ StepUpCanEnd' /\ Covered'
      BY <2>1, <3>2 DEF SearchSound, StepUpCanEnd, Covered, targetHeight
    <3> QED
      BY <1>5, <2>1, <3>2, <3>3 DEF Formed, TypeOK
  <2>3. CASE ~(dl.retry + 1 < Retries)
    <3>1. dl' = [dl EXCEPT !.pc = "failed"]
      BY <1>8, <2>3 DEF FindBaseRequestFails
    <3>2. dl' \in Downloads /\ dl'.pc = "failed" /\ dl'.target = dl.target
      BY <1>1, <3>1 DEF Downloads
    <3> QED
      BY ZenonT(60), <1>5, <2>1, <3>2 DEF SearchSound, StepUpCanEnd, Covered, Formed, TypeOK
  <2> QED
    BY <2>2, <2>3
<1>9. ASSUME StepUpRequest PROVE IInv'
  <2>1. dl.pc = "search" /\ peer' = peer
        /\ dl' = [dl EXCEPT !.pc = "step", !.height = Height[dl.base]]
    BY <1>9 DEF StepUpRequest
  <2>2. /\ dl.target \in Block /\ dl.base \in Block /\ dl.low \in Nat /\ dl.high \in Nat
        /\ targetHeight \in Nat /\ dl.low < dl.high /\ dl.high <= targetHeight
        /\ Height[dl.base] = dl.low
    BY <1>1, <2>1, TreeAssumption DEF Formed, SearchSound, Downloads, targetHeight
  <2>3. /\ dl' \in Downloads
        /\ dl'.pc = "step" /\ dl'.base = dl.base /\ dl'.low = dl.low /\ dl'.high = dl.high
        /\ dl'.target = dl.target /\ dl'.torn = dl.torn /\ dl'.height = dl.low
        /\ dl'.requests = dl.requests
    BY ZenonT(60), <1>1, <2>1, <2>2 DEF Downloads
  <2>4. Running = {}
    BY <2>1 DEF Formed, Running, NoWorker
  <2>5. SearchSound'
    BY <2>1, <2>3 DEF SearchSound, targetHeight
  <2>6. dl.requests = 0
    BY <2>1 DEF Formed
  <2>7. StepUpCanEnd'
    <3>1. targetHeight' = targetHeight /\ Cardinality(Running') = 0
      BY ZenonT(60), <1>2, <2>3, <2>4, EmptyIsFinite, SizeType DEF targetHeight, Running
    <3> HIDE DEF targetHeight, Running
    <3> QED
      BY <2>2, <2>3, <2>6, <3>1 DEF StepUpCanEnd
  <2>8. Covered'
    BY <1>2, <2>2, <2>3, <2>4, TreeAssumption DEF Covered, Heights
  <2> QED
    BY <1>5, <2>1, <2>2, <2>3, <2>5, <2>7, <2>8 DEF TypeOK
<1>10. ASSUME ServiceStop PROVE IInv'
  <2>1. dl' = [dl EXCEPT !.pc = "failed"] /\ peer' = peer /\ dl.pc # "idle"
    BY <1>10 DEF ServiceStop, IsDownloadActivated
  <2>2. dl' \in Downloads /\ dl'.pc = "failed" /\ dl'.target = dl.target
    BY <1>1, <2>1 DEF Downloads
  <2> QED
    BY <1>5, <2>1, <2>2 DEF SearchSound, StepUpCanEnd, Covered, Formed, TypeOK
<1> QED
  BY <1>6, <1>7, <1>8, <1>9, <1>10

\* The ticker starts one more worker, at a height that had none.
LEMMA TickKeeps ==
  ASSUME IInv, Tick
  PROVE  IInv'
<1> USE DEF IInv
<1> DEFINE h == dl.height + 1
           w == [NoWorker EXCEPT !.pc = "ask"]
<1>1. /\ dl.pc = "step" /\ dl.requests < Limit /\ dl.height # targetHeight
      /\ dl' = [dl EXCEPT !.requests = dl.requests + 1, !.height = h]
      /\ work' = [work EXCEPT ![h] = w]
      /\ UNCHANGED <<chain, pool, lib, peer, eventCh>>
  BY DEF Tick
<1>2. /\ dl \in Downloads /\ dl.target \in Block /\ dl.base \in Block
      /\ dl.height \in Nat /\ dl.low \in Nat /\ targetHeight \in Nat /\ dl.requests \in Nat
  BY <1>1, TreeAssumption DEF TypeOK, Formed, Downloads, targetHeight
<1>3. dl.height < targetHeight
  BY <1>1, <1>2 DEF StepUpCanEnd
<1>4. h \in Heights
  BY <1>2, <1>3 DEF Heights, targetHeight
<1>5. w \in Worker /\ w.pc = "ask" /\ w.got = "none"
  BY DownloadAssumption DEF NoWorker, Worker
<1>6. dl.requests + 1 \in 0..Limit
  BY <1>1, <1>2, DownloadAssumption
<1>7. /\ dl' \in Downloads
      /\ dl'.pc = "step" /\ dl'.base = dl.base /\ dl'.low = dl.low /\ dl'.high = dl.high
      /\ dl'.target = dl.target /\ dl'.torn = dl.torn /\ dl'.height = h
      /\ dl'.requests = dl.requests + 1
  <2>1. h \in Nat
    BY <1>2
  <2> HIDE DEF h
  <2> QED
    BY ZenonT(60), <1>1, <1>2, <1>6, <2>1 DEF Downloads
<1>8. h \notin Running /\ work[h].pc = "off"
  <2>1. h \notin Running
    BY <1>1, <1>2 DEF Covered
  <2> QED
    BY <1>4, <2>1 DEF Running
<1>9. work'[h] = w /\ \A k \in Heights : k # h => work'[k] = work[k]
  BY <1>1, <1>4 DEF TypeOK
<1>10. Running' = Running \cup {h} /\ Subscribed' = Subscribed
  <2> HIDE DEF w, h
  <2>1. Subscribed' = Subscribed
    BY <1>4, <1>5, <1>8, <1>9 DEF Subscribed
  <2> QED
    BY <2>1, <1>4, <1>5, <1>9 DEF Running
<1>11. \A b : Stored(b)' <=> Stored(b)
  BY <1>1 DEF Stored
<1> HIDE DEF w
<1>12. TypeOK'
  BY <1>1, <1>4, <1>5, <1>7 DEF TypeOK
<1>13. Formed'
  <2>1. \A k \in Subscribed : k # h
    BY <1>8 DEF Subscribed
  <2> QED
    BY <1>2, <1>5, <1>7, <1>9, <1>10, <2>1 DEF Formed, Subscribed
<1>14. Arrived'
  <2>1. \A k \in Subscribed : work'[k] = work[k]
    BY <1>8, <1>9 DEF Subscribed
  <2> QED
    BY <1>1, <1>10, <1>11, <2>1 DEF Arrived, Stored
<1>15. SearchSound'
  BY <1>1, <1>7 DEF SearchSound, targetHeight
<1>16. StepUpCanEnd'
  <2>1. Cardinality(Running') = Cardinality(Running) + 1
    BY ZenonT(60), <1>1, <1>8, <1>10, RunningCount, SizeAdd
  <2>2. dl'.requests = Cardinality(Running')
    BY <1>1, <1>7, <2>1, RunningCount
  <2>3. targetHeight' = targetHeight
    BY <1>7 DEF targetHeight
  <2> QED
    BY <1>2, <1>3, <1>7, <2>2, <2>3 DEF StepUpCanEnd
<1>17. Covered'
  <2>1. dl'.low <= dl'.height /\ \A k \in Running' : dl'.low < k /\ k <= dl'.height
    <3>1. \A k \in Running : k \in Nat
      BY TreeAssumption DEF Running, Heights
    <3> QED
      BY <1>1, <1>2, <1>7, <1>10, <3>1 DEF Covered
  <2>2. \A k \in Heights : BlockAt(dl.target, k)' = BlockAt(dl.target, k)
    BY <1>7 DEF BlockAt
  <2>3. ASSUME ~dl.torn, NEW k \in Heights, dl.low < k, k <= h
        PROVE  /\ k \in Subscribed' => work'[k].block = BlockAt(dl.target, k)
               /\ work'[k].pc \in {"ok", "off"} => /\ BlockAt(dl.target, k) \in Block
                                                   /\ Stored(BlockAt(dl.target, k))
    <3>1. CASE k = h
      BY <1>5, <1>8, <1>9, <1>10, <3>1 DEF Subscribed
    <3>2. CASE k # h
      <4>1. k \in Nat
        BY TreeAssumption DEF Heights
      <4>2. k <= dl.height
        BY <1>2, <2>3, <3>2, <4>1
      <4> QED
        BY <1>1, <1>9, <1>10, <2>3, <3>2, <4>2 DEF Covered
    <3> QED
      BY <3>1, <3>2
  <2> QED
    BY <1>7, <1>11, <2>1, <2>2, <2>3 DEF Covered, Stored
<1>18. FinishedOnTarget'
  BY <1>7 DEF FinishedOnTarget
<1> QED
  BY <1>12, <1>13, <1>14, <1>15, <1>16, <1>17, <1>18

\* A result is collected; after the last success the target is stored.
LEMMA CollectKeeps ==
  ASSUME IInv, NEW h \in Heights, Collect(h)
  PROVE  IInv'
<1> USE DEF IInv
<1>1. /\ dl.pc = "step" /\ work[h].pc \in {"ok", "error"}
      /\ work' = [work EXCEPT ![h] = NoWorker]
      /\ UNCHANGED <<chain, pool, lib, peer, eventCh>>
  BY DEF Collect
<1>2. /\ dl \in Downloads /\ dl.target \in Block /\ dl.base \in Block
      /\ dl.height \in Nat /\ dl.low \in Nat /\ targetHeight \in Nat
      /\ dl.low < dl.high /\ dl.high \in Nat /\ dl.high <= targetHeight
  BY <1>1, TreeAssumption DEF TypeOK, Formed, Downloads, targetHeight, SearchSound
<1>3. NoWorker \in Worker /\ NoWorker.pc = "off" /\ NoWorker.got = "none"
  BY DownloadAssumption DEF NoWorker, Worker
<1>4. work'[h] = NoWorker /\ \A k \in Heights : k # h => work'[k] = work[k]
  BY <1>1 DEF TypeOK
<1>5. h \in Running /\ h \notin Subscribed
  BY <1>1 DEF Running, Subscribed
<1>6. Running' = Running \ {h} /\ Subscribed' = Subscribed
  <2>1. \A k \in Heights : work'[k].pc = IF k = h THEN "off" ELSE work[k].pc
    BY <1>3, <1>4
  <2>2. Running' = Running \ {h}
    BY <2>1 DEF Running
  <2>3. Subscribed' = Subscribed
    BY <1>1, <2>1 DEF Subscribed
  <2> QED
    BY <2>2, <2>3
<1>7. /\ dl.requests = Cardinality(Running) /\ dl.requests \in Nat /\ dl.requests > 0
      /\ Cardinality(Running') = dl.requests - 1 /\ IsFiniteSet(Running)
  <2>1. /\ IsFiniteSet(Running) /\ dl.requests = Cardinality(Running)
        /\ dl.requests \in Nat /\ dl.requests # 0
    BY <1>1, <1>5, RunningCount
  <2>2. Cardinality(Running \ {h}) = Cardinality(Running) - 1
    BY ZenonT(60), <1>5, <2>1, SizeRemove
  <2> QED
    BY <1>6, <2>1, <2>2
<1>8. \A b : Stored(b)' <=> Stored(b)
  BY <1>1 DEF Stored
<1>9. Arrived'
  <2>1. \A k \in Subscribed : work'[k] = work[k]
    BY <1>4, <1>5 DEF Subscribed
  <2> QED
    BY <1>1, <1>6, <1>8, <2>1 DEF Arrived, Stored
<1>10. ASSUME dl' \in Downloads, dl'.pc \in {"step", "finished", "failed"},
              dl'.target = dl.target, dl'.base = dl.base
       PROVE  TypeOK' /\ Formed'
  <2>1. TypeOK'
    BY <1>1, <1>3, <1>10 DEF TypeOK
  <2>2. Formed'
    BY <1>2, <1>3, <1>4, <1>5, <1>6, <1>10 DEF Formed, Subscribed
  <2> QED
    BY <2>1, <2>2
<1>11. CASE work[h].pc = "error"
  <2>1. dl' = [dl EXCEPT !.pc = "failed"]
    BY <1>11 DEF Collect
  <2>2. dl' \in Downloads /\ dl'.pc = "failed" /\ dl'.target = dl.target /\ dl'.base = dl.base
    BY <1>2, <2>1 DEF Downloads
  <2>3. SearchSound' /\ StepUpCanEnd' /\ Covered' /\ FinishedOnTarget'
    BY <2>2 DEF SearchSound, StepUpCanEnd, Covered, FinishedOnTarget
  <2> QED
    BY <1>9, <1>10, <2>2, <2>3
<1>12. CASE work[h].pc = "ok"
  <2> DEFINE last == dl.requests = 1 /\ dl.height = targetHeight
             q == IF last THEN "finished" ELSE "step"
             r == dl.requests - 1
  <2>1. dl' = [dl EXCEPT !.requests = r, !.pc = q]
    BY <1>1, <1>12 DEF Collect
  <2>2. r \in 0..Limit /\ q \in {"step", "finished"}
    BY <1>2, <1>7, DownloadAssumption DEF Downloads
  <2>3. (q = "finished" <=> last) /\ (q = "step" <=> ~last)
    OBVIOUS
  <2> HIDE DEF q, r, last
  <2>4. /\ dl' \in Downloads
        /\ dl'.pc = q /\ dl'.base = dl.base /\ dl'.low = dl.low /\ dl'.high = dl.high
        /\ dl'.target = dl.target /\ dl'.torn = dl.torn /\ dl'.height = dl.height
        /\ dl'.requests = r
    BY ZenonT(60), <1>2, <2>1, <2>2 DEF Downloads
  <2>5. SearchSound'
    BY <1>1, <2>2, <2>4 DEF SearchSound, targetHeight
  <2>6. targetHeight' = targetHeight
    BY <2>4 DEF targetHeight
  <2>7. StepUpCanEnd'
    <3>1. CASE ~last
      <4>1. dl.height <= targetHeight
        BY <1>1 DEF StepUpCanEnd
      <4>2. dl.height < targetHeight \/ r > 0
        BY <1>2, <1>7, <3>1, <4>1 DEF last, r
      <4>3. r = Cardinality(Running')
        BY <1>7 DEF r
      <4> QED
        BY <2>4, <2>6, <4>1, <4>2, <4>3 DEF StepUpCanEnd
    <3>2. CASE last
      BY <2>3, <2>4, <3>2 DEF StepUpCanEnd
    <3> QED
      BY <3>1, <3>2
  <2>8. \A k \in Heights : BlockAt(dl.target, k)' = BlockAt(dl.target, k)
    BY <2>4 DEF BlockAt
  <2>9. ASSUME ~dl.torn, NEW k \in Heights, dl.low < k, k <= dl.height
        PROVE  /\ k \in Subscribed' => work'[k].block = BlockAt(dl.target, k)
               /\ work'[k].pc \in {"ok", "off"} => /\ BlockAt(dl.target, k) \in Block
                                                   /\ Stored(BlockAt(dl.target, k))
    <3>1. CASE k = h
      BY <1>1, <1>5, <1>6, <1>12, <2>9, <3>1 DEF Covered
    <3>2. CASE k # h
      BY <1>1, <1>4, <1>6, <2>9, <3>2 DEF Covered
    <3> QED
      BY <3>1, <3>2
  <2>10. Covered'
    <3>1. dl'.low <= dl'.height /\ \A k \in Running' : dl'.low < k /\ k <= dl'.height
      BY <1>1, <1>6, <2>4 DEF Covered
    <3> QED
      BY <1>8, <2>4, <2>8, <2>9, <3>1 DEF Covered, Stored
  <2>11. FinishedOnTarget'
    <3>1. CASE last /\ ~dl.torn
      <4>1. Running' = {}
        <5>1. IsFiniteSet(Running') /\ Cardinality(Running') = 0
          BY <1>6, <1>7, <3>1, PartIsFinite DEF last
        <5> QED
          BY <5>1, EmptyIsFinite, SizeType
      <4> DEFINE k == targetHeight
      <4>2. k \in Heights /\ dl.low < k /\ k <= dl.height
        BY <1>2, <3>1 DEF last, Heights, targetHeight
      <4>3. work'[k].pc = "off"
        BY <4>1, <4>2 DEF Running
      <4>4. Stored(BlockAt(dl.target, k))
        BY <2>9, <3>1, <4>2, <4>3
      <4>5. BlockAt(dl.target, k) = dl.target
        BY <1>2, AtSelf DEF targetHeight
      <4> HIDE DEF k
      <4>6. Stored(dl.target)
        BY <4>4, <4>5
      <4> QED
        BY <1>1, <2>4, <4>6 DEF FinishedOnTarget, Stored
    <3>2. CASE ~last \/ dl.torn
      BY <2>3, <2>4, <3>2 DEF FinishedOnTarget
    <3> QED
      BY <3>1, <3>2
  <2> QED
    BY <1>9, <1>10, <2>2, <2>4, <2>5, <2>7, <2>10, <2>11
<1> QED
  BY <1>1, <1>11, <1>12

\* A block that starts the download, or only goes to the pool.
LEMMA ReceiveKeeps ==
  ASSUME IInv, NEW b \in Broadcast, ReceiveBlock(b)
  PROVE  IInv'
<1> USE DEF IInv
<1>1. b \in Block /\ UNCHANGED <<chain, lib, peer, work, eventCh>> /\ pool' \subseteq Block
  BY DownloadAssumption DEF ReceiveBlock, TypeOK
<1>2. CASE dl' = dl
  <2>1. TypeOK' /\ Storage
    BY <1>1, <1>2 DEF TypeOK, Storage
  <2> QED
    BY <1>1, <1>2, <2>1, NodeStep
<1>3. CASE dl.pc = "idle" /\ dl' = [NoDownload EXCEPT !.pc = "start", !.target = b]
  <2>1. 0 \in 0..(Retries - 1) /\ 0 \in 0..Limit
    BY DownloadAssumption
  <2>2. /\ dl' \in Downloads /\ dl'.pc = "start" /\ dl'.target = b /\ dl'.requests = 0
    BY ZenonT(60), <1>1, <1>3, <2>1 DEF NoDownload, Downloads
  <2>3. TypeOK'
    BY <1>1, <2>2 DEF TypeOK
  <2>4. Formed' /\ Arrived'
    BY <1>1, <1>3, <2>2 DEF Formed, Arrived, Subscribed, Stored
  <2>5. SearchSound' /\ StepUpCanEnd' /\ Covered' /\ FinishedOnTarget'
    BY <2>2 DEF SearchSound, StepUpCanEnd, Covered, FinishedOnTarget
  <2> QED
    BY <2>3, <2>4, <2>5
<1> QED
  BY <1>2, <1>3 DEF ReceiveBlock

\* The invariant holds at the start.
LEMMA InitIInv ==
  ASSUME Init
  PROVE  IInv
<1>1. 0 \in 0..(Retries - 1) /\ 0 \in 0..Limit
  BY DownloadAssumption
<1>2. NoWorker \in Worker /\ NoWorker.pc = "off" /\ NoWorker.got = "none"
  BY <1>1 DEF NoWorker, Worker
<1>3. NoDownload \in Downloads /\ NoDownload.pc = "idle" /\ NoDownload.requests = 0
  BY <1>1 DEF NoDownload, Downloads
<1>4. chain \subseteq Block
  BY AncestorsClosed, DownloadAssumption DEF Init
<1>5. TypeOK
  BY <1>2, <1>3, <1>4, TreeAssumption DEF Init, TypeOK
<1>6. Formed /\ Arrived
  BY <1>2, <1>3 DEF Init, Formed, Arrived, Subscribed
<1>7. SearchSound /\ StepUpCanEnd /\ Covered /\ FinishedOnTarget
  BY <1>3 DEF Init, SearchSound, StepUpCanEnd, Covered, FinishedOnTarget
<1> QED
  BY <1>5, <1>6, <1>7 DEF IInv

\* Every step keeps the invariant while the LIB is below the target when the
\* search starts.
LEMMA NextIInv ==
  ASSUME IInv, BaseBelow, [Next]_vars
  PROVE  IInv'
<1>1. CASE UNCHANGED vars
  <2>1. TypeOK' /\ Storage
    BY <1>1 DEF IInv, vars, TypeOK, Storage
  <2> QED
    BY <1>1, <2>1, NodeStep DEF vars
<1>2. ASSUME NEW b \in Broadcast, ReceiveBlock(b) PROVE IInv'
  BY <1>2, ReceiveKeeps
<1>3. ASSUME NEW b \in Block, ProcessTask(b) PROVE IInv'
  <2>1. CASE lib \in Ancestors[b] /\ b \in Executable
    <3> DEFINE e == [topic |-> "accepted", block |-> b]
    <3>1. /\ chain' = chain \cup {b} /\ eventCh' = eventCh \cup {e} /\ pool' = pool \ {b}
          /\ UNCHANGED <<lib, peer, dl, work>>
      BY <1>3, <2>1 DEF ProcessTask
    <3>2. TypeOK' /\ Storage /\ e.block = b
      BY <3>1 DEF IInv, TypeOK, Storage
    <3> HIDE DEF e
    <3> QED
      BY <3>1, <3>2, NodeStep
  <2>2. CASE ~(lib \in Ancestors[b] /\ b \in Executable)
    <3> DEFINE e == [topic |-> "invalid", block |-> b]
    <3>1. /\ chain' = chain /\ eventCh' = eventCh \cup {e} /\ pool' = pool \ {b}
          /\ UNCHANGED <<lib, peer, dl, work>>
      BY <1>3, <2>2 DEF ProcessTask
    <3>2. TypeOK' /\ Storage /\ e.topic # "accepted"
      BY <3>1 DEF IInv, TypeOK, Storage
    <3> HIDE DEF e
    <3> QED
      BY <3>1, <3>2, NodeStep
  <2> QED
    BY <2>1, <2>2
<1>4. ASSUME NEW b \in Block, SetLIB(b) PROVE IInv'
  <2>1. TypeOK' /\ Storage
    BY <1>4 DEF SetLIB, Eligible, IInv, TypeOK, Storage
  <2> QED
    BY <1>4, <2>1, NodeStep DEF SetLIB
<1>5. ASSUME NEW b \in Block, Evict(b) PROVE IInv'
  <2>1. TypeOK' /\ Storage
    BY <1>5 DEF Evict, IInv, TypeOK, Storage
  <2> QED
    BY <1>5, <2>1, NodeStep DEF Evict
<1>6. ASSUME NEW p \in Peers, PeerMoves(p) PROVE IInv'
  <2>1. TypeOK' /\ Storage
    BY <1>6 DEF PeerMoves, IInv, TypeOK, Storage
  <2> QED
    BY <1>6, <2>1, NodeStep DEF PeerMoves
<1>7. ASSUME NEW e \in eventCh, Dispatch(e) PROVE IInv'
  BY <1>7, DispatchKeeps
<1>8. CASE FindBaseBlock \/ FindBaseRequestFails \/ StepUpRequest \/ ServiceStop
           \/ \E p \in Peers, b \in Block \cup {NoBlock} : HandleFindBaseResponse(p, b)
  <2>1. UNCHANGED <<chain, pool, lib, work, eventCh>>
    BY ZenonT(60), <1>8 DEF FindBaseBlock, FindBaseRequestFails, StepUpRequest, ServiceStop,
                HandleFindBaseResponse
  <2> QED
    BY <1>8, <2>1, SearchKeeps
<1>9. CASE Tick \/ \E h \in Heights : Collect(h)
  BY <1>9, TickKeeps, CollectKeeps
<1>10. ASSUME NEW h \in Heights, WorkerStep(h) PROVE IInv'
  BY <1>10, WorkerKeeps
<1> QED
  BY <1>1, <1>2, <1>3, <1>4, <1>5, <1>6, <1>7, <1>8, <1>9, <1>10 DEF Next, DownloadStep

\* The invariant holds throughout.
LEMMA DownloadInductive == Spec /\ []BaseBelow => []IInv
<1>1. Init => IInv
  BY InitIInv
<1>2. IInv /\ BaseBelow /\ [Next]_vars => IInv'
  BY NextIInv
<1> QED
  BY <1>1, <1>2, PTL DEF Spec

\* The retry and request bounds hold in every download.
THEOREM TypesHold == Spec /\ []BaseBelow => []TypeOK
<1>1. IInv => TypeOK
  BY DEF IInv
<1> QED
  BY <1>1, DownloadInductive, PTL

\* The binary search keeps its interval and its base.
THEOREM SearchIsSound == Spec /\ []BaseBelow => []SearchSound
<1>1. IInv => SearchSound
  BY DEF IInv
<1> QED
  BY <1>1, DownloadInductive, PTL

\* stepUpRequest always has a height to request or a worker to hear from.
THEOREM StepUpNeverStalls == Spec /\ []BaseBelow => []StepUpCanEnd
<1>1. IInv => StepUpCanEnd
  BY DEF IInv
<1> QED
  BY <1>1, DownloadInductive, PTL

\* A download that ends without an error has stored its target, unless a peer's
\* answer mixed two of its chains.
THEOREM FinishedMeansStored == Spec /\ []BaseBelow => []FinishedOnTarget
<1>1. IInv => FinishedOnTarget
  BY DEF IInv
<1> QED
  BY <1>1, DownloadInductive, PTL

===============================================================================
