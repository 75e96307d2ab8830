--------------------------- MODULE MinerAppProofs ---------------------------
(***************************************************************************)
(* Proofs about one node: IInv is an inductive invariant of MinerApp, for   *)
(* any peers, chains, settings and bounds, and what follows from it; the     *)
(* refinement of LocalChain; the genesis block (NoResetInv); payments       *)
(* (OnceInv) and a node without peers (LoneInv).                            *)
(***************************************************************************)
EXTENDS MinerApp, ChainProofs

\* The threads are different ones, and Nobody is none of them.
LEMMA ThreadFacts ==
    /\ Miner \in Threads /\ Http \in Threads /\ Main \in Threads
    /\ Nobody \notin Threads
    /\ Miner \notin Peers /\ Http \notin Peers /\ Main \notin Peers
    /\ Miner # Http /\ Miner # Main /\ Http # Main
    /\ Peers \subseteq Threads
  BY MinerAppAssumption DEF Threads

-----------------------------------------------------------------------------
(* The parts of DataInv that a step leaves alone. *)

\* While neither the chain nor the update changes, both stay well formed.
LEMMA ChainKept ==
    ASSUME ChainInv, UpdateInv, UNCHANGED <<blockchain, tempchain, position>>
    PROVE  ChainInv' /\ UpdateInv'
  BY DEF ChainInv, UpdateInv, UpdateAttaches

\* Where the loop over the update is does not matter outside of syncBlockchain.
LEMMA NoPosition ==
    ASSUME NEW label, label \notin InSync
    PROVE  PositionAt(label) /\ PositionAt(label)'
  BY DEF PositionAt, InSync, SyncLabels

\* A thread outside of syncBlockchain goes on outside of it.
LEMMA MutexKept ==
    ASSUME TypeOK, MutexInv, NEW t \in Threads, NEW label,
           pc[t] \notin InSync, label \notin InSync, Goto(t, label),
           UNCHANGED <<chainMutex, tempchain, position>>
    PROVE  MutexInv'
  <1>1. pc' = [pc EXCEPT ![t] = label] /\ pc \in [Threads -> Labels]
    BY DEF Goto, TypeOK
  <1>2. \A s \in Threads : s # t => pc'[s] = pc[s]
    BY <1>1
  <1>3. pc'[t] = label
    BY <1>1
  <1>4. \A s \in Threads : PositionAt(pc[s])'
    BY <1>2, <1>3 DEF MutexInv, PositionAt, InSync, SyncLabels
  <1> QED
    BY <1>2, <1>3, <1>4 DEF MutexInv

\* Where a thread goes is a label.
LEMMA GotoType ==
    ASSUME TypeOK, NEW t \in Threads, NEW label \in Labels, Goto(t, label)
    PROVE  /\ pc' \in [Threads -> Labels]
           /\ pc'[t] = label
           /\ \A s \in Threads : s # t => pc'[s] = pc[s]
  BY DEF Goto, TypeOK

\* No thread is inside of it, and no thread gets there.
LEMMA MutexFree ==
    ASSUME TypeOK, MutexInv, chainMutex = Nobody, chainMutex' = Nobody, position' = 0,
           \A s \in Threads : pc'[s] = pc[s] \/ pc'[s] \notin InSync
    PROVE  MutexInv'
  <1>1. \A s \in Threads : pc[s] \notin InSync
    BY ThreadFacts DEF MutexInv
  <1>2. \A s \in Threads : pc'[s] \notin InSync
    BY <1>1
  <1>3. \A s \in Threads : PositionAt(pc[s])'
    BY <1>2 DEF PositionAt, InSync, SyncLabels
  <1> QED
    BY <1>2, <1>3, ThreadFacts DEF MutexInv

\* The thread that holds the mutex goes on to another step inside, or takes it.
LEMMA MutexMoves ==
    ASSUME TypeOK, MutexInv, NEW t \in Threads, NEW label \in InSync, Goto(t, label),
           chainMutex \in {t, Nobody}, chainMutex' = t, tempchain' # <<>>,
           (position # 0 => position \in 1..(Len(tempchain) + 1) /\ ~StartsAtGenesis(tempchain))',
           PositionAt(label)'
    PROVE  MutexInv'
  <1>1. label \in Labels
    BY DEF Labels, InSync
  <1>2. /\ pc'[t] = label
        /\ \A s \in Threads : s # t => pc'[s] = pc[s]
    BY <1>1, GotoType
  <1>3. \A s \in Threads : s # t => pc[s] \notin InSync
    BY ThreadFacts DEF MutexInv
  <1>4. \A s \in Threads : pc'[s] \in InSync <=> chainMutex' = s
    BY <1>2, <1>3
  <1>5. \A s \in Threads : s # t => PositionAt(pc[s])'
    BY <1>2, <1>3 DEF PositionAt, InSync, SyncLabels
  <1>6. PositionAt(pc[t])'
    BY <1>2 DEF PositionAt
  <1>7. chainMutex' # Nobody
    BY ThreadFacts
  <1> QED
    BY <1>4, <1>5, <1>6, <1>7 DEF MutexInv

\* A thread other than the mining thread leaves the block alone.
LEMMA BlockKept ==
    ASSUME TypeOK, BlockInv, NEW t \in Threads, NEW label, t # Miner,
           Goto(t, label), UNCHANGED newblock
    PROVE  BlockInv'
  <1>1. pc'[Miner] = pc[Miner]
    BY ThreadFacts DEF Goto, TypeOK
  <1> QED
    BY <1>1 DEF BlockInv

-----------------------------------------------------------------------------
(* Init. *)

\* The node starts with the chain read from its database and no update.
LEMMA InitInv ==
    ASSUME Init
    PROVE  DataInv
  <1>1. InitChain \in Seq(Block) /\ InitChain # <<>>
    BY ChainsAssumption DEF HonestChain, IsSegment
  <1>2. TypeOK
    <2>1. asked \in [Peers -> Seq(Request)]
      <3>1. SummaryRequest \in Request
        BY DEF SummaryRequest, Request
      <3>2. <<SummaryRequest>> \in Seq(Request)
        BY <3>1
      <3> QED
        BY <3>2 DEF Init
    <2>2. pc \in [Threads -> Labels]
      BY DEF Init, Labels
    <2>3. <<>> \in Seq(Block) /\ <<>> \in Seq(Txs)
      OBVIOUS
    <2>4. miningDone \in BOOLEAN /\ joinable \in BOOLEAN
      BY MinerAppAssumption DEF Init
    <2> QED
      BY <1>1, <2>1, <2>2, <2>3, <2>4 DEF Init, TypeOK, Outcomes
  <1>3. ChainInv
    BY ChainsAssumption DEF Init, ChainInv
  <1>4. UpdateInv
    BY DEF Init, UpdateInv
  <1>5. \A t \in Threads : pc[t] \notin InSync
    BY DEF Init, InSync, SyncLabels
  <1>6. MutexInv
    <2>1. \A t \in Threads : PositionAt(pc[t])
      BY <1>5 DEF PositionAt, InSync, SyncLabels
    <2> QED
      BY <1>5, <2>1, ThreadFacts DEF Init, MutexInv
  <1>7. BlockInv
    BY ThreadFacts DEF Init, BlockInv
  <1> QED
    BY <1>2, <1>3, <1>4, <1>6, <1>7 DEF DataInv

-----------------------------------------------------------------------------
(* The mining thread. *)

\* The head of the mining loop only reads the flags.
LEMMA MineTopInv ==
    ASSUME DataInv, MineTop
    PROVE  DataInv'
  <1> DEFINE label == IF miningDone \/ done THEN "idle" ELSE "create"
  <1>1. /\ TypeOK /\ ChainInv /\ UpdateInv /\ MutexInv /\ BlockInv
        /\ pc[Miner] = "top" /\ Goto(Miner, label) /\ Miner \in Threads
    BY ThreadFacts DEF DataInv, MineTop, At
  <1>2. label \in Labels /\ label \notin InSync /\ pc[Miner] \notin InSync
    BY <1>1 DEF Labels, InSync, SyncLabels
  <1> HIDE DEF label
  <1>3. pc' \in [Threads -> Labels] /\ pc'[Miner] = label
    BY <1>1, <1>2, GotoType
  <1>4. TypeOK'
    BY <1>1, <1>3 DEF TypeOK, MineTop, threadVars
  <1>5. ChainInv' /\ UpdateInv'
    BY <1>1, ChainKept DEF MineTop
  <1>6. MutexInv'
    BY <1>1, <1>2, MutexKept DEF MineTop
  <1>7. BlockInv'
    BY <1>3 DEF BlockInv, label
  <1> QED
    BY <1>4, <1>5, <1>6, <1>7 DEF DataInv

\* The block createUnminedBlock makes is one place after the chain's end.
LEMMA MineCreateInv ==
    ASSUME DataInv, MineCreate
    PROVE  DataInv'
  <1>1. /\ TypeOK /\ ChainInv /\ UpdateInv /\ MutexInv /\ BlockInv
        /\ pc[Miner] = "create" /\ Goto(Miner, "begin") /\ Miner \in Threads
    BY ThreadFacts DEF DataInv, MineCreate, AtLocked, At
  <1>2. "begin" \in Labels /\ "begin" \notin InSync /\ pc[Miner] \notin InSync
    BY <1>1 DEF Labels, InSync, SyncLabels
  <1>3. pc' \in [Threads -> Labels] /\ pc'[Miner] = "begin"
    BY <1>1, <1>2, GotoType
  <1>4. PICK d \in AdjustedDifficulties(blockchain) :
            newblock' = UnminedBlock(blockchain, txQueue, d)
    BY DEF MineCreate
  <1>5. d \in 0..UINT64_MAX
    BY <1>1, <1>4, AdjustedType DEF ChainInv
  <1>6. /\ newblock' \in Block
        /\ newblock'.index >= 1
        /\ newblock'.prev[1] = newblock'.index - 1
        /\ newblock'.hash[1] = newblock'.index
    BY <1>1, <1>4, <1>5, UnminedType DEF ChainInv, TypeOK
  <1>7. TypeOK'
    <2>1. <<>> \in Seq(Txs)
      OBVIOUS
    <2> QED
      BY <1>1, <1>3, <1>6, <2>1 DEF TypeOK, MineCreate
  <1>8. ChainInv' /\ UpdateInv'
    BY <1>1, ChainKept DEF MineCreate
  <1>9. MutexInv'
    BY <1>1, <1>2, MutexKept DEF MineCreate
  <1>10. BlockInv'
    BY <1>3, <1>6 DEF BlockInv
  <1> QED
    BY <1>7, <1>8, <1>9, <1>10 DEF DataInv

\* Computing the difficulty may raise an exception, and changes nothing else.
LEMMA MineBeginInv ==
    ASSUME DataInv, MineBegin
    PROVE  DataInv'
  <1>1. /\ TypeOK /\ ChainInv /\ UpdateInv /\ MutexInv /\ BlockInv
        /\ pc[Miner] = "begin" /\ Miner \in Threads
    BY ThreadFacts DEF DataInv, MineBegin, At
  <1>2. ChainInv' /\ UpdateInv'
    BY <1>1, ChainKept DEF MineBegin
  <1>3. CASE newblock.difficulty = UINT64_MAX
    <2>1. UNCHANGED <<pc, keepTrying>> /\ outcome' \in Outcomes
      BY <1>3 DEF MineBegin, Outcomes
    <2>2. TypeOK' /\ MutexInv' /\ BlockInv'
      BY <1>1, <2>1 DEF TypeOK, MutexInv, PositionAt, BlockInv, MineBegin
    <2> QED
      BY <1>2, <2>2 DEF DataInv
  <1>4. CASE newblock.difficulty # UINT64_MAX
    <2>1. Goto(Miner, "mining") /\ keepTrying' = TRUE /\ UNCHANGED outcome
      BY <1>4 DEF MineBegin
    <2>2. "mining" \in Labels /\ "mining" \notin InSync /\ pc[Miner] \notin InSync
      BY <1>1 DEF Labels, InSync, SyncLabels
    <2>3. pc' \in [Threads -> Labels] /\ pc'[Miner] = "mining"
      BY <1>1, <2>1, <2>2, GotoType
    <2>4. TypeOK'
      BY <1>1, <2>1, <2>3 DEF TypeOK, MineBegin
    <2>5. MutexInv'
      BY <1>1, <2>1, <2>2, MutexKept DEF MineBegin
    <2>6. BlockInv'
      BY <1>1, <2>3 DEF BlockInv, MineBegin
    <2> QED
      BY <1>2, <2>4, <2>5, <2>6 DEF DataInv
  <1> QED
    BY <1>3, <1>4

\* Mining gives the block a hash, and leaves it its place.
LEMMA MineFoundInv ==
    ASSUME DataInv, MineFound
    PROVE  DataInv'
  <1>1. /\ TypeOK /\ ChainInv /\ UpdateInv /\ MutexInv /\ BlockInv
        /\ pc[Miner] = "mining" /\ Goto(Miner, "add") /\ Miner \in Threads
    BY ThreadFacts DEF DataInv, MineFound, At
  <1>2. "add" \in Labels /\ "add" \notin InSync /\ pc[Miner] \notin InSync
    BY <1>1 DEF Labels, InSync, SyncLabels
  <1>3. pc' \in [Threads -> Labels] /\ pc'[Miner] = "add"
    BY <1>1, <1>2, GotoType
  <1>4. /\ newblock \in Block
        /\ newblock.index >= 1
        /\ newblock.prev[1] = newblock.index - 1
    BY <1>1 DEF BlockInv
  <1>5. minted + 1 \in Nat
    BY <1>1 DEF TypeOK
  <1>6. /\ newblock' \in Block
        /\ newblock'.index >= 1
        /\ newblock'.prev[1] = newblock'.index - 1
        /\ newblock'.hash[1] = newblock'.index
    BY <1>4, <1>5, MinedType DEF MineFound
  <1>7. TypeOK'
    BY <1>1, <1>3, <1>5, <1>6 DEF TypeOK, MineFound
  <1>8. ChainInv' /\ UpdateInv'
    BY <1>1, ChainKept DEF MineFound
  <1>9. MutexInv'
    BY <1>1, <1>2, MutexKept DEF MineFound
  <1>10. BlockInv'
    BY <1>3, <1>6 DEF BlockInv
  <1> QED
    BY <1>7, <1>8, <1>9, <1>10 DEF DataInv

\* Both ways to give up a block.
LEMMA MineAbandonedInv ==
    ASSUME DataInv, MineAborted \/ MineOvertaken
    PROVE  DataInv'
  <1>1. /\ TypeOK /\ ChainInv /\ UpdateInv /\ MutexInv /\ BlockInv
        /\ pc[Miner] = "mining" /\ Goto(Miner, "requeue") /\ Miner \in Threads
        /\ UNCHANGED <<blockchain, txQueue, tempchain, position, database, threadVars,
                       chainMutex, asked, posted, newblocks, outcome>>
    BY ThreadFacts DEF DataInv, MineAborted, MineOvertaken, At, AtLocked
  <1>2. "requeue" \in Labels /\ "requeue" \notin InSync /\ pc[Miner] \notin InSync
    BY <1>1 DEF Labels, InSync, SyncLabels
  <1>3. pc' \in [Threads -> Labels] /\ pc'[Miner] = "requeue"
    BY <1>1, <1>2, GotoType
  <1>4. TypeOK'
    BY <1>1, <1>3 DEF TypeOK, threadVars
  <1>5. ChainInv' /\ UpdateInv'
    BY <1>1, ChainKept
  <1>6. MutexInv'
    BY <1>1, <1>2, MutexKept
  <1>7. BlockInv'
    BY <1>1, <1>3 DEF BlockInv, threadVars
  <1> QED
    BY <1>4, <1>5, <1>6, <1>7 DEF DataInv

\* Payments go back to the queue, and the mining thread goes on to the
\* update it was interrupted by.
LEMMA MineRequeueInv ==
    ASSUME DataInv, MineRequeue
    PROVE  DataInv'
  <1>1. /\ TypeOK /\ ChainInv /\ UpdateInv /\ MutexInv /\ BlockInv
        /\ pc[Miner] = "requeue" /\ Goto(Miner, "sync") /\ Miner \in Threads
    BY ThreadFacts DEF DataInv, MineRequeue, AtLocked, At
  <1>2. "sync" \in Labels /\ "sync" \notin InSync /\ pc[Miner] \notin InSync
    BY <1>1 DEF Labels, SyncLabels, InSync
  <1>3. pc' \in [Threads -> Labels] /\ pc'[Miner] = "sync"
    BY <1>1, <1>2, GotoType
  <1>4. txQueue' \in Seq(Txs)
    <2>1. newblock.txs \in Seq(Txs)
      BY <1>1 DEF BlockInv, Block
    <2>2. txQueue' = txQueue \o newblock.txs
      BY DEF MineRequeue, ReQueueTransactions
    <2> QED
      BY <1>1, <2>1, <2>2 DEF TypeOK
  <1>5. TypeOK'
    BY <1>1, <1>3, <1>4 DEF TypeOK, MineRequeue
  <1>6. ChainInv' /\ UpdateInv'
    BY <1>1, ChainKept DEF MineRequeue
  <1>7. MutexInv'
    BY <1>1, <1>2, MutexKept DEF MineRequeue
  <1>8. BlockInv'
    BY <1>3 DEF BlockInv
  <1> QED
    BY <1>5, <1>6, <1>7, <1>8 DEF DataInv

\* addNewBlock runs without the mutex, possibly while an update waits: what the
\* update links to is still there afterwards.
LEMMA MineAddInv ==
    ASSUME DataInv, MineAdd
    PROVE  DataInv'
  <1>1. /\ TypeOK /\ ChainInv /\ UpdateInv /\ MutexInv /\ BlockInv
        /\ pc[Miner] = "add" /\ Miner \in Threads
        /\ UNCHANGED <<txQueue, tempchain, position, database, done, keepTrying, joinable,
                       chainMutex, asked, minted, posted, newblocks, outcome>>
    BY ThreadFacts DEF DataInv, MineAdd, At
  <1>2. pc[Miner] \notin InSync
    BY <1>1 DEF InSync, SyncLabels
  <1>3. CASE CanAddBlock(blockchain, newblock)
    <2>1. /\ blockchain' = Append(blockchain, newblock)
          /\ Goto(Miner, "write") /\ UNCHANGED <<miningDone, newblock>>
      BY <1>3 DEF MineAdd, AddNewBlock
    <2>2. newblock \in Block
      BY <1>1 DEF BlockInv
    <2>3. /\ HonestChain(blockchain')
          /\ Len(blockchain') = Len(blockchain) + 1
          /\ \A i \in 1..Len(blockchain) : blockchain'[i] = blockchain[i]
      <3>1. newblock.prev[1] = newblock.index - 1 /\ newblock.hash[1] = newblock.index
        BY <1>1 DEF BlockInv
      <3> QED
        BY <1>1, <1>3, <2>1, <2>2, <3>1, HonestAppend DEF ChainInv
    <2>4. "write" \in Labels /\ "write" \notin InSync
      BY DEF Labels, InSync, SyncLabels
    <2>5. pc' \in [Threads -> Labels] /\ pc'[Miner] = "write"
      BY <1>1, <2>1, <2>4, GotoType
    <2>6. TypeOK'
      <3>1. blockchain' \in Seq(Block)
        BY <2>3, HonestBack
      <3> QED
        BY <1>1, <2>1, <2>5, <3>1 DEF TypeOK
    <2>7. UpdateInv'
      <3>1. LinksToChain(blockchain, tempchain) => LinksToChain(blockchain', tempchain)
        <4>1. Len(blockchain) \in Nat
          BY <1>1, HonestBack DEF ChainInv
        <4> QED
          BY <2>3, <4>1 DEF LinksToChain
      <3> QED
        BY <1>1, <3>1 DEF UpdateInv, UpdateAttaches
    <2>8. MutexInv'
      BY <1>1, <1>2, <2>1, <2>4, MutexKept
    <2>9. BlockInv'
      BY <2>1, <2>2, <2>5 DEF BlockInv
    <2> QED
      BY <2>3, <2>6, <2>7, <2>8, <2>9 DEF DataInv, ChainInv
  <1>4. CASE ~CanAddBlock(blockchain, newblock)
    <2>1. /\ blockchain' = blockchain
          /\ Goto(Miner, "idle") /\ miningDone' = TRUE /\ newblock' = NoBlock
      BY <1>4 DEF MineAdd, AddNewBlock
    <2>2. "idle" \in Labels /\ "idle" \notin InSync
      BY DEF Labels, InSync, SyncLabels
    <2>3. pc' \in [Threads -> Labels] /\ pc'[Miner] = "idle"
      BY <1>1, <2>1, <2>2, GotoType
    <2>4. TypeOK'
      BY <1>1, <2>1, <2>3 DEF TypeOK
    <2>5. ChainInv' /\ UpdateInv'
      BY <1>1, <2>1, ChainKept
    <2>6. MutexInv'
      BY <1>1, <1>2, <2>1, <2>2, MutexKept
    <2>7. BlockInv'
      BY <2>3 DEF BlockInv
    <2> QED
      BY <2>4, <2>5, <2>6, <2>7 DEF DataInv
  <1> QED
    BY <1>3, <1>4

\* Blocks written at the end of the file leave a sequence of blocks in it.
LEMMA WrittenType ==
    ASSUME NEW file \in Seq(Block) \cup {NoFile}, NEW blocks \in Seq(Block)
    PROVE  Written(file, blocks) \in Seq(Block)
  BY DEF Written

\* Writing the block to the file does not touch the chain.
LEMMA MineWriteInv ==
    ASSUME DataInv, MineWrite
    PROVE  DataInv'
  <1>1. /\ TypeOK /\ ChainInv /\ UpdateInv /\ MutexInv /\ BlockInv
        /\ pc[Miner] = "write" /\ Goto(Miner, "sync") /\ Miner \in Threads
    BY ThreadFacts DEF DataInv, MineWrite, At
  <1>2. "sync" \in Labels /\ "sync" \notin InSync /\ pc[Miner] \notin InSync
    BY <1>1 DEF Labels, SyncLabels, InSync
  <1>3. pc' \in [Threads -> Labels] /\ pc'[Miner] = "sync"
    BY <1>1, <1>2, GotoType
  <1>4. database' \in Seq(Block)
    <2>1. <<newblock>> \in Seq(Block)
      BY <1>1 DEF BlockInv
    <2> QED
      BY <1>1, <2>1, WrittenType DEF MineWrite, TypeOK
  <1>5. TypeOK'
    BY <1>1, <1>3, <1>4 DEF TypeOK, MineWrite, threadVars
  <1>6. ChainInv' /\ UpdateInv'
    BY <1>1, ChainKept DEF MineWrite
  <1>7. MutexInv'
    BY <1>1, <1>2, MutexKept DEF MineWrite
  <1>8. BlockInv'
    BY <1>3 DEF BlockInv
  <1> QED
    BY <1>5, <1>6, <1>7, <1>8 DEF DataInv

\* The announcement adds a request for each peer, and the mining thread
\* goes on to the update.
LEMMA MineBroadcastInv ==
    ASSUME DataInv, MineBroadcast
    PROVE  DataInv'
  <1>1. /\ TypeOK /\ ChainInv /\ UpdateInv /\ MutexInv /\ BlockInv
        /\ pc[Miner] = "broadcast" /\ Goto(Miner, "top") /\ Miner \in Threads
    BY ThreadFacts DEF DataInv, MineBroadcast, AtLocked, At
  <1>2. "top" \in Labels /\ "top" \notin InSync /\ pc[Miner] \notin InSync
    BY <1>1 DEF Labels, InSync, SyncLabels
  <1>3. pc' \in [Threads -> Labels] /\ pc'[Miner] = "top"
    BY <1>1, <1>2, GotoType
  <1>4. asked' \in [Peers -> Seq(Request)]
    <2>1. NewBlockMessage \in Request
      BY DEF NewBlockMessage, Request
    <2>2. \A h \in Peers : Append(asked[h], NewBlockMessage) \in Seq(Request)
      BY <1>1, <2>1 DEF TypeOK
    <2> QED
      BY <2>2 DEF MineBroadcast
  <1>5. TypeOK'
    BY <1>1, <1>3, <1>4 DEF TypeOK, MineBroadcast
  <1>6. ChainInv' /\ UpdateInv'
    BY <1>1, ChainKept DEF MineBroadcast
  <1>7. MutexInv'
    BY <1>1, <1>2, MutexKept DEF MineBroadcast
  <1>8. BlockInv'
    BY <1>3 DEF BlockInv
  <1> QED
    BY <1>5, <1>6, <1>7, <1>8 DEF DataInv

-----------------------------------------------------------------------------
(* syncBlockchain, in the mining thread or in that of a peer. *)

\* Where it returns to, and that the block is not needed there.
LEMMA ReturnInv ==
    ASSUME TypeOK, BlockInv, NEW t \in Peers \cup {Miner}, NEW modified \in BOOLEAN,
           Return(t, modified)
    PROVE  /\ pc' \in [Threads -> Labels]
           /\ pc'[t] \in {"idle", "top", "broadcast"}
           /\ \A s \in Threads : s # t => pc'[s] = pc[s]
           /\ newblock' \in Block \cup {NoBlock}
           /\ BlockInv'
  <1> DEFINE label == IF t # Miner THEN "idle"
                      ELSE IF newblock = NoBlock \/ modified THEN "top" ELSE "broadcast"
  <1>1. t \in Threads /\ Goto(t, label)
    BY ThreadFacts DEF Return
  <1>2. label \in {"idle", "top", "broadcast"} /\ label \in Labels
    BY DEF Labels
  <1> HIDE DEF label
  <1>3. /\ pc' \in [Threads -> Labels]
        /\ pc'[t] = label
        /\ \A s \in Threads : s # t => pc'[s] = pc[s]
    BY <1>1, <1>2, GotoType
  <1>4. newblock' = IF t = Miner /\ modified THEN NoBlock ELSE newblock
    BY DEF Return
  <1>5. BlockInv'
    <2>1. CASE t = Miner
      BY <1>2, <1>3, <2>1 DEF BlockInv
    <2>2. CASE t # Miner
      <3>1. pc'[Miner] = pc[Miner] /\ newblock' = newblock
        BY <1>3, <1>4, <2>2, ThreadFacts
      <3> QED
        BY <3>1 DEF BlockInv
    <2> QED
      BY <2>1, <2>2
  <1> QED
    BY <1>2, <1>3, <1>4, <1>5 DEF TypeOK

\* syncBlockchain returns at once without an update.
LEMMA SyncNothingInv ==
    ASSUME DataInv, NEW t \in Peers \cup {Miner}, SyncNothing(t)
    PROVE  DataInv'
  <1>1. /\ TypeOK /\ ChainInv /\ UpdateInv /\ MutexInv /\ BlockInv
        /\ pc[t] = "sync" /\ chainMutex = Nobody /\ Return(t, FALSE)
        /\ UNCHANGED <<blockchain, txQueue, tempchain, position, database, miningDone, done,
                       keepTrying, joinable, minted, chainMutex, asked, posted, newblocks,
                       outcome>>
    BY DEF DataInv, SyncNothing, AtLocked, At
  <1>2. /\ pc' \in [Threads -> Labels]
        /\ pc'[t] \in {"idle", "top", "broadcast"}
        /\ \A s \in Threads : s # t => pc'[s] = pc[s]
        /\ newblock' \in Block \cup {NoBlock}
        /\ BlockInv'
    BY <1>1, ReturnInv
  <1>3. TypeOK'
    BY <1>1, <1>2 DEF TypeOK
  <1>4. ChainInv' /\ UpdateInv'
    BY <1>1, ChainKept
  <1>5. MutexInv'
    <2>1. pc'[t] \notin InSync
      BY <1>2 DEF InSync, SyncLabels
    <2>2. \A s \in Threads : pc'[s] = pc[s] \/ pc'[s] \notin InSync
      BY <1>2, <2>1
    <2>3. position' = 0
      BY <1>1 DEF MutexInv
    <2> QED
      BY <1>1, <2>2, <2>3, MutexFree
  <1> QED
    BY <1>2, <1>3, <1>4, <1>5 DEF DataInv

\* A thread that is inside of syncBlockchain does not need the miner's block.
LEMMA BlockInside ==
    ASSUME TypeOK, BlockInv, NEW t \in Threads, NEW label \in InSync, Goto(t, label),
           UNCHANGED newblock
    PROVE  pc' \in [Threads -> Labels] /\ BlockInv'
  <1>1. label \in Labels
    BY DEF Labels, InSync
  <1>2. /\ pc' \in [Threads -> Labels]
        /\ pc'[t] = label
        /\ \A s \in Threads : s # t => pc'[s] = pc[s]
    BY <1>1, GotoType
  <1>3. CASE t = Miner
    BY <1>2, <1>3 DEF BlockInv, InSync, SyncLabels
  <1>4. CASE t # Miner
    BY <1>2, <1>4, ThreadFacts DEF BlockInv
  <1> QED
    BY <1>2, <1>3, <1>4

\* The mutex is taken: chain and update are swapped, or the chain is cut where the
\* update links to it.
LEMMA SyncBeginInv ==
    ASSUME DataInv, NEW t \in Peers \cup {Miner}, SyncBegin(t)
    PROVE  DataInv'
  <1>1. /\ TypeOK /\ ChainInv /\ UpdateInv /\ MutexInv /\ BlockInv
        /\ t \in Threads /\ chainMutex = Nobody /\ tempchain # <<>> /\ chainMutex' = t
        /\ position = 0
        /\ UNCHANGED <<database, threadVars, asked, posted, newblocks, outcome>>
    BY ThreadFacts DEF DataInv, MutexInv, SyncBegin, AtLocked, At
  <1>2. /\ HonestChain(blockchain) /\ IsSegment(tempchain)
        /\ StartsAtGenesis(tempchain) \/ LinksToChain(blockchain, tempchain)
    BY <1>1 DEF ChainInv, UpdateInv, UpdateAttaches
  <1>3. blockchain \in Seq(Block) /\ tempchain \in Seq(Block) /\ Len(tempchain) \in Nat \ {0}
    BY <1>1 DEF TypeOK
  <1>4. "reset" \in InSync /\ "replace" \in InSync /\ "check" \in InSync
    BY DEF InSync, SyncLabels
  <1>5. CASE StartsAtGenesis(tempchain)
    <2>1. /\ blockchain' = tempchain /\ tempchain' = blockchain /\ txQueue' = <<>>
          /\ Goto(t, "reset") /\ position' = position
      BY <1>5 DEF SyncBegin
    <2>2. HonestChain(blockchain') /\ HonestChain(tempchain')
      BY <1>2, <1>5, <2>1 DEF HonestChain
    <2>3. IsSegment(tempchain') /\ StartsAtGenesis(tempchain') /\ tempchain' # <<>>
      BY <2>2 DEF HonestChain, IsSegment
    <2>4. pc' \in [Threads -> Labels] /\ BlockInv'
      BY <1>1, <1>4, <2>1, BlockInside DEF threadVars
    <2>5. MutexInv'
      <3>1. PositionAt("reset")'
        BY <1>1, <2>1 DEF PositionAt
      <3> QED
        BY <1>1, <1>4, <2>1, <2>3, <3>1, MutexMoves
    <2>6. TypeOK'
      BY <1>1, <1>3, <2>1, <2>4, ThreadFacts DEF TypeOK, threadVars
    <2> QED
      BY <2>2, <2>3, <2>4, <2>5, <2>6 DEF DataInv, ChainInv, UpdateInv, UpdateAttaches
  <1>6. CASE ~StartsAtGenesis(tempchain)
    <2> DEFINE Overlaps == tempchain[1].index <= Back(blockchain).index
    <2>1. /\ IF Overlaps
             THEN Goto(t, "replace") /\ blockchain' = Resize(blockchain, tempchain[1].index)
             ELSE Goto(t, "check") /\ UNCHANGED blockchain
          /\ position' = 1
          /\ UNCHANGED <<tempchain, txQueue>>
      BY <1>6 DEF SyncBegin
    <2> HIDE DEF Overlaps
    <2>2. HonestChain(blockchain') /\ LinksToChain(blockchain', tempchain)
      BY <1>2, <1>6, <2>1, ResizeKeeps
    <2>3. pc' \in [Threads -> Labels] /\ BlockInv'
      BY <1>1, <1>4, <2>1, BlockInside DEF threadVars
    <2>4. MutexInv'
      <3>1. PositionAt("replace")' /\ PositionAt("check")'
        BY <1>3, <2>1 DEF PositionAt
      <3>2. (position # 0 => position \in 1..(Len(tempchain) + 1) /\ ~StartsAtGenesis(tempchain))'
        BY <1>3, <1>6, <2>1 DEF StartsAtGenesis
      <3> QED
        BY <1>1, <1>4, <2>1, <3>1, <3>2, MutexMoves
    <2>5. TypeOK'
      BY <1>1, <2>1, <2>2, <2>3, HonestBack, ThreadFacts DEF TypeOK, threadVars
    <2>6. UpdateInv'
      BY <1>2, <2>1, <2>2 DEF UpdateInv, UpdateAttaches
    <2> QED
      BY <2>2, <2>3, <2>4, <2>5, <2>6 DEF DataInv, ChainInv
  <1> QED
    BY <1>5, <1>6

\* The holder of the mutex drops the update and returns.
LEMMA SyncLeaves ==
    ASSUME DataInv, NEW t \in Threads, pc[t] \in InSync, t \in Peers \cup {Miner},
           NEW modified \in BOOLEAN, Return(t, modified),
           tempchain' = <<>>, position' = 0, chainMutex' = Nobody,
           UNCHANGED <<blockchain, txQueue, database, miningDone, done, keepTrying,
                       joinable, minted, asked, posted, newblocks, outcome>>
    PROVE  DataInv'
  <1>1. TypeOK /\ ChainInv /\ UpdateInv /\ MutexInv /\ BlockInv
    BY DEF DataInv
  <1>2. /\ pc' \in [Threads -> Labels]
        /\ pc'[t] \in {"idle", "top", "broadcast"}
        /\ \A s \in Threads : s # t => pc'[s] = pc[s]
        /\ newblock' \in Block \cup {NoBlock}
        /\ BlockInv'
    BY <1>1, ReturnInv
  <1>3. TypeOK'
    <2>1. <<>> \in Seq(Block)
      OBVIOUS
    <2> QED
      BY <1>1, <1>2, <2>1 DEF TypeOK
  <1>4. ChainInv' /\ UpdateInv'
    BY <1>1 DEF ChainInv, UpdateInv
  <1>5. MutexInv'
    <2>1. chainMutex = t
      BY <1>1 DEF MutexInv
    <2>2. \A s \in Threads : s # t => pc[s] \notin InSync
      BY <1>1, <2>1 DEF MutexInv
    <2>3. pc'[t] \notin InSync
      BY <1>2 DEF InSync, SyncLabels
    <2>4. \A s \in Threads : pc'[s] \notin InSync
      BY <1>2, <2>2, <2>3
    <2>5. \A s \in Threads : PositionAt(pc[s])'
      BY <2>4 DEF PositionAt, InSync, SyncLabels
    <2> QED
      BY <2>4, <2>5, ThreadFacts DEF MutexInv
  <1> QED
    BY <1>2, <1>3, <1>4, <1>5 DEF DataInv

\* An update that no longer meets the chain's end is dropped.
LEMMA SyncCheckInv ==
    ASSUME DataInv, NEW t \in Peers \cup {Miner}, SyncCheck(t)
    PROVE  DataInv'
  <1>1. /\ TypeOK /\ ChainInv /\ UpdateInv /\ MutexInv /\ BlockInv
        /\ t \in Threads /\ pc[t] = "check"
        /\ UNCHANGED <<blockchain, txQueue, database, miningDone, done, keepTrying, joinable,
                       minted, asked, posted, newblocks, outcome>>
    BY ThreadFacts DEF DataInv, SyncCheck, At
  <1>2. pc[t] \in InSync /\ "append" \in InSync
    BY <1>1 DEF InSync, SyncLabels
  <1>3. chainMutex = t /\ tempchain # <<>> /\ position = 1 /\ ~StartsAtGenesis(tempchain)
        /\ Len(tempchain) \in Nat \ {0}
    BY <1>1, <1>2 DEF MutexInv, PositionAt, TypeOK
  <1>4. CASE Extends(blockchain, tempchain)
    <2>1. Goto(t, "append") /\ UNCHANGED <<tempchain, position, chainMutex, newblock>>
      BY <1>4 DEF SyncCheck
    <2>2. pc' \in [Threads -> Labels] /\ BlockInv'
      BY <1>1, <1>2, <2>1, BlockInside
    <2>3. MutexInv'
      <3>1. PositionAt("append")'
        BY <1>3, <2>1 DEF PositionAt
      <3>2. (position # 0 => position \in 1..(Len(tempchain) + 1) /\ ~StartsAtGenesis(tempchain))'
        BY <1>3, <2>1 DEF StartsAtGenesis
      <3> QED
        BY <1>1, <1>2, <1>3, <2>1, <3>1, <3>2, MutexMoves
    <2>4. TypeOK'
      BY <1>1, <2>1, <2>2 DEF TypeOK
    <2> QED
      BY <1>1, <2>1, <2>2, <2>3, <2>4, ChainKept DEF DataInv
  <1>5. CASE ~Extends(blockchain, tempchain)
    <2>1. tempchain' = <<>> /\ position' = 0 /\ chainMutex' = Nobody /\ Return(t, FALSE)
      BY <1>5 DEF SyncCheck
    <2> QED
      BY <1>1, <1>2, <2>1, SyncLeaves
  <1> QED
    BY <1>4, <1>5

\* One addNewBlock of the loops, and the place the loop goes on at.
LEMMA LoopStep ==
    ASSUME DataInv, NEW t \in Threads, pc[t] \in {"replace", "append"},
           NEW label \in {"replace", "append", "store", "reset", "unlock"}, Goto(t, label),
           label \in {"replace", "append"} => position # Len(tempchain),
           label \in {"reset", "unlock"} => position = Len(tempchain),
           blockchain' = AddNewBlock(blockchain, tempchain[position]),
           position' = position + 1,
           UNCHANGED <<txQueue, tempchain, database, threadVars, chainMutex, asked, posted,
                       newblocks, outcome>>
    PROVE  DataInv'
  <1>1. TypeOK /\ ChainInv /\ UpdateInv /\ MutexInv /\ BlockInv
    BY DEF DataInv
  <1>2. pc[t] \in InSync /\ label \in InSync
    BY DEF InSync, SyncLabels
  <1>3. /\ chainMutex = t /\ tempchain # <<>> /\ position \in 1..Len(tempchain)
        /\ ~StartsAtGenesis(tempchain) /\ Len(tempchain) \in Nat
    BY <1>1, <1>2 DEF MutexInv, PositionAt, TypeOK
  <1>4. HonestChain(blockchain) /\ IsSegment(tempchain) /\ LinksToChain(blockchain, tempchain)
    BY <1>1, <1>3 DEF ChainInv, UpdateInv, UpdateAttaches
  <1>5. HonestChain(blockchain') /\ LinksToChain(blockchain', tempchain)
    BY <1>3, <1>4, AddKeeps
  <1>6. pc' \in [Threads -> Labels] /\ BlockInv'
    BY <1>1, <1>2, BlockInside DEF threadVars
  <1>7. MutexInv'
    <2>1. PositionAt(label)'
      BY <1>3 DEF PositionAt
    <2>2. (position # 0 => position \in 1..(Len(tempchain) + 1) /\ ~StartsAtGenesis(tempchain))'
      BY <1>3 DEF StartsAtGenesis
    <2>3. chainMutex' = t /\ tempchain' # <<>>
      BY <1>3
    <2> QED
      BY <1>1, <1>2, <1>3, <2>1, <2>2, <2>3, MutexMoves
  <1>8. TypeOK'
    BY <1>1, <1>5, <1>6, HonestBack DEF TypeOK, threadVars
  <1>9. UpdateInv'
    BY <1>4, <1>5 DEF UpdateInv, UpdateAttaches
  <1> QED
    BY <1>5, <1>6, <1>7, <1>8, <1>9 DEF DataInv, ChainInv

\* The loop that replaces blocks.
LEMMA SyncReplaceInv ==
    ASSUME DataInv, NEW t \in Peers \cup {Miner}, SyncReplace(t)
    PROVE  DataInv'
  <1>1. /\ t \in Threads /\ pc[t] = "replace"
        /\ blockchain' = AddNewBlock(blockchain, tempchain[position])
        /\ position' = position + 1
        /\ UNCHANGED <<txQueue, tempchain, database, threadVars, chainMutex, asked, posted,
                       newblocks, outcome>>
    BY ThreadFacts DEF SyncReplace, At
  <1>2. CASE position = Len(tempchain)
    <2>1. Goto(t, "reset")
      BY <1>2 DEF SyncReplace
    <2> QED
      BY <1>1, <1>2, <2>1, LoopStep
  <1>3. CASE position # Len(tempchain)
    <2>1. Goto(t, "replace")
      BY <1>3 DEF SyncReplace
    <2> QED
      BY <1>1, <1>3, <2>1, LoopStep
  <1> QED
    BY <1>2, <1>3

\* The loop that extends the chain.
LEMMA SyncAppendInv ==
    ASSUME DataInv, NEW t \in Peers \cup {Miner}, SyncAppend(t)
    PROVE  DataInv'
  <1>1. /\ t \in Threads /\ pc[t] = "append"
        /\ blockchain' = AddNewBlock(blockchain, tempchain[position])
        /\ position' = position + 1
        /\ UNCHANGED <<txQueue, tempchain, database, threadVars, chainMutex, asked, posted,
                       newblocks, outcome>>
    BY ThreadFacts DEF SyncAppend, At
  <1>2. CASE CanAddBlock(blockchain, tempchain[position])
    <2>1. Goto(t, "store")
      BY <1>2 DEF SyncAppend
    <2> QED
      BY <1>1, <2>1, LoopStep
  <1>3. CASE ~CanAddBlock(blockchain, tempchain[position]) /\ position = Len(tempchain)
    <2>1. Goto(t, "unlock")
      BY <1>3 DEF SyncAppend
    <2> QED
      BY <1>1, <1>3, <2>1, LoopStep
  <1>4. CASE ~CanAddBlock(blockchain, tempchain[position]) /\ position # Len(tempchain)
    <2>1. Goto(t, "append")
      BY <1>4 DEF SyncAppend
    <2> QED
      BY <1>1, <1>4, <2>1, LoopStep
  <1> QED
    BY <1>2, <1>3, <1>4

\* A step of the holder of the mutex that is on the file only.
LEMMA FileOnly ==
    ASSUME DataInv, NEW t \in Threads, pc[t] \in InSync,
           NEW label \in {"append", "rewrite", "unlock"}, Goto(t, label),
           label = "append" => position \in 1..Len(tempchain),
           label # "append" => position \in {0, Len(tempchain) + 1},
           database' \in Seq(Block) \cup {NoFile},
           UNCHANGED <<blockchain, txQueue, tempchain, position, threadVars, chainMutex, asked,
                       posted, newblocks, outcome>>
    PROVE  DataInv'
  <1>1. TypeOK /\ ChainInv /\ UpdateInv /\ MutexInv /\ BlockInv
    BY DEF DataInv
  <1>2. label \in InSync
    BY DEF InSync, SyncLabels
  <1>3. pc' \in [Threads -> Labels] /\ BlockInv'
    BY <1>1, <1>2, BlockInside DEF threadVars
  <1>4. MutexInv'
    <2>1. PositionAt(label)'
      BY DEF PositionAt
    <2>2. (position # 0 => position \in 1..(Len(tempchain) + 1) /\ ~StartsAtGenesis(tempchain))'
      BY <1>1 DEF MutexInv, StartsAtGenesis
    <2>3. chainMutex' = t /\ chainMutex = t /\ tempchain' # <<>>
      BY <1>1 DEF MutexInv
    <2> QED
      BY <1>1, <1>2, <2>1, <2>2, <2>3, MutexMoves
  <1>5. TypeOK'
    BY <1>1, <1>3 DEF TypeOK, threadVars
  <1> QED
    BY <1>1, <1>3, <1>4, <1>5, ChainKept DEF DataInv

\* Writing a block of the update to the file.
LEMMA SyncStoreInv ==
    ASSUME DataInv, NEW t \in Peers \cup {Miner}, SyncStore(t)
    PROVE  DataInv'
  <1>1. /\ TypeOK /\ MutexInv /\ t \in Threads /\ pc[t] = "store"
        /\ database' = Written(database, <<tempchain[position - 1]>>)
        /\ UNCHANGED <<blockchain, txQueue, tempchain, position, threadVars, chainMutex, asked,
                       posted, newblocks, outcome>>
    BY ThreadFacts DEF DataInv, SyncStore, At
  <1>2. pc[t] \in InSync
    BY <1>1 DEF InSync, SyncLabels
  <1>3. position >= 2 /\ position \in 1..(Len(tempchain) + 1) /\ Len(tempchain) \in Nat
    BY <1>1 DEF MutexInv, PositionAt, TypeOK
  <1>4. database' \in Seq(Block)
    <2>1. position - 1 \in 1..Len(tempchain)
      BY <1>3
    <2>2. tempchain[position - 1] \in Block
      BY <1>1, <2>1 DEF TypeOK
    <2>3. <<tempchain[position - 1]>> \in Seq(Block)
      BY <2>2
    <2> QED
      BY <1>1, <2>3, WrittenType DEF TypeOK
  <1>5. CASE position > Len(tempchain)
    <2>1. Goto(t, "unlock") /\ position = Len(tempchain) + 1
      BY <1>3, <1>5 DEF SyncStore
    <2> QED
      BY <1>1, <1>2, <1>4, <2>1, FileOnly
  <1>6. CASE ~(position > Len(tempchain))
    <2>1. Goto(t, "append") /\ position \in 1..Len(tempchain)
      BY <1>3, <1>6 DEF SyncStore
    <2> QED
      BY <1>1, <1>2, <1>4, <2>1, FileOnly
  <1> QED
    BY <1>5, <1>6

\* Removing the file.
LEMMA SyncResetInv ==
    ASSUME DataInv, NEW t \in Peers \cup {Miner}, SyncReset(t)
    PROVE  DataInv'
  <1>1. /\ t \in Threads /\ pc[t] = "reset" /\ Goto(t, "rewrite")
        /\ position \in {0, Len(tempchain) + 1}
        /\ database' = NoFile
        /\ UNCHANGED <<blockchain, txQueue, tempchain, position, threadVars, chainMutex, asked,
                       posted, newblocks, outcome>>
    BY ThreadFacts DEF SyncReset, At, DataInv, MutexInv, PositionAt
  <1>2. pc[t] \in InSync
    BY <1>1 DEF InSync, SyncLabels
  <1> QED
    BY <1>1, <1>2, FileOnly

\* Writing the whole chain back.
LEMMA SyncRewriteInv ==
    ASSUME DataInv, NEW t \in Peers \cup {Miner}, SyncRewrite(t)
    PROVE  DataInv'
  <1>1. /\ TypeOK /\ t \in Threads /\ pc[t] = "rewrite" /\ Goto(t, "unlock")
        /\ position \in {0, Len(tempchain) + 1}
        /\ database' = Written(database, blockchain)
        /\ UNCHANGED <<blockchain, txQueue, tempchain, position, threadVars, chainMutex, asked,
                       posted, newblocks, outcome>>
    BY ThreadFacts DEF DataInv, SyncRewrite, At, MutexInv, PositionAt
  <1>2. pc[t] \in InSync
    BY <1>1 DEF InSync, SyncLabels
  <1>3. database' \in Seq(Block)
    BY <1>1, WrittenType DEF TypeOK
  <1> QED
    BY <1>1, <1>2, <1>3, FileOnly

\* No other thread needs the update that is dropped.
LEMMA SyncEndInv ==
    ASSUME DataInv, NEW t \in Peers \cup {Miner}, SyncEnd(t)
    PROVE  DataInv'
  <1>1. /\ t \in Threads /\ pc[t] = "unlock" /\ Return(t, TRUE)
        /\ tempchain' = <<>> /\ position' = 0 /\ chainMutex' = Nobody
        /\ UNCHANGED <<blockchain, txQueue, database, miningDone, done, keepTrying,
                       joinable, minted, asked, posted, newblocks, outcome>>
    BY ThreadFacts DEF SyncEnd, At
  <1>2. pc[t] \in InSync
    BY <1>1 DEF InSync, SyncLabels
  <1> QED
    BY <1>1, <1>2, SyncLeaves

\* Every step of syncBlockchain keeps the invariant.
LEMMA SyncInv ==
    ASSUME DataInv, NEW t \in Peers \cup {Miner}, Sync(t)
    PROVE  DataInv'
  BY SyncNothingInv, SyncBeginInv, SyncCheckInv, SyncReplaceInv, SyncAppendInv, SyncStoreInv,
     SyncResetInv, SyncRewriteInv, SyncEndInv DEF Sync

\* Every step of the mining thread keeps the invariant.
LEMMA MineInv ==
    ASSUME DataInv, Mine
    PROVE  DataInv'
  BY MineTopInv, MineCreateInv, MineBeginInv, MineFoundInv, MineAbandonedInv,
     MineRequeueInv, MineAddInv, MineWriteInv, MineBroadcastInv, SyncInv DEF Mine

-----------------------------------------------------------------------------
(* The handlers. *)

\* Requests added after those that a peer has still to answer.
LEMMA AskedType ==
    ASSUME NEW queue \in Seq(Request), NEW requests \in Seq(Request)
    PROVE  /\ queue \o requests \in Seq(Request)
           /\ queue # <<>> => Tail(queue) \o requests \in Seq(Request)
           /\ queue # <<>> => Tail(queue) \in Seq(Request)
           /\ queue # <<>> => Head(queue) \in Request
  OBVIOUS

\* A step of the other threads that changes neither the chains, nor the mutex,
\* nor the block.
LEMMA OtherStep ==
    ASSUME DataInv, NEW t \in Threads \ {Miner}, NEW label \in Labels,
           pc[t] \notin InSync, label \notin InSync, Goto(t, label),
           UNCHANGED <<blockchain, tempchain, position, chainMutex, newblock>>
    PROVE  ChainInv' /\ UpdateInv' /\ MutexInv' /\ BlockInv' /\ pc' \in [Threads -> Labels]
  <1>1. TypeOK /\ ChainInv /\ UpdateInv /\ MutexInv /\ BlockInv
    BY DEF DataInv
  <1> QED
    BY <1>1, ChainKept, MutexKept, BlockKept, GotoType

\* The same, for a step that leaves the thread where it is.
LEMMA StillStep ==
    ASSUME DataInv, UNCHANGED <<blockchain, tempchain, position, chainMutex, newblock,
                                pc>>
    PROVE  ChainInv' /\ UpdateInv' /\ MutexInv' /\ BlockInv' /\ pc' \in [Threads -> Labels]
  <1>1. TypeOK /\ ChainInv /\ UpdateInv /\ MutexInv /\ BlockInv
    BY DEF DataInv
  <1> QED
    BY <1>1, ChainKept DEF MutexInv, PositionAt, BlockInv, TypeOK

\* A request to accept a new block takes the block only where it fits.
LEMMA HandleNewBlockInv ==
    ASSUME DataInv, NEW h \in Peers, HandleNewBlock(h)
    PROVE  DataInv'
  <1>1. TypeOK
    BY DEF DataInv
  <1>2. asked' \in [Peers -> Seq(Request)]
    <2>1. SummaryRequest \in Request
      BY DEF SummaryRequest, Request
    <2>2. Append(asked[h], SummaryRequest) \in Seq(Request)
      BY <1>1, <2>1 DEF TypeOK
    <2>3. asked' = asked \/ asked' = [asked EXCEPT ![h] = Append(@, SummaryRequest)]
      BY DEF HandleNewBlock
    <2> QED
      BY <1>1, <2>2, <2>3 DEF TypeOK
  <1>3. newblocks' \in Nat
    BY <1>1 DEF TypeOK, HandleNewBlock
  <1>4. ChainInv' /\ UpdateInv' /\ MutexInv' /\ BlockInv' /\ pc' \in [Threads -> Labels]
    BY StillStep DEF HandleNewBlock, threadVars
  <1>5. TypeOK'
    BY <1>1, <1>2, <1>3, <1>4 DEF TypeOK, HandleNewBlock, threadVars
  <1> QED
    BY <1>4, <1>5 DEF DataInv

\* A summary leads to requests, and at most marks the start of an update.
LEMMA HandleSummaryInv ==
    ASSUME DataInv, NEW h \in Peers, HandleSummary(h)
    PROVE  DataInv'
  <1>1. /\ TypeOK /\ ChainInv /\ UpdateInv
        /\ pc[h] = "idle" /\ asked[h] # <<>> /\ Goto(h, "tail")
        /\ h \in Threads \ {Miner}
        /\ UNCHANGED <<blockchain, txQueue, tempchain, position, database, threadVars,
                       chainMutex, posted, newblocks, outcome>>
    BY ThreadFacts DEF DataInv, HandleSummary, Answered
  <1>2. asked' \in [Peers -> Seq(Request)]
    <2>1. PICK chain \in PeerChains[h] :
             asked' = [asked EXCEPT ![h] = Tail(@) \o
                 SummaryRequests(blockchain, tempchain, ChainResetEnable, SummaryReply(chain))]
      BY DEF HandleSummary
    <2> DEFINE requests ==
            SummaryRequests(blockchain, tempchain, ChainResetEnable, SummaryReply(chain))
    <2>2. requests \in Seq(Request)
      <3>1. HonestChain(chain)
        BY <2>1, ChainsAssumption
      <3>2. HonestChain(blockchain) /\ (tempchain # <<>> => IsSegment(tempchain))
        BY <1>1 DEF ChainInv, UpdateInv
      <3> QED
        BY <3>1, <3>2, SummaryRequestsType, MinerAppAssumption
    <2> HIDE DEF requests
    <2>3. Tail(asked[h]) \o requests \in Seq(Request)
      <3>1. asked[h] \in Seq(Request)
        BY <1>1 DEF TypeOK
      <3> QED
        BY <1>1, <2>2, <3>1, AskedType
    <2>4. asked' = [asked EXCEPT ![h] = Tail(@) \o requests]
      BY <2>1 DEF requests
    <2> QED
      BY <1>1, <2>3, <2>4 DEF TypeOK
  <1>3. "tail" \in Labels /\ "tail" \notin InSync /\ pc[h] \notin InSync
    BY <1>1 DEF Labels, InSync, SyncLabels
  <1>4. ChainInv' /\ UpdateInv' /\ MutexInv' /\ BlockInv' /\ pc' \in [Threads -> Labels]
    BY <1>1, <1>3, OtherStep DEF threadVars
  <1>5. TypeOK'
    BY <1>1, <1>2, <1>4 DEF TypeOK, threadVars
  <1> QED
    BY <1>4, <1>5 DEF DataInv

\* A response without blocks raises an exception.
LEMMA HandleChainErrorInv ==
    ASSUME DataInv, NEW h \in Peers, HandleChainError(h)
    PROVE  DataInv'
  <1>1. TypeOK /\ outcome' = "no_blocks"
        /\ UNCHANGED <<blockchain, txQueue, tempchain, position, database, threadVars,
                       chainMutex, pc, asked, posted, newblocks>>
    BY DEF DataInv, HandleChainError
  <1>2. ChainInv' /\ UpdateInv' /\ MutexInv' /\ BlockInv' /\ pc' \in [Threads -> Labels]
    BY <1>1, StillStep DEF threadVars
  <1>3. TypeOK'
    BY <1>1 DEF TypeOK, threadVars, Outcomes
  <1> QED
    BY <1>2, <1>3 DEF DataInv

\* Only blocks that attach become the update.
LEMMA HandleChainInv ==
    ASSUME DataInv, NEW h \in Peers, HandleChain(h)
    PROVE  DataInv'
  <1>1. /\ TypeOK /\ ChainInv /\ UpdateInv /\ MutexInv /\ BlockInv
        /\ pc[h] = "idle" /\ asked[h] # <<>> /\ chainMutex = Nobody
        /\ h \in Threads \ {Miner}
        /\ UNCHANGED <<blockchain, txQueue, position, database, threadVars, chainMutex,
                       posted, newblocks>>
    BY ThreadFacts DEF DataInv, HandleChain, Answered
  <1>2. /\ asked[h] \in Seq(Request) /\ Tail(asked[h]) \in Seq(Request)
        /\ Head(asked[h]).ids \in {<<>>} \cup (Nat \X Nat)
    <2>1. asked[h] \in Seq(Request)
      BY <1>1 DEF TypeOK
    <2>2. Tail(asked[h]) \in Seq(Request) /\ Head(asked[h]) \in Request
      BY <1>1, <2>1
    <2> QED
      BY <2>1, <2>2 DEF Request
  <1>3. PICK chain \in PeerChains[h] :
          LET blocks == ChainReply(chain, Head(asked[h]).ids)
          IN  /\ blocks # <<>>
              /\ IF ~IsValidChain(blocks)
                 THEN /\ asked' = [asked EXCEPT ![h] = Tail(@)]
                      /\ UNCHANGED <<tempchain, pc, outcome>>
                 ELSE IF ~NDEBUG /\ ~AlignmentAssert(blockchain, blocks)
                 THEN /\ outcome' = "assert"
                      /\ UNCHANGED <<tempchain, asked, pc>>
                 ELSE /\ tempchain' = Cached(blockchain, tempchain, blocks)
                      /\ asked' = [asked EXCEPT ![h] =
                                      Tail(@) \o ChainRequests(blockchain, blocks)]
                      /\ Goto(h, "tail")
                      /\ UNCHANGED outcome
    BY DEF HandleChain
  <1> DEFINE blocks == ChainReply(chain, Head(asked[h]).ids)
  <1>4. IsSegment(blocks)
    <2>1. HonestChain(chain)
      BY <1>3, ChainsAssumption
    <2> QED
      BY <1>2, <1>3, <2>1, ReplySegment
  <1>5. \/ /\ asked' = [asked EXCEPT ![h] = Tail(@)]
           /\ UNCHANGED <<tempchain, pc, outcome>>
        \/ /\ outcome' = "assert"
           /\ UNCHANGED <<tempchain, asked, pc>>
        \/ /\ tempchain' = Cached(blockchain, tempchain, blocks)
           /\ asked' = [asked EXCEPT ![h] = Tail(@) \o ChainRequests(blockchain, blocks)]
           /\ Goto(h, "tail")
           /\ UNCHANGED outcome
    BY <1>3
  <1> HIDE DEF blocks
  <1>6. CASE asked' = [asked EXCEPT ![h] = Tail(@)] /\ UNCHANGED <<tempchain, pc, outcome>>
    <2>1. asked' \in [Peers -> Seq(Request)]
      BY <1>1, <1>2, <1>6 DEF TypeOK
    <2>2. ChainInv' /\ UpdateInv' /\ MutexInv' /\ BlockInv' /\ pc' \in [Threads -> Labels]
      BY <1>1, <1>6, StillStep DEF threadVars
    <2>3. TypeOK'
      BY <1>1, <1>6, <2>1 DEF TypeOK, threadVars
    <2> QED
      BY <2>2, <2>3 DEF DataInv
  <1>7. CASE outcome' = "assert" /\ UNCHANGED <<tempchain, asked, pc>>
    <2>1. ChainInv' /\ UpdateInv' /\ MutexInv' /\ BlockInv' /\ pc' \in [Threads -> Labels]
      BY <1>1, <1>7, StillStep DEF threadVars
    <2>2. TypeOK'
      BY <1>1, <1>7 DEF TypeOK, threadVars, Outcomes
    <2> QED
      BY <2>1, <2>2 DEF DataInv
  <1>8. CASE /\ tempchain' = Cached(blockchain, tempchain, blocks)
             /\ asked' = [asked EXCEPT ![h] = Tail(@) \o ChainRequests(blockchain, blocks)]
             /\ Goto(h, "tail")
             /\ UNCHANGED outcome
    <2>1. "tail" \in Labels /\ "tail" \notin InSync
      BY DEF Labels, InSync, SyncLabels
    <2>2. /\ pc' \in [Threads -> Labels]
          /\ pc'[h] = "tail"
          /\ \A s \in Threads : s # h => pc'[s] = pc[s]
      BY <1>1, <1>8, <2>1, GotoType
    <2>3. UpdateInv'
      <3>1. CASE StartsAtGenesis(blocks) \/ LinksToChain(blockchain, blocks)
        <4>1. tempchain' = blocks
          BY <1>8, <3>1 DEF Cached
        <4> QED
          BY <1>1, <1>4, <3>1, <4>1 DEF UpdateInv, UpdateAttaches
      <3>2. CASE ~(StartsAtGenesis(blocks) \/ LinksToChain(blockchain, blocks))
        <4>1. tempchain' = tempchain
          BY <1>8, <3>2 DEF Cached
        <4> QED
          BY <1>1, <4>1 DEF UpdateInv, UpdateAttaches
      <3> QED
        BY <3>1, <3>2
    <2>4. asked' \in [Peers -> Seq(Request)]
      <3>1. ChainRequests(blockchain, blocks) \in Seq(Request)
        BY <1>1, <1>4, ChainRequestsType DEF ChainInv
      <3>2. Tail(asked[h]) \o ChainRequests(blockchain, blocks) \in Seq(Request)
        BY <1>1, <1>2, <3>1, AskedType
      <3> QED
        BY <1>1, <1>8, <3>2 DEF TypeOK
    <2>5. TypeOK'
      <3>1. tempchain' \in Seq(Block)
        <4>1. <<>> \in Seq(Block)
          OBVIOUS
        <4> QED
          BY <2>3, <4>1, SegmentSeq DEF UpdateInv
      <3> QED
        BY <1>1, <1>8, <2>2, <2>4, <3>1 DEF TypeOK, threadVars
    <2>6. ChainInv'
      BY <1>1 DEF ChainInv
    <2>7. MutexInv'
      <3>1. \A s \in Threads : pc'[s] = pc[s] \/ pc'[s] \notin InSync
        BY <2>1, <2>2
      <3>2. position' = 0
        BY <1>1 DEF MutexInv
      <3> QED
        BY <1>1, <3>1, <3>2, MutexFree
    <2>8. BlockInv'
      BY <1>1, <1>8, BlockKept DEF threadVars
    <2> QED
      BY <2>3, <2>5, <2>6, <2>7, <2>8 DEF DataInv
  <1> QED
    BY <1>5, <1>6, <1>7, <1>8

\* What a peer says of an announced block changes no chain.
LEMMA HandleNewBlockResponseInv ==
    ASSUME DataInv, NEW h \in Peers, HandleNewBlockResponse(h)
    PROVE  DataInv'
  <1>1. /\ TypeOK /\ pc[h] = "idle" /\ asked[h] # <<>> /\ Goto(h, "tail")
        /\ asked' = [asked EXCEPT ![h] = Tail(@)]
        /\ h \in Threads \ {Miner}
        /\ UNCHANGED <<blockchain, txQueue, tempchain, position, database, threadVars,
                       chainMutex, posted, newblocks, outcome>>
    BY ThreadFacts DEF DataInv, HandleNewBlockResponse, Answered
  <1>2. asked' \in [Peers -> Seq(Request)]
    <2>1. asked[h] \in Seq(Request)
      BY <1>1 DEF TypeOK
    <2>2. Tail(asked[h]) \in Seq(Request)
      BY <1>1, <2>1
    <2> QED
      BY <1>1, <2>2 DEF TypeOK
  <1>3. "tail" \in Labels /\ "tail" \notin InSync /\ pc[h] \notin InSync
    BY <1>1 DEF Labels, InSync, SyncLabels
  <1>4. ChainInv' /\ UpdateInv' /\ MutexInv' /\ BlockInv' /\ pc' \in [Threads -> Labels]
    BY <1>1, <1>3, OtherStep DEF threadVars
  <1>5. TypeOK'
    BY <1>1, <1>2, <1>4 DEF TypeOK, threadVars
  <1> QED
    BY <1>4, <1>5 DEF DataInv

\* The end of handleResponse enters syncBlockchain with the mutex.
LEMMA HandleTailInv ==
    ASSUME DataInv, NEW h \in Peers, HandleTail(h)
    PROVE  DataInv'
  <1> DEFINE label == IF miningDone THEN "sync" ELSE "idle"
  <1>1. /\ TypeOK /\ pc[h] = "tail" /\ Goto(h, label)
        /\ h \in Threads \ {Miner}
        /\ UNCHANGED <<blockchain, txQueue, tempchain, position, database, threadVars,
                       chainMutex, asked, posted, newblocks, outcome>>
    BY ThreadFacts DEF DataInv, HandleTail, At
  <1>2. label \in Labels /\ label \notin InSync /\ pc[h] \notin InSync
    BY <1>1 DEF Labels, SyncLabels, InSync
  <1> HIDE DEF label
  <1>3. ChainInv' /\ UpdateInv' /\ MutexInv' /\ BlockInv' /\ pc' \in [Threads -> Labels]
    BY <1>1, <1>2, OtherStep DEF threadVars
  <1>4. TypeOK'
    BY <1>1, <1>3 DEF TypeOK, threadVars
  <1> QED
    BY <1>3, <1>4 DEF DataInv

\* Every step of a peer's thread keeps the invariant.
LEMMA HandleInv ==
    ASSUME DataInv, NEW h \in Peers, Handle(h)
    PROVE  DataInv'
  BY HandleNewBlockInv, HandleSummaryInv, HandleChainErrorInv, HandleChainInv,
     HandleNewBlockResponseInv, HandleTailInv, SyncInv DEF Handle

-----------------------------------------------------------------------------
(* The REST calls and the end of the process. *)

\* A request to stop mining moves the HTTP thread and sets flags.
LEMMA StopMiningInv ==
    ASSUME DataInv, StopMining
    PROVE  DataInv'
  <1> DEFINE label == IF joinable THEN "joining" ELSE "idle"
  <1>1. /\ TypeOK /\ pc[Http] = "idle" /\ Goto(Http, label) /\ Http \in Threads \ {Miner}
        /\ miningDone' = TRUE /\ keepTrying' = FALSE
        /\ UNCHANGED <<blockchain, txQueue, tempchain, position, database, done, joinable,
                       chainMutex, newblock, asked, minted, posted, newblocks, outcome>>
    BY ThreadFacts DEF DataInv, StopMining, AtRest, At
  <1>2. label \in Labels /\ label \notin InSync /\ pc[Http] \notin InSync
    BY <1>1 DEF Labels, InSync, SyncLabels
  <1> HIDE DEF label
  <1>3. ChainInv' /\ UpdateInv' /\ MutexInv' /\ BlockInv' /\ pc' \in [Threads -> Labels]
    BY <1>1, <1>2, OtherStep
  <1>4. TypeOK'
    BY <1>1, <1>3 DEF TypeOK
  <1> QED
    BY <1>3, <1>4 DEF DataInv

\* A request to shut down sets a flag.
LEMMA ShutdownInv ==
    ASSUME DataInv, Shutdown
    PROVE  DataInv'
  <1>1. ChainInv' /\ UpdateInv' /\ MutexInv' /\ BlockInv' /\ pc' \in [Threads -> Labels]
    BY StillStep DEF Shutdown
  <1>2. TypeOK'
    BY DEF DataInv, TypeOK, Shutdown
  <1> QED
    BY <1>1, <1>2 DEF DataInv

\* A payment joins the queue and touches no chain.
LEMMA CreateTxInv ==
    ASSUME DataInv, NEW tx \in Txs, CreateTx(tx)
    PROVE  DataInv'
  <1>1. ChainInv' /\ UpdateInv' /\ MutexInv' /\ BlockInv' /\ pc' \in [Threads -> Labels]
    BY StillStep DEF CreateTx, threadVars
  <1>2. txQueue' \in Seq(Txs)
    BY DEF DataInv, TypeOK, CreateTx
  <1>3. TypeOK'
    BY <1>2 DEF DataInv, TypeOK, CreateTx, threadVars
  <1> QED
    BY <1>1, <1>3 DEF DataInv

\* The mining thread is started where it was joined.
LEMMA StartMiningInv ==
    ASSUME DataInv, JoinInv, StartMining
    PROVE  DataInv'
  <1>1. /\ TypeOK /\ ChainInv /\ UpdateInv /\ MutexInv /\ Miner \in Threads
        /\ miningDone' = FALSE
        /\ UNCHANGED <<blockchain, txQueue, tempchain, position, database, done,
                       keepTrying, chainMutex, newblock, asked, minted, posted,
                       newblocks>>
    BY ThreadFacts DEF DataInv, StartMining
  <1>2. CASE joinable
    <2>1. outcome' = "terminate" /\ UNCHANGED <<joinable, pc>>
      BY <1>2 DEF StartMining
    <2>2. ChainInv' /\ UpdateInv' /\ MutexInv' /\ BlockInv'
      BY <1>1, <2>1, StillStep
    <2>3. TypeOK'
      BY <1>1, <2>1 DEF TypeOK, Outcomes
    <2> QED
      BY <2>2, <2>3 DEF DataInv
  <1>3. CASE ~joinable
    <2>1. joinable' = TRUE /\ Goto(Miner, "top") /\ UNCHANGED outcome
      BY <1>3 DEF StartMining
    <2>2. pc[Miner] = "idle"
      BY <1>3 DEF JoinInv
    <2>3. "top" \in Labels /\ "top" \notin InSync /\ pc[Miner] \notin InSync
      BY <2>2 DEF Labels, InSync, SyncLabels
    <2>4. pc' \in [Threads -> Labels] /\ pc'[Miner] = "top"
      BY <1>1, <2>1, <2>3, GotoType
    <2>5. TypeOK'
      BY <1>1, <2>1, <2>4 DEF TypeOK
    <2>6. ChainInv' /\ UpdateInv'
      BY <1>1, ChainKept
    <2>7. MutexInv'
      BY <1>1, <2>1, <2>3, MutexKept
    <2>8. BlockInv'
      BY <2>4 DEF BlockInv
    <2> QED
      BY <2>5, <2>6, <2>7, <2>8 DEF DataInv
  <1> QED
    BY <1>2, <1>3

\* A join waits for the mining thread and touches no chain.
LEMMA JoinMinerInv ==
    ASSUME DataInv, JoinMiner
    PROVE  DataInv'
  <1>1. /\ TypeOK /\ ChainInv /\ UpdateInv /\ MutexInv /\ BlockInv
        /\ pc[Http] = "joining" /\ joinable' = FALSE
        /\ pc' = [pc EXCEPT ![Http] = "idle", ![Main] = IF BothJoining THEN "stopping" ELSE @]
        /\ outcome' \in JoinOutcomes
        /\ UNCHANGED <<blockchain, txQueue, tempchain, position, database, miningDone,
                       done, keepTrying, chainMutex, newblock, asked, minted, posted,
                       newblocks>>
    BY DEF DataInv, JoinMiner, At
  <1>2. /\ pc' \in [Threads -> Labels]
        /\ \A s \in Threads : pc'[s] = pc[s] \/ (pc'[s] \in {"idle", "stopping"}
                                                 /\ pc[s] = "joining")
    BY <1>1, ThreadFacts DEF TypeOK, Labels, BothJoining
  <1>3. TypeOK'
    <2>1. outcome' \in Outcomes
      BY <1>1 DEF JoinOutcomes, Outcomes
    <2> QED
      BY <1>1, <1>2, <2>1 DEF TypeOK
  <1>4. ChainInv' /\ UpdateInv'
    BY <1>1, ChainKept
  <1>5. MutexInv'
    <2>1. \A s \in Threads : pc'[s] \in InSync <=> pc[s] \in InSync
      BY <1>2 DEF InSync, SyncLabels
    <2>2. \A s \in Threads : PositionAt(pc[s])'
      BY <1>1, <1>2 DEF MutexInv, PositionAt
    <2> QED
      BY <1>1, <2>1, <2>2 DEF MutexInv
  <1>6. BlockInv'
    <2>1. pc'[Miner] = pc[Miner]
      BY <1>1, ThreadFacts DEF TypeOK
    <2> QED
      BY <1>1, <2>1 DEF BlockInv
  <1> QED
    BY <1>3, <1>4, <1>5, <1>6 DEF DataInv

\* Every step of the HTTP thread keeps the invariant.
LEMMA RestInv ==
    ASSUME DataInv, JoinInv, Rest
    PROVE  DataInv'
  BY StartMiningInv, StopMiningInv, JoinMinerInv, ShutdownInv, CreateTxInv DEF Rest

\* The main thread's steps, and the exit, keep the invariant.
LEMMA EndInv ==
    ASSUME DataInv, End
    PROVE  DataInv'
  <1>1. TypeOK /\ Main \in Threads \ {Miner}
    BY ThreadFacts DEF DataInv
  <1>2. CASE MainLeaves
    <2> DEFINE label == IF joinable THEN "joining" ELSE "stopping"
    <2>1. pc[Main] = "idle" /\ Goto(Main, label)
      BY <1>2 DEF MainLeaves, At
    <2>2. label \in Labels /\ label \notin InSync /\ pc[Main] \notin InSync
      BY <2>1 DEF Labels, InSync, SyncLabels
    <2> HIDE DEF label
    <2>3. ChainInv' /\ UpdateInv' /\ MutexInv' /\ BlockInv' /\ pc' \in [Threads -> Labels]
      BY <1>1, <1>2, <2>1, <2>2, OtherStep DEF MainLeaves, threadVars
    <2>4. TypeOK'
      BY <1>1, <1>2, <2>3 DEF TypeOK, MainLeaves, threadVars
    <2> QED
      BY <2>3, <2>4 DEF DataInv
  <1>3. CASE MainJoins
    <2>1. pc[Main] = "joining" /\ Goto(Main, "stopping") /\ outcome' \in Outcomes
      BY <1>1, <1>3 DEF MainJoins, At, JoinOutcomes, Outcomes
    <2>2. "stopping" \in Labels /\ "stopping" \notin InSync /\ pc[Main] \notin InSync
      BY <2>1 DEF Labels, InSync, SyncLabels
    <2>3. ChainInv' /\ UpdateInv' /\ MutexInv' /\ BlockInv' /\ pc' \in [Threads -> Labels]
      BY <1>1, <1>3, <2>1, <2>2, OtherStep DEF MainJoins
    <2>4. TypeOK'
      BY <1>1, <1>3, <2>1, <2>3 DEF TypeOK, MainJoins
    <2> QED
      BY <2>3, <2>4 DEF DataInv
  <1>4. CASE StopServer
    <2>1. pc[Main] = "stopping" /\ Goto(Main, "closing")
      BY <1>4 DEF StopServer, At
    <2>2. "closing" \in Labels /\ "closing" \notin InSync /\ pc[Main] \notin InSync
      BY <2>1 DEF Labels, InSync, SyncLabels
    <2>3. ChainInv' /\ UpdateInv' /\ MutexInv' /\ BlockInv' /\ pc' \in [Threads -> Labels]
      BY <1>1, <1>4, <2>1, <2>2, OtherStep DEF StopServer, threadVars
    <2>4. TypeOK'
      BY <1>1, <1>4, <2>3 DEF TypeOK, StopServer, threadVars
    <2> QED
      BY <2>3, <2>4 DEF DataInv
  <1>5. CASE Exit
    <2>1. ChainInv' /\ UpdateInv' /\ MutexInv' /\ BlockInv' /\ pc' \in [Threads -> Labels]
      BY <1>5, StillStep DEF Exit, threadVars
    <2>2. TypeOK'
      BY <1>1, <1>5 DEF TypeOK, Exit, threadVars, Outcomes
    <2> QED
      BY <2>1, <2>2 DEF DataInv
  <1> QED
    BY <1>2, <1>3, <1>4, <1>5 DEF End

-----------------------------------------------------------------------------
(* The whole of Next. *)

\* A step of the mining thread takes it from where it is not idle, and only
\* joining makes it impossible to join.
LEMMA JoinStep ==
    ASSUME DataInv, JoinInv, Next
    PROVE  JoinInv'
  <1>1. TypeOK
    BY DEF DataInv
  <1>2. CASE Mine
    <2>1. pc[Miner] # "idle" /\ joinable' = joinable
      <3>1. CASE Sync(Miner)
        BY <3>1 DEF Sync, SyncNothing, SyncBegin, SyncCheck, SyncReplace, SyncAppend,
                    SyncStore, SyncReset, SyncRewrite, SyncEnd, Return, At, AtLocked, threadVars
      <3>2. CASE ~Sync(Miner)
        BY <1>2, <3>2 DEF Mine, MineTop, MineCreate, MineBegin, MineFound, MineAborted,
                    MineOvertaken, MineRequeue, MineAdd, MineWrite, MineBroadcast, At,
                    AtLocked, threadVars
      <3> QED
        BY <3>1, <3>2
    <2> QED
      BY <2>1 DEF JoinInv
  <1>3. CASE \E h \in Peers : Handle(h)
    <2>1. PICK h \in Peers : Handle(h)
      BY <1>3
    <2>2. joinable' = joinable
      BY <2>1 DEF Handle, HandleNewBlock, HandleSummary, HandleChainError, HandleChain,
                  HandleNewBlockResponse, HandleTail, Sync, SyncNothing, SyncBegin, SyncCheck,
                  SyncReplace, SyncAppend, SyncStore, SyncReset, SyncRewrite, SyncEnd, threadVars
    <2>3. pc' = pc \/ \E label : Goto(h, label)
      BY <2>1 DEF Handle, HandleNewBlock, HandleSummary, HandleChainError, HandleChain,
                  HandleNewBlockResponse, HandleTail, Sync, SyncNothing, SyncBegin, SyncCheck,
                  SyncReplace, SyncAppend, SyncStore, SyncReset, SyncRewrite, SyncEnd, Return
    <2>4. pc'[Miner] = pc[Miner]
      BY <1>1, <2>3, ThreadFacts DEF Goto, TypeOK
    <2> QED
      BY <2>2, <2>4 DEF JoinInv
  <1>4. CASE Rest
    BY <1>1, <1>4, ThreadFacts
       DEF Rest, StartMining, StopMining, JoinMiner, Shutdown, CreateTx, Goto, JoinInv,
           TypeOK, threadVars
  <1>5. CASE End
    BY <1>1, <1>5, ThreadFacts
       DEF End, MainLeaves, MainJoins, StopServer, Exit, Goto, JoinInv, TypeOK, threadVars
  <1> QED
    BY <1>2, <1>3, <1>4, <1>5 DEF Next

\* So does a step that changes nothing.
LEMMA StutterInv ==
    ASSUME IInv, UNCHANGED vars
    PROVE  IInv'
  <1>1. ChainInv' /\ UpdateInv' /\ MutexInv' /\ BlockInv' /\ pc' \in [Threads -> Labels]
    BY StillStep DEF vars, IInv
  <1>2. TypeOK'
    BY DEF IInv, DataInv, TypeOK, vars
  <1> QED
    BY <1>1, <1>2 DEF IInv, DataInv, JoinInv, vars

\* The node starts in the invariant, and every step keeps it.
LEMMA InvInit ==
    ASSUME Init
    PROVE  IInv
  BY InitInv, ThreadFacts DEF IInv, JoinInv, Init

\* Every step keeps the inductive invariant: one lemma per group of actions.
LEMMA InvStep ==
    ASSUME IInv, Next
    PROVE  IInv'
  <1>1. DataInv'
    BY MineInv, HandleInv, RestInv, EndInv DEF IInv, Next
  <1>2. JoinInv'
    BY JoinStep DEF IInv
  <1> QED
    BY <1>1, <1>2 DEF IInv

\* IInv is an invariant of the node, whatever its peers and users do.
THEOREM Invariant == Spec => []IInv
  <1>1. Init => IInv
    BY InvInit
  <1>2. IInv /\ [Next]_vars => IInv'
    BY InvStep, StutterInv
  <1> QED
    BY <1>1, <1>2, PTL DEF Spec

\* Every variable has its type; above all, the difficulty stays within 64 bits
\* and every block of the chain and of the file is well formed.
THEOREM TypeCorrect == Spec => []TypeOK
  <1>1. IInv => TypeOK
    BY DEF IInv, DataInv
  <1> QED
    BY <1>1, Invariant, PTL

\* The local chain is always valid, although addNewBlock compares no index and
\* runs without the mutex, and syncBlockchain checks nothing again.
THEOREM ChainAlwaysValid == Spec => []ChainValid
  <1>1. IInv => ChainValid
    BY HonestValid DEF IInv, DataInv, ChainInv, ChainValid
  <1> QED
    BY <1>1, Invariant, PTL

\* A cached update never goes stale in the sense that it no longer attaches.
THEOREM UpdateAlwaysAttaches == Spec => []UpdateAttaches
  <1>1. IInv => UpdateAttaches
    BY DEF IInv, DataInv, UpdateInv, UpdateAttaches
  <1> QED
    BY <1>1, Invariant, PTL

-----------------------------------------------------------------------------
(* The genesis block. *)

\* A list of requests of which none is for block 0.
Late(requests) ==
    \A i \in DOMAIN requests :
        requests[i].message = "chain" => requests[i].ids # <<>> /\ requests[i].ids[1] >= 1

\* Requests are queued at the end and answered at the front; neither adds block 0.
LEMMA LateLists ==
    ASSUME NEW q \in Seq(Request), Late(q), NEW r \in Seq(Request), Late(r)
    PROVE  Late(q \o r) /\ (q # <<>> => Late(Tail(q)) /\ Late(Tail(q) \o r))
  <1>1. ASSUME NEW u \in Seq(Request), Late(u)
        PROVE  Late(u \o r)
    <2> SUFFICES ASSUME NEW i \in 1..Len(u) + Len(r)
                 PROVE  LET x == (u \o r)[i]
                        IN  x.message = "chain" => x.ids # <<>> /\ x.ids[1] >= 1
      BY DEF Late
    <2>1. CASE i <= Len(u)
      BY <1>1, <2>1 DEF Late
    <2>2. CASE i > Len(u)
      <3>1. i - Len(u) \in 1..Len(r) /\ (u \o r)[i] = r[i - Len(u)]
        BY <2>2
      <3> QED
        BY <3>1 DEF Late
    <2> QED
      BY <2>1, <2>2
  <1>2. q # <<>> => Tail(q) \in Seq(Request) /\ Late(Tail(q))
    <2> SUFFICES ASSUME q # <<>> PROVE Tail(q) \in Seq(Request) /\ Late(Tail(q))
      OBVIOUS
    <2>1. Tail(q) \in Seq(Request) /\ Len(Tail(q)) = Len(q) - 1
      OBVIOUS
    <2>2. \A i \in 1..Len(Tail(q)) : Tail(q)[i] = q[i + 1] /\ i + 1 \in 1..Len(q)
      BY <2>1
    <2> QED
      BY <2>1, <2>2 DEF Late
  <1> QED
    BY <1>1, <1>2

\* The lists of at most one request that the handlers add.
LEMMA LateOne ==
    /\ Late(<<>>)
    /\ Late(<<SummaryRequest>>)
    /\ Late(<<NewBlockMessage>>)
    /\ \A i, j \in Nat : i >= 1 => Late(<<RangeRequest(i, j)>>)
  BY DEF Late, SummaryRequest, NewBlockMessage, RangeRequest

\* A summary leads to a request from the end of what is known.
LEMMA LateSummary ==
    ASSUME NEW c, HonestChain(c), NEW t, t # <<>> => IsSegment(t), NEW p, HonestChain(p)
    PROVE  Late(SummaryRequests(c, t, FALSE, SummaryReply(p)))
  <1> DEFINE known == IF t = <<>> THEN c ELSE t
             i == Back(known).index + 1
             j == Back(p).index
  <1>1. i \in Nat /\ i >= 1 /\ j \in Nat
    <2>1. IsSegment(known) /\ IsSegment(p)
      BY DEF HonestChain
    <2>2. Back(known).index \in Nat /\ Back(p).index \in Nat
      BY <2>1, SegmentSeq
    <2> QED
      BY <2>2
  <1>2. SummaryReply(p).back.index = j
    BY DEF SummaryReply
  <1> HIDE DEF i, j
  <1>3. Late(<<>>) /\ Late(<<RangeRequest(i, j)>>)
    BY <1>1, LateOne
  <1> QED
    BY <1>2, <1>3 DEF SummaryRequests, i, j

\* The walk back from blocks that do not attach stops at block 1: at block 0 it
\* runs into the assertion.
LEMMA LateChain ==
    ASSUME NEW c, HonestChain(c), NEW u, IsSegment(u), ~StartsAtGenesis(u),
           AlignmentAssert(c, u)
    PROVE  Late(ChainRequests(c, u))
  <1> DEFINE i == Back(c).index + 1
             j == Back(u).index
             k == u[1].index - 1
  <1>1. i \in Nat /\ i >= 1 /\ j \in Nat /\ k \in Int
    <2>1. Back(c).index \in Nat /\ Back(u).index \in Nat /\ u[1].index \in Nat
      BY SegmentSeq DEF HonestChain
    <2> QED
      BY <2>1
  <1>2. HasGap(c, u) \/ k > 0
    BY DEF AlignmentAssert
  <1> HIDE DEF i, j, k
  <1>3. Late(<<>>) /\ Late(<<RangeRequest(i, j)>>)
    BY <1>1, LateOne
  <1>4. k > 0 => Late(<<RangeRequest(k, j)>>)
    BY <1>1, LateOne
  <1> QED
    BY <1>2, <1>3, <1>4 DEF ChainRequests, i, j, k

\* Blocks asked for from a place after the genesis block do not begin with one.
LEMMA ReplyLate ==
    ASSUME NEW c, HonestChain(c), NEW ids \in Nat \X Nat, ids # <<>>, ids[1] >= 1,
           ChainReply(c, ids) # <<>>
    PROVE  ~StartsAtGenesis(ChainReply(c, ids))
  <1> DEFINE m == ids[1] + 1
             n == IF ids[2] < Len(c) THEN ids[2] + 1 ELSE Len(c)
  <1>1. /\ ids[1] \in Nat /\ ids[2] \in Nat
        /\ c \in Seq(Block) /\ Len(c) \in Nat /\ c[1].index = 0
    BY HonestBack
  <1>2. m \in Nat /\ m >= 2 /\ n \in 0..Len(c)
    BY <1>1
  <1>3. ChainReply(c, ids) = SubSeq(c, m, n)
    BY <1>1 DEF ChainReply, BlockRange
  <1> HIDE DEF m, n
  <1>4. m <= n
    <2> SUFFICES ASSUME m > n PROVE FALSE
      BY <1>2
    <2>1. SubSeq(c, m, n) = <<>>
      BY <1>1, <1>2
    <2> QED
      BY <2>1, <1>3
  <1>5. m \in 1..Len(c) /\ SubSeq(c, m, n)[1] = c[m]
    BY <1>1, <1>2, <1>4
  <1>6. c[m].index = c[1].index + m - 1
    BY <1>5, SegmentBlock DEF HonestChain
  <1> QED
    BY <1>1, <1>2, <1>3, <1>5, <1>6 DEF StartsAtGenesis

\* What NoResetInv says, for a node it says something of.
NothingReset ==
    /\ tempchain # <<>> => ~StartsAtGenesis(tempchain)
    /\ \A h \in Peers : Late(asked[h])

\* Under the settings it is about, NoResetInv is its two parts.
LEMMA NoResetMeans ==
    ASSUME ~ChainResetEnable, ~NDEBUG
    PROVE  NoResetInv <=> NothingReset
  BY DEF NoResetInv, NothingReset, Late

\* The handler of an answer, which may cache blocks and ask for more.
LEMMA HandleChainLate ==
    ASSUME DataInv, NothingReset, ~NDEBUG, NEW h \in Peers, HandleChain(h)
    PROVE  NothingReset'
  <1>1. TypeOK /\ ChainInv
    BY DEF DataInv
  <1>2. /\ asked[h] \in Seq(Request) /\ asked[h] # <<>> /\ Late(asked[h])
        /\ Head(asked[h]).message = "chain"
    BY <1>1 DEF HandleChain, Answered, NothingReset, TypeOK
  <1>3. Tail(asked[h]) \in Seq(Request) /\ Late(Tail(asked[h]))
    <2>1. <<>> \in Seq(Request)
      OBVIOUS
    <2> QED
      BY <1>2, <2>1, LateOne, LateLists
  <1>4. /\ Head(asked[h]).ids \in Nat \X Nat
        /\ Head(asked[h]).ids # <<>> /\ Head(asked[h]).ids[1] >= 1
    <2>1. Head(asked[h]) \in Request /\ Head(asked[h]) = asked[h][1] /\ 1 \in DOMAIN asked[h]
      BY <1>2
    <2>2. Head(asked[h]).ids \in {<<>>} \cup (Nat \X Nat)
      BY <2>1 DEF Request
    <2>3. Head(asked[h]).ids # <<>> /\ Head(asked[h]).ids[1] >= 1
      BY <1>2, <2>1 DEF Late
    <2> QED
      BY <2>2, <2>3
  <1>5. PICK chain \in PeerChains[h] :
          LET blocks == ChainReply(chain, Head(asked[h]).ids)
          IN  /\ blocks # <<>>
              /\ IF ~IsValidChain(blocks)
                 THEN /\ asked' = [asked EXCEPT ![h] = Tail(@)]
                      /\ UNCHANGED <<tempchain, pc, outcome>>
                 ELSE IF ~NDEBUG /\ ~AlignmentAssert(blockchain, blocks)
                 THEN /\ outcome' = "assert"
                      /\ UNCHANGED <<tempchain, asked, pc>>
                 ELSE /\ tempchain' = Cached(blockchain, tempchain, blocks)
                      /\ asked' = [asked EXCEPT ![h] =
                                      Tail(@) \o ChainRequests(blockchain, blocks)]
                      /\ Goto(h, "tail")
                      /\ UNCHANGED outcome
    BY DEF HandleChain
  <1> DEFINE blocks == ChainReply(chain, Head(asked[h]).ids)
  <1>6. IsSegment(blocks) /\ ~StartsAtGenesis(blocks)
    <2>1. HonestChain(chain)
      BY <1>5, ChainsAssumption
    <2> QED
      BY <1>4, <1>5, <2>1, ReplySegment, ReplyLate
  <1>7. \/ UNCHANGED <<tempchain, asked>>
        \/ UNCHANGED tempchain /\ asked' = [asked EXCEPT ![h] = Tail(@)]
        \/ /\ tempchain' = Cached(blockchain, tempchain, blocks)
           /\ asked' = [asked EXCEPT ![h] = Tail(@) \o ChainRequests(blockchain, blocks)]
           /\ AlignmentAssert(blockchain, blocks)
    BY <1>5
  <1> HIDE DEF blocks
  <1>8. CASE UNCHANGED <<tempchain, asked>>
    BY <1>8 DEF NothingReset
  <1>9. CASE UNCHANGED tempchain /\ asked' = [asked EXCEPT ![h] = Tail(@)]
    BY <1>1, <1>3, <1>9 DEF NothingReset, TypeOK
  <1>10. CASE /\ tempchain' = Cached(blockchain, tempchain, blocks)
              /\ asked' = [asked EXCEPT ![h] = Tail(@) \o ChainRequests(blockchain, blocks)]
              /\ AlignmentAssert(blockchain, blocks)
    <2>1. Late(ChainRequests(blockchain, blocks)) /\ ChainRequests(blockchain, blocks) \in Seq(Request)
      BY <1>1, <1>6, <1>10, LateChain, ChainRequestsType DEF ChainInv
    <2>2. Late(Tail(asked[h]) \o ChainRequests(blockchain, blocks))
      BY <1>2, <2>1, LateLists
    <2>3. tempchain' # <<>> => ~StartsAtGenesis(tempchain')
      BY <1>6, <1>10 DEF Cached, NothingReset
    <2> QED
      BY <1>1, <1>10, <2>2, <2>3 DEF NothingReset, TypeOK
  <1> QED
    BY <1>7, <1>8, <1>9, <1>10

\* The other handlers that ask something or have been answered.
LEMMA HandleLate ==
    ASSUME DataInv, NothingReset, ~ChainResetEnable, NEW h \in Peers,
           HandleNewBlock(h) \/ HandleSummary(h) \/ HandleNewBlockResponse(h)
    PROVE  NothingReset'
  <1>1. TypeOK /\ tempchain' = tempchain /\ asked[h] \in Seq(Request) /\ Late(asked[h])
    BY DEF DataInv, TypeOK, NothingReset, HandleNewBlock, HandleSummary,
           HandleNewBlockResponse
  <1>2. ASSUME NEW queue, Late(queue), asked' = [asked EXCEPT ![h] = queue]
        PROVE  NothingReset'
    BY <1>1, <1>2 DEF NothingReset, TypeOK
  <1>3. CASE HandleNewBlock(h)
    <2>1. CASE asked' = asked
      BY <1>1, <2>1 DEF NothingReset
    <2>2. CASE asked' = [asked EXCEPT ![h] = Append(@, SummaryRequest)]
      <3>1. SummaryRequest \in Request
        BY DEF SummaryRequest, Request
      <3>2. /\ Append(asked[h], SummaryRequest) = asked[h] \o <<SummaryRequest>>
            /\ <<SummaryRequest>> \in Seq(Request)
        BY <1>1, <3>1
      <3>3. Late(asked[h] \o <<SummaryRequest>>)
        BY <1>1, <3>2, LateOne, LateLists
      <3> QED
        BY <1>2, <2>2, <3>2, <3>3
    <2> QED
      BY <1>3, <2>1, <2>2 DEF HandleNewBlock
  <1>4. CASE HandleSummary(h)
    <2>1. PICK chain \in PeerChains[h] :
             asked' = [asked EXCEPT ![h] = Tail(@) \o
                 SummaryRequests(blockchain, tempchain, ChainResetEnable, SummaryReply(chain))]
      BY <1>4 DEF HandleSummary
    <2> DEFINE requests ==
            SummaryRequests(blockchain, tempchain, ChainResetEnable, SummaryReply(chain))
    <2>2. HonestChain(chain) /\ HonestChain(blockchain) /\ (tempchain # <<>> => IsSegment(tempchain))
      BY <2>1, ChainsAssumption DEF DataInv, ChainInv, UpdateInv
    <2>3. ChainResetEnable = FALSE
      BY MinerAppAssumption
    <2>4. requests \in Seq(Request)
      BY <2>2, SummaryRequestsType, MinerAppAssumption
    <2>5. Late(requests)
      BY <2>2, <2>3, LateSummary
    <2> HIDE DEF requests
    <2>6. asked[h] # <<>>
      BY <1>4 DEF HandleSummary, Answered
    <2>7. Late(Tail(asked[h]) \o requests)
      BY <1>1, <2>4, <2>5, <2>6, LateLists
    <2> QED
      BY <1>2, <2>1, <2>7 DEF requests
  <1>5. CASE HandleNewBlockResponse(h)
    <2>1. asked[h] # <<>> /\ asked' = [asked EXCEPT ![h] = Tail(@)]
      BY <1>5 DEF HandleNewBlockResponse, Answered
    <2>2. <<>> \in Seq(Request)
      OBVIOUS
    <2>3. Late(Tail(asked[h]))
      BY <1>1, <2>1, <2>2, LateOne, LateLists
    <2> QED
      BY <1>2, <2>1, <2>3
  <1> QED
    BY <1>3, <1>4, <1>5

\* A node that may not reset its chain never asks for block 0 nor caches it.
LEMMA NothingResetStep ==
    ASSUME DataInv, NothingReset, ~ChainResetEnable, ~NDEBUG, Next
    PROVE  NothingReset'
  <1>1. TypeOK
    BY DEF DataInv
  <1>2. ASSUME NEW t \in Peers \cup {Miner}, Sync(t)
        PROVE  NothingReset'
    BY <1>2 DEF Sync, SyncNothing, SyncBegin, SyncCheck, SyncReplace, SyncAppend, SyncStore,
                SyncReset, SyncRewrite, SyncEnd, NothingReset
  <1>3. CASE MineBroadcast
    <2>1. NewBlockMessage \in Request
      BY DEF NewBlockMessage, Request
    <2>2. ASSUME NEW h \in Peers
          PROVE  Late(asked'[h])
      <3>1. asked[h] \in Seq(Request) /\ Late(asked[h])
        BY <1>1 DEF NothingReset, TypeOK
      <3>2. asked'[h] = asked[h] \o <<NewBlockMessage>> /\ <<NewBlockMessage>> \in Seq(Request)
        <4>1. asked' = [g \in Peers |-> Append(asked[g], NewBlockMessage)]
          BY <1>3 DEF MineBroadcast
        <4>2. asked'[h] = Append(asked[h], NewBlockMessage)
          BY <4>1
        <4> QED
          BY <2>1, <3>1, <4>2
      <3> QED
        BY <3>1, <3>2, LateOne, LateLists
    <2> QED
      BY <1>3, <2>2 DEF NothingReset, MineBroadcast
  <1>4. CASE Mine /\ ~Sync(Miner) /\ ~MineBroadcast
    BY <1>4 DEF Mine, MineTop, MineCreate, MineBegin, MineFound, MineAborted, MineOvertaken,
                MineRequeue, MineAdd, MineWrite, NothingReset
  <1>5. CASE \E h \in Peers : Handle(h)
    <2>1. PICK h \in Peers : Handle(h)
      BY <1>5
    <2>2. CASE HandleTail(h) \/ HandleChainError(h)
      BY <2>2 DEF HandleTail, HandleChainError, NothingReset
    <2> QED
      BY <2>1, <2>2, <1>2, HandleChainLate, HandleLate DEF Handle
  <1>6. CASE Rest
    BY <1>6 DEF Rest, StartMining, StopMining, JoinMiner, Shutdown, CreateTx, NothingReset
  <1>7. CASE End
    BY <1>7 DEF End, MainLeaves, MainJoins, StopServer, Exit, NothingReset
  <1> QED
    BY <1>2, <1>3, <1>4, <1>5, <1>6, <1>7 DEF Next, Mine

\* Only addNewBlock and syncBlockchain change the chain, the one at its end, the
\* other after the place that the update links to.
LEMMA GenesisStep ==
    ASSUME DataInv, NothingReset, Next
    PROVE  blockchain'[1] = blockchain[1]
  <1>1. HonestChain(blockchain) /\ blockchain \in Seq(Block) /\ Len(blockchain) >= 1
    BY HonestBack DEF DataInv, ChainInv
  <1>2. ASSUME NEW t \in Peers \cup {Miner}, SyncBegin(t)
        PROVE  blockchain'[1] = blockchain[1]
    <2>1. tempchain # <<>> /\ ~StartsAtGenesis(tempchain)
      BY <1>2 DEF SyncBegin, NothingReset
    <2>2. LinksToChain(blockchain, tempchain)
      BY <2>1 DEF DataInv, UpdateInv, UpdateAttaches
    <2>3. \/ blockchain' = blockchain
          \/ blockchain' = Resize(blockchain, tempchain[1].index)
      BY <1>2, <2>1 DEF SyncBegin
    <2> QED
      BY <1>1, <2>2, <2>3, ResizeLinks DEF HonestChain
  <1>8. ASSUME NEW t \in Peers \cup {Miner}, SyncReplace(t) \/ SyncAppend(t)
        PROVE  blockchain'[1] = blockchain[1]
    <2>1. blockchain' = AddNewBlock(blockchain, tempchain[position])
      BY <1>8 DEF SyncReplace, SyncAppend
    <2>2. position \in 1..Len(tempchain)
      BY <1>8, ThreadFacts DEF SyncReplace, SyncAppend, At, DataInv, MutexInv, PositionAt
    <2>3. tempchain[position] \in Block
      BY <2>2 DEF DataInv, TypeOK
    <2> QED
      BY <1>1, <2>1, <2>3 DEF AddNewBlock
  <1>3. CASE MineAdd
    <2>1. newblock \in Block
      BY <1>3 DEF DataInv, BlockInv, MineAdd, At
    <2> QED
      BY <1>1, <1>3, <2>1 DEF MineAdd, AddNewBlock
  <1>4. ASSUME NEW t \in Peers \cup {Miner}, Sync(t), ~SyncBegin(t), ~SyncReplace(t),
               ~SyncAppend(t)
        PROVE  blockchain' = blockchain
    BY <1>4 DEF Sync, SyncNothing, SyncCheck, SyncStore, SyncReset, SyncRewrite, SyncEnd
  <1>5. CASE Mine /\ ~Sync(Miner) /\ ~MineAdd
    BY <1>5 DEF Mine, MineTop, MineCreate, MineBegin, MineFound, MineAborted, MineOvertaken,
                MineRequeue, MineWrite, MineBroadcast
  <1>6. CASE \E h \in Peers : Handle(h) /\ ~Sync(h)
    BY <1>6 DEF Handle, HandleNewBlock, HandleSummary, HandleChainError, HandleChain,
                HandleNewBlockResponse, HandleTail
  <1>7. CASE Rest \/ End
    BY <1>7 DEF Rest, StartMining, StopMining, JoinMiner, Shutdown, CreateTx, End, MainLeaves,
                MainJoins, StopServer, Exit
  <1> QED
    BY <1>2, <1>3, <1>4, <1>5, <1>6, <1>7, <1>8 DEF Next, Mine, Handle

\* Without chain.reset.enable, a node whose assertions are compiled in asks no
\* peer for block 0, whatever it is told, and caches none that begins there: it
\* is the assertion that ends the walk back before it gets that far.
THEOREM NeverResets == Spec => []NoResetInv
  <1>1. Init => NoResetInv
    BY DEF Init, NoResetInv, SummaryRequest
  <1>2. IInv /\ NoResetInv /\ [Next]_vars => NoResetInv'
    <2> SUFFICES ASSUME IInv, NoResetInv, [Next]_vars, ~ChainResetEnable, ~NDEBUG
                 PROVE  NoResetInv'
      BY DEF NoResetInv
    <2>1. NothingReset
      BY NoResetMeans
    <2>2. CASE Next
      <3>1. NothingReset'
        BY <2>1, <2>2, NothingResetStep DEF IInv
      <3> QED
        BY <3>1 DEF NoResetInv, NothingReset, Late
    <2>3. CASE UNCHANGED vars
      BY <2>3 DEF NoResetInv, vars
    <2> QED
      BY <2>2, <2>3
  <1> QED
    BY <1>1, <1>2, Invariant, PTL DEF Spec

\* So such a node keeps its genesis block for ever.
THEOREM GenesisNeverLost == ~NDEBUG => (Spec => GenesisKept)
  <1> SUFFICES ASSUME ~NDEBUG
               PROVE  Spec => GenesisKept
    OBVIOUS
  <1>1. IInv /\ NoResetInv /\ [Next]_vars =>
            [~ChainResetEnable => blockchain'[1] = blockchain[1]]_vars
    BY NoResetMeans, GenesisStep DEF IInv
  <1> QED
    BY <1>1, Invariant, NeverResets, PTL DEF Spec, GenesisKept
-----------------------------------------------------------------------------
(***************************************************************************)
(* MinerApp implements LocalChain: few actions touch the chain, the update,  *)
(* the mutex or the place in the update, and each is a step of LocalChain.   *)
(***************************************************************************)

\* The definitions that LocalChain and MinerApp have in common mean the same.
LEMMA SameMeaning ==
    ASSUME NEW c, NEW u, NEW b
    PROVE  /\ Local!IsSegment(u) = IsSegment(u)
           /\ Local!StartsAtGenesis(u) = StartsAtGenesis(u)
           /\ Local!HonestChain(u) = HonestChain(u)
           /\ Local!LinksToChain(c, u) = LinksToChain(c, u)
           /\ Local!CanAddBlock(c, b) = CanAddBlock(c, b)
           /\ Local!Back(c) = Back(c)
  <1>1. /\ Local!IsSegment(u) = IsSegment(u)
        /\ Local!StartsAtGenesis(u) = StartsAtGenesis(u)
        /\ Local!LinksToChain(c, u) = LinksToChain(c, u)
        /\ Local!CanAddBlock(c, b) = CanAddBlock(c, b)
        /\ Local!Back(c) = Back(c)
    BY DEF Local!IsSegment, IsSegment, Local!StartsAtGenesis, StartsAtGenesis,
           Local!LinksToChain, LinksToChain, Local!CanAddBlock, CanAddBlock, Local!Back,
           Back, Local!ValidHash, ValidHash, Local!Block, Block, Local!Digest, Digest
  <1>2. Local!HonestChain(u) = HonestChain(u)
    BY <1>1 DEF Local!HonestChain, HonestChain
  <1> QED
    BY <1>1, <1>2

\* Actions that leave the chain, the update and the mutex alone.
LEMMA Stutters ==
    ASSUME UNCHANGED <<blockchain, tempchain, position, chainMutex>>
    PROVE  UNCHANGED <<blockchain, Offered, position>>
  BY DEF Offered

\* What the invariant says of a chain and the update that waits for it.
LEMMA InvFacts ==
    ASSUME IInv
    PROVE  /\ HonestChain(blockchain)
           /\ tempchain # <<>> =>
                 /\ IsSegment(tempchain)
                 /\ StartsAtGenesis(tempchain) \/ LinksToChain(blockchain, tempchain)
           /\ chainMutex = Nobody => position = 0
  BY DEF IInv, DataInv, ChainInv, UpdateInv, UpdateAttaches, MutexInv

\* addNewBlock adds a block with the next index, or none.
LEMMA MineAddStep ==
    ASSUME IInv, IInv', MineAdd
    PROVE  Local!Mine \/ UNCHANGED <<blockchain, Offered, position>>
  <1>1. /\ blockchain' = AddNewBlock(blockchain, newblock)
        /\ UNCHANGED <<Offered, position>>
    BY DEF MineAdd, Offered
  <1>2. CASE ~CanAddBlock(blockchain, newblock)
    BY <1>1, <1>2 DEF AddNewBlock
  <1>3. CASE CanAddBlock(blockchain, newblock)
    <2>1. blockchain' = Append(blockchain, newblock)
      BY <1>1, <1>3 DEF AddNewBlock
    <2>2. blockchain \in Seq(Block) /\ Len(blockchain) \in Nat
      BY InvFacts, HonestBack, SegmentSeq DEF HonestChain
    <2>3. Back(blockchain') = newblock /\ Len(blockchain') = Len(blockchain) + 1
      BY <2>1, <2>2 DEF Back
    <2>4. HonestChain(blockchain')
      BY DEF IInv, DataInv, ChainInv
    <2>5. Back(blockchain').index = Len(blockchain') - 1
      BY <2>4, HonestBack
    <2>6. newblock.index = Len(blockchain)
      BY <2>2, <2>3, <2>5
    <2> QED
      BY <1>1, <1>3, <2>1, <2>3, <2>6, SameMeaning DEF Local!Mine
  <1> QED
    BY <1>2, <1>3

\* A chain response leaves the update that waits, or puts another in its place.
LEMMA HandleChainStep ==
    ASSUME IInv, IInv', NEW h \in Peers, HandleChain(h)
    PROVE  Local!Offer \/ UNCHANGED <<blockchain, Offered, position>>
  <1>1. /\ chainMutex = Nobody /\ chainMutex' = Nobody
        /\ UNCHANGED <<blockchain, position>> /\ position = 0
    BY InvFacts DEF HandleChain, AtLocked
  <1>2. Offered = tempchain /\ Offered' = tempchain'
    BY <1>1 DEF Offered
  <1>3. CASE tempchain' = tempchain
    BY <1>1, <1>2, <1>3
  <1>4. CASE tempchain' # tempchain /\ tempchain' # <<>>
    <2>1. /\ IsSegment(tempchain')
          /\ StartsAtGenesis(tempchain') \/ LinksToChain(blockchain', tempchain')
      BY <1>4 DEF IInv, DataInv, UpdateInv, UpdateAttaches
    <2> QED
      BY <1>1, <1>2, <2>1, SameMeaning DEF Local!Offer
  <1>5. tempchain' = tempchain \/ tempchain' # <<>>
    BY DEF HandleChain, Cached
  <1> QED
    BY <1>3, <1>4, <1>5

\* The mutex is taken: a full chain is adopted at once, another update is begun.
LEMMA BeginStep ==
    ASSUME IInv, NEW t \in Threads, SyncBegin(t)
    PROVE  Local!Replace \/ Local!Begin
  <1> DEFINE k == tempchain[1].index
  <1>1. /\ chainMutex = Nobody /\ chainMutex' # Nobody /\ tempchain # <<>> /\ position = 0
        /\ Offered = tempchain
    BY ThreadFacts, InvFacts DEF SyncBegin, AtLocked, Offered
  <1>2. CASE StartsAtGenesis(tempchain)
    <2>1. blockchain' = tempchain /\ position' = position
      BY <1>2 DEF SyncBegin
    <2>2. Offered' = <<>>
      BY <1>1, <2>1 DEF Offered
    <2> QED
      BY <1>1, <1>2, <2>1, <2>2, SameMeaning DEF Local!Replace
  <1>3. CASE ~StartsAtGenesis(tempchain)
    <2>1. /\ position' = 1 /\ tempchain' = tempchain
          /\ blockchain' = IF k <= Back(blockchain).index THEN Resize(blockchain, k)
                           ELSE blockchain
      BY <1>3 DEF SyncBegin
    <2>2. /\ blockchain \in Seq(Block) /\ Len(blockchain) \in Nat
          /\ Back(blockchain).index = Len(blockchain) - 1
          /\ k \in 1..Len(blockchain)
      BY <1>1, <1>3, InvFacts, HonestBack DEF LinksToChain
    <2> HIDE DEF k
    <2>3. ~(k <= Back(blockchain).index) => k = Len(blockchain)
      BY <2>2
    <2>4. SubSeq(blockchain, 1, Len(blockchain)) = blockchain
      BY <2>2
    <2>5. blockchain' = SubSeq(blockchain, 1, k)
      BY <2>1, <2>3, <2>4 DEF Resize
    <2>6. Offered' = Offered
      BY <1>1, <2>1 DEF Offered
    <2> QED
      BY <1>1, <1>3, <2>1, <2>5, <2>6, SameMeaning DEF Local!Begin, k
  <1> QED
    BY <1>2, <1>3

\* An update is dropped only when its first block does not link to the chain: a
\* digest tells the index, so the first block that links is the next one.
LEMMA CheckStep ==
    ASSUME IInv, NEW t \in Threads, SyncCheck(t)
    PROVE  Local!Finish \/ UNCHANGED <<blockchain, Offered, position>>
  <1>1. /\ pc[t] \in InSync /\ position = 1 /\ tempchain # <<>> /\ ~StartsAtGenesis(tempchain)
        /\ UNCHANGED blockchain /\ Offered = tempchain /\ chainMutex = t
    BY DEF SyncCheck, At, IInv, DataInv, MutexInv, PositionAt, InSync, SyncLabels, Offered
  <1>2. CASE Extends(blockchain, tempchain)
    BY <1>1, <1>2, Stutters DEF SyncCheck
  <1>3. CASE ~Extends(blockchain, tempchain)
    <2>1. tempchain' = <<>> /\ position' = 0 /\ chainMutex' = Nobody
      BY <1>3 DEF SyncCheck
    <2>2. Offered' = <<>>
      BY <2>1 DEF Offered
    <2>3. ~CanAddBlock(blockchain, tempchain[1])
      <3>1. IsSegment(tempchain) /\ LinksToChain(blockchain, tempchain) /\ HonestChain(blockchain)
        BY <1>1, InvFacts
      <3>2. 1 \in 1..Len(tempchain) /\ tempchain[1].index \in Nat
        BY <3>1, SegmentSeq, SegmentBlock
      <3>3. tempchain[1].prev[1] = tempchain[1].index - 1
        BY <1>1, <3>1, <3>2, UpdateBlock
      <3>4. Back(blockchain).hash[1] = Back(blockchain).index /\ Back(blockchain).index \in Nat
        BY <3>1, SegmentSeq DEF HonestChain
      <3> QED
        BY <1>3, <3>2, <3>3, <3>4 DEF Extends, CanAddBlock
    <2> QED
      BY <1>1, <2>1, <2>2, <2>3, SameMeaning DEF Local!Finish, Local!UpdateLinks
  <1> QED
    BY <1>2, <1>3

\* The loops take a block of the update or pass it over.
LEMMA TakeStep ==
    ASSUME IInv, NEW t \in Threads, SyncReplace(t) \/ SyncAppend(t)
    PROVE  Local!Take \/ Local!PassOver
  <1>1. position \in 1..Len(tempchain) /\ position \in Nat
    BY DEF SyncReplace, SyncAppend, At, IInv, DataInv, MutexInv, PositionAt, TypeOK
  <1>2. /\ blockchain' = AddNewBlock(blockchain, tempchain[position])
        /\ position' = position + 1 /\ tempchain' = tempchain
    BY DEF SyncReplace, SyncAppend
  <1>3. position # 0 /\ position' # 0
    BY <1>1, <1>2
  <1>4. Offered = tempchain /\ Offered' = tempchain
    BY <1>2, <1>3 DEF Offered
  <1> QED
    BY <1>1, <1>2, <1>4, SameMeaning DEF Local!Take, Local!PassOver, Local!UpdateLinks, AddNewBlock

\* When the mutex is released, the loop is behind the last block of the update.
LEMMA EndStep ==
    ASSUME IInv, NEW t \in Threads, SyncEnd(t)
    PROVE  Local!Finish \/ UNCHANGED <<blockchain, Offered, position>>
  <1>1. /\ chainMutex = t /\ chainMutex # Nobody /\ position \in {0, Len(tempchain) + 1}
        /\ Len(tempchain) \in Nat
    BY ThreadFacts DEF SyncEnd, At, IInv, DataInv, MutexInv, PositionAt, InSync, SyncLabels, TypeOK
  <1>2. /\ UNCHANGED blockchain /\ tempchain' = <<>> /\ position' = 0 /\ chainMutex' = Nobody
    BY DEF SyncEnd
  <1>3. Offered' = <<>>
    BY <1>2 DEF Offered
  <1>4. CASE position = 0
    BY <1>1, <1>2, <1>3, <1>4 DEF Offered
  <1>5. CASE position = Len(tempchain) + 1
    <2>1. position # 0 /\ position \notin 1..Len(tempchain)
      BY <1>1, <1>5
    <2>2. Offered = tempchain
      BY <2>1 DEF Offered
    <2> QED
      BY <1>2, <1>3, <2>1, <2>2 DEF Local!Finish
  <1> QED
    BY <1>1, <1>4, <1>5

\* syncBlockchain, step by step.
LEMMA SyncStep ==
    ASSUME IInv, NEW t \in Peers \cup {Miner}, Sync(t)
    PROVE  Local!Next \/ UNCHANGED <<blockchain, Offered, position>>
  <1>1. t \in Threads
    BY ThreadFacts
  <1>2. CASE SyncNothing(t) \/ SyncStore(t) \/ SyncReset(t) \/ SyncRewrite(t)
    BY <1>2, Stutters DEF SyncNothing, SyncStore, SyncReset, SyncRewrite
  <1> QED
    BY <1>1, <1>2, BeginStep, CheckStep, TakeStep, EndStep DEF Sync, Local!Next

\* Every step of a node is one of LocalChain, or does not show.
LEMMA NodeStep ==
    ASSUME IInv, IInv', Next
    PROVE  Local!Next \/ UNCHANGED <<blockchain, Offered, position>>
  <1>1. CASE Mine
    <2>1. CASE MineAdd
      BY <2>1, MineAddStep DEF Local!Next
    <2>2. CASE Sync(Miner)
      BY <2>2, SyncStep
    <2>3. CASE Mine /\ ~MineAdd /\ ~Sync(Miner)
      <3>1. UNCHANGED <<blockchain, tempchain, position, chainMutex>>
        BY <2>3 DEF Mine, MineTop, MineCreate, MineBegin, MineFound, MineAborted,
                    MineOvertaken, MineRequeue, MineWrite, MineBroadcast
      <3> QED
        BY <3>1, Stutters
    <2> QED
      BY <1>1, <2>1, <2>2, <2>3
  <1>2. ASSUME NEW h \in Peers, Handle(h)
        PROVE  Local!Next \/ UNCHANGED <<blockchain, Offered, position>>
    <2>1. CASE HandleChain(h)
      BY <2>1, HandleChainStep DEF Local!Next
    <2>2. CASE Sync(h)
      BY <2>2, SyncStep
    <2>3. CASE Handle(h) /\ ~HandleChain(h) /\ ~Sync(h)
      <3>1. UNCHANGED <<blockchain, tempchain, position, chainMutex>>
        BY <2>3 DEF Handle, HandleNewBlock, HandleSummary, HandleChainError,
                    HandleNewBlockResponse, HandleTail
      <3> QED
        BY <3>1, Stutters
    <2> QED
      BY <1>2, <2>1, <2>2, <2>3
  <1>3. CASE Rest \/ End
    <2>1. UNCHANGED <<blockchain, tempchain, position, chainMutex>>
      BY <1>3 DEF Rest, StartMining, StopMining, JoinMiner, Shutdown, CreateTx,
                  End, MainLeaves, MainJoins, StopServer, Exit
    <2> QED
      BY <2>1, Stutters
  <1> QED
    BY <1>1, <1>2, <1>3 DEF Next

\* However its threads interleave, a node's chain and update behave as those of
\* LocalChain: a block that the miner adds in the middle of syncBlockchain makes
\* it refuse what is left of the update, and nothing else.
THEOREM Implementation == Spec => ImplementsLocalChain
  <1>1. Init => Local!Init
    <2>1. Init => Offered = <<>>
      BY DEF Init, Offered
    <2> QED
      BY <2>1, ChainsAssumption, SameMeaning DEF Init, Local!Init
  <1>2. IInv /\ IInv' /\ [Next]_vars => [Local!Next]_<<blockchain, Offered, position>>
    <2>1. UNCHANGED vars => UNCHANGED <<blockchain, Offered, position>>
      BY DEF vars, Offered
    <2> QED
      BY <2>1, NodeStep
  <1> QED
    BY <1>1, <1>2, Invariant, PTL DEF Spec, ImplementsLocalChain, Local!Spec

-----------------------------------------------------------------------------
(***************************************************************************)
(* Payments, and a node without peers: an accepted payment is never in two   *)
(* places (OnceInv); without peers none is lost, the difficulty goes by       *)
(* steps of one, and only a user or a difficulty that wraps around ends the   *)
(* process (LoneInv).                                                       *)
(***************************************************************************)

\* Neither the database nor the peers hold a payment of Txs: those are the ones
\* that users of this node will ask for.
BareChains ==
    /\ Bare(InitChain)
    /\ \A h \in Peers : \A chain \in PeerChains[h] : Bare(chain)

-----------------------------------------------------------------------------
(* Places. *)

\* Where a payment is in a chain, and in a list of payments.
MinedIn(chain, tx) ==
    UNION {{<<i, j>> : j \in {k \in DOMAIN chain[i].txs : chain[i].txs[k] = tx}} :
               i \in DOMAIN chain}
ListedIn(list, tx) == {i \in DOMAIN list : list[i] = tx}

\* At most one place, in one of three kinds of places.
AtMostOne(S) == \A p, q \in S : p = q
OneOf(A, B, C) ==
    /\ AtMostOne(A) /\ AtMostOne(B) /\ AtMostOne(C)
    /\ A = {} \/ B = {}
    /\ A = {} \/ C = {}
    /\ B = {} \/ C = {}

\* The three kinds of places of MinerApp, in these terms.
LEMMA PlacesOf ==
    ASSUME NEW tx
    PROVE  /\ MinedPlaces(tx) = MinedIn(blockchain, tx)
           /\ QueuedPlaces(tx) = ListedIn(txQueue, tx)
           /\ PendingPlaces(tx) = ListedIn(Pending, tx)
  BY DEF MinedPlaces, QueuedPlaces, PendingPlaces, MinedIn, ListedIn

\* The union of the three kinds, told apart by their names.
Labelled(A, B, C) == ({"mined"} \X A) \cup ({"queued"} \X B) \cup ({"pending"} \X C)

LEMMA UnionOne ==
    ASSUME NEW A, NEW B, NEW C
    PROVE  /\ AtMostOne(Labelled(A, B, C)) <=> OneOf(A, B, C)
           /\ Labelled(A, B, C) = {} <=> A = {} /\ B = {} /\ C = {}
  <1> DEFINE U == Labelled(A, B, C)
  <1>1. /\ \A a \in A : <<"mined", a>> \in U
        /\ \A b \in B : <<"queued", b>> \in U
        /\ \A c \in C : <<"pending", c>> \in U
    BY DEF Labelled
  <1>2. \A u \in U : \/ \E a \in A : u = <<"mined", a>>
                     \/ \E b \in B : u = <<"queued", b>>
                     \/ \E c \in C : u = <<"pending", c>>
    BY DEF Labelled
  <1>3. \A x, y : /\ <<"mined", x>> # <<"queued", y>>
                  /\ <<"mined", x>> # <<"pending", y>>
                  /\ <<"queued", x>> # <<"pending", y>>
                  /\ <<"mined", x>> = <<"mined", y>> => x = y
                  /\ <<"queued", x>> = <<"queued", y>> => x = y
                  /\ <<"pending", x>> = <<"pending", y>> => x = y
    OBVIOUS
  <1>4. ASSUME AtMostOne(U) PROVE OneOf(A, B, C)
    <2>1. \A p \in U : \A q \in U : p = q
      BY <1>4 DEF AtMostOne
    <2>2. AtMostOne(A) /\ AtMostOne(B) /\ AtMostOne(C)
      <3>1. ASSUME NEW x \in A, NEW y \in A PROVE x = y
        <4>1. <<"mined", x>> = <<"mined", y>>
          BY <1>1, <2>1
        <4> QED
          BY <4>1, <1>3
      <3>2. ASSUME NEW x \in B, NEW y \in B PROVE x = y
        <4>1. <<"queued", x>> = <<"queued", y>>
          BY <1>1, <2>1
        <4> QED
          BY <4>1, <1>3
      <3>3. ASSUME NEW x \in C, NEW y \in C PROVE x = y
        <4>1. <<"pending", x>> = <<"pending", y>>
          BY <1>1, <2>1
        <4> QED
          BY <4>1, <1>3
      <3> QED
        BY <3>1, <3>2, <3>3 DEF AtMostOne
    <2>3. ASSUME NEW x \in A, NEW y \in B PROVE FALSE
      <3>1. <<"mined", x>> = <<"queued", y>>
        BY <1>1, <2>1
      <3> QED
        BY <3>1, <1>3
    <2>4. ASSUME NEW x \in A, NEW y \in C PROVE FALSE
      <3>1. <<"mined", x>> = <<"pending", y>>
        BY <1>1, <2>1
      <3> QED
        BY <3>1, <1>3
    <2>5. ASSUME NEW x \in B, NEW y \in C PROVE FALSE
      <3>1. <<"queued", x>> = <<"pending", y>>
        BY <1>1, <2>1
      <3> QED
        BY <3>1, <1>3
    <2> QED
      BY <2>2, <2>3, <2>4, <2>5 DEF OneOf
  <1>5. ASSUME OneOf(A, B, C) PROVE AtMostOne(U)
    BY <1>2, <1>5 DEF AtMostOne, OneOf
  <1>6. U = {} <=> A = {} /\ B = {} /\ C = {}
    BY <1>1, <1>2
  <1> QED
    BY <1>4, <1>5, <1>6

\* The two properties, and the part of OnceInv on new payments, by kinds.
Once(tx)  == OneOf(MinedIn(blockchain, tx), ListedIn(txQueue, tx), ListedIn(Pending, tx))
Known(tx) == \/ MinedIn(blockchain, tx) # {}
             \/ ListedIn(txQueue, tx) # {}
             \/ ListedIn(Pending, tx) # {}

\* A payment is in one place exactly when it is so kind by kind.
LEMMA OnceMeans ==
    /\ PaymentOnce <=> \A tx \in Txs : Once(tx)
    /\ \A tx : Places(tx) # {} <=> Known(tx)
  <1>1. ASSUME NEW tx
        PROVE  /\ (\A p, q \in Places(tx) : p = q) <=> Once(tx)
               /\ Places(tx) # {} <=> Known(tx)
    <2>1. Places(tx) = ({"mined"} \X MinedIn(blockchain, tx))
                         \cup ({"queued"} \X ListedIn(txQueue, tx))
                         \cup ({"pending"} \X ListedIn(Pending, tx))
      BY PlacesOf DEF Places
    <2> DEFINE A == MinedIn(blockchain, tx)
               B == ListedIn(txQueue, tx)
               C == ListedIn(Pending, tx)
    <2> HIDE DEF A, B, C
    <2>2. Places(tx) = Labelled(A, B, C)
      BY <2>1 DEF A, B, C, Labelled
    <2>3. /\ AtMostOne(Places(tx)) <=> OneOf(A, B, C)
          /\ Places(tx) = {} <=> A = {} /\ B = {} /\ C = {}
      BY <2>2, UnionOne
    <2>4. Once(tx) <=> OneOf(A, B, C)
      BY DEF Once, A, B, C
    <2>5. Known(tx) <=> A # {} \/ B # {} \/ C # {}
      BY DEF Known, A, B, C
    <2> QED
      BY <2>3, <2>4, <2>5 DEF AtMostOne
  <1> QED
    BY <1>1 DEF PaymentOnce

\* What the operations on chains and lists do to places.
LEMMA MinedMember ==
    ASSUME NEW c, NEW tx, NEW p
    PROVE  p \in MinedIn(c, tx) <=>
               \E i \in DOMAIN c : \E j \in DOMAIN c[i].txs : c[i].txs[j] = tx /\ p = <<i, j>>
  BY DEF MinedIn

\* A chain without payments has no place for one.
LEMMA BareNothing ==
    ASSUME NEW c, Bare(c), NEW tx
    PROVE  MinedIn(c, tx) = {}
  <1>1. \A i \in DOMAIN c : DOMAIN c[i].txs = {}
    BY DEF Bare
  <1> QED
    BY <1>1, MinedMember

\* A part of a chain without payments has none either.
LEMMA BareSub ==
    ASSUME NEW c \in Seq(Block), Bare(c), NEW m \in Nat, m >= 1, NEW n \in 0..Len(c)
    PROVE  Bare(SubSeq(c, m, n))
  <1>1. \A i \in DOMAIN SubSeq(c, m, n) :
            SubSeq(c, m, n)[i] = c[m + i - 1] /\ m + i - 1 \in DOMAIN c
    OBVIOUS
  <1> QED
    BY <1>1 DEF Bare

\* Cutting the chain and adding an update that brings no payment adds no place.
LEMMA CutMined ==
    ASSUME NEW c \in Seq(Block), NEW k \in 0..Len(c), NEW u \in Seq(Block), Bare(u), NEW tx
    PROVE  MinedIn(SubSeq(c, 1, k) \o u, tx) \subseteq MinedIn(c, tx)
  <1> DEFINE r == SubSeq(c, 1, k) \o u
  <1>1. Len(SubSeq(c, 1, k)) = k /\ \A i \in 1..k : SubSeq(c, 1, k)[i] = c[i]
    OBVIOUS
  <1>2. /\ DOMAIN r = 1..(k + Len(u))
        /\ \A i \in 1..k : r[i] = c[i]
        /\ \A i \in (k + 1)..(k + Len(u)) : r[i] = u[i - k]
    BY <1>1
  <1> HIDE DEF r
  <1>3. ASSUME NEW i \in DOMAIN r, DOMAIN r[i].txs # {}
        PROVE  i \in DOMAIN c /\ r[i] = c[i]
    <2>1. CASE i \in 1..k
      BY <1>2, <2>1
    <2>2. CASE i \in (k + 1)..(k + Len(u))
      <3>1. r[i] = u[i - k] /\ i - k \in DOMAIN u
        BY <1>2, <2>2
      <3>2. r[i].txs = <<>>
        BY <3>1 DEF Bare
      <3> QED
        BY <1>3, <3>2
    <2> QED
      BY <1>2, <2>1, <2>2
  <1> SUFFICES ASSUME NEW p \in MinedIn(r, tx) PROVE p \in MinedIn(c, tx)
    BY DEF r
  <1>4. PICK i \in DOMAIN r : \E j \in DOMAIN r[i].txs : r[i].txs[j] = tx /\ p = <<i, j>>
    BY MinedMember
  <1> QED
    BY <1>3, <1>4, MinedMember

\* A block that is added adds the places of its own payments.
LEMMA AppendMined ==
    ASSUME NEW c \in Seq(Block), NEW b \in Block, NEW tx
    PROVE  LET new == {<<Len(c) + 1, j>> : j \in ListedIn(b.txs, tx)}
           IN  MinedIn(Append(c, b), tx) = MinedIn(c, tx) \cup new
  <1> DEFINE r == Append(c, b)
             new == {<<Len(c) + 1, j>> : j \in ListedIn(b.txs, tx)}
  <1>1. /\ DOMAIN r = DOMAIN c \cup {Len(c) + 1}
        /\ \A i \in DOMAIN c : r[i] = c[i]
        /\ r[Len(c) + 1] = b
    OBVIOUS
  <1> HIDE DEF r
  <1>2. \A p : p \in new <=> \E j \in DOMAIN b.txs : b.txs[j] = tx /\ p = <<Len(c) + 1, j>>
    BY DEF ListedIn
  <1> HIDE DEF new
  <1>3. \A p : p \in MinedIn(r, tx) <=> p \in MinedIn(c, tx) \/ p \in new
    BY <1>1, <1>2, MinedMember
  <1> QED
    BY <1>3 DEF r, new

\* Payments put at the end of a list keep their order: the places move up.
LEMMA ConcatListed ==
    ASSUME NEW q \in Seq(Txs), NEW r \in Seq(Txs), NEW tx
    PROVE  ListedIn(q \o r, tx) = ListedIn(q, tx) \cup {Len(q) + i : i \in ListedIn(r, tx)}
  <1>1. /\ DOMAIN (q \o r) = 1..(Len(q) + Len(r))
        /\ \A i \in 1..Len(q) : (q \o r)[i] = q[i]
        /\ \A i \in 1..Len(r) : (q \o r)[Len(q) + i] = r[i]
    OBVIOUS
  <1>2. \A i \in 1..(Len(q) + Len(r)) :
            i \in 1..Len(q) \/ (i - Len(q) \in 1..Len(r) /\ i = Len(q) + (i - Len(q)))
    OBVIOUS
  <1>3. \A i \in 1..Len(r) : Len(q) + i \in 1..(Len(q) + Len(r))
    OBVIOUS
  <1>4. \A i \in 1..Len(q) : i \in 1..(Len(q) + Len(r))
    OBVIOUS
  <1>5. DOMAIN q = 1..Len(q) /\ DOMAIN r = 1..Len(r)
    OBVIOUS
  <1>6. ListedIn(q \o r, tx) \subseteq ListedIn(q, tx) \cup {Len(q) + i : i \in ListedIn(r, tx)}
    <2> SUFFICES ASSUME NEW i \in ListedIn(q \o r, tx)
                 PROVE  i \in ListedIn(q, tx) \/ \E j \in ListedIn(r, tx) : i = Len(q) + j
      OBVIOUS
    <2>1. i \in 1..(Len(q) + Len(r)) /\ (q \o r)[i] = tx
      BY <1>1 DEF ListedIn
    <2>2. CASE i \in 1..Len(q)
      BY <1>1, <1>5, <2>1, <2>2 DEF ListedIn
    <2>3. CASE i - Len(q) \in 1..Len(r) /\ i = Len(q) + (i - Len(q))
      <3>1. r[i - Len(q)] = tx
        BY <1>1, <2>1, <2>3
      <3> QED
        BY <1>5, <2>3, <3>1 DEF ListedIn
    <2> QED
      BY <1>2, <2>1, <2>2, <2>3
  <1>7. ListedIn(q, tx) \subseteq ListedIn(q \o r, tx)
    BY <1>1, <1>4, <1>5 DEF ListedIn
  <1>8. ASSUME NEW j \in ListedIn(r, tx)
        PROVE  Len(q) + j \in ListedIn(q \o r, tx)
    BY <1>1, <1>3, <1>5 DEF ListedIn
  <1> QED
    BY <1>6, <1>7, <1>8

\* Moving what is in one kind of place to another one, as a whole.
Later(n, C) == {n + i : i \in C}

LEMMA OneMoves ==
    ASSUME NEW A, NEW B, NEW C, OneOf(A, B, C)
    PROVE  /\ \A a \in SUBSET A, b \in SUBSET B, c \in SUBSET C : OneOf(a, b, c)
           /\ C = {} => OneOf(A, {}, B)
           /\ \A n : OneOf(A, B \cup Later(n, C), {})
  <1>1. \A a \in SUBSET A, b \in SUBSET B, c \in SUBSET C : OneOf(a, b, c)
    BY DEF OneOf, AtMostOne
  <1>2. C = {} => OneOf(A, {}, B)
    BY DEF OneOf, AtMostOne
  <1>3. ASSUME NEW D, C = {} => D = {}, AtMostOne(D)
        PROVE  OneOf(A, B \cup D, {})
    BY <1>3 DEF OneOf, AtMostOne
  <1>4. ASSUME NEW n
        PROVE  OneOf(A, B \cup Later(n, C), {})
    <2> DEFINE D == Later(n, C)
    <2>1. AtMostOne(D) /\ (C = {} => D = {})
      BY DEF OneOf, AtMostOne, Later
    <2> HIDE DEF D
    <2>2. OneOf(A, B \cup D, {})
      BY <1>3, <2>1
    <2> QED
      BY <2>2 DEF D
  <1> QED
    BY <1>1, <1>2, <1>4

\* The places of the block being mined become places in the chain.
InBlock(n, C) == {<<n, j>> : j \in C}

LEMMA OneAdded ==
    ASSUME NEW A, NEW B, NEW C, OneOf(A, B, C), NEW n
    PROVE  OneOf(A \cup InBlock(n, C), B, {})
  <1> DEFINE D == InBlock(n, C)
  <1>1. AtMostOne(D) /\ (C = {} => D = {})
    BY DEF OneOf, AtMostOne, InBlock
  <1> HIDE DEF D
  <1>2. OneOf(A, B, C)
    OBVIOUS
  <1> QED
    <2>1. OneOf(A \cup D, B, {})
      BY <1>1, <1>2 DEF OneOf, AtMostOne
    <2> QED
      BY <2>1 DEF D

-----------------------------------------------------------------------------
(* A payment is in one place. *)

OncePart ==
    /\ \A tx \in Txs : Once(tx)
    /\ \A tx \in Txs : Known(tx) => tx \in posted

PayInv == OncePart /\ (chainMutex = Nobody \/ position # 0 => Bare(tempchain))

\* OnceInv, with the places told apart by kind.
LEMMA PayMeans == PayInv <=> OnceInv
  BY OnceMeans DEF PayInv, OncePart, OnceInv

\* A step after which payments are at most where they were.
LEMMA NoNewPlace ==
    ASSUME OncePart, posted' = posted,
           \A tx \in Txs : /\ MinedIn(blockchain', tx) \subseteq MinedIn(blockchain, tx)
                           /\ ListedIn(txQueue', tx) \subseteq ListedIn(txQueue, tx)
                           /\ ListedIn(Pending', tx) \subseteq ListedIn(Pending, tx)
    PROVE  OncePart'
  <1>1. ASSUME NEW tx \in Txs
        PROVE  Once(tx)' /\ (Known(tx)' => Known(tx))
    <2>1. Once(tx)'
      BY OneMoves DEF OncePart, Once
    <2>2. Known(tx)' => Known(tx)
      BY DEF Known
    <2> QED
      BY <2>1, <2>2
  <1> QED
    BY <1>1 DEF OncePart

\* A list without payments has no place.
LEMMA NothingListed ==
    ASSUME NEW tx
    PROVE  ListedIn(<<>>, tx) = {}
  BY DEF ListedIn

\* A step that leaves chain and queue alone, and the block being mined, unless it
\* is gone.
LEMMA PlacesKept ==
    ASSUME OncePart, UNCHANGED <<blockchain, txQueue, posted>>,
           Pending' = Pending \/ Pending' = <<>>
    PROVE  OncePart'
  BY NoNewPlace, NothingListed

\* The payments of the block being mined come from the queue.
LEMMA CreateOnce ==
    ASSUME DataInv, OncePart, MineCreate
    PROVE  OncePart'
  <1>1. /\ TypeOK /\ pc[Miner] = "create" /\ Goto(Miner, "begin") /\ Miner \in Threads
        /\ txQueue' = <<>> /\ UNCHANGED <<blockchain, posted>>
        /\ newblock'.txs = txQueue
    BY ThreadFacts DEF DataInv, MineCreate, AtLocked, At, UnminedBlock
  <1>2. pc'[Miner] = "begin"
    BY <1>1 DEF Goto, TypeOK
  <1>3. Pending = <<>> /\ Pending' = txQueue
    BY <1>1, <1>2 DEF Pending
  <1>4. ASSUME NEW tx \in Txs
        PROVE  Once(tx)' /\ (Known(tx)' => Known(tx))
    <2>1. ListedIn(Pending, tx) = {} /\ ListedIn(txQueue', tx) = {}
      BY <1>1, <1>3, NothingListed
    <2>2. OneOf(MinedIn(blockchain, tx), ListedIn(txQueue, tx), {})
      BY <2>1 DEF OncePart, Once
    <2>3. OneOf(MinedIn(blockchain, tx), {}, ListedIn(txQueue, tx))
      BY <2>2, OneMoves
    <2> QED
      BY <1>1, <1>3, <2>1, <2>3 DEF Once, Known
  <1> QED
    BY <1>1, <1>4 DEF OncePart

\* They go back to it.
LEMMA RequeueOnce ==
    ASSUME DataInv, OncePart, MineRequeue
    PROVE  OncePart'
  <1>1. /\ TypeOK /\ BlockInv /\ pc[Miner] = "requeue" /\ Goto(Miner, "sync") /\ Miner \in Threads
        /\ txQueue' = txQueue \o newblock.txs /\ UNCHANGED <<blockchain, posted>>
    BY ThreadFacts DEF DataInv, MineRequeue, AtLocked, At, ReQueueTransactions
  <1>2. pc'[Miner] = "sync"
    BY <1>1 DEF Goto, TypeOK
  <1>3. Pending = newblock.txs /\ Pending' = <<>>
    BY <1>1, <1>2 DEF Pending
  <1>4. txQueue \in Seq(Txs) /\ newblock.txs \in Seq(Txs)
    BY <1>1 DEF TypeOK, BlockInv, Block
  <1>5. ASSUME NEW tx \in Txs
        PROVE  Once(tx)' /\ (Known(tx)' => Known(tx))
    <2>1. /\ ListedIn(Pending', tx) = {}
          /\ ListedIn(txQueue', tx) = ListedIn(txQueue, tx)
                                        \cup {Len(txQueue) + i : i \in ListedIn(Pending, tx)}
      BY <1>1, <1>3, <1>4, NothingListed, ConcatListed
    <2>2. OneOf(MinedIn(blockchain, tx), ListedIn(txQueue, tx), ListedIn(Pending, tx))
      BY DEF OncePart, Once
    <2>3. OneOf(MinedIn(blockchain, tx), ListedIn(txQueue', tx), {})
      <3>1. OneOf(MinedIn(blockchain, tx),
                  ListedIn(txQueue, tx) \cup Later(Len(txQueue), ListedIn(Pending, tx)), {})
        BY <2>2, OneMoves
      <3> QED
        BY <2>1, <3>1 DEF Later
    <2> QED
      BY <1>1, <2>1, <2>3 DEF Once, Known
  <1> QED
    BY <1>1, <1>5 DEF OncePart

\* Or they become part of the chain with it; a block that is refused is gone.
LEMMA AddOnce ==
    ASSUME DataInv, OncePart, MineAdd
    PROVE  OncePart'
  <1>1. /\ TypeOK /\ BlockInv /\ pc[Miner] = "add" /\ Miner \in Threads
        /\ UNCHANGED <<txQueue, posted>>
    BY ThreadFacts DEF DataInv, MineAdd, At
  <1>2. blockchain \in Seq(Block) /\ newblock \in Block
    BY <1>1 DEF TypeOK, BlockInv
  <1>3. CASE CanAddBlock(blockchain, newblock)
    <2>1. blockchain' = Append(blockchain, newblock) /\ Goto(Miner, "write")
      BY <1>3 DEF MineAdd, AddNewBlock
    <2>2. pc'[Miner] = "write"
      BY <1>1, <2>1 DEF Goto, TypeOK
    <2>3. Pending = newblock.txs /\ Pending' = <<>>
      BY <1>1, <2>2 DEF Pending
    <2>4. ASSUME NEW tx \in Txs
          PROVE  Once(tx)' /\ (Known(tx)' => Known(tx))
      <3> DEFINE new == {<<Len(blockchain) + 1, j>> : j \in ListedIn(Pending, tx)}
      <3>1. /\ ListedIn(Pending', tx) = {}
            /\ MinedIn(blockchain', tx) = MinedIn(blockchain, tx) \cup new
        BY <1>2, <2>1, <2>3, NothingListed, AppendMined
      <3>2. OneOf(MinedIn(blockchain, tx), ListedIn(txQueue, tx), ListedIn(Pending, tx))
        BY DEF OncePart, Once
      <3>3. OneOf(MinedIn(blockchain, tx) \cup new, ListedIn(txQueue, tx), {})
        <4>1. OneOf(MinedIn(blockchain, tx) \cup InBlock(Len(blockchain) + 1, ListedIn(Pending, tx)),
                    ListedIn(txQueue, tx), {})
          BY <3>2, OneAdded
        <4> QED
          BY <4>1 DEF InBlock
      <3>4. ListedIn(Pending, tx) = {} => new = {}
        OBVIOUS
      <3> HIDE DEF new
      <3>5. OneOf(MinedIn(blockchain', tx), ListedIn(txQueue, tx), {})
        BY <3>1, <3>3
      <3> QED
        BY <1>1, <3>1, <3>4, <3>5 DEF Once, Known
    <2> QED
      BY <1>1, <2>4 DEF OncePart
  <1>4. CASE ~CanAddBlock(blockchain, newblock)
    <2>1. blockchain' = blockchain /\ Goto(Miner, "idle")
      BY <1>4 DEF MineAdd, AddNewBlock
    <2>2. pc'[Miner] = "idle"
      BY <1>1, <2>1 DEF Goto, TypeOK
    <2>3. Pending' = <<>>
      BY <2>2 DEF Pending
    <2> QED
      BY <1>1, <2>1, <2>3, PlacesKept
  <1> QED
    BY <1>3, <1>4

\* A payment that is accepted is new.
LEMMA CreateTxOnce ==
    ASSUME DataInv, OncePart, NEW tx \in Txs, CreateTx(tx)
    PROVE  OncePart'
  <1>1. /\ TypeOK /\ tx \notin posted /\ posted' = posted \cup {tx}
        /\ txQueue' = Append(txQueue, tx)
        /\ UNCHANGED <<blockchain, pc, newblock>>
    BY DEF DataInv, CreateTx, threadVars
  <1>2. Pending' = Pending
    BY <1>1 DEF Pending
  <1>3. txQueue \in Seq(Txs) /\ <<tx>> \in Seq(Txs) /\ Append(txQueue, tx) = txQueue \o <<tx>>
    BY <1>1 DEF TypeOK
  <1>4. ASSUME NEW t \in Txs
        PROVE  ListedIn(txQueue', t) = ListedIn(txQueue, t)
                                         \cup {Len(txQueue) + i : i \in ListedIn(<<tx>>, t)}
    <2>1. txQueue' = txQueue \o <<tx>>
      BY <1>1, <1>3
    <2>2. ListedIn(txQueue \o <<tx>>, t) = ListedIn(txQueue, t)
                                             \cup {Len(txQueue) + i : i \in ListedIn(<<tx>>, t)}
      BY <1>3, ConcatListed
    <2> QED
      BY <2>1, <2>2
  <1>5. ASSUME NEW t \in Txs, t # tx
        PROVE  Once(t)' /\ (Known(t)' => Known(t))
    <2>1. ListedIn(<<tx>>, t) = {}
      BY <1>5 DEF ListedIn
    <2>2. ListedIn(txQueue', t) = ListedIn(txQueue, t)
      BY <1>4, <2>1
    <2> QED
      BY <1>1, <1>2, <2>2 DEF OncePart, Once, Known
  <1>6. Once(tx)'
    <2>1. ~Known(tx)
      BY <1>1 DEF OncePart
    <2>2. /\ MinedIn(blockchain', tx) = {} /\ ListedIn(Pending', tx) = {}
          /\ ListedIn(txQueue, tx) = {}
      BY <1>1, <1>2, <2>1 DEF Known
    <2>3. ListedIn(<<tx>>, tx) = {1}
      BY DEF ListedIn
    <2>4. ListedIn(txQueue', tx) = {Len(txQueue) + 1}
      BY <1>4, <2>2, <2>3
    <2> QED
      BY <2>2, <2>4 DEF Once, OneOf, AtMostOne
  <1> QED
    BY <1>1, <1>5, <1>6 DEF OncePart

\* syncBlockchain changes the places of payments only where it changes the chain.
LEMMA SyncOnce ==
    ASSUME DataInv, PayInv, NEW t \in Peers \cup {Miner}, Sync(t)
    PROVE  PayInv'
  <1>1. TypeOK /\ ChainInv /\ UpdateInv /\ MutexInv /\ t \in Threads /\ Nobody \notin Threads
        /\ posted' = posted
    BY ThreadFacts DEF DataInv, Sync, SyncNothing, SyncBegin, SyncCheck, SyncReplace,
                       SyncAppend, SyncStore, SyncReset, SyncRewrite, SyncEnd
  <1>2. Pending' = Pending \/ Pending' = <<>>
    <2>1. PICK label \in InSync \cup {"idle", "top", "broadcast"} : Goto(t, label)
      BY DEF Sync, SyncNothing, SyncBegin, SyncCheck, SyncReplace, SyncAppend, SyncStore,
             SyncReset, SyncRewrite, SyncEnd, Return, InSync, SyncLabels
    <2>2. CASE t = Miner
      BY <1>1, <2>1, <2>2 DEF Goto, TypeOK, Pending, InSync, SyncLabels
    <2>3. CASE t # Miner
      <3>1. pc'[Miner] = pc[Miner] /\ newblock' = newblock
        BY <1>1, <2>1, <2>3, ThreadFacts
           DEF Goto, TypeOK, Sync, SyncNothing, SyncBegin, SyncCheck, SyncReplace, SyncAppend,
               SyncStore, SyncReset, SyncRewrite, SyncEnd, Return, threadVars
      <3> QED
        BY <3>1 DEF Pending
    <2> QED
      BY <2>2, <2>3
  <1>3. Bare(<<>>)
    BY DEF Bare
  <1>4. CASE SyncBegin(t)
    <2>1. /\ chainMutex = Nobody /\ chainMutex' = t /\ tempchain # <<>> /\ position = 0
          /\ txQueue' = txQueue \/ txQueue' = <<>>
      BY <1>1, <1>4 DEF SyncBegin, AtLocked, MutexInv
    <2>2. Bare(tempchain) /\ OncePart
      BY <2>1 DEF PayInv
    <2>3. CASE StartsAtGenesis(tempchain)
      <3>1. blockchain' = tempchain /\ position' = 0
        BY <1>4, <2>1, <2>3 DEF SyncBegin
      <3>2. \A tx \in Txs : MinedIn(blockchain', tx) = {}
        BY <2>2, <3>1, BareNothing
      <3>3. OncePart'
        BY <1>1, <1>2, <2>1, <2>2, <3>2, NothingListed, NoNewPlace
      <3> QED
        BY <1>1, <2>1, <3>1, <3>3 DEF PayInv
    <2>4. CASE ~StartsAtGenesis(tempchain)
      <3>1. /\ tempchain' = tempchain
            /\ \/ blockchain' = blockchain
               \/ blockchain' = SubSeq(blockchain, 1, tempchain[1].index)
        BY <1>4, <2>4 DEF SyncBegin, Resize
      <3>2. tempchain[1].index \in 0..Len(blockchain)
        BY <1>1, <2>1, <2>4 DEF UpdateInv, UpdateAttaches, LinksToChain
      <3>3. SubSeq(blockchain, 1, tempchain[1].index) \o <<>> = SubSeq(blockchain, 1, tempchain[1].index)
        BY <1>1, <3>2 DEF TypeOK
      <3>4. <<>> \in Seq(Block)
        OBVIOUS
      <3>5. \A tx \in Txs :
                MinedIn(SubSeq(blockchain, 1, tempchain[1].index), tx) \subseteq MinedIn(blockchain, tx)
        BY <1>1, <1>3, <3>2, <3>3, <3>4, CutMined DEF TypeOK
      <3>6. OncePart'
        BY <1>1, <1>2, <2>1, <2>2, <3>1, <3>5, NothingListed, NoNewPlace
      <3> QED
        BY <2>2, <3>1, <3>6 DEF PayInv
    <2> QED
      BY <2>3, <2>4
  <1>5. CASE SyncReplace(t) \/ SyncAppend(t)
    <2>1. /\ position \in 1..Len(tempchain)
          /\ blockchain' = AddNewBlock(blockchain, tempchain[position])
          /\ UNCHANGED <<tempchain, txQueue>>
      BY <1>1, <1>5 DEF SyncReplace, SyncAppend, At, MutexInv, PositionAt
    <2>2. Bare(tempchain) /\ OncePart
      BY <2>1 DEF PayInv
    <2>3. blockchain \in Seq(Block) /\ tempchain[position] \in Block
          /\ tempchain[position].txs = <<>>
      BY <1>1, <2>1, <2>2 DEF TypeOK, Bare
    <2>4. ASSUME NEW tx \in Txs
          PROVE  MinedIn(blockchain', tx) \subseteq MinedIn(blockchain, tx)
      <3> DEFINE b == tempchain[position]
      <3>1. b \in Block /\ ListedIn(b.txs, tx) = {}
        BY <2>3, NothingListed
      <3> HIDE DEF b
      <3>2. MinedIn(Append(blockchain, b), tx)
                = MinedIn(blockchain, tx) \cup {<<Len(blockchain) + 1, j>> : j \in ListedIn(b.txs, tx)}
        BY <2>3, <3>1, AppendMined
      <3>3. MinedIn(Append(blockchain, b), tx) = MinedIn(blockchain, tx)
        BY <3>1, <3>2
      <3> QED
        BY <2>1, <3>3 DEF AddNewBlock, b
    <2>5. OncePart'
      BY <1>1, <1>2, <2>1, <2>2, <2>4, NothingListed, NoNewPlace
    <2> QED
      BY <2>1, <2>2, <2>5 DEF PayInv
  <1>6. CASE SyncNothing(t) \/ SyncCheck(t) \/ SyncStore(t) \/ SyncReset(t) \/ SyncRewrite(t)
             \/ SyncEnd(t)
    <2>1. UNCHANGED <<blockchain, txQueue>>
      BY <1>6 DEF SyncNothing, SyncCheck, SyncStore, SyncReset, SyncRewrite, SyncEnd
    <2>2. OncePart'
      BY <1>1, <1>2, <2>1, PlacesKept DEF PayInv
    <2>3. tempchain' = <<>> \/ UNCHANGED <<tempchain, position, chainMutex>>
      BY <1>6 DEF SyncNothing, SyncCheck, SyncStore, SyncReset, SyncRewrite, SyncEnd
    <2> QED
      BY <1>3, <2>2, <2>3 DEF PayInv
  <1> QED
    BY <1>4, <1>5, <1>6 DEF Sync

\* Only the handler of a chain response brings blocks, and they carry no payment.
LEMMA HandleOnce ==
    ASSUME BareChains, DataInv, PayInv, NEW h \in Peers, Handle(h), ~Sync(h)
    PROVE  PayInv'
  <1>1. TypeOK /\ h \in Threads /\ h # Miner
    BY ThreadFacts DEF DataInv
  <1>2. UNCHANGED <<blockchain, txQueue, position, posted, newblock, chainMutex>>
    BY DEF Handle, HandleNewBlock, HandleSummary, HandleChainError, HandleChain,
           HandleNewBlockResponse, HandleTail, threadVars
  <1>3. pc' = pc \/ \E label : Goto(h, label)
    BY DEF Handle, HandleNewBlock, HandleSummary, HandleChainError, HandleChain,
           HandleNewBlockResponse, HandleTail
  <1>4. Pending' = Pending
    BY <1>1, <1>2, <1>3, ThreadFacts DEF Goto, TypeOK, Pending
  <1>5. OncePart'
    BY <1>2, <1>4, PlacesKept DEF PayInv
  <1>6. CASE HandleChain(h)
    <2>1. /\ asked[h] \in Seq(Request) /\ asked[h] # <<>> /\ chainMutex = Nobody
          /\ Head(asked[h]).ids \in {<<>>} \cup (Nat \X Nat)
      <3>1. asked[h] \in Seq(Request) /\ asked[h] # <<>> /\ chainMutex = Nobody
        BY <1>1, <1>6 DEF HandleChain, Answered, TypeOK
      <3>2. Head(asked[h]) \in Request
        BY <3>1
      <3> QED
        BY <3>1, <3>2 DEF Request
    <2>2. PICK chain \in PeerChains[h] :
             LET blocks == ChainReply(chain, Head(asked[h]).ids)
             IN  tempchain' = tempchain \/ tempchain' = Cached(blockchain, tempchain, blocks)
      BY <1>6 DEF HandleChain
    <2> DEFINE blocks == ChainReply(chain, Head(asked[h]).ids)
    <2>3. Bare(blocks)
      <3>1. HonestChain(chain) /\ Bare(chain)
        BY <2>2, ChainsAssumption DEF BareChains
      <3>2. chain \in Seq(Block) /\ Len(chain) \in Nat
        BY <3>1, HonestBack
      <3>3. CASE Head(asked[h]).ids = <<>>
        BY <3>1, <3>3 DEF ChainReply
      <3>4. CASE Head(asked[h]).ids # <<>>
        <4> DEFINE ids == Head(asked[h]).ids
                   m == ids[1] + 1
                   n == IF ids[2] < Len(chain) THEN ids[2] + 1 ELSE Len(chain)
        <4>1. ids[1] \in Nat /\ ids[2] \in Nat
          BY <2>1, <3>4
        <4>3. blocks = SubSeq(chain, m, n)
          BY <3>4 DEF ChainReply, BlockRange
        <4> HIDE DEF ids, blocks
        <4>2. m \in Nat /\ m >= 1 /\ n \in 0..Len(chain)
          BY <3>2, <4>1
        <4> HIDE DEF m, n
        <4> QED
          BY <3>1, <3>2, <4>2, <4>3, BareSub
      <3> QED
        BY <3>3, <3>4
    <2> HIDE DEF blocks
    <2>4. tempchain' \in {tempchain, blocks}
      BY <2>2 DEF Cached, blocks
    <2> QED
      BY <1>2, <1>5, <2>3, <2>4 DEF PayInv
  <1>7. CASE ~HandleChain(h)
    <2>1. tempchain' = tempchain
      BY <1>7 DEF Handle, HandleNewBlock, HandleSummary, HandleChainError,
                  HandleNewBlockResponse, HandleTail
    <2> QED
      BY <1>2, <1>5, <2>1 DEF PayInv
  <1> QED
    BY <1>6, <1>7

\* The mining thread outside of syncBlockchain.
LEMMA MineOnce ==
    ASSUME DataInv, OncePart, Mine, ~Sync(Miner)
    PROVE  OncePart'
  <1>1. TypeOK /\ Miner \in Threads
    BY ThreadFacts DEF DataInv
  <1>2. CASE MineTop \/ MineBroadcast \/ MineWrite
    <2>1. UNCHANGED <<blockchain, txQueue, posted>>
      BY <1>2 DEF MineTop, MineBroadcast, MineWrite
    <2>2. pc'[Miner] \notin {"begin", "mining", "requeue", "add"}
      BY <1>1, <1>2 DEF MineTop, MineBroadcast, MineWrite, Goto, TypeOK
    <2>3. Pending' = <<>>
      BY <2>2 DEF Pending
    <2> QED
      BY <2>1, <2>3, PlacesKept
  <1>3. CASE MineBegin \/ MineFound \/ MineAborted \/ MineOvertaken
    <2>1. UNCHANGED <<blockchain, txQueue, posted>>
      BY <1>3 DEF MineBegin, MineFound, MineAborted, MineOvertaken
    <2>2. /\ pc[Miner] \in {"begin", "mining"}
          /\ pc' = pc \/ \E label \in {"mining", "add", "requeue"} : Goto(Miner, label)
      BY <1>3 DEF MineBegin, MineFound, MineAborted, MineOvertaken, At, AtLocked
    <2>3. {pc[Miner], pc'[Miner]} \subseteq {"begin", "mining", "requeue", "add"}
      BY <1>1, <2>2 DEF Goto, TypeOK
    <2>4. newblock'.txs = newblock.txs
      <3>1. CASE MineFound
        <4>1. newblock \in Block
          BY <2>2 DEF DataInv, BlockInv
        <4> QED
          BY <3>1, <4>1 DEF MineFound, MinedBlock, Block
      <3>2. CASE ~MineFound
        BY <1>3, <3>2 DEF MineBegin, MineAborted, MineOvertaken, threadVars
      <3> QED
        BY <3>1, <3>2
    <2>5. Pending' = Pending
      BY <2>3, <2>4 DEF Pending
    <2> QED
      BY <2>1, <2>5, PlacesKept
  <1> QED
    BY <1>2, <1>3, CreateOnce, RequeueOnce, AddOnce DEF Mine

\* Nobody but users brings payments, and the main thread moves none.
LEMMA RestOnce ==
    ASSUME DataInv, OncePart, Rest \/ End
    PROVE  OncePart'
  <1>1. TypeOK /\ Miner \in Threads
    BY ThreadFacts DEF DataInv
  <1>2. CASE StartMining
    <2>1. UNCHANGED <<blockchain, txQueue, posted, newblock>>
      BY <1>2 DEF StartMining
    <2>2. pc'[Miner] \in {pc[Miner], "top"}
      BY <1>1, <1>2 DEF StartMining, Goto, TypeOK
    <2>3. Pending' \in {Pending, <<>>}
      BY <2>1, <2>2 DEF Pending
    <2> QED
      BY <2>1, <2>3, PlacesKept
  <1>3. CASE StopMining \/ JoinMiner \/ Shutdown \/ End
    <2>1. UNCHANGED <<blockchain, txQueue, posted, newblock>>
      BY <1>3 DEF StopMining, JoinMiner, Shutdown, End, MainLeaves, MainJoins, StopServer,
                  Exit, threadVars
    <2>2. pc'[Miner] = pc[Miner]
      BY <1>1, <1>3, ThreadFacts
         DEF StopMining, JoinMiner, Shutdown, End, MainLeaves, MainJoins, StopServer, Exit,
             Goto, TypeOK
    <2>3. Pending' = Pending
      BY <2>1, <2>2 DEF Pending
    <2> QED
      BY <2>1, <2>3, PlacesKept
  <1> QED
    BY <1>2, <1>3, CreateTxOnce DEF Rest

\* Every step keeps payments in one place: one lemma per kind of step.
LEMMA PayStep ==
    ASSUME BareChains, DataInv, PayInv, Next
    PROVE  PayInv'
  <1>1. CASE Mine /\ ~Sync(Miner)
    <2>1. UNCHANGED <<tempchain, position, chainMutex>>
      BY <1>1 DEF Mine, MineTop, MineCreate, MineBegin, MineFound, MineAborted, MineOvertaken,
                  MineRequeue, MineAdd, MineWrite, MineBroadcast
    <2> QED
      BY <1>1, <2>1, MineOnce DEF PayInv
  <1>2. CASE \E h \in Peers : Handle(h)
    BY <1>2, HandleOnce, SyncOnce
  <1>3. CASE Rest \/ End
    <2>1. UNCHANGED <<tempchain, position, chainMutex>>
      BY <1>3 DEF Rest, StartMining, StopMining, JoinMiner, Shutdown, CreateTx, End,
                  MainLeaves, MainJoins, StopServer, Exit
    <2> QED
      BY <1>3, <2>1, RestOnce DEF PayInv
  <1> QED
    BY <1>1, <1>2, <1>3, SyncOnce DEF Next, Mine

\* A payment has no place before it is accepted, and one at a time after that,
\* whatever is aborted, queued again, adopted or refused.
THEOREM PaymentsInvariant == BareChains => (Spec => []OnceInv)
  <1> SUFFICES ASSUME BareChains
               PROVE  Spec => []OnceInv
    OBVIOUS
  <1>1. Init => PayInv
    <2> SUFFICES ASSUME Init PROVE PayInv
      OBVIOUS
    <2>1. /\ blockchain = InitChain /\ txQueue = <<>> /\ tempchain = <<>>
          /\ newblock = NoBlock /\ pc[Miner] \in {"top", "idle"}
      BY ThreadFacts DEF Init
    <2>2. Pending = <<>>
      BY <2>1 DEF Pending
    <2>3. ASSUME NEW tx
          PROVE  /\ MinedIn(blockchain, tx) = {} /\ ListedIn(txQueue, tx) = {}
                 /\ ListedIn(Pending, tx) = {}
      BY <2>1, <2>2, BareNothing, NothingListed DEF BareChains
    <2>4. Bare(tempchain)
      BY <2>1 DEF Bare
    <2> QED
      BY <2>3, <2>4 DEF PayInv, OncePart, Once, Known, OneOf, AtMostOne
  <1>2. IInv /\ PayInv /\ [Next]_vars => PayInv'
    <2> SUFFICES ASSUME IInv, PayInv, [Next]_vars PROVE PayInv'
      OBVIOUS
    <2>1. CASE Next
      BY <2>1, PayStep DEF IInv
    <2>2. CASE UNCHANGED vars
      <3>1. UNCHANGED <<blockchain, txQueue, posted, tempchain, position, chainMutex>> /\ Pending' = Pending
        BY <2>2 DEF vars, Pending
      <3> QED
        BY <3>1, PlacesKept DEF PayInv
    <2> QED
      BY <2>1, <2>2
  <1> QED
    BY <1>1, <1>2, Invariant, PayMeans, PTL DEF Spec

\* So no payment is mined twice, or mined and still queued.
THEOREM PaidOnce == BareChains => (Spec => []PaymentOnce)
  <1>1. OnceInv => PaymentOnce
    BY DEF OnceInv
  <1> QED
    BY <1>1, PaymentsInvariant, PTL

-----------------------------------------------------------------------------
(* A node without peers. *)

Alone == Peers = {}

\* Nobody has an update to apply.
LEMMA NothingSynced ==
    ASSUME DataInv, OwnBlockInv, NEW t \in Peers \cup {Miner}, Sync(t)
    PROVE  SyncNothing(t)
  <1>1. t \in Threads /\ tempchain = <<>> /\ MutexInv
    BY ThreadFacts DEF OwnBlockInv, DataInv
  <1>2. pc[t] \notin InSync
    BY <1>1 DEF MutexInv
  <1> QED
    BY <1>1, <1>2 DEF Sync, SyncBegin, SyncCheck, SyncReplace, SyncAppend, SyncStore, SyncReset,
                      SyncRewrite, SyncEnd, At, InSync, SyncLabels

\* What a step does to the mining thread and its chain.
LEMMA AloneSteps ==
    ASSUME Alone, DataInv, OwnBlockInv, Next
    PROVE  \/ Mine /\ ~Sync(Miner)
           \/ SyncNothing(Miner)
           \/ Rest
           \/ End
  <1>1. ~ \E h \in Peers : Handle(h)
    BY DEF Alone
  <1> QED
    BY <1>1, NothingSynced DEF Next, Mine

\* The mining thread gets to a block it works on only by making it.
LEMMA MinerElsewhere ==
    ASSUME TypeOK, SyncNothing(Miner) \/ Rest \/ End
    PROVE  /\ pc'[Miner] = pc[Miner] \/ pc'[Miner] \in {"top", "broadcast"}
           /\ UNCHANGED blockchain
           /\ newblock' = newblock
  <1>1. CASE SyncNothing(Miner)
    BY <1>1, ThreadFacts DEF SyncNothing, Return, Goto, TypeOK
  <1>2. CASE StartMining
    BY <1>2, ThreadFacts DEF StartMining, Goto, TypeOK
  <1>3. CASE (Rest \/ End) /\ ~StartMining
    BY <1>3, ThreadFacts DEF Rest, StopMining, JoinMiner, Shutdown, CreateTx, End, MainLeaves,
                             MainJoins, StopServer, Exit, Goto, TypeOK, threadVars
  <1> QED
    BY <1>1, <1>2, <1>3

\* The steps of the mining thread between making a block and adding it.
LEMMA OwnBlockStep ==
    ASSUME Alone, DataInv, OwnBlockInv, Next
    PROVE  OwnBlockInv'
  <1>1. TypeOK /\ BlockInv /\ Miner \in Threads /\ tempchain = <<>>
    BY ThreadFacts DEF DataInv, OwnBlockInv
  <1>2. tempchain' = <<>>
    BY <1>1, AloneSteps
       DEF Mine, MineTop, MineCreate, MineBegin, MineFound, MineAborted, MineOvertaken,
           MineRequeue, MineAdd, MineWrite, MineBroadcast, SyncNothing, Rest, StartMining,
           StopMining, JoinMiner, Shutdown, CreateTx, End, MainLeaves, MainJoins, StopServer,
           Exit
  <1>3. ASSUME NEW label, Goto(Miner, label)
        PROVE  pc'[Miner] = label
    BY <1>1, <1>3 DEF Goto, TypeOK
  <1>4. CASE MineTop \/ MineRequeue \/ MineAdd \/ MineWrite \/ MineBroadcast
    <2>1. pc'[Miner] \in {"idle", "create", "sync", "write", "top"}
      BY <1>3, <1>4 DEF MineTop, MineRequeue, MineAdd, MineWrite, MineBroadcast
    <2> QED
      BY <1>2, <2>1 DEF OwnBlockInv
  <1>5. CASE MineCreate
    <2>1. pc'[Miner] = "begin" /\ newblock'.prev = Back(blockchain').hash
      BY <1>3, <1>5 DEF MineCreate, UnminedBlock, Back
    <2> QED
      BY <1>2, <2>1 DEF OwnBlockInv
  <1>6. CASE MineBegin \/ MineAborted \/ MineOvertaken
    <2>1. /\ UNCHANGED <<blockchain, newblock>>
          /\ pc[Miner] \in {"begin", "mining"}
          /\ pc' = pc \/ Goto(Miner, "mining") \/ Goto(Miner, "requeue")
      BY <1>6 DEF MineBegin, MineAborted, MineOvertaken, At, AtLocked, threadVars
    <2>2. pc'[Miner] \in {"begin", "mining", "requeue"}
      BY <1>3, <2>1
    <2> QED
      BY <1>2, <2>1, <2>2 DEF OwnBlockInv
  <1>7. CASE MineFound
    <2>1. /\ pc[Miner] = "mining" /\ pc'[Miner] = "add" /\ UNCHANGED blockchain
          /\ newblock' = MinedBlock(newblock, minted + 1)
      BY <1>3, <1>7 DEF MineFound, At
    <2>2. newblock \in Block /\ newblock.prev = Back(blockchain).hash
      BY <1>1, <2>1 DEF BlockInv, OwnBlockInv
    <2>3. ValidHash(newblock') /\ newblock'.prev = newblock.prev
      BY <2>1, <2>2, BlockchainAssumption DEF MinedBlock, ValidHash, Block
    <2> QED
      BY <1>2, <2>1, <2>2, <2>3 DEF OwnBlockInv
  <1>8. CASE SyncNothing(Miner) \/ Rest \/ End
    BY <1>1, <1>2, <1>8, MinerElsewhere DEF OwnBlockInv
  <1> QED
    BY <1>4, <1>5, <1>6, <1>7, <1>8, AloneSteps DEF Mine

\* So addNewBlock refuses none of its blocks.
LEMMA NeverRefused ==
    ASSUME OwnBlockInv, MineAdd
    PROVE  /\ CanAddBlock(blockchain, newblock)
           /\ blockchain' = Append(blockchain, newblock)
           /\ Goto(Miner, "write")
           /\ UNCHANGED <<miningDone, newblock>>
  <1>1. CanAddBlock(blockchain, newblock)
    BY DEF MineAdd, At, OwnBlockInv, CanAddBlock
  <1> QED
    BY <1>1 DEF MineAdd, AddNewBlock

\* Without peers, the invariant of the block being mined.
LEMMA OwnBlocks == Alone => (Spec => []OwnBlockInv)
  <1> SUFFICES ASSUME Alone
               PROVE  Spec => []OwnBlockInv
    OBVIOUS
  <1>1. Init => OwnBlockInv
    BY ThreadFacts DEF Init, OwnBlockInv
  <1>2. IInv /\ OwnBlockInv /\ [Next]_vars => OwnBlockInv'
    <2> SUFFICES ASSUME IInv, OwnBlockInv, [Next]_vars PROVE OwnBlockInv'
      OBVIOUS
    <2>1. CASE UNCHANGED vars
      BY <2>1 DEF OwnBlockInv, vars
    <2> QED
      BY <2>1, OwnBlockStep DEF IInv
  <1> QED
    BY <1>1, <1>2, Invariant, PTL DEF Spec

\* What is moved as a whole is somewhere afterwards.
LEMMA ConcatKeeps ==
    ASSUME NEW q \in Seq(Txs), NEW r \in Seq(Txs), NEW tx
    PROVE  /\ ListedIn(q, tx) # {} => ListedIn(q \o r, tx) # {}
           /\ ListedIn(r, tx) # {} => ListedIn(q \o r, tx) # {}
  <1> DEFINE D == {Len(q) + i : i \in ListedIn(r, tx)}
  <1>1. ListedIn(q \o r, tx) = ListedIn(q, tx) \cup D
    BY ConcatListed
  <1>2. \A i \in ListedIn(r, tx) : Len(q) + i \in D
    OBVIOUS
  <1> HIDE DEF D
  <1> QED
    BY <1>1, <1>2

\* A block that is added loses no payment, neither the chain's nor its own.
LEMMA AppendKeeps ==
    ASSUME NEW c \in Seq(Block), NEW b \in Block, NEW tx
    PROVE  /\ MinedIn(c, tx) # {} => MinedIn(Append(c, b), tx) # {}
           /\ ListedIn(b.txs, tx) # {} => MinedIn(Append(c, b), tx) # {}
  <1> DEFINE D == {<<Len(c) + 1, j>> : j \in ListedIn(b.txs, tx)}
  <1>1. MinedIn(Append(c, b), tx) = MinedIn(c, tx) \cup D
    BY AppendMined
  <1>2. \A j \in ListedIn(b.txs, tx) : <<Len(c) + 1, j>> \in D
    OBVIOUS
  <1> HIDE DEF D
  <1> QED
    BY <1>1, <1>2

\* A payment that is somewhere stays somewhere.
KeptPart == \A tx \in posted : Known(tx)

\* PaymentKept, with the places told apart by kind.
LEMMA KeptMeans == KeptPart <=> PaymentKept
  BY OnceMeans DEF KeptPart, PaymentKept

\* Without peers no step loses a payment: it goes from the queue into the block
\* being mined, and from there into the chain or back into the queue.
LEMMA KeptStep ==
    ASSUME Alone, DataInv, JoinInv, OwnBlockInv, KeptPart, Next
    PROVE  KeptPart'
  <1>1. /\ TypeOK /\ BlockInv /\ Miner \in Threads
        /\ blockchain \in Seq(Block) /\ txQueue \in Seq(Txs)
    BY ThreadFacts DEF DataInv, TypeOK
  <1>2. ASSUME NEW label, Goto(Miner, label)
        PROVE  pc'[Miner] = label
    BY <1>1, <1>2 DEF Goto, TypeOK
  <1>3. ASSUME UNCHANGED <<blockchain, txQueue, posted>>, Pending' = Pending \/ Pending = <<>>
        PROVE  KeptPart'
    BY <1>3, NothingListed DEF KeptPart, Known
  <1>4. CASE MineTop \/ MineWrite \/ MineBroadcast
    <2>1. pc[Miner] \in {"top", "write", "broadcast"} /\ UNCHANGED <<blockchain, txQueue, posted>>
      BY <1>4 DEF MineTop, MineWrite, MineBroadcast, At, AtLocked
    <2>2. Pending = <<>>
      BY <2>1 DEF Pending
    <2> QED
      BY <1>3, <2>1, <2>2
  <1>5. CASE MineCreate
    <2>1. /\ pc'[Miner] = "begin" /\ newblock'.txs = txQueue /\ pc[Miner] = "create"
          /\ UNCHANGED <<blockchain, posted>>
      BY <1>2, <1>5 DEF MineCreate, UnminedBlock, AtLocked, At
    <2>2. Pending = <<>> /\ Pending' = txQueue
      BY <2>1 DEF Pending
    <2> QED
      BY <2>1, <2>2, NothingListed DEF KeptPart, Known
  <1>6. CASE MineBegin \/ MineFound \/ MineAborted \/ MineOvertaken
    <2>1. UNCHANGED <<blockchain, txQueue, posted>>
      BY <1>6 DEF MineBegin, MineFound, MineAborted, MineOvertaken
    <2>2. /\ pc[Miner] \in {"begin", "mining"}
          /\ pc' = pc \/ Goto(Miner, "mining") \/ Goto(Miner, "add") \/ Goto(Miner, "requeue")
      BY <1>6 DEF MineBegin, MineFound, MineAborted, MineOvertaken, At, AtLocked
    <2>3. {pc[Miner], pc'[Miner]} \subseteq {"begin", "mining", "requeue", "add"}
      BY <1>2, <2>2
    <2>4. newblock'.txs = newblock.txs
      <3>1. CASE MineFound
        <4>1. newblock \in Block
          BY <1>1, <2>2 DEF BlockInv
        <4> QED
          BY <3>1, <4>1 DEF MineFound, MinedBlock, Block
      <3>2. CASE ~MineFound
        BY <1>6, <3>2 DEF MineBegin, MineAborted, MineOvertaken, threadVars
      <3> QED
        BY <3>1, <3>2
    <2>5. Pending' = Pending
      BY <2>3, <2>4 DEF Pending
    <2> QED
      BY <1>3, <2>1, <2>5
  <1>7. CASE MineRequeue
    <2>1. /\ pc[Miner] = "requeue" /\ txQueue' = txQueue \o newblock.txs
          /\ UNCHANGED <<blockchain, posted>>
      BY <1>7 DEF MineRequeue, AtLocked, At, ReQueueTransactions
    <2>2. Pending = newblock.txs /\ newblock.txs \in Seq(Txs)
      BY <1>1, <2>1 DEF Pending, BlockInv, Block
    <2>3. ASSUME NEW tx
          PROVE  ListedIn(txQueue, tx) # {} \/ ListedIn(Pending, tx) # {} =>
                     ListedIn(txQueue', tx) # {}
      BY <1>1, <2>1, <2>2, ConcatKeeps
    <2>4. ASSUME NEW tx, Known(tx)
          PROVE  Known(tx)'
      BY <2>1, <2>3, <2>4 DEF Known
    <2> QED
      BY <2>1, <2>4 DEF KeptPart
  <1>8. CASE MineAdd
    <2>1. /\ pc[Miner] = "add" /\ blockchain' = Append(blockchain, newblock)
          /\ UNCHANGED <<txQueue, posted>>
      BY <1>8, NeverRefused DEF MineAdd, At
    <2>2. Pending = newblock.txs /\ newblock \in Block
      BY <1>1, <2>1 DEF Pending, BlockInv
    <2>3. ASSUME NEW tx
          PROVE  MinedIn(blockchain, tx) # {} \/ ListedIn(Pending, tx) # {} =>
                     MinedIn(blockchain', tx) # {}
      BY <1>1, <2>1, <2>2, AppendKeeps
    <2>4. ASSUME NEW tx, Known(tx)
          PROVE  Known(tx)'
      BY <2>1, <2>3, <2>4 DEF Known
    <2> QED
      BY <2>1, <2>4 DEF KeptPart
  <1>9. CASE \E tx \in Txs : CreateTx(tx)
    <2>1. PICK tx \in Txs : CreateTx(tx)
      BY <1>9
    <2>2. /\ posted' = posted \cup {tx} /\ txQueue' = txQueue \o <<tx>> /\ <<tx>> \in Seq(Txs)
          /\ UNCHANGED <<blockchain, pc, newblock>>
      BY <1>1, <2>1 DEF CreateTx, threadVars
    <2>3. Pending' = Pending
      BY <2>2 DEF Pending
    <2>4. ASSUME NEW t
          PROVE  ListedIn(txQueue, t) # {} \/ ListedIn(<<tx>>, t) # {} =>
                     ListedIn(txQueue', t) # {}
      BY <1>1, <2>2, ConcatKeeps
    <2>5. ASSUME NEW t, Known(t)
          PROVE  Known(t)'
      BY <2>2, <2>3, <2>4, <2>5 DEF Known
    <2>6. ListedIn(<<tx>>, tx) = {1}
      BY DEF ListedIn
    <2>7. Known(tx)'
      BY <2>4, <2>6 DEF Known
    <2> QED
      BY <2>2, <2>5, <2>7 DEF KeptPart
  <1>10. CASE (SyncNothing(Miner) \/ Rest \/ End) /\ ~ \E tx \in Txs : CreateTx(tx)
    <2>1. UNCHANGED <<blockchain, txQueue, posted>>
      BY <1>10 DEF SyncNothing, Rest, StartMining, StopMining, JoinMiner, Shutdown, End,
                   MainLeaves, MainJoins, StopServer, Exit
    <2>2. \/ pc'[Miner] = pc[Miner] /\ newblock' = newblock
          \/ pc[Miner] \in {"sync", "idle"}
      <3>1. CASE SyncNothing(Miner)
        BY <3>1 DEF SyncNothing, At, AtLocked
      <3>2. CASE StartMining
        <4>1. CASE joinable
          BY <3>2, <4>1 DEF StartMining
        <4>2. CASE ~joinable
          BY <4>2 DEF JoinInv
        <4> QED
          BY <4>1, <4>2
      <3>3. CASE (Rest \/ End) /\ ~StartMining
        BY <1>1, <1>10, <3>3, ThreadFacts
           DEF Rest, StopMining, JoinMiner, Shutdown, End, MainLeaves, MainJoins, StopServer,
               Exit, Goto, TypeOK, threadVars
      <3> QED
        BY <1>10, <3>1, <3>2, <3>3
    <2>3. Pending' = Pending \/ Pending = <<>>
      BY <2>2 DEF Pending
    <2> QED
      BY <1>3, <2>1, <2>3
  <1> QED
    BY <1>4, <1>5, <1>6, <1>7, <1>8, <1>9, <1>10, AloneSteps DEF Mine

\* Without peers no payment is lost, whenever the miner is stopped and started
\* again: an aborted block gives its payments back, and no block is refused.
THEOREM NoneLost == Alone => (Spec => []PaymentKept)
  <1> SUFFICES ASSUME Alone
               PROVE  Spec => []PaymentKept
    OBVIOUS
  <1>1. Init => KeptPart
    BY DEF Init, KeptPart
  <1>2. IInv /\ OwnBlockInv /\ KeptPart /\ [Next]_vars => KeptPart'
    <2> SUFFICES ASSUME IInv, OwnBlockInv, KeptPart, [Next]_vars PROVE KeptPart'
      OBVIOUS
    <2>1. CASE UNCHANGED vars
      BY <2>1 DEF KeptPart, Known, Pending, vars
    <2> QED
      BY <2>1, KeptStep DEF IInv
  <1>3. Spec => []OwnBlockInv
    BY OwnBlocks
  <1> QED
    BY <1>1, <1>2, <1>3, Invariant, KeptMeans, PTL DEF Spec

-----------------------------------------------------------------------------
(* The difficulty of a node without peers. *)

\* What the database holds at startup.
GentleStart ==
    /\ \A i \in 2..Len(InitChain) :
           InitChain[i].difficulty - InitChain[i - 1].difficulty \in {-1, 0, 1}
    /\ Back(InitChain).difficulty # UINT64_MAX

\* What mineBlock does not throw on is one away at most.
LEMMA AdjustedNear ==
    ASSUME NEW c, HonestChain(c), Back(c).difficulty # UINT64_MAX,
           NEW d \in AdjustedDifficulties(c), d # UINT64_MAX
    PROVE  d - Back(c).difficulty \in {-1, 0, 1}
  <1> DEFINE b == Back(c).difficulty
  <1>1. b \in 0..UINT64_MAX /\ UINT64_MAX \in Nat
    BY HonestBack, BlockchainAssumption DEF Block
  <1>2. d \in {b, Up(b), Down(b)}
    BY DEF AdjustedDifficulties
  <1> HIDE DEF b
  <1>3. b # UINT64_MAX
    BY DEF b
  <1>4. d - b \in {-1, 0, 1}
    BY <1>1, <1>2, <1>3 DEF Up, Down
  <1> QED
    BY <1>4 DEF b

\* Without peers no step brings a difficulty that wraps around into the chain:
\* the block being mined has one that mineBlock did not throw on.
LEMMA StepStep ==
    ASSUME Alone, DataInv, OwnBlockInv, StepInv, Next
    PROVE  StepInv'
  <1>1. TypeOK /\ BlockInv /\ ChainInv /\ Miner \in Threads /\ blockchain \in Seq(Block)
    BY ThreadFacts DEF DataInv, TypeOK
  <1>2. ASSUME NEW label, Goto(Miner, label)
        PROVE  pc'[Miner] = label
    BY <1>1, <1>2 DEF Goto, TypeOK
  <1>3. ASSUME UNCHANGED blockchain,
               pc'[Miner] \in {"begin", "mining", "add"} =>
                   newblock'.difficulty \in AdjustedDifficulties(blockchain),
               pc'[Miner] \in {"mining", "add"} => newblock'.difficulty # UINT64_MAX
        PROVE  StepInv'
    BY <1>3 DEF StepInv, DifficultySteps
  <1>4. CASE MineTop \/ MineRequeue \/ MineWrite \/ MineBroadcast \/ MineAborted
                \/ MineOvertaken
    <2>1. /\ UNCHANGED blockchain
          /\ pc'[Miner] \in {"idle", "create", "sync", "top", "requeue"}
      BY <1>2, <1>4 DEF MineTop, MineRequeue, MineWrite, MineBroadcast, MineAborted,
                        MineOvertaken
    <2> QED
      BY <1>3, <2>1
  <1>5. CASE MineCreate
    <2>1. /\ pc'[Miner] = "begin" /\ UNCHANGED blockchain
          /\ newblock'.difficulty \in AdjustedDifficulties(blockchain)
      BY <1>2, <1>5 DEF MineCreate, UnminedBlock
    <2> QED
      BY <1>3, <2>1
  <1>6. CASE MineBegin
    <2>1. /\ pc[Miner] = "begin" /\ UNCHANGED <<blockchain, newblock>>
          /\ \/ pc' = pc
             \/ Goto(Miner, "mining") /\ newblock.difficulty # UINT64_MAX
      BY <1>6 DEF MineBegin, At
    <2>2. \/ pc'[Miner] = "begin"
          \/ pc'[Miner] = "mining" /\ newblock.difficulty # UINT64_MAX
      BY <1>2, <2>1
    <2>3. newblock.difficulty \in AdjustedDifficulties(blockchain)
      BY <2>1 DEF StepInv
    <2> QED
      BY <1>3, <2>1, <2>2, <2>3
  <1>7. CASE MineFound
    <2>1. /\ pc[Miner] = "mining" /\ UNCHANGED blockchain
          /\ newblock' = MinedBlock(newblock, minted + 1)
      BY <1>7 DEF MineFound, At
    <2>2. newblock \in Block
      BY <1>1, <2>1 DEF BlockInv
    <2>3. newblock'.difficulty = newblock.difficulty
      BY <2>1, <2>2 DEF MinedBlock, Block
    <2> QED
      BY <1>3, <2>1, <2>3 DEF StepInv
  <1>8. CASE MineAdd
    <2> DEFINE n == Len(blockchain)
    <2>1. /\ pc[Miner] = "add" /\ blockchain' = Append(blockchain, newblock)
          /\ pc'[Miner] = "write"
      BY <1>2, <1>8, NeverRefused DEF MineAdd, At
    <2>2. newblock \in Block /\ n \in Nat /\ n >= 1
      BY <1>1, <2>1, HonestBack DEF BlockInv, ChainInv
    <2>3. /\ newblock.difficulty # UINT64_MAX
          /\ newblock.difficulty - Back(blockchain).difficulty \in {-1, 0, 1}
      <3>1. /\ newblock.difficulty \in AdjustedDifficulties(blockchain)
            /\ newblock.difficulty # UINT64_MAX /\ Back(blockchain).difficulty # UINT64_MAX
        BY <2>1 DEF StepInv
      <3> QED
        BY <1>1, <3>1, AdjustedNear DEF ChainInv
    <2>4. /\ Len(blockchain') = n + 1
          /\ \A i \in 1..n : blockchain'[i] = blockchain[i]
          /\ blockchain'[n + 1] = newblock
      BY <1>1, <2>1, <2>2
    <2> HIDE DEF n
    <2>5. ASSUME NEW i \in 2..(n + 1)
          PROVE  blockchain'[i].difficulty - blockchain'[i - 1].difficulty \in {-1, 0, 1}
      <3>1. CASE i \in 2..n
        <4>1. blockchain'[i] = blockchain[i] /\ blockchain'[i - 1] = blockchain[i - 1]
          BY <2>2, <2>4, <3>1
        <4> QED
          BY <3>1, <4>1 DEF StepInv, DifficultySteps, n
      <3>2. CASE i = n + 1
        <4>1. blockchain'[i] = newblock /\ blockchain'[i - 1] = Back(blockchain)
          <5>1. i - 1 = n /\ n \in 1..n
            BY <2>2, <3>2
          <5>2. blockchain'[n] = blockchain[n]
            BY <2>4, <5>1
          <5> QED
            BY <2>4, <3>2, <5>1, <5>2 DEF Back, n
        <4> QED
          BY <2>3, <4>1
      <3> QED
        BY <2>2, <3>1, <3>2
    <2>6. DifficultySteps'
      BY <2>4, <2>5 DEF DifficultySteps
    <2>7. Back(blockchain').difficulty # UINT64_MAX
      BY <2>3, <2>4 DEF Back
    <2> QED
      BY <2>1, <2>6, <2>7 DEF StepInv
  <1>9. CASE SyncNothing(Miner) \/ Rest \/ End
    <2>1. /\ pc'[Miner] = pc[Miner] \/ pc'[Miner] \in {"top", "broadcast"}
          /\ UNCHANGED <<blockchain, newblock>>
      BY <1>1, <1>9, MinerElsewhere
    <2> QED
      BY <1>3, <2>1 DEF StepInv
  <1> QED
    BY <1>4, <1>5, <1>6, <1>7, <1>8, <1>9, AloneSteps DEF Mine

\* Without peers, the invariant of the difficulty.
LEMMA Steps == Alone /\ GentleStart => (Spec => []StepInv)
  <1> SUFFICES ASSUME Alone, GentleStart
               PROVE  Spec => []StepInv
    OBVIOUS
  <1>1. Init => StepInv
    BY ThreadFacts DEF Init, StepInv, DifficultySteps, GentleStart
  <1>2. IInv /\ OwnBlockInv /\ StepInv /\ [Next]_vars => StepInv'
    <2> SUFFICES ASSUME IInv, OwnBlockInv, StepInv, [Next]_vars PROVE StepInv'
      OBVIOUS
    <2>1. CASE UNCHANGED vars
      BY <2>1 DEF StepInv, DifficultySteps, vars
    <2> QED
      BY <2>1, StepStep DEF IInv
  <1>3. Spec => []OwnBlockInv
    BY OwnBlocks
  <1> QED
    BY <1>1, <1>2, <1>3, Invariant, PTL DEF Spec

\* Without peers the difficulty goes by steps of one, although the subtraction in
\* getAdjustedDifficulty wraps around: mineBlock throws on the block that would
\* take the step from 0 to UINT64_MAX.
THEOREM DifficultyGoesBySteps == Alone /\ GentleStart => (Spec => []DifficultySteps)
  <1>1. StepInv => DifficultySteps
    BY DEF StepInv
  <1> QED
    BY <1>1, Steps, PTL

-----------------------------------------------------------------------------
(* How a node without peers ends. *)

\* Without peers only a shutdown or the length of the string of zeros ends the
\* process: startMining finds the last mining thread joined.
LEMMA ExitStep ==
    ASSUME Alone, DataInv, OwnBlockInv, ExitInv, Next
    PROVE  ExitInv'
  <1>1. TypeOK /\ {Miner, Http, Main} \subseteq Threads /\ Miner # Http /\ Miner # Main
        /\ Http # Main
    BY ThreadFacts DEF DataInv
  <1>2. CASE (Mine /\ ~Sync(Miner)) \/ SyncNothing(Miner)
    <2>1. pc'[Http] = pc[Http] /\ pc'[Main] = pc[Main]
      BY <1>1, <1>2
         DEF Mine, MineTop, MineCreate, MineBegin, MineFound, MineAborted, MineOvertaken,
             MineRequeue, MineAdd, MineWrite, MineBroadcast, SyncNothing, Return, Goto, TypeOK
    <2>2. UNCHANGED <<miningDone, joinable, done>>
      <3>1. CASE MineAdd
        BY <3>1, NeverRefused DEF MineAdd
      <3>2. CASE ~MineAdd
        BY <1>2, <3>2
           DEF Mine, MineTop, MineCreate, MineBegin, MineFound, MineAborted, MineOvertaken,
               MineRequeue, MineWrite, MineBroadcast, SyncNothing, threadVars
      <3> QED
        BY <3>1, <3>2
    <2>3. outcome' \in {outcome, "length_error"}
      BY <1>2
         DEF Mine, MineTop, MineCreate, MineBegin, MineFound, MineAborted, MineOvertaken,
             MineRequeue, MineAdd, MineWrite, MineBroadcast, SyncNothing
    <2> QED
      BY <2>1, <2>2, <2>3 DEF ExitInv, OnlyExits
  <1>3. CASE StartMining
    <2>1. /\ pc[Http] = "idle" /\ miningDone /\ ~miningDone' /\ done' = done
          /\ pc'[Main] = pc[Main]
      BY <1>1, <1>3 DEF StartMining, AtRest, At, Goto, TypeOK
    <2>2. joinable => done
      BY <2>1 DEF ExitInv
    <2>3. outcome' = outcome \/ joinable
      BY <1>3 DEF StartMining
    <2> QED
      BY <2>1, <2>2, <2>3 DEF ExitInv, OnlyExits
  <1>4. CASE StopMining
    <2>1. /\ UNCHANGED <<joinable, done, outcome>>
          /\ pc'[Http] = IF joinable THEN "joining" ELSE "idle"
          /\ pc'[Main] = pc[Main]
      BY <1>1, <1>4 DEF StopMining, Goto, TypeOK
    <2> QED
      BY <2>1 DEF ExitInv, OnlyExits
  <1>5. CASE JoinMiner
    <2>1. /\ ~joinable' /\ done' = done /\ outcome' \in JoinOutcomes /\ outcome = "running"
          /\ pc'[Main] = pc[Main] \/ pc[Main] = "joining"
      BY <1>1, <1>5 DEF JoinMiner, BothJoining, At, TypeOK
    <2>2. outcome' = "running" \/ done
      BY <2>1 DEF JoinOutcomes, BothJoining, ExitInv
    <2> QED
      BY <2>1, <2>2 DEF ExitInv, OnlyExits
  <1>6. CASE Shutdown
    BY <1>6 DEF Shutdown, ExitInv, OnlyExits
  <1>7. CASE \E tx \in Txs : CreateTx(tx)
    BY <1>7 DEF CreateTx, threadVars, ExitInv, OnlyExits
  <1>8. CASE End
    <2>1. done /\ done' = done
      BY <1>8 DEF End, MainLeaves, MainJoins, StopServer, Exit, At, ExitInv, threadVars
    <2> QED
      BY <2>1 DEF ExitInv, OnlyExits
  <1> QED
    BY <1>2, <1>3, <1>4, <1>5, <1>6, <1>7, <1>8, AloneSteps DEF Rest

\* Without peers, the invariant of the process's end.
LEMMA Exits == Alone => (Spec => []ExitInv)
  <1> SUFFICES ASSUME Alone
               PROVE  Spec => []ExitInv
    OBVIOUS
  <1>1. Init => ExitInv
    <2> SUFFICES ASSUME Init PROVE ExitInv
      OBVIOUS
    <2>1. OnlyExits /\ pc[Main] = "idle"
      BY ThreadFacts DEF Init, OnlyExits
    <2>2. ~(miningDone /\ joinable)
      <3>1. miningDone = ~AutoStart /\ joinable = AutoStart
        BY DEF Init
      <3> QED
        BY <3>1, Zenon
    <2> QED
      BY <2>1, <2>2 DEF ExitInv
  <1>2. IInv /\ OwnBlockInv /\ ExitInv /\ [Next]_vars => ExitInv'
    <2> SUFFICES ASSUME IInv, OwnBlockInv, ExitInv, [Next]_vars PROVE ExitInv'
      OBVIOUS
    <2>1. CASE UNCHANGED vars
      BY <2>1 DEF ExitInv, OnlyExits, vars
    <2> QED
      BY <2>1, ExitStep DEF IInv
  <1>3. Spec => []OwnBlockInv
    BY OwnBlocks
  <1> QED
    BY <1>1, <1>2, <1>3, Invariant, PTL DEF Spec

\* Without peers the process ends only on a shutdown request or by the exception
\* on the difficulty: startMining never assigns to a thread that can be joined.
THEOREM EndsOnlyAsked == Alone => (Spec => []OnlyExits)
  <1>1. ExitInv => OnlyExits
    BY DEF ExitInv
  <1> QED
    BY <1>1, Exits, PTL

\* All of what holds of a node without peers, in particular that no block of its
\* own is refused: the one it adds is linked to the chain's end and has its digest.
THEOREM LoneInvariant == Alone /\ GentleStart => (Spec => []LoneInv)
  <1>1. OwnBlockInv /\ PaymentKept /\ StepInv /\ ExitInv => LoneInv
    BY DEF LoneInv
  <1> QED
    BY <1>1, OwnBlocks, NoneLost, Steps, Exits, PTL
=============================================================================
