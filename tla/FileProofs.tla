----------------------------- MODULE FileProofs -----------------------------
(***************************************************************************)
(* Proofs about the file and about updates, for a node whose miner users      *)
(* neither start nor stop: an update is adopted whole, and the file holds    *)
(* the local chain between the steps that change it (StorageInv); what a     *)
(* crash leaves of the file is a chain that the node had (RestartInv).       *)
(***************************************************************************)
EXTENDS MinerAppRestart, MinerAppProofs, SequenceTheorems

\* What users may ask for.  With the other calls a handler may rewrite the file
\* while the mining thread has a block to write, and the file gets it twice.
UsersOnlyPay == RestCalls \subseteq {"createtx"}

-----------------------------------------------------------------------------
(* Who moves, and where to. *)

\* The mining thread moves itself, and ends only at its head or by giving up.
LEMMA MineMoves ==
    ASSUME TypeOK, Mine
    PROVE  /\ pc[Miner] # "idle"
           /\ \A s \in Threads : s # Miner => pc'[s] = pc[s]
           /\ done' = done
           /\ miningDone' = miningDone \/ pc'[Miner] = "idle"
  <1> USE ThreadFacts
  <1>1. CASE Sync(Miner)
    BY <1>1 DEF Sync, SyncNothing, SyncBegin, SyncCheck, SyncReplace,
                SyncAppend, SyncStore, SyncReset, SyncRewrite, SyncEnd, At, AtLocked, Return, Goto, TypeOK, threadVars
  <1>2. CASE MineAdd
    BY <1>2 DEF MineAdd, At, Goto, TypeOK
  <1>3. CASE MineBegin
    BY <1>3 DEF MineBegin, At, Goto, TypeOK
  <1>4. CASE MineTop \/ MineCreate \/ MineFound \/ MineAborted \/ MineOvertaken
    BY <1>4 DEF MineTop, MineCreate, MineFound, MineAborted, MineOvertaken, At, AtLocked,
                Goto, TypeOK, threadVars
  <1>5. CASE MineRequeue \/ MineWrite \/ MineBroadcast
    BY <1>5 DEF MineRequeue, MineWrite, MineBroadcast, At, AtLocked, Goto, TypeOK, threadVars
  <1> QED
    BY <1>1, <1>2, <1>3, <1>4, <1>5 DEF Mine

\* A handler moves its own thread, and enters syncBlockchain only at its end and
\* with the miner stopped.
LEMMA HandleMoves ==
    ASSUME TypeOK, NEW h \in Peers, Handle(h)
    PROVE  /\ \A s \in Threads : s # h => pc'[s] = pc[s]
           /\ UNCHANGED <<done, miningDone>>
           /\ \/ pc'[h] \in {pc[h], "idle", "tail"}
              \/ pc[h] = "tail" /\ pc'[h] = "sync" /\ miningDone
              \/ pc[h] \in SyncLabels /\ pc'[h] \in SyncLabels
  <1> USE ThreadFacts
  <1>1. h \in Threads /\ h # Miner
    OBVIOUS
  <1>2. CASE Sync(h)
    BY <1>1, <1>2 DEF Sync, SyncNothing, SyncBegin, SyncCheck, SyncReplace,
                SyncAppend, SyncStore, SyncReset, SyncRewrite, SyncEnd, At, AtLocked, Return, Goto, TypeOK, threadVars, SyncLabels
  <1>3. CASE HandleTail(h)
    BY <1>1, <1>3 DEF HandleTail, At, Goto, TypeOK, threadVars
  <1>4. CASE HandleChain(h)
    BY <1>1, <1>4 DEF HandleChain, Answered, Goto, TypeOK, threadVars
  <1>5. CASE HandleNewBlock(h) \/ HandleSummary(h) \/ HandleChainError(h)
                \/ HandleNewBlockResponse(h)
    BY <1>1, <1>5 DEF HandleNewBlock, HandleSummary, HandleChainError, HandleNewBlockResponse,
                Goto, TypeOK, threadVars
  <1> QED
    BY <1>2, <1>3, <1>4, <1>5 DEF Handle

\* Users and the main thread do nothing but queue payments.
LEMMA OnlyPays ==
    ASSUME UsersOnlyPay, SoloInv, Rest \/ End
    PROVE  \E tx \in Txs : CreateTx(tx)
  <1>1. /\ "startMining" \notin RestCalls /\ "stopMining" \notin RestCalls
        /\ "shutdown" \notin RestCalls
    BY DEF UsersOnlyPay
  <1>2. ~StartMining /\ ~StopMining /\ ~Shutdown /\ ~JoinMiner
    BY <1>1 DEF StartMining, StopMining, Shutdown, JoinMiner, AtRest, At, SoloInv
  <1>3. ~MainLeaves /\ ~MainJoins /\ ~StopServer /\ ~Exit
    BY DEF MainLeaves, MainJoins, StopServer, Exit, At, SoloInv
  <1> QED
    BY <1>2, <1>3 DEF Rest, End

\* While the mining thread runs no handler is inside of syncBlockchain.
LEMMA SoloStep ==
    ASSUME UsersOnlyPay, TypeOK, SoloInv, Next
    PROVE  SoloInv'
  <1> USE ThreadFacts
  <1>1. CASE Mine
    BY <1>1, MineMoves DEF SoloInv
  <1>2. CASE \E h \in Peers : Handle(h)
    <2>1. PICK h \in Peers : Handle(h)
      BY <1>2
    <2>2. h \in Threads /\ h \notin {Miner, Http, Main}
      OBVIOUS
    <2>3. ~done' /\ pc'[Http] = "idle" /\ pc'[Main] = "idle" /\ pc'[Miner] = pc[Miner]
          /\ miningDone' = miningDone
      BY <2>1, <2>2, HandleMoves DEF SoloInv
    <2>4. pc'[h] \in {"idle", "tail"} \/ (pc'[h] \in SyncLabels /\ miningDone')
      BY <2>1, <2>3, HandleMoves DEF SoloInv, SyncLabels
    <2>5. \A g \in Peers : g # h => pc'[g] = pc[g]
      BY <2>1, HandleMoves
    <2> QED
      BY <2>3, <2>4, <2>5 DEF SoloInv
  <1>3. CASE Rest \/ End
    BY <1>3, OnlyPays DEF CreateTx, threadVars, SoloInv
  <1> QED
    BY <1>1, <1>2, <1>3 DEF Next

-----------------------------------------------------------------------------
(* The file. *)

\* What the mutex and the users make sure of: while the mining thread has a block
\* to add or to write, nobody is inside of syncBlockchain.
LEMMA NobodySyncs ==
    ASSUME TypeOK, MutexInv, SoloInv, pc[Miner] \in {"add", "write"}
    PROVE  chainMutex = Nobody
  <1>1. pc[Miner] \notin InSync
    BY DEF InSync, SyncLabels
  <1>2. ASSUME NEW t \in Threads, pc[t] \in InSync
        PROVE  FALSE
    <2>1. t \in Peers
      BY <1>1, <1>2 DEF SoloInv, Threads, InSync, SyncLabels
    <2>2. pc[t] \notin {"idle", "tail"}
      BY <1>2 DEF InSync, SyncLabels
    <2> QED
      BY <2>1, <2>2 DEF SoloInv
  <1> QED
    BY <1>2 DEF MutexInv, TypeOK

\* The mining thread has nothing to write while another one syncs.
LEMMA NothingToWrite ==
    ASSUME TypeOK, SoloInv, NEW t \in Peers \cup {Miner}, pc[t] \in SyncLabels
    PROVE  pc[Miner] # "write"
  <1>1. "write" \notin SyncLabels /\ "idle" \notin SyncLabels /\ "tail" \notin SyncLabels
    BY DEF SyncLabels
  <1> QED
    BY <1>1 DEF SoloInv

\* A step that leaves chain and file alone, and takes no thread to where they
\* differ.
LEMMA FileKept ==
    ASSUME FileInv, UNCHANGED <<blockchain, database, chainMutex>>,
           pc'[Miner] = "write" => pc[Miner] = "write" /\ UNCHANGED newblock,
           pc[Miner] = "write" => pc'[Miner] = "write",
           \A t \in Threads : pc'[t] = pc[t] \/ pc'[t] \notin InSync,
           UNCHANGED <<tempchain, position>> \/ \A t \in Threads : pc'[t] \notin InSync
    PROVE  FileInv'
  <1>1. {"rewrite", "replace", "reset", "check", "append", "unlock", "store"} \subseteq InSync
    BY DEF InSync, SyncLabels
  <1>2. ASSUME NEW t \in Threads
        PROVE  /\ pc'[t] = "rewrite" => database' = NoFile
               /\ pc'[t] \in {"replace", "reset"} => HonestChain(database')
               /\ pc'[t] \in {"check", "append", "unlock"} => database' = blockchain'
               /\ pc'[t] = "store" => database' # NoFile
                            /\ blockchain' = Append(database', tempchain'[position' - 1])
    <2>1. CASE pc'[t] \notin InSync
      BY <1>1, <2>1
    <2>2. CASE pc'[t] = pc[t] /\ UNCHANGED <<tempchain, position>>
      BY <2>2 DEF FileInv
    <2> QED
      BY <2>1, <2>2
  <1> QED
    BY <1>2 DEF FileInv

\* Only one thread is inside of syncBlockchain.
LEMMA OneSyncs ==
    ASSUME MutexInv, NEW t \in Threads, pc[t] \in InSync
    PROVE  chainMutex = t /\ \A s \in Threads : s # t => pc[s] \notin InSync
  BY DEF MutexInv

\* The mining thread outside of syncBlockchain.
LEMMA MineFile ==
    ASSUME DataInv, SoloInv, FileInv, Mine, ~Sync(Miner)
    PROVE  FileInv'
  <1>1. TypeOK /\ MutexInv /\ ChainInv /\ Miner \in Threads
    BY ThreadFacts DEF DataInv
  <1>2. blockchain \in Seq(Block)
    BY <1>1 DEF TypeOK
  <1>3. CASE MineAdd
    <2>1. pc[Miner] = "add" /\ chainMutex = Nobody /\ UNCHANGED <<database, chainMutex, tempchain>>
      BY <1>1, <1>3, NobodySyncs DEF MineAdd, At
    <2>2. database = blockchain /\ database # NoFile
      BY <1>2, <2>1, MinerAppAssumption DEF FileInv
    <2>3. \A s \in Threads : pc[s] \notin InSync
      BY <1>1, <2>1, ThreadFacts DEF MutexInv
    <2>4. CASE CanAddBlock(blockchain, newblock)
      <3>1. /\ blockchain' = Append(blockchain, newblock)
            /\ Goto(Miner, "write") /\ newblock' = newblock
        BY <1>3, <2>4 DEF MineAdd, AddNewBlock
      <3>2. pc'[Miner] = "write" /\ \A s \in Threads : pc'[s] \notin InSync
        BY <1>1, <2>3, <3>1 DEF Goto, TypeOK, InSync, SyncLabels
      <3> QED
        BY <2>1, <2>2, <3>1, <3>2 DEF FileInv, InSync, SyncLabels
    <2>5. CASE ~CanAddBlock(blockchain, newblock)
      <3>1. blockchain' = blockchain /\ Goto(Miner, "idle")
        BY <1>3, <2>5 DEF MineAdd, AddNewBlock
      <3>2. pc'[Miner] = "idle" /\ \A s \in Threads : pc'[s] \notin InSync
        BY <1>1, <2>3, <3>1 DEF Goto, TypeOK, InSync, SyncLabels
      <3> QED
        BY <2>1, <2>2, <3>1, <3>2 DEF FileInv, InSync, SyncLabels
    <2> QED
      BY <2>4, <2>5
  <1>4. CASE MineWrite
    <2>1. /\ pc[Miner] = "write" /\ chainMutex = Nobody /\ Goto(Miner, "sync")
          /\ database' = Written(database, <<newblock>>)
          /\ UNCHANGED <<blockchain, chainMutex, tempchain>>
      BY <1>1, <1>4, NobodySyncs DEF MineWrite, At
    <2>2. database # NoFile /\ blockchain = Append(database, newblock)
      BY <2>1 DEF FileInv
    <2>3. database \in Seq(Block) /\ newblock \in Block
      BY <1>1, <2>1, <2>2 DEF DataInv, BlockInv, TypeOK
    <2>4. database' = blockchain'
      BY <2>1, <2>2, <2>3, AppendIsConcat DEF Written
    <2>5. \A s \in Threads : pc[s] \notin InSync
      BY <1>1, <2>1, ThreadFacts DEF MutexInv
    <2>6. pc'[Miner] = "sync" /\ \A s \in Threads : pc'[s] \notin InSync
      BY <1>1, <2>1, <2>5 DEF Goto, TypeOK, InSync, SyncLabels
    <2> QED
      BY <2>1, <2>4, <2>6 DEF FileInv, InSync, SyncLabels
  <1>5. CASE ~MineAdd /\ ~MineWrite
    <2>1. UNCHANGED <<blockchain, database, chainMutex, tempchain, position>>
      BY <1>5 DEF Mine, MineTop, MineCreate, MineBegin, MineFound, MineAborted,
                  MineOvertaken, MineRequeue, MineBroadcast, threadVars
    <2>2. /\ pc[Miner] # "write"
          /\ pc' = pc \/ \E label \in {"idle", "create", "begin", "mining", "add", "requeue",
                                       "sync", "top"} : Goto(Miner, label)
      BY <1>5 DEF Mine, MineTop, MineCreate, MineBegin, MineFound, MineAborted,
                  MineOvertaken, MineRequeue, MineBroadcast, At, AtLocked
    <2>3. /\ pc'[Miner] # "write"
          /\ \A s \in Threads : pc'[s] = pc[s] \/ pc'[s] \notin InSync
      BY <1>1, <2>2 DEF Goto, TypeOK, InSync, SyncLabels
    <2> QED
      BY <2>1, <2>2, <2>3, FileKept
  <1> QED
    BY <1>3, <1>4, <1>5

\* The handlers outside of syncBlockchain.
LEMMA HandleFile ==
    ASSUME DataInv, FileInv, NEW h \in Peers, Handle(h), ~Sync(h)
    PROVE  FileInv'
  <1>1. TypeOK /\ MutexInv /\ h \in Threads /\ h # Miner
    BY ThreadFacts DEF DataInv
  <1>2. UNCHANGED <<blockchain, database, chainMutex, newblock>>
    BY DEF Handle, HandleNewBlock, HandleSummary, HandleChainError, HandleChain,
           HandleNewBlockResponse, HandleTail, threadVars
  <1>3. pc' = pc \/ \E label \in {"idle", "tail", "sync"} : Goto(h, label)
    BY DEF Handle, HandleNewBlock, HandleSummary, HandleChainError, HandleChain,
           HandleNewBlockResponse, HandleTail
  <1>4. /\ pc'[Miner] = pc[Miner]
        /\ \A s \in Threads : pc'[s] = pc[s] \/ pc'[s] \notin InSync
    BY <1>1, <1>3, ThreadFacts DEF Goto, TypeOK, InSync, SyncLabels
  <1>5. UNCHANGED <<tempchain, position>> \/ \A s \in Threads : pc'[s] \notin InSync
    <2>1. CASE HandleChain(h)
      <3>1. \A s \in Threads : pc[s] \notin InSync
        BY <1>1, <2>1, ThreadFacts DEF HandleChain, MutexInv
      <3> QED
        BY <1>4, <3>1
    <2>2. CASE ~HandleChain(h)
      BY <2>2 DEF Handle, HandleNewBlock, HandleSummary, HandleChainError,
                  HandleNewBlockResponse, HandleTail
    <2> QED
      BY <2>1, <2>2
  <1> QED
    BY <1>2, <1>4, <1>5, FileKept

\* Removing the file is a fresh start for it, whatever it held.
LEMMA SyncResetFile ==
    ASSUME TypeOK, MutexInv, SoloInv, NEW t \in Peers \cup {Miner}, SyncReset(t)
    PROVE  FileInv'
  <1>1. /\ t \in Threads /\ Nobody \notin Threads /\ pc[t] = "reset"
        /\ Goto(t, "rewrite") /\ database' = NoFile /\ UNCHANGED chainMutex
    BY ThreadFacts DEF SyncReset, At
  <1>2. pc[Miner] # "write"
    BY <1>1, NothingToWrite DEF SyncLabels
  <1>3. chainMutex' = t /\ \A s \in Threads : s # t => pc[s] \notin InSync
    BY <1>1, OneSyncs DEF InSync, SyncLabels
  <1>4. pc'[t] = "rewrite" /\ \A s \in Threads : s # t => pc'[s] = pc[s]
    BY <1>1 DEF Goto, TypeOK
  <1>5. pc'[Miner] # "write"
    BY <1>2, <1>4, ThreadFacts
  <1> QED
    BY <1>1, <1>3, <1>4, <1>5 DEF FileInv, InSync, SyncLabels

\* The block that a thread at its write is about to put in the file.
LEMMA StoredBlock ==
    ASSUME TypeOK, MutexInv, NEW t \in Threads, pc[t] = "store"
    PROVE  tempchain[position - 1] \in Block
  <1>1. position >= 2 /\ position \in Nat /\ tempchain \in Seq(Block)
    BY DEF MutexInv, PositionAt, TypeOK
  <1>2. position \in 1..(Len(tempchain) + 1) /\ Len(tempchain) \in Nat
    BY <1>1 DEF MutexInv
  <1>3. position - 1 \in 1..Len(tempchain)
    BY <1>1, <1>2
  <1> QED
    BY <1>1, <1>3, ElementOfSeq

\* syncBlockchain.
LEMMA SyncFile ==
    ASSUME DataInv, SoloInv, FileInv, NEW t \in Peers \cup {Miner}, Sync(t)
    PROVE  FileInv'
  <1>1. TypeOK /\ MutexInv /\ t \in Threads /\ Nobody \notin Threads
    BY ThreadFacts DEF DataInv
  <1>2. pc[t] \in SyncLabels
    BY DEF Sync, SyncNothing, SyncBegin, SyncCheck, SyncReplace,
                SyncAppend, SyncStore, SyncReset, SyncRewrite, SyncEnd, At, AtLocked, SyncLabels
  <1>3. pc[Miner] # "write"
    BY <1>1, <1>2, NothingToWrite
  <1>4. ASSUME NEW label, Goto(t, label)
        PROVE  pc'[t] = label /\ \A s \in Threads : s # t => pc'[s] = pc[s]
    BY <1>1, <1>4 DEF Goto, TypeOK
  <1>5. ASSUME NEW label, Goto(t, label), label # "write"
        PROVE  pc'[Miner] # "write"
    BY <1>3, <1>4, <1>5, ThreadFacts
  <1>6. CASE SyncNothing(t)
    <2>1. /\ chainMutex = Nobody
          /\ UNCHANGED <<blockchain, database, chainMutex>>
          /\ \E label \in {"idle", "top", "broadcast"} : Goto(t, label)
      BY <1>6 DEF SyncNothing, AtLocked, Return
    <2>2. \A s \in Threads : pc'[s] \notin InSync
      BY <1>1, <1>4, <2>1 DEF MutexInv, InSync, SyncLabels
    <2>3. pc'[Miner] # "write"
      BY <1>5, <2>1
    <2> QED
      BY <1>3, <2>1, <2>2, <2>3, FileKept
  <1>7. CASE SyncBegin(t)
    <2>1. /\ chainMutex = Nobody /\ chainMutex' = t /\ UNCHANGED database
          /\ \/ Goto(t, "reset")
             \/ Goto(t, "replace")
             \/ Goto(t, "check") /\ UNCHANGED blockchain
      BY <1>7 DEF SyncBegin, AtLocked
    <2>2. database = blockchain /\ HonestChain(blockchain)
      BY <1>3, <2>1 DEF FileInv, DataInv, ChainInv
    <2>3. /\ pc'[t] \in {"reset", "replace"} \/ (pc'[t] = "check" /\ UNCHANGED blockchain)
          /\ pc'[Miner] # "write"
          /\ \A s \in Threads : s # t => pc'[s] \notin InSync
      BY <1>1, <1>4, <1>5, <2>1 DEF MutexInv
    <2> QED
      BY <1>1, <2>1, <2>2, <2>3 DEF FileInv, InSync, SyncLabels
  <1>8. CASE SyncCheck(t)
    <2>1. /\ pc[t] = "check" /\ UNCHANGED <<blockchain, database>>
          /\ \/ Goto(t, "append") /\ UNCHANGED chainMutex
             \/ chainMutex' = Nobody
                  /\ \E label \in {"idle", "top", "broadcast"} : Goto(t, label)
      BY <1>8 DEF SyncCheck, At, Return
    <2>2. database' = blockchain'
      BY <1>1, <2>1 DEF FileInv
    <2>3. chainMutex = t /\ \A s \in Threads : s # t => pc[s] \notin InSync
      BY <1>1, <2>1, OneSyncs DEF InSync, SyncLabels
    <2>4. CASE Goto(t, "append") /\ UNCHANGED chainMutex
      <3>1. /\ pc'[t] = "append" /\ pc'[Miner] # "write"
            /\ \A s \in Threads : s # t => pc'[s] \notin InSync
        BY <1>4, <1>5, <2>3, <2>4
      <3> QED
        BY <1>1, <2>2, <2>3, <2>4, <3>1 DEF FileInv, InSync, SyncLabels
    <2>5. CASE chainMutex' = Nobody
                 /\ \E label \in {"idle", "top", "broadcast"} : Goto(t, label)
      <3>1. pc'[Miner] # "write" /\ \A s \in Threads : pc'[s] \notin InSync
        BY <1>1, <1>4, <1>5, <2>3, <2>5 DEF InSync, SyncLabels
      <3> QED
        BY <2>2, <3>1 DEF FileInv, InSync, SyncLabels
    <2> QED
      BY <2>1, <2>4, <2>5
  <1>10. CASE SyncReplace(t)
    <2>1. /\ pc[t] = "replace" /\ UNCHANGED <<database, chainMutex>>
          /\ Goto(t, "replace") \/ Goto(t, "reset")
      BY <1>10 DEF SyncReplace, At
    <2>2. chainMutex = t /\ \A s \in Threads : s # t => pc[s] \notin InSync
      BY <1>1, <2>1, OneSyncs DEF InSync, SyncLabels
    <2>3. /\ pc'[t] \in {"replace", "reset"} /\ pc'[Miner] # "write"
          /\ \A s \in Threads : s # t => pc'[s] \notin InSync
      BY <1>4, <1>5, <2>1, <2>2
    <2>4. HonestChain(database')
      BY <1>1, <2>1 DEF FileInv
    <2> QED
      BY <1>1, <2>1, <2>2, <2>3, <2>4 DEF FileInv, InSync, SyncLabels
  <1>11. CASE SyncAppend(t)
    <2> DEFINE b == tempchain[position]
    <2>1. /\ pc[t] = "append" /\ UNCHANGED <<database, chainMutex, tempchain>>
          /\ blockchain' = AddNewBlock(blockchain, b) /\ position' = position + 1
          /\ IF CanAddBlock(blockchain, b) THEN Goto(t, "store")
             ELSE Goto(t, "unlock") \/ Goto(t, "append")
      BY <1>11 DEF SyncAppend, At
    <2>2. chainMutex = t /\ \A s \in Threads : s # t => pc[s] \notin InSync
      BY <1>1, <2>1, OneSyncs DEF InSync, SyncLabels
    <2>3. database = blockchain /\ blockchain \in Seq(Block) /\ database # NoFile
      BY <1>1, <2>1, MinerAppAssumption DEF FileInv, TypeOK
    <2>4. position' - 1 = position
      BY <1>1, <2>1 DEF TypeOK
    <2>5. tempchain'[position' - 1] = b
      BY <2>1, <2>4
    <2> HIDE DEF b
    <2>6. CASE CanAddBlock(blockchain, b)
      <3>1. blockchain' = Append(database', tempchain'[position' - 1]) /\ database' # NoFile
        BY <2>1, <2>3, <2>5, <2>6 DEF AddNewBlock
      <3>2. /\ pc'[t] = "store" /\ pc'[Miner] # "write"
            /\ \A s \in Threads : s # t => pc'[s] \notin InSync
        BY <1>4, <1>5, <2>1, <2>2, <2>6
      <3> QED
        BY <1>1, <2>1, <2>2, <3>1, <3>2 DEF FileInv, InSync, SyncLabels
    <2>7. CASE ~CanAddBlock(blockchain, b)
      <3>1. blockchain' = database'
        BY <2>1, <2>3, <2>7 DEF AddNewBlock
      <3>2. /\ pc'[t] \in {"unlock", "append"} /\ pc'[Miner] # "write"
            /\ \A s \in Threads : s # t => pc'[s] \notin InSync
        BY <1>4, <1>5, <2>1, <2>2, <2>7
      <3> QED
        BY <1>1, <2>1, <2>2, <3>1, <3>2 DEF FileInv, InSync, SyncLabels
    <2> QED
      BY <2>6, <2>7
  <1>12. CASE SyncStore(t)
    <2> DEFINE b == tempchain[position - 1]
    <2>1. /\ pc[t] = "store" /\ UNCHANGED <<blockchain, chainMutex>>
          /\ database' = Written(database, <<b>>)
          /\ Goto(t, "unlock") \/ Goto(t, "append")
      BY <1>12 DEF SyncStore, At
    <2>2. chainMutex = t /\ \A s \in Threads : s # t => pc[s] \notin InSync
      BY <1>1, <2>1, OneSyncs DEF InSync, SyncLabels
    <2>3. database # NoFile /\ blockchain = Append(database, b)
      BY <1>1, <2>1 DEF FileInv
    <2>4. b \in Block /\ database \in Seq(Block)
      BY <1>1, <2>1, <2>3, StoredBlock DEF TypeOK
    <2> HIDE DEF b
    <2>5. database' = blockchain'
      BY <2>1, <2>3, <2>4, AppendIsConcat DEF Written
    <2>6. /\ pc'[t] \in {"unlock", "append"} /\ pc'[Miner] # "write"
          /\ \A s \in Threads : s # t => pc'[s] \notin InSync
      BY <1>4, <1>5, <2>1, <2>2
    <2> QED
      BY <1>1, <2>1, <2>2, <2>5, <2>6 DEF FileInv, InSync, SyncLabels
  <1>13. CASE SyncReset(t)
    BY <1>1, <1>13, SyncResetFile
  <1>14. CASE SyncRewrite(t)
    <2>1. /\ Goto(t, "unlock") /\ pc[t] = "rewrite" /\ database' = Written(database, blockchain)
          /\ UNCHANGED <<blockchain, chainMutex>>
      BY <1>14 DEF SyncRewrite, At
    <2>2. chainMutex = t /\ \A s \in Threads : s # t => pc[s] \notin InSync
      BY <1>1, <2>1, OneSyncs DEF InSync, SyncLabels
    <2>3. database' = blockchain'
      BY <1>1, <2>1 DEF FileInv, Written
    <2>4. /\ pc'[t] = "unlock" /\ pc'[Miner] # "write"
          /\ \A s \in Threads : s # t => pc'[s] \notin InSync
      BY <1>4, <1>5, <2>1, <2>2
    <2> QED
      BY <1>1, <2>1, <2>2, <2>3, <2>4 DEF FileInv, InSync, SyncLabels
  <1>9. CASE SyncEnd(t)
    <2>1. /\ pc[t] = "unlock" /\ chainMutex' = Nobody
          /\ UNCHANGED <<blockchain, database>>
          /\ \E label \in {"idle", "top", "broadcast"} : Goto(t, label)
      BY <1>9 DEF SyncEnd, At, Return
    <2>2. database' = blockchain'
      BY <1>1, <2>1 DEF FileInv
    <2>3. \A s \in Threads : s # t => pc[s] \notin InSync
      BY <1>1, <2>1, OneSyncs DEF InSync, SyncLabels
    <2>4. pc'[Miner] # "write" /\ \A s \in Threads : pc'[s] \notin InSync
      BY <1>1, <1>4, <1>5, <2>1, <2>3 DEF InSync, SyncLabels
    <2> QED
      BY <2>2, <2>4 DEF FileInv, InSync, SyncLabels
  <1> QED
    BY <1>6, <1>7, <1>8, <1>9, <1>10, <1>11, <1>12, <1>13, <1>14 DEF Sync

\* Every step keeps what the file lacks known.
LEMMA FileStep ==
    ASSUME UsersOnlyPay, DataInv, SoloInv, FileInv, Next
    PROVE  FileInv'
  <1>1. CASE Rest \/ End
    <2>1. PICK tx \in Txs : CreateTx(tx)
      BY <1>1, OnlyPays
    <2> QED
      BY <2>1, FileKept DEF CreateTx, threadVars
  <1>2. CASE Mine
    BY <1>2, MineFile, SyncFile
  <1>3. CASE \E h \in Peers : Handle(h)
    BY <1>3, HandleFile, SyncFile
  <1> QED
    BY <1>1, <1>2, <1>3 DEF Next

-----------------------------------------------------------------------------
(* The loop over an update. *)

\* A step that leaves chain, update and place in it alone, or finds none.
LEMMA LoopKept ==
    ASSUME LoopInv,
           \/ /\ UNCHANGED <<blockchain, tempchain, position>>
              /\ \A t \in Threads : pc'[t] = "check" => pc[t] = "check"
           \/ position' = 0 /\ \A t \in Threads : pc'[t] # "check"
    PROVE  LoopInv'
  BY DEF LoopInv, Extends

\* Nobody is in the loop while the mutex is free.
LEMMA NobodyLoops ==
    ASSUME TypeOK, MutexInv, chainMutex = Nobody
    PROVE  position = 0 /\ \A t \in Threads : pc[t] \notin InSync
  BY ThreadFacts DEF MutexInv

\* The mining thread outside of syncBlockchain.
LEMMA MineLoop ==
    ASSUME DataInv, SoloInv, LoopInv, Mine, ~Sync(Miner)
    PROVE  LoopInv'
  <1>1. TypeOK /\ MutexInv /\ Miner \in Threads
    BY ThreadFacts DEF DataInv
  <1>2. CASE MineAdd
    <2>1. /\ pc[Miner] = "add" /\ UNCHANGED position
          /\ Goto(Miner, "write") \/ Goto(Miner, "idle")
      BY <1>2 DEF MineAdd, At
    <2>2. position = 0 /\ \A t \in Threads : pc[t] \notin InSync
      BY <1>1, <2>1, NobodySyncs, NobodyLoops
    <2>3. \A t \in Threads : pc'[t] # "check"
      BY <1>1, <2>1, <2>2 DEF Goto, TypeOK, InSync, SyncLabels
    <2> QED
      BY <2>1, <2>2, <2>3, LoopKept
  <1>3. CASE ~MineAdd
    <2>1. UNCHANGED <<blockchain, tempchain, position>>
      BY <1>3 DEF Mine, MineTop, MineCreate, MineBegin, MineFound, MineAborted,
                  MineOvertaken, MineRequeue, MineWrite, MineBroadcast, threadVars
    <2>2. pc' = pc \/ \E label \in {"idle", "create", "begin", "mining", "add", "requeue",
                                    "sync", "top"} : Goto(Miner, label)
      BY <1>3 DEF Mine, MineTop, MineCreate, MineBegin, MineFound, MineAborted,
                  MineOvertaken, MineRequeue, MineWrite, MineBroadcast
    <2>3. \A t \in Threads : pc'[t] = "check" => pc[t] = "check"
      BY <1>1, <2>2 DEF Goto, TypeOK
    <2> QED
      BY <2>1, <2>3, LoopKept
  <1> QED
    BY <1>2, <1>3

\* The handlers outside of syncBlockchain.
LEMMA HandleLoop ==
    ASSUME DataInv, LoopInv, NEW h \in Peers, Handle(h), ~Sync(h)
    PROVE  LoopInv'
  <1>1. TypeOK /\ MutexInv /\ h \in Threads
    BY ThreadFacts DEF DataInv
  <1>2. pc' = pc \/ \E label \in {"idle", "tail", "sync"} : Goto(h, label)
    BY DEF Handle, HandleNewBlock, HandleSummary, HandleChainError, HandleChain,
           HandleNewBlockResponse, HandleTail
  <1>3. \A t \in Threads : pc'[t] = "check" => pc[t] = "check"
    BY <1>1, <1>2 DEF Goto, TypeOK
  <1>4. CASE HandleChain(h)
    <2>1. chainMutex = Nobody /\ UNCHANGED position
      BY <1>4 DEF HandleChain
    <2>2. position = 0 /\ \A t \in Threads : pc[t] # "check"
      BY <1>1, <2>1, NobodyLoops DEF InSync, SyncLabels
    <2> QED
      BY <1>3, <2>1, <2>2, LoopKept
  <1>5. CASE ~HandleChain(h)
    <2>1. UNCHANGED <<blockchain, tempchain, position>>
      BY <1>5 DEF Handle, HandleNewBlock, HandleSummary, HandleChainError,
                  HandleNewBlockResponse, HandleTail
    <2> QED
      BY <1>3, <2>1, LoopKept
  <1> QED
    BY <1>4, <1>5

\* A chain that ends where an update begins, before the first of its blocks.
LEMMA NothingYet ==
    ASSUME NEW S, NEW c \in Seq(S), NEW u
    PROVE  c = SubSeq(c, 1, Len(c)) \o SubSeq(u, 1, 1 - 1)
  <1>1. SubSeq(u, 1, 0) = <<>> /\ SubSeq(c, 1, Len(c)) = c
    BY SubSeqFull, SubSeqEmpty
  <1> QED
    BY <1>1, ConcatEmptySeq

\* An update that attaches overlaps the chain, or begins right after it.
LEMMA BeginLoop ==
    ASSUME TypeOK, MutexInv, ChainInv, UpdateInv, NEW t \in Peers \cup {Miner}, SyncBegin(t)
    PROVE  LoopInv'
  <1>1. /\ chainMutex = Nobody /\ tempchain # <<>> /\ t \in Threads
        /\ HonestChain(blockchain) /\ IsSegment(tempchain)
        /\ StartsAtGenesis(tempchain) \/ LinksToChain(blockchain, tempchain)
    BY ThreadFacts DEF SyncBegin, AtLocked, ChainInv, UpdateInv, UpdateAttaches
  <1>2. position = 0 /\ \A s \in Threads : pc[s] # "check"
    BY <1>1, NobodyLoops DEF InSync, SyncLabels
  <1>3. ASSUME NEW label, Goto(t, label)
        PROVE  pc'[t] = label /\ \A s \in Threads : s # t => pc'[s] = pc[s]
    BY <1>1, <1>3 DEF Goto, TypeOK
  <1>4. /\ blockchain \in Seq(Block) /\ Len(blockchain) \in Nat
        /\ Back(blockchain).index = Len(blockchain) - 1
    BY <1>1, HonestBack
  <1>5. CASE StartsAtGenesis(tempchain)
    <2>1. position' = 0 /\ Goto(t, "reset")
      BY <1>2, <1>5 DEF SyncBegin
    <2>2. \A s \in Threads : pc'[s] # "check"
      BY <1>2, <1>3, <2>1
    <2> QED
      BY <2>1, <2>2 DEF LoopInv
  <1>6. CASE ~StartsAtGenesis(tempchain)
    <2> DEFINE k == tempchain[1].index
    <2>1. position' = 1 /\ UNCHANGED tempchain
      BY <1>6 DEF SyncBegin
    <2>2. LinksToChain(blockchain, tempchain) /\ k \in 1..Len(blockchain)
      BY <1>1, <1>6 DEF LinksToChain
    <2>3. CASE k <= Back(blockchain).index
      <3>1. Goto(t, "replace") /\ blockchain' = Resize(blockchain, k)
        BY <1>6, <2>3 DEF SyncBegin
      <3>2. HonestChain(blockchain') /\ Len(blockchain') = k
        BY <1>1, <2>2, <3>1, ResizeKeeps
      <3>3. blockchain' \in Seq(Block)
        BY <3>2, HonestBack
      <3>4. blockchain' = SubSeq(blockchain', 1, k) \o SubSeq(tempchain, 1, 1 - 1)
        BY <3>2, <3>3, NothingYet
      <3>5. \A s \in Threads : pc'[s] # "check"
        BY <1>2, <1>3, <3>1
      <3> QED
        BY <2>1, <3>4, <3>5 DEF LoopInv
    <2>4. CASE ~(k <= Back(blockchain).index)
      <3>1. UNCHANGED blockchain
        BY <1>6, <2>4 DEF SyncBegin
      <3> HIDE DEF k
      <3>2. k = Len(blockchain) /\ k = Back(blockchain).index + 1
        BY <1>4, <2>2, <2>4
      <3>3. blockchain = SubSeq(blockchain, 1, k) \o SubSeq(tempchain, 1, 1 - 1)
        BY <1>4, <3>2, NothingYet
      <3>4. Extends(blockchain', tempchain')
        BY <2>1, <3>1, <3>2 DEF Extends, k
      <3> QED
        BY <2>1, <3>1, <3>3, <3>4 DEF LoopInv, k
    <2> QED
      BY <2>3, <2>4
  <1> QED
    BY <1>5, <1>6

\* One more block of the update, and it is taken.
LEMMA TakeLoop ==
    ASSUME TypeOK, MutexInv, ChainInv, UpdateInv, LoopInv,
           NEW t \in Peers \cup {Miner}, SyncReplace(t) \/ SyncAppend(t)
    PROVE  LoopInv' /\ position' # 0
  <1> DEFINE i == position
  <1>1. /\ t \in Threads /\ pc[t] \in {"replace", "append"} /\ UNCHANGED tempchain
        /\ position' = i + 1 /\ blockchain' = AddNewBlock(blockchain, tempchain[i])
        /\ Goto(t, "replace") \/ Goto(t, "reset") \/ Goto(t, "store") \/ Goto(t, "unlock")
              \/ Goto(t, "append")
    BY ThreadFacts DEF SyncReplace, SyncAppend, At
  <1>2. chainMutex = t /\ tempchain # <<>> /\ i \in 1..Len(tempchain) /\ i # 0
        /\ ~StartsAtGenesis(tempchain)
    BY <1>1 DEF MutexInv, PositionAt, InSync, SyncLabels
  <1>3. /\ HonestChain(blockchain) /\ IsSegment(tempchain)
        /\ LinksToChain(blockchain, tempchain)
    BY <1>2 DEF ChainInv, UpdateInv, UpdateAttaches
  <1>4. blockchain' = SubSeq(blockchain', 1, tempchain[1].index) \o SubSeq(tempchain, 1, i)
    <2>1. blockchain = SubSeq(blockchain, 1, tempchain[1].index) \o SubSeq(tempchain, 1, i - 1)
      BY <1>2 DEF LoopInv
    <2> HIDE DEF i
    <2> QED
      BY <1>1, <1>2, <1>3, <2>1, NextTaken
  <1>5. position' - 1 = i /\ position' # 0
    BY <1>1 DEF TypeOK
  <1>6. \A s \in Threads : pc'[s] # "check"
    <2>1. \A s \in Threads : s # t => pc[s] # "check"
      BY <1>1, OneSyncs DEF InSync, SyncLabels
    <2> QED
      BY <1>1, <2>1 DEF Goto, TypeOK
  <1> HIDE DEF i
  <1> QED
    BY <1>1, <1>4, <1>5, <1>6 DEF LoopInv

\* syncBlockchain.
LEMMA SyncLoop ==
    ASSUME DataInv, LoopInv, NEW t \in Peers \cup {Miner}, Sync(t)
    PROVE  LoopInv'
  <1>1. TypeOK /\ MutexInv /\ ChainInv /\ UpdateInv /\ t \in Threads
    BY ThreadFacts DEF DataInv
  <1>2. ASSUME NEW label, Goto(t, label)
        PROVE  pc'[t] = label /\ \A s \in Threads : s # t => pc'[s] = pc[s]
    BY <1>1, <1>2 DEF Goto, TypeOK
  <1>3. CASE SyncBegin(t) \/ SyncReplace(t) \/ SyncAppend(t)
    BY <1>1, <1>3, BeginLoop, TakeLoop
  <1>4. CASE SyncCheck(t)
    <2>1. pc[t] = "check" /\ Extends(blockchain, tempchain)
      BY <1>1, <1>4 DEF SyncCheck, At, LoopInv
    <2>2. UNCHANGED <<blockchain, tempchain, position>> /\ Goto(t, "append")
      BY <1>4, <2>1 DEF SyncCheck
    <2> QED
      BY <1>2, <2>2, LoopKept
  <1>5. CASE SyncNothing(t) \/ SyncStore(t) \/ SyncReset(t) \/ SyncRewrite(t)
    <2>1. /\ UNCHANGED <<blockchain, tempchain, position>>
          /\ \E label \in {"idle", "top", "broadcast", "unlock", "append", "rewrite"} :
                 Goto(t, label)
      BY <1>5 DEF SyncNothing, SyncStore, SyncReset, SyncRewrite, Return
    <2> QED
      BY <1>2, <2>1, LoopKept
  <1>6. CASE SyncEnd(t)
    <2>1. /\ pc[t] = "unlock" /\ position' = 0
          /\ \E label \in {"idle", "top", "broadcast"} : Goto(t, label)
      BY <1>6 DEF SyncEnd, At, Return
    <2>2. \A s \in Threads : s # t => pc[s] # "check"
      BY <1>1, <2>1, OneSyncs DEF InSync, SyncLabels
    <2>3. \A s \in Threads : pc'[s] # "check"
      BY <1>2, <2>1, <2>2
    <2> QED
      BY <2>1, <2>3, LoopKept
  <1> QED
    BY <1>3, <1>4, <1>5, <1>6 DEF Sync

\* Every step keeps the place of the loop in chain and update.
LEMMA PlaceStep ==
    ASSUME UsersOnlyPay, DataInv, SoloInv, LoopInv, Next
    PROVE  LoopInv'
  <1>1. CASE Rest \/ End
    <2>1. PICK tx \in Txs : CreateTx(tx)
      BY <1>1, OnlyPays
    <2> QED
      BY <2>1, LoopKept DEF CreateTx
  <1>2. CASE Mine
    BY <1>2, MineLoop, SyncLoop
  <1>3. CASE \E h \in Peers : Handle(h)
    BY <1>3, HandleLoop, SyncLoop
  <1> QED
    BY <1>1, <1>2, <1>3 DEF Next

\* A step that changes nothing.
LEMMA StorageStutter ==
    ASSUME StorageInv, UNCHANGED vars
    PROVE  StorageInv'
  BY DEF StorageInv, SoloInv, FileInv, LoopInv, Extends, vars

\* The inductive invariant of the file, for users who only pay.
THEOREM StorageInvariant == UsersOnlyPay => (Spec => []StorageInv)
  <1> SUFFICES ASSUME UsersOnlyPay
               PROVE  Spec => []StorageInv
    OBVIOUS
  <1>1. Init => StorageInv
    <2> SUFFICES ASSUME Init PROVE StorageInv
      OBVIOUS
    <2>1. SoloInv
      BY ThreadFacts DEF Init, SoloInv
    <2>2. \A t \in Threads : pc[t] \in {"idle", "top"}
      BY DEF Init
    <2>3. FileInv
      BY <2>2, ThreadFacts DEF Init, FileInv
    <2>4. LoopInv
      BY <2>2 DEF Init, LoopInv
    <2> QED
      BY <2>1, <2>3, <2>4 DEF StorageInv
  <1>2. IInv /\ StorageInv /\ [Next]_vars => StorageInv'
    BY SoloStep, FileStep, PlaceStep, StorageStutter DEF IInv, DataInv, StorageInv
  <1> QED
    BY <1>1, <1>2, Invariant, PTL DEF Spec

\* The file holds the local chain whenever no thread is between a change of the
\* one and of the other: the mining thread writes without the mutex, and a
\* handler rewrites the file, but never at the same time.
THEOREM FileHoldsChain == UsersOnlyPay => (Spec => []FileMatchesChain)
  <1> SUFFICES ASSUME UsersOnlyPay
               PROVE  Spec => []FileMatchesChain
    OBVIOUS
  <1>1. StorageInv => FileMatchesChain
    BY DEF StorageInv, FileInv, FileMatchesChain
  <1> QED
    BY <1>1, StorageInvariant, PTL

\* What syncBlockchain leaves when its loops are through.
LEMMA WholeStep ==
    ASSUME DataInv, LoopInv, Next, position # 0, position' = 0
    PROVE  \E n \in 0..Len(blockchain') : blockchain' = SubSeq(blockchain', 1, n) \o tempchain
  <1>1. TypeOK /\ MutexInv /\ ChainInv /\ UpdateInv
    BY DEF DataInv
  <1>2. PICK t \in Peers \cup {Miner} : Sync(t)
    <2>1. ~Rest /\ ~End
      BY DEF Rest, End, StartMining, StopMining, JoinMiner, Shutdown, CreateTx, MainLeaves,
             MainJoins, StopServer, Exit
    <2>2. Mine => Sync(Miner)
      BY DEF Mine, MineTop, MineCreate, MineBegin, MineFound, MineAborted, MineOvertaken,
             MineRequeue, MineAdd, MineWrite, MineBroadcast
    <2>3. \A h \in Peers : Handle(h) => Sync(h)
      BY DEF Handle, HandleNewBlock, HandleSummary, HandleChainError, HandleChain,
             HandleNewBlockResponse, HandleTail
    <2> QED
      BY <2>1, <2>2, <2>3 DEF Next
  <1>3. t \in Threads
    BY ThreadFacts
  <1>4. ~SyncReplace(t) /\ ~SyncAppend(t)
    BY <1>1, TakeLoop
  <1>5. ~SyncCheck(t)
    BY <1>3 DEF SyncCheck, At, LoopInv
  <1>6. SyncEnd(t)
    <2>1. ~SyncBegin(t)
      BY <1>1, NobodyLoops DEF SyncBegin, AtLocked
    <2> QED
      BY <1>2, <1>4, <1>5, <2>1 DEF Sync, SyncNothing, SyncStore, SyncReset, SyncRewrite
  <1>7. pc[t] = "unlock" /\ UNCHANGED blockchain
    BY <1>6 DEF SyncEnd, At
  <1>8. /\ position = Len(tempchain) + 1 /\ tempchain # <<>> /\ ~StartsAtGenesis(tempchain)
        /\ tempchain \in Seq(Block)
    BY <1>1, <1>3, <1>7 DEF MutexInv, PositionAt, InSync, SyncLabels, TypeOK
  <1>9. LinksToChain(blockchain, tempchain) /\ Len(blockchain) \in Nat
    BY <1>1, <1>8, HonestBack DEF ChainInv, UpdateInv, UpdateAttaches
  <1> DEFINE k == tempchain[1].index
  <1>10. k \in 0..Len(blockchain)
    BY <1>9 DEF LinksToChain
  <1>11. blockchain = SubSeq(blockchain, 1, k) \o SubSeq(tempchain, 1, position - 1)
    BY DEF LoopInv
  <1> HIDE DEF k
  <1>12. SubSeq(tempchain, 1, position - 1) = tempchain
    <2>1. position - 1 = Len(tempchain)
      BY <1>8, EmptySeq
    <2> QED
      BY <1>8, <2>1, SubSeqFull
  <1>13. blockchain = SubSeq(blockchain, 1, k) \o tempchain
    BY <1>11, <1>12
  <1> QED
    BY <1>7, <1>10, <1>13

\* Whatever was mined since an update was cached, and although the loops compare
\* nothing, the local chain ends with the whole update when they are through: no
\* block of it is refused.  With a user who stops the miner this does not hold.
THEOREM UpdateWhole == UsersOnlyPay => (Spec => UpdateAdoptedWhole)
  <1> SUFFICES ASSUME UsersOnlyPay
               PROVE  Spec => UpdateAdoptedWhole
    OBVIOUS
  <1>1. IInv /\ StorageInv /\ [Next]_vars =>
            [position # 0 /\ position' = 0 =>
                 \E n \in 0..Len(blockchain') :
                     blockchain' = SubSeq(blockchain', 1, n) \o tempchain]_vars
    BY WholeStep DEF IInv, StorageInv
  <1> QED
    BY <1>1, Invariant, StorageInvariant, PTL DEF Spec, UpdateAdoptedWhole

-----------------------------------------------------------------------------
(* Beginnings of chains. *)

\* The first blocks of a chain are a chain.
LEMMA PrefixHonest ==
    ASSUME NEW c, HonestChain(c), NEW n \in 1..Len(c)
    PROVE  HonestChain(SubSeq(c, 1, n))
  <1>1. IsSegment(c) /\ c[1].index = 0 /\ Len(c) \in Nat /\ 1 \in 1..Len(c) /\ n \in 1..Len(c)
    BY SegmentSeq DEF HonestChain, StartsAtGenesis
  <1>2. /\ IsSegment(SubSeq(c, 1, n))
        /\ \A i \in 1..(n - 1 + 1) : SubSeq(c, 1, n)[i] = c[1 + i - 1]
    BY <1>1, SegmentSub
  <1>3. SubSeq(c, 1, n)[1] = c[1]
    BY <1>1, <1>2
  <1> QED
    BY <1>1, <1>2, <1>3 DEF HonestChain, StartsAtGenesis

\* A concatenation cut in its second part.
LEMMA ConcatCut ==
    ASSUME NEW S, NEW s \in Seq(S), NEW u \in Seq(S), NEW n \in 0..Len(u)
    PROVE  /\ s \o SubSeq(u, 1, n) = SubSeq(s \o u, 1, Len(s) + n)
           /\ Len(s) + n \in 0..Len(s \o u)
  OBVIOUS

\* So a write that is cut leaves a beginning of what was to be in the file.
BeginningOf(r, s) == \E m \in 0..Len(r) : s = SubSeq(r, 1, m)

LEMMA WrittenCut ==
    ASSUME NEW S, NEW s \in Seq(S), NEW u \in Seq(S), NEW n \in 0..Len(u), s # NoFile,
           NEW r, r = s \o u
    PROVE  BeginningOf(r, Written(s, SubSeq(u, 1, n)))
  <1> DEFINE m == Len(s) + n
  <1>1. Written(s, SubSeq(u, 1, n)) = s \o SubSeq(u, 1, n)
    BY DEF Written
  <1>2. s \o SubSeq(u, 1, n) = SubSeq(r, 1, m) /\ m \in 0..Len(r)
    BY ConcatCut
  <1> HIDE DEF m
  <1> QED
    BY <1>1, <1>2 DEF BeginningOf

\* What is written while the chain is being completed in the file.
LEMMA WritingCompletes ==
    ASSUME DataInv, SoloInv, FileInv, NEW t \in Threads, Writing(t) # <<>>,
           NEW n \in 0..Len(Writing(t))
    PROVE  \E m \in 0..Len(blockchain) :
               Written(database, SubSeq(Writing(t), 1, n)) = SubSeq(blockchain, 1, m)
  <1>1. TypeOK /\ blockchain \in Seq(Block) /\ tempchain \in Seq(Block)
    BY DEF DataInv, TypeOK
  <1>2. CASE pc[t] = "write"
    <2>1. Writing(t) = <<newblock>>
      BY <1>2 DEF Writing
    <2>2. t = Miner
      BY <1>2 DEF SoloInv, Threads, SyncLabels
    <2>3. newblock \in Block /\ database \in Seq(Block) /\ database # NoFile
          /\ blockchain = Append(database, newblock)
      BY <1>1, <1>2, <2>2 DEF DataInv, BlockInv, FileInv, TypeOK
    <2>4. blockchain = database \o <<newblock>> /\ <<newblock>> \in Seq(Block)
      BY <2>3, AppendIsConcat
    <2>5. blockchain = database \o Writing(t) /\ Writing(t) \in Seq(Block)
      BY <2>1, <2>4
    <2>6. BeginningOf(blockchain, Written(database, SubSeq(Writing(t), 1, n)))
      BY <2>3, <2>5, WrittenCut
    <2> QED
      BY <2>6 DEF BeginningOf
  <1>3. CASE pc[t] = "rewrite"
    <2>1. Writing(t) = blockchain /\ database = NoFile
      BY <1>3 DEF Writing, FileInv
    <2> QED
      BY <2>1 DEF Written
  <1>4. CASE pc[t] = "store"
    <2> DEFINE b == tempchain[position - 1]
    <2>1. Writing(t) = <<b>> /\ b \in Block
      BY <1>1, <1>4, StoredBlock DEF Writing, DataInv
    <2>2. database # NoFile /\ blockchain = Append(database, b) /\ database \in Seq(Block)
      BY <1>1, <1>4 DEF FileInv, TypeOK
    <2> HIDE DEF b
    <2>3. blockchain = database \o <<b>> /\ <<b>> \in Seq(Block)
      BY <2>1, <2>2, AppendIsConcat
    <2>4. blockchain = database \o Writing(t) /\ Writing(t) \in Seq(Block)
      BY <2>1, <2>3
    <2>5. BeginningOf(blockchain, Written(database, SubSeq(Writing(t), 1, n)))
      BY <2>2, <2>4, WrittenCut
    <2> QED
      BY <2>5 DEF BeginningOf
  <1> QED
    BY <1>2, <1>3, <1>4 DEF Writing

\* Where nothing is being replaced, the file holds the beginning of the chain.
LEMMA FileIsPrefix ==
    ASSUME DataInv, FileInv, database # NoFile
    PROVE  \/ \E t \in Threads : pc[t] \in {"replace", "reset"} /\ HonestChain(database)
           \/ \E m \in 0..Len(blockchain) : database = SubSeq(blockchain, 1, m)
  <1>1. TypeOK /\ MutexInv /\ blockchain \in Seq(Block) /\ tempchain \in Seq(Block)
        /\ database \in Seq(Block)
    BY DEF DataInv, TypeOK
  <1>2. CASE pc[Miner] = "write"
    <2>1. newblock \in Block /\ blockchain = Append(database, newblock)
      BY <1>2 DEF DataInv, BlockInv, FileInv
    <2>2. database = SubSeq(blockchain, 1, Len(database)) /\ Len(database) \in 0..Len(blockchain)
      BY <1>1, <2>1
    <2> QED
      BY <2>2
  <1>3. CASE database = blockchain
    <2>1. /\ blockchain = SubSeq(blockchain, 1, Len(blockchain))
          /\ Len(blockchain) \in 0..Len(blockchain)
      BY <1>1, SubSeqFull, EmptySeq
    <2>2. \E m \in 0..Len(blockchain) : blockchain = SubSeq(blockchain, 1, m)
      BY <2>1
    <2> QED
      BY <1>3, <2>2
  <1>4. CASE pc[Miner] # "write" /\ chainMutex # Nobody
    <2>1. PICK t \in Threads : pc[t] \in InSync
      BY <1>1, <1>4 DEF MutexInv, TypeOK
    <2>2. CASE pc[t] \in {"replace", "reset"}
      BY <2>2 DEF FileInv
    <2>3. CASE pc[t] = "store"
      <3> DEFINE b == tempchain[position - 1]
      <3>1. blockchain = Append(database, b) /\ b \in Block
        BY <1>1, <2>3, StoredBlock DEF FileInv
      <3> HIDE DEF b
      <3>2. database = SubSeq(blockchain, 1, Len(database)) /\ Len(database) \in 0..Len(blockchain)
        BY <1>1, <3>1
      <3> QED
        BY <3>2
    <2>4. CASE pc[t] \in {"check", "append", "unlock"}
      BY <1>3, <2>4 DEF FileInv
    <2>5. pc[t] # "rewrite"
      BY DEF FileInv
    <2> QED
      BY <2>1, <2>2, <2>3, <2>4, <2>5 DEF InSync, SyncLabels
  <1> QED
    BY <1>2, <1>3, <1>4 DEF FileInv

\* A part of the chain is a chain, or nothing.
LEMMA PartHonest ==
    ASSUME ChainInv, NEW m \in 0..Len(blockchain)
    PROVE  SubSeq(blockchain, 1, m) = <<>> \/ HonestChain(SubSeq(blockchain, 1, m))
  <1>1. Len(blockchain) \in Nat /\ blockchain \in Seq(Block)
    BY HonestBack DEF ChainInv
  <1>2. CASE m = 0
    BY <1>1, <1>2
  <1>3. CASE m # 0
    BY <1>1, <1>3, PrefixHonest DEF ChainInv
  <1> QED
    BY <1>2, <1>3

\* A new genesis block, whole or cut short, makes a chain.
LEMMA GenesisHonest ==
    ASSUME crashes \in Nat
    PROVE  HonestChain(<<GenesisBlock(-1 - crashes)>>) /\ HonestChain(<<TornBlock>>)
  <1> DEFINE id == -1 - crashes
             g == GenesisBlock(id)
  <1>1. NoHash \in Digest /\ <<0, id>> \in Digest /\ <<0, -id>> \in Digest /\ <<>> \in Seq(Txs)
    BY DEF NoHash, Digest
  <1>2. 1 \in 0..UINT64_MAX
    BY BlockchainAssumption
  <1>3. g \in Block /\ TornBlock \in Block
    BY <1>1, <1>2 DEF GenesisBlock, TornBlock, Block
  <1>4. g.index = 0 /\ g.hash = <<0, id>> /\ TornBlock.index = 0 /\ TornBlock.hash = <<0, id>>
    BY DEF GenesisBlock, TornBlock
  <1>5. ASSUME NEW b \in Block, b.index = 0, b.hash = <<0, id>>
        PROVE  HonestChain(<<b>>)
    BY <1>5 DEF HonestChain, StartsAtGenesis, IsSegment
  <1> HIDE DEF g, id
  <1> QED
    BY <1>3, <1>4, <1>5 DEF g, id

\* Whatever is left in the file, what is read of it is a chain or nothing.
LEMMA LoadedHonest ==
    ASSUME StoredInv, CountersInv, database # NoFile
    PROVE  Loaded(database) = <<>> \/ HonestChain(Loaded(database))
  BY GenesisHonest DEF StoredInv, CountersInv, Loaded

-----------------------------------------------------------------------------
(* Crashes and restarts: one lemma per action. *)

\* A process that has ended does nothing.
LEMMA NextRuns ==
    ASSUME Next
    PROVE  outcome = "running"
  <1>1. ASSUME NEW t, Sync(t)
        PROVE  outcome = "running"
    BY <1>1 DEF Sync, SyncNothing, SyncBegin, SyncCheck, SyncReplace,
                SyncAppend, SyncStore, SyncReset, SyncRewrite, SyncEnd, At, AtLocked
  <1>2. CASE Mine
    BY <1>1, <1>2 DEF Mine, MineTop, MineCreate, MineBegin, MineFound, MineAborted,
                MineOvertaken, MineRequeue, MineAdd, MineWrite, MineBroadcast, At, AtLocked
  <1>3. CASE \E h \in Peers : Handle(h)
    BY <1>1, <1>3 DEF Handle, HandleNewBlock, HandleSummary, HandleChainError, HandleChain,
                HandleNewBlockResponse, HandleTail, Answered, At, AtLocked
  <1>4. CASE Rest
    BY <1>4 DEF Rest, StartMining, StopMining, JoinMiner, Shutdown, CreateTx, AtRest, At
  <1>5. CASE End
    BY <1>5 DEF End, MainLeaves, MainJoins, StopServer, Exit, At
  <1> QED
    BY <1>2, <1>3, <1>4, <1>5 DEF Next

\* Only syncBlockchain removes the file.
LEMMA OnlyReset ==
    ASSUME DataInv, Next, database' = NoFile, database # NoFile
    PROVE  \E t \in Peers \cup {Miner} : SyncReset(t)
  <1>1. /\ database \in Seq(Block) /\ blockchain \in Seq(Block) /\ tempchain \in Seq(Block)
        /\ NoFile \notin Seq(Block)
    BY MinerAppAssumption DEF DataInv, TypeOK
  <1>2. database' # database /\ \A more \in Seq(Block) : database \o more \in Seq(Block)
    BY <1>1
  <1>3. ASSUME NEW t \in Peers \cup {Miner}, Sync(t), ~SyncReset(t)
        PROVE  FALSE
    <2>1. CASE SyncRewrite(t)
      <3>1. database' = database \o blockchain
        BY <2>1 DEF SyncRewrite, Written
      <3> QED
        BY <1>1, <1>2, <3>1
    <2>2. CASE SyncStore(t)
      <3> DEFINE b == tempchain[position - 1]
      <3>1. database' = database \o <<b>>
        BY <2>2 DEF SyncStore, Written
      <3>2. b \in Block
        BY <2>2, StoredBlock, ThreadFacts DEF SyncStore, At, DataInv
      <3> HIDE DEF b
      <3>3. <<b>> \in Seq(Block)
        BY <3>2
      <3> QED
        BY <1>1, <1>2, <3>1, <3>3
    <2>3. CASE SyncNothing(t) \/ SyncBegin(t) \/ SyncCheck(t) \/ SyncReplace(t) \/ SyncAppend(t)
                  \/ SyncEnd(t)
      BY <1>2, <2>3 DEF SyncNothing, SyncBegin, SyncCheck, SyncReplace, SyncAppend, SyncEnd
    <2> QED
      BY <1>3, <2>1, <2>2, <2>3 DEF Sync
  <1>4. CASE MineWrite
    <2>1. newblock \in Block
      BY <1>4 DEF MineWrite, At, DataInv, BlockInv
    <2>2. database' = database \o <<newblock>> /\ <<newblock>> \in Seq(Block)
      BY <1>4, <2>1 DEF MineWrite, Written
    <2> QED
      BY <1>1, <1>2, <2>2
  <1>5. CASE Mine /\ ~Sync(Miner) /\ ~MineWrite
    BY <1>2, <1>5 DEF Mine, MineTop, MineCreate, MineBegin, MineFound, MineAborted,
                MineOvertaken, MineRequeue, MineAdd, MineBroadcast
  <1>6. CASE \E h \in Peers : Handle(h) /\ ~Sync(h)
    BY <1>2, <1>6 DEF Handle, HandleNewBlock, HandleSummary, HandleChainError, HandleChain,
                HandleNewBlockResponse, HandleTail
  <1>7. CASE Rest
    BY <1>2, <1>7 DEF Rest, StartMining, StopMining, JoinMiner, Shutdown, CreateTx
  <1>8. CASE End
    BY <1>2, <1>8 DEF End, MainLeaves, MainJoins, StopServer, Exit
  <1> QED
    BY <1>3, <1>4, <1>5, <1>6, <1>7, <1>8 DEF Next, Mine, Handle

\* What the file holds while the node runs and it was never cut short.
StoredChain == database \in {NoFile, <<>>} \/ HonestChain(database)

\* The stored chain is what FileInv says of a prefix of the local chain.
LEMMA StoredHonest == DataInv /\ FileInv => StoredChain
  BY FileIsPrefix, PartHonest DEF DataInv, StoredChain

\* The node runs as in MinerApp; removing the file ends what a crash did to it.
LEMMA RunStep ==
    ASSUME UsersOnlyPay, RestartInv, ~loading, Next,
           torn' = IF database' = NoFile THEN "whole" ELSE torn,
           UNCHANGED <<loadVars, known, crashes>>
    PROVE  RestartInv'
  <1>1. /\ Running /\ IInv /\ SoloInv /\ LoopInv /\ (torn = "whole" => FileInv)
        /\ torn \in {"whole", "first"}
        /\ known = {} /\ crashes \in Nat
    BY NextRuns DEF RestartInv, RunningInv, StoredInv, KnownInv, CountersInv, Running
  <1>2. IInv' /\ SoloInv' /\ LoopInv' /\ DataInv' /\ TypeOK' /\ DataInv /\ TypeOK /\ MutexInv
    BY <1>1, InvStep, SoloStep, PlaceStep DEF IInv, DataInv
  <1>3. torn' = "whole" => FileInv'
    <2>1. CASE torn = "whole"
      BY <1>1, <1>2, <2>1, FileStep
    <2>2. CASE torn = "first" /\ database' = NoFile
      <3>1. database # NoFile
        BY <2>2 DEF RestartInv, StoredInv
      <3> QED
        BY <1>1, <1>2, <2>2, <3>1, OnlyReset, SyncResetFile
    <2> QED
      BY <1>1, <2>1, <2>2
  <1>4. loading' = FALSE /\ known' = {} /\ crashes' \in Nat /\ torn' \in {"whole", "first"}
        /\ (torn' # "whole" => database' # NoFile)
    BY <1>1 DEF loadVars, RestartInv, CountersInv
  <1>5. StoredInv'
    <2>1. torn' # "first" => database' \in {NoFile, <<>>} \/ HonestChain(database')
      <3>1. (DataInv /\ FileInv => StoredChain)'
        BY StoredHonest, PTL
      <3> QED
        BY <1>2, <1>3, <1>4, <3>1 DEF StoredChain
    <2> QED
      BY <1>2, <1>4, <2>1 DEF StoredInv, TypeOK, Running
  <1>6. outcome' # "invalid_chain"
    BY <1>2 DEF TypeOK, Outcomes
  <1>7. UpdateAttaches'
    BY <1>2 DEF DataInv, UpdateInv, UpdateAttaches
  <1> QED
    BY <1>2, <1>3, <1>4, <1>5, <1>6, <1>7
       DEF RestartInv, CountersInv, RunningInv, LoadingInv, AtLoading, KnownInv,
           StartupFailsOnlyTorn, EarlyUpdateAttaches, TypeOK

\* A handler that runs while the file is read caches an update at most.
LEMMA EarlyStep ==
    ASSUME UsersOnlyPay, RestartInv, NEW h \in Peers, EarlyHandle(h),
           torn' = IF database' = NoFile THEN "whole" ELSE torn,
           UNCHANGED <<loadVars, known, crashes>>
    PROVE  RestartInv'
  <1>1. /\ AtLoading /\ blockchain # <<>> /\ Handle(h) /\ Next
        /\ TypeOK /\ SoloInv /\ DataInv /\ toRead \in Seq(Block) /\ database # NoFile
        /\ blockchain \o toRead = Loaded(database) /\ ~miningDone /\ pc[Miner] = "idle"
    BY DEF EarlyHandle, RestartInv, LoadingInv, Next
  <1>2. DataInv' /\ SoloInv'
    BY <1>1, HandleInv, SoloStep
  <1>3. ~Sync(h)
    BY <1>1 DEF SoloInv, SyncLabels, Sync, SyncNothing, SyncBegin, SyncCheck, SyncReplace,
                SyncAppend, SyncStore, SyncReset, SyncRewrite, SyncEnd, At, AtLocked
  <1>4. UNCHANGED <<blockchain, database, miningDone>>
    BY <1>1, <1>3 DEF Handle, HandleNewBlock, HandleSummary, HandleChainError, HandleChain,
           HandleNewBlockResponse, HandleTail, threadVars
  <1>5. pc'[Miner] = "idle"
    BY <1>1, HandleMoves, ThreadFacts
  <1>6. torn' = torn /\ loading' = TRUE /\ UNCHANGED <<toRead, known, crashes>>
    BY <1>1, <1>4 DEF loadVars, AtLoading, RestartInv, CountersInv
  <1>7. Loaded(database)' = Loaded(database)
    BY <1>4, <1>6 DEF Loaded, TornBlock
  <1>8. outcome' # "invalid_chain" /\ UpdateAttaches' /\ CountersInv'
    BY <1>2, <1>6 DEF DataInv, TypeOK, Outcomes, UpdateInv, UpdateAttaches, RestartInv,
                      CountersInv
  <1>9. LoadingInv'
    BY <1>1, <1>2, <1>4, <1>5, <1>6, <1>7 DEF LoadingInv, DataInv
  <1>10. StoredInv' /\ RunningInv' /\ KnownInv'
    BY <1>4, <1>6 DEF RestartInv, StoredInv, RunningInv, KnownInv, Running
  <1> QED
    BY <1>8, <1>9, <1>10 DEF RestartInv, StartupFailsOnlyTorn, EarlyUpdateAttaches

\* Whatever a crash leaves of a write, the file holds a chain that the node had, or
\* the beginning of one.
LEMMA CrashStep ==
    ASSUME RestartInv, Crash
    PROVE  RestartInv'
  <1>1. /\ outcome = "running" /\ outcome' = "crashed" /\ crashes' = crashes + 1
        /\ loading' = FALSE
        /\ UNCHANGED <<blockchain, txQueue, tempchain, position, pc, minted, posted, newblocks>>
    BY DEF Crash, threadVars
  <1>2. ~Running' /\ ~AtLoading' /\ CountersInv' /\ StartupFailsOnlyTorn' /\ EarlyUpdateAttaches'
    <2>1. ~Running' /\ ~AtLoading' /\ StartupFailsOnlyTorn'
      BY <1>1 DEF Running, AtLoading, StartupFailsOnlyTorn
    <2>2. CountersInv'
      <3>1. loading' \in BOOLEAN
        BY <1>1
      <3>2. /\ minted' \in Nat /\ newblocks' \in Nat /\ posted' \subseteq Txs
        BY <1>1 DEF RestartInv, CountersInv
      <3>3. crashes' \in Nat
        BY <1>1 DEF RestartInv, CountersInv
      <3> QED
        BY <3>1, <3>2, <3>3 DEF CountersInv
    <2>3. EarlyUpdateAttaches'
      BY <1>1 DEF RestartInv, EarlyUpdateAttaches, UpdateAttaches
    <2> QED
      BY <2>1, <2>2, <2>3
  <1>3. ASSUME StoredInv', KnownInv'
        PROVE  RestartInv'
    BY <1>2, <1>3 DEF RestartInv, RunningInv, LoadingInv
  <1>4. CASE loading
    <2>1. SoloInv /\ ~miningDone /\ pc[Miner] = "idle"
      BY <1>1, <1>4 DEF RestartInv, LoadingInv, AtLoading
    <2>2. \A t \in Threads : Writing(t) = <<>>
      BY <2>1 DEF SoloInv, Threads, Writing
    <2>3. UNCHANGED <<database, torn, known>>
      BY <1>4, <2>2 DEF Crash
    <2> QED
      BY <1>2, <1>3, <2>3 DEF RestartInv, StoredInv, KnownInv
  <1>5. CASE ~loading
    <2>1. /\ Running /\ DataInv /\ SoloInv /\ (torn = "whole" => FileInv)
          /\ torn \in {"whole", "first"}
      BY <1>1, <1>5 DEF RestartInv, RunningInv, StoredInv, Running, IInv
    <2>2. known' = IF \/ database' = NoFile \/ torn' # "whole"
                      \/ \E t \in Threads : pc[t] \in {"replace", "reset"}
                   THEN {} ELSE {SubSeq(blockchain, 1, n) : n \in 1..Len(blockchain)}
      BY <1>5 DEF Crash
    <2>3. blockchain \in Seq(Block) /\ tempchain \in Seq(Block)
          /\ database \in Seq(Block) \cup {NoFile}
      BY <2>1 DEF DataInv, TypeOK
    <2>4. ASSUME NEW m \in 0..Len(blockchain), database' = SubSeq(blockchain, 1, m),
                 torn' \in {"whole", "first", "later"}
          PROVE  StoredInv' /\ KnownInv'
      <3>1. database' \in Seq(Block) /\ database' # NoFile
        BY <2>3, <2>4, MinerAppAssumption
      <3>2. database' = <<>> \/ HonestChain(database')
        BY <2>1, <2>4, PartHonest DEF DataInv
      <3>3. m = 0 => database' = <<>>
        BY <2>3, <2>4
      <3>4. known' # {} => torn' = "whole" /\ database' \in known' \cup {<<>>}
        <4>1. m = 0 \/ m \in 1..Len(blockchain)
          BY <2>3
        <4> QED
          BY <2>2, <2>4, <3>3, <4>1
      <3>5. KnownInv'
        BY <1>2, <3>1, <3>4 DEF KnownInv
      <3> QED
        BY <1>2, <2>4, <3>1, <3>2, <3>5 DEF StoredInv
    <2>5. CASE UNCHANGED <<database, torn>>
      <3>1. StoredInv'
        BY <1>2, <2>5 DEF RestartInv, StoredInv
      <3>2. KnownInv'
        <4>1. CASE known' = {}
          BY <1>2, <4>1 DEF KnownInv
        <4>2. CASE known' # {}
          <5>1. torn = "whole" /\ database # NoFile /\ \A t \in Threads : pc[t] \notin {"replace", "reset"}
            BY <2>2, <2>5, <4>2
          <5>2. PICK m \in 0..Len(blockchain) : database = SubSeq(blockchain, 1, m)
            BY <2>1, <5>1, FileIsPrefix
          <5> QED
            BY <2>1, <2>4, <2>5, <5>2
        <4> QED
          BY <4>1, <4>2
      <3> QED
        BY <1>3, <3>1, <3>2
    <2>6. CASE \E t \in Threads : \E n \in 0..Len(Writing(t)) :
            /\ Writing(t) # <<>>
            /\ database' = Written(database, SubSeq(Writing(t), 1, n))
            /\ torn' \in IF torn # "whole" \/ n = Len(Writing(t)) THEN {torn}
                         ELSE {torn, IF database' = <<>> THEN "first" ELSE "later"}
      <3> PICK t \in Threads : \E n \in 0..Len(Writing(t)) :
            /\ Writing(t) # <<>>
            /\ database' = Written(database, SubSeq(Writing(t), 1, n))
            /\ torn' \in IF torn # "whole" \/ n = Len(Writing(t)) THEN {torn}
                         ELSE {torn, IF database' = <<>> THEN "first" ELSE "later"}
        BY <2>6
      <3>1. PICK n \in 0..Len(Writing(t)) :
            /\ Writing(t) # <<>>
            /\ database' = Written(database, SubSeq(Writing(t), 1, n))
            /\ torn' \in IF torn # "whole" \/ n = Len(Writing(t)) THEN {torn}
                         ELSE {torn, IF database' = <<>> THEN "first" ELSE "later"}
        OBVIOUS
      <3>2. torn' \in {"whole", "first", "later"} /\ (torn = "first" => torn' = "first")
        BY <2>1, <3>1
      <3>3. CASE torn = "whole"
        <4>1. \E m \in 0..Len(blockchain) : database' = SubSeq(blockchain, 1, m)
          BY <2>1, <3>1, <3>3, WritingCompletes
        <4> QED
          BY <1>3, <2>4, <3>2, <4>1
      <3>4. CASE torn = "first"
        <4>1. Writing(t) \in Seq(Block)
          <5>1. pc[t] = "write" => t = Miner
            BY <2>1 DEF SoloInv, Threads, SyncLabels
          <5>2. pc[Miner] = "write" => <<newblock>> \in Seq(Block)
            BY <2>1 DEF DataInv, BlockInv
          <5>3. pc[t] = "store" => <<tempchain[position - 1]>> \in Seq(Block)
            <6>1. pc[t] = "store" => tempchain[position - 1] \in Block
              BY <2>1, StoredBlock DEF DataInv
            <6> QED
              BY <6>1
          <5> QED
            BY <2>3, <3>1, <5>1, <5>2, <5>3 DEF Writing
        <4>2. SubSeq(Writing(t), 1, n) \in Seq(Block)
          BY <4>1
        <4>3. database' \in Seq(Block)
          BY <2>3, <3>1, <4>2 DEF Written
        <4>4. database' # NoFile /\ torn' = "first" /\ known' = {}
          BY <2>2, <3>2, <3>4, <4>3, MinerAppAssumption
        <4> QED
          BY <1>2, <1>3, <4>3, <4>4 DEF StoredInv, KnownInv
      <3> QED
        BY <2>1, <3>3, <3>4
    <2> QED
      BY <2>5, <2>6 DEF Crash
  <1> QED
    BY <1>4, <1>5 DEF RestartInv, CountersInv

\* A restart reads what the file holds, or a genesis block of its own.
LEMMA RestartStep ==
    ASSUME RestartInv, Restart
    PROVE  RestartInv'
  <1>1. /\ outcome' = "running" /\ loading' = TRUE /\ toRead' = Loaded(database')
        /\ database' = IF database = NoFile THEN <<GenesisBlock(-1 - crashes)>> ELSE database
        /\ blockchain' = <<>> /\ txQueue' = <<>> /\ tempchain' = <<>> /\ position' = 0
        /\ miningDone' = FALSE /\ done' = FALSE /\ keepTrying' = TRUE /\ joinable' = FALSE
        /\ chainMutex' = Nobody /\ pc' = [t \in Threads |-> "idle"] /\ newblock' = NoBlock
        /\ asked' = [h \in Peers |-> <<SummaryRequest>>]
        /\ UNCHANGED <<minted, posted, newblocks, torn, known, crashes>>
    BY DEF Restart
  <1>2. StoredInv /\ KnownInv /\ CountersInv /\ crashes \in Nat
    BY DEF RestartInv, CountersInv
  <1>3. HonestChain(<<GenesisBlock(-1 - crashes)>>) /\ HonestChain(<<TornBlock>>)
    BY <1>2, GenesisHonest
  <1>4. /\ <<GenesisBlock(-1 - crashes)>> \in Seq(Block) /\ <<TornBlock>> \in Seq(Block)
        /\ NoFile \notin Seq(Block)
    BY <1>3, HonestBack, MinerAppAssumption
  <1>5. StoredInv' /\ database' # NoFile /\ database' \in Seq(Block)
    <2>1. CASE database = NoFile
      <3>1. torn = "whole"
        BY <1>2, <2>1 DEF StoredInv
      <3> QED
        BY <1>1, <1>3, <1>4, <2>1, <3>1 DEF StoredInv
    <2>2. CASE database # NoFile
      <3>1. database' = database /\ torn' = torn /\ ~Running'
        BY <1>1, <2>2 DEF Running
      <3> QED
        BY <1>2, <2>2, <3>1 DEF StoredInv
    <2> QED
      BY <2>1, <2>2
  <1>6. KnownInv'
    <2>1. known # {} => database' = database
      BY <1>1, <1>2 DEF KnownInv
    <2>2. ~Running'
      BY <1>1 DEF Running
    <2> QED
      BY <1>1, <1>2, <2>1, <2>2 DEF KnownInv
  <1>7. CountersInv'
    <2>1. loading' \in BOOLEAN
      BY <1>1
    <2> QED
      BY <1>1, <1>2, <2>1 DEF CountersInv
  <1>8. LoadingInv'
    <2>1. TypeOK'
      <3>1. <<>> \in Seq(Block) /\ <<>> \in Seq(Txs)
        OBVIOUS
      <3>2. asked' \in [Peers -> Seq(Request)]
        <4>1. SummaryRequest \in Request
          BY DEF SummaryRequest, Request
        <4>2. <<SummaryRequest>> \in Seq(Request)
          BY <4>1
        <4> QED
          BY <1>1, <4>2
      <3>3. pc' \in [Threads -> Labels]
        BY <1>1 DEF Labels
      <3>4. /\ miningDone' \in BOOLEAN /\ done' \in BOOLEAN /\ keepTrying' \in BOOLEAN
            /\ joinable' \in BOOLEAN
        BY <1>1
      <3> QED
        BY <1>1, <1>5, <1>7, <3>1, <3>2, <3>3, <3>4 DEF TypeOK, CountersInv, Outcomes
    <2>2. SoloInv' /\ pc'[Miner] = "idle"
      BY <1>1, ThreadFacts DEF SoloInv
    <2>3. MutexInv'
      BY <1>1, ThreadFacts DEF MutexInv, PositionAt, InSync, SyncLabels
    <2>4. BlockInv'
      BY <2>2 DEF BlockInv
    <2>5. toRead' \in Seq(Block) /\ blockchain' \o toRead' = Loaded(database)'
      <3>1. Loaded(database)' \in Seq(Block) /\ toRead' = Loaded(database)'
        BY <1>1, <1>4, <1>5 DEF Loaded, TornBlock
      <3> QED
        BY <1>1, <3>1
    <2> QED
      BY <1>1, <1>5, <2>1, <2>2, <2>3, <2>4, <2>5 DEF LoadingInv
  <1> QED
    BY <1>1, <1>5, <1>6, <1>7, <1>8
       DEF RestartInv, RunningInv, Running, StartupFailsOnlyTorn, EarlyUpdateAttaches

\* A first element moved from the second to the first part of a sequence.
LEMMA MovedHead ==
    ASSUME NEW S, NEW s \in Seq(S), NEW u \in Seq(S), u # <<>>,
           NEW a, a = Append(s, Head(u)), NEW f, f = s \o u
    PROVE  /\ a \in Seq(S) /\ Tail(u) \in Seq(S) /\ a # <<>> /\ f # <<>>
           /\ a \o Tail(u) = f
           /\ Len(a) = Len(s) + 1
           /\ \A i \in 1..Len(s) : a[i] = s[i]
           /\ Len(a) \in 1..Len(f)
           /\ a = SubSeq(f, 1, Len(a))
  <1>1. Head(u) \in S /\ Tail(u) \in Seq(S) /\ Len(Tail(u)) = Len(u) - 1 /\ Len(u) >= 1
        /\ Head(u) = u[1] /\ \A i \in 1..Len(Tail(u)) : Tail(u)[i] = u[i + 1]
    OBVIOUS
  <1>2. /\ a \in Seq(S) /\ Len(a) = Len(s) + 1 /\ \A i \in 1..Len(s) : a[i] = s[i]
        /\ a[Len(a)] = Head(u)
    BY <1>1
  <1>3. /\ f \in Seq(S) /\ Len(f) = Len(s) + Len(u)
        /\ \A i \in 1..Len(f) : f[i] = IF i <= Len(s) THEN s[i] ELSE u[i - Len(s)]
    OBVIOUS
  <1>4. Len(a) \in 1..Len(f) /\ f # <<>> /\ a # <<>>
    BY <1>1, <1>2, <1>3
  <1>5. a \o Tail(u) = f
    <2> DEFINE g == a \o Tail(u)
    <2>1. /\ g \in Seq(S) /\ Len(g) = Len(f)
          /\ \A i \in 1..Len(g) : g[i] = IF i <= Len(a) THEN a[i] ELSE Tail(u)[i - Len(a)]
      BY <1>1, <1>2, <1>3
    <2> HIDE DEF g
    <2>2. \A i \in 1..Len(g) : g[i] = f[i]
      BY <1>1, <1>2, <1>3, <2>1
    <2> QED
      BY <1>3, <2>1, <2>2 DEF g
  <1>6. a = SubSeq(f, 1, Len(a))
    <2> DEFINE g == SubSeq(f, 1, Len(a))
    <2>1. g \in Seq(S) /\ Len(g) = Len(a) /\ \A i \in 1..Len(g) : g[i] = f[i]
      BY <1>2, <1>3, <1>4
    <2> HIDE DEF g
    <2>2. \A i \in 1..Len(g) : g[i] = a[i]
      BY <1>1, <1>2, <1>3, <2>1
    <2> QED
      BY <1>2, <2>1, <2>2 DEF g
  <1> QED
    BY <1>1, <1>2, <1>4, <1>5, <1>6

\* What has been read of a chain is a chain.
LEMMA ReadStep ==
    ASSUME RestartInv, ReadBlock
    PROVE  RestartInv'
  <1>1. /\ AtLoading /\ toRead # <<>>
        /\ blockchain' = Append(blockchain, Head(toRead)) /\ toRead' = Tail(toRead)
        /\ UNCHANGED <<txQueue, tempchain, position, database, threadVars, chainMutex, pc,
                       asked, posted, newblocks, outcome, torn, loading, known, crashes>>
    BY DEF ReadBlock
  <1>2. /\ TypeOK /\ SoloInv /\ MutexInv /\ BlockInv /\ toRead \in Seq(Block)
        /\ database # NoFile /\ blockchain \o toRead = Loaded(database)
        /\ (IF blockchain = <<>> THEN tempchain = <<>> ELSE DataInv)
        /\ ~miningDone /\ pc[Miner] = "idle"
    BY <1>1 DEF RestartInv, LoadingInv
  <1> DEFINE file == Loaded(database)
             n == Len(blockchain')
  <1>3. blockchain \in Seq(Block) /\ toRead \in Seq(Block) /\ toRead # <<>>
        /\ file = blockchain \o toRead
        /\ blockchain' = Append(blockchain, Head(toRead)) /\ toRead' = Tail(toRead)
    BY <1>1, <1>2 DEF TypeOK
  <1> HIDE DEF file
  <1>4. /\ blockchain' \in Seq(Block) /\ toRead' \in Seq(Block) /\ blockchain' # <<>>
        /\ blockchain' \o toRead' = file
        /\ n \in 1..Len(file) /\ blockchain' = SubSeq(file, 1, n)
        /\ \A i \in 1..Len(blockchain) : blockchain'[i] = blockchain[i]
        /\ Len(blockchain') = Len(blockchain) + 1 /\ file # <<>>
    BY <1>3, MovedHead
  <1>5. HonestChain(file)
    BY <1>2, <1>4, LoadedHonest DEF RestartInv, file
  <1> HIDE DEF n
  <1>6. ChainInv'
    BY <1>4, <1>5, PrefixHonest DEF ChainInv
  <1>7. UpdateInv'
    <2> SUFFICES ASSUME tempchain' # <<>>
                 PROVE  IsSegment(tempchain') /\ UpdateAttaches'
      BY DEF UpdateInv
    <2>1. tempchain' = tempchain /\ DataInv
      BY <1>1, <1>2
    <2>2. IsSegment(tempchain)
          /\ (StartsAtGenesis(tempchain) \/ LinksToChain(blockchain, tempchain))
      BY <2>1 DEF DataInv, UpdateInv, UpdateAttaches
    <2>3. LinksToChain(blockchain, tempchain) => LinksToChain(blockchain', tempchain)
      BY <1>3, <1>4 DEF LinksToChain
    <2> QED
      BY <2>1, <2>2, <2>3 DEF UpdateAttaches
  <1>8. TypeOK' /\ SoloInv' /\ MutexInv' /\ BlockInv'
    BY <1>1, <1>2, <1>4 DEF TypeOK, SoloInv, MutexInv, PositionAt, BlockInv, threadVars
  <1>9. Loaded(database)' = file
    BY <1>1 DEF file, Loaded, TornBlock
  <1>10. LoadingInv'
    BY <1>1, <1>2, <1>4, <1>6, <1>7, <1>8, <1>9 DEF LoadingInv, DataInv, threadVars
  <1>11. StoredInv' /\ KnownInv' /\ CountersInv' /\ RunningInv'
    BY <1>1 DEF RestartInv, StoredInv, KnownInv, CountersInv, RunningInv, Running, AtLoading,
                threadVars
  <1>12. StartupFailsOnlyTorn' /\ EarlyUpdateAttaches'
    BY <1>1, <1>7 DEF AtLoading, StartupFailsOnlyTorn, EarlyUpdateAttaches, UpdateInv,
                      UpdateAttaches
  <1> QED
    BY <1>10, <1>11, <1>12 DEF RestartInv

\* When all of the file is read, the chain is what was in it.
LEMMA AllRead ==
    ASSUME RestartInv, AtLoading, toRead = <<>>
    PROVE  /\ blockchain = Loaded(database)
           /\ database # NoFile
           /\ blockchain = <<>> \/ HonestChain(blockchain)
  <1>1. /\ blockchain \in Seq(Block) /\ blockchain \o toRead = Loaded(database)
        /\ database # NoFile
    BY DEF RestartInv, LoadingInv, TypeOK
  <1>2. blockchain = Loaded(database)
    BY <1>1
  <1> QED
    BY <1>1, <1>2, LoadedHonest DEF RestartInv

\* A start that fails, or ends in undefined behaviour, changes nothing.
LEMMA FailStep ==
    ASSUME RestartInv, LoadFails \/ \E h \in Peers : EarlyMessage(h)
    PROVE  RestartInv'
  <1>1. /\ AtLoading /\ outcome' \in {"invalid_chain", "undefined"}
        /\ UNCHANGED <<blockchain, txQueue, tempchain, position, database, threadVars,
                       chainMutex, pc, asked, posted, newblocks, torn, loadVars,
                       known, crashes>>
    BY DEF LoadFails, EarlyMessage
  <1>2. outcome' = "invalid_chain" => torn # "whole" \/ database = <<>>
    <2> SUFFICES ASSUME outcome' = "invalid_chain", torn = "whole"
                 PROVE  database = <<>>
      OBVIOUS
    <2>1. toRead = <<>> /\ (blockchain = <<>> \/ ~IsValidChain(blockchain))
      BY DEF LoadFails, EarlyMessage
    <2>2. blockchain = database
      BY <1>1, <2>1, AllRead DEF Loaded
    <2> QED
      BY <1>1, <2>1, <2>2, AllRead, HonestValid
  <1>3. loading /\ loading'
    BY <1>1 DEF AtLoading, loadVars
  <1> QED
    BY <1>1, <1>2, <1>3
       DEF RestartInv, StoredInv, KnownInv, CountersInv, RunningInv, LoadingInv, Running,
           AtLoading, StartupFailsOnlyTorn, EarlyUpdateAttaches, UpdateAttaches, threadVars,
           loadVars

\* The node starts with the chain in its file, and MinerApp's invariant holds.
LEMMA DoneStep ==
    ASSUME RestartInv, LoadDone
    PROVE  RestartInv'
  <1>1. /\ AtLoading /\ toRead = <<>> /\ torn # "later" /\ blockchain # <<>>
        /\ loading' = FALSE /\ known' = {}
        /\ miningDone' = ~AutoStart /\ joinable' = AutoStart
        /\ Goto(Miner, IF AutoStart THEN "top" ELSE "idle")
        /\ UNCHANGED <<blockchain, txQueue, tempchain, position, database, done, keepTrying,
                       newblock, minted, chainMutex, asked, posted, newblocks,
                       outcome, torn, toRead, crashes>>
    BY DEF LoadDone, Goto
  <1>2. /\ TypeOK /\ SoloInv /\ MutexInv /\ DataInv /\ ~miningDone /\ pc[Miner] = "idle"
        /\ ChainInv /\ UpdateInv /\ StoredInv /\ CountersInv
    BY <1>1 DEF RestartInv, LoadingInv, DataInv
  <1>3. /\ pc' \in [Threads -> Labels] /\ pc'[Miner] = IF AutoStart THEN "top" ELSE "idle"
        /\ \A s \in Threads : s # Miner => pc'[s] = pc[s]
    BY <1>1, <1>2, ThreadFacts DEF Goto, TypeOK, Labels
  <1>4. \A s \in Threads : pc[s] \in {"idle", "tail"}
    BY <1>2 DEF SoloInv, Threads
  <1>5. chainMutex = Nobody /\ \A s \in Threads : pc'[s] \notin InSync /\ pc'[s] # "write"
    BY <1>2, <1>3, <1>4, ThreadFacts DEF MutexInv, TypeOK, InSync, SyncLabels
  <1>6. DataInv'
    <2>1. TypeOK'
      <3>1. miningDone' \in BOOLEAN /\ joinable' \in BOOLEAN
        BY <1>1, MinerAppAssumption
      <3> QED
        BY <1>1, <1>2, <1>3, <3>1 DEF TypeOK
    <2>2. ChainInv' /\ UpdateInv'
      BY <1>1, <1>2, ChainKept
    <2>3. MutexInv'
      <3>1. \A s \in Threads : PositionAt(pc[s])'
        BY <1>5 DEF InSync, SyncLabels, PositionAt
      <3> QED
        BY <1>1, <1>2, <1>5, <3>1, ThreadFacts DEF MutexInv
    <2>4. BlockInv'
      BY <1>3 DEF BlockInv
    <2> QED
      BY <2>1, <2>2, <2>3, <2>4 DEF DataInv
  <1>7. JoinInv'
    BY <1>1, <1>3 DEF JoinInv
  <1>8. SoloInv'
    BY <1>1, <1>2, <1>3, ThreadFacts DEF SoloInv
  <1>12. LoopInv'
    <2>1. position' = 0 /\ \A s \in Threads : pc'[s] # "check"
      BY <1>1, <1>2, <1>5 DEF MutexInv, InSync, SyncLabels
    <2> QED
      BY <2>1 DEF LoopInv
  <1>9. torn' = "whole" => FileInv'
    <2> SUFFICES ASSUME torn = "whole"
                 PROVE  FileInv'
      BY <1>1
    <2>1. database' = blockchain'
      BY <1>1, AllRead DEF Loaded
    <2> QED
      BY <1>5, <2>1, ThreadFacts DEF FileInv, InSync, SyncLabels
  <1>10. StoredInv' /\ CountersInv'
    <2>1. loading' \in BOOLEAN
      BY <1>1
    <2> QED
      BY <1>1, <1>2, <2>1 DEF StoredInv, CountersInv
  <1>11. outcome' = "running" /\ UpdateAttaches'
    BY <1>1, <1>6 DEF AtLoading, DataInv, UpdateInv, UpdateAttaches
  <1> QED
    BY <1>1, <1>6, <1>7, <1>8, <1>9, <1>10, <1>11, <1>12
       DEF RestartInv, RunningInv, LoadingInv, AtLoading, KnownInv, IInv,
           StartupFailsOnlyTorn, EarlyUpdateAttaches

-----------------------------------------------------------------------------
(* All of the restarts. *)

\* Every step keeps the invariant.
LEMMA RestartNextStep ==
    ASSUME UsersOnlyPay, RestartInv, RestartNext
    PROVE  RestartInv'
  <1>1. CASE /\ (~loading /\ Next) \/ (\E h \in Peers : EarlyHandle(h))
             /\ torn' = IF database' = NoFile THEN "whole" ELSE torn
             /\ UNCHANGED <<loadVars, known, crashes>>
    BY <1>1, RunStep, EarlyStep
  <1>2. CASE Crash \/ Restart \/ ReadBlock \/ LoadDone
    BY <1>2, CrashStep, RestartStep, ReadStep, DoneStep
  <1>3. CASE LoadFails \/ \E h \in Peers : EarlyMessage(h)
    BY <1>3, FailStep
  <1> QED
    BY <1>1, <1>2, <1>3 DEF RestartNext

\* So does a step that changes nothing.
LEMMA RestartStutter ==
    ASSUME RestartInv, UNCHANGED restartVars
    PROVE  RestartInv'
  <1>1. /\ UNCHANGED vars /\ UNCHANGED <<torn, loading, toRead, known, crashes>>
    BY DEF restartVars, loadVars
  <1>2. CountersInv' /\ StoredInv' /\ KnownInv' /\ StartupFailsOnlyTorn' /\ EarlyUpdateAttaches'
    BY <1>1 DEF RestartInv, CountersInv, StoredInv, KnownInv, Running, StartupFailsOnlyTorn,
                EarlyUpdateAttaches, UpdateAttaches, vars
  <1>3. RunningInv'
    <2>1. Running' => Running
      BY <1>1 DEF Running, vars
    <2>2. IInv => IInv'
      BY <1>1, StutterInv
    <2>3. /\ (SoloInv => SoloInv') /\ (FileInv => FileInv') /\ (LoopInv => LoopInv')
          /\ torn' = torn
      BY <1>1 DEF SoloInv, FileInv, LoopInv, Extends, vars
    <2> QED
      BY <2>1, <2>2, <2>3 DEF RestartInv, RunningInv
  <1>4. LoadingInv'
    <2>1. DataInv => DataInv'
      BY <1>1 DEF DataInv, TypeOK, ChainInv, UpdateInv, UpdateAttaches, MutexInv, PositionAt,
                  BlockInv, vars
    <2> QED
      BY <1>1, <2>1 DEF RestartInv, LoadingInv, AtLoading, Loaded, TornBlock, vars,
                        TypeOK, SoloInv, MutexInv, PositionAt, BlockInv
  <1> QED
    BY <1>2, <1>3, <1>4 DEF RestartInv

\* The inductive invariant of a node that crashes and starts again, any number of
\* times and anywhere, for users who only pay.
THEOREM RestartInvariant == UsersOnlyPay => (RestartSpec => []RestartInv)
  <1> SUFFICES ASSUME UsersOnlyPay
               PROVE  RestartSpec => []RestartInv
    OBVIOUS
  <1>1. RestartInit => RestartInv
    <2> SUFFICES ASSUME RestartInit PROVE RestartInv
      OBVIOUS
    <2>1. /\ IInv /\ DataInv /\ TypeOK
          /\ loading = FALSE /\ torn = "whole" /\ crashes = 0 /\ known = {}
      BY InvInit DEF RestartInit, IInv, DataInv
    <2>2. SoloInv
      BY ThreadFacts DEF RestartInit, Init, SoloInv
    <2>3. \A t \in Threads : pc[t] \in {"idle", "top"}
      BY DEF RestartInit, Init
    <2>4. FileInv
      BY <2>3, ThreadFacts DEF RestartInit, Init, FileInv
    <2>5. CountersInv
      <3>1. loading \in BOOLEAN
        BY <2>1
      <3> QED
        BY <2>1, <3>1 DEF CountersInv, TypeOK
    <2>6. StoredInv
      BY <2>1, ChainsAssumption DEF StoredInv, TypeOK, RestartInit, Init
    <2>7. outcome = "running" /\ UpdateAttaches
      BY <2>1 DEF RestartInit, Init, DataInv, UpdateInv, UpdateAttaches
    <2>8. LoopInv
      BY <2>3 DEF RestartInit, Init, LoopInv
    <2> QED
      BY <2>1, <2>2, <2>4, <2>5, <2>6, <2>7, <2>8
         DEF RestartInv, RunningInv, LoadingInv, AtLoading, KnownInv, StartupFailsOnlyTorn,
             EarlyUpdateAttaches
  <1>2. RestartInv /\ [RestartNext]_restartVars => RestartInv'
    BY RestartNextStep, RestartStutter
  <1> QED
    BY <1>1, <1>2, PTL DEF RestartSpec

\* A start fails only for what a crash did to the last write, whatever updates,
\* crashes and restarts came before.
THEOREM FailsOnlyTorn == UsersOnlyPay => (RestartSpec => []StartupFailsOnlyTorn)
  <1> SUFFICES ASSUME UsersOnlyPay
               PROVE  RestartSpec => []StartupFailsOnlyTorn
    OBVIOUS
  <1>1. RestartInv => StartupFailsOnlyTorn
    BY DEF RestartInv
  <1> QED
    BY <1>1, RestartInvariant, PTL

\* An update that a handler cached while the file was being read attaches to the
\* chain that the node starts with.
THEOREM EarlyAttaches == UsersOnlyPay => (RestartSpec => []EarlyUpdateAttaches)
  <1> SUFFICES ASSUME UsersOnlyPay
               PROVE  RestartSpec => []EarlyUpdateAttaches
    OBVIOUS
  <1>1. RestartInv => EarlyUpdateAttaches
    BY DEF RestartInv
  <1> QED
    BY <1>1, RestartInvariant, PTL

\* The node resumes with a beginning of the chain that it had before the crash.
THEOREM ResumesChain == UsersOnlyPay => (RestartSpec => ResumesOwnChain)
  <1> SUFFICES ASSUME UsersOnlyPay
               PROVE  RestartSpec => ResumesOwnChain
    OBVIOUS
  <1>1. ASSUME RestartInv, RestartNext, AtLoading, ~loading', outcome' = "running", known # {}
        PROVE  blockchain' \in known
    <2>1. LoadDone
      <3>1. loading /\ outcome = "running"
        BY <1>1 DEF AtLoading
      <3>2. ~Crash /\ ~Restart
        BY <1>1, <3>1 DEF Crash, Restart
      <3> QED
        BY <1>1, <3>1, <3>2 DEF RestartNext, EarlyHandle, ReadBlock, LoadFails, EarlyMessage,
                                loadVars
    <2>2. toRead = <<>> /\ blockchain # <<>> /\ blockchain' = blockchain
      BY <2>1 DEF LoadDone
    <2>3. torn = "whole" /\ database \in known \cup {<<>>}
      BY <1>1 DEF RestartInv, KnownInv
    <2>4. blockchain = database
      BY <1>1, <2>2, <2>3, AllRead DEF Loaded
    <2> QED
      BY <2>2, <2>3, <2>4
  <1>2. RestartInv /\ [RestartNext]_restartVars =>
            [AtLoading /\ ~loading' /\ outcome' = "running" /\ known # {} =>
                 blockchain' \in known]_restartVars
    BY <1>1
  <1> QED
    BY <1>2, RestartInvariant, PTL DEF RestartSpec, ResumesOwnChain
=============================================================================
