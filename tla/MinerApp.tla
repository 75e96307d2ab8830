------------------------------ MODULE MinerApp ------------------------------
(***************************************************************************)
(* One node (src/MinerApp.cpp, src/Miner.h), at the level of its threads:   *)
(* the mining thread, one thread per peer that runs the message handlers,   *)
(* the HTTP thread that runs the REST calls, and the main thread.  The rest  *)
(* of the network is an environment: peer h answers from any of the chains   *)
(* PeerChains[h], and announces new blocks whenever it likes.                *)
(*                                                                         *)
(* A step is what a thread does between two points at which another one may *)
(* be seen: a region under _chainMutex, one method call on the blockchain,   *)
(* one access to the database file.  Chain methods called without the mutex  *)
(* (addNewBlock in the mining thread, the reads of the summary handlers) are *)
(* not guarded by it here either, so syncBlockchain takes one step for each  *)
(* block it adds.                                                           *)
(***************************************************************************)
EXTENDS ChainProtocol

CONSTANTS
    Peers,             \* the connections, each with a thread for its messages
    PeerChains,        \* [Peers -> sets of chains the peer may hold]
    InitChain,         \* the chain that the database holds at startup
    AutoStart,         \* setting mining.autostart
    ChainResetEnable,  \* setting chain.reset.enable
    NDEBUG,            \* TRUE in a build whose assertions are compiled out
    RestCalls,         \* the REST calls that users make
    MaxMinted,         \* bound: blocks mined with nothing else pending
    MaxNewBlocks,      \* bound: newblock requests received
    Miner, Http, Main, Nobody,
    NoBlock, NoFile

ASSUME MinerAppAssumption ==
    /\ Peers \cap {Miner, Http, Main, Nobody} = {}
    /\ Miner # Http /\ Miner # Main /\ Http # Main
    /\ Nobody \notin {Miner, Http, Main}
    /\ AutoStart \in BOOLEAN /\ ChainResetEnable \in BOOLEAN /\ NDEBUG \in BOOLEAN
    /\ RestCalls \subseteq {"startMining", "stopMining", "shutdown", "createtx"}
    /\ MaxMinted \in Nat /\ MaxNewBlocks \in Nat
    /\ NoBlock \notin Block
    /\ NoFile \notin Seq(Block)

ASSUME ChainsAssumption ==
    /\ HonestChain(InitChain)
    /\ \A h \in Peers : \A chain \in PeerChains[h] : HonestChain(chain)

VARIABLES
    blockchain,   \* _blockchain: the blocks of the local chain
    txQueue,      \* its _txQueue
    tempchain,    \* _tempchain, <<>> for null
    position,     \* which of its blocks syncBlockchain's loop is at, 0 before the loop
    database,     \* the blocks in chain.ashdb, or NoFile
    miningDone,   \* _miningDone
    done,         \* _done
    keepTrying,   \* Miner::_keepTrying
    joinable,     \* _mineThread.joinable()
    chainMutex,   \* the thread inside a region of several steps, or Nobody
    pc,           \* what each thread does next
    newblock,     \* the mining thread's local block
    asked,        \* per peer, the requests it has still to answer, in order
    minted,       \* number of blocks mined, which also names them
    posted,       \* the payments accepted by createtx
    newblocks,    \* number of newblock requests received
    outcome       \* "running", or how the process ended

threadVars == <<miningDone, done, keepTrying, joinable, newblock, minted>>
vars == <<blockchain, txQueue, tempchain, position, database, miningDone, done, keepTrying,
          joinable, chainMutex, pc, newblock, asked, minted, posted, newblocks,
          outcome>>

Threads == Peers \cup {Miner, Http, Main}

SyncLabels == {"sync", "check", "replace", "append", "store", "reset", "rewrite", "unlock"}
Labels == {"idle", "top", "create", "begin", "mining", "requeue", "add", "write",
           "broadcast", "tail", "joining", "stopping", "closing"} \cup SyncLabels

\* The steps of syncBlockchain that hold the mutex from one step to the next.
InSync == SyncLabels \ {"sync"}

Outcomes == {"running", "exited", "assert", "no_blocks", "terminate", "length_error"}

Goto(t, label) == pc' = [pc EXCEPT ![t] = label]

\* The thread's next step, and the mutex is free for it when it needs it.
At(t, label) == outcome = "running" /\ pc[t] = label
AtLocked(t, label) == At(t, label) /\ chainMutex = Nobody

(***************************************************************************)
(* run(), once the database has been read and the threads are started.      *)
(* Every peer has been sent a summary request by the connect callback.       *)
(***************************************************************************)
Init ==
    /\ blockchain = InitChain
    /\ txQueue = <<>>
    /\ tempchain = <<>>
    /\ position = 0
    /\ database = InitChain
    /\ miningDone = ~AutoStart
    /\ done = FALSE
    /\ keepTrying = TRUE
    /\ joinable = AutoStart
    /\ chainMutex = Nobody
    /\ pc = [t \in Threads |-> IF t = Miner /\ AutoStart THEN "top" ELSE "idle"]
    /\ newblock = NoBlock
    /\ asked = [h \in Peers |-> <<SummaryRequest>>]
    /\ minted = 0
    /\ posted = {}
    /\ newblocks = 0
    /\ outcome = "running"

-----------------------------------------------------------------------------
(* The mining thread: runMineThread and Miner::mineBlock. *)

MutantMineTopMiningDone ==
    /\ At(Miner, "top")
    /\ Goto(Miner, IF miningDone THEN "idle" ELSE "create")
    /\ UNCHANGED <<blockchain, txQueue, tempchain, position, database, threadVars,
                   chainMutex, asked, posted, newblocks, outcome>>

MineTop ==
    /\ At(Miner, "top")
    /\ Goto(Miner, IF miningDone \/ done THEN "idle" ELSE "create")
    /\ UNCHANGED <<blockchain, txQueue, tempchain, position, database, threadVars,
                   chainMutex, asked, posted, newblocks, outcome>>

MutantMineCreateKeepsQueue ==
    /\ AtLocked(Miner, "create")
    /\ \E difficulty \in AdjustedDifficulties(blockchain) :
           newblock' = UnminedBlock(blockchain, txQueue, difficulty)
    /\ Goto(Miner, "begin")
    /\ UNCHANGED <<blockchain, txQueue, tempchain, position, database, miningDone, done,
                   keepTrying, joinable, chainMutex, asked, minted, posted, newblocks,
                   outcome>>

MineCreate ==
    /\ AtLocked(Miner, "create")
    /\ \E difficulty \in AdjustedDifficulties(blockchain) :
           newblock' = UnminedBlock(blockchain, txQueue, difficulty)
    /\ txQueue' = <<>>
    /\ Goto(Miner, "begin")
    /\ UNCHANGED <<blockchain, tempchain, position, database, miningDone, done, keepTrying,
                   joinable, chainMutex, asked, minted, posted, newblocks, outcome>>

MutantMineBeginNoThrow ==
    /\ At(Miner, "begin")
    /\ keepTrying' = TRUE
    /\ Goto(Miner, "mining")
    /\ UNCHANGED <<blockchain, txQueue, tempchain, position, database, miningDone, done,
                   joinable, newblock, minted, chainMutex, asked, posted, newblocks,
                   outcome>>

(***************************************************************************)
(* Up to the loop of mineBlock.  A string of UINT64_MAX zeros is too long,   *)
(* and the exception leaves the thread.  _keepTrying is set whatever it was. *)
(***************************************************************************)
MineBegin ==
    /\ At(Miner, "begin")
    /\ IF newblock.difficulty = UINT64_MAX
       THEN /\ outcome' = "length_error"
            /\ UNCHANGED <<keepTrying, pc>>
       ELSE /\ keepTrying' = TRUE
            /\ Goto(Miner, "mining")
            /\ UNCHANGED outcome
    /\ UNCHANGED <<blockchain, txQueue, tempchain, position, database, miningDone, done,
                   joinable, newblock, minted, chainMutex, asked, posted, newblocks>>

\* The bound on mining: beyond MaxMinted blocks only for a pending update, a
\* pending payment, or a user who waits for mining to stop.
MayMint ==
    \/ minted < MaxMinted
    \/ tempchain # <<>>
    \/ txQueue # <<>>
    \/ newblock.txs # <<>>
    \/ miningDone

MineFound ==
    /\ At(Miner, "mining")
    /\ keepTrying
    /\ MayMint
    /\ newblock' = MinedBlock(newblock, minted + 1)
    /\ minted' = minted + 1
    /\ Goto(Miner, "add")
    /\ UNCHANGED <<blockchain, txQueue, tempchain, position, database, miningDone, done,
                   keepTrying, joinable, chainMutex, asked, posted, newblocks, outcome>>

\* Miner::abort was called.
MineAborted ==
    /\ At(Miner, "mining")
    /\ ~keepTrying
    /\ Goto(Miner, "requeue")
    /\ UNCHANGED <<blockchain, txQueue, tempchain, position, database, threadVars,
                   chainMutex, asked, posted, newblocks, outcome>>

\* keepMiningCallback: the cached update is no shorter than our chain will be.
MineOvertaken ==
    /\ AtLocked(Miner, "mining")
    /\ keepTrying
    /\ tempchain # <<>>
    /\ Back(tempchain).index >= newblock.index
    /\ Goto(Miner, "requeue")
    /\ UNCHANGED <<blockchain, txQueue, tempchain, position, database, threadVars,
                   chainMutex, asked, posted, newblocks, outcome>>

MutantMineRequeueNoSync ==
    /\ AtLocked(Miner, "requeue")
    /\ txQueue' = ReQueueTransactions(txQueue, newblock)
    /\ newblock' = NoBlock
    /\ Goto(Miner, "top")
    /\ UNCHANGED <<blockchain, tempchain, position, database, miningDone, done, keepTrying,
                   joinable, chainMutex, asked, minted, posted, newblocks, outcome>>

MineRequeue ==
    /\ AtLocked(Miner, "requeue")
    /\ txQueue' = ReQueueTransactions(txQueue, newblock)
    /\ newblock' = NoBlock
    /\ Goto(Miner, "sync")
    /\ UNCHANGED <<blockchain, tempchain, position, database, miningDone, done, keepTrying,
                   joinable, chainMutex, asked, minted, posted, newblocks, outcome>>

\* Without the mutex.
MineAdd ==
    /\ At(Miner, "add")
    /\ blockchain' = AddNewBlock(blockchain, newblock)
    /\ IF CanAddBlock(blockchain, newblock)
       THEN Goto(Miner, "write") /\ UNCHANGED <<miningDone, newblock>>
       ELSE Goto(Miner, "idle") /\ miningDone' = TRUE /\ newblock' = NoBlock
    /\ UNCHANGED <<txQueue, tempchain, position, database, done, keepTrying, joinable,
                   chainMutex, asked, minted, posted, newblocks, outcome>>

MutantWrittenOver(file, blocks) == blocks

\* ChainDatabase opens the file to append, and creates it when there is none.
Written(file, blocks) == IF file = NoFile THEN blocks ELSE file \o blocks

\* Without the mutex.
MineWrite ==
    /\ At(Miner, "write")
    /\ database' = Written(database, <<newblock>>)
    /\ Goto(Miner, "sync")
    /\ UNCHANGED <<blockchain, txQueue, tempchain, position, threadVars, chainMutex, asked,
                   posted, newblocks, outcome>>

\* broadcastNewBlock; every peer will answer it.
MineBroadcast ==
    /\ AtLocked(Miner, "broadcast")
    /\ asked' = [h \in Peers |-> Append(asked[h], NewBlockMessage)]
    /\ newblock' = NoBlock
    /\ Goto(Miner, "top")
    /\ UNCHANGED <<blockchain, txQueue, tempchain, position, database, miningDone, done,
                   keepTrying, joinable, chainMutex, minted, posted, newblocks, outcome>>

-----------------------------------------------------------------------------
(* syncBlockchain, called by the mining thread and by the handlers. *)

\* Where a thread goes on from syncBlockchain's result.  The mining thread's
\* block is gone when it called it after an abort.
Return(t, modified) ==
    /\ Goto(t, IF t # Miner THEN "idle"
               ELSE IF newblock = NoBlock \/ modified THEN "top" ELSE "broadcast")
    /\ newblock' = IF t = Miner /\ modified THEN NoBlock ELSE newblock

SyncNothing(t) ==
    /\ AtLocked(t, "sync")
    /\ tempchain = <<>>
    /\ Return(t, FALSE)
    /\ UNCHANGED <<blockchain, txQueue, tempchain, position, database, miningDone, done,
                   keepTrying, joinable, minted, chainMutex, asked, posted, newblocks,
                   outcome>>

(***************************************************************************)
(* The mutex is taken.  A full chain is swapped with the local one: the     *)
(* local blocks and the queue of payments are in the other object from now   *)
(* on.  An update that overlaps the local chain cuts it; of another one only *)
(* that it does not overlap is known so far.                                *)
(***************************************************************************)
SyncBegin(t) ==
    /\ AtLocked(t, "sync")
    /\ tempchain # <<>>
    /\ chainMutex' = t
    /\ IF StartsAtGenesis(tempchain)
       THEN /\ blockchain' = tempchain /\ tempchain' = blockchain /\ txQueue' = <<>>
            /\ Goto(t, "reset")
            /\ UNCHANGED position
       ELSE /\ IF tempchain[1].index <= Back(blockchain).index
               THEN Goto(t, "replace") /\ blockchain' = Resize(blockchain, tempchain[1].index)
               ELSE Goto(t, "check") /\ UNCHANGED blockchain
            /\ position' = 1
            /\ UNCHANGED <<tempchain, txQueue>>
    /\ UNCHANGED <<database, threadVars, asked, posted, newblocks, outcome>>

(***************************************************************************)
(* The local chain's last block is read a second time: a block that the      *)
(* mining thread has added since makes the update "too far ahead", and it is *)
(* dropped.                                                                *)
(***************************************************************************)
SyncCheck(t) ==
    /\ At(t, "check")
    /\ IF Extends(blockchain, tempchain)
       THEN Goto(t, "append") /\ UNCHANGED <<tempchain, position, chainMutex, newblock>>
       ELSE /\ tempchain' = <<>> /\ position' = 0
            /\ chainMutex' = Nobody
            /\ Return(t, FALSE)
    /\ UNCHANGED <<blockchain, txQueue, database, miningDone, done, keepTrying, joinable,
                   minted, asked, posted, newblocks, outcome>>

\* One addNewBlock; the loop goes on after a block that is refused.
SyncReplace(t) ==
    /\ At(t, "replace")
    /\ blockchain' = AddNewBlock(blockchain, tempchain[position])
    /\ position' = position + 1
    /\ Goto(t, IF position = Len(tempchain) THEN "reset" ELSE "replace")
    /\ UNCHANGED <<txQueue, tempchain, database, threadVars, chainMutex, asked, posted,
                   newblocks, outcome>>

SyncAppend(t) ==
    /\ At(t, "append")
    /\ blockchain' = AddNewBlock(blockchain, tempchain[position])
    /\ position' = position + 1
    /\ Goto(t, IF CanAddBlock(blockchain, tempchain[position]) THEN "store"
               ELSE IF position = Len(tempchain) THEN "unlock" ELSE "append")
    /\ UNCHANGED <<txQueue, tempchain, database, threadVars, chainMutex, asked, posted,
                   newblocks, outcome>>

\* The block that addNewBlock took is written to the file.
SyncStore(t) ==
    /\ At(t, "store")
    /\ database' = Written(database, <<tempchain[position - 1]>>)
    /\ Goto(t, IF position > Len(tempchain) THEN "unlock" ELSE "append")
    /\ UNCHANGED <<blockchain, txQueue, tempchain, position, threadVars, chainMutex, asked,
                   posted, newblocks, outcome>>

MutantSyncResetNothing(t) ==
    /\ At(t, "reset")
    /\ Goto(t, "rewrite")
    /\ UNCHANGED <<blockchain, txQueue, tempchain, position, database, threadVars, chainMutex,
                   asked, posted, newblocks, outcome>>

SyncReset(t) ==
    /\ At(t, "reset")
    /\ database' = NoFile
    /\ Goto(t, "rewrite")
    /\ UNCHANGED <<blockchain, txQueue, tempchain, position, threadVars, chainMutex, asked,
                   posted, newblocks, outcome>>

SyncRewrite(t) ==
    /\ At(t, "rewrite")
    /\ database' = Written(database, blockchain)
    /\ Goto(t, "unlock")
    /\ UNCHANGED <<blockchain, txQueue, tempchain, position, threadVars, chainMutex, asked,
                   posted, newblocks, outcome>>

SyncEnd(t) ==
    /\ At(t, "unlock")
    /\ tempchain' = <<>> /\ position' = 0
    /\ chainMutex' = Nobody
    /\ Return(t, TRUE)
    /\ UNCHANGED <<blockchain, txQueue, database, miningDone, done, keepTrying, joinable,
                   minted, asked, posted, newblocks, outcome>>

Sync(t) ==
    \/ SyncNothing(t)
    \/ SyncBegin(t)
    \/ SyncCheck(t)
    \/ SyncReplace(t)
    \/ SyncAppend(t)
    \/ SyncStore(t)
    \/ SyncReset(t)
    \/ SyncRewrite(t)
    \/ SyncEnd(t)

-----------------------------------------------------------------------------
(* The handlers: dispatchRequest, handleResponse, handleChainResponse. *)

\* The peer announces the last block of a chain of its own.
HandleNewBlock(h) ==
    /\ AtLocked(h, "idle")
    /\ newblocks < MaxNewBlocks
    /\ newblocks' = newblocks + 1
    /\ \E chain \in PeerChains[h] :
           asked' = IF WantsSummary(blockchain, Back(chain), CumDifficulty(chain))
                    THEN [asked EXCEPT ![h] = Append(@, SummaryRequest)]
                    ELSE asked
    /\ UNCHANGED <<blockchain, txQueue, tempchain, position, database, threadVars,
                   chainMutex, pc, posted, outcome>>

\* The peer answers the oldest of our requests.
Answered(h, message) ==
    /\ outcome = "running" /\ pc[h] = "idle"
    /\ asked[h] # <<>>
    /\ Head(asked[h]).message = message

\* Without the mutex.
HandleSummary(h) ==
    /\ Answered(h, "summary")
    /\ \E chain \in PeerChains[h] :
           asked' = [asked EXCEPT ![h] = Tail(@) \o
               SummaryRequests(blockchain, tempchain, ChainResetEnable, SummaryReply(chain))]
    /\ Goto(h, "tail")
    /\ UNCHANGED <<blockchain, txQueue, tempchain, position, database, threadVars,
                   chainMutex, posted, newblocks, outcome>>

\* A response without blocks: the handler uses the missing key all the same.
HandleChainError(h) ==
    /\ Answered(h, "chain")
    /\ \E chain \in PeerChains[h] : ChainReply(chain, Head(asked[h]).ids) = <<>>
    /\ outcome' = "no_blocks"
    /\ UNCHANGED <<blockchain, txQueue, tempchain, position, database, threadVars,
                   chainMutex, pc, asked, posted, newblocks>>

HandleChain(h) ==
    /\ Answered(h, "chain")
    /\ chainMutex = Nobody
    /\ \E chain \in PeerChains[h] :
         LET blocks == ChainReply(chain, Head(asked[h]).ids)
         IN  /\ blocks # <<>>
             /\ IF ~IsValidChain(blocks)
                THEN /\ asked' = [asked EXCEPT ![h] = Tail(@)]
                     /\ UNCHANGED <<tempchain, pc, outcome>>
                ELSE IF ~NDEBUG /\ ~AlignmentAssert(blockchain, blocks)
                THEN /\ outcome' = "assert"
                     /\ UNCHANGED <<tempchain, asked, pc>>
                ELSE /\ tempchain' = Cached(blockchain, tempchain, blocks)
                     /\ asked' = [asked EXCEPT ![h] =
                                     Tail(@) \o ChainRequests(blockchain, blocks)]
                     /\ Goto(h, "tail")
                     /\ UNCHANGED outcome
    /\ UNCHANGED <<blockchain, txQueue, position, database, threadVars, chainMutex, posted,
                   newblocks>>

\* The empty response to a broadcast of ours.
HandleNewBlockResponse(h) ==
    /\ Answered(h, "newblock")
    /\ asked' = [asked EXCEPT ![h] = Tail(@)]
    /\ Goto(h, "tail")
    /\ UNCHANGED <<blockchain, txQueue, tempchain, position, database, threadVars,
                   chainMutex, posted, newblocks, outcome>>

\* The end of handleResponse: with the miner stopped, the handler syncs.
HandleTail(h) ==
    /\ At(h, "tail")
    /\ Goto(h, IF miningDone THEN "sync" ELSE "idle")
    /\ UNCHANGED <<blockchain, txQueue, tempchain, position, database, threadVars,
                   chainMutex, asked, posted, newblocks, outcome>>

-----------------------------------------------------------------------------
(* The REST calls, and the end of the process. *)

\* The HTTP thread takes a call, until the server is stopped.
AtRest(call) == At(Http, "idle") /\ pc[Main] # "closing" /\ call \in RestCalls

\* Assigning to a std::thread that is still joinable ends the process.  (The
\* bound: nobody starts the miner once MaxMinted blocks are mined.)
StartMining ==
    /\ AtRest("startMining")
    /\ minted < MaxMinted
    /\ miningDone
    /\ miningDone' = FALSE
    /\ IF joinable
       THEN outcome' = "terminate" /\ UNCHANGED <<joinable, pc>>
       ELSE joinable' = TRUE /\ Goto(Miner, "top") /\ UNCHANGED outcome
    /\ UNCHANGED <<blockchain, txQueue, tempchain, position, database, done, keepTrying,
                   chainMutex, newblock, asked, minted, posted, newblocks>>

MutantStopMiningNoJoin ==
    /\ AtRest("stopMining")
    /\ ~miningDone
    /\ miningDone' = TRUE
    /\ keepTrying' = FALSE
    /\ UNCHANGED <<blockchain, txQueue, tempchain, position, database, done, joinable,
                   chainMutex, pc, newblock, asked, minted, posted, newblocks, outcome>>

MutantStopMiningAbortOnly ==
    /\ AtRest("stopMining")
    /\ ~miningDone
    /\ keepTrying' = FALSE
    /\ Goto(Http, IF joinable THEN "joining" ELSE "idle")
    /\ UNCHANGED <<blockchain, txQueue, tempchain, position, database, miningDone, done,
                   joinable, chainMutex, newblock, asked, minted, posted, newblocks,
                   outcome>>

StopMining ==
    /\ AtRest("stopMining")
    /\ ~miningDone
    /\ miningDone' = TRUE
    /\ keepTrying' = FALSE
    /\ Goto(Http, IF joinable THEN "joining" ELSE "idle")
    /\ UNCHANGED <<blockchain, txQueue, tempchain, position, database, done, joinable,
                   chainMutex, newblock, asked, minted, posted, newblocks, outcome>>

\* Two threads in join() of one std::thread: undefined, it may well throw.
BothJoining == pc[Http] = "joining" /\ pc[Main] = "joining"
JoinOutcomes == IF BothJoining THEN {"running", "terminate"} ELSE {"running"}

JoinMiner ==
    /\ At(Http, "joining")
    /\ pc[Miner] = "idle"
    /\ joinable' = FALSE
    /\ pc' = [pc EXCEPT ![Http] = "idle", ![Main] = IF BothJoining THEN "stopping" ELSE @]
    /\ outcome' \in JoinOutcomes
    /\ UNCHANGED <<blockchain, txQueue, tempchain, position, database, miningDone, done,
                   keepTrying, chainMutex, newblock, asked, minted, posted, newblocks>>

Shutdown ==
    /\ AtRest("shutdown")
    /\ ~done
    /\ miningDone' = TRUE
    /\ keepTrying' = FALSE
    /\ done' = TRUE
    /\ UNCHANGED <<blockchain, txQueue, tempchain, position, database, joinable, chainMutex,
                   pc, newblock, asked, minted, posted, newblocks, outcome>>

\* The main thread leaves run()'s loop; the destructor joins the mining thread.
MainLeaves ==
    /\ At(Main, "idle")
    /\ done
    /\ Goto(Main, IF joinable THEN "joining" ELSE "stopping")
    /\ UNCHANGED <<blockchain, txQueue, tempchain, position, database, threadVars,
                   chainMutex, asked, posted, newblocks, outcome>>

MainJoins ==
    /\ At(Main, "joining")
    /\ pc[Miner] = "idle"
    /\ joinable' = FALSE
    /\ Goto(Main, "stopping")
    /\ outcome' \in JoinOutcomes
    /\ UNCHANGED <<blockchain, txQueue, tempchain, position, database, miningDone, done,
                   keepTrying, chainMutex, newblock, asked, minted, posted, newblocks>>

\* The destructor stops the HTTP server, which answered calls until then.
StopServer ==
    /\ At(Main, "stopping")
    /\ Goto(Main, "closing")
    /\ UNCHANGED <<blockchain, txQueue, tempchain, position, database, threadVars,
                   chainMutex, asked, posted, newblocks, outcome>>

\* The HTTP thread is joined and the program ends; a mining thread started
\* between the two joins is destroyed while it can still be joined.
Exit ==
    /\ At(Main, "closing")
    /\ pc[Http] = "idle"
    /\ outcome' = IF joinable THEN "terminate" ELSE "exited"
    /\ UNCHANGED <<blockchain, txQueue, tempchain, position, database, threadVars,
                   chainMutex, pc, asked, posted, newblocks>>

\* A payment that CreateTransaction accepts joins the queue.
CreateTx(tx) ==
    /\ AtRest("createtx")
    /\ chainMutex = Nobody
    /\ tx \notin posted
    /\ posted' = posted \cup {tx}
    /\ txQueue' = Append(txQueue, tx)
    /\ UNCHANGED <<blockchain, tempchain, position, database, threadVars, chainMutex, pc,
                   asked, newblocks, outcome>>

-----------------------------------------------------------------------------

Mine ==
    \/ MineTop
    \/ MineCreate
    \/ MineBegin
    \/ MineFound
    \/ MineAborted
    \/ MineOvertaken
    \/ MineRequeue
    \/ MineAdd
    \/ MineWrite
    \/ MineBroadcast
    \/ Sync(Miner)

Handle(h) ==
    \/ HandleNewBlock(h)
    \/ HandleSummary(h)
    \/ HandleChainError(h)
    \/ HandleChain(h)
    \/ HandleNewBlockResponse(h)
    \/ HandleTail(h)
    \/ Sync(h)

Rest ==
    \/ StartMining
    \/ StopMining
    \/ JoinMiner
    \/ Shutdown
    \/ \E tx \in Txs : CreateTx(tx)

End == MainLeaves \/ MainJoins \/ StopServer \/ Exit

Next == Mine \/ (\E h \in Peers : Handle(h)) \/ Rest \/ End

Spec == Init /\ [][Next]_vars

(***************************************************************************)
(* Fairness: a thread that can take a step takes it, and the search for a   *)
(* nonce ends.  Nothing is assumed of the peers and of the users.            *)
(***************************************************************************)
Fairness ==
    /\ WF_vars(Mine)
    /\ \A h \in Peers : WF_vars(HandleTail(h) \/ Sync(h))
    /\ WF_vars(JoinMiner)
    /\ WF_vars(End)

FairSpec == Spec /\ Fairness

-----------------------------------------------------------------------------
(* Properties. *)

TypeOK ==
    /\ blockchain \in Seq(Block)
    /\ txQueue \in Seq(Txs)
    /\ tempchain \in Seq(Block)
    /\ position \in Nat
    /\ database \in Seq(Block) \cup {NoFile}
    /\ miningDone \in BOOLEAN
    /\ done \in BOOLEAN
    /\ keepTrying \in BOOLEAN
    /\ joinable \in BOOLEAN
    /\ chainMutex \in Threads \cup {Nobody}
    /\ pc \in [Threads -> Labels]
    /\ newblock \in Block \cup {NoBlock}
    /\ asked \in [Peers -> Seq(Request)]
    /\ minted \in Nat
    /\ posted \subseteq Txs
    /\ newblocks \in Nat
    /\ outcome \in Outcomes

\* Whatever the threads and the peers do, the local chain is one that
\* isValidChain accepts and that begins with a genesis block, although
\* addNewBlock never looks at a block's index and runs without the mutex.
ChainValid ==
    /\ blockchain # <<>>
    /\ StartsAtGenesis(blockchain)
    /\ IsValidChain(blockchain)

\* A cached update still attaches to the local chain, or replaces it, however
\* long it waits: handleChainResponse checked it against a chain that the
\* mining thread has extended since, and syncBlockchain checks nothing again.
UpdateAttaches ==
    tempchain # <<>> =>
        StartsAtGenesis(tempchain) \/ LinksToChain(blockchain, tempchain)

\* When the loops of syncBlockchain are through, the local chain ends with the
\* whole update, although nothing was compared with the blocks mined since the
\* update was cached, and the loops go on after a block that addNewBlock refuses.
\* True as long as users do not stop the miner: otherwise its block may come in
\* between, and the update is dropped.
UpdateAdoptedWhole ==
    [][position # 0 /\ position' = 0 =>
          \E n \in 0..Len(blockchain') :
              blockchain' = SubSeq(blockchain', 1, n) \o tempchain]_vars

\* The file holds the local chain whenever no thread is between a change of
\* the one and of the other.
FileMatchesChain ==
    chainMutex = Nobody /\ pc[Miner] # "write" => database = blockchain

\* Without chain.reset.enable the node never gives up its genesis block.
GenesisKept == [][~ChainResetEnable => blockchain'[1] = blockchain[1]]_vars

\* The block the mining thread works on, until it is part of the chain.
Pending == IF pc[Miner] \in {"begin", "mining", "requeue", "add"}
           THEN newblock.txs ELSE <<>>

\* Where a payment is: in the local chain, in the queue, in the pending block.
MinedPlaces(tx) ==
    UNION {{<<i, j>> : j \in {k \in DOMAIN blockchain[i].txs : blockchain[i].txs[k] = tx}} :
               i \in DOMAIN blockchain}
QueuedPlaces(tx)  == {i \in DOMAIN txQueue : txQueue[i] = tx}
PendingPlaces(tx) == {i \in DOMAIN Pending : Pending[i] = tx}

Places(tx) == ({"mined"} \X MinedPlaces(tx)) \cup ({"queued"} \X QueuedPlaces(tx))
                  \cup ({"pending"} \X PendingPlaces(tx))

\* An accepted payment is in the chain, in the block being mined or in the
\* queue: aborts and updates do not lose it.
PaymentKept == \A tx \in posted : Places(tx) # {}

\* It is never in two places, whatever was aborted and queued again.
PaymentOnce == \A tx \in Txs : \A p, q \in Places(tx) : p = q

\* An accepted payment ends up in the chain once nobody stops the miner again:
\* a block that is aborted does not make it wait for ever.
PaymentMined ==
    <>[](~miningDone) =>
        \A tx \in Txs : tx \in posted ~> (MinedPlaces(tx) # {} \/ outcome # "running")

\* A cached update does not stay cached: the mining thread or a handler
\* applies it ("the client will update its chain if needed").
UpdateApplied == tempchain # <<>> ~> (tempchain = <<>> \/ outcome # "running")

\* stopMining's handler returns: the mining thread it joins ends, even when
\* its abort came before mineBlock set _keepTrying again.
StopReturns == pc[Http] = "joining" ~> (pc[Http] = "idle" \/ outcome # "running")

\* After a shutdown request the process ends.
ShutdownEnds == done ~> outcome # "running"

\* The process ends only because it was asked to, or because the difficulty
\* wrapped around and mineBlock threw: no sequence of starts and stops assigns
\* to a thread that runs, or joins one twice.
OnlyExits == outcome \in {"running", "length_error"} \/ done

\* The difficulty goes from a block to the next by one at most: at 0 the
\* unsigned subtraction wraps around, and such a block must never be added.
DifficultySteps ==
    \A i \in 2..Len(blockchain) :
        blockchain[i].difficulty - blockchain[i - 1].difficulty \in {-1, 0, 1}

\* assert(tempStartIdx < _blockchain->size() && tempStartIdx > 0)
AlignmentAssertHolds == outcome # "assert"

\* Without threads: an update that is swapped with the local chain has been
\* adopted at once; one that is added block by block waits until that is done.
Offered == IF chainMutex = Nobody \/ position # 0 THEN tempchain ELSE <<>>

Local == INSTANCE LocalChain WITH chain <- blockchain, update <- Offered

\* To the chain and the update, the threads of a node are one actor that adds a
\* block, caches an update or adopts the one cached, block by block: a block
\* mined meanwhile, without the mutex, ends the adoption but breaks no link.
ImplementsLocalChain == Local!Spec
-----------------------------------------------------------------------------
(* The inductive invariant behind ChainValid and UpdateAttaches; the proofs  *)
(* are in MinerAppProofs.                                                   *)

\* The local chain is a chain of mined blocks with consecutive indices.
ChainInv == HonestChain(blockchain)

\* So is the update, and it attaches.
UpdateInv == tempchain # <<>> => IsSegment(tempchain) /\ UpdateAttaches

\* Where the loop over the update is, for a thread at a label of it.
PositionAt(label) ==
    /\ label = "check" => position = 1
    /\ label \in {"replace", "append"} => position \in 1..Len(tempchain)
    /\ label = "store" => position >= 2
    /\ label \in {"reset", "rewrite", "unlock"} => position \in {0, Len(tempchain) + 1}

\* The mutex is held by the thread in the middle of syncBlockchain, where the
\* update stays the same one and the loop is at one of its blocks.
MutexInv ==
    /\ \A t \in Threads : pc[t] \in InSync <=> chainMutex = t
    /\ \A t \in Threads : pc[t] \in InSync => tempchain # <<>>
    /\ chainMutex = Nobody => position = 0
    /\ position # 0 => position \in 1..(Len(tempchain) + 1) /\ ~StartsAtGenesis(tempchain)
    /\ \A t \in Threads : PositionAt(pc[t])

\* The block being mined: its predecessor's digest carries the index before
\* its own, so when addNewBlock compares digests it compares indices as well.
BlockInv ==
    /\ pc[Miner] = "write" => newblock \in Block
    /\ pc[Miner] \in {"begin", "mining", "requeue", "add"} =>
           /\ newblock \in Block
           /\ newblock.index >= 1
           /\ newblock.prev[1] = newblock.index - 1
           /\ newblock.hash[1] = newblock.index

\* The mining thread runs only while its std::thread can be joined.
JoinInv == joinable \/ pc[Miner] = "idle"

\* Together they are inductive.
DataInv == TypeOK /\ ChainInv /\ UpdateInv /\ MutexInv /\ BlockInv
IInv == DataInv /\ JoinInv
-----------------------------------------------------------------------------
(* The inductive invariants behind FileMatchesChain, UpdateAdoptedWhole,     *)
(* GenesisKept, PaymentOnce and what holds of a node without peers; the      *)
(* proofs are in MinerAppProofs and FileProofs.                             *)

\* When users neither start nor stop the miner, a handler is inside of
\* syncBlockchain only after the mining thread has ended.
SoloInv ==
    /\ ~done /\ pc[Http] = "idle" /\ pc[Main] = "idle"
    /\ miningDone => pc[Miner] = "idle"
    /\ \A h \in Peers : pc[h] \in {"idle", "tail"} \/ (pc[h] \in SyncLabels /\ miningDone)

\* What the file lacks of the local chain, wherever the threads are.
FileInv ==
    /\ pc[Miner] = "write" => database # NoFile /\ blockchain = Append(database, newblock)
    /\ chainMutex = Nobody /\ pc[Miner] # "write" => database = blockchain
    /\ \A t \in Threads :
        /\ pc[t] = "rewrite" => database = NoFile
        /\ pc[t] \in {"replace", "reset"} => HonestChain(database)
        /\ pc[t] \in {"check", "append", "unlock"} => database = blockchain
        /\ pc[t] = "store" => database # NoFile
                                 /\ blockchain = Append(database, tempchain[position - 1])

\* How far the loop has come when nothing can come in between: the local chain is
\* what was left of it and the blocks of the update before the one the loop is at.
LoopInv ==
    /\ position # 0 =>
           blockchain = SubSeq(blockchain, 1, tempchain[1].index) \o SubSeq(tempchain, 1, position - 1)
    /\ \A t \in Threads : pc[t] = "check" => Extends(blockchain, tempchain)

\* Together they are inductive, with DataInv.
StorageInv == SoloInv /\ FileInv /\ LoopInv

\* Without chain.reset.enable, and with assertions, the node neither asks for
\* block 0 nor caches it.
NoResetInv ==
    ~ChainResetEnable /\ ~NDEBUG =>
        /\ tempchain # <<>> => ~StartsAtGenesis(tempchain)
        /\ \A h \in Peers : \A i \in DOMAIN asked[h] :
               asked[h][i].message = "chain" =>
                   asked[h][i].ids # <<>> /\ asked[h][i].ids[1] >= 1

\* A chain without payments: what peers hold is taken to carry none of ours.
Bare(chain) == \A i \in DOMAIN chain : chain[i].txs = <<>>

\* Every payment that is somewhere was accepted, so an accepted one is new; an
\* update that waits brings none, until it has been swapped with our chain.
OnceInv ==
    /\ PaymentOnce
    /\ \A tx \in Txs : Places(tx) # {} => tx \in posted
    /\ chainMutex = Nobody \/ position # 0 => Bare(tempchain)

\* Of a node without peers: nothing comes between making a block and adding it.
OwnBlockInv ==
    /\ tempchain = <<>>
    /\ pc[Miner] \in {"begin", "mining", "requeue", "add"} =>
           newblock.prev = Back(blockchain).hash
    /\ pc[Miner] = "add" => ValidHash(newblock)

\* mineBlock throws on the difficulty that wraps around.
StepInv ==
    /\ DifficultySteps
    /\ Back(blockchain).difficulty # UINT64_MAX
    /\ pc[Miner] \in {"begin", "mining", "add"} =>
           newblock.difficulty \in AdjustedDifficulties(blockchain)
    /\ pc[Miner] \in {"mining", "add"} => newblock.difficulty # UINT64_MAX

\* A miner that is stopped has been joined, or the HTTP thread is about to.
ExitInv ==
    /\ OnlyExits
    /\ pc[Main] # "idle" => done
    /\ miningDone /\ joinable /\ ~done => pc[Http] = "joining"

\* What holds of a node without peers.
LoneInv == OwnBlockInv /\ PaymentKept /\ StepInv /\ ExitInv
=============================================================================
