--------------------------- MODULE MinerAppRestart ---------------------------
(***************************************************************************)
(* MinerApp with crashes of the process, at any point, and restarts from     *)
(* the file that is left (src/ChainDatabase.cpp).  What was in memory is     *)
(* lost; a write under way may have reached the file in part.  While the     *)
(* file is being read the peers are connected and their handlers run.       *)
(***************************************************************************)
EXTENDS MinerApp

CONSTANT MaxCrashes    \* bound: number of crashes

ASSUME MaxCrashesAssumption == MaxCrashes \in Nat

VARIABLES
    torn,      \* "first", "later": this block in the file was written in part
    loading,   \* is the main thread still inside ChainDatabase::initialize
    toRead,    \* what it has still to read
    known,     \* the chains the node may resume with, {} for any (only for properties)
    crashes    \* number of crashes

loadVars == <<loading, toRead>>
restartVars == <<vars, torn, loadVars, known, crashes>>

\* Thread t's write under way, as the blocks it is about to put at the file's
\* end; <<>> when t is not writing.
Writing(t) ==
    CASE pc[t] = "write"   -> <<newblock>>
      [] pc[t] = "rewrite" -> blockchain
      [] pc[t] = "store"   -> <<tempchain[position - 1]>>
      [] OTHER             -> <<>>

RestartInit ==
    /\ Init
    /\ torn = "whole" /\ crashes = 0
    /\ loading = FALSE /\ toRead = <<>> /\ known = {}

(***************************************************************************)
(* At most one thread's write is cut short: any number of its blocks are in  *)
(* the file, and perhaps part of the next one.                              *)
(***************************************************************************)
Crash ==
    /\ outcome = "running"
    /\ crashes < MaxCrashes
    /\ crashes' = crashes + 1
    /\ outcome' = "crashed"
    /\ \/ UNCHANGED <<database, torn>>
       \/ \E t \in Threads : \E n \in 0..Len(Writing(t)) :
            /\ Writing(t) # <<>>
            /\ database' = Written(database, SubSeq(Writing(t), 1, n))
            /\ torn' \in IF torn # "whole" \/ n = Len(Writing(t)) THEN {torn}
                         ELSE {torn, IF database' = <<>> THEN "first" ELSE "later"}
    /\ known' = IF loading THEN known
                ELSE IF \/ database' = NoFile \/ torn' # "whole"
                        \/ \E t \in Threads : pc[t] \in {"replace", "reset"}
                THEN {}
                ELSE {SubSeq(blockchain, 1, n) : n \in 1..Len(blockchain)}
    /\ loading' = FALSE /\ toRead' = <<>>
    /\ UNCHANGED <<blockchain, txQueue, tempchain, position, threadVars, chainMutex, pc,
                   asked, posted, newblocks>>

(***************************************************************************)
(* A block that was cut short is read as far as it goes, so its contents do  *)
(* not have its digest, and what comes after it is read out of step;         *)
(* isValidChain notices that in every block but the first one, which it      *)
(* compares with nothing.                                                   *)
(***************************************************************************)
TornBlock == [GenesisBlock(-1 - crashes) EXCEPT !.calc = NoHash]

Loaded(file) == IF torn = "first" THEN <<TornBlock>> ELSE file

MutantRestartDone ==
    /\ outcome \in {"crashed", "exited"}
    /\ outcome' = "running"
    /\ database' = IF database = NoFile THEN <<GenesisBlock(-1 - crashes)>> ELSE database
    /\ loading' = TRUE /\ toRead' = Loaded(database')
    /\ blockchain' = <<>> /\ txQueue' = <<>> /\ tempchain' = <<>> /\ position' = 0
    /\ miningDone' = TRUE /\ done' = FALSE /\ keepTrying' = TRUE
    /\ joinable' = FALSE /\ chainMutex' = Nobody
    /\ pc' = [t \in Threads |-> "idle"]
    /\ newblock' = NoBlock
    /\ asked' = [h \in Peers |-> <<SummaryRequest>>]
    /\ UNCHANGED <<minted, posted, newblocks, torn, known, crashes>>

(***************************************************************************)
(* The constructor and run() up to initialize, which writes a new genesis    *)
(* block when there is no file: servers and peers come first.  _miningDone   *)
(* is false until the chain has been read, so no handler calls               *)
(* syncBlockchain.  Bytes of a block cut short stay in the file.            *)
(***************************************************************************)
Restart ==
    /\ outcome \in {"crashed", "exited"}
    /\ outcome' = "running"
    /\ database' = IF database = NoFile THEN <<GenesisBlock(-1 - crashes)>> ELSE database
    /\ loading' = TRUE /\ toRead' = Loaded(database')
    /\ blockchain' = <<>> /\ txQueue' = <<>> /\ tempchain' = <<>> /\ position' = 0
    /\ miningDone' = FALSE /\ done' = FALSE /\ keepTrying' = TRUE
    /\ joinable' = FALSE /\ chainMutex' = Nobody
    /\ pc' = [t \in Threads |-> "idle"]
    /\ newblock' = NoBlock
    /\ asked' = [h \in Peers |-> <<SummaryRequest>>]
    /\ UNCHANGED <<minted, posted, newblocks, torn, known, crashes>>

AtLoading == outcome = "running" /\ loading

ReadBlock ==
    /\ AtLoading /\ toRead # <<>>
    /\ blockchain' = Append(blockchain, Head(toRead))
    /\ toRead' = Tail(toRead)
    /\ UNCHANGED <<txQueue, tempchain, position, database, threadVars, chainMutex, pc,
                   asked, posted, newblocks, outcome, torn, loading, known,
                   crashes>>

(***************************************************************************)
(* A chain that is not valid is an exception; reading the length of a text   *)
(* that is not there may be one too; and an empty file gives a chain without *)
(* a genesis block, which the first use of front() or back() does not        *)
(* survive.                                                                 *)
(***************************************************************************)
LoadFails ==
    /\ AtLoading /\ toRead = <<>>
    /\ torn # "whole" \/ blockchain = <<>> \/ ~IsValidChain(blockchain)
    /\ outcome' = "invalid_chain"
    /\ UNCHANGED <<blockchain, txQueue, tempchain, position, database, threadVars,
                   chainMutex, pc, asked, posted, newblocks, torn, loadVars,
                   known, crashes>>

\* The rest of run(), as in Init.
LoadDone ==
    /\ AtLoading /\ toRead = <<>>
    /\ torn # "later" /\ blockchain # <<>> /\ IsValidChain(blockchain)
    /\ loading' = FALSE /\ known' = {}
    /\ miningDone' = ~AutoStart /\ joinable' = AutoStart
    /\ pc' = [pc EXCEPT ![Miner] = IF AutoStart THEN "top" ELSE "idle"]
    /\ UNCHANGED <<blockchain, txQueue, tempchain, position, database, done, keepTrying,
                   newblock, minted, chainMutex, asked, posted, newblocks,
                   outcome, torn, toRead, crashes>>

(***************************************************************************)
(* A message while the chain is being read: its handler finds an empty chain *)
(* and calls front() or back() of it, or reads the blocks while push_back    *)
(* moves them; or it is lucky and sees the blocks read so far.               *)
(***************************************************************************)
EarlyMessage(h) ==
    /\ AtLoading
    /\ pc[h] = "idle" /\ (asked[h] # <<>> \/ newblocks < MaxNewBlocks)
    /\ outcome' = "undefined"
    /\ UNCHANGED <<blockchain, txQueue, tempchain, position, database, threadVars,
                   chainMutex, pc, asked, posted, newblocks, torn, loadVars,
                   known, crashes>>

EarlyHandle(h) == AtLoading /\ blockchain # <<>> /\ Handle(h)

\* Removing the file removes a block cut short as well.
RestartNext ==
    \/ /\ (~loading /\ Next) \/ (\E h \in Peers : EarlyHandle(h))
       /\ torn' = IF database' = NoFile THEN "whole" ELSE torn
       /\ UNCHANGED <<loadVars, known, crashes>>
    \/ Crash
    \/ Restart
    \/ ReadBlock \/ LoadFails \/ LoadDone
    \/ \E h \in Peers : EarlyMessage(h)

RestartSpec == RestartInit /\ [][RestartNext]_restartVars

\* A start fails only for what a crash did to the last write: no sequence of
\* updates, crashes and restarts leaves a file whose blocks do not form a chain,
\* and no message that comes too early changes what is read.
StartupFailsOnlyTorn ==
    outcome = "invalid_chain" => torn # "whole" \/ database = <<>>

\* The node resumes with a chain that it had: unless the crash left no file, or
\* not even a whole first block, or came when an update was about to replace the
\* chain, what is read begins the chain before the crash.
ResumesOwnChain ==
    [][AtLoading /\ ~loading' /\ outcome' = "running" /\ known # {} =>
           blockchain' \in known]_restartVars

\* An update cached while the chain was being read, and checked against the
\* blocks read until then, attaches to the chain that the node starts with.
EarlyUpdateAttaches == blockchain # <<>> => UpdateAttaches
-----------------------------------------------------------------------------
(* The inductive invariant behind these; the proofs are in FileProofs.       *)

Running == outcome = "running" /\ ~loading

\* The file holds no chain, or one that nodes build, unless its first block is
\* all there is of it; one that is cut short later is never used.
StoredInv ==
    /\ torn \in {"whole", "first", "later"}
    /\ database \in Seq(Block) \cup {NoFile}
    /\ torn # "whole" => database # NoFile
    /\ torn # "first" => database \in {NoFile, <<>>} \/ HonestChain(database)
    /\ torn = "later" => ~Running

\* The node that runs is that of MinerApp.
RunningInv ==
    Running => IInv /\ SoloInv /\ LoopInv /\ (torn = "whole" => FileInv)

\* While the file is read, its blocks are in the chain or still to come, and no
\* handler goes beyond caching an update.
LoadingInv ==
    AtLoading =>
        /\ TypeOK /\ SoloInv /\ MutexInv /\ BlockInv
        /\ toRead \in Seq(Block)
        /\ database # NoFile
        /\ blockchain \o toRead = Loaded(database)
        /\ IF blockchain = <<>> THEN tempchain = <<>> ELSE DataInv
        /\ ~miningDone /\ pc[Miner] = "idle"

\* The chains that the node may resume with are known before it does.
KnownInv ==
    /\ Running => known = {}
    /\ known # {} => /\ torn = "whole"
                     /\ database # NoFile
                     /\ database \in known \cup {<<>>}

\* What the bounds and the names of blocks count.
CountersInv ==
    /\ minted \in Nat /\ newblocks \in Nat /\ crashes \in Nat
    /\ posted \subseteq Txs
    /\ loading \in BOOLEAN

RestartInv ==
    /\ CountersInv /\ StoredInv /\ RunningInv /\ LoadingInv /\ KnownInv
    /\ StartupFailsOnlyTorn /\ EarlyUpdateAttaches
=============================================================================
