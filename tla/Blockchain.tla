----------------------------- MODULE Blockchain -----------------------------
(***************************************************************************)
(* The data a node keeps and the pure operations on it: blocks            *)
(* (src/Block.cpp) and the chain of them (src/Blockchain.cpp).             *)
(*                                                                         *)
(* A chain is a sequence of blocks; the code counts from 0, so block number *)
(* i of the code is element i + 1 here.  SHA-256 is taken to be free of     *)
(* collisions.  A digest is a pair <<index, id>>: the index is part of the  *)
(* hashed text, so a digest determines the index, and id tells apart blocks *)
(* of one index with different contents.                                   *)
(*                                                                         *)
(* Data left out of a block: the time, the nonce, the free text, the miner's *)
(* id and the coinbase transaction.  "txs" holds the other transactions.     *)
(***************************************************************************)
EXTENDS Integers, Sequences, FiniteSetsExt

CONSTANTS
    Txs,              \* the payments that users may ask for
    BLOCK_INTERVAL,   \* blocks between two adjustments of the difficulty
    UINT64_MAX        \* the largest difficulty, 2^64 - 1 in the code

ASSUME BlockchainAssumption ==
    /\ BLOCK_INTERVAL \in Nat \ {0}
    /\ UINT64_MAX \in Nat \ {0}

\* previousHash of a genesis block: the empty string.
NoHash == <<-1, 0>>

Digest == Int \X Int

(***************************************************************************)
(* hash is the digest stored in the block, calc the digest of its contents  *)
(* (CalculateBlockHash), zeros the number of leading zeros of hash.         *)
(***************************************************************************)
Block == [index : Nat, prev : Digest, hash : Digest, calc : Digest,
          zeros : Nat, difficulty : 0..UINT64_MAX, txs : Seq(Txs)]

ValidHash(block) == block.calc = block.hash /\ block.zeros >= block.difficulty

(* Operators named Mutant... are not part of the model.  Each is a version   *)
(* of the definition after it with a bug that the checked properties must    *)
(* detect; nothing refers to them.                                          *)
-----------------------------------------------------------------------------

MutantUnminedBlockNoTxs(chain, txs, difficulty) ==
    [index |-> Len(chain), prev |-> chain[Len(chain)].hash,
     hash |-> <<Len(chain), 0>>, calc |-> <<Len(chain), 0>>,
     zeros |-> 0, difficulty |-> difficulty, txs |-> <<>>]

(***************************************************************************)
(* A new block as the constructor makes it, but with the difficulty at      *)
(* which the miner is about to mine it.  The digest of a block not yet      *)
(* mined is that of nonce 0; id 0 is used for no other block.               *)
(***************************************************************************)
UnminedBlock(chain, txs, difficulty) ==
    [index |-> Len(chain), prev |-> chain[Len(chain)].hash,
     hash |-> <<Len(chain), 0>>, calc |-> <<Len(chain), 0>>,
     zeros |-> 0, difficulty |-> difficulty, txs |-> txs]

\* setMinedData: the nonce found gives the block a digest with enough zeros.
MinedBlock(block, id) ==
    [block EXCEPT !.hash = <<block.index, id>>, !.calc = <<block.index, id>>,
                  !.zeros = block.difficulty]

(***************************************************************************)
(* The first block of a new chain.  Its text is set after its digest was    *)
(* computed, so the stored digest is stale and ValidHash does not hold.     *)
(***************************************************************************)
GenesisBlock(id) ==
    [index |-> 0, prev |-> NoHash, hash |-> <<0, id>>, calc |-> <<0, -id>>,
     zeros |-> 0, difficulty |-> 1, txs |-> <<>>]

Back(chain) == chain[Len(chain)]

MutantCanAddBlockUnlinked(chain, block) == ValidHash(block)

\* addNewBlock appends exactly when this holds, and returns it.
CanAddBlock(chain, block) == ValidHash(block) /\ block.prev = Back(chain).hash

AddNewBlock(chain, block) ==
    IF CanAddBlock(chain, block) THEN Append(chain, block) ELSE chain

(***************************************************************************)
(* The loops of syncBlockchain that call addNewBlock for every block of a   *)
(* valid chain: once one block is refused the next, which links to it, is   *)
(* refused as well.  So the loop appends the longest prefix that attaches.  *)
(***************************************************************************)
Attaches(chain, blocks, i) ==
    /\ ValidHash(blocks[i])
    /\ blocks[i].prev = IF i = 1 THEN Back(chain).hash ELSE blocks[i - 1].hash

AttachedLength(chain, blocks) ==
    CHOOSE n \in 0..Len(blocks) :
        /\ \A i \in 1..n : Attaches(chain, blocks, i)
        /\ n < Len(blocks) => ~Attaches(chain, blocks, n + 1)

AddBlocks(chain, blocks) ==
    chain \o SubSeq(blocks, 1, AttachedLength(chain, blocks))

MutantResizeOneMore(chain, size) == SubSeq(chain, 1, size + 1)

Resize(chain, size) == SubSeq(chain, 1, size)

IsValidBlockPair(chain, i) ==
    /\ chain[i].index = chain[i - 1].index + 1
    /\ chain[i].prev = chain[i - 1].hash
    /\ chain[i].calc = chain[i].hash

\* The first block is compared with nothing; an empty chain is valid.
IsValidChain(chain) == \A i \in 2..Len(chain) : IsValidBlockPair(chain, i)

(***************************************************************************)
(* Consecutive blocks of a chain that nodes have built with addNewBlock:     *)
(* each is linked to the one before, and all but a genesis block were mined. *)
(***************************************************************************)
IsSegment(blocks) ==
    /\ blocks \in Seq(Block)
    /\ blocks # <<>>
    /\ \A i \in 1..Len(blocks) :
        /\ blocks[i].index = blocks[1].index + i - 1
        /\ blocks[i].hash[1] = blocks[i].index
        /\ blocks[i].index # 0 => ValidHash(blocks[i])
    /\ \A i \in 2..Len(blocks) : blocks[i].prev = blocks[i - 1].hash

\* The sum stops short of the last block: lastBlockIt points at it.
CumDifficulty(chain) ==
    MapThenSumSet(LAMBDA i : 2^chain[i].difficulty, 1..(Len(chain) - 1))

MutantDownUnwrapped(d) == d - 1

(***************************************************************************)
(* getAdjustedDifficulty.  Block times are not modelled, so at the end of   *)
(* an interval it may go up, down, or stay.  It is an unsigned number: it    *)
(* wraps around at 0 and at UINT64_MAX.                                     *)
(***************************************************************************)
Up(d)   == IF d = UINT64_MAX THEN 0 ELSE d + 1
Down(d) == IF d = 0 THEN UINT64_MAX ELSE d - 1

AdjustedDifficulties(chain) ==
    LET d == Back(chain).difficulty
    IN  IF (Back(chain).index + 1) % BLOCK_INTERVAL # 0 THEN {d} ELSE {d, Up(d), Down(d)}

(***************************************************************************)
(* The blocks id1..id2 of a chain, as the handler of a chain request        *)
(* collects them; empty when there are none, and then the answer has no     *)
(* "blocks" at all.                                                         *)
(***************************************************************************)
BlockRange(chain, id1, id2) ==
    SubSeq(chain, id1 + 1, IF id2 < Len(chain) THEN id2 + 1 ELSE Len(chain))

MutantReQueueNothing(queue, block) == queue

\* reQueueTransactions: the block's payments go to the end of the queue.
ReQueueTransactions(queue, block) == queue \o block.txs
=============================================================================
