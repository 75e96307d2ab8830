---------------------------- MODULE ChainProtocol ----------------------------
(***************************************************************************)
(* What one node decides on each message of the chain protocol, as          *)
(* operators on its chain, its cached update ("temp", the code's _tempchain, *)
(* <<>> for a null pointer) and the message: the handlers of                 *)
(* src/MinerApp.cpp without the threads that run them.                       *)
(*                                                                         *)
(* A request is a record [message, ids]; ids is <<>> for a request of the    *)
(* whole chain, <<id1, id2>> for a range of it.                              *)
(***************************************************************************)
EXTENDS Blockchain

SummaryRequest  == [message |-> "summary", ids |-> <<>>]
ChainRequest    == [message |-> "chain", ids |-> <<>>]
RangeRequest(id1, id2) == [message |-> "chain", ids |-> <<id1, id2>>]
NewBlockMessage == [message |-> "newblock", ids |-> <<>>]

Request == [message : {"summary", "chain", "newblock"},
            ids : {<<>>} \cup (Nat \X Nat)]

-----------------------------------------------------------------------------
(* The side that answers. *)

SummaryReply(chain) ==
    [front |-> chain[1], back |-> Back(chain), cumdiff |-> CumDifficulty(chain)]

ChainReply(chain, ids) ==
    IF ids = <<>> THEN chain ELSE BlockRange(chain, ids[1], ids[2])

(***************************************************************************)
(* A newblock request: its sender's last block and cumulative difficulty.   *)
(* The sender is asked for a summary when its chain is heavier, or as heavy  *)
(* and longer; otherwise it only gets an empty response.                    *)
(***************************************************************************)
WantsSummary(chain, block, cumdiff) ==
    \/ cumdiff > CumDifficulty(chain)
    \/ cumdiff = CumDifficulty(chain) /\ block.index > Back(chain).index

-----------------------------------------------------------------------------
(* The side that asked. *)

\* Block::operator== compares neither the digests nor the transactions; the
\* genesis blocks of two chains are told apart by their text and time.
SameBlock(b, c) == b.index = c.index /\ b.calc = c.calc

MutantSummaryRequestsReset(chain, temp, resetEnable, reply) ==
    IF ~SameBlock(chain[1], reply.front) THEN <<ChainRequest>> ELSE <<>>

MutantSummaryRequestsSkip(chain, temp, resetEnable, reply) ==
    LET known == IF temp = <<>> THEN chain ELSE temp
    IN  IF CumDifficulty(chain) < reply.cumdiff
        THEN <<RangeRequest(Back(known).index + 2, reply.back.index)>>
        ELSE <<>>

(***************************************************************************)
(* The requests sent on a summary response.  The chain it is compared with  *)
(* is the cached update when there is one, but the difficulty is always     *)
(* that of the local chain, and the comparison is strict.                    *)
(***************************************************************************)
SummaryRequests(chain, temp, resetEnable, reply) ==
    LET known == IF temp = <<>> THEN chain ELSE temp
    IN  IF ~SameBlock(known[1], reply.front)
        THEN IF resetEnable THEN <<ChainRequest>> ELSE <<>>
        ELSE IF CumDifficulty(chain) < reply.cumdiff
        THEN <<RangeRequest(Back(known).index + 1, reply.back.index)>>
        ELSE <<>>

(***************************************************************************)
(* handleChainResponse, for a valid, non-empty list of blocks.              *)
(***************************************************************************)
StartsAtGenesis(blocks) == blocks[1].index = 0

\* The chains that nodes build for themselves; the handlers check less.
HonestChain(chain) == IsSegment(chain) /\ StartsAtGenesis(chain)

HasGap(chain, blocks) ==
    ~StartsAtGenesis(blocks) /\ blocks[1].index > Back(chain).index + 1

\* The block before the first one is at(front.index - 1), element front.index.
LinksToChain(chain, blocks) ==
    blocks[1].index \in 1..Len(chain) /\ blocks[1].prev = chain[blocks[1].index].hash

\* The assertion on tempStartIdx, reached when the blocks neither start at
\* the genesis nor leave a gap.
AlignmentAssert(chain, blocks) ==
    \/ StartsAtGenesis(blocks)
    \/ HasGap(chain, blocks)
    \/ blocks[1].index - 1 < Len(chain) /\ blocks[1].index - 1 > 0

MutantCachedUnchecked(chain, temp, blocks) == blocks

Cached(chain, temp, blocks) ==
    IF StartsAtGenesis(blocks) \/ LinksToChain(chain, blocks) THEN blocks ELSE temp

ChainRequests(chain, blocks) ==
    IF StartsAtGenesis(blocks) \/ LinksToChain(chain, blocks) THEN <<>>
    ELSE IF HasGap(chain, blocks)
    THEN <<RangeRequest(Back(chain).index + 1, Back(blocks).index)>>
    ELSE <<RangeRequest(blocks[1].index - 1, Back(blocks).index)>>

(***************************************************************************)
(* syncBlockchain: what becomes of the local chain when the cached update   *)
(* is applied.  Nothing is compared again before it is.                     *)
(***************************************************************************)
TooFarAhead(chain, temp) == temp[1].index > Back(chain).index + 1

Extends(chain, temp) == temp[1].index = Back(chain).index + 1

Synced(chain, temp) ==
    CASE StartsAtGenesis(temp) -> temp
      [] TooFarAhead(chain, temp) -> chain
      [] Extends(chain, temp) -> AddBlocks(chain, temp)
      [] OTHER -> AddBlocks(Resize(chain, temp[1].index), temp)
=============================================================================
