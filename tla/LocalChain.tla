----------------------------- MODULE LocalChain -----------------------------
(***************************************************************************)
(* What a node promises about its chain, without threads, mutex and file:   *)
(* the chain grows by one mined block, or adopts a waiting update, a whole   *)
(* chain at once and another one block by block.  An update that has been    *)
(* begun is given up only when its next block does not link to the chain,    *)
(* and so only when a block was mined in between.  MinerApp implements this  *)
(* (ImplementsLocalChain).                                                  *)
(***************************************************************************)
EXTENDS ChainProtocol

VARIABLES
    chain,     \* the local chain
    update,    \* the update that waits to be adopted, <<>> for none
    position   \* which of its blocks is next, 0 before it is begun

Init == HonestChain(chain) /\ update = <<>> /\ position = 0

\* A block is added that links to the chain and has the next index.
Mine ==
    /\ chain' = Append(chain, Back(chain'))
    /\ CanAddBlock(chain, Back(chain'))
    /\ Back(chain').index = Len(chain)
    /\ UNCHANGED <<update, position>>

\* An update that attaches to the chain, or replaces it, waits from now on.
Offer ==
    /\ position = 0
    /\ IsSegment(update')
    /\ StartsAtGenesis(update') \/ LinksToChain(chain, update')
    /\ UNCHANGED <<chain, position>>

\* An update from the genesis block on takes the place of the chain.
Replace ==
    /\ update # <<>> /\ StartsAtGenesis(update)
    /\ chain' = update
    /\ update' = <<>>
    /\ UNCHANGED position

\* Another one takes the place of the blocks from its first index on.
Begin ==
    /\ update # <<>> /\ ~StartsAtGenesis(update)
    /\ position = 0
    /\ chain' = SubSeq(chain, 1, update[1].index)
    /\ position' = 1
    /\ UNCHANGED update

UpdateLinks == CanAddBlock(chain, update[position])

Take ==
    /\ position \in 1..Len(update) /\ UpdateLinks
    /\ chain' = Append(chain, update[position])
    /\ position' = position + 1
    /\ UNCHANGED update

\* This block is passed over; the next one may be the last.
PassOver ==
    /\ position \in 1..Len(update) /\ ~UpdateLinks
    /\ position' = position + 1
    /\ UNCHANGED <<chain, update>>

\* All blocks were taken or passed over, or all of them are given up at once.
Finish ==
    /\ position # 0
    /\ position \in 1..Len(update) => ~UpdateLinks
    /\ update' = <<>> /\ position' = 0
    /\ UNCHANGED chain

Next == Mine \/ Offer \/ Replace \/ Begin \/ Take \/ PassOver \/ Finish

Spec == Init /\ [][Next]_<<chain, update, position>>
=============================================================================
