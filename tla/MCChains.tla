------------------------------ MODULE MCChains ------------------------------
(***************************************************************************)
(* The chains that the model-checked instances start from and that peers     *)
(* hold.  Blocks mined elsewhere have negative ids.                          *)
(***************************************************************************)
EXTENDS Blockchain, TLC

CONSTANTS p1, p2, p3, n1, n2

Difficulty == 1
GrowAt(chain, id, difficulty) ==
    Append(chain, MinedBlock(UnminedBlock(chain, <<>>, difficulty), -id))
Grow(chain, id) == GrowAt(chain, id, Difficulty)

Gen    == <<GenesisBlock(1)>>
Shared == Grow(Gen, 1)                          \* the chain most start from: #0, #1
Easy   == GrowAt(Gen, 13, 0)                   \* #1 was mined at difficulty 0
Ahead2 == Grow(Shared, 2)                       \* somebody mined #2
Ahead3 == Grow(Ahead2, 3)                       \* and #3
Fork4  == Grow(Grow(Grow(Shared, 4), 5), 6)     \* another #2 to #4
Deep3  == Grow(Grow(Grow(Gen, 7), 8), 9)        \* another #1 to #3
Alien3 == Grow(Grow(Grow(<<GenesisBlock(2)>>, 10), 11), 12)

\* What the peers of one node hold.
RacingPeer   == p1 :> {Ahead2, Ahead3, Fork4}
GrowingPeer  == p1 :> {Ahead2, Ahead3}
DeepPeer     == p1 :> {Deep3}
MiningPeers  == (p1 :> {Ahead3}) @@ (p2 :> {Fork4}) @@ (p3 :> {Alien3})
NoPeers      == [h \in {} |-> {}]

\* What the nodes of a network start with, and who connects to whom.
TwoShared   == (n1 :> Shared) @@ (n2 :> Shared)
TwoAlien    == (n1 :> Alien3) @@ (n2 :> Fork4)

OneWay   == {<<n1, n2>>}
BothWays == {<<n1, n2>>, <<n2, n1>>}
=============================================================================
