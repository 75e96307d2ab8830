---------------------------- MODULE MinerNetwork ----------------------------
(***************************************************************************)
(* Several nodes that run the chain protocol of ChainProtocol with each      *)
(* other, over connections that deliver in order and may be cut.            *)
(*                                                                         *)
(* A node is coarser here than in MinerApp: handling a message with what     *)
(* follows it, and mining a block with the sync and the broadcast that       *)
(* follow it, are single steps.  What MinerApp's finer steps can do to one    *)
(* node is checked there; here it is what nodes do to each other.            *)
(***************************************************************************)
EXTENDS ChainProtocol, SequencesExt

CONSTANTS
    Nodes,
    Links,        \* <<client, server>>: the server is in the client's peers file
    InitChains,   \* [Nodes -> chains]
    AutoStart,    \* the nodes that mine from the start
    ResetEnable,  \* the nodes with chain.reset.enable
    NDEBUG,       \* TRUE when assertions are compiled out
    MaxHeight,    \* bound: nobody mines a block beyond this index
    MaxCuts       \* bound: number of times a connection is lost

ASSUME MinerNetworkAssumption ==
    /\ Links \subseteq {l \in Nodes \X Nodes : l[1] # l[2]}
    /\ AutoStart \subseteq Nodes /\ ResetEnable \subseteq Nodes
    /\ InitChains \in [Nodes -> Seq(Block)]
    /\ \A n \in Nodes : HonestChain(InitChains[n])
    /\ NDEBUG \in BOOLEAN
    /\ MaxHeight \in Nat /\ MaxCuts \in Nat

\* What CumDifficulty adds up is never negative.
ASSUME WeightAssumption == \A d \in 0..UINT64_MAX : 2^d \in Nat

VARIABLES
    chain,     \* per node, its _blockchain
    temp,      \* per node, its _tempchain, <<>> for null
    mining,    \* the nodes whose mining thread runs
    channel,   \* per link and receiving end, the messages under way
    up,        \* the links that are connected
    dead,      \* the nodes whose process has died
    minted,    \* number of blocks mined by all nodes, which also names them
    cuts       \* number of connections lost

vars == <<chain, temp, mining, channel, up, dead, minted, cuts>>

Ends(l) == {l[1], l[2]}
Other(l, n) == IF n = l[1] THEN l[2] ELSE l[1]

AsRequest(request)    == [type |-> "request", message |-> request.message, body |-> request.ids]
Response(message, body) == [type |-> "response", message |-> message, body |-> body]

\* The announcement of a node's last block.
Announcement(c) ==
    [type |-> "request", message |-> "newblock",
     body |-> [block |-> Back(c), cumdiff |-> CumDifficulty(c)]]

Inbox == {box \in Links \X Nodes : box[2] \in Ends(box[1])}

\* connectAll's callback: the client asks for a summary.
Opened(l) == [n \in Ends(l) |-> IF n = l[2] THEN <<AsRequest(SummaryRequest)>> ELSE <<>>]

Init ==
    /\ chain = InitChains
    /\ temp = [n \in Nodes |-> <<>>]
    /\ mining = AutoStart
    /\ channel = [box \in Inbox |-> Opened(box[1])[box[2]]]
    /\ up = Links
    /\ dead = {}
    /\ minted = 0
    /\ cuts = 0

-----------------------------------------------------------------------------
(* The mining thread. *)

\* syncBlockchain, with a null check.
Updated(c, t) == IF t = <<>> THEN c ELSE Synced(c, t)

\* syncBlockchain reports no change: the block is broadcast.
Unchanged(c, t) == t = <<>> \/ TooFarAhead(c, t)

\* broadcast: to the peers this node connected to, not to those that
\* connected to it.
Broadcast(n, c) ==
    [box \in Inbox |->
        IF box[1] \in up /\ n = box[1][1] /\ box[2] = box[1][2]
        THEN Append(channel[box], Announcement(c)) ELSE channel[box]]

MineBlock(n) ==
    /\ n \in mining \ dead
    /\ Len(chain[n]) <= MaxHeight
    /\ \E difficulty \in AdjustedDifficulties(chain[n]) \ {UINT64_MAX} :
         LET c == AddNewBlock(chain[n], MinedBlock(
                      UnminedBlock(chain[n], <<>>, difficulty), minted + 1))
         IN  /\ chain' = [chain EXCEPT ![n] = Updated(c, temp[n])]
             /\ channel' = IF Unchanged(c, temp[n]) THEN Broadcast(n, c) ELSE channel
    /\ temp' = [temp EXCEPT ![n] = <<>>]
    /\ minted' = minted + 1
    /\ UNCHANGED <<mining, up, dead, cuts>>

\* keepMiningCallback gives up the block, and the update is applied.
Overtaken(n) ==
    /\ n \in mining \ dead
    /\ temp[n] # <<>>
    /\ Back(temp[n]).index >= Len(chain[n])
    /\ chain' = [chain EXCEPT ![n] = Updated(chain[n], temp[n])]
    /\ temp' = [temp EXCEPT ![n] = <<>>]
    /\ UNCHANGED <<mining, channel, up, dead, minted, cuts>>

\* REST stopMining: the abort makes the mining thread sync before it ends.
StopMining(n) ==
    /\ n \in mining \ dead
    /\ mining' = mining \ {n}
    /\ chain' = [chain EXCEPT ![n] = Updated(chain[n], temp[n])]
    /\ temp' = [temp EXCEPT ![n] = <<>>]
    /\ UNCHANGED <<channel, up, dead, minted, cuts>>

-----------------------------------------------------------------------------
(* Messages: dispatchRequest and handleResponse. *)

\* Node n takes the first message of link l and sends back the others.
Taken(l, n, replies) ==
    [channel EXCEPT ![<<l, n>>] = Tail(@),
                    ![<<l, Other(l, n)>>] = @ \o replies]

First(l, n, type, message) ==
    /\ l \in up /\ n \notin dead
    /\ channel[<<l, n>>] # <<>>
    /\ Head(channel[<<l, n>>]).type = type
    /\ Head(channel[<<l, n>>]).message = message

Body(l, n) == Head(channel[<<l, n>>]).body

OnSummaryRequest(l, n) ==
    /\ First(l, n, "request", "summary")
    /\ channel' = Taken(l, n, <<Response("summary", SummaryReply(chain[n]))>>)
    /\ UNCHANGED <<chain, temp, mining, up, dead, minted, cuts>>

OnChainRequest(l, n) ==
    /\ First(l, n, "request", "chain")
    /\ channel' = Taken(l, n, <<Response("chain", ChainReply(chain[n], Body(l, n)))>>)
    /\ UNCHANGED <<chain, temp, mining, up, dead, minted, cuts>>

OnNewBlock(l, n) ==
    /\ First(l, n, "request", "newblock")
    /\ channel' = Taken(l, n,
           IF WantsSummary(chain[n], Body(l, n).block, Body(l, n).cumdiff)
           THEN <<AsRequest(SummaryRequest)>>
           ELSE <<Response("newblock", <<>>)>>)
    /\ UNCHANGED <<chain, temp, mining, up, dead, minted, cuts>>

MutantFinishNoSync(n, t) == temp' = [temp EXCEPT ![n] = t] /\ UNCHANGED chain

\* The end of handleResponse: a node that does not mine applies its update t.
Finish(n, t) ==
    IF n \in mining
    THEN temp' = [temp EXCEPT ![n] = t] /\ UNCHANGED chain
    ELSE /\ temp' = [temp EXCEPT ![n] = <<>>]
         /\ chain' = [chain EXCEPT ![n] = Updated(@, t)]

OnSummaryResponse(l, n) ==
    /\ First(l, n, "response", "summary")
    /\ LET requests == SummaryRequests(chain[n], temp[n], n \in ResetEnable, Body(l, n))
       IN  channel' = Taken(l, n, [i \in 1..Len(requests) |-> AsRequest(requests[i])])
    /\ Finish(n, temp[n])
    /\ UNCHANGED <<mining, up, dead, minted, cuts>>

OnNewBlockResponse(l, n) ==
    /\ First(l, n, "response", "newblock")
    /\ channel' = Taken(l, n, <<>>)
    /\ Finish(n, temp[n])
    /\ UNCHANGED <<mining, up, dead, minted, cuts>>

\* A response without blocks, or one that fails the assertion, ends the
\* process that receives it.
Fatal(c, blocks) ==
    IF blocks = <<>> THEN TRUE
    ELSE ~NDEBUG /\ IsValidChain(blocks) /\ ~AlignmentAssert(c, blocks)

OnChainResponse(l, n) ==
    /\ First(l, n, "response", "chain")
    /\ ~Fatal(chain[n], Body(l, n))
    /\ IF IsValidChain(Body(l, n))
       THEN LET requests == ChainRequests(chain[n], Body(l, n))
            IN  /\ channel' = Taken(l, n, [i \in 1..Len(requests) |-> AsRequest(requests[i])])
                /\ Finish(n, Cached(chain[n], temp[n], Body(l, n)))
       ELSE channel' = Taken(l, n, <<>>) /\ UNCHANGED <<chain, temp>>
    /\ UNCHANGED <<mining, up, dead, minted, cuts>>

Die(l, n) ==
    /\ First(l, n, "response", "chain")
    /\ Fatal(chain[n], Body(l, n))
    /\ dead' = dead \cup {n}
    /\ UNCHANGED <<chain, temp, mining, channel, up, minted, cuts>>

Receive(l, n) ==
    \/ OnSummaryRequest(l, n)
    \/ OnChainRequest(l, n)
    \/ OnNewBlock(l, n)
    \/ OnSummaryResponse(l, n)
    \/ OnNewBlockResponse(l, n)
    \/ OnChainResponse(l, n)

-----------------------------------------------------------------------------
(* Connections: a lost one loses what was under way; ReconnectWorker opens   *)
(* it again, which asks for a summary again.                                *)

Cut(l) ==
    /\ l \in up
    /\ cuts < MaxCuts
    /\ cuts' = cuts + 1
    /\ up' = up \ {l}
    /\ channel' = [box \in Inbox |-> IF box[1] = l THEN <<>> ELSE channel[box]]
    /\ UNCHANGED <<chain, temp, mining, dead, minted>>

Reconnect(l) ==
    /\ l \notin up
    /\ Ends(l) \cap dead = {}
    /\ up' = up \cup {l}
    /\ channel' = [box \in Inbox |-> IF box[1] = l THEN Opened(l)[box[2]] ELSE channel[box]]
    /\ UNCHANGED <<chain, temp, mining, dead, minted, cuts>>

Next ==
    \/ \E n \in Nodes : MineBlock(n) \/ Overtaken(n) \/ StopMining(n)
    \/ \E box \in Inbox : Receive(box[1], box[2]) \/ Die(box[1], box[2])
    \/ \E l \in Links : Cut(l) \/ Reconnect(l)

Spec == Init /\ [][Next]_vars

(***************************************************************************)
(* Messages that are not lost arrive, connections are retried, and a node    *)
(* that an update has overtaken notices.  Nobody has to find a block.        *)
(***************************************************************************)
Fairness ==
    /\ \A box \in Inbox : WF_vars(Receive(box[1], box[2]))
    /\ \A n \in Nodes : WF_vars(Overtaken(n))
    /\ \A l \in Links : WF_vars(Reconnect(l))

FairSpec == Spec /\ Fairness

-----------------------------------------------------------------------------
(* Properties. *)

\* Every node's chain is valid and begins with a genesis block, and an update
\* that waits for a node's mining thread still attaches to the node's chain.
NodesConsistent ==
    \A n \in Nodes :
        /\ StartsAtGenesis(chain[n]) /\ IsValidChain(chain[n])
        /\ temp[n] # <<>> =>
               StartsAtGenesis(temp[n]) \/ LinksToChain(chain[n], temp[n])

\* No node's process dies of a message that another node sends.
NodesSurvive == dead = {}

\* "A single chain is synced across a peer-to-peer network": in the end the
\* nodes agree on the chain.
NodesAgree == <>[](dead # {} \/ \A m, n \in Nodes : chain[m] = chain[n])
-----------------------------------------------------------------------------
(* The inductive invariant behind NodesConsistent; the proofs are in         *)
(* MinerNetworkProofs.                                                     *)

\* Every node's chain is one that nodes build.
ChainsInv ==
    /\ chain \in [Nodes -> Seq(Block)]
    /\ \A n \in Nodes : HonestChain(chain[n])

\* So is every update, and it attaches to its node's chain.
Attached(c, t) == t # <<>> => IsSegment(t) /\ (StartsAtGenesis(t) \/ LinksToChain(c, t))

UpdatesInv ==
    /\ temp \in [Nodes -> Seq(Block)]
    /\ \A n \in Nodes : Attached(chain[n], temp[n])

\* What a message carries, however long it has been under way: a request for
\* blocks that may exist, a list of consecutive mined blocks, or none.
WellFormed(m) ==
    /\ m.type = "request" /\ m.message = "chain" => m.body \in {<<>>} \cup (Nat \X Nat)
    /\ m.type = "response" /\ m.message = "summary" => m.body.back.index \in Nat
    /\ m.type = "response" /\ m.message = "chain" => m.body = <<>> \/ IsSegment(m.body)

Queue(s) ==
    /\ s \in Seq({s[i] : i \in DOMAIN s})
    /\ \A i \in 1..Len(s) : WellFormed(s[i])

MessagesInv ==
    /\ DOMAIN channel = Inbox
    /\ \A box \in Inbox : Queue(channel[box])

\* Together they are inductive.
NetInv == ChainsInv /\ UpdatesInv /\ MessagesInv /\ minted \in Nat

-----------------------------------------------------------------------------
(* When NodesSurvive and SingleChain hold: one node mines, and the others,     *)
(* which are connected to it alone, follow it.  They start with a beginning   *)
(* of its chain, and where assertions are compiled in with two blocks of it:  *)
(* a response that begins with block 1 fails the one in handleChainResponse.  *)
(* A node with two connections may apply a late response that makes its chain *)
(* shorter; one that followed it would then be answered without blocks.      *)

Shortest == IF NDEBUG THEN 1 ELSE 2

OneMiner(m) ==
    /\ m \in Nodes /\ AutoStart \subseteq {m}
    /\ \A l \in Links : m \in Ends(l)
    /\ \A n \in Nodes : /\ Len(InitChains[n]) >= Shortest
                        /\ IsPrefix(InitChains[n], InitChains[m])

\* The ranges of blocks that are asked for: they are in the miner's chain c.
Ranges(c) ==
    {ids \in (Shortest..(Len(c) - 1)) \X (Shortest..(Len(c) - 1)) : ids[1] <= ids[2]}

\* What node n may have to receive while c is the chain of the miner m: the miner
\* never gets blocks, and what the others get is from its chain.
Expected(c, m, n, msg) ==
    /\ msg.type = "request" /\ msg.message = "chain" => n = m /\ msg.body \in Ranges(c)
    /\ msg.type = "response" /\ msg.message = "summary" =>
           \E k \in 1..Len(c) : msg.body = SummaryReply(SubSeq(c, 1, k))
    /\ msg.type = "response" /\ msg.message = "chain" =>
           n # m /\ \E ids \in Ranges(c) : msg.body = BlockRange(c, ids[1], ids[2])

AllExpected(c, m, n, msgs) == \A i \in 1..Len(msgs) : Expected(c, m, n, msgs[i])

\* Where one node mines, nobody else's chain branches off: they are beginnings of one
\* chain, although handleChainResponse can make the chain of a node shorter.
SingleChain == \E m \in Nodes : \A n \in Nodes : IsPrefix(chain[n], chain[m])

\* The inductive invariant: every chain is a beginning of the miner's.
FollowInv(m) ==
    /\ mining \subseteq {m} /\ dead = {}
    /\ temp = [n \in Nodes |-> <<>>]
    /\ \A n \in Nodes : Len(chain[n]) >= Shortest /\ IsPrefix(chain[n], chain[m])
    /\ \A box \in Inbox : AllExpected(chain[m], m, box[2], channel[box])
=============================================================================
