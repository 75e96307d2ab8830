------------------------- MODULE MinerNetworkProofs -------------------------
(***************************************************************************)
(* Proofs about several nodes: NetInv is an inductive invariant of           *)
(* MinerNetwork, for any nodes, links, chains and settings.                  *)
(***************************************************************************)
EXTENDS MinerNetwork, ChainProofs, Sums, SequenceTheorems

-----------------------------------------------------------------------------
(* Queues of messages. *)

\* A sequence of well-formed messages is a queue.
LEMMA QueueOf ==
    ASSUME NEW S, NEW s \in Seq(S), \A i \in 1..Len(s) : WellFormed(s[i])
    PROVE  Queue(s)
  <1>1. DOMAIN s = 1..Len(s) /\ Len(s) \in Nat
    OBVIOUS
  <1>2. s \in Seq({s[i] : i \in DOMAIN s})
    <2> DEFINE T == {s[i] : i \in 1..Len(s)}
    <2>1. \A i \in 1..Len(s) : s[i] \in T
      OBVIOUS
    <2> HIDE DEF T
    <2>2. s \in [1..Len(s) -> T]
      BY <2>1
    <2>3. s \in Seq(T)
      BY <1>1, <2>2, SeqDef
    <2> USE DEF T
    <2> QED
      BY <1>1, <2>3
  <1> QED
    BY <1>2 DEF Queue

\* No message is a queue, and so is one.
LEMMA QueueShort ==
    /\ Queue(<<>>)
    /\ \A m : WellFormed(m) => Queue(<<m>>)
  <1>1. Queue(<<>>)
    <2>1. <<>> \in Seq({}) /\ \A i \in 1..Len(<<>>) : WellFormed(<<>>[i])
      OBVIOUS
    <2> QED
      BY <2>1, QueueOf
  <1>2. ASSUME NEW m, WellFormed(m)
        PROVE  Queue(<<m>>)
    <2>1. <<m>> \in Seq({m}) /\ Len(<<m>>) = 1 /\ <<m>>[1] = m
      OBVIOUS
    <2>2. \A i \in 1..Len(<<m>>) : WellFormed(<<m>>[i])
      BY <1>2, <2>1
    <2> QED
      BY <2>1, <2>2, QueueOf
  <1> QED
    BY <1>1, <1>2

\* Messages are added at the end of a queue.
LEMMA QueueConcat ==
    ASSUME NEW s, Queue(s), NEW r, Queue(r)
    PROVE  Queue(s \o r)
  <1> DEFINE S == {s[i] : i \in DOMAIN s} \cup {r[i] : i \in DOMAIN r}
  <1>1. /\ s \in Seq({s[i] : i \in DOMAIN s})
        /\ r \in Seq({r[i] : i \in DOMAIN r})
    BY DEF Queue
  <1>2. s \in Seq(S) /\ r \in Seq(S)
    <2>1. {s[i] : i \in DOMAIN s} \subseteq S /\ {r[i] : i \in DOMAIN r} \subseteq S
      OBVIOUS
    <2> QED
      BY <1>1, <2>1, SeqMonotonic
  <1> HIDE DEF S
  <1>3. s \o r \in Seq(S) /\ Len(s \o r) = Len(s) + Len(r)
    BY <1>2
  <1>4. ASSUME NEW i \in 1..Len(s \o r)
        PROVE  WellFormed((s \o r)[i])
    <2>1. CASE i <= Len(s)
      BY <1>2, <1>3, <2>1 DEF Queue
    <2>2. CASE i > Len(s)
      <3>1. i - Len(s) \in 1..Len(r) /\ (s \o r)[i] = r[i - Len(s)]
        BY <1>2, <1>3, <2>2
      <3> QED
        BY <3>1 DEF Queue
    <2> QED
      BY <1>2, <1>3, <2>1, <2>2
  <1> QED
    BY <1>3, <1>4, QueueOf

\* A connection stays well formed when a message is sent on it.
LEMMA QueueAppend ==
    ASSUME NEW s, Queue(s), NEW m, WellFormed(m)
    PROVE  Queue(Append(s, m))
  <1>1. s \in Seq({s[i] : i \in DOMAIN s})
    BY DEF Queue
  <1> DEFINE S == {s[i] : i \in DOMAIN s} \cup {m}
  <1>2. s \in Seq(S) /\ m \in S
    BY <1>1, SeqMonotonic
  <1> HIDE DEF S
  <1>3. Append(s, m) = s \o <<m>>
    BY <1>2, AppendIsConcat
  <1> QED
    BY <1>3, QueueConcat, QueueShort

\* Taking the first message leaves a queue, and the message is well formed.
LEMMA QueueTake ==
    ASSUME NEW s, Queue(s), s # <<>>
    PROVE  WellFormed(Head(s)) /\ Queue(Tail(s))
  <1> DEFINE S == {s[i] : i \in DOMAIN s}
  <1>1. s \in Seq(S)
    BY DEF Queue
  <1> HIDE DEF S
  <1>2. /\ Len(s) \in Nat /\ Len(s) >= 1
        /\ Head(s) = s[1]
        /\ Tail(s) \in Seq(S) /\ Len(Tail(s)) = Len(s) - 1
        /\ \A i \in 1..Len(Tail(s)) : Tail(s)[i] = s[i + 1]
    BY <1>1, HeadTailProperties
  <1>3. \A i \in 1..Len(Tail(s)) : WellFormed(Tail(s)[i])
    <2>1. \A i \in 1..Len(Tail(s)) : i + 1 \in 1..Len(s)
      BY <1>2
    <2> QED
      BY <1>2, <2>1 DEF Queue
  <1>4. 1 \in 1..Len(s)
    BY <1>2
  <1> QED
    BY <1>2, <1>3, <1>4, QueueOf DEF Queue

\* Requests that are sent as they are decided on are well formed.
LEMMA QueueRequests ==
    ASSUME NEW requests \in Seq(Request)
    PROVE  Queue([i \in 1..Len(requests) |-> AsRequest(requests[i])])
  <1> DEFINE s == [i \in 1..Len(requests) |-> AsRequest(requests[i])]
             S == {AsRequest(r) : r \in Request}
  <1>1. Len(requests) \in Nat /\ \A i \in 1..Len(requests) : AsRequest(requests[i]) \in S
    OBVIOUS
  <1>2. s \in Seq(S) /\ Len(s) = Len(requests)
    BY <1>1, IsASeq
  <1>3. ASSUME NEW i \in 1..Len(s)
        PROVE  WellFormed(s[i])
    <2>1. requests[i] \in Request /\ s[i] = AsRequest(requests[i])
      BY <1>1, <1>2
    <2>2. requests[i].ids \in {<<>>} \cup (Nat \X Nat)
      BY <2>1 DEF Request
    <2> QED
      BY <2>1, <2>2 DEF AsRequest, WellFormed
  <1> QED
    BY <1>2, <1>3, QueueOf

-----------------------------------------------------------------------------
(* Chains and updates. *)

\* A chain that grows keeps the block that an update links to.
LEMMA AttachedAppend ==
    ASSUME NEW c, HonestChain(c), NEW b \in Block, NEW t, Attached(c, t)
    PROVE  Attached(Append(c, b), t)
  <1>1. c \in Seq(Block) /\ Len(c) \in Nat
    BY HonestBack
  <1>2. LinksToChain(c, t) => LinksToChain(Append(c, b), t)
    BY <1>1 DEF LinksToChain
  <1> QED
    BY <1>2 DEF Attached

\* syncBlockchain, with a null check, keeps a chain honest.
LEMMA UpdatedHonest ==
    ASSUME NEW c, HonestChain(c), NEW t, Attached(c, t)
    PROVE  HonestChain(Updated(c, t))
  BY SyncedWhole DEF Updated, Attached

\* A list of blocks is only cached when it attaches.
LEMMA CachedAttached ==
    ASSUME NEW c, NEW t, Attached(c, t), NEW u, IsSegment(u)
    PROVE  Attached(c, Cached(c, t, u))
  BY DEF Attached, Cached

\* An update is a sequence of blocks.
LEMMA AttachedType ==
    ASSUME NEW c, NEW t, Attached(c, t)
    PROVE  t \in Seq(Block)
  <1>1. <<>> \in Seq(Block)
    OBVIOUS
  <1> QED
    BY <1>1, SegmentSeq DEF Attached

\* With the mining thread running or not, the end of a handler leaves honest
\* chains and updates that attach.
LEMMA FinishInv ==
    ASSUME ChainsInv, UpdatesInv, NEW n \in Nodes, NEW t, Attached(chain[n], t), Finish(n, t)
    PROVE  ChainsInv' /\ UpdatesInv'
  <1>1. t \in Seq(Block) /\ <<>> \in Seq(Block) /\ Attached(chain[n], <<>>)
    BY AttachedType DEF Attached
  <1>2. CASE n \in mining
    BY <1>1, <1>2 DEF Finish, ChainsInv, UpdatesInv
  <1>3. CASE n \notin mining
    <2>1. /\ temp' = [temp EXCEPT ![n] = <<>>]
          /\ chain' = [chain EXCEPT ![n] = Updated(chain[n], t)]
      BY <1>3 DEF Finish
    <2>2. HonestChain(Updated(chain[n], t)) /\ Updated(chain[n], t) \in Seq(Block)
      BY UpdatedHonest, HonestBack DEF ChainsInv
    <2>3. \A c : Attached(c, <<>>)
      BY DEF Attached
    <2> QED
      BY <1>1, <2>1, <2>2, <2>3 DEF ChainsInv, UpdatesInv
  <1> QED
    BY <1>2, <1>3

-----------------------------------------------------------------------------
(* Channels. *)

\* The two ends of a link are different, and each has an inbox.
LEMMA InboxFacts ==
    ASSUME NEW box \in Inbox
    PROVE  /\ box = <<box[1], box[2]>>
           /\ box[1] \in Links /\ box[2] \in Nodes
           /\ Other(box[1], box[2]) # box[2]
           /\ <<box[1], Other(box[1], box[2])>> \in Inbox
  BY MinerNetworkAssumption DEF Inbox, Ends, Other

\* Receiving a message and answering it leaves queues.
LEMMA TakenInv ==
    ASSUME MessagesInv, NEW l, NEW n, <<l, n>> \in Inbox, channel[<<l, n>>] # <<>>,
           NEW replies, Queue(replies), channel' = Taken(l, n, replies)
    PROVE  MessagesInv'
  <1> DEFINE here  == <<l, n>>
             there == <<l, Other(l, n)>>
  <1>1. here # there /\ here \in Inbox /\ there \in Inbox
    BY InboxFacts
  <1>2. channel' = [channel EXCEPT ![here] = Tail(@), ![there] = @ \o replies]
    BY DEF Taken
  <1> HIDE DEF here, there
  <1>3. Queue(Tail(channel[here])) /\ Queue(channel[there] \o replies)
    BY <1>1, QueueTake, QueueConcat DEF MessagesInv, here
  <1>4. \A box \in Inbox : \/ channel'[box] = channel[box]
                            \/ channel'[box] = Tail(channel[here])
                            \/ channel'[box] = channel[there] \o replies
    BY <1>1, <1>2 DEF MessagesInv
  <1> QED
    BY <1>2, <1>3, <1>4 DEF MessagesInv

\* The message that is taken is well formed.
LEMMA FirstWellFormed ==
    ASSUME MessagesInv, NEW l, NEW n, NEW type, NEW message, <<l, n>> \in Inbox,
           First(l, n, type, message)
    PROVE  /\ channel[<<l, n>>] # <<>>
           /\ WellFormed(Head(channel[<<l, n>>]))
           /\ Head(channel[<<l, n>>]).type = type
           /\ Head(channel[<<l, n>>]).message = message
           /\ Body(l, n) = Head(channel[<<l, n>>]).body
  BY QueueTake DEF MessagesInv, First, Body

\* A connection that is opened has queues at both ends.
LEMMA OpenedQueue ==
    ASSUME NEW box \in Inbox
    PROVE  Queue(Opened(box[1])[box[2]])
  <1>1. WellFormed(AsRequest(SummaryRequest))
    BY DEF WellFormed, AsRequest, SummaryRequest
  <1>2. box[2] \in Ends(box[1])
    BY DEF Inbox
  <1> QED
    BY <1>1, <1>2, QueueShort DEF Opened

\* So do the channels to the peers that a block is announced to.
LEMMA BroadcastNet ==
    ASSUME MessagesInv, NEW n, NEW c, channel' = channel \/ channel' = Broadcast(n, c)
    PROVE  MessagesInv'
  <1>1. WellFormed(Announcement(c))
    BY DEF WellFormed, Announcement
  <1>2. \A box \in Inbox : Queue(Append(channel[box], Announcement(c)))
    BY <1>1, QueueAppend DEF MessagesInv
  <1>3. CASE channel' = channel
    BY <1>3 DEF MessagesInv
  <1>4. CASE channel' = Broadcast(n, c)
    BY <1>2, <1>4 DEF MessagesInv, Broadcast
  <1> QED
    BY <1>3, <1>4

\* A node replaces its chain by another honest one that its update is applied to.
LEMMA ReplaceNet ==
    ASSUME ChainsInv, UpdatesInv, NEW n \in Nodes, NEW c, HonestChain(c), Attached(c, temp[n]),
           chain' = [chain EXCEPT ![n] = Updated(c, temp[n])],
           temp' = [temp EXCEPT ![n] = <<>>]
    PROVE  ChainsInv' /\ UpdatesInv'
  <1>1. HonestChain(Updated(c, temp[n])) /\ Updated(c, temp[n]) \in Seq(Block)
    BY UpdatedHonest, HonestBack
  <1>2. <<>> \in Seq(Block) /\ \A d : Attached(d, <<>>)
    BY DEF Attached
  <1> QED
    BY <1>1, <1>2 DEF ChainsInv, UpdatesInv

\* A summary's requests are well formed when the index it ends with is a number.
LEMMA SummaryRequestsOf ==
    ASSUME NEW c, HonestChain(c), NEW t, t # <<>> => IsSegment(t), NEW resetEnable,
           NEW reply, reply.back.index \in Nat
    PROVE  SummaryRequests(c, t, resetEnable, reply) \in Seq(Request)
  <1> DEFINE known == IF t = <<>> THEN c ELSE t
             i == Back(known).index + 1
             j == reply.back.index
  <1>1. i \in Nat /\ j \in Nat
    <2>1. IsSegment(known)
      BY DEF HonestChain
    <2>2. Back(known).index \in Nat
      BY <2>1, SegmentSeq
    <2> QED
      BY <2>2
  <1>2. ChainRequest \in Request /\ RangeRequest(i, j) \in Request
    BY <1>1 DEF ChainRequest, RangeRequest, Request
  <1>3. <<>> \in Seq(Request) /\ <<ChainRequest>> \in Seq(Request)
        /\ <<RangeRequest(i, j)>> \in Seq(Request)
    BY <1>2
  <1> HIDE DEF i, j
  <1> QED
    BY <1>3 DEF SummaryRequests, i, j

-----------------------------------------------------------------------------
(* The steps. *)

\* At the start every channel is empty or asks for a summary.
LEMMA InitNet ==
    ASSUME Init
    PROVE  NetInv
  <1>1. ChainsInv
    BY MinerNetworkAssumption DEF Init, ChainsInv
  <1>2. UpdatesInv
    <2>1. <<>> \in Seq(Block)
      OBVIOUS
    <2> QED
      BY <2>1 DEF Init, UpdatesInv, Attached
  <1>3. MessagesInv
    BY OpenedQueue DEF Init, MessagesInv
  <1> QED
    BY <1>1, <1>2, <1>3 DEF Init, NetInv

\* A block that the miner finds is added, and then the update is applied.
LEMMA MineBlockNet ==
    ASSUME NetInv, NEW n \in Nodes, MineBlock(n)
    PROVE  NetInv'
  <1> DEFINE b(d) == MinedBlock(UnminedBlock(chain[n], <<>>, d), minted + 1)
  <1>1. PICK d \in AdjustedDifficulties(chain[n]) :
          /\ chain' = [chain EXCEPT ![n] = Updated(AddNewBlock(chain[n], b(d)), temp[n])]
          /\ channel' = IF Unchanged(AddNewBlock(chain[n], b(d)), temp[n])
                        THEN Broadcast(n, AddNewBlock(chain[n], b(d))) ELSE channel
    BY DEF MineBlock
  <1>2. HonestChain(chain[n]) /\ Attached(chain[n], temp[n]) /\ minted + 1 \in Nat
    BY DEF NetInv, ChainsInv, UpdatesInv
  <1>3. b(d) \in Block /\ b(d).prev[1] = b(d).index - 1 /\ b(d).hash[1] = b(d).index
    <2> DEFINE u == UnminedBlock(chain[n], <<>>, d)
    <2>1. d \in 0..UINT64_MAX /\ <<>> \in Seq(Txs)
      BY <1>1, <1>2, AdjustedType
    <2>2. u \in Block /\ u.prev[1] = u.index - 1
      BY <1>2, <2>1, UnminedType
    <2> HIDE DEF u
    <2> QED
      BY <1>2, <2>2, MinedType DEF u
  <1> DEFINE c == AddNewBlock(chain[n], b(d))
  <1>4. HonestChain(c) /\ Attached(c, temp[n])
    <2> HIDE DEF b
    <2>1. CASE CanAddBlock(chain[n], b(d))
      BY <1>2, <1>3, <2>1, HonestAppend, AttachedAppend DEF AddNewBlock
    <2>2. CASE ~CanAddBlock(chain[n], b(d))
      BY <1>2, <2>2 DEF AddNewBlock
    <2> QED
      BY <2>1, <2>2
  <1>5. /\ chain' = [chain EXCEPT ![n] = Updated(c, temp[n])]
        /\ temp' = [temp EXCEPT ![n] = <<>>]
        /\ minted' = minted + 1
        /\ channel' = channel \/ channel' = Broadcast(n, c)
    BY <1>1 DEF MineBlock
  <1> HIDE DEF c, b
  <1>6. ChainsInv' /\ UpdatesInv'
    BY <1>4, <1>5, ReplaceNet DEF NetInv
  <1>7. MessagesInv'
    BY <1>5, BroadcastNet DEF NetInv
  <1> QED
    BY <1>2, <1>5, <1>6, <1>7 DEF NetInv

\* The update is applied by a mining thread that gives up its block.
LEMMA GiveUpNet ==
    ASSUME NetInv, NEW n \in Nodes, Overtaken(n) \/ StopMining(n)
    PROVE  NetInv'
  <1>1. /\ chain' = [chain EXCEPT ![n] = Updated(chain[n], temp[n])]
        /\ temp' = [temp EXCEPT ![n] = <<>>]
        /\ UNCHANGED <<channel, minted>>
    BY DEF Overtaken, StopMining
  <1>2. HonestChain(chain[n]) /\ Attached(chain[n], temp[n])
    BY DEF NetInv, ChainsInv, UpdatesInv
  <1>3. ChainsInv' /\ UpdatesInv'
    BY <1>1, <1>2, ReplaceNet DEF NetInv
  <1> QED
    BY <1>1, <1>3 DEF NetInv, MessagesInv

\* Answers to requests are lists of consecutive blocks, or have none.
LEMMA RequestNet ==
    ASSUME NetInv, NEW l, NEW n, <<l, n>> \in Inbox,
           OnSummaryRequest(l, n) \/ OnChainRequest(l, n) \/ OnNewBlock(l, n)
    PROVE  NetInv'
  <1>1. n \in Nodes
    BY InboxFacts
  <1>2. HonestChain(chain[n]) /\ MessagesInv
    BY <1>1 DEF NetInv, ChainsInv
  <1>3. UNCHANGED <<chain, temp, minted>>
    BY DEF OnSummaryRequest, OnChainRequest, OnNewBlock
  <1>4. CASE OnSummaryRequest(l, n)
    <2>1. WellFormed(Response("summary", SummaryReply(chain[n])))
      BY <1>2, HonestBack DEF WellFormed, Response, SummaryReply, Block
    <2> QED
      BY <1>2, <1>3, <1>4, <2>1, FirstWellFormed, QueueShort, TakenInv
         DEF OnSummaryRequest, NetInv, ChainsInv, UpdatesInv
  <1>5. CASE OnChainRequest(l, n)
    <2>1. Body(l, n) \in {<<>>} \cup (Nat \X Nat)
      BY <1>2, <1>5, FirstWellFormed DEF OnChainRequest, WellFormed
    <2>2. ChainReply(chain[n], Body(l, n)) = <<>> \/ IsSegment(ChainReply(chain[n], Body(l, n)))
      BY <1>2, <2>1, ReplySegment
    <2>3. WellFormed(Response("chain", ChainReply(chain[n], Body(l, n))))
      BY <2>2 DEF WellFormed, Response
    <2> QED
      BY <1>2, <1>3, <1>5, <2>3, FirstWellFormed, QueueShort, TakenInv
         DEF OnChainRequest, NetInv, ChainsInv, UpdatesInv
  <1>6. CASE OnNewBlock(l, n)
    <2> DEFINE replies == IF WantsSummary(chain[n], Body(l, n).block, Body(l, n).cumdiff)
                          THEN <<AsRequest(SummaryRequest)>>
                          ELSE <<Response("newblock", <<>>)>>
    <2>1. Queue(replies)
      BY QueueShort DEF WellFormed, AsRequest, SummaryRequest, Response
    <2>2. First(l, n, "request", "newblock") /\ channel' = Taken(l, n, replies)
      BY <1>6 DEF OnNewBlock
    <2> HIDE DEF replies
    <2> QED
      BY <1>2, <1>3, <2>1, <2>2, FirstWellFormed, TakenInv
         DEF NetInv, ChainsInv, UpdatesInv
  <1> QED
    BY <1>4, <1>5, <1>6

\* Requests that follow from a summary are well formed; the update is applied by
\* a node that does not mine.
LEMMA SummaryResponseNet ==
    ASSUME NetInv, NEW l, NEW n, <<l, n>> \in Inbox, OnSummaryResponse(l, n)
    PROVE  NetInv'
  <1>1. n \in Nodes
    BY InboxFacts
  <1>2. HonestChain(chain[n]) /\ Attached(chain[n], temp[n]) /\ MessagesInv
    BY <1>1 DEF NetInv, ChainsInv, UpdatesInv
  <1>3. Body(l, n).back.index \in Nat
    BY <1>2, FirstWellFormed DEF OnSummaryResponse, WellFormed
  <1> DEFINE requests == SummaryRequests(chain[n], temp[n], n \in ResetEnable, Body(l, n))
  <1>4. requests \in Seq(Request)
    BY <1>2, <1>3, SummaryRequestsOf DEF Attached
  <1>5. /\ First(l, n, "response", "summary")
        /\ channel' = Taken(l, n, [i \in 1..Len(requests) |-> AsRequest(requests[i])])
        /\ Finish(n, temp[n]) /\ minted' = minted
    BY DEF OnSummaryResponse
  <1> HIDE DEF requests
  <1>6. MessagesInv'
    BY <1>2, <1>4, <1>5, QueueRequests, FirstWellFormed, TakenInv
  <1> QED
    BY <1>1, <1>2, <1>5, <1>6, FinishInv DEF NetInv

\* An empty response only ends the handler.
LEMMA NewBlockResponseNet ==
    ASSUME NetInv, NEW l, NEW n, <<l, n>> \in Inbox, OnNewBlockResponse(l, n)
    PROVE  NetInv'
  <1>1. n \in Nodes
    BY InboxFacts
  <1>2. Attached(chain[n], temp[n]) /\ MessagesInv
    BY <1>1 DEF NetInv, UpdatesInv
  <1>3. /\ First(l, n, "response", "newblock")
        /\ channel' = Taken(l, n, <<>>)
        /\ Finish(n, temp[n]) /\ minted' = minted
    BY DEF OnNewBlockResponse
  <1>4. MessagesInv'
    BY <1>2, <1>3, QueueShort, FirstWellFormed, TakenInv
  <1> QED
    BY <1>1, <1>2, <1>3, <1>4, FinishInv DEF NetInv

\* The blocks of a chain response are cached when they attach, or more of them
\* are asked for.
LEMMA ChainResponseNet ==
    ASSUME NetInv, NEW l, NEW n, <<l, n>> \in Inbox, OnChainResponse(l, n)
    PROVE  NetInv'
  <1>1. n \in Nodes
    BY InboxFacts
  <1>2. HonestChain(chain[n]) /\ Attached(chain[n], temp[n]) /\ MessagesInv
    BY <1>1 DEF NetInv, ChainsInv, UpdatesInv
  <1>3. First(l, n, "response", "chain") /\ minted' = minted
    BY DEF OnChainResponse
  <1>4. CASE IsValidChain(Body(l, n))
    <2>1. IsSegment(Body(l, n))
      <3>1. Body(l, n) # <<>>
        BY DEF OnChainResponse, Fatal
      <3> QED
        BY <1>2, <1>3, <3>1, FirstWellFormed DEF WellFormed
    <2> DEFINE requests == ChainRequests(chain[n], Body(l, n))
    <2>2. requests \in Seq(Request)
      BY <1>2, <2>1, ChainRequestsType
    <2>3. /\ channel' = Taken(l, n, [i \in 1..Len(requests) |-> AsRequest(requests[i])])
          /\ Finish(n, Cached(chain[n], temp[n], Body(l, n)))
      BY <1>4 DEF OnChainResponse
    <2> HIDE DEF requests
    <2>4. MessagesInv'
      BY <1>2, <1>3, <2>2, <2>3, QueueRequests, FirstWellFormed, TakenInv
    <2>5. Attached(chain[n], Cached(chain[n], temp[n], Body(l, n)))
      BY <1>2, <2>1, CachedAttached
    <2> QED
      BY <1>1, <1>3, <2>3, <2>4, <2>5, FinishInv DEF NetInv
  <1>5. CASE ~IsValidChain(Body(l, n))
    <2>1. channel' = Taken(l, n, <<>>) /\ UNCHANGED <<chain, temp>>
      BY <1>5 DEF OnChainResponse
    <2>2. MessagesInv'
      BY <1>2, <1>3, <2>1, QueueShort, FirstWellFormed, TakenInv
    <2> QED
      BY <1>3, <2>1, <2>2 DEF NetInv, ChainsInv, UpdatesInv
  <1> QED
    BY <1>4, <1>5

\* A lost connection leaves empty channels, a new one asks for a summary.
LEMMA ConnectionNet ==
    ASSUME NetInv, NEW l \in Links, Cut(l) \/ Reconnect(l)
    PROVE  NetInv'
  <1>1. UNCHANGED <<chain, temp, minted>>
    BY DEF Cut, Reconnect
  <1>2. MessagesInv'
    <2>1. CASE Cut(l)
      BY <2>1, QueueShort DEF Cut, NetInv, MessagesInv
    <2>2. CASE Reconnect(l)
      <3>1. \A box \in Inbox : box[1] = l => Queue(Opened(l)[box[2]])
        BY OpenedQueue
      <3> QED
        BY <2>2, <3>1 DEF Reconnect, NetInv, MessagesInv
    <2> QED
      BY <2>1, <2>2
  <1> QED
    BY <1>1, <1>2 DEF NetInv, ChainsInv, UpdatesInv

\* NetInv is an invariant of the network, whatever is cut, stopped and mined.
THEOREM NetInvariant == Spec => []NetInv
  <1>1. Init => NetInv
    BY InitNet
  <1>2. NetInv /\ [Next]_vars => NetInv'
    <2> SUFFICES ASSUME NetInv, [Next]_vars
                 PROVE  NetInv'
      OBVIOUS
    <2>1. ASSUME NEW n \in Nodes, MineBlock(n) \/ Overtaken(n) \/ StopMining(n)
          PROVE  NetInv'
      BY <2>1, MineBlockNet, GiveUpNet
    <2>2. ASSUME NEW box \in Inbox, Receive(box[1], box[2]) \/ Die(box[1], box[2])
          PROVE  NetInv'
      <3>1. <<box[1], box[2]>> \in Inbox
        BY InboxFacts
      <3>2. CASE Receive(box[1], box[2])
        BY <3>1, <3>2, RequestNet, SummaryResponseNet, NewBlockResponseNet, ChainResponseNet
           DEF Receive
      <3>3. CASE Die(box[1], box[2])
        BY <3>3 DEF Die, NetInv, ChainsInv, UpdatesInv, MessagesInv
      <3> QED
        BY <2>2, <3>2, <3>3
    <2>3. ASSUME NEW l \in Links, Cut(l) \/ Reconnect(l)
          PROVE  NetInv'
      BY <2>3, ConnectionNet
    <2>4. CASE UNCHANGED vars
      BY <2>4 DEF vars, NetInv, ChainsInv, UpdatesInv, MessagesInv
    <2> QED
      BY <2>1, <2>2, <2>3, <2>4 DEF Next
  <1> QED
    BY <1>1, <1>2, PTL DEF Spec

\* Every node's chain is valid, and its update attaches: no exchange of
\* messages, however late they come, makes a node adopt anything else.
THEOREM NodesAlwaysConsistent == Spec => []NodesConsistent
  <1>1. NetInv => NodesConsistent
    <2> SUFFICES ASSUME NetInv, NEW n \in Nodes
                 PROVE  /\ StartsAtGenesis(chain[n]) /\ IsValidChain(chain[n])
                        /\ temp[n] # <<>> =>
                               StartsAtGenesis(temp[n]) \/ LinksToChain(chain[n], temp[n])
      BY DEF NodesConsistent
    <2> QED
      BY HonestValid DEF NetInv, ChainsInv, UpdatesInv, Attached
  <1> QED
    BY <1>1, NetInvariant, PTL

-----------------------------------------------------------------------------
(* Cumulative difficulties. *)

\* The numbers that CumDifficulty adds up.
Weights(c) == [i \in 1..(Len(c) - 1) |-> 2^c[i].difficulty]

\* None is negative.
LEMMA WeightsType ==
    ASSUME NEW c \in Seq(Block)
    PROVE  /\ IsWeights(Weights(c), 1..(Len(c) - 1))
           /\ \A i \in 1..(Len(c) - 1) : Weights(c)[i] = 2^c[i].difficulty /\ Weights(c)[i] >= 0
  <1>1. ASSUME NEW i \in 1..(Len(c) - 1)
        PROVE  2^c[i].difficulty \in Nat
    <2>1. c[i] \in Block
      OBVIOUS
    <2>2. c[i].difficulty \in 0..UINT64_MAX
      BY <2>1 DEF Block
    <2> QED
      BY <2>2, WeightAssumption
  <1>2. Weights(c) \in [1..(Len(c) - 1) -> Nat]
    BY <1>1 DEF Weights
  <1>3. IsFiniteSet(1..(Len(c) - 1))
    <2>1. Len(c) - 1 \in Int
      OBVIOUS
    <2> QED
      BY <2>1, FS_Interval
  <1>4. Weights(c) \in [1..(Len(c) - 1) -> Int]
    BY <1>2
  <1>5. ASSUME NEW i \in 1..(Len(c) - 1)
        PROVE  Weights(c)[i] = 2^c[i].difficulty /\ Weights(c)[i] >= 0
    BY <1>1 DEF Weights
  <1> QED
    BY <1>3, <1>4, <1>5 DEF IsWeights

\* CumDifficulty is the sum of them.
LEMMA CumIsSum ==
    ASSUME NEW d \in Seq(Block)
    PROVE  \E it : IsSum(it, 1..(Len(d) - 1), Weights(d)) /\ CumDifficulty(d) = it[1..(Len(d) - 1)]
  <1> DEFINE S == 1..(Len(d) - 1)
             w == Weights(d)
             c == [s \in SUBSET S |-> CHOOSE x \in s : TRUE]
             E(h) == [s \in SUBSET S |-> IF s = {} THEN 0
                        ELSE 2^d[CHOOSE x \in s : TRUE].difficulty + h[s \ {CHOOSE x \in s : TRUE}]]
             iter == CHOOSE h : h = E(h)
  <1>1. CumDifficulty(d) = iter[S]
    BY DEF CumDifficulty, MapThenSumSet, MapThenFoldSet
  <1>2. \A s \in SUBSET S : s # {} => c[s] \in s
    OBVIOUS
  <1>3. \A s \in SUBSET S : c[s] = CHOOSE x \in s : TRUE
    OBVIOUS
  <1>4. IsWeights(w, S) /\ \A i \in S : w[i] = 2^d[i].difficulty
    BY WeightsType
  <1> HIDE DEF c, w, S
  <1>5. ASSUME NEW h
        PROVE  AddsInOrder(h, S, w, c) <=> h = E(h)
    <2>1. \A s \in SUBSET S : s # {} => w[c[s]] = 2^d[CHOOSE x \in s : TRUE].difficulty
      BY <1>2, <1>3, <1>4
    <2>2. [s \in SUBSET S |-> IF s = {} THEN 0 ELSE w[c[s]] + h[s \ {c[s]}]] = E(h)
      BY <1>3, <2>1
    <2> HIDE DEF E
    <2> QED
      BY <2>2 DEF AddsInOrder
  <1> HIDE DEF E
  <1>6. PICK h : AddsInOrder(h, S, w, c)
    BY <1>2, <1>4, SumsChosen
  <1>7. iter = E(iter)
    BY <1>5, <1>6
  <1> HIDE DEF iter
  <1>8. IsSum(iter, S, w)
    <2>1. AddsInOrder(iter, S, w, c)
      BY <1>5, <1>7
    <2> QED
      BY <1>2, <1>4, <2>1, SumsChosen
  <1> QED
    BY <1>1, <1>8 DEF w, S

\* A chain is a prefix of another one when it has the same blocks as far as it goes.
LEMMA PrefixIs ==
    ASSUME NEW c \in Seq(Block), NEW d \in Seq(Block)
    PROVE  /\ IsPrefix(c, d) <=> Len(c) <= Len(d) /\ \A i \in 1..Len(c) : c[i] = d[i]
           /\ IsPrefix(c, d) <=> Len(c) <= Len(d) /\ c = SubSeq(d, 1, Len(c))
  <1>1. SubSeq(c, 1, Len(c)) = c
    OBVIOUS
  <1>2. IsPrefix(c, d) <=> Len(c) <= Len(d) /\ c = SubSeq(d, 1, Len(c))
    BY <1>1 DEF IsPrefix
  <1>3. ASSUME Len(c) <= Len(d)
        PROVE  c = SubSeq(d, 1, Len(c)) <=> \A i \in 1..Len(c) : c[i] = d[i]
    <2> DEFINE r == SubSeq(d, 1, Len(c))
    <2>1. r \in Seq(Block) /\ Len(r) = Len(c) /\ \A i \in 1..Len(c) : r[i] = d[i]
      BY <1>3
    <2> HIDE DEF r
    <2>2. c = r <=> \A i \in 1..Len(c) : c[i] = r[i]
      BY <2>1
    <2> QED
      BY <2>1, <2>2 DEF r
  <1> QED
    BY <1>2, <1>3

\* A longer chain is never lighter.
LEMMA CumGrows ==
    ASSUME NEW c \in Seq(Block), NEW d \in Seq(Block), IsPrefix(c, d), Len(c) >= 1
    PROVE  /\ CumDifficulty(c) \in Int /\ CumDifficulty(d) \in Int
           /\ CumDifficulty(c) <= CumDifficulty(d)
  <1> DEFINE P == 1..(Len(c) - 1)
             Q == 1..(Len(d) - 1)
             v == Weights(c)
             w == Weights(d)
  <1>1. P \subseteq Q /\ \A i \in P : c[i] = d[i]
    BY PrefixIs
  <1>2. IsWeights(v, P) /\ IsWeights(w, Q) /\ \A i \in Q : w[i] >= 0
    BY WeightsType
  <1>3. \A i \in P : v[i] = w[i]
    BY <1>1, WeightsType
  <1>4. PICK it : IsSum(it, P, v) /\ CumDifficulty(c) = it[P]
    BY CumIsSum
  <1>5. PICK jt : IsSum(jt, Q, w) /\ CumDifficulty(d) = jt[Q]
    BY CumIsSum
  <1> HIDE DEF P, Q, v, w
  <1>6. it[P] = jt[P] /\ jt[P] \in Int /\ jt[Q] \in Int /\ jt[P] <= jt[Q]
    <2>1. IsSum(it, P, v) /\ IsSum(jt, Q, w) /\ IsWeights(v, P) /\ IsWeights(w, Q)
      BY <1>2, <1>4, <1>5
    <2> QED
      BY <1>1, <1>2, <1>3, <2>1, SumGrows
  <1> QED
    BY <1>4, <1>5, <1>6

-----------------------------------------------------------------------------
(* Ranges of a chain. *)

\* Where the blocks of two sequences are in the one made of both.
LEMMA ConcatFacts ==
    ASSUME NEW p \in Seq(Block), NEW u \in Seq(Block), NEW r, r = p \o u
    PROVE  /\ Len(r) = Len(p) + Len(u)
           /\ \A k \in 1..Len(p) : r[k] = p[k]
           /\ \A k \in 1..Len(u) : r[Len(p) + k] = u[k]
  OBVIOUS

\* The blocks from i to j of a prefix are those of the chain.
LEMMA SubSeqSame ==
    ASSUME NEW c \in Seq(Block), NEW d \in Seq(Block), IsPrefix(c, d),
           NEW i \in 1..Len(c), NEW j \in i..Len(c)
    PROVE  SubSeq(c, i, j) = SubSeq(d, i, j)
  <1>1. Len(c) <= Len(d) /\ \A k \in 1..Len(c) : c[k] = d[k]
    BY PrefixIs
  <1> DEFINE r == SubSeq(c, i, j)
             s == SubSeq(d, i, j)
  <1>2. r \in Seq(Block) /\ Len(r) = j - i + 1 /\ \A k \in 1..(j - i + 1) : r[k] = c[i + k - 1]
    OBVIOUS
  <1>3. s \in Seq(Block) /\ Len(s) = j - i + 1 /\ \A k \in 1..(j - i + 1) : s[k] = d[i + k - 1]
    BY <1>1
  <1>4. ASSUME NEW k \in 1..(j - i + 1)
        PROVE  r[k] = s[k]
    <2>1. i + k - 1 \in 1..Len(c)
      OBVIOUS
    <2> HIDE DEF r, s
    <2> QED
      BY <1>1, <1>2, <1>3, <2>1
  <1> HIDE DEF r, s
  <1>5. r = s
    BY <1>2, <1>3, <1>4
  <1> QED
    BY <1>5 DEF r, s

\* A range that may be asked for is answered with exactly these blocks.
LEMMA RangeFacts ==
    ASSUME NEW c \in Seq(Block), NEW ids \in Ranges(c)
    PROVE  /\ ids \in Nat \X Nat /\ ids # <<>>
           /\ Shortest \in {1, 2} /\ Shortest <= ids[1] /\ ids[1] <= ids[2] /\ ids[2] < Len(c)
           /\ ids[1] + 1 \in 1..Len(c) /\ ids[2] + 1 \in (ids[1] + 1)..Len(c)
           /\ BlockRange(c, ids[1], ids[2]) = SubSeq(c, ids[1] + 1, ids[2] + 1)
  <1>1. Shortest \in {1, 2}
    BY DEF Shortest
  <1>2. /\ ids \in (Shortest..(Len(c) - 1)) \X (Shortest..(Len(c) - 1))
        /\ ids[1] <= ids[2] /\ Len(c) \in Nat
    BY DEF Ranges
  <1>3. /\ ids[1] \in Nat /\ ids[2] \in Nat /\ Shortest <= ids[1] /\ ids[2] < Len(c)
        /\ ids = <<ids[1], ids[2]>>
    BY <1>1, <1>2
  <1>4. BlockRange(c, ids[1], ids[2]) = SubSeq(c, ids[1] + 1, ids[2] + 1)
    BY <1>3 DEF BlockRange
  <1>5. ids \in Nat \X Nat /\ ids # <<>>
    <2>1. \A a, b : <<a, b>> # <<>>
      OBVIOUS
    <2>2. <<ids[1], ids[2]>> \in Nat \X Nat
      BY <1>3
    <2>3. <<ids[1], ids[2]>> # <<>>
      BY <2>1
    <2> QED
      BY <1>3, <2>2, <2>3
  <1>6. ids[1] + 1 \in 1..Len(c) /\ ids[2] + 1 \in (ids[1] + 1)..Len(c)
    BY <1>2, <1>3
  <1> QED
    BY <1>1, <1>2, <1>3, <1>4, <1>5, <1>6

\* What a node may have to receive does not change when the miner's chain grows.
LEMMA ExpectedGrows ==
    ASSUME NEW c \in Seq(Block), NEW d \in Seq(Block), IsPrefix(c, d),
           NEW m, NEW n, NEW msg, Expected(c, m, n, msg)
    PROVE  Expected(d, m, n, msg)
  <1>1. Len(c) \in Nat /\ Len(d) \in Nat /\ Len(c) <= Len(d)
    BY PrefixIs
  <1>2. ASSUME NEW ids \in Ranges(c)
        PROVE  ids \in Ranges(d) /\ BlockRange(c, ids[1], ids[2]) = BlockRange(d, ids[1], ids[2])
    <2>1. ids \in Ranges(d)
      <3>1. Shortest \in Int
        BY DEF Shortest
      <3>2. Shortest..(Len(c) - 1) \subseteq Shortest..(Len(d) - 1)
        BY <1>1, <3>1
      <3> QED
        BY <3>2 DEF Ranges
    <2>2. /\ ids[1] + 1 \in 1..Len(c) /\ ids[2] + 1 \in (ids[1] + 1)..Len(c)
          /\ BlockRange(c, ids[1], ids[2]) = SubSeq(c, ids[1] + 1, ids[2] + 1)
      BY RangeFacts
    <2>3. BlockRange(d, ids[1], ids[2]) = SubSeq(d, ids[1] + 1, ids[2] + 1)
      BY <2>1, RangeFacts
    <2>4. SubSeq(c, ids[1] + 1, ids[2] + 1) = SubSeq(d, ids[1] + 1, ids[2] + 1)
      BY <2>2, SubSeqSame
    <2> QED
      BY <2>1, <2>2, <2>3, <2>4
  <1>3. ASSUME NEW k \in 1..Len(c)
        PROVE  k \in 1..Len(d) /\ SubSeq(c, 1, k) = SubSeq(d, 1, k)
    <2>1. 1 \in 1..Len(c) /\ k \in 1..Len(c) /\ k \in 1..Len(d)
      BY <1>1
    <2> QED
      BY <2>1, SubSeqSame
  <1> QED
    BY <1>2, <1>3 DEF Expected

\* A node that follows gets blocks that either extend or repeat its chain, or leave
\* a gap after it; it never has to ask for earlier ones, and they pass the assertion.
LEMMA FollowSync ==
    ASSUME NEW d, HonestChain(d), NEW c, HonestChain(c), Len(c) >= Shortest, IsPrefix(c, d),
           NEW ids \in Ranges(d), NEW u, u = BlockRange(d, ids[1], ids[2])
    PROVE  /\ IsSegment(u) /\ Back(u).index = ids[2] /\ ~StartsAtGenesis(u)
           /\ ~Fatal(c, u)
           /\ LinksToChain(c, u) =>
                  Len(Synced(c, u)) >= Shortest /\ IsPrefix(Synced(c, u), d)
           /\ ~LinksToChain(c, u) => HasGap(c, u) /\ <<Len(c), ids[2]>> \in Ranges(d)
  <1> DEFINE i == ids[1]
             j == ids[2]
  <1>1. /\ c \in Seq(Block) /\ d \in Seq(Block) /\ Len(c) \in Nat /\ Len(d) \in Nat
        /\ Len(c) >= 1 /\ Back(c).index = Len(c) - 1 /\ d[1].index = 0
    BY HonestBack
  <1>2. Len(c) <= Len(d) /\ (\A k \in 1..Len(c) : c[k] = d[k]) /\ c = SubSeq(d, 1, Len(c))
    BY <1>1, PrefixIs
  <1>3. /\ i \in Nat /\ j \in Nat /\ Shortest \in {1, 2}
        /\ Shortest <= i /\ i <= j /\ j < Len(d)
        /\ i + 1 \in 1..Len(d) /\ j + 1 \in (i + 1)..Len(d)
        /\ u = SubSeq(d, i + 1, j + 1)
    BY <1>1, RangeFacts
  <1> HIDE DEF i, j
  <1>4. /\ IsSegment(u) /\ Len(u) = j - i + 1
        /\ \A k \in 1..(j - i + 1) : u[k] = d[i + k]
    <2>1. /\ IsSegment(SubSeq(d, i + 1, j + 1))
          /\ Len(SubSeq(d, i + 1, j + 1)) = (j + 1) - (i + 1) + 1
          /\ \A k \in 1..((j + 1) - (i + 1) + 1) : SubSeq(d, i + 1, j + 1)[k] = d[(i + 1) + k - 1]
      BY <1>3, SegmentSub DEF HonestChain
    <2>2. (j + 1) - (i + 1) + 1 = j - i + 1 /\ \A k \in 1..(j - i + 1) : (i + 1) + k - 1 = i + k
      BY <1>3
    <2> QED
      BY <1>3, <2>1, <2>2
  <1>5. u[1] = d[i + 1] /\ Back(u) = d[j + 1]
    <2>1. 1 \in 1..(j - i + 1) /\ j - i + 1 \in 1..(j - i + 1) /\ i + (j - i + 1) = j + 1
      BY <1>3
    <2>2. u[1] = d[i + 1]
      BY <1>4, <2>1
    <2>3. u[j - i + 1] = d[j + 1]
      BY <1>4, <2>1
    <2> QED
      BY <1>4, <2>2, <2>3 DEF Back
  <1>6. \A k \in 1..Len(d) : d[k].index = k - 1
    <2> TAKE k \in 1..Len(d)
    <2>1. d[k].index = d[1].index + k - 1
      BY SegmentBlock DEF HonestChain
    <2> QED
      BY <1>1, <2>1
  <1>7. u[1].index = i /\ Back(u).index = j /\ ~StartsAtGenesis(u)
    <2>1. d[i + 1].index = i /\ d[j + 1].index = j
      <3>1. i + 1 \in 1..Len(d) /\ j + 1 \in 1..Len(d) /\ (i + 1) - 1 = i /\ (j + 1) - 1 = j
        BY <1>3
      <3>2. d[i + 1].index = (i + 1) - 1 /\ d[j + 1].index = (j + 1) - 1
        BY <1>6, <3>1
      <3> QED
        BY <3>1, <3>2
    <2> QED
      BY <1>3, <1>5, <2>1 DEF StartsAtGenesis
  <1>8. i <= Len(c) <=> LinksToChain(c, u)
    <2>1. ASSUME i <= Len(c)
          PROVE  u[1].prev = c[i].hash
      <3>1. i + 1 \in 2..Len(d) /\ (i + 1) - 1 = i /\ i \in 1..Len(c)
        BY <1>3, <2>1
      <3>2. d[i + 1].prev = d[(i + 1) - 1].hash
        BY <3>1 DEF HonestChain, IsSegment
      <3> QED
        BY <1>2, <1>5, <3>1, <3>2
    <2>2. i \in 1..Len(c) <=> i <= Len(c)
      BY <1>1, <1>3
    <2> QED
      BY <1>7, <2>1, <2>2 DEF LinksToChain
  <1>9. ~Fatal(c, u)
    <2>1. u # <<>>
      BY <1>4, SegmentSeq
    <2>2. ~NDEBUG => AlignmentAssert(c, u)
      <3> SUFFICES ASSUME ~NDEBUG, ~HasGap(c, u)
                   PROVE  u[1].index - 1 < Len(c) /\ u[1].index - 1 > 0
        BY DEF AlignmentAssert
      <3>1. Shortest = 2
        BY DEF Shortest
      <3>2. ~(i > (Len(c) - 1) + 1)
        BY <1>1, <1>7 DEF HasGap
      <3> QED
        BY <1>1, <1>3, <1>7, <3>1, <3>2
    <2> QED
      BY <2>1, <2>2 DEF Fatal
  <1>10. ASSUME LinksToChain(c, u)
         PROVE  Len(Synced(c, u)) >= Shortest /\ IsPrefix(Synced(c, u), d)
    <2>1. HonestChain(Synced(c, u)) /\ Synced(c, u) = SubSeq(c, 1, i) \o u
      BY <1>4, <1>7, <1>10, SyncedWhole
    <2> DEFINE r == Synced(c, u)
               p == SubSeq(c, 1, i)
    <2>2. i \in 1..Len(c)
      BY <1>1, <1>3, <1>8, <1>10
    <2>3. p \in Seq(Block) /\ Len(p) = i /\ \A k \in 1..i : p[k] = c[k]
      BY <1>1, <2>2
    <2>4. u \in Seq(Block) /\ r \in Seq(Block)
      BY <1>4, <2>1, SegmentSeq, HonestBack
    <2>5. r = p \o u
      BY <2>1
    <2> HIDE DEF r, p
    <2>6. /\ Len(r) = Len(p) + Len(u)
          /\ \A k \in 1..Len(p) : r[k] = p[k]
          /\ \A k \in 1..Len(u) : r[Len(p) + k] = u[k]
      BY <2>3, <2>4, <2>5, ConcatFacts
    <2>7. Len(r) = j + 1
      BY <1>3, <1>4, <2>3, <2>6
    <2>8. ASSUME NEW k \in 1..Len(r)
          PROVE  r[k] = d[k]
      <3>1. CASE k <= i
        <4>1. k \in 1..i /\ k \in 1..Len(c)
          BY <1>1, <1>3, <2>2, <2>7, <3>1
        <4>2. r[k] = p[k]
          BY <2>3, <2>6, <4>1
        <4> QED
          BY <1>2, <2>3, <4>1, <4>2
      <3>2. CASE k > i
        <4> DEFINE h == k - i
        <4>1. h \in 1..(j - i + 1) /\ i + h = k
          BY <1>3, <2>7, <3>2
        <4> HIDE DEF h
        <4>2. h \in 1..Len(u)
          BY <1>4, <4>1
        <4>3. r[Len(p) + h] = u[h]
          BY <2>6, <4>2
        <4>4. r[k] = u[h]
          BY <2>3, <4>1, <4>3
        <4>5. u[h] = d[k]
          BY <1>4, <4>1
        <4> QED
          BY <4>4, <4>5
      <3> QED
        BY <1>3, <2>7, <3>1, <3>2
    <2>9. Len(r) <= Len(d) /\ Len(r) >= Shortest
      BY <1>1, <1>3, <2>7
    <2>10. IsPrefix(r, d)
      BY <1>1, <2>4, <2>8, <2>9, PrefixIs
    <2> QED
      BY <2>9, <2>10 DEF r
  <1>11. ASSUME ~LinksToChain(c, u)
         PROVE  HasGap(c, u) /\ <<Len(c), j>> \in Ranges(d)
    <2>1. i > Len(c)
      BY <1>1, <1>3, <1>8, <1>11
    <2>2. HasGap(c, u)
      BY <1>1, <1>7, <2>1 DEF HasGap
    <2>3. Len(c) \in Shortest..(Len(d) - 1) /\ j \in Shortest..(Len(d) - 1) /\ Len(c) <= j
      BY <1>1, <1>3, <2>1
    <2> QED
      BY <2>2, <2>3 DEF Ranges
  <1> QED
    BY <1>4, <1>7, <1>9, <1>10, <1>11 DEF j

\* The chain as it was when the miner made a summary of it is a prefix of it.
LEMMA SummaryFacts ==
    ASSUME NEW d, HonestChain(d), NEW k \in 1..Len(d)
    PROVE  LET r == SummaryReply(SubSeq(d, 1, k))
           IN  /\ IsPrefix(SubSeq(d, 1, k), d) /\ SubSeq(d, 1, k) \in Seq(Block)
               /\ Len(SubSeq(d, 1, k)) = k
               /\ r.front = d[1] /\ r.back.index = k - 1
               /\ r.cumdiff = CumDifficulty(SubSeq(d, 1, k))
  <1> DEFINE p == SubSeq(d, 1, k)
  <1>1. d \in Seq(Block) /\ Len(d) \in Nat /\ Len(d) >= 1 /\ d[1].index = 0
    BY HonestBack
  <1>2. /\ IsSegment(p) /\ Len(p) = k - 1 + 1
        /\ \A i \in 1..(k - 1 + 1) : p[i] = d[1 + i - 1]
    <2>1. 1 \in 1..Len(d) /\ k \in 1..Len(d)
      BY <1>1
    <2> QED
      BY <2>1, SegmentSub DEF HonestChain
  <1>3. k - 1 + 1 = k /\ \A i \in 1..k : 1 + i - 1 = i
    BY <1>1
  <1>4. Len(p) = k /\ \A i \in 1..k : p[i] = d[i]
    BY <1>2, <1>3
  <1> HIDE DEF p
  <1>5. p[1] = d[1]
    <2>1. 1 \in 1..k
      BY <1>1
    <2> QED
      BY <1>4, <2>1
  <1>6. p \in Seq(Block) /\ Back(p).index = k - 1
    BY <1>1, <1>2, <1>4, <1>5, SegmentSeq
  <1>7. IsPrefix(p, d)
    <2>1. Len(p) <= Len(d)
      BY <1>1, <1>4
    <2>2. \A i \in 1..Len(p) : p[i] = d[i]
      BY <1>4
    <2> QED
      BY <1>1, <1>6, <2>1, <2>2, PrefixIs
  <1> QED
    BY <1>4, <1>5, <1>6, <1>7 DEF SummaryReply, p

\* A summary of a chain that a node follows makes it ask for blocks of that chain, if
\* they differ, or for nothing.
LEMMA SummaryFollow ==
    ASSUME NEW d, HonestChain(d), NEW c, HonestChain(c), Len(c) >= Shortest, IsPrefix(c, d),
           NEW k \in 1..Len(d), NEW resetEnable,
           NEW r, r = SummaryRequests(c, <<>>, resetEnable, SummaryReply(SubSeq(d, 1, k))),
           r # <<>>
    PROVE  /\ c # d
           /\ r = <<RangeRequest(Len(c), k - 1)>>
           /\ <<Len(c), k - 1>> \in Ranges(d)
  <1> DEFINE p == SubSeq(d, 1, k)
             reply == SummaryReply(p)
  <1>1. /\ c \in Seq(Block) /\ d \in Seq(Block) /\ Len(c) \in Nat /\ Len(d) \in Nat
        /\ Len(c) >= 1 /\ Back(c).index = Len(c) - 1
    BY HonestBack
  <1>2. Len(c) <= Len(d) /\ \A i \in 1..Len(c) : c[i] = d[i]
    BY <1>1, PrefixIs
  <1>3. /\ IsPrefix(p, d) /\ p \in Seq(Block) /\ Len(p) = k
        /\ reply.front = d[1] /\ reply.back.index = k - 1
        /\ reply.cumdiff = CumDifficulty(p)
    BY SummaryFacts
  <1>4. r = SummaryRequests(c, <<>>, resetEnable, reply)
    OBVIOUS
  <1> HIDE DEF reply, p
  <1>5. SameBlock(c[1], reply.front)
    <2>1. 1 \in 1..Len(c)
      BY <1>1
    <2> QED
      BY <1>2, <1>3, <2>1 DEF SameBlock
  <1>6. /\ CumDifficulty(c) < CumDifficulty(p)
        /\ r = <<RangeRequest(Back(c).index + 1, k - 1)>>
    BY <1>3, <1>4, <1>5 DEF SummaryRequests
  <1>7. Back(c).index + 1 = Len(c)
    BY <1>1
  <1>8. ~IsPrefix(p, c)
    <2> SUFFICES ASSUME IsPrefix(p, c)
                 PROVE  FALSE
      OBVIOUS
    <2>1. Len(p) >= 1
      BY <1>1, <1>3
    <2>2. /\ CumDifficulty(p) \in Int /\ CumDifficulty(c) \in Int
          /\ CumDifficulty(p) <= CumDifficulty(c)
      BY <1>1, <1>3, <2>1, CumGrows
    <2> QED
      BY <1>6, <2>2
  <1>9. Len(c) < k
    <2> SUFFICES ASSUME k <= Len(c)
                 PROVE  IsPrefix(p, c)
      BY <1>1, <1>8
    <2>1. \A i \in 1..Len(p) : p[i] = d[i]
      BY <1>1, <1>3, PrefixIs
    <2>2. \A i \in 1..Len(p) : i \in 1..Len(c)
      BY <1>1, <1>3
    <2>3. \A i \in 1..Len(p) : p[i] = c[i]
      BY <1>2, <2>1, <2>2
    <2> QED
      BY <1>1, <1>3, <2>3, PrefixIs
  <1>10. <<Len(c), k - 1>> \in Ranges(d)
    <2>1. Shortest \in {1, 2}
      BY DEF Shortest
    <2>2. /\ Len(c) \in Shortest..(Len(d) - 1) /\ k - 1 \in Shortest..(Len(d) - 1)
          /\ Len(c) <= k - 1
      BY <1>1, <1>9, <2>1
    <2> QED
      BY <2>2 DEF Ranges
  <1> QED
    BY <1>3, <1>6, <1>7, <1>8, <1>10

-----------------------------------------------------------------------------
(* Queues of expected messages. *)

\* Taking the first message of a queue leaves the others.
LEMMA ExpectedTake ==
    ASSUME NEW s, Queue(s), s # <<>>, NEW c, NEW m, NEW n, AllExpected(c, m, n, s)
    PROVE  Expected(c, m, n, Head(s)) /\ AllExpected(c, m, n, Tail(s))
  <1> DEFINE S == {s[i] : i \in DOMAIN s}
  <1>1. s \in Seq(S)
    BY DEF Queue
  <1> HIDE DEF S
  <1>2. /\ Len(s) \in Nat /\ Len(s) >= 1
        /\ Head(s) = s[1]
        /\ Len(Tail(s)) = Len(s) - 1
        /\ \A i \in 1..Len(Tail(s)) : Tail(s)[i] = s[i + 1]
    BY <1>1, HeadTailProperties
  <1>3. 1 \in 1..Len(s) /\ \A i \in 1..Len(Tail(s)) : i + 1 \in 1..Len(s)
    BY <1>2
  <1> QED
    BY <1>2, <1>3 DEF AllExpected

\* Messages are added at the end.
LEMMA ExpectedConcat ==
    ASSUME NEW s, Queue(s), NEW r, Queue(r), NEW c, NEW m, NEW n,
           AllExpected(c, m, n, s), AllExpected(c, m, n, r)
    PROVE  AllExpected(c, m, n, s \o r)
  <1> DEFINE S == {s[i] : i \in DOMAIN s} \cup {r[i] : i \in DOMAIN r}
  <1>1. /\ s \in Seq({s[i] : i \in DOMAIN s})
        /\ r \in Seq({r[i] : i \in DOMAIN r})
    BY DEF Queue
  <1>2. s \in Seq(S) /\ r \in Seq(S)
    <2>1. {s[i] : i \in DOMAIN s} \subseteq S /\ {r[i] : i \in DOMAIN r} \subseteq S
      OBVIOUS
    <2> QED
      BY <1>1, <2>1, SeqMonotonic
  <1> HIDE DEF S
  <1>3. Len(s \o r) = Len(s) + Len(r)
    BY <1>2
  <1>4. ASSUME NEW i \in 1..Len(s \o r)
        PROVE  Expected(c, m, n, (s \o r)[i])
    <2>1. CASE i <= Len(s)
      <3>1. i \in 1..Len(s) /\ (s \o r)[i] = s[i]
        BY <1>2, <1>3, <2>1
      <3> QED
        BY <3>1 DEF AllExpected
    <2>2. CASE i > Len(s)
      <3>1. i - Len(s) \in 1..Len(r) /\ (s \o r)[i] = r[i - Len(s)]
        BY <1>2, <1>3, <2>2
      <3> QED
        BY <3>1 DEF AllExpected
    <2> QED
      BY <1>2, <1>3, <2>1, <2>2
  <1> QED
    BY <1>4 DEF AllExpected

\* No message, or one.
LEMMA ExpectedShort ==
    ASSUME NEW c, NEW m, NEW n
    PROVE  /\ AllExpected(c, m, n, <<>>)
           /\ \A msg : Expected(c, m, n, msg) => AllExpected(c, m, n, <<msg>>)
  <1>1. AllExpected(c, m, n, <<>>)
    BY DEF AllExpected
  <1>2. ASSUME NEW msg, Expected(c, m, n, msg)
        PROVE  AllExpected(c, m, n, <<msg>>)
    <2>1. Len(<<msg>>) = 1 /\ <<msg>>[1] = msg
      OBVIOUS
    <2> QED
      BY <1>2, <2>1 DEF AllExpected
  <1> QED
    BY <1>1, <1>2

\* An announcement, a request for a summary and an empty answer may always come.
LEMMA ExpectedAlways ==
    ASSUME NEW c, NEW m, NEW n
    PROVE  /\ Expected(c, m, n, AsRequest(SummaryRequest))
           /\ Expected(c, m, n, Response("newblock", <<>>))
           /\ \A d : Expected(c, m, n, Announcement(d))
  BY DEF Expected, AsRequest, SummaryRequest, Response, Announcement

-----------------------------------------------------------------------------
(* The steps of the nodes that follow one miner. *)

\* What FollowInv and the invariant above say of a node.
LEMMA FollowNode ==
    ASSUME NEW m, OneMiner(m), NetInv, FollowInv(m), NEW n \in Nodes
    PROVE  /\ m \in Nodes
           /\ HonestChain(chain[n]) /\ HonestChain(chain[m])
           /\ temp[n] = <<>>
           /\ Len(chain[n]) >= Shortest /\ IsPrefix(chain[n], chain[m])
           /\ n \in mining => n = m
  BY DEF OneMiner, NetInv, ChainsInv, FollowInv

\* A message goes to the miner or comes from it.
LEMMA FollowEnds ==
    ASSUME NEW m, OneMiner(m), NEW l, NEW n, <<l, n>> \in Inbox
    PROVE  n \in Nodes /\ (n = m => Other(l, n) # m) /\ (n # m => Other(l, n) = m)
  <1>1. l \in Links /\ n \in Nodes /\ n \in Ends(l) /\ Other(l, n) # n
    BY InboxFacts DEF Inbox
  <1>2. m \in Ends(l)
    BY <1>1 DEF OneMiner
  <1> QED
    BY <1>1, <1>2 DEF Ends, Other

\* The message that is taken is an expected one, and so are those that remain.
LEMMA TakenExpected ==
    ASSUME NEW m, MessagesInv, NEW c,
           \A box \in Inbox : AllExpected(c, m, box[2], channel[box]),
           NEW l, NEW n, <<l, n>> \in Inbox, channel[<<l, n>>] # <<>>,
           NEW replies, Queue(replies), AllExpected(c, m, Other(l, n), replies),
           channel' = Taken(l, n, replies)
    PROVE  \A box \in Inbox : AllExpected(c, m, box[2], channel'[box])
  <1> DEFINE here  == <<l, n>>
             there == <<l, Other(l, n)>>
  <1>1. /\ here # there /\ here \in Inbox /\ there \in Inbox
        /\ here[2] = n /\ there[2] = Other(l, n)
    BY InboxFacts
  <1>2. channel' = [channel EXCEPT ![here] = Tail(@), ![there] = @ \o replies]
    BY DEF Taken
  <1>3. channel[here] # <<>>
    OBVIOUS
  <1> HIDE DEF here, there
  <1>4. AllExpected(c, m, n, Tail(channel[here]))
    BY <1>1, <1>3, ExpectedTake DEF MessagesInv
  <1>5. AllExpected(c, m, Other(l, n), channel[there] \o replies)
    BY <1>1, ExpectedConcat DEF MessagesInv
  <1>6. /\ channel'[here] = Tail(channel[here])
        /\ channel'[there] = channel[there] \o replies
        /\ \A box \in Inbox \ {here, there} : channel'[box] = channel[box]
    BY <1>1, <1>2 DEF MessagesInv
  <1> QED
    BY <1>1, <1>4, <1>5, <1>6

\* A message that is only answered.
LEMMA AnswerFollow ==
    ASSUME NEW m, NetInv, FollowInv(m),
           NEW l, NEW n, <<l, n>> \in Inbox, channel[<<l, n>>] # <<>>,
           NEW replies, Queue(replies), AllExpected(chain[m], m, Other(l, n), replies),
           channel' = Taken(l, n, replies), UNCHANGED <<chain, temp, mining, dead>>
    PROVE  FollowInv(m)'
  <1>1. \A box \in Inbox : AllExpected(chain[m], m, box[2], channel'[box])
    BY TakenExpected DEF NetInv, FollowInv
  <1> QED
    BY <1>1 DEF FollowInv

\* The message that is taken is an expected one.
LEMMA FirstExpected ==
    ASSUME NEW m, NetInv, FollowInv(m), NEW l, NEW n, <<l, n>> \in Inbox,
           NEW type, NEW message, First(l, n, type, message)
    PROVE  /\ channel[<<l, n>>] # <<>>
           /\ Expected(chain[m], m, n, Head(channel[<<l, n>>]))
           /\ Head(channel[<<l, n>>]).type = type
           /\ Head(channel[<<l, n>>]).message = message
           /\ Body(l, n) = Head(channel[<<l, n>>]).body
  <1>1. channel[<<l, n>>] # <<>> /\ Queue(channel[<<l, n>>])
    BY DEF First, NetInv, MessagesInv
  <1>2. AllExpected(chain[m], m, n, channel[<<l, n>>])
    BY DEF FollowInv
  <1>3. Expected(chain[m], m, n, Head(channel[<<l, n>>]))
    BY <1>1, <1>2, ExpectedTake
  <1> QED
    BY <1>1, <1>3 DEF First, Body

\* A node without an update that ends a handler changes nothing.
LEMMA FinishNothing ==
    ASSUME NetInv, temp = [n \in Nodes |-> <<>>], NEW n \in Nodes, Finish(n, <<>>)
    PROVE  UNCHANGED <<chain, temp>>
  <1>1. chain \in [Nodes -> Seq(Block)]
    BY DEF NetInv, ChainsInv
  <1>2. [temp EXCEPT ![n] = <<>>] = temp
    OBVIOUS
  <1>3. [chain EXCEPT ![n] = chain[n]] = chain
    BY <1>1
  <1>4. Updated(chain[n], <<>>) = chain[n]
    BY DEF Updated
  <1> QED
    BY <1>2, <1>3, <1>4 DEF Finish

\* The chains are long enough at the start, and summaries are all that is asked for.
LEMMA InitFollow ==
    ASSUME NEW m, OneMiner(m), Init
    PROVE  FollowInv(m)
  <1>1. ASSUME NEW box \in Inbox
        PROVE  AllExpected(chain[m], m, box[2], channel[box])
    <2>1. channel[box] = <<>> \/ channel[box] = <<AsRequest(SummaryRequest)>>
      BY DEF Init, Opened, Inbox
    <2> QED
      BY <2>1, ExpectedShort, ExpectedAlways
  <1> QED
    BY <1>1 DEF Init, OneMiner, FollowInv

\* The miner's chain gets a block, which leaves every other chain a beginning of it.
LEMMA MineFollow ==
    ASSUME NEW m, OneMiner(m), NetInv, NetInv', FollowInv(m), NEW n \in Nodes, MineBlock(n)
    PROVE  FollowInv(m)'
  <1>1. n = m /\ temp[n] = <<>> /\ m \in Nodes
    BY FollowNode DEF MineBlock
  <1>2. PICK b : /\ chain' = [chain EXCEPT ![m] = Updated(AddNewBlock(chain[m], b), <<>>)]
                 /\ channel' = channel \/ channel' = Broadcast(m, AddNewBlock(chain[m], b))
    BY <1>1 DEF MineBlock
  <1> DEFINE c == AddNewBlock(chain[m], b)
  <1>3. chain' = [chain EXCEPT ![m] = c]
    BY <1>2 DEF Updated
  <1>4. /\ chain \in [Nodes -> Seq(Block)] /\ chain' \in [Nodes -> Seq(Block)]
        /\ chain'[m] = c /\ \A k \in Nodes \ {m} : chain'[k] = chain[k]
    BY <1>1, <1>3 DEF NetInv, ChainsInv
  <1>5. c = chain[m] \/ c = Append(chain[m], b)
    BY DEF AddNewBlock
  <1> HIDE DEF c
  <1>6. /\ chain[m] \in Seq(Block) /\ c \in Seq(Block)
        /\ Len(chain[m]) <= Len(c) /\ \A i \in 1..Len(chain[m]) : c[i] = chain[m][i]
    BY <1>1, <1>4, <1>5
  <1>7. IsPrefix(chain[m], c)
    BY <1>6, PrefixIs
  <1>8. ASSUME NEW k \in Nodes
        PROVE  Len(chain'[k]) >= Shortest /\ IsPrefix(chain'[k], c)
    <2>1. /\ chain[k] \in Seq(Block) /\ Len(chain[k]) >= Shortest /\ Shortest \in {1, 2}
          /\ Len(chain[k]) <= Len(chain[m]) /\ \A i \in 1..Len(chain[k]) : chain[k][i] = chain[m][i]
      BY <1>1, <1>4, <1>6, PrefixIs DEF FollowInv, Shortest
    <2>2. CASE k = m
      <3>1. chain'[k] = c
        BY <1>4, <2>2
      <3>2. Len(c) >= Shortest
        BY <1>6, <2>1, <2>2
      <3>3. IsPrefix(c, c)
        BY <1>6, PrefixIs
      <3> QED
        BY <3>1, <3>2, <3>3
    <2>3. CASE k # m
      <3>1. chain'[k] = chain[k]
        BY <1>4, <2>3
      <3>2. Len(chain[k]) <= Len(c)
        BY <1>6, <2>1
      <3>3. \A i \in 1..Len(chain[k]) : chain[k][i] = c[i]
        BY <1>6, <2>1
      <3>4. IsPrefix(chain[k], c)
        BY <1>6, <2>1, <3>2, <3>3, PrefixIs
      <3> QED
        BY <2>1, <3>1, <3>4
    <2> QED
      BY <2>2, <2>3
  <1>9. ASSUME NEW box \in Inbox
        PROVE  AllExpected(c, m, box[2], channel'[box])
    <2>1. AllExpected(c, m, box[2], channel[box])
      <3>1. AllExpected(chain[m], m, box[2], channel[box])
        BY DEF FollowInv
      <3> QED
        BY <1>6, <1>7, <3>1, ExpectedGrows DEF AllExpected
    <2>2. channel'[box] = channel[box] \/ channel'[box] = Append(channel[box], Announcement(c))
      BY <1>2 DEF Broadcast, c
    <2>3. AllExpected(c, m, box[2], Append(channel[box], Announcement(c)))
      <3>1. Queue(channel[box])
        BY DEF NetInv, MessagesInv
      <3>2. Append(channel[box], Announcement(c)) = channel[box] \o <<Announcement(c)>>
        <4> DEFINE S == {channel[box][i] : i \in DOMAIN channel[box]} \cup {Announcement(c)}
        <4>1. channel[box] \in Seq(S) /\ Announcement(c) \in S
          BY <3>1, SeqMonotonic DEF Queue
        <4> HIDE DEF S
        <4> QED
          BY <4>1, AppendIsConcat
      <3>3. Queue(<<Announcement(c)>>)
        BY QueueShort DEF WellFormed, Announcement
      <3>4. AllExpected(c, m, box[2], <<Announcement(c)>>)
        BY ExpectedShort, ExpectedAlways
      <3> QED
        BY <2>1, <3>1, <3>2, <3>3, <3>4, ExpectedConcat
    <2> QED
      BY <2>1, <2>2, <2>3
  <1>10. mining' = mining /\ dead' = dead /\ temp' = [k \in Nodes |-> <<>>]
    BY <1>1 DEF MineBlock, FollowInv
  <1> QED
    BY <1>4, <1>8, <1>9, <1>10 DEF FollowInv

\* There is no update that the mining thread could have to apply.
LEMMA GiveUpFollow ==
    ASSUME NEW m, OneMiner(m), NetInv, FollowInv(m), NEW n \in Nodes,
           Overtaken(n) \/ StopMining(n)
    PROVE  FollowInv(m)'
  <1>1. temp[n] = <<>>
    BY FollowNode
  <1>2. StopMining(n)
    BY <1>1 DEF Overtaken
  <1>3. chain' = [chain EXCEPT ![n] = chain[n]]
    BY <1>1, <1>2 DEF StopMining, Updated
  <1>4. chain' = chain
    BY <1>3 DEF NetInv, ChainsInv
  <1>5. temp' = temp
    BY <1>2 DEF StopMining, FollowInv
  <1> QED
    BY <1>2, <1>4, <1>5 DEF StopMining, FollowInv

\* The miner answers requests for blocks, and only it is asked for them.
LEMMA RequestFollow ==
    ASSUME NEW m, OneMiner(m), NetInv, FollowInv(m), NEW l, NEW n, <<l, n>> \in Inbox,
           OnSummaryRequest(l, n) \/ OnChainRequest(l, n) \/ OnNewBlock(l, n)
    PROVE  FollowInv(m)'
  <1> DEFINE k == Other(l, n)
  <1>1. n \in Nodes /\ (n = m => k # m) /\ (n # m => k = m)
    BY FollowEnds
  <1>2. /\ HonestChain(chain[n]) /\ HonestChain(chain[m])
        /\ Len(chain[n]) >= Shortest /\ IsPrefix(chain[n], chain[m])
    BY <1>1, FollowNode
  <1>3. UNCHANGED <<chain, temp, mining, dead>>
    BY DEF OnSummaryRequest, OnChainRequest, OnNewBlock
  <1> HIDE DEF k
  <1>4. CASE OnSummaryRequest(l, n)
    <2> DEFINE answer == Response("summary", SummaryReply(chain[n]))
    <2>1. /\ First(l, n, "request", "summary")
          /\ channel' = Taken(l, n, <<answer>>)
      BY <1>4 DEF OnSummaryRequest
    <2>2. Queue(<<answer>>)
      <3>1. WellFormed(answer)
        BY <1>2, HonestBack DEF WellFormed, Response, SummaryReply, Block
      <3> QED
        BY <3>1, QueueShort
    <2>3. Expected(chain[m], m, k, answer)
      <3>1. /\ chain[n] \in Seq(Block) /\ chain[m] \in Seq(Block)
            /\ Len(chain[n]) \in Nat /\ Len(chain[n]) >= 1
        BY <1>2, HonestBack
      <3>2. Len(chain[n]) <= Len(chain[m]) /\ chain[n] = SubSeq(chain[m], 1, Len(chain[n]))
        BY <1>2, <3>1, PrefixIs
      <3>3. Len(chain[n]) \in 1..Len(chain[m])
        BY <3>1, <3>2
      <3>4. \E i \in 1..Len(chain[m]) : SummaryReply(chain[n]) = SummaryReply(SubSeq(chain[m], 1, i))
        BY <3>2, <3>3
      <3> QED
        BY <3>4 DEF Expected, Response
    <2>4. AllExpected(chain[m], m, k, <<answer>>)
      BY <2>3, ExpectedShort
    <2> HIDE DEF answer
    <2> QED
      BY <1>3, <2>1, <2>2, <2>4, FirstExpected, AnswerFollow DEF k
  <1>5. CASE OnChainRequest(l, n)
    <2>1. First(l, n, "request", "chain")
      BY <1>5 DEF OnChainRequest
    <2>2. n = m /\ Body(l, n) \in Ranges(chain[m])
      BY <2>1, FirstExpected DEF Expected
    <2> DEFINE ids == Body(l, n)
               answer == Response("chain", ChainReply(chain[n], ids))
    <2>3. channel' = Taken(l, n, <<answer>>)
      BY <1>5 DEF OnChainRequest
    <2>4. ids \in Nat \X Nat /\ ids # <<>> /\ ids \in Ranges(chain[m])
      BY <1>2, <2>2, HonestBack, RangeFacts
    <2> HIDE DEF ids
    <2>5. answer = Response("chain", BlockRange(chain[m], ids[1], ids[2]))
      BY <2>2, <2>4 DEF ChainReply
    <2>6. Queue(<<answer>>)
      <3>1. WellFormed(answer)
        <4>1. ChainReply(chain[n], ids) = <<>> \/ IsSegment(ChainReply(chain[n], ids))
          BY <1>2, <2>4, ReplySegment
        <4> QED
          BY <4>1 DEF WellFormed, Response
      <3> QED
        BY <3>1, QueueShort
    <2>7. Expected(chain[m], m, k, answer)
      BY <1>1, <2>2, <2>4, <2>5 DEF Expected, Response
    <2>8. AllExpected(chain[m], m, k, <<answer>>)
      BY <2>7, ExpectedShort
    <2> HIDE DEF answer
    <2> QED
      BY <1>3, <2>1, <2>3, <2>6, <2>8, FirstExpected, AnswerFollow DEF k
  <1>6. CASE OnNewBlock(l, n)
    <2>1. PICK answer : /\ channel' = Taken(l, n, <<answer>>)
                        /\ \/ answer = AsRequest(SummaryRequest)
                           \/ answer = Response("newblock", <<>>)
      BY <1>6 DEF OnNewBlock
    <2>2. First(l, n, "request", "newblock")
      BY <1>6 DEF OnNewBlock
    <2>3. Queue(<<answer>>)
      BY <2>1, QueueShort DEF WellFormed, AsRequest, SummaryRequest, Response
    <2>4. AllExpected(chain[m], m, k, <<answer>>)
      BY <2>1, ExpectedShort, ExpectedAlways
    <2> QED
      BY <1>3, <2>1, <2>2, <2>3, <2>4, FirstExpected, AnswerFollow DEF k
  <1> QED
    BY <1>4, <1>5, <1>6

\* A request for a range that the miner has may be sent to it.
LEMMA RangeExpected ==
    ASSUME NEW m, NEW d, NEW i, NEW j, <<i, j>> \in Ranges(d),
           NEW requests, requests = <<RangeRequest(i, j)>>
    PROVE  AllExpected(d, m, m, [h \in 1..Len(requests) |-> AsRequest(requests[h])])
  <1>1. Len(requests) = 1 /\ requests[1] = RangeRequest(i, j)
    OBVIOUS
  <1>2. Expected(d, m, m, AsRequest(RangeRequest(i, j)))
    BY DEF Expected, AsRequest, RangeRequest
  <1> DEFINE s == [h \in 1..Len(requests) |-> AsRequest(requests[h])]
  <1>3. s = [h \in 1..1 |-> AsRequest(RangeRequest(i, j))]
    BY <1>1
  <1>4. Len(s) = 1 /\ s[1] = AsRequest(RangeRequest(i, j))
    BY <1>3
  <1> QED
    BY <1>2, <1>4 DEF AllExpected

\* A node that follows asks for the blocks it lacks; the miner asks for none.
LEMMA SummaryResponseFollow ==
    ASSUME NEW m, OneMiner(m), NetInv, FollowInv(m), NEW l, NEW n, <<l, n>> \in Inbox,
           OnSummaryResponse(l, n)
    PROVE  FollowInv(m)'
  <1> DEFINE requests == SummaryRequests(chain[n], temp[n], n \in ResetEnable, Body(l, n))
             messages == [i \in 1..Len(requests) |-> AsRequest(requests[i])]
  <1>1. n \in Nodes /\ (n # m => Other(l, n) = m)
    BY FollowEnds
  <1>2. /\ HonestChain(chain[n]) /\ HonestChain(chain[m]) /\ temp[n] = <<>>
        /\ Len(chain[n]) >= Shortest /\ IsPrefix(chain[n], chain[m])
    BY <1>1, FollowNode
  <1>3. First(l, n, "response", "summary") /\ Finish(n, <<>>)
        /\ channel' = Taken(l, n, messages) /\ UNCHANGED <<mining, dead>>
    BY <1>2 DEF OnSummaryResponse
  <1>4. PICK k \in 1..Len(chain[m]) : Body(l, n) = SummaryReply(SubSeq(chain[m], 1, k))
    BY <1>3, FirstExpected DEF Expected
  <1>5. requests = SummaryRequests(chain[n], <<>>, n \in ResetEnable,
                                   SummaryReply(SubSeq(chain[m], 1, k)))
    BY <1>2, <1>4
  <1>6. requests \in Seq(Request)
    <2>1. Body(l, n).back.index \in Nat
      BY <1>3, FirstWellFormed DEF WellFormed, NetInv
    <2> QED
      BY <1>2, <2>1, SummaryRequestsOf
  <1> HIDE DEF requests
  <1>7. Queue(messages)
    BY <1>6, QueueRequests
  <1>8. AllExpected(chain[m], m, Other(l, n), messages)
    <2>1. CASE requests = <<>>
      BY <2>1 DEF AllExpected
    <2>2. CASE requests # <<>>
      <3>1. /\ chain[n] # chain[m]
            /\ requests = <<RangeRequest(Len(chain[n]), k - 1)>>
            /\ <<Len(chain[n]), k - 1>> \in Ranges(chain[m])
        BY <1>2, <1>5, <2>2, SummaryFollow
      <3>2. Other(l, n) = m
        BY <1>1, <3>1
      <3> QED
        BY <3>1, <3>2, RangeExpected
    <2> QED
      BY <2>1, <2>2
  <1> HIDE DEF messages
  <1>9. UNCHANGED <<chain, temp>>
    BY <1>1, <1>3, FinishNothing DEF FollowInv
  <1> QED
    BY <1>3, <1>7, <1>8, <1>9, FirstExpected, AnswerFollow

\* An empty answer changes nothing.
LEMMA NewBlockResponseFollow ==
    ASSUME NEW m, OneMiner(m), NetInv, FollowInv(m), NEW l, NEW n, <<l, n>> \in Inbox,
           OnNewBlockResponse(l, n)
    PROVE  FollowInv(m)'
  <1>1. n \in Nodes
    BY FollowEnds
  <1>2. First(l, n, "response", "newblock") /\ Finish(n, <<>>)
        /\ channel' = Taken(l, n, <<>>) /\ UNCHANGED <<mining, dead>>
    BY <1>1, FollowNode DEF OnNewBlockResponse
  <1>3. UNCHANGED <<chain, temp>>
    BY <1>1, <1>2, FinishNothing DEF FollowInv
  <1>4. Queue(<<>>) /\ AllExpected(chain[m], m, Other(l, n), <<>>)
    BY QueueShort, ExpectedShort
  <1> QED
    BY <1>2, <1>3, <1>4, FirstExpected, AnswerFollow

\* What a chain response brings: blocks of the miner's chain, to another node.
LEMMA ChainResponseExpected ==
    ASSUME NEW m, OneMiner(m), NetInv, FollowInv(m), NEW l, NEW n, <<l, n>> \in Inbox,
           First(l, n, "response", "chain")
    PROVE  /\ n # m
           /\ \E ids \in Ranges(chain[m]) : Body(l, n) = BlockRange(chain[m], ids[1], ids[2])
  <1> DEFINE msg == Head(channel[<<l, n>>])
  <1>1. /\ Expected(chain[m], m, n, msg) /\ msg.type = "response" /\ msg.message = "chain"
        /\ Body(l, n) = msg.body
    BY FirstExpected
  <1> HIDE DEF msg
  <1> QED
    BY <1>1 DEF Expected

\* So it does not end the process.
LEMMA FollowerLives ==
    ASSUME NEW m, OneMiner(m), NetInv, FollowInv(m), NEW l, NEW n, <<l, n>> \in Inbox
    PROVE  ~Die(l, n)
  <1> SUFFICES ASSUME First(l, n, "response", "chain")
               PROVE  ~Fatal(chain[n], Body(l, n))
    BY DEF Die
  <1>1. PICK ids \in Ranges(chain[m]) : Body(l, n) = BlockRange(chain[m], ids[1], ids[2])
    BY ChainResponseExpected
  <1>2. n \in Nodes
    BY FollowEnds
  <1>3. /\ HonestChain(chain[n]) /\ HonestChain(chain[m])
        /\ Len(chain[n]) >= Shortest /\ IsPrefix(chain[n], chain[m])
    BY <1>2, FollowNode
  <1> QED
    BY <1>1, <1>3, FollowSync

\* Its blocks make the node's chain a longer beginning of the miner's, or more of
\* them are asked for.
LEMMA ChainResponseFollow ==
    ASSUME NEW m, OneMiner(m), NetInv, NetInv', FollowInv(m),
           NEW l, NEW n, <<l, n>> \in Inbox, OnChainResponse(l, n)
    PROVE  FollowInv(m)'
  <1> DEFINE u == Body(l, n)
             requests == ChainRequests(chain[n], u)
             messages == [i \in 1..Len(requests) |-> AsRequest(requests[i])]
  <1>1. First(l, n, "response", "chain") /\ UNCHANGED <<mining, dead>>
    BY DEF OnChainResponse
  <1>2. n # m /\ n \in Nodes /\ Other(l, n) = m
    BY <1>1, ChainResponseExpected, FollowEnds
  <1>3. PICK ids \in Ranges(chain[m]) : u = BlockRange(chain[m], ids[1], ids[2])
    BY <1>1, ChainResponseExpected
  <1>4. /\ HonestChain(chain[n]) /\ HonestChain(chain[m]) /\ temp[n] = <<>> /\ n \notin mining
        /\ Len(chain[n]) >= Shortest /\ IsPrefix(chain[n], chain[m])
    BY <1>2, FollowNode
  <1>5. /\ IsSegment(u) /\ Back(u).index = ids[2] /\ ~StartsAtGenesis(u)
        /\ LinksToChain(chain[n], u) =>
               /\ Len(Synced(chain[n], u)) >= Shortest
               /\ IsPrefix(Synced(chain[n], u), chain[m])
        /\ ~LinksToChain(chain[n], u) =>
               HasGap(chain[n], u) /\ <<Len(chain[n]), ids[2]>> \in Ranges(chain[m])
    BY <1>3, <1>4, FollowSync
  <1>6. channel[<<l, n>>] # <<>>
    BY <1>1 DEF First
  <1>7. \/ channel' = Taken(l, n, <<>>) /\ UNCHANGED <<chain, temp>>
        \/ channel' = Taken(l, n, messages) /\ Finish(n, Cached(chain[n], <<>>, u))
    BY <1>4 DEF OnChainResponse
  <1>8. requests \in Seq(Request)
    BY <1>4, <1>5, ChainRequestsType
  <1> HIDE DEF u
  <1>9. CASE channel' = Taken(l, n, <<>>) /\ UNCHANGED <<chain, temp>>
    <2>1. Queue(<<>>) /\ AllExpected(chain[m], m, Other(l, n), <<>>)
      BY QueueShort, ExpectedShort
    <2> QED
      BY <1>1, <1>6, <1>9, <2>1, AnswerFollow
  <1>10. CASE /\ channel' = Taken(l, n, messages) /\ Finish(n, Cached(chain[n], <<>>, u))
              /\ ~LinksToChain(chain[n], u)
    <2>1. requests = <<RangeRequest(Len(chain[n]), ids[2])>>
      <3>1. Back(chain[n]).index + 1 = Len(chain[n])
        BY <1>4, HonestBack
      <3> QED
        BY <1>5, <1>10, <3>1 DEF ChainRequests
    <2> HIDE DEF requests
    <2>2. AllExpected(chain[m], m, Other(l, n), messages)
      BY <1>2, <1>5, <1>10, <2>1, RangeExpected
    <2>3. Queue(messages)
      BY <1>8, QueueRequests
    <2> HIDE DEF messages
    <2>4. UNCHANGED <<chain, temp>>
      <3>1. Cached(chain[n], <<>>, u) = <<>>
        BY <1>5, <1>10 DEF Cached
      <3> QED
        BY <1>2, <1>10, <3>1, FinishNothing DEF FollowInv
    <2> QED
      BY <1>1, <1>6, <1>10, <2>2, <2>3, <2>4, AnswerFollow
  <1>11. CASE /\ channel' = Taken(l, n, messages) /\ Finish(n, Cached(chain[n], <<>>, u))
              /\ LinksToChain(chain[n], u)
    <2>1. requests = <<>> /\ Cached(chain[n], <<>>, u) = u /\ u # <<>>
      BY <1>5, <1>11, SegmentSeq DEF ChainRequests, Cached
    <2>2. /\ chain' = [chain EXCEPT ![n] = Synced(chain[n], u)]
          /\ temp' = [temp EXCEPT ![n] = <<>>]
      BY <1>4, <1>11, <2>1 DEF Finish, Updated
    <2>3. /\ chain'[n] = Synced(chain[n], u)
          /\ \A k \in Nodes \ {n} : chain'[k] = chain[k]
          /\ temp' = temp /\ m \in Nodes
      BY <1>2, <2>2 DEF NetInv, ChainsInv, FollowInv, OneMiner
    <2>4. Queue(messages) /\ AllExpected(chain[m], m, Other(l, n), messages)
      <3> HIDE DEF requests
      <3>1. Queue(messages)
        BY <1>8, QueueRequests
      <3>2. AllExpected(chain[m], m, Other(l, n), messages)
        BY <2>1 DEF AllExpected
      <3> QED
        BY <3>1, <3>2
    <2> HIDE DEF messages
    <2>5. \A box \in Inbox : AllExpected(chain[m], m, box[2], channel'[box])
      BY <1>6, <1>11, <2>4, TakenExpected DEF NetInv, FollowInv
    <2>6. chain'[m] = chain[m]
      BY <1>2, <2>3
    <2>7. \A k \in Nodes : Len(chain'[k]) >= Shortest /\ IsPrefix(chain'[k], chain[m])
      BY <1>5, <1>11, <2>3 DEF FollowInv
    <2> QED
      BY <1>1, <2>3, <2>5, <2>6, <2>7 DEF FollowInv
  <1> QED
    BY <1>7, <1>9, <1>10, <1>11

\* A connection that is cut or opened again leaves nothing unexpected under way.
LEMMA ConnectionFollow ==
    ASSUME NEW m, FollowInv(m), NEW l \in Links, Cut(l) \/ Reconnect(l)
    PROVE  FollowInv(m)'
  <1>1. UNCHANGED <<chain, temp, mining, dead>>
    BY DEF Cut, Reconnect
  <1>2. ASSUME NEW box \in Inbox
        PROVE  AllExpected(chain[m], m, box[2], channel'[box])
    <2>1. \/ channel'[box] = channel[box]
          \/ channel'[box] = <<>>
          \/ channel'[box] = <<AsRequest(SummaryRequest)>>
      BY DEF Cut, Reconnect, Opened, Inbox
    <2>2. AllExpected(chain[m], m, box[2], channel[box])
      BY DEF FollowInv
    <2> QED
      BY <2>1, <2>2, ExpectedShort, ExpectedAlways
  <1> QED
    BY <1>1, <1>2 DEF FollowInv

\* Where one node mines and the others are connected to it alone, every chain stays a
\* beginning of the miner's, whatever is cut and however late the messages come.
THEOREM FollowersBehind ==
    ASSUME NEW m, OneMiner(m)
    PROVE  Spec => []FollowInv(m)
  <1>1. Init => FollowInv(m)
    BY InitFollow
  <1>2. FollowInv(m) /\ NetInv /\ NetInv' /\ [Next]_vars => FollowInv(m)'
    <2> SUFFICES ASSUME FollowInv(m), NetInv, NetInv', [Next]_vars
                 PROVE  FollowInv(m)'
      OBVIOUS
    <2>1. ASSUME NEW n \in Nodes, MineBlock(n) \/ Overtaken(n) \/ StopMining(n)
          PROVE  FollowInv(m)'
      BY <2>1, MineFollow, GiveUpFollow
    <2>2. ASSUME NEW box \in Inbox, Receive(box[1], box[2]) \/ Die(box[1], box[2])
          PROVE  FollowInv(m)'
      <3>1. <<box[1], box[2]>> \in Inbox
        BY InboxFacts
      <3>2. Receive(box[1], box[2])
        BY <2>2, <3>1, FollowerLives
      <3> QED
        BY <3>1, <3>2, RequestFollow, SummaryResponseFollow, NewBlockResponseFollow,
           ChainResponseFollow DEF Receive
    <2>3. ASSUME NEW l \in Links, Cut(l) \/ Reconnect(l)
          PROVE  FollowInv(m)'
      BY <2>3, ConnectionFollow
    <2>4. CASE UNCHANGED vars
      BY <2>4 DEF vars, FollowInv
    <2> QED
      BY <2>1, <2>2, <2>3, <2>4 DEF Next
  <1> QED
    BY <1>1, <1>2, NetInvariant, PTL DEF Spec

\* Then no node dies of a message: none gets an empty range of blocks, and none a
\* range that fails the assertion in handleChainResponse.
THEOREM FollowersSurvive ==
    ASSUME NEW m, OneMiner(m)
    PROVE  Spec => []NodesSurvive
  <1>1. FollowInv(m) => NodesSurvive
    BY DEF FollowInv, NodesSurvive
  <1> QED
    BY <1>1, FollowersBehind, PTL

\* And no chain branches off: an update never leaves a follower with a block that
\* the miner does not have.
THEOREM FollowersOnOneChain ==
    ASSUME NEW m, OneMiner(m)
    PROVE  Spec => []SingleChain
  <1>1. FollowInv(m) => SingleChain
    BY DEF FollowInv, SingleChain, OneMiner
  <1> QED
    BY <1>1, FollowersBehind, PTL
=============================================================================
