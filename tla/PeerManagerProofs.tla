-------------------------- MODULE PeerManagerProofs --------------------------
(***************************************************************************)
(* The safety properties of PeerManager hold for any set of peers and any    *)
(* bounds: proofs of its inductive invariant and of what follows from it.    *)
(***************************************************************************)
EXTENDS PeerManager, TLAPS

\* At the start no thread is inside anything.
LEMMA PeerInvInit == Init => PeerInv
<1> SUFFICES ASSUME Init PROVE PeerInv
  OBVIOUS
<1> USE PeerManagerAssumption DEF Init, Workers, Loopers, Threads
<1>1. PeerManagerTypeOK
  BY DEF PeerManagerTypeOK, Labels, InLock
<1>2. PlacesOK
  BY DEF PlacesOK
<1>3. MutexHeld
  BY DEF MutexHeld, InLock
<1>4. WorkerInv
  BY DEF WorkerInv, Before
<1>5. StopInv
  BY DEF StopInv
<1>6. BroadcastInv
  BY DEF BroadcastInv
<1> QED
  BY <1>1, <1>2, <1>3, <1>4, <1>5, <1>6 DEF PeerInv

\* ConnectAll keeps the invariant.
LEMMA ConnectAllKeeps ==
  ASSUME PeerInv, ConnectAll
  PROVE  PeerInv'
<1> USE PeerManagerAssumption DEF PeerInv, Workers, Loopers, Threads, InLock,
        peerData, workerData, loopData, broadcastData
<1>1. PeerManagerTypeOK'
  BY DEF ConnectAll, LockPeers, At, Goto, PeerManagerTypeOK, PlacesOK, Labels
<1>2. PlacesOK'
  BY DEF ConnectAll, LockPeers, At, Goto, PlacesOK, PeerManagerTypeOK, Before,
     After
<1>3. MutexHeld'
  BY DEF ConnectAll, LockPeers, At, Goto, MutexHeld, PeerManagerTypeOK,
     PlacesOK
<1>4. WorkerInv'
  BY DEF ConnectAll, LockPeers, At, Goto, WorkerInv, PlacesOK, MutexHeld,
     PeerManagerTypeOK, Before
<1>5. StopInv'
  BY DEF ConnectAll, LockPeers, At, Goto, StopInv, PlacesOK, WorkerInv,
     PeerManagerTypeOK
<1>6. BroadcastInv'
  BY DEF ConnectAll, LockPeers, At, Goto, BroadcastInv, PlacesOK, WorkerInv,
     PeerManagerTypeOK, After, Before
<1> QED
  BY <1>1, <1>2, <1>3, <1>4, <1>5, <1>6

\* Reconnecting keeps the invariant.
LEMMA ReconnectingKeeps ==
  ASSUME PeerInv, Reconnecting
  PROVE  PeerInv'
<1> USE PeerManagerAssumption DEF PeerInv, Workers, Loopers, Threads, InLock,
        peerData, workerData, loopData, broadcastData
<1>1. PeerManagerTypeOK'
  BY DEF Reconnecting, LockPeers, At, Goto, PeerManagerTypeOK, PlacesOK, Labels
<1>2. PlacesOK'
  BY DEF Reconnecting, LockPeers, At, Goto, PlacesOK, PeerManagerTypeOK,
     Before, After
<1>3. MutexHeld'
  BY DEF Reconnecting, LockPeers, At, Goto, MutexHeld, PeerManagerTypeOK,
     PlacesOK
<1>4. WorkerInv'
  BY DEF Reconnecting, LockPeers, At, Goto, WorkerInv, PlacesOK, MutexHeld,
     PeerManagerTypeOK, Before
<1>5. StopInv'
  BY DEF Reconnecting, LockPeers, At, Goto, StopInv, PlacesOK, WorkerInv,
     PeerManagerTypeOK
<1>6. BroadcastInv'
  BY DEF Reconnecting, LockPeers, At, Goto, BroadcastInv, PlacesOK, WorkerInv,
     PeerManagerTypeOK, After, Before
<1> QED
  BY <1>1, <1>2, <1>3, <1>4, <1>5, <1>6

\* VisitPeer(t, p) keeps the invariant.
LEMMA VisitPeerKeeps ==
  ASSUME NEW t \in {Main, Reconnect}, NEW p \in Peers,
         PeerInv, VisitPeer(t, p)
  PROVE  PeerInv'
<1> USE PeerManagerAssumption DEF PeerInv, Workers, Loopers, Threads, InLock,
        peerData, workerData, loopData, broadcastData
<1>1. PeerManagerTypeOK'
  BY DEF VisitPeer, Visit, At, Goto, PeerManagerTypeOK, PlacesOK, Labels
<1>2. PlacesOK'
  BY DEF VisitPeer, Visit, At, Goto, PlacesOK, PeerManagerTypeOK, Before, After
<1>3. MutexHeld'
  BY DEF VisitPeer, Visit, At, Goto, MutexHeld, PeerManagerTypeOK, PlacesOK
<1>4. WorkerInv'
  BY DEF VisitPeer, Visit, At, Goto, WorkerInv, PlacesOK, MutexHeld,
     PeerManagerTypeOK, Before
<1>5. StopInv'
  BY DEF VisitPeer, Visit, At, Goto, StopInv, PlacesOK, WorkerInv,
     PeerManagerTypeOK
<1>6. BroadcastInv'
  BY DEF VisitPeer, Visit, At, Goto, BroadcastInv, PlacesOK, WorkerInv,
     PeerManagerTypeOK, After, Before
<1> QED
  BY <1>1, <1>2, <1>3, <1>4, <1>5, <1>6

\* CreateClient(t) keeps the invariant.
LEMMA CreateClientKeeps ==
  ASSUME NEW t \in {Main, Reconnect},
         PeerInv, CreateClient(t)
  PROVE  PeerInv'
<1> USE PeerManagerAssumption DEF PeerInv, Workers, Loopers, Threads, InLock,
        peerData, workerData, loopData, broadcastData
<1>1. PeerManagerTypeOK'
  BY DEF CreateClient, At, PeerManagerTypeOK, PlacesOK, Labels
<1>2. PlacesOK'
  BY DEF CreateClient, At, PlacesOK, PeerManagerTypeOK, Before, After
<1>3. MutexHeld'
  BY DEF CreateClient, At, MutexHeld, PeerManagerTypeOK, PlacesOK
<1>4. WorkerInv'
  BY DEF CreateClient, At, WorkerInv, PlacesOK, MutexHeld, PeerManagerTypeOK,
     Before
<1>5. StopInv'
  BY DEF CreateClient, At, StopInv, PlacesOK, WorkerInv, PeerManagerTypeOK
<1>6. BroadcastInv'
  BY DEF CreateClient, At, BroadcastInv, PlacesOK, WorkerInv,
     PeerManagerTypeOK, After, Before
<1> QED
  BY <1>1, <1>2, <1>3, <1>4, <1>5, <1>6

\* UnlockPeers(t) keeps the invariant.
LEMMA UnlockPeersKeeps ==
  ASSUME NEW t \in {Main, Reconnect},
         PeerInv, UnlockPeers(t)
  PROVE  PeerInv'
<1> USE PeerManagerAssumption DEF PeerInv, Workers, Loopers, Threads, InLock,
        peerData, workerData, loopData, broadcastData
<1>1. PeerManagerTypeOK'
  BY DEF UnlockPeers, At, PeerManagerTypeOK, PlacesOK, Labels
<1>2. PlacesOK'
  BY DEF UnlockPeers, At, PlacesOK, PeerManagerTypeOK, Before, After
<1>3. MutexHeld'
  BY DEF UnlockPeers, At, MutexHeld, PeerManagerTypeOK, PlacesOK
<1>4. WorkerInv'
  BY DEF UnlockPeers, At, WorkerInv, PlacesOK, MutexHeld, PeerManagerTypeOK,
     Before
<1>5. StopInv'
  BY DEF UnlockPeers, At, StopInv, PlacesOK, WorkerInv, PeerManagerTypeOK
<1>6. BroadcastInv'
  BY DEF UnlockPeers, At, BroadcastInv, PlacesOK, WorkerInv, PeerManagerTypeOK,
     After, Before
<1> QED
  BY <1>1, <1>2, <1>3, <1>4, <1>5, <1>6

\* Tick keeps the invariant.
LEMMA TickKeeps ==
  ASSUME PeerInv, Tick
  PROVE  PeerInv'
<1> USE PeerManagerAssumption DEF PeerInv, Workers, Loopers, Threads, InLock,
        peerData, workerData, loopData, broadcastData
<1>1. PeerManagerTypeOK'
  BY DEF Tick, At, Goto, PeerManagerTypeOK, PlacesOK, Labels
<1>2. PlacesOK'
  BY DEF Tick, At, Goto, PlacesOK, PeerManagerTypeOK, Before, After
<1>3. MutexHeld'
  BY DEF Tick, At, Goto, MutexHeld, PeerManagerTypeOK, PlacesOK
<1>4. WorkerInv'
  BY DEF Tick, At, Goto, WorkerInv, PlacesOK, MutexHeld, PeerManagerTypeOK,
     Before
<1>5. StopInv'
  BY DEF Tick, At, Goto, StopInv, PlacesOK, WorkerInv, PeerManagerTypeOK
<1>6. BroadcastInv'
  BY DEF Tick, At, Goto, BroadcastInv, PlacesOK, WorkerInv, PeerManagerTypeOK,
     After, Before
<1> QED
  BY <1>1, <1>2, <1>3, <1>4, <1>5, <1>6

\* Start(w) keeps the invariant.
LEMMA StartKeeps ==
  ASSUME NEW w \in Workers,
         PeerInv, Start(w)
  PROVE  PeerInv'
<1> USE PeerManagerAssumption DEF PeerInv, Workers, Loopers, Threads, InLock,
        peerData, workerData, loopData, broadcastData
<1>1. PeerManagerTypeOK'
  BY DEF Start, Moves, At, Goto, PeerManagerTypeOK, PlacesOK, Labels
<1>2. PlacesOK'
  BY DEF Start, Moves, At, Goto, PlacesOK, PeerManagerTypeOK, Before, After
<1>3. MutexHeld'
  BY DEF Start, Moves, At, Goto, MutexHeld, PeerManagerTypeOK, PlacesOK
<1>4. WorkerInv'
  BY DEF Start, Moves, At, Goto, WorkerInv, PlacesOK, MutexHeld,
     PeerManagerTypeOK, Before
<1>5. StopInv'
  BY DEF Start, Moves, At, Goto, StopInv, PlacesOK, WorkerInv,
     PeerManagerTypeOK
<1>6. BroadcastInv'
  BY DEF Start, Moves, At, Goto, BroadcastInv, PlacesOK, WorkerInv,
     PeerManagerTypeOK, After, Before
<1> QED
  BY <1>1, <1>2, <1>3, <1>4, <1>5, <1>6

\* OnMessage(w) keeps the invariant.
LEMMA OnMessageKeeps ==
  ASSUME NEW w \in Workers,
         PeerInv, OnMessage(w)
  PROVE  PeerInv'
<1> USE PeerManagerAssumption DEF PeerInv, Workers, Loopers, Threads, InLock,
        peerData, workerData, loopData, broadcastData
<1>1. PeerManagerTypeOK'
  BY DEF OnMessage, Moves, At, Goto, PeerManagerTypeOK, PlacesOK, Labels
<1>2. PlacesOK'
  BY DEF OnMessage, Moves, At, Goto, PlacesOK, PeerManagerTypeOK, Before, After
<1>3. MutexHeld'
  BY DEF OnMessage, Moves, At, Goto, MutexHeld, PeerManagerTypeOK, PlacesOK
<1>4. WorkerInv'
  BY DEF OnMessage, Moves, At, Goto, WorkerInv, PlacesOK, MutexHeld,
     PeerManagerTypeOK, Before
<1>5. StopInv'
  BY DEF OnMessage, Moves, At, Goto, StopInv, PlacesOK, WorkerInv,
     PeerManagerTypeOK
<1>6. BroadcastInv'
  BY DEF OnMessage, Moves, At, Goto, BroadcastInv, PlacesOK, WorkerInv,
     PeerManagerTypeOK, After, Before
<1> QED
  BY <1>1, <1>2, <1>3, <1>4, <1>5, <1>6

\* Handled(w) keeps the invariant.
LEMMA HandledKeeps ==
  ASSUME NEW w \in Workers,
         PeerInv, Handled(w)
  PROVE  PeerInv'
<1> USE PeerManagerAssumption DEF PeerInv, Workers, Loopers, Threads, InLock,
        peerData, workerData, loopData, broadcastData
<1>1. PeerManagerTypeOK'
  BY DEF Handled, Moves, At, Goto, PeerManagerTypeOK, PlacesOK, Labels
<1>2. PlacesOK'
  BY DEF Handled, Moves, At, Goto, PlacesOK, PeerManagerTypeOK, Before, After
<1>3. MutexHeld'
  BY DEF Handled, Moves, At, Goto, MutexHeld, PeerManagerTypeOK, PlacesOK
<1>4. WorkerInv'
  BY DEF Handled, Moves, At, Goto, WorkerInv, PlacesOK, MutexHeld,
     PeerManagerTypeOK, Before
<1>5. StopInv'
  BY DEF Handled, Moves, At, Goto, StopInv, PlacesOK, WorkerInv,
     PeerManagerTypeOK
<1>6. BroadcastInv'
  BY DEF Handled, Moves, At, Goto, BroadcastInv, PlacesOK, WorkerInv,
     PeerManagerTypeOK, After, Before
<1> QED
  BY <1>1, <1>2, <1>3, <1>4, <1>5, <1>6

\* Leave(w) keeps the invariant.
LEMMA LeaveKeeps ==
  ASSUME NEW w \in Workers,
         PeerInv, Leave(w)
  PROVE  PeerInv'
<1> USE PeerManagerAssumption DEF PeerInv, Workers, Loopers, Threads, InLock,
        peerData, workerData, loopData, broadcastData
<1>1. PeerManagerTypeOK'
  BY DEF Leave, Moves, At, Goto, PeerManagerTypeOK, PlacesOK, Labels
<1>2. PlacesOK'
  BY DEF Leave, Moves, At, Goto, PlacesOK, PeerManagerTypeOK, Before, After
<1>3. MutexHeld'
  BY DEF Leave, Moves, At, Goto, MutexHeld, PeerManagerTypeOK, PlacesOK
<1>4. WorkerInv'
  BY DEF Leave, Moves, At, Goto, WorkerInv, PlacesOK, MutexHeld,
     PeerManagerTypeOK, Before
<1>5. StopInv'
  BY DEF Leave, Moves, At, Goto, StopInv, PlacesOK, WorkerInv,
     PeerManagerTypeOK
<1>6. BroadcastInv'
  BY DEF Leave, Moves, At, Goto, BroadcastInv, PlacesOK, WorkerInv,
     PeerManagerTypeOK, After, Before
<1> QED
  BY <1>1, <1>2, <1>3, <1>4, <1>5, <1>6

\* Opened(p) keeps the invariant.
LEMMA OpenedKeeps ==
  ASSUME NEW p \in Peers,
         PeerInv, Opened(p)
  PROVE  PeerInv'
<1> USE PeerManagerAssumption DEF PeerInv, Workers, Loopers, Threads, InLock,
        peerData, workerData, loopData, broadcastData
<1>1. PeerManagerTypeOK'
  BY DEF Opened, Moves, At, Goto, PeerManagerTypeOK, PlacesOK, Labels
<1>2. PlacesOK'
  BY DEF Opened, Moves, At, Goto, PlacesOK, PeerManagerTypeOK, Before, After
<1>3. MutexHeld'
  BY DEF Opened, Moves, At, Goto, MutexHeld, PeerManagerTypeOK, PlacesOK
<1>4. WorkerInv'
  BY DEF Opened, Moves, At, Goto, WorkerInv, PlacesOK, MutexHeld,
     PeerManagerTypeOK, Before
<1>5. StopInv'
  BY DEF Opened, Moves, At, Goto, StopInv, PlacesOK, WorkerInv,
     PeerManagerTypeOK
<1>6. BroadcastInv'
  BY DEF Opened, Moves, At, Goto, BroadcastInv, PlacesOK, WorkerInv,
     PeerManagerTypeOK, After, Before
<1> QED
  BY <1>1, <1>2, <1>3, <1>4, <1>5, <1>6

\* Failed(p) keeps the invariant.
LEMMA FailedKeeps ==
  ASSUME NEW p \in Peers,
         PeerInv, Failed(p)
  PROVE  PeerInv'
<1> USE PeerManagerAssumption DEF PeerInv, Workers, Loopers, Threads, InLock,
        peerData, workerData, loopData, broadcastData
<1>1. PeerManagerTypeOK'
  BY DEF Failed, Moves, At, Goto, PeerManagerTypeOK, PlacesOK, Labels
<1>2. PlacesOK'
  BY DEF Failed, Moves, At, Goto, PlacesOK, PeerManagerTypeOK, Before, After
<1>3. MutexHeld'
  BY DEF Failed, Moves, At, Goto, MutexHeld, PeerManagerTypeOK, PlacesOK
<1>4. WorkerInv'
  BY DEF Failed, Moves, At, Goto, WorkerInv, PlacesOK, MutexHeld,
     PeerManagerTypeOK, Before
<1>5. StopInv'
  BY DEF Failed, Moves, At, Goto, StopInv, PlacesOK, WorkerInv,
     PeerManagerTypeOK
<1>6. BroadcastInv'
  BY DEF Failed, Moves, At, Goto, BroadcastInv, PlacesOK, WorkerInv,
     PeerManagerTypeOK, After, Before
<1> QED
  BY <1>1, <1>2, <1>3, <1>4, <1>5, <1>6

\* OnOpenReset(p) keeps the invariant.
LEMMA OnOpenResetKeeps ==
  ASSUME NEW p \in Peers,
         PeerInv, OnOpenReset(p)
  PROVE  PeerInv'
<1> USE PeerManagerAssumption DEF PeerInv, Workers, Loopers, Threads, InLock,
        peerData, workerData, loopData, broadcastData
<1>1. PeerManagerTypeOK'
  BY DEF OnOpenReset, At, Goto, PeerManagerTypeOK, PlacesOK, Labels
<1>2. PlacesOK'
  BY DEF OnOpenReset, At, Goto, PlacesOK, PeerManagerTypeOK, Before, After
<1>3. MutexHeld'
  BY DEF OnOpenReset, At, Goto, MutexHeld, PeerManagerTypeOK, PlacesOK
<1>4. WorkerInv'
  BY DEF OnOpenReset, At, Goto, WorkerInv, PlacesOK, MutexHeld,
     PeerManagerTypeOK, Before
<1>5. StopInv'
  BY DEF OnOpenReset, At, Goto, StopInv, PlacesOK, WorkerInv, PeerManagerTypeOK
<1>6. BroadcastInv'
  BY DEF OnOpenReset, At, Goto, BroadcastInv, PlacesOK, WorkerInv,
     PeerManagerTypeOK, After, Before
<1> QED
  BY <1>1, <1>2, <1>3, <1>4, <1>5, <1>6

\* OnOpenAssign(p) keeps the invariant.
LEMMA OnOpenAssignKeeps ==
  ASSUME NEW p \in Peers,
         PeerInv, OnOpenAssign(p)
  PROVE  PeerInv'
<1> USE PeerManagerAssumption DEF PeerInv, Workers, Loopers, Threads, InLock,
        peerData, workerData, loopData, broadcastData
<1>1. PeerManagerTypeOK'
  BY DEF OnOpenAssign, At, Goto, PeerManagerTypeOK, PlacesOK, Labels
<1>2. PlacesOK'
  BY DEF OnOpenAssign, At, Goto, PlacesOK, PeerManagerTypeOK, Before, After
<1>3. MutexHeld'
  BY DEF OnOpenAssign, At, Goto, MutexHeld, PeerManagerTypeOK, PlacesOK
<1>4. WorkerInv'
  BY DEF OnOpenAssign, At, Goto, WorkerInv, PlacesOK, MutexHeld,
     PeerManagerTypeOK, Before
<1>5. StopInv'
  BY DEF OnOpenAssign, At, Goto, StopInv, PlacesOK, WorkerInv,
     PeerManagerTypeOK
<1>6. BroadcastInv'
  BY DEF OnOpenAssign, At, Goto, BroadcastInv, PlacesOK, WorkerInv,
     PeerManagerTypeOK, After, Before
<1> QED
  BY <1>1, <1>2, <1>3, <1>4, <1>5, <1>6

\* OnOpenMark(p) keeps the invariant.
LEMMA OnOpenMarkKeeps ==
  ASSUME NEW p \in Peers,
         PeerInv, OnOpenMark(p)
  PROVE  PeerInv'
<1> USE PeerManagerAssumption DEF PeerInv, Workers, Loopers, Threads, InLock,
        peerData, workerData, loopData, broadcastData
<1>1. PeerManagerTypeOK'
  BY DEF OnOpenMark, At, Goto, PeerManagerTypeOK, PlacesOK, Labels
<1>2. PlacesOK'
  BY DEF OnOpenMark, At, Goto, PlacesOK, PeerManagerTypeOK, Before, After
<1>3. MutexHeld'
  BY DEF OnOpenMark, At, Goto, MutexHeld, PeerManagerTypeOK, PlacesOK
<1>4. WorkerInv'
  BY DEF OnOpenMark, At, Goto, WorkerInv, PlacesOK, MutexHeld,
     PeerManagerTypeOK, Before
<1>5. StopInv'
  BY DEF OnOpenMark, At, Goto, StopInv, PlacesOK, WorkerInv, PeerManagerTypeOK
<1>6. BroadcastInv'
  BY DEF OnOpenMark, At, Goto, BroadcastInv, PlacesOK, WorkerInv,
     PeerManagerTypeOK, After, Before
<1> QED
  BY <1>1, <1>2, <1>3, <1>4, <1>5, <1>6

\* OnLost(p) keeps the invariant.
LEMMA OnLostKeeps ==
  ASSUME NEW p \in Peers,
         PeerInv, OnLost(p)
  PROVE  PeerInv'
<1> USE PeerManagerAssumption DEF PeerInv, Workers, Loopers, Threads, InLock,
        peerData, workerData, loopData, broadcastData
<1>1. PeerManagerTypeOK'
  BY DEF OnLost, At, Goto, PeerManagerTypeOK, PlacesOK, Labels
<1>2. PlacesOK'
  BY DEF OnLost, At, Goto, PlacesOK, PeerManagerTypeOK, Before, After
<1>3. MutexHeld'
  BY DEF OnLost, At, Goto, MutexHeld, PeerManagerTypeOK, PlacesOK
<1>4. WorkerInv'
  BY DEF OnLost, At, Goto, WorkerInv, PlacesOK, MutexHeld, PeerManagerTypeOK,
     Before
<1>5. StopInv'
  BY DEF OnLost, At, Goto, StopInv, PlacesOK, WorkerInv, PeerManagerTypeOK
<1>6. BroadcastInv'
  BY DEF OnLost, At, Goto, BroadcastInv, PlacesOK, WorkerInv,
     PeerManagerTypeOK, After, Before
<1> QED
  BY <1>1, <1>2, <1>3, <1>4, <1>5, <1>6

\* Broadcast keeps the invariant.
LEMMA BroadcastKeeps ==
  ASSUME PeerInv, Broadcast
  PROVE  PeerInv'
<1> USE PeerManagerAssumption DEF PeerInv, Workers, Loopers, Threads, InLock,
        peerData, workerData, loopData, broadcastData
<1>1. PeerManagerTypeOK'
  BY DEF Broadcast, At, Goto, PeerManagerTypeOK, PlacesOK, Labels
<1>2. PlacesOK'
  BY DEF Broadcast, At, Goto, PlacesOK, PeerManagerTypeOK, Before, After
<1>3. MutexHeld'
  BY DEF Broadcast, At, Goto, MutexHeld, PeerManagerTypeOK, PlacesOK
<1>4. WorkerInv'
  BY DEF Broadcast, At, Goto, WorkerInv, PlacesOK, MutexHeld,
     PeerManagerTypeOK, Before
<1>5. StopInv'
  BY DEF Broadcast, At, Goto, StopInv, PlacesOK, WorkerInv, PeerManagerTypeOK
<1>6. BroadcastInv'
  BY DEF Broadcast, At, Goto, BroadcastInv, PlacesOK, WorkerInv,
     PeerManagerTypeOK, After, Before
<1> QED
  BY <1>1, <1>2, <1>3, <1>4, <1>5, <1>6

\* CheckPeer(p) keeps the invariant.
LEMMA CheckPeerKeeps ==
  ASSUME NEW p \in Peers,
         PeerInv, CheckPeer(p)
  PROVE  PeerInv'
<1> USE PeerManagerAssumption DEF PeerInv, Workers, Loopers, Threads, InLock,
        peerData, workerData, loopData, broadcastData
<1>1. PeerManagerTypeOK'
  BY DEF CheckPeer, Visit, At, Goto, PeerManagerTypeOK, PlacesOK, Labels
<1>2. PlacesOK'
  BY DEF CheckPeer, Visit, At, Goto, PlacesOK, PeerManagerTypeOK, Before, After
<1>3. MutexHeld'
  BY DEF CheckPeer, Visit, At, Goto, MutexHeld, PeerManagerTypeOK, PlacesOK
<1>4. WorkerInv'
  BY DEF CheckPeer, Visit, At, Goto, WorkerInv, PlacesOK, MutexHeld,
     PeerManagerTypeOK, Before
<1>5. StopInv'
  BY DEF CheckPeer, Visit, At, Goto, StopInv, PlacesOK, WorkerInv,
     PeerManagerTypeOK
<1>6. BroadcastInv'
  BY DEF CheckPeer, Visit, At, Goto, BroadcastInv, PlacesOK, WorkerInv,
     PeerManagerTypeOK, After, Before
<1> QED
  BY <1>1, <1>2, <1>3, <1>4, <1>5, <1>6

\* AssertConnection keeps the invariant.
LEMMA AssertConnectionKeeps ==
  ASSUME PeerInv, AssertConnection
  PROVE  PeerInv'
<1> USE PeerManagerAssumption DEF PeerInv, Workers, Loopers, Threads, InLock,
        peerData, workerData, loopData, broadcastData
<1>1. PeerManagerTypeOK'
  BY DEF AssertConnection, At, Goto, PeerManagerTypeOK, PlacesOK, BroadcastInv, Labels
<1>2. PlacesOK'
  BY DEF AssertConnection, At, Goto, PlacesOK, PeerManagerTypeOK, Before, After
<1>3. MutexHeld'
  BY DEF AssertConnection, At, Goto, MutexHeld, PeerManagerTypeOK, PlacesOK
<1>4. WorkerInv'
  BY DEF AssertConnection, At, Goto, WorkerInv, PlacesOK, MutexHeld,
     PeerManagerTypeOK, Before
<1>5. StopInv'
  BY DEF AssertConnection, At, Goto, StopInv, PlacesOK, WorkerInv,
     PeerManagerTypeOK
<1>6. BroadcastInv'
  BY DEF AssertConnection, At, Goto, BroadcastInv, PlacesOK, WorkerInv,
     PeerManagerTypeOK, After, Before
<1> QED
  BY <1>1, <1>2, <1>3, <1>4, <1>5, <1>6

\* SendToPeer keeps the invariant.
LEMMA SendToPeerKeeps ==
  ASSUME PeerInv, SendToPeer
  PROVE  PeerInv'
<1> USE PeerManagerAssumption DEF PeerInv, Workers, Loopers, Threads, InLock,
        peerData, workerData, loopData, broadcastData
<1>1. PeerManagerTypeOK'
  BY DEF SendToPeer, At, Goto, PeerManagerTypeOK, PlacesOK, Labels
<1>2. PlacesOK'
  BY DEF SendToPeer, At, Goto, PlacesOK, PeerManagerTypeOK, Before, After
<1>3. MutexHeld'
  BY DEF SendToPeer, At, Goto, MutexHeld, PeerManagerTypeOK, PlacesOK
<1>4. WorkerInv'
  BY DEF SendToPeer, At, Goto, WorkerInv, PlacesOK, MutexHeld,
     PeerManagerTypeOK, Before
<1>5. StopInv'
  BY DEF SendToPeer, At, Goto, StopInv, PlacesOK, WorkerInv, PeerManagerTypeOK
<1>6. BroadcastInv'
  BY DEF SendToPeer, At, Goto, BroadcastInv, PlacesOK, WorkerInv,
     PeerManagerTypeOK, After, Before
<1> QED
  BY <1>1, <1>2, <1>3, <1>4, <1>5, <1>6

\* EndBroadcast keeps the invariant.
LEMMA EndBroadcastKeeps ==
  ASSUME PeerInv, EndBroadcast
  PROVE  PeerInv'
<1> USE PeerManagerAssumption DEF PeerInv, Workers, Loopers, Threads, InLock,
        peerData, workerData, loopData, broadcastData
<1>1. PeerManagerTypeOK'
  BY DEF EndBroadcast, At, Goto, PeerManagerTypeOK, PlacesOK, Labels
<1>2. PlacesOK'
  BY DEF EndBroadcast, At, Goto, PlacesOK, PeerManagerTypeOK, Before, After
<1>3. MutexHeld'
  BY DEF EndBroadcast, At, Goto, MutexHeld, PeerManagerTypeOK, PlacesOK
<1>4. WorkerInv'
  BY DEF EndBroadcast, At, Goto, WorkerInv, PlacesOK, MutexHeld,
     PeerManagerTypeOK, Before
<1>5. StopInv'
  BY DEF EndBroadcast, At, Goto, StopInv, PlacesOK, WorkerInv,
     PeerManagerTypeOK
<1>6. BroadcastInv'
  BY DEF EndBroadcast, At, Goto, BroadcastInv, PlacesOK, WorkerInv,
     PeerManagerTypeOK, After, Before
<1> QED
  BY <1>1, <1>2, <1>3, <1>4, <1>5, <1>6

\* Shutdown keeps the invariant.
LEMMA ShutdownKeeps ==
  ASSUME PeerInv, Shutdown
  PROVE  PeerInv'
<1> USE PeerManagerAssumption DEF PeerInv, Workers, Loopers, Threads, InLock,
        peerData, workerData, loopData, broadcastData
<1>1. PeerManagerTypeOK'
  BY DEF Shutdown, At, Goto, PeerManagerTypeOK, PlacesOK, Labels
<1>2. PlacesOK'
  BY DEF Shutdown, At, Goto, PlacesOK, PeerManagerTypeOK, Before, After
<1>3. MutexHeld'
  BY DEF Shutdown, At, Goto, MutexHeld, PeerManagerTypeOK, PlacesOK
<1>4. WorkerInv'
  BY DEF Shutdown, At, Goto, WorkerInv, PlacesOK, MutexHeld, PeerManagerTypeOK,
     Before
<1>5. StopInv'
  BY DEF Shutdown, At, Goto, StopInv, PlacesOK, WorkerInv, PeerManagerTypeOK
<1>6. BroadcastInv'
  BY DEF Shutdown, At, Goto, BroadcastInv, PlacesOK, WorkerInv,
     PeerManagerTypeOK, After, Before
<1> QED
  BY <1>1, <1>2, <1>3, <1>4, <1>5, <1>6

\* JoinReconnect keeps the invariant.
LEMMA JoinReconnectKeeps ==
  ASSUME PeerInv, JoinReconnect
  PROVE  PeerInv'
<1> USE PeerManagerAssumption DEF PeerInv, Workers, Loopers, Threads, InLock,
        peerData, workerData, loopData, broadcastData
<1>1. PeerManagerTypeOK'
  BY DEF JoinReconnect, At, Goto, PeerManagerTypeOK, PlacesOK, Labels
<1>2. PlacesOK'
  BY DEF JoinReconnect, At, Goto, PlacesOK, PeerManagerTypeOK, Before, After
<1>3. MutexHeld'
  BY DEF JoinReconnect, At, Goto, MutexHeld, PeerManagerTypeOK, PlacesOK
<1>4. WorkerInv'
  BY DEF JoinReconnect, At, Goto, WorkerInv, PlacesOK, MutexHeld,
     PeerManagerTypeOK, Before
<1>5. StopInv'
  BY DEF JoinReconnect, At, Goto, StopInv, PlacesOK, WorkerInv,
     PeerManagerTypeOK
<1>6. BroadcastInv'
  BY DEF JoinReconnect, At, Goto, BroadcastInv, PlacesOK, WorkerInv,
     PeerManagerTypeOK, After, Before
<1> QED
  BY <1>1, <1>2, <1>3, <1>4, <1>5, <1>6

\* StopPeer(p) keeps the invariant.
LEMMA StopPeerKeeps ==
  ASSUME NEW p \in Peers,
         PeerInv, StopPeer(p)
  PROVE  PeerInv'
<1> USE PeerManagerAssumption DEF PeerInv, Workers, Loopers, Threads, InLock,
        peerData, workerData, loopData, broadcastData
<1>1. PeerManagerTypeOK'
  BY DEF StopPeer, Stop, Visit, At, Goto, PeerManagerTypeOK, PlacesOK, Labels
<1>2. PlacesOK'
  BY DEF StopPeer, Stop, Visit, At, Goto, PlacesOK, PeerManagerTypeOK, Before,
     After
<1>3. MutexHeld'
  BY DEF StopPeer, Stop, Visit, At, Goto, MutexHeld, PeerManagerTypeOK,
     PlacesOK
<1>4. WorkerInv'
  BY DEF StopPeer, Stop, Visit, At, Goto, WorkerInv, PlacesOK, MutexHeld,
     PeerManagerTypeOK, Before
<1>5. StopInv'
  BY DEF StopPeer, Stop, Visit, At, Goto, StopInv, PlacesOK, WorkerInv,
     PeerManagerTypeOK
<1>6. BroadcastInv'
  BY DEF StopPeer, Stop, Visit, At, Goto, BroadcastInv, PlacesOK, WorkerInv,
     PeerManagerTypeOK, After, Before
<1> QED
  BY <1>1, <1>2, <1>3, <1>4, <1>5, <1>6

\* StopServer keeps the invariant.
LEMMA StopServerKeeps ==
  ASSUME PeerInv, StopServer
  PROVE  PeerInv'
<1> USE PeerManagerAssumption DEF PeerInv, Workers, Loopers, Threads, InLock,
        peerData, workerData, loopData, broadcastData
<1>1. PeerManagerTypeOK'
  BY DEF StopServer, Stop, At, Goto, PeerManagerTypeOK, PlacesOK, Labels
<1>2. PlacesOK'
  BY DEF StopServer, Stop, At, Goto, PlacesOK, PeerManagerTypeOK, Before, After
<1>3. MutexHeld'
  BY DEF StopServer, Stop, At, Goto, MutexHeld, PeerManagerTypeOK, PlacesOK
<1>4. WorkerInv'
  BY DEF StopServer, Stop, At, Goto, WorkerInv, PlacesOK, MutexHeld,
     PeerManagerTypeOK, Before
<1>5. StopInv'
  BY DEF StopServer, Stop, At, Goto, StopInv, PlacesOK, WorkerInv,
     PeerManagerTypeOK
<1>6. BroadcastInv'
  BY DEF StopServer, Stop, At, Goto, BroadcastInv, PlacesOK, WorkerInv,
     PeerManagerTypeOK, After, Before
<1> QED
  BY <1>1, <1>2, <1>3, <1>4, <1>5, <1>6

\* JoinWorker keeps the invariant.
LEMMA JoinWorkerKeeps ==
  ASSUME PeerInv, JoinWorker
  PROVE  PeerInv'
<1> USE PeerManagerAssumption DEF PeerInv, Workers, Loopers, Threads, InLock,
        peerData, workerData, loopData, broadcastData
<1>1. PeerManagerTypeOK'
  BY DEF JoinWorker, At, Goto, PeerManagerTypeOK, PlacesOK, Labels
<1>2. PlacesOK'
  BY DEF JoinWorker, At, Goto, PlacesOK, PeerManagerTypeOK, Before, After
<1>3. MutexHeld'
  BY DEF JoinWorker, At, Goto, MutexHeld, PeerManagerTypeOK, PlacesOK
<1>4. WorkerInv'
  BY DEF JoinWorker, At, Goto, WorkerInv, PlacesOK, MutexHeld,
     PeerManagerTypeOK, Before
<1>5. StopInv'
  BY DEF JoinWorker, At, Goto, StopInv, PlacesOK, WorkerInv, PeerManagerTypeOK
<1>6. BroadcastInv'
  BY DEF JoinWorker, At, Goto, BroadcastInv, PlacesOK, WorkerInv,
     PeerManagerTypeOK, After, Before
<1> QED
  BY <1>1, <1>2, <1>3, <1>4, <1>5, <1>6
\* Every step keeps the invariant.
LEMMA PeerInvNext == PeerInv /\ [Next]_vars => PeerInv'
<1> SUFFICES ASSUME PeerInv, [Next]_vars PROVE PeerInv'
  OBVIOUS
<1>1. CASE ConnectAll \/ Connecting(Main)
  BY <1>1, ConnectAllKeeps, VisitPeerKeeps, CreateClientKeeps, UnlockPeersKeeps
  DEF Connecting
<1>2. CASE Tick \/ Reconnecting \/ Connecting(Reconnect)
  BY <1>2, TickKeeps, ReconnectingKeeps, VisitPeerKeeps, CreateClientKeeps,
     UnlockPeersKeeps DEF Connecting
<1>3. ASSUME NEW w \in Workers, Work(w) PROVE PeerInv'
  BY <1>3, StartKeeps, OnMessageKeeps, HandledKeeps, LeaveKeeps DEF Work
<1>4. ASSUME NEW p \in Peers, Peer(p) PROVE PeerInv'
  BY <1>4, OpenedKeeps, FailedKeeps, OnOpenResetKeeps, OnOpenAssignKeeps,
     OnOpenMarkKeeps, OnLostKeeps DEF Peer, OnOpen
<1>5. CASE Mining
  BY <1>5, BroadcastKeeps, CheckPeerKeeps, AssertConnectionKeeps, SendToPeerKeeps,
     EndBroadcastKeeps DEF Mining
<1>6. CASE Destroy
  BY <1>6, ShutdownKeeps, JoinReconnectKeeps, StopPeerKeeps, StopServerKeeps,
     JoinWorkerKeeps DEF Destroy
<1>7. CASE UNCHANGED vars
  BY <1>7 DEF vars, peerData, workerData, loopData, broadcastData, PeerInv,
     PeerManagerTypeOK, PlacesOK, MutexHeld, WorkerInv, StopInv, BroadcastInv
<1> QED
  BY <1>1, <1>2, <1>3, <1>4, <1>5, <1>6, <1>7 DEF Next

\* The inductive invariant of the threads of PeerManager: where a worker is
\* tells the state of its peer, _peerMutex is held exactly inside the code's
\* lock_guards, and what broadcast has seen lasts as long as the client.
THEOREM PeerInvariant == Spec => []PeerInv
<1>1. Init => PeerInv
  BY PeerInvInit
<1>2. PeerInv /\ [Next]_vars => PeerInv'
  BY PeerInvNext
<1> QED
  BY <1>1, <1>2, PTL DEF Spec

\* A connected peer has a connection in every state in between the
\* assignments of on_open, so that broadcast may look without the mutex.
THEOREM ConnectionOfConnected == Spec => []ConnectedHasConnection
<1>1. PeerInv => ConnectedHasConnection
  BY DEF PeerInv, WorkerInv, ConnectedHasConnection
<1> QED
  BY <1>1, PeerInvariant, PTL

\* The assertion of broadcast, and the use of the connection after it, go
\* wrong only if the peer was lost and opened again since the check.
THEOREM UnsafeOnlyReopened == Spec => []UnsafeNeedsReopening
<1>1. PeerInv => UnsafeNeedsReopening
  <2> SUFFICES ASSUME PeerInv, outcome # "running"
               PROVE  client[cursor[Miner]] > checked
    BY DEF UnsafeNeedsReopening
  <2>1. cursor[Miner] \in Peers /\ client[cursor[Miner]] >= checked
    BY DEF PeerInv, BroadcastInv
  <2>2. client[cursor[Miner]] # checked
    BY DEF PeerInv, BroadcastInv
  <2>3. client[cursor[Miner]] \in Nat /\ checked \in Nat
    BY <2>1 DEF PeerInv, PeerManagerTypeOK
  <2> QED
    BY <2>1, <2>2, <2>3
<1> QED
  BY <1>1, PeerInvariant, PTL

\* A worker that ends leaves its peer to the reconnect thread.
THEOREM LostLeftOffline == Spec => []LostIsOffline
<1>1. PeerInv => LostIsOffline
  BY DEF PeerInv, StopInv, LostIsOffline
<1> QED
  BY <1>1, PeerInvariant, PTL
=============================================================================
