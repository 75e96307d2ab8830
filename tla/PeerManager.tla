---------------------------- MODULE PeerManager ----------------------------
(***************************************************************************)
(* The connections of one node (src/PeerManager.cpp, src/PeerManager.h) and *)
(* the threads that use them: a worker per peer, which runs the callbacks of *)
(* its web socket client; the reconnect thread; the mining thread, which     *)
(* broadcasts; the thread of the web socket server; and the main thread,     *)
(* which connects, and takes everything down in the destructor.             *)
(*                                                                         *)
(* The client and the server are those of Simple-WebSocket-Server, known     *)
(* here from the way they are used: start() runs the callbacks one at a time *)
(* until stop() is called, also by a callback; stop() does nothing to a      *)
(* client or server whose start() has not been called yet.                  *)
(***************************************************************************)
EXTENDS Integers

CONSTANTS
    Peers,              \* the addresses in the peers file
    Reconnect, Miner, Main, Server, Nobody,
    MaxClients,         \* bound: the last of so many clients of a peer is not lost
    MaxBroadcasts       \* bound: number of broadcasts

ASSUME PeerManagerAssumption ==
    /\ Peers \cap {Reconnect, Miner, Main, Server, Nobody} = {}
    /\ Reconnect \notin {Miner, Main, Server, Nobody}
    /\ Miner \notin {Main, Server, Nobody}
    /\ Main \notin {Server, Nobody}
    /\ Server # Nobody
    /\ MaxClients \in Nat /\ MaxBroadcasts \in Nat

VARIABLES
    state,        \* PeerData::state, per peer
    connection,   \* PeerData::connection: the client that opened it, 0 for null
    client,       \* PeerData::client: how many there have been, 0 for null
    joinable,     \* is there a worker thread, and has nobody joined it
    stop,         \* was stop() called on the client or server: "none", "done",
                  \* or "early", before its thread had called start()
    peerMutex,    \* _peerMutex: the thread that holds it, or Nobody
    chainMutex,   \* MinerApp::_chainMutex
    pc,           \* what each thread does next
    todo,         \* the peers that a thread's loop over _peers has still to see
    cursor,       \* the one it is at
    shutdown,     \* ReconnectWorker::_shutdown
    sendTo,       \* the connection that broadcast has in hand, 0 for none
    checked,      \* the client at broadcast's check (only for properties)
    broadcasts,   \* number of broadcasts (only for the bound)
    outcome       \* "running", "assert", or "undefined"

peerData == <<state, connection, client>>
workerData == <<joinable, stop>>
loopData == <<todo, cursor>>
broadcastData == <<sendTo, checked, broadcasts>>
vars == <<peerData, workerData, peerMutex, chainMutex, pc, loopData, shutdown,
          broadcastData, outcome>>

Workers == Peers \cup {Server}
Loopers == {Reconnect, Miner, Main}
Threads == Workers \cup Loopers

\* The steps at which a thread holds _peerMutex.
InLock == {"assigning", "marking", "visiting", "creating"}

Labels == InLock \cup
    {"none", "starting", "connecting", "opening", "serving", "handling", "losing",
     "ended", "waiting", "locking", "idle", "checking", "sending",
     "using", "running",
     "closing", "stopping", "joining"}

Goto(t, label) == pc' = [pc EXCEPT ![t] = label]
At(t, label) == outcome = "running" /\ pc[t] = label

\* Thread t's loop over the peers goes to its next one.  (The code takes them
\* in the order of their names, the model in any order.)
Visit(t, p) ==
    /\ p \in todo[t]
    /\ todo' = [todo EXCEPT ![t] = @ \ {p}]
    /\ cursor' = [cursor EXCEPT ![t] = p]

Init ==
    /\ state = [p \in Peers |-> "OFFLINE"]
    /\ connection = [p \in Peers |-> 0]
    /\ client = [p \in Peers |-> 0]
    /\ joinable = [w \in Workers |-> w = Server]
    /\ stop = [w \in Workers |-> "none"]
    /\ peerMutex = Nobody /\ chainMutex = Nobody
    /\ pc = [t \in Threads |-> CASE t = Server -> "starting"
                                 [] t \in {Miner, Main} -> "idle"
                                 [] OTHER -> "none"]
    /\ todo = [t \in Loopers |-> {}]
    /\ cursor = [t \in Loopers |-> Nobody]
    /\ shutdown = FALSE
    /\ sendTo = 0 /\ checked = 0 /\ broadcasts = 0
    /\ outcome = "running"
-----------------------------------------------------------------------------
(* connectAll by the main thread, the callback of ReconnectWorker by the      *)
(* reconnect thread, and createClient, which both call under _peerMutex.     *)

LockPeers(t) ==
    /\ peerMutex = Nobody
    /\ peerMutex' = t
    /\ todo' = [todo EXCEPT ![t] = Peers]
    /\ Goto(t, "visiting")
    /\ UNCHANGED <<peerData, workerData, chainMutex, cursor, shutdown,
                   broadcastData, outcome>>

ConnectAll == At(Main, "idle") /\ LockPeers(Main)
Reconnecting == At(Reconnect, "locking") /\ LockPeers(Reconnect)

(* Operators named Mutant... are not part of the model.  Each is a version   *)
(* of the definition after it with a bug that the checked properties must    *)
(* detect; nothing refers to them.                                          *)
MutantVisitPeerConnecting(t, p) ==
    /\ At(t, "visiting")
    /\ Visit(t, p)
    /\ Goto(t, IF t = Main \/ state[p] # "CONNECTED" THEN "creating" ELSE "visiting")
    /\ UNCHANGED <<peerData, workerData, peerMutex, chainMutex, shutdown,
                   broadcastData, outcome>>

\* connectAll takes every peer, the reconnect thread those that are offline.
VisitPeer(t, p) ==
    /\ At(t, "visiting")
    /\ Visit(t, p)
    /\ Goto(t, IF t = Main \/ state[p] = "OFFLINE" THEN "creating" ELSE "visiting")
    /\ UNCHANGED <<peerData, workerData, peerMutex, chainMutex, shutdown,
                   broadcastData, outcome>>

(***************************************************************************)
(* createClient waits for the peer's last worker, then replaces client and   *)
(* worker.  The connection of the last client stays.                        *)
(***************************************************************************)
CreateClient(t) ==
    LET p == cursor[t] IN
    /\ At(t, "creating")
    /\ joinable[p] => pc[p] = "ended"
    /\ client' = [client EXCEPT ![p] = @ + 1]
    /\ state' = [state EXCEPT ![p] = "CONNECTING"]
    /\ joinable' = [joinable EXCEPT ![p] = TRUE]
    /\ stop' = [stop EXCEPT ![p] = "none"]
    /\ pc' = [pc EXCEPT ![p] = "starting", ![t] = "visiting"]
    /\ UNCHANGED <<connection, peerMutex, chainMutex, loopData, shutdown,
                   broadcastData, outcome>>

MutantUnlockPeersNoTimer(t) ==
    /\ At(t, "visiting")
    /\ todo[t] = {}
    /\ peerMutex' = Nobody
    /\ pc' = IF t = Main THEN [pc EXCEPT ![Main] = "running", ![Reconnect] = "waiting"]
             ELSE [pc EXCEPT ![t] = "ended"]
    /\ cursor' = [cursor EXCEPT ![t] = Nobody]
    /\ UNCHANGED <<peerData, workerData, chainMutex, todo, shutdown,
                   broadcastData, outcome>>

\* At its end connectAll starts the reconnect thread.
UnlockPeers(t) ==
    /\ At(t, "visiting")
    /\ todo[t] = {}
    /\ peerMutex' = Nobody
    /\ pc' = IF t = Main THEN [pc EXCEPT ![Main] = "running", ![Reconnect] = "waiting"]
             ELSE [pc EXCEPT ![t] = "waiting"]
    /\ cursor' = [cursor EXCEPT ![t] = Nobody]
    /\ UNCHANGED <<peerData, workerData, chainMutex, todo, shutdown,
                   broadcastData, outcome>>

MutantTickAgain ==
    /\ At(Reconnect, "waiting")
    /\ Goto(Reconnect, "locking")
    /\ UNCHANGED <<peerData, workerData, peerMutex, chainMutex, loopData,
                   shutdown, broadcastData, outcome>>

\* privateRun: the timer has run off.
Tick ==
    /\ At(Reconnect, "waiting")
    /\ Goto(Reconnect, IF shutdown THEN "ended" ELSE "locking")
    /\ UNCHANGED <<peerData, workerData, peerMutex, chainMutex, loopData,
                   shutdown, broadcastData, outcome>>

-----------------------------------------------------------------------------
(* A worker: client->start(), which runs the callbacks. *)

\* A step of worker w that changes nothing but where it is.
Moves(w, label) ==
    /\ Goto(w, label)
    /\ UNCHANGED <<peerData, workerData, peerMutex, chainMutex, loopData,
                   shutdown, broadcastData, outcome>>

Start(w) == At(w, "starting") /\ Moves(w, IF w = Server THEN "serving" ELSE "connecting")

\* The connection is made, or the attempt fails (it has a timeout), or a
\* connection is lost.
Opened(p) == At(p, "connecting") /\ stop[p] # "done" /\ Moves(p, "opening")
Failed(p) ==
    /\ At(p, "connecting") \/ At(p, "serving")
    /\ stop[p] # "done" /\ client[p] < MaxClients
    /\ Moves(p, "losing")

(***************************************************************************)
(* on_open, which another thread may see between its steps: it takes         *)
(* _peerMutex, and broadcast does not.                                      *)
(***************************************************************************)
MutantOnOpenResetNoWait(p) ==
    /\ At(p, "opening")
    /\ peerMutex' = p
    /\ connection' = [connection EXCEPT ![p] = 0]
    /\ Goto(p, "assigning")
    /\ UNCHANGED <<state, client, workerData, chainMutex, loopData, shutdown,
                   broadcastData, outcome>>

OnOpenReset(p) ==
    /\ At(p, "opening") /\ peerMutex = Nobody
    /\ peerMutex' = p
    /\ connection' = [connection EXCEPT ![p] = 0]
    /\ Goto(p, "assigning")
    /\ UNCHANGED <<state, client, workerData, chainMutex, loopData, shutdown,
                   broadcastData, outcome>>

MutantOnOpenAssignEarlyState(p) ==
    /\ At(p, "assigning")
    /\ state' = [state EXCEPT ![p] = "CONNECTED"]
    /\ Goto(p, "marking")
    /\ UNCHANGED <<connection, client, workerData, peerMutex, chainMutex,
                   loopData, shutdown, broadcastData, outcome>>

OnOpenAssign(p) ==
    /\ At(p, "assigning")
    /\ connection' = [connection EXCEPT ![p] = client[p]]
    /\ Goto(p, "marking")
    /\ UNCHANGED <<state, client, workerData, peerMutex, chainMutex, loopData,
                   shutdown, broadcastData, outcome>>

OnOpenMark(p) ==
    /\ At(p, "marking")
    /\ state' = [state EXCEPT ![p] = "CONNECTED"]
    /\ peerMutex' = Nobody
    /\ Goto(p, "serving")
    /\ UNCHANGED <<connection, client, workerData, chainMutex, loopData,
                   shutdown, broadcastData, outcome>>

MutantOnLostKeepsState(p) ==
    /\ At(p, "losing") /\ peerMutex = Nobody
    /\ stop' = [stop EXCEPT ![p] = "done"]
    /\ Goto(p, "serving")
    /\ UNCHANGED <<peerData, joinable, peerMutex, chainMutex, loopData,
                   shutdown, broadcastData, outcome>>

\* on_error and on_close do the same.
OnLost(p) ==
    /\ At(p, "losing") /\ peerMutex = Nobody
    /\ stop' = [stop EXCEPT ![p] = "done"]
    /\ state' = [state EXCEPT ![p] = "OFFLINE"]
    /\ Goto(p, "serving")
    /\ UNCHANGED <<connection, client, joinable, peerMutex, chainMutex,
                   loopData, shutdown, broadcastData, outcome>>

\* on_message, without _peerMutex; the handlers of MinerApp take _chainMutex.
OnMessage(w) == At(w, "serving") /\ stop[w] # "done" /\ Moves(w, "handling")
Handled(w) == At(w, "handling") /\ chainMutex = Nobody /\ Moves(w, "serving")

\* start() returns when it was stopped.
Leave(w) ==
    /\ At(w, "connecting") \/ At(w, "serving")
    /\ stop[w] = "done"
    /\ Moves(w, "ended")

-----------------------------------------------------------------------------
(* broadcast by the mining thread, which holds _chainMutex but not _peerMutex. *)

Broadcast ==
    /\ At(Miner, "idle") /\ pc[Main] = "running" /\ chainMutex = Nobody
    /\ broadcasts < MaxBroadcasts
    /\ broadcasts' = broadcasts + 1
    /\ chainMutex' = Miner
    /\ todo' = [todo EXCEPT ![Miner] = Peers]
    /\ Goto(Miner, "checking")
    /\ UNCHANGED <<peerData, workerData, peerMutex, cursor, shutdown, sendTo,
                   checked, outcome>>

MutantCheckPeerNotOffline(p) ==
    /\ At(Miner, "checking")
    /\ Visit(Miner, p)
    /\ checked' = client[p]
    /\ Goto(Miner, IF state[p] # "OFFLINE" THEN "sending" ELSE "checking")
    /\ UNCHANGED <<peerData, workerData, peerMutex, chainMutex, shutdown,
                   sendTo, broadcasts, outcome>>

CheckPeer(p) ==
    /\ At(Miner, "checking")
    /\ Visit(Miner, p)
    /\ checked' = client[p]
    /\ Goto(Miner, IF state[p] = "CONNECTED" THEN "sending" ELSE "checking")
    /\ UNCHANGED <<peerData, workerData, peerMutex, chainMutex, shutdown,
                   sendTo, broadcasts, outcome>>

\* assert(data.connection).
AssertConnection ==
    LET found == connection[cursor[Miner]] IN
    /\ At(Miner, "sending")
    /\ sendTo' = found
    /\ IF found = 0
       THEN outcome' = "assert" /\ UNCHANGED pc
       ELSE Goto(Miner, "using") /\ UNCHANGED outcome
    /\ UNCHANGED <<peerData, workerData, peerMutex, chainMutex, loopData,
                   shutdown, checked, broadcasts>>

(***************************************************************************)
(* data.connection->send(message) reads the pointer again.  If on_open has   *)
(* begun since, it reads null, or an object that is gone before it is used,  *)
(* or the new connection.                                                   *)
(***************************************************************************)
SendToPeer ==
    LET found == connection[cursor[Miner]] IN
    /\ At(Miner, "using")
    /\ \/ found # 0 /\ Goto(Miner, "checking") /\ UNCHANGED outcome
       \/ found # sendTo /\ outcome' = "undefined" /\ UNCHANGED pc
    /\ sendTo' = 0
    /\ UNCHANGED <<peerData, workerData, peerMutex, chainMutex, loopData,
                   shutdown, checked, broadcasts>>

EndBroadcast ==
    /\ At(Miner, "checking")
    /\ todo[Miner] = {}
    /\ chainMutex' = Nobody
    /\ cursor' = [cursor EXCEPT ![Miner] = Nobody]
    /\ checked' = 0
    /\ Goto(Miner, "idle")
    /\ UNCHANGED <<peerData, workerData, peerMutex, todo, shutdown, sendTo,
                   broadcasts, outcome>>

-----------------------------------------------------------------------------
(* The destructor, after MinerApp's has joined the mining thread. *)

Shutdown ==
    /\ At(Main, "running") /\ pc[Miner] = "idle"
    /\ shutdown' = TRUE
    /\ Goto(Main, "closing")
    /\ UNCHANGED <<peerData, workerData, peerMutex, chainMutex, loopData,
                   broadcastData, outcome>>

JoinReconnect ==
    /\ At(Main, "closing")
    /\ pc[Reconnect] = "ended"
    /\ todo' = [todo EXCEPT ![Main] = Peers]
    /\ Goto(Main, "stopping")
    /\ UNCHANGED <<peerData, workerData, peerMutex, chainMutex, cursor,
                   shutdown, broadcastData, outcome>>

MutantStopNothing(w) ==
    /\ Goto(Main, "joining")
    /\ UNCHANGED <<peerData, workerData, peerMutex, chainMutex, shutdown,
                   broadcastData, outcome>>

\* Without the mutex.
Stop(w) ==
    /\ stop' = [stop EXCEPT ![w] = IF pc[w] = "starting" THEN "early" ELSE "done"]
    /\ Goto(Main, "joining")
    /\ UNCHANGED <<peerData, joinable, peerMutex, chainMutex, shutdown,
                   broadcastData, outcome>>

StopPeer(p) == At(Main, "stopping") /\ Visit(Main, p) /\ Stop(p)

StopServer ==
    /\ At(Main, "stopping")
    /\ todo[Main] = {} /\ joinable[Server]
    /\ cursor' = [cursor EXCEPT ![Main] = Server]
    /\ Stop(Server)
    /\ UNCHANGED todo

JoinWorker ==
    /\ At(Main, "joining")
    /\ pc[cursor[Main]] = "ended"
    /\ joinable' = [joinable EXCEPT ![cursor[Main]] = FALSE]
    /\ Goto(Main, IF cursor[Main] = Server THEN "ended" ELSE "stopping")
    /\ UNCHANGED <<peerData, stop, peerMutex, chainMutex, loopData, shutdown,
                   broadcastData, outcome>>

-----------------------------------------------------------------------------

Connecting(t) == (\E p \in Peers : VisitPeer(t, p)) \/ CreateClient(t) \/ UnlockPeers(t)

OnOpen(p) == OnOpenReset(p) \/ OnOpenAssign(p) \/ OnOpenMark(p)

Work(w) == Start(w) \/ OnMessage(w) \/ Handled(w) \/ Leave(w)
Peer(p) == Opened(p) \/ Failed(p) \/ OnOpen(p) \/ OnLost(p)

Mining == Broadcast \/ (\E p \in Peers : CheckPeer(p)) \/ AssertConnection \/ SendToPeer
          \/ EndBroadcast

Destroy ==
    \/ Shutdown
    \/ JoinReconnect
    \/ \E p \in Peers : StopPeer(p)
    \/ StopServer
    \/ JoinWorker

Next ==
    \/ ConnectAll \/ Connecting(Main)
    \/ Tick \/ Reconnecting \/ Connecting(Reconnect)
    \/ \E w \in Workers : Work(w)
    \/ \E p \in Peers : Peer(p)
    \/ Mining
    \/ Destroy

Spec == Init /\ [][Next]_vars

(***************************************************************************)
(* Fairness: a thread that can take a step takes it, a handler ends, and an  *)
(* attempt to connect ends one way or the other.  A callback that waits for  *)
(* _peerMutex gets it in the end: the reconnect thread sleeps for seconds    *)
(* before it takes it again.  Nothing is assumed of when the user shuts the  *)
(* node down, of messages, and of connections that are lost.                *)
(***************************************************************************)
Fairness ==
    /\ WF_vars(ConnectAll \/ Connecting(Main))
    /\ WF_vars(Tick \/ Reconnecting \/ Connecting(Reconnect))
    /\ \A w \in Workers : WF_vars(Start(w) \/ Handled(w) \/ Leave(w))
    /\ \A p \in Peers : WF_vars(Opened(p) \/ (At(p, "connecting") /\ Failed(p)))
    /\ \A p \in Peers : SF_vars(OnOpen(p) \/ OnLost(p))
    /\ WF_vars((\E p \in Peers : CheckPeer(p)) \/ AssertConnection \/ SendToPeer
               \/ EndBroadcast)
    /\ WF_vars(JoinReconnect \/ (\E p \in Peers : StopPeer(p)) \/ StopServer \/ JoinWorker)

FairSpec == Spec /\ Fairness

-----------------------------------------------------------------------------
(* Properties. *)

PeerManagerTypeOK ==
    /\ state \in [Peers -> {"OFFLINE", "CONNECTING", "CONNECTED"}]
    /\ connection \in [Peers -> Nat]
    /\ client \in [Peers -> Nat]
    /\ joinable \in [Workers -> BOOLEAN]
    /\ stop \in [Workers -> {"none", "early", "done"}]
    /\ peerMutex \in Threads \cup {Nobody}
    /\ chainMutex \in {Miner, Nobody}
    /\ pc \in [Threads -> Labels]
    /\ todo \in [Loopers -> SUBSET Peers]
    /\ cursor \in [Loopers -> Workers \cup {Nobody}]
    /\ shutdown \in BOOLEAN
    /\ sendTo \in Nat /\ checked \in Nat /\ broadcasts \in Nat
    /\ outcome \in {"running", "assert", "undefined"}

\* Whenever broadcast, which takes no mutex, finds a peer connected, there is
\* a connection: on_open may be anywhere between its assignments.
ConnectedHasConnection ==
    \A p \in Peers : state[p] = "CONNECTED" => connection[p] # 0

\* The connection may be gone when broadcast uses it only if the peer was lost
\* and opened again in between; losing it is not enough.
UnsafeNeedsReopening ==
    outcome # "running" => client[cursor[Miner]] > checked

\* A worker that is about to end, or has, leaves its peer offline, so that the
\* reconnect thread finds it - unless the destructor stopped it.
LostIsOffline ==
    \A p \in Peers :
        client[p] > 0 /\ (stop[p] = "done" \/ pc[p] = "ended") => state[p] = "OFFLINE" \/ shutdown

(***************************************************************************)
(* The inductive invariant of the proofs.  The callbacks of a peer follow    *)
(* each other, so that its worker's place tells what state and connection    *)
(* are; the mutex is held exactly where the code has a lock_guard.           *)
(***************************************************************************)
Before == {"starting", "connecting", "opening", "assigning", "marking"}
After == {"serving", "handling", "losing", "ended"}

PlacesOK ==
    /\ \A p \in Peers : pc[p] \in {"none"} \cup Before \cup After
    /\ pc[Server] \in {"starting", "serving", "handling", "ended"}
    /\ pc[Reconnect] \in {"none", "waiting", "locking", "visiting", "creating", "ended"}
    /\ pc[Miner] \in {"idle", "checking", "sending", "using"}
    /\ pc[Main] \in {"idle", "visiting", "creating", "running", "closing", "stopping",
                     "joining", "ended"}
    /\ \A t \in {Main, Reconnect} : pc[t] = "creating" => cursor[t] \in Peers
    /\ pc[Main] = "joining" => cursor[Main] \in Workers

MutexHeld == \A t \in Threads : peerMutex = t <=> pc[t] \in InLock

WorkerInv ==
    \A p \in Peers :
        /\ pc[p] \notin {"none", "ended"} => joinable[p]
        /\ pc[p] = "none" => state[p] = "OFFLINE"
        /\ client[p] = 0 <=> pc[p] = "none"
        /\ pc[p] \in Before => state[p] = "CONNECTING"
        /\ pc[p] = "marking" => connection[p] # 0
        /\ state[p] = "CONNECTED" => connection[p] # 0

StopInv ==
    /\ pc[Main] \in {"closing", "stopping", "joining"} => shutdown
    /\ \A p \in Peers :
        /\ pc[p] = "ended" => stop[p] = "done"
        /\ stop[p] = "done" /\ ~shutdown =>
               state[p] = "OFFLINE" /\ pc[p] \in {"serving", "handling", "ended"}

\* What broadcast has seen lasts as long as the client does.
BroadcastInv ==
    LET p == cursor[Miner] IN
    /\ outcome # "running" => pc[Miner] \in {"sending", "using"}
    /\ pc[Miner] \in {"sending", "using"} =>
        /\ p \in Peers
        /\ client[p] >= checked
        /\ client[p] = checked =>
               /\ outcome = "running"
               /\ pc[p] \in After /\ connection[p] # 0
               /\ pc[Miner] = "using" => connection[p] = sendTo

PeerInv ==
    /\ PeerManagerTypeOK
    /\ PlacesOK
    /\ MutexHeld
    /\ WorkerInv
    /\ StopInv
    /\ BroadcastInv

\* The reconnect thread joins a worker while it holds _peerMutex, which the
\* worker's callbacks wait for; the join always returns.
JoinReturns ==
    \A t \in {Main, Reconnect} :
        pc[t] = "creating" ~> (pc[t] # "creating" \/ outcome # "running")

\* A peer that was lost is tried again, until the node shuts down.
LostPeerRetried ==
    \A p \in Peers :
        state[p] = "OFFLINE" /\ client[p] > 0
            ~> (state[p] # "OFFLINE" \/ shutdown \/ outcome # "running")

\* The destructor waits for a client or server that was told to stop before
\* its thread had started it.
StoppedTooEarly == pc[Main] = "joining" /\ stop[cursor[Main]] = "early"

\* The destructor returns, from any point of the other threads, but for a stop
\* that came too early.
DestructorReturns ==
    shutdown ~> (pc[Main] = "ended" \/ StoppedTooEarly \/ outcome # "running")
=============================================================================
