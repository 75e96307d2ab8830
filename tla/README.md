# Verification of the Ash node

TLA+ models of the HenryCoin / Ash blockchain node in `src/`, checked with TLC on small
instances, and theorems about them proved with TLAPS for every value of the constants.
File and line references are to `src/src/` unless another path is given.

## 1. The system

A node is one process. It keeps a chain of blocks, mines new ones, stores the chain in a
file, talks to other nodes over web sockets and to users over HTTP.

| Component | Source | State | Operations |
|---|---|---|---|
| Blocks, blockchain | `Block.*`, `Blockchain.*` | `_blocks`, `_txQueue` | make and mine a block, `addNewBlock`, `resize`, validity, cumulative difficulty, difficulty adjustment, queueing payments |
| Transactions and ledger | `Transactions.*`, `Blockchain.cpp:71-303` | none of its own; reads the chain | unspent outputs, block details, ledger, balance, `CreateTransaction` |
| Miner | `Miner.h` | `_keepTrying` (atomic), difficulty, a callback | `mineBlock` (search for a nonce), `abort` |
| ChainDatabase | `ChainDatabase.*` | the file `chain.ashdb` | `initialize`, `write`, `writeChain`, `reset` |
| MinerApp | `MinerApp.*` | `_blockchain`, `_tempchain`, `_miningDone`, `_done`, threads, `_chainMutex` | mining thread, message handlers, REST calls, start and shutdown |
| PeerManager | `PeerManager.*` | per peer: client, connection, worker thread, state; `_peerMutex` | `connectAll`, `createClient` and its callbacks, `broadcast`, reconnecting every few seconds, the destructor |
| Settings | `Settings.*` | `_settings`, `_defaults`, `_validators`, the settings file | register, `load`, `save`, `set`, `reset`, `value` |
| Utilities, entry point | `AshUtils.*`, `main.cpp` ... | none | registration of the settings, command line; straight-line code before any thread runs |

How they interact:

* The **mining thread** (`MinerApp.cpp:691-756`) takes a block from the chain and the queue
  under `_chainMutex`, then searches without it, adds the block and writes it to the file
  *without* the mutex, and then either applies a cached update or broadcasts the block.
* **Message handlers** run in one thread per connection. A summary that is heavier than the
  local chain makes a handler ask for blocks; blocks that attach are cached in `_tempchain`
  (the *update*). The mining thread applies the update between two blocks; when mining is
  off the handler applies it itself. Both call `syncBlockchain` (`774-828`).
* **REST calls** run in the HTTP thread: `startMining` assigns a new mining thread,
  `stopMining` aborts and joins it, `createtx` queues a payment, `shutdown` wakes the main
  thread, whose destructor joins everything.
* **Peers** are only told of new blocks on connections that the node opened itself; a
  connection that is lost is retried by a worker, and a client that connects asks for a
  summary. Each peer has a thread that runs the callbacks of its client; these and the
  reconnect thread write the peer's state under `_peerMutex`, and `broadcast` reads it without.
* **The start** (`MinerApp.cpp:625-689`) opens the web socket server and connects to the peers
  first, then reads the file, then starts the HTTP and mining threads: until the file is read
  handlers see an empty chain, or a part of it.

What is hard, and where it bites, is the list of hazards in `PROJECT.json`. In short: the
update is checked when it is cached and used later without a check; the chain is read and
extended without its mutex; `abort` may come before `mineBlock` starts; a `std::thread` is
assigned and joined from two places; the file is removed and rewritten block by block; the
difficulty is unsigned and goes down; payments name the outputs they spend by position,
in a chain whose blocks may be replaced while they wait; a worker is joined under a mutex that
its callbacks take; a settings file may be edited, or cut off when it is saved.

What makes each component correct:

* Chain: `isValidChain` accepts the local chain always, and its genesis block stays unless
  `chain.reset.enable` is set.
* Update: it attaches to the local chain for as long as it is cached; while users leave the
  miner alone it is adopted whole, and eventually; otherwise it is adopted block by block, and
  what is left of it is given up only when a block was mined in between.
* Miner and REST calls: `stopMining` and the shutdown return; nothing else ends the process.
* Payments: accepted ones are kept, once, and mined in the end; what this node makes is sound,
  and as long as all payments of the chain are, balances agree with the unspent outputs and
  coins come only from mining.
* File: it holds the chain, and a restart finds a chain the node had.
* Network: no message kills a node, and nodes end up with one chain.
* Connections: joins return, a peer that was lost is tried again, the destructor returns, and
  `broadcast` finds a connection where it finds a connected peer.
* Settings: what is stored passes its validator, and the program runs with all of its file or
  not at all.

## 2. The modules

| Module | Models | Remarks |
|---|---|---|
| `Blockchain` | blocks and chains as sequences, and the pure operations on them | parameters `BLOCK_INTERVAL`, `UINT64_MAX`, the payments `Txs` |
| `ChainProtocol` | the decisions of `dispatchRequest`, `handleResponse`, `handleChainResponse`, `syncBlockchain` | operators, used by the next two |
| `MinerApp` | one node, at the level of its threads | peers are an environment |
| `LocalChain` | what a node promises about chain and update, with neither threads nor mutex | implemented by `MinerApp` |
| `MinerAppRestart` | `MinerApp` with crashes, and restarts that read the file while peers already talk to the node | every action of `MinerApp` plus those of the start |
| `MinerNetwork` | several nodes that exchange messages | a node's steps are coarser than in `MinerApp` |
| `Ledger` | transactions and their ids, unspent outputs, balances, and payments on their way into the chain | independent of the others |
| `PeerManager` | the connections of one node and the threads that use them | what the threads do to messages is in `MinerNetwork` |
| `Settings` | the registry of settings and its file, over several runs of the program | independent of the others |
| `ChainProofs` | lemmas about `Blockchain` and `ChainProtocol` | TLAPS |
| `MinerAppProofs` | the invariant of `MinerApp`, its consequences, that `MinerApp` implements `LocalChain`; the genesis block, payments, a node without peers | TLAPS |
| `FileProofs` | the file of `MinerApp`, and crashes and starts in `MinerAppRestart` | TLAPS |
| `Sums` | lemmas: induction over finite sets and numbers, sums over finite sets | TLAPS, used by the next two |
| `MinerNetworkProofs` | the invariant of `MinerNetwork`, and nodes that follow one miner | TLAPS |
| `LedgerProofs` | loops over a chain, the invariant of `Ledger` and its consequences | TLAPS |
| `PeerManagerProofs`, `SettingsProofs` | the invariants of `PeerManager` and `Settings` and their consequences | TLAPS |
| `MCChains` | the chains that instances start from | used by the next three |
| `MCMinerApp`, `MCMinerAppRestart`, `MCMinerNetwork`, `MCLedger`, `MCPeerManager`, `MCSettings` | the instances TLC checks | values are in the `.cfg` files |

Definitions whose name starts with `Mutant` are not part of a model: each is a version of
the definition after it with a plausible bug. Substituting one must break the property that
`PROJECT.json` names for it, which shows that the property depends on the code.

### Blocks (`Blockchain`)

A digest is a pair of the block's index and an identity: the index is part of the hashed
text (`Block.cpp:72-106`), and SHA-256 is taken to be free of collisions. `hash` is the
digest stored in the block, `calc` the digest of its contents; they differ in the genesis
block, whose text is set after its digest was computed (`MinerApp.cpp:638-654`). Block times
are left out, so `getAdjustedDifficulty` chooses freely between up, down and the same at the
end of an interval. Difficulties wrap around as `uint64_t` does, with `UINT64_MAX` as a
parameter. `cumDifficulty` leaves out the last block, as the code does.

### One node (`MinerApp`)

Threads have a program counter `pc`. One action is what a thread does between two points at
which another thread can be seen: a region under `_chainMutex`, one call on the chain
without it, one access to the file.

| Code | Actions |
|---|---|
| `runMineThread` 691-756, `Miner::mineBlock`, `abort` | `MineTop`, `MineCreate`, `MineBegin`, `MineFound`, `MineAborted`, `MineOvertaken`, `MineRequeue`, `MineAdd`, `MineWrite`, `MineBroadcast` |
| `syncBlockchain` 774-828 | `SyncNothing`, or `SyncBegin` and then: for a full chain `SyncReset`, `SyncRewrite`, `SyncEnd`; for an update that overlaps `SyncReplace` once per block, `SyncReset`, `SyncRewrite`, `SyncEnd`; for another one `SyncCheck`, `SyncAppend` and `SyncStore` per block, `SyncEnd`. The mutex is held in between (`chainMutex`), `position` is the loop's |
| `dispatchRequest` (newblock), `handleResponse`, `handleChainResponse` | `HandleNewBlock`, `HandleSummary`, `HandleChain`, `HandleChainError`, `HandleNewBlockResponse`, `HandleTail` |
| REST calls 279-369 | `StartMining`, `StopMining`, `JoinMiner`, `Shutdown`, `CreateTx` |
| end of `run`, `~MinerApp` | `MainLeaves`, `MainJoins`, `StopServer`, `Exit` |

The mining thread takes no mutex for `MineAdd` (line 738), so it may come between any two steps
of a handler's `syncBlockchain` once `stopMining` has set `_miningDone`: after `SyncBegin` has cut
the chain, or between its check of line 788 and that of line 806 (`SyncCheck`), or between that
and the loop. The update's blocks are then refused one by one, or the update is "too far ahead",
and `_tempchain.reset()` drops it. `SyncBegin` has the check of line 788 and the `resize` of line
791 in one step: a block added between the two is cut off by `resize`, as one added before the
check is. One call of the chain (`addNewBlock`, `resize`, `back`) is one step; that two of them on
one `std::vector` at the same time are undefined is left out.

The HTTP server answers until `StopServer`, so a `startMining` may come between the join of
the mining thread and the end of the server; `Exit` then destroys a thread that can still be
joined, which is `std::terminate`.

A peer may answer a request from any of the chains in `PeerChains[h]`, all of them built as
nodes build chains, and may announce blocks when it likes. `outcome` records how the process
ends: by request, by a failed assertion (unless `NDEBUG`), by a response without blocks, by
`std::terminate`, or by the exception of `mineBlock` when the difficulty has wrapped around.

### What a node promises (`LocalChain`)

Three variables, the chain, the update that waits and the place in it, and seven steps: a block
with the next index is added (`Mine`), an update that attaches is cached (`Offer`), a cached full
chain takes the chain's place (`Replace`), another update cuts the chain at its first index
(`Begin`) and adds its blocks one by one (`Take`); one that does not link is passed over
(`PassOver`), and at the end, or when the next block does not link, the update is gone (`Finish`).
What it excludes is what the code could do wrong: a gap, a block that does not link, an update
that is begun anywhere but where it attaches, one that is dropped although its next block links.
`MinerApp` implements it with `chain` as `_blockchain`, `position` as the place in the loops, and
`update` as `_tempchain`, but for the time after a swap in which `_tempchain` is the old chain:
`Replace` and `Begin` are `SyncBegin`, `Take` and `PassOver` are `SyncReplace` and `SyncAppend`,
`Finish` is `SyncEnd` and the other end of `SyncCheck`, `Mine` is `MineAdd`, `Offer` is
`HandleChain`; all other steps do not show.

### Crashes and starts (`MinerAppRestart`)

A crash may cut short one write; any number of the blocks being written are in the file then,
and perhaps part of the next. A block that was cut short is read as far as it goes; its
digest gives it away, except in the first block, which `isValidChain` compares with nothing.

`Restart` is `run()` up to line 658, `ReadBlock` a turn of the loop of
`ChainDatabase::initialize`, `LoadFails` its exceptions, `LoadDone` the rest of `run()`. In
between the peers' handlers run (`EarlyHandle`) on the blocks read so far: they cache updates,
and apply none, because `_miningDone` is false until the file has been read. Or a handler calls
`front()` or `back()` of an empty chain, or reads while `push_back` moves the blocks; that is
undefined, and ends the model (`EarlyMessage`).

### Network (`MinerNetwork`)

A message handler with the update it may apply is one step, so is a mined block with the
update or broadcast that follows: what the mining thread does in the middle of a handler is in
`MinerApp` only. Connections deliver in order; `Cut` loses what is under
way, `Reconnect` is the reconnect worker.

### Ledger (`Ledger`)

A block is the sequence of its transactions, and an input names the output it spends by
<<block, transaction, output>>. `UnspentTxOuts`, `AddressLedger` and `CreateTransaction` are
folds and choices that follow the loops of the code; the outputs are collected in any order,
since the code takes them in the order of their hashes. The actions take a payment through
the queue and the block being mined into the chain; `SyncBlockchain` lets a peer's block replace
the end of the chain, also while a block is being mined, which `addNewBlock` then refuses: it is
lost with its payments (`AddNewBlock`).

`addNewBlock` looks at no transaction, and peers mine like this node does. So a block from a peer
may carry payments made on the chain it extends, double spends among them, and payments made on
another chain, whose inputs mean something else on this one, or nothing (`PeerPayments`).

`createtx` takes any number, so amounts are integers of any sign: a payment of nothing or less
collects one output and returns all of it, or more, as change.

A transaction's id is the digest of a text: the numbers of its inputs, the address and amount of
each output and the number of its block, with nothing in between, and amounts as a stream writes
a double, with six digits. The text is modelled by what it is made of, digits, minus signs and
addresses (an address is one symbol), and `ShownExactly` is the number from which on digits are
lost (10^6 in the code, 10 in the instance); the decimal point and the exponent are left out.
Different transactions may have one text, as payments of 1.0000001 and 1.0000002 in one block
do when they spend the same output, and so one id; `FindTransaction` returns the first.

### Connections (`PeerManager`)

Each peer has a worker thread; `pc` tells where it is in the life of its client: starting,
connecting, in `on_open`, serving, in `on_error` or `on_close`, or ended.

| Code | Actions |
|---|---|
| `connectAll`, the callback of `ReconnectWorker` | `ConnectAll`, `Reconnecting`, `VisitPeer`, `UnlockPeers`, `Tick` |
| `createClient` 94-171 | `CreateClient`, which waits for the last worker |
| `on_open` | `OnOpenReset`, `OnOpenAssign`, `OnOpenMark`: `broadcast` may look between them |
| `on_error`, `on_close`, `on_message` | `OnLost`; `OnMessage`, `Handled` |
| `broadcast` 190-200 | `Broadcast`, `CheckPeer`, `AssertConnection`, `SendToPeer`, `EndBroadcast` |
| `~PeerManager` 34-68 | `Shutdown`, `JoinReconnect`, `StopPeer`, `StopServer`, `JoinWorker` |

`_chainMutex` appears because the mining thread holds it while it broadcasts, and message
handlers wait for it. Clients are numbered: `connection` is the number of the client whose
`on_open` stored it. The library is known by its use: callbacks of a client run one at a time
in its worker, `start()` returns after `stop()`, a `stop()` before `start()` has no effect.

### Settings (`Settings`)

A value has a type and a text, because `load` keeps the type of the file, `set` that of the
stored value, the validators look at the text, and `value()` goes by the type. `Start` is
`registerSettings` and the choice in `initSettings` (`main.cpp`); `LoadItem`, `LoadThrows` and
`Loaded` are `load`; `Save` and `Written` are `save`, which truncates the file and then writes
it; a write may also fail half way with the program running on beside a torn file, as nothing looks
at the stream; `Set` is `set` and `setNoThrow`, which make the same changes. `End` ends the process at any
point, `Edit` is the user with an editor. The program itself calls `load`, one `save` and
`value()`; `set`, `reset` and further saves are what the class offers.

## 3. What TLC checks

`P` is a run whose properties hold, `V` one that finds the code in disagreement with a
document, comment or assertion of the repository.

| Run | | Question | Instance |
|---|---|---|---|
| `MCMining` | P | What can three peers do to a node that mines? | one peer ahead by two blocks, one with a fork of three, one with another genesis block; 1 block mined, 1 announcement; 460 000 states |
| `MCStop` | P | Updates while users start and stop the miner; the inductive invariant | one peer that switches between three chains; 227 000 states |
| `MCRest` | P | Starts, stops, payments and shutdown in any order, at a difficulty that wraps around | no peers, 2 payments, 2 blocks, `BLOCK_INTERVAL` 2, `UINT64_MAX` 3, second block at difficulty 0; 38 000 states |
| `MCRestart` | P | A crash anywhere, and the restart, with messages that come before the file is read | one peer that extends the chain, two crashes; 160 000 states |
| `MCFollow` | P | Does a node that follows a mining one stay in step, and alive? | 2 nodes, 1 connection, up to block 5; 1 200 states |
| `MCTwo` | P | Are both chains valid when both nodes mine, with different genesis blocks? | connected both ways, one with `chain.reset.enable`, one connection lost once; 91 000 states |
| `MCLedger` | P | Do unspent outputs, ledgers and balances agree, are our payments sound, and ids current? | 2 wallets, amounts -1, 0 and 3, reward 2, 4 blocks, 2 payments, 1 block from a peer with at most one payment, made on its chain or on another; 815 000 states |
| `MCPeers` | P | Connections that open, fail and are lost, a broadcast and the destructor | 2 peers, 2 clients each, 1 broadcast; 160 000 states |
| `MCSettings` | P | Loads, sets, saves and ends, with a file that is edited | one setting of each kind, 8 texts, 2 edits; 484 000 states |
| `MCDeep` | V | Does the alignment assertion (`MinerApp.cpp:1037`) hold? | a peer with another block 1 |
| `MCDies` | V | Can one node's answer end another node's process? | 2 nodes that both mine, connected both ways |
| `MCDangling` | V | Do the assertions of `GetBlockDetails` (`Blockchain.cpp:289-294`) hold? | 2 wallets, amounts 1 and 2, no payments from other chains |

### What the passing runs show

* `UpdateAttaches`: `handleChainResponse` compares an update with the chain of that moment, and
  `syncBlockchain` compares nothing; in between the mining thread only appends, and only one
  other update can come first. So the part of the chain that the update links to is still there.
* `UpdateAdoptedWhole` (`MCMining`): while users do not stop the miner, the loop over the update
  meets no block that `addNewBlock` refuses. With `stopMining` among the calls it fails (see
  below).
* `UpdateApplied`: while the miner is not stopped by a user, every cached update is applied.
* `FileMatchesChain`: the file follows the chain while mining is not stopped from outside.
* `GenesisKept`: with an honest peer of another network, the genesis block stays.
* `ImplementsLocalChain` (`MCStop`): seen through the chain and the update, the node's threads
  are one actor, whatever users do. A block that the mining thread adds in the middle of a
  handler's `syncBlockchain` counts as mined in the middle of the adoption; the rest of the update
  is then passed over or given up, but the chain has neither a gap nor a block twice.
* `ChainValid`: `addNewBlock` compares digests only, and that is enough (see section 5).
* `StopReturns`: the join in `stopMining` ends even when `abort` came before `mineBlock` set
  `_keepTrying` again: the miner then finds a block first. This needs that the search ends.
* `PaymentKept`, `PaymentOnce`, `PaymentMined`: aborts neither lose nor double a payment.
* `OnlyExits`: no sequence of starts, stops and a shutdown joins or assigns a thread wrongly
  unless a shutdown is under way. Then the HTTP thread and the destructor may join at once, or
  a mining thread started after the join is destroyed while it can be joined (`~MinerApp`
  stops the HTTP server last); both may end in `std::terminate`. `ShutdownEnds`: the process
  ends one way or the other, it does not hang.
* `DifficultySteps`: the wrapped difficulty never enters the chain, because `mineBlock` throws
  when it makes its string of zeros. That ends the process.
* `StartupFailsOnlyTorn`, `ResumesOwnChain`: after a crash the file is gone, is empty, has half
  a block, or begins the chain the node had. This needs that nobody stops the miner: with
  `stopMining` or `shutdown` the file may begin with a block of the mining thread (see below).
  Messages handled while the file is read change nothing of it, and `EarlyUpdateAttaches`: an
  update cached then was compared with a part of the chain, and still attaches to all of it.
* `NodesAgree` (`MCFollow`): with one miner, one follower and no lost connection, the nodes
  agree in the end.
* `NodesSurvive` (`MCFollow`): a follower only asks for blocks that the miner has, because a
  summary that makes it ask is longer than its chain, and the miner's chain only grows. This is
  proved for any number of followers (section 4). TLC agrees for three nodes of which one is
  connected both ways and for connections that are lost (`Links` `<<n1, n2>>`, `<<n2, n1>>`,
  `<<n3, n1>>`), where a late response may make a follower's chain shorter, but not different
  (`SingleChain`, `FollowInv`).
* `NodesConsistent`: `ChainValid` and `UpdateAttaches` for nodes that talk to each other.
* `IInv`, `PeerInv` and `SettingsInv` are inductive invariants behind the theorems (section 5).
  The others, `StorageInv` and `NoResetInv` (with `MCMining`), `RestartInv` (`MCRestart`),
  `OnceInv` and `LoneInv` (`MCRest`), `NetInv` (`MCTwo`) and `LedgerInv` (`MCLedger`), hold there
  too when they are added to the `.cfg`; they imply properties that the runs check, and are not
  checked again with each run.
* `UnspentIsWhatNobodySpent`: the one-pass computation agrees with the declarative meaning,
  with double spends and with payments whose inputs are gone or come later in the chain.
* `OwnPaymentsSound`: a payment of this node spends outputs of earlier blocks, of one address,
  each once, and pays out what they are worth. This lasts, through aborted blocks and whatever
  payments come with blocks of peers, until an update drops a block; the inputs, which name
  places, may then mean something else (`MCDangling`).
* `BalancesAddUp`, `BalanceIsUnspent`: `GetAddressLedger` replaces the last entry for every
  debit, even one that credited nothing; the sums come out right nevertheless, with payments of
  nothing and less, too. They are claimed of chains whose payments are all sound, and that is a
  condition the code does not enforce: `addNewBlock` takes any payment of a peer, and with one
  whose input has moved the sums do not come out right. Balances may be negative:
  `CreateTransaction` does not look at the queue, so two payments in a row may spend the same
  output, and both are mined.
* `IdsAreCurrent`: a transaction in the chain has the id of its contents and its block, also when
  its payment was in aborted blocks with other numbers before. That the id leads back to the
  transaction is not claimed, since ids collide (section 2).
* `JoinReturns`: `createClient` joins a worker while it holds the mutex that the worker's
  callbacks take; only peers that are `OFFLINE` are joined, and the callback that made them so
  was the worker's last. `LostPeerRetried`, `LostIsOffline`: no order of callbacks, reconnects
  and failures leaves a lost peer in a state the reconnect worker passes over.
* `ConnectedHasConnection`, `UnsafeNeedsReopening`: the order of the assignments in `on_open`
  protects `broadcast`, which takes no mutex, against a peer that is opened or lost meanwhile.
  It does not protect it against a peer that is lost, found by the reconnect thread and opened
  again between `broadcast`'s check and its use: then the assertion at line 196 may fail, or
  the connection is destroyed under `send`. The property says that nothing less does it.
* `DestructorReturns`: the destructor ends from any state of the other threads, except that a
  client told to stop before its worker called `start()` is joined while it runs
  (`StoppedTooEarly`): the join then waits until the remote side closes the connection.
* `StoredValid`, `RunsWholeFile`, `StartFailsOnlyEdited`: `load` throws in the middle of a file
  and leaves the settings half replaced, but the program does not run with them; what `save`
  writes, `load` accepts, with numbers and booleans in the form JSON gives them.
* `ReadableStays`: a value that `value()` returns, instead of its caller's default, stays one.

### Disagreements

1. `MCDeep`: walking back one block per response ends at block 1, for which the assertion at
   `MinerApp.cpp:1037` fails, although there is a common block 0.
2. `MCDies`: a node whose cached update already reaches the peer's end asks for a range the
   peer does not have. The answer has no `blocks`, and line 989 reads that key.
3. `MCDangling`: an update drops the block whose output a queued payment spends. The payment
   is mined, its input names nothing, and each later request for that block or for any ledger
   fails an assertion or, without assertions, reads out of range.

Further behaviours that the models show when an instance or a property is changed; they are
not separate runs:

* The heavier chain may be given up for a lighter one (`src/README.md:12`: "based on
  cumulative difficulty"): between the summary and the application of the update the node may
  have mined more than the update holds (a peer with three chains, one block mined). A node that
  does not mine may lose blocks as well: with two connections to the miner, the response that
  was asked for first may be handled last, and `resize` (`MinerApp.cpp:791`) drops what the
  other one brought (`MCFollow` connected both ways).
* `NodesSurvive` fails with one miner as well, when a third node is connected to a follower
  that has two connections to the miner (`Links` `<<n1, n2>>`, `<<n2, n1>>`,
  `<<n3, n2>>`): n3 asks n2 for a block of its summary, a late response makes n2's chain
  shorter, and n3 is answered without blocks.
* The sender of a `newblock` with less work gets an empty response and nothing else, so it
  never asks for the heavier chain, against scenario 2.2 of `docs/testing.md` (`MinerNetwork`
  with two mining nodes and one connection).
* `PaymentKept` fails as soon as there are peers with a fork: `resize` drops blocks with their
  payments, and `swap` gives up the queue (`MCMining` with `Txs = {t1}` and `createtx`).
* `FileMatchesChain` fails when `stopMining` is among the calls: the mining thread has added a
  block at line 738 and not yet written it, a handler that finds `_miningDone` set rewrites
  the file, and the block is then written a second time or after blocks it does not follow
  (`MCStop` with that invariant).
* `UpdateAdoptedWhole` fails when `stopMining` is among the calls: a handler that finds
  `_miningDone` set begins to adopt the update, the mining thread adds the block it has found,
  and the rest of the update is refused and dropped
  (`MCStop` with that property).
* A block that the mining thread has made may be refused after `stopMining`, when a handler has
  changed the chain meanwhile: line 743 leaves the loop, and the block's payments are lost
  (`AddNewBlock` in `Ledger`).
* With three amounts of which two show the same digits, two payments in one block have one id
  (`MCLedger` with `Amounts` 11 and 12, `ShownExactly = 10` and a larger reward).
* `UpdateApplied` fails there as well: a handler that has read `_miningDone` as false just
  before `stopMining` leaves its update to a thread that has ended.
* `GenesisKept` fails for a peer that holds a chain of our network first and one of another
  later (`MCMining` with one peer that holds `{Deep3, Alien3}`, and `NDEBUG = TRUE`, since the
  assertion of item 1 comes first in a debug build): once a full chain is cached, summaries are
  compared with the cached genesis block.
* After a crash between `reset` and `writeChain` the node starts a chain with a new genesis
  block; after one in the first block that `writeChain` writes, it takes half a block for the
  genesis block (both are exempt in `ResumesOwnChain`).
* `NodesAgree` fails when both nodes mine, even if connected both ways (the last block does
  not count in the cumulative difficulty, so a node that is one block behind does not ask);
  when the only connection was opened by the follower, because `broadcast` only sends to the
  peers that the miner itself connected to (`MCFollow` with `Links` `<<n2, n1>>`);
  when a connection is lost while a `newblock` is under way; and for three nodes in a line,
  because a node that does not mine announces nothing.
* With `mining.autostart` off, an update cached while the file is read waits until another
  response comes: nothing applies it when the start is over (`MinerAppRestart`).
* Settings read with another type than they were stored with: `load` accepts
  `"chain.reset.enable": "on"` or `1`, and a port in quotes; `value()` then silently returns
  the default that its caller gives (`docs/settings.md` promises an error for an invalid file,
  and calls all settings required, while a file without some of them is accepted).
* `set` and `setNoThrow` of `logs.level`, which has no validator, call through a null pointer
  (`mode = "undefined"` in `Settings`).

Met while reading, outside the models: the ports are validated with the bounds of the file
size (`main.cpp:47-55`, `portMin` and `portMax` are unused), so one above 65535 is accepted and
truncated; `load` makes its message with `get<std::string>()`, which throws another exception
for a value that is not a string; a setting of `registerInt` becomes unsigned when it was
loaded from a file, after which `set` of a negative text stores its two's complement;
`TxResultValue::ToString` has no case for `NOOP_TRANSACTION`, so a payment to oneself throws
instead of answering, and its text for insufficient funds is not the one `FromString` takes;
`/rest/tx` answers a transaction it found and then answers "not found" as well.

### The bounds, and why they are enough

`MaxMinted`, `MaxNewBlocks`, `MaxHeight`, `MaxCuts`, `MaxCrashes`, `MaxBlocks`, `MaxPayments`,
`MaxUpdates`, `MaxPeerPayments`, `MaxClients`, `MaxBroadcasts` and `MaxEdits` cap counters. The interesting cases
need one or two of each: one block mined between caching and applying an update, one
announcement to start a second exchange, one crash and a second one during the start that
follows, one double spend (two payments), one lost client and its successor, one edit of a
value and one of another. `MineFound` stays possible beyond `MaxMinted` when the mining thread
is told to stop, so that the bound itself does not block a join. Chains have at most five or
six blocks: forks at block 1 and at block 2 cover walking back once and walking back to the
end. Symmetry is not used. Deadlock is only checked in `MCSettings`: a node with mining off and
quiet peers waits, and a bounded instance stops.

### Fairness

`MinerApp`: a thread that can take a step takes it (weak fairness of the mining thread, of the
end of each handler, of the join in `stopMining`, of the main thread's end). The operating
system's scheduling gives that. Weak fairness of the mining thread includes that a search for
a nonce ends, which holds with probability one. Nothing is assumed of users and peers: they
may stop asking, answering and announcing. `MinerNetwork`: messages on a connection that is
up arrive, lost connections are retried, an overtaken miner notices. No node must find a block.

`PeerManager`: threads take their steps, a handler ends, and an attempt to connect ends one way
or the other (it has a timeout). Strong fairness is assumed of one thing, a callback that waits
for `_peerMutex`: the reconnect thread sleeps for ten or sixty seconds between two times it
takes the mutex, so the mutex is free again and again and the waiting thread gets it. Nothing is
assumed of when connections are lost, messages come, and the user shuts the node down.

## 4. What is proved

The theorems hold for any number of peers, nodes, clients, settings, wallets, any amounts, any
honest chains and any bounds, under the hypotheses of the third column.

| Theorem | Statement | Hypotheses |
|---|---|---|
| `Invariant` (`MinerAppProofs`) | `Spec => []IInv` | |
| `TypeCorrect` | `Spec => []TypeOK` | |
| `ChainAlwaysValid` | `Spec => []ChainValid` | |
| `UpdateAlwaysAttaches` | `Spec => []UpdateAttaches` | |
| `NeverResets` | `Spec => []NoResetInv` | |
| `GenesisNeverLost` | `Spec => GenesisKept` | `~NDEBUG` |
| `Implementation` | `Spec => ImplementsLocalChain` | |
| `StorageInvariant` (`FileProofs`) | `Spec => []StorageInv` | `UsersOnlyPay` |
| `FileHoldsChain` | `Spec => []FileMatchesChain` | `UsersOnlyPay` |
| `UpdateWhole` | `Spec => UpdateAdoptedWhole` | `UsersOnlyPay` |
| `RestartInvariant` | `RestartSpec => []RestartInv` | `UsersOnlyPay` |
| `FailsOnlyTorn` | `RestartSpec => []StartupFailsOnlyTorn` | `UsersOnlyPay` |
| `EarlyAttaches` | `RestartSpec => []EarlyUpdateAttaches` | `UsersOnlyPay` |
| `ResumesChain` | `RestartSpec => ResumesOwnChain` | `UsersOnlyPay` |
| `PaymentsInvariant` (`MinerAppProofs`) | `Spec => []OnceInv` | `BareChains` |
| `PaidOnce` | `Spec => []PaymentOnce` | `BareChains` |
| `NoneLost` | `Spec => []PaymentKept` | `Alone` |
| `EndsOnlyAsked` | `Spec => []OnlyExits` | `Alone` |
| `DifficultyGoesBySteps` | `Spec => []DifficultySteps` | `Alone`, `GentleStart` |
| `LoneInvariant` | `Spec => []LoneInv` | `Alone`, `GentleStart` |
| `NetInvariant` (`MinerNetworkProofs`) | `Spec => []NetInv` | |
| `NodesAlwaysConsistent` | `Spec => []NodesConsistent` | |
| `FollowersBehind` | `Spec => []FollowInv(m)` | `OneMiner(m)` |
| `FollowersSurvive` | `Spec => []NodesSurvive` | `OneMiner(m)` |
| `FollowersOnOneChain` | `Spec => []SingleChain` | `OneMiner(m)` |
| `LedgerTypes` (`LedgerProofs`) | `Spec => []LedgerTypeOK` | |
| `UnspentMeans` | `Spec => []UnspentIsWhatNobodySpent` | |
| `OwnSound` | `Spec => []OwnPaymentsSound` | |
| `IdsCurrent` | `Spec => []IdsAreCurrent` | |
| `CoinsOnlyMined` | `Spec => []BalancesAddUp` | |
| `TwoCountsAgree` | `Spec => []BalanceIsUnspent` | |
| `PeerInvariant` (`PeerManagerProofs`) | `Spec => []PeerInv` | |
| `ConnectionOfConnected` | `Spec => []ConnectedHasConnection` | |
| `UnsafeOnlyReopened` | `Spec => []UnsafeNeedsReopening` | |
| `LostLeftOffline` | `Spec => []LostIsOffline` | |
| `SettingsInvariant` (`SettingsProofs`) | `Spec => []SettingsInv` | |
| `StoredAlwaysValid` | `Spec => []StoredValid` | |
| `StartsOnOwnFile` | `Spec => []StartFailsOnlyEdited` | |
| `WholeFileRead` | `Spec => RunsWholeFile` | |
| `ReadableKept` | `Spec => ReadableStays` | |

Assumptions: `PeerManagerAssumption` (the names of threads differ), `SettingsAssumption` (the
registered defaults pass their validators and have the type that `value()` reads; what
`lexical_cast` reads back from the digits of a number is that number), `BlockchainAssumption`,
`MinerAppAssumption` and `MinerNetworkAssumption` (types of constants, and that the names of
threads differ), `LedgerAssumption` (the wallets are finitely many, the one the node mines for is
among them, amounts are numbers, the reward is positive, and payments of peers have an input and
the constant signature of the code) and `ChainsAssumption`: the stored chain and the peers' chains are
`HonestChain`s, chains that nodes build with `addNewBlock` on a genesis block; the network's
nodes start from such chains too. `WeightAssumption` says that the powers of two which
`cumDifficulty` adds up are natural numbers; it is a fact of arithmetic for which the provers
have no theory of exponents. TLC evaluates them in every run.

The hypotheses are there because the theorem is false without them, for reasons in the code:

* `UsersOnlyPay`: users do not start or stop the miner, or shut the node down. `stopMining`
  sets `_miningDone` while the mining thread may have a block to add and to write, so a handler
  changes the chain and rewrites the file at the same time (section 3).
* `~NDEBUG`: what keeps a peer of another network from replacing block 0 after its chain was
  half adopted is the alignment assertion (`MinerApp.cpp:1037`); a release build has none.
  `NeverResets` needs no hypothesis, as `NoResetInv` is about builds with assertions.
* `BareChains`: the chains of peers and of the database carry none of the payments that users
  will make at this node. In the code a payment returns from a peer in a block after this node
  has mined and lost it, and may then be there twice.
* `Alone`: there are no peers. With peers a fork drops payments, the difficulty is whatever
  their chains have, and a block that comes after an update is refused, which ends the mining
  thread with `_miningDone` set and its `std::thread` joinable: the next `startMining`
  terminates the process, and so may the alignment assertion.
* `GentleStart`: the stored chain is one whose difficulty has not wrapped around.
* `OneMiner(m)`: only node m mines, every connection is between m and another node, and the
  others start with a beginning of m's chain - with two blocks of it in a build with
  assertions, since a response from block 1 on fails the one at `MinerApp.cpp:1037`. With a
  second miner a node may die (`MCDies`), and so may a follower's follower (section 3).

## 5. The argument

`ChainValid` is not inductive. A block that the miner appends is compared by digest only, so
its index is right only because a digest determines the index, and because the block being
mined carries the index after its predecessor's: `BlockInv`. An update applied by
`syncBlockchain` keeps the chain valid only if it is itself a segment of consecutive mined
blocks and links to the block before its first: `UpdateInv`. That the update is still the
same while the file is being rewritten needs the mutex: `MutexInv`. That the mining thread is
not overwritten while it runs needs `JoinInv`. With the types and `ChainInv` these make
`IInv`, which TLC checks in `MCStop`.

`ChainProofs` has the lemmas about data: a prefix and a contiguous part of a segment are
segments, appending an attaching block gives a segment, two segments that link can be
concatenated (`SegmentConcat`), and a local chain that is cut below the update's first block
still links to it (`ResizeLinks`). `MinerAppProofs` then has one lemma per action, and joins them in
`Invariant`. In the middle of `syncBlockchain` the chain may be anything that the update and the
mining thread make of it, but it is a segment from the genesis block on after each of their
steps. `Implementation` needs the invariant in four places: the block that is added has the next
index, the update that is cached attaches, the thread that ends `syncBlockchain` is the one that
holds the mutex, and where an update is dropped its next block does not link: "too far ahead" at
line 806 means that the chain's last block is not the one before the update's first.

`PeerInv`: the properties of `broadcast` are about a thread that takes no mutex, so the
invariant says for every place of a worker what state and connection its peer has
(`WorkerInv`), who holds `_peerMutex` (`MutexHeld`), and when a client was stopped
(`StopInv`). A worker goes through `Before` and `After` once per client; `BroadcastInv` says
that while the client that `broadcast` checked is still the peer's, its worker is in `After`,
where nobody touches the connection. A new client can only be made once the worker has ended,
which makes `client[p] > checked`. One lemma per action keeps each part.

`SettingsInv`: that `load` accepts what `save` wrote needs that stored texts are valid
(`StoredValid`), that a whole file nobody edited holds such texts (`Acceptable`), and, in the
middle of a load, that what was taken from the file is stored and the rest is still acceptable
(`LoadInv`). The step that needs the assumption on numbers is `Set`: it stores the canonical
digits of a text, and these must pass the validator as the text did.

`NetInv`: `NodesConsistent` is not inductive either, because what a node caches comes from a
message that may be older than any chain there is now. The invariant says of every list of
blocks under way, in whatever message, that it is a segment of consecutive mined blocks
(`WellFormed`), and of every node what `ChainInv` and `UpdateInv` say. Then no step has to
know when a message was sent, and `Cut` and `Reconnect`, which drop messages, keep it.

`FollowInv(m)`: `NodesSurvive` is about one response, which answers a request that follows from
a summary of a chain as it was long ago. The invariant says what each of them may be
(`Expected`): a summary is one of a beginning of the miner's chain, a request names a range of
blocks that the miner has (`Ranges`), a response brings exactly these, and the miner is never
sent blocks. The chain of m only grows, so what is expected stays expected (`ExpectedGrows`). A
follower that sees more cumulative difficulty in a summary lacks blocks of it, as a beginning
of a chain never has more than the chain (`CumGrows`): so its range is not empty and starts
after its last block (`SummaryFollow`). The blocks it gets extend its chain, repeat it or
leave a gap after it (`FollowSync`), and a follower, which does not mine, keeps no update.
`CumGrows` compares two sums over sets of indices and needs the lemmas of `Sums`.

`StorageInv`: the mining thread writes the file without the mutex and handlers rewrite it
under the mutex. They exclude each other by `_miningDone` alone: a handler applies an update
only when it found it set, and it is set by the mining thread's last step (`SoloInv`).
`FileInv` then says what the file lacks at each place: the last block at "write" and "store",
everything at "rewrite". `LoopInv` says that between `SyncBegin` and `SyncEnd` the chain is what
`resize` left of it and the blocks of the update before `position`: then each block links, and at
the end the chain ends with the whole update (`UpdateWhole`). `RestartInv` puts crashes on top: `StoredInv` is what
they leave in the file, `RunningInv` is the invariant of the node that runs, `LoadingInv` says
that the blocks read so far and those still to come are the file, `KnownInv` that what
a start reads is one of the chains it may resume with, and `CountersInv` is about the bounds. An update cached
early attaches to the whole chain since it linked to a block of the part that had been read.

`NoResetInv`: block 0 can only be replaced by blocks that somebody asked for. So all
requests under way ask for blocks from 1 on, and no cached update begins with block 0. The
step that needs the assertion is the walk back, which asks for the block before the first it
was sent.

`OnceInv`: the places of a payment are of three kinds - chain, queue, block being mined - and
in each step the payments of one kind move as a whole to another. A new payment is nowhere,
because all that are somewhere were accepted. An update brings none while it waits; between
the swap of a full chain and the end of `syncBlockchain` it is not looked at.

`LoneInv`: without peers nothing is added between making a block and adding it, so its
`prev` is the last block's digest (`OwnBlockInv`) and `addNewBlock` refuses none. Hence no
payments are lost (`PaymentKept`) and the mining thread ends only when it was told to
(`ExitInv`: a miner that is stopped has been joined, or the HTTP thread is about to join it).
`StepInv` says that the difficulty of a block being searched for is next to the last one's
and did not wrap around, since `mineBlock` would have thrown.

`LedgerInv`: each block is a reward followed by payments, each with the id of its contents
(`HasShape`), whoever made it, and `OwnPaymentsSound`. What `CreateTransaction` returns is sound
(`PaymentSound`), because it collects unspent outputs, which are outputs of the chain
(`UnspentResolve`), a payment's id has no part in that (`SoundWithId`), and a payment stays sound
while blocks are added (`SoundLater`), with whatever payments.

The operators of `Ledger` are loops over the chain (`FoldLeft`) and sums (`SumFunction`). What
they compute needs induction over data, and the library's induction theorems, which have an
operator as parameter, cannot be used. `Sums` takes a set in place of the operator: by
`WFMin` and the well-foundedness of the subset ordering of a finite set, a set of subsets that
has each one which it has without any of its elements, has them all (`SetInduction`). From this
follow induction up to a number (`NatInduct`), that a loop has values each of which follows from
the one before (`FoldLeftExists`, `FoldLeftUnrolls`), and the rules for sums: the order does not
matter, nor do names and zeros, and sums of sums (`SumAnyOrder`, `SumRenamed`, `SumSupport`,
`SumPlus`, `SumOfUnion`). Then

* `UnspentMeans`: after k transactions the outputs are left that none of them from their own on
  has spent (`LeftUnspent`);
* `BalanceRuns`: each transaction changes the balance of an address by what it gains less what
  it pays. A debit takes from the last entry of the ledger; that there is one follows from
  `InputMade`: what a payment spends was credited by an earlier transaction;
* `CoinsOnlyMined`: summed over the addresses, a reward is worth the reward (`RewardWorth`) and a
  payment nothing (`PaymentWorth`), and the number of rewards is the number of the block;
* `TwoCountsAgree`: what a payment takes from the outputs left for its sender is what it debits
  (`PaymentTakes`), since each of its inputs names an output that is left (`InputLeft`) and a
  place in the chain names one output (`UniqueSource`).

The last two are about every chain of the proper shape whose payments are sound (`SoundChain`), not
only about those a node builds without its peers.

Only model-checked, and why:

* All liveness (`UpdateApplied`, `StopReturns`, `PaymentMined`, `ShutdownEnds`, `NodesAgree`,
  `JoinReturns`, `LostPeerRetried`, `DestructorReturns`): the prover handles neither fairness
  nor `ENABLED`.
* That searches and calls happen in the instances at all is shown by TLC's coverage and by the
  mutants, which break each property.

## 6. What is not modelled

* Block times, nonces, texts, ids of miners; JSON and the file's bytes; logging.
* Cryptography. Digests of different texts differ; signatures are the constant text the code uses.
* REST reads and pages: they change nothing. What they compute of the ledger is in `Ledger`.
  Some of them read the chain without `_chainMutex`; what they then answer is undefined, and
  there is nothing to compare it with.
* The command line and the set-up of logs in `main`, and the utilities but for those that the
  settings use: straight-line code before there are threads.
* In `Settings`: `registerInt` and `registerEnum`, which the program does not call, and numbers
  in the file that are negative or not whole.
* What `~PeerManager` finds of `MinerApp`: `_peers` is destroyed after `_logger` and `_miner`,
  which are declared below it (`MinerApp.h:101-112`), so a handler that still runs then uses
  destroyed members. Everything after that is undefined.
* The leveldb index of `ChainDatabase`, which is opened and never used.
* Rounding of sums of doubles in `Ledger`; the swap of a full chain, which gives up the queue, is in
  `MinerApp` only. Blocks of peers with more payments than `MaxPeerPayments` are covered by the
  theorems, which hold for any bound.
* Overlapping calls on the chain's `std::vector` (the mining thread's `addNewBlock` beside a handler),
  which are undefined; calls are taken one after the other.
* Chains that no node would build: peers follow the protocol.

## 7. Plan

Done, in this order: `Blockchain`, `ChainProtocol`, `MinerApp` with its invariant and proofs,
`MinerAppRestart`, `MinerNetwork`, `Ledger`, `LocalChain` with the proof of its
implementation, `PeerManager` and `Settings` with their proofs, the start in
`MinerAppRestart`, the end of the HTTP server in `MinerApp`, ids in `Ledger`; the proofs of the
network, the file and the restarts, payments, a node without peers, the genesis block, the
ledger, and nodes that follow one miner.

Next: that nodes with one genesis block keep it in `MinerNetwork`, for any miners; under which
hypotheses on its peers a node with peers keeps what `Alone` gives it.
