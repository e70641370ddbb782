# CGSF 2019: a TLA+ model of the game-server framework

CGSF is a C++ framework for game servers on Windows: a network engine with
asynchronous I/O, an engine core that turns network events into packets on
queues, dispatchers that run the game's logic on its own threads, a database
worker pool, and a casual-game logic layer (players, lobby, rooms). This
directory holds TLA+ modules of the framework's own concurrent logic, TLC
configurations that check them on small instances, and TLAPS proofs of what
matters most for all instances. Paths below are relative to `src/`; a number
after a file is a line.

    cd tla
    tlc -workers 2 -config MCProactorService.cfg ProactorService   # one run
    tlapm ProactorServiceProofs.tla                                # one proof module

`PROJECT.json` lists the runs, the mutants that show each property can fail, the
source lines of every definition, the findings, the hazards and the theorems.

## 1. Inventory

### Threads and how the parts interact

    peer --TCP--> ACE proactor threads --packets--> LogicGateway --> logic thread
                  ProactorService handlers          (IOCP queue)     SFLogicEntry
                  SFIOBuffer, SFPacketProtocol                       players, rooms
                        ^                                               |   |
                        +---- SendRequest / Disconnect by serial -------+   |
                                   DB manager and workers <-----------------+

* **Network engine `CGSFNet`** (`NetworkLayer/CGSFNet`). `ACEEngine` starts
  `ProactorWorkerThread`s; each connection is a `ProactorService` whose handlers
  (`open`, `handle_read_stream`, `handle_time_out`) any of these threads may run.
  `ProactorServiceManager` maps serials to services under one lock.
  *State:* per service the socket handle, serial, close flag, timer, outstanding
  read; globally the session count, the queue of idle serials and the map.
  *Hard:* a handler and the timer that deletes the service run on different
  threads with nothing but a flag between them; the application closes a session
  from a third thread; serials are recycled while packets that carry them are
  still queued.
  *Correct when:* no handler runs on a deleted service, the registry points to
  live services, the accept limit holds, no serial is lost or issued twice, a
  socket is closed once, each session is CONNECT, DATA*, DISCONNECT to the logic,
  and every closed session is eventually deleted.
* **Packet framing** (`EngineLayer/SFPacketProtocol.h`, `SFCGSFPacketProtocol`,
  `SFPacketIOBuffer`, `SFIOBuffer`). Bytes read are appended to a ring and complete
  packets are taken out until none is left.
  *State:* ring, head, tail, cached count. *Hard:* a packet cut into reads
  anywhere, a header consumed and put back, wrap-around, full against empty, the
  size limits of both sides, a return value nobody looks at.
  *Correct when:* the logic gets exactly what was sent, in order; a session is
  closed only for a packet beyond the limit; nothing complete stays in the ring.
* **Engine core and dispatchers** (`EngineLayer/SFEngine.cpp`,
  `SFCasualGameDispatcher.cpp`, `SFBridgeThread.cpp`). `Intialize` starts the logic,
  RPC and send threads, `Start` opens the network, `ShutDown` ends them one by one;
  delayed sends go through the send thread. Two more dispatchers exist
  (`SFMulitiCasualGameDispatcher`, `SFClassicDispatcher`).
  *State:* the end flag, the pointer to the logic, one queue per thread.
  *Hard:* threads that start before the logic is set, a logic that is destroyed
  without waiting for its thread, threads that wait for a NULL task.
  *Correct when:* no packet is dropped at the start, every thread ends before what it
  uses, `ShutDown` returns, a delayed send that came in time is executed.
* **Server connections** (`SFServerConnectionManager`, `ILogicEntry`,
  `ACEEngine::AddConnector`). A thread reconnects servers whose `connected` flag is
  down; the logic thread resets the flag on DISCONNECT. *Hard:* both write the flag,
  and the result that is stored is read from a service that may be gone.
  *Correct when:* a link that is down is tried again, and a server has one link.
* **Database layer** (`DatabaseLayer/SFDatabaseProxyLocal.h`, `SFDBManager.h`,
  `SFDBWorker`). A manager thread hands requests to idle workers, requests are
  recycled, results return to the logic by serial. *State:* queues of free requests,
  of requests to do and of idle workers, one queue per worker. *Hard:* test and pop in
  two steps, a condition somebody must signal, a shutdown while workers are busy.
  *Correct when:* no request has two owners, each message is executed once, a
  shutdown ends and leaves no worker behind.
* **Casual game** (`LogicLayer/CasualGame`). Players, lobby and rooms as state
  machines on the logic thread. *State:* the player of a serial, a pool of player
  objects, the registry of names, the lobby, per room its state, chief, members,
  observers, teams and peers. *Hard:* the same fact is kept in several maps by
  different handlers, objects are recycled with old fields, answers of the database
  arrive late and are matched by serial.
  *Correct when:* all these agree after every sequence of requests.
* **Alternative engines** `ASIONet` (boost::asio) and `MGNet` (binary library),
  **client network**, **other protocols** (JSON, MsgPack, Avro, Protobuf, HTTP),
  **base layer** pools and queues, **P2P layer**, **.NET bindings**, samples, tools,
  third-party code.

`PROJECT.json` lists every part under "components", the parts left out with the
reason, and under "hazards" what can go wrong at which line.

## 2. Modules and the code they model

| module | models | state |
|---|---|---|
| `SerialAllocator` | abstract: a set of free and a set of issued session numbers | `owner` |
| `SFIDMap` | `IDMap.h`, `Queue.h`: `Register`, `UnRegister`, `Get`, `Push` and its assert | idle queue, map |
| `ProactorService` | `ProactorService.cpp`, `ProactorServiceManager.h`, `ProactorAcceptor.cpp` | services, threads, manager lock, logic queue |
| `SessionLogic` | the above composed with `LogicThreadProc` and `SFLogicEntry`'s player map | + players, sends |
| `ByteQueue` | abstract: a bounded FIFO queue of bytes | `queue`, last call |
| `SFIOBuffer` | `SFIOBuffer.cpp`: the ring as operators on a record | none |
| `IOBufferQueue` | one ring under any sequence of its operations | `io`, last call |
| `SFPacketProtocol` | `SFPacket::Encode`, the stream, `OnReceive`, `GetPacket` | stream, ring, dispatched packets |
| `CasualGame` | `SFLogicEntry`, the states of `SFPlayerFSM` and `SFRoomFSM`, `SFRoom`, `SFRoomManager`, `SFPlayerManager` | players, pool, registry, lobby, rooms, open database requests |
| `JobPool` | abstract: jobs wait and are finished once | `waiting`, `finished` |
| `DBManager` | `SFDatabaseProxyLocal.h`, `SFDBManager.h`, `SFDBWorker.cpp`, `SFDBRequest.cpp` | callers, manager, workers and their queues |
| `ServerConnection` | `SFServerConnectionManager.cpp`, `ACEEngine::AddConnector`, `ILogicEntry.cpp` | connectors, links, reconnect thread |
| `EngineThreads` | `SFEngine`, `SFCasualGameDispatcher`, `LogicEntry`, `SFBridgeThread`, composed with `ServerConnection` | threads and their queues |
| `...Proofs` | theorems about the module named (`ProactorServiceProofs` about `SFIDMap` too) | |

**Sessions.** The state of an IO thread is the service it works for (`at`) and the
statement it is about to execute (`pc`). A handler is cut at each statement another
thread can observe, in the order of the source: `open` is `OpenStreams`,
`CheckLimit`, `RegisterService`, `RegisterTimer`, `CreateSessionService`,
`OnConnect`, `PostRecv` (with `Reject` for the two refusals); `ReserveClose` is
`UnregisterService`, `CloseSocket`, `InvalidateHandle`, `OnDisconnect`,
`DeleteSessionService`, `SetCloseFlag`; `handle_time_out` is `CheckClosed`,
`DeleteService`. `Register` and `UnRegister` run under the manager lock and are one
step; the application's `Disconnect` holds the same lock over two steps
(`BeginDisconnect`, `EndDisconnect`), so that handlers which do not take the lock
interleave with it. A handler that runs on a deleted service (possible once the
application calls `Disconnect`) reads any serial and any handle: `SerialReadFrom` and
`HandleReadFrom` are that choice. `closesocket` is called where the source calls it, by
`ReserveClose`, `Disconnect` and the two refusals (`CloseIfOpen`); the destructor (`Delete`)
closes nothing, so a service whose streams cannot be opened leaves its socket open.
The reads of the socket and the proactor's queue are external: a read completes
with data, with an error or with the end of stream at any time, and completions of
a deleted handler are dropped, as ACE's proxies do. The packets of the logic queue
carry the service that dispatched them in `from`, which only properties look at.
`MaxUserAccept`, the pool size, the threads and `CallsDisconnect` (does the
application ever call `IEngine::Disconnect`) are constants.

**Logic.** `SessionLogic` adds the pop of `LogicThreadProc` and the three handlers of
`SFLogicEntry` with the semantics of `std::map::insert` (an existing player stays)
and the two `SFASSERT(0)`s. The game's rules are abstracted: whenever the logic has
a player it may send to it, by serial. This logic never calls `IEngine::Disconnect` (the only
caller in the framework is `SFMulitiCasualGameDispatcher`), so `CallsDisconnect` is FALSE here.

**Framing.** A byte is the pair of packet number and place, so that a packet
dispatched from the wrong bytes is seen; a header read from a packet's own header
bytes yields its size, anything else any size. A read takes any number of bytes up
to `ReadSize` from the stream. `m_iBufSize` is the ring of the session's clone,
`m_packetSize` the receiver's limit and `m_packetMaxSize` the sender's.

**Game.** One logic thread handles one packet at a time, so a handler is one action:
`OnConnectPlayer`, `OnLogin`, `OnDBResult`, `OnEnterLobby`, `OnCreateRoom`,
`OnEnterRoom`, `OnChangeTeam`, `OnLoadingStart`, `OnLoadingComplete`, `OnLeaveRoom`,
`OnDisconnectPlayer`, each with every map it writes and the state changes of all
players of the room it causes. `From(s, st)` is the dispatch on the player's state: a
packet the state has no handler for changes nothing. The database is `dbRequests`, the number
of its unanswered requests per serial; it answers with success or failure
(`OnDBResult`) or not at all (`DBFails`) at any time, also when the serial has another
player or none. Fields that `Reset` does not touch (`m_username`) keep their value in
the pool. `PLAYREADY` and the lobby a disconnecting player passes through are
states within one handler. `LeaveRoom` and `StatesWithout` are written for members that
remain when the observer list is empty, as the code is; that there are none is
`RoomMapsAgree`.

**Database workers.** `SendDBRequest` is `GetDBReq` (the test), `PopDBReq`, `Perform`; the
manager's `svc` is `CreateWorkerPool`, `ManagerLoop`, `ManagerDequeue`, `ChooseDBWorker`
(to wait on the condition or take a worker), `Assign`, then `Drain` and `Join`; a worker
is `WorkerLoop`, `WorkerDequeue`, `Call`, `return_to_work`. `CreateWorkerPool(k)` stops after
k workers, when database k + 1 cannot be initialized. A dequeue that times out returns
to the loop. After `Destroy` a worker that looks at the manager is "undefined" and is
followed no further. `svc` takes the workers out of its queue at its end without
`m_Workers_Lock`; a worker that returns at that moment may corrupt the queue: `DrainRaces`
leaves both threads "undefined", beside the orders in which both come out well (`Drain`,
`return_to_work`). `raced`, `refused` and `quiet` record what the properties speak of.

**Engine threads.** `mainPc` is the statement of `Intialize`, `Start` and `ShutDown` the main
thread is at; each waits where the code waits (`rpcPc`, `sendPc`, `reconnectPc` ended).
That `Start` follows `Intialize` is the order of the server's `main` (`MayStart`, as in
`Sample/EchoServer/EchoServer.cpp`); `SFEngine::Start` itself only tests for a network engine.
`DestroyLogic` deletes the logic and leaves `LogicEntry`'s pointer as it is: a packet handled
after that may be handled as before, delayed sends included (`LogicProcess`), or do anything
(`LogicDangles`), after which the logic thread is "undefined".
The logic, RPC and send threads test, pop and process in separate steps. A packet in
the gateway is data, the wake-up packet of the shutdown, or k, the DISCONNECT of a link
of connector k. `AddConnector` opens a link and `StoreResult` stores what it returned; in
between the link may drop and its DISCONNECT be handled. A serial read from a deleted
service is any value. `stuck`, `doubled`, `late` and `nullAfter` record what the
properties speak of.

## 3. Runs

| run | instance | shows |
|---|---|---|
| `sessions` | 3 connections, 2 threads, 2 serials, limit 2 | closed by peer or errors: memory safety, registry, accept limit, serials conserved and released by their owner only, refinement of `SerialAllocator` |
| `sessions_disconnected` | 2 connections, 2 threads, 1 serial, limit 2 | the application calls `Disconnect` at any time: what still holds (a live service closes its socket once and only a failed `open` leaks it, the order of packets to the logic), and under fairness every closed session is deleted |
| `logic_fresh_serials` | 2 connections, 2 threads, 2 serials | before the pool wraps around the logic's view by serial is the network's, and under fairness the player of a closed session is forgotten |
| `io_buffer` | ring of 4, 2 byte values, blocks up to 4 | every call does and returns what `ByteQueue` does, through every wrap-around, full ring and peek (which fails when there is less than asked for) |
| `packet_framing` | ring 12, limit 8, sender 12, reads up to 4, 4 packets | dispatched as sent, closed only for too large packets, and in the end dispatched |
| `casual_game` | 3 serials, 3 player objects, 2 names, 2 rooms of 2 | the state machines of players and rooms, the maps that repeat them, registry and pool agree; a loading room stalls only when a player leaves it; at the start of a game all are peers |
| `db_workers` | 2 callers, 3 requests, up to 2 workers, 3 messages | no request or worker in two places, a message is refused only in the race of `GetDBReq`, refinement of `JobPool`, messages executed, an idle pool shuts down safely and completely |
| `engine_threads` | 1 connector, 2 links, 1 delayed send, 1 RPC packet | order of the threads' ends, no packet dropped, at most one packet after the end flag, one link per server, `ShutDown` returns and the logic thread ends unless it called a deleted logic, delayed sends executed, links retried |
| `doc_serial_returned` | violation | `Doc/Session.md` 4: the serial of an ended connection is queued; after `Disconnect` the timer may delete first |
| `assert_unknown_player` | violation | `SFASSERT(0)` of `SFLogicEntry.cpp` 259 is reachable with two threads and a recycled serial |
| `assert_db_answer` | violation | `SFASSERT(0)` of `SFLogicEntry.cpp` 274 is reachable: the player of an answer has left |
| `clone_buffer_too_small` | violation | a clone of a listener with larger sizes keeps the default ring and loses a read |

Type invariants, `FIFOReuse` and `ReadFits` are proved (section 4); the runs repeat only
`IOTypeOK`, `SessionLogicTypeOK` and `DBTypeOK`. What holds with
an application that calls `Disconnect` is checked in `sessions_disconnected` only, because
`sessions` is a special case of it.

What the passing runs say includes the limits of the code. `StallOnlyByLeave`: a room
in which everybody but the player who left has loaded stays in LOADING, and that is the
only way. `RegistrationKept`: a registration can be erased by another client that used
the name. `RefusedOnlyByRace`: a caller that lost the last free request is refused although
a new one could be made. `RequestExecuted` holds when a worker could be created and until
someone shuts down; `QuietShutdownSafe` and `QuietShutdownEnds` hold only of a pool with nothing
under way. `LinkRetried` and `OneLink` name the two ways in which a late result of
`AddConnector` spoils the flag. `LogicStopsPromptly`: one packet may still be handled by a
logic that is being deleted, and `ShutDownCompletes` promises nothing of the logic thread
once that happened. `DelayedSendExecuted`: a delayed send pushed by that packet behind the
NULL task is lost. `SocketClosedOnce`: when `open` cannot open the streams the socket is left
open (`ProactorService.cpp` 31), and a handler that runs on a deleted service may close
whatever handle it finds there. Each hazard whose property names such a case as its only
exception says so in its note.

Two more disagreements with the documents need no run: `SFIDMap` starts its serials
at 1 (`IDMap.h` 11) where `Doc/Session.md` 6 gives 0..n-1, and makes
`MAX_CGSF_CONCURRENT_USER` = 10000 of them (`SingltonObject.h` 6) whatever
`MaxAcceptCount` is, where `Doc/Config.md` 9 gives 65535. With a limit above 10000 a
connection is refused because the pool is empty, not because of the limit; in
`sessions_disconnected` the pool is the smaller of the two for that reason.

**Bounds.** Three connections and two serials are enough for a serial to be reused
while its old owner still closes and a third is refused; two threads are enough for
each pair of handlers, and the application is a third actor; with one serial for two
connections the serial is recycled in `sessions_disconnected`. `MaxGateway` stops a
thread from dispatching DATA into a queue that nothing has popped; CONNECT and
DISCONNECT are never held back. `closeCalls` stops at `MaxCloseCalls`, two, the first
count that is wrong. One expiry of a timer is handled at a time: expiries
are 5 s apart. The framing instance has a data size of zero, one below, one at and
one above the receiver's limit, and a ring of exactly limit plus one read, the
smallest that may work; four packets wrap around in it.
In `casual_game` two rooms of two let a third player meet a full room and a room that
closes while another opens; two names let a player take another's; `MaxRequests` is one
unanswered request per serial, enough for an answer that outlives its player. Player
objects and names are symmetric; the view `GameView` leaves out fields that every path
writes before it reads them. Two callers, two workers and three request objects let a
request be recycled while two others are in use; `MaxMessages` is three. One connector
with two links lets a link be doubled and a result be stored late; `MaxTasks` and `MaxRPC`
are one because the threads treat each item alike. Runs without deadlock checking are
those whose finite supply of connections, packets or messages ends, or whose threads do.

**Fairness.** A thread inside a handler goes on; strong fairness is needed for the
steps that take the manager lock, which the application takes again and again but
always releases. A pending expiry is eventually dequeued because the completion port
is FIFO. Nothing is assumed of peers or of the application. The logic thread pops
while the queue is not empty, and a receiver handles what has arrived. The threads of the
engine and of the database layer run when they can; a database call returns (`SFDBRequest::call`
has no other way out); `AddConnector` returns. Nobody has to send a request, to drop a link
or to call `ShutDown`.

## 4. Proofs

All constants are arbitrary up to the `ASSUME`s of the modules: finitely many
services and callers; natural numbers for limits and bounds; callbacks of existing connectors; a positive ring, header and read size.

* `ProactorServiceProofs`, the pool: `PoolConservation`, `ReuseIsFIFO`,
  `IDMapImplementsAllocator`. The invariant says that the idle queue has no duplicates and
  holds exactly the serials that are not bound; the refinement maps the idle queue to the
  set of free numbers.
* `ProactorServiceProofs`, sessions under any application: `ServiceTypeCorrect`,
  `SessionsWithinLimit`, `SessionsConservePool`, `SessionsImplementAllocator`,
  `SocketsClosedOnce`, `SessionsInOrder`. None of the properties is inductive. For the limit,
  the code counts services in the constructor, compares later and registers later still:
  `CountInv` (the counter is the number of live services), `AdmitInv` (the services past
  the check number at most `MaxUserAccept`, because each compared a counter that already
  included all of them) and `ThreadInv` (what a thread's label implies about its service).
  The rest comes from `HandlerInv`: a service is served by one handler at a time, because a
  read is posted only at the end of a handler. `SocketsClosedOnce` is an action theorem: a
  deleted service is used again when the application disconnects, so no invariant bounds its
  count. `SocketInv` keeps the account of `closesocket` for each live service, also while
  `Disconnect` stands between its two statements; `CloseEffect`
  says what a tested close does to it, `CloserIsFirst` that a handler about to close finds
  nobody else closing. `RegistryInv` says which service a serial leads to, `PacketInv` what the
  logic has been told of a service at each statement of its handler.
* `ProactorServiceProofs`, sessions that only the peer or an error closes
  (`ASSUME ~CallsDisconnect`): `HandlersFindServiceAlive`, `RegistryStaysLive`,
  `SerialsReleasedByOwner`. `LifeInv` adds `ClosedInv` (once the close flag is set nothing is
  read, no handler runs and no serial leads to the service, so the expiry that deletes it is
  alone) and `BoundInv` (until `UnRegister` the service is bound to its serial). The
  assumption cannot be dropped: with `Disconnect` the expiry may delete a service that a
  handler still works on; `doc_serial_returned` shows a consequence.
* `SessionLogicProofs`: `SessionLogicTypeCorrect` without a condition, and `LogicAssertsHold`,
  `NoPlayerOutlivesSession`, `SendsReachTheirPlayer` under
  `FewSessions == Cardinality(Service) <= MaxIDCount`: no serial is issued twice (`FreshInv`:
  the serials issued are 1..n and the rest waits in order at the front of the queue). The
  condition is that of a server before its 10000 serials have been used up once; without it
  `assert_unknown_player` is a counterexample. Popping breaks `SessionProtocol`, which speaks of
  the whole history of a session, so `QueueInv` restates it for what is left of the queue and
  the players the logic has, and `PhaseInv` says, for each phase of a session, whether its player exists or its
  CONNECT is queued, and whether its DISCONNECT is. `ProtocolInv` and
  `SerialInv` connect the pointers and the serials of packets, players and services.
* `SFIOBufferProofs` and `IOBufferQueueProofs`: `IOBufferWellFormed` and
  `RingImplementsByteQueue`. `Held(b)` is the sequence of bytes from head to tail;
  `AppendHeld`, `ReadHeld`, `RemoveHeld` and `PeekKeeps` say what each operation does to
  it, by cases on whether the block is split at the end of the buffer. That a block
  filling the ring exactly is refused is what makes `used = 0` mean empty.
* `SFPacketProtocolProofs`: `ProtocolTypeCorrect` without a condition, and
  `FramingCorrect`, `EveryReadFits`, `PacketErrorJustified` under
  `RoomForRead == m_packetSize + ReadSize <= m_iBufSize`. `ProtocolInv` says that the bytes
  held followed by the bytes on the wire are the encodings of the packets sent and not
  yet dispatched (`WellFramed`), and that between reads the ring holds less than one
  packet (`LessThanOnePacket`). The default sizes satisfy the condition (4096 + 2048 <=
  8192); a listener built with `MAX_IO_SIZE` and `MAX_PACKET_SIZE` does not, because of
  the clone's ring: the run `clone_buffer_too_small`.
* `CasualGameProofs`: `GameTypeCorrect`, `StateMachinesAgree`, `RoomsStayConsistent`,
  `PlayersConserved`, `RegistryCorrect`, and from the same invariant the
  action properties `RegistrationsKept`, `StallsOnlyByLeave` and `PeersKnown`, for any finite
  sets of serials, objects, names and rooms and any room limit. None of these is
  inductive alone: that a leaving player's room is open needs the agreement of the state
  machines, that needs the pool to be exact (an object in the pool is in no room), and the
  lobby and the registry need both. `GameInv` is their conjunction with `PeerInv`, which says
  what the peer map holds in each state of a room: nobody while it waits, at least the
  members that have loaded while it loads. One lemma per group of handlers shows that it is
  kept; `GameStartedBy` and `NoNewStall` say which handlers can start or stall a room.
* `EngineThreadsProofs`: `EngineTypeCorrect`, `ShutDownInOrder`, `LogicEndsAfterOne`, `LogicIsSet`,
  `LinksNotDoubled`, for any number of connectors, with or without callbacks, and any bounds.
  `EngineInv` adds to the types what the main thread's statement implies (`StartInv`,
  `EndInv`), where the logic thread stands when the flag is set (`LateInv`, with the thread
  that called a deleted logic at rest in "undefined"), and for `OneLink`
  the account of a link (`LinkInv`): a connector that was never `doubled` has one link, or one
  DISCONNECT queued or in hand, or neither, and while it has either it is noted as connected
  or its result is about to be stored, so the scan does not open another.
* `DBManagerProofs`: `DBTypeCorrect`, `RequestsNeverShared`, `RefusalNeedsRace`,
  `QuietShutdownIsSafe`, `DBImplementsJobPool`, for any finite set of callers and any sets of requests and
  workers. `DBInv` says that the allocated request objects are divided between the free
  queue, the callers, the manager's queue, the manager's hand, the workers' queues and the
  workers' hands (`PlaceInv`), that none of these holds one twice (`OnceInv`), who holds
  something at which statement (`OwnerInv`: a worker in the queue of idle workers has an
  empty queue and empty hands), and which messages sit in which requests (`MessageInv`, from
  which the refinement of `JobPool` follows step by step). `RaceInv` says that a caller past the test
  of `GetDBReq` finds a free request unless it was overtaken, `QuietInv` what a shutdown of an
  idle pool has left at each statement: no worker is returning, so `DrainRaces` cannot happen.

**Model-checked only.** Liveness (`SessionReclaimed`, `PlayerForgotten`, `SentIsDispatched`,
`RequestExecuted`, `QuietShutdownEnds`, `ShutDownCompletes`, `DelayedSendExecuted`,
`LinkRetried`): fairness and `ENABLED` are out of the prover's reach. Every other property of
a passing run is a theorem.

## 5. Not modelled

Socket errors beyond success or failure, addresses and ports, logging, memory
exhaustion, contents of packets and their options (compression, encryption, CRC; off
by default and never undone on the receive path), SQL, chat, room lists and the rules of
the game modes, the timer registry of `SFEngine`, and the components marked `not_modelled`:
the other protocols and engines, the multi-channel and the classic dispatcher, the client
network, the P2P layer, the .NET bindings. Most of the repository's lines are vendored
libraries (libxml, protobuf, ACE, boost-style headers), generated code and samples.

## 6. Plan

In this order; each with runs, mutants and, where an invariant is worth it, proofs.

1. `MultiDispatcher`: login state and channels (`SFMulitiCasualGameDispatcher.cpp`).
2. `ASIOSession`: the session pool and the write queue of `ASIONet` (`ServerSession.cpp` 82,
   `ASIOServer.h` 149).
3. The timer registry (`SFEngine.cpp` 208-270) and two expiries of one service's timer at once.
4. Proofs: the safety properties of the modules above; what remains true of memory safety
   when the application calls `Disconnect`.
