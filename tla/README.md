# Aether: specifications

Aether is a peer-to-peer messenger written in Go. A *device* keeps its messages
in a SQLite table, talks to other devices over libp2p, and copies messages from
a *personal node* (PN) that is always on. This directory holds TLA+ modules
translated from the Go source, the TLC configurations that check them, and
TLAPS proofs about them. Paths below are relative to the repository.

1. [The system](#the-system)
2. [What is hard about it](#what-is-hard-about-it)
3. [The modules](#the-modules)
4. [The runs](#the-runs)
5. [Fairness](#fairness)
6. [What the code does not do](#what-the-code-does-not-do)
7. [What is proved](#what-is-proved)
8. [What is not modelled](#what-is-not-modelled)
9. [Plan](#plan)

## The system

| component | source | state | operations | correct when |
|---|---|---|---|---|
| wire protocol | `internal/sync/io.go`, `proto/aether` | none: one length-delimited protobuf frame at a time, with no tag that says which message it is | `WriteMsg`, `ReadMsg` | a frame read as the wrong message does no damage |
| sync client | `internal/sync/client.go` | its position in the session | `Authenticate`, `FetchLoop` | what it acknowledges is saved; it ends |
| sync engine | `internal/sync/engine.go` | `nodeID`, the open stream | `Start`, `SetPersonalNode`, `run`, `syncCycle`, its save callback | "completed" means caught up; every row is copied in the end |
| personal node server | `internal/sync/server.go` | `sessions`, `trustedIDs`, `mu` | `HandleSyncStream`, `authenticate`, `handleFetch`, `PushNewMessage` | pages leave nothing out; every served device is pushed to |
| message store | `internal/storage/repository.go` | `messages` | `Save`, `GetSince`, `GetMessagesByChat`, `GetConversations` | a saved row stays and is found again |
| contacts | `internal/storage/repository.go` | `contacts` | `Add`, `GetContacts` | one entry per peer |
| device sync state | `internal/storage/repository.go` | `device_sync_state` | `UpdateLastSeq`, `GetLastSeq` | never ahead of the table |
| write transactions | `internal/storage/db.go` | `writeMu`, the connection pool | `Open`, `WriteTransaction` | all or nothing, one after the other; what was reported stays |
| migrations | `internal/storage/db.go`, `migrations/` | the schema, its version, the migrator's dirty flag | `RunMigrations` | whoever gets past it has the latest schema |
| event bus | `internal/event/event.go` | a list of buffered channels per topic | `Publish`, `Subscribe` | a dropped event leaves another behind it |
| message processor | `internal/logic/processor.go` | none | `SealMessage`, `ProcessIncoming` | what is announced is saved |
| chat service | `internal/api/chat.go` | none | `SendMessage`, `AddContact`, `GetMessages`, `ListConversations` | the same |
| view models | `internal/ui/viewmodel` | what the screens show | `Refresh`, `LoadMessages`, `Watch` | current whenever nothing is pending |
| node service | `internal/api/node.go` | `ident`, `reachability` | `GenerateNewIdentity`, `watchReachability`, `GetStatus` | shows the last status; is who the processor and the host are |
| identity | `internal/identity` | the key file | `Generate`, `Load`, `HasKey` | the device stays who it is |
| transport | `internal/transport/libp2p.go` | `handler`, one stream per message | `Send`, `Subscribe`, `handleIncomingStream` | a message arrives whole or not at all, and not if `Send` failed |
| discovery | `internal/transport/discovery.go` | none | `StartMDNS`, `SetupAutoNAT` | passes on every change of reachability |
| peer exchange | `internal/transport/pex.go` | none | `handleStream`, `RequestPeers` | |
| start-up | `cmd/aether/main.go` | the order in which all of this is built | `main`, `showMainChat`, `showDirectChat` | a stop never spoils the next start; nothing is lost before the watchers are there |

How they interact:

- **Streams.** The engine opens a sync stream to its node, on which challenge,
  response, result, fetch requests, pages, acknowledgements and pushes travel.
  Neither side puts the kind of a message on the stream: each decodes the next
  frame as what it expects.
- **Shared tables.** Engine, message processor and chat service all write to
  `messages`; the view models read it, `handleFetch` reads the node's.
- **Events.** Each writer publishes on the bus after its write; the bus puts the
  event into every subscribed channel that has room. The view models only take
  an event as a sign to load again; the node service keeps the value it carries.
- **Locks.** All writes of a process go through `writeMu`, and with the queries
  through a pool of 16 connections; SQLite's own lock keeps processes apart.
- **Files.** Nothing keeps two processes out of one data directory: they migrate
  one database and read and write one key file.
- **Goroutines.** One for the engine, one per stream on the node, one per call
  of `PushNewMessage`, one per incoming payload and per message sent, one per
  view model that watches.

## What is hard about it

- Frames of one kind are read as frames of another: a push as the response to
  a fetch, an acknowledgement as a fetch, a refusal as a challenge.
- The node's table grows while a page is on its way; the device saves row by
  row and may fail or stop between saving, recording and acknowledging; streams
  break with frames in flight, and the node may notice later than the device.
- Two goroutines write to one stream, and both directions have a limited
  buffer: each end can wait for the other.
- The sessions map is keyed by device while its entries come and go by stream.
- An RWMutex is held while a slow device is written to.
- `main` is a long list of steps on files that outlive it, and may be ended
  between any two of them, or run twice at once.
- A message travels on a stream of its own that may break with part of it read,
  while its sender and its receiver may stop before, between and after.
- Writers wait for the pool while they hold the write mutex; a commit need not
  be on the disk when it returns.
- Views read two tables in two queries, subscribe after their first load, and
  lose events when their channel is full.

`PROJECT.json` lists each of these at its line, with the property that covers it.

## The modules

```
SyncWire   MessageStore --------------------.
    \       /       \                        \
   FetchSession      MessageStoreProofs       ChatStore   EventBus
    |    \  ....implements... SyncPromise          \       /
FetchInvariant      \                                Chats
    |                FetchSessionProofs               |   \
MCFetchSession                                   MCChats   ChatsProofs

Migrations   IdentityKeystore        Delivery ....implements... DirectPromise
     \         /                      |    \
       Startup                MCDelivery   DeliveryProofs
       |    \
MCStartup  StartupProofs             Database ....implements... WritePromise
                                      |    \
                            MCDatabase      DatabaseProofs

PushSessions ....implements... PushPromise
 |    \
MCPushSessions  PushSessionsProofs

Reachability --- ReachabilityProofs
```

### The sync session

**`SyncWire`** has the frames as the protobuf decoder sees them: what is found
under field numbers 1, 2 and 3. The encoders are the message types of
`sync.proto`, the decoders can be applied to any frame. An `AckRequest` has its
`acked_seq` where a `FetchRequest` has `after_seq`; a `PushEnvelope` has its
message where a `FetchResponse` has its messages. Byte fields are left out, no
reader takes one for another.

**`MessageStore`** has a table as a set of rows with an id and a sequence
number: `Save` (`INSERT OR IGNORE` under a primary key and a unique
`global_seq`), `GetSince` and the running maximum of `handleFetch`.

**`FetchSession`** composes them: one device, the nodes it may be pointed at,
and the stream between them. `cpc` is the place of the engine's goroutine, `spc`
that of the stream's handler on the node, `up` and `down` the two directions of
the stream, `devDB`, `lastSynced` and `pnDB` the tables.

| code | actions |
|---|---|
| `SetPersonalNode` | `SetPersonalNode` |
| `run`, `syncCycle`, `Authenticate` | `Connect`, `ReadChallenge`, `ReadResult` |
| `FetchLoop` | `SendFetch`, `ReadResponse`, `SendAck`, `StreamEnds` |
| the save callback of `syncCycle` | `SaveNext`, `SaveFails`, `RecordProgress` |
| `HandleSyncStream`, `authenticate` | `Greet`, `Verify`, `Register` |
| `handleFetch` | `Serve`, `Respond` |
| `PushNewMessage`, and `Save` on the node | `PushNewMessage`, `Store` |
| broken connection, stop of the process | `Reset`, `Crash` |

Reading a frame and answering from the table are a step, writing the answer is
another that waits for room, so that pushes come in between. Each row is saved
in a step of its own, as each `Save` is a transaction of its own. `StreamEnds` is
the error path of all reads and writes.

**`SyncPromise`** is the abstract specification: a growing copy, a goal set at
"started", and a "completed" that is only published with the goal reached. It
has no frames, pages or streams. `FetchSession!PromiseKept` is its `Spec` under
the mapping `held <- pnDB, copy <- devDB, goal <- atStart`.

**`FetchInvariant`** has the inductive invariants (see [below](#what-is-proved)).

### The sessions of a personal node

**`PushSessions`** takes the node's side with all its streams: `hpc[s]` is the
place of the handler of stream `s`, `sessions` the map, `writer` and the calls
in their loop the RWMutex, `unread[s]` what the device has not read. A call of
`Lock` is two steps, `Lock` and `Register` or `Unregister`: between them new
readers wait, as with Go's RWMutex.

| code | actions |
|---|---|
| `HandleSyncStream` | `Open`, `Authenticate`, `Lock`, `Register`, `Answer`, `Break`, `FetchFails` |
| its deferred function | `Lock`, `Unregister` |
| `PushNewMessage` | `Call`, `ReadLock`, `Push`, `ReadUnlock` |
| the device | `Read`, `Close` |

The main loop is left in two ways: the stream is broken (`Break`), or `GetSince`
fails or a frame is no request (`FetchFails`). In the second the stream is intact,
the device may be idle and knows nothing of it, and the map still has the stream
until the deferred function gets the lock; then the stream is closed.

`Overlaps` says whether a device may open a stream while the node's handler of its
last one has not returned: because the node has not noticed that the stream
is broken, because the device vanished without a word, or because it opens a
second one. libp2p allows it; without it `ServedAreRegistered` holds, with it not
even `OnlineHaveSession` does, that some stream of a served device is in the map.

**`PushPromise`** is the abstract specification of `PushNewMessage`: a call takes
effect at one moment, writes to the sessions of that moment and no others, to each
at most once and before the node closes it, and returns when only broken ones are
left. It has no lock, loop, handlers or full streams. `PushSessions!PromiseKept`
is its `Spec`, with `ReadLock` as the moment: a node that closes a stream waits for
the calls that still owe it a frame.

### Chats

**`EventBus`** has the channels as the numbers of events in them. **`ChatStore`**
adds to `MessageStore` what the user interface asks of the tables and what
becomes of a text on its way (`EncryptFor` puts the text "ENC:" in front, and
that is all the encryption there is). **`Chats`** composes them into the running
application.

| code | actions |
|---|---|
| the send button, `SendMessage`, `SealMessage` | `OnSend`, `SendMessage`, `Save`, `Announce` |
| the transport's handler, `ProcessIncoming` | `ProcessIncoming`, `Save`, `Announce` |
| `AddContact` | `AddContact`, `AnnounceContact` |
| `showMainChat`, `ChatListViewModel` | `ShowMainChat`, `ReadContacts`, `ReadSummaries`, `WatchMessages`, `WatchContacts`, `WakeList` |
| `showDirectChat`, `DirectChatViewModel` | `ShowDirectChat`, `LoadMessages`, `WatchChat`, `WakeChat` |
| stop and start | `Restart` |

A write and the event about it are two steps, and so are the two queries of
`ListConversations`. `unheard` is a history variable: channels of a topic that
were not yet subscribed at some event. The goroutine that sends a message reads
the entry's text itself, unsynchronised with the typing user and the button
that clears it; the model lets it find any text or none.

### A data directory and its processes

**`Migrations`** has the database file: golang-migrate's version and dirty flag,
the last of the four migrations the tables show, and of each message whether its
`chat_id` is set. Each operator is one SQL transaction: the migrator marks a
version dirty, runs the file, and marks it clean. **`IdentityKeystore`** has the
key file. `os.WriteFile` truncates before it writes, so `Generate` is two steps,
`Truncate` and `WriteKey`. **`Startup`** composes them: `pc[p]` is the place of
`main` in process `p`, `ver[p]` the version its migrator has come to, `id[p]` the
identity its processor and host were built with and `svcId[p]` that of its node
service. `mishaps` is a history variable: a start that was cut short, two that
overlapped, a key file that was deleted.

| code | actions |
|---|---|
| `RunMigrations`, with golang-migrate's `Up` | `ReadVersion`, `Begin`, `Migrate`, `Finish` |
| `main`'s use of `HasKey`, `Load`, `Generate` | `AskForKey`, `Load`, `OpenKeyFile`, `Generate` |
| the choice of the first screen | `ShowWindow` |
| the identity screen, `GenerateNewIdentity` | `ReopenKeyFile`, `GenerateNewIdentity`, `EnterMessenger` |
| a message saved later | `Save` |
| the user, the end of a process, a deleted file | `Launch`, `Stop`, `RemoveKey` |

A process may end, or a step of its start fail, at any point. Initially the
directory is empty or as any older release has left it.

### A direct message

**`Delivery`** has the devices, their messages and a stream for each: `spc[m]` is
the place of the goroutine that sends `m`, `rpc[m]` that of the one that receives
it, `arrived[m]` how many pieces of the payload have got through, `kept` and
`inbox` the two tables.

| code | actions |
|---|---|
| `NewLibp2pTransport`, `Subscribe` | `Listen`, `Subscribe` |
| `SendMessage` | `Save` |
| `Send` | `OpenStream`, `Write`, `WriteFails`, `Close` |
| `handleIncomingStream` | `ReadAll` |
| `ProcessIncoming` | `SaveIncoming` |
| the end of a process, a lost connection | `Crash`, `Break` |

**`DirectPromise`** is the abstract specification: a message is kept, and then
received at most once, unless it was reported as failed. `Delivery!PromiseKept`
is its `Spec` with `received` the messages of the inbox and `failed` those whose
`Send` returned an error.

### The node's reachability

**`Reachability`** has libp2p's channel, the goroutine of `SetupAutoNAT`, the
topic's channels on the bus, `NodeService.watchReachability` and the list's
`Watch`. Events carry a value here, so it does not use `EventBus`, whose channels
are numbers.

| code | actions |
|---|---|
| `SetupAutoNAT` and its goroutine | `SetupAutoNAT`, `Receive`, `Publish` |
| `NewNodeService`, `watchReachability` | `NewNodeService`, `SubscribeWatcher`, `WatchReachability` |
| `ChatListViewModel.Watch` | `Watch`, `WakeList` |
| libp2p's AutoNAT | `Change` |

### Write transactions

**`Database`** has `WriteTransaction` under the goroutines that use it: the engine,
which saves a batch row by row, records its progress and acknowledges, and
senders with one message each. `pc[w]`, `stmt[w]` and `err[w]` are a writer's
place, its executed statements and its last error; `conns` and `reading` share the
pool; `log` is the committed transactions and `synced` how many of them are
certainly on the disk.

| code | actions |
|---|---|
| `WriteTransaction` | `Lock`, `Begin`, `BeginFails`, `Exec`, `ExecFails`, `Rollback`, `Commit`, `Unlock` |
| `SendMessage`, `ProcessIncoming` after `Save` | `SenderReturns` |
| the save callback of `syncCycle`, the acknowledgement | `BatchReturns` |
| queries | `Query`, `CloseRows` |
| another process, a stop, a loss of power | `OtherWrites`, `Crash`, `PowerLoss` |

`PRAGMA synchronous = NORMAL` is executed on one connection of the pool, so
`Commit` may or may not synchronise the log; `PowerLoss` takes away what was
committed after some point at or behind `synced`.

**`WritePromise`** is the abstract specification: a batch whose rows come into the
table in order, progress and acknowledgement that only come with all rows there,
messages that are reported only when they are in the table, and a loss of power
that takes away from the end. It has no mutex, connections, statements or
errors, and it is what `FetchSession`, `Chats` and `Delivery` take a `Save` to
be: one step that happens or does not. `Database!PromiseKept` is its `Spec` with
`rows`, `recorded` and `messages` read off the log, and `reported` the senders
that have returned without an error.

In each module a definition whose comment begins with *Slip* is a plausible
mistake in the code it stands next to. No specification uses them; they are
there to show that a property would notice.

## The runs

Each MC module gives the constants values. "States" are distinct states.

| run | instance | states | checks |
|---|---|---|---|
| `fetch_pull` | 2 nodes, one of which does not trust the device; 3 rows, pages of 1, 8 frames per direction, 2 failures, no pushes, fairness | 143,897 | `TypeOK`, `CompletedMeansCaughtUp`, `LastSyncedSaved`, `PromiseKept`, `EventuallyCopied`, `CycleEnds` |
| `fetch_push` | 2 nodes that share a row and agree on its number, pushes, 2 frames, 1 failure | 2,332,182 | `AckedRowsSaved` |
| `push_lock` | 2 devices, 3 streams, overlaps, 2 pushes, 1 frame | 3,022,518 | `TypeOK`, `SessionsAreServed`, `PushReachesSessions`, `PromiseKept` |
| `push_live` | 2 devices, 3 streams, no overlaps, 1 push, 1 frame, fairness | 64,010 | `ServedAreRegistered`, `NodeGoesOn`, `IdleDeviceIsReached` |
| `chat_live` | 2 goroutines that write, the list, 2 chats with 2 peers, 1 event per channel, pages of 2, 1 failure, fairness | 679,130 | `TypeOK`, `ListIsCurrent`, `ChatIsCurrent`, `EventsAreSaved`, `EventuallyCurrent` |
| `startup` | 2 processes, 3 keys, 1 message, fairness | 281,718 | `TypeOK`, `CleanIsMigrated`, `RunningIsMigrated`, `IdentityKept`, `PartsAgree`, `FailsOnlyAfterMishap`, `EventuallyRuns` |
| `delivery` | 2 devices, 2 messages of 2 pieces, 3 failures, fairness | 8,818 | `TypeOK`, `WholeOnly`, `FailedIsNotReceived`, `PromiseKept`, `Arrives` |
| `reach` | 4 changes, 1 event per channel, fairness | 12,457 | `StatusIsCurrent`, `EventuallyCurrent` |
| `database` | 1 sender, a batch of 2 rows, 2 queries, 2 connections, 2 mishaps, fairness | 364,000 | `TypeOK`, `AllOrNothing`, `ErrorsComeFromOutside`, `ReportedSurvives`, `ProgressIsSaved`, `PromiseKept`, `WritesEnd` |

What they show:

- `fetch_pull`: no order of pages, acknowledgements, new rows and failures
  makes the device record progress it has not made or report a completion that
  is not one; the session implements `SyncPromise`.
  Although every session asks for page one again, the answers to its
  acknowledgements carry it through the backlog, if the stream has room.
- `fetch_push`: pushes that are read as pages spoil completion and progress,
  but not the acknowledgements: none covers a row the device lacks. (The theorem
  about it holds with and without pushes.)
- `push_lock`: the map never holds the stream of a handler that has returned, and
  a dead device does not keep a push from the others. Two pushes, handlers that
  come and go and the lock between them amount to `PushPromise`.
- `push_live`: if devices read, nobody waits for ever, and a push reaches each
  idle device that is in the map. It is excused only if the stream ends first,
  broken or closed by the node; a handler that has failed to answer and still
  waits for the lock is no excuse.
- `chat_live`: a view with no event pending shows the tables, although events
  are dropped, queries overlap with writes, and several views share a topic;
  and it comes to that state.
- `startup`: whatever processes do to one database at once and wherever they are
  cut short, one that gets past `RunMigrations` has the latest schema; without
  overlapping first starts and deletions the device never becomes another; and a
  start fails only after a mishap. It also shows that the identity screen, where
  a new identity would reach only a part of the process, is not reached while
  nobody deletes the key file.
- `delivery`: the order of write, reset, close and read never lets a part of a
  message, or one that was reported as failed, into the receiver's table.
- `reach`: the subscription in a goroutine of its own and the drops of the bus
  cost the service earlier statuses, but of those it gets it keeps the last.
- `database`: `writeMu` makes writers of one process wait where they would fail,
  its deferred release survives every error path, and since a loss of power takes
  the end of the log, the recorded progress stays behind the rows. Together:
  `WriteTransaction` implements `WritePromise`.

Why the bounds are enough to meet the interesting cases:

- Three rows with pages of one give a first, a middle and a last page, and an
  empty one after it; the page limit of 100 and larger tables repeat these.
  With eight frames a session over three rows never fills both directions at
  once, which is what `fetch_pull` means by a stream with room.
- A failure can be a failed query, save or update, a bad or late signature, a
  broken stream or a stop, at any point; two let one happen during the recovery
  from another. What more in a row would add is covered by the proofs, which
  have no bound on `MaxFaults`.
- Two streams of one device and one of another are the least in which a stream
  replaces another and a push has two targets; one frame per stream makes every
  write meet a full stream. Two pushes hold the read lock together and compete
  for the room of one stream.
- A channel with room for one event drops the second; two writers are enough
  for one event to be in the channel while another is dropped, and the list's
  two queries run between them. Larger numbers are in the proofs.
- Two processes are enough for every overlap of two starts, and three keys for a
  key of an older start and one of each. One message is enough because nothing
  relates two of them there.
- Two pieces make a first, a last and a proper prefix of a payload; two messages
  in opposite directions make each device sender and receiver at once.
- Four changes are enough for one status in libp2p's channel, one in its
  goroutine's hands, one in the service's channel and one in the service.
- Two rows make a first and a last; two connections with two queries fill the
  pool without a writer, and one connection is left for it while the other is
  read from; two mishaps let one happen to what another has left.

Deadlock is checked in the two passing fetch runs, where it says little, as
`SetPersonalNode` is always possible; that a cycle does not get stuck is `CycleEnds`.
In the other runs the behaviours end when the bounded streams, calls, messages and changes are used up, or when
every process has stopped, so their configurations say `CHECK_DEADLOCK FALSE`;
that nobody waits for ever there is what `NodeGoesOn`, `EventuallyCurrent`,
`EventuallyRuns`, `Arrives` and `WritesEnd` say.

## Fairness

- `FetchSession!FairSpec`: weak fairness of the engine's goroutine and of the
  stream's handler, each as a whole. Go's scheduler runs a goroutine that can
  run; a read or write that cannot go on disables the step. Nothing is assumed
  of failures, new rows or `SetPersonalNode`.
- `PushSessions!NodeFairness`: weak fairness of each handler, and strong fairness
  of each call of `PushNewMessage`, which competes for the lock and for the room
  in a stream. An `RWMutex` lets waiting readers in after each writer, and the
  mutex of a stream's writer is handed to a goroutine that has waited for long.
  Nothing is assumed of `FetchFails`. `FairSpec` adds that devices read;
  `StallingSpec` does not. A device that itself waits in `WriteMsg` does not read
  either: that is `blocked_streams`, of the session's own model.
- `Chats!FairSpec`: weak fairness of the list's view model, of each chat's, and of
  each goroutine that writes. That a goroutine that has saved its message goes
  on to announce it assumes that the transport's `Send` returns.
- `Startup!FairSpec`: weak fairness of each process's start. Nothing is assumed of
  the user, and a process may always be stopped.
- `Delivery!FairSpec`: weak fairness of the goroutine of each message on either
  side, and of a started process's `Subscribe`.
- `Reachability!FairSpec`: weak fairness of `main` up to the node service, of
  `SetupAutoNAT`'s goroutine and of the service's. Nothing is assumed of the
  list's goroutine, which may be in a refresh, nor of `main`'s step to the list,
  which may wait for the user.
- `Database!FairSpec`: weak fairness of each writer, and strong fairness of its
  `Lock` and `Begin`, which compete: a `sync.Mutex` goes to a goroutine that has
  waited for a millisecond, and `database/sql` hands a returned connection to the
  one that waits for it. Queries close their rows. The other process need not
  end; `busy_timeout` does.

## What the code does not do

Three runs show a disagreement of the code with what the repository says of it;
`PROJECT.json` quotes the lines under "findings".

| run | property | what happens |
|---|---|---|
| `push_completes` | `CompletedMeansCaughtUp` | A push arrives before the response and is read as it: one row, no more pages, "completed" (`client.go:105`). |
| `blocked_streams` | `CycleEnds` | Each acknowledgement is answered with a page nobody reads. With a long backlog both directions fill, and device and node wait in `WriteMsg` for each other (`server.go:169`). |
| `push_reconnect` | `OnlineHaveSession` | A device's second stream is registered while the handler of its first is leaving; the first one's deferred function deletes the second's entry, and an intact stream that is served is not pushed to (`server.go:83`). |

The modules state further properties that the code does not have. To see the
counterexample, put the property into a copy of the configuration named, in the
place of its own, with the change given.

| property | configuration | what happens |
|---|---|---|
| `LastSyncedSaved` | `push_completes` | A push read as a page moves `last_synced_seq` past rows the device lacks (`engine.go:111`). |
| `OnePageInFlight` | `fetch_pull` | An `AckRequest` is decoded as a `FetchRequest` and answered with a page (`server.go:89`). |
| `BatchesMakeProgress` | `fetch_pull` | `AfterSeq` is always 0: the first page is saved again (`client.go:97`). |
| `AckedRowsSaved` | `fetch_pull`, `Trusted = {n1, n2}`, `Rows <- ClashingNodes` | Two nodes that both number from 1: a row of the second is dropped by `INSERT OR IGNORE` and acknowledged (`repository.go:51`). |
| `RejectionIsNamed` | `fetch_pull`, `Trusted = {}` | A refusal is read as a challenge and reported as "challenge expired" (`client.go:48`). |
| `AuthenticatedArePushed` | `push_live` | A push right after the positive `AuthResult` misses the device, which is registered only then (`server.go:76`). |
| `NodeGoesOn` | `push_live`, `SPECIFICATION StallingSpec` | A device that stops reading holds the push, and with it the lock (`server.go:126`). |
| `ListMissesNothing` | `chat_live` | A message that is announced between `Refresh` and `Watch` is not shown (`main.go:113`). |
| `LatestIsShown` | `chat_live`, `PageSize = 1` | A chat longer than a page shows its oldest messages (`repository.go:115`). |
| `LastMessageIsLast` | `chat_live` | The last message of a conversation is `MAX(id)`, and ids are texts: "msg_..." beats "in_..." (`repository.go:154`). |
| `TextIsKept` | `chat_live`, `MaxMarks = 1` | A received text that begins with "ENC:" is decrypted twice (`api/chat.go:161`). |
| `OwnIsMarked` | `chat_live` | `GetMessages` never sets `IsOwn` (`api/chat.go:165`). |
| `SentAsTyped` | `chat_live` | The goroutine reads the entry after the button has cleared it (`direct_chat_screen.go:68`). |
| `OneChatIsWatched` | `chat_live` | A chat's view model is never unsubscribed (`main.go:130`). |
| `EventsAreSaved` | `chat_live`, `FineClock = FALSE`, `Bodies = {b1, b2}` | Two messages at one reading of the clock have one id; the second is ignored and announced (`processor.go:101`). |
| `HasKeyTells` | `startup` | After a stop during `WriteFile` the file is there and holds no key: "returns true if a key pair exists" (`identity_manager.go:55`) is not so, and every later start ends in "Failed to load identity". |
| `RecoversFromCut` | `startup` | A start that is cut short leaves a dirty version or a torn key file, and the next one fails (`db.go:101`, `identity_manager.go:100`). |
| `SentArrives` | `delivery` | `Send` returns nil before anything is known of the other end. A payload that comes before `Subscribe` is dropped, the message is shown as "sent" (`libp2p.go:74`). |
| `KeptIsRetried` | `delivery` | Nothing sends a kept message again (`api/chat.go:203`). |
| `StatusIsShown` | `reach`, `SPECIFICATION Spec` | The list looks for a string, the events are `ReachabilityStatus` values: it says "Offline" for ever (`chat_list_vm.go:68`), where `docs/system/02_DES_ui_ux_fyne.md` has an indicator. |
| `NothingMissed` | `reach`, `SPECIFICATION Spec` | A status published before the service's goroutine has subscribed is lost (`node.go:45`). |
| `AckedSurvivesPowerLoss` | `database` | Rows acknowledged to the node are lost with the power (`db.go:39`); `docs/system/01_RES_sqlite_p2p_consistency.md` accepts that, since the engine asks for page one again. |

## What is proved

For all values of the constants, from the assumptions each module names:

| theorem | states | assuming |
|---|---|---|
| `FetchSessionProofs!TypeCorrect` | `Spec => []TypeOK` | |
| `FetchSessionProofs!AcksAreSafe` | `Spec => []AckedRowsSaved` | `NumberingAgrees` |
| `FetchSessionProofs!CompletedIsCaughtUp` | `Spec => []CompletedMeansCaughtUp` | `NumberingAgrees`, `~Pushes` |
| `FetchSessionProofs!CyclesKeepPromise` | `Spec => PromiseKept` | `NumberingAgrees`, `~Pushes` |
| `FetchSessionProofs!ProgressIsCovered` | `Spec => []LastSyncedSaved` | `OneSource`, `~Pushes` |
| `FetchSessionProofs!OnlyHeldRowsArrive` | `Spec => [](FromPeer /\ OnlyHeldRows)` | |
| `FetchSessionProofs!ReadersAreServed` | `Spec => []ReaderIsServed` | |
| `MessageStoreProofs!PagesTile` | a page and what follows its maximum are the table | sequences are not repeated |
| `PushSessionsProofs!TypeCorrect` | `Spec => []TypeOK` | |
| `PushSessionsProofs!NoStaleSessions` | `Spec => []SessionsAreServed` | |
| `PushSessionsProofs!PushIsComplete` | `Spec => []PushReachesSessions` | |
| `PushSessionsProofs!PushesKeepPromise` | `Spec => PromiseKept` | |
| `PushSessionsProofs!ServiceIsRegistered` | `Spec => []ServedAreRegistered` | `~Overlaps` |
| `PushSessionsProofs!NobodyWaitsInACircle` | `Spec => []NodeWaitsForDevices` | |
| `ChatsProofs!TypeCorrect` | `Spec => []TypeOK` | |
| `ChatsProofs!ListStaysCurrent` | `Spec => []ListIsCurrent` | |
| `ChatsProofs!ChatsStayCurrent` | `Spec => []ChatIsCurrent` | |
| `ChatsProofs!EventsAreOfSavedRows` | `Spec => []EventsAreSaved` | `FineClock` |
| `ChatsProofs!ChatsShowTheirBeginning` | `Spec => []BeginningIsShown` | |
| `StartupProofs!TypeCorrect` | `Spec => []TypeOK` | |
| `StartupProofs!CleanMeansMigrated` | `Spec => []CleanIsMigrated` | |
| `StartupProofs!RunsOnLatestSchema` | `Spec => []RunningIsMigrated` | |
| `StartupProofs!PartsHaveOneIdentity` | `Spec => []PartsAgree` | |
| `StartupProofs!OneIdentity` | `Spec => []IdentityKept` | |
| `StartupProofs!StartsSucceed` | `Spec => []FailsOnlyAfterMishap` | |
| `DeliveryProofs!TypeCorrect` | `Spec => []TypeOK` | |
| `DeliveryProofs!WholeMessages` | `Spec => []WholeOnly` | |
| `DeliveryProofs!FailuresAreFinal` | `Spec => []FailedIsNotReceived` | |
| `DeliveryProofs!DeliveryKeepsPromise` | `Spec => PromiseKept` | |
| `DeliveryProofs!NoReaderIsForgotten` | `Spec => []ReadersHaveWriters` | |
| `ReachabilityProofs!TypeCorrect` | `Spec => []TypeOK` | |
| `ReachabilityProofs!LastIsReported` | `Spec => []StatusIsCurrent` | |
| `DatabaseProofs!TypeCorrect` | `Spec => []TypeOK` | |
| `DatabaseProofs!WritersDoNotCollide` | `Spec => []ErrorsComeFromOutside` | |
| `DatabaseProofs!TransactionsAreAtomic` | `Spec => []AllOrNothing` | |
| `DatabaseProofs!ReportsAreTrue` | `Spec => []ReportedSurvives` | |
| `DatabaseProofs!ProgressFollowsRows` | `Spec => []ProgressIsSaved` | |
| `DatabaseProofs!WritesKeepPromise` | `Spec => PromiseKept` | |
| `DatabaseProofs!NobodyWaitsInACircle` | `Spec => []NoCircle` | |

The assumptions are those of the module's `ASSUME`s. In `FetchSession`: rows
have positive sequence numbers up to some maximum and one node's rows do not
conflict (`RowsAssumption`), the node the device starts without is not a node
(`NodesAssumption`), limits are positive (`BoundsAssumption`). Elsewhere the
values that stand for "no key", "a torn file", "nobody" differ from keys and
goroutines, payloads have a size, and bounds are numbers. `NumberingAgrees` is
not one of them, nothing in the code makes it so: it is a premise of the
theorems that need it, and the instance with `ClashingNodes` is what happens
without it. The same goes for `~Pushes` with `push_completes`, `~Overlaps` with
`push_reconnect`, and `FineClock`. `OneSource`, that one node at most stores
anything, is stronger than `NumberingAgrees`, and `LastSyncedSaved` needs it:
`last_synced_seq` is one number, and after `SetPersonalNode` it would still be
that of the node before.

**Acknowledgements.** `AckedRowsSaved` speaks of the rows the node has now, and
the node's table grows, so it is not inductive. `Covered(held, saved, s, E)` is:
every row held up to `s` is among those saved and those in `E`, and `s` is 0 or
no greater than a sequence number held, so that a row stored later, numbered
after all the others, is not below it. `SafeInv` says that a request or
acknowledgement covers its sequence with nothing in `E`; a page in flight
covers its `max_seq` with its own rows in `E`; and a batch half saved covers it
with the rows still to save. `GetSince` (lemma `PageFacts`, from
`MessageStoreProofs`) gives the step from a covered request to a covered page.
A push is a page with `max_seq` 0, which covers nothing and claims nothing: that
is why pushes do not hurt. The handshake conjunct says that a challenge, the one
frame with a clock reading in field 2, is alone on its stream.

**Completion.** `PullInv` adds that a page that says there are no more leaves
nothing of `atStart` out (`LastPages`), and that nothing of the handshake is left
to be taken for such a page (`QuietHandshake`); a push would be one, which is
where `~Pushes` comes in.

**What arrives.** `FromPeer` says that every row in a frame or in the batch in
hand is one that the node at the other end holds; it is inductive whatever is
pushed or taken for something else, since each frame of a stream has the rows of
its node and a stream has one node. With it `OnlyHeldRows` follows for the table:
rows that some node holds, and no two with one id or one sequence number.

**The cycle's refinement.** `CyclesKeepPromise` maps each step to a step of
`SyncPromise` or a stutter. `FromPeer` makes a saved row a `Copy` of a held one;
`PullInv` makes the end of a session a `Complete`, as the goal has been copied;
and `FetchingIsStarted` says that there is a goal whenever there could be a
completion.

**Progress.** `HonestPages` says that without pushes no frame has a row beyond
its field 2, so that a batch takes progress no further than its own rows, all of
which are saved before `RecordProgress`. `ProgressInv` adds that the recorded
progress is `Covered` in the sense above, for the one node that stores rows.

**Waiting for frames.** Frames are misread, and an end that waits for one that is
not coming would wait for ever. `AnswerOwed` says what is on its way at each
pair of places in the handshake, and that a request, an answer, or the handler
about to write one is there while the device waits for a response. So
`ReaderIsServed`: a device that waits in vain for the moment is owed a frame by a
handler that can go on, or its stream has ended. With it the two can only stop
each other by waiting for room, which is what `blocked_streams` shows.

**Sessions.** `SessionsInv` adds `LoopsCover`: what a call in its loop has found
was written to, is broken, or is still to come. It is stable because the map is
held still while there are readers (`MapStep`). Without overlaps `OneStream` says
that a device has one handler that has not returned, so that no deferred delete
finds another's entry.

**Pushes.** For `PushesKeepPromise` a `ReadLock` is the moment a call takes effect,
`Register` and `Unregister` are `Serve` and `Leave`, a write is a `Write`, and the
rest of the loop and of the handlers is a stutter. `LeftIsListed` says that what
a loop has still to reach is among the streams it found and was not written to,
`SessionsAreServed` that the node has not closed it, and `LoopsCover` that a call
that returns owes nothing. `LockInv` says that the lock is asked for by one handler
in `Lock` and left behind by none. So if no goroutine at the lock can go on
there is a reader, and if no reader can, one of them waits for room on a stream
that is intact and not closed: for a device that does not read
(`NodeWaitsForDevices`). It makes no difference whether the handler of that stream
is in its main loop or waits for the lock after a failed fetch: the push waits for
the device, not for the handler.

**Views.** `ListInv` and `ChatInv` say of every place of a view model that what
it has read agrees with the table unless something is `Pending`: a writer about
to announce, an event in the channel, or one that came before it was subscribed.
A full channel that drops an event is not empty, so it is pending all the same;
this is why the drops of `Publish` do no harm here. `RowIds` numbers the rows in
the order they were saved, which makes the order of a chat's page total; with
`ChatIsCurrent` it gives `BeginningIsShown`: a chat of no more than a page's
messages is all on the screen, and of a longer one the oldest page. It is what
the code has in the place of `LatestIsShown`.

**Events.** `IdInv` orders ids by the clock: rows saved and about to be saved
carry readings before the present one, no two the same, so `INSERT OR IGNORE`
never ignores.

**Migrations.** `RunningIsMigrated` is not inductive: processes race, and one
may set the version back. `MigrationInv` says that the schema never goes back
and that a migrator that has come to version `v` has seen the tables of `v`
(`MigratorsFollow`), with `CleanIsMigrated` for the ones that start now; and that
from the second migration on every message has its chat (`RowsInChat`).

**Identity.** `KeyStays`: once there is a key file only its deletion takes it
away, so the identity screen is out of reach and the parts stay together.
`OneStart`: while starts do not overlap, one process at most is starting, and the
file is its own business: absent before `Generate`, torn during it, the identity
of all hosts after it. `NothingPending`: without mishaps the dirty flag and a torn
file belong to the one start that will clear them.

**Delivery.** `LinksInv` relates sender, stream and receiver of each message: the
end of a stream is only seen after all pieces and after `Send` has succeeded,
since `Reset` comes before the deferred `Close`; `InboxInv` says that a row in the
inbox comes from such a stream and that its goroutine is done, so that it is
received once. The refinement follows action by action: `Save` is `Keep`,
`SaveIncoming` is `Receive`, `OpenStream` and `WriteFails` may be `Fail`, every
other step is a stutter. `MannedInv` ties an open stream to a sender that is in
`Send` on a running device and to a receiver that reads, which gives
`ReadersHaveWriters`: no error path and no crash leaves `handleIncomingStream` behind on
a stream that nobody will end.

**Reachability.** `LastOnItsWay` says where the last change is: in libp2p's
channel, in the goroutine's hands, in the service's channel, in the service, or
missed. An event that is dropped while a later one is on its way is of no
account, which is why the drops of `Publish` do not make the status stale.

**Transactions.** `MutexInv` makes `writeMu` a mutex around `begin` to `unlock`,
so that one writer at most has SQLite's lock; `QuietInv` adds that without
mishaps nobody fails. `SendersInv` and `EngineInv` say which transactions are in
the log at each place of a writer, and `ProgressIsSaved` is inductive with
`EngineInv`, as every prefix of the log keeps the order. For `WritesKeepPromise`
two facts more are needed: `InOrder`, that a row of the batch is in the log only
after the rows before it, and `NobodyReturns`, that after a loss of power no
sender is left that could report a message that is gone. A `Commit` is then
`SaveRow`, `SaveMessage` or `Record` by whose it is, `SenderReturns` and
`BatchReturns` are `Report` and `Acknowledge`, a `PowerLoss` is `LosePower`, and
everything between `Lock` and `Unlock`, every error and every query is a
stutter. `HolderInside` says that the holder of the mutex is between its `Lock`
and its `Unlock`; so one writer at most has a connection, a full pool is full of
queries, which end, and SQLite's lock is at worst the other process's
(`NoCircle`).

**Pages.** `PagesTile` is about `GetSince` and `MaxSeq` alone: if sequence numbers
are not repeated, the page after `a` and the rows beyond its maximum are together
the rows beyond `a`, without a row in both, and a page is empty only if nothing
is left. Its premise is the `UNIQUE` on `global_seq`; with a repeated number a
row could be cut off at the end of a page and skipped.

All of these invariants were checked by TLC before they were proved.

Every invariant and action property and every refinement that a run checks is
proved. Only model-checked are the liveness properties, since the prover has
neither fairness nor `ENABLED`; of some the safety half is proved, that somebody
can go on:

| property | its safety half |
|---|---|
| `EventuallyCopied`, `CycleEnds` | `ReadersAreServed` |
| `NodeGoesOn`, `IdleDeviceIsReached` | `PushSessionsProofs!NobodyWaitsInACircle`, `PushIsComplete` |
| `Arrives` | `NoReaderIsForgotten` |
| `WritesEnd` | `DatabaseProofs!NobodyWaitsInACircle` |
| `EventuallyCurrent` (of `Chats`) | `ListStaysCurrent`, `ChatsStayCurrent` |
| `EventuallyCurrent` (of `Reachability`) | `LastIsReported` |
| `EventuallyRuns` | `StartsSucceed` |

The converse of `PagesTile`, that repeating the request ends with the whole table,
would be an induction over pages. No module has a `RECURSIVE` operator.

## What is not modelled

- **Cryptography.** A signature is right, or its failure is one of the faults.
- **Timing.** The sleeps between cycles, the minute a challenge is good for (an
  expiry is a fault), SQLite's busy timeout. There is no timeout on any read or
  write of the sync code, and none in the model.
- **Torn reads.** `nodeID` and the entry's text are strings shared without
  synchronisation. The models take each read as one step that finds an old or a
  new value; a pointer of one and a length of the other is left out.
- **The engine's events of saved rows**, which would be further writers of
  `Chats`: `main` does not start an engine, so the two halves do not meet in
  this program.
- **Cancellation.** `run` does not look at its context while no node is set, and
  sleeps without looking at it. `main` starts no engine and nothing in the
  repository cancels one, so there is no canceller to compose it with.
- **Retries of a failed `Send`.** The comment at `internal/api/chat.go:203` says
  the message is kept for a retry; there is no code for one, and no column tells
  sent rows from unsent ones. `FailedIsNotReceived` says a retry would be safe.
- **Peer exchange.** Nothing but a test constructs a `PexHandler`; it keeps no state.
- **The files of a database** below a transaction: pages, checkpoints, the driver's
  statement cache. A commit is in the log or not, and a loss of power takes the
  log's end.
- **mDNS, the DHT, libp2p itself, fyne, layout, the mock transport**: libraries,
  drawing, and test doubles.

## Plan

Done, in this order: `SyncWire`, `MessageStore`, `SyncPromise`, `FetchSession`
(the program's core), its invariants and proofs; `PushSessions` and its proofs;
`EventBus`, `ChatStore`, `Chats` and their proofs.

Then `Migrations`, `IdentityKeystore` and `Startup`; `DirectPromise` and
`Delivery`; `Reachability`; `Database`; each with its proofs.

Left, in this order:

1. The engine's events of saved rows as a further writer of `Chats`, once the
   application starts an engine: then `AckedRowsSaved` and `ListIsCurrent` meet.
2. `EngineLoop`: `run` with its context and its sleeps, once something cancels it.
3. `Pex`, once something uses it: one request and one answer, at most 50 peers,
   ended and reset streams.

Proofs to come: for `Chats`, which has no abstract specification, views that jump
to a state the tables have had since the last event they saw, and the refinement.
For `FetchSession`, that the pages of one cycle go forward: after the repeated
first page, each has only rows beyond the one before.
