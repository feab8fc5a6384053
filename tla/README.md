# SocketPro: a TLA+ model of the open adapters

SocketPro is a client/server framework for in-line request batching, server
push, client-side and server-side persistent message queues, streaming of files
and database results, and real-time caches.  Its two cores (`usocket`, the
client core, and `uservercore`, the server core) are closed source and reached
through C functions (`include/ccloader.h`, `include/scloader.h`); what is open
are the adapters on top of them.  This project models the C++ adapters under
`include/`, the reference implementation that the other language adapters
follow.  Paths below are relative to `src/` of the repository.

Contents: the inventory of the system; the modules and how they correspond to
the code; the runs, their bounds and the fairness they assume; the restrictions
on use the passing runs rely on, what happens without them, and the finding; the
proofs; what is not modelled; the plan.

## 1. Inventory

A client application has socket pools; a pool has sockets, each driven by a
worker thread of the client core; every socket carries one session with one
service, and the session's handler matches results with callbacks.  A session may
write its requests to a client message queue first.  On the server a service has
one peer object for a session; the persistent queue service shares queues
between peers.  All of them use one small set of containers and locks.

### Client session: `CAsyncServiceHandler`, `CClientSocket` (`include/aclientw.h`, `include/aclientw.cpp`)

- State: `m_vCallback`, pairs (request id, callbacks) in the order of the
  requests; `m_vBatching`, the pairs of a batch being built; `m_rrStack`, the
  pool of pairs; the locks `m_cs` (queues) and `m_csSend` (order of sending).
- Operations: `SendRequest`, `StartBatching`, `CommitBatching`,
  `AbortBatching`, `Cancel`, `CleanCallbacks`, `Attach`, `Detach`, `AppendTo`;
  called by the core: `OnRequestProcessed`, `OnServerException`,
  `OnBaseRequestProcessed`, `OnSocketClosed`.
- Interaction: application threads fill the queues, the socket's worker thread
  empties them; the core decides when a session is closed and reconnected.
- Hard: results are matched by position (by id for a service that answers out of
  order) and not by an identity of the call, so that one pair too many or too
  few shifts later results; close, cancel and reconnection come at any time.
- Correct when: a result reaches the callbacks of its own request; callbacks run
  at most once and are never lost; a pair is never in two places; every request
  that goes out ends.

### Client message queue: `CClientSocket::CQueueImpl`

- State: a file of requests in the core, an open job (transaction), and in the
  adapter `m_nQIndex`, the number of callbacks at `StartJob`.
- Operations: `StartJob`, `EndJob`, `AbortJob` (with `EraseBack`), sending,
  `StartQueue`, `AppendTo`, `EnsureAppending`.
- Hard: callbacks are memory, the file is not: closes, reconnections and
  restarts of the process have to leave callbacks and requests in step; jobs are
  found by an index into a queue that shrinks at its other end.
- Correct when: callbacks and queued requests stay in step, an abort tells
  exactly the requests of the job (the code does so only if no callback waited as
  the job started: section 4), and what is in the file is answered.

### Socket pool: `CSocketPool` (`include/aclientw.h`)

- State: the static list `m_vPool` of pool objects, `m_nPoolId`,
  `m_mapSocketHandler`; `m_cs`.
- Operations: construction, `StartSocketPool`, `PostProcess` (the loop that
  connects), `ShutdownPool`, the destructor, `Lock`/`Unlock`, `Seek`,
  `SeekByQueue`; the static callback `SPE` for the events of the core.
- Hard: `SPE` runs on core threads and knows only a core pool id, which the pool
  object learns by guessing which object is starting; `PostProcess` gives up the
  lock in the middle of an iteration.
- Correct when: sockets are in the map of the object that asked for them, no
  iterator or pointer dangles, a locked socket is in one thread's hands, and
  calls return.

### Pools of pairs and buffers: `CSafeDeque` (`include/safequeue.h`)

- State: a buffer of `m_capacity` cells, of which `m_count` from `m_header` on
  are the elements; the spin lock `m_sl`.
- Operations: pushes and pops of many elements at either end, `clear`,
  `shrink_to_fit`.
- Hard: elements slide inside the buffer or move to a larger one; unsigned
  differences; uninitialised cells.
- Correct when: it is a deque, stays inside its buffer, and the buffer does not
  grow without need.

### Persistent queue service: `CAsyncQueueImpl`, `CMyQueue` (`include/queue/server_impl/`)

- State: `m_mapKeyQueue` under the spin lock `m_cs`, `m_clients`; for every
  client `m_qTrans` and `m_bufferBatch`; for every queue object its critical
  section and a core handle.
- Operations: `Enqueue`, `EnqueueBatch`, `Dequeue`, `StartTrans`, `EndTrans`,
  `Close`, `Flush`, `GetKeys`; switch to and away from the service, cancel.
- Hard: requests of different clients run at the same time, the map is unlocked
  between finding and making a queue, `Close` decides by `use_count`, and writes
  can fail in the middle of a transaction.
- Correct when: acknowledged messages stay until delivered, nobody works with a
  stopped queue, failed transactions leave nothing, and no lock stays locked.

### Persistent queue handler: `CAsyncQueue` (`include/aqhandler.h`)

Its requests are those of any session, its transactions are jobs, and its server
is the persistent queue service, each of which has a module.  Its own state is
the batch it builds and the callback of the last `Dequeue`, which a notification
of the server repeats.  Not modelled as a component.

### File streaming: `CStreamingFile` (`include/streamingfile.h`), `CSFileImpl` (`include/file/server_impl/`)

- State: at the client the queue of transfers `m_vContext`, each with its local
  file, and the bound `m_MaxDownloading`; at the server the file `m_of` that is
  open for writing and its `InitSize`.
- Operations: `Upload`, `Download`, `Cancel`; `OnPostProcessing`, the results in
  `OnResultReturned`, `CleanCallbacks`; at the server `Upload`, `Uploading`,
  `UploadCompleted`, `Download`, `CleanOF` when a peer is released.
- Interaction: up to `m_MaxDownloading` downloads, and one upload, are under way
  at a time; `OnPostProcessing` opens files and sends requests, the worker thread
  matches results with the front of the queue.  Every request also registers its
  `Discarded` callback in `m_vCallback` of the base class.
- Hard: results name no transfer; a transfer fails at one end while its chunks
  are under way; a connection breaks inside an upload; half-written files;
  `OnPostProcessing` and `Cancel` give up `m_csFile` for the callbacks of a context
  that is still in the queue.
- Correct when: results meet their own transfer, every transfer is told of a
  success or a failure at most once and hears of its end, a success is a complete
  file, and a failure leaves no partial one.

### Database client: `CAsyncDBHandler` (`include/udb_client.h`)

- State: `m_mapRowset`, `m_mapParameterCall`, `m_mapHandler` by call index;
  `m_indexRowset`, `m_indexProc`, `m_parameters`, `m_nParamPos` for the answers;
  the row and the BLOB being put together (`m_vData`, `m_Blob`); the locks `m_csDB`
  and `m_csOneSending`.
- Operations: `Open`, `Prepare`, `Execute`, `ExecuteBatch`, `BeginTrans`,
  `SendParametersData`; results in `OnResultReturned`; `Clean`.
- Hard: one statement is many requests and many answers; output values are
  written through a pointer into the caller's array at a place found by counting.
- Correct when: a statement gets its own parameters, a callback the rowsets of its
  own call, an output its own place, and no pointer outlives its call.

### Real-time cache: `CMasterPool`, `CSQLMasterPool`, `CDataSet` (`include/masterpool.h`, `include/rdbcache.h`, `include/tablecache.h`)

- State: `Cache`, which readers see, and `m_cache`, in which a snapshot is
  collected; the row and BLOB being put together (`include/generalcache.h`).
- Operations: the initialisation when a session connects or the server asks for
  it; the table events insert, update, delete; `Swap` at the end of a snapshot;
  at the server `CCacheBasePeer` (`include/gencachepeer.h`) sends rows.
- Hard: snapshots against events, breaks in the middle of a snapshot, and failed
  ones.
- Correct when: readers never see part of a snapshot, and the cache becomes and
  stays equal to the database.

### Server peers and services: `CClientPeer`, `CBaseService` (`include/aserverw.h`, `include/aserverw.cpp`)

Peers are created and recycled under the lock of their service; requests are
dispatched as fast (main thread) or slow (worker thread) ones; batching,
cancel and interrupts.  The scheduling is in the closed server core.  The peers
of the queue service and of file streaming are modelled with their services; the
base classes are not.

### Replication and queue merging

`CReplication` and the merge events of `CSocketPool` (`include/aclientw.h`)
append the queue of one session to that of another.  Hard: the order of merge
events, locks of two handlers.  Not modelled: both are driven by the client core.

### Supporting code

Memory buffers (`include/membuffer.h`, serialisation), locks
(`include/commutil.h`), the socket pool manager (`include/manager.h`), JSON
(`include/jsonvalue.h`): data or thin wrappers, not modelled.  The adapters of
the other languages repeat the C++ one.  Database plugins, samples and tutorials
are outside the project.

`PROJECT.json` lists the hazards of this code, each at its line, with the
properties that would catch it.

## 2. Modules

| Module | Models | Uses |
|---|---|---|
| `AsyncHandler` | client session and its threads | |
| `ClientJob` | session with a client message queue and jobs | |
| `AsyncQueueServer` | persistent queue service, all its clients | |
| `SocketPool` | pool objects, application threads, events of the core | |
| `Deque` | what `CSafeDeque` promises (abstract) | |
| `SafeDeque` | `CSafeDeque`, and its refinement of `Deque` | `Deque` |
| `FileChannel` | the connection and the files that both sides of file streaming share | |
| `StreamingFile` | file streaming, client | `FileChannel` |
| `SFileImpl` | file streaming, server | `FileChannel` |
| `FileTransfer` | file streaming, client and server composed, with breaks | `StreamingFile`, `SFileImpl` |
| `DBHandler` | database client handler and its threads | |
| `MasterCache` | real-time cache of a master pool, and its server | |
| `MCAsyncHandler`, `MCAsyncQueueServer`, `MCSocketPool` | symmetry sets for TLC | the component |
| `MCSafeDeque` | the view for TLC | `SafeDeque` |
| `MCFileTransfer` | the transfers that are tried | `FileTransfer` |
| `MCDBHandler` | statements, batches, parameter arrays; symmetry | `DBHandler` |
| `MCMasterCache` | tables and rows | `MasterCache` |
| `AsyncHandlerProofs`, `ClientJobProofs`, `AsyncQueueServerProofs`, `SocketPoolProofs`, `SafeDequeProofs`, `DBHandlerProofs`, `MasterCacheProofs` | inductive invariants and theorems | the component |

A definition whose comment starts with "Mutant:" is a plausible bug in the
definition that follows it; no specification uses it.  Mutants exist to see the
properties fail.

**Steps.** What the code does while it holds a lock without calling out is one
action.  A call that unlocks, or that holds a lock while it calls the core, is
several actions with a program counter (`pc`), and a lock held across them is a
variable (`csSend`, `csPool`, `lockedBy`).  Spin locks and critical sections
held inside one step need no variable.

**The cores** are external: connection, batch buffer, outgoing requests, queue
files, core pools and sockets are modelled from how the adapters use them.  The
assumptions are: results arrive in the order of the requests unless the service
is a random one; a closed connection loses what was under way; a client queue
sends again what was not answered; the server core has one open queue for a key,
an enqueue while a job of that queue is open joins the job, and a
`StopQueueByHandle` ends the handle; pool events arrive one after the other for
one core pool.

### `AsyncHandler`

`vCallback`, `vBatching`, `rrStack`, `csSend` are the members of the same name.
A pair is a number; `content` says which call's id and callbacks it holds.
`SendRequest` is `SendPrepare` (read `IsBatching`, take a pair from the pool),
`SendPush` (lock `m_csSend`, push under `m_cs`), `SendCore` (the core's
`SendRequest`, unlock) and `SendUndo` (a failed send takes its pair out again,
and must find it gone when a close was faster).  `SendMute` is a request without
callbacks, which the code sends without any pair.  `CommitBatching` and
`AbortBatching` move or recycle the pairs under `m_cs` and then call the core, in
two steps.  The worker thread is `OnRequestProcessed` (and the server exception
of the same shape), `OnCanceled`, `OnSocketClosed`, and the two halves of
`CleanCallbacks` after it has swapped the queues into `sb0` and `sb1`.  History
variables record for each call what its callbacks heard (`outcome`), whose result
it was (`got`) and how many callbacks have run (`fired`).

### `ClientJob`

One id for all requests, so that the front pair is always accepted; calls stand
for their pairs.  `SendPush` and `SendCore` are the two halves of `SendRequest`;
`StartJob`, `EndJob`, `AbortJob` and `EraseBack` are the methods of `CQueueImpl`
and the handler, with the unsigned arithmetic of `EraseBack` (`Width` bits).
`Transmit`, `Reconnect` and `Restart` are the core, its reconnection and a new
client process that finds the old file.

### `AsyncQueueServer`

`mapKeyQueue`, `qTrans`, `batch` are the members; a `CMyQueue` is a number with a
key and a core handle (`objs`), and `UseCount` counts the `shared_ptr`s to it:
the map, transactions and the local pointers `p` of running requests.  `Enqueue`
and `Dequeue` are Find (under `m_cs`), Make and Register (the map again), and
the operation itself.  `Dequeue` takes the first message of the file that no
consumer is being sent, and `Confirm` takes it out.  `EndTrans` drops, enqueues a single message without
`m_cs`, or runs a job (`EndTransJob`, `JobFill`, then `JobEnd` or `JobAbort`, with
the failures of each).  `Close` deletes the queue or not.  `OnSwitchFrom`,
`OnReleaseSource` and `OnBaseRequestArrive` are a client that comes, goes or
cancels.

### `SocketPool`

Pool objects are in `vPool` in the order of their construction.  Threads run
`StartSocketPool` (`CreateSocketPool`, `CreateReturns`, `SetPoolId`),
`PostProcess` (`PostFirst` unlocks and waits for the first connection,
`PostRelock` locks again and checks the map, `PostNext` connects the rest),
`ShutdownPool` (`DestroyReturns`, `ShutdownReset`, `Erase` for a destructor) and
`Lock`/`Unlock`.  `SPE` is one action for each event that changes state;
`SpeStarted` gives the id to `LastIdle`, the last pool object without one.

### `SafeDeque` and `Deque`

`p`, `header`, `count`, `capacity` are the members; a fresh buffer is full of
`Junk`.  A push is one of three alternatives (in place, slide, grow), as in the
code; `Copy` is `memcpy`/`memmove` and writes only what lies inside the buffer,
and `InBounds` says that nothing is ever beyond it.  `Deque` has the elements as
a sequence and the value the last operation returned; `SafeDeque` refines it with
`deque <- Contents`.

### `FileChannel`, `StreamingFile`, `SFileImpl`, `FileTransfer`

`FileChannel` has the two FIFOs of the connection, and for every transfer what it
is (`param`: direction, append or truncate, whether the target exists, its length
in chunks, what `open` and `fcntl` answer) and the file it writes (`target`).  A
file is a sequence of chunks, so that a missing, doubled or misplaced chunk
shows.  `StreamingFile` has `vContext`; `m_vCallback`, which counts the requests of a
transfer that wait in the base class with its `Discarded` callback; and `posted`,
the calls of `OnPostProcessing` that the core owes.  `OnPostProcessing` is one
definition up to its first callback: `Reached` says how far the first loop comes,
`AfterOpening` and `RequestsOf` what it opens and sends.  The second loop closes a
failed front transfer and unlocks `m_csFile` to tell it (`streamingfile.h:364`):
`TellFront` is a round up to the callback, `telling` the transfer that is told, and
`Told` what comes after the callback, which removes whatever is first then.  Each
result id has an action.  `ChunksTo` are the chunks read and sent up to the n-th;
`OnUpload` and `OnUploading` end the upload when a read or a send fails after any of
them.  A close (`CleanCallbacks`) runs `Discarded` for every context and, in the base
class, again for every request that was not answered (`Discards`).  A file that comes
when no context is left gets one without callbacks (`mute`).  `Cancel` discards from
the back and is two steps for each transfer, since it unlocks `m_csFile` for the
callback (`CancelPop`).  In `SFileImpl`, `Upload`,
`Uploading` and `UploadCompleted` are the slow requests; a download is `Download`,
a `DownloadChunk` for each `SendResult` and its end, so that an interrupt or a
break can come between two of them; `OnReleaseSource` undoes the open file.
`FileTransfer` adds breaks and reconnections, which start with no requests of the old
connection.

### `DBHandler`

A call is its call index.  `Execute` takes `m_csOneSending`; `SendData` sends one
request of parameter data after the other, as `SendParametersData` splits them
(`BatchSize` small values, large values in chunks); `Register` makes the entries
under `m_csDB`; `SendExecute` sends the statement, and erases the entries if that
fails.  The answers are one action for each id.  The places of outputs follow
the code's arithmetic on `m_indexProc`, `m_nParamPos` and `m_parameters`.  The
server executes a statement with the parameter data it has received (`bound`) and
answers with a rowset, outputs and a result for every statement and parameter
set.  A close is `Break`, `CleanMaps` and `CleanCallbacks`, in that order.

### `MasterCache`

`cache` and `mCache` are sequences of named tables.  Rows travel as cells and are
put together in `vData` and `blob`.  `TableOf` is the search of `CDataSet` for a
table, which takes the first of that name; `AddRows`, `UpdateARow` and
`DeleteARow` are its operations.  `sql` selects the pool: `CSQLMasterPool` opens the
database and empties `m_cache` when it initialises, `CMasterPool` asks with
`GetCachedTables`.  `SendRow` is one turn of the loop of `CCacheBasePeer::SendRows`.
The databases are assumed finite, with unique keys.  The server reads the tables one after the other (`ReadTable`),
while the database changes (`Change`).

## 3. Runs

| Run | Configuration | Shows |
|---|---|---|
| `handler` | `MCAsyncHandler.cfg` | `TypeOK`, `OnePlace`, `OwnResult`, `CallbackKept`, `FiresOnce` for two threads that share a session, with batches, cancels, a close and a reconnection |
| `handler_random` | `AsyncHandler_random.cfg` | `CallbackKept` and `EverySentSettles` for a service that answers out of order: no answer finds its callbacks gone, and every request on its way ends by one of its callbacks running |
| `job` | `ClientJob.cfg` | `InStep`, `OwnResult`, `EveryQueuedAnswered` through closes and a restart |
| `queue_server` | `AsyncQueueServer.cfg` | `AckedKept`, `UsedQueuesOpen`, `DequeuedKept` for two clients and two keys |
| `queue_server_disk` | `AsyncQueueServer_disk.cfg` | `NothingFromFailed`, `EveryRequestReturns` when writes fail |
| `pool` | `SocketPool.cfg` | `SocketsInOwnPool`, `PoolReachesCore`, `NoBadPointer`, `IteratorsValid`, `LockedInHands` |
| `pool_live` | `SocketPool_live.cfg` | `CallsReturn` |
| `deque` | `SafeDeque.cfg` | `InBounds`, `NoJunk`, `CapacityBounded`, and that the deque implements `Deque` (`AbstractSpec`) |
| `file_transfer` | `FileTransfer.cfg` | `FrontOwnsReply`, `EndsOnce`, `SuccessIsComplete`, `FailedDownloadUndone`, `NoHalfUpload`, `EveryTransferEnds` for three transfers, one of them odd, with a failed read or write, a cancel and a break |
| `file_upload_fails` | `FileTransfer_overlap.cfg` | violates `FrontOwnsReply`: the finding of section 4 |
| `db` | `DBHandler.cfg` | `BindsOwnParameters`, `RowsComplete`, `OutputsInPlace`, `NoStalePointer` for two threads that share a handler, with an exception, a close and a reconnection |
| `cache` | `MasterCache.cfg` | `CacheCurrent`, `WholeCache`, `CatchesUp` for both kinds of pool, with changes, a break, a failed and a repeated initialisation |

Every module states its `TypeOK`, as documentation of its state; it holds in all of
the passing configurations and is listed where it is more than that: for the
session, where it also bounds the pairs allocated, and the proofs rest on it.

`job`, `handler_random`, `queue_server_disk`, `pool_live`, `file_transfer` and
`cache` use the fair specification, the others the plain one.
`CHECK_DEADLOCK FALSE` is said where a behaviour may end: when the bounds are used
up and every client has left the queue service, every pool is destroyed, every
transfer has ended, every call is answered, or the cache is current.

### Bounds

- `handler`: 2 threads, 2 ids with callbacks and 1 without, 3 calls, 1 close.
  Every race found needs two calls, one of them a victim; the third lets a
  result arrive between them.  Equal and different ids both occur.
  `handler_random` has 2 calls because fairness forbids symmetry.
- `job`: 5 calls, 2 closes, 1 restart: a job of several requests behind requests
  of an earlier one, sent twice.  `Width` is 8, far above the number of calls, so
  that wrapped values stay as distinguishable as with 32 bits.
- `queue_server`: 2 clients, 2 keys, 3 messages, 2 queue objects, 2 joins: a
  transaction of two messages of one client against one message of the other, a
  client that comes back, and a queue made again after it was closed.
  `queue_server_disk`: 1 key and 4 messages, so that both clients can have
  transactions that are written as jobs at the same key.
- `pool`: 2 pool objects, 2 threads, 2 sockets in a pool, 2 core pools, 1 failed
  connection.  `pool_live`: 1 pool object and 1 core pool.
- `file_transfer`: 3 transfers, `m_MaxDownloading` 2, 1 cancel, 1 break.  At most
  one of the first two is odd: a file that ends with a full chunk, an empty one, a
  longer download, one that cannot be opened at one side or locked.  The third is
  a plain download, the victim of what goes wrong before it; or all three are plain
  and the third is an upload, which may fail halfway, by a read of the client or a
  write of the server, when it is alone.  Uploads have three
  chunks, so that chunks are sent ahead and one is still to be sent.
  `file_upload_fails`: an upload and a download.
- `db`: 2 threads, 3 calls, 1 close, 1 exception; a procedure with an input, an
  output and a rowset, and a batch of a procedure that returns a value, a query
  and a procedure; one or two parameter sets, with small values and with values
  of one and two chunks.  `BatchSize` is 3, less than an array, so that an array
  takes several requests.
- `cache`: 2 tables, 2 keys, 1 value, 2 changes, 1 break, 1 repeated and 1 failed
  initialisation; rows with key 1 are sent with a BLOB.  An update that changes
  the key tells old from new rows, so one value is enough.
- `deque`: 3 elements, initial capacity 2, pushes of up to 2, up to 4 elements
  in the deque: the buffer grows, slides both ways and shrinks again.

Symmetry is over threads, request ids, clients, keys and pool objects, which no
definition tells apart (the order in `vPool` is part of the state), and only in runs without
liveness.  `VIEW Live` of the deque hides the cells outside the elements: no
operation reads one before it has written it, so two states with equal views have
the same successors up to the view, and of the hidden cells the properties only
say their type, which every write keeps.

### Fairness

- `AsyncHandler`: a thread inside `SendRequest`, `CommitBatching` or
  `AbortBatching` goes on (its steps wait only for `m_csSend`, whose holder goes on
  too), and the worker thread delivers what arrives.  Nobody has to send, cancel,
  or close, and a lost session need not come back.
- `ClientJob`: the core reconnects and transmits, the server answers, a thread
  inside `SendRequest` goes on.  Closes are finitely many.  That is the core's
  automatic reconnection; an application that never ends its job is allowed.
- `AsyncQueueServer`: weak fairness of the steps of a request under way.  Clients
  need not send anything.
- `FileTransfer`: weak fairness of the worker threads of both sides and of the
  return of a `Discarded` callback.  Reconnections need not come: a close ends
  the transfers.
- `MasterCache`: the core reconnects, the server works off its requests, and the
  thread of the session takes what arrives.
- `SocketPool`: strong fairness of the steps that need `m_cs` of a pool, whose
  holder changes: every waiter of a critical section gets it in the end.  The
  number of failed connections is bounded; no one has to unlock a socket.

## 4. Restrictions on use, and the finding

The passing runs state under which use the code is right; the constants that say
so are `BOOLEAN`.  Set the other way, each shows a behaviour of the code:

| Constant | The passing runs assume | Otherwise |
|---|---|---|
| `Exclusive` | while a thread batches nobody else sends on the session | `SendRequest` reads `IsBatching` before it locks `m_csSend`, and batching never locks it (`aclientw.cpp:250`): a callback is registered in the wrong queue and never found (`CallbackKept`) |
| `PatientReconnect` of `AsyncHandler` | a session is not closed and reconnected in the middle of one `SendRequest` | the close discards the pair, the new connection takes the request, and its answer goes to a later request of the same id |
| `QuietCancel` | nobody sends between `Cancel` and its answer | the answer discards the callbacks of the later requests too; the server answers them, and the answers go to other requests (`OwnResult`) |
| `Random` | `OwnResult` is checked for services that answer in order | a service that answers out of order finds a callback by the id of the result alone (`aclientw.cpp:414`): results of two requests with one id are swapped |
| `PendingAtStart` | no callback is waiting at `StartJob`, so that `m_nQIndex` is 0 | `AbortJob` takes the callbacks behind the first `m_nQIndex`, which is out of date when results have arrived since, and its loop runs `total - m_nQIndex` as an index, not as a number (`aclientw.cpp:308`; the C# adapter loops up to the total, `asynchandler.cs:1167`): callbacks of the job are kept or lost (`InStep` fails; so does `AbortTellsJob`, which `ClientJob` states and no run checks) |
| `NestedStart`, `SharedSending` | one thread uses jobs and requests, and jobs are not nested | `m_nQIndex` is overwritten, or `AbortJob` discards the callback of a request that the core then takes |
| `SendToLeftovers` | after a restart the old file is sent before new requests | results of the old requests go to callbacks of new ones |
| `SoloCreate` | a queue is not opened by two clients at once | finding and registering a queue are two critical sections (`asyncqueueimpl.cpp:268`): two objects for one queue, and `Close` of one stops the other (`UsedQueuesOpen`) |
| `OneKeyTrans` | a transaction has messages for its own key | the message goes to the queue of the transaction, whatever its key (`AckedKept`) |
| `DiskFails` | (both) | with write failures `AckedKept` fails: a transaction of one message is enqueued without `m_cs`, joins the open job of another client and is acknowledged, and is lost when that job is aborted |
| `OneIdle` | a pool is started while all other pool objects run | `speStarted` is given to the last idle pool object (`aclientw.h:1925`): the sockets go to another object (`SocketsInOwnPool`) |
| `Serial` | one thread at a time starts or shuts down pools | `ShutdownPool` overwrites the id of a pool just restarted; two starts of one pool end in a null pointer |
| `CalmStart` | a pool is not started again while another start of it has yet to take its sockets for the loop that connects them | with three sockets or more: a thread delayed before its loop takes the number of sockets of a pool that is being created again, the rest are created and one is killed, so that id and number match when it locks again (`aclientw.h:1839`), and it goes on with an erased iterator (`IteratorsValid`) |
| `RacyCancel` | `Cancel` and the worker do not overlap at the callbacks that each of them runs unlocked (`streamingfile.h:168` and `:364`) | each then pops whatever transfer is last, or first, or pops an empty queue: a transfer is told twice, another one never (`FrontOwnsReply`, `SuccessIsComplete` and `EndsOnce` fail, and `NoneForgotten`, which no run checks) |
| `Overlap` | an upload fails halfway, by a read of the client or a write of the server, only when no other transfer waits | the finding below: `FrontOwnsReply` and `SuccessIsComplete` fail, and `UploadFindsNoneOpen`, which no run checks |
| `MidCall` | a session is not closed between the outputs of a call and its result | `Clean` keeps `m_indexProc` (`udb_client.h:1731`), so that the outputs of the next call are written behind the end of its array (`OutputsInPlace`); the Java, Python and C# adapters reset it |
| `PatientReconnect` of `DBHandler` | a session is not reconnected in the middle of one `Execute` | the parameter data go to one connection and the statement to the next (`BindsOwnParameters`) |
| `QuietSnapshot` | nothing changes between the reading of the first table and the result | the event is applied to the old `Cache` and swapped away (`CacheCurrent`) |
| `FreshReinit` | `CMasterPool` is asked to initialise again only while `m_cache` is empty and nothing is under way | it never empties `m_cache`, which the last `Swap` filled (`masterpool.h:48`): every table is there twice (`WholeCache`) |

Some restrictions are in the data of the runs or in the statement of a property:

- `FailedDownloadUndone` is not about a failed download that was appended to an
  existing file: `InitSize` is taken from the position
  after `open`, 0 with `O_APPEND` (`streamingfile.h:867`), so that undoing it cuts
  the file to nothing.
- `UploadFindsNoneOpen` is stated and not checked, since the code does not have it.
  An upload whose file cannot be locked at the server (`sfileimpl.cpp:378`), or that
  fails halfway, leaves the file open when the client moves on (the plans of the run
  have the second, not the first), and the next upload
  finds it open where the code asserts that none is (`assert(m_of == -1)`,
  `sfileimpl.cpp:294`).  A release build calls `CleanOF` there (`sfileimpl.cpp:296`),
  which undoes the old upload: `NoHalfUpload` holds with these failures too.
- `EndsOnce` allows `Discarded` to be repeated: a close runs it for every context and
  for each of its requests that was not answered (`streamingfile.h:124`,
  `aclientw.cpp:398`), also after the failure of a transfer with answers under way.
  What it does not allow is a second success or failure, or one after `Discarded`.
- With `m_MaxDownloading` 2, a download, an upload whose local file cannot be
  locked, and a download: the last one is never started, unless another call
  asks for it (`EveryTransferEnds`).  The plans have no upload that cannot lock.
- `NoHalfUpload` excepts uploads of which a write failed at the server (`hurt`):
  `UploadCompleted` keeps what was written.  Reads and sends that fail at the client
  are not excepted.
- An interrupt by `Cancel` only changes the result of a download at the server,
  which still sends the whole file; a close leaves the local file of an
  unfinished download behind.  Neither is excluded by a property.
- The prepared procedure of `db` returns no value: one that does is shifted by
  the high half of `m_nParamPos` that an earlier batch left (`udb_client.h:1482`).
- `Open` and `Prepare` do not take `m_csOneSending`: nobody prepares in the middle of
  an `Execute` of another thread.
- After a server exception the entries of the call stay in the maps
  (`NoStalePointer` allows it).
- A failed initialisation leaves the cache as it was until the next one; the
  properties of `MasterCache` except it by `failed`.

The finding, with the line it contradicts, is in `PROJECT.json`:
`include/streamingfile.h:557`.  After a read of its file fails at the client, or the
server fails to write a chunk (`:663`), the client removes the upload and goes on to
the next transfer, while the answers to chunks that were sent, or to
`idUploadCompleted`, are under way; they are taken for the next transfer, which is
then reported as failed, or as a success before its file is there.  The handler
asserts that an answer to a chunk meets an upload.

## 5. Proofs

TLAPS proves, for all values of the constants that satisfy the modules'
`ConstantsAssumption`:

**`AsyncHandlerProofs`.** `TypeCorrect` (`Spec => []TypeOK`) and
`PairsInOnePlace` (`Spec => []OnePlace`), for any set of threads and ids, any
number of calls and closes, and any use of the session: neither `Exclusive` nor
the other restrictions are needed, so a callback that is lost without them never
becomes a pair that is recycled twice.  The inductive invariant is
`TypeOK /\ OnePlace`.  `OnePlace` alone is not inductive: `TypeOK` bounds the pairs
allocated by the calls made, and `Allocated` in it makes a newly allocated pair
different from every pair in use.  Each action moves pairs from one place to
another; the lemmas say what removing, appending and concatenating do to the
range and the injectivity of a sequence, and each action has a step for each
part of `OnePlace` that it can disturb.

`CallbacksKept` (`CallbackKept`), `ResultsReachOwners` (`OwnResult`) and
`FiresAtMostOnce` (`FiresOnce`: of a call that has ended exactly one callback has
run, of any other none) assume `ProperUse`: a service that answers in order, with
`Exclusive`, `PatientReconnect` and `QuietCancel`.  Section 4 says what happens without each
of the three.  The inductive invariant `SessionInv` says where the pair of every
request is at every moment: `ContentsFit` and `CallsKept`, that a pair that is
queued or in hand holds a call of its own that has not been told anything, and
that a call not told anything has such a pair; `CleanFits`, `HandsFit`,
`BatchFits`, what the worker thread has swapped out, threads hold and a batch
has collected; `CoreFits`, what the core holds.  The two parts that carry the
argument are about the connection: `UpFits`, that while it is up the pairs of
`m_vCallback` are in the order of the requests with callbacks that are still to
be answered, so that the front pair is the one the next answer is for; and
`DownFits`, that while it is down the queues have no pairs but those of calls that
are about to fail and to take them out again.
`OwnResult` needs the first of these, since only the position pairs an answer
with its callback.  For `FiresOnce` the pairs that a close or a cancel takes out
have to be of different calls that no callback was run for.

**`ClientJobProofs`.** `TypeCorrect`, for any use: no handler takes the head of
an empty queue.  `CallbacksInStep` (`InStep`) and `ResultsReachOwners` (`OwnResult`)
assume `ProperUse`, the four restrictions of section 4 on jobs.  The inductive invariant `JobInv` has two modes: `Current`, in
which the callbacks are those of the file's requests in order, the job's after
them, and `Leftover`, after a restart, in which the file has requests without
callbacks and nothing was sent since.  `JobAlone` is what `PendingAtStart` buys:
the index taken at `StartJob` is 0 during a job, and the callbacks in the
queue are all of the job's own requests, so that `EraseBack` takes exactly those.

**`AsyncQueueServerProofs`.** `TypeCorrect`; and `DequeuedStays` (`DequeuedKept`),
for any use, concurrent opening of queues and write failures included.  Its
invariant adds `Apart`, that no two consumers are sent the same message, without
which the confirmation by one takes away what the other is being sent.
`QueuesStayOpen` (`UsedQueuesOpen`) assumes `SoloCreate`; `OpenInv` adds `Pointers`
and `Registered`: every object in use is the one in the map for its key, or
belongs to the one client that is opening the key.  So an object that the map
and a transaction share has a `use_count` of at least two, and `Close` does
not stop it.  `FailedLeavesNothing` (`NothingFromFailed`), under `SoloCreate` and
with failing writes, needs to know whose job a job of the core is: `JobsOwned`
says that one client commits to the queue and that the job has nothing but its
messages and reported ones.  `ReportedKept` (`AckedKept`) assumes `SoloCreate`,
`OneKeyTrans` and no write failures, as the run does, and adds `KeysKept`: messages
in requests, transactions and filled jobs are those of the key they go to.

**`SocketPoolProofs`.** For any number of pool objects, threads, core pools and
sockets.  `TypeCorrect`, for any use.  `LocksInHands` (`LockedInHands`), under `Serial` and
`OneIdle`, from `LockInv`: a locked socket is in the hands of one thread although
the pool changes between the lock and the lookup.  `IteratorsStayValid`
(`IteratorsValid`) assumes `CalmStart` too.  Both rest on `OwnInv`, which says
for each thread that manages a pool how far the pool object and the core pool are
(`Knows`), and on `SocketInv`, by which a map is exactly the living sockets of the
core pool whose id the object has.  That the guess of `speStarted` finds the right
object (`SocketsInOwnPool`, `PoolReachesCore`, `NoBadPointer`) follows too, but is
no theorem here: `OneIdle` leaves it a single object to guess.  `LoopInv` says that the sockets a loop
began with are all of those of a core pool, which since then can only be killed:
equal numbers then mean equal sets.  The proof attempt without `CalmStart` failed at
this point, and TLC shows the behaviour of section 4 with `Size = 3`; with the two
sockets of the run a half-created pool has one, and the numbers cannot match
again with an erased socket in the rest of the loop.

**`SafeDequeProofs`.** For every element set, initial capacity, push size and
bound: `TypeCorrect`; `ElementsInBounds` (the elements lie in the buffer, so that
no copy leaves it and no unsigned difference wraps); `ElementsWritten` (no element
is an uninitialised cell); `BufferBounded` (the buffer is the initial one or at
most four times the most elements); and `ImplementsDeque`
(`Spec => AbstractSpec`), the refinement.  The inductive invariant is
`TypeOK /\ InBounds /\ NoJunk /\ CapacityBounded`.  The lemmas `PushedBack` and
`PushedFront` describe the contents after a push from the layout of the new
buffer, whichever of the three alternatives made it; `JoinedCells`, `FirstCells`
and `LastCells` relate cells to sequences.  The bound on the capacity holds since
a push only grows the buffer when the elements after the push need more than
about half of it, and the new size is at most twice what is needed then.  The
refinement follows action by action: the initial states agree, and each operation
is a push, pop or truncation of the sequence, or leaves it alone.

**`DBHandlerProofs`.** For any number of threads, statements, calls and closes,
any parameter arrays and any batch size.  `NoStalePointerHolds`
(`NoStalePointer`), for any use; its inductive invariant `Known` adds to the types
and to `Pointers` (one sender at a time, whose call has not ended; every entry of
`m_mapParameterCall` belongs to a call that has not ended) that nothing is under
way on a session that is not open (`Emptied`), and that on an open session as many
calls wait as requests and last answers are under way (`Counted`), so that
`OnResult` always finds the call its answer is for.  `BindsOwnParametersHolds`
(`BindsOwnParameters`) assumes `PatientReconnect`.  Its argument is an induction
over data: the lemma `ParametersData` says that what `SendParametersData`
returns, whatever the sizes of the parameters and of the batch, makes the
server bind the whole array in order, BLOBs included, and the invariant `Bound`
that the requests under way, and those that the one sender has left, lead to the
array of the call they precede.  The prover has no induction rule, so `NoneBad`
derives one from the library's facts on finite sets: a set of counterexamples
among `1 .. n` that is closed under predecessors is empty, since taking the
predecessor would be an injection of a finite set into itself that is not
surjective.  `Recursion` derives from it that recursive definitions have a
solution, as `Sum`, the loop of `SendParametersData` and `FlattenSeq` need.
`RowsCompleteHolds` (`RowsComplete`) assumes `PatientReconnect` too, without which
`CleanMaps` can clear the entry of a call whose request then goes out on the new
session.  `Rowed` is what one answer does to the state of `OnResultReturned`
(`m_indexRowset`, `m_vData`, `m_Blob`, what the callbacks have received), and
`Path` says that a sequence of answers leads from one such state to another, each
answer in turn: rows end with the header of their own call as the last one, and a
result comes when its call has received all it was to receive.  The lemma
`AnswersDeliver` composes this from a rowset (`RowsetDelivers`) over parameter sets,
statements and the call, whatever was received before.  The inductive invariant
`Rowing` adds to `Known` that the answers under way are in turn (`RowsLead`), that a
call the server has not answered has received nothing, that requests are for
different calls (`Distinct`), and that a call under way has its entry in
`m_mapRowset` (`Entered`).  TLC has checked `Rowing` on the constants of the run `db`
before it was proved.

**`MasterCacheProofs`.** For any tables, rows, sizes of rows and any number of
changes, breaks, failures and repeated initialisations.  `WholeCacheHolds`
(`WholeCache`) assumes `FreshReinit`; `CacheCurrentHolds` (`CacheCurrent`) assumes
`QuietSnapshot` as well.  Both follow from one inductive invariant, `IInv`.  It
treats the messages on the way as a program that the client will run: `Step` is
what one message does to the client, and `Leads(b, q, e)` says that the messages
`q` take it from `b` to `e` and that every result among them finds all the tables
in `m_cache`.  A step of the client removes a message and keeps `e`
(`ClientStep`, `LeadsTail`); a step of the server appends messages and moves `e`.
So `IInv` speaks of `e`: there `m_cache` holds the tables that the server has
read of the snapshot under way, and is empty when the next one starts
(`CollectsTables`), and the cache, or the part of a snapshot, is the database
unless a request to initialise again is still on the way (`Fresh`).  It adds the
order of the requests (`Alternate`: every `Open` has its `Execute` behind it).
The lemmas about data are `RowsLead` (the cells and BLOBs that `SendRows` sends
make the handler put the same rows together, by induction over the rows),
`MatchesTable` (the rows that a table is sent as are its rows, each once, in
whatever order) and `InsertMirrors`, `UpdateMirrors` and `DeleteMirrors` (an event
does to the cached rows what the change did to the table).

The hypotheses of a theorem are those restrictions, or fewer, under which the run of
the same property passes, so no theorem is about behaviours that no run has.

**Only model-checked.** All liveness properties (`EverySentSettles`,
`EveryQueuedAnswered`, `EveryRequestReturns`, `CallsReturn`, `EveryTransferEnds`,
`CatchesUp`), which are beyond the prover; and so far the properties of file
streaming, whose invariant has to relate the callbacks that run unlocked and the
requests and results under way; `SocketsInOwnPool`, `PoolReachesCore` and
`NoBadPointer` of `SocketPool`; and `OutputsInPlace` of `DBHandler`, which needs the
place of an output in the parameter array, a division by sums over the statements of
a batch, along the answers under way.

## 6. Not modelled

- Of the session: `Attach`/`Detach`, the future and coroutine wrappers,
  `WaitAll`, credentials, and getters.
- Of the client queue: opening, appending and merging queues, time to live.
- Of the pool: the merge events, and `Seek`/`SeekByQueue`, which read the sockets
  and pick one.
- Of the deque: construction from an array, copy, move, swap and pushes from
  another deque, which nothing in the repository calls.
- Of the queue service: `Flush` and `GetKeys`, which change nothing, and the
  spelling of keys (`Pretreat`): the model's keys are treated ones.
- Of file streaming: client message queues (`idUploadBackup`), `OnMergeTo`, the
  Windows branch, the socket's own `Cancel` (`idCancel`) on a session of this service,
  the future and coroutine wrappers.
- Of the database handler: client message queues and the jobs around calls,
  cancel, `OnMergeTo`, and the state that only getters read.  `Clean` is one step,
  although one of its callers does not lock `m_csDB`: a data race on a map.
- Of the cache: the queries of `CTable` and `CDataSet`, slave pools, readers, the
  publishing of a middle tier, and conversions of values.
- `CAsyncQueue`, server peers and services, replication and merging: what they add
  to the modelled parts is in the order of events of the closed cores.  What the
  open code says of that order is not enough for a faithful model; the hazards are
  listed with notes.
- The language adapters, the database plugins and the cores themselves.

## 7. Plan

Done in this order: `AsyncHandler` (the core of every client), its proofs,
`ClientJob`, `AsyncQueueServer`, `SocketPool`, `SafeDeque` with `Deque` and its
proofs; `FileTransfer` and its parts, `DBHandler`, `MasterCache`.

The proofs: `AsyncHandler`, `SafeDeque`, `ClientJob`, `AsyncQueueServer`, `SocketPool`,
`DBHandler` (parameters, rows, pointers), `MasterCache`.

Next: `NoHalfUpload` of `FileTransfer` for any use, since it needs only the requests
and the server's file, then `FrontOwnsReply` where uploads do not fail halfway;
`OutputsInPlace` of `DBHandler`, with `Path` of `DBHandlerProofs`.
