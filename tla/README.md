# KubOS: specification, model checking and proofs

This directory specifies, in TLA+, the parts of KubOS whose correctness depends
on the order in which things happen: the telemetry service of KubOS Linux and its
clients, the telemetry of KubOS RT, the command daemon and its clients, the
rotating log that telemetry storage and the command daemon write to, the queues of
libcsp on Linux, the interrupt driven UART, and evented control with the power
manager. TLC checks the specifications on small instances; TLAPS proves the most
important safety properties, and that the queue implements a bounded channel, for
every value of the constants.

KubOS is a monorepo. About 15 000 lines of it are KubOS' own logic; the rest is
vendored (FreeRTOS, CMSIS, STM32Cube, tinycbor, CMocka, Unity, FatFs, ccan, most
of libcsp), examples, targets, documentation and Python tooling, and is not
specified.

## 1. The system

| Component | State it keeps | Operations | Talks to |
|---|---|---|---|
| Socket IPC, `ipc/source/socket.c` | a descriptor and a flag per connection | connect, accept, send, recv, close over `SOCK_SEQPACKET`/SCTP | kernel |
| Telemetry server, `telemetry-linux/source/server.c`, `linux-telemetry-service/source/main.c` | the global list of subscribers, a topic list and an active flag per subscriber, `running` | accept, (un)subscribe, publish, disconnect, shutdown | one thread per client, Socket IPC |
| Telemetry client, `telemetry-linux/source/client.c` | the connection | connect, subscribe, unsubscribe, read, publish, disconnect | Socket IPC |
| Telemetry messages, `msg_utils.c` | none | CBOR encoding | tinycbor |
| Supervisor publisher, telemetry aggregator | none | publish periodically | telemetry client |
| Telemetry storage, `telemetry-storage` | one connection | read a packet, append it to a log per topic | telemetry client, klog |
| klog, `kubos-core/source/modules/klog` | open file, part number, cached part size; files on disk | init, log, cleanup, rotation | file system |
| Telemetry on KubOS RT, `telemetry-rt` | subscriber list, two locks, packet queue | the same calls, inside one process | CSP connections |
| CSP publish/subscribe, `ipc/source/pubsub.c`, `csp.c` | none | connect, accept, read, send | libcsp |
| Command daemon and client, `cmd-control-daemon`, `cmd-control-client` | one command at a time; CSP buffers, connections and queues | send command, run it with `popen`, send the answer | CSP over two FIFOs, klog |
| Core commands, `commands` | none | ping, info, build info, ... | daemon |
| Evented control, `evented-control`, power manager | handler list per context | listen, handle, call, loop | D-Bus |
| HAL I2C, SPI, UART, `hal/kubos-hal*` | a bus record with a lock; UART receive queue | init, terminate, read, write | drivers, interrupts |
| iOBC supervisor, `hal/kubos-hal-iobc` | none | SPI exchange with a checksum | SPI |
| POSIX queues, `libcsp/source/arch/posix` | ring buffer, mutex, two conditions | enqueue, dequeue with timeout | every CSP user on Linux |
| k_buffer, AX.25, APRS, GPS, NMEA, sensors | buffers; a slot counter for GPS fixes | push data, build frames, parse | UART callback |

How they interact: applications link the telemetry client and reach the server
through sockets. Inside the server `main` waits for SIGTERM, `main_thread`
accepts, and one `client_handler` per connection receives messages and, for a
packet, walks the list of all subscribers and sends to each that has the topic.
**No lock guards the list, the topic lists or the flags.** Telemetry storage is
one such application and writes each packet to a klog; the command daemon logs
to a klog too.

What is hard: the list is appended to, walked and taken apart by different
threads; a subscriber can be slow, leave or die at any point of a publish;
`telemetry_publish` closes its connection at once, often before it is accepted;
shutdown cancels threads; the command daemon's main, its FIFO reader and libcsp's
router hand the same buffers and connections to each other, over a FIFO that does
not keep frames apart; a log must survive a crash between any two file
operations; on KubOS RT the list is under two locks that do not exclude each
other; a byte is pushed while the interrupt handler finds the queue empty; a call
over D-Bus times out although it was carried out. `PROJECT.json` lists each such hazard at the line where it bites,
with the property that covers it, or a note why none does.

What makes each part correct:

- *server and client*: a packet reaches everyone who stays subscribed and
  connected, and nobody twice, however the list changes (with one exception, section
  3); a publish ends, slow readers or not; a disconnect ends its handler; shutdown
  frees a subscriber only after its thread has ended, and ends itself.
- *klog*: the size of a part is bounded; parts hold disjoint, ordered runs of
  records; a rotation gives up the oldest; the last two until a file operation fails.
- *RT telemetry*: a subscriber that disconnects is the one removed; connections
  are not leaked; who is connected is in the list with a pair of connections of
  its own; packets are read in order. The code keeps this up only while its calls
  do not meet in ways no lock prevents (section 3).
- *command daemon*: each command runs once at most; buffers and connections return
  to their pools exactly once; an answer is of the command it says, and gets to the
  client that asked, unless clients overlap; what was queued is served, and a client
  ends.
- *evented control*: a call that is reported as successful was carried out, none is
  carried out twice, signals are delivered in order and once.
- *UART*: no byte stays in the queue with the interrupt off; order is kept; a write
  returns; *other HAL buses*: a transfer happens on an initialised, locked bus only.
- *queues*: bounded, first in first out, no lost wake-up, timeouts not early.

## 2. Modules

| Module | Models | Notes |
|---|---|---|
| `IpcSocket` | `socket.c` and the kernel's side of a connection | extended by the server |
| `TelemetryServer` | `server.c`, `main.c` | threads `main`, accept thread, handlers |
| `TelemetrySystem` | `client.c` composed with the server; the properties; the inductive invariant | |
| `MCTelemetrySystem` | model values for TLC | |
| `TelemetrySafetyProofs`, `TelemetryDeliveryProofs` | proofs about `TelemetrySystem` | |
| `CspNode` | libcsp in the command daemon: buffers, `fifo_rx`, router, connections, listening socket | extended by the daemon |
| `CncDaemon` | `cmd-control-daemon`: `main` and what it calls | extended by the system |
| `CncSystem` | `cmd-control-client` composed with the daemon; the properties | |
| `MCCncSystem`, `CncProofs` | the commands TLC uses; proofs about `CncSystem` | |
| `Klog`, `MCKlog`, `KlogProofs` | `klog.c`, its instance, its proofs | |
| `BoundedChannel` | what a queue promises: a bounded channel whose calls each take effect at one instant | abstract |
| `PosixQueue`, `MCPosixQueue`, `PosixQueueProofs` | `pthread_queue.c` and `csp_queue.c`, their instance, and the refinement | implements `BoundedChannel` |
| `TelemetryRT`, `MCTelemetryRT`, `TelemetryRTProofs` | `telemetry-rt/source/telemetry.c`, `pubsub.c` and the part of libcsp they use | |
| `HalUart`, `MCHalUart`, `HalUartProofs` | `kubos-hal/source/uart.c`, the STM32F4 driver and the device | |
| `EventedControl`, `MCEventedControl`, `EventedControlProofs` | `ecp.c`, its power manager messages, `power-manager`, a client | the bus is external |

### IpcSocket

`cl[c]` is the client's end of connection `c`, `srv[c]` the server's (`queued`
in the accept queue of size `Backlog`, `fd` accepted, `closed`, or `leaked` when
a descriptor is held by nobody that will close it). `toSrv[c]` and `toCl[c]` are
the two channels; the socket preserves message boundaries, so a channel is a
sequence of messages. `toCl` is kept whole, with `rd[c]` the number read, so that
properties can speak of what was ever sent; `ChanCap` bounds what is unread, and a
`send()` on a full channel blocks. `send()` fails exactly when the peer is gone.
`recv()` at the end of a connection yields 0 bytes and *success*
(`socket.c:137`). `kprv_socket_close` skips `close()` when `shutdown()` fails.
`BacklogDrop` is the kernel giving up a connection whose client closed before
`accept()`.

### TelemetryServer

A step is what a thread does between two points at which another thread can see
or change the shared lists. Items are linked at the tail only, and unlinked at
the head only, by `main` during shutdown; so the linked list is represented by
`subs` (every item ever linked, in order) and `gone` (how many were unlinked),
and a pointer to an item is its position in `subs`. This representation is exact
while only `main` unlinks; that handlers never get to unlink is itself a fact of the code: a handler that
calls `kprv_subscriber_destroy` cancels and joins its own thread in the first
statement (`server.c:75`) and ends there (`HandlerDestroy`). `pthread_join` is a
cancellation point, so a thread with a pending cancellation that joins itself is
gone whichever error the library reports.

- `AcceptClient`: accept, `kprv_subscriber_init`, `csp_thread_create`. The thread
  runs before the item is linked; `csp_thread_create` has stored the handle by
  then, because glibc stores it before it starts the thread. Its result is ignored
  (`main.c:52`): the subscriber is linked also when no thread was created
  (`hpc[c] = "failed"`), and at the shutdown `KillNobody` is what the C library may
  make of the handle 0.
- `SubscriberAddFind`, `SubscriberAddLink`: the two halves of `LL_APPEND`. A tail
  freed in between makes the new item unreachable.
- `HandleSubscribe`, `HandleUnsubscribe`: a topic list is a bag; `torn[h]` records
  at which items of the list a node was freed under a search of handler `h`, after
  which that search may end either way (or crash: `UseAfterFree`).
- `HandlePacket`, `PublishSearch`, `PublishSend`: the publish loop.
  `LL_FOREACH_SAFE` reads `next` when it arrives at an item, so `cur` and `nxt`
  are two variables; what is appended after `next` was read as NULL is missed,
  legitimately, as it was not in the list when the publish started.
- `owed[h]` is a history variable: the subscribers that were linked, subscribed and
  connected when `h` started to publish, less those that since closed, gave up the
  topic of the packet or were removed by shutdown. Who drops another item of its
  list stays in it. Nothing in the code depends on it.
- `MainKillAcceptThread`: `main.c:82` passes `&thread_handle` to
  `csp_thread_kill`, which takes it for the handle. The model allows what the C
  library may make of it: no such thread, waiting for ever, or a fault. The accept
  thread is not cancelled in any of them.
- `DeleteNext`, `DestroyClose`, `DestroyFree`: `kprv_delete_all_subscribers` and
  `kprv_subscriber_destroy` called from it. The cancelled handler ends at its next
  `recv()` or `send()`.

### TelemetrySystem

A connection of `Subscribers` belongs to `telemetry_connect`, one of `Publishers`
to one call of `telemetry_publish`, which connects, sends one packet, sends a
disconnect and closes. Applications in `Mortal` may die at any point. A
connection has one user: two threads using one `socket_conn` are not modelled.

### Klog

One handle, used by one thread, over the parts `.000` to `.<MaxParts>` (the code
uses one more than `max_parts`, see `PartCountLimit`). A step is what a crash can
separate: each `fopen`, `remove`, `fclose` and write. `size` and `recs` are what
is on disk, `pos` and `buf` what stdio holds; `fsync()` at `klog.c:176` is not
preceded by `fflush()`, so it saves nothing of the buffer. `current_part` is 8
bits and starts at -1. A part of a single byte is reopened at position 0, because
the seek to its end is done only when `size - 1 > 0` (`klog.c:69`, `:90`).
Any `stat`, `fopen` or `remove` may fail; a `stat` that fails for another reason than
a missing file passes over its part (`PassedOver`, `klog.c:62`). With `Crashes` the
process may be killed before any step and an arbitrary prefix of the buffer
reaches the file. `Drop` is a caller such as `telemetry_store`, which makes a new
handle for every packet. `crashed` and `failed` are history variables: the
process was killed once, a file operation has failed once.

### CspNode

A step is what one of the three threads of the daemon does between two points at
which another can see or change what they share. `up` is the FIFO from the
clients, in cells: `Frame` writes one frame at once, `RxRead` takes up to
`ReadSize` cells of whatever is there. Only the first frame of a read is seen
(`csp_new_packet` takes one packet from one buffer), and what is left of a frame
that was cut becomes a packet of its own. `mem[b]` is what buffer `b` holds, or last
held, as nobody clears a buffer. A rest of some length replaces it with `Noise`, whose
header is text; it is mostly of another address, but `RouteTake` also allows that it
matches. A rest that is shorter than the length and id of a packet leaves the request
the buffer held before where it was, and overwrites at most its port (`ReadsAgain`,
one cell); `again` is the history of the clients whose request came up so. What main
copies and routes is `mem` at that moment.
`pool.free` is the queue of free buffers with `pool.ref` their reference counts;
`csp_buffer_free` of a free buffer is refused, of one that was given out again in
the meantime it is not. `rx`, `route` are the two threads: `fifo_rx` and
`csp_route_work`, whose three steps find the connection, put the packet in its
queue, and put the connection in the socket's queue; between them `main` may close
the connection. `conn[s].post` says whether the connection still has to be put
there (`conn->socket`): `never` for one opened by `main`, or before `csp_listen`.

### CncDaemon

`main` is the program counter of the daemon's loop; `request` is `data_wrapper`,
which keeps the last request when `csp_read` finds no packet (`main.c:247`); `err`
is `wrapper.err`. `Response` is the choice of `cnc_daemon_send_result` with the
8-bit `return_code` of `pclose`. `Encodable`: tinycbor refuses the simple values 25
to 31, and the buffer is MTU long; what cannot be encoded is not sent.
`CommandNotStarted` stands for a failing `popen` and for `assemble_cmd_string`,
which returns nothing on success, so that either branch may be taken; the same is
so of the client's `cnc_client_encode_packet` (`ClientGivesUp`). `Send` frees the
buffer in `csp_fifo_tx`, `Release` frees it again (`main.c:201`); `twice` is the
history of the buffers that somebody else had got in between.

### CncSystem

A member of `Clients` is one run of the `c2` program: start, send, listen, show or
time out. All runs have one CSP address and read from one FIFO, `down`; each has a
thread that reads it (`ClientReads`) and a router that drops what comes before
`csp_listen`. `crossed` is a history variable: it records that two clients
overlapped, or that one left while its command or the answer to it was on its
way. `asked`, `shown` and `runs` keep what the properties compare.

Left out: the client's own pool, of whose 10 buffers a run uses a few; a request
longer than the daemon's 75-byte buffer, which overruns it; arguments but their
number of cells; a FIFO that is full; a restart of the daemon; codes 20 to 23, which
the client's parser takes for another CBOR type.

### PosixQueue and BoundedChannel

What `pthread_queue_enqueue` does between lock and unlock is one action, for
nothing else looks at the queue; `pthread_cond_timedwait` gives the mutex up, so
going to sleep, the wake-up, the timeout and the broadcast after the unlock are
actions of their own. `Deadline` is the arithmetic of `pthread_queue.c:86-94` with
`Second` ticks to a second. A thread may wake up for no reason, and one whose wait
has timed out answers FULL or EMPTY without looking again. `due` is a history
variable, the instant at which the timeout really ends. `BoundedChannel` has the
content of the channel and what each call has promised so far; the refinement maps
the ring, from `out` for `items` slots, to the content, and a call that has copied
its value to one that has taken effect. `pthread_queue_items` only reads;
`pthread_queue_delete` leaves it to its callers that no one uses the queue.

### TelemetryRT

`telemetry_connect` makes both ends of a loopback connection and the item that
holds them; `telemetry_rx_task` sends each packet along the list. `conn` is the
table of libcsp's connections, `net` its router's queue, `accepts` the queue of the
listening socket; ports are given round robin and skip those in use; which free
entry `csp_conn_allocate` finds is left open. `LL_APPEND`, `LL_DELETE` and the scan
of `telemetry_disconnect` are cut where another task can see the list. `lock` holds
`subscribing_lock` and `unsubscribing_lock`. `leaked` is a history variable: the
connections that `kprv_telemetry_connect` forgets, when its first byte finds no
buffer, when that byte cannot be read at the other end, or when `malloc` has no memory
for the item; in the last case the code returns the address of `client_conn` in an
item at NULL (`telemetry.c:302`), with which the application can do nothing more
(`AcceptFails`, `"lost"`). `live` are the items given by `malloc` and not freed; a
freed item keeps what it held until it is given again, which is what `telemetry_send`
reads if it was at it.

Nothing in the code keeps certain calls apart, and the specification lets them meet:
a connect beside a disconnect (`"append"`), a disconnect beside a send (`"send"`), an
accept that gives up while its hello is still on its way (`"late"`). The history
variable `strayed` records which of these has happened, and each property says up to
which of them it is claimed. `quit` records what had been published when an
application gave up its last topic. `telemetry_cleanup` runs while no application is
in a call. Left out: a second `telemetry_init`, a publish after the cleanup, the lists
of topics as lists: a search of one is one step.

### HalUart

Tasks and interrupt share one processor, so the handler is one step. `tx_queue` and
`rx_queue` are the CSP queues, `txdr`, `shift`, `rxdr`, `err` and `txeie` the
registers. `k_uart_write` is a push, which waits while the queue is full, and the
setting of TXEIE, byte by byte; `k_uart_write_immediate` writes the register without
looking and then waits for TXE. An error flag is cleared by a read of the data
register, which throws away the byte it holds. The output is wired to the input, as
in the driver's tests; a byte may be damaged or lost (`Noise`). `k_uart_terminate`
drops the queues, and the registers keep what they hold or not: nothing clears
them. It is called only when no task is in a call: the calls look at a queue pointer
once. Left out: `k_uart_rx_queue_push`, the console, the MSP430 driver, pins and
clocks, a `HAL_UART_Init` that fails.

### EventedControl

Every process is one thread in `ecp_loop` or in a call. `out`, `in` and `queue` are
what a process has sent and the bus not yet taken, what the bus has given it, and
what libdbus has read and not yet dispatched: a message is read in one round of the
loop and dispatched in another. `enable_line_handler` (`power-manager/main.c:71`)
has no return statement, so whether its caller answers is open. A call that is
waiting picks its answer out of all that has arrived and leaves the rest in its
order; one that times out is tried again, up to `Calls` times, as the tests of
`evented-control` do. A name that is taken is queued for, and passed on when its
owner leaves; `names` is that queue, `expected` the calls the bus owes an answer.
`runs`, `ok` and `heard` are history variables. Processes end after `ecp_destroy`,
which leaves the D-Bus filter pointing at freed handlers (`ecp.c:121`). Left out: a
bus that goes away, memory that runs out, contexts with several handlers.

## 3. Runs

| Run | Instance | Shows |
|---|---|---|
| `telemetry_two_subscribers` | 2 subscribers, 1 publisher, 1 topic | `TypeOK`, `AtMostOnce`, `NobodyMissed` |
| `telemetry_service` | 1 subscriber that may die, with a full channel, 1 publisher that has left and 1 to come; `calloc` and `csp_thread_create` failures, SIGTERM at any time, fairness | `NoHandlerOnFreedSubscriber`, `EventuallyDelivered`, `DisconnectEndsHandler`, `BacklogServed`, `ShutdownEnds` |
| `klog` | `max_parts` 2, 10 records of 2 or 3 in parts of 4, crashes and I/O failures | `TypeOK`, `FileBounded`, `PartsOrdered`, `OldestGoes` |
| `cnc_commands` | 2 clients, 3 commands, 2 connections, 2 buffers, 2 ports | `TypeOK`, `BufferHasOneOwner`, `NoConnLost`, `EachRunOnce`, `RightKind`, `OwnAnswer` |
| `cnc_progress` | 2 clients, 2 commands, 1 connection, 2 buffers, 1 port, fairness | `QueueDrains`, `ClientReturns` |
| `posix_queue` | 2 producers, 1 consumer, 2 slots, timeouts around a second of 3 ticks, fairness | `NoLostWakeup`, `TimeoutWaitedOut`, `ImplementsChannel`, `CallsReturn` |
| `telemetry_rt` | 2 applications, 4 connections, 3 ports, 2 buffers, 2 items, 2 packets | `TypeOK`, `SubscriberOwnsPair`, `ConnectionsAccounted`, `ReadsInOrder`, `DisconnectRemovesOwn` |
| `hal_uart` | 2 writers, 1 immediate writer, queues of 1, noise, 2 sessions, fairness | `NoByteStuck`, `InOrder`, `LostToImmediate`, `WriteReturns` |
| `evented_control` | 2 managers of 3 rounds, 1 client of 2 calls and 5 rounds | `OkMeansEnabled`, `OncePerCall`, `StatusInOrder` |

Three runs, `klog_part_limit`, `telemetry_rt_race` and `telemetry_rt_topics`, end in a
violation and belong to `findings`: each states what a header or a test says and
exhibits a behaviour of the code that is otherwise.

| Violation | What happens |
|---|---|
| `PartCountLimit` | `max_parts + 1` parts |
| `ConnectedIsSubscribed` | an append and a delete under different locks lose an item: its application is connected and sent nothing |
| `NothingAfterUnsubscribe` | an application that has given up its last topic is sent what is published afterwards |

**Exceptions.** Some properties hold but for a case in which the code does otherwise.
They state that case, the runs reach it, and the theorems are about the same formula:

- `NobodyMissed`, `EventuallyDelivered`: a subscriber that drops another item of its
  topic list while a publish loop searches that list (`server.c:117` against `:146`)
  may be missed by that loop, though it is still subscribed (`Torn`). It needs no second
  topic: a topic subscribed to twice has two items. Nobody else is missed.
- `EachRunOnce`: a command may run twice when `fifo_rx` reads the end of a cut frame into
  a buffer that still holds the request (`again`), or when a buffer was freed under its
  new user (`twice`). `OwnAnswer` excludes the first as well, and overlapping clients.
- `BufferHasOneOwner`: the buffers in `twice`, which `cnc_daemon_send_buffer` has freed
  a second time when another thread had been given them. The property says that no
  other buffer is lost or shared on their account.
- `NoConnLost`: connections the router opens between `csp_bind` and `csp_listen`.
- `PartsOrdered` and `OldestGoes`: from the first `stat`, `fopen` or `remove` that fails,
  the second also from the first crash.
- `SubscriberOwnsPair`, `ConnectionsAccounted`, `DisconnectRemovesOwn`: once a connect
  has run beside a disconnect or an accept has given up before its hello came;
  `ReadsInOrder` also once a disconnect has run beside a send. Up to then every
  failure, `malloc` included, is within the claim.

Met while modelling, and not kept as runs: a handler that destroys its own
subscriber joins itself and never closes its connection (`server.c:75`); the accept
thread adds a subscriber while the list is taken apart (`server.c:160`), or one that
has no thread (`main.c:52`); `telemetry_read` returns true for a connection that ended
(`client.c:97`), after which telemetry storage stores its last packet again and again; a
client of the command daemon prints the answer that came too late for another
(`main.c:287`); `cnc_daemon_send_buffer` frees a packet that `csp_send` has sent and freed
(`main.c:201`; `csp.h:139` asks for that only when it was not sent); with the pool
empty `fifo_rx` reads through a NULL pointer and ends (`main.c:84-87`); exit code 1 is
shown as return code 0 (`command.c:239`); a call of `enable_line` that failed may have
enabled the line; `TELEMETRY_SUBSCRIBERS_MAX_NUM` is only the listen backlog; a topic
subscribed to twice survives one unsubscribe (`server.c:113`); a `fopen` that fails in
the scan of klog leads to the removal of the next part (`klog.c:74`).

**Bounds.** `Conns` (two or three connections) is enough for every pair of roles
to interact: publisher with publisher, publisher with subscriber, either with
`main` and the accept thread; a list of three has a head, a middle and a tail.
In `telemetry_two_subscribers`, `FewRequests` allows three subscribe and unsubscribe
calls of both subscribers together: subscribe twice and unsubscribe once, which tears
the list of one who stays subscribed, or one call of the other's. The run with fairness starts from
`WarmSpec`, some time into a run of `Init`: one subscriber has subscribed and has a
packet of a publisher that has left in its channel, which is full; a second publisher
then has to wait in `send()` until the subscriber reads. From `Init` the same instance
is too large for the liveness check.
`Backlog` and `ChanCap` 1 make the queue and the channel full as often as
possible. For klog, parts of 4 with records of 2 and 3 are filled exactly and
overfilled; three files and 10 records take the rotation round and on.

For the commands, frames are 2 to 4 cells and a read takes 3, so reads take less
than a frame, one, or one and part of the next. One place in the socket's queue and
two connections, or one, are taken by two clients at once. Two buffers are as few as let a
response be sent while `fifo_rx` reads: the pool runs empty and ends `fifo_rx`, and the
buffer of a response is given out between the two calls that free it, as happens to the
code's 10 buffers when nine packets are waiting.

For klog, `FewAfterFailure` follows a failure no further than record number
`MaxAfterFailure`; after that only `FileBounded` and `TypeOK` are claimed.

A second of 3 ticks lets the nanoseconds of time and timeout add up to less than a
second, to one, and to more. On KubOS RT two packets of different topics, two
buffers and a port more than applications make each resource run out and ports be
reused while packets are under way. `Tidy` does not follow what has strayed once
nothing is claimed after it, nor an application that has given up its topics, and
keeps apart three things that each have their own effect: an item with a topic, a
connect that was forgotten, a send beside a disconnect; `MaxTopics` 1 is enough for a
subscriber to be passed over. The theorems are about `Spec`, without `Tidy`. The two
other runs have no constraint. A UART queue of one is full or empty after every
step, and the second session meets what the first has left in the registers. Three
rounds let a manager read a call, run it or leave without it, while its
statuses are under way; five let the client hear them all.

**Deadlock** is not checked in the runs of the Linux telemetry, the log and the commands: every
application may be done, every log record written, and the service killed; those are
proper ends. It is checked in the others, where the proper end is a step of its own
(`Finished`) or a queue can always be called again without waiting.

**Fairness.** In the command system each of the three daemon threads runs on, a
command ends, and a client's main thread runs on; its reader may be slow, or another
client's reader may take the answer. In the telemetry service, every server thread runs on (`WF` per thread: the scheduler is
preemptive and no thread spins at a higher priority); a subscriber keeps reading,
and a hang-up that has begun is finished. Nothing is assumed of the kernel's
backlog, of clients' requests or deaths, of SIGTERM or of I/O. A thread in a queue that can run does, the mutex is given to who waits for it,
and time goes on. For the UART, a pending interrupt is taken, the device shifts,
and a task that is not waiting runs on. Without readers that read on,
`EventuallyDelivered` fails, since `send()` blocks the handler: the assumption is the
one the code makes.

## 4. Theorems

All are proved for every set of connections, topics, capacities and bounds
satisfying the modules' `ASSUME`s, and from nothing else: what a claim excepts is in the
property itself (section 3).

| Theorem | Module | States |
|---|---|---|
| `TypeCorrect` | `TelemetrySafetyProofs` | `Spec => []TypeOK` |
| `FreedAfterJoin` | `TelemetrySafetyProofs` | `Spec => []NoHandlerOnFreedSubscriber` |
| `SentAtMostOnce` | `TelemetryDeliveryProofs` | `Spec => []AtMostOnce` |
| `ReachesEverybody` | `TelemetryDeliveryProofs` | `Spec => []NobodyMissed` |
| `TypeCorrect` | `KlogProofs` | `Spec => []TypeOK` |
| `BoundedParts` | `KlogProofs` | `Spec => []FileBounded` |
| `PartsStayOrdered` | `KlogProofs` | `Spec => []PartsOrdered` |
| `OldestIsGivenUp` | `KlogProofs` | `Spec => OldestGoes` |
| `CncTypeCorrect` | `CncProofs` | `Spec => []TypeOK` |
| `NoConnectionIsLost` | `CncProofs` | `Spec => []NoConnLost` |
| `CommandsRunOnce` | `CncProofs` | `Spec => []EachRunOnce` |
| `PrintedKindIsRight` | `CncProofs` | `Spec => []RightKind` |
| `AnswerIsOwn` | `CncProofs` | `Spec => []OwnAnswer` |
| `BuffersHaveOneOwner` | `CncProofs` | `Spec => []BufferHasOneOwner` |
| `QueueImplementsChannel` | `PosixQueueProofs` | `Spec => ImplementsChannel`: every behaviour of the queue is one of `BoundedChannel` |
| `WakeupsReachSleepers` | `PosixQueueProofs` | `Spec => []NoLostWakeup` |
| `TimeoutsWaitedOut` | `PosixQueueProofs` | `Spec => []TimeoutWaitedOut` |
| `TypeCorrect` | `PosixQueueProofs` | `Spec => []TypeOK` |
| `QueuedByteIsServed` | `HalUartProofs` | `Spec => []NoByteStuck` |
| `OnlyImmediateLoses` | `HalUartProofs` | `Spec => []LostToImmediate` |
| `BytesInOrder` | `HalUartProofs` | `Spec => []InOrder` |
| `UartTypeCorrect` | `HalUartProofs` | `Spec => []TypeOK` |
| `OkIsEarned` | `EventedControlProofs` | `Spec => []OkMeansEnabled` |
| `RunsOnce` | `EventedControlProofs` | `Spec => []OncePerCall` |
| `HeardInOrder` | `EventedControlProofs` | `Spec => []StatusInOrder` |
| `EcpTypeCorrect` | `EventedControlProofs` | `Spec => []TypeOK` |
| `ConnectedOwnsPair` | `TelemetryRTProofs` | `Spec => []SubscriberOwnsPair` |
| `NoConnectionLeftOpen` | `TelemetryRTProofs` | `Spec => []ConnectionsAccounted` |
| `DisconnectTakesOwn` | `TelemetryRTProofs` | `Spec => DisconnectRemovesOwn` |
| `PacketsComeInOrder` | `TelemetryRTProofs` | `Spec => []ReadsInOrder` |
| `RTTypeCorrect` | `TelemetryRTProofs` | `Spec => []TypeOK` |

*Telemetry.* None of the safety properties is inductive. `AcceptInv` ties a
connection's life to the list: it is idle, then in the backlog once, then
accepted once, then held by the accept thread, then linked; without it nothing
keeps a connection from being accepted, and so linked, twice. `CleanupInv` says
how far `main` is: it has unlinked exactly `gone` items, its saved `next` is the
one after, and it is past `pthread_join` only if the handler is dead or was never
created; that what has `Ended` stays so is a lemma (`DeadStaysDead`). `LoopInv` says the pointers of a
publish loop are positions in the list with `next` right behind `current`. `PacketInv` follows
a publisher's one packet from channel to loop to done, and keeps what a loop
delivered behind its position; with the injectivity of the list, a second
delivery to the same subscriber is impossible. `SrvInv` and `OwedInv` are what
`NobodyMissed` needs: the server's end of everyone linked is open, and everyone owed
a packet is still linked, still has the topic and still has its own end open. So the
search of a list that has not lost a node finds it, the send cannot
fail, and the loop, whose `next` is the item right behind, steps over nobody. `owed`
is the set of those who were there when the loop started and have neither left
nor given up that topic nor been unlinked since. Lemmas `ListGrows` and
`OnlyMainUnlinks` are what each step may do to the list.

*Klog.* `SizeInv`: the cached size may run ahead of the file (the rotation does
not reset it) but never behind; no call returns with a full part open; and the
part opened after a rotation is one of `.000` to `.<MaxParts>`. `OrderInv` adds what the
order of the parts needs: records within a part rise, no two parts
interleave, and the part written to is the newest, so that the next record goes
behind all. `RingInv` says, up to the first crash, that the parts follow
each other round the ring from the one behind the current, so that the part the
rotation takes next is the oldest. Both invariants hold until a file operation fails: a
`fopen` that fails in the scan makes the code go on to the rotation and remove a part that
was not the oldest, which is a hazard listed at `klog.c:57`. They are therefore proved of
steps that have not failed, `failed` being what they leave behind for good.

*Commands.* `CoreInv` has the types, the pool (`PoolOK`: no reference count exceeds one,
and a buffer is in the free queue, once, exactly when its count is zero) and the
connections (`ConnInv`: what is in the socket's queue is open, has a packet and
is nobody else's; what is open is the router's, in the queue, or main's). That a flush frees
the buffers of a whole queue (`FreeAllOK`) is by the least counterexample. `OnceInv` says
that the request of a client is at one place of a chain from the FIFO to `runs`, and
at that place once, so it cannot be run twice. `KindInv` says that every request
is what its client asked for and every response under way fits what became of
it; that an earlier `err` is gone when a command is parsed is part of it. `OwnInv` says
that without overlaps all there is under way is of the one client that is active.
`BufInv` puts each buffer that is not in `twice` at one place. `Release` frees the buffer of a
response for the second time: it is free already and is left alone, or it is another's, and
then it joins `twice`; in neither case does another buffer move. `OnceInv` is kept in the same
way but for `again` and `twice`: a read that leaves an old request in its buffer adds its
client to `again`, and a free under a user adds a buffer to `twice`.

*The queue.* The invariant adds to the types that `in` is `items` slots after `out`,
so that a copy puts at the end of the content and takes from its front, that a
thread asleep is on the condition of its call, and `NoLostWakeup`, which is
inductive with these. Every step then maps to a step of `BoundedChannel` or to none.
`TimeoutsWaitedOut` rests on `DeadlineNotEarly`: the carry tested with `>` is right
but where the rests add up to exactly one second.

*The UART.* `NoByteStuck` holds because a push is always followed by the setting of
TXEIE, and the handler turns it off only when the queue is empty.
`OnlyImmediateLoses` counts: the bytes neither gone nor in queue or registers are no
more than those written immediately, as a byte leaves these places unsent only
in `WriteImmediate`, which also takes the next number of its task. For `BytesInOrder`,
`LineOK` says that receive queue, registers and transmit queue are one line, each place
ahead of those behind it for the bytes of one task, and `NumbersOK` that all of them lie
between the number last read and the next one, none has left, and the transmit queue
holds no byte of a task that writes immediately: its byte overtakes only others'.

*Evented control.* `Honest` is the set of messages in which a return is of a call that
has run; all of `out`, `in` and `queue` stay within it, whatever the bus does with
them, and `enable_line` succeeds only on a return of its own call. For `RunsOnce`,
`CallOnce` says that a call is in one box at most and there once, and that it has not
run while it is in one: every step shrinks what the boxes hold of it or moves it from
one to another. For `HeardInOrder`, `LineOK` says that the numbers in `queue`, `in` and
the manager's `out` are sorted, each place below the next, all above `heard` and none
above the last one sent.

*KubOS RT.* All of it is for a router in time (`Prompt`) and disconnects that run beside
no connect, subscribe or send (`~Overlap`): the code enforces neither. Without the
second the list loses an item, which the run `telemetry_rt_race` shows; without the first
an accept may be given the other end of a connect that has failed. `ListInv` says that
`Listed` is a chain from `head`, whose items are those in use but for one that is being
added, that each app has its own, and how far its call has got: the last item that
`LL_APPEND` has found is still the last one, the scan of a disconnect is at or before the
caller's item, and the predecessor found is the one right before it. `PairsInv` gives each
item two connections with one port and no other item either of them; while an app
disconnects, its client's end is closed and no client's end has that port, so the scan
stops at its item and at no other. `ClientsInv`, `ServersInv` and `HelloInv` follow a
connection before it has an item: the client's end of a connect under way has a port of
its own, and its hello is on the way, or the server's end it made waits in `accepts`,
or neither; nothing else is on the way or waits. That is what makes
`kprv_server_accept`, which takes the oldest, take the right one.

For `ReadsInOrder`, `Done(x, p)` says that packet `x` has been sent to port `p`, or
dropped, for good: it is neither in `packet_queue` nor still to come there on this round
(`Visited` are the ports this round has been at). `FlowInv` says that the packets on the
way to a port are done there and rise, that those in a client's queue come before them and
rise, and that what an app has read comes before both. It speaks of ports and not
of apps, and so survives a port that is used again while packets for its former owner are on
the way. `FlowKept` sums up what all steps but three leave of it; the three are a packet
that comes to its queue, one that is read, and one that is sent (`VisitedStep`: the
round has not been at this port). For `ReadsSubscribed`, `TopicInv` says that the item's
topics are those its app asked for and that all that is coming to its end (`Coming`) is
wanted or was published before it asked: what is on its way at a subscribe is done, hence
published; what is sent later is sent by the topics of the one item with that port.

Only model-checked: the liveness properties (out of the prover's reach). `OldestGoes` is claimed up to the first crash only,
because it is not so afterwards: killed after filling a part and
before opening the next, the process starts anew with every part full and
removes part `.000`, which may be the newest but one.

## 5. What is next

1. `TopicBroker`: an abstract publish/subscribe service, implemented by
   `TelemetrySystem` and, with its disciplines, by `TelemetryRT`.
2. `HalBus`: init, terminate, read and write of an I2C or SPI bus by several tasks;
   `i2c.c:74` checks the bus before it has the lock.
3. `TelemetryStorage`: read loop, file names, klog per topic; the slot of the last GPS
   fix; checksum and frames as operators against reference definitions.
4. Proofs: the steps of `TelemetrySystem` to `TopicBroker`, once it is there.

## 6. Not modelled, and why

`PROJECT.json` has a line for every component. I2C and SPI are a lock around a board
driver; what can go wrong is the check before the lock, listed as a hazard. The GPS
module, AX.25, APRS, the core commands and the CBOR messages convert data and keep
no state another actor can disturb, but for the slot of the last fix. Register-level drivers, sensors
and the FatFs glue are I/O without state; libcsp, FreeRTOS and tinycbor are
third-party, modelled where KubOS code uses them; console output and the wording of
log messages are left out everywhere.
