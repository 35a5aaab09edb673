----------------------------- MODULE TelemetryRT -----------------------------
(***************************************************************************)
(* The telemetry server of KubOS RT, telemetry-rt/source/telemetry.c, with *)
(* ipc/source/pubsub.c and what they use of libcsp.  There are no handlers *)
(* as on Linux: telemetry_connect makes both ends of a CSP loopback        *)
(* connection itself and links the pair into the subscriber list, and one  *)
(* task, telemetry_rx_task, sends every packet to the list.                *)
(*                                                                         *)
(* subscribing_lock covers connect, unsubscribing_lock covers disconnect,  *)
(* and nothing covers the list: a step is what a task does between two     *)
(* points where another can see or change it.                              *)
(***************************************************************************)
EXTENDS Naturals, Sequences, FiniteSets, SequencesExt

CONSTANTS
  Apps,         \* The tasks that use telemetry.
  Slots,        \* Entries of arr_conn, less the one of the listening socket.
  NoSlot,
  Items,        \* Cells malloc() gives for subscriber_list_item.
  Null,
  LastPort,     \* The ephemeral ports are 1..LastPort.
  AcceptQueue,  \* TELEMETRY_SUBSCRIBERS_MAX_NUM, given to csp_listen.
  NumBuffers,   \* Buffers of csp_buffer_init.
  FifoLength,   \* CSP_FIFO_INPUT.
  RxLength,     \* CSP_RX_QUEUE_LENGTH.
  QueueSize,    \* MESSAGE_QUEUE_SIZE.
  Published,    \* Bound: the topics of the packets that are published, in order.
  MaxTopics     \* Bound: length of a subscriber's list of topics.

ASSUME RTAssumption ==
  /\ NoSlot \notin Slots
  /\ Null \notin Items \union Apps
  /\ IsFiniteSet(Items)
  /\ {LastPort, AcceptQueue, NumBuffers, FifoLength, RxLength, QueueSize} \subseteq Nat \ {0}
  /\ Published \in Seq(Nat)
  /\ MaxTopics \in Nat

VARIABLES
  conn,     \* conn[s]: entry s of arr_conn.
  sport,    \* The ephemeral port given last.
  net,      \* The router's queue, qfifo.
  accepts,  \* The listening socket's queue of connections.
  head,     \* subscribers
  item,     \* item[i]: a subscriber_list_item.
  live,     \* The items malloc() has given and free() has not taken back.
  lock,     \* Who holds subscribing_lock and unsubscribing_lock.
  task,     \* task[k]: where app k is, and its locals.
  handle,   \* handle[k]: the item the pubsub_conn of app k lies in.
  queue,    \* packet_queue
  rx,       \* telemetry_rx_task: its packet, and its place in the list.
  sent,     \* How many packets have been published.
  seen,     \* seen[k]: the last packet app k has read since it connected.
  quit,     \* History: `sent` when app k gave up its last topic.
  leaked,   \* History: connections kprv_telemetry_connect forgot.
  strayed,  \* History: what has happened that no lock and no check keeps apart.
  up        \* telemetry_cleanup has not run.

cspVars == <<conn, sport, net, accepts>>
listVars == <<head, item, live>>
appVars == <<lock, task, handle, seen, quit>>
rxVars == <<queue, rx, sent>>
vars == <<cspVars, listVars, appVars, rxVars, leaked, strayed, up>>

Ports == 1..LastPort
Topics == {Published[n] : n \in DOMAIN Published}
MaxPackets == Len(Published)
Hello == 0          \* The byte a connect sends; packets count from 1.
Nobody == Null
Closed == [open |-> FALSE, end |-> "none", port |-> 0, rx |-> <<>>]
NoItem == [client |-> NoSlot, server |-> NoSlot, topics |-> <<>>, next |-> Null]
IdleTask == [at |-> "idle", client |-> NoSlot, item |-> Null, cur |-> Null]
NotQuit == MaxPackets
RxIdle == [at |-> "wait", pkt |-> 0, cur |-> Null]

(* telemetry_init *)
Init ==
  /\ conn = [s \in Slots |-> Closed]
  /\ sport = LastPort
  /\ net = <<>> /\ accepts = <<>>
  /\ head = Null /\ item = [i \in Items |-> NoItem] /\ live = {}
  /\ lock = [sub |-> Nobody, unsub |-> Nobody]
  /\ task = [k \in Apps |-> IdleTask]
  /\ handle = [k \in Apps |-> Null]
  /\ seen = [k \in Apps |-> 0]
  /\ quit = [k \in Apps |-> NotQuit]
  /\ queue = <<>> /\ rx = RxIdle /\ sent = 0
  /\ leaked = {} /\ strayed = {} /\ up = TRUE

-----------------------------------------------------------------------------
(***************************************************************************)
(* libcsp.                                                                 *)
(***************************************************************************)

\* csp_conn_find: the open connection with that end on that port.
EndsAt(end, port) == {s \in Slots : conn[s].open /\ conn[s].end = end /\ conn[s].port = port}

\* csp_conn_allocate: an entry that is closed.
Free == {s \in Slots : ~conn[s].open}

\* csp_conn_new.
Opened(end, port, pkts) == [open |-> TRUE, end |-> end, port |-> port, rx |-> pkts]

(* csp_connect: the next port, in turn, that no connection uses.  The      *)
(* search ends before the port it began at, but for the first of all.      *)
After(p, n) == ((p + n - 1) % LastPort) + 1
Unused(p) == EndsAt("client", p) = {}
FreePorts ==
  {n \in 1..(IF sport = 1 THEN LastPort ELSE LastPort - 1) : Unused(After(sport, n))}
NextPort == After(sport, CHOOSE n \in FreePorts : \A o \in FreePorts : n <= o)

\* csp_buffer_get: the buffers are in the qfifo or in a connection's queue.
InUse == Len(net) + FoldFunction(LAMBDA c, n : Len(c.rx) + n, 0, conn)
HasBuffer == InUse < NumBuffers

\* csp_lo_tx, csp_qfifo_write: a packet that does not fit is lost.
Sent(msg) == IF Len(net) < FifoLength THEN Append(net, msg) ELSE net

\* Mutant: the other end is not looked at.
AliveHere(s) == conn[s].open

\* csp_conn_check_alive: it is open, and so is the other end.
Alive(s) == conn[s].open /\ EndsAt("client", conn[s].port) # {}

\* csp_close: the queue is flushed.
Shut(S) == [s \in Slots |-> IF s \in S THEN Closed ELSE conn[s]]

(***************************************************************************)
(* csp_route_work, csp_udp_new_packet: the router takes a packet to its    *)
(* connection.  A client's first packet makes the server's end and posts   *)
(* it to the listening socket, and a server's to a closed client is lost.  *)
(***************************************************************************)
RouteToEnd(m) ==
  \E s \in EndsAt(m.to, m.port) :
    /\ conn' = IF Len(conn[s].rx) < RxLength
                 THEN [conn EXCEPT ![s].rx = Append(@, m.pkt)] ELSE conn
    /\ UNCHANGED accepts

RouteNew(m) ==
  /\ m.to = "server"
  /\ EndsAt("server", m.port) = {}
  /\ IF Free = {} \/ Len(accepts) >= AcceptQueue
       THEN UNCHANGED <<conn, accepts>>
       ELSE \E s \in Free :
              /\ conn' = [conn EXCEPT ![s] = Opened("server", m.port, <<m.pkt>>)]
              /\ accepts' = Append(accepts, s)

RouteLost(m) ==
  /\ m.to = "client"
  /\ EndsAt("client", m.port) = {}
  /\ UNCHANGED <<conn, accepts>>

Route ==
  /\ up
  /\ net # <<>>
  /\ net' = Tail(net)
  /\ \/ RouteToEnd(Head(net))
     \/ RouteNew(Head(net))
     \/ RouteLost(Head(net))
  /\ UNCHANGED <<sport, listVars, appVars, rxVars, leaked, strayed, up>>

-----------------------------------------------------------------------------
(***************************************************************************)
(* The subscriber list.                                                    *)
(***************************************************************************)

\* The items of the list from head on, as many as there are at most.
Listed ==
  LET at[n \in 0..Cardinality(Items)] ==
        IF n = 0 THEN head ELSE IF at[n - 1] = Null THEN Null ELSE item[at[n - 1]].next
      ends == {n \in 0..Cardinality(Items) : n = Cardinality(Items) \/ at[n] = Null}
  IN [n \in 1..Min(ends) |-> at[n - 1]]

\* The first of the positions N in the list, or Null.
FirstAt(N) == IF N = {} THEN Null ELSE Listed[Min(N)]

\* telemetry_num_subscribers
telemetry_num_subscribers == Len(Listed)

\* kprv_get_subscriber: the first item with the client's connection.
Subscriber(k) == FirstAt({n \in DOMAIN Listed : item[Listed[n]].client = item[handle[k]].client})

(* Nothing in the code keeps these apart: each of the two locks is for its *)
(* own call, telemetry_send takes none, and accept takes what is oldest.   *)
(*   "append"  a telemetry_connect ran beside a telemetry_disconnect,      *)
(*   "send"    a telemetry_send did,                                       *)
(*   "late"    an accept gave up while its hello was still on its way.     *)
Connecting == \E k \in Apps : task[k].at \in {"accept", "find", "link"}
Disconnecting == \E k \in Apps : task[k].at \in {"scan", "pred", "unlink"}
Sending == rx.at = "send"
HelloComing == \E n \in DOMAIN net : net[n].to = "server"

If(happens, what) == IF happens THEN {what} ELSE {}

(***************************************************************************)
(* telemetry_connect: the connection and the hello that makes its other    *)
(* end.  When there is no buffer for the hello the connection is forgotten.*)
(***************************************************************************)
ConnectOpen(k) ==
  /\ up
  /\ task[k].at = "idle" /\ handle[k] = Null
  /\ lock.sub = Nobody
  /\ FreePorts # {}
  /\ strayed' = strayed \union If(Disconnecting, "append")
  /\ sport' = NextPort
  /\ \/ /\ Free = {}
        /\ UNCHANGED <<conn, net, lock, task, leaked>>
     \/ \E s \in Free :
          /\ conn' = [conn EXCEPT ![s] = Opened("client", NextPort, <<>>)]
          /\ IF HasBuffer
               THEN /\ net' = Sent([to |-> "server", port |-> NextPort, pkt |-> Hello])
                    /\ lock' = [lock EXCEPT !.sub = k]
                    /\ task' = [task EXCEPT ![k] = [IdleTask EXCEPT !.at = "accept", !.client = s]]
                    /\ UNCHANGED leaked
               ELSE /\ leaked' = leaked \union {s}
                    /\ UNCHANGED <<net, lock, task>>
  /\ UNCHANGED <<accepts, listVars, handle, seen, quit, rxVars, up>>

(* kprv_server_accept, and the hello read from the connection it gives:    *)
(* the oldest of the queue.  malloc() then gives an item.                  *)
Accept(k) ==
  /\ up
  /\ task[k].at = "accept"
  /\ accepts # <<>>
  /\ LET s == Head(accepts) IN
       /\ conn[s].rx # <<>>
       /\ conn' = [conn EXCEPT ![s].rx = Tail(@)]
       /\ \E i \in Items \ live :
            /\ live' = live \union {i}
            /\ item' = [item EXCEPT ![i] = [NoItem EXCEPT !.client = task[k].client, !.server = s]]
            /\ task' = [task EXCEPT ![k].at = "find", ![k].item = i]
  /\ accepts' = Tail(accepts)
  /\ UNCHANGED <<sport, net, head, lock, handle, seen, quit, rxVars, leaked, strayed, up>>

(* ... or it does not: both ends stay open, and what is returned is not    *)
(* NULL but the address of client_conn in an item at NULL, with which the  *)
(* app can do nothing.  When the read fails it is NULL, and they stay open *)
(* as well.                                                                *)
AcceptFails(k) ==
  /\ up
  /\ task[k].at = "accept"
  /\ accepts # <<>>
  /\ LET s == Head(accepts)
         read == conn[s].rx # <<>>
     IN /\ conn' = IF read THEN [conn EXCEPT ![s].rx = Tail(@)] ELSE conn
        /\ leaked' = leaked \union {task[k].client, s}
        /\ task' = [task EXCEPT ![k] = [IdleTask EXCEPT !.at = IF read THEN "lost" ELSE "idle"]]
  /\ lock' = [lock EXCEPT !.sub = Nobody]
  /\ accepts' = Tail(accepts)
  /\ UNCHANGED <<sport, net, listVars, handle, seen, quit, rxVars, strayed, up>>

\* A connect that has waited a second in vain returns, with its lock at l
\* and the connections S closed.
GivesUp(k, l, S) ==
  /\ up
  /\ task[k].at = "accept"
  /\ accepts = <<>>
  /\ conn' = Shut(S)
  /\ lock' = [lock EXCEPT !.sub = l]
  /\ task' = [task EXCEPT ![k] = IdleTask]
  /\ strayed' = strayed \union If(HelloComing, "late")
  /\ UNCHANGED <<sport, net, accepts, listVars, handle, seen, quit, rxVars, leaked, up>>

\* Mutants: the lock is not given back; the client's end stays open.
AcceptTimeoutLocked(k) == GivesUp(k, k, {task[k].client})
AcceptTimeoutOpen(k) == GivesUp(k, Nobody, {})

(* Nothing to accept within a second: there was no connection left for the *)
(* server's end, or the router has not come to the hello yet.              *)
AcceptTimeout(k) == GivesUp(k, Nobody, {task[k].client})

\* The item LL_APPEND ends at, Null when there is none.
IsLast(i) == IF head = Null THEN i = Null ELSE i \in ToSet(Listed) /\ item[i].next = Null

(* LL_APPEND: the last item is found, and then given its successor.        *)
AppendFind(k) ==
  /\ up
  /\ task[k].at = "find"
  /\ \E i \in Items \union {Null} :
       IsLast(i) /\ task' = [task EXCEPT ![k].at = "link", ![k].cur = i]
  /\ UNCHANGED <<cspVars, listVars, lock, handle, seen, quit, rxVars, leaked, strayed, up>>

AppendLink(k) ==
  /\ up
  /\ task[k].at = "link"
  /\ IF task[k].cur = Null
       THEN head' = task[k].item /\ UNCHANGED item
       ELSE item' = [item EXCEPT ![task[k].cur].next = task[k].item] /\ UNCHANGED head
  /\ handle' = [handle EXCEPT ![k] = task[k].item]
  /\ lock' = [lock EXCEPT !.sub = Nobody]
  /\ task' = [task EXCEPT ![k] = IdleTask]
  /\ UNCHANGED <<cspVars, live, seen, quit, rxVars, leaked, strayed, up>>

(***************************************************************************)
(* telemetry_disconnect: the client's end is closed, and the subscriber    *)
(* looked for is the first whose server's end is no longer alive.          *)
(***************************************************************************)
DisconnectClose(k) ==
  /\ up
  /\ task[k].at = "idle" /\ handle[k] # Null
  /\ lock.unsub = Nobody
  /\ strayed' = strayed \union If(Connecting, "append") \union If(Sending, "send")
  /\ conn' = Shut({item[handle[k]].client})
  /\ lock' = [lock EXCEPT !.unsub = k]
  /\ task' = [task EXCEPT ![k].at = "scan", ![k].cur = head]
  /\ UNCHANGED <<sport, net, accepts, listVars, handle, seen, quit, rxVars, leaked, up>>

\* Unlocks and returns; the pubsub_conn is not used any more.
Disconnected(k) ==
  /\ lock' = [lock EXCEPT !.unsub = Nobody]
  /\ task' = [task EXCEPT ![k] = IdleTask]
  /\ handle' = [handle EXCEPT ![k] = Null]
  /\ seen' = [seen EXCEPT ![k] = 0]
  /\ quit' = [quit EXCEPT ![k] = NotQuit]

\* Mutant: the first item of the list is taken, alive or not.
DisconnectScanFirst(k) ==
  /\ up
  /\ task[k].at = "scan"
  /\ LET i == task[k].cur IN
       IF i = Null THEN Disconnected(k) /\ UNCHANGED conn
       ELSE /\ task' = [task EXCEPT ![k].at = "pred"]
            /\ conn' = Shut({item[i].server})
            /\ UNCHANGED <<lock, handle, seen, quit>>
  /\ UNCHANGED <<sport, net, accepts, listVars, rxVars, leaked, strayed, up>>

DisconnectScan(k) ==
  /\ up
  /\ task[k].at = "scan"
  /\ LET i == task[k].cur IN
       IF i = Null THEN Disconnected(k) /\ UNCHANGED conn
       ELSE /\ IF Alive(item[i].server)
                 THEN /\ task' = [task EXCEPT ![k].cur = item[i].next]
                      /\ UNCHANGED conn
                 ELSE /\ task' = [task EXCEPT ![k].at = "pred"]
                      /\ conn' = Shut({item[i].server})
            /\ UNCHANGED <<lock, handle, seen, quit>>
  /\ UNCHANGED <<sport, net, accepts, listVars, rxVars, leaked, strayed, up>>

(* LL_DELETE: the first item gives way to its successor; for another the   *)
(* one before it is found first, and changed in a second step.             *)
DeleteFind(k) ==
  /\ up
  /\ task[k].at = "pred"
  /\ LET before == {n \in DOMAIN Listed : item[Listed[n]].next = task[k].cur} IN
       \E p \in Items \union {Null} :
         /\ p = IF head = task[k].cur THEN Null ELSE FirstAt(before)
         /\ task' = [task EXCEPT ![k].at = "unlink", ![k].item = p]
  /\ UNCHANGED <<cspVars, listVars, lock, handle, seen, quit, rxVars, leaked, strayed, up>>

\* The items when p, the one before i, points past it.
Unlinked(i, p) ==
  [j \in Items |-> IF j = p THEN [item[j] EXCEPT !.next = item[i].next] ELSE item[j]]

\* ... and the item is freed with its topics: the memory stays as it is until
\* malloc() gives it again.
DeleteUnlink(k) ==
  /\ up
  /\ task[k].at = "unlink"
  /\ LET i == task[k].cur
         p == task[k].item
     IN /\ head' = IF head = i THEN item[i].next ELSE head
        /\ item' = Unlinked(i, p)
        /\ live' = live \ {i}
  /\ Disconnected(k)
  /\ UNCHANGED <<cspVars, rxVars, leaked, strayed, up>>

(***************************************************************************)
(* telemetry_subscribe and telemetry_unsubscribe: the topics of the first  *)
(* item with this client's connection, a list that may name one twice.     *)
(***************************************************************************)
MayCall(k) == up /\ task[k].at = "idle" /\ handle[k] # Null

SetTopics(k, i, q) ==
  /\ item' = [item EXCEPT ![i].topics = q]
  /\ quit' = [quit EXCEPT ![k] = IF q = <<>> THEN sent ELSE NotQuit]
  /\ UNCHANGED <<cspVars, head, live, lock, task, handle, seen, rxVars, leaked, strayed, up>>

Subscribe(k) ==
  /\ MayCall(k)
  /\ \E i \in Items, t \in Topics :
       /\ i = Subscriber(k)
       /\ Len(item[i].topics) < MaxTopics
       /\ SetTopics(k, i, Append(item[i].topics, t))

Unsubscribe(k) ==
  /\ MayCall(k)
  /\ \E i \in Items, n \in 1..MaxTopics :
       /\ i = Subscriber(k)
       /\ n \in DOMAIN item[i].topics
       /\ \A m \in 1..n - 1 : item[i].topics[m] # item[i].topics[n]
       /\ SetTopics(k, i, RemoveAt(item[i].topics, n))

(* telemetry_read: a packet of the connection, if there is one.            *)
Read(k) ==
  /\ MayCall(k)
  /\ LET s == item[handle[k]].client IN
       /\ s # NoSlot /\ conn[s].open /\ conn[s].rx # <<>>
       /\ seen' = [seen EXCEPT ![k] = Head(conn[s].rx)]
       /\ conn' = [conn EXCEPT ![s].rx = Tail(@)]
  /\ UNCHANGED <<sport, net, accepts, listVars, lock, task, handle, quit, rxVars, leaked, strayed, up>>

(***************************************************************************)
(* telemetry_publish, and telemetry_rx_task with telemetry_send.           *)
(***************************************************************************)
Publish ==
  /\ up
  /\ sent < MaxPackets
  /\ Len(queue) < QueueSize
  /\ sent' = sent + 1
  /\ queue' = Append(queue, sent')
  /\ UNCHANGED <<cspVars, listVars, appVars, rx, leaked, strayed, up>>

\* telemetry_rx_task has a packet, and q left in its queue.
Dequeues(q) ==
  /\ up
  /\ rx.at = "wait"
  /\ queue # <<>>
  /\ rx' = [at |-> "send", pkt |-> Head(queue), cur |-> head]
  /\ queue' = q
  /\ strayed' = strayed \union If(Disconnecting, "send")
  /\ UNCHANGED <<cspVars, listVars, appVars, sent, leaked, up>>

\* Mutant: the packet is read and stays in the queue.
RxDequeuePeek == Dequeues(queue)

RxDequeue == Dequeues(Tail(queue))

\* kprv_has_topic: no topics at all is every topic.
HasTopic(i, t) == item[i].topics = <<>> \/ t \in ToSet(item[i].topics)

RxSend ==
  /\ up
  /\ rx.at = "send"
  /\ IF rx.cur = Null THEN rx' = RxIdle /\ UNCHANGED net
     ELSE LET s == item[rx.cur].server IN
            /\ net' = IF HasTopic(rx.cur, Published[rx.pkt]) /\ s \in Slots /\ conn[s].open /\ HasBuffer
                        THEN Sent([to |-> "client", port |-> conn[s].port, pkt |-> rx.pkt])
                        ELSE net
            /\ rx' = [rx EXCEPT !.cur = item[rx.cur].next]
  /\ UNCHANGED <<conn, sport, accepts, listVars, appVars, queue, sent, leaked, strayed, up>>

(***************************************************************************)
(* telemetry_cleanup, with no app in a call: telemetry_rx_task is killed   *)
(* wherever it is, the router ends, and every item is closed and freed.    *)
(***************************************************************************)
telemetry_cleanup ==
  /\ up
  /\ \A k \in Apps : task[k].at \in {"idle", "lost"}
  /\ up' = FALSE
  /\ rx' = RxIdle
  /\ conn' = Shut(UNION {{item[i].client, item[i].server} : i \in ToSet(Listed)})
  /\ head' = Null
  /\ live' = live \ ToSet(Listed)
  /\ handle' = [k \in Apps |-> Null]
  /\ seen' = [k \in Apps |-> 0]
  /\ quit' = [k \in Apps |-> NotQuit]
  /\ UNCHANGED <<sport, net, accepts, item, lock, task, queue, sent, leaked, strayed>>

\* The program goes on without telemetry.
Finished == ~up /\ UNCHANGED vars

AppStep(k) ==
  \/ ConnectOpen(k) \/ Accept(k) \/ AcceptFails(k) \/ AcceptTimeout(k) \/ AppendFind(k) \/ AppendLink(k)
  \/ DisconnectClose(k) \/ DisconnectScan(k) \/ DeleteFind(k) \/ DeleteUnlink(k)
  \/ Subscribe(k) \/ Unsubscribe(k) \/ Read(k)

Next ==
  \/ \E k \in Apps : AppStep(k)
  \/ Route \/ Publish \/ RxDequeue \/ RxSend
  \/ telemetry_cleanup
  \/ Finished

Spec == Init /\ [][Next]_vars

-----------------------------------------------------------------------------
(***************************************************************************)
(* Properties.                                                             *)
(***************************************************************************)

TaskPc == {"idle", "lost", "accept", "find", "link", "scan", "pred", "unlink"}
ConnType == [open : BOOLEAN, end : {"none", "client", "server"}, port : 0..LastPort,
             rx : Seq(0..MaxPackets)]
PacketType == [to : {"client", "server"}, port : Ports, pkt : 0..MaxPackets]
ItemType == [client : Slots \union {NoSlot}, server : Slots \union {NoSlot},
             topics : Seq(Topics), next : Items \union {Null}]
TaskType == [at : TaskPc, client : Slots \union {NoSlot},
             item : Items \union {Null}, cur : Items \union {Null}]
RxType == [at : {"wait", "send"}, pkt : 0..MaxPackets, cur : Items \union {Null}]
StrayType == {"append", "send", "late"}

(* Every variable has its type, and a lock is held by the call it is for,  *)
(* whatever runs beside what (telemetry.c:323-330, :332-365).              *)
TypeOK ==
  /\ conn \in [Slots -> ConnType] /\ sport \in Ports
  /\ net \in Seq(PacketType) /\ accepts \in Seq(Slots)
  /\ head \in Items \union {Null} /\ item \in [Items -> ItemType] /\ live \subseteq Items
  /\ lock \in [sub : Apps \union {Nobody}, unsub : Apps \union {Nobody}]
  /\ task \in [Apps -> TaskType] /\ handle \in [Apps -> Items \union {Null}]
  /\ queue \in Seq(1..MaxPackets) /\ rx \in RxType /\ sent \in 0..MaxPackets
  /\ seen \in [Apps -> 0..MaxPackets] /\ quit \in [Apps -> 0..MaxPackets]
  /\ leaked \subseteq Slots /\ strayed \subseteq StrayType
  /\ up \in BOOLEAN
  /\ \A k \in Apps : /\ (lock.sub = k) <=> (task[k].at \in {"accept", "find", "link"})
                     /\ (lock.unsub = k) <=> (task[k].at \in {"scan", "pred", "unlink"})

\* An app whose telemetry_connect has returned and that has not disconnected.
Connected == {k \in Apps : handle[k] # Null /\ task[k].at = "idle"}

\* No connect has run beside a disconnect or been too early for its hello.
Apart == strayed \subseteq {"send"}

(* A connected app is in the subscriber list, once, and its item holds the *)
(* two ends of one connection, open, that no other item holds, however     *)
(* connects, their failures, disconnects and sends follow each other and   *)
(* ports and cells are used again: accept gives the oldest connection      *)
(* waiting, whose it is being left to the locks (telemetry.c:290, :295,    *)
(* :301, :344).  Not claimed once a connect has run beside a disconnect,   *)
(* or has given up before its hello came: see ConnectedIsSubscribed.       *)
SubscriberOwnsPair == Apart =>
  /\ IsInjective(Listed)
  /\ {handle[k] : k \in Connected} \subseteq ToSet(Listed)
  /\ \A k \in Connected :
       LET i == handle[k] IN
         /\ i \in live
         /\ conn[item[i].client].open /\ conn[item[i].client].end = "client"
         /\ conn[item[i].server].open /\ conn[item[i].server].end = "server"
         /\ conn[item[i].client].port = conn[item[i].server].port
         /\ \A j \in live \ {i} : {item[j].client, item[j].server}
                                    \intersect {item[i].client, item[i].server} = {}

(* What telemetry_disconnect frees is the item of the app that called it,  *)
(* though it frees the first that is not alive (telemetry.c:339-360).  Not *)
(* claimed once a connect has run beside a disconnect, or has given up     *)
(* before its hello came.                                                  *)
DisconnectRemovesOwn ==
  [][Apart => \A k \in Apps : task[k].at = "unlink" => task[k].cur = handle[k]]_vars

(* Every open connection is of an item, of a connect that still waits for  *)
(* its other end, or one that a connect has forgotten, which are those of  *)
(* a connect that found no buffer for the hello, could not read it, or had *)
(* no memory for the item: a connect that times out, a disconnect and      *)
(* telemetry_cleanup leave nothing open (telemetry.c:134-138, :315,        *)
(* :336-344).  Not claimed once a connect has run beside a disconnect, or  *)
(* has given up before its hello came.                                     *)
ConnectionsAccounted == Apart =>
  \A s \in Slots : conn[s].open =>
    \/ s \in leaked
    \/ \E i \in live : s \in {item[i].client, item[i].server}
    \/ \E k \in Apps : task[k].client = s
    \/ s \in ToSet(accepts)

\* The packets on their way to port p.
To(p) == {n \in DOMAIN net : net[n].to = "client" /\ net[n].port = p}

(* What an app will read comes in the order it was published, each packet  *)
(* once and after those it has read: its end is closed and made anew, with *)
(* the port of another before it, while packets are under way              *)
(* (telemetry.c:160-191, libcsp csp_conn.c:308-325).  Not claimed once a   *)
(* disconnect has run beside a telemetry_send, which then goes on from an  *)
(* item that is freed, or a connect beside a disconnect, or a connect has  *)
(* given up before its hello came.                                         *)
ReadsInOrder == strayed = {} =>
  \A k \in Connected :
    LET s == item[handle[k]].client
        q == conn[s].rx
        coming == To(conn[s].port)
    IN /\ \A n \in DOMAIN q : seen[k] < q[n] /\ \A m \in DOMAIN q : m < n => q[m] < q[n]
       /\ \A n \in coming :
            /\ seen[k] < net[n].pkt /\ \A m \in DOMAIN q : q[m] < net[n].pkt
            /\ \A m \in coming : m < n => net[m].pkt < net[n].pkt

(***************************************************************************)
(* What the repository says of it, and is not so.                          *)
(***************************************************************************)

(* "Connects to the telemetry system - thread safe version"                *)
(* (telemetry.h:52): an app that is connected is in the list.              *)
ConnectedIsSubscribed ==
  {handle[k] : k \in Connected} \subseteq ToSet(Listed)

(* "assert_false(telemetry_read(connection, &incoming_packet))" after the  *)
(* last topic is given up (telemetry-rt/test/topics.c:48-52): an app reads *)
(* nothing published since.                                                *)
NothingAfterUnsubscribe ==
  [][\A k \in Apps : seen'[k] # seen[k] => seen'[k] <= quit[k]]_vars

-----------------------------------------------------------------------------
(***************************************************************************)
(* Why the invariants hold, those of ListInv to HelloInv while Apart.      *)
(***************************************************************************)

\* A connect that waits has a connection, a disconnect that is to free an item has
\* one, and what is open has a port.
CallInv ==
  /\ \A k \in Apps : task[k].at = "accept" => task[k].client # NoSlot
  /\ \A k \in Apps : task[k].at \in {"pred", "unlink"} => task[k].cur # Null
  /\ \A s \in Slots : conn[s].open => conn[s].port \in Ports

\* q is the list: no item twice, each pointing at the next.
IsChain(q) ==
  /\ q \in Seq(Items) /\ IsInjective(q)
  /\ head = IF q = <<>> THEN Null ELSE q[1]
  /\ \A n \in DOMAIN q : item[q[n]].next = IF n = Len(q) THEN Null ELSE q[n + 1]

Adding(k) == task[k].at \in {"find", "link"}
Removing(k) == task[k].at \in {"scan", "pred", "unlink"}

\* Where k is in the list, and how far it has got with it.
PlaceOK(k) ==
  /\ Adding(k) => task[k].item \in live \ ToSet(Listed) /\ item[task[k].item].next = Null
  /\ task[k].at = "link" => task[k].cur = IF Listed = <<>> THEN Null ELSE Last(Listed)
  /\ task[k].at \in {"accept", "find", "link"} => handle[k] = Null
  /\ Removing(k) => handle[k] # Null
  /\ handle[k] # Null => handle[k] \in ToSet(Listed)
  /\ task[k].at = "scan" =>
       \E m, n \in DOMAIN Listed : m <= n /\ Listed[m] = task[k].cur /\ Listed[n] = handle[k]
  /\ task[k].at \in {"pred", "unlink"} => task[k].cur = handle[k]
  /\ task[k].at = "unlink" =>
       \A n \in DOMAIN Listed : Listed[n] = handle[k] =>
         task[k].item = IF n = 1 THEN Null ELSE Listed[n - 1]

\* The list is whole: its items are those in use, but for one being added,
\* and each app that has one has its own.
ListInv ==
  /\ IsChain(Listed)
  /\ Disconnecting => ~Connecting
  /\ ToSet(Listed) \subseteq live
  /\ \A i \in live \ ToSet(Listed) : \E k \in Apps : Adding(k) /\ task[k].item = i
  /\ \A k \in Apps : PlaceOK(k)
  /\ \A j, k \in Apps : handle[j] = handle[k] /\ handle[j] # Null => j = k

\* telemetry_send is in the list, and no disconnect beside it: while strayed = {}.
SendInv ==
  /\ Disconnecting => ~Sending
  /\ rx.cur \in (IF Sending THEN ToSet(Listed) \union {Null} ELSE {Null})

IsEnd(s, end) == s \in Slots /\ conn[s].open /\ conn[s].end = end
EndOf(s, i) == s = item[i].client \/ s = item[i].server
Leaving(i) == \E k \in Apps : Removing(k) /\ handle[k] = i

\* The two connections of an item that nobody is removing ...
Paired(i) ==
  /\ IsEnd(item[i].client, "client") /\ IsEnd(item[i].server, "server")
  /\ conn[item[i].client].port = conn[item[i].server].port

\* ... and of the one k is removing.
Parted(k) ==
  LET i == handle[k] IN
    /\ ~conn[item[i].client].open
    /\ IF task[k].at = "scan"
         THEN IsEnd(item[i].server, "server") /\ EndsAt("client", conn[item[i].server].port) = {}
         ELSE ~conn[item[i].server].open

\* An item has two connections, which are no other's ...
PairsInv ==
  /\ \A i \in live : /\ item[i].client \in Slots /\ item[i].server \in Slots
                     /\ item[i].client # item[i].server
                     /\ ~Leaving(i) => Paired(i)
  /\ \A i, j \in live, s \in Slots : EndOf(s, i) /\ EndOf(s, j) => i = j
  /\ \A k \in Apps : Removing(k) => Parted(k)

\* ... nor forgotten, nor waiting for its other end.
OfNoItem(s) == \A i \in live : ~EndOf(s, i)
Loose(s) == IsEnd(s, "client") /\ OfNoItem(s)

\* The client's ends: each has its own port.
ClientsInv ==
  /\ \A s, t \in Slots : IsEnd(s, "client") /\ IsEnd(t, "client") /\ conn[s].port = conn[t].port => s = t
  /\ \A k \in Apps : task[k].at = "accept" => Loose(task[k].client) /\ task[k].client \notin leaked
  /\ \A s \in leaked : conn[s].open /\ OfNoItem(s)
  /\ \A s \in Slots : IsEnd(s, "client") =>
       \/ s \in leaked
       \/ \E i \in live : s = item[i].client
       \/ \E k \in Apps : task[k].at = "accept" /\ task[k].client = s

\* A connect under way waits for the other end of the connection to port p.
Awaited(p) == \E k \in Apps : task[k].at = "accept" /\ conn[task[k].client].port = p

\* The server's ends: one of an item, or forgotten, or the one the connect under way
\* waits for ...
ServersInv ==
  /\ \A s \in Slots : conn[s].open => conn[s].end \in {"client", "server"} /\ conn[s].port \in Ports
  /\ \A s \in Slots : IsEnd(s, "server") =>
       \/ s \in leaked
       \/ s \in ToSet(accepts)
       \/ \E i \in live : s = item[i].server
  /\ Len(accepts) <= 1
  /\ \A s \in ToSet(accepts) :
       /\ IsEnd(s, "server") /\ conn[s].rx # <<>> /\ OfNoItem(s) /\ s \notin leaked
       /\ Awaited(conn[s].port)

\* ... or else its hello is on its way.
HelloInv ==
  \A n \in DOMAIN net : net[n].to = "server" =>
    /\ accepts = <<>>
    /\ Awaited(net[n].port)
    /\ \A m \in DOMAIN net : net[m].to = "server" => m = n

\* The ports telemetry_send has been at with the packet it has.
Visited ==
  {conn[item[Listed[n]].server].port :
     n \in {n \in DOMAIN Listed : rx.cur = Null \/ \E m \in DOMAIN Listed : n < m /\ Listed[m] = rx.cur}}

\* Packet x has been sent to port p.
Done(x, p) ==
  /\ x \in 1..sent
  /\ \A n \in DOMAIN queue : x < queue[n]
  /\ Sending => x < rx.pkt \/ (x = rx.pkt /\ p \in Visited)

Rises(q) == \A m, n \in DOMAIN q : m < n => q[m] < q[n]

\* The packets to send are published ones, and go out in their order.
QueueInv ==
  /\ Rises(queue) /\ \A n \in DOMAIN queue : queue[n] \in 1..sent
  /\ Sending => rx.pkt \in 1..sent /\ \A n \in DOMAIN queue : rx.pkt < queue[n]

\* On their way to port p, in that order, are packets that have been sent there ...
FlowTo(p) ==
  /\ \A n \in To(p) : Done(net[n].pkt, p)
  /\ \A m, n \in To(p) : m < n => net[m].pkt < net[n].pkt

\* ... after those in the queue of the client's end s ...
FlowIn(s) ==
  /\ Rises(conn[s].rx)
  /\ \A m \in DOMAIN conn[s].rx :
       /\ Done(conn[s].rx[m], conn[s].port)
       /\ \A n \in To(conn[s].port) : conn[s].rx[m] < net[n].pkt

\* ... and these after what app k, whose end it is, has read.
FlowSeen(k, s) ==
  /\ seen[k] # 0 => Done(seen[k], conn[s].port)
  /\ \A m \in DOMAIN conn[s].rx : seen[k] < conn[s].rx[m]
  /\ \A n \in To(conn[s].port) : seen[k] < net[n].pkt

\* Why ReadsInOrder holds: what is on its way to a port rises, whoever had the
\* port when it was sent, and telemetry_send has nothing to send there that it
\* has sent there before.
FlowInv ==
  /\ QueueInv
  /\ \A p \in Ports : FlowTo(p)
  /\ \A s \in Slots : IsEnd(s, "client") => FlowIn(s)
  /\ \A k \in Connected : FlowSeen(k, item[handle[k]].client)

\* An app without a pubsub_conn has read nothing.
FreshInv == \A k \in Apps : handle[k] = Null => seen[k] = 0
=============================================================================
