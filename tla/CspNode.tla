------------------------------- MODULE CspNode -------------------------------
(***************************************************************************)
(* libcsp inside the command daemon, as cmd-control-daemon/source/main.c   *)
(* sets it up: a pool of packet buffers, a FIFO to each side, the thread   *)
(* fifo_rx, the router task, the table of connections and the queue of the *)
(* listening socket.  The router and fifo_rx are actions here; what main   *)
(* calls are operators for CncDaemon.                                      *)
(*                                                                         *)
(* A FIFO is a stream: write() puts in a frame, and read() takes up to     *)
(* ReadSize cells of whatever is there, of one frame or of several.  A     *)
(* frame of n cells stands for one that needs n such units.                *)
(***************************************************************************)
EXTENDS Naturals, FiniteSets, Sequences, SequencesExt

CONSTANTS
  NumBuffers,   \* Buffers of csp_buffer_init.
  Slots,        \* Entries of arr_conn, less the one of the listening socket.
  NoSlot,
  ListenQueue,  \* Connections csp_listen lets wait.
  ReadSize,     \* Cells one read() of a FIFO returns at most.
  Ports,        \* Ephemeral ports of clients.
  NoPort,
  Noise,        \* Contents of a buffer that are no request.
  Answer        \* What main puts into a buffer to send it.

ASSUME CspAssumption ==
  /\ NumBuffers \in Nat \ {0}
  /\ ListenQueue \in Nat \ {0}
  /\ ReadSize \in Nat \ {0}
  /\ NoSlot \notin Slots
  /\ NoPort \notin Ports
  /\ Noise # Answer

VARIABLES
  up,       \* The FIFO from the clients, as cells.
  pool,     \* The free buffers, in the order they will be given, and refcounts.
  mem,      \* mem[b]: what buffer b holds, or last held: nobody clears it.
  rx,       \* fifo_rx: where it is, and the buffer it reads into.
  qfifo,    \* Buffers of the packets waiting for the router.
  route,    \* csp_route_work: where it is, its packet's buffer and connection.
  conn,     \* conn[s]: entry s of arr_conn.
  socket,   \* How far the listening socket is set up.
  accepts,  \* Connections waiting for csp_accept, oldest first.
  again     \* History: clients whose request came up again in its old buffer.

memVars == <<mem, again>>
cspVars == <<up, pool, memVars, rx, qfifo, route, conn, socket, accepts>>

Buffers == 1..NumBuffers
NoBuf == 0

\* The router between two packets.
Idle == [at |-> "idle", pkt |-> NoBuf, slot |-> NoSlot]

CspInit ==
  /\ up = <<>>
  /\ pool = [free |-> [i \in Buffers |-> i], ref |-> [b \in Buffers |-> 0]]
  /\ mem = [b \in Buffers |-> Noise]
  /\ again = {}
  /\ rx = [at |-> "off", buf |-> NoBuf]
  /\ qfifo = <<>>
  /\ route = Idle
  /\ conn = [s \in Slots |-> [open |-> FALSE, port |-> NoPort, rx |-> <<>>, post |-> "never"]]
  /\ socket = "none"
  /\ accepts = <<>>

-----------------------------------------------------------------------------
(***************************************************************************)
(* The FIFOs.                                                              *)
(***************************************************************************)

\* csp_fifo_tx of either side: one write() of the whole frame.
Frame(m) == [i \in 1..m.size |-> [msg |-> m, at |-> i]]

\* What read() takes from a FIFO that is not empty, and what it leaves.
Packet(fifo) == IF Head(fifo).at = 1 THEN Head(fifo).msg ELSE Noise
Unread(fifo) == SubSeq(fifo, ReadSize + 1, Len(fifo))

(***************************************************************************)
(* The buffers.                                                            *)
(***************************************************************************)

\* csp_buffer_get: the buffer given, and the pool without it.
Given == Head(pool.free)
Taken == [free |-> Tail(pool.free), ref |-> [pool.ref EXCEPT ![Given] = @ + 1]]

\* csp_buffer_free: one that is free already is left alone.
csp_buffer_free(p, b) ==
  CASE p.ref[b] = 0 -> p
    [] p.ref[b] = 1 -> [free |-> Append(p.free, b), ref |-> [p.ref EXCEPT ![b] = 0]]
    [] OTHER -> [p EXCEPT !.ref[b] = @ - 1]

\* csp_conn_flush_rx_queue.
FreeAll(p, pkts) ==
  LET after[n \in 0..Len(pkts)] ==
        IF n = 0 THEN p ELSE csp_buffer_free(after[n - 1], pkts[n])
  IN after[Len(pkts)]

\* The request in buffer b, as the router and main find it.
Contents(b) == IF mem[b] = Answer THEN Noise ELSE mem[b]

(***************************************************************************)
(* The connections.                                                        *)
(***************************************************************************)

\* csp_conn_find: connections a packet sent from `port` belongs to.
Matching(port) == {s \in Slots : conn[s].open /\ conn[s].port = port}

FreeSlots == {s \in Slots : ~conn[s].open}

\* csp_conn_new: a free entry, its queue emptied.
Opened(s, port, post) ==
  [conn EXCEPT ![s] = [open |-> TRUE, port |-> port, rx |-> <<>>, post |-> post]]

\* csp_close.
Closed(s) == [conn EXCEPT ![s] = [@ EXCEPT !.open = FALSE, !.rx = <<>>]]
csp_close(s, p) ==
  IF conn[s].open
    THEN pool' = FreeAll(p, conn[s].rx) /\ conn' = Closed(s)
    ELSE pool' = p /\ UNCHANGED conn

-----------------------------------------------------------------------------
(***************************************************************************)
(* The thread fifo_rx.                                                     *)
(***************************************************************************)

\* csp_buffer_get: with the pool empty the buffer is NULL, read() fails, and
\* the thread ends.
RxGet ==
  /\ rx.at = "get"
  /\ IF pool.free = <<>>
       THEN rx' = [at |-> "ended", buf |-> NoBuf] /\ UNCHANGED pool
       ELSE rx' = [at |-> "read", buf |-> Given] /\ pool' = Taken
  /\ UNCHANGED <<up, memVars, qfifo, route, conn, socket, accepts>>

\* Buffer b after read(): the first of the frames in it, or the middle of one.
Reads(b) == mem' = [mem EXCEPT ![b] = Packet(up)] /\ UNCHANGED again

\* The last few bytes of a frame, shorter than the length and id of a packet:
\* the request b held before is there again, maybe from another port.
ReadsAgain(b) ==
  /\ Head(up).at # 1
  /\ Len(up) = 1
  /\ Contents(b) # Noise
  /\ \E port \in Ports : mem' = [mem EXCEPT ![b].port = port]
  /\ again' = again \union {mem[b].from}

\* read() and csp_new_packet.  Of several frames in one read only the first
\* is seen; the router's queue is as long as the pool, so it has room.
RxRead ==
  /\ rx.at = "read"
  /\ up # <<>>
  /\ Reads(rx.buf) \/ ReadsAgain(rx.buf)
  /\ up' = Unread(up)
  /\ qfifo' = Append(qfifo, rx.buf)
  /\ rx' = [at |-> "get", buf |-> NoBuf]
  /\ UNCHANGED <<pool, route, conn, socket, accepts>>

(***************************************************************************)
(* The router task, csp_route_work.                                        *)
(***************************************************************************)

\* Mutant: a packet dropped without giving its buffer back.
RouteDropLeaks(pkt) == UNCHANGED <<pool, route, conn>>

RouteDrop(pkt) ==
  /\ pool' = csp_buffer_free(pool, pkt)
  /\ UNCHANGED <<route, conn>>

\* The next packet's connection is found, or opened when the port is bound.
\* The socket has no queue for it between csp_bind and csp_listen.
RouteTo(pkt, port) ==
  \/ \E s \in Matching(port) :
       /\ route' = [at |-> "enqueue", pkt |-> pkt, slot |-> s]
       /\ UNCHANGED <<pool, conn>>
  \/ /\ Matching(port) = {}
     /\ socket # "none"
     /\ \E s \in FreeSlots :
          /\ pool' = FreeAll(pool, conn[s].rx)
          /\ conn' = Opened(s, port, IF socket = "listening" THEN "due" ELSE "never")
          /\ route' = [at |-> "enqueue", pkt |-> pkt, slot |-> s]
  \/ /\ Matching(port) = {}
     /\ socket = "none" \/ FreeSlots = {}
     /\ RouteDrop(pkt)

\* The header of a noise packet is text: mostly of another address.
RouteTake ==
  /\ route.at = "idle"
  /\ qfifo # <<>>
  /\ LET pkt == Head(qfifo) IN
       IF Contents(pkt) = Noise
         THEN RouteDrop(pkt) \/ \E port \in Ports : RouteTo(pkt, port)
         ELSE RouteTo(pkt, mem[pkt].port)
  /\ qfifo' = Tail(qfifo)
  /\ UNCHANGED <<up, memVars, rx, socket, accepts>>

\* csp_udp_new_packet, first the packet ...
RouteEnqueue ==
  /\ route.at = "enqueue"
  /\ conn' = [conn EXCEPT ![route.slot].rx = Append(@, route.pkt)]
  /\ route' = IF conn[route.slot].post = "due"
                THEN [at |-> "post", pkt |-> NoBuf, slot |-> route.slot]
                ELSE Idle
  /\ UNCHANGED <<up, pool, memVars, rx, qfifo, socket, accepts>>

\* Mutant: a connection the socket's queue has no room for, neither queued nor closed.
RoutePostForgets ==
  /\ route.at = "post"
  /\ accepts' = IF Len(accepts) < ListenQueue THEN Append(accepts, route.slot) ELSE accepts
  /\ conn' = [conn EXCEPT ![route.slot].post = "done"]
  /\ route' = Idle
  /\ UNCHANGED <<up, pool, memVars, rx, qfifo, socket>>

\* Mutant: conn->socket not cleared: the next packet queues the connection again.
RoutePostAgain ==
  /\ route.at = "post"
  /\ IF Len(accepts) < ListenQueue
       THEN accepts' = Append(accepts, route.slot) /\ UNCHANGED <<pool, conn>>
       ELSE csp_close(route.slot, pool) /\ UNCHANGED accepts
  /\ route' = Idle
  /\ UNCHANGED <<up, memVars, rx, qfifo, socket>>

\* ... then the connection, once: conn->socket is cleared.
RoutePost ==
  /\ route.at = "post"
  /\ IF Len(accepts) < ListenQueue
       THEN /\ accepts' = Append(accepts, route.slot)
            /\ conn' = [conn EXCEPT ![route.slot].post = "done"]
            /\ UNCHANGED pool
       ELSE /\ csp_close(route.slot, pool)
            /\ UNCHANGED accepts
  /\ route' = Idle
  /\ UNCHANGED <<up, memVars, rx, qfifo, socket>>

RxThread == RxGet \/ RxRead
Router == RouteTake \/ RouteEnqueue \/ RoutePost
=============================================================================
