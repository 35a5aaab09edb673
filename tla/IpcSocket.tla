------------------------------ MODULE IpcSocket ------------------------------
(***************************************************************************)
(* The stream sockets of ipc/source/socket.c, as the telemetry service and *)
(* its clients use them: SCTP over the loopback address, so a connection   *)
(* keeps message boundaries and order.  A connection is used once; its     *)
(* name stands for both ends.  Every call of socket.c that changes state   *)
(* is an action operator here; what a caller does around it is the         *)
(* caller's business, in the modules that extend this one.                 *)
(***************************************************************************)
EXTENDS Naturals, Sequences, SequencesExt

CONSTANTS
  Conns,    \* Connections a behaviour may open.
  Backlog,  \* The num_connections given to listen().
  ChanCap   \* Messages one direction holds before send() blocks.

ASSUME SocketAssumption ==
  /\ Backlog \in Nat \ {0}
  /\ ChanCap \in Nat \ {0}

VARIABLES
  cl,       \* cl[c]: the client's end, "idle", "open" or "closed".
  srv,      \* srv[c]: the server's end, see SrvState.
  backlog,  \* Connections established and not yet accepted, oldest first.
  toSrv,    \* toSrv[c]: messages sent by the client and not yet received.
  toCl,     \* toCl[c]: every message ever sent to the client.
  rd        \* rd[c]: how many messages of toCl[c] the client has received.

sockVars == <<cl, srv, backlog, toSrv, toCl, rd>>

ClState == {"idle", "open", "closed"}

\* "queued": in the backlog; "fd": accepted, a descriptor of the server;
\* "closed": descriptor given back; "leaked": is_active is false, yet the
\* descriptor is still open; "lost": the kernel dropped it from the backlog.
SrvState == {"none", "queued", "fd", "closed", "leaked", "lost"}

SocketInit ==
  /\ cl = [c \in Conns |-> "idle"]
  /\ srv = [c \in Conns |-> "none"]
  /\ backlog = <<>>
  /\ toSrv = [c \in Conns |-> <<>>]
  /\ toCl = [c \in Conns |-> <<>>]
  /\ rd = [c \in Conns |-> 0]

(***************************************************************************)
(* The client's end.                                                       *)
(***************************************************************************)

\* kprv_socket_client_connect: connect() succeeds while the listener queues.
kprv_socket_client_connect(c) ==
  /\ cl[c] = "idle"
  /\ Len(backlog) <= Backlog
  /\ cl' = [cl EXCEPT ![c] = "open"]
  /\ srv' = [srv EXCEPT ![c] = "queued"]
  /\ backlog' = Append(backlog, c)
  /\ UNCHANGED <<toSrv, toCl, rd>>

\* Connections whose server end still takes data from the client.
Reachable(c) == srv[c] \in {"queued", "fd"}

\* kprv_socket_send by the client; send() blocks while the channel is full.
ClientSend(c, m) ==
  /\ cl[c] = "open"
  /\ Reachable(c)
  /\ Len(toSrv[c]) < ChanCap
  /\ toSrv' = [toSrv EXCEPT ![c] = Append(@, m)]
  /\ UNCHANGED <<cl, srv, backlog, toCl, rd>>

\* kprv_socket_send by the client after the server's end has gone: EPIPE.
ClientSendFails(c) == cl[c] = "open" /\ ~Reachable(c)

\* kprv_socket_recv by the client, of a message.
ClientRecv(c) ==
  /\ cl[c] = "open"
  /\ rd[c] < Len(toCl[c])
  /\ rd' = [rd EXCEPT ![c] = @ + 1]
  /\ UNCHANGED <<cl, srv, backlog, toSrv, toCl>>

\* kprv_socket_recv by the client once the server's end is gone: recv()
\* returns 0, which the function reports as success.
ClientRecvEnd(c) ==
  /\ cl[c] = "open"
  /\ ~Reachable(c)
  /\ rd[c] = Len(toCl[c])

\* kprv_socket_close by the client, or the kernel for a client that died.
ClientClose(c) ==
  /\ cl[c] = "open"
  /\ cl' = [cl EXCEPT ![c] = "closed"]
  /\ UNCHANGED <<srv, backlog, toSrv, toCl, rd>>

(***************************************************************************)
(* The server's end.                                                       *)
(***************************************************************************)

\* kprv_socket_server_accept: takes the oldest connection of the backlog.
kprv_socket_server_accept(c, end) ==
  /\ backlog # <<>>
  /\ c = Head(backlog)
  /\ backlog' = Tail(backlog)
  /\ srv' = [srv EXCEPT ![c] = end]
  /\ UNCHANGED <<cl, toSrv, toCl, rd>>

\* kprv_socket_recv by the server: the next message of the client.
ServerRecv(c) ==
  /\ toSrv[c] # <<>>
  /\ toSrv' = [toSrv EXCEPT ![c] = Tail(@)]
  /\ UNCHANGED <<cl, srv, backlog, toCl, rd>>

\* The server's send() on c fails at once: is_active is false, or the client
\* has closed its end.
SendFails(c) == srv[c] # "fd" \/ cl[c] = "closed"

\* The server's send() on c has room for a message.
SendHasRoom(c) == ~SendFails(c) /\ Len(toCl[c]) - rd[c] < ChanCap

\* kprv_socket_send by the server, of message m.
ServerSend(c, m) ==
  /\ SendHasRoom(c)
  /\ toCl' = [toCl EXCEPT ![c] = Append(@, m)]
  /\ UNCHANGED <<cl, srv, backlog, toSrv, rd>>

\* kprv_socket_close by the server.  shutdown() fails with ENOTCONN when the
\* client's close has already ended the association, and close() is skipped.
ServerClose(c) ==
  /\ \/ srv' = [srv EXCEPT ![c] = "closed"]
     \/ cl[c] = "closed" /\ srv' = [srv EXCEPT ![c] = "leaked"]
  /\ UNCHANGED <<cl, backlog, toSrv, toCl, rd>>

\* The server's process ends and the kernel closes what it had open.
ServerEnds ==
  /\ srv' = [c \in Conns |-> IF srv[c] \in {"queued", "fd", "leaked"}
                             THEN "closed" ELSE srv[c]]
  /\ backlog' = <<>>
  /\ UNCHANGED <<cl, toSrv, toCl, rd>>

(***************************************************************************)
(* The kernel: a connection whose client closed it before the server took  *)
(* it from the backlog may vanish with everything sent on it.              *)
(***************************************************************************)
BacklogDrop(c) ==
  /\ srv[c] = "queued"
  /\ cl[c] = "closed"
  /\ srv' = [srv EXCEPT ![c] = "lost"]
  /\ \E i \in 1..Len(backlog) : backlog[i] = c /\ backlog' = RemoveAt(backlog, i)
  /\ toSrv' = [toSrv EXCEPT ![c] = <<>>]
  /\ UNCHANGED <<cl, toCl, rd>>
==============================================================================
