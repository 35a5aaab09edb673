------------------------------ MODULE CncSystem ------------------------------
(***************************************************************************)
(* The command line client, cmd-control-client/source, composed with the   *)
(* daemon.  A client is one run of the c2 program: it sends its command,   *)
(* and only then binds and listens for the answer, a second long.  All     *)
(* clients have the same address and read from the same FIFO.              *)
(***************************************************************************)
EXTENDS CncDaemon

CONSTANTS RequestSize  \* Cells of a request.

ASSUME ClientAssumption == RequestSize \in Nat \ {0}

VARIABLES
  cl,      \* cl[c]: where the client is.
  inq,     \* inq[c]: packets its fifo_rx has read, before its router.
  inbox,   \* inbox[c]: packets its router delivered.
  shown,   \* shown[c]: the response it printed.
  asked,   \* asked[c]: the request it was started with.
  crossed  \* History: two clients overlapped, or one left too early.

clientVars == <<cl, inq, inbox, shown, asked>>
vars == <<cspVars, daemonVars, down, clientVars, crossed>>

ClientState == {"idle", "encode", "sent", "listening", "done"}

\* Both FIFOs are open between init() and the end of the process.
Active(c) == cl[c] \in {"encode", "sent", "listening"}

NoRequest == [from |-> NoSlot]

Init ==
  /\ DaemonInit
  /\ cl = [c \in Clients |-> "idle"]
  /\ inq = [c \in Clients |-> <<>>]
  /\ inbox = [c \in Clients |-> <<>>]
  /\ shown = [c \in Clients |-> NoReply]
  /\ asked = [c \in Clients |-> NoRequest]
  /\ crossed = FALSE

-----------------------------------------------------------------------------
\* m is a request of c.
From(m, c) == m \notin {Noise, Answer} /\ m.from = c

\* The request of c, or its response, is still on its way.
InDaemon(c) ==
  \/ \E b \in ToSet(qfifo) \union {route.pkt} \union UNION {ToSet(conn[s].rx) : s \in Slots} :
       b # NoBuf /\ From(mem[b], c)
  \/ main \in {"close", "parse", "running", "respond", "send"} /\ From(request, c)
Pending(c) ==
  \/ \E i \in DOMAIN up : up[i].at = 1 /\ up[i].msg.from = c
  \/ InDaemon(c)
  \/ \E i \in DOMAIN down : down[i].at = 1 /\ down[i].msg # Noise /\ down[i].msg.for = c

\* main: cnc_client_parse_cl_args and init.  srand() chooses the first port.
ClientStart(c, cmd, port) ==
  /\ cl[c] = "idle"
  /\ cl' = [cl EXCEPT ![c] = "encode"]
  /\ asked' = [asked EXCEPT ![c] = [from |-> c, port |-> port, cmd |-> cmd, size |-> RequestSize]]
  /\ crossed' = (crossed \/ \E d \in Clients : Active(d))
  /\ UNCHANGED <<cspVars, daemonVars, down, inq, inbox, shown>>

\* The process ends.  A FIFO nobody has open loses its contents.
ClientEnds(c) ==
  /\ cl' = [cl EXCEPT ![c] = "done"]
  /\ inq' = [inq EXCEPT ![c] = <<>>]
  /\ inbox' = [inbox EXCEPT ![c] = <<>>]
  /\ crossed' = (crossed \/ Pending(c))
  /\ IF main = "off" /\ \A d \in Clients \ {c} : ~Active(d)
       THEN up' = <<>> /\ down' = <<>>
       ELSE UNCHANGED <<up, down>>
  /\ UNCHANGED <<pool, memVars, rx, qfifo, route, conn, socket, accepts, daemonVars, asked>>

\* cnc_client_encode_packet has no return statement: it may yield false.
ClientGivesUp(c) ==
  /\ cl[c] = "encode"
  /\ ClientEnds(c)
  /\ UNCHANGED shown

\* send_msg, with csp_fifo_tx.
ClientSends(c) ==
  /\ cl[c] = "encode"
  /\ up' = up \o Frame(asked[c])
  /\ cl' = [cl EXCEPT ![c] = "sent"]
  /\ UNCHANGED <<pool, memVars, rx, qfifo, route, conn, socket, accepts>>
  /\ UNCHANGED <<daemonVars, down, inq, inbox, shown, asked, crossed>>

\* cnc_client_get_response: csp_bind and csp_listen.
ClientListens(c) ==
  /\ cl[c] = "sent"
  /\ cl' = [cl EXCEPT ![c] = "listening"]
  /\ UNCHANGED <<cspVars, daemonVars, down, inq, inbox, shown, asked, crossed>>

\* fifo_rx of the client, running since init().
ClientReads(c) ==
  /\ Active(c)
  /\ down # <<>>
  /\ inq' = [inq EXCEPT ![c] = Append(@, Packet(down))]
  /\ down' = Unread(down)
  /\ UNCHANGED <<cspVars, daemonVars, cl, inbox, shown, asked, crossed>>

\* Its router: what comes before csp_listen, or is of no known address, is lost.
ClientRoutes(c) ==
  /\ inq[c] # <<>>
  /\ \/ /\ cl[c] = "listening"
        /\ inbox' = [inbox EXCEPT ![c] = Append(@, Head(inq[c]))]
     \/ /\ cl[c] # "listening" \/ Head(inq[c]) = Noise
        /\ UNCHANGED inbox
  /\ inq' = [inq EXCEPT ![c] = Tail(@)]
  /\ UNCHANGED <<cspVars, daemonVars, down, cl, shown, asked, crossed>>

\* csp_accept and csp_read give a packet: it is the answer, and main returns.
ClientShows(c) ==
  /\ cl[c] = "listening"
  /\ inbox[c] # <<>>
  /\ shown' = [shown EXCEPT ![c] = IF Head(inbox[c]) = Noise THEN @ ELSE Head(inbox[c])]
  /\ ClientEnds(c)

\* Mutant: csp_accept with CSP_MAX_DELAY.
ClientWaits(c) ==
  /\ cl[c] = "listening"
  /\ inbox[c] = <<>>
  /\ UNCHANGED vars

\* csp_accept finds nothing for a second: main returns.
ClientTimesOut(c) ==
  /\ cl[c] = "listening"
  /\ inbox[c] = <<>>
  /\ ClientEnds(c)
  /\ UNCHANGED shown

ClientMain(c) ==
  ClientGivesUp(c) \/ ClientSends(c) \/ ClientListens(c) \/ ClientShows(c) \/ ClientTimesOut(c)

RxStep == RxThread /\ UNCHANGED <<daemonVars, down, clientVars, crossed>>
RouterStep == Router /\ UNCHANGED <<daemonVars, down, clientVars, crossed>>
MainStep == MainThread /\ UNCHANGED <<clientVars, crossed>>

Next ==
  \/ RxStep \/ RouterStep \/ MainStep
  \/ \E c \in Clients :
       \/ \E cmd \in Commands, port \in Ports : ClientStart(c, cmd, port)
       \/ ClientReads(c) \/ ClientRoutes(c) \/ ClientMain(c)

\* Threads run on, commands end, and clients are not stopped.
Fairness ==
  /\ WF_vars(RxStep) /\ WF_vars(RouterStep) /\ WF_vars(MainStep)
  /\ \A c \in Clients : WF_vars(ClientMain(c))

Spec == Init /\ [][Next]_vars
FairSpec == Spec /\ Fairness

-----------------------------------------------------------------------------
Requests == [from : Clients, port : Ports, cmd : Commands, size : {RequestSize}]
\* A buffer that main has filled holds no request.
ASSUME AnswerAssumption == Answer \notin Requests

Replies == [for : Clients, kind : {"result", "error"}, code : 0..255,
            size : 1..EncodeSize \union {ErrorSize}]

CspTypeOK ==
  /\ pool \in [free : Seq(Buffers), ref : [Buffers -> 0..1]]
  /\ mem \in [Buffers -> Requests \union {Noise, Answer}]
  /\ again \in SUBSET Clients
  /\ rx \in [at : {"off", "get", "read", "ended"}, buf : Buffers \union {NoBuf}]
  /\ qfifo \in Seq(Buffers)
  /\ route \in [at : {"idle", "enqueue", "post"}, pkt : Buffers \union {NoBuf},
                slot : Slots \union {NoSlot}]
  /\ conn \in [Slots -> [open : BOOLEAN, port : Ports \union {NoPort}, rx : Seq(Buffers),
                         post : {"never", "due", "done"}]]
  /\ socket \in {"none", "bound", "listening"}
  /\ accepts \in Seq(Slots)

\* Every variable of the daemon, its node and the clients keeps its type.
TypeOK ==
  /\ CspTypeOK
  /\ up \in Seq([msg : Requests, at : 1..RequestSize])
  /\ main \in Main
  /\ held \in Slots \union {NoSlot}
  /\ request \in Requests \union {Noise}
  /\ err \in BOOLEAN
  /\ reply \in Replies \union {NoReply}
  /\ out \in Buffers \union {NoBuf}
  /\ down \in Seq([msg : Replies \union {Noise}, at : Nat])
  /\ runs \in [Clients -> Nat]
  /\ twice \in SUBSET Buffers
  /\ cl \in [Clients -> ClientState]
  /\ inq \in [Clients -> Seq(Replies \union {Noise})]
  /\ inbox \in [Clients -> Seq(Replies \union {Noise})]
  /\ shown \in [Clients -> Replies \union {NoReply}]
  /\ asked \in [Clients -> Requests \union {NoRequest}]
  /\ crossed \in BOOLEAN

\* The places of the packets of a queue that are in buffer b.
In(q, b) == {i \in DOMAIN q : q[i] = b}

\* Where buffer b is: free, with the router, in a connection, being read into,
\* or being sent.
Put(use, s, S) == {<<use, s, i>> : i \in S}
Places(b) ==
  Put("free", NoSlot, {i \in DOMAIN pool.free : pool.free[i] = b})
  \union Put("queued", NoSlot, In(qfifo, b))
  \union (UNION {Put("conn", s, In(conn[s].rx, b)) : s \in Slots})
  \union {w \in {<<"read", NoSlot, 0>>} : rx.at = "read" /\ rx.buf = b}
  \union {w \in {<<"enqueue", NoSlot, 0>>} : route.at = "enqueue" /\ route.pkt = b}
  \union {w \in {<<"send", NoSlot, 0>>} : main = "send" /\ out = b}

\* Every buffer of the daemon is in one place at any time: none is lost when a
\* packet is dropped or a connection closed under it, and none is in use by
\* two.  The exception is a buffer that cnc_daemon_send_buffer, which frees
\* the packet csp_send has freed, took from who had got it in between.
BufferHasOneOwner == \A b \in Buffers \ twice : \E w \in Places(b) : Places(b) = {w}

\* An open connection waits for csp_accept or is worked on, unless it was
\* opened between csp_bind and csp_listen.
NoConnLost ==
  \A s \in Slots : conn[s].open =>
    \/ s \in ToSet(accepts) \union {held, route.slot}
    \/ conn[s].post = "never" /\ conn[s].port # NoPort

\* The daemon runs what a client asked for once at most: the command in
\* data_wrapper is never taken for a new one, however packets arrive.  Twice
\* it is run only when fifo_rx found the request again in a buffer it had used
\* for it, or when two had that buffer.
EachRunOnce == \A c \in Clients : runs[c] > 1 => c \in again \/ twice # {}

\* A client that prints an error prints it of a command that could not be run,
\* and a result of one that was: nothing of the command before shows through.
RightKind ==
  \A c \in Clients : shown[c] # NoReply =>
    LET d == shown[c].for IN
      IF shown[c].kind = "error" THEN asked[d].cmd.path # "ok" /\ runs[d] = 0 ELSE runs[d] > 0

\* As long as one client runs at a time, none leaves while its command or the
\* answer is on its way, and no request is read again, every client prints the
\* answer to its own command.
OwnAnswer ==
  ~crossed /\ again = {} => \A c \in Clients : shown[c] # NoReply => shown[c].for = c

\* main gets to every connection the router queued for it.
QueueDrains == \A s \in Slots : s \in ToSet(accepts) ~> s \notin ToSet(accepts)

\* A client ends, whether or not it gets an answer.
ClientReturns == \A c \in Clients : Active(c) ~> cl[c] = "done"

-----------------------------------------------------------------------------
\* The pool: a buffer is free, and once in the queue of free buffers, or has
\* one user.
PoolOK(p) ==
  /\ p \in [free : Seq(Buffers), ref : [Buffers -> 0..1]]
  /\ IsInjective(p.free)
  /\ \A b \in Buffers : p.ref[b] = 0 <=> b \in ToSet(p.free)

\* Why NoConnLost holds: every connection that is open is the router's, waits
\* for csp_accept with a packet in it, or is main's.
ConnInv ==
  /\ IsInjective(accepts)
  /\ \A s \in ToSet(accepts) :
       conn[s].open /\ conn[s].post = "done" /\ conn[s].rx # <<>> /\ s # held
  /\ \A s \in Slots : conn[s].open =>
       /\ conn[s].post = "due" => route.at # "idle" /\ route.slot = s
       /\ conn[s].post = "done" => s \in ToSet(accepts) \union {held}
       /\ conn[s].post = "never" /\ conn[s].port = NoPort => s = held
  /\ route.at # "idle" =>
       /\ route.slot \in Slots
       /\ conn[route.slot].post = "due" => conn[route.slot].open
  /\ route.at = "post" => conn[route.slot].post = "due" /\ conn[route.slot].rx # <<>>
  /\ IF main \in {"close", "send", "release"} THEN held \in Slots /\ conn[held].open
                                             ELSE held = NoSlot
  /\ main = "close" => conn[held].post = "done"
  /\ main \in {"send", "release"} => conn[held].post = "never"

CoreInv ==
  /\ TypeOK /\ PoolOK(pool) /\ ConnInv
  /\ rx.at = "read" => rx.buf \in Buffers
  /\ route.at = "enqueue" => route.pkt \in Buffers
  /\ main \in {"send", "release"} => out \in Buffers
  /\ main = "running" => request \in Requests
  /\ main \in {"respond", "send"} => reply \in Replies
  /\ \A c \in Clients : cl[c] # "idle" => asked[c] \in Requests /\ asked[c].from = c

\* Why EachRunOnce holds: the request of c is at k, there in connection s, and
\* at no other place.
Holds(q, c) == {i \in DOMAIN q : From(mem[q[i]], c)}
Starts(c) == {i \in DOMAIN up : up[i].at = 1 /\ up[i].msg.from = c}

RequestAt(c, k, s) ==
  /\ Starts(c) # {} => k = "up"
  /\ Holds(qfifo, c) # {} => k = "queued"
  /\ route.at = "enqueue" /\ From(mem[route.pkt], c) => k = "enqueue"
  /\ \A t \in Slots : Holds(conn[t].rx, c) # {} => k = "conn" /\ s = t
  /\ main \in {"close", "parse"} /\ From(request, c) => k = "taken"
  /\ runs[c] > 0 => k = "ran"
  /\ cl[c] \in {"idle", "encode"} => k = "none"

Single(S) == \A i, j \in S : i = j

OnceInv ==
  \A c \in Clients : c \in again \/ twice # {} \/
    /\ Single(Starts(c)) /\ Single(Holds(qfifo, c))
    /\ \A t \in Slots : Single(Holds(conn[t].rx, c))
    /\ runs[c] <= 1
    /\ \E k \in {"none", "up", "queued", "enqueue", "conn", "taken", "ran"}, s \in Slots \union {NoSlot} :
         RequestAt(c, k, s)

\* Why RightKind holds: a request stays what its client asked for, and a
\* response fits it.
Asked(m) == m \notin {Noise, Answer} => cl[m.from] # "idle" /\ m.cmd = asked[m.from].cmd
Fits(r) ==
  r \notin {Noise, NoReply} =>
    /\ cl[r.for] # "idle"
    /\ IF r.kind = "error" THEN asked[r.for].cmd.path # "ok" ELSE runs[r.for] > 0

KindInv ==
  /\ \A c \in Clients : runs[c] > 0 => cl[c] # "idle" /\ asked[c].cmd.path = "ok"
  /\ \A i \in DOMAIN up : Asked(up[i].msg)
  /\ \A b \in Buffers : Asked(mem[b])
  /\ Asked(request)
  /\ main \notin {"respond", "send", "release"} => ~err
  /\ main = "running" => request # Noise /\ runs[request.from] > 0
  /\ Fits(reply)
  /\ \A i \in DOMAIN down : Fits(down[i].msg)
  /\ \A c \in Clients :
       /\ \A i \in DOMAIN inq[c] : Fits(inq[c][i])
       /\ \A i \in DOMAIN inbox[c] : Fits(inbox[c][i])
       /\ Fits(shown[c]) /\ (shown[c] = NoReply \/ shown[c] # Noise)

\* Why OwnAnswer holds: all there is is of the one client that runs.
Own(r, c) == r \notin {Noise, NoReply} => r.for = c

OwnInv ==
  /\ main \in {"respond", "send"} => request # Noise /\ reply.for = request.from
  /\ ~crossed /\ again = {} =>
       /\ \A c, d \in Clients : Active(c) /\ Active(d) => c = d
       /\ \A c \in Clients : Pending(c) => Active(c)
       /\ \A c \in Clients :
            /\ \A i \in DOMAIN inq[c] : Own(inq[c][i], c)
            /\ \A i \in DOMAIN inbox[c] : Own(inbox[c][i], c)
            /\ Own(shown[c], c)

\* Why BufferHasOneOwner holds: buffer b is at k, there in connection s, and at
\* no other place.
BufferAt(b, k, s) ==
  /\ pool.ref[b] = 0 <=> k = "free"
  /\ In(qfifo, b) # {} <=> k = "queued"
  /\ \A t \in Slots : In(conn[t].rx, b) # {} <=> k = "conn" /\ s = t
  /\ rx.at = "read" /\ rx.buf = b <=> k = "read"
  /\ route.at = "enqueue" /\ route.pkt = b <=> k = "enqueue"
  /\ main = "send" /\ out = b <=> k = "send"

BufInv ==
  /\ \A b \in Buffers \ twice :
       /\ Single(In(qfifo, b))
       /\ \A t \in Slots : Single(In(conn[t].rx, b))
       /\ \E k \in {"free", "queued", "conn", "read", "enqueue", "send"}, s \in Slots \union {NoSlot} :
            BufferAt(b, k, s) /\ (k = "conn" => s \in Slots)
  /\ main = "off" => rx.at = "off"

=============================================================================
