------------------------------ MODULE CncDaemon ------------------------------
(***************************************************************************)
(* The command daemon, cmd-control-daemon/source: main takes one command   *)
(* at a time from its CSP socket, runs it, and sends the result to the     *)
(* client's address.  The answer is not sent on the connection the command *)
(* came on; whoever listens at that address gets it.                       *)
(***************************************************************************)
EXTENDS CspNode

CONSTANTS
  Clients,     \* Runs of the command line client.
  Commands,    \* Commands a client may ask for: path, status, size.
  EncodeSize,  \* Cells of the largest response that fits in MTU bytes.
  ErrorSize    \* Cells of an error response.

\* path: "ok", "missing" when there is no such binary, "long" when its path
\* is too long.  status: what pclose() returns.  size: cells of the response.
ASSUME DaemonAssumption ==
  /\ Commands \subseteq [path : {"ok", "missing", "long"}, status : Nat, size : Nat \ {0}]
  /\ EncodeSize \in Nat \ {0}
  /\ ErrorSize \in Nat \ {0}

VARIABLES
  main,     \* Where main is.
  held,     \* The connection main works on.
  request,  \* data_wrapper: the last command received.
  err,      \* wrapper.err.
  reply,    \* The response being sent.
  out,      \* The buffer it is sent in.
  down,     \* The FIFO to the clients, as cells.
  runs,     \* History: runs[c] is how often the command of c was run.
  twice     \* History: buffers Release freed while somebody else used them.

daemonVars == <<main, held, request, err, reply, out, runs, twice>>

Main == {"off", "init", "bound", "accept", "close", "parse", "running", "respond",
         "send", "release"}

NoReply == [kind |-> "none"]

DaemonInit ==
  /\ CspInit
  /\ main = "off"
  /\ held = NoSlot
  /\ request = Noise
  /\ err = FALSE
  /\ reply = NoReply
  /\ out = NoBuf
  /\ down = <<>>
  /\ runs = [c \in Clients |-> 0]
  /\ twice = {}

-----------------------------------------------------------------------------
\* init: the buffers, the FIFOs, fifo_rx and the router are there before the
\* socket is.
DaemonStart ==
  /\ main = "off"
  /\ main' = "init"
  /\ rx' = [rx EXCEPT !.at = "get"]
  /\ UNCHANGED <<up, pool, memVars, qfifo, route, conn, socket, accepts, down>>
  /\ UNCHANGED <<held, request, err, reply, out, runs, twice>>

DaemonBind ==
  /\ main = "init"
  /\ main' = "bound"
  /\ socket' = "bound"
  /\ UNCHANGED <<up, pool, memVars, rx, qfifo, route, conn, accepts, down>>
  /\ UNCHANGED <<held, request, err, reply, out, runs, twice>>

DaemonListen ==
  /\ main = "bound"
  /\ main' = "accept"
  /\ socket' = "listening"
  /\ UNCHANGED <<up, pool, memVars, rx, qfifo, route, conn, accepts, down>>
  /\ UNCHANGED <<held, request, err, reply, out, runs, twice>>

\* Mutant: zero_vars without wrapper->err.
NextKeepsErr == main' = "accept" /\ reply' = NoReply /\ UNCHANGED err

\* The next round of main's loop: zero_vars.
NextCommand ==
  /\ main' = "accept"
  /\ err' = FALSE
  /\ reply' = NoReply

\* Mutant: the packet is freed and not copied, as after one that came before it.
AcceptKeepsRequest ==
  /\ main = "accept"
  /\ accepts # <<>>
  /\ LET s == Head(accepts) IN
       /\ held' = s
       /\ request' = IF request = Noise /\ conn[s].rx # <<>> THEN Contents(Head(conn[s].rx)) ELSE request
       /\ pool' = FreeAll(pool, conn[s].rx)
       /\ conn' = [conn EXCEPT ![s].rx = <<>>]
  /\ accepts' = Tail(accepts)
  /\ main' = "close"
  /\ UNCHANGED <<up, memVars, rx, qfifo, route, socket, down, err, reply, out, runs, twice>>

\* cnc_daemon_get_buffer: csp_accept, csp_read, and the copy into
\* data_wrapper.  Without a packet data_wrapper stays as it was.
AcceptCommand ==
  /\ main = "accept"
  /\ accepts # <<>>
  /\ LET s == Head(accepts) IN
       /\ held' = s
       /\ IF conn[s].open /\ conn[s].rx # <<>>
            THEN /\ request' = Contents(Head(conn[s].rx))
                 /\ pool' = csp_buffer_free(pool, Head(conn[s].rx))
                 /\ conn' = [conn EXCEPT ![s].rx = Tail(@)]
            ELSE UNCHANGED <<request, pool, conn>>
  /\ accepts' = Tail(accepts)
  /\ main' = "close"
  /\ UNCHANGED <<up, memVars, rx, qfifo, route, socket, down, err, reply, out, runs, twice>>

\* csp_close, with what else was sent on the connection.
CloseCommand ==
  /\ main = "close"
  /\ csp_close(held, pool)
  /\ held' = NoSlot
  /\ main' = "parse"
  /\ UNCHANGED <<up, memVars, rx, qfifo, route, socket, accepts, down>>
  /\ UNCHANGED <<request, err, reply, out, runs, twice>>

Parsing(path) == main = "parse" /\ request # Noise /\ request.cmd.path = path

\* cnc_daemon_parse_buffer fails: no response.
RejectCommand ==
  /\ main = "parse"
  /\ request = Noise
  /\ NextCommand
  /\ UNCHANGED <<cspVars, down, held, request, out, runs, twice>>

\* Mutant: return_code as wide as the status.
WideResponse(isErr) ==
  [for |-> request.from, kind |-> IF isErr THEN "error" ELSE "result",
   code |-> IF isErr THEN 0 ELSE request.cmd.status,
   size |-> IF isErr THEN ErrorSize ELSE request.cmd.size]

\* cnc_daemon_send_result: the type of the response is chosen by wrapper.err.
Response(isErr) ==
  [for |-> request.from, kind |-> IF isErr THEN "error" ELSE "result",
   code |-> IF isErr THEN 0 ELSE request.cmd.status % 256,
   size |-> IF isErr THEN ErrorSize ELSE request.cmd.size]

\* The path is too long, or there is no such file: an error response.
RefuseCommand ==
  /\ Parsing("missing") \/ Parsing("long")
  /\ err' = TRUE
  /\ reply' = Response(err')
  /\ main' = "respond"
  /\ UNCHANGED <<cspVars, down, held, request, out, runs, twice>>

\* popen fails, or assemble_cmd_string, which has no return statement for
\* success, yields false: the text of the error is not sent.
CommandNotStarted ==
  /\ Parsing("ok")
  /\ NextCommand
  /\ UNCHANGED <<cspVars, down, held, request, out, runs, twice>>

CommandStarts ==
  /\ Parsing("ok")
  /\ main' = "running"
  /\ runs' = [runs EXCEPT ![request.from] = @ + 1]
  /\ UNCHANGED <<cspVars, down, held, request, err, reply, out, twice>>

\* CBOR has no simple values 25 to 31, and the encoder's buffer is MTU long.
Encodable(r) == r.code \notin 25..31 /\ r.size <= EncodeSize

\* pclose; return_code is 8 bits.  What cannot be encoded is not sent.
CommandEnds ==
  /\ main = "running"
  /\ LET r == Response(err) IN
       \/ Encodable(r) /\ reply' = r /\ main' = "respond" /\ UNCHANGED err
       \/ ~Encodable(r) /\ NextCommand
  /\ UNCHANGED <<cspVars, down, held, request, out, runs, twice>>

\* Mutant: main waits until there is a connection to answer on.
ConnectWaits ==
  /\ main = "respond"
  /\ pool.free # <<>>
  /\ \E s \in FreeSlots :
       /\ pool' = FreeAll(Taken, conn[s].rx)
       /\ conn' = Opened(s, NoPort, "never")
       /\ held' = s
  /\ out' = Given
  /\ mem' = [mem EXCEPT ![Given] = Answer]
  /\ main' = "send"
  /\ UNCHANGED <<up, again, rx, qfifo, route, socket, accepts, down, request, err, reply, runs, twice>>

\* cnc_daemon_send_buffer: a buffer and a connection, or no response.
Connect ==
  /\ main = "respond"
  /\ mem' = [b \in Buffers |-> IF pool.free # <<>> /\ b = Given THEN Answer ELSE mem[b]]
  /\ IF pool.free = <<>>
       THEN NextCommand /\ UNCHANGED <<pool, conn, held, out>>
       ELSE \/ \E s \in FreeSlots :
                 /\ pool' = FreeAll(Taken, conn[s].rx)
                 /\ conn' = Opened(s, NoPort, "never")
                 /\ held' = s
                 /\ out' = Given
                 /\ main' = "send"
                 /\ UNCHANGED <<err, reply>>
            \/ /\ FreeSlots = {}
               /\ pool' = csp_buffer_free(Taken, Given)
               /\ NextCommand
               /\ UNCHANGED <<conn, held, out>>
  /\ UNCHANGED <<up, again, rx, qfifo, route, socket, accepts, down, request, runs, twice>>

\* csp_send: csp_fifo_tx writes what is in the buffer as a frame, and frees
\* the buffer ...
Send ==
  /\ main = "send"
  /\ down' = down \o IF mem[out] = Answer THEN Frame(reply) ELSE <<[msg |-> Noise, at |-> 1]>>
  /\ pool' = csp_buffer_free(pool, out)
  /\ main' = "release"
  /\ UNCHANGED <<up, memVars, rx, qfifo, route, conn, socket, accepts>>
  /\ UNCHANGED <<held, request, err, reply, out, runs, twice>>

\* ... and cnc_daemon_send_buffer frees it once more, whoever got it since.
Release ==
  /\ main = "release"
  /\ csp_close(held, csp_buffer_free(pool, out))
  /\ twice' = IF pool.ref[out] = 0 THEN twice ELSE twice \union {out}
  /\ held' = NoSlot
  /\ out' = NoBuf
  /\ NextCommand
  /\ UNCHANGED <<up, memVars, rx, qfifo, route, socket, accepts, down, request, runs>>

MainThread ==
  \/ DaemonStart \/ DaemonBind \/ DaemonListen
  \/ AcceptCommand \/ CloseCommand
  \/ RejectCommand \/ RefuseCommand \/ CommandNotStarted \/ CommandStarts \/ CommandEnds
  \/ Connect \/ Send \/ Release
=============================================================================
