--------------------------- MODULE TelemetrySystem ---------------------------
(***************************************************************************)
(* The telemetry server of TelemetryServer.tla with the applications that  *)
(* use it through telemetry-linux/source/client.c, and what the two        *)
(* together promise.                                                       *)
(*                                                                         *)
(* A connection of Subscribers is one an application opened with           *)
(* telemetry_connect, to subscribe and read.  A connection of Publishers   *)
(* is the one telemetry_publish opens, uses for one packet, and closes.    *)
(***************************************************************************)
EXTENDS TelemetryServer, FiniteSets

CONSTANTS
  Subscribers,  \* Connections opened by telemetry_connect.
  Publishers,   \* Connections opened by telemetry_publish.
  MaxRequests,  \* Bound: subscribe and unsubscribe calls per connection.
  Mortal,       \* Connections whose application may die.
  Signals       \* Whether SIGTERM is ever sent.

ASSUME SystemAssumption ==
  /\ Conns = Subscribers \union Publishers
  /\ Subscribers \intersect Publishers = {}
  /\ Mortal \subseteq Conns
  /\ MaxRequests \in Nat
  /\ Signals \in BOOLEAN

VARIABLES
  app,        \* app[c]: where the call that uses connection c is.
  requests    \* requests[c]: subscribe and unsubscribe calls made so far.

clientVars == <<app, requests>>
vars == <<sockVars, serverVars, clientVars>>

\* "start": telemetry_connect not called; "ready": connected; "hangup": in
\* telemetry_disconnect, between the message and the close; "over".
AppPc == {"start", "ready", "hangup", "over"}

Init ==
  /\ SocketInit
  /\ ServerInit
  /\ app = [c \in Conns |-> "start"]
  /\ requests = [c \in Conns |-> 0]

(***************************************************************************)
(* client.c                                                                *)
(***************************************************************************)

\* telemetry_connect, also as the first call of telemetry_publish.
telemetry_connect(c) ==
  /\ Alive
  /\ app[c] = "start"
  /\ kprv_socket_client_connect(c)
  /\ app' = [app EXCEPT ![c] = "ready"]
  /\ UNCHANGED <<serverVars, requests>>

\* telemetry_subscribe and telemetry_unsubscribe: one message each.
Request(c, type, t) ==
  /\ c \in Subscribers
  /\ app[c] = "ready"
  /\ requests[c] < MaxRequests
  /\ ClientSend(c, [type |-> type, topic |-> t])
  /\ requests' = [requests EXCEPT ![c] = @ + 1]
  /\ UNCHANGED <<serverVars, app>>

telemetry_subscribe(c, t) == Request(c, "subscribe", t)
telemetry_unsubscribe(c, t) == Request(c, "unsubscribe", t)

\* The kprv_socket_send of telemetry_publish.
telemetry_publish(c, t) ==
  /\ c \in Publishers
  /\ app[c] = "ready"
  /\ requests[c] = 0
  /\ ClientSend(c, [type |-> "packet", topic |-> t])
  /\ requests' = [requests EXCEPT ![c] = 1]
  /\ UNCHANGED <<serverVars, app>>

\* telemetry_read: the next packet, or success with none at the end.
telemetry_read(c) ==
  /\ c \in Subscribers
  /\ app[c] = "ready"
  /\ \/ ClientRecv(c)
     \/ ClientRecvEnd(c) /\ UNCHANGED sockVars
  /\ UNCHANGED <<serverVars, app, requests>>

\* telemetry_disconnect, and its call in telemetry_publish once the packet
\* was sent or could not be: the message, whether or not it can be sent ...
telemetry_disconnect(c) ==
  /\ app[c] = "ready"
  /\ \/ ClientSend(c, [type |-> "disconnect", topic |-> NoTopic])
     \/ ClientSendFails(c) /\ UNCHANGED sockVars
  /\ c \in Publishers => requests[c] = 1 \/ ClientSendFails(c)
  /\ app' = [app EXCEPT ![c] = "hangup"]
  /\ UNCHANGED <<serverVars, requests>>

\* ... then kprv_socket_close.  Nothing is owed to a closed connection.
CloseConnection(c) ==
  /\ ClientClose(c)
  /\ app' = [app EXCEPT ![c] = "over"]
  /\ owed' = [h \in Conns |-> owed[h] \ {c}]
  /\ UNCHANGED <<threadVars, listVars, hpc, topic, cur, nxt, torn, requests>>

HangUp(c) == app[c] = "hangup" /\ CloseConnection(c)

\* The application dies; the kernel closes its connection unannounced.
ClientDies(c) == c \in Mortal /\ app[c] \in {"ready", "hangup"} /\ CloseConnection(c)

ConnectionLost(c) == BacklogDrop(c) /\ UNCHANGED <<serverVars, clientVars>>

-----------------------------------------------------------------------------

HandlerStep(h) ==
  \/ HandleSubscribe(h)
  \/ HandleUnsubscribe(h)
  \/ HandlePacket(h)
  \/ PublishSearch(h)
  \/ PublishSend(h)
  \/ HandleDisconnect(h)
  \/ HandlerDestroy(h)
  \/ HandlerCancelled(h)

AcceptStep ==
  \/ \E c \in Conns : AcceptClient(c)
  \/ \E c \in Conns : AcceptWithoutMemory(c)
  \/ SubscriberAddFind
  \/ \E c \in Conns : SubscriberAddLink(c)

MainStep ==
  \/ MainLoopEnds
  \/ MainKillAcceptThread
  \/ DeleteNext
  \/ DestroyClose
  \/ KillNobody
  \/ DestroyFree
  \/ MainReturns

ServerStep ==
  \/ AcceptStep
  \/ \E h \in Conns : HandlerStep(h)
  \/ MainStep
  \/ UseAfterFree
  \/ Signals /\ Terminate

ClientStep(c) ==
  \/ telemetry_connect(c)
  \/ \E t \in Topics : telemetry_subscribe(c, t)
  \/ \E t \in Topics : telemetry_unsubscribe(c, t)
  \/ \E t \in Topics : telemetry_publish(c, t)
  \/ telemetry_read(c)
  \/ telemetry_disconnect(c)
  \/ HangUp(c)
  \/ ClientDies(c)

Next ==
  \/ ServerStep /\ UNCHANGED clientVars
  \/ \E c \in Conns : ClientStep(c)
  \/ \E c \in Conns : ConnectionLost(c)

Spec == Init /\ [][Next]_vars

\* Every thread of the server keeps running, and an application that is
\* connected goes on reading.
Fairness ==
  /\ \A h \in Conns : WF_vars(HandlerStep(h) /\ UNCHANGED clientVars)
  /\ WF_vars(AcceptStep /\ UNCHANGED clientVars)
  /\ WF_vars(MainStep /\ UNCHANGED clientVars)
  /\ \A c \in Subscribers : WF_vars(telemetry_read(c))
  /\ \A c \in Conns : WF_vars(HangUp(c))

FairSpec == Spec /\ Fairness

-----------------------------------------------------------------------------
(***************************************************************************)
(* What is true of it.                                                     *)
(***************************************************************************)

\* A handler is inside kprv_publish_packet.
Publishing(h) == hpc[h] \in {"search", "send"}

SockTypeOK ==
  /\ cl \in [Conns -> ClState]
  /\ srv \in [Conns -> SrvState]
  /\ backlog \in Seq(Conns)
  /\ toSrv \in [Conns -> Seq(Msg)]
  /\ toCl \in [Conns -> Seq(Packet)]
  /\ rd \in [Conns -> Nat]

ThreadTypeOK ==
  /\ running \in BOOLEAN
  /\ mpc \in MainPc
  /\ mnxt \in Nat
  /\ apc \in AcceptPc
  /\ asub \in SUBSET Conns
  /\ tail \in Nat

ListTypeOK ==
  /\ subs \in Seq(Conns)
  /\ gone \in Nat
  /\ topics \in [Conns -> [Topics -> Nat]]
  /\ active \in [Conns -> BOOLEAN]

HandlerTypeOK ==
  /\ hpc \in [Conns -> HandlerPc]
  /\ topic \in [Conns -> Topics \union {NoTopic}]
  /\ cur \in [Conns -> Nat]
  /\ nxt \in [Conns -> Nat]
  /\ torn \in [Conns -> SUBSET Nat]
  /\ owed \in [Conns -> SUBSET Conns]
  /\ \A h \in Conns : Publishing(h) => topic[h] \in Topics

ClientTypeOK ==
  /\ app \in [Conns -> AppPc]
  /\ requests \in [Conns -> Nat]

\* The types of all variables: server.c, main.c, client.c and socket.c.
TypeOK == SockTypeOK /\ ThreadTypeOK /\ ListTypeOK /\ HandlerTypeOK /\ ClientTypeOK

Delivered(h, c) == \E i \in DOMAIN toCl[c] : toCl[c][i].src = h

\* kprv_publish_packet sends a packet to a subscriber at most once, however
\* many times the subscriber asked for the topic and whatever the list does
\* during the loop.
AtMostOnce ==
  \A c \in Conns : \A i, j \in DOMAIN toCl[c] :
     toCl[c][i].src = toCl[c][j].src => i = j

\* Who dropped an item of its topic list while h's loop searched that list.
Torn(h) == {subs[i] : i \in torn[h] \intersect DOMAIN subs}

\* kprv_publish_packet reaches everyone who was linked, subscribed and
\* connected when it started, and stayed so until the loop was through: such
\* a subscriber has the packet or the loop has not passed it, whoever else
\* fails or comes.  The one exception, and it is of someone still subscribed:
\* the subscriber drops another item of its topic list (server.c:117) while
\* the loop searches that list, and the search reads what was freed.
NobodyMissed ==
  \A h \in Conns : \A c \in owed[h] \ Torn(h) :
     \/ Delivered(h, c)
     \/ Publishing(h) /\ \E i \in cur[h]..Len(subs) :
          subs[i] = c /\ (i = cur[h] \/ (nxt[h] # 0 /\ i >= nxt[h]))

\* kprv_subscriber_destroy frees a subscriber only once the thread that
\* serves it has ended, whoever killed it.
NoHandlerOnFreedSubscriber ==
  Alive => \A i \in DOMAIN subs : Freed(i) => Ended(subs[i])

\* Every publish loop comes to everybody: whoever was owed the packet has it
\* in the end, has left, or lost the subscription, also while another packet
\* fills the channel and the loop has to wait for the subscriber to read.
EventuallyDelivered ==
  \A h \in Publishers, c \in Subscribers :
    c \in owed[h] ~> Delivered(h, c) \/ c \notin owed[h] \ Torn(h) \/ ~Alive

\* The handler of a connection whose DISCONNECT was sent ends, whatever it
\* was sent before and whoever it has to wait for in a publish loop
\* (telemetry_disconnect, client_handler).
DisconnectEndsHandler ==
  \A c \in Conns :
    (hpc[c] \notin {"none", "failed"} /\ toSrv[c] # <<>> /\ Last(toSrv[c]).type = "disconnect")
      ~> (hpc[c] = "dead" \/ ~Alive)

\* main_thread accepts the connection of every client that stays, unless the
\* service is told to stop.
BacklogServed ==
  \A c \in Conns :
    srv[c] = "queued" ~> srv[c] \in {"fd", "leaked"} \/ cl[c] = "closed" \/ ~running \/ ~Alive

\* After SIGTERM main returns, however many handlers it has to cancel and
\* wherever they are, and whether or not they were ever created, or it died
\* on the way, or never got past the first csp_thread_kill.
ShutdownEnds == ~running ~> mpc \in {"exit", "crash", "stuck"}

-----------------------------------------------------------------------------
(***************************************************************************)
(* Why the safety properties hold: an inductive invariant.                 *)
(***************************************************************************)

\* A connection is idle, then queued, then accepted once; the accept thread
\* adds to the list what it accepted, once.
LinkedOnce ==
  /\ \A i, j \in DOMAIN subs : subs[i] = subs[j] => i = j
  /\ \A i \in DOMAIN subs : hpc[subs[i]] # "none" /\ subs[i] \notin asub

AcceptInv ==
  /\ IsInjective(backlog)
  /\ \A i \in DOMAIN backlog : hpc[backlog[i]] = "none" /\ cl[backlog[i]] # "idle"
  /\ \A c \in Conns : cl[c] = "idle" => hpc[c] = "none"
  /\ \A c \in asub : hpc[c] # "none"
  /\ apc = "accept" => asub = {}
  /\ LinkedOnce

\* main unlinks from the head, one item after another, and a freed item's
\* handler has ended.
CleanupInv ==
  /\ gone <= Len(subs)
  /\ mpc \in {"wait", "kill", "stuck"} => gone = 0
  /\ mpc \in {"join", "free"} => gone # 0
  /\ mnxt # 0 => mnxt <= Len(subs)
  /\ mnxt # 0 /\ mpc \in {"delete", "join", "free"} => mnxt = gone + 1
  /\ mpc = "free" => Ended(subs[gone])
  /\ NoHandlerOnFreedSubscriber

\* The pointers of a publish loop.
LoopInv ==
  \A h \in Conns : Publishing(h) =>
    /\ cur[h] \in 1..Len(subs)
    /\ nxt[h] # 0 => nxt[h] = cur[h] + 1 /\ nxt[h] <= Len(subs)

\* The packet of a publisher is still to be sent, in its channel, being
\* published, or over and done with, and never two of these; what the loop
\* has delivered lies behind it.
PacketsOf(q) == {i \in DOMAIN q : q[i].type = "packet"}

PacketOK(h) ==
  LET ps == PacketsOf(toSrv[h]) IN
  /\ \A i, j \in ps : i = j
  /\ ps # {} => h \in Publishers /\ requests[h] # 0
  /\ Publishing(h) \/ (\E c \in Conns : Delivered(h, c)) =>
       h \in Publishers /\ requests[h] # 0 /\ ps = {}
  /\ Publishing(h) => \A c \in Conns :
       Delivered(h, c) => \E i \in 1..cur[h] - 1 : subs[i] = c

PacketInv == \A h \in Conns : PacketOK(h)

\* The connection of a subscriber in the list, or about to be, is open.
SrvInv ==
  Alive =>
    /\ \A c \in asub : srv[c] = "fd"
    /\ \A i \in gone + 1 .. Len(subs) : srv[subs[i]] = "fd"

\* Who is owed a packet is still found by the search, and can be sent to.
OwedOK(h) ==
  Publishing(h) => \A c \in owed[h] :
    /\ Listed(c)
    /\ kprv_subscriber_has_topic(c, topic[h])
    /\ cl[c] = "open"

OwedInv == Alive => \A h \in Conns : OwedOK(h)

IInv ==
  /\ TypeOK /\ AcceptInv /\ CleanupInv /\ LoopInv /\ PacketInv /\ AtMostOnce
  /\ SrvInv /\ OwedInv /\ NobodyMissed

=============================================================================
