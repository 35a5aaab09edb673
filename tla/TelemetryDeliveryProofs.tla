------------------------ MODULE TelemetryDeliveryProofs ------------------------
(* What a publish delivers, for every value of the constants: PacketInv    *)
(* gives that no subscriber is sent a packet twice, SrvInv and OwedInv     *)
(* that kprv_publish_packet misses nobody; all are inductive on ListInv.   *)
EXTENDS TelemetrySafetyProofs

(***************************************************************************)
(* The packets of a queue of messages.                                     *)
(***************************************************************************)

LEMMA Appended ==
  ASSUME NEW S, NEW q \in Seq(S), NEW x \in S
  PROVE  /\ DOMAIN Append(q, x) = 1..Len(q) + 1 /\ DOMAIN q = 1..Len(q) /\ Len(q) \in Nat
         /\ Append(q, x)[Len(q) + 1] = x
         /\ \A i \in 1..Len(q) : Append(q, x)[i] = q[i]
OBVIOUS

LEMMA PacketsAppend ==
  ASSUME NEW q \in Seq(Msg), NEW m \in Msg
  PROVE  /\ m.type # "packet" => PacketsOf(Append(q, m)) = PacketsOf(q)
         /\ PacketsOf(q) = {} => \A i, j \in PacketsOf(Append(q, m)) : i = j
<1> QED
  BY Appended DEF PacketsOf

LEMMA PacketsTail ==
  ASSUME NEW q \in Seq(Msg), q # <<>>, \A i, j \in PacketsOf(q) : i = j
  PROVE  /\ \A i, j \in PacketsOf(Tail(q)) : i = j
         /\ PacketsOf(q) = {} => PacketsOf(Tail(q)) = {}
         /\ Head(q).type = "packet" => PacketsOf(q) # {} /\ PacketsOf(Tail(q)) = {}
<1>1. /\ DOMAIN Tail(q) = 1..Len(q) - 1 /\ DOMAIN q = 1..Len(q) /\ Len(q) \in Nat
      /\ Head(q) = q[1] /\ 1 \in DOMAIN q
      /\ \A i \in 1..Len(q) - 1 : Tail(q)[i] = q[i + 1] /\ i + 1 \in 1..Len(q)
  OBVIOUS
<1>2. \A i \in PacketsOf(Tail(q)) : i \in 1..Len(q) - 1 /\ i + 1 \in PacketsOf(q)
  BY <1>1 DEF PacketsOf
<1>3. Head(q).type = "packet" => 1 \in PacketsOf(q)
  BY <1>1 DEF PacketsOf
<1>4. \A i, j \in PacketsOf(Tail(q)) : i = j
  BY <1>1, <1>2
<1>5. \A i \in PacketsOf(Tail(q)) : i + 1 # 1
  BY <1>1, <1>2
<1> QED
  BY <1>2, <1>3, <1>4, <1>5

(***************************************************************************)
(* PacketInv.                                                              *)
(***************************************************************************)

\* A step that neither delivers for h nor moves its loop keeps PacketOK(h),
\* when it puts no packet into h's channel.
LEMMA PacketFrame ==
  ASSUME ListInv, [Next]_vars, NEW h \in Conns, PacketOK(h),
         \A i, j \in PacketsOf(toSrv'[h]) : i = j,
         PacketsOf(toSrv[h]) = {} => PacketsOf(toSrv'[h]) = {},
         requests[h] # 0 => requests'[h] # 0,
         cur'[h] = cur[h], Publishing(h)' => Publishing(h),
         \A c \in Conns : Delivered(h, c)' => Delivered(h, c)
  PROVE  PacketOK(h)'
<1>1. Publishing(h)' => \A c \in Conns : Delivered(h, c)' => \E i \in 1..cur'[h] - 1 : subs'[i] = c
  <2> SUFFICES ASSUME Publishing(h), NEW c \in Conns, Delivered(h, c)
               PROVE  \E i \in 1..cur[h] - 1 : subs'[i] = c
    OBVIOUS
  <2>1. PICK i \in 1..cur[h] - 1 : subs[i] = c
    BY DEF PacketOK
  <2>2. cur[h] \in 1..Len(subs) /\ Len(subs) \in Nat
    BY DEF ListInv, LoopInv, TypeOK, ListTypeOK
  <2>3. subs'[i] = subs[i]
    BY <2>2, ListGrows DEF ListInv
  <2> QED
    BY <2>1, <2>3
<1> QED
  BY <1>1 DEF PacketOK

\* A handler that takes a message other than a packet.
LEMMA ReceivePacket ==
  ASSUME TypeOK, NEW h \in Conns, NEW g \in Conns, PacketOK(g), ServerRecv(h)
  PROVE  /\ \A i, j \in PacketsOf(toSrv'[g]) : i = j
         /\ PacketsOf(toSrv[g]) = {} => PacketsOf(toSrv'[g]) = {}
         /\ g = h /\ Head(toSrv[g]).type = "packet" =>
              PacketsOf(toSrv[g]) # {} /\ PacketsOf(toSrv'[g]) = {}
<1>1. /\ toSrv[h] \in Seq(Msg) /\ toSrv[h] # <<>>
      /\ toSrv'[g] = IF g = h THEN Tail(toSrv[h]) ELSE toSrv[g]
  BY DEF ServerRecv, TypeOK, SockTypeOK
<1>2. \A i, j \in PacketsOf(toSrv[g]) : i = j
  BY DEF PacketOK
<1> QED
  BY <1>1, <1>2, PacketsTail

\* kprv_socket_send to a subscriber adds one delivery.
LEMMA SendDelivers ==
  ASSUME TypeOK, NEW h \in Conns, NEW c \in Conns, NEW t \in Topics,
         ServerSend(c, [src |-> h, topic |-> t])
  PROVE  /\ \A g, d \in Conns : Delivered(g, d)' => Delivered(g, d) \/ (g = h /\ d = c)
         /\ ~Delivered(h, c) /\ AtMostOnce => AtMostOnce'
<1> DEFINE p == [src |-> h, topic |-> t]
<1>1. /\ \A d \in Conns : toCl[d] \in Seq(Packet)
      /\ \A d \in Conns : toCl'[d] = IF d = c THEN Append(toCl[c], p) ELSE toCl[d]
      /\ p \in Packet /\ p.src = h
  BY DEF ServerSend, TypeOK, SockTypeOK, Packet
<1> HIDE DEF p
<1>2. /\ DOMAIN toCl'[c] = 1..Len(toCl[c]) + 1 /\ DOMAIN toCl[c] = 1..Len(toCl[c])
      /\ Len(toCl[c]) \in Nat
      /\ toCl'[c][Len(toCl[c]) + 1] = p
      /\ \A i \in 1..Len(toCl[c]) : toCl'[c][i] = toCl[c][i]
  <2>1. toCl[c] \in Seq(Packet) /\ toCl'[c] = Append(toCl[c], p) /\ p \in Packet
    BY <1>1
  <2> QED
    BY <2>1, Appended
<1>3. ASSUME NEW g \in Conns, NEW d \in Conns, Delivered(g, d)'
      PROVE  Delivered(g, d) \/ (g = h /\ d = c)
  BY <1>1, <1>2, <1>3 DEF Delivered
<1>4. ASSUME ~Delivered(h, c), AtMostOnce, NEW d \in Conns
      PROVE  \A i, j \in DOMAIN toCl'[d] : toCl'[d][i].src = toCl'[d][j].src => i = j
  <2>1. CASE d = c
    <3>1. \A i \in 1..Len(toCl[c]) : toCl[c][i].src # h
      BY <1>2, <1>4 DEF Delivered
    <3>2. \A i, j \in 1..Len(toCl[c]) : toCl[c][i].src = toCl[c][j].src => i = j
      BY <1>2, <1>4 DEF AtMostOnce
    <3>3. toCl'[c][Len(toCl[c]) + 1].src = h
      BY <1>1, <1>2
    <3>4. \A i \in DOMAIN toCl'[c] : i \in 1..Len(toCl[c]) \/ i = Len(toCl[c]) + 1
      BY <1>2
    <3> QED
      <4> SUFFICES ASSUME NEW i \in DOMAIN toCl'[c], NEW j \in DOMAIN toCl'[c],
                          toCl'[c][i].src = toCl'[c][j].src
                   PROVE  i = j
        BY <2>1
      <4>1. CASE i \in 1..Len(toCl[c]) /\ j \in 1..Len(toCl[c])
        <5>1. toCl'[c][i] = toCl[c][i] /\ toCl'[c][j] = toCl[c][j]
          BY <1>2, <4>1
        <5> QED
          BY <3>2, <4>1, <5>1
      <4>2. CASE i \in 1..Len(toCl[c]) /\ j = Len(toCl[c]) + 1
        BY <1>2, <3>1, <3>3, <4>2
      <4>3. CASE i = Len(toCl[c]) + 1 /\ j \in 1..Len(toCl[c])
        BY <1>2, <3>1, <3>3, <4>3
      <4> QED
        BY <3>4, <4>1, <4>2, <4>3
  <2>2. CASE d # c
    BY <1>1, <1>4, <2>2 DEF AtMostOnce
  <2> QED
    BY <2>1, <2>2
<1> QED
  BY <1>3, <1>4 DEF AtMostOnce

\* The two outcomes of the send of h's loop.
LEMMA PublishSendPacket ==
  ASSUME ListInv, [Next]_vars, PacketInv, AtMostOnce,
         NEW h \in Conns, PublishSend(h), UNCHANGED clientVars
  PROVE  PacketInv' /\ AtMostOnce'
<1> DEFINE c == subs[cur[h]]
<1>1. /\ hpc[h] = "send" /\ Publishing(h) /\ topic[h] \in Topics
      /\ cur[h] \in 1..Len(subs) /\ c \in Conns /\ Len(subs) \in Nat
      /\ nxt[h] # 0 => nxt[h] = cur[h] + 1
      /\ UNCHANGED <<subs, toSrv>>
  BY DEF PublishSend, SendThen, Publishing, ListInv, LoopInv, TypeOK, HandlerTypeOK, ListTypeOK,
         listVars, ServerSend, sockVars
<1>2. Visit(h, nxt[h])
  BY DEF PublishSend, SendThen
<1>3. /\ cur'[h] = nxt[h] /\ (Publishing(h)' => nxt[h] # 0)
      /\ \A g \in Conns : g # h => cur'[g] = cur[g] /\ hpc'[g] = hpc[g]
  BY <1>2 DEF Visit, Publishing, ListInv, TypeOK, HandlerTypeOK
<1>4. ~Delivered(h, c)
  <2> SUFFICES ASSUME Delivered(h, c) PROVE FALSE
    OBVIOUS
  <2>1. PICK i \in 1..cur[h] - 1 : subs[i] = c
    BY <1>1 DEF PacketInv, PacketOK
  <2> QED
    BY <1>1, <2>1 DEF ListInv, AcceptInv, LinkedOnce
<1>5. /\ \A g, d \in Conns : Delivered(g, d)' => Delivered(g, d) \/ (g = h /\ d = c)
      /\ AtMostOnce'
  <2>1. CASE ServerSend(c, [src |-> h, topic |-> topic[h]])
    BY <1>1, <1>4, <2>1, SendDelivers DEF ListInv
  <2>2. CASE toCl' = toCl
    BY <2>2 DEF Delivered, AtMostOnce
  <2> QED
    BY <2>1, <2>2 DEF PublishSend, SendThen, sockVars
<1>6. requests' = requests
  BY DEF clientVars
<1> HIDE DEF c
<1>7. ASSUME NEW g \in Conns, g # h PROVE PacketOK(g)'
  <2>1. PacketOK(g) /\ \A i, j \in PacketsOf(toSrv[g]) : i = j
    BY DEF PacketInv, PacketOK
  <2> QED
    BY <1>1, <1>3, <1>5, <1>6, <1>7, <2>1, PacketFrame DEF Publishing
<1>8. PacketOK(h)'
  <2>1. PacketOK(h) /\ Publishing(h)
    BY <1>1 DEF PacketInv
  <2>2. ASSUME Publishing(h)', NEW d \in Conns, Delivered(h, d)'
        PROVE  \E i \in 1..cur'[h] - 1 : subs'[i] = d
    <3>1. cur'[h] = cur[h] + 1 /\ cur[h] \in 1..cur'[h] - 1
      BY <1>1, <1>3, <2>2
    <3>2. CASE d = c
      BY <1>1, <3>1, <3>2 DEF c
    <3>3. CASE Delivered(h, d)
      BY <1>1, <2>1, <3>1, <3>3 DEF PacketOK
    <3> QED
      BY <1>5, <2>2, <3>2, <3>3
  <2> QED
    BY <1>1, <1>6, <2>1, <2>2 DEF PacketOK
<1> QED
  BY <1>5, <1>7, <1>8 DEF PacketInv

\* The other steps of a handler.
LEMMA HandlerPacket ==
  ASSUME ListInv, [Next]_vars, PacketInv, NEW h \in Conns, HandlerStep(h), ~PublishSend(h),
         UNCHANGED clientVars, NEW g \in Conns
  PROVE  PacketOK(g)' /\ UNCHANGED toCl
<1>0. /\ PacketOK(g) /\ requests' = requests /\ \A i, j \in PacketsOf(toSrv[g]) : i = j
      /\ ListInv => TypeOK
  BY DEF PacketInv, PacketOK, clientVars, ListInv
<1>1. CASE HandleSubscribe(h) \/ HandleUnsubscribe(h) \/ HandleDisconnect(h)
  <2>1. ServerRecv(h) /\ UNCHANGED <<hpc, cur>>
    BY <1>1 DEF HandleSubscribe, HandleUnsubscribe, HandleDisconnect, Receives, handlerVars
  <2>2. toCl' = toCl
    BY <2>1 DEF ServerRecv
  <2> QED
    BY <1>0, <2>1, <2>2, ReceivePacket, PacketFrame DEF Publishing, Delivered
<1>2. CASE HandlePacket(h)
  <2>1. /\ ServerRecv(h) /\ Head(toSrv[h]).type = "packet" /\ Visit(h, First) /\ subs' = subs
    BY <1>2 DEF HandlePacket, PublishFrom, Receives, listVars
  <2>2. toCl' = toCl
    BY <2>1 DEF ServerRecv
  <2>3. CASE g = h
    <3>1. PacketsOf(toSrv[h]) # {} /\ PacketsOf(toSrv'[h]) = {}
      BY <1>0, <2>1, <2>3, ReceivePacket
    <3>2. /\ h \in Publishers /\ requests[h] # 0
          /\ \A c \in Conns : ~Delivered(h, c)
      BY <1>0, <2>3, <3>1 DEF PacketOK
    <3>3. \A c \in Conns : ~Delivered(h, c)'
      BY <2>2, <3>2 DEF Delivered
    <3> QED
      BY <1>0, <2>2, <2>3, <3>1, <3>2, <3>3 DEF PacketOK
  <2>4. CASE g # h
    <3>1. cur'[g] = cur[g] /\ hpc'[g] = hpc[g]
      BY <1>0, <2>4, HandlerOthers
    <3> QED
      BY <1>0, <2>1, <2>2, <3>1, ReceivePacket, PacketFrame DEF Publishing, Delivered
  <2> QED
    BY <2>2, <2>3, <2>4
<1>3. CASE PublishSearch(h)
  <2>1. UNCHANGED <<toSrv, toCl, subs>>
    BY <1>3 DEF PublishSearch, sockVars, listVars
  <2>2. CASE g # h
    <3>1. cur'[g] = cur[g] /\ hpc'[g] = hpc[g]
      BY <1>0, <2>2, HandlerOthers
    <3> QED
      BY <1>0, <2>1, <3>1, PacketFrame DEF Publishing, Delivered
  <2>3. CASE g = h /\ cur' = cur
    <3>1. Publishing(h)
      BY <1>3 DEF PublishSearch, Publishing
    <3> QED
      BY <1>0, <2>1, <2>3, <3>1, PacketFrame DEF Delivered
  <2>4. CASE g = h /\ Visit(h, nxt[h])
    <3>1. /\ Publishing(h) /\ Len(subs) \in Nat /\ cur[h] \in 1..Len(subs)
          /\ nxt[h] # 0 => nxt[h] = cur[h] + 1
          /\ cur'[h] = nxt[h] /\ (Publishing(h)' => nxt[h] # 0)
      BY <1>0, <1>3, <2>4 DEF PublishSearch, Publishing, Visit, ListInv, LoopInv, TypeOK,
                              HandlerTypeOK, ListTypeOK
    <3>2. ASSUME Publishing(h)', NEW c \in Conns, Delivered(h, c)'
          PROVE  \E i \in 1..cur'[h] - 1 : subs'[i] = c
      <4>1. PICK i \in 1..cur[h] - 1 : subs[i] = c
        BY <1>0, <2>1, <2>4, <3>1, <3>2 DEF PacketOK, Delivered
      <4> QED
        BY <2>1, <3>1, <3>2, <4>1
    <3> QED
      BY <1>0, <2>1, <2>4, <3>1, <3>2 DEF PacketOK, Delivered
  <2> QED
    BY <1>3, <2>1, <2>2, <2>3, <2>4 DEF PublishSearch
<1>4. CASE HandlerDestroy(h) \/ HandlerCancelled(h)
  <2>1. /\ UNCHANGED <<toSrv, toCl, cur>>
        /\ hpc' = [hpc EXCEPT ![h] = "dead"]
    BY <1>4 DEF HandlerDestroy, HandlerCancelled, sockVars
  <2>2. Publishing(g)' => Publishing(g)
    BY <1>0, <2>1 DEF Publishing, ListInv, TypeOK, HandlerTypeOK
  <2> QED
    BY <1>0, <2>1, <2>2, PacketFrame DEF Delivered
<1> QED
  BY <1>1, <1>2, <1>3, <1>4 DEF HandlerStep

\* A client's call: telemetry_publish puts its one packet into the channel.
LEMMA ClientPacket ==
  ASSUME ListInv, [Next]_vars, PacketInv, NEW c \in Conns, ClientStep(c), NEW g \in Conns
  PROVE  PacketOK(g)' /\ UNCHANGED toCl
<1>0. /\ PacketOK(g) /\ \A i, j \in PacketsOf(toSrv[g]) : i = j
      /\ toSrv[g] \in Seq(Msg) /\ requests[g] \in Nat
  BY DEF PacketInv, PacketOK, ListInv, TypeOK, SockTypeOK, ClientTypeOK
<1>1. UNCHANGED <<hpc, cur, subs>>
  BY ClientFrame DEF listVars
<1>2. ASSUME NEW m \in Msg, m.type # "packet", ClientSend(c, m), requests[g] # 0 => requests'[g] # 0
      PROVE  PacketOK(g)' /\ UNCHANGED toCl
  <2>1. /\ toCl' = toCl
        /\ toSrv'[g] = IF g = c THEN Append(toSrv[g], m) ELSE toSrv[g]
    BY <1>2 DEF ClientSend, ListInv, TypeOK, SockTypeOK
  <2>2. PacketsOf(toSrv'[g]) = PacketsOf(toSrv[g])
    BY <1>0, <1>2, <2>1, PacketsAppend
  <2>3. \A i, j \in PacketsOf(toSrv'[g]) : i = j
    BY <1>0, <2>2
  <2>4. /\ cur'[g] = cur[g] /\ (Publishing(g)' => Publishing(g))
        /\ \A d \in Conns : Delivered(g, d)' => Delivered(g, d)
    BY <1>1, <2>1 DEF Publishing, Delivered
  <2>5. PacketOK(g)'
    BY <1>0, <1>2, <2>2, <2>3, <2>4, PacketFrame
  <2> QED
    BY <2>1, <2>5
<1>3. ASSUME UNCHANGED <<toSrv, toCl, requests>> PROVE PacketOK(g)'
  BY <1>0, <1>1, <1>3, PacketFrame DEF Publishing, Delivered
<1>4. ASSUME NEW t \in Topics, telemetry_subscribe(c, t) \/ telemetry_unsubscribe(c, t)
      PROVE  PacketOK(g)' /\ UNCHANGED toCl
  <2>1. PICK type \in {"subscribe", "unsubscribe"} : Request(c, type, t)
    BY <1>4 DEF telemetry_subscribe, telemetry_unsubscribe
  <2>2. [type |-> type, topic |-> t] \in Msg
    BY DEF Msg
  <2>3. requests[g] # 0 => requests'[g] # 0
    BY <1>0, <2>1 DEF Request, ListInv, TypeOK, ClientTypeOK
  <2> QED
    BY <1>2, <2>1, <2>2, <2>3 DEF Request
<1>5. ASSUME NEW t \in Topics, telemetry_publish(c, t)
      PROVE  PacketOK(g)' /\ UNCHANGED toCl
  <2> DEFINE m == [type |-> "packet", topic |-> t]
  <2>0. m \in Msg
    BY DEF Msg
  <2>1. /\ ClientSend(c, m) /\ c \in Publishers /\ requests[c] = 0 /\ toCl' = toCl
        /\ requests' = [requests EXCEPT ![c] = 1]
    BY <1>5 DEF telemetry_publish, ClientSend
  <2>2. /\ toSrv'[g] = IF g = c THEN Append(toSrv[g], m) ELSE toSrv[g]
        /\ requests'[g] = IF g = c THEN 1 ELSE requests[g]
    BY <2>1 DEF ClientSend, ListInv, TypeOK, SockTypeOK, ClientTypeOK
  <2> HIDE DEF m
  <2>3. CASE g # c
    <3>1. /\ cur'[g] = cur[g] /\ (Publishing(g)' => Publishing(g))
          /\ \A d \in Conns : Delivered(g, d)' => Delivered(g, d)
      BY <1>1, <2>1 DEF Publishing, Delivered
    <3>2. toSrv'[g] = toSrv[g] /\ requests'[g] = requests[g]
      BY <2>2, <2>3
    <3>3. /\ \A i, j \in PacketsOf(toSrv'[g]) : i = j
          /\ PacketsOf(toSrv[g]) = {} => PacketsOf(toSrv'[g]) = {}
      BY <1>0, <3>2
    <3>4. PacketOK(g)'
      BY <1>0, <3>1, <3>2, <3>3, PacketFrame
    <3> QED
      BY <2>1, <3>4
  <2>4. CASE g = c
    <3>1. /\ PacketsOf(toSrv[g]) = {} /\ ~Publishing(g)
          /\ \A d \in Conns : ~Delivered(g, d)
      BY <1>0, <2>1, <2>4 DEF PacketOK
    <3>2. \A i, j \in PacketsOf(toSrv'[g]) : i = j
      BY <1>0, <2>0, <2>2, <2>4, <3>1, PacketsAppend
    <3>3. ~Publishing(g)' /\ \A d \in Conns : ~Delivered(g, d)'
      BY <1>1, <2>1, <3>1 DEF Publishing, Delivered
    <3> QED
      BY <2>1, <2>2, <2>4, <3>2, <3>3 DEF PacketOK
  <2> QED
    BY <2>1, <2>3, <2>4
<1>6. CASE telemetry_disconnect(c)
  <2>1. [type |-> "disconnect", topic |-> NoTopic] \in Msg
    BY DEF Msg
  <2> QED
    BY <1>2, <1>3, <1>6, <2>1 DEF telemetry_disconnect, sockVars
<1>7. CASE telemetry_connect(c) \/ telemetry_read(c) \/ HangUp(c) \/ ClientDies(c)
  BY <1>3, <1>7 DEF telemetry_connect, kprv_socket_client_connect, telemetry_read, ClientRecv,
     HangUp, ClientDies, CloseConnection, ClientClose, sockVars
<1> QED
  BY <1>4, <1>5, <1>6, <1>7 DEF ClientStep

LEMMA NextDelivery ==
  ASSUME ListInv, PacketInv, AtMostOnce, [Next]_vars
  PROVE  PacketInv' /\ AtMostOnce'
<1>0. ASSUME toCl' = toCl PROVE AtMostOnce'
  BY <1>0 DEF AtMostOnce
<1>1. ASSUME UNCHANGED <<toCl, toSrv, requests, cur>>,
             \A g \in Conns : Publishing(g)' => Publishing(g)
      PROVE  PacketInv'
  BY <1>1, PacketFrame DEF PacketInv, PacketOK, Delivered
<1>2. ASSUME NEW h \in Conns, HandlerStep(h), UNCHANGED clientVars
      PROVE  PacketInv' /\ AtMostOnce'
  BY <1>0, <1>2, HandlerPacket, PublishSendPacket DEF PacketInv
<1>3. CASE AcceptStep /\ UNCHANGED clientVars
  BY <1>0, <1>1, <1>3 DEF AcceptStep, AcceptClient, AcceptWithoutMemory, SubscriberAddFind,
     SubscriberAddLink, Link, kprv_socket_server_accept, sockVars, handlerVars, clientVars,
     Publishing, ListInv, TypeOK, HandlerTypeOK
<1>4. CASE (MainStep \/ UseAfterFree \/ Terminate) /\ UNCHANGED clientVars
  BY <1>0, <1>1, <1>4, MainFrame DEF clientVars, Publishing
<1>5. ASSUME NEW c \in Conns, ClientStep(c) PROVE PacketInv' /\ AtMostOnce'
  BY <1>0, <1>5, ClientPacket DEF PacketInv
<1>6. ASSUME NEW c \in Conns, ConnectionLost(c) PROVE PacketInv' /\ AtMostOnce'
  <2>1. /\ UNCHANGED <<toCl, requests, cur, hpc>>
        /\ toSrv' = [toSrv EXCEPT ![c] = <<>>]
    BY <1>6 DEF ConnectionLost, BacklogDrop, serverVars, handlerVars, clientVars
  <2>2. ASSUME NEW g \in Conns PROVE PacketOK(g)'
    <3>1. /\ \A i, j \in PacketsOf(toSrv'[g]) : i = j
          /\ PacketsOf(toSrv[g]) = {} => PacketsOf(toSrv'[g]) = {}
      <4>1. toSrv'[g] = IF g = c THEN <<>> ELSE toSrv[g]
        BY <2>1 DEF ListInv, TypeOK, SockTypeOK
      <4> QED
        BY <4>1 DEF PacketsOf, PacketInv, PacketOK
    <3> QED
      BY <2>1, <3>1, PacketFrame DEF PacketInv, Publishing, Delivered
  <2> QED
    BY <1>0, <2>1, <2>2 DEF PacketInv
<1>7. CASE UNCHANGED vars
  BY <1>0, <1>1, <1>7 DEF vars, sockVars, serverVars, handlerVars, clientVars, Publishing
<1> QED
  BY <1>2, <1>3, <1>4, <1>5, <1>6, <1>7 DEF Next, ServerStep

LEMMA InitDelivery == Init => PacketInv /\ AtMostOnce
BY DEF Init, SocketInit, ServerInit, PacketInv, PacketOK, PacketsOf, Publishing, Delivered, AtMostOnce

\* kprv_publish_packet sends a packet to one subscriber at most once, for
\* any number of connections, publishers, topics and requests.
THEOREM SentAtMostOnce == Spec => []AtMostOnce
<1> DEFINE I == ListInv /\ PacketInv /\ AtMostOnce
<1>1. Init => I
  BY InitListInv, InitDelivery
<1>2. I /\ [Next]_vars => I'
  BY NextTypeOK, NextAcceptInv, NextCleanupInv, NextLoopInv, NextDelivery DEF ListInv
<1>3. I => AtMostOnce
  OBVIOUS
<1> QED
  BY <1>1, <1>2, <1>3, PTL DEF Spec

-----------------------------------------------------------------------------
(***************************************************************************)
(* SrvInv: who is in the list can be sent to.                              *)
(***************************************************************************)

LEMMA AliveBefore ==
  ASSUME [Next]_vars, Alive'
  PROVE  Alive
<1>1. CASE MainStep \/ UseAfterFree
  BY <1>1 DEF MainStep, MainLoopEnds, MainKillAcceptThread, DeleteNext, DeleteAndThen,
              DestroyClose, CloseAnyhow, KillNobody, DestroyFree, MainReturns, UseAfterFree, Alive
<1>2. CASE ~(MainStep \/ UseAfterFree)
  BY <1>2, OnlyMainUnlinks DEF Alive
<1> QED
  BY <1>1, <1>2

LEMMA ListFacts ==
  ASSUME ListInv
  PROVE  /\ subs \in Seq(Conns) /\ Len(subs) \in Nat /\ DOMAIN subs = 1..Len(subs)
         /\ gone \in Nat /\ gone <= Len(subs) /\ asub \subseteq Conns
         /\ \A i \in 1..Len(subs) : subs[i] \in Conns /\ hpc[subs[i]] # "none" /\ subs[i] \notin asub
         /\ \A i, j \in 1..Len(subs) : subs[i] = subs[j] => i = j
         /\ \A c \in asub : hpc[c] # "none"
         /\ srv \in [Conns -> SrvState] /\ cl \in [Conns -> ClState]
<1>1. /\ subs \in Seq(Conns) /\ gone \in Nat /\ asub \subseteq Conns
      /\ srv \in [Conns -> SrvState] /\ cl \in [Conns -> ClState]
  BY DEF ListInv, TypeOK, ListTypeOK, ThreadTypeOK, SockTypeOK
<1>2. Len(subs) \in Nat /\ DOMAIN subs = 1..Len(subs) /\ \A i \in 1..Len(subs) : subs[i] \in Conns
  BY <1>1
<1>3. gone <= Len(subs) /\ \A c \in asub : hpc[c] # "none"
  BY DEF ListInv, CleanupInv, AcceptInv
<1>4. /\ \A i \in DOMAIN subs : hpc[subs[i]] # "none" /\ subs[i] \notin asub
      /\ \A i, j \in DOMAIN subs : subs[i] = subs[j] => i = j
  BY DEF ListInv, AcceptInv, LinkedOnce
<1> QED
  BY <1>1, <1>2, <1>3, <1>4

LEMMA SrvFrame ==
  ASSUME ListInv, SrvInv, Alive, UNCHANGED <<subs, gone, asub>>,
         \A c \in Conns : hpc[c] # "none" /\ srv[c] = "fd" => srv'[c] = "fd"
  PROVE  SrvInv'
BY ListFacts DEF SrvInv

LEMMA NextSrvInv ==
  ASSUME ListInv, SrvInv, [Next]_vars
  PROVE  SrvInv'
<1> SUFFICES ASSUME Alive' PROVE SrvInv'
  BY DEF SrvInv
<1>0. Alive
  BY AliveBefore
<1>1. CASE AcceptStep
  <2>1. ASSUME NEW c \in Conns, kprv_socket_server_accept(c, "leaked") PROVE hpc[c] = "none"
    BY <2>1 DEF kprv_socket_server_accept, ListInv, AcceptInv, TypeOK, SockTypeOK
  <2>2. ASSUME NEW c \in Conns, AcceptClient(c) PROVE SrvInv'
    BY <1>0, <2>2, ListFacts DEF AcceptClient, kprv_socket_server_accept, SrvInv
  <2>3. ASSUME NEW c \in Conns, AcceptWithoutMemory(c) PROVE SrvInv'
    BY <1>0, <2>1, <2>3, ListFacts, SrvFrame DEF AcceptWithoutMemory, kprv_socket_server_accept, listVars
  <2>4. CASE SubscriberAddFind
    BY <1>0, <2>4, SrvFrame DEF SubscriberAddFind, listVars, sockVars
  <2>5. ASSUME NEW c \in Conns, SubscriberAddLink(c) PROVE SrvInv'
    <3>1. /\ asub = {c} /\ asub' = {} /\ UNCHANGED <<srv, gone>>
          /\ subs' = subs \/ subs' = Append(subs, c)
      BY <2>5 DEF SubscriberAddLink, Link, sockVars
    <3>2. srv[c] = "fd" /\ \A i \in gone + 1 .. Len(subs) : srv[subs[i]] = "fd"
      BY <1>0, <3>1 DEF SrvInv
    <3>3. \A i \in gone + 1 .. Len(subs') : srv[subs'[i]] = "fd"
      BY <3>1, <3>2, ListFacts
    <3> QED
      BY <3>1, <3>3 DEF SrvInv
  <2> QED
    BY <1>1, <2>2, <2>3, <2>4, <2>5 DEF AcceptStep
<1>2. ASSUME NEW h \in Conns, HandlerStep(h) PROVE SrvInv'
  <2>1. srv' = srv
    BY <1>2 DEF HandlerStep, HandleSubscribe, HandleUnsubscribe, HandlePacket, PublishFrom,
       HandleDisconnect, Receives, ServerRecv, PublishSearch, HandlerDestroy, HandlerCancelled,
       PublishSend, SendThen, ServerSend, sockVars
  <2> QED
    BY <1>0, <1>2, <2>1, HandlerFrame, SrvFrame DEF threadVars
<1>3. CASE MainStep \/ UseAfterFree \/ Terminate
  <2>1. CASE MainLoopEnds \/ MainKillAcceptThread \/ DestroyFree \/ Terminate
    BY <1>0, <2>1, SrvFrame DEF MainLoopEnds, MainKillAcceptThread, DestroyFree, Terminate, Alive,
                                listVars, sockVars
  <2>2. CASE DeleteNext
    <3>1. UNCHANGED <<subs, srv, asub>> /\ gone' = mnxt /\ mnxt = gone + 1
      BY <2>2 DEF DeleteNext, DeleteAndThen, sockVars, ListInv, CleanupInv
    <3> QED
      BY <1>0, <3>1, ListFacts DEF SrvInv
  <2>3. CASE DestroyClose
    <3>1. ServerClose(subs[gone]) /\ UNCHANGED <<subs, gone, asub>> /\ gone \in 1..Len(subs)
      BY <2>3, ListFacts DEF DestroyClose, CloseAnyhow, ListInv, CleanupInv
    <3>2. \A c \in Conns : c # subs[gone] => srv'[c] = srv[c]
      BY <3>1, ListFacts DEF ServerClose
    <3>3. \A i \in gone + 1 .. Len(subs) : subs[i] # subs[gone] /\ subs[i] \in Conns
      BY <3>1, ListFacts
    <3>4. \A c \in asub : c # subs[gone] /\ c \in Conns
      BY <3>1, ListFacts
    <3> QED
      BY <1>0, <3>1, <3>2, <3>3, <3>4 DEF SrvInv
  <2>4. CASE MainReturns \/ UseAfterFree \/ KillNobody
    BY <2>4 DEF MainReturns, UseAfterFree, KillNobody, Alive
  <2> QED
    BY <1>3, <2>1, <2>2, <2>3, <2>4 DEF MainStep
<1>4. ASSUME NEW c \in Conns, ClientStep(c) PROVE SrvInv'
  <2>1. UNCHANGED <<subs, gone, asub>>
    BY <1>4, ClientFrame DEF threadVars, listVars
  <2>2. CASE telemetry_connect(c)
    BY <1>0, <2>1, <2>2, SrvFrame, ListFacts
       DEF telemetry_connect, kprv_socket_client_connect, ListInv, AcceptInv
  <2>3. CASE srv' = srv
    BY <1>0, <2>1, <2>3, SrvFrame
  <2> QED
    BY <1>4, <2>2, <2>3 DEF ClientStep, telemetry_subscribe, telemetry_unsubscribe, Request,
       telemetry_publish, telemetry_read, telemetry_disconnect, HangUp, ClientDies,
       CloseConnection, ClientSend, ClientRecv, ClientClose, sockVars
<1>5. ASSUME NEW c \in Conns, ConnectionLost(c) PROVE SrvInv'
  BY <1>0, <1>5, SrvFrame, ListFacts
     DEF ConnectionLost, BacklogDrop, serverVars, threadVars, listVars
<1>6. CASE UNCHANGED vars
  BY <1>0, <1>6, SrvFrame DEF vars, sockVars, serverVars, threadVars, listVars
<1> QED
  BY <1>1, <1>2, <1>3, <1>4, <1>5, <1>6 DEF Next, ServerStep

(***************************************************************************)
(* One publish loop: what it still has to do, and what disturbs it.        *)
(***************************************************************************)

\* The loop of h is at c, or has c ahead of it.
Ahead(h, c) ==
  /\ Publishing(h)
  /\ \E i \in cur[h]..Len(subs) : subs[i] = c /\ (i = cur[h] \/ (nxt[h] # 0 /\ i >= nxt[h]))

MissedOK(h) == \A c \in owed[h] \ Torn(h) : Delivered(h, c) \/ Ahead(h, c)

LEMMA Growth ==
  ASSUME ListInv, [Next]_vars
  PROVE  /\ Len(subs) \in Nat /\ Len(subs') \in Nat /\ Len(subs) <= Len(subs') /\ gone \in Nat
         /\ \A i \in 1..Len(subs) : subs'[i] = subs[i]
<1>1. TypeOK /\ TypeOK' /\ AcceptInv
  BY NextTypeOK DEF ListInv
<1>2. Len(subs) \in Nat /\ Len(subs') \in Nat /\ gone \in Nat
  BY <1>1 DEF TypeOK, ListTypeOK
<1> QED
  BY <1>1, <1>2, ListGrows

LEMMA MissedFrame ==
  ASSUME ListInv, [Next]_vars, NEW g \in Conns, MissedOK(g),
         cur'[g] = cur[g], nxt'[g] = nxt[g], Publishing(g) => Publishing(g)',
         owed'[g] \subseteq owed[g], torn[g] \subseteq torn'[g],
         \A c \in Conns : Delivered(g, c) => Delivered(g, c)'
  PROVE  MissedOK(g)'
<1>0. Torn(g) \subseteq Torn(g)'
  <2>1. DOMAIN subs = 1..Len(subs) /\ DOMAIN subs' = 1..Len(subs')
    BY NextTypeOK DEF ListInv, TypeOK, ListTypeOK
  <2> QED
    BY <2>1, Growth DEF Torn
<1>1. cur[g] \in Nat
  BY DEF ListInv, TypeOK, HandlerTypeOK
<1>2. owed[g] \subseteq Conns
  BY DEF ListInv, TypeOK, HandlerTypeOK
<1>3. ASSUME NEW c \in Conns, Ahead(g, c) PROVE Ahead(g, c)'
  <2>1. PICK i \in cur[g]..Len(subs) :
          subs[i] = c /\ (i = cur[g] \/ (nxt[g] # 0 /\ i >= nxt[g]))
    BY <1>3 DEF Ahead
  <2>2. cur[g] \in 1..Len(subs) /\ Publishing(g)'
    BY <1>3 DEF Ahead, ListInv, LoopInv
  <2>3. i \in cur'[g]..Len(subs') /\ subs'[i] = c
    BY <1>1, <2>1, <2>2, Growth
  <2> QED
    BY <2>1, <2>2, <2>3 DEF Ahead
<1> QED
  BY <1>0, <1>2, <1>3 DEF MissedOK

LEMMA ListedFrame ==
  ASSUME ListInv, [Next]_vars, gone' = gone, NEW c, Listed(c)
  PROVE  Listed(c)'
<1>1. PICK i \in gone + 1 .. Len(subs) : subs[i] = c
  BY DEF Listed
<1> QED
  BY <1>1, Growth DEF Listed

LEMMA OwedFrame ==
  ASSUME ListInv, [Next]_vars, NEW g \in Conns, OwedOK(g),
         Publishing(g)' => Publishing(g), topic'[g] = topic[g], owed'[g] \subseteq owed[g],
         \A c \in owed'[g] :
           /\ Listed(c) => Listed(c)'
           /\ kprv_subscriber_has_topic(c, topic[g]) => kprv_subscriber_has_topic(c, topic[g])'
           /\ cl[c] = "open" => cl'[c] = "open"
  PROVE  OwedOK(g)'
BY DEF OwedOK, kprv_subscriber_has_topic

\* A step that leaves g's loop alone, and the list, the topic lists and the
\* clients' ends too.
LEMMA QuietFrame ==
  ASSUME ListInv, [Next]_vars, NEW g \in Conns, MissedOK(g), OwedOK(g),
         UNCHANGED <<gone, topics, cl>>, topic'[g] = topic[g],
         (Publishing(g) \/ Publishing(g)') => hpc'[g] = hpc[g],
         cur'[g] = cur[g], nxt'[g] = nxt[g], torn'[g] = torn[g], owed'[g] \subseteq owed[g],
         \A c \in Conns : Delivered(g, c) => Delivered(g, c)'
  PROVE  MissedOK(g)' /\ OwedOK(g)'
<1>1. (Publishing(g) => Publishing(g)') /\ (Publishing(g)' => Publishing(g))
  BY DEF Publishing
<1>2. MissedOK(g)'
  BY <1>1, MissedFrame
<1>3. CASE Publishing(g)
  <2>3. \A c \in owed'[g] :
          kprv_subscriber_has_topic(c, topic[g]) => kprv_subscriber_has_topic(c, topic[g])'
    BY DEF kprv_subscriber_has_topic
  <2>4. OwedOK(g)'
    BY <1>1, <2>3, ListedFrame, OwedFrame
  <2> QED
    BY <1>2, <2>4
<1>4. CASE ~Publishing(g)
  BY <1>1, <1>2, <1>4 DEF OwedOK
<1> QED
  BY <1>3, <1>4

(***************************************************************************)
(* The steps of a handler.                                                 *)
(***************************************************************************)

\* The loop of h goes on to its `next`: everyone from there on is still ahead.
LEMMA VisitNext ==
  ASSUME ListInv, NEW h \in Conns, Publishing(h), Visit(h, nxt[h]), subs' = subs,
         NEW c, NEW i \in cur[h]..Len(subs), subs[i] = c, nxt[h] # 0, i >= nxt[h]
  PROVE  Ahead(h, c)'
<1>1. /\ Len(subs) \in Nat /\ nxt[h] \in Nat /\ cur[h] \in 1..Len(subs)
      /\ nxt[h] = cur[h] + 1 /\ nxt[h] <= Len(subs)
  BY DEF ListInv, LoopInv, TypeOK, ListTypeOK, HandlerTypeOK
<1>2. cur'[h] = nxt[h] /\ nxt'[h] = Succ(nxt[h]) /\ hpc'[h] = "search"
  BY DEF Visit, ListInv, TypeOK, HandlerTypeOK
<1>3. i = nxt[h] \/ (Succ(nxt[h]) # 0 /\ i >= Succ(nxt[h]))
  BY <1>1 DEF Succ
<1> QED
  BY <1>1, <1>2, <1>3 DEF Ahead, Publishing

\* MESSAGE_TYPE_PACKET: the loop starts at the head, and everyone is ahead.
LEMMA PacketOwes ==
  ASSUME ListInv, NEW h \in Conns, HandlePacket(h)
  PROVE  MissedOK(h)' /\ OwedOK(h)'
<1> DEFINE t == Head(toSrv[h]).topic
<1>1. /\ Visit(h, First) /\ UNCHANGED <<subs, gone, topics, cl>>
      /\ topic'[h] = t /\ torn'[h] = {}
      /\ owed'[h] = {c \in Conns : Listed(c) /\ kprv_subscriber_has_topic(c, t) /\ cl[c] = "open"}
  BY DEF HandlePacket, PublishFrom, Receives, ServerRecv, Visit, listVars, ListInv, TypeOK,
         HandlerTypeOK
<1> HIDE DEF t
<1>2. ASSUME NEW c \in owed'[h] PROVE Ahead(h, c)'
  <2>1. PICK i \in gone + 1 .. Len(subs) : subs[i] = c
    BY <1>1, <1>2 DEF Listed
  <2>2. First = gone + 1 /\ gone + 1 \in 1..Len(subs) /\ Len(subs) \in Nat
    BY <2>1, ListFacts DEF First
  <2>3. cur'[h] = gone + 1 /\ nxt'[h] = Succ(gone + 1) /\ hpc'[h] = "search"
    BY <1>1, <2>2 DEF Visit, ListInv, TypeOK, HandlerTypeOK
  <2>4. i = gone + 1 \/ (Succ(gone + 1) # 0 /\ i >= Succ(gone + 1))
    BY <2>1, <2>2 DEF Succ
  <2> QED
    BY <1>1, <2>1, <2>2, <2>3, <2>4 DEF Ahead, Publishing
<1>3. ASSUME NEW c \in owed'[h]
      PROVE  Listed(c)' /\ kprv_subscriber_has_topic(c, topic[h])' /\ cl'[c] = "open"
  BY <1>1, <1>3 DEF Listed, kprv_subscriber_has_topic
<1> QED
  BY <1>1, <1>2, <1>3 DEF MissedOK, OwedOK

\* kprv_subscriber_has_topic finds whoever is owed the packet, unless the
\* list it searches lost a node.
LEMMA SearchFinds ==
  ASSUME ListInv, [Next]_vars, NEW h \in Conns, PublishSearch(h), MissedOK(h), OwedOK(h)
  PROVE  MissedOK(h)' /\ OwedOK(h)'
<1>1. /\ Publishing(h) /\ UNCHANGED <<subs, gone, topics, cl, toCl, topic, torn, owed>>
      /\ hpc[h] = "search" /\ cur[h] \in 1..Len(subs) /\ Len(subs) \in Nat
  BY DEF PublishSearch, Publishing, listVars, sockVars, ListInv, LoopInv, TypeOK, ListTypeOK
<1>2. PICK found \in BOOLEAN :
        /\ cur[h] \in torn[h] \/ found = kprv_subscriber_has_topic(subs[cur[h]], topic[h])
        /\ IF found THEN /\ hpc' = [hpc EXCEPT ![h] = "send"]
                         /\ UNCHANGED <<cur, nxt>>
                    ELSE Visit(h, nxt[h])
  BY DEF PublishSearch
<1>3. Torn(h)' = Torn(h)
  BY <1>1 DEF Torn
<1>4. OwedOK(h)'
  BY <1>1, OwedFrame, ListedFrame DEF kprv_subscriber_has_topic
<1>5. CASE found
  <2>1. Publishing(h)'
    BY <1>2, <1>5 DEF Publishing, ListInv, TypeOK, HandlerTypeOK
  <2> QED
    BY <1>1, <1>2, <1>4, <1>5, <2>1, MissedFrame DEF Delivered
<1>6. CASE ~found
  <2>1. ASSUME NEW c \in owed[h] \ Torn(h), ~Delivered(h, c) PROVE Ahead(h, c)'
    <3>1. PICK i \in cur[h]..Len(subs) :
            subs[i] = c /\ (i = cur[h] \/ (nxt[h] # 0 /\ i >= nxt[h]))
      BY <2>1 DEF MissedOK, Ahead
    <3>2. i # cur[h]
      <4> SUFFICES ASSUME subs[cur[h]] = c PROVE FALSE
        BY <3>1
      <4>1. kprv_subscriber_has_topic(c, topic[h])
        BY <1>1, <2>1 DEF OwedOK
      <4>2. cur[h] \notin torn[h]
        BY <1>1, <2>1 DEF Torn
      <4> QED
        BY <1>2, <1>6, <4>1, <4>2
    <3> QED
      BY <1>1, <1>2, <1>6, <3>1, <3>2, VisitNext
  <2>2. \A c \in owed[h] : Delivered(h, c) => Delivered(h, c)'
    BY <1>1 DEF Delivered
  <2> QED
    BY <1>1, <1>3, <1>4, <2>1, <2>2 DEF MissedOK
<1> QED
  BY <1>5, <1>6

\* kprv_socket_send adds a packet to one channel.
LEMMA SendKeeps ==
  ASSUME TypeOK, NEW c \in Conns, NEW p \in Packet, ServerSend(c, p)
  PROVE  /\ \A g, d \in Conns : Delivered(g, d) => Delivered(g, d)'
         /\ Delivered(p.src, c)'
<1>1. /\ toCl[c] \in Seq(Packet)
      /\ \A d \in Conns : toCl'[d] = IF d = c THEN Append(toCl[c], p) ELSE toCl[d]
  BY DEF ServerSend, TypeOK, SockTypeOK
<1>2. /\ DOMAIN toCl'[c] = 1..Len(toCl[c]) + 1 /\ DOMAIN toCl[c] = 1..Len(toCl[c])
      /\ Len(toCl[c]) \in Nat
      /\ toCl'[c][Len(toCl[c]) + 1] = p
      /\ \A i \in 1..Len(toCl[c]) : toCl'[c][i] = toCl[c][i]
  <2>1. toCl'[c] = Append(toCl[c], p)
    BY <1>1
  <2> QED
    BY <1>1, <2>1
<1>3. Delivered(p.src, c)'
  <2>1. Len(toCl[c]) + 1 \in DOMAIN toCl'[c]
    BY <1>2
  <2> QED
    BY <1>2, <2>1 DEF Delivered
<1>4. ASSUME NEW g \in Conns, NEW d \in Conns, Delivered(g, d) PROVE Delivered(g, d)'
  <2>1. CASE d = c
    <3>1. PICK i \in 1..Len(toCl[c]) : toCl[c][i].src = g
      BY <1>2, <1>4, <2>1 DEF Delivered
    <3>2. i \in DOMAIN toCl'[c] /\ toCl'[c][i].src = g
      BY <1>2, <3>1
    <3> QED
      BY <2>1, <3>2 DEF Delivered
  <2>2. CASE d # c
    BY <1>1, <1>4, <2>2 DEF Delivered
  <2> QED
    BY <2>1, <2>2
<1> QED
  BY <1>3, <1>4

\* The send cannot fail for whoever is owed the packet.
LEMMA SendReaches ==
  ASSUME ListInv, SrvInv, [Next]_vars, NEW h \in Conns, PublishSend(h), MissedOK(h), OwedOK(h)
  PROVE  /\ MissedOK(h)' /\ OwedOK(h)'
         /\ \A g, d \in Conns : Delivered(g, d) => Delivered(g, d)'
<1> DEFINE c == subs[cur[h]]
           p == [src |-> h, topic |-> topic[h]]
<1>1. /\ Publishing(h) /\ UNCHANGED <<subs, gone, topics, topic, torn, owed>> /\ Alive
      /\ cur[h] \in 1..Len(subs) /\ Len(subs) \in Nat /\ c \in Conns
      /\ topic[h] \in Topics /\ Visit(h, nxt[h])
  BY DEF PublishSend, SendThen, Publishing, listVars, ListInv, LoopInv, TypeOK, ListTypeOK,
         HandlerTypeOK
<1>2. p \in Packet /\ p.src = h
  BY <1>1 DEF Packet
<1>3. ServerSend(c, p) \/ (SendFails(c) /\ UNCHANGED sockVars)
  BY DEF PublishSend, SendThen
<1> HIDE DEF c, p
<1>4. cl' = cl /\ Torn(h)' = Torn(h)
  BY <1>1, <1>3 DEF ServerSend, sockVars, Torn
<1>5. \A g, d \in Conns : Delivered(g, d) => Delivered(g, d)'
  BY <1>1, <1>2, <1>3, SendKeeps DEF ListInv, Delivered, sockVars
<1>6. OwedOK(h)'
  BY <1>1, <1>4, OwedFrame, ListedFrame DEF kprv_subscriber_has_topic
<1>7. ASSUME NEW d \in owed[h] \ Torn(h), ~Delivered(h, d) PROVE Delivered(h, d)' \/ Ahead(h, d)'
  <2>1. PICK i \in cur[h]..Len(subs) :
          subs[i] = d /\ (i = cur[h] \/ (nxt[h] # 0 /\ i >= nxt[h]))
    BY <1>7 DEF MissedOK, Ahead
  <2>2. CASE i = cur[h]
    <3>1. d = c /\ Listed(c) /\ cl[c] = "open"
      BY <1>1, <1>7, <2>1, <2>2 DEF OwedOK, c
    <3>2. srv[c] = "fd"
      BY <1>1, <3>1 DEF SrvInv, Listed
    <3> QED
      BY <1>1, <1>2, <1>3, <3>1, <3>2, SendKeeps DEF SendFails, ListInv
  <2>3. CASE i # cur[h]
    BY <1>1, <2>1, <2>3, VisitNext
  <2> QED
    BY <2>2, <2>3
<1>8. owed[h] \subseteq Conns
  BY DEF ListInv, TypeOK, HandlerTypeOK
<1> QED
  BY <1>1, <1>4, <1>5, <1>6, <1>7, <1>8 DEF MissedOK

\* MESSAGE_TYPE_UNSUBSCRIBE of d: who is still subscribed is still owed.
LEMMA UnsubscribeOwes ==
  ASSUME ListInv, [Next]_vars, NEW d \in Conns, HandleUnsubscribe(d), NEW g \in Conns,
         MissedOK(g), OwedOK(g)
  PROVE  MissedOK(g)' /\ OwedOK(g)'
<1> DEFINE t == Head(toSrv[d]).topic
           found == kprv_subscriber_has_topic(d, t)
<1>1. /\ topics' = [topics EXCEPT ![d] = [topics[d] EXCEPT ![t] = IF found THEN topics[d][t] - 1 ELSE topics[d][t]]]
      /\ torn[g] \subseteq torn'[g]
      /\ owed'[g] = IF found /\ topic[g] = t /\ topics[d][t] = 1 THEN owed[g] \ {d} ELSE owed[g]
      /\ UNCHANGED <<subs, gone, hpc, topic, cur, nxt, cl, toCl>>
  <2>1. UNCHANGED <<subs, gone, hpc, topic, cur, nxt, cl, toCl>>
    BY DEF HandleUnsubscribe, Receives, ServerRecv
  <2>2. CASE found
    BY <2>1, <2>2 DEF HandleUnsubscribe, NodeFreed, ListInv, TypeOK, HandlerTypeOK
  <2>3. CASE ~found
    BY <2>1, <2>3 DEF HandleUnsubscribe, ListInv, TypeOK, ListTypeOK
  <2> QED
    BY <2>2, <2>3
<1>2. /\ topics \in [Conns -> [Topics -> Nat]] /\ t \in Topics
      /\ Publishing(g) => topic[g] \in Topics
  <2>1. toSrv[d] \in Seq(Msg) /\ toSrv[d] # <<>> /\ Head(toSrv[d]).type = "unsubscribe"
    BY DEF HandleUnsubscribe, Receives, ServerRecv, ListInv, TypeOK, SockTypeOK
  <2>2. Head(toSrv[d]) \in Msg
    BY <2>1
  <2>3. t \in Topics
    BY <2>1, <2>2 DEF Msg
  <2> QED
    BY <2>3 DEF ListInv, TypeOK, ListTypeOK, HandlerTypeOK
<1> HIDE DEF t
<1>3. owed'[g] \subseteq owed[g] /\ owed[g] \subseteq Conns
  BY <1>1 DEF ListInv, TypeOK, HandlerTypeOK
<1>4. MissedOK(g)'
  BY <1>1, <1>3, MissedFrame DEF Publishing, Delivered
<1>5. ASSUME NEW c \in owed'[g], Publishing(g), kprv_subscriber_has_topic(c, topic[g])
      PROVE  kprv_subscriber_has_topic(c, topic[g])'
  <2>1. CASE c # d
    BY <1>1, <1>2, <1>3, <1>5, <2>1 DEF kprv_subscriber_has_topic
  <2>2. CASE c = d
    <3>1. topics'[d] = [topics[d] EXCEPT ![t] = IF found THEN topics[d][t] - 1 ELSE topics[d][t]]
      BY <1>1, <1>2
    <3>2. topics[d] \in [Topics -> Nat] /\ topics[d][topic[g]] > 0 /\ topic[g] \in Topics
      BY <1>2, <1>5, <2>2 DEF kprv_subscriber_has_topic
    <3>3. CASE topic[g] # t
      BY <1>1, <2>2, <3>1, <3>2, <3>3 DEF kprv_subscriber_has_topic
    <3>4. CASE topic[g] = t
      <4>1. found /\ topics[d][t] # 1
        BY <1>1, <1>5, <2>2, <3>2, <3>4 DEF kprv_subscriber_has_topic
      <4>2. topics'[d][t] = topics[d][t] - 1 /\ topics[d][t] \in Nat /\ topics[d][t] > 0
        BY <1>2, <3>1, <3>2, <3>4, <4>1
      <4> QED
        BY <1>1, <2>2, <3>4, <4>1, <4>2 DEF kprv_subscriber_has_topic
    <3> QED
      BY <3>3, <3>4
  <2> QED
    BY <2>1, <2>2
<1>7. OwedOK(g)'
  <2>1. CASE Publishing(g)
    BY <1>1, <1>3, <1>5, <2>1, ListedFrame, OwedFrame
  <2>2. CASE ~Publishing(g)
    BY <1>1, <2>2 DEF OwedOK, Publishing
  <2> QED
    BY <2>1, <2>2
<1> QED
  BY <1>4, <1>7

LEMMA HandlerFanout ==
  ASSUME ListInv, SrvInv, [Next]_vars, NEW h \in Conns, HandlerStep(h), NEW g \in Conns,
         MissedOK(g), OwedOK(g), MissedOK(h), OwedOK(h)
  PROVE  MissedOK(g)' /\ OwedOK(g)'
<1>0. /\ TypeOK /\ Alive /\ UNCHANGED <<gone, cl>>
  BY HandlerFrame DEF HandlerStep, HandleSubscribe, HandleUnsubscribe, HandlePacket, PublishFrom,
     HandleDisconnect, Receives, PublishSearch, PublishSend, SendThen, HandlerDestroy,
     HandlerCancelled, ListInv
<1>1. CASE HandleUnsubscribe(h)
  BY <1>1, UnsubscribeOwes
<1>2. CASE HandleSubscribe(h)
  <2>1. /\ UNCHANGED <<handlerVars, toCl>>
        /\ \/ topics' = topics
           \/ topics' = [topics EXCEPT ![h] = [topics[h] EXCEPT ![Head(toSrv[h]).topic] = topics[h][Head(toSrv[h]).topic] + 1]]
    BY <1>2 DEF HandleSubscribe, Receives, ServerRecv
  <2>2. topics \in [Conns -> [Topics -> Nat]] /\ owed[g] \subseteq Conns
        /\ (Publishing(g) => topic[g] \in Topics)
    BY <1>0 DEF TypeOK, ListTypeOK, HandlerTypeOK
  <2>3. MissedOK(g)'
    BY <2>1, MissedFrame DEF Publishing, Delivered, handlerVars
  <2>4. ASSUME NEW c \in Conns, Publishing(g), kprv_subscriber_has_topic(c, topic[g])
        PROVE  kprv_subscriber_has_topic(c, topic[g])'
    <3>1. topics[c][topic[g]] \in Nat /\ topics[c][topic[g]] > 0 /\ topic' = topic
      BY <2>1, <2>2, <2>4 DEF kprv_subscriber_has_topic, handlerVars
    <3>2. topics'[c][topic[g]] = topics[c][topic[g]] \/ topics'[c][topic[g]] = topics[c][topic[g]] + 1
      BY <2>1, <2>2, <2>4
    <3> QED
      BY <3>1, <3>2 DEF kprv_subscriber_has_topic
  <2>5. CASE Publishing(g)
    BY <1>0, <2>1, <2>2, <2>3, <2>4, <2>5, ListedFrame, OwedFrame DEF handlerVars
  <2>6. CASE ~Publishing(g)
    BY <2>1, <2>3, <2>6 DEF OwedOK, Publishing, handlerVars
  <2> QED
    BY <2>5, <2>6
<1>3. CASE HandleDisconnect(h)
  <2>1. UNCHANGED <<handlerVars, toCl, topics>>
    BY <1>3 DEF HandleDisconnect, Receives, ServerRecv
  <2>2. /\ topic'[g] = topic[g] /\ hpc'[g] = hpc[g] /\ cur'[g] = cur[g] /\ nxt'[g] = nxt[g]
        /\ torn'[g] = torn[g] /\ owed'[g] \subseteq owed[g]
        /\ \A c \in Conns : Delivered(g, c) => Delivered(g, c)'
    BY <2>1 DEF handlerVars, Delivered
  <2> QED
    BY <1>0, <2>1, <2>2, QuietFrame
<1>4. CASE h = g /\ (HandlePacket(h) \/ PublishSearch(h) \/ PublishSend(h))
  BY <1>4, PacketOwes, SearchFinds, SendReaches
<1>5. CASE h # g /\ (HandlePacket(h) \/ PublishSearch(h) \/ PublishSend(h))
  <2>1. /\ UNCHANGED <<topics>> /\ topic'[g] = topic[g] /\ torn'[g] = torn[g] /\ owed'[g] = owed[g]
        /\ cur'[g] = cur[g] /\ nxt'[g] = nxt[g] /\ hpc'[g] = hpc[g]
    BY <1>0, <1>5, HandlerOthers DEF HandlePacket, PublishFrom, PublishSearch, PublishSend, SendThen,
       Visit, listVars, TypeOK, HandlerTypeOK
  <2>2. \A c \in Conns : Delivered(g, c) => Delivered(g, c)'
    <3>1. PublishSend(h) \/ toCl' = toCl
      BY <1>5 DEF HandlePacket, PublishFrom, Receives, ServerRecv, PublishSearch, sockVars
    <3> QED
      BY <3>1, SendReaches DEF Delivered
  <2> QED
    BY <1>0, <2>1, <2>2, QuietFrame
<1>6. CASE HandlerDestroy(h) \/ HandlerCancelled(h)
  <2>1. /\ UNCHANGED <<topics, topic, cur, nxt, torn, toCl>> /\ owed'[g] \subseteq owed[g]
        /\ hpc'[g] = hpc[g] \/ (hpc'[g] = "dead" /\ (hpc[g] = "recv" \/ owed'[g] = {}))
    BY <1>0, <1>6 DEF HandlerDestroy, HandlerCancelled, listVars, sockVars, TypeOK, HandlerTypeOK
  <2>2. CASE owed'[g] = {}
    BY <2>2 DEF MissedOK, OwedOK
  <2>3. CASE owed'[g] # {}
    <3>1. /\ (Publishing(g) \/ Publishing(g)') => hpc'[g] = hpc[g]
          /\ \A c \in Conns : Delivered(g, c) => Delivered(g, c)'
      BY <2>1, <2>3 DEF Publishing, Delivered
    <3> QED
      BY <1>0, <2>1, <3>1, QuietFrame
  <2> QED
    BY <2>2, <2>3
<1> QED
  BY <1>1, <1>2, <1>3, <1>4, <1>5, <1>6 DEF HandlerStep

(***************************************************************************)
(* The other threads, and the theorem.                                     *)
(***************************************************************************)

\* A step of another thread or of a client that changes neither the list nor
\* a loop, whether or not the process still runs.
LEMMA OtherFrame ==
  ASSUME ListInv, [Next]_vars, NEW g \in Conns, MissedOK(g), Alive => OwedOK(g),
         UNCHANGED <<gone, topics, cl, topic, cur, nxt, torn, owed, toCl>>,
         (Publishing(g) \/ Publishing(g)') => hpc'[g] = hpc[g]
  PROVE  MissedOK(g)' /\ (Alive' => OwedOK(g)')
<1>1. \A c \in Conns : Delivered(g, c) => Delivered(g, c)'
  BY DEF Delivered
<1>2. MissedOK(g)'
  BY <1>1, MissedFrame DEF Publishing
<1>3. ASSUME Alive' PROVE OwedOK(g)'
  BY <1>1, <1>3, AliveBefore, QuietFrame
<1> QED
  BY <1>2, <1>3

\* kprv_subscriber_destroy, and the end of the process, by main.
LEMMA MainFanout ==
  ASSUME ListInv, [Next]_vars, MainStep \/ UseAfterFree \/ Terminate, NEW g \in Conns,
         MissedOK(g), Alive => OwedOK(g)
  PROVE  MissedOK(g)' /\ (Alive' => OwedOK(g)')
<1>0. /\ UNCHANGED <<cl, subs, hpc, cur, nxt, topic, toCl>>
      /\ owed[g] \subseteq Conns
  BY MainFrame DEF ListInv, TypeOK, HandlerTypeOK
<1>1. CASE MainLoopEnds \/ MainKillAcceptThread \/ DestroyFree \/ Terminate
  <2>1. UNCHANGED <<gone, topics, torn, owed>>
    BY <1>1 DEF MainLoopEnds, MainKillAcceptThread, DestroyFree, Terminate, listVars, handlerVars
  <2> QED
    BY <1>0, <2>1, OtherFrame
<1>2. CASE DeleteNext
  <2>1. /\ gone' = mnxt /\ mnxt = gone + 1 /\ UNCHANGED <<topics, torn>> /\ Alive
        /\ owed'[g] = owed[g] \ {subs[mnxt]}
    BY <1>2 DEF DeleteNext, DeleteAndThen, ListInv, CleanupInv, Alive
  <2>2. ASSUME NEW c \in owed'[g], Listed(c) PROVE Listed(c)'
    <3>1. PICK i \in gone + 1 .. Len(subs) : subs[i] = c
      BY <2>2 DEF Listed
    <3>2. i # gone + 1
      BY <2>1, <2>2, <3>1
    <3> QED
      BY <1>0, <2>1, <3>1, <3>2, ListFacts DEF Listed
  <2>3. MissedOK(g)'
    BY <1>0, <2>1, MissedFrame DEF Publishing, Delivered
  <2>4. (Publishing(g)' => Publishing(g)) /\ OwedOK(g)
    BY <1>0, <2>1 DEF Publishing
  <2>5. \A c \in owed'[g] :
          /\ Listed(c) => Listed(c)'
          /\ kprv_subscriber_has_topic(c, topic[g]) => kprv_subscriber_has_topic(c, topic[g])'
          /\ cl[c] = "open" => cl'[c] = "open"
    BY <1>0, <2>1, <2>2 DEF kprv_subscriber_has_topic
  <2>6. OwedOK(g)'
    BY <1>0, <2>1, <2>4, <2>5, OwedFrame
  <2> QED
    BY <2>3, <2>6
<1>3. CASE DestroyClose
  <2> DEFINE d == subs[gone]
  <2>1. /\ gone' = gone /\ owed' = owed /\ Alive /\ gone \in 1..Len(subs)
        /\ topics' = [topics EXCEPT ![d] = NoTopics]
        /\ torn[g] \subseteq torn'[g]
    BY <1>3, ListFacts DEF DestroyClose, CloseAnyhow, NodeFreed, ListInv, CleanupInv, Alive
  <2>2. d \in Conns /\ ~Listed(d)
    BY <2>1, ListFacts DEF Listed
  <2> HIDE DEF d
  <2>3. MissedOK(g)'
    BY <1>0, <2>1, MissedFrame DEF Publishing, Delivered
  <2>4. CASE Publishing(g)
    <3>1. d \notin owed[g]
      BY <2>1, <2>2, <2>4 DEF OwedOK
    <3>2. ASSUME NEW c \in owed[g] PROVE topics'[c] = topics[c]
      BY <1>0, <2>1, <3>1, <3>2 DEF ListInv, TypeOK, ListTypeOK
    <3>4. \A c \in owed'[g] :
            /\ Listed(c) => Listed(c)'
            /\ kprv_subscriber_has_topic(c, topic[g]) => kprv_subscriber_has_topic(c, topic[g])'
            /\ cl[c] = "open" => cl'[c] = "open"
      BY <1>0, <2>1, <3>2 DEF kprv_subscriber_has_topic, Listed
    <3> QED
      BY <1>0, <2>1, <2>3, <2>4, <3>4, OwedFrame
  <2>5. CASE ~Publishing(g)
    BY <1>0, <2>3, <2>5 DEF OwedOK, Publishing
  <2> QED
    BY <2>4, <2>5
<1>4. CASE MainReturns \/ UseAfterFree \/ KillNobody
  <2>1. owed' = owed /\ torn' = torn /\ ~Alive'
    BY <1>4 DEF MainReturns, UseAfterFree, KillNobody, handlerVars, Alive
  <2> QED
    BY <1>0, <2>1, MissedFrame DEF Publishing, Delivered
<1> QED
  BY <1>1, <1>2, <1>3, <1>4 DEF MainStep

\* An application that goes is owed nothing, and no other call disturbs a loop.
LEMMA ClientFanout ==
  ASSUME ListInv, [Next]_vars, NEW c \in Conns, ClientStep(c), NEW g \in Conns,
         MissedOK(g), Alive => OwedOK(g)
  PROVE  MissedOK(g)' /\ (Alive' => OwedOK(g)')
<1>0. UNCHANGED <<mpc, gone, subs, topics, hpc, topic, cur, nxt, torn>>
  BY ClientFrame DEF threadVars, listVars
<1>1. CASE CloseConnection(c)
  <2>1. /\ owed'[g] = owed[g] \ {c} /\ toCl' = toCl /\ cl' = [cl EXCEPT ![c] = "closed"]
    BY <1>1 DEF CloseConnection, ClientClose
  <2>2. MissedOK(g)'
    BY <1>0, <2>1, MissedFrame DEF Publishing, Delivered
  <2>3. \A d \in owed'[g] : cl'[d] = cl[d] /\ d \in Conns
    BY <2>1 DEF ListInv, TypeOK, SockTypeOK, HandlerTypeOK
  <2> QED
    BY <1>0, <2>1, <2>2, <2>3
       DEF OwedOK, Publishing, Listed, kprv_subscriber_has_topic, Alive
<1>2. CASE telemetry_connect(c)
  <2>1. cl' = [cl EXCEPT ![c] = "open"] /\ owed' = owed /\ toCl' = toCl
    BY <1>2 DEF telemetry_connect, kprv_socket_client_connect, serverVars, handlerVars
  <2>2. MissedOK(g)'
    BY <1>0, <2>1, MissedFrame DEF Publishing, Delivered
  <2>3. \A d \in owed[g] : cl[d] = "open" => cl'[d] = "open"
    BY <2>1 DEF ListInv, TypeOK, SockTypeOK, HandlerTypeOK
  <2> QED
    BY <1>0, <2>1, <2>2, <2>3
       DEF OwedOK, Publishing, Listed, kprv_subscriber_has_topic, Alive
<1>3. CASE UNCHANGED <<cl, owed, toCl>>
  BY <1>0, <1>3, OtherFrame
<1> QED
  BY <1>1, <1>2, <1>3
     DEF ClientStep, telemetry_subscribe, telemetry_unsubscribe, Request, telemetry_publish,
         telemetry_read, telemetry_disconnect, HangUp, ClientDies, ClientSend, ClientRecv,
         sockVars, serverVars, handlerVars

LEMMA NextFanout ==
  ASSUME ListInv, SrvInv, OwedInv, NobodyMissed, [Next]_vars
  PROVE  OwedInv' /\ NobodyMissed'
<1>0. \A g \in Conns : MissedOK(g) /\ (Alive => OwedOK(g))
  BY DEF NobodyMissed, OwedInv, MissedOK, Ahead
<1> SUFFICES ASSUME NEW g \in Conns PROVE MissedOK(g)' /\ (Alive' => OwedOK(g)')
  BY DEF NobodyMissed, OwedInv, MissedOK, Ahead
<1>1. CASE AcceptStep
  <2>1. ASSUME NEW c \in Conns, AcceptClient(c) PROVE hpc[c] = "none"
    <3>1. backlog # <<>> /\ c = Head(backlog) /\ backlog \in Seq(Conns)
      BY <2>1 DEF AcceptClient, kprv_socket_server_accept, ListInv, TypeOK, SockTypeOK
    <3>2. 1 \in DOMAIN backlog /\ c = backlog[1]
      BY <3>1
    <3> QED
      BY <3>2 DEF ListInv, AcceptInv
  <2>2. /\ UNCHANGED <<gone, topics, cl, topic, cur, nxt, torn, owed, toCl>>
        /\ \/ hpc' = hpc
           \/ \E c \in Conns, p \in {"recv", "failed"} : hpc[c] = "none" /\ hpc' = [hpc EXCEPT ![c] = p]
    BY <1>1, <2>1 DEF AcceptStep, AcceptClient, AcceptWithoutMemory, SubscriberAddFind,
       SubscriberAddLink, Link, kprv_socket_server_accept, sockVars, listVars, handlerVars
  <2>3. (Publishing(g) \/ Publishing(g)') => hpc'[g] = hpc[g]
    BY <2>2 DEF Publishing, ListInv, TypeOK, HandlerTypeOK
  <2> QED
    BY <1>0, <2>2, <2>3, OtherFrame
<1>2. ASSUME NEW h \in Conns, HandlerStep(h) PROVE MissedOK(g)' /\ (Alive' => OwedOK(g)')
  <2>1. Alive
    BY <1>2 DEF HandlerStep, HandleSubscribe, HandleUnsubscribe, HandlePacket, PublishFrom,
       HandleDisconnect, Receives, PublishSearch, PublishSend, SendThen, HandlerDestroy,
       HandlerCancelled
  <2> QED
    BY <1>0, <1>2, <2>1, HandlerFanout
<1>3. CASE MainStep \/ UseAfterFree \/ Terminate
  BY <1>0, <1>3, MainFanout
<1>4. ASSUME NEW c \in Conns, ClientStep(c) PROVE MissedOK(g)' /\ (Alive' => OwedOK(g)')
  BY <1>0, <1>4, ClientFanout
<1>5. ASSUME NEW c \in Conns, ConnectionLost(c) PROVE MissedOK(g)' /\ (Alive' => OwedOK(g)')
  <2>1. UNCHANGED <<gone, topics, cl, topic, cur, nxt, torn, owed, toCl, hpc>>
    BY <1>5 DEF ConnectionLost, BacklogDrop, serverVars, listVars, handlerVars
  <2> QED
    BY <1>0, <2>1, OtherFrame
<1>6. CASE UNCHANGED vars
  <2>1. UNCHANGED <<gone, topics, cl, topic, cur, nxt, torn, owed, toCl, hpc>>
    BY <1>6 DEF vars, sockVars, serverVars, listVars, handlerVars
  <2> QED
    BY <1>0, <2>1, OtherFrame
<1> QED
  BY <1>1, <1>2, <1>3, <1>4, <1>5, <1>6 DEF Next, ServerStep

LEMMA InitFanout == Init => SrvInv /\ OwedInv /\ NobodyMissed
BY DEF Init, SocketInit, ServerInit, SrvInv, OwedInv, OwedOK, NobodyMissed, Publishing

\* kprv_publish_packet misses no subscriber that was linked, subscribed and
\* connected when it started and stayed so, whatever the other handlers,
\* main_thread, main and the clients do during its loop, except one that
\* drops another item of its topic list while the loop searches that list.
THEOREM ReachesEverybody == Spec => []NobodyMissed
<1> DEFINE I == ListInv /\ SrvInv /\ OwedInv /\ NobodyMissed
<1>1. Init => I
  BY InitListInv, InitFanout
<1>2. I /\ [Next]_vars => I'
  BY NextTypeOK, NextAcceptInv, NextCleanupInv, NextLoopInv, NextSrvInv, NextFanout DEF ListInv
<1>3. I => NobodyMissed
  OBVIOUS
<1> QED
  BY <1>1, <1>2, <1>3, PTL DEF Spec
=============================================================================
