------------------------ MODULE TelemetrySafetyProofs ------------------------
(* The types and the safety properties of TelemetrySystem, for every set   *)
(* of connections and topics, every backlog, channel capacity and number   *)
(* of requests: the parts of IInv are inductive.                           *)
EXTENDS TelemetrySystem, TLAPS

LEMMA RemoveAtType ==
  ASSUME NEW S, NEW s \in Seq(S), NEW i \in 1..Len(s)
  PROVE  RemoveAt(s, i) \in Seq(S)
BY DEF RemoveAt

LEMMA InitTypeOK == Init => TypeOK
<1> SUFFICES ASSUME Init PROVE TypeOK
  OBVIOUS
<1>1. SockTypeOK
  BY DEF Init, SocketInit, SockTypeOK, ClState, SrvState
<1>2. ThreadTypeOK
  BY DEF Init, ServerInit, ThreadTypeOK, MainPc, AcceptPc
<1>3. ListTypeOK
  BY DEF Init, ServerInit, ListTypeOK, NoTopics
<1>4. HandlerTypeOK
  BY DEF Init, ServerInit, HandlerTypeOK, HandlerPc, Publishing
<1>5. ClientTypeOK
  BY DEF Init, ClientTypeOK, AppPc
<1> QED
  BY <1>1, <1>2, <1>3, <1>4, <1>5 DEF TypeOK

\* Actions keep the types when they keep the types of what they change.
LEMMA SockStepType ==
  ASSUME TypeOK, UNCHANGED sockVars
  PROVE  SockTypeOK'
BY DEF TypeOK, SockTypeOK, sockVars

LEMMA ThreadStepType ==
  ASSUME TypeOK, UNCHANGED threadVars
  PROVE  ThreadTypeOK'
BY DEF TypeOK, ThreadTypeOK, threadVars

LEMMA ListStepType ==
  ASSUME TypeOK, UNCHANGED listVars
  PROVE  ListTypeOK'
BY DEF TypeOK, ListTypeOK, listVars

LEMMA HandlerStepType ==
  ASSUME TypeOK, UNCHANGED handlerVars
  PROVE  HandlerTypeOK'
BY DEF TypeOK, HandlerTypeOK, handlerVars, Publishing

LEMMA ClientStepType ==
  ASSUME TypeOK, UNCHANGED clientVars
  PROVE  ClientTypeOK'
BY DEF TypeOK, ClientTypeOK, clientVars

\* The socket operations keep the types of the sockets' variables.
LEMMA SocketType ==
  ASSUME TypeOK, NEW c \in Conns
  PROVE  /\ kprv_socket_client_connect(c) => SockTypeOK'
         /\ \A m \in Msg : ClientSend(c, m) => SockTypeOK'
         /\ ClientRecv(c) => SockTypeOK'
         /\ ClientClose(c) => SockTypeOK'
         /\ \A end \in SrvState : kprv_socket_server_accept(c, end) => SockTypeOK'
         /\ ServerRecv(c) => SockTypeOK'
         /\ \A m \in Packet : ServerSend(c, m) => SockTypeOK'
         /\ BacklogDrop(c) => SockTypeOK'
<1> USE DEF TypeOK, SockTypeOK
<1>1. kprv_socket_client_connect(c) => SockTypeOK'
  BY DEF kprv_socket_client_connect, ClState, SrvState
<1>2. ASSUME NEW m \in Msg, ClientSend(c, m) PROVE SockTypeOK'
  BY <1>2 DEF ClientSend
<1>3. ClientRecv(c) => SockTypeOK'
  BY DEF ClientRecv
<1>4. ClientClose(c) => SockTypeOK'
  BY DEF ClientClose, ClState
<1>5. ASSUME NEW end \in SrvState, kprv_socket_server_accept(c, end) PROVE SockTypeOK'
  BY <1>5 DEF kprv_socket_server_accept
<1>6. ServerRecv(c) => SockTypeOK'
  BY DEF ServerRecv
<1>7. ASSUME NEW m \in Packet, ServerSend(c, m) PROVE SockTypeOK'
  BY <1>7 DEF ServerSend
<1>8. BacklogDrop(c) => SockTypeOK'
  BY RemoveAtType DEF BacklogDrop, SrvState
<1> QED
  BY <1>1, <1>2, <1>3, <1>4, <1>5, <1>6, <1>7, <1>8

LEMMA ServerEndsType ==
  ASSUME TypeOK, ServerEnds
  PROVE  SockTypeOK'
BY DEF TypeOK, SockTypeOK, ServerEnds, SrvState

LEMMA ServerCloseType ==
  ASSUME TypeOK, NEW c, ServerClose(c)
  PROVE  SockTypeOK'
BY DEF TypeOK, SockTypeOK, ServerClose, SrvState

\* The application's calls.
LEMMA ClientTypes ==
  ASSUME TypeOK, NEW c \in Conns, ClientStep(c)
  PROVE  TypeOK'
<1>1. ThreadTypeOK' /\ ListTypeOK'
  BY ThreadStepType, ListStepType
     DEF ClientStep, telemetry_connect, telemetry_subscribe, telemetry_unsubscribe, Request,
         telemetry_publish, telemetry_read, telemetry_disconnect, HangUp, ClientDies,
         CloseConnection, serverVars
<1>2. HandlerTypeOK'
  <2>1. UNCHANGED handlerVars => HandlerTypeOK'
    BY HandlerStepType
  <2>2. CloseConnection(c) => HandlerTypeOK'
    BY DEF CloseConnection, TypeOK, HandlerTypeOK, Publishing
  <2> QED
    BY <2>1, <2>2
       DEF ClientStep, telemetry_connect, telemetry_subscribe, telemetry_unsubscribe, Request,
           telemetry_publish, telemetry_read, telemetry_disconnect, HangUp, ClientDies,
           serverVars
<1>3. ClientTypeOK'
  <2> USE DEF TypeOK, ClientTypeOK, AppPc
  <2>1. CASE telemetry_connect(c) \/ telemetry_disconnect(c) \/ HangUp(c) \/ ClientDies(c)
    BY <2>1 DEF telemetry_connect, telemetry_disconnect, HangUp, ClientDies, CloseConnection
  <2>2. ASSUME NEW t \in Topics,
               telemetry_subscribe(c, t) \/ telemetry_unsubscribe(c, t) \/ telemetry_publish(c, t)
        PROVE  ClientTypeOK'
    BY <2>2 DEF telemetry_subscribe, telemetry_unsubscribe, Request, telemetry_publish
  <2>3. CASE telemetry_read(c)
    BY <2>3 DEF telemetry_read
  <2> QED
    BY <2>1, <2>2, <2>3 DEF ClientStep
<1>4. SockTypeOK'
  <2>1. CASE telemetry_connect(c)
    BY <2>1, SocketType DEF telemetry_connect
  <2>2. ASSUME NEW t \in Topics, telemetry_subscribe(c, t) \/ telemetry_unsubscribe(c, t)
        PROVE  SockTypeOK'
    BY <2>2, SocketType DEF telemetry_subscribe, telemetry_unsubscribe, Request, Msg
  <2>3. ASSUME NEW t \in Topics, telemetry_publish(c, t) PROVE SockTypeOK'
    BY <2>3, SocketType DEF telemetry_publish, Msg
  <2>4. CASE telemetry_read(c)
    BY <2>4, SocketType, SockStepType DEF telemetry_read
  <2>5. CASE telemetry_disconnect(c)
    BY <2>5, SocketType, SockStepType DEF telemetry_disconnect, Msg
  <2>6. CASE HangUp(c) \/ ClientDies(c)
    BY <2>6, SocketType DEF HangUp, ClientDies, CloseConnection
  <2> QED
    BY <2>1, <2>2, <2>3, <2>4, <2>5, <2>6 DEF ClientStep
<1> QED
  BY <1>1, <1>2, <1>3, <1>4 DEF TypeOK

\* The accept thread and main.
LEMMA AcceptTypes ==
  ASSUME TypeOK, AcceptStep
  PROVE  SockTypeOK' /\ ThreadTypeOK' /\ ListTypeOK' /\ HandlerTypeOK'
<1>1. ASSUME NEW c \in Conns, AcceptClient(c)
      PROVE  SockTypeOK' /\ ThreadTypeOK' /\ ListTypeOK' /\ HandlerTypeOK'
  BY <1>1, SocketType
     DEF AcceptClient, SrvState, TypeOK, ThreadTypeOK, AcceptPc, ListTypeOK, HandlerTypeOK,
         HandlerPc, Publishing
<1>2. ASSUME NEW c \in Conns, AcceptWithoutMemory(c)
      PROVE  SockTypeOK' /\ ThreadTypeOK' /\ ListTypeOK' /\ HandlerTypeOK'
  BY <1>2, SocketType, ListStepType, HandlerStepType
     DEF AcceptWithoutMemory, AcceptLoop, SrvState, TypeOK, ThreadTypeOK, AcceptPc
<1>3. CASE SubscriberAddFind
  BY <1>3, SockStepType, ListStepType, HandlerStepType
     DEF SubscriberAddFind, TypeOK, ThreadTypeOK, AcceptPc, ListTypeOK
<1>4. ASSUME NEW c \in Conns, SubscriberAddLink(c)
      PROVE  SockTypeOK' /\ ThreadTypeOK' /\ ListTypeOK' /\ HandlerTypeOK'
  BY <1>4, SockStepType, HandlerStepType
     DEF SubscriberAddLink, Link, AcceptLoop, TypeOK, ThreadTypeOK, AcceptPc, ListTypeOK
<1> QED
  BY <1>1, <1>2, <1>3, <1>4 DEF AcceptStep

\* free() of a node of a topic list.
LEMMA NodeFreedType ==
  ASSUME TypeOK, NEW c, NodeFreed(c)
  PROVE  torn' \in [Conns -> SUBSET Nat]
<1>1. ASSUME NEW g \in Conns
      PROVE  (IF Searching(g, c) THEN torn[g] \union {cur[g]} ELSE torn[g]) \in SUBSET Nat
  BY DEF Searching, TypeOK, HandlerTypeOK, ListTypeOK
<1> QED
  BY <1>1 DEF NodeFreed

LEMMA MainTypes ==
  ASSUME TypeOK, MainStep \/ UseAfterFree \/ Terminate
  PROVE  SockTypeOK' /\ ThreadTypeOK' /\ ListTypeOK' /\ HandlerTypeOK'
<1> USE DEF TypeOK, ThreadTypeOK, MainPc
<1>1. CASE MainLoopEnds \/ DestroyFree \/ Terminate
  BY <1>1, SockStepType, ListStepType, HandlerStepType
     DEF MainLoopEnds, DestroyFree, Terminate
<1>2. CASE MainKillAcceptThread
  BY <1>2, ServerEndsType, SockStepType, ListStepType, HandlerStepType
     DEF MainKillAcceptThread, First, ListTypeOK
<1>3. CASE DeleteNext
  BY <1>3, SockStepType DEF DeleteNext, DeleteAndThen, Succ, ListTypeOK, HandlerTypeOK, Publishing
<1>4. CASE DestroyClose
  <2> DEFINE c == subs[gone]
  <2>1. /\ ServerClose(c)
        /\ topics' = [topics EXCEPT ![c] = NoTopics]
        /\ torn' = torn \/ NodeFreed(c)
        /\ mpc' = "free"
        /\ UNCHANGED <<running, mnxt, apc, asub, tail, subs, gone, active,
                       hpc, topic, cur, nxt, owed>>
    BY <1>4 DEF DestroyClose, CloseAnyhow
  <2> HIDE DEF c
  <2>2. SockTypeOK' /\ ThreadTypeOK'
    BY <2>1, ServerCloseType
  <2>3. ListTypeOK'
    BY <2>1 DEF ListTypeOK, NoTopics
  <2>4. HandlerTypeOK'
    <3>1. torn' \in [Conns -> SUBSET Nat]
      BY <1>4, <2>1, NodeFreedType DEF HandlerTypeOK
    <3> QED
      BY <2>1, <3>1 DEF HandlerTypeOK, Publishing
  <2> QED
    BY <2>2, <2>3, <2>4
<1>5. CASE MainReturns \/ UseAfterFree \/ KillNobody
  BY <1>5, ServerEndsType, ListStepType, HandlerStepType DEF MainReturns, UseAfterFree, KillNobody
<1> QED
  BY <1>1, <1>2, <1>3, <1>4, <1>5 DEF MainStep

\* Changing one counter of one topic list keeps the lists' type.
LEMMA CountType ==
  ASSUME NEW f \in [Conns -> [Topics -> Nat]], NEW h \in Conns, NEW t \in Topics, NEW n \in Nat
  PROVE  [f EXCEPT ![h] = [f[h] EXCEPT ![t] = n]] \in [Conns -> [Topics -> Nat]]
OBVIOUS

\* A handler of client_handler.
LEMMA VisitType ==
  ASSUME TypeOK, NEW h \in Conns, NEW i \in Nat, Visit(h, i),
         UNCHANGED <<torn, owed>>, topic' \in [Conns -> Topics \union {NoTopic}],
         \A g \in Conns : g # h => topic'[g] = topic[g],
         topic'[h] \in Topics
  PROVE  HandlerTypeOK'
<1>1. Succ(i) \in Nat
  BY DEF Succ, TypeOK, ListTypeOK
<1>2. /\ hpc' \in [Conns -> HandlerPc]
      /\ cur' \in [Conns -> Nat]
      /\ nxt' \in [Conns -> Nat]
      /\ torn' \in [Conns -> SUBSET Nat]
  BY <1>1 DEF Visit, TypeOK, HandlerTypeOK, HandlerPc
<1>3. \A g \in Conns : Publishing(g)' => topic'[g] \in Topics
  BY DEF Visit, TypeOK, HandlerTypeOK, Publishing
<1> QED
  BY <1>2, <1>3 DEF TypeOK, HandlerTypeOK

LEMMA HandlerTypes ==
  ASSUME TypeOK, NEW h \in Conns, HandlerStep(h)
  PROVE  SockTypeOK' /\ ThreadTypeOK' /\ ListTypeOK' /\ HandlerTypeOK'
<1>0. toSrv[h] # <<>> => Head(toSrv[h]) \in Msg
  BY DEF TypeOK, SockTypeOK
<1>1. CASE HandleSubscribe(h)
  <2>1. SockTypeOK' /\ ThreadTypeOK' /\ HandlerTypeOK'
    BY <1>1, SocketType, ThreadStepType, HandlerStepType DEF HandleSubscribe, Receives
  <2>2. ListTypeOK'
    <3> DEFINE t == Head(toSrv[h]).topic
    <3>1. t \in Topics
      BY <1>0, <1>1 DEF HandleSubscribe, Receives, Msg
    <3>2. topics[h][t] + 1 \in Nat /\ topics \in [Conns -> [Topics -> Nat]]
      BY <3>1 DEF TypeOK, ListTypeOK
    <3>3. /\ topics' = topics \/ topics' = [topics EXCEPT ![h] = [topics[h] EXCEPT ![t] = topics[h][t] + 1]]
          /\ UNCHANGED <<subs, gone, active>>
      BY <1>1 DEF HandleSubscribe
    <3> HIDE DEF t
    <3>4. topics' \in [Conns -> [Topics -> Nat]]
      BY <3>1, <3>2, <3>3, CountType
    <3> QED
      BY <3>3, <3>4 DEF TypeOK, ListTypeOK
  <2> QED
    BY <2>1, <2>2
<1>2. CASE HandleUnsubscribe(h)
  <2>1. SockTypeOK' /\ ThreadTypeOK'
    BY <1>2, SocketType, ThreadStepType DEF HandleUnsubscribe, Receives
  <2>2. ListTypeOK'
    <3> DEFINE t == Head(toSrv[h]).topic
    <3>1. t \in Topics
      BY <1>0, <1>2 DEF HandleUnsubscribe, Receives, Msg
    <3>2. topics[h][t] \in Nat /\ topics \in [Conns -> [Topics -> Nat]]
      BY <3>1 DEF TypeOK, ListTypeOK
    <3> DEFINE n == topics[h][t] - 1
    <3>3. /\ topics' = topics \/ topics' = [topics EXCEPT ![h] = [topics[h] EXCEPT ![t] = n]]
          /\ UNCHANGED <<subs, gone, active>>
      BY <1>2 DEF HandleUnsubscribe
    <3>4. CASE topics' = topics
      BY <3>3, <3>4 DEF TypeOK, ListTypeOK
    <3>5. topics' = topics \/ n \in Nat
      BY <1>2, <3>2 DEF HandleUnsubscribe, kprv_subscriber_has_topic
    <3> HIDE DEF t, n
    <3>6. ASSUME n \in Nat, topics' = [topics EXCEPT ![h] = [topics[h] EXCEPT ![t] = n]]
          PROVE  topics' \in [Conns -> [Topics -> Nat]]
      BY <3>1, <3>2, <3>6, CountType
    <3> QED
      BY <3>3, <3>4, <3>5, <3>6 DEF TypeOK, ListTypeOK
  <2>3. torn' \in [Conns -> SUBSET Nat]
    BY <1>2, NodeFreedType DEF HandleUnsubscribe, TypeOK, HandlerTypeOK
  <2>4. owed' \in [Conns -> SUBSET Conns]
    BY <1>2 DEF HandleUnsubscribe, TypeOK, HandlerTypeOK
  <2>5. HandlerTypeOK'
    BY <1>2, <2>3, <2>4 DEF HandleUnsubscribe, TypeOK, HandlerTypeOK, Publishing
  <2> QED
    BY <2>1, <2>2, <2>5
<1>3. CASE HandlePacket(h)
  <2> DEFINE t == Head(toSrv[h]).topic
  <2>1. t \in Topics
    BY <1>0, <1>3 DEF HandlePacket, PublishFrom, Receives, Msg
  <2>2. First \in Nat /\ Succ(First) \in Nat
    BY DEF First, Succ, TypeOK, ListTypeOK
  <2>3. SockTypeOK' /\ ThreadTypeOK' /\ ListTypeOK'
    BY <1>3, SocketType, ThreadStepType, ListStepType DEF HandlePacket, PublishFrom, Receives
  <2>4. HandlerTypeOK'
    BY <1>3, <2>1, <2>2
       DEF HandlePacket, PublishFrom, Visit, TypeOK, HandlerTypeOK, HandlerPc, Publishing
  <2> QED
    BY <2>3, <2>4
<1>4. CASE PublishSearch(h)
  <2>1. SockTypeOK' /\ ThreadTypeOK' /\ ListTypeOK'
    BY <1>4, SockStepType, ThreadStepType, ListStepType DEF PublishSearch
  <2>2. topic[h] \in Topics /\ nxt[h] \in Nat /\ UNCHANGED <<topic, torn, owed>>
    BY <1>4 DEF PublishSearch, TypeOK, HandlerTypeOK, Publishing
  <2>3. CASE Visit(h, nxt[h])
    BY <2>1, <2>2, <2>3, VisitType DEF TypeOK, HandlerTypeOK
  <2>4. CASE hpc' = [hpc EXCEPT ![h] = "send"] /\ UNCHANGED <<cur, nxt>>
    BY <2>1, <2>2, <2>4 DEF TypeOK, HandlerTypeOK, HandlerPc, Publishing
  <2> QED
    BY <1>4, <2>3, <2>4 DEF PublishSearch
<1>5. CASE PublishSend(h)
  <2> DEFINE c == subs[cur[h]]
             p == [src |-> h, topic |-> topic[h]]
  <2>1. topic[h] \in Topics /\ nxt[h] \in Nat /\ UNCHANGED <<topic, torn, owed>>
    BY <1>5 DEF PublishSend, SendThen, TypeOK, HandlerTypeOK, Publishing
  <2>2. p \in Packet
    BY <2>1 DEF Packet
  <2>3. /\ ServerSend(c, p) \/ UNCHANGED sockVars
        /\ Visit(h, nxt[h])
        /\ UNCHANGED <<threadVars, listVars>>
    BY <1>5 DEF PublishSend, SendThen
  <2> HIDE DEF c, p
  <2>4. SockTypeOK'
    <3>1. CASE ServerSend(c, p) /\ c \in Conns
      BY <2>2, <3>1, SocketType
    <3>2. CASE ServerSend(c, p) /\ c \notin Conns
      <4>1. toCl' = toCl
        BY <3>2 DEF ServerSend, TypeOK, SockTypeOK
      <4> QED
        BY <3>2, <4>1 DEF ServerSend, TypeOK, SockTypeOK
    <3> QED
      BY <2>3, <3>1, <3>2, SockStepType
  <2>5. HandlerTypeOK'
    <3>1. topic \in [Conns -> Topics \union {NoTopic}]
      BY DEF TypeOK, HandlerTypeOK
    <3> QED
      BY <2>1, <2>3, <3>1, VisitType
  <2> QED
    BY <2>3, <2>4, <2>5, ThreadStepType, ListStepType
<1>6. CASE HandleDisconnect(h)
  BY <1>6, SocketType, ThreadStepType, HandlerStepType
     DEF HandleDisconnect, Receives, TypeOK, ListTypeOK
<1>7. CASE HandlerDestroy(h) \/ HandlerCancelled(h)
  BY <1>7, SockStepType, ThreadStepType, ListStepType
     DEF HandlerDestroy, HandlerCancelled, TypeOK, HandlerTypeOK, HandlerPc, Publishing
<1> QED
  BY <1>1, <1>2, <1>3, <1>4, <1>5, <1>6, <1>7 DEF HandlerStep

\* The types of every variable, in every reachable state (server.c, main.c,
\* client.c and socket.c).
LEMMA NextTypeOK == TypeOK /\ [Next]_vars => TypeOK'
<1> SUFFICES ASSUME TypeOK, [Next]_vars PROVE TypeOK'
  OBVIOUS
<1>1. CASE ServerStep /\ UNCHANGED clientVars
  BY <1>1, AcceptTypes, HandlerTypes, MainTypes, ClientStepType DEF ServerStep, TypeOK
<1>2. ASSUME NEW c \in Conns, ClientStep(c) PROVE TypeOK'
  BY <1>2, ClientTypes
<1>3. ASSUME NEW c \in Conns, ConnectionLost(c) PROVE TypeOK'
  BY <1>3, SocketType, ThreadStepType, ListStepType, HandlerStepType, ClientStepType
     DEF ConnectionLost, serverVars, TypeOK
<1>4. CASE UNCHANGED vars
  BY <1>4, SockStepType, ThreadStepType, ListStepType, HandlerStepType, ClientStepType
     DEF vars, serverVars, TypeOK
<1> QED
  BY <1>1, <1>2, <1>3, <1>4 DEF Next

\* Every variable of the telemetry service, of its clients (server.c, main.c,
\* client.c) and of their sockets (socket.c) keeps its type.
THEOREM TypeCorrect == Spec => []TypeOK
BY InitTypeOK, NextTypeOK, PTL DEF Spec

-----------------------------------------------------------------------------
(***************************************************************************)
(* Sequences without repetition.                                           *)
(***************************************************************************)

LEMMA AppendDistinct ==
  ASSUME NEW S, NEW s \in Seq(S), NEW x \in S, IsInjective(s),
         \A i \in DOMAIN s : s[i] # x
  PROVE  /\ IsInjective(Append(s, x))
         /\ \A i \in DOMAIN Append(s, x) : Append(s, x)[i] = x \/ \E j \in DOMAIN s : s[j] = Append(s, x)[i]
BY DEF IsInjective

LEMMA TailDistinct ==
  ASSUME NEW S, NEW s \in Seq(S), s # <<>>, IsInjective(s)
  PROVE  /\ IsInjective(Tail(s))
         /\ \A i \in DOMAIN Tail(s) : Tail(s)[i] # Head(s) /\ \E j \in DOMAIN s : s[j] = Tail(s)[i]
<1>1. /\ DOMAIN Tail(s) = 1..Len(s) - 1
      /\ \A i \in 1..Len(s) - 1 : Tail(s)[i] = s[i + 1] /\ i + 1 \in DOMAIN s
      /\ Head(s) = s[1] /\ 1 \in DOMAIN s
  OBVIOUS
<1> QED
  BY <1>1 DEF IsInjective

LEMMA RemoveAtDistinct ==
  ASSUME NEW S, NEW s \in Seq(S), NEW k \in 1..Len(s), IsInjective(s)
  PROVE  /\ IsInjective(RemoveAt(s, k))
         /\ \A i \in DOMAIN RemoveAt(s, k) : \E j \in DOMAIN s : s[j] = RemoveAt(s, k)[i]
<1> DEFINE r == RemoveAt(s, k)
           up(i) == IF i < k THEN i ELSE i + 1
<1>1. /\ DOMAIN r = 1..Len(s) - 1
      /\ \A i \in 1..Len(s) - 1 : r[i] = s[up(i)] /\ up(i) \in DOMAIN s
  <2> DEFINE a == SubSeq(s, 1, k - 1)
             b == SubSeq(s, k + 1, Len(s))
  <2>1. a \in Seq(S) /\ Len(a) = k - 1 /\ \A i \in 1..k - 1 : a[i] = s[i]
    OBVIOUS
  <2>2. b \in Seq(S) /\ Len(b) = Len(s) - k /\ \A i \in 1..Len(s) - k : b[i] = s[k + i]
    OBVIOUS
  <2>3. r = a \o b
    BY DEF RemoveAt
  <2> HIDE DEF a, b, r
  <2>4. DOMAIN r = 1..Len(s) - 1
    BY <2>1, <2>2, <2>3
  <2>5. ASSUME NEW i \in 1..Len(s) - 1
        PROVE  r[i] = s[up(i)] /\ up(i) \in DOMAIN s
    <3>1. CASE i < k
      BY <2>1, <2>2, <2>3, <3>1
    <3>2. CASE ~(i < k)
      <4>1. r[i] = b[i - (k - 1)] /\ i - (k - 1) \in 1..Len(s) - k
        BY <2>1, <2>2, <2>3, <3>2
      <4> QED
        BY <2>2, <3>2, <4>1
    <3> QED
      BY <3>1, <3>2
  <2> QED
    BY <2>4, <2>5
<1>2. \A i, j \in 1..Len(s) - 1 : up(i) = up(j) => i = j
  OBVIOUS
<1> HIDE DEF up, r
<1>3. IsInjective(r) /\ \A i \in DOMAIN r : \E j \in DOMAIN s : s[j] = r[i]
  BY <1>1, <1>2 DEF IsInjective
<1> QED
  BY <1>3 DEF r

(***************************************************************************)
(* AcceptInv: main_thread and the backlog.                                 *)
(***************************************************************************)

\* A step that touches neither the backlog nor the list keeps AcceptInv.
LEMMA AcceptFrame ==
  ASSUME TypeOK, AcceptInv, UNCHANGED <<backlog, cl, asub, apc, subs>>,
         \A c \in Conns : hpc[c] # "none" => hpc'[c] # "none",
         \A c \in Conns : hpc[c] = "none" => hpc'[c] = "none"
  PROVE  AcceptInv'
<1>1. /\ \A i \in DOMAIN backlog : backlog[i] \in Conns
      /\ \A i \in DOMAIN subs : subs[i] \in Conns
      /\ asub \subseteq Conns
  BY DEF TypeOK, SockTypeOK, ListTypeOK, ThreadTypeOK
<1> QED
  BY <1>1 DEF AcceptInv, LinkedOnce

\* A step that only takes connections out of the backlog keeps it too.
LEMMA AcceptShrink ==
  ASSUME TypeOK, AcceptInv, UNCHANGED <<cl, asub, subs, hpc>>,
         apc' = "accept" => asub = {},
         IsInjective(backlog'),
         \A i \in DOMAIN backlog' : \E j \in DOMAIN backlog : backlog[j] = backlog'[i]
  PROVE  AcceptInv'
BY DEF AcceptInv, LinkedOnce

LEMMA EmptyDistinct == IsInjective(<<>>) /\ DOMAIN <<>> = {}
BY DEF IsInjective

LEMMA AcceptThreadInv ==
  ASSUME TypeOK, AcceptInv, AcceptStep
  PROVE  AcceptInv'
<1>1. ASSUME NEW c \in Conns, AcceptClient(c) PROVE AcceptInv'
  <2>1. /\ backlog \in Seq(Conns) /\ backlog # <<>> /\ c = Head(backlog)
        /\ backlog' = Tail(backlog)
        /\ \E p \in {"recv", "failed"} : hpc' = [hpc EXCEPT ![c] = p]
        /\ asub' = {c}
        /\ apc' = "find" /\ UNCHANGED <<cl, subs>> /\ asub = {}
    BY <1>1 DEF AcceptClient, kprv_socket_server_accept, TypeOK, SockTypeOK, AcceptInv
  <2>2. hpc[c] = "none" /\ cl[c] # "idle"
    BY <2>1 DEF AcceptInv
  <2>3. /\ IsInjective(Tail(backlog))
        /\ \A i \in DOMAIN Tail(backlog) :
             Tail(backlog)[i] # c /\ \E j \in DOMAIN backlog : backlog[j] = Tail(backlog)[i]
    BY <2>1, TailDistinct DEF AcceptInv
  <2>4. \A d \in Conns : IF d = c THEN hpc'[d] # "none" ELSE hpc'[d] = hpc[d]
    BY <2>1 DEF TypeOK, HandlerTypeOK
  <2>5. \A i \in DOMAIN backlog' : hpc'[backlog'[i]] = "none" /\ cl'[backlog'[i]] # "idle"
    <3> SUFFICES ASSUME NEW i \in DOMAIN Tail(backlog)
                 PROVE  hpc'[Tail(backlog)[i]] = "none" /\ cl[Tail(backlog)[i]] # "idle"
      BY <2>1
    <3>1. PICK j \in DOMAIN backlog : backlog[j] = Tail(backlog)[i] /\ backlog[j] # c /\ backlog[j] \in Conns
      BY <2>1, <2>3
    <3> QED
      BY <2>4, <3>1 DEF AcceptInv
  <2>6. \A i \in DOMAIN subs : subs[i] \in Conns /\ hpc[subs[i]] # "none"
    BY DEF AcceptInv, LinkedOnce, TypeOK, ListTypeOK
  <2>7. LinkedOnce'
    BY <2>1, <2>2, <2>4, <2>6 DEF AcceptInv, LinkedOnce
  <2> QED
    BY <2>1, <2>2, <2>3, <2>4, <2>5, <2>7 DEF AcceptInv
<1>2. ASSUME NEW c \in Conns, AcceptWithoutMemory(c) PROVE AcceptInv'
  <2>1. /\ backlog \in Seq(Conns) /\ backlog # <<>> /\ backlog' = Tail(backlog)
        /\ UNCHANGED <<cl, asub, subs, hpc>> /\ asub = {} /\ IsInjective(backlog)
    BY <1>2 DEF AcceptWithoutMemory, kprv_socket_server_accept, TypeOK, SockTypeOK, AcceptInv,
                listVars, handlerVars
  <2> QED
    BY <2>1, TailDistinct, AcceptShrink
<1>3. CASE SubscriberAddFind
  BY <1>3 DEF SubscriberAddFind, AcceptInv, LinkedOnce, sockVars, listVars, handlerVars
<1>4. ASSUME NEW c \in Conns, SubscriberAddLink(c) PROVE AcceptInv'
  <2>1. /\ subs' = subs \/ subs' = Append(subs, c)
        /\ asub = {c} /\ asub' = {} /\ UNCHANGED <<backlog, cl, hpc>>
        /\ subs \in Seq(Conns)
    BY <1>4 DEF SubscriberAddLink, Link, sockVars, handlerVars, TypeOK, ListTypeOK
  <2>2. IsInjective(subs) /\ hpc[c] # "none" /\ \A i \in DOMAIN subs : subs[i] # c
    BY <2>1 DEF AcceptInv, LinkedOnce, IsInjective
  <2>3. \A i \in DOMAIN subs' : hpc[subs'[i]] # "none"
    BY <2>1, <2>2, AppendDistinct DEF AcceptInv, LinkedOnce
  <2>4. IsInjective(subs')
    BY <2>1, <2>2, AppendDistinct
  <2> QED
    BY <2>1, <2>3, <2>4 DEF AcceptInv, LinkedOnce, IsInjective
<1> QED
  BY <1>1, <1>2, <1>3, <1>4 DEF AcceptStep

\* How a handler's step changes program counters: it neither starts a handler
\* that has none, nor revives one that has ended, nor touches another's.
LEMMA HandlerPcs ==
  ASSUME TypeOK, NEW h \in Conns, HandlerStep(h)
  PROVE  /\ hpc[h] \in {"recv", "search", "send"}
         /\ hpc'[h] # "none"
         /\ \A g \in Conns : g # h => hpc'[g] = hpc[g]
BY DEF HandlerStep, HandleSubscribe, HandleUnsubscribe, HandlePacket, PublishFrom, Receives,
       PublishSearch, PublishSend, SendThen, Visit, HandleDisconnect, HandlerDestroy,
       HandlerCancelled, TypeOK, HandlerTypeOK, handlerVars

\* A handler's step leaves the threads, the list and the backlog alone.
LEMMA HandlerFrame ==
  ASSUME NEW h \in Conns, HandlerStep(h)
  PROVE  UNCHANGED <<backlog, cl, threadVars, subs, gone>>
<1>1. CASE HandleSubscribe(h) \/ HandleUnsubscribe(h) \/ HandlePacket(h) \/ HandleDisconnect(h)
  BY <1>1 DEF HandleSubscribe, HandleUnsubscribe, HandlePacket, PublishFrom, HandleDisconnect,
              Receives, ServerRecv, listVars
<1>2. CASE PublishSearch(h) \/ HandlerDestroy(h) \/ HandlerCancelled(h)
  BY <1>2 DEF PublishSearch, HandlerDestroy, HandlerCancelled, listVars, sockVars
<1>3. CASE PublishSend(h)
  BY <1>3 DEF PublishSend, SendThen, ServerSend, listVars, sockVars
<1> QED
  BY <1>1, <1>2, <1>3 DEF HandlerStep

\* What main does to the list: nothing, or one unlinking.
LEMMA MainFrame ==
  ASSUME MainStep \/ UseAfterFree \/ Terminate
  PROVE  /\ UNCHANGED <<cl, asub, apc, subs, hpc, cur, nxt, topic, toSrv, toCl, rd>>
         /\ backlog' = backlog \/ backlog' = <<>>
BY DEF MainStep, MainLoopEnds, MainKillAcceptThread, DeleteNext, DeleteAndThen, DestroyClose,
       CloseAnyhow, DestroyFree, MainReturns, KillNobody, UseAfterFree, Terminate, ServerEnds,
       ServerClose, sockVars, listVars, handlerVars

LEMMA ClientFrame ==
  ASSUME NEW c \in Conns, ClientStep(c)
  PROVE  UNCHANGED <<threadVars, listVars, hpc, topic, cur, nxt, torn>>
BY DEF ClientStep, telemetry_connect, telemetry_subscribe, telemetry_unsubscribe, Request,
       telemetry_publish, telemetry_read, telemetry_disconnect, HangUp, ClientDies,
       CloseConnection, serverVars, handlerVars

LEMMA ClientAcceptInv ==
  ASSUME TypeOK, AcceptInv, NEW c \in Conns, ClientStep(c)
  PROVE  AcceptInv'
<1>1. UNCHANGED <<asub, apc, subs, hpc>>
  BY ClientFrame DEF threadVars, listVars
<1>2. CASE telemetry_connect(c)
  <2>1. /\ backlog' = Append(backlog, c) /\ cl[c] = "idle"
        /\ cl' = [cl EXCEPT ![c] = "open"]
        /\ backlog \in Seq(Conns)
    BY <1>2 DEF telemetry_connect, kprv_socket_client_connect, TypeOK, SockTypeOK
  <2>2. \A i \in DOMAIN backlog : backlog[i] # c /\ backlog[i] \in Conns
    BY <2>1 DEF AcceptInv
  <2>3. IsInjective(backlog')
    BY <2>1, <2>2, AppendDistinct DEF AcceptInv
  <2>0. \A i \in DOMAIN backlog' : backlog'[i] = c \/ \E j \in DOMAIN backlog : backlog[j] = backlog'[i]
    BY <2>1, <2>2, AppendDistinct DEF AcceptInv
  <2>4. \A i \in DOMAIN backlog' : hpc[backlog'[i]] = "none" /\ cl'[backlog'[i]] # "idle"
    <3> SUFFICES ASSUME NEW i \in DOMAIN backlog'
                 PROVE  hpc[backlog'[i]] = "none" /\ cl'[backlog'[i]] # "idle"
      OBVIOUS
    <3>1. CASE backlog'[i] = c
      BY <2>1, <3>1 DEF AcceptInv, TypeOK, SockTypeOK
    <3>2. CASE \E j \in DOMAIN backlog : backlog[j] = backlog'[i]
      BY <2>1, <2>2, <3>2 DEF AcceptInv, TypeOK, SockTypeOK
    <3> QED
      BY <2>0, <3>1, <3>2
  <2>5. \A d \in Conns : cl'[d] = "idle" => cl[d] = "idle"
    BY <2>1 DEF TypeOK, SockTypeOK
  <2> QED
    BY <1>1, <2>3, <2>4, <2>5 DEF AcceptInv, LinkedOnce
<1>3. CASE HangUp(c) \/ ClientDies(c)
  <2>1. cl' = [cl EXCEPT ![c] = "closed"] /\ backlog' = backlog
    BY <1>3 DEF HangUp, ClientDies, CloseConnection, ClientClose
  <2>2. \A d \in Conns : cl'[d] = "idle" => cl[d] = "idle"
    BY <2>1 DEF TypeOK, SockTypeOK
  <2>3. \A i \in DOMAIN backlog : backlog[i] \in Conns
    BY DEF TypeOK, SockTypeOK
  <2> QED
    BY <1>1, <2>1, <2>2, <2>3 DEF AcceptInv, LinkedOnce
<1>4. CASE UNCHANGED <<cl, backlog>>
  BY <1>1, <1>4, AcceptFrame
<1> QED
  BY <1>2, <1>3, <1>4
     DEF ClientStep, telemetry_subscribe, telemetry_unsubscribe, Request, telemetry_publish,
         telemetry_read, telemetry_disconnect, ClientSend, ClientRecv, sockVars

LEMMA NextAcceptInv ==
  ASSUME TypeOK, AcceptInv, [Next]_vars
  PROVE  AcceptInv'
<1>1. CASE AcceptStep
  BY <1>1, AcceptThreadInv
<1>2. ASSUME NEW h \in Conns, HandlerStep(h) PROVE AcceptInv'
  BY <1>2, HandlerFrame, HandlerPcs, AcceptFrame DEF threadVars
<1>3. CASE MainStep \/ UseAfterFree \/ Terminate
  <2>1. CASE backlog' = backlog
    BY <1>3, <2>1, MainFrame, AcceptFrame
  <2>2. CASE backlog' = <<>>
    <3>1. UNCHANGED <<cl, asub, apc, subs, hpc>>
      BY <1>3, MainFrame
    <3> QED
      BY <2>2, <3>1, EmptyDistinct, AcceptShrink DEF AcceptInv
  <2> QED
    BY <1>3, <2>1, <2>2, MainFrame
<1>4. ASSUME NEW c \in Conns, ClientStep(c) PROVE AcceptInv'
  BY <1>4, ClientAcceptInv
<1>5. ASSUME NEW c \in Conns, ConnectionLost(c) PROVE AcceptInv'
  <2>1. PICK i \in 1..Len(backlog) : backlog' = RemoveAt(backlog, i)
    BY <1>5 DEF ConnectionLost, BacklogDrop
  <2>2. UNCHANGED <<cl, asub, apc, subs, hpc>>
    BY <1>5 DEF ConnectionLost, BacklogDrop, serverVars, threadVars, listVars, handlerVars
  <2>3. /\ IsInjective(backlog')
        /\ \A k \in DOMAIN backlog' : \E j \in DOMAIN backlog : backlog[j] = backlog'[k]
    BY <2>1, RemoveAtDistinct DEF AcceptInv, TypeOK, SockTypeOK
  <2> QED
    BY <2>2, <2>3, AcceptShrink DEF AcceptInv
<1>6. CASE UNCHANGED vars
  BY <1>6, AcceptFrame DEF vars, sockVars, serverVars, threadVars, listVars, handlerVars
<1> QED
  BY <1>1, <1>2, <1>3, <1>4, <1>5, <1>6 DEF Next, ServerStep

(***************************************************************************)
(* CleanupInv: what main has freed.                                        *)
(***************************************************************************)

\* The list only grows at its end, unlinking apart, and a thread that ended
\* stays ended.
LEMMA ListGrows ==
  ASSUME TypeOK, AcceptInv, [Next]_vars
  PROVE  /\ Len(subs) <= Len(subs')
         /\ \A i \in 1..Len(subs) : subs'[i] = subs[i]
<1> USE DEF TypeOK, ListTypeOK
<1>1. CASE AcceptStep
  <2>1. ASSUME NEW c \in Conns, SubscriberAddLink(c)
        PROVE  subs' = subs \/ subs' = Append(subs, c)
    BY <2>1 DEF SubscriberAddLink, Link
  <2>2. ASSUME ~ \E c \in Conns : SubscriberAddLink(c) PROVE subs' = subs
    BY <1>1, <2>2 DEF AcceptStep, AcceptClient, AcceptWithoutMemory, SubscriberAddFind, listVars
  <2> QED
    BY <2>1, <2>2
<1>2. ASSUME NEW h \in Conns, HandlerStep(h) PROVE subs' = subs
  BY <1>2, HandlerFrame
<1>3. CASE MainStep \/ UseAfterFree \/ Terminate
  BY <1>3, MainFrame
<1>4. ASSUME NEW c \in Conns, ClientStep(c) PROVE subs' = subs
  BY <1>4, ClientFrame DEF listVars
<1>5. ASSUME NEW c \in Conns, ConnectionLost(c) PROVE subs' = subs
  BY <1>5 DEF ConnectionLost, serverVars, listVars
<1>6. CASE UNCHANGED vars
  BY <1>6 DEF vars, serverVars, listVars
<1> QED
  BY <1>1, <1>2, <1>3, <1>4, <1>5, <1>6 DEF Next, ServerStep

LEMMA DeadStaysDead ==
  ASSUME TypeOK, AcceptInv, [Next]_vars
  PROVE  \A c \in Conns : Ended(c) => Ended(c)'
<1> USE DEF Ended
<1>1. CASE AcceptStep
  <2>1. ASSUME NEW c \in Conns, AcceptClient(c)
        PROVE  \A d \in Conns : Ended(d) => Ended(d)'
    <3>1. c = backlog[1] /\ 1 \in DOMAIN backlog
          /\ \E p \in {"recv", "failed"} : hpc' = [hpc EXCEPT ![c] = p]
      BY <2>1 DEF AcceptClient, kprv_socket_server_accept, TypeOK, SockTypeOK
    <3>2. hpc[c] = "none"
      BY <3>1 DEF AcceptInv
    <3> QED
      BY <3>1, <3>2 DEF TypeOK, HandlerTypeOK
  <2>2. ASSUME ~ \E c \in Conns : AcceptClient(c) PROVE hpc' = hpc
    BY <1>1, <2>2 DEF AcceptStep, AcceptWithoutMemory, SubscriberAddFind, SubscriberAddLink, Link,
                      handlerVars
  <2> QED
    BY <2>1, <2>2
<1>2. ASSUME NEW h \in Conns, HandlerStep(h)
      PROVE  \A d \in Conns : Ended(d) => Ended(d)'
  BY <1>2, HandlerPcs
<1>3. CASE MainStep \/ UseAfterFree \/ Terminate
  BY <1>3, MainFrame
<1>4. ASSUME NEW c \in Conns, ClientStep(c) PROVE hpc' = hpc
  BY <1>4, ClientFrame
<1>5. ASSUME NEW c \in Conns, ConnectionLost(c) PROVE hpc' = hpc
  BY <1>5 DEF ConnectionLost, serverVars, handlerVars
<1>6. CASE UNCHANGED vars
  BY <1>6 DEF vars, serverVars, handlerVars
<1> QED
  BY <1>1, <1>2, <1>3, <1>4, <1>5, <1>6 DEF Next, ServerStep

\* Only main moves its own program counter and the list's head.
LEMMA OnlyMainUnlinks ==
  ASSUME [Next]_vars, ~(MainStep \/ UseAfterFree)
  PROVE  UNCHANGED <<mpc, mnxt, gone>>
<1>1. CASE AcceptStep
  BY <1>1 DEF AcceptStep, AcceptClient, AcceptWithoutMemory, SubscriberAddFind, SubscriberAddLink,
              Link, listVars
<1>2. ASSUME NEW h \in Conns, HandlerStep(h) PROVE UNCHANGED <<mpc, mnxt, gone>>
  BY <1>2, HandlerFrame DEF threadVars
<1>3. CASE Terminate
  BY <1>3 DEF Terminate, listVars
<1>4. ASSUME NEW c \in Conns, ClientStep(c) PROVE UNCHANGED <<mpc, mnxt, gone>>
  BY <1>4, ClientFrame DEF threadVars, listVars
<1>5. ASSUME NEW c \in Conns, ConnectionLost(c) PROVE UNCHANGED <<mpc, mnxt, gone>>
  BY <1>5 DEF ConnectionLost, serverVars, threadVars, listVars
<1>6. CASE UNCHANGED vars
  BY <1>6 DEF vars, serverVars, threadVars, listVars
<1> QED
  BY <1>1, <1>2, <1>3, <1>4, <1>5, <1>6 DEF Next, ServerStep

LEMMA NextCleanupInv ==
  ASSUME TypeOK, AcceptInv, CleanupInv, [Next]_vars
  PROVE  CleanupInv'
<1>0. /\ subs \in Seq(Conns) /\ gone \in Nat /\ mnxt \in Nat
      /\ \A i \in DOMAIN subs : subs[i] \in Conns
      /\ Len(subs) \in Nat /\ DOMAIN subs = 1..Len(subs)
  BY DEF TypeOK, ListTypeOK, ThreadTypeOK
<1> USE DEF CleanupInv, NoHandlerOnFreedSubscriber, Freed, Alive, Ended
<1>1. CASE ~(MainStep \/ UseAfterFree)
  <2>1. UNCHANGED <<mpc, mnxt, gone>>
    BY <1>1, OnlyMainUnlinks
  <2>2. /\ Len(subs) <= Len(subs') /\ Len(subs') \in Nat /\ DOMAIN subs' = 1..Len(subs')
        /\ \A i \in 1..Len(subs) : subs'[i] = subs[i] /\ i \in DOMAIN subs'
    BY <1>0, ListGrows, NextTypeOK DEF TypeOK, ListTypeOK
  <2>3. ASSUME NEW i \in DOMAIN subs', Alive', Freed(i)' PROVE Ended(subs[i])'
    <3>1. i \in DOMAIN subs /\ Freed(i) /\ Alive
      BY <1>0, <2>1, <2>2, <2>3
    <3>2. Ended(subs[i]) /\ subs'[i] = subs[i]
      BY <1>0, <2>2, <3>1
    <3> QED
      BY <1>0, <3>1, <3>2, DeadStaysDead
  <2>4. mpc' = "free" => Ended(subs[gone])'
    <3> SUFFICES ASSUME mpc = "free" PROVE Ended(subs[gone])'
      BY <2>1
    <3>1. gone \in 1..Len(subs) /\ Ended(subs[gone])
      BY <1>0
    <3> QED
      BY <1>0, <2>1, <2>2, <3>1, DeadStaysDead
  <2>5. NoHandlerOnFreedSubscriber'
    <3> HIDE DEF Freed, Alive, Ended
    <3> QED
      BY <2>3 DEF NoHandlerOnFreedSubscriber
  <2>6. /\ (gone <= Len(subs))'
        /\ (mpc \in {"wait", "kill", "stuck"} => gone = 0)'
        /\ (mpc \in {"join", "free"} => gone # 0)'
        /\ (mnxt # 0 => mnxt <= Len(subs))'
        /\ (mnxt # 0 /\ mpc \in {"delete", "join", "free"} => mnxt = gone + 1)'
    BY <1>0, <2>1, <2>2
  <2> QED
    BY ONLY <2>4, <2>5, <2>6 DEF CleanupInv
<1>2. CASE MainStep \/ UseAfterFree
  <2>1. UNCHANGED <<subs, hpc>>
    BY <1>2, MainFrame
  <2>2. CASE MainLoopEnds
    BY <1>0, <2>1, <2>2 DEF MainLoopEnds, listVars
  <2>3. CASE MainKillAcceptThread
    BY <1>0, <2>1, <2>3 DEF MainKillAcceptThread, First, listVars
  <2>4. CASE DeleteNext
    BY <1>0, <2>1, <2>4 DEF DeleteNext, DeleteAndThen, Succ
  <2>5. CASE DestroyClose
    BY <1>0, <2>1, <2>5 DEF DestroyClose, CloseAnyhow
  <2>6. CASE DestroyFree
    BY <1>0, <2>1, <2>6 DEF DestroyFree, listVars
  <2>7. CASE MainReturns
    BY <1>0, <2>1, <2>7 DEF MainReturns, listVars
  <2>8. CASE UseAfterFree
    BY <1>0, <2>1, <2>8 DEF UseAfterFree, listVars
  <2>9. CASE KillNobody
    BY <1>0, <2>1, <2>9 DEF KillNobody, listVars
  <2> QED
    BY <1>2, <2>2, <2>3, <2>4, <2>5, <2>6, <2>7, <2>8, <2>9 DEF MainStep
<1> QED
  BY <1>1, <1>2

(***************************************************************************)
(* LoopInv: the pointers of kprv_publish_packet.                           *)
(***************************************************************************)

\* One handler's pointers, whatever the others do.
LoopOK(h) ==
  Publishing(h) =>
    /\ cur[h] \in 1..Len(subs)
    /\ nxt[h] # 0 => nxt[h] = cur[h] + 1 /\ nxt[h] <= Len(subs)

LEMMA VisitLoop ==
  ASSUME TypeOK, NEW h \in Conns, NEW i \in Nat, i # 0 => i \in 1..Len(subs),
         Visit(h, i), subs' = subs
  PROVE  LoopOK(h)'
<1>1. /\ hpc'[h] = IF i = 0 THEN "recv" ELSE "search"
      /\ cur'[h] = i /\ nxt'[h] = IF i = 0 THEN 0 ELSE Succ(i)
  BY DEF Visit, TypeOK, HandlerTypeOK
<1>2. Len(subs) \in Nat
  BY DEF TypeOK, ListTypeOK
<1> QED
  BY <1>1, <1>2 DEF LoopOK, Publishing, Succ

\* A handler's step keeps its own pointers right.
LEMMA HandlerLoop ==
  ASSUME TypeOK, CleanupInv, LoopInv, NEW h \in Conns, HandlerStep(h)
  PROVE  LoopOK(h)'
<1>0. /\ subs' = subs /\ gone \in Nat /\ Len(subs) \in Nat
      /\ nxt[h] \in Nat /\ cur[h] \in Nat /\ First \in Nat
      /\ First # 0 => First \in 1..Len(subs)
  BY HandlerFrame DEF TypeOK, ListTypeOK, HandlerTypeOK, First
<1>1. Publishing(h) /\ nxt[h] # 0 => nxt[h] \in 1..Len(subs)
  BY <1>0 DEF LoopInv
<1>2. CASE HandlePacket(h)
  BY <1>0, <1>2, VisitLoop DEF HandlePacket, PublishFrom
<1>3. CASE PublishSearch(h)
  <2>1. CASE Visit(h, nxt[h])
    BY <1>0, <1>1, <1>3, <2>1, VisitLoop DEF PublishSearch, Publishing
  <2>2. CASE UNCHANGED <<cur, nxt>>
    BY <1>0, <1>3, <2>2 DEF PublishSearch, Publishing, LoopInv, LoopOK
  <2> QED
    BY <1>3, <2>1, <2>2 DEF PublishSearch
<1>4. CASE PublishSend(h)
  <2>1. Visit(h, nxt[h]) /\ Publishing(h)
    BY <1>4 DEF PublishSend, SendThen, Publishing
  <2> QED
    BY <1>0, <1>1, <2>1, VisitLoop
<1>5. CASE HandleSubscribe(h) \/ HandleUnsubscribe(h) \/ HandleDisconnect(h)
  BY <1>5 DEF HandleSubscribe, HandleUnsubscribe, HandleDisconnect, Receives, handlerVars,
              LoopOK, Publishing
<1>6. CASE HandlerDestroy(h) \/ HandlerCancelled(h)
  BY <1>6 DEF HandlerDestroy, HandlerCancelled, LoopOK, Publishing, TypeOK, HandlerTypeOK
<1> QED
  BY <1>2, <1>3, <1>4, <1>5, <1>6 DEF HandlerStep

LEMMA HandlerOthers ==
  ASSUME TypeOK, NEW h \in Conns, HandlerStep(h), NEW g \in Conns, g # h
  PROVE  cur'[g] = cur[g] /\ nxt'[g] = nxt[g] /\ hpc'[g] = hpc[g]
BY DEF HandlerStep, HandleSubscribe, HandleUnsubscribe, HandlePacket, PublishFrom, PublishSearch,
       PublishSend, SendThen, Visit, HandleDisconnect, HandlerDestroy, HandlerCancelled,
       TypeOK, HandlerTypeOK, handlerVars

LEMMA NextLoopInv ==
  ASSUME TypeOK, AcceptInv, CleanupInv, LoopInv, [Next]_vars
  PROVE  LoopInv'
<1> SUFFICES ASSUME NEW g \in Conns PROVE LoopOK(g)'
  BY DEF LoopInv, LoopOK
<1>0. /\ Len(subs) <= Len(subs') /\ Len(subs) \in Nat /\ Len(subs') \in Nat
      /\ cur[g] \in Nat /\ nxt[g] \in Nat
  BY ListGrows, NextTypeOK DEF TypeOK, ListTypeOK, HandlerTypeOK
<1>1. ASSUME cur'[g] = cur[g], nxt'[g] = nxt[g], Publishing(g)' => Publishing(g)
      PROVE  LoopOK(g)'
  BY <1>0, <1>1 DEF LoopInv, LoopOK
<1>2. ASSUME NEW h \in Conns, HandlerStep(h) PROVE LoopOK(g)'
  BY <1>1, <1>2, HandlerLoop, HandlerOthers DEF Publishing
<1>3. CASE AcceptStep
  BY <1>1, <1>3 DEF AcceptStep, AcceptClient, AcceptWithoutMemory, SubscriberAddFind,
     SubscriberAddLink, Link, handlerVars, Publishing, TypeOK, HandlerTypeOK
<1>4. CASE MainStep \/ UseAfterFree \/ Terminate
  BY <1>1, <1>4, MainFrame DEF Publishing
<1>5. ASSUME NEW c \in Conns, ClientStep(c) PROVE LoopOK(g)'
  BY <1>1, <1>5, ClientFrame DEF Publishing
<1>6. ASSUME NEW c \in Conns, ConnectionLost(c) PROVE LoopOK(g)'
  BY <1>1, <1>6 DEF ConnectionLost, serverVars, handlerVars, Publishing
<1>7. CASE UNCHANGED vars
  BY <1>1, <1>7 DEF vars, serverVars, handlerVars, Publishing
<1> QED
  BY <1>2, <1>3, <1>4, <1>5, <1>6, <1>7 DEF Next, ServerStep

(***************************************************************************)
(* The theorems.                                                           *)
(***************************************************************************)

ListInv == TypeOK /\ AcceptInv /\ CleanupInv /\ LoopInv

LEMMA InitListInv == Init => ListInv
<1> SUFFICES ASSUME Init PROVE ListInv
  OBVIOUS
<1>1. TypeOK
  BY InitTypeOK
<1>2. AcceptInv
  BY EmptyDistinct DEF Init, SocketInit, ServerInit, AcceptInv, LinkedOnce
<1>3. CleanupInv
  BY DEF Init, ServerInit, CleanupInv, NoHandlerOnFreedSubscriber
<1>4. LoopInv
  BY DEF Init, ServerInit, LoopInv, Publishing
<1> QED
  BY <1>1, <1>2, <1>3, <1>4 DEF ListInv

LEMMA ListInvariant == Spec => []ListInv
<1>1. ListInv /\ [Next]_vars => ListInv'
  BY NextTypeOK, NextAcceptInv, NextCleanupInv, NextLoopInv DEF ListInv
<1> QED
  BY <1>1, InitListInv, PTL DEF Spec

\* kprv_delete_all_subscribers never frees a subscriber whose client_handler
\* is still running.
THEOREM FreedAfterJoin == Spec => []NoHandlerOnFreedSubscriber
<1>1. ListInv => NoHandlerOnFreedSubscriber
  BY DEF ListInv, CleanupInv
<1> QED
  BY <1>1, ListInvariant, PTL
=============================================================================
