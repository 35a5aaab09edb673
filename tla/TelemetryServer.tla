--------------------------- MODULE TelemetryServer ---------------------------
(***************************************************************************)
(* The Linux telemetry server: telemetry-linux/source/server.c and the     *)
(* accept and main threads of linux-telemetry-service/source/main.c.       *)
(*                                                                         *)
(* Threads: main, the accept thread main_thread, and one client_handler    *)
(* per accepted connection.  No lock guards the subscriber list or the     *)
(* topic lists, so a step here is what a thread does between two points    *)
(* at which another thread can see or change them.                         *)
(*                                                                         *)
(* A subscriber_list_item is named by its connection.  Items are linked at *)
(* the tail only and unlinked at the head only (by main, at shutdown), so  *)
(* the list is subs[gone + 1], ..., subs[Len(subs)] and a pointer to an    *)
(* item is its position in subs, 0 standing for NULL.                      *)
(***************************************************************************)
EXTENDS IpcSocket

CONSTANTS
  Topics,       \* Topic identifiers.
  NoTopic,      \* The topic of a message that has none.
  OutOfMemory   \* Whether calloc() and pthread_create() may find no memory.

ASSUME ServerAssumption ==
  /\ NoTopic \notin Topics
  /\ OutOfMemory \in BOOLEAN

VARIABLES
  running,  \* main.c: cleared by the SIGTERM handler.
  mpc,      \* Where main is.
  mnxt,     \* main: the `next` of LL_FOREACH_SAFE.
  apc,      \* Where the accept thread is.
  asub,     \* Accept thread: the subscriber it adds, as a set of at most one.
  tail,     \* Accept thread: the last item LL_APPEND found.
  subs,     \* Every subscriber ever linked into the list, in order.
  gone,     \* How many of them main has unlinked.
  topics,   \* topics[c][t]: how many items of c's topic list carry t.
  active,   \* active[c]: the subscriber's active flag.
  hpc,      \* Where the handler of connection c is.
  topic,    \* topic[h]: topic of the packet handler h publishes.
  cur,      \* cur[h]: `current` of handler h's LL_FOREACH_SAFE.
  nxt,      \* nxt[h]: its `next`.
  torn,     \* torn[h]: items whose topic list lost a node under h's search of it.
  owed      \* History: owed[h], who must get the packet h publishes.

threadVars == <<running, mpc, mnxt, apc, asub, tail>>
listVars == <<subs, gone, topics, active>>
handlerVars == <<hpc, topic, cur, nxt, torn, owed>>
serverVars == <<threadVars, listVars, handlerVars>>

MainPc == {"wait", "kill", "delete", "join", "free", "stuck", "exit", "crash"}
AcceptPc == {"accept", "find", "link", "done"}
\* "none": not accepted yet; "failed": accepted, and no thread was created.
HandlerPc == {"none", "failed", "recv", "search", "send", "dead"}
Msg == [type : {"packet", "subscribe", "unsubscribe"}, topic : Topics]
         \union [type : {"disconnect"}, topic : {NoTopic}]
Packet == [src : Conns, topic : Topics]

NoTopics == [t \in Topics |-> 0]

ServerInit ==
  /\ running = TRUE
  /\ mpc = "wait"
  /\ mnxt = 0
  /\ apc = "accept"
  /\ asub = {}
  /\ tail = 0
  /\ subs = <<>>
  /\ gone = 0
  /\ topics = [c \in Conns |-> NoTopics]
  /\ active = [c \in Conns |-> FALSE]
  /\ hpc = [c \in Conns |-> "none"]
  /\ topic = [c \in Conns |-> NoTopic]
  /\ cur = [c \in Conns |-> 0]
  /\ nxt = [c \in Conns |-> 0]
  /\ torn = [c \in Conns |-> {}]
  /\ owed = [c \in Conns |-> {}]

\* The server process still runs its threads.
Alive == mpc \notin {"exit", "crash"}

\* The list head and the successor of position i, as a thread reads them.
First == IF gone < Len(subs) THEN gone + 1 ELSE 0
Succ(i) == IF i < Len(subs) THEN i + 1 ELSE 0

Listed(c) == \E i \in gone + 1 .. Len(subs) : subs[i] = c

\* Items main has given back to free().
Freed(i) == i # 0 /\ (i < gone \/ (i = gone /\ mpc \notin {"join", "free"}))

\* Mutant: a search that always finds.
HasTopicAlways(c, t) == TRUE

\* kprv_subscriber_has_topic: LL_SEARCH of the topic list.
kprv_subscriber_has_topic(c, t) == topics[c][t] > 0

(***************************************************************************)
(* Accept thread: main_thread.                                             *)
(***************************************************************************)

\* `while (running)`, tested once the client has been dealt with.
AcceptLoop == IF running THEN "accept" ELSE "done"

\* Accept, kprv_subscriber_init and csp_thread_create: the handler runs
\* before the subscriber is in the list.  Nobody looks at what
\* csp_thread_create returns: a subscriber without a handler is added too.
AcceptClient(c) ==
  /\ Alive
  /\ apc = "accept"
  /\ kprv_socket_server_accept(c, "fd")
  /\ active' = [active EXCEPT ![c] = TRUE]
  /\ \/ hpc' = [hpc EXCEPT ![c] = "recv"]
     \/ OutOfMemory /\ hpc' = [hpc EXCEPT ![c] = "failed"]
  /\ asub' = {c}
  /\ apc' = "find"
  /\ UNCHANGED <<running, mpc, mnxt, tail, subs, gone, topics,
                 topic, cur, nxt, torn, owed>>

\* kprv_subscriber_init returns NULL: nobody keeps the accepted descriptor.
AcceptWithoutMemory(c) ==
  /\ Alive
  /\ OutOfMemory
  /\ apc = "accept"
  /\ kprv_socket_server_accept(c, "leaked")
  /\ apc' = AcceptLoop
  /\ UNCHANGED <<running, mpc, mnxt, asub, tail, listVars, handlerVars>>

\* LL_APPEND of kprv_subscriber_add, first half: walk to the last item.
SubscriberAddFind ==
  /\ Alive
  /\ apc = "find"
  /\ tail' = IF First = 0 THEN 0 ELSE Len(subs)
  /\ apc' = "link"
  /\ UNCHANGED <<running, mpc, mnxt, asub, sockVars, listVars, handlerVars>>

\* Second half: link the item, behind a tail that may have been freed since,
\* in which case nothing reachable from the head points to it.
Link(c, next) ==
  /\ Alive
  /\ apc = "link"
  /\ asub = {c}
  /\ subs' = IF tail # 0 /\ tail <= gone THEN subs ELSE Append(subs, c)
  /\ asub' = {}
  /\ apc' = next
  /\ UNCHANGED <<running, mpc, mnxt, tail, gone, topics, active,
                 sockVars, handlerVars>>

\* Mutant: no client is accepted after this one.
LinkStopsAccepting(c) == Link(c, "done")

SubscriberAddLink(c) == Link(c, AcceptLoop)

(***************************************************************************)
(* client_handler of connection h.                                         *)
(***************************************************************************)

\* main has cancelled h: its next cancellation point ends the thread.
Cancelled(h) == mpc = "join" /\ subs[gone] = h

\* h is in the `while (sub->active)` loop with a message to receive.
Receives(h, type) ==
  /\ Alive
  /\ hpc[h] = "recv"
  /\ active[h]
  /\ ~Cancelled(h)
  /\ toSrv[h] # <<>>
  /\ Head(toSrv[h]).type = type
  /\ ServerRecv(h)

\* MESSAGE_TYPE_SUBSCRIBE: a topic already there is added once more.
HandleSubscribe(h) ==
  LET t == Head(toSrv[h]).topic IN
  /\ Receives(h, "subscribe")
  /\ \/ topics' = [topics EXCEPT ![h][t] = @ + 1]
     \/ OutOfMemory /\ topics' = topics
  /\ UNCHANGED <<threadVars, subs, gone, active, handlerVars>>

\* Searches of c's topic list that are under way.
Searching(h, c) == hpc[h] = "search" /\ cur[h] # 0 /\ subs[cur[h]] = c

\* free() of a node of c's topic list, under the searches of that list.
NodeFreed(c) ==
  torn' = [g \in Conns |-> IF Searching(g, c) THEN torn[g] \union {cur[g]} ELSE torn[g]]

\* MESSAGE_TYPE_UNSUBSCRIBE: removes one item of the topic, if there is one.
\* Only who is no longer subscribed to a packet's topic is not owed it.
HandleUnsubscribe(h) ==
  LET t == Head(toSrv[h]).topic IN
  /\ Receives(h, "unsubscribe")
  /\ IF kprv_subscriber_has_topic(h, t)
       THEN /\ topics' = [topics EXCEPT ![h][t] = @ - 1]
            /\ NodeFreed(h)
            /\ owed' = [g \in Conns |-> IF topic[g] = t /\ topics[h][t] = 1
                                        THEN owed[g] \ {h} ELSE owed[g]]
       ELSE UNCHANGED <<topics, torn, owed>>
  /\ UNCHANGED <<threadVars, subs, gone, active, hpc, topic, cur, nxt>>

\* The two statements LL_FOREACH_SAFE runs before its body: current, next.
Visit(h, i) ==
  /\ cur' = [cur EXCEPT ![h] = i]
  /\ nxt' = [nxt EXCEPT ![h] = IF i = 0 THEN 0 ELSE Succ(i)]
  /\ hpc' = [hpc EXCEPT ![h] = IF i = 0 THEN "recv" ELSE "search"]

\* MESSAGE_TYPE_PACKET: kprv_publish_packet visits the list from item i on.
PublishFrom(h, i) ==
  LET t == Head(toSrv[h]).topic IN
  /\ Receives(h, "packet")
  /\ Visit(h, i)
  /\ topic' = [topic EXCEPT ![h] = t]
  /\ torn' = [torn EXCEPT ![h] = {}]
  /\ owed' = [owed EXCEPT ![h] =
       {c \in Conns : /\ Listed(c)
                      /\ kprv_subscriber_has_topic(c, t)
                      /\ cl[c] = "open"}]
  /\ UNCHANGED <<threadVars, listVars>>

\* Mutant: the loop starts behind the head of the list.
PacketSkipsHead(h) == PublishFrom(h, IF First = 0 THEN 0 ELSE Succ(First))

HandlePacket(h) == PublishFrom(h, First)

\* kprv_subscriber_has_topic on the item visited.  A search whose list lost
\* a node meanwhile read freed memory and may end either way.
PublishSearch(h) ==
  /\ Alive
  /\ hpc[h] = "search"
  /\ \E found \in BOOLEAN :
       /\ \/ cur[h] \in torn[h]
          \/ found = kprv_subscriber_has_topic(subs[cur[h]], topic[h])
       /\ IF found
            THEN /\ hpc' = [hpc EXCEPT ![h] = "send"]
                 /\ UNCHANGED <<cur, nxt>>
            ELSE Visit(h, nxt[h])
  /\ UNCHANGED <<threadVars, listVars, sockVars, topic, torn, owed>>

\* kprv_socket_send to the item visited, and what the loop visits next.
SendThen(h, ifsent, iffailed) ==
  LET c == subs[cur[h]] IN
  /\ Alive
  /\ hpc[h] = "send"
  /\ ~Cancelled(h)
  /\ \/ ServerSend(c, [src |-> h, topic |-> topic[h]]) /\ Visit(h, ifsent)
     \/ SendFails(c) /\ UNCHANGED sockVars /\ Visit(h, iffailed)
  /\ UNCHANGED <<threadVars, listVars, topic, torn, owed>>

\* Mutants: the loop ends at the first failure; it stays on the item it
\* has served; it tries a closed connection for ever.
SendStopsAtFailure(h) == SendThen(h, nxt[h], 0)
SendStays(h) == SendThen(h, cur[h], nxt[h])
SendInsists(h) == SendThen(h, nxt[h], cur[h])

\* A failure is reported and the loop goes on.
PublishSend(h) == SendThen(h, nxt[h], nxt[h])

\* Any step on an item, or a topic list, given back to free() may crash the
\* process instead of reading what the item last held.
UseAfterFree ==
  /\ Alive
  /\ \/ \E h \in Conns : hpc[h] \in {"search", "send"} /\ Freed(cur[h])
     \/ \E h \in Conns : hpc[h] = "search" /\ cur[h] \in torn[h]
     \/ apc = "link" /\ Freed(tail)
  /\ mpc' = "crash"
  /\ ServerEnds
  /\ UNCHANGED <<running, mnxt, apc, asub, tail, listVars, handlerVars>>

\* MESSAGE_TYPE_DISCONNECT ends the receive loop.
HandleDisconnect(h) ==
  /\ Receives(h, "disconnect")
  /\ active' = [active EXCEPT ![h] = FALSE]
  /\ UNCHANGED <<threadVars, subs, gone, topics, handlerVars>>

\* kprv_subscriber_destroy by the handler itself.  Its first statement
\* cancels and joins sub->rx_thread, which is the calling thread: the join is
\* a cancellation point, and nothing after it runs.
HandlerDestroy(h) ==
  /\ Alive
  /\ hpc[h] = "recv"
  /\ ~active[h]
  /\ hpc' = [hpc EXCEPT ![h] = "dead"]
  /\ UNCHANGED <<threadVars, listVars, sockVars, topic, cur, nxt, torn, owed>>

\* A cancelled handler reaches recv() or send().
HandlerCancelled(h) ==
  /\ Alive
  /\ Cancelled(h)
  /\ hpc[h] \in {"recv", "send"}
  /\ hpc' = [hpc EXCEPT ![h] = "dead"]
  /\ owed' = [owed EXCEPT ![h] = {}]
  /\ UNCHANGED <<threadVars, listVars, sockVars, topic, cur, nxt, torn>>

(***************************************************************************)
(* main, and telemetry_server_cleanup.                                     *)
(***************************************************************************)

\* terminate: the SIGTERM handler.
Terminate ==
  /\ Alive
  /\ running
  /\ running' = FALSE
  /\ UNCHANGED <<mpc, mnxt, apc, asub, tail, listVars, handlerVars, sockVars>>

\* The loop polling `running` ends.
MainLoopEnds ==
  /\ mpc = "wait"
  /\ ~running
  /\ mpc' = "kill"
  /\ UNCHANGED <<running, mnxt, apc, asub, tail, listVars, handlerVars, sockVars>>

\* csp_thread_kill(&thread_handle): the address of the handle is taken for
\* the handle.  The C library finds no such thread and returns, waits for
\* ever, or faults; the accept thread is never the one cancelled.
MainKillAcceptThread ==
  /\ mpc = "kill"
  /\ \/ mpc' \in {"delete", "stuck"} /\ UNCHANGED sockVars
     \/ mpc' = "crash" /\ ServerEnds
  /\ mnxt' = First
  /\ UNCHANGED <<running, apc, asub, tail, listVars, handlerVars>>

\* kprv_delete_all_subscribers takes the next item: LL_DELETE, then the
\* pthread_cancel of kprv_subscriber_destroy.
DeleteAndThen(next) ==
  /\ mpc = "delete"
  /\ mnxt # 0
  /\ gone' = mnxt
  /\ mnxt' = next
  /\ mpc' = "join"
  /\ owed' = [h \in Conns |-> owed[h] \ {subs[mnxt]}]
  /\ UNCHANGED <<running, apc, asub, tail, subs, topics, active,
                 hpc, topic, cur, nxt, torn, sockVars>>

\* Mutant: the successor is not read before the item is destroyed.
DeleteForgetsNext == DeleteAndThen(mnxt)

DeleteNext == DeleteAndThen(Succ(mnxt))

\* kprv_subscriber_destroy: topics removed, socket closed.
CloseAnyhow ==
  LET c == subs[gone] IN
  /\ mpc = "join"
  /\ topics' = [topics EXCEPT ![c] = NoTopics]
  /\ IF topics[c] # NoTopics THEN NodeFreed(c) ELSE torn' = torn
  /\ ServerClose(c)
  /\ mpc' = "free"
  /\ UNCHANGED <<running, mnxt, apc, asub, tail, subs, gone, active,
                 hpc, topic, cur, nxt, owed>>

\* No thread uses connection c, nor ever will again.
Ended(c) == hpc[c] \in {"dead", "failed"}

\* ... once pthread_join has returned.
DestroyClose == mpc = "join" /\ Ended(subs[gone]) /\ CloseAnyhow

\* csp_thread_kill of the handle 0, of a subscriber without a handler: the C
\* library finds no such thread, and DestroyClose goes on, or it faults.
KillNobody ==
  /\ mpc = "join"
  /\ hpc[subs[gone]] = "failed"
  /\ mpc' = "crash"
  /\ ServerEnds
  /\ UNCHANGED <<running, mnxt, apc, asub, tail, listVars, handlerVars>>

\* free(*sub), and on to the item read before this one was destroyed.
DestroyFree ==
  /\ mpc = "free"
  /\ mpc' = "delete"
  /\ UNCHANGED <<running, mnxt, apc, asub, tail, listVars, handlerVars, sockVars>>

\* main returns, and with it every thread of the process ends.
MainReturns ==
  /\ mpc = "delete"
  /\ mnxt = 0
  /\ mpc' = "exit"
  /\ ServerEnds
  /\ UNCHANGED <<running, mnxt, apc, asub, tail, listVars, handlerVars>>
==============================================================================
