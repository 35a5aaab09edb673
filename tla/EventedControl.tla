--------------------------- MODULE EventedControl ----------------------------
(***************************************************************************)
(* Evented control over D-Bus: evented-control/source/ecp.c and its power  *)
(* manager messages, between processes that run power-manager/source/main.c*)
(* and clients as examples/kubos-eps-example and the tests write them: they *)
(* listen for the power status, call enable_line until it succeeds, and    *)
(* then loop.  Every process is one thread; the bus is external.           *)
(***************************************************************************)
EXTENDS Naturals, Sequences, SequencesExt

CONSTANTS
  Managers,     \* Processes that may run power-manager.
  Clients,
  Loops,        \* Bound: rounds of the manager's loop, 15 in the code,
  ClientLoops,  \* and of a client's.
  Calls         \* Bound: how often a client tries.

ASSUME EcpAssumption ==
  /\ Managers \intersect Clients = {}
  /\ Loops \in Nat \ {0} /\ ClientLoops \in Nat \ {0} /\ Calls \in Nat

VARIABLES
  pc,       \* pc[p]: where process p is.
  left,     \* left[p]: rounds of its loop still to go.
  calls,    \* calls[c]: how often c has called enable_line.
  names,    \* Bus: who has asked for POWER_MANAGER_INTERFACE, the owner first.
  out,      \* out[p]: sent by p, and not yet taken by the bus.
  in,       \* in[p]: given to p by the bus, and not yet read.
  queue,    \* queue[p]: read by libdbus, and not yet dispatched.
  expected, \* Bus: the calls passed on and not answered, and who has them.
  runs,     \* History: how often enable_line_handler ran for a call.
  ok,       \* History: the calls that returned ECP_OK.
  heard     \* History: heard[c][m]: the last status of m that c was given.

process == <<pc, left, calls>>
bus == <<names, out, in, queue, expected>>
history == <<runs, ok, heard>>
vars == <<process, bus, history>>

Processes == Managers \union Clients
CallIds == Clients \X (1..Calls)

\* The messages: a signal, a call, its answers, and one that stands for the
\* signals of the bus itself.
Status(m, n) == [kind |-> "status", by |-> m, n |-> n]
Call(x) == [kind |-> "call", by |-> x[1], n |-> x[2]]
Return(x) == [kind |-> "return", by |-> x[1], n |-> x[2]]
Error(x) == [kind |-> "error", by |-> x[1], n |-> x[2]]
NameAcquired(p) == [kind |-> "name", by |-> p, n |-> 0]
Id(msg) == <<msg.by, msg.n>>

Init ==
  /\ pc = [p \in Processes |-> "off"]
  /\ left = [p \in Processes |-> 0]
  /\ calls = [c \in Clients |-> 0]
  /\ names = <<>>
  /\ out = [p \in Processes |-> <<>>]
  /\ in = [p \in Processes |-> <<>>]
  /\ queue = [p \in Processes |-> <<>>]
  /\ expected = {}
  /\ runs = [x \in CallIds |-> 0]
  /\ ok = {}
  /\ heard = [c \in Clients |-> [m \in Managers |-> 0]]

-----------------------------------------------------------------------------
(***************************************************************************)
(* The power manager.                                                      *)
(***************************************************************************)

(* ecp_init and on_enable_line.  A name that another has is no error: the  *)
(* process waits for it behind its owner.                                  *)
ManagerStart(m) ==
  /\ pc[m] = "off"
  /\ pc' = [pc EXCEPT ![m] = "send"]
  /\ left' = [left EXCEPT ![m] = Loops]
  /\ names' = Append(names, m)
  /\ queue' = [queue EXCEPT ![m] = <<NameAcquired(m)>>]
  /\ UNCHANGED <<calls, in, out, expected, history>>

(* format_power_status_message and ecp_send, once in a round.              *)
ManagerSend(m) ==
  /\ pc[m] = "send"
  /\ out' = [out EXCEPT ![m] = Append(@, Status(m, Loops - left[m] + 1))]
  /\ pc' = [pc EXCEPT ![m] = "loop"]
  /\ UNCHANGED <<left, calls, names, in, queue, expected, history>>

\* A round is over.
Round(p, again) ==
  /\ left' = [left EXCEPT ![p] = @ - 1]
  /\ pc' = [pc EXCEPT ![p] = IF left[p] = 1 THEN "leaving" ELSE again]

(***************************************************************************)
(* ecp_loop: a message that libdbus has read is dispatched, and only when  *)
(* it has none it waits for others to read.                                *)
(***************************************************************************)
Read(p) ==
  /\ queue[p] = <<>>
  /\ queue' = [queue EXCEPT ![p] = in[p]]
  /\ in' = [in EXCEPT ![p] = <<>>]

Dispatch(p, msg) ==
  /\ queue[p] # <<>>
  /\ msg = Head(queue[p])
  /\ queue' = [queue EXCEPT ![p] = Tail(@)]

ManagerReads(m) ==
  /\ pc[m] = "loop"
  /\ Read(m)
  /\ Round(m, "send")
  /\ UNCHANGED <<calls, names, out, expected, history>>

(* ecp_handle_message and on_enable_line_parser.  enable_line_handler ends *)
(* without a return: what its caller takes for the status is anything, and *)
(* unless it is ECP_OK the call is not answered.                           *)
ManagerEnables(m) ==
  /\ pc[m] = "loop"
  /\ \E x \in CallIds :
       /\ Dispatch(m, Call(x))
       /\ runs' = [runs EXCEPT ![x] = @ + 1]
       /\ \/ out' = [out EXCEPT ![m] = Append(@, Return(x))]
          \/ UNCHANGED out
  /\ Round(m, "send")
  /\ UNCHANGED <<calls, names, in, expected, ok, heard>>

ManagerIgnores(m) ==
  /\ pc[m] = "loop"
  /\ Dispatch(m, NameAcquired(m))
  /\ Round(m, "send")
  /\ UNCHANGED <<calls, names, out, in, expected, history>>

(***************************************************************************)
(* A client.                                                               *)
(***************************************************************************)

\* ecp_init and on_power_status, which adds the handler and listens.
ClientStart(c) ==
  /\ pc[c] = "off"
  /\ pc' = [pc EXCEPT ![c] = "idle"]
  /\ queue' = [queue EXCEPT ![c] = <<NameAcquired(c)>>]
  /\ UNCHANGED <<left, calls, names, in, out, expected, history>>

\* enable_line, up to dbus_connection_send_with_reply_and_block.
EnableLine(c) ==
  /\ pc[c] = "idle"
  /\ calls[c] < Calls
  /\ calls' = [calls EXCEPT ![c] = @ + 1]
  /\ out' = [out EXCEPT ![c] = Append(@, Call(<<c, calls'[c]>>))]
  /\ pc' = [pc EXCEPT ![c] = "waiting"]
  /\ UNCHANGED <<left, names, in, queue, expected, history>>

\* The call has failed: it is tried again, or the client gives up.
Failed(c) == pc' = [pc EXCEPT ![c] = IF calls[c] < Calls THEN "idle" ELSE "leaving"]

\* Mutant: what came before the answer is put back behind what came after.
AnsweredPutBack(c, answer) ==
  /\ pc[c] = "waiting"
  /\ LET all == queue[c] \o in[c] IN
       \E n \in DOMAIN all :
         /\ all[n] = answer
         /\ queue' = [queue EXCEPT ![c] = SubSeq(all, n + 1, Len(all)) \o SubSeq(all, 1, n - 1)]
  /\ in' = [in EXCEPT ![c] = <<>>]

(* The answer to this very call is taken out from among what has arrived.  *)
Answered(c, answer) ==
  /\ pc[c] = "waiting"
  /\ LET all == queue[c] \o in[c] IN
       \E n \in DOMAIN all :
         /\ all[n] = answer
         /\ queue' = [queue EXCEPT ![c] = RemoveAt(all, n)]
  /\ in' = [in EXCEPT ![c] = <<>>]

Returned(c) ==
  /\ Answered(c, Return(<<c, calls[c]>>))
  /\ ok' = ok \union {<<c, calls[c]>>}
  /\ pc' = [pc EXCEPT ![c] = "loop"]
  /\ left' = [left EXCEPT ![c] = ClientLoops]
  /\ UNCHANGED <<calls, names, out, expected, runs, heard>>

\* Mutant: any answer is a good one.
RefusedOk(c) ==
  /\ Answered(c, Error(<<c, calls[c]>>))
  /\ ok' = ok \union {<<c, calls[c]>>}
  /\ pc' = [pc EXCEPT ![c] = "loop"]
  /\ left' = [left EXCEPT ![c] = ClientLoops]
  /\ UNCHANGED <<calls, names, out, expected, runs, heard>>

\* ecp_send_with_reply: an error is no reply.
Refused(c) ==
  /\ Answered(c, Error(<<c, calls[c]>>))
  /\ Failed(c)
  /\ UNCHANGED <<left, calls, names, out, expected, history>>

\* Mutant: what is not answered in time is sent again.
TimedOutResends(c) ==
  /\ pc[c] = "waiting"
  /\ out' = [out EXCEPT ![c] = Append(@, Call(<<c, calls[c]>>))]
  /\ UNCHANGED <<process, names, in, queue, expected, history>>

(* DEFAULT_SEND_TIMEOUT is over.  An answer may come yet.                  *)
TimedOut(c) ==
  /\ pc[c] = "waiting"
  /\ Failed(c)
  /\ UNCHANGED <<left, calls, bus, history>>

ClientReads(c) ==
  /\ pc[c] = "loop"
  /\ Read(c)
  /\ Round(c, "loop")
  /\ UNCHANGED <<calls, names, out, expected, history>>

\* ecp_handle_message and on_power_status_parser.
ClientHears(c) ==
  /\ pc[c] = "loop"
  /\ \E m \in Managers, n \in 1..Loops :
       /\ Dispatch(c, Status(m, n))
       /\ heard' = [heard EXCEPT ![c][m] = n]
  /\ Round(c, "loop")
  /\ UNCHANGED <<calls, names, out, in, expected, runs, ok>>

\* What no handler is for: an answer that is late has no interface.
ClientIgnores(c) ==
  /\ pc[c] = "loop"
  /\ \E msg \in {NameAcquired(c)} \union {Return(x) : x \in CallIds} \union {Error(x) : x \in CallIds} :
       Dispatch(c, msg)
  /\ Round(c, "loop")
  /\ UNCHANGED <<calls, names, out, in, expected, history>>

-----------------------------------------------------------------------------
(***************************************************************************)
(* The bus.                                                                *)
(***************************************************************************)
Connected(p) == pc[p] \notin {"off", "gone"}

RouteStatus(p, msg) ==
  /\ msg.kind = "status"
  /\ in' = [q \in Processes |-> IF q \in Clients /\ Connected(q) THEN Append(in[q], msg) ELSE in[q]]
  /\ UNCHANGED expected

RouteCall(p, msg) ==
  /\ msg.kind = "call"
  /\ IF names = <<>>
       THEN in' = [in EXCEPT ![p] = Append(@, Error(Id(msg)))] /\ UNCHANGED expected
       ELSE /\ in' = [in EXCEPT ![Head(names)] = Append(@, msg)]
            /\ expected' = expected \union {<<Id(msg), Head(names)>>}

RouteReturn(p, msg) ==
  /\ msg.kind = "return"
  /\ in' = IF Connected(msg.by) THEN [in EXCEPT ![msg.by] = Append(@, msg)] ELSE in
  /\ expected' = expected \ {<<Id(msg), p>>}

Deliver(p) ==
  /\ out[p] # <<>>
  /\ LET msg == Head(out[p])
     IN RouteStatus(p, msg) \/ RouteCall(p, msg) \/ RouteReturn(p, msg)
  /\ out' = [out EXCEPT ![p] = Tail(@)]
  /\ UNCHANGED <<process, names, queue, history>>

\* names, without p where it has asked for it.
Without(p) ==
  IF p \in ToSet(names)
    THEN RemoveAt(names, CHOOSE n \in DOMAIN names : names[n] = p)
    ELSE names

(* ecp_destroy, and the process ends: the bus passes its name on, drops    *)
(* what it has not read, and answers for it the calls it leaves.           *)
Leave(p) ==
  /\ pc[p] = "leaving"
  /\ out[p] = <<>>
  /\ pc' = [pc EXCEPT ![p] = "gone"]
  /\ names' = Without(p)
  /\ in' = [in EXCEPT ![p] = <<>>]
  /\ queue' = [queue EXCEPT ![p] = <<>>]
  /\ UNCHANGED <<left, calls, out, expected, history>>

Abandoned(x, m) ==
  /\ <<x, m>> \in expected
  /\ pc[m] = "gone"
  /\ expected' = expected \ {<<x, m>>}
  /\ in' = IF Connected(x[1]) THEN [in EXCEPT ![x[1]] = Append(@, Error(x))] ELSE in
  /\ UNCHANGED <<process, names, out, queue, history>>

Finished == (\A p \in Processes : pc[p] = "gone") /\ UNCHANGED vars

ManagerStep(m) ==
  ManagerStart(m) \/ ManagerSend(m) \/ ManagerReads(m) \/ ManagerEnables(m) \/ ManagerIgnores(m)

ClientStep(c) ==
  \/ ClientStart(c) \/ EnableLine(c)
  \/ Returned(c) \/ Refused(c) \/ TimedOut(c)
  \/ ClientReads(c) \/ ClientHears(c) \/ ClientIgnores(c)

Next ==
  \/ \E m \in Managers : ManagerStep(m)
  \/ \E c \in Clients : ClientStep(c)
  \/ \E p \in Processes : Deliver(p) \/ Leave(p)
  \/ \E x \in CallIds, m \in Managers : Abandoned(x, m)
  \/ Finished

Spec == Init /\ [][Next]_vars

-----------------------------------------------------------------------------
(***************************************************************************)
(* Properties.                                                             *)
(***************************************************************************)
Message ==
  [kind : {"status"}, by : Managers, n : 1..Loops]
    \union [kind : {"call", "return", "error"}, by : Clients, n : 1..Calls]
    \union [kind : {"name"}, by : Processes, n : {0}]

(* Every variable has its type.                                            *)
TypeOK ==
  /\ pc \in [Processes -> {"off", "send", "loop", "idle", "waiting", "leaving", "gone"}]
  /\ left \in [Processes -> Nat]
  /\ calls \in [Clients -> 0..Calls]
  /\ names \in Seq(Managers)
  /\ out \in [Processes -> Seq(Message)]
  /\ in \in [Processes -> Seq(Message)]
  /\ queue \in [Processes -> Seq(Message)]
  /\ expected \subseteq CallIds \X Managers
  /\ runs \in [CallIds -> Nat]
  /\ ok \subseteq CallIds
  /\ heard \in [Clients -> [Managers -> 0..Loops]]

(* enable_line returns ECP_OK only when the handler has run for that call: *)
(* not on the answer to an earlier call that had timed out, nor because    *)
(* the manager has gone (ecp.c:178-188, enable-line.c:99-123).             *)
OkMeansEnabled == \A x \in ok : runs[x] > 0

(* A call enables its line at most once, whichever manager it reaches and  *)
(* whenever that one ends (ecp.c:150-160, power-manager main.c:47-55, :71-75).     *)
OncePerCall == \A x \in CallIds : runs[x] <= 1

\* A status that m has sent.
StatusOf(m, msg) == msg.kind = "status" /\ msg.by = m

(* A client is given the statuses of a manager in their order and each at  *)
(* most once, those that came while it waited in enable_line included      *)
(* (ecp.c:100, :178).                                                      *)
StatusInOrder ==
  \A c \in Clients, m \in Managers :
    LET s == queue[c] \o in[c]
    IN \A i \in DOMAIN s : StatusOf(m, s[i]) =>
         /\ heard[c][m] < s[i].n
         /\ \A j \in DOMAIN s : i < j /\ StatusOf(m, s[j]) => s[i].n < s[j].n
=============================================================================
