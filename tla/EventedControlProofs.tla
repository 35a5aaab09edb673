------------------------ MODULE EventedControlProofs -------------------------
(***************************************************************************)
(* What TLAPS proves about EventedControl, for any processes and bounds:   *)
(* its type invariant, that enable_line returns ECP_OK only for a call     *)
(* whose handler has run, that no call is run twice, and that statuses     *)
(* come in order.                                                          *)
(***************************************************************************)
EXTENDS EventedControl, TLAPS

-----------------------------------------------------------------------------
(* Sequences: what taking, putting and joining keep.                       *)
LEMMA Taken ==
    ASSUME NEW S, NEW s \in Seq(S), s # <<>>
    PROVE  Head(s) \in S /\ Tail(s) \in Seq(S)
  OBVIOUS

LEMMA Put ==
    ASSUME NEW S, NEW s \in Seq(S), NEW x \in S
    PROVE  Append(s, x) \in Seq(S)
  OBVIOUS

LEMMA RemoveElement ==
    ASSUME NEW S, NEW s \in Seq(S), NEW n \in DOMAIN s
    PROVE  s[n] \in S /\ RemoveAt(s, n) \in Seq(S)
  BY DEF RemoveAt

LEMMA Joined ==
    ASSUME NEW S, NEW s \in Seq(S), NEW t \in Seq(S)
    PROVE  s \o t \in Seq(S)
  OBVIOUS

LEMMA Wider ==
    ASSUME NEW S, NEW T, S \subseteq T, NEW s \in Seq(S)
    PROVE  s \in Seq(T)
  OBVIOUS

-----------------------------------------------------------------------------
(* The invariant: the processes, the names and the histories have their    *)
(* types, and no return is under way of a call whose handler has not run.  *)

Honest == {msg \in Message : msg.kind = "return" => runs[Id(msg)] > 0}

ProcessOK ==
  /\ pc \in [Processes -> {"off", "send", "loop", "idle", "waiting", "leaving", "gone"}]
  /\ left \in [Processes -> Nat]
  /\ calls \in [Clients -> 0..Calls]
  /\ \A p \in Processes : pc[p] \in {"send", "loop"} => left[p] > 0
  /\ \A m \in Managers : left[m] <= Loops

NamesOK == names \in Seq(Managers) /\ expected \subseteq CallIds \X Managers

MailIn(S) ==
  /\ out \in [Processes -> Seq(S)]
  /\ in \in [Processes -> Seq(S)]
  /\ queue \in [Processes -> Seq(S)]

HistoryOK ==
  /\ runs \in [CallIds -> Nat]
  /\ ok \subseteq CallIds
  /\ heard \in [Clients -> [Managers -> 0..Loops]]

IInv ==
  /\ ProcessOK
  /\ NamesOK
  /\ MailIn(Honest)
  /\ HistoryOK
  /\ OkMeansEnabled

(* The messages of the processes and of the bus are honest: of the returns *)
(* those of calls whose handler has run.                                   *)
LEMMA Messages ==
    /\ \A p \in Processes : NameAcquired(p) \in Honest
    /\ \A m \in Managers, n \in 1..Loops : Status(m, n) \in Honest
    /\ \A x \in CallIds : Call(x) \in Honest /\ Error(x) \in Honest
    /\ \A x \in CallIds : runs[x] > 0 => Return(x) \in Honest
    /\ \A x \in CallIds : Return(x) \in Honest => runs[x] > 0
  BY DEF Honest, Message, NameAcquired, Status, Call, Error, Return, Id, CallIds

\* What is delivered is about a call or a process that is one.
LEMMA Addressed ==
    ASSUME NEW msg \in Honest
    PROVE  /\ msg.kind \in {"call", "return", "error"} => Id(msg) \in CallIds /\ msg.by \in Clients
           /\ msg.kind \in {"call", "return", "error"} => Error(Id(msg)) \in Honest
  <1>1. msg.kind \in {"call", "return", "error"} => Id(msg) \in CallIds /\ msg.by \in Clients
    BY DEF Honest, Message, Id, CallIds
  <1> QED
    BY <1>1, Messages

LEMMA InitIInv == Init => IInv
  <1> SUFFICES ASSUME Init PROVE IInv
    OBVIOUS
  <1> USE EcpAssumption DEF EcpAssumption, Init
  <1>1. ProcessOK
    BY DEF ProcessOK, Processes
  <1>2. NamesOK
    BY DEF NamesOK
  <1>3. MailIn(Honest)
    BY DEF MailIn
  <1>4. HistoryOK
    BY DEF HistoryOK
  <1>5. OkMeansEnabled
    BY DEF OkMeansEnabled
  <1> HIDE DEF EcpAssumption, Init
  <1> QED
    BY <1>1, <1>2, <1>3, <1>4, <1>5 DEF IInv

-----------------------------------------------------------------------------
(* A round of a loop. *)
LEMMA RoundOK ==
    ASSUME ProcessOK, NEW p \in Processes, NEW again \in {"send", "loop"},
           pc[p] = "loop", Round(p, again), UNCHANGED calls
    PROVE  ProcessOK'
  BY EcpAssumption DEF EcpAssumption, ProcessOK, Round, Processes

LEMMA NextProcessOK == ProcessOK /\ [Next]_vars => ProcessOK'
  <1> SUFFICES ASSUME ProcessOK, [Next]_vars PROVE ProcessOK'
    OBVIOUS
  <1> USE EcpAssumption DEF EcpAssumption
  <1>1. ASSUME NEW m \in Managers, ManagerStep(m) PROVE ProcessOK'
    <2>0. m \in Processes
      BY DEF Processes
    <2>1. CASE ManagerStart(m)
      BY <2>0, <2>1 DEF ManagerStart, ProcessOK
    <2>2. CASE ManagerSend(m)
      BY <2>0, <2>2 DEF ManagerSend, ProcessOK
    <2>3. CASE ManagerReads(m)
      BY <2>0, <2>3, RoundOK DEF ManagerReads
    <2>4. CASE ManagerEnables(m)
      BY <2>0, <2>4, RoundOK DEF ManagerEnables
    <2>5. CASE ManagerIgnores(m)
      BY <2>0, <2>5, RoundOK DEF ManagerIgnores
    <2> QED
      BY <1>1, <2>1, <2>2, <2>3, <2>4, <2>5 DEF ManagerStep
  <1>2. ASSUME NEW c \in Clients, ClientStep(c) PROVE ProcessOK'
    <2>0. c \in Processes /\ c \notin Managers
      BY DEF Processes
    <2>1. CASE ClientStart(c)
      BY <2>0, <2>1 DEF ClientStart, ProcessOK
    <2>2. CASE EnableLine(c)
      BY <2>0, <2>2 DEF EnableLine, ProcessOK
    <2>3. CASE Returned(c)
      BY <2>0, <2>3 DEF Returned, Answered, ProcessOK
    <2>4. CASE Refused(c)
      BY <2>0, <2>4 DEF Refused, Answered, Failed, ProcessOK
    <2>5. CASE TimedOut(c)
      BY <2>0, <2>5 DEF TimedOut, Failed, ProcessOK
    <2>6. CASE ClientReads(c)
      BY <2>0, <2>6, RoundOK DEF ClientReads
    <2>7. CASE ClientHears(c)
      BY <2>0, <2>7, RoundOK DEF ClientHears
    <2>8. CASE ClientIgnores(c)
      BY <2>0, <2>8, RoundOK DEF ClientIgnores
    <2> QED
      BY <1>2, <2>1, <2>2, <2>3, <2>4, <2>5, <2>6, <2>7, <2>8 DEF ClientStep
  <1>3. ASSUME NEW p \in Processes, Deliver(p) \/ Leave(p) PROVE ProcessOK'
    BY <1>3 DEF Deliver, Leave, ProcessOK, process
  <1>4. ASSUME NEW x \in CallIds, NEW m \in Managers, Abandoned(x, m) PROVE ProcessOK'
    BY <1>4 DEF Abandoned, ProcessOK, process
  <1>5. CASE UNCHANGED vars
    BY <1>5 DEF vars, process, ProcessOK
  <1> QED
    BY <1>1, <1>2, <1>3, <1>4, <1>5 DEF Next, Finished

LEMMA NextNamesOK == NamesOK /\ MailIn(Honest) /\ [Next]_vars => NamesOK'
  <1> SUFFICES ASSUME NamesOK, MailIn(Honest), [Next]_vars PROVE NamesOK'
    OBVIOUS
  <1>1. ASSUME NEW m \in Managers, ManagerStep(m) PROVE NamesOK'
    BY <1>1 DEF ManagerStep, ManagerStart, ManagerSend, ManagerReads, ManagerEnables,
                ManagerIgnores, NamesOK
  <1>2. ASSUME NEW c \in Clients, ClientStep(c) PROVE NamesOK'
    BY <1>2 DEF ClientStep, ClientStart, EnableLine, Returned, Refused, TimedOut,
                ClientReads, ClientHears, ClientIgnores, NamesOK, bus
  <1>3. ASSUME NEW p \in Processes, Deliver(p) PROVE NamesOK'
    <2>1. out[p] # <<>> /\ out[p] \in Seq(Honest) /\ names' = names
      BY <1>3 DEF Deliver, MailIn
    <2> DEFINE msg == Head(out[p])
    <2>2. msg \in Honest
      BY <2>1, Taken
    <2>3. RouteStatus(p, msg) \/ RouteCall(p, msg) \/ RouteReturn(p, msg)
      BY <1>3 DEF Deliver
    <2> HIDE DEF msg
    <2>4. msg.kind = "call" /\ names # <<>> => <<Id(msg), Head(names)>> \in CallIds \X Managers
      BY <2>2, Addressed, Taken DEF NamesOK
    <2>5. expected' \subseteq CallIds \X Managers
      BY <2>3, <2>4 DEF RouteStatus, RouteCall, RouteReturn, NamesOK
    <2> QED
      BY <2>1, <2>5 DEF NamesOK
  <1>4. ASSUME NEW p \in Processes, Leave(p) PROVE NamesOK'
    <2>1. Without(p) \in Seq(Managers)
      <3>1. CASE p \in ToSet(names)
        <4> DEFINE k == CHOOSE n \in DOMAIN names : names[n] = p
        <4>1. \E n \in DOMAIN names : names[n] = p
          BY <3>1 DEF ToSet
        <4>2. k \in DOMAIN names
          BY <4>1
        <4> HIDE DEF k
        <4>3. RemoveAt(names, k) \in Seq(Managers)
          BY <4>2, RemoveElement DEF NamesOK
        <4> QED
          BY <3>1, <4>3 DEF Without, k
      <3> QED
        BY <3>1 DEF Without, NamesOK
    <2> QED
      BY <1>4, <2>1 DEF Leave, NamesOK
  <1>5. ASSUME NEW x \in CallIds, NEW m \in Managers, Abandoned(x, m) PROVE NamesOK'
    BY <1>5 DEF Abandoned, NamesOK
  <1>6. CASE UNCHANGED vars
    BY <1>6 DEF vars, bus, NamesOK
  <1> QED
    BY <1>1, <1>2, <1>3, <1>4, <1>5, <1>6 DEF Next, Finished

-----------------------------------------------------------------------------
(* The messages and the histories.  Only ManagerEnables changes runs: what *)
(* was honest stays so, and its own return is of a call it has just run.   *)
LEMMA RunsOnlyGrow ==
    ASSUME HistoryOK, NEW x \in CallIds, runs' = [runs EXCEPT ![x] = @ + 1]
    PROVE  /\ runs' \in [CallIds -> Nat] /\ runs'[x] > 0
           /\ \A y \in CallIds : runs[y] > 0 => runs'[y] > 0
           /\ Honest \subseteq Honest'
           /\ Return(x) \in Honest'
  <1>1. runs \in [CallIds -> Nat]
    BY DEF HistoryOK
  <1>2. runs' \in [CallIds -> Nat] /\ runs'[x] > 0
    BY <1>1
  <1>3. \A y \in CallIds : runs[y] > 0 => runs'[y] > 0
    BY <1>1
  <1>4. Honest \subseteq Honest'
    <2>1. \A msg \in Message : msg.kind = "return" => Id(msg) \in CallIds
      BY DEF Message, Id, CallIds
    <2> QED
      BY <1>3, <2>1 DEF Honest
  <1>5. Return(x) \in Honest'
    BY <1>2 DEF Honest, Message, Return, Id, CallIds
  <1> QED
    BY <1>2, <1>3, <1>4, <1>5

LEMMA ReadOK ==
    ASSUME NEW S, MailIn(S), NEW p \in Processes, Read(p)
    PROVE  in' \in [Processes -> Seq(S)] /\ queue' \in [Processes -> Seq(S)]
  <1>1. <<>> \in Seq(S)
    OBVIOUS
  <1> QED
    BY <1>1 DEF MailIn, Read

LEMMA DispatchOK ==
    ASSUME NEW S, MailIn(S), NEW p \in Processes, NEW msg, Dispatch(p, msg)
    PROVE  msg \in S /\ queue' \in [Processes -> Seq(S)]
  <1>1. queue[p] \in Seq(S) /\ queue[p] # <<>>
    BY DEF MailIn, Dispatch
  <1>2. Head(queue[p]) \in S /\ Tail(queue[p]) \in Seq(S)
    BY <1>1, Taken
  <1> QED
    BY <1>2 DEF MailIn, Dispatch

LEMMA AnsweredOK ==
    ASSUME NEW S, MailIn(S), NEW c \in Processes, NEW msg, Answered(c, msg)
    PROVE  msg \in S /\ in' \in [Processes -> Seq(S)] /\ queue' \in [Processes -> Seq(S)]
  <1> DEFINE all == queue[c] \o in[c]
  <1>1. all \in Seq(S) /\ <<>> \in Seq(S)
    BY Joined DEF MailIn
  <1>2. PICK n \in DOMAIN all : all[n] = msg /\ queue' = [queue EXCEPT ![c] = RemoveAt(all, n)]
    BY DEF Answered
  <1>3. in' = [in EXCEPT ![c] = <<>>]
    BY DEF Answered
  <1> HIDE DEF all
  <1>4. msg \in S /\ RemoveAt(all, n) \in Seq(S)
    BY <1>1, <1>2, RemoveElement
  <1> QED
    BY <1>1, <1>2, <1>3, <1>4 DEF MailIn

\* What a step keeps that does not change runs, ok and heard.
Kept == MailIn(Honest) /\ HistoryOK /\ OkMeansEnabled

LEMMA KeptHistory ==
    ASSUME HistoryOK, OkMeansEnabled, UNCHANGED history
    PROVE  HistoryOK' /\ OkMeansEnabled' /\ Honest' = Honest
  BY DEF history, HistoryOK, OkMeansEnabled, Honest

LEMMA NextKept == ProcessOK /\ NamesOK /\ Kept /\ [Next]_vars => Kept'
  <1> SUFFICES ASSUME ProcessOK, NamesOK, MailIn(Honest), HistoryOK, OkMeansEnabled, [Next]_vars
               PROVE  Kept'
    BY DEF Kept
  <1> USE EcpAssumption DEF EcpAssumption
  <1> DEFINE H == Honest
  <1>0. /\ \A s \in Seq(H), x \in H : Append(s, x) \in Seq(H)
        /\ <<>> \in Seq(H)
    OBVIOUS
  <1>1. ASSUME NEW m \in Managers, ManagerStep(m) PROVE Kept'
    <2>0. m \in Processes
      BY DEF Processes
    <2>1. CASE ManagerStart(m)
      <3>1. <<NameAcquired(m)>> \in Seq(H)
        BY <2>0, Messages
      <3>2. Honest' = Honest /\ HistoryOK' /\ OkMeansEnabled'
        BY <2>1, KeptHistory DEF ManagerStart
      <3> QED
        BY <2>0, <2>1, <3>1, <3>2 DEF ManagerStart, Kept, MailIn
    <2>2. CASE ManagerSend(m)
      <3>1. Loops - left[m] + 1 \in 1..Loops
        BY <2>0, <2>2 DEF ManagerSend, ProcessOK
      <3>2. Status(m, Loops - left[m] + 1) \in H
        BY <3>1, Messages
      <3>3. Append(out[m], Status(m, Loops - left[m] + 1)) \in Seq(H)
        BY <2>0, <3>2, Put DEF MailIn
      <3>4. Honest' = Honest /\ HistoryOK' /\ OkMeansEnabled'
        BY <2>2, KeptHistory DEF ManagerSend
      <3>5. out' = [out EXCEPT ![m] = Append(out[m], Status(m, Loops - left[m] + 1))] /\ UNCHANGED <<in, queue>>
        BY <2>2 DEF ManagerSend
      <3> QED
        BY <2>0, <3>3, <3>4, <3>5 DEF Kept, MailIn
    <2>3. CASE ManagerReads(m)
      <3>1. Honest' = Honest /\ HistoryOK' /\ OkMeansEnabled'
        BY <2>3, KeptHistory DEF ManagerReads
      <3>2. in' \in [Processes -> Seq(H)] /\ queue' \in [Processes -> Seq(H)]
        BY <2>0, <2>3, ReadOK DEF ManagerReads
      <3> QED
        BY <2>3, <3>1, <3>2 DEF ManagerReads, Kept, MailIn
    <2>4. CASE ManagerEnables(m)
      <3>1. PICK x \in CallIds :
              /\ Dispatch(m, Call(x))
              /\ runs' = [runs EXCEPT ![x] = @ + 1]
              /\ out' = [out EXCEPT ![m] = Append(@, Return(x))] \/ UNCHANGED out
        BY <2>4 DEF ManagerEnables
      <3>2. UNCHANGED <<in, ok, heard>>
        BY <2>4 DEF ManagerEnables
      <3>3. /\ runs' \in [CallIds -> Nat] /\ H \subseteq Honest' /\ Return(x) \in Honest'
            /\ \A y \in CallIds : runs[y] > 0 => runs'[y] > 0
        BY <3>1, RunsOnlyGrow
      <3>4. queue' \in [Processes -> Seq(H)]
        BY <2>0, <3>1, DispatchOK
      <3> HIDE DEF H
      <3> DEFINE G == Honest'
      <3>g. H \subseteq G /\ Return(x) \in G
        BY <3>3
      <3> HIDE DEF G
      <3>w. \A s \in Seq(H) : s \in Seq(G)
        BY <3>g, Wider
      <3>5. queue' \in [Processes -> Seq(G)] /\ in' \in [Processes -> Seq(G)] /\ out \in [Processes -> Seq(G)]
        BY <3>2, <3>4, <3>w DEF MailIn, H
      <3>6. Append(out[m], Return(x)) \in Seq(G)
        BY <2>0, <3>5, <3>g, Put
      <3>7. out' \in [Processes -> Seq(G)]
        BY <3>1, <3>5, <3>6
      <3>8. HistoryOK'
        BY <3>2, <3>3 DEF HistoryOK
      <3>9. OkMeansEnabled'
        BY <3>2, <3>3 DEF HistoryOK, OkMeansEnabled
      <3> QED
        BY <3>5, <3>7, <3>8, <3>9 DEF Kept, MailIn, G
    <2>5. CASE ManagerIgnores(m)
      <3>1. Honest' = Honest /\ HistoryOK' /\ OkMeansEnabled'
        BY <2>5, KeptHistory DEF ManagerIgnores
      <3>2. queue' \in [Processes -> Seq(H)]
        BY <2>0, <2>5, DispatchOK DEF ManagerIgnores
      <3> QED
        BY <2>5, <3>1, <3>2 DEF ManagerIgnores, Kept, MailIn
    <2> QED
      BY <1>1, <2>1, <2>2, <2>3, <2>4, <2>5 DEF ManagerStep
  <1>2. ASSUME NEW c \in Clients, ClientStep(c) PROVE Kept'
    <2>0. c \in Processes
      BY DEF Processes
    <2>1. CASE ClientStart(c)
      <3>1. <<NameAcquired(c)>> \in Seq(H)
        BY <2>0, Messages
      <3>2. Honest' = Honest /\ HistoryOK' /\ OkMeansEnabled'
        BY <2>1, KeptHistory DEF ClientStart
      <3> QED
        BY <2>0, <2>1, <3>1, <3>2 DEF ClientStart, Kept, MailIn
    <2>2. CASE EnableLine(c)
      <3>1. <<c, calls[c] + 1>> \in CallIds /\ calls'[c] = calls[c] + 1
        BY <2>0, <2>2 DEF EnableLine, ProcessOK, CallIds
      <3>2. Append(out[c], Call(<<c, calls'[c]>>)) \in Seq(H)
        <4>1. Call(<<c, calls[c] + 1>>) \in H
          BY <3>1, Messages
        <4> QED
          BY <2>0, <3>1, <4>1, Put DEF MailIn
      <3>3. Honest' = Honest /\ HistoryOK' /\ OkMeansEnabled'
        BY <2>2, KeptHistory DEF EnableLine
      <3>4. out' = [out EXCEPT ![c] = Append(out[c], Call(<<c, calls'[c]>>))] /\ UNCHANGED <<in, queue>>
        BY <2>2 DEF EnableLine
      <3> QED
        BY <2>0, <3>2, <3>3, <3>4 DEF Kept, MailIn
    <2>3. CASE Returned(c)
      <3>1. Return(<<c, calls[c]>>) \in H /\ in' \in [Processes -> Seq(H)] /\ queue' \in [Processes -> Seq(H)]
        BY <2>0, <2>3, AnsweredOK DEF Returned
      <3>2. <<c, calls[c]>> \in CallIds /\ runs[<<c, calls[c]>>] > 0
        <4>1. <<c, calls[c]>> \in CallIds
          BY <3>1 DEF Honest, Message, Return, CallIds
        <4> QED
          BY <3>1, <4>1, Messages
      <3>3. ok' = ok \union {<<c, calls[c]>>} /\ UNCHANGED <<runs, heard>>
        BY <2>3 DEF Returned
      <3>4. HistoryOK' /\ OkMeansEnabled' /\ Honest' = Honest
        BY <3>2, <3>3 DEF HistoryOK, OkMeansEnabled, Honest
      <3> QED
        BY <2>3, <3>1, <3>4 DEF Returned, Kept, MailIn
    <2>4. CASE Refused(c)
      <3>1. in' \in [Processes -> Seq(H)] /\ queue' \in [Processes -> Seq(H)]
        BY <2>0, <2>4, AnsweredOK DEF Refused
      <3>2. Honest' = Honest /\ HistoryOK' /\ OkMeansEnabled'
        BY <2>4, KeptHistory DEF Refused
      <3> QED
        BY <2>4, <3>1, <3>2 DEF Refused, Kept, MailIn
    <2>5. CASE TimedOut(c)
      <3>1. Honest' = Honest /\ HistoryOK' /\ OkMeansEnabled'
        BY <2>5, KeptHistory DEF TimedOut
      <3> QED
        BY <2>5, <3>1 DEF TimedOut, Kept, MailIn, bus
    <2>6. CASE ClientReads(c)
      <3>1. Honest' = Honest /\ HistoryOK' /\ OkMeansEnabled'
        BY <2>6, KeptHistory DEF ClientReads
      <3>2. in' \in [Processes -> Seq(H)] /\ queue' \in [Processes -> Seq(H)]
        BY <2>0, <2>6, ReadOK DEF ClientReads
      <3> QED
        BY <2>6, <3>1, <3>2 DEF ClientReads, Kept, MailIn
    <2>7. CASE ClientHears(c)
      <3>1. queue' \in [Processes -> Seq(H)]
        BY <2>0, <2>7, DispatchOK DEF ClientHears
      <3>2. UNCHANGED <<runs, ok, out, in>>
        BY <2>7 DEF ClientHears
      <3>3. heard' \in [Clients -> [Managers -> 0..Loops]]
        <4>1. PICK m \in Managers, n \in 1..Loops : heard' = [heard EXCEPT ![c][m] = n]
          BY <2>7 DEF ClientHears
        <4>2. heard \in [Clients -> [Managers -> 0..Loops]] /\ n \in 0..Loops
          BY DEF HistoryOK
        <4> QED
          BY <4>1, <4>2
      <3>4. HistoryOK' /\ OkMeansEnabled' /\ Honest' = Honest
        BY <3>2, <3>3 DEF HistoryOK, OkMeansEnabled, Honest
      <3> QED
        BY <3>1, <3>2, <3>4 DEF Kept, MailIn
    <2>8. CASE ClientIgnores(c)
      <3>1. Honest' = Honest /\ HistoryOK' /\ OkMeansEnabled'
        BY <2>8, KeptHistory DEF ClientIgnores
      <3>2. queue' \in [Processes -> Seq(H)]
        BY <2>0, <2>8, DispatchOK DEF ClientIgnores
      <3> QED
        BY <2>8, <3>1, <3>2 DEF ClientIgnores, Kept, MailIn
    <2> QED
      BY <1>2, <2>1, <2>2, <2>3, <2>4, <2>5, <2>6, <2>7, <2>8 DEF ClientStep
  <1>3. ASSUME NEW p \in Processes, Deliver(p) PROVE Kept'
    <2>0. Honest' = Honest /\ HistoryOK' /\ OkMeansEnabled'
      BY <1>3, KeptHistory DEF Deliver
    <2>1. out[p] # <<>> /\ out[p] \in Seq(H) /\ queue' = queue
      BY <1>3 DEF Deliver, MailIn
    <2> DEFINE msg == Head(out[p])
    <2>2. msg \in H /\ Tail(out[p]) \in Seq(H)
      BY <2>1, Taken
    <2>3. out' \in [Processes -> Seq(H)]
      BY <1>3, <2>2 DEF Deliver, MailIn
    <2>4. RouteStatus(p, msg) \/ RouteCall(p, msg) \/ RouteReturn(p, msg)
      BY <1>3 DEF Deliver
    <2> HIDE DEF msg
    <2>5. \A q \in Processes : in[q] \in Seq(H) /\ Append(in[q], msg) \in Seq(H)
      BY <2>2, Put DEF MailIn
    <2>6. in' \in [Processes -> Seq(H)]
      <3>1. CASE RouteStatus(p, msg)
        BY <3>1, <2>5 DEF RouteStatus
      <3>2. CASE RouteCall(p, msg)
        <4>1. Append(in[p], Error(Id(msg))) \in Seq(H)
          BY <2>2, <2>5, <3>2, Addressed, Put DEF RouteCall
        <4>2. CASE names = <<>>
          BY <3>2, <4>1, <4>2 DEF RouteCall, MailIn
        <4>3. CASE names # <<>>
          <5>1. Head(names) \in Processes
            BY <4>3, Taken DEF NamesOK, Processes
          <5>2. in' = [in EXCEPT ![Head(names)] = Append(in[Head(names)], msg)]
            BY <3>2, <4>3 DEF RouteCall
          <5> QED
            BY <2>5, <5>1, <5>2 DEF MailIn
        <4> QED
          BY <4>2, <4>3
      <3>3. CASE RouteReturn(p, msg)
        <4>1. msg.by \in Processes
          BY <2>2, <3>3, Addressed DEF RouteReturn, Processes
        <4>2. in' = in \/ in' = [in EXCEPT ![msg.by] = Append(in[msg.by], msg)]
          BY <3>3 DEF RouteReturn
        <4> QED
          BY <2>5, <4>1, <4>2 DEF MailIn
      <3> QED
        BY <2>4, <3>1, <3>2, <3>3
    <2> QED
      BY <2>0, <2>1, <2>3, <2>6 DEF Kept, MailIn
  <1>4. ASSUME NEW p \in Processes, Leave(p) PROVE Kept'
    <2>1. Honest' = Honest /\ HistoryOK' /\ OkMeansEnabled'
      BY <1>4, KeptHistory DEF Leave
    <2> QED
      BY <1>0, <1>4, <2>1 DEF Leave, Kept, MailIn
  <1>5. ASSUME NEW x \in CallIds, NEW m \in Managers, Abandoned(x, m) PROVE Kept'
    <2>1. Honest' = Honest /\ HistoryOK' /\ OkMeansEnabled'
      BY <1>5, KeptHistory DEF Abandoned
    <2>2. x[1] \in Processes
      BY DEF CallIds, Processes
    <2>3. Append(in[x[1]], Error(x)) \in Seq(H)
      BY <2>2, Messages, Put DEF MailIn
    <2>4. in' = in \/ in' = [in EXCEPT ![x[1]] = Append(in[x[1]], Error(x))]
      BY <1>5 DEF Abandoned
    <2> QED
      BY <1>5, <2>1, <2>2, <2>3, <2>4 DEF Abandoned, Kept, MailIn
  <1>6. CASE UNCHANGED vars
    <2>1. Honest' = Honest /\ HistoryOK' /\ OkMeansEnabled'
      BY <1>6, KeptHistory DEF vars
    <2> QED
      BY <1>6, <2>1 DEF vars, bus, Kept, MailIn
  <1> QED
    BY <1>1, <1>2, <1>3, <1>4, <1>5, <1>6 DEF Next, Finished

-----------------------------------------------------------------------------
(* The theorems. *)

(* The invariant holds of every step of the managers, the clients and the  *)
(* bus (ecp.c, power-manager main.c, messages/power-manager).              *)
THEOREM SpecIInv == Spec => []IInv
  <1>1. IInv /\ [Next]_vars => IInv'
    BY NextProcessOK, NextNamesOK, NextKept DEF IInv, Kept
  <1> QED
    BY <1>1, InitIInv, PTL DEF Spec

LEMMA IInvTypeOK == IInv => TypeOK
  <1> SUFFICES ASSUME IInv PROVE TypeOK
    OBVIOUS
  <1>1. Honest \subseteq Message
    BY DEF Honest
  <1> DEFINE H == Honest
             M == Message
  <1>2. H \subseteq M /\ MailIn(H)
    BY <1>1 DEF IInv
  <1> HIDE DEF H, M
  <1>3. \A s \in Seq(H) : s \in Seq(M)
    BY <1>2, Wider
  <1>4. MailIn(M)
    BY <1>2, <1>3 DEF MailIn
  <1> QED
    BY <1>4 DEF IInv, TypeOK, MailIn, M, ProcessOK, NamesOK, HistoryOK

(* Every message, name and history of the model keeps its type: no process *)
(* sends a status beyond its last round or an answer to no call.           *)
THEOREM EcpTypeCorrect == Spec => []TypeOK
  BY SpecIInv, IInvTypeOK, PTL

(* enable_line returns ECP_OK only for a call whose handler has run, for   *)
(* any managers, clients, calls that time out and managers that leave      *)
(* (ecp.c:178-188, enable-line.c:46-50).                                   *)
THEOREM OkIsEarned == Spec => []OkMeansEnabled
  <1>1. IInv => OkMeansEnabled
    BY DEF IInv
  <1> QED
    BY <1>1, SpecIInv, PTL

-----------------------------------------------------------------------------
(* A call runs once.  A call that has been made is in one place, at most   *)
(* once, and has not run; or it is nowhere.                                *)

Has(s, x) == \E n \in DOMAIN s : s[n] = Call(x)
Once(s, x) == \A i, j \in DOMAIN s : s[i] = Call(x) /\ s[j] = Call(x) => i = j

Kinds == {"out", "in", "queue"}
Box(k, p) == CASE k = "out" -> out[p] [] k = "in" -> in[p] [] OTHER -> queue[p]

Lone(x) ==
  /\ \A k \in Kinds, p \in Processes : Once(Box(k, p), x)
  /\ \A k, l \in Kinds, p, q \in Processes :
       Has(Box(k, p), x) /\ Has(Box(l, q), x) => k = l /\ p = q

Unrun(x) ==
  \A k \in Kinds, p \in Processes : Has(Box(k, p), x) => runs[x] = 0 /\ x[2] <= calls[x[1]]

CallOnce(x) ==
  /\ Lone(x) /\ Unrun(x)
  /\ runs[x] <= 1
  /\ runs[x] > 0 => x[2] <= calls[x[1]]

\* The sequences: what appending, taking, joining and removing do to a call.
LEMMA HasNone == ASSUME NEW x PROVE ~Has(<<>>, x) /\ Once(<<>>, x)
  BY DEF Has, Once

LEMMA HasPut ==
    ASSUME NEW S, NEW s \in Seq(S), NEW msg, NEW x
    PROVE  /\ Has(Append(s, msg), x) => Has(s, x) \/ msg = Call(x)
           /\ Once(s, x) /\ (msg # Call(x) \/ ~Has(s, x)) => Once(Append(s, msg), x)
  <1> DEFINE t == Append(s, msg)
             e == Call(x)
  <1>1. /\ DOMAIN t = 1 .. Len(s) + 1 /\ DOMAIN s = 1 .. Len(s) /\ Len(s) \in Nat
        /\ \A n \in 1 .. Len(s) : t[n] = s[n]
        /\ t[Len(s) + 1] = msg
    OBVIOUS
  <1> HIDE DEF t, e
  <1>2. Has(t, x) => Has(s, x) \/ msg = e
    BY <1>1 DEF Has, e
  <1>3. ASSUME Once(s, x), msg # e \/ ~Has(s, x) PROVE Once(t, x)
    BY <1>1, <1>3 DEF Has, Once, e
  <1> QED
    BY <1>2, <1>3 DEF t, e

LEMMA HasTaken ==
    ASSUME NEW S, NEW s \in Seq(S), s # <<>>, NEW x
    PROVE  /\ Has(Tail(s), x) => Has(s, x)
           /\ Once(s, x) => Once(Tail(s), x)
           /\ Head(s) = Call(x) => Has(s, x)
           /\ Once(s, x) /\ Head(s) = Call(x) => ~Has(Tail(s), x)
  <1> DEFINE t == Tail(s)
             e == Call(x)
  <1>1. /\ DOMAIN t = 1 .. Len(s) - 1 /\ DOMAIN s = 1 .. Len(s) /\ Len(s) \in Nat \ {0}
        /\ \A n \in 1 .. Len(s) - 1 : t[n] = s[n + 1]
        /\ Head(s) = s[1]
    OBVIOUS
  <1> HIDE DEF t, e
  <1>2. Has(t, x) => Has(s, x)
    BY <1>1 DEF Has, e
  <1>3. ASSUME Once(s, x) PROVE Once(t, x)
    <2> SUFFICES ASSUME NEW i \in DOMAIN t, NEW j \in DOMAIN t, t[i] = Call(x), t[j] = Call(x)
                 PROVE  i = j
      BY DEF Once
    <2>1. s[i + 1] = Call(x) /\ s[j + 1] = Call(x) /\ i + 1 \in DOMAIN s /\ j + 1 \in DOMAIN s
      BY <1>1
    <2>2. i + 1 = j + 1
      BY <1>3, <2>1 DEF Once
    <2> QED
      BY <1>1, <2>2
  <1>4. Head(s) = e => Has(s, x)
    BY <1>1 DEF Has, e
  <1>5. ASSUME Once(s, x), Head(s) = e, NEW n \in DOMAIN t, t[n] = Call(x) PROVE FALSE
    <2>1. s[n + 1] = Call(x) /\ s[1] = Call(x) /\ n + 1 \in DOMAIN s /\ 1 \in DOMAIN s
      BY <1>1, <1>5 DEF e
    <2>2. n + 1 = 1
      BY <1>5, <2>1 DEF Once
    <2> QED
      BY <1>1, <2>2
  <1> QED
    BY <1>2, <1>3, <1>4, <1>5 DEF t, e, Has

LEMMA HasJoined ==
    ASSUME NEW S, NEW s \in Seq(S), NEW t \in Seq(S), NEW x
    PROVE  /\ Has(s \o t, x) => Has(s, x) \/ Has(t, x)
           /\ Once(s, x) /\ Once(t, x) /\ ~(Has(s, x) /\ Has(t, x)) => Once(s \o t, x)
  <1> DEFINE u == s \o t
  <1>1. /\ DOMAIN u = 1 .. Len(s) + Len(t) /\ DOMAIN s = 1 .. Len(s) /\ DOMAIN t = 1 .. Len(t)
        /\ Len(s) \in Nat /\ Len(t) \in Nat
        /\ \A n \in DOMAIN u : u[n] = IF n <= Len(s) THEN s[n] ELSE t[n - Len(s)]
    OBVIOUS
  <1> HIDE DEF u
  <1>2. \A n \in DOMAIN u : \/ n \in DOMAIN s /\ u[n] = s[n]
                            \/ n - Len(s) \in DOMAIN t /\ u[n] = t[n - Len(s)]
    BY <1>1
  <1>3. Has(u, x) => Has(s, x) \/ Has(t, x)
    BY <1>2 DEF Has
  <1>4. ASSUME Once(s, x), Once(t, x), ~(Has(s, x) /\ Has(t, x)) PROVE Once(u, x)
    <2> SUFFICES ASSUME NEW i \in DOMAIN u, NEW j \in DOMAIN u, u[i] = Call(x), u[j] = Call(x)
                 PROVE  i = j
      BY DEF Once
    <2>1. CASE Has(s, x)
      <3>1. i \in DOMAIN s /\ s[i] = Call(x) /\ j \in DOMAIN s /\ s[j] = Call(x)
        BY <1>2, <1>4, <2>1 DEF Has
      <3> QED
        BY <1>4, <3>1 DEF Once
    <2>2. CASE ~Has(s, x)
      <3>1. /\ i - Len(s) \in DOMAIN t /\ t[i - Len(s)] = Call(x)
            /\ j - Len(s) \in DOMAIN t /\ t[j - Len(s)] = Call(x)
        BY <1>2, <2>2 DEF Has
      <3>2. i - Len(s) = j - Len(s)
        BY <1>4, <3>1 DEF Once
      <3> QED
        BY <1>1, <3>2
    <2> QED
      BY <2>1, <2>2
  <1> QED
    BY <1>3, <1>4 DEF u

LEMMA JoinedAt ==
    ASSUME NEW S, NEW s \in Seq(S), NEW t \in Seq(S)
    PROVE  /\ DOMAIN (s \o t) = 1 .. Len(s) + Len(t) /\ Len(s) \in Nat /\ Len(t) \in Nat
           /\ \A n \in 1 .. Len(s) + Len(t) : (s \o t)[n] = IF n <= Len(s) THEN s[n] ELSE t[n - Len(s)]
  OBVIOUS

LEMMA RemovedAt ==
    ASSUME NEW S, NEW s \in Seq(S), NEW k \in DOMAIN s
    PROVE  /\ DOMAIN RemoveAt(s, k) = 1 .. Len(s) - 1
           /\ DOMAIN s = 1 .. Len(s) /\ Len(s) \in Nat \ {0}
           /\ \A n \in DOMAIN RemoveAt(s, k) :
                RemoveAt(s, k)[n] = IF n < k THEN s[n] ELSE s[n + 1]
  <1> DEFINE t == RemoveAt(s, k)
  <1> DEFINE a == SubSeq(s, 1, k - 1)
             b == SubSeq(s, k + 1, Len(s))
  <1>1. DOMAIN s = 1 .. Len(s) /\ Len(s) \in Nat \ {0} /\ k \in 1 .. Len(s)
    OBVIOUS
  <1>2. a \in Seq(S) /\ Len(a) = k - 1 /\ \A n \in 1 .. k - 1 : a[n] = s[n]
    BY <1>1
  <1>3. b \in Seq(S) /\ Len(b) = Len(s) - k /\ \A n \in 1 .. Len(s) - k : b[n] = s[k + n]
    BY <1>1
  <1> HIDE DEF a, b
  <1>4. t = a \o b
    BY DEF RemoveAt, a, b
  <1> HIDE DEF t
  <1>c. /\ DOMAIN t = 1 .. Len(a) + Len(b)
        /\ \A n \in 1 .. Len(a) + Len(b) : t[n] = IF n <= Len(a) THEN a[n] ELSE b[n - Len(a)]
    BY <1>2, <1>3, <1>4, JoinedAt
  <1>5. DOMAIN t = 1 .. Len(s) - 1
    BY <1>1, <1>2, <1>3, <1>c
  <1>6. ASSUME NEW n \in DOMAIN t PROVE t[n] = IF n < k THEN s[n] ELSE s[n + 1]
    <2>1. t[n] = IF n <= k - 1 THEN a[n] ELSE b[n - (k - 1)]
      BY <1>1, <1>2, <1>3, <1>c, <1>5
    <2>2. CASE n < k
      BY <1>1, <1>2, <1>5, <2>1, <2>2
    <2>3. CASE ~(n < k)
      <3>1. n - (k - 1) \in 1 .. Len(s) - k /\ k + (n - (k - 1)) = n + 1
        BY <1>1, <1>5, <2>3
      <3>2. t[n] = b[n - (k - 1)]
        BY <1>1, <1>5, <2>1, <2>3
      <3> QED
        BY <1>3, <2>3, <3>1, <3>2
    <2> QED
      BY <2>2, <2>3
  <1> QED
    BY <1>1, <1>5, <1>6 DEF t

LEMMA HasRemoved ==
    ASSUME NEW S, NEW s \in Seq(S), NEW k \in DOMAIN s, NEW x
    PROVE  /\ Has(RemoveAt(s, k), x) => Has(s, x)
           /\ Once(s, x) => Once(RemoveAt(s, k), x)
  <1> DEFINE t == RemoveAt(s, k)
  <1>1. /\ DOMAIN t = 1 .. Len(s) - 1 /\ DOMAIN s = 1 .. Len(s) /\ Len(s) \in Nat \ {0}
        /\ \A n \in DOMAIN t : t[n] = IF n < k THEN s[n] ELSE s[n + 1]
    BY RemovedAt
  <1> HIDE DEF t
  <1>2. Has(t, x) => Has(s, x)
    BY <1>1 DEF Has
  <1>3. ASSUME Once(s, x) PROVE Once(t, x)
    <2> SUFFICES ASSUME NEW i \in DOMAIN t, NEW j \in DOMAIN t, t[i] = Call(x), t[j] = Call(x)
                 PROVE  i = j
      BY DEF Once
    <2> DEFINE f(n) == IF n < k THEN n ELSE n + 1
    <2>1. /\ s[f(i)] = Call(x) /\ f(i) \in DOMAIN s
          /\ s[f(j)] = Call(x) /\ f(j) \in DOMAIN s
      BY <1>1
    <2>2. f(i) = f(j)
      BY <1>3, <2>1 DEF Once
    <2> QED
      BY <1>1, <2>2
  <1> QED
    BY <1>2, <1>3 DEF t

\* No other message is a call, and calls differ when their ids do.
LEMMA NotCall ==
    ASSUME NEW x \in CallIds
    PROVE  /\ \A p : NameAcquired(p) # Call(x)
           /\ \A m, n : Status(m, n) # Call(x)
           /\ \A y : Return(y) # Call(x) /\ Error(y) # Call(x)
           /\ \A y \in CallIds : Call(y) = Call(x) => y = x
           /\ \A msg : msg = Call(x) => msg.kind = "call" /\ Id(msg) = x
  BY DEF NameAcquired, Status, Return, Error, Call, Id, CallIds

\* Nothing is put anywhere that is the call.
Shrunk(x) ==
  \A k \in Kinds, p \in Processes :
    /\ Has(Box(k, p)', x) => Has(Box(k, p), x)
    /\ Once(Box(k, p), x) => Once(Box(k, p)', x)

LEMMA ShrunkKeeps ==
    ASSUME NEW x \in CallIds, CallOnce(x), Shrunk(x), ProcessOK, HistoryOK,
           runs'[x] = runs[x], UNCHANGED calls
    PROVE  CallOnce(x)'
  <1>1. Lone(x)'
    BY DEF Lone, CallOnce, Shrunk
  <1>2. Unrun(x)'
    BY DEF Unrun, CallOnce, Shrunk
  <1> QED
    BY <1>1, <1>2 DEF CallOnce

\* The call goes from one box to another.
LEMMA MovedKeeps ==
    ASSUME NEW x \in CallIds, CallOnce(x), UNCHANGED <<runs, calls>>,
           NEW k \in Kinds, NEW p \in Processes, NEW l \in Kinds, NEW q \in Processes,
           k # l \/ p # q,
           \A j \in Kinds, r \in Processes :
             (j # k \/ r # p) /\ (j # l \/ r # q) => Box(j, r)' = Box(j, r),
           ~Has(Box(k, p)', x), Once(Box(k, p)', x), Once(Box(l, q)', x),
           Has(Box(l, q)', x) => Has(Box(k, p), x) \/ Has(Box(l, q), x)
    PROVE  CallOnce(x)'
  <1>1. \A j \in Kinds, r \in Processes :
          Has(Box(j, r)', x) => \/ j = l /\ r = q
                                \/ Has(Box(j, r), x) /\ ~(j = k /\ r = p)
    OBVIOUS
  <1>2. Lone(x)'
    <2>1. \A j \in Kinds, r \in Processes : Once(Box(j, r)', x)
      BY DEF CallOnce, Lone
    <2>2. ASSUME NEW j \in Kinds, NEW r \in Processes, NEW i \in Kinds, NEW t \in Processes,
                 Has(Box(j, r)', x), Has(Box(i, t)', x)
          PROVE  j = i /\ r = t
      BY <1>1, <2>2 DEF CallOnce, Lone
    <2> QED
      BY <2>1, <2>2 DEF Lone
  <1>3. Unrun(x)'
    BY <1>1 DEF CallOnce, Unrun
  <1> QED
    BY <1>2, <1>3 DEF CallOnce

\* Taking the head of a box, emptying one and putting what is no call only
\* shrink.
LEMMA ReadKeeps ==
    ASSUME NEW x \in CallIds, CallOnce(x), NEW p \in Processes, MailIn(Honest), Read(p),
           UNCHANGED <<out, runs, calls>>
    PROVE  CallOnce(x)'
  <1>1. /\ Box("in", p)' = <<>> /\ Box("queue", p)' = Box("in", p)
        /\ \A j \in Kinds, r \in Processes :
             (j # "in" \/ r # p) /\ (j # "queue" \/ r # p) => Box(j, r)' = Box(j, r)
    BY DEF Read, Box, Kinds, MailIn
  <1>2. ~Has(Box("in", p)', x) /\ Once(Box("in", p)', x)
    BY <1>1, HasNone
  <1>3. Once(Box("in", p), x)
    BY DEF CallOnce, Lone, Kinds
  <1> QED
    BY <1>1, <1>2, <1>3, MovedKeeps DEF Kinds

LEMMA DispatchShrinks ==
    ASSUME NEW x \in CallIds, NEW p \in Processes, MailIn(Honest), NEW msg, Dispatch(p, msg),
           UNCHANGED <<out, in>>
    PROVE  Shrunk(x)
  <1>1. /\ queue[p] \in Seq(Honest) /\ queue[p] # <<>> /\ queue' = [queue EXCEPT ![p] = Tail(queue[p])]
    BY DEF Dispatch, MailIn
  <1>2. /\ Has(Tail(queue[p]), x) => Has(queue[p], x)
        /\ Once(queue[p], x) => Once(Tail(queue[p]), x)
    BY <1>1, HasTaken
  <1>3. ASSUME NEW k \in Kinds, NEW r \in Processes
        PROVE  Box(k, r)' = IF k = "queue" /\ r = p THEN Tail(queue[p]) ELSE Box(k, r)
    BY <1>1 DEF Box, Kinds, MailIn
  <1>4. Box("queue", p) = queue[p]
    BY DEF Box
  <1> QED
    BY <1>2, <1>3, <1>4 DEF Shrunk

LEMMA AnsweredKeeps ==
    ASSUME NEW x \in CallIds, CallOnce(x), NEW c \in Processes, MailIn(Honest), NEW msg,
           Answered(c, msg), UNCHANGED <<out, runs, calls>>
    PROVE  CallOnce(x)'
  <1> DEFINE all == queue[c] \o in[c]
  <1>1. PICK n \in DOMAIN all : queue' = [queue EXCEPT ![c] = RemoveAt(all, n)]
    BY DEF Answered
  <1>2. queue[c] \in Seq(Honest) /\ in[c] \in Seq(Honest) /\ in' = [in EXCEPT ![c] = <<>>]
    BY DEF Answered, MailIn
  <1>3. all \in Seq(Honest) /\ (Has(all, x) => Has(queue[c], x) \/ Has(in[c], x))
    BY <1>2, HasJoined, Joined
  <1>4. Box("queue", c) = queue[c] /\ Box("in", c) = in[c]
    BY DEF Box
  <1>5. Once(queue[c], x) /\ Once(in[c], x) /\ ~(Has(queue[c], x) /\ Has(in[c], x))
    BY <1>4 DEF CallOnce, Lone, Kinds
  <1>6. Once(all, x)
    BY <1>2, <1>5, HasJoined
  <1> HIDE DEF all
  <1>7. Has(RemoveAt(all, n), x) => Has(all, x)
    BY <1>1, <1>3, HasRemoved
  <1>8. Once(RemoveAt(all, n), x)
    BY <1>1, <1>3, <1>6, HasRemoved
  <1>9. /\ Box("in", c)' = <<>> /\ Box("queue", c)' = RemoveAt(all, n)
        /\ \A j \in Kinds, r \in Processes :
             (j # "in" \/ r # c) /\ (j # "queue" \/ r # c) => Box(j, r)' = Box(j, r)
    BY <1>1, <1>2 DEF Box, Kinds, MailIn
  <1>10. ~Has(Box("in", c)', x) /\ Once(Box("in", c)', x)
    BY <1>9, HasNone
  <1> QED
    BY <1>3, <1>4, <1>7, <1>8, <1>9, <1>10, MovedKeeps DEF Kinds

\* What is put into a box that is no call, or the start of a process.
LEMMA PutShrinks ==
    ASSUME NEW x \in CallIds, MailIn(Honest), NEW k \in Kinds, NEW p \in Processes, NEW msg,
           msg # Call(x),
           \A j \in Kinds, r \in Processes :
             Box(j, r)' = Box(j, r) \/ (j = k /\ r = p /\ Box(j, r)' = Append(Box(j, r), msg))
    PROVE  Shrunk(x)
  <1>1. Box(k, p) \in Seq(Honest)
    BY DEF Box, Kinds, MailIn
  <1>2. /\ Has(Append(Box(k, p), msg), x) => Has(Box(k, p), x)
        /\ Once(Box(k, p), x) => Once(Append(Box(k, p), msg), x)
    BY <1>1, HasPut
  <1> QED
    BY <1>2 DEF Shrunk

LEMMA StartShrinks ==
    ASSUME NEW x \in CallIds, MailIn(Honest), NEW p \in Processes,
           queue' = [queue EXCEPT ![p] = <<NameAcquired(p)>>], UNCHANGED <<in, out>>
    PROVE  Shrunk(x)
  <1>1. ~Has(<<NameAcquired(p)>>, x) /\ Once(<<NameAcquired(p)>>, x)
    BY NotCall DEF Has, Once
  <1>2. ASSUME NEW k \in Kinds, NEW r \in Processes
        PROVE  Box(k, r)' = IF k = "queue" /\ r = p THEN <<NameAcquired(p)>> ELSE Box(k, r)
    BY DEF Box, Kinds, MailIn
  <1> QED
    BY <1>1, <1>2 DEF Shrunk

\* enable_line makes a call that was nowhere.
LEMMA EnableLineKeeps ==
    ASSUME NEW x \in CallIds, CallOnce(x), IInv, NEW c \in Clients, EnableLine(c)
    PROVE  CallOnce(x)'
  <1> DEFINE y == <<c, calls[c] + 1>>
  <1>0. c \in Processes /\ ProcessOK /\ HistoryOK /\ MailIn(Honest)
    BY DEF IInv, Processes
  <1>a. calls \in [Clients -> 0..Calls] /\ calls[c] \in Nat /\ Calls \in Nat
    BY <1>0, EcpAssumption DEF ProcessOK
  <1>b. calls' = [calls EXCEPT ![c] = calls[c] + 1] /\ UNCHANGED <<in, queue, runs>>
    BY DEF EnableLine, history
  <1>c. <<c, calls'[c]>> = y
    BY <1>a, <1>b
  <1>d. out' = [out EXCEPT ![c] = Append(out[c], Call(<<c, calls'[c]>>))]
    BY DEF EnableLine
  <1>1. /\ calls' = [calls EXCEPT ![c] = calls[c] + 1] /\ calls[c] \in Nat
        /\ out' = [out EXCEPT ![c] = Append(out[c], Call(y))]
        /\ UNCHANGED <<in, queue, runs>>
    BY <1>a, <1>b, <1>c, <1>d
  <1>2. y \in CallIds
    <2>1. calls[c] < Calls
      BY DEF EnableLine
    <2>2. calls[c] + 1 \in 1..Calls
      BY <1>a, <2>1
    <2> QED
      BY <2>2 DEF CallIds
  <1>3. x = <<x[1], x[2]>> /\ x[1] \in Clients /\ x[2] \in Nat
    BY EcpAssumption DEF CallIds, EcpAssumption
  <1>4. calls'[x[1]] \in Nat /\ calls[x[1]] \in Nat /\ calls'[x[1]] >= calls[x[1]]
    BY <1>0, <1>1, <1>3, EcpAssumption DEF ProcessOK, EcpAssumption
  <1>5. ASSUME NEW k \in Kinds, NEW r \in Processes
        PROVE  Box(k, r)' = IF k = "out" /\ r = c THEN Append(out[c], Call(y)) ELSE Box(k, r)
    BY <1>0, <1>1 DEF Box, Kinds, MailIn
  <1>6. Box("out", c) = out[c] /\ out[c] \in Seq(Honest)
    BY <1>0 DEF Box, MailIn
  <1> HIDE DEF y
  <1>7. CASE x = y
    <2>1. x[1] = c /\ x[2] = calls[c] + 1 /\ ~(x[2] <= calls[x[1]]) /\ x[2] <= calls'[x[1]]
      BY <1>0, <1>1, <1>7 DEF y, ProcessOK
    <2>2. \A k \in Kinds, r \in Processes : ~Has(Box(k, r), x)
      BY <2>1 DEF CallOnce, Unrun
    <2>3. runs[x] = 0
      BY <1>0, <2>1 DEF CallOnce, HistoryOK
    <2>4. \A k \in Kinds, r \in Processes : Has(Box(k, r)', x) => k = "out" /\ r = c
      BY <1>5, <2>2
    <2>5. Once(Append(out[c], Call(y)), x)
      <3>1. Once(out[c], x) /\ ~Has(out[c], x)
        BY <1>0, <1>6, <2>2 DEF CallOnce, Lone, Kinds
      <3> QED
        BY <1>6, <3>1, HasPut
    <2>6. \A k \in Kinds, r \in Processes : Once(Box(k, r)', x)
      BY <1>5, <2>5 DEF CallOnce, Lone
    <2>7. Lone(x)'
      BY <2>4, <2>6 DEF Lone
    <2>8. Unrun(x)' /\ runs'[x] = 0
      BY <1>1, <2>1, <2>3 DEF Unrun
    <2> QED
      BY <2>7, <2>8 DEF CallOnce
  <1>8. CASE x # y
    <2>1. Call(y) # Call(x)
      BY <1>2, <1>8, NotCall
    <2>2. Shrunk(x)
      <3>1. \A j \in Kinds, r \in Processes :
              Box(j, r)' = Box(j, r) \/ (j = "out" /\ r = c /\ Box(j, r)' = Append(Box(j, r), Call(y)))
        BY <1>5, <1>6
      <3> QED
        BY <1>0, <2>1, <3>1, PutShrinks DEF Kinds
    <2>3. Lone(x)'
      BY <2>2 DEF Lone, CallOnce, Shrunk
    <2>4. Unrun(x)'
      BY <1>1, <1>3, <1>4, <2>2 DEF Unrun, CallOnce, Shrunk
    <2> QED
      BY <1>1, <1>3, <1>4, <2>3, <2>4 DEF CallOnce
  <1> QED
    BY <1>7, <1>8

\* The manager takes a call out of the one place it is in, and runs it.
LEMMA EnablesKeeps ==
    ASSUME NEW x \in CallIds, CallOnce(x), IInv, NEW m \in Managers, ManagerEnables(m)
    PROVE  CallOnce(x)'
  <1>0. m \in Processes /\ ProcessOK /\ HistoryOK /\ MailIn(Honest)
    BY DEF IInv, Processes
  <1>1. PICK y \in CallIds :
          /\ Dispatch(m, Call(y))
          /\ runs' = [runs EXCEPT ![y] = runs[y] + 1]
          /\ out' = [out EXCEPT ![m] = Append(out[m], Return(y))] \/ out' = out
    BY DEF ManagerEnables
  <1>2. in' = in /\ calls' = calls
    BY DEF ManagerEnables
  <1>3. /\ queue' = [queue EXCEPT ![m] = Tail(queue[m])]
        /\ queue[m] \in Seq(Honest) /\ queue[m] # <<>> /\ Head(queue[m]) = Call(y)
    BY <1>0, <1>1 DEF Dispatch, MailIn
  <1>4. out[m] \in Seq(Honest) /\ Return(y) # Call(x)
    BY <1>0, NotCall DEF MailIn
  <1>5. ASSUME NEW k \in Kinds, NEW r \in Processes
        PROVE  \/ k = "queue" /\ r = m /\ Box(k, r)' = Tail(Box(k, r))
               \/ k = "out" /\ r = m /\ Box(k, r)' = Append(Box(k, r), Return(y))
               \/ ~(k = "queue" /\ r = m) /\ Box(k, r)' = Box(k, r)
    BY <1>0, <1>1, <1>2, <1>3 DEF Box, Kinds, MailIn
  <1>6. Box("queue", m) = queue[m] /\ Box("out", m) = out[m]
    BY DEF Box
  <1>7. /\ Has(Tail(queue[m]), x) => Has(queue[m], x)
        /\ Once(queue[m], x) => Once(Tail(queue[m]), x)
    BY <1>3, HasTaken
  <1>8. /\ Has(Append(out[m], Return(y)), x) => Has(out[m], x)
        /\ Once(out[m], x) => Once(Append(out[m], Return(y)), x)
    BY <1>4, HasPut
  <1>9. Shrunk(x)
    BY <1>5, <1>6, <1>7, <1>8 DEF Shrunk
  <1>10. CASE x # y
    <2>1. runs'[x] = runs[x]
      BY <1>0, <1>1, <1>10 DEF HistoryOK
    <2> QED
      BY <1>0, <1>2, <1>9, <2>1, ShrunkKeeps
  <1>11. CASE x = y
    <2>1. Has(queue[m], x) /\ Once(queue[m], x)
      BY <1>0, <1>3, <1>6, <1>11, HasTaken DEF CallOnce, Lone, Kinds
    <2>2. ~Has(Tail(queue[m]), x)
      BY <1>3, <1>11, <2>1, HasTaken
    <2>3. \A k \in Kinds, r \in Processes : Has(Box(k, r), x) => k = "queue" /\ r = m
      BY <1>0, <1>6, <2>1 DEF CallOnce, Lone, Kinds
    <2>4. \A k \in Kinds, r \in Processes : ~Has(Box(k, r)', x)
      BY <1>5, <1>6, <1>8, <2>2, <2>3
    <2>5. runs[x] = 0 /\ x[2] <= calls[x[1]]
      BY <1>0, <1>6, <2>1 DEF CallOnce, Unrun, Kinds
    <2>6. runs'[x] = 1
      BY <1>0, <1>1, <1>11, <2>5 DEF HistoryOK
    <2>7. Lone(x)'
      BY <1>9, <2>4 DEF Lone, CallOnce, Shrunk
    <2> QED
      BY <1>2, <2>4, <2>5, <2>6, <2>7 DEF CallOnce, Unrun
  <1> QED
    BY <1>10, <1>11

\* The bus takes a message from its sender: a call goes to the owner of the
\* name and to no one else.
LEMMA DeliverKeeps ==
    ASSUME NEW x \in CallIds, CallOnce(x), IInv, NEW p \in Processes, Deliver(p)
    PROVE  CallOnce(x)'
  <1> DEFINE msg == Head(out[p])
  <1>0. ProcessOK /\ HistoryOK /\ MailIn(Honest) /\ NamesOK
    BY DEF IInv
  <1>1. /\ out[p] \in Seq(Honest) /\ out[p] # <<>> /\ out' = [out EXCEPT ![p] = Tail(out[p])]
        /\ UNCHANGED <<queue, runs, calls>>
        /\ RouteStatus(p, msg) \/ RouteCall(p, msg) \/ RouteReturn(p, msg)
    BY <1>0 DEF Deliver, MailIn, process, history
  <1>2. /\ Has(Tail(out[p]), x) => Has(out[p], x)
        /\ Once(out[p], x) => Once(Tail(out[p]), x)
        /\ msg = Call(x) => Has(out[p], x)
        /\ Once(out[p], x) /\ msg = Call(x) => ~Has(Tail(out[p]), x)
    BY <1>1, HasTaken
  <1>3. Box("out", p) = out[p] /\ Box("out", p)' = Tail(out[p])
    BY <1>0, <1>1 DEF Box, MailIn
  <1> HIDE DEF msg
  <1>4. CASE msg = Call(x) /\ names # <<>>
    <2>1. RouteCall(p, msg)
      BY <1>1, <1>4, NotCall DEF RouteStatus, RouteReturn
    <2>2. PICK q \in Processes : in' = [in EXCEPT ![q] = Append(in[q], msg)]
      <3>1. Head(names) \in Processes
        BY <1>0, <1>4, Taken DEF NamesOK, Processes
      <3> QED
        BY <1>4, <2>1, <3>1 DEF RouteCall
    <2>3. /\ Box("in", q) = in[q] /\ Box("in", q)' = Append(in[q], msg) /\ in[q] \in Seq(Honest)
          /\ \A j \in Kinds, r \in Processes :
               (j # "out" \/ r # p) /\ (j # "in" \/ r # q) => Box(j, r)' = Box(j, r)
      BY <1>0, <1>1, <2>2 DEF Box, Kinds, MailIn
    <2>4. Has(out[p], x) /\ Once(out[p], x) /\ Once(in[q], x) /\ ~Has(in[q], x)
      BY <1>2, <1>3, <1>4, <2>3 DEF CallOnce, Lone, Kinds
    <2>5. ~Has(Tail(out[p]), x) /\ Once(Tail(out[p]), x) /\ Once(Append(in[q], msg), x)
      BY <1>2, <1>4, <2>3, <2>4, HasPut
    <2> QED
      BY <1>1, <1>3, <2>3, <2>4, <2>5, MovedKeeps DEF Kinds
  <1>5. CASE ~(msg = Call(x) /\ names # <<>>)
    <2>1. ASSUME NEW r \in Processes
          PROVE  in'[r] = in[r] \/ \E n : n # Call(x) /\ in'[r] = Append(in[r], n)
      <3>0. in \in [Processes -> Seq(Honest)]
        BY <1>0 DEF MailIn
      <3>1. CASE RouteStatus(p, msg)
        <4>1. msg # Call(x)
          BY <3>1, NotCall DEF RouteStatus
        <4> QED
          BY <3>0, <3>1, <4>1 DEF RouteStatus
      <3>2. CASE RouteCall(p, msg)
        <4>1. CASE names = <<>>
          <5>1. Error(Id(msg)) # Call(x)
            BY NotCall
          <5>2. in' = [in EXCEPT ![p] = Append(in[p], Error(Id(msg)))]
            BY <3>2, <4>1 DEF RouteCall
          <5> QED
            BY <3>0, <5>1, <5>2
        <4>2. CASE names # <<>>
          <5>1. in' = [in EXCEPT ![Head(names)] = Append(in[Head(names)], msg)] /\ msg # Call(x)
            BY <1>5, <3>2, <4>2 DEF RouteCall
          <5> QED
            BY <3>0, <5>1
        <4> QED
          BY <4>1, <4>2
      <3>3. CASE RouteReturn(p, msg)
        <4>1. msg # Call(x)
          BY <3>3, NotCall DEF RouteReturn
        <4>2. in' = in \/ in' = [in EXCEPT ![msg.by] = Append(in[msg.by], msg)]
          BY <3>3 DEF RouteReturn
        <4> QED
          BY <3>0, <4>1, <4>2
      <3> QED
        BY <1>1, <3>1, <3>2, <3>3
    <2>2. ASSUME NEW r \in Processes
          PROVE  /\ Has(in'[r], x) => Has(in[r], x)
                 /\ Once(in[r], x) => Once(in'[r], x)
      <3>1. CASE in'[r] = in[r]
        BY <3>1
      <3>2. ASSUME NEW n, n # Call(x), in'[r] = Append(in[r], n)
            PROVE  /\ Has(in'[r], x) => Has(in[r], x)
                   /\ Once(in[r], x) => Once(in'[r], x)
        <4>1. in[r] \in Seq(Honest)
          BY <1>0 DEF MailIn
        <4>2. /\ Has(Append(in[r], n), x) => Has(in[r], x)
              /\ Once(in[r], x) => Once(Append(in[r], n), x)
          BY <3>2, <4>1, HasPut
        <4> QED
          BY <3>2, <4>2
      <3> QED
        BY <2>1, <3>1, <3>2
    <2>3. ASSUME NEW k \in Kinds, NEW r \in Processes
          PROVE  \/ k = "out" /\ r = p
                 \/ k = "in" /\ Box(k, r) = in[r] /\ Box(k, r)' = in'[r]
                 \/ Box(k, r)' = Box(k, r)
      BY <1>0, <1>1 DEF Box, Kinds, MailIn
    <2>4. Shrunk(x)
      BY <1>2, <1>3, <2>2, <2>3 DEF Shrunk
    <2> QED
      BY <1>0, <1>1, <2>4, ShrunkKeeps
  <1> QED
    BY <1>4, <1>5

LEMMA NextCallOnce ==
    ASSUME NEW x \in CallIds, CallOnce(x), IInv, [Next]_vars
    PROVE  CallOnce(x)'
  <1>0. ProcessOK /\ HistoryOK /\ MailIn(Honest)
    BY DEF IInv
  <1>1. ASSUME NEW m \in Managers, ManagerStep(m) PROVE CallOnce(x)'
    <2>0. m \in Processes
      BY DEF Processes
    <2>1. CASE ManagerStart(m)
      <3>1. Shrunk(x)
        BY <1>0, <2>0, <2>1, StartShrinks DEF ManagerStart
      <3> QED
        BY <1>0, <2>1, <3>1, ShrunkKeeps DEF ManagerStart, history
    <2>2. CASE ManagerSend(m)
      <3> DEFINE st == Status(m, Loops - left[m] + 1)
      <3>1. out' = [out EXCEPT ![m] = Append(out[m], st)] /\ UNCHANGED <<in, queue, runs, calls>>
        BY <2>2 DEF ManagerSend, history
      <3>2. st # Call(x)
        BY NotCall
      <3> HIDE DEF st
      <3>3. \A j \in Kinds, r \in Processes :
              Box(j, r)' = Box(j, r) \/ (j = "out" /\ r = m /\ Box(j, r)' = Append(Box(j, r), st))
        BY <1>0, <2>0, <3>1 DEF Box, Kinds, MailIn
      <3>4. Shrunk(x)
        BY <1>0, <2>0, <3>2, <3>3, PutShrinks DEF Kinds
      <3> QED
        BY <1>0, <3>1, <3>4, ShrunkKeeps
    <2>3. CASE ManagerReads(m)
      BY <1>0, <2>0, <2>3, ReadKeeps DEF ManagerReads, history
    <2>4. CASE ManagerEnables(m)
      BY <2>4, EnablesKeeps
    <2>5. CASE ManagerIgnores(m)
      <3>1. Shrunk(x)
        BY <1>0, <2>0, <2>5, DispatchShrinks DEF ManagerIgnores
      <3> QED
        BY <1>0, <2>5, <3>1, ShrunkKeeps DEF ManagerIgnores, history
    <2> QED
      BY <1>1, <2>1, <2>2, <2>3, <2>4, <2>5 DEF ManagerStep
  <1>2. ASSUME NEW c \in Clients, ClientStep(c) PROVE CallOnce(x)'
    <2>0. c \in Processes
      BY DEF Processes
    <2>1. CASE ClientStart(c)
      <3>1. Shrunk(x)
        BY <1>0, <2>0, <2>1, StartShrinks DEF ClientStart
      <3> QED
        BY <1>0, <2>1, <3>1, ShrunkKeeps DEF ClientStart, history
    <2>2. CASE EnableLine(c)
      BY <2>2, EnableLineKeeps
    <2>3. CASE Returned(c)
      BY <1>0, <2>0, <2>3, AnsweredKeeps DEF Returned
    <2>4. CASE Refused(c)
      BY <1>0, <2>0, <2>4, AnsweredKeeps DEF Refused, history
    <2>5. CASE TimedOut(c)
      <3>1. UNCHANGED <<in, out, queue, runs, calls>>
        BY <2>5 DEF TimedOut, bus, history
      <3>2. Shrunk(x)
        BY <3>1 DEF Shrunk, Box
      <3> QED
        BY <1>0, <3>1, <3>2, ShrunkKeeps
    <2>6. CASE ClientReads(c)
      BY <1>0, <2>0, <2>6, ReadKeeps DEF ClientReads, history
    <2>7. CASE ClientHears(c)
      <3>1. Shrunk(x)
        BY <1>0, <2>0, <2>7, DispatchShrinks DEF ClientHears
      <3> QED
        BY <1>0, <2>7, <3>1, ShrunkKeeps DEF ClientHears
    <2>8. CASE ClientIgnores(c)
      <3>1. Shrunk(x)
        BY <1>0, <2>0, <2>8, DispatchShrinks DEF ClientIgnores
      <3> QED
        BY <1>0, <2>8, <3>1, ShrunkKeeps DEF ClientIgnores, history
    <2> QED
      BY <1>2, <2>1, <2>2, <2>3, <2>4, <2>5, <2>6, <2>7, <2>8 DEF ClientStep
  <1>3. ASSUME NEW p \in Processes, Deliver(p) PROVE CallOnce(x)'
    BY <1>3, DeliverKeeps
  <1>4. ASSUME NEW p \in Processes, Leave(p) PROVE CallOnce(x)'
    <2>1. /\ in' = [in EXCEPT ![p] = <<>>] /\ queue' = [queue EXCEPT ![p] = <<>>]
          /\ UNCHANGED <<out, runs, calls>>
      BY <1>4 DEF Leave, history
    <2>2. \A j \in Kinds, r \in Processes : Box(j, r)' = Box(j, r) \/ Box(j, r)' = <<>>
      BY <1>0, <2>1 DEF Box, Kinds, MailIn
    <2>3. Shrunk(x)
      BY <2>2, HasNone DEF Shrunk
    <2> QED
      BY <1>0, <2>1, <2>3, ShrunkKeeps
  <1>5. ASSUME NEW y \in CallIds, NEW m \in Managers, Abandoned(y, m) PROVE CallOnce(x)'
    <2>1. UNCHANGED <<out, queue, runs, calls>>
      BY <1>5 DEF Abandoned, process, history
    <2>2. in' = in \/ in' = [in EXCEPT ![y[1]] = Append(in[y[1]], Error(y))]
      BY <1>5 DEF Abandoned
    <2>3. y[1] \in Processes /\ Error(y) # Call(x)
      BY NotCall DEF CallIds, Processes
    <2>4. \A j \in Kinds, r \in Processes :
            Box(j, r)' = Box(j, r) \/ (j = "in" /\ r = y[1] /\ Box(j, r)' = Append(Box(j, r), Error(y)))
      BY <1>0, <2>1, <2>2, <2>3 DEF Box, Kinds, MailIn
    <2>5. Shrunk(x)
      BY <1>0, <2>3, <2>4, PutShrinks DEF Kinds
    <2> QED
      BY <1>0, <2>1, <2>5, ShrunkKeeps
  <1>6. CASE UNCHANGED vars
    <2>1. UNCHANGED <<in, out, queue, runs, calls>>
      BY <1>6 DEF vars, bus, process, history
    <2>2. Shrunk(x)
      BY <2>1 DEF Shrunk, Box
    <2> QED
      BY <1>0, <2>1, <2>2, ShrunkKeeps
  <1> QED
    BY <1>1, <1>2, <1>3, <1>4, <1>5, <1>6 DEF Next, Finished

(* A call enables its line at most once, for any managers, clients, calls  *)
(* and rounds: whichever manager has the name when the call is delivered,  *)
(* and whether or not its caller has given up (ecp.c:150-160).             *)
THEOREM RunsOnce == Spec => []OncePerCall
  <1> DEFINE AllOnce == \A x \in CallIds : CallOnce(x)
  <1>1. Init => AllOnce
    <2> SUFFICES ASSUME Init, NEW x \in CallIds PROVE CallOnce(x)
      OBVIOUS
    <2>1. \A k \in Kinds, p \in Processes : Box(k, p) = <<>>
      BY DEF Init, Box, Kinds
    <2>2. \A k \in Kinds, p \in Processes : ~Has(Box(k, p), x) /\ Once(Box(k, p), x)
      BY <2>1, HasNone
    <2> QED
      BY <2>2 DEF Init, CallOnce, Lone, Unrun
  <1>2. IInv /\ AllOnce /\ [Next]_vars => AllOnce'
    BY NextCallOnce
  <1>3. AllOnce => OncePerCall
    BY DEF CallOnce, OncePerCall
  <1> QED
    BY <1>1, <1>2, <1>3, SpecIInv, PTL DEF Spec

-----------------------------------------------------------------------------
(* Statuses come in order.  What m has sent to c is in three places, one   *)
(* behind the other: out of m, in of c, queue of c.  Each is sorted, what  *)
(* is nearer to c is smaller, and m numbers its next status higher.        *)

Sorted(s, m) ==
  \A i, j \in DOMAIN s : StatusOf(m, s[i]) /\ StatusOf(m, s[j]) /\ i < j => s[i].n < s[j].n
Numbers(s, m) == {s[i].n : i \in {k \in DOMAIN s : StatusOf(m, s[k])}}
Below(A, B) == \A a \in A, b \in B : a < b

\* The number of the last status m has sent.
LastSent(m) == CASE pc[m] = "off" -> 0
                 [] pc[m] = "send" -> Loops - left[m]
                 [] pc[m] = "loop" -> Loops - left[m] + 1
                 [] OTHER -> Loops

OutOK(m) == /\ Sorted(out[m], m)
            /\ \A a \in Numbers(out[m], m) : a <= LastSent(m)
            /\ \A p \in Processes \ {m} : Numbers(out[p], m) = {}

LineOK(c, m) ==
  /\ Sorted(queue[c], m) /\ Sorted(in[c], m)
  /\ Below({heard[c][m]}, Numbers(queue[c], m) \union Numbers(in[c], m) \union Numbers(out[m], m))
  /\ Below(Numbers(queue[c], m), Numbers(in[c], m))
  /\ Below(Numbers(queue[c], m) \union Numbers(in[c], m), Numbers(out[m], m))
  /\ \A a \in {heard[c][m]} \union Numbers(queue[c], m) \union Numbers(in[c], m) : a <= LastSent(m)

LinesOK == \A m \in Managers : OutOK(m) /\ \A c \in Clients : LineOK(c, m)

\* The sequences once more.
LEMMA NumbersNat ==
    ASSUME NEW s \in Seq(Honest), NEW m
    PROVE  Numbers(s, m) \subseteq Nat
  BY EcpAssumption DEF Numbers, Honest, Message, StatusOf, EcpAssumption

LEMMA NoNumbers == ASSUME NEW m PROVE Numbers(<<>>, m) = {} /\ Sorted(<<>>, m)
  BY DEF Numbers, Sorted

LEMMA NumbersPut ==
    ASSUME NEW S, NEW s \in Seq(S), NEW msg, NEW m
    PROVE  /\ Numbers(Append(s, msg), m)
                = Numbers(s, m) \union IF StatusOf(m, msg) THEN {msg.n} ELSE {}
           /\ Sorted(s, m) /\ (StatusOf(m, msg) => Below(Numbers(s, m), {msg.n}))
                => Sorted(Append(s, msg), m)
  <1> DEFINE t == Append(s, msg)
  <1>1. /\ DOMAIN t = 1 .. Len(s) + 1 /\ DOMAIN s = 1 .. Len(s) /\ Len(s) \in Nat
        /\ \A n \in 1 .. Len(s) : t[n] = s[n]
        /\ t[Len(s) + 1] = msg
    OBVIOUS
  <1> HIDE DEF t
  <1>2. Numbers(t, m) = Numbers(s, m) \union IF StatusOf(m, msg) THEN {msg.n} ELSE {}
    BY <1>1 DEF Numbers
  <1>3. ASSUME Sorted(s, m), StatusOf(m, msg) => Below(Numbers(s, m), {msg.n}) PROVE Sorted(t, m)
    <2> SUFFICES ASSUME NEW i \in DOMAIN t, NEW j \in DOMAIN t,
                        StatusOf(m, t[i]), StatusOf(m, t[j]), i < j
                 PROVE  t[i].n < t[j].n
      BY DEF Sorted
    <2>1. i \in DOMAIN s /\ t[i] = s[i] /\ s[i].n \in Numbers(s, m)
      BY <1>1 DEF Numbers
    <2>2. CASE j \in DOMAIN s
      BY <1>1, <1>3, <2>1, <2>2 DEF Sorted
    <2>3. CASE j \notin DOMAIN s
      BY <1>1, <1>3, <2>1, <2>3 DEF Below
    <2> QED
      BY <2>2, <2>3
  <1> QED
    BY <1>2, <1>3 DEF t

LEMMA NumbersTaken ==
    ASSUME NEW S, NEW s \in Seq(S), s # <<>>, NEW m
    PROVE  /\ Numbers(Tail(s), m) \subseteq Numbers(s, m)
           /\ Sorted(s, m) => Sorted(Tail(s), m)
           /\ StatusOf(m, Head(s)) => Head(s).n \in Numbers(s, m)
           /\ Sorted(s, m) /\ StatusOf(m, Head(s)) => Below({Head(s).n}, Numbers(Tail(s), m))
  <1> DEFINE t == Tail(s)
             h == Head(s)
  <1>1. /\ DOMAIN t = 1 .. Len(s) - 1 /\ DOMAIN s = 1 .. Len(s) /\ Len(s) \in Nat \ {0}
        /\ \A n \in 1 .. Len(s) - 1 : t[n] = s[n + 1]
        /\ h = s[1]
    OBVIOUS
  <1> HIDE DEF t, h
  <1>2. \A n \in DOMAIN t : n + 1 \in DOMAIN s /\ t[n] = s[n + 1] /\ 1 < n + 1 /\ 1 \in DOMAIN s
    BY <1>1
  <1>3. Numbers(t, m) \subseteq Numbers(s, m)
    BY <1>2 DEF Numbers
  <1>4. StatusOf(m, h) => h.n \in Numbers(s, m)
    BY <1>1 DEF Numbers
  <1>5. ASSUME Sorted(s, m) PROVE Sorted(t, m)
    <2> SUFFICES ASSUME NEW i \in DOMAIN t, NEW j \in DOMAIN t,
                        StatusOf(m, t[i]), StatusOf(m, t[j]), i < j
                 PROVE  t[i].n < t[j].n
      BY DEF Sorted
    <2>1. i + 1 < j + 1
      BY <1>1
    <2> QED
      BY <1>2, <1>5, <2>1 DEF Sorted
  <1>6. ASSUME Sorted(s, m), StatusOf(m, h) PROVE Below({h.n}, Numbers(t, m))
    BY <1>1, <1>2, <1>6 DEF Below, Numbers, Sorted
  <1> QED
    BY <1>3, <1>4, <1>5, <1>6 DEF t, h

LEMMA NumbersJoined ==
    ASSUME NEW S, NEW s \in Seq(S), NEW t \in Seq(S), NEW m
    PROVE  /\ Numbers(s \o t, m) \subseteq Numbers(s, m) \union Numbers(t, m)
           /\ Sorted(s, m) /\ Sorted(t, m) /\ Below(Numbers(s, m), Numbers(t, m)) => Sorted(s \o t, m)
  <1> DEFINE u == s \o t
  <1>1. /\ DOMAIN u = 1 .. Len(s) + Len(t) /\ DOMAIN s = 1 .. Len(s) /\ DOMAIN t = 1 .. Len(t)
        /\ Len(s) \in Nat /\ Len(t) \in Nat
        /\ \A n \in DOMAIN u : u[n] = IF n <= Len(s) THEN s[n] ELSE t[n - Len(s)]
    BY JoinedAt
  <1> HIDE DEF u
  <1>2. \A n \in DOMAIN u : \/ n <= Len(s) /\ n \in DOMAIN s /\ u[n] = s[n]
                            \/ n > Len(s) /\ n - Len(s) \in DOMAIN t /\ u[n] = t[n - Len(s)]
    BY <1>1
  <1>3. Numbers(u, m) \subseteq Numbers(s, m) \union Numbers(t, m)
    BY <1>2 DEF Numbers
  <1>4. ASSUME Sorted(s, m), Sorted(t, m), Below(Numbers(s, m), Numbers(t, m)) PROVE Sorted(u, m)
    <2> SUFFICES ASSUME NEW i \in DOMAIN u, NEW j \in DOMAIN u,
                        StatusOf(m, u[i]), StatusOf(m, u[j]), i < j
                 PROVE  u[i].n < u[j].n
      BY DEF Sorted
    <2>0. i \in Nat /\ j \in Nat /\ Len(s) \in Nat
      BY <1>1
    <2>1. CASE j <= Len(s)
      <3>1. i \in DOMAIN s /\ u[i] = s[i] /\ j \in DOMAIN s /\ u[j] = s[j]
        BY <1>2, <2>0, <2>1
      <3> QED
        BY <1>4, <3>1 DEF Sorted
    <2>2. CASE i <= Len(s) /\ j > Len(s)
      <3>1. i \in DOMAIN s /\ u[i] = s[i] /\ j - Len(s) \in DOMAIN t /\ u[j] = t[j - Len(s)]
        BY <1>2, <2>0, <2>2
      <3>2. u[i].n \in Numbers(s, m) /\ u[j].n \in Numbers(t, m)
        BY <3>1 DEF Numbers
      <3> QED
        BY <1>4, <3>2 DEF Below
    <2>3. CASE i > Len(s)
      <3>1. /\ i - Len(s) \in DOMAIN t /\ u[i] = t[i - Len(s)]
            /\ j - Len(s) \in DOMAIN t /\ u[j] = t[j - Len(s)]
            /\ i - Len(s) < j - Len(s)
        BY <1>2, <2>0, <2>3
      <3> QED
        BY <1>4, <3>1 DEF Sorted
    <2> QED
      BY <2>0, <2>1, <2>2, <2>3
  <1> QED
    BY <1>3, <1>4 DEF u

LEMMA NumbersRemoved ==
    ASSUME NEW S, NEW s \in Seq(S), NEW k \in DOMAIN s, NEW m
    PROVE  /\ Numbers(RemoveAt(s, k), m) \subseteq Numbers(s, m)
           /\ Sorted(s, m) => Sorted(RemoveAt(s, k), m)
  <1> DEFINE t == RemoveAt(s, k)
             f(n) == IF n < k THEN n ELSE n + 1
  <1>1. /\ DOMAIN t = 1 .. Len(s) - 1 /\ DOMAIN s = 1 .. Len(s) /\ Len(s) \in Nat \ {0}
        /\ \A n \in DOMAIN t : t[n] = IF n < k THEN s[n] ELSE s[n + 1]
    BY RemovedAt
  <1> HIDE DEF t
  <1>2. /\ \A n \in DOMAIN t : f(n) \in DOMAIN s /\ t[n] = s[f(n)]
        /\ \A i, j \in DOMAIN t : i < j => f(i) < f(j)
    BY <1>1
  <1> HIDE DEF f
  <1>3. Numbers(t, m) \subseteq Numbers(s, m)
    BY <1>2 DEF Numbers
  <1>4. ASSUME Sorted(s, m) PROVE Sorted(t, m)
    BY <1>2, <1>4 DEF Sorted
  <1> QED
    BY <1>3, <1>4 DEF t

\* What the numbers are, and which messages have none.
LEMMA BoxNumbers ==
    ASSUME IInv, NEW m, NEW p \in Processes
    PROVE  /\ out[p] \in Seq(Honest) /\ in[p] \in Seq(Honest) /\ queue[p] \in Seq(Honest)
           /\ Numbers(out[p], m) \subseteq Nat /\ Numbers(in[p], m) \subseteq Nat
           /\ Numbers(queue[p], m) \subseteq Nat
  <1>1. out[p] \in Seq(Honest) /\ in[p] \in Seq(Honest) /\ queue[p] \in Seq(Honest)
    BY DEF IInv, MailIn
  <1> QED
    BY <1>1, NumbersNat

LEMMA NotStatus ==
    /\ \A m, x : ~StatusOf(m, Call(x)) /\ ~StatusOf(m, Return(x)) /\ ~StatusOf(m, Error(x))
    /\ \A m, p : ~StatusOf(m, NameAcquired(p))
    /\ \A m, l, n : StatusOf(m, Status(l, n)) <=> l = m
  BY DEF StatusOf, Call, Return, Error, NameAcquired, Status

LEMMA PutNoStatus ==
    ASSUME NEW S, NEW s \in Seq(S), NEW msg, NEW m, ~StatusOf(m, msg)
    PROVE  /\ Numbers(Append(s, msg), m) = Numbers(s, m)
           /\ Sorted(s, m) => Sorted(Append(s, msg), m)
  <1>1. Numbers(Append(s, msg), m) = Numbers(s, m) \union IF StatusOf(m, msg) THEN {msg.n} ELSE {}
    BY NumbersPut
  <1>2. Numbers(Append(s, msg), m) = Numbers(s, m)
    BY <1>1
  <1>3. Sorted(s, m) => Sorted(Append(s, msg), m)
    BY NumbersPut
  <1> QED
    BY <1>2, <1>3

LEMMA OnlyName == ASSUME NEW m, NEW p PROVE Numbers(<<NameAcquired(p)>>, m) = {} /\ Sorted(<<NameAcquired(p)>>, m)
  BY NotStatus DEF Numbers, Sorted

\* The last number only grows.
LEMMA LastSentNat == ASSUME ProcessOK, NEW m \in Managers PROVE LastSent(m) \in Nat
  BY EcpAssumption DEF LastSent, ProcessOK, Processes, EcpAssumption

LEMMA LastSentRound ==
    ASSUME ProcessOK, NEW m \in Managers, pc[m] = "loop", Round(m, "send")
    PROVE  LastSent(m)' = LastSent(m)
  <1>1. m \in Processes /\ left[m] \in Nat /\ Loops \in Nat
    BY EcpAssumption DEF ProcessOK, Processes, EcpAssumption
  <1>2. pc'[m] = (IF left[m] = 1 THEN "leaving" ELSE "send") /\ left'[m] = left[m] - 1
    BY <1>1 DEF Round, ProcessOK
  <1> QED
    BY <1>1, <1>2 DEF LastSent

LEMMA LastSentSame ==
    ASSUME NEW m, pc'[m] = pc[m], left'[m] = left[m]
    PROVE  LastSent(m)' = LastSent(m)
  BY DEF LastSent

\* What a step keeps in which nothing is put behind what is there, and what
\* is joined stays in its order.
LEMMA CarryOut ==
    ASSUME NEW m \in Managers, OutOK(m), IInv,
           Sorted(out[m], m)', LastSent(m)' \in Nat, LastSent(m)' >= LastSent(m),
           \A p \in Processes : Numbers(out[p], m)' \subseteq Numbers(out[p], m)
    PROVE  OutOK(m)'
  <1>1. \A a \in Numbers(out[m], m) : a \in Nat
    BY BoxNumbers DEF Processes
  <1>2. LastSent(m) \in Nat
    BY LastSentNat DEF IInv
  <1>3. \A a \in Numbers(out[m], m)' : a <= LastSent(m)'
    BY <1>1, <1>2 DEF OutOK, Processes
  <1>4. \A p \in Processes \ {m} : Numbers(out[p], m)' = {}
    BY DEF OutOK
  <1> QED
    BY <1>3, <1>4 DEF OutOK

LEMMA CarryLine ==
    ASSUME NEW m \in Managers, NEW c \in Clients, LineOK(c, m), IInv,
           heard'[c][m] = heard[c][m], LastSent(m)' \in Nat, LastSent(m)' >= LastSent(m),
           Sorted(queue[c], m)', Sorted(in[c], m)',
           Numbers(queue[c], m)' \subseteq Numbers(queue[c], m) \union Numbers(in[c], m),
           Numbers(in[c], m)' \subseteq Numbers(in[c], m),
           Numbers(out[m], m)' \subseteq Numbers(out[m], m),
           Below(Numbers(queue[c], m)', Numbers(in[c], m)')
    PROVE  LineOK(c, m)'
  <1>1. heard[c][m] \in Nat /\ LastSent(m) \in Nat
    BY LastSentNat, EcpAssumption DEF IInv, HistoryOK, EcpAssumption
  <1>2. \A a \in Numbers(queue[c], m) \union Numbers(in[c], m) : a \in Nat
    BY BoxNumbers DEF Processes
  <1>3. \A a \in {heard'[c][m]} \union Numbers(queue[c], m)' \union Numbers(in[c], m)' : a <= LastSent(m)'
    BY <1>1, <1>2 DEF LineOK
  <1>4. Below({heard'[c][m]}, Numbers(queue[c], m)' \union Numbers(in[c], m)' \union Numbers(out[m], m)')
    BY DEF LineOK, Below
  <1>5. Below(Numbers(queue[c], m)' \union Numbers(in[c], m)', Numbers(out[m], m)')
    BY DEF LineOK, Below
  <1> QED
    BY <1>3, <1>4, <1>5 DEF LineOK, Below

\* Nothing with a number of m is put anywhere.
Tame(m) ==
  /\ \A p \in Processes : /\ Numbers(out[p], m)' \subseteq Numbers(out[p], m)
                          /\ Sorted(out[p], m) => Sorted(out[p], m)'
  /\ \A c \in Clients : /\ Numbers(in[c], m)' \subseteq Numbers(in[c], m)
                        /\ Sorted(in[c], m) => Sorted(in[c], m)'
                        /\ Numbers(queue[c], m)' \subseteq Numbers(queue[c], m)
                        /\ Sorted(queue[c], m) => Sorted(queue[c], m)'

LEMMA TameKeeps ==
    ASSUME IInv, LinesOK, heard' = heard,
           \A m \in Managers : Tame(m) /\ LastSent(m)' = LastSent(m)
    PROVE  LinesOK'
  <1> SUFFICES ASSUME NEW m \in Managers PROVE OutOK(m)' /\ \A c \in Clients : LineOK(c, m)'
    BY DEF LinesOK
  <1>1. OutOK(m) /\ m \in Processes
    BY DEF LinesOK, Processes
  <1>2. LastSent(m)' \in Nat /\ LastSent(m)' >= LastSent(m)
    BY LastSentNat DEF IInv
  <1>3. OutOK(m)'
    <2>1. Sorted(out[m], m)'
      BY <1>1 DEF OutOK, Tame
    <2>2. \A p \in Processes : Numbers(out[p], m)' \subseteq Numbers(out[p], m)
      BY DEF Tame
    <2> QED
      BY <1>1, <1>2, <2>1, <2>2, CarryOut
  <1>4. ASSUME NEW c \in Clients PROVE LineOK(c, m)'
    <2>1. LineOK(c, m)
      BY DEF LinesOK
    <2>2. /\ Sorted(queue[c], m)' /\ Sorted(in[c], m)'
          /\ Numbers(queue[c], m)' \subseteq Numbers(queue[c], m)
          /\ Numbers(in[c], m)' \subseteq Numbers(in[c], m)
          /\ Numbers(out[m], m)' \subseteq Numbers(out[m], m)
      BY <1>1, <2>1 DEF LineOK, Tame
    <2>3. Below(Numbers(queue[c], m)', Numbers(in[c], m)')
      BY <2>1, <2>2 DEF LineOK, Below
    <2> QED
      BY <1>2, <2>1, <2>2, <2>3, CarryLine
  <1> QED
    BY <1>3, <1>4

\* Putting a message that is no status into one box, and boxes emptied, are
\* tame.
LEMMA TamePut ==
    ASSUME IInv, NEW m,
           \A p \in Processes :
             /\ out'[p] = out[p] \/ \E msg : ~StatusOf(m, msg) /\ out'[p] = Append(out[p], msg)
             /\ p \in Clients => \/ in'[p] = in[p] \/ in'[p] = <<>>
                                 \/ \E msg : ~StatusOf(m, msg) /\ in'[p] = Append(in[p], msg)
             /\ p \in Clients => queue'[p] = queue[p] \/ queue'[p] = <<>>
    PROVE  Tame(m)
  <1>1. ASSUME NEW p \in Processes
        PROVE  Numbers(out[p], m)' \subseteq Numbers(out[p], m) /\ (Sorted(out[p], m) => Sorted(out[p], m)')
    <2>1. CASE out'[p] = out[p]
      BY <2>1
    <2>2. ASSUME NEW msg, ~StatusOf(m, msg), out'[p] = Append(out[p], msg)
          PROVE  Numbers(out'[p], m) = Numbers(out[p], m) /\ (Sorted(out[p], m) => Sorted(out'[p], m))
      BY <2>2, BoxNumbers, PutNoStatus
    <2> QED
      BY <2>1, <2>2
  <1>2. ASSUME NEW c \in Clients
        PROVE  Numbers(in[c], m)' \subseteq Numbers(in[c], m) /\ (Sorted(in[c], m) => Sorted(in[c], m)')
    <2>0. c \in Processes
      BY DEF Processes
    <2>1. CASE in'[c] = in[c] \/ in'[c] = <<>>
      BY <2>1, NoNumbers
    <2>2. ASSUME NEW msg, ~StatusOf(m, msg), in'[c] = Append(in[c], msg)
          PROVE  Numbers(in'[c], m) = Numbers(in[c], m) /\ (Sorted(in[c], m) => Sorted(in'[c], m))
      BY <2>0, <2>2, BoxNumbers, PutNoStatus
    <2> QED
      BY <2>0, <2>1, <2>2
  <1>3. ASSUME NEW c \in Clients
        PROVE  Numbers(queue[c], m)' \subseteq Numbers(queue[c], m) /\ (Sorted(queue[c], m) => Sorted(queue[c], m)')
    <2>1. queue'[c] = queue[c] \/ queue'[c] = <<>>
      BY DEF Processes
    <2> QED
      BY <2>1, NoNumbers
  <1> QED
    BY <1>1, <1>2, <1>3 DEF Tame

LEMMA ManagerLines ==
    ASSUME IInv, LinesOK, NEW l \in Managers,
           ManagerStart(l) \/ ManagerReads(l) \/ ManagerEnables(l) \/ ManagerIgnores(l)
    PROVE  LinesOK'
  <1>0. /\ l \in Processes /\ l \notin Clients /\ ProcessOK
        /\ out \in [Processes -> Seq(Honest)] /\ in \in [Processes -> Seq(Honest)]
        /\ queue \in [Processes -> Seq(Honest)]
    BY EcpAssumption DEF Processes, IInv, MailIn, EcpAssumption
  <1>1. heard' = heard
    BY DEF ManagerStart, ManagerReads, ManagerEnables, ManagerIgnores, history
  <1>2. /\ \A c \in Clients : in'[c] = in[c] /\ queue'[c] = queue[c]
        /\ out' = out \/ \E x \in CallIds : out' = [out EXCEPT ![l] = Append(out[l], Return(x))]
    BY <1>0 DEF ManagerStart, ManagerReads, ManagerEnables, ManagerIgnores, Read, Dispatch, Processes
  <1>3. ASSUME NEW m \in Managers PROVE Tame(m)
    <2>1. \A p \in Processes :
            out'[p] = out[p] \/ \E msg : ~StatusOf(m, msg) /\ out'[p] = Append(out[p], msg)
      <3>1. ASSUME NEW x \in CallIds, out' = [out EXCEPT ![l] = Append(out[l], Return(x))],
                   NEW p \in Processes
            PROVE  out'[p] = out[p] \/ out'[p] = Append(out[p], Return(x))
        BY <1>0, <3>1
      <3>2. \A x : ~StatusOf(m, Return(x))
        BY NotStatus
      <3>3. CASE out' = out
        BY <3>3
      <3> QED
        BY <1>2, <3>1, <3>2, <3>3
    <2> QED
      BY <1>2, <2>1, TamePut
  <1>4. ASSUME NEW m \in Managers PROVE LastSent(m)' = LastSent(m)
    <2>1. CASE m # l
      <3>0. pc \in [Processes -> {"off", "send", "loop", "idle", "waiting", "leaving", "gone"}]
            /\ left \in [Processes -> Nat] /\ m \in Processes
        BY <1>0 DEF ProcessOK, Processes
      <3>1. pc'[m] = pc[m] /\ left'[m] = left[m]
        BY <2>1, <3>0 DEF ManagerStart, ManagerReads, ManagerEnables, ManagerIgnores, Round
      <3> QED
        BY <3>1, LastSentSame
    <2>2. CASE m = l /\ ManagerStart(l)
      <3>1. pc[m] = "off" /\ pc'[m] = "send" /\ left'[m] = Loops
        BY <1>0, <2>2 DEF ManagerStart, ProcessOK
      <3>2. Loops - Loops = 0
        BY EcpAssumption
      <3> QED
        BY <3>1, <3>2 DEF LastSent
    <2>3. CASE m = l /\ ~ManagerStart(l)
      BY <1>0, <2>3, LastSentRound DEF ManagerReads, ManagerEnables, ManagerIgnores
    <2> QED
      BY <2>1, <2>2, <2>3
  <1> QED
    BY <1>1, <1>3, <1>4, TameKeeps

\* The manager sends a status with a number of its own.
LEMMA SendLines ==
    ASSUME IInv, LinesOK, NEW l \in Managers, ManagerSend(l)
    PROVE  LinesOK'
  <1> DEFINE k == Loops - left[l] + 1
             st == Status(l, k)
  <1>0. l \in Processes /\ l \notin Clients /\ ProcessOK /\ out \in [Processes -> Seq(Honest)]
    BY EcpAssumption DEF Processes, IInv, MailIn, EcpAssumption
  <1>1. UNCHANGED <<in, queue, heard>> /\ out' = [out EXCEPT ![l] = Append(out[l], st)]
    BY DEF ManagerSend, history
  <1>2. /\ left' = left /\ pc[l] = "send" /\ pc'[l] = "loop"
        /\ \A m \in Processes \ {l} : pc'[m] = pc[m]
    BY <1>0 DEF ManagerSend, ProcessOK
  <1>3. /\ LastSent(l) = Loops - left[l] /\ LastSent(l)' = k
        /\ LastSent(l) \in Nat /\ k \in Nat /\ LastSent(l) < k
    <2>1. LastSent(l) = Loops - left[l] /\ LastSent(l)' = k
      BY <1>2 DEF LastSent
    <2>2. LastSent(l) \in Nat
      BY <1>0, LastSentNat
    <2> QED
      BY <2>1, <2>2
  <1>4. st.n = k /\ StatusOf(l, st)
    BY DEF Status, StatusOf
  <1>5. \A m \in Managers \ {l} : ~StatusOf(m, st)
    BY DEF Status, StatusOf
  <1>6. Numbers(out'[l], l) = Numbers(out[l], l) \union {k}
    <2>1. Numbers(Append(out[l], st), l)
            = Numbers(out[l], l) \union IF StatusOf(l, st) THEN {st.n} ELSE {}
      BY <1>0, NumbersPut
    <2> QED
      BY <1>0, <1>1, <1>4, <2>1
  <1> HIDE DEF k, st
  <1>7. \A a \in Numbers(out[l], l) : a < k
    <2>1. \A a \in Numbers(out[l], l) : a <= LastSent(l) /\ a \in Nat
      BY <1>0, BoxNumbers DEF LinesOK, OutOK
    <2> QED
      BY <1>3, <2>1
  <1>8. OutOK(l)'
    <2>1. Sorted(out'[l], l)
      <3>1. Sorted(Append(out[l], st), l)
        BY <1>0, <1>4, <1>7, NumbersPut DEF LinesOK, OutOK, Below
      <3> QED
        BY <1>0, <1>1, <3>1
    <2>2. \A a \in Numbers(out'[l], l) : a <= LastSent(l)'
      <3>1. \A a \in Numbers(out[l], l) : a \in Nat
        BY <1>0, BoxNumbers
      <3> QED
        BY <1>3, <1>6, <1>7, <3>1
    <2>3. \A p \in Processes \ {l} : out'[p] = out[p]
      BY <1>0, <1>1
    <2>4. \A p \in Processes \ {l} : Numbers(out'[p], l) = {}
      BY <2>3 DEF LinesOK, OutOK
    <2> QED
      BY <2>1, <2>2, <2>4 DEF OutOK
  <1>9. ASSUME NEW c \in Clients PROVE LineOK(c, l)'
    <2>1. LineOK(c, l)
      BY DEF LinesOK
    <2>2. heard[c][l] \in Nat
      BY EcpAssumption DEF IInv, HistoryOK, EcpAssumption
    <2>3. \A a \in Numbers(queue[c], l) \union Numbers(in[c], l) : a \in Nat
      BY BoxNumbers DEF Processes
    <2>4. \A a \in {heard[c][l]} \union Numbers(queue[c], l) \union Numbers(in[c], l) : a < k /\ a <= LastSent(l)'
      BY <1>3, <2>1, <2>2, <2>3 DEF LineOK
    <2>5. /\ Below({heard[c][l]}, Numbers(queue[c], l) \union Numbers(in[c], l) \union Numbers(out'[l], l))
          /\ Below(Numbers(queue[c], l) \union Numbers(in[c], l), Numbers(out'[l], l))
      BY <1>6, <2>1, <2>4 DEF LineOK, Below
    <2> QED
      BY <1>1, <2>1, <2>4, <2>5 DEF LineOK
  <1>10. ASSUME NEW m \in Managers, m # l PROVE OutOK(m)' /\ \A c \in Clients : LineOK(c, m)'
    <2>1. LastSent(m)' = LastSent(m)
      BY <1>2, <1>10, LastSentSame DEF Processes
    <2>2. out'[m] = out[m] /\ m \in Processes
      BY <1>0, <1>1, <1>10 DEF Processes
    <2>3. \A p \in Processes : Numbers(out'[p], m) = Numbers(out[p], m)
      <3>1. Numbers(Append(out[l], st), m) = Numbers(out[l], m)
        BY <1>0, <1>5, <1>10, PutNoStatus
      <3> QED
        BY <1>0, <1>1, <3>1
    <2>4. OutOK(m)'
      BY <2>1, <2>2, <2>3 DEF LinesOK, OutOK
    <2>5. \A c \in Clients : LineOK(c, m)'
      BY <1>1, <2>1, <2>2 DEF LinesOK, LineOK
    <2> QED
      BY <2>4, <2>5
  <1> QED
    BY <1>8, <1>9, <1>10 DEF LinesOK

\* A step of a client leaves the managers where they are.
LEMMA ClientSent ==
    ASSUME IInv, NEW c \in Clients, ClientStep(c), NEW m \in Managers
    PROVE  LastSent(m)' = LastSent(m)
  <1>0. /\ c \in Processes /\ m # c /\ m \in Processes
        /\ pc \in [Processes -> {"off", "send", "loop", "idle", "waiting", "leaving", "gone"}]
        /\ left \in [Processes -> Nat]
    BY EcpAssumption DEF Processes, IInv, ProcessOK, EcpAssumption
  <1>1. pc'[m] = pc[m] /\ left'[m] = left[m]
    BY <1>0 DEF ClientStep, ClientStart, EnableLine, Returned, Refused, TimedOut, ClientReads,
       ClientHears, ClientIgnores, Round, Failed
  <1> QED
    BY <1>1, LastSentSame

\* What joins queue and in of a client, in their order, with or without the
\* loss of a message that is no status.
LEMMA JoinLines ==
    ASSUME IInv, LinesOK, NEW c \in Clients, heard' = heard, out' = out,
           \A m \in Managers : LastSent(m)' = LastSent(m),
           NEW s, queue' = [queue EXCEPT ![c] = s], in' = [in EXCEPT ![c] = <<>>],
           \A m \in Managers :
             /\ Numbers(s, m) \subseteq Numbers(queue[c], m) \union Numbers(in[c], m)
             /\ Sorted(s, m)
    PROVE  LinesOK'
  <1>0. c \in Processes /\ in \in [Processes -> Seq(Honest)] /\ queue \in [Processes -> Seq(Honest)]
    BY DEF Processes, IInv, MailIn
  <1> SUFFICES ASSUME NEW m \in Managers PROVE OutOK(m)' /\ \A d \in Clients : LineOK(d, m)'
    BY DEF LinesOK
  <1>1. OutOK(m)'
    BY DEF LinesOK, OutOK
  <1>2. \A d \in Clients \ {c} : queue'[d] = queue[d] /\ in'[d] = in[d]
    BY <1>0 DEF Processes
  <1>3. \A d \in Clients \ {c} : LineOK(d, m)'
    BY <1>2 DEF LinesOK, LineOK
  <1>4. queue'[c] = s /\ in'[c] = <<>>
    BY <1>0
  <1>5. Numbers(in'[c], m) = {} /\ Sorted(in'[c], m)
    BY <1>4, NoNumbers
  <1>6. LineOK(c, m) /\ LastSent(m) \in Nat
    BY LastSentNat DEF LinesOK, IInv
  <1>7. LastSent(m)' \in Nat /\ LastSent(m)' >= LastSent(m)
    BY <1>6
  <1>8. Below(Numbers(queue'[c], m), Numbers(in'[c], m))
    BY <1>5 DEF Below
  <1>9. /\ Sorted(queue'[c], m)
        /\ Numbers(queue'[c], m) \subseteq Numbers(queue[c], m) \union Numbers(in[c], m)
    BY <1>4
  <1>10. LineOK(c, m)'
    BY <1>5, <1>6, <1>7, <1>8, <1>9, CarryLine
  <1> QED
    BY <1>1, <1>3, <1>10

LEMMA AnsweredLines ==
    ASSUME IInv, LinesOK, NEW c \in Clients, Returned(c) \/ Refused(c)
    PROVE  LinesOK'
  <1> DEFINE all == queue[c] \o in[c]
  <1>0. c \in Processes
    BY DEF Processes
  <1>1. PICK msg : Answered(c, msg)
    BY DEF Returned, Refused
  <1>2. PICK n \in DOMAIN all : queue' = [queue EXCEPT ![c] = RemoveAt(all, n)]
    BY <1>1 DEF Answered
  <1>3. in' = [in EXCEPT ![c] = <<>>] /\ out' = out /\ heard' = heard
    BY <1>1 DEF Answered, Returned, Refused, history
  <1>4. queue[c] \in Seq(Honest) /\ in[c] \in Seq(Honest) /\ all \in Seq(Honest)
    BY <1>0, BoxNumbers, Joined
  <1>5. ASSUME NEW m \in Managers
        PROVE  /\ Numbers(RemoveAt(all, n), m) \subseteq Numbers(queue[c], m) \union Numbers(in[c], m)
               /\ Sorted(RemoveAt(all, n), m)
    <2>1. /\ Numbers(all, m) \subseteq Numbers(queue[c], m) \union Numbers(in[c], m)
          /\ Sorted(all, m)
      BY <1>4, NumbersJoined DEF LinesOK, LineOK
    <2> HIDE DEF all
    <2>2. /\ Numbers(RemoveAt(all, n), m) \subseteq Numbers(all, m)
          /\ Sorted(RemoveAt(all, n), m)
      BY <1>2, <1>4, <2>1, NumbersRemoved
    <2> QED
      BY <2>1, <2>2
  <1>6. \A m \in Managers : LastSent(m)' = LastSent(m)
    BY ClientSent DEF ClientStep
  <1> HIDE DEF all
  <1> QED
    BY <1>2, <1>3, <1>5, <1>6, JoinLines

LEMMA ReadsLines ==
    ASSUME IInv, LinesOK, NEW c \in Clients, ClientReads(c)
    PROVE  LinesOK'
  <1>1. /\ queue' = [queue EXCEPT ![c] = in[c]] /\ in' = [in EXCEPT ![c] = <<>>]
        /\ out' = out /\ heard' = heard
    BY DEF ClientReads, Read, history
  <1>2. \A m \in Managers : Sorted(in[c], m)
    BY DEF LinesOK, LineOK
  <1>3. \A m \in Managers : LastSent(m)' = LastSent(m)
    BY ClientSent DEF ClientStep
  <1> QED
    BY <1>1, <1>2, <1>3, JoinLines

\* A message is taken out of the queue: a status that is heard is the lowest.
LEMMA TakenLines ==
    ASSUME IInv, LinesOK, NEW c \in Clients, NEW msg, Dispatch(c, msg),
           out' = out, in' = in, \A m \in Managers : LastSent(m)' = LastSent(m),
           \A d \in Clients, m \in Managers :
             heard'[d][m] = IF d = c /\ StatusOf(m, msg) THEN msg.n ELSE heard[d][m]
    PROVE  LinesOK'
  <1> SUFFICES ASSUME NEW m \in Managers PROVE OutOK(m)' /\ \A d \in Clients : LineOK(d, m)'
    BY DEF LinesOK
  <1>0. c \in Processes /\ queue \in [Processes -> Seq(Honest)]
    BY DEF Processes, IInv, MailIn
  <1>1. OutOK(m)'
    BY DEF LinesOK, OutOK
  <1>2. \A d \in Clients \ {c} : queue'[d] = queue[d] /\ in'[d] = in[d]
    BY <1>0 DEF Processes, Dispatch
  <1>3. \A d \in Clients \ {c} : LineOK(d, m)'
    BY <1>2 DEF LinesOK, LineOK
  <1>4. queue'[c] = Tail(queue[c]) /\ queue[c] # <<>> /\ msg = Head(queue[c]) /\ queue[c] \in Seq(Honest)
    BY <1>0 DEF Dispatch
  <1>5. LineOK(c, m)
    BY DEF LinesOK
  <1>6. /\ Numbers(queue'[c], m) \subseteq Numbers(queue[c], m)
        /\ Sorted(queue'[c], m)
        /\ StatusOf(m, msg) => msg.n \in Numbers(queue[c], m)
        /\ StatusOf(m, msg) => Below({msg.n}, Numbers(queue'[c], m))
    BY <1>4, <1>5, NumbersTaken DEF LineOK
  <1>7. heard'[c][m] \in {heard[c][m]} \union Numbers(queue[c], m)
    BY <1>6
  <1>8. Below({heard'[c][m]}, Numbers(queue'[c], m) \union Numbers(in[c], m) \union Numbers(out[m], m))
    BY <1>5, <1>6 DEF LineOK, Below
  <1>9. /\ Below(Numbers(queue'[c], m), Numbers(in[c], m))
        /\ Below(Numbers(queue'[c], m) \union Numbers(in[c], m), Numbers(out[m], m))
    BY <1>5, <1>6 DEF LineOK, Below
  <1>10. \A a \in {heard'[c][m]} \union Numbers(queue'[c], m) \union Numbers(in[c], m) : a <= LastSent(m)'
    BY <1>5, <1>6, <1>7 DEF LineOK
  <1>11. LineOK(c, m)'
    BY <1>5, <1>6, <1>8, <1>9, <1>10 DEF LineOK
  <1> QED
    BY <1>1, <1>3, <1>11

LEMMA ClientLines ==
    ASSUME IInv, LinesOK, NEW c \in Clients, ClientStep(c)
    PROVE  LinesOK'
  <1>0. /\ c \in Processes /\ out \in [Processes -> Seq(Honest)] /\ in \in [Processes -> Seq(Honest)]
        /\ queue \in [Processes -> Seq(Honest)]
        /\ heard \in [Clients -> [Managers -> 0..Loops]]
    BY DEF Processes, IInv, MailIn, HistoryOK
  <1>s. \A m \in Managers : LastSent(m)' = LastSent(m)
    BY ClientSent
  <1>1. CASE ClientStart(c)
    <2>1. /\ in' = in /\ out' = out /\ heard' = heard
          /\ queue' = [queue EXCEPT ![c] = <<NameAcquired(c)>>]
      BY <1>1 DEF ClientStart, history
    <2>2. ASSUME NEW m \in Managers PROVE Tame(m)
      <3>1. ASSUME NEW d \in Clients
            PROVE  /\ Numbers(queue'[d], m) \subseteq Numbers(queue[d], m)
                   /\ Sorted(queue[d], m) => Sorted(queue'[d], m)
        <4>1. queue'[d] = IF d = c THEN <<NameAcquired(c)>> ELSE queue[d]
          BY <1>0, <2>1 DEF Processes
        <4> QED
          BY <4>1, OnlyName
      <3> QED
        BY <2>1, <3>1 DEF Tame
    <2> QED
      BY <1>s, <2>1, <2>2, TameKeeps
  <1>2. CASE EnableLine(c)
    <2>1. /\ in' = in /\ queue' = queue /\ heard' = heard
          /\ out' = [out EXCEPT ![c] = Append(out[c], Call(<<c, calls'[c]>>))]
      BY <1>2 DEF EnableLine, history
    <2>2. \A p \in Processes : out'[p] = out[p] \/ out'[p] = Append(out[p], Call(<<c, calls'[c]>>))
      BY <1>0, <2>1
    <2>3. \A m \in Managers : Tame(m)
      BY <2>1, <2>2, NotStatus, TamePut
    <2> QED
      BY <1>s, <2>1, <2>3, TameKeeps
  <1>3. CASE Returned(c) \/ Refused(c)
    BY <1>3, AnsweredLines
  <1>4. CASE TimedOut(c)
    <2>1. in' = in /\ queue' = queue /\ heard' = heard /\ out' = out
      BY <1>4 DEF TimedOut, history, bus
    <2>2. \A m \in Managers : Tame(m)
      BY <2>1 DEF Tame
    <2> QED
      BY <1>s, <2>1, <2>2, TameKeeps
  <1>5. CASE ClientReads(c)
    BY <1>5, ReadsLines
  <1>6. CASE ClientHears(c)
    <2>1. PICK l \in Managers, n \in 1..Loops :
            /\ Dispatch(c, Status(l, n))
            /\ heard' = [heard EXCEPT ![c][l] = n]
      BY <1>6 DEF ClientHears
    <2>2. out' = out /\ in' = in
      BY <1>6 DEF ClientHears
    <2>3. Status(l, n).n = n
      BY DEF Status
    <2>4. \A d \in Clients, m \in Managers :
            heard'[d][m] = IF d = c /\ StatusOf(m, Status(l, n)) THEN n ELSE heard[d][m]
      BY <1>0, <2>1, NotStatus
    <2> QED
      BY <1>s, <2>1, <2>2, <2>3, <2>4, TakenLines
  <1>7. CASE ClientIgnores(c)
    <2>1. PICK msg : Dispatch(c, msg) /\ \A m \in Managers : ~StatusOf(m, msg)
      BY <1>7, NotStatus DEF ClientIgnores
    <2>2. out' = out /\ in' = in /\ heard' = heard
      BY <1>7 DEF ClientIgnores, history
    <2> QED
      BY <1>s, <2>1, <2>2, TakenLines
  <1> QED
    BY <1>1, <1>2, <1>3, <1>4, <1>5, <1>6, <1>7 DEF ClientStep

\* The bus takes a message from its sender.
LEMMA DeliverSent ==
    ASSUME NEW p, Deliver(p), NEW m
    PROVE  LastSent(m)' = LastSent(m) /\ heard' = heard /\ queue' = queue
  <1>1. pc' = pc /\ left' = left /\ heard' = heard /\ queue' = queue
    BY DEF Deliver, process, history
  <1> QED
    BY <1>1, LastSentSame

LEMMA StatusLines ==
    ASSUME IInv, LinesOK, NEW p \in Processes, Deliver(p), RouteStatus(p, Head(out[p]))
    PROVE  LinesOK'
  <1> DEFINE msg == Head(out[p])
  <1>0. /\ out \in [Processes -> Seq(Honest)] /\ in \in [Processes -> Seq(Honest)]
        /\ out[p] \in Seq(Honest) /\ out[p] # <<>> /\ msg \in Honest
    BY Taken DEF IInv, MailIn, Deliver
  <1>1. /\ queue' = queue /\ heard' = heard /\ \A m \in Managers : LastSent(m)' = LastSent(m)
    BY DeliverSent
  <1>2. out' = [out EXCEPT ![p] = Tail(out[p])]
    BY DEF Deliver
  <1>3. /\ msg.kind = "status"
        /\ in' = [q \in Processes |-> IF q \in Clients /\ Connected(q) THEN Append(in[q], msg) ELSE in[q]]
    BY DEF RouteStatus
  <1>4. msg.by \in Managers /\ StatusOf(msg.by, msg) /\ \A m : StatusOf(m, msg) => m = msg.by
    BY <1>0, <1>3 DEF Honest, Message, StatusOf
  <1>5. \A m : /\ Numbers(Tail(out[p]), m) \subseteq Numbers(out[p], m)
               /\ Sorted(out[p], m) => Sorted(Tail(out[p]), m)
               /\ StatusOf(m, msg) => msg.n \in Numbers(out[p], m)
               /\ Sorted(out[p], m) /\ StatusOf(m, msg) => Below({msg.n}, Numbers(Tail(out[p]), m))
    BY <1>0, NumbersTaken
  <1> HIDE DEF msg
  <1>6. msg.by = p
    BY <1>4, <1>5 DEF LinesOK, OutOK
  <1> SUFFICES ASSUME NEW m \in Managers PROVE OutOK(m)' /\ \A c \in Clients : LineOK(c, m)'
    BY DEF LinesOK
  <1>7. m \in Processes /\ OutOK(m) /\ LastSent(m) \in Nat
    BY LastSentNat DEF Processes, LinesOK, IInv
  <1>8. \A q \in Processes : out'[q] = IF q = p THEN Tail(out[p]) ELSE out[q]
    BY <1>0, <1>2
  <1>9. \A q \in Processes : Numbers(out'[q], m) \subseteq Numbers(out[q], m)
    BY <1>5, <1>8
  <1>10. Sorted(out'[m], m)
    BY <1>5, <1>7, <1>8 DEF OutOK
  <1>11. LastSent(m)' \in Nat /\ LastSent(m)' >= LastSent(m)
    BY <1>1, <1>7
  <1>12. OutOK(m)'
    BY <1>7, <1>9, <1>10, <1>11, CarryOut
  <1>13. ASSUME NEW c \in Clients PROVE LineOK(c, m)'
    <2>0. c \in Processes /\ in[c] \in Seq(Honest) /\ LineOK(c, m)
      BY <1>0 DEF Processes, LinesOK
    <2>1. in'[c] = Append(in[c], msg) \/ in'[c] = in[c]
      BY <1>3, <2>0
    <2>2. Numbers(out'[m], m) \subseteq Numbers(out[m], m)
      BY <1>7, <1>9
    <2>3. CASE in'[c] = in[c]
      <3>1. Numbers(in'[c], m) \subseteq Numbers(in[c], m) /\ Sorted(in'[c], m)
        BY <2>0, <2>3 DEF LineOK
      <3>2. /\ Numbers(queue'[c], m) \subseteq Numbers(queue[c], m) /\ Sorted(queue'[c], m)
            /\ Below(Numbers(queue'[c], m), Numbers(in'[c], m))
        BY <1>1, <2>0, <2>3 DEF LineOK
      <3> QED
        BY <1>1, <1>11, <2>0, <2>2, <3>1, <3>2, CarryLine
    <2>4. CASE in'[c] = Append(in[c], msg) /\ m # p
      <3>0. ~StatusOf(m, msg)
        BY <1>4, <1>6, <2>4
      <3>1. Numbers(in'[c], m) = Numbers(in[c], m) /\ Sorted(in'[c], m)
        BY <2>0, <2>4, <3>0, PutNoStatus DEF LineOK
      <3>2. /\ Numbers(queue'[c], m) \subseteq Numbers(queue[c], m) /\ Sorted(queue'[c], m)
            /\ Below(Numbers(queue'[c], m), Numbers(in'[c], m))
        BY <1>1, <2>0, <3>1 DEF LineOK
      <3> QED
        BY <1>1, <1>11, <2>0, <2>2, <3>1, <3>2, CarryLine
    <2>5. CASE in'[c] = Append(in[c], msg) /\ m = p
      <3>1. StatusOf(m, msg) /\ msg.n \in Numbers(out[m], m)
        BY <1>4, <1>5, <1>6, <2>5
      <3>2. Below({msg.n}, Numbers(out'[m], m))
        BY <1>5, <1>7, <1>8, <2>5, <3>1 DEF OutOK
      <3>3. /\ Below({heard[c][m]} \union Numbers(queue[c], m) \union Numbers(in[c], m), {msg.n})
            /\ msg.n <= LastSent(m)
        BY <1>7, <2>0, <3>1 DEF LineOK, OutOK, Below
      <3>4. Sorted(in'[c], m)
        <4>1. Below(Numbers(in[c], m), {msg.n})
          BY <3>3 DEF Below
        <4> QED
          BY <2>0, <2>5, <4>1, NumbersPut DEF LineOK
      <3>5. Numbers(in'[c], m) = Numbers(in[c], m) \union {msg.n}
        <4>1. Numbers(Append(in[c], msg), m)
                = Numbers(in[c], m) \union IF StatusOf(m, msg) THEN {msg.n} ELSE {}
          BY <2>0, NumbersPut
        <4> QED
          BY <2>5, <3>1, <4>1
      <3>6. Below({heard[c][m]}, Numbers(queue[c], m) \union Numbers(in'[c], m) \union Numbers(out'[m], m))
        BY <2>0, <2>2, <3>3, <3>5 DEF LineOK, Below
      <3>7. Below(Numbers(queue[c], m), Numbers(in'[c], m))
        BY <2>0, <3>3, <3>5 DEF LineOK, Below
      <3>8. Below(Numbers(queue[c], m) \union Numbers(in'[c], m), Numbers(out'[m], m))
        BY <2>0, <2>2, <3>2, <3>5 DEF LineOK, Below
      <3>9. \A a \in {heard[c][m]} \union Numbers(queue[c], m) \union Numbers(in'[c], m) : a <= LastSent(m)'
        BY <1>1, <2>0, <3>3, <3>5 DEF LineOK
      <3> QED
        BY <1>1, <2>0, <3>4, <3>6, <3>7, <3>8, <3>9 DEF LineOK
    <2> QED
      BY <2>1, <2>3, <2>4, <2>5
  <1> QED
    BY <1>12, <1>13

\* A call, or an answer, is no status.
LEMMA OtherLines ==
    ASSUME IInv, LinesOK, NEW p \in Processes, Deliver(p),
           RouteCall(p, Head(out[p])) \/ RouteReturn(p, Head(out[p]))
    PROVE  LinesOK'
  <1> DEFINE msg == Head(out[p])
  <1>0. /\ out \in [Processes -> Seq(Honest)] /\ in \in [Processes -> Seq(Honest)]
        /\ out[p] \in Seq(Honest) /\ out[p] # <<>>
    BY DEF IInv, MailIn, Deliver
  <1>1. /\ queue' = queue /\ heard' = heard /\ \A m \in Managers : LastSent(m)' = LastSent(m)
    BY DeliverSent
  <1>2. out' = [out EXCEPT ![p] = Tail(out[p])]
    BY DEF Deliver
  <1>3. \A m : ~StatusOf(m, msg) /\ ~StatusOf(m, Error(Id(msg)))
    BY NotStatus DEF RouteCall, RouteReturn, StatusOf
  <1>4. \A m : /\ Numbers(Tail(out[p]), m) \subseteq Numbers(out[p], m)
               /\ Sorted(out[p], m) => Sorted(Tail(out[p]), m)
    BY <1>0, NumbersTaken
  <1>5. RouteCall(p, msg) \/ RouteReturn(p, msg)
    OBVIOUS
  <1> HIDE DEF msg
  <1>6. ASSUME NEW q \in Processes
        PROVE  in'[q] = in[q] \/ \E e \in {msg, Error(Id(msg))} : in'[q] = Append(in[q], e)
    <2>1. CASE RouteCall(p, msg) /\ names = <<>>
      BY <1>0, <2>1 DEF RouteCall
    <2>2. CASE RouteCall(p, msg) /\ names # <<>>
      BY <1>0, <2>2 DEF RouteCall
    <2>3. CASE RouteReturn(p, msg)
      BY <1>0, <2>3 DEF RouteReturn
    <2> QED
      BY <1>5, <2>1, <2>2, <2>3
  <1>7. ASSUME NEW m \in Managers PROVE Tame(m)
    <2>1. \A q \in Processes : out'[q] = IF q = p THEN Tail(out[p]) ELSE out[q]
      BY <1>0, <1>2
    <2>2. \A q \in Processes : /\ Numbers(out'[q], m) \subseteq Numbers(out[q], m)
                               /\ Sorted(out[q], m) => Sorted(out'[q], m)
      BY <1>4, <2>1
    <2>3. ASSUME NEW c \in Clients
          PROVE  Numbers(in'[c], m) \subseteq Numbers(in[c], m) /\ (Sorted(in[c], m) => Sorted(in'[c], m))
      <3>1. c \in Processes /\ in[c] \in Seq(Honest)
        BY <1>0 DEF Processes
      <3>2. ASSUME NEW e, ~StatusOf(m, e), in'[c] = Append(in[c], e)
            PROVE  Numbers(in'[c], m) = Numbers(in[c], m) /\ (Sorted(in[c], m) => Sorted(in'[c], m))
        BY <3>1, <3>2, PutNoStatus
      <3>3. CASE in'[c] = in[c]
        BY <3>3
      <3> QED
        BY <1>3, <1>6, <3>1, <3>2, <3>3
    <2> QED
      BY <1>1, <2>2, <2>3 DEF Tame
  <1> QED
    BY <1>1, <1>7, TameKeeps

LEMMA NextLines == IInv /\ LinesOK /\ [Next]_vars => LinesOK'
  <1> SUFFICES ASSUME IInv, LinesOK, [Next]_vars PROVE LinesOK'
    OBVIOUS
  <1>0. /\ in \in [Processes -> Seq(Honest)] /\ queue \in [Processes -> Seq(Honest)]
        /\ pc \in [Processes -> {"off", "send", "loop", "idle", "waiting", "leaving", "gone"}]
    BY DEF IInv, MailIn, ProcessOK
  <1>1. ASSUME NEW m \in Managers, ManagerStep(m) PROVE LinesOK'
    BY <1>1, ManagerLines, SendLines DEF ManagerStep
  <1>2. ASSUME NEW c \in Clients, ClientStep(c) PROVE LinesOK'
    BY <1>2, ClientLines
  <1>3. ASSUME NEW p \in Processes, Deliver(p) PROVE LinesOK'
    BY <1>3, StatusLines, OtherLines DEF Deliver
  <1>4. ASSUME NEW p \in Processes, Leave(p) PROVE LinesOK'
    <2>1. /\ out' = out /\ heard' = heard /\ left' = left
          /\ pc[p] = "leaving" /\ pc' = [pc EXCEPT ![p] = "gone"]
          /\ in' = [in EXCEPT ![p] = <<>>] /\ queue' = [queue EXCEPT ![p] = <<>>]
      BY <1>4 DEF Leave, history
    <2>2. \A q \in Processes : /\ in'[q] = in[q] \/ in'[q] = <<>>
                               /\ queue'[q] = queue[q] \/ queue'[q] = <<>>
      BY <1>0, <2>1
    <2>3. \A m \in Managers : Tame(m)
      BY <2>1, <2>2, TamePut
    <2>4. ASSUME NEW m \in Managers PROVE LastSent(m)' = LastSent(m)
      <3>0. m \in Processes
        BY DEF Processes
      <3>1. left'[m] = left[m] /\ (pc'[m] = pc[m] \/ (pc[m] = "leaving" /\ pc'[m] = "gone"))
        <4>1. CASE m = p
          BY <1>0, <2>1, <3>0, <4>1
        <4>2. CASE m # p
          BY <1>0, <2>1, <3>0, <4>2
        <4> QED
          BY <4>1, <4>2
      <3> QED
        BY <3>1 DEF LastSent
    <2> QED
      BY <2>1, <2>3, <2>4, TameKeeps
  <1>5. ASSUME NEW x \in CallIds, NEW l \in Managers, Abandoned(x, l) PROVE LinesOK'
    <2>1. out' = out /\ queue' = queue /\ heard' = heard /\ pc' = pc /\ left' = left
      BY <1>5 DEF Abandoned, process, history
    <2>2. in' = in \/ in' = [in EXCEPT ![x[1]] = Append(in[x[1]], Error(x))]
      BY <1>5 DEF Abandoned
    <2>3. \A q \in Processes : in'[q] = in[q] \/ in'[q] = Append(in[q], Error(x))
      BY <1>0, <2>2
    <2>4. \A m \in Managers : Tame(m)
      BY <2>1, <2>3, NotStatus, TamePut
    <2>5. \A m \in Managers : LastSent(m)' = LastSent(m)
      BY <2>1, LastSentSame
    <2> QED
      BY <2>1, <2>4, <2>5, TameKeeps
  <1>6. CASE UNCHANGED vars
    <2>1. out' = out /\ in' = in /\ queue' = queue /\ heard' = heard /\ pc' = pc /\ left' = left
      BY <1>6 DEF vars, bus, process, history
    <2>2. \A m \in Managers : Tame(m) /\ LastSent(m)' = LastSent(m)
      BY <2>1, LastSentSame DEF Tame
    <2> QED
      BY <2>1, <2>2, TameKeeps
  <1> QED
    BY <1>1, <1>2, <1>3, <1>4, <1>5, <1>6 DEF Next, Finished

(* A client is given the statuses of each manager in their order and none  *)
(* twice, whatever it takes out of the queue while it waits for an answer  *)
(* (ecp.c:100, :178).                                                      *)
THEOREM HeardInOrder == Spec => []StatusInOrder
  <1>1. Init => LinesOK
    <2> SUFFICES ASSUME Init, NEW m \in Managers PROVE OutOK(m) /\ \A c \in Clients : LineOK(c, m)
      BY DEF LinesOK
    <2>1. /\ \A p \in Processes : out[p] = <<>> /\ in[p] = <<>> /\ queue[p] = <<>>
          /\ \A c \in Clients : heard[c][m] = 0 /\ c \in Processes
          /\ m \in Processes /\ pc[m] = "off"
      BY DEF Init, Processes
    <2>2. LastSent(m) = 0
      BY <2>1 DEF LastSent
    <2>3. OutOK(m)
      BY <2>1, NoNumbers DEF OutOK
    <2>4. \A c \in Clients : LineOK(c, m)
      BY <2>1, <2>2, NoNumbers DEF LineOK, Below
    <2> QED
      BY <2>3, <2>4
  <1>2. IInv /\ LinesOK => StatusInOrder
    <2> SUFFICES ASSUME IInv, LinesOK, NEW c \in Clients, NEW m \in Managers
                 PROVE  LET s == queue[c] \o in[c]
                        IN \A i \in DOMAIN s : StatusOf(m, s[i]) =>
                             /\ heard[c][m] < s[i].n
                             /\ \A j \in DOMAIN s : i < j /\ StatusOf(m, s[j]) => s[i].n < s[j].n
      BY DEF StatusInOrder
    <2> DEFINE s == queue[c] \o in[c]
    <2>1. queue[c] \in Seq(Honest) /\ in[c] \in Seq(Honest) /\ LineOK(c, m)
      BY BoxNumbers DEF Processes, LinesOK
    <2>2. Sorted(s, m) /\ Numbers(s, m) \subseteq Numbers(queue[c], m) \union Numbers(in[c], m)
      BY <2>1, NumbersJoined DEF LineOK
    <2> HIDE DEF s
    <2>3. \A i \in DOMAIN s : StatusOf(m, s[i]) => heard[c][m] < s[i].n
      BY <2>1, <2>2 DEF LineOK, Below, Numbers
    <2>4. \A i \in DOMAIN s : StatusOf(m, s[i]) =>
            \A j \in DOMAIN s : i < j /\ StatusOf(m, s[j]) => s[i].n < s[j].n
      BY <2>2 DEF Sorted
    <2> QED
      BY <2>3, <2>4 DEF s
  <1> QED
    BY <1>1, <1>2, NextLines, SpecIInv, PTL DEF Spec
=============================================================================
