---------------------------- MODULE HalUartProofs ----------------------------
(***************************************************************************)
(* What TLAPS proves about HalUart, for any tasks, any lengths of the      *)
(* queues and any number of sessions: its type invariant, that no byte is  *)
(* left in the queue with the interrupt off, that the device loses no byte *)
(* but those that k_uart_write_immediate writes over, and that the bytes   *)
(* of a task keep their order.                                             *)
(***************************************************************************)
EXTENDS HalUart, FiniteSetTheorems, TLAPS

-----------------------------------------------------------------------------
(* What is in a sequence, when one is put at its end or taken from its     *)
(* front.                                                                  *)
LEMMA AppendSet ==
    ASSUME NEW S, NEW s \in Seq(S), NEW x \in S
    PROVE  ToSet(Append(s, x)) = ToSet(s) \union {x}
  <1> DEFINE t == Append(s, x)
  <1>1. DOMAIN t = 1 .. Len(s) + 1 /\ DOMAIN s = 1 .. Len(s) /\ Len(s) \in Nat
    OBVIOUS
  <1>2. t[Len(s) + 1] = x /\ \A n \in 1 .. Len(s) : t[n] = s[n]
    OBVIOUS
  <1> HIDE DEF t
  <1> QED
    BY <1>1, <1>2 DEF ToSet

LEMMA HeadTailSet ==
    ASSUME NEW S, NEW s \in Seq(S), s # <<>>
    PROVE  /\ Head(s) \in S /\ Tail(s) \in Seq(S) /\ Len(Tail(s)) = Len(s) - 1
           /\ ToSet(s) = {Head(s)} \union ToSet(Tail(s))
  <1> DEFINE t == Tail(s)
  <1>1. Head(s) \in S /\ t \in Seq(S) /\ Len(t) = Len(s) - 1 /\ Len(s) \in Nat \ {0}
    OBVIOUS
  <1>2. DOMAIN t = 1 .. Len(s) - 1 /\ DOMAIN s = 1 .. Len(s)
    OBVIOUS
  <1>3. Head(s) = s[1] /\ \A n \in 1 .. Len(s) - 1 : t[n] = s[n + 1]
    OBVIOUS
  <1> HIDE DEF t
  <1>4. ASSUME NEW n \in DOMAIN s PROVE s[n] \in {Head(s)} \union ToSet(t)
    <2>1. CASE n = 1
      BY <2>1, <1>3
    <2>2. CASE n # 1
      <3>1. n - 1 \in DOMAIN t /\ t[n - 1] = s[n]
        BY <2>2, <1>1, <1>2, <1>3
      <3> QED
        BY <3>1 DEF ToSet
    <2> QED
      BY <2>1, <2>2
  <1>5. ASSUME NEW n \in DOMAIN t PROVE t[n] \in ToSet(s)
    <2>1. n + 1 \in DOMAIN s /\ s[n + 1] = t[n]
      BY <1>1, <1>2, <1>3
    <2> QED
      BY <2>1 DEF ToSet
  <1>6. Head(s) \in ToSet(s)
    BY <1>1, <1>2, <1>3 DEF ToSet
  <1>7. ToSet(s) = {Head(s)} \union ToSet(t)
    BY <1>4, <1>5, <1>6 DEF ToSet
  <1> QED
    BY <1>1, <1>7 DEF t

LEMMA EmptySet == ToSet(<<>>) = {}
  BY DEF ToSet

-----------------------------------------------------------------------------
(* The type invariant. *)

\* TypeOK, a part for each group of variables.
QueuesOK ==
  /\ tx_queue \in Seq(Bytes) /\ Len(tx_queue) <= TxLength
  /\ rx_queue \in Seq(Bytes) /\ Len(rx_queue) <= RxLength
DeviceOK ==
  /\ txeie \in BOOLEAN /\ err \in BOOLEAN
  /\ txdr \in Cell /\ shift \in Cell /\ rxdr \in Cell
TasksOK ==
  /\ pc \in [Tasks -> {"idle", "push", "enable", "spin"}]
  /\ left \in [Tasks -> 0..NumBytes]
  /\ next \in [Tasks -> 1..NumBytes + 1]
  /\ \A k \in Tasks : next[k] + left[k] <= NumBytes + 1
  /\ \A k \in Tasks : pc[k] = "push" => left[k] > 0
  /\ \A k \in Tasks : pc[k] \in {"idle", "spin"} => left[k] = 0
HistoryOK == gone \subseteq Bytes /\ heard \in [Tasks -> 0..NumBytes]
SessionOK ==
  /\ session \in 0..Sessions /\ on \in BOOLEAN
  /\ ~on => tx_queue = <<>> /\ rx_queue = <<>> /\ Quiet

LEMMA TypeParts ==
    TypeOK <=> QueuesOK /\ DeviceOK /\ TasksOK /\ HistoryOK /\ SessionOK
  BY DEF TypeOK, QueuesOK, DeviceOK, TasksOK, HistoryOK, SessionOK

LEMMA EmptyQueue == <<>> \in Seq(Bytes) /\ Len(<<>>) = 0
  OBVIOUS

LEMMA InitTypeOK == Init => TypeOK
  <1> SUFFICES ASSUME Init PROVE TypeOK
    OBVIOUS
  <1> USE UartAssumption DEF UartAssumption, Init
  <1>1. QueuesOK
    BY EmptyQueue DEF QueuesOK
  <1>4. DeviceOK
    BY DEF DeviceOK, Cell
  <1>2. TasksOK
    BY DEF TasksOK
  <1>3. HistoryOK
    BY DEF HistoryOK
  <1>5. SessionOK
    <2>1. \A k \in Tasks : pc[k] = "idle"
      OBVIOUS
    <2>2. session = 0 /\ on = FALSE /\ tx_queue = <<>> /\ rx_queue = <<>>
      OBVIOUS
    <2> HIDE DEF Init
    <2>3. session \in 0..Sessions
      <3>1. Sessions \in Nat
        OBVIOUS
      <3> QED
        BY <2>2, <3>1
    <2> QED
      BY <2>1, <2>2, <2>3, Zenon DEF SessionOK, Quiet
  <1> QED
    BY <1>1, <1>2, <1>3, <1>4, <1>5, TypeParts

(* A queue that is only taken from, or that is put to while it has room.   *)
LEMMA QueueBounds ==
    ASSUME NEW s \in Seq(Bytes), NEW L \in Nat, Len(s) <= L
    PROVE  /\ s # <<>> => /\ Head(s) \in Bytes
                          /\ Tail(s) \in Seq(Bytes) /\ Len(Tail(s)) <= L
           /\ \A b \in Bytes : Len(s) # L =>
                Append(s, b) \in Seq(Bytes) /\ Len(Append(s, b)) <= L
  <1>1. s # <<>> => Head(s) \in Bytes /\ Tail(s) \in Seq(Bytes) /\ Len(Tail(s)) = Len(s) - 1
    BY HeadTailSet
  <1>2. \A b \in Bytes : Append(s, b) \in Seq(Bytes) /\ Len(Append(s, b)) = Len(s) + 1
    OBVIOUS
  <1>3. Len(s) \in Nat
    OBVIOUS
  <1> HIDE DEF Bytes
  <1> QED
    BY <1>1, <1>2, <1>3

LEMMA NextTypeOK == TypeOK /\ [Next]_vars => TypeOK'
  <1> SUFFICES ASSUME QueuesOK, DeviceOK, TasksOK, HistoryOK, SessionOK, [Next]_vars
               PROVE  QueuesOK' /\ DeviceOK' /\ TasksOK' /\ HistoryOK' /\ SessionOK'
    BY TypeParts, PTL
  <1> USE UartAssumption DEF queues, device, tasks, history
  <1>1. CASE k_uart_init
    BY <1>1 DEF k_uart_init, QueuesOK, DeviceOK, TasksOK, HistoryOK, SessionOK, Quiet
  <1>2. CASE k_uart_terminate
    <2>1. ToSet(tx_queue) \subseteq Bytes
      BY DEF QueuesOK, ToSet
    <2>2. HistoryOK'
      BY <1>2, <2>1 DEF k_uart_terminate, DeviceOK, HistoryOK, Cell
    <2>3. QueuesOK'
      BY <1>2, EmptyQueue DEF k_uart_terminate, QueuesOK
    <2>4. DeviceOK'
      BY <1>2 DEF k_uart_terminate, DeviceOK, Cell
    <2> QED
      BY <1>2, <2>2, <2>3, <2>4 DEF k_uart_terminate, TasksOK, SessionOK, Quiet
  <1>3. ASSUME NEW k \in Writers, k_uart_write(k)
        PROVE  QueuesOK' /\ DeviceOK' /\ TasksOK' /\ HistoryOK' /\ SessionOK'
    <2>1. TasksOK'
      BY <1>3 DEF k_uart_write, TasksOK, Tasks
    <2> QED
      BY <1>3, <2>1 DEF k_uart_write, QueuesOK, DeviceOK, HistoryOK, SessionOK
  <1>4. ASSUME NEW k \in Writers, queue_push(k)
        PROVE  QueuesOK' /\ DeviceOK' /\ TasksOK' /\ HistoryOK' /\ SessionOK'
    <2>1. k \in Tasks /\ <<k, next[k]>> \in Bytes
      BY <1>4 DEF queue_push, TasksOK, Tasks, Bytes
    <2>2. TasksOK'
      BY <1>4, <2>1 DEF queue_push, TasksOK
    <2>3. QueuesOK'
      BY <1>4, <2>1, QueueBounds DEF queue_push, QueuesOK
    <2>4. on
      BY <1>4, <2>1 DEF queue_push, SessionOK, Quiet
    <2> QED
      BY <1>4, <2>2, <2>3, <2>4 DEF queue_push, DeviceOK, HistoryOK, SessionOK
  <1>5. ASSUME NEW k \in Writers, EnableTxInt(k)
        PROVE  QueuesOK' /\ DeviceOK' /\ TasksOK' /\ HistoryOK' /\ SessionOK'
    <2>1. k \in Tasks /\ on
      BY <1>5 DEF EnableTxInt, SessionOK, Quiet, Tasks
    <2>2. TasksOK'
      BY <1>5, <2>1 DEF EnableTxInt, TasksOK
    <2> QED
      BY <1>5, <2>1, <2>2 DEF EnableTxInt, QueuesOK, DeviceOK, HistoryOK, SessionOK
  <1>6. ASSUME NEW k \in Urgent, WriteImmediate(k)
        PROVE  QueuesOK' /\ DeviceOK' /\ TasksOK' /\ HistoryOK' /\ SessionOK'
    <2>1. k \in Tasks /\ <<k, next[k]>> \in Bytes
      BY <1>6 DEF WriteImmediate, TasksOK, Tasks, Bytes
    <2>3. TasksOK'
      BY <1>6, <2>1 DEF WriteImmediate, TasksOK
    <2> QED
      BY <1>6, <2>1, <2>3 DEF WriteImmediate, QueuesOK, DeviceOK, HistoryOK, SessionOK, Cell
  <1>7. ASSUME NEW k \in Urgent, Written(k)
        PROVE  QueuesOK' /\ DeviceOK' /\ TasksOK' /\ HistoryOK' /\ SessionOK'
    <2>1. k \in Tasks /\ on
      BY <1>7 DEF Written, SessionOK, Quiet, Tasks
    <2>2. TasksOK'
      BY <1>7, <2>1 DEF Written, TasksOK
    <2> QED
      BY <1>7, <2>1, <2>2 DEF Written, QueuesOK, DeviceOK, HistoryOK, SessionOK
  <1>8. CASE k_uart_read
    <2>1. rx_queue # <<>> /\ Head(rx_queue) \in Bytes /\ QueuesOK'
      BY <1>8, QueueBounds DEF k_uart_read, QueuesOK
    <2>2. Head(rx_queue)[1] \in Tasks /\ Head(rx_queue)[2] \in 0..NumBytes
      BY <2>1 DEF Bytes
    <2>3. HistoryOK'
      BY <1>8, <2>2 DEF k_uart_read, HistoryOK
    <2> QED
      BY <1>8, <2>1, <2>3 DEF k_uart_read, DeviceOK, TasksOK, SessionOK, Quiet
  <1>9. CASE uart_irq_handler
    <2>1. rx_queue' \in Seq(Bytes) /\ Len(rx_queue') <= RxLength
      BY <1>9, QueueBounds DEF uart_irq_handler, Receive, QueuesOK, DeviceOK, Cell
    <2>2. /\ tx_queue' \in Seq(Bytes) /\ Len(tx_queue') <= TxLength
          /\ txdr' \in Cell /\ txeie' \in BOOLEAN
      BY <1>9, QueueBounds DEF uart_irq_handler, Transmit, QueuesOK, DeviceOK, Cell
    <2>3. on
      BY <1>9 DEF uart_irq_handler, Pending
    <2> QED
      BY <1>9, <2>1, <2>2, <2>3 DEF uart_irq_handler, Receive, QueuesOK, DeviceOK, TasksOK,
           HistoryOK, SessionOK, Cell
  <1>10. CASE Shift
    BY <1>10 DEF Shift, QueuesOK, DeviceOK, TasksOK, HistoryOK, SessionOK, Cell
  <1>11. CASE Arrive
    <2>1. shift \in Bytes
      BY <1>11 DEF Arrive, DeviceOK, Cell
    <2> QED
      BY <1>11, <2>1 DEF Arrive, QueuesOK, DeviceOK, TasksOK, HistoryOK, SessionOK, Cell
  <1>12. CASE UNCHANGED vars
    BY <1>12 DEF vars, QueuesOK, DeviceOK, TasksOK, HistoryOK, SessionOK, Quiet
  <1> QED
    BY <1>1, <1>2, <1>3, <1>4, <1>5, <1>6, <1>7, <1>8, <1>9, <1>10, <1>11, <1>12
       DEF Next, WriterStep, Finished

(* The type invariant of the port, the driver and the device.              *)
THEOREM UartTypeCorrect == Spec => []TypeOK
  BY InitTypeOK, NextTypeOK, PTL DEF Spec

-----------------------------------------------------------------------------
(* The queue and the interrupt that empties it. *)

LEMMA NextNoByteStuck == TypeOK /\ NoByteStuck /\ [Next]_vars => NoByteStuck'
  <1> SUFFICES ASSUME TypeOK, NoByteStuck, [Next]_vars
               PROVE  NoByteStuck'
    OBVIOUS
  <1> USE UartAssumption DEF UartAssumption, queues, device, tasks, history
  <1>0. pc \in [Tasks -> {"idle", "push", "enable", "spin"}]
    BY DEF TypeOK
  <1>1. CASE k_uart_init \/ k_uart_terminate
    BY <1>1 DEF k_uart_init, k_uart_terminate, NoByteStuck
  <1>2. ASSUME NEW k \in Writers, k_uart_write(k) PROVE NoByteStuck'
    BY <1>2, <1>0 DEF k_uart_write, NoByteStuck, Tasks
  <1>3. ASSUME NEW k \in Writers, queue_push(k) PROVE NoByteStuck'
    BY <1>3, <1>0 DEF queue_push, NoByteStuck, Tasks
  <1>4. ASSUME NEW k \in Writers, EnableTxInt(k) PROVE NoByteStuck'
    BY <1>4 DEF EnableTxInt, NoByteStuck
  <1>5. ASSUME NEW k \in Urgent, WriteImmediate(k) \/ Written(k) PROVE NoByteStuck'
    BY <1>5, <1>0 DEF WriteImmediate, Written, NoByteStuck, Tasks
  <1>6. CASE k_uart_read \/ Shift \/ Arrive \/ Finished \/ UNCHANGED vars
    BY <1>6 DEF k_uart_read, Shift, Arrive, Finished, vars, NoByteStuck
  <1>7. CASE uart_irq_handler
    BY <1>7 DEF uart_irq_handler, Transmit, NoByteStuck
  <1> QED
    BY <1>1, <1>2, <1>3, <1>4, <1>5, <1>6, <1>7 DEF Next, WriterStep

(* However the writers and the handler meet, a byte is never left in the   *)
(* queue with the interrupt off: the handler clears TXEIE on an empty      *)
(* queue, and who puts a byte there sets it afterwards.                    *)
THEOREM QueuedByteIsServed == Spec => []NoByteStuck
  <1>1. Init => NoByteStuck
    BY DEF Init, NoByteStuck
  <1> QED
    BY <1>1, InitTypeOK, NextTypeOK, NextNoByteStuck, PTL DEF Spec

-----------------------------------------------------------------------------
(* The bytes that are lost. *)

Lost == Taken \ Known
Hurried == {b \in Taken : b[1] \in Urgent}

LEMMA TakenFinite == IsFiniteSet(Bytes)
  <1>1. IsFiniteSet(Tasks)
    BY UartAssumption DEF UartAssumption, Tasks
  <1>2. IsFiniteSet(1..NumBytes)
    BY UartAssumption, FS_Interval DEF UartAssumption
  <1> QED
    BY <1>1, <1>2, FS_Product DEF Bytes

(* A step that is not k_uart_write_immediate loses nothing.                *)
LEMMA LostOrHurried ==
    ASSUME TypeOK, [Next]_vars
    PROVE  \/ Lost' \subseteq Lost /\ Hurried \subseteq Hurried'
           \/ \E b \in Bytes : /\ b \notin Hurried /\ Hurried' = Hurried \union {b}
                               /\ Lost' \subseteq Lost \union {txdr}
  <1> USE UartAssumption DEF UartAssumption, queues, device, tasks, history
  <1>0. /\ tx_queue \in Seq(Bytes) /\ txdr \in Cell /\ shift \in Cell
        /\ next \in [Tasks -> 1..NumBytes + 1] /\ gone \subseteq Bytes
        /\ left \in [Tasks -> 0..NumBytes]
    BY DEF TypeOK
  <1>a. ASSUME next' = next PROVE Taken' = Taken /\ Hurried' = Hurried
    BY <1>a DEF Taken, Hurried
  <1>b. ASSUME next' = next, \A b \in Bytes : b \in Known => b \in Known'
        PROVE  Lost' \subseteq Lost /\ Hurried \subseteq Hurried'
    BY <1>a, <1>b DEF Lost, Taken
  <1>n. ASSUME NEW k \in Tasks, next' = [next EXCEPT ![k] = @ + 1], next[k] <= NumBytes
        PROVE  /\ <<k, next[k]>> \in Bytes /\ <<k, next[k]>> \notin Taken
               /\ Taken' = Taken \union {<<k, next[k]>>}
    <2>1. next[k] \in 1..NumBytes
      BY <1>n, <1>0
    <2>2. \A j \in Tasks, n \in 1..NumBytes :
            n < next'[j] <=> (n < next[j] \/ (j = k /\ n = next[k]))
      BY <1>n, <1>0
    <2>3. \A b \in Bytes : b = <<b[1], b[2]>> /\ b[1] \in Tasks /\ b[2] \in 1..NumBytes
      BY DEF Bytes
    <2>4. \A b \in Bytes : b[2] < next'[b[1]] <=> (b[2] < next[b[1]] \/ b = <<k, next[k]>>)
      BY <2>2, <2>3
    <2>5. <<k, next[k]>> \in Bytes
      BY <2>1 DEF Bytes
    <2> QED
      BY <2>1, <2>4, <2>5 DEF Taken
  <1>q. NoByte \notin Bytes
    BY DEF Bytes, Tasks
  <1>1. CASE k_uart_init
    <2>1. next' = next /\ tx_queue' = tx_queue /\ gone' = gone /\ shift' = shift /\ txdr' = txdr
      BY <1>1 DEF k_uart_init, TypeOK
    <2>2. Known' = Known
      BY <2>1 DEF Known
    <2> QED
      BY <2>1, <2>2, <1>b
  <1>2. CASE k_uart_terminate
    <2>1. /\ next' = next
          /\ gone' = gone \union ToSet(tx_queue)
                          \union (({txdr, shift} \ {txdr', shift'}) \ {NoByte})
      BY <1>2 DEF k_uart_terminate
    <2>2. \A b \in Bytes : b \in Known => b \in Known'
      BY <2>1, <1>q DEF Known
    <2> QED
      BY <2>1, <2>2, <1>b
  <1>3. ASSUME NEW k \in Writers, k_uart_write(k)
        PROVE  Lost' \subseteq Lost /\ Hurried \subseteq Hurried'
    <2>1. next' = next /\ tx_queue' = tx_queue /\ gone' = gone /\ shift' = shift /\ txdr' = txdr
      BY <1>3 DEF k_uart_write
    <2> QED
      BY <2>1, <1>b DEF Known
  <1>4. ASSUME NEW k \in Writers, queue_push(k)
        PROVE  Lost' \subseteq Lost /\ Hurried \subseteq Hurried'
    <2> DEFINE b == <<k, next[k]>>
    <2>1. k \in Tasks /\ next[k] <= NumBytes /\ next' = [next EXCEPT ![k] = @ + 1]
      <3>1. k \in Tasks /\ left[k] > 0 /\ next[k] + left[k] <= NumBytes + 1
        BY <1>4 DEF queue_push, TypeOK, Tasks
      <3>2. next[k] <= NumBytes
        BY <3>1, <1>0
      <3> QED
        BY <1>4, <3>1, <3>2 DEF queue_push
    <2>2. b \in Bytes /\ Taken' = Taken \union {b}
      BY <2>1, <1>n
    <2>3. /\ ToSet(tx_queue') = ToSet(tx_queue) \union {b}
          /\ gone' = gone /\ shift' = shift /\ txdr' = txdr
      BY <1>4, <1>0, <2>2, AppendSet DEF queue_push
    <2> HIDE DEF b
    <2> QED
      BY <2>2, <2>3 DEF Lost, Hurried, Known
  <1>5. ASSUME NEW k \in Writers, EnableTxInt(k)
        PROVE  Lost' \subseteq Lost /\ Hurried \subseteq Hurried'
    <2>1. next' = next /\ tx_queue' = tx_queue /\ gone' = gone /\ shift' = shift /\ txdr' = txdr
      BY <1>5 DEF EnableTxInt
    <2> QED
      BY <2>1, <1>b DEF Known
  <1>6. ASSUME NEW k \in Urgent, WriteImmediate(k)
        PROVE  \E b \in Bytes : /\ b \notin Hurried /\ Hurried' = Hurried \union {b}
                               /\ Lost' \subseteq Lost \union {txdr}
    <2> DEFINE b == <<k, next[k]>>
    <2>1. /\ k \in Tasks /\ next[k] <= NumBytes /\ next' = [next EXCEPT ![k] = @ + 1]
          /\ txdr' = b /\ tx_queue' = tx_queue /\ gone' = gone /\ shift' = shift
      BY <1>6, <1>0 DEF WriteImmediate, Tasks
    <2>2. b \in Bytes /\ b \notin Taken /\ Taken' = Taken \union {b}
      BY <2>1, <1>n
    <2>3. b[1] \in Urgent
      OBVIOUS
    <2> HIDE DEF b
    <2>4. b \notin Hurried /\ Hurried' = Hurried \union {b}
      BY <2>2, <2>3 DEF Hurried
    <2>5. Lost' \subseteq Lost \union {txdr}
      BY <2>1, <2>2 DEF Lost, Known
    <2> QED
      BY <2>2, <2>4, <2>5
  <1>7. ASSUME NEW k \in Urgent, Written(k)
        PROVE  Lost' \subseteq Lost /\ Hurried \subseteq Hurried'
    <2>1. next' = next /\ tx_queue' = tx_queue /\ gone' = gone /\ shift' = shift /\ txdr' = txdr
      BY <1>7 DEF Written
    <2> QED
      BY <2>1, <1>b DEF Known
  <1>8. CASE k_uart_read \/ Finished \/ UNCHANGED vars
    <2>1. next' = next /\ tx_queue' = tx_queue /\ gone' = gone /\ shift' = shift /\ txdr' = txdr
      BY <1>8 DEF k_uart_read, Finished, vars
    <2> QED
      BY <2>1, <1>b DEF Known
  <1>9. CASE uart_irq_handler
    <2>1. next' = next /\ gone' = gone /\ shift' = shift
      BY <1>9 DEF uart_irq_handler
    <2>2. CASE txdr = NoByte /\ tx_queue # <<>>
      <3>1. txdr' = Head(tx_queue) /\ tx_queue' = Tail(tx_queue)
        BY <1>9, <2>2 DEF uart_irq_handler, Transmit
      <3>2. ToSet(tx_queue) = {Head(tx_queue)} \union ToSet(Tail(tx_queue))
        BY <1>0, <2>2, HeadTailSet
      <3>3. \A b \in Bytes : b \in Known => b \in Known'
        BY <2>1, <2>2, <3>1, <3>2, <1>q DEF Known
      <3> QED
        BY <2>1, <3>3, <1>b
    <2>3. CASE ~(txdr = NoByte /\ tx_queue # <<>>)
      <3>1. txdr' = txdr /\ tx_queue' = tx_queue
        BY <1>9, <2>3 DEF uart_irq_handler, Transmit
      <3> QED
        BY <2>1, <3>1, <1>b DEF Known
    <2> QED
      BY <2>2, <2>3
  <1>10. CASE Shift
    <2>1. /\ next' = next /\ gone' = gone /\ tx_queue' = tx_queue
          /\ shift = NoByte /\ shift' = txdr
      BY <1>10 DEF Shift
    <2>2. \A b \in Bytes : b \in Known => b \in Known'
      BY <2>1, <1>q DEF Known
    <2> QED
      BY <2>1, <2>2, <1>b
  <1>11. CASE Arrive
    <2>1. /\ next' = next /\ gone' = gone \union {shift} /\ tx_queue' = tx_queue
          /\ txdr' = txdr
      BY <1>11 DEF Arrive
    <2>2. \A b \in Bytes : b \in Known => b \in Known'
      BY <2>1 DEF Known
    <2> QED
      BY <2>1, <2>2, <1>b
  <1> QED
    BY <1>1, <1>2, <1>3, <1>4, <1>5, <1>6, <1>7, <1>8, <1>9, <1>10, <1>11 DEF Next, WriterStep

(* The inductive step: a call of k_uart_write_immediate adds one byte to   *)
(* either side.                                                            *)
LEMMA NextLostToImmediate == TypeOK /\ LostToImmediate /\ [Next]_vars => LostToImmediate'
  <1> SUFFICES ASSUME TypeOK, LostToImmediate, [Next]_vars
               PROVE  Cardinality(Lost') <= Cardinality(Hurried')
    BY DEF LostToImmediate, Lost, Hurried
  <1>1. Cardinality(Lost) <= Cardinality(Hurried)
    BY DEF LostToImmediate, Lost, Hurried
  <1>2. Lost \subseteq Bytes /\ Hurried \subseteq Bytes /\ Hurried' \subseteq Bytes
    <2>1. Bytes' = Bytes
      BY DEF Bytes, Tasks
    <2> QED
      BY <2>1 DEF Lost, Hurried, Taken
  <1>3. IsFiniteSet(Lost) /\ IsFiniteSet(Hurried) /\ IsFiniteSet(Hurried')
    BY <1>2, TakenFinite, FS_Subset
  <1>4. Cardinality(Lost) \in Nat /\ Cardinality(Hurried) \in Nat /\ Cardinality(Hurried') \in Nat
    BY <1>3, FS_CardinalityType
  <1>5. CASE Lost' \subseteq Lost /\ Hurried \subseteq Hurried'
    <2>1. Cardinality(Lost') <= Cardinality(Lost) /\ Cardinality(Hurried) <= Cardinality(Hurried')
      BY <1>3, <1>5, FS_Subset
    <2>2. Cardinality(Lost') \in Nat
      BY <1>3, <1>5, FS_Subset, FS_CardinalityType
    <2> QED
      BY <1>1, <1>4, <2>1, <2>2
  <1>6. ASSUME NEW b \in Bytes, b \notin Hurried, Hurried' = Hurried \union {b},
               Lost' \subseteq Lost \union {txdr}
        PROVE  Cardinality(Lost') <= Cardinality(Hurried')
    <2>1. Cardinality(Hurried') = Cardinality(Hurried) + 1
      BY <1>3, <1>6, FS_AddElement
    <2> DEFINE more == Lost \union {txdr}
    <2>2. IsFiniteSet(more) /\ Cardinality(more) \in Nat /\ Cardinality(more) <= Cardinality(Lost) + 1
      <3>1. /\ IsFiniteSet(more)
            /\ Cardinality(more) = IF txdr \in Lost THEN Cardinality(Lost) ELSE Cardinality(Lost) + 1
        BY <1>3, FS_AddElement
      <3> HIDE DEF more
      <3> QED
        BY <3>1, <1>4
    <2>3. Lost' \in SUBSET more
      BY <1>6
    <2> HIDE DEF more
    <2>4. Cardinality(Lost') <= Cardinality(more) /\ Cardinality(Lost') \in Nat
      BY <2>2, <2>3, FS_Subset, FS_CardinalityType
    <2> QED
      BY <1>1, <1>4, <2>1, <2>2, <2>4
  <1> QED
    BY <1>5, <1>6, LostOrHurried

(* Over any number of calls, every byte that never leaves the device was   *)
(* written over by a call of k_uart_write_immediate of its own (stm32f4    *)
(* uart.c:342), or went with the queue in k_uart_terminate.                *)
THEOREM OnlyImmediateLoses == Spec => []LostToImmediate
  <1>1. ASSUME Init PROVE LostToImmediate
    <2>1. Taken = {}
      <3>1. \A b \in Bytes : b[1] \in Tasks /\ b[2] \in 1..NumBytes
        BY DEF Bytes
      <3>2. \A k \in Tasks : next[k] = 1
        BY <1>1 DEF Init
      <3> QED
        BY <3>1, <3>2 DEF Taken
    <2>2. Taken \ Known = {} /\ {b \in Taken : b[1] \in Urgent} = {}
      BY <2>1
    <2>3. Cardinality({}) = 0
      BY FS_EmptySet
    <2> QED
      BY <2>2, <2>3 DEF LostToImmediate
  <1> QED
    BY <1>1, InitTypeOK, NextTypeOK, NextLostToImmediate, PTL DEF Spec

-----------------------------------------------------------------------------
(* The order of the bytes. The receive queue, the three registers and the  *)
(* transmit queue are one line that the bytes of a task stand in by their  *)
(* numbers, between the one that was read last and the one it writes next. *)

In(r) == {r} \ {NoByte}
Ahead(A, B) == \A a \in A, b \in B : a[1] = b[1] => a[2] < b[2]
Sorted(s) == \A i, j \in DOMAIN s : i < j /\ s[i][1] = s[j][1] => s[i][2] < s[j][2]

InLine(A, R, S, T, Q) ==
  /\ Ahead(A, R \union S \union T \union Q)
  /\ Ahead(R, S \union T \union Q)
  /\ Ahead(S, T \union Q)
  /\ Ahead(T, Q)

Received == ToSet(rx_queue) \union In(rxdr)
Unsent == In(shift) \union In(txdr) \union ToSet(tx_queue)

LineOK ==
  /\ Sorted(rx_queue) /\ Sorted(tx_queue)
  /\ InLine(ToSet(rx_queue), In(rxdr), In(shift), In(txdr), ToSet(tx_queue))
NumbersOK ==
  /\ \A b \in Received \union Unsent : heard[b[1]] < b[2] /\ b[2] < next[b[1]]
  /\ \A k \in Tasks : heard[k] < next[k]
  /\ \A b \in gone : b[2] < next[b[1]]
  /\ Unsent \intersect gone = {}
  /\ \A b \in ToSet(tx_queue) : b[1] \in Writers
OrderOK == LineOK /\ NumbersOK

LEMMA SortedAppend ==
    ASSUME NEW S, NEW s \in Seq(S), NEW x \in S, Sorted(s), Ahead(ToSet(s), {x})
    PROVE  Sorted(Append(s, x))
  <1> DEFINE t == Append(s, x)
  <1>1. DOMAIN t = 1 .. Len(s) + 1 /\ DOMAIN s = 1 .. Len(s) /\ Len(s) \in Nat
    OBVIOUS
  <1>2. t[Len(s) + 1] = x /\ \A n \in 1 .. Len(s) : t[n] = s[n]
    OBVIOUS
  <1> HIDE DEF t
  <1>3. \A n \in 1 .. Len(s) : s[n][1] = x[1] => s[n][2] < x[2]
    BY <1>1 DEF Ahead, ToSet
  <1>4. Sorted(t)
    BY <1>1, <1>2, <1>3 DEF Sorted
  <1> QED
    BY <1>4 DEF t

LEMMA SortedTail ==
    ASSUME NEW S, NEW s \in Seq(S), s # <<>>, Sorted(s)
    PROVE  Sorted(Tail(s)) /\ Ahead({Head(s)}, ToSet(Tail(s)))
  <1> DEFINE t == Tail(s)
  <1>1. Len(s) \in Nat \ {0} /\ DOMAIN t = 1 .. Len(s) - 1 /\ DOMAIN s = 1 .. Len(s)
    OBVIOUS
  <1>2. Head(s) = s[1] /\ \A n \in 1 .. Len(s) - 1 : t[n] = s[n + 1]
    OBVIOUS
  <1> HIDE DEF t
  <1>3. \A n \in DOMAIN t : n + 1 \in DOMAIN s /\ t[n] = s[n + 1] /\ 1 < n + 1
    BY <1>1, <1>2
  <1>4. Sorted(t)
    BY <1>1, <1>3 DEF Sorted
  <1>5. Ahead({Head(s)}, ToSet(t))
    <2>1. 1 \in DOMAIN s
      BY <1>1
    <2> QED
      BY <1>1, <1>2, <1>3, <2>1 DEF Sorted, Ahead, ToSet
  <1> QED
    BY <1>4, <1>5 DEF t

LEMMA SortedJoined ==
    ASSUME NEW S, NEW s \in Seq(S), NEW t \in Seq(S),
           Sorted(s), Sorted(t), Ahead(ToSet(s), ToSet(t))
    PROVE  s \o t \in Seq(S) /\ Sorted(s \o t) /\ ToSet(s \o t) = ToSet(s) \union ToSet(t)
  <1> DEFINE u == s \o t
  <1>1. /\ Len(s) \in Nat /\ Len(t) \in Nat /\ u \in Seq(S)
        /\ DOMAIN u = 1 .. Len(s) + Len(t) /\ DOMAIN s = 1 .. Len(s) /\ DOMAIN t = 1 .. Len(t)
    OBVIOUS
  <1>2. /\ \A n \in 1 .. Len(s) : u[n] = s[n]
        /\ \A n \in Len(s) + 1 .. Len(s) + Len(t) : u[n] = t[n - Len(s)]
    OBVIOUS
  <1> HIDE DEF u
  <1>3. \A n \in DOMAIN u : \/ n \in DOMAIN s /\ u[n] = s[n]
                            \/ n - Len(s) \in DOMAIN t /\ u[n] = t[n - Len(s)] /\ n > Len(s)
    BY <1>1, <1>2
  <1>4. /\ \A n \in DOMAIN s : n \in DOMAIN u /\ u[n] = s[n]
        /\ \A n \in DOMAIN t : n + Len(s) \in DOMAIN u /\ u[n + Len(s)] = t[n]
    <2>1. \A n \in DOMAIN s : n \in DOMAIN u /\ u[n] = s[n]
      BY <1>1, <1>2
    <2>2. ASSUME NEW n \in DOMAIN t PROVE n + Len(s) \in DOMAIN u /\ u[n + Len(s)] = t[n]
      <3>1. n + Len(s) \in Len(s) + 1 .. Len(s) + Len(t) /\ (n + Len(s)) - Len(s) = n
        BY <1>1
      <3>2. n + Len(s) \in DOMAIN u
        BY <1>1
      <3> QED
        BY <1>2, <3>1, <3>2
    <2> QED
      BY <2>1, <2>2
  <1>5. ToSet(u) = ToSet(s) \union ToSet(t)
    BY <1>3, <1>4 DEF ToSet
  <1>6. \A i \in DOMAIN s, j \in DOMAIN t : s[i][1] = t[j][1] => s[i][2] < t[j][2]
    BY DEF Ahead, ToSet
  <1>7. ASSUME NEW i \in DOMAIN u, NEW j \in DOMAIN u, i < j, u[i][1] = u[j][1]
        PROVE  u[i][2] < u[j][2]
    <2>1. CASE i \in DOMAIN s /\ u[i] = s[i] /\ j \in DOMAIN s /\ u[j] = s[j]
      BY <1>7, <2>1 DEF Sorted
    <2>2. CASE /\ i - Len(s) \in DOMAIN t /\ u[i] = t[i - Len(s)]
               /\ j - Len(s) \in DOMAIN t /\ u[j] = t[j - Len(s)]
      <3>1. i - Len(s) < j - Len(s)
        BY <1>1, <1>7
      <3> QED
        BY <1>7, <2>2, <3>1 DEF Sorted
    <2>3. CASE i \in DOMAIN s /\ u[i] = s[i] /\ j - Len(s) \in DOMAIN t /\ u[j] = t[j - Len(s)]
      BY <1>6, <1>7, <2>3
    <2>4. ~(i > Len(s) /\ j \in DOMAIN s)
      BY <1>1, <1>7
    <2> QED
      BY <1>3, <2>1, <2>2, <2>3, <2>4
  <1> QED
    BY <1>1, <1>5, <1>7 DEF u, Sorted

LEMMA HeldIs ==
    ASSUME NEW r \in Cell
    PROVE  Held(r) \in Seq(Bytes) /\ Sorted(Held(r)) /\ ToSet(Held(r)) = In(r)
  <1>1. CASE r = NoByte
    BY <1>1 DEF Held, In, Sorted, ToSet
  <1>2. CASE r # NoByte
    <2>1. r \in Bytes
      BY <1>2 DEF Cell
    <2>2. <<r>> \in Seq(Bytes) /\ DOMAIN <<r>> = {1} /\ <<r>>[1] = r
      BY <2>1
    <2> QED
      BY <1>2, <2>2 DEF Held, In, Sorted, ToSet
  <1> QED
    BY <1>1, <1>2

(* What the tasks do to the line: nothing, or a byte that is new.          *)
LEMMA WritersOrder ==
    ASSUME TypeOK, OrderOK, NEW k \in Writers, k_uart_write(k) \/ WriterStep(k)
    PROVE  OrderOK'
  <1> USE DEF queues, device, tasks, history
  <1>1. CASE k_uart_write(k) \/ EnableTxInt(k)
    BY <1>1 DEF k_uart_write, EnableTxInt, OrderOK, LineOK, NumbersOK, Received, Unsent
  <1>2. CASE queue_push(k)
    <2> DEFINE b == <<k, next[k]>>
    <2>0. /\ tx_queue \in Seq(Bytes) /\ next \in [Tasks -> 1..NumBytes + 1] /\ k \in Tasks
          /\ left[k] > 0 /\ next[k] + left[k] <= NumBytes + 1 /\ left[k] \in 0..NumBytes
          /\ NumBytes \in Nat /\ heard \in [Tasks -> 0..NumBytes]
      BY <1>2, UartAssumption DEF queue_push, TypeOK, Tasks, UartAssumption
    <2>1. b \in Bytes /\ b[1] = k /\ b[2] = next[k]
      BY <2>0 DEF Bytes
    <2>2. /\ tx_queue' = Append(tx_queue, b) /\ next' = [next EXCEPT ![k] = @ + 1]
          /\ rx_queue' = rx_queue /\ rxdr' = rxdr /\ shift' = shift /\ txdr' = txdr
          /\ heard' = heard /\ gone' = gone
      BY <1>2 DEF queue_push
    <2>3. ToSet(tx_queue') = ToSet(tx_queue) \union {b}
      BY <2>0, <2>1, <2>2, AppendSet
    <2>4. /\ \A a \in Received \union Unsent \union gone : a[1] = k => a[2] < next[k]
          /\ heard[k] < next[k]
      BY <2>0 DEF OrderOK, NumbersOK
    <2>5. Ahead(Received \union Unsent, {b})
      BY <2>1, <2>4 DEF Ahead
    <2>6. Sorted(tx_queue')
      BY <2>0, <2>1, <2>2, <2>5, SortedAppend DEF Ahead, Unsent, OrderOK, LineOK
    <2>7. b \notin gone /\ heard[b[1]] < b[2]
      BY <2>0, <2>1, <2>4
    <2>8. \A j \in Tasks : next'[j] \in Nat /\ next[j] <= next'[j] /\ next[k] < next'[k]
      BY <2>0, <2>2
    <2>9. Received \union Unsent \union gone \subseteq Bytes
      BY DEF TypeOK, Cell, Received, Unsent, In, ToSet
    <2> HIDE DEF b
    <2>10. LineOK'
      BY <2>2, <2>3, <2>5, <2>6 DEF OrderOK, LineOK, InLine, Ahead, Received, Unsent
    <2>11. Received' = Received /\ Unsent' = Unsent \union {b}
      BY <2>2, <2>3 DEF Received, Unsent
    <2>12. \A a \in Received \union Unsent \union gone : a[1] \in Tasks /\ a[2] \in Nat
      BY <2>9 DEF Bytes
    <2>13. \A a \in Received \union Unsent \union gone : a[2] < next'[a[1]]
      <3>1. \A a \in Received \union Unsent \union gone : a[2] < next[a[1]]
        BY DEF OrderOK, NumbersOK
      <3>2. \A j \in Tasks : next[j] \in Nat
        BY <2>0
      <3> QED
        BY <2>8, <2>12, <3>1, <3>2
    <2>14. \A j \in Tasks : heard[j] < next'[j]
      BY <2>0, <2>8 DEF OrderOK, NumbersOK
    <2>15. NumbersOK'
      BY <2>1, <2>2, <2>3, <2>7, <2>8, <2>11, <2>13, <2>14, <2>0 DEF OrderOK, NumbersOK
    <2> QED
      BY <2>10, <2>15 DEF OrderOK
  <1> QED
    BY <1>1, <1>2 DEF WriterStep

(* k_uart_write_immediate goes before what waits in the queue; none of     *)
(* that is the caller's.                                                   *)
LEMMA UrgentOrder ==
    ASSUME TypeOK, OrderOK, NEW k \in Urgent, WriteImmediate(k) \/ Written(k)
    PROVE  OrderOK'
  <1> USE DEF queues, device, tasks, history
  <1>1. CASE Written(k)
    BY <1>1 DEF Written, OrderOK, LineOK, NumbersOK, Received, Unsent
  <1>2. CASE WriteImmediate(k)
    <2> DEFINE b == <<k, next[k]>>
    <2>0. /\ next \in [Tasks -> 1..NumBytes + 1] /\ k \in Tasks /\ k \notin Writers
          /\ next[k] <= NumBytes /\ NumBytes \in Nat /\ heard \in [Tasks -> 0..NumBytes]
      BY <1>2, UartAssumption DEF WriteImmediate, TypeOK, Tasks, UartAssumption
    <2>1. b \in Bytes /\ b[1] = k /\ b[2] = next[k] /\ b # NoByte
      BY <2>0, UartAssumption DEF Bytes, UartAssumption, Tasks
    <2>2. /\ txdr' = b /\ next' = [next EXCEPT ![k] = @ + 1]
          /\ rx_queue' = rx_queue /\ rxdr' = rxdr /\ shift' = shift /\ tx_queue' = tx_queue
          /\ heard' = heard /\ gone' = gone
      BY <1>2 DEF WriteImmediate
    <2>3. In(txdr') = {b}
      BY <2>1, <2>2 DEF In
    <2>4. /\ \A a \in Received \union Unsent \union gone : a[1] = k => a[2] < next[k]
          /\ heard[k] < next[k] /\ \A a \in ToSet(tx_queue) : a[1] # k
      BY <2>0 DEF OrderOK, NumbersOK
    <2>5. Ahead(Received \union Unsent, {b}) /\ Ahead({b}, ToSet(tx_queue))
      BY <2>1, <2>4 DEF Ahead
    <2>7. b \notin gone /\ heard[b[1]] < b[2]
      BY <2>0, <2>1, <2>4
    <2>8. \A j \in Tasks : next'[j] \in Nat /\ next[j] <= next'[j] /\ next[k] < next'[k]
      BY <2>0, <2>2
    <2>9. \A a \in Received \union Unsent \union gone : a[1] \in Tasks /\ a[2] \in Nat
      <3>1. Received \union Unsent \union gone \subseteq Bytes
        BY DEF TypeOK, Cell, Received, Unsent, In, ToSet
      <3> QED
        BY <3>1 DEF Bytes
    <2> HIDE DEF b
    <2>10. LineOK'
      BY <2>2, <2>3, <2>5 DEF OrderOK, LineOK, InLine, Ahead, Received, Unsent
    <2>11. Received' = Received /\ Unsent' \subseteq Unsent \union {b}
      BY <2>2, <2>3 DEF Received, Unsent
    <2>13. \A a \in Received \union Unsent \union gone : a[2] < next'[a[1]]
      <3>1. \A a \in Received \union Unsent \union gone : a[2] < next[a[1]]
        BY DEF OrderOK, NumbersOK
      <3>2. \A j \in Tasks : next[j] \in Nat
        BY <2>0
      <3> QED
        BY <2>8, <2>9, <3>1, <3>2
    <2>14. \A j \in Tasks : heard[j] < next'[j]
      BY <2>0, <2>8 DEF OrderOK, NumbersOK
    <2>15. NumbersOK'
      BY <2>0, <2>1, <2>2, <2>7, <2>8, <2>11, <2>13, <2>14 DEF OrderOK, NumbersOK
    <2> QED
      BY <2>10, <2>15 DEF OrderOK
  <1> QED
    BY <1>1, <1>2

(* A step that moves bytes forward in the line, or drops some.             *)
LEMMA MovesOn ==
    ASSUME OrderOK, LineOK', next' = next, heard' = heard, gone' = gone,
           Received' \union Unsent' \subseteq Received \union Unsent, Unsent' \subseteq Unsent,
           ToSet(tx_queue') \subseteq ToSet(tx_queue)
    PROVE  OrderOK'
  BY DEF OrderOK, NumbersOK

LEMMA HandlerOrder ==
    ASSUME TypeOK, OrderOK, uart_irq_handler
    PROVE  OrderOK'
  <1> USE DEF queues, device, tasks, history
  <1>0. /\ rx_queue \in Seq(Bytes) /\ tx_queue \in Seq(Bytes)
        /\ rxdr \in Cell /\ txdr \in Cell
        /\ Sorted(rx_queue) /\ Sorted(tx_queue)
        /\ InLine(ToSet(rx_queue), In(rxdr), In(shift), In(txdr), ToSet(tx_queue))
    BY DEF TypeOK, OrderOK, LineOK
  <1>1. next' = next /\ heard' = heard /\ gone' = gone /\ shift' = shift /\ In(rxdr') = {}
    BY DEF uart_irq_handler, Receive, In
  <1>2. /\ Sorted(rx_queue')
        /\ ToSet(rx_queue') \subseteq ToSet(rx_queue) \union In(rxdr)
    <2>1. CASE rx_queue' = rx_queue
      BY <1>0, <2>1
    <2>2. CASE rxdr # NoByte /\ rx_queue' = Append(rx_queue, rxdr)
      <3>1. rxdr \in Bytes /\ In(rxdr) = {rxdr}
        BY <1>0, <2>2 DEF Cell, In
      <3>2. Ahead(ToSet(rx_queue), {rxdr})
        BY <1>0, <3>1 DEF InLine, Ahead
      <3> QED
        BY <1>0, <2>2, <3>1, <3>2, SortedAppend, AppendSet
    <2> QED
      BY <2>1, <2>2 DEF uart_irq_handler, Receive
  <1>3. /\ Sorted(tx_queue') /\ ToSet(tx_queue') \subseteq ToSet(tx_queue)
        /\ In(txdr') \union ToSet(tx_queue') \subseteq In(txdr) \union ToSet(tx_queue)
        /\ Ahead(In(txdr'), ToSet(tx_queue'))
    <2>1. CASE txdr' = txdr /\ tx_queue' = tx_queue
      BY <1>0, <2>1 DEF InLine
    <2>2. CASE tx_queue # <<>> /\ txdr' = Head(tx_queue) /\ tx_queue' = Tail(tx_queue)
      <3>1. /\ ToSet(tx_queue) = {txdr'} \union ToSet(tx_queue')
            /\ Sorted(tx_queue') /\ Ahead({txdr'}, ToSet(tx_queue'))
        BY <1>0, <2>2, HeadTailSet, SortedTail
      <3> QED
        BY <3>1 DEF In, Ahead
    <2> QED
      BY <2>1, <2>2 DEF uart_irq_handler, Transmit
  <1>4. LineOK'
    BY <1>0, <1>1, <1>2, <1>3 DEF LineOK, InLine, Ahead
  <1> QED
    BY <1>1, <1>2, <1>3, <1>4, MovesOn DEF Received, Unsent

LEMMA DeviceOrder ==
    ASSUME TypeOK, OrderOK, Shift \/ Arrive
    PROVE  OrderOK'
  <1> USE DEF queues, device, tasks, history
  <1>0. /\ Sorted(rx_queue) /\ Sorted(tx_queue)
        /\ InLine(ToSet(rx_queue), In(rxdr), In(shift), In(txdr), ToSet(tx_queue))
    BY DEF OrderOK, LineOK
  <1>1. CASE Shift
    <2>1. /\ rx_queue' = rx_queue /\ tx_queue' = tx_queue /\ rxdr' = rxdr
          /\ next' = next /\ heard' = heard /\ gone' = gone
          /\ In(shift) = {} /\ In(shift') = In(txdr) /\ In(txdr') = {}
      BY <1>1 DEF Shift, In
    <2>2. LineOK'
      BY <1>0, <2>1 DEF LineOK, InLine, Ahead
    <2> QED
      BY <2>1, <2>2, MovesOn DEF Received, Unsent
  <1>2. CASE Arrive
    <2>1. /\ rx_queue' = rx_queue /\ tx_queue' = tx_queue /\ txdr' = txdr
          /\ next' = next /\ heard' = heard /\ gone' = gone \union {shift}
          /\ In(shift) = {shift} /\ In(shift') = {}
      BY <1>2 DEF Arrive, In
    <2>2. \/ In(rxdr) = {} /\ In(rxdr') = In(shift)
          \/ In(rxdr') = In(rxdr)
      BY <1>2 DEF Arrive, In
    <2>3. LineOK'
      BY <1>0, <2>1, <2>2 DEF LineOK, InLine, Ahead
    <2>4. Unsent' \subseteq Unsent /\ Received' \union Unsent' \subseteq Received \union Unsent
      BY <2>1, <2>2 DEF Received, Unsent
    <2>5. shift \in Unsent /\ shift \notin Unsent'
      <3>1. shift \in Bytes
        BY <1>2 DEF Arrive, TypeOK, Cell
      <3>2. ~(shift[2] < shift[2])
        BY <3>1 DEF Bytes
      <3>3. shift \notin In(txdr) \union ToSet(tx_queue)
        BY <1>0, <2>1, <3>2 DEF InLine, Ahead
      <3> QED
        BY <2>1, <3>3 DEF Unsent
    <2>6. NumbersOK'
      BY <2>1, <2>4, <2>5 DEF OrderOK, NumbersOK
    <2> QED
      BY <2>3, <2>6 DEF OrderOK
  <1> QED
    BY <1>1, <1>2

(* Setting up, taking down and reading.                                    *)
LEMMA PortOrder ==
    ASSUME TypeOK, OrderOK, k_uart_init \/ k_uart_terminate
    PROVE  OrderOK'
  <1> USE DEF queues, device, tasks, history
  <1>0. InLine(ToSet(rx_queue), In(rxdr), In(shift), In(txdr), ToSet(tx_queue))
    BY DEF OrderOK, LineOK
  <1>1. Sorted(<<>>) /\ ToSet(<<>>) = {}
    BY EmptySet DEF Sorted
  <1>2. CASE k_uart_init
    <2>1. /\ rx_queue' = <<>> /\ tx_queue' = <<>> /\ next' = next /\ heard' = heard
          /\ gone' = gone /\ rxdr' = rxdr /\ shift' = shift /\ txdr' = txdr
      BY <1>2 DEF k_uart_init
    <2>2. LineOK'
      BY <1>0, <1>1, <2>1 DEF LineOK, InLine, Ahead
    <2> QED
      BY <1>1, <2>1, <2>2, MovesOn DEF Received, Unsent
  <1>3. CASE k_uart_terminate
    <2>1. /\ rx_queue' = <<>> /\ tx_queue' = <<>> /\ next' = next /\ heard' = heard
          /\ In(rxdr') \subseteq In(rxdr)
          /\ In(shift') \subseteq In(shift) /\ In(txdr') \subseteq In(txdr)
          /\ gone' = gone \union ToSet(tx_queue)
                          \union (({txdr, shift} \ {txdr', shift'}) \ {NoByte})
      BY <1>3 DEF k_uart_terminate, In
    <2>2. LineOK'
      BY <1>0, <1>1, <2>1 DEF LineOK, InLine, Ahead
    <2>3. Unsent' = In(shift') \union In(txdr') /\ Received' = In(rxdr')
      BY <1>1, <2>1 DEF Received, Unsent
    <2>4. gone' \subseteq gone \union Unsent
      BY <2>1 DEF Unsent, In
    <2>5. \A b \in In(shift) \union In(txdr) : b \notin ToSet(tx_queue)
      <3>1. \A b \in In(shift) \union In(txdr) : ~(b[2] < b[2])
        BY DEF TypeOK, Cell, In, Bytes
      <3> QED
        BY <1>0, <3>1 DEF InLine, Ahead
    <2>6. Unsent' \intersect gone = {}
      BY <2>1, <2>3 DEF OrderOK, NumbersOK, Unsent
    <2>7. Unsent' \intersect gone' = {}
      BY <2>1, <2>3, <2>5, <2>6 DEF In
    <2>8. Received' \union Unsent' \subseteq Received \union Unsent
      BY <2>1, <2>3 DEF Received, Unsent
    <2>9. NumbersOK'
      BY <1>1, <2>1, <2>4, <2>7, <2>8 DEF OrderOK, NumbersOK
    <2> QED
      BY <2>2, <2>9 DEF OrderOK
  <1> QED
    BY <1>2, <1>3

LEMMA ReadOrder ==
    ASSUME TypeOK, OrderOK, k_uart_read
    PROVE  OrderOK'
  <1> USE DEF queues, device, tasks, history
  <1> DEFINE b == Head(rx_queue)
  <1>0. /\ rx_queue \in Seq(Bytes) /\ rx_queue # <<>> /\ heard \in [Tasks -> 0..NumBytes]
        /\ Sorted(rx_queue) /\ Sorted(tx_queue)
        /\ InLine(ToSet(rx_queue), In(rxdr), In(shift), In(txdr), ToSet(tx_queue))
    BY DEF TypeOK, OrderOK, LineOK, k_uart_read
  <1>1. /\ rx_queue' = Tail(rx_queue) /\ tx_queue' = tx_queue
        /\ rxdr' = rxdr /\ shift' = shift /\ txdr' = txdr
        /\ next' = next /\ gone' = gone /\ heard' = [heard EXCEPT ![b[1]] = b[2]]
    BY DEF k_uart_read
  <1>2. b \in Bytes /\ ToSet(rx_queue) = {b} \union ToSet(rx_queue')
    BY <1>0, <1>1, HeadTailSet
  <1>3. Sorted(rx_queue') /\ Ahead({b}, ToSet(rx_queue'))
    BY <1>0, <1>1, SortedTail
  <1>4. b[1] \in Tasks
    BY <1>2 DEF Bytes
  <1> HIDE DEF b
  <1>5. LineOK'
    BY <1>0, <1>1, <1>2, <1>3 DEF LineOK, InLine, Ahead
  <1>6. /\ Received' \subseteq Received /\ Unsent' = Unsent /\ b \in Received
        /\ Ahead({b}, Received' \union Unsent)
    BY <1>0, <1>1, <1>2, <1>3 DEF Received, Unsent, InLine, Ahead
  <1>7. \A j \in Tasks : heard'[j] = IF j = b[1] THEN b[2] ELSE heard[j]
    BY <1>0, <1>1, <1>4
  <1>8. \A a \in Received' \union Unsent' : a[1] \in Tasks
    <2>1. Received \union Unsent \subseteq Bytes
      BY DEF TypeOK, Cell, Received, Unsent, In, ToSet
    <2> QED
      BY <1>6, <2>1 DEF Bytes
  <1>9. NumbersOK'
    BY <1>1, <1>4, <1>6, <1>7, <1>8 DEF OrderOK, NumbersOK, Ahead
  <1> QED
    BY <1>5, <1>9 DEF OrderOK

LEMMA NextOrder == TypeOK /\ OrderOK /\ [Next]_vars => OrderOK'
  <1> SUFFICES ASSUME TypeOK, OrderOK, [Next]_vars PROVE OrderOK'
    OBVIOUS
  <1>1. CASE UNCHANGED vars
    BY <1>1 DEF vars, queues, device, tasks, history, OrderOK, LineOK, NumbersOK,
         Received, Unsent
  <1> QED
    BY <1>1, WritersOrder, UrgentOrder, HandlerOrder, DeviceOrder, PortOrder, ReadOrder
       DEF Next, Finished

\* What is in line is in order.
LEMMA LineIsInOrder == TypeOK /\ OrderOK => InOrder
  <1> SUFFICES ASSUME TypeOK, OrderOK PROVE InOrder
    OBVIOUS
  <1> DEFINE sending == Held(shift) \o Held(txdr)
             out == sending \o tx_queue
             coming == rx_queue \o Held(rxdr)
             in == coming \o Held(shift)
             Pairs == Tasks \X Nat
  <1>0. /\ rx_queue \in Seq(Bytes) /\ tx_queue \in Seq(Bytes) /\ Bytes \subseteq Pairs
        /\ Sorted(rx_queue) /\ Sorted(tx_queue)
        /\ InLine(ToSet(rx_queue), In(rxdr), In(shift), In(txdr), ToSet(tx_queue))
    BY DEF TypeOK, Bytes, OrderOK, LineOK
  <1>1. \A r \in {rxdr, shift, txdr} :
          Held(r) \in Seq(Bytes) /\ Sorted(Held(r)) /\ ToSet(Held(r)) = In(r)
    BY HeldIs DEF TypeOK
  <1>2. sending \in Seq(Bytes) /\ Sorted(sending) /\ ToSet(sending) = In(shift) \union In(txdr)
    <2>1. Ahead(In(shift), In(txdr))
      BY <1>0 DEF InLine, Ahead
    <2> QED
      BY <1>1, <2>1, SortedJoined
  <1>3. Sorted(out) /\ ToSet(out) = Unsent
    <2>1. Ahead(ToSet(sending), ToSet(tx_queue))
      BY <1>0, <1>2 DEF InLine, Ahead
    <2> HIDE DEF sending
    <2>2. Sorted(out) /\ ToSet(out) = ToSet(sending) \union ToSet(tx_queue)
      BY <1>0, <1>2, <2>1, SortedJoined
    <2> QED
      BY <1>2, <2>2 DEF Unsent
  <1>4. coming \in Seq(Bytes) /\ Sorted(coming) /\ ToSet(coming) = Received
    <2>1. Ahead(ToSet(rx_queue), In(rxdr))
      BY <1>0 DEF InLine, Ahead
    <2> QED
      BY <1>0, <1>1, <2>1, SortedJoined DEF Received
  <1>5. in \in Seq(Bytes) /\ Sorted(in) /\ ToSet(in) = Received \union In(shift)
    <2>1. Ahead(ToSet(coming), In(shift))
      BY <1>0, <1>4 DEF InLine, Ahead, Received
    <2> HIDE DEF coming
    <2> QED
      BY <1>1, <1>4, <2>1, SortedJoined
  <1>6. ASSUME NEW k \in Tasks PROVE Sorted(<<<<k, heard[k]>>>> \o in)
    <2> DEFINE last == <<k, heard[k]>>
    <2>1. last \in Pairs /\ last[1] = k /\ last[2] = heard[k]
      BY DEF TypeOK
    <2>2. Ahead({last}, ToSet(in))
      BY <1>5, <2>1 DEF OrderOK, NumbersOK, Unsent, Ahead
    <2> HIDE DEF last
    <2>3. <<last>> \in Seq(Pairs) /\ ToSet(<<last>>) = {last} /\ Sorted(<<last>>)
      BY <2>1 DEF ToSet, Sorted
    <2>4. in \in Seq(Pairs)
      BY <1>0, <1>5
    <2> HIDE DEF in, Pairs
    <2>5. Sorted(<<last>> \o in)
      BY <1>5, <2>2, <2>3, <2>4, SortedJoined
    <2> QED
      BY <2>5 DEF last
  <1>7. ASSUME NEW s, NEW k, Sorted(s) PROVE Rising(k, s)
    BY <1>7 DEF Sorted, Rising
  <1>8. ToSet(out) \intersect gone = {}
    BY <1>3 DEF OrderOK, NumbersOK
  <1> QED
    BY <1>3, <1>6, <1>7, <1>8 DEF InOrder

(* The bytes of a task leave the device, and are read, in the order it     *)
(* wrote them and each once, whatever the handler, the other tasks and the *)
(* wire do in between and however often the port is set up                 *)
(* (stm32f4 uart.c:379, :402; kubos-hal uart.c:206).                       *)
THEOREM BytesInOrder == Spec => []InOrder
  <1>1. ASSUME Init PROVE OrderOK
    <2>1. /\ rx_queue = <<>> /\ tx_queue = <<>> /\ gone = {}
          /\ In(rxdr) = {} /\ In(shift) = {} /\ In(txdr) = {}
          /\ \A k \in Tasks : heard[k] = 0 /\ next[k] = 1
      BY <1>1 DEF Init, In
    <2>2. Sorted(<<>>) /\ ToSet(<<>>) = {}
      BY EmptySet DEF Sorted
    <2>3. LineOK
      BY <2>1, <2>2 DEF LineOK, InLine, Ahead
    <2>4. NumbersOK
      BY <2>1, <2>2 DEF NumbersOK, Received, Unsent
    <2> QED
      BY <2>3, <2>4 DEF OrderOK
  <1> QED
    BY <1>1, InitTypeOK, NextTypeOK, NextOrder, LineIsInOrder, PTL DEF Spec
=============================================================================
