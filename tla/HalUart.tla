------------------------------- MODULE HalUart -------------------------------
(***************************************************************************)
(* The interrupt driven UART: kubos-hal/source/uart.c on the driver        *)
(* kubos-hal-stm32f4/source/uart.c, with the registers of the device.  Its *)
(* output is wired to an input of the same device, as the driver's tests   *)
(* wire one port to another.                                               *)
(*                                                                         *)
(* One processor: the interrupt handler runs between any two steps of the  *)
(* tasks and is one step, for no task runs beside it and a byte takes      *)
(* longer on the wire.  The device goes on by itself.                      *)
(***************************************************************************)
EXTENDS Naturals, Sequences, FiniteSets, SequencesExt

CONSTANTS
  Writers,      \* Tasks that call k_uart_write.
  Urgent,       \* Tasks that call k_uart_write_immediate.
  NumBytes,     \* Bound: bytes a task ever writes with k_uart_write,
  NumUrgent,    \* and with k_uart_write_immediate.
  NoByte,
  TxLength,     \* tx_queue_len of the configuration.
  RxLength,     \* rx_queue_len of the configuration.
  Noise,        \* Whether a byte may arrive damaged, or not at all.
  Sessions      \* Bound: times k_uart_init is called.

ASSUME UartAssumption ==
  /\ Writers \intersect Urgent = {}
  /\ IsFiniteSet(Writers \union Urgent)
  /\ NumBytes \in Nat /\ NumUrgent \in 0..NumBytes /\ Sessions \in Nat
  /\ NoByte \notin (Writers \union Urgent) \X (1..NumBytes)
  /\ TxLength \in Nat \ {0} /\ RxLength \in Nat \ {0}
  /\ Noise \in BOOLEAN

VARIABLES
  session,  \* How often the port has been set up.
  on,       \* Whether it is: there are queues and the interrupt is enabled.
  tx_queue, \* k_uart->tx_queue
  rx_queue, \* k_uart->rx_queue
  txeie,    \* CR1: interrupt when the transmit register is empty.
  txdr,     \* The transmit register; TXE is set when it holds nothing.
  shift,    \* The byte on the wire.
  rxdr,     \* The receive register; RXNE is set when it holds something.
  err,      \* SR: one of PE, FE, NE and ORE is set.
  pc,       \* Where a task is in its call.
  left,     \* Bytes of its call still to write.
  next,     \* History: the number of its next byte.
  gone,     \* History: what has left the device, or was dropped with it.
  heard     \* History: the number of the last byte of a task that was read.

queues == <<tx_queue, rx_queue>>
device == <<txeie, txdr, shift, rxdr, err>>
tasks == <<pc, left, next>>
history == <<gone, heard>>
vars == <<session, on, queues, device, tasks, history>>

Tasks == Writers \union Urgent
Bytes == Tasks \X (1..NumBytes)
Cell == Bytes \union {NoByte}

Init ==
  /\ session = 0 /\ on = FALSE
  /\ tx_queue = <<>> /\ rx_queue = <<>>
  /\ txeie = FALSE /\ txdr = NoByte /\ shift = NoByte /\ rxdr = NoByte /\ err = FALSE
  /\ pc = [k \in Tasks |-> "idle"]
  /\ left = [k \in Tasks |-> 0]
  /\ next = [k \in Tasks |-> 1]
  /\ gone = {}
  /\ heard = [k \in Tasks |-> 0]

-----------------------------------------------------------------------------
(***************************************************************************)
(* Setting up and taking down, while no task is in a call (the functions   *)
(* look at a queue once and use it many times).                            *)
(***************************************************************************)
Quiet == \A k \in Tasks : pc[k] = "idle"

\* The queues are made before the interrupt is enabled.
k_uart_init ==
  /\ ~on /\ session < Sessions
  /\ session' = session + 1
  /\ on' = TRUE
  /\ tx_queue' = <<>> /\ rx_queue' = <<>>
  /\ UNCHANGED <<device, tasks, history>>

(* The queues go with what they hold.  The clock of the device is turned   *)
(* off and nothing clears its registers: what one holds may be there when  *)
(* the port is set up again, or not.  TXEIE stays as it is.                *)
k_uart_terminate ==
  /\ on /\ Quiet
  /\ on' = FALSE
  /\ tx_queue' = <<>> /\ rx_queue' = <<>>
  /\ txdr' \in {txdr, NoByte} /\ shift' \in {shift, NoByte}
  /\ gone' = gone \union ToSet(tx_queue)
                  \union (({txdr, shift} \ {txdr', shift'}) \ {NoByte})
  /\ rxdr' \in {rxdr, NoByte} /\ err' \in {err, FALSE}
  /\ UNCHANGED <<session, txeie, tasks, heard>>

(***************************************************************************)
(* k_uart_write: a byte is queued, waiting for room, and then the          *)
(* interrupt that takes it is enabled.                                     *)
(***************************************************************************)
k_uart_write(k) ==
  /\ on /\ pc[k] = "idle"
  /\ \E len \in 1..(NumBytes - next[k] + 1) : left' = [left EXCEPT ![k] = len]
  /\ pc' = [pc EXCEPT ![k] = "push"]
  /\ UNCHANGED <<session, on, queues, device, next, history>>

\* Mutant: the interrupt is enabled once, after the last byte.
queue_pushAll(k) ==
  /\ pc[k] = "push"
  /\ Len(tx_queue) < TxLength
  /\ tx_queue' = Append(tx_queue, <<k, next[k]>>)
  /\ next' = [next EXCEPT ![k] = @ + 1]
  /\ left' = [left EXCEPT ![k] = @ - 1]
  /\ pc' = [pc EXCEPT ![k] = IF left[k] = 1 THEN "enable" ELSE "push"]
  /\ UNCHANGED <<session, on, rx_queue, device, history>>

queue_push(k) ==
  /\ pc[k] = "push"
  /\ Len(tx_queue) < TxLength
  /\ tx_queue' = Append(tx_queue, <<k, next[k]>>)
  /\ next' = [next EXCEPT ![k] = @ + 1]
  /\ left' = [left EXCEPT ![k] = @ - 1]
  /\ pc' = [pc EXCEPT ![k] = "enable"]
  /\ UNCHANGED <<session, on, rx_queue, device, history>>

\* Mutant: not while a byte is being sent.
EnableTxIntIdle(k) ==
  /\ pc[k] = "enable"
  /\ txeie' = (txeie \/ txdr = NoByte)
  /\ pc' = [pc EXCEPT ![k] = IF left[k] = 0 THEN "idle" ELSE "push"]
  /\ UNCHANGED <<session, on, queues, txdr, shift, rxdr, err, left, next, history>>

\* kprv_uart_enable_tx_int; the loop goes on or the call returns.
EnableTxInt(k) ==
  /\ pc[k] = "enable"
  /\ txeie' = TRUE
  /\ pc' = [pc EXCEPT ![k] = IF left[k] = 0 THEN "idle" ELSE "push"]
  /\ UNCHANGED <<session, on, queues, txdr, shift, rxdr, err, left, next, history>>

(* k_uart_write_immediate: the register is written whatever it holds, and  *)
(* then the call waits until it is empty.                                  *)
WriteImmediate(k) ==
  /\ on /\ pc[k] = "idle" /\ next[k] <= NumUrgent
  /\ txdr' = <<k, next[k]>>
  /\ next' = [next EXCEPT ![k] = @ + 1]
  /\ pc' = [pc EXCEPT ![k] = "spin"]
  /\ UNCHANGED <<session, on, queues, txeie, shift, rxdr, err, left, history>>

Written(k) ==
  /\ pc[k] = "spin"
  /\ txdr = NoByte
  /\ pc' = [pc EXCEPT ![k] = "idle"]
  /\ UNCHANGED <<session, on, queues, device, left, next, history>>

(* k_uart_read, a byte of it: what is in the queue, without waiting.       *)
k_uart_read ==
  /\ on
  /\ rx_queue # <<>>
  /\ heard' = [heard EXCEPT ![Head(rx_queue)[1]] = Head(rx_queue)[2]]
  /\ rx_queue' = Tail(rx_queue)
  /\ UNCHANGED <<session, on, tx_queue, device, tasks, gone>>

-----------------------------------------------------------------------------
(***************************************************************************)
(* uart_irq_handler.  An error flag is cleared by reading the receive      *)
(* register, and what it held goes with it.                                *)
(***************************************************************************)
Pending == on /\ (rxdr # NoByte \/ err \/ (txeie /\ txdr = NoByte))

Receive ==
  /\ err' = FALSE
  /\ rxdr' = NoByte
  /\ rx_queue' = IF err \/ rxdr = NoByte \/ Len(rx_queue) = RxLength
                   THEN rx_queue ELSE Append(rx_queue, rxdr)

\* Mutant: the byte that is sent stays in the queue.
TransmitPeek ==
  IF txdr # NoByte THEN UNCHANGED <<tx_queue, txdr, txeie>>
  ELSE IF tx_queue # <<>>
         THEN txdr' = Head(tx_queue) /\ UNCHANGED <<tx_queue, txeie>>
         ELSE txeie' = FALSE /\ UNCHANGED <<tx_queue, txdr>>

\* Mutant: the flag TXE is not looked at.
TransmitAlways ==
  IF tx_queue # <<>>
    THEN /\ txdr' = Head(tx_queue)
         /\ tx_queue' = Tail(tx_queue)
         /\ UNCHANGED txeie
    ELSE txeie' = FALSE /\ UNCHANGED <<tx_queue, txdr>>

Transmit ==
  IF txdr # NoByte THEN UNCHANGED <<tx_queue, txdr, txeie>>
  ELSE IF tx_queue # <<>>
         THEN /\ txdr' = Head(tx_queue)
              /\ tx_queue' = Tail(tx_queue)
              /\ UNCHANGED txeie
         ELSE txeie' = FALSE /\ UNCHANGED <<tx_queue, txdr>>

uart_irq_handler ==
  /\ Pending
  /\ Receive
  /\ Transmit
  /\ UNCHANGED <<session, on, shift, tasks, history>>

(***************************************************************************)
(* The device.                                                             *)
(***************************************************************************)
Shift ==
  /\ on
  /\ shift = NoByte /\ txdr # NoByte
  /\ shift' = txdr /\ txdr' = NoByte
  /\ UNCHANGED <<session, on, queues, txeie, rxdr, err, tasks, history>>

(* The byte has left.  It arrives, whole or damaged, or is lost: in the    *)
(* register that is full, or on the wire.                                  *)
Arrive ==
  /\ on
  /\ shift # NoByte
  /\ gone' = gone \union {shift}
  /\ shift' = NoByte
  /\ \/ rxdr = NoByte /\ rxdr' = shift /\ \E e \in {FALSE, Noise} : err' = (err \/ e)
     \/ rxdr # NoByte /\ err' = TRUE /\ UNCHANGED rxdr
     \/ Noise /\ UNCHANGED <<rxdr, err>>
  /\ UNCHANGED <<session, on, queues, txeie, txdr, tasks, heard>>

WriterStep(k) == queue_push(k) \/ EnableTxInt(k)

Finished ==
  /\ ~on /\ session = Sessions
  /\ UNCHANGED vars

Next ==
  \/ k_uart_init \/ k_uart_terminate
  \/ \E k \in Writers : k_uart_write(k) \/ WriterStep(k)
  \/ \E k \in Urgent : WriteImmediate(k) \/ Written(k)
  \/ k_uart_read
  \/ uart_irq_handler
  \/ Shift \/ Arrive
  \/ Finished

Spec == Init /\ [][Next]_vars

(* An interrupt that is pending is taken, the device goes on, and so does  *)
(* a task that can.                                                        *)
Fairness ==
  /\ WF_vars(uart_irq_handler)
  /\ WF_vars(Shift) /\ WF_vars(Arrive)
  /\ \A k \in Writers : WF_vars(WriterStep(k))
  /\ \A k \in Urgent : WF_vars(Written(k))

FairSpec == Spec /\ Fairness

-----------------------------------------------------------------------------
(***************************************************************************)
(* Properties.                                                             *)
(***************************************************************************)

(* Every variable has its type; a task that waits for room has a byte to   *)
(* write, and a port that is down has no queues and no calls.              *)
TypeOK ==
  /\ session \in 0..Sessions /\ on \in BOOLEAN
  /\ tx_queue \in Seq(Bytes) /\ Len(tx_queue) <= TxLength
  /\ rx_queue \in Seq(Bytes) /\ Len(rx_queue) <= RxLength
  /\ txeie \in BOOLEAN /\ err \in BOOLEAN
  /\ txdr \in Cell /\ shift \in Cell /\ rxdr \in Cell
  /\ pc \in [Tasks -> {"idle", "push", "enable", "spin"}]
  /\ left \in [Tasks -> 0..NumBytes]
  /\ next \in [Tasks -> 1..NumBytes + 1]
  /\ gone \subseteq Bytes /\ heard \in [Tasks -> 0..NumBytes]
  /\ \A k \in Tasks : next[k] + left[k] <= NumBytes + 1
  /\ \A k \in Tasks : pc[k] = "push" => left[k] > 0
  /\ \A k \in Tasks : pc[k] \in {"idle", "spin"} => left[k] = 0
  /\ ~on => tx_queue = <<>> /\ rx_queue = <<>> /\ Quiet

(* No byte is forgotten in the queue: whenever it holds one, the interrupt *)
(* that takes it is enabled, or a writer is about to enable it.  The       *)
(* handler turns it off when the queue is empty, which it may be only      *)
(* until the next push (kubos-hal uart.c:206-210, stm32f4 uart.c:402-412). *)
NoByteStuck ==
  tx_queue # <<>> => txeie \/ \E k \in Writers : pc[k] = "enable"

\* A register as a sequence; the bytes of task k in it have rising numbers.
Held(r) == IF r = NoByte THEN <<>> ELSE <<r>>
Rising(k, s) ==
  \A i, j \in DOMAIN s : s[i][1] = k /\ s[j][1] = k /\ i < j => s[i][2] < s[j][2]

(* What one task writes leaves the device in its order, and comes out of   *)
(* k_uart_read in its order, each byte once: through two queues and three  *)
(* registers, over calls of several tasks, and over a port that is taken   *)
(* down and set up again.                                                  *)
InOrder ==
  LET out == Held(shift) \o Held(txdr) \o tx_queue
      in == rx_queue \o Held(rxdr) \o Held(shift)
  IN  /\ \A k \in Tasks : Rising(k, out) /\ Rising(k, <<<<k, heard[k]>>>> \o in)
      /\ ToSet(out) \intersect gone = {}

\* The bytes handed to the device or its queue, and where they can be.
Taken == {b \in Bytes : b[2] < next[b[1]]}
Known == gone \union ToSet(tx_queue) \union {shift, txdr}

(* The only bytes that never leave the device are those k_uart_terminate   *)
(* finds unsent and one for each k_uart_write_immediate, which writes over *)
(* a byte the handler has just put in the register (stm32f4 uart.c:342).   *)
LostToImmediate ==
  Cardinality(Taken \ Known) <= Cardinality({b \in Taken : b[1] \in Urgent})

(* A call of k_uart_write or k_uart_write_immediate returns: room comes,   *)
(* and the register empties, while the interrupt is served                 *)
(* (kubos-hal uart.c:206, stm32f4 uart.c:343).                             *)
WriteReturns == \A k \in Tasks : (pc[k] # "idle") ~> (pc[k] = "idle")
=============================================================================
