--------------------------- MODULE BoundedChannel ---------------------------
(***************************************************************************)
(* What the queues of libcsp/include/csp/arch/csp_queue.h promise to the   *)
(* tasks that share one: it is a channel of at most Capacity values, and   *)
(* every call takes effect at one instant between its start and its        *)
(* return, or has no effect and says so.  PosixQueue implements it.        *)
(***************************************************************************)
EXTENDS Naturals, Sequences

CONSTANTS Tasks,        \* the tasks that call the queue
          Values,       \* what is put into it
          NoValue,      \* not a value
          Capacity      \* the length it was created with

VARIABLES chan,         \* what is in the queue, the oldest value first
          call          \* per task: the call it is in and the call's value

vars == <<chan, call>>

None == [op |-> "none", value |-> NoValue]

Init ==
    /\ chan = <<>>
    /\ call = [t \in Tasks |-> None]

(* A task calls csp_queue_enqueue with a value, or csp_queue_dequeue. *)
Begin(t) ==
    /\ call[t] = None
    /\ \/ \E v \in Values : call' = [call EXCEPT ![t] = [op |-> "put", value |-> v]]
       \/ call' = [call EXCEPT ![t] = [op |-> "take", value |-> NoValue]]
    /\ UNCHANGED chan

(* The value becomes the newest. *)
Put(t) ==
    /\ call[t].op = "put"
    /\ Len(chan) < Capacity
    /\ chan' = Append(chan, call[t].value)
    /\ call' = [call EXCEPT ![t].op = "done"]

(* The call is given the oldest value. *)
Take(t) ==
    /\ call[t].op = "take"
    /\ chan # <<>>
    /\ chan' = Tail(chan)
    /\ call' = [call EXCEPT ![t] = [op |-> "done", value |-> Head(chan)]]

(* The call returns: after it took effect, or without having had one. *)
Return(t) ==
    /\ call[t].op # "none"
    /\ call' = [call EXCEPT ![t] = None]
    /\ UNCHANGED chan

Next == \E t \in Tasks : Begin(t) \/ Put(t) \/ Take(t) \/ Return(t)

Spec == Init /\ [][Next]_vars
=============================================================================
