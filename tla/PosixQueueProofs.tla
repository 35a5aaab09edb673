-------------------------- MODULE PosixQueueProofs --------------------------
(***************************************************************************)
(* What TLAPS proves about PosixQueue, for any number of threads, any size *)
(* of the ring and any timeouts: its type invariant, that no wake-up is    *)
(* lost, that timeouts are waited out, and that it implements the bounded  *)
(* channel.                                                                *)
(***************************************************************************)
EXTENDS PosixQueue, SequenceTheorems, TLAPS

-----------------------------------------------------------------------------
(* Arithmetic of the ring. *)

(* % Size leaves a slot number alone and brings one back that has run over *)
(* the end once.                                                           *)
LEMMA Wrap ==
    ASSUME NEW x \in 0 .. (2 * Size) - 1
    PROVE  x % Size = IF x < Size THEN x ELSE x - Size
  <1> USE SizeAssumption
  <1>1. CASE x < Size
    BY <1>1
  <1>2. CASE ~(x < Size)
    BY <1>2
  <1> QED
    BY <1>1, <1>2

-----------------------------------------------------------------------------
(* The inductive invariant: the newest value is `items` slots after the    *)
(* oldest, and a thread is in the wait set of a condition exactly while it *)
(* sleeps in the call that waits for it.                                   *)
RingOK == in = (out + items) % Size

WaitSetsOK ==
    /\ \A t \in cond_full : pc[t] = "wait" /\ op[t] = "enqueue"
    /\ \A t \in cond_empty : pc[t] = "wait" /\ op[t] = "dequeue"

IInv == TypeOK /\ RingOK /\ WaitSetsOK /\ NoLostWakeup

(* The next slot. *)
LEMMA NextSlot ==
    ASSUME NEW x \in Slots
    PROVE  /\ (x + 1) % Size \in Slots
           /\ (x + 1) % Size = IF x + 1 < Size THEN x + 1 ELSE 0
  <1>1. Size \in Nat /\ x + 1 \in 0 .. (2 * Size) - 1
    BY SizeAssumption DEF Slots
  <1> DEFINE y == x + 1
  <1>2. y % Size = IF y < Size THEN y ELSE y - Size
    <2> HIDE DEF y
    <2> QED
      BY <1>1, Wrap DEF y
  <1> DEFINE s == (x + 1) % Size
  <1> HIDE DEF s
  <1>3. s = IF x + 1 < Size THEN x + 1 ELSE x + 1 - Size
    BY <1>1, <1>2, SizeAssumption DEF s, Slots
  <1>4. s \in Slots /\ s = IF x + 1 < Size THEN x + 1 ELSE 0
    BY <1>1, <1>3 DEF Slots
  <1> QED
    BY <1>4 DEF s

(* The slot a number of values after a slot, before and after the ring     *)
(* moves on by one.                                                        *)
LEMMA SlotAfter ==
    ASSUME NEW x \in Slots, NEW k \in 0 .. Size
    PROVE  /\ (x + k) % Size \in Slots
           /\ (x + k) % Size = IF x + k < Size THEN x + k ELSE x + k - Size
  <1>1. Size \in Nat \ {0} /\ x + k \in 0 .. (2 * Size) - 1
    BY SizeAssumption DEF Slots
  <1> DEFINE y == x + k
  <1>2. y % Size = IF y < Size THEN y ELSE y - Size
    <2> HIDE DEF y
    <2> QED
      BY <1>1, Wrap DEF y
  <1> DEFINE s == (x + k) % Size
  <1> HIDE DEF s
  <1>3. s = IF x + k < Size THEN x + k ELSE x + k - Size
    BY <1>1, <1>2, SizeAssumption DEF s, Slots
  <1>4. s \in Slots /\ s = IF x + k < Size THEN x + k ELSE x + k - Size
    BY <1>1, <1>3 DEF Slots
  <1> QED
    BY <1>4 DEF s

(* A deadline is an integer. *)
LEMMA DeadlineInt ==
    ASSUME now \in Nat, NEW timeout \in Timeouts
    PROVE  Deadline(timeout) \in Int
  <1>1. timeout \in Nat /\ Second \in Nat \ {0}
    BY TimeAssumption
  <1>2. /\ now \div Second \in Int /\ now % Second \in Int
        /\ timeout \div Second \in Int /\ timeout % Second \in Int
    BY <1>1
  <1>3. ((now % Second) + (timeout % Second)) % Second \in Int
    BY <1>1, <1>2
  <1> DEFINE sec == (now \div Second) + (timeout \div Second)
  <1>4. sec \in Int /\ (IF (now % Second) + (timeout % Second) > Second THEN sec + 1 ELSE sec) \in Int
    BY <1>2
  <1> HIDE DEF sec
  <1> DEFINE s2 == IF (now % Second) + (timeout % Second) > Second THEN sec + 1 ELSE sec
  <1>5. s2 * Second \in Int
    <2>1. s2 \in Int
      BY <1>4
    <2> HIDE DEF s2
    <2> QED
      BY <2>1, <1>1
  <1>6. Deadline(timeout) = s2 * Second + (((now % Second) + (timeout % Second)) % Second)
    BY DEF Deadline, sec
  <1> HIDE DEF s2
  <1> QED
    BY <1>3, <1>5, <1>6

THEOREM InitIInv == Init => IInv
  <1> SUFFICES ASSUME Init PROVE IInv
    OBVIOUS
  <1>1. TypeOK
    BY SizeAssumption, TimeAssumption DEF Init, TypeOK, Slots, Ops
  <1>2. RingOK
    BY SizeAssumption DEF Init, RingOK
  <1> QED
    BY <1>1, <1>2 DEF Init, IInv, WaitSetsOK, NoLostWakeup

-----------------------------------------------------------------------------
(* Each step keeps the inductive invariant. *)

LEMMA BeginKeeps ==
    ASSUME IInv, NEW t \in Tasks, Begin(t)
    PROVE  IInv'
  <1> USE DEF IInv
  <1>1. TypeOK'
    <2>1. PICK timeout \in Timeouts :
            /\ ts' = [ts EXCEPT ![t] = Deadline(timeout)]
            /\ due' = [due EXCEPT ![t] = now + timeout]
      BY DEF Begin
    <2>2. Deadline(timeout) \in Int /\ now + timeout \in Int
      BY DeadlineInt, TimeAssumption DEF TypeOK
    <2>3. ts' \in [Tasks -> Int] /\ due' \in [Tasks -> Int]
      BY <2>1, <2>2 DEF TypeOK
    <2>4. op' \in [Tasks -> Ops \union {"none"}] /\ op'[t] # "none"
      BY DEF TypeOK, Begin, Ops
    <2>5. value' \in [Tasks -> Values \union {NoValue}]
      BY ValueAssumption DEF TypeOK, Begin
    <2>6. pc' \in [Tasks -> {"idle", "lock", "wait", "timedout", "notify"}] /\ pc'[t] = "lock"
      BY DEF TypeOK, Begin
    <2>7. \A u \in Tasks : (op'[u] = "none") <=> (pc'[u] = "idle")
      BY <2>4, <2>6 DEF TypeOK, Begin
    <2> QED
      BY <2>3, <2>4, <2>5, <2>6, <2>7 DEF TypeOK, Begin, queue, conds
  <1>2. RingOK'
    BY DEF RingOK, Begin, queue
  <1>3. WaitSetsOK'
    BY DEF WaitSetsOK, Begin, conds, TypeOK
  <1>4. NoLostWakeup'
    BY DEF NoLostWakeup, Begin, conds, queue, TypeOK
  <1> QED
    BY <1>1, <1>2, <1>3, <1>4

LEMMA EnqueueFullKeeps ==
    ASSUME IInv, NEW t \in Tasks, EnqueueFull(t)
    PROVE  IInv'
  <1> USE DEF IInv
  <1>1. TypeOK'
    BY DEF TypeOK, EnqueueFull, Sleeps, queue, times
  <1>2. RingOK'
    BY DEF RingOK, EnqueueFull, queue
  <1>3. WaitSetsOK'
    BY DEF WaitSetsOK, EnqueueFull, Sleeps, TypeOK
  <1>4. NoLostWakeup'
    <2>1. items' = Size /\ items \in Int /\ Size \in Int
      BY SizeAssumption DEF EnqueueFull, queue, TypeOK
    <2>2. \A u \in Tasks : pc[u] = "notify" => pc'[u] = "notify" /\ op'[u] = op[u]
      BY DEF EnqueueFull, Sleeps, TypeOK
    <2> QED
      BY <2>1, <2>2 DEF NoLostWakeup, EnqueueFull, queue
  <1> QED
    BY <1>1, <1>2, <1>3, <1>4

LEMMA DequeueEmptyKeeps ==
    ASSUME IInv, NEW t \in Tasks, DequeueEmpty(t)
    PROVE  IInv'
  <1> USE DEF IInv
  <1>1. TypeOK'
    BY DEF TypeOK, DequeueEmpty, Sleeps, queue, times
  <1>2. RingOK'
    BY DEF RingOK, DequeueEmpty, queue
  <1>3. WaitSetsOK'
    BY DEF WaitSetsOK, DequeueEmpty, Sleeps, TypeOK
  <1>4. NoLostWakeup'
    <2>1. items' = 0
      BY DEF DequeueEmpty, queue
    <2>2. \A u \in Tasks : pc[u] = "notify" => pc'[u] = "notify" /\ op'[u] = op[u]
      BY DEF DequeueEmpty, Sleeps, TypeOK
    <2> QED
      BY <2>1, <2>2 DEF NoLostWakeup, DequeueEmpty, queue
  <1> QED
    BY <1>1, <1>2, <1>3, <1>4

LEMMA EnqueueCopyKeeps ==
    ASSUME IInv, NEW t \in Tasks, EnqueueCopy(t)
    PROVE  IInv'
  <1> USE DEF IInv
  <1>0. items' = items + 1 /\ items \in 0 .. Size /\ items # Size /\ Size \in Nat /\ in \in Slots
    BY SizeAssumption DEF EnqueueCopy, TypeOK
  <1>1. TypeOK'
    <2>1. in' \in Slots
      BY <1>0, NextSlot DEF EnqueueCopy
    <2>2. items' \in 0 .. Size
      BY <1>0
    <2>3. buffer' \in [Slots -> Values \union {NoValue}]
      BY DEF EnqueueCopy, TypeOK
    <2> QED
      BY <2>1, <2>2, <2>3 DEF TypeOK, EnqueueCopy, conds, times
  <1>2. RingOK'
    <2>1. out \in Slots /\ items + 1 \in 0 .. Size /\ out' = out
      BY <1>0 DEF TypeOK, EnqueueCopy
    <2>2. in = IF out + items < Size THEN out + items ELSE out + items - Size
      BY <1>0, <2>1, SlotAfter DEF RingOK
    <2>3. in' = IF in + 1 < Size THEN in + 1 ELSE 0
      BY <1>0, NextSlot DEF EnqueueCopy
    <2>4. (out + (items + 1)) % Size
            = IF out + (items + 1) < Size THEN out + (items + 1) ELSE out + (items + 1) - Size
      BY <2>1, SlotAfter
    <2>5. in' = IF out + (items + 1) < Size THEN out + (items + 1) ELSE out + (items + 1) - Size
      BY <1>0, <2>1, <2>2, <2>3 DEF Slots
    <2>6. in' = (out + (items + 1)) % Size
      BY <2>4, <2>5
    <2> QED
      BY <1>0, <2>1, <2>6 DEF RingOK
  <1>3. WaitSetsOK'
    BY DEF WaitSetsOK, EnqueueCopy, conds, TypeOK
  <1>4. NoLostWakeup'
    <2>1. pc'[t] = "notify" /\ op'[t] = "enqueue"
      BY DEF EnqueueCopy, TypeOK
    <2>2. cond_full # {} => \E u \in Tasks : pc'[u] = "notify" /\ op'[u] = "dequeue"
      BY <1>0 DEF NoLostWakeup, EnqueueCopy, TypeOK
    <2> QED
      BY <2>1, <2>2 DEF NoLostWakeup, EnqueueCopy, conds
  <1> QED
    BY <1>1, <1>2, <1>3, <1>4

LEMMA DequeueCopyKeeps ==
    ASSUME IInv, NEW t \in Tasks, DequeueCopy(t)
    PROVE  IInv'
  <1> USE DEF IInv
  <1>0. items' = items - 1 /\ items \in 0 .. Size /\ items # 0 /\ Size \in Nat /\ out \in Slots
    BY SizeAssumption DEF DequeueCopy, TypeOK
  <1>1. TypeOK'
    <2>1. out' \in Slots
      BY <1>0, NextSlot DEF DequeueCopy
    <2>2. items' \in 0 .. Size
      BY <1>0
    <2>3. value' \in [Tasks -> Values \union {NoValue}]
      BY <1>0 DEF DequeueCopy, TypeOK
    <2> QED
      BY <2>1, <2>2, <2>3 DEF TypeOK, DequeueCopy, conds, times
  <1>2. RingOK'
    <2>1. items \in 0 .. Size /\ items - 1 \in 0 .. Size /\ in' = in
      BY <1>0 DEF DequeueCopy
    <2>2. in = IF out + items < Size THEN out + items ELSE out + items - Size
      BY <1>0, <2>1, SlotAfter DEF RingOK
    <2>3. out' \in Slots /\ out' = IF out + 1 < Size THEN out + 1 ELSE 0
      BY <1>0, NextSlot DEF DequeueCopy
    <2>4. (out' + (items - 1)) % Size
            = IF out' + (items - 1) < Size THEN out' + (items - 1) ELSE out' + (items - 1) - Size
      BY <2>1, <2>3, SlotAfter
    <2>5. in = IF out' + (items - 1) < Size THEN out' + (items - 1) ELSE out' + (items - 1) - Size
      BY <1>0, <2>2, <2>3 DEF Slots
    <2>6. in' = (out' + (items - 1)) % Size
      BY <2>1, <2>4, <2>5
    <2> QED
      BY <1>0, <2>6 DEF RingOK
  <1>3. WaitSetsOK'
    BY DEF WaitSetsOK, DequeueCopy, conds, TypeOK
  <1>4. NoLostWakeup'
    <2>1. pc'[t] = "notify" /\ op'[t] = "dequeue"
      BY DEF DequeueCopy, TypeOK
    <2>2. cond_empty # {} => \E u \in Tasks : pc'[u] = "notify" /\ op'[u] = "enqueue"
      BY <1>0 DEF NoLostWakeup, DequeueCopy, TypeOK
    <2> QED
      BY <2>1, <2>2 DEF NoLostWakeup, DequeueCopy, conds
  <1> QED
    BY <1>1, <1>2, <1>3, <1>4

LEMMA NotifyKeeps ==
    ASSUME IInv, NEW t \in Tasks, Notify(t)
    PROVE  IInv'
  <1> USE DEF IInv
  <1>0. /\ op' = [op EXCEPT ![t] = "none"] /\ value' = [value EXCEPT ![t] = NoValue]
        /\ ts' = [ts EXCEPT ![t] = 0] /\ due' = [due EXCEPT ![t] = 0]
        /\ UNCHANGED <<buffer, items, in, out, now>>
    BY DEF Notify, Returns, queue
  <1>1. PICK S \in {cond_empty, cond_full} :
          /\ pc' = Woken(S, t)
          /\ \/ op[t] = "enqueue" /\ S = cond_empty /\ cond_empty' = {} /\ cond_full' = cond_full
             \/ op[t] = "dequeue" /\ S = cond_full /\ cond_full' = {} /\ cond_empty' = cond_empty
    BY DEF Notify
  <1>2. /\ pc' \in [Tasks -> {"idle", "lock", "wait", "timedout", "notify"}]
        /\ pc'[t] = "idle"
        /\ \A u \in Tasks \ {t} : pc'[u] = IF u \in S THEN "lock" ELSE pc[u]
    BY <1>1 DEF Woken, TypeOK
  <1>3. \A u \in S : pc[u] = "wait"
    BY <1>1 DEF WaitSetsOK
  <1>4. \A u \in Tasks \ {t} : op'[u] = op[u] /\ (pc[u] = "notify" => pc'[u] = "notify")
    BY <1>0, <1>2, <1>3 DEF TypeOK
  <1>5. TypeOK'
    <2>1. \A u \in Tasks : (op'[u] = "none") <=> (pc'[u] = "idle")
      BY <1>0, <1>2, <1>3 DEF TypeOK
    <2>2. cond_full' \subseteq Tasks /\ cond_empty' \subseteq Tasks
      BY <1>1 DEF TypeOK
    <2>3. /\ op' \in [Tasks -> Ops \union {"none"}]
          /\ value' \in [Tasks -> Values \union {NoValue}]
          /\ ts' \in [Tasks -> Int] /\ due' \in [Tasks -> Int]
      BY <1>0 DEF TypeOK
    <2>4. /\ buffer' \in [Slots -> Values \union {NoValue}]
          /\ items' \in 0 .. Size /\ in' \in Slots /\ out' \in Slots /\ now' \in Nat
      BY <1>0 DEF TypeOK
    <2> QED
      BY <1>2, <2>1, <2>2, <2>3, <2>4 DEF TypeOK
  <1>6. RingOK'
    BY <1>0 DEF RingOK
  <1>7. WaitSetsOK'
    <2>1. pc[t] = "notify" /\ t \notin cond_full /\ t \notin cond_empty
      BY DEF Notify, WaitSetsOK
    <2>2. ASSUME NEW u \in cond_full' PROVE pc'[u] = "wait" /\ op'[u] = "enqueue"
      <3>1. u \in cond_full /\ S = cond_empty /\ u \in Tasks \ {t}
        BY <1>1, <2>1, <2>2 DEF TypeOK
      <3>2. u \notin S
        BY <3>1 DEF WaitSetsOK
      <3> QED
        BY <1>2, <1>4, <3>1, <3>2 DEF WaitSetsOK
    <2>3. ASSUME NEW u \in cond_empty' PROVE pc'[u] = "wait" /\ op'[u] = "dequeue"
      <3>1. u \in cond_empty /\ S = cond_full /\ u \in Tasks \ {t}
        BY <1>1, <2>1, <2>3 DEF TypeOK
      <3>2. u \notin S
        BY <3>1 DEF WaitSetsOK
      <3> QED
        BY <1>2, <1>4, <3>1, <3>2 DEF WaitSetsOK
    <2> QED
      BY <2>2, <2>3 DEF WaitSetsOK
  <1>8. NoLostWakeup'
    <2>1. ASSUME cond_empty' # {}, items' > 0
          PROVE  \E u \in Tasks : pc'[u] = "notify" /\ op'[u] = "enqueue"
      <3>1. op[t] = "dequeue" /\ cond_empty' = cond_empty
        BY <1>1, <2>1
      <3>2. PICK u \in Tasks : pc[u] = "notify" /\ op[u] = "enqueue"
        BY <1>0, <2>1, <3>1 DEF NoLostWakeup
      <3> QED
        BY <1>4, <3>1, <3>2
    <2>2. ASSUME cond_full' # {}, items' < Size
          PROVE  \E u \in Tasks : pc'[u] = "notify" /\ op'[u] = "dequeue"
      <3>1. op[t] = "enqueue" /\ cond_full' = cond_full
        BY <1>1, <2>2
      <3>2. PICK u \in Tasks : pc[u] = "notify" /\ op[u] = "dequeue"
        BY <1>0, <2>2, <3>1 DEF NoLostWakeup
      <3> QED
        BY <1>4, <3>1, <3>2
    <2> QED
      BY <2>1, <2>2 DEF NoLostWakeup
  <1> QED
    BY <1>5, <1>6, <1>7, <1>8

LEMMA WakeKeeps ==
    ASSUME IInv, NEW t \in Tasks, SpuriousWakeup(t) \/ Timeout(t)
    PROVE  IInv'
  <1> USE DEF IInv, SpuriousWakeup, Timeout, Leaves, queue, times
  <1>1. pc[t] = "wait" /\ \E p \in {"lock", "timedout"} : pc' = [pc EXCEPT ![t] = p]
    OBVIOUS
  <1>2. \A u \in Tasks : pc[u] = "notify" => pc'[u] = "notify" /\ op'[u] = op[u]
    BY <1>1 DEF TypeOK
  <1>3. TypeOK'
    BY <1>1 DEF TypeOK
  <1>4. RingOK'
    BY DEF RingOK
  <1>5. WaitSetsOK'
    BY <1>1 DEF WaitSetsOK, TypeOK
  <1>6. NoLostWakeup'
    BY <1>2 DEF NoLostWakeup
  <1> QED
    BY <1>3, <1>4, <1>5, <1>6

LEMMA TimedOutKeeps ==
    ASSUME IInv, NEW t \in Tasks, TimedOut(t)
    PROVE  IInv'
  <1> USE DEF IInv, TimedOut, Returns, queue, conds
  <1>1. \A u \in Tasks : pc[u] = "notify" => pc'[u] = "notify" /\ op'[u] = op[u]
    BY DEF TypeOK
  <1>2. TypeOK'
    BY DEF TypeOK
  <1>3. RingOK'
    BY DEF RingOK
  <1>4. WaitSetsOK'
    BY DEF WaitSetsOK, TypeOK
  <1>5. NoLostWakeup'
    BY <1>1 DEF NoLostWakeup
  <1> QED
    BY <1>2, <1>3, <1>4, <1>5

LEMMA StutterKeeps ==
    ASSUME IInv, Tick \/ UNCHANGED vars
    PROVE  IInv'
  <1> USE DEF IInv, Tick, vars, queue, conds, times
  <1>1. TypeOK'
    BY DEF TypeOK
  <1> QED
    BY <1>1 DEF RingOK, WaitSetsOK, NoLostWakeup

(* Every step of the queue keeps the inductive invariant. *)
THEOREM NextIInv ==
    ASSUME IInv, [Next]_vars
    PROVE  IInv'
  <1>1. ASSUME NEW t \in Tasks, Begin(t) PROVE IInv'
    BY <1>1, BeginKeeps
  <1>2. ASSUME NEW t \in Tasks, Runs(t) PROVE IInv'
    BY <1>2, EnqueueFullKeeps, EnqueueCopyKeeps, DequeueEmptyKeeps, DequeueCopyKeeps,
       NotifyKeeps, WakeKeeps, TimedOutKeeps DEF Runs
  <1>3. ASSUME NEW t \in Tasks, SpuriousWakeup(t) PROVE IInv'
    BY <1>3, WakeKeeps
  <1>4. CASE Tick \/ UNCHANGED vars
    BY <1>4, StutterKeeps
  <1> QED
    BY <1>1, <1>2, <1>3, <1>4 DEF Next

(* The inductive invariant holds in every state the queue can reach. *)
THEOREM SpecIInv == Spec => []IInv
  BY InitIInv, NextIInv, PTL DEF Spec

(* Type correctness of the ring and of the calls, for any number of        *)
(* threads and any length of the queue.                                    *)
THEOREM TypeCorrect == Spec => []TypeOK
  BY SpecIInv, PTL DEF IInv

(* No wake-up is lost although the broadcast comes after the unlock and a  *)
(* thread that timed out does not look at the queue again: for any number  *)
(* of threads and any length of the queue.                                 *)
THEOREM WakeupsReachSleepers == Spec => []NoLostWakeup
  BY SpecIInv, PTL DEF IInv

-----------------------------------------------------------------------------
(* Timeouts: what the carry that is tested with > does to a deadline. *)

(* Seconds and the rest of an instant. *)
LEMMA Split ==
    ASSUME NEW a \in Nat
    PROVE  /\ a \div Second \in Nat /\ a % Second \in 0 .. Second - 1
           /\ a = (a \div Second) * Second + (a % Second)
  BY TimeAssumption

(* The rest of two rests. *)
LEMMA WrapSecond ==
    ASSUME NEW x \in 0 .. (2 * Second) - 1
    PROVE  x % Second = IF x < Second THEN x ELSE x - Second
  <1> USE TimeAssumption
  <1>1. CASE x < Second
    BY <1>1
  <1>2. CASE ~(x < Second)
    BY <1>2
  <1> QED
    BY <1>1, <1>2

LEMMA WholeSeconds ==
    ASSUME NEW q \in Int
    PROVE  (q * Second) % Second = 0
  BY TimeAssumption

(* A deadline d is no earlier than the end e of the timeout, or it is one  *)
(* second early, and then the timeout ends on a whole second.              *)
NotEarly(d, e) == d >= e \/ (e % Second = 0 /\ d >= e - Second)

LEMMA DeadlineNotEarly ==
    ASSUME now \in Nat, NEW timeout \in Timeouts
    PROVE  NotEarly(Deadline(timeout), now + timeout)
  <1> DEFINE a == now \div Second
             b == timeout \div Second
             x == now % Second
             y == timeout % Second
             n == x + y
  <1>1. timeout \in Nat /\ Second \in Nat \ {0}
    BY TimeAssumption
  <1>2. /\ a \in Nat /\ b \in Nat /\ x \in 0 .. Second - 1 /\ y \in 0 .. Second - 1
        /\ now = a * Second + x /\ timeout = b * Second + y
    BY <1>1, Split
  <1>3. Deadline(timeout)
          = (IF n > Second THEN (a + b) + 1 ELSE a + b) * Second + (n % Second)
    BY DEF Deadline
  <1> HIDE DEF a, b, x, y
  <1>4. n \in 0 .. (2 * Second) - 1
    BY <1>1, <1>2
  <1> HIDE DEF n
  <1>5. n % Second = IF n < Second THEN n ELSE n - Second
    BY <1>4, WrapSecond
  <1> DEFINE k == a + b
             m == k * Second
             d == Deadline(timeout)
  <1>6. k \in Nat /\ m \in Int /\ (k + 1) * Second = m + Second
    BY <1>1, <1>2
  <1>7. now + timeout = m + n
    BY <1>1, <1>2, <1>4 DEF n
  <1>8. d = (IF n > Second THEN m + Second ELSE m) + (n % Second)
    BY <1>3, <1>6
  <1>9. CASE n < Second
    <2>1. d = m + n
      BY <1>1, <1>4, <1>5, <1>6, <1>8, <1>9
    <2> QED
      BY <2>1, <1>1, <1>4, <1>6, <1>7 DEF NotEarly
  <1>10. CASE n = Second
    <2>1. d = m /\ now + timeout = (k + 1) * Second
      BY <1>1, <1>5, <1>6, <1>7, <1>8, <1>10
    <2>2. (now + timeout) % Second = 0
      BY <2>1, <1>6, WholeSeconds
    <2>3. d >= (now + timeout) - Second
      BY <2>1, <1>1, <1>6
    <2> QED
      BY <2>2, <2>3 DEF NotEarly
  <1>11. CASE n > Second
    <2>1. d = m + n
      BY <1>1, <1>4, <1>5, <1>6, <1>8, <1>11
    <2> QED
      BY <2>1, <1>1, <1>4, <1>6, <1>7 DEF NotEarly
  <1> QED
    BY <1>1, <1>4, <1>9, <1>10, <1>11

(* What TimeoutWaitedOut needs: a call's deadline is not early, and one    *)
(* that has timed out is past it.                                          *)
TimesOK ==
    /\ \A t \in Tasks : pc[t] # "idle" => NotEarly(ts[t], due[t])
    /\ \A t \in Tasks : pc[t] = "timedout" => now >= ts[t]

LEMMA TimesKept ==
    ASSUME IInv, TimesOK, [Next]_vars
    PROVE  TimesOK'
  <1>0. TypeOK /\ WaitSetsOK
    BY DEF IInv
  <1>1. ASSUME NEW t \in Tasks, Begin(t) PROVE TimesOK'
    <2>1. PICK timeout \in Timeouts :
            /\ ts' = [ts EXCEPT ![t] = Deadline(timeout)]
            /\ due' = [due EXCEPT ![t] = now + timeout]
      BY <1>1 DEF Begin
    <2>2. pc' = [pc EXCEPT ![t] = "lock"] /\ now' = now
      BY <1>1 DEF Begin
    <2>3. NotEarly(Deadline(timeout), now + timeout)
      BY <1>0, DeadlineNotEarly DEF TypeOK
    <2>4. \A u \in Tasks : pc'[u] # "idle" => NotEarly(ts'[u], due'[u])
      BY <1>0, <2>1, <2>2, <2>3 DEF TypeOK, TimesOK
    <2>5. \A u \in Tasks : pc'[u] = "timedout" => now' >= ts'[u]
      BY <1>0, <2>1, <2>2 DEF TypeOK, TimesOK
    <2> QED
      BY <2>4, <2>5 DEF TimesOK
  <1>2. ASSUME NEW t \in Tasks,
               \/ EnqueueFull(t) \/ EnqueueCopy(t) \/ DequeueEmpty(t) \/ DequeueCopy(t)
               \/ Timeout(t) \/ SpuriousWakeup(t)
        PROVE  TimesOK'
    <2>1. ts' = ts /\ due' = due /\ now' = now /\ pc[t] # "idle"
      BY <1>2 DEF EnqueueFull, EnqueueCopy, DequeueEmpty, DequeueCopy, Timeout, SpuriousWakeup, times
    <2>2. PICK p \in {"lock", "wait", "timedout", "notify"} :
            /\ pc' = [pc EXCEPT ![t] = p]
            /\ p = "timedout" => now >= ts[t]
      BY <1>2 DEF EnqueueFull, EnqueueCopy, DequeueEmpty, DequeueCopy, Timeout, SpuriousWakeup, Sleeps
    <2> QED
      BY <1>0, <2>1, <2>2 DEF TypeOK, TimesOK
  <1>3. ASSUME NEW t \in Tasks, Notify(t) \/ TimedOut(t) PROVE TimesOK'
    <2>1. /\ ts' = [ts EXCEPT ![t] = 0] /\ due' = [due EXCEPT ![t] = 0]
          /\ now' = now
      BY <1>3 DEF Notify, TimedOut, Returns
    <2>2. ASSUME NEW u \in Tasks, u # t
          PROVE  pc'[u] = pc[u] \/ (pc'[u] = "lock" /\ pc[u] = "wait")
      <3>1. CASE TimedOut(t)
        BY <1>0, <2>2, <3>1 DEF TimedOut, TypeOK
      <3>2. CASE Notify(t)
        <4>1. PICK S \in {cond_empty, cond_full} : pc' = Woken(S, t)
          BY <3>2 DEF Notify
        <4>2. pc'[u] = IF u \in S THEN "lock" ELSE pc[u]
          BY <2>2, <4>1 DEF Woken
        <4>3. u \in S => pc[u] = "wait"
          BY <1>0, <4>1 DEF WaitSetsOK
        <4> QED
          BY <4>2, <4>3
      <3> QED
        BY <1>3, <3>1, <3>2
    <2>3. pc'[t] = "idle"
      BY <1>0, <1>3 DEF Notify, TimedOut, Woken, TypeOK
    <2>4. \A u \in Tasks : u # t => ts'[u] = ts[u] /\ due'[u] = due[u]
      BY <1>0, <2>1 DEF TypeOK
    <2> QED
      BY <2>1, <2>2, <2>3, <2>4 DEF TimesOK
  <1>4. CASE Tick
    <2>1. now' >= now /\ now' \in Nat /\ now \in Nat /\ ts \in [Tasks -> Int]
      BY <1>0, <1>4 DEF Tick, TypeOK
    <2>2. ts' = ts /\ due' = due /\ pc' = pc
      BY <1>4 DEF Tick
    <2> QED
      BY <2>1, <2>2 DEF TimesOK
  <1>5. CASE UNCHANGED vars
    BY <1>5 DEF vars, times, TimesOK
  <1> QED
    BY <1>1, <1>2, <1>3, <1>4, <1>5 DEF Next, Runs

(* A call that answers FULL or EMPTY has waited out its timeout, but for   *)
(* the lost carry when the rests add up to a whole second: for any length  *)
(* of a second and any timeout (pthread_queue.c:91 and 133).               *)
THEOREM TimeoutsWaitedOut == Spec => []TimeoutWaitedOut
  <1>1. Init => TimesOK
    BY DEF Init, TimesOK
  <1>2. TimesOK /\ IInv => TimeoutWaitedOut
    <2> SUFFICES ASSUME TimesOK, IInv, NEW t \in Tasks, pc[t] = "timedout"
                 PROVE  \/ now >= due[t]
                        \/ due[t] % Second = 0 /\ now >= due[t] - Second
      BY DEF TimeoutWaitedOut
    <2>1. now \in Int /\ ts[t] \in Int /\ due[t] \in Int /\ Second \in Int
      BY TimeAssumption DEF IInv, TypeOK
    <2>2. now >= ts[t] /\ NotEarly(ts[t], due[t])
      BY DEF TimesOK
    <2> QED
      BY <2>1, <2>2 DEF NotEarly
  <1>3. IInv /\ TimesOK /\ [Next]_vars => TimesOK'
    BY TimesKept
  <1> QED
    BY <1>1, <1>2, <1>3, SpecIInv, PTL DEF Spec

-----------------------------------------------------------------------------
(* The refinement: what each step of the queue is in the channel. *)

(* The content is a sequence of as many values as the queue says it holds. *)
ContentIsSeq ==
    /\ Content \in Seq(Values \union {NoValue})
    /\ Len(Content) = items
    /\ \A i \in 1 .. items : Content[i] = buffer[(out + (i - 1)) % Size]

LEMMA ContentSeq == TypeOK => ContentIsSeq
  <1> SUFFICES ASSUME TypeOK PROVE ContentIsSeq
    OBVIOUS
  <1>1. items \in Nat /\ Size \in Nat /\ items <= Size /\ out \in Slots
    BY SizeAssumption DEF TypeOK
  <1>2. ASSUME NEW i \in 1 .. items
        PROVE  buffer[(out + (i - 1)) % Size] \in Values \union {NoValue}
    <2>1. i - 1 \in 0 .. Size
      BY <1>1, <1>2
    <2>2. (out + (i - 1)) % Size \in Slots
      BY <1>1, <2>1, SlotAfter
    <2> QED
      BY <2>2 DEF TypeOK
  <1>3. Content \in [1 .. items -> Values \union {NoValue}]
    BY <1>2 DEF Content
  <1>4. Content \in Seq(Values \union {NoValue})
    BY <1>1, <1>3
  <1>5. DOMAIN Content = 1 .. items
    BY DEF Content
  <1>6. Len(Content) = items
    BY <1>1, <1>4, <1>5, LenProperties
  <1> QED
    BY <1>4, <1>6 DEF Content, ContentIsSeq

(* A step that leaves the ring alone leaves the content alone. *)
LEMMA ContentSame ==
    ASSUME UNCHANGED queue
    PROVE  UNCHANGED Content
  BY DEF queue, Content

(* pthread_queue_enqueue's copy appends the value to the content. *)
LEMMA EnqueueAppends ==
    ASSUME IInv, NEW t \in Tasks, EnqueueCopy(t)
    PROVE  Content' = Append(Content, value[t])
  <1> DEFINE V == Values \union {NoValue}
  <1>1. TypeOK /\ TypeOK'
    BY EnqueueCopyKeeps DEF IInv
  <1>2. /\ items' = items + 1 /\ items \in 0 .. Size /\ items # Size /\ Size \in Nat
        /\ in \in Slots /\ out \in Slots /\ out' = out
    BY SizeAssumption DEF EnqueueCopy, IInv, TypeOK
  <1>3. value[t] \in V /\ buffer' = [buffer EXCEPT ![in] = value[t]] /\ buffer \in [Slots -> V]
    BY <1>1 DEF EnqueueCopy, TypeOK
  <1>4. /\ Content' \in Seq(V) /\ Len(Content') = items + 1
        /\ \A i \in 1 .. items + 1 : Content'[i] = buffer'[(out + (i - 1)) % Size]
    <2>1. /\ Content' \in Seq(V) /\ Len(Content') = items'
          /\ \A i \in 1 .. items' : Content'[i] = buffer'[(out' + (i - 1)) % Size]
      <3>1. ContentIsSeq'
        BY <1>1, ContentSeq, PTL
      <3> QED
        BY <3>1 DEF ContentIsSeq
    <2> QED
      BY <2>1, <1>2
  <1>5. /\ Content \in Seq(V) /\ Len(Content) = items
        /\ \A i \in 1 .. items : Content[i] = buffer[(out + (i - 1)) % Size]
    BY <1>1, ContentSeq DEF ContentIsSeq
  <1>6. /\ Append(Content, value[t]) \in Seq(V)
        /\ Len(Append(Content, value[t])) = items + 1
        /\ \A i \in 1 .. items : Append(Content, value[t])[i] = Content[i]
        /\ Append(Content, value[t])[items + 1] = value[t]
    BY <1>3, <1>5, AppendProperties
  <1>7. ASSUME NEW i \in 1 .. items + 1
        PROVE  Content'[i] = Append(Content, value[t])[i]
    <2>0. i - 1 \in 0 .. Size /\ items \in 0 .. Size
      BY <1>2
    <2>1. /\ (out + (i - 1)) % Size \in Slots
          /\ (out + (i - 1)) % Size = IF out + (i - 1) < Size THEN out + (i - 1) ELSE out + (i - 1) - Size
      BY <1>2, <2>0, SlotAfter
    <2>2. in = IF out + items < Size THEN out + items ELSE out + items - Size
      BY <1>2, <2>0, SlotAfter DEF IInv, RingOK
    <2>3. CASE i = items + 1
      <3>1. (out + (i - 1)) % Size = in
        BY <1>2, <2>1, <2>2, <2>3
      <3>2. Content'[i] = buffer'[in]
        BY <1>4, <3>1
      <3> QED
        BY <1>2, <1>3, <1>6, <2>3, <3>2
    <2>4. CASE i # items + 1
      <3>1. (out + (i - 1)) % Size # in
        BY <1>2, <2>1, <2>2, <2>4 DEF Slots
      <3>2. buffer'[(out + (i - 1)) % Size] = buffer[(out + (i - 1)) % Size]
        BY <1>3, <2>1, <3>1
      <3>3. i \in 1 .. items
        BY <1>2, <2>4
      <3> QED
        BY <1>4, <1>5, <1>6, <3>2, <3>3
    <2> QED
      BY <2>3, <2>4
  <1> HIDE DEF V
  <1>8. Len(Content') = Len(Append(Content, value[t])) /\ 1 .. Len(Content') = 1 .. items + 1
    BY <1>4, <1>6
  <1> QED
    BY <1>4, <1>6, <1>7, <1>8, SeqEqual

(* pthread_queue_dequeue's copy takes the first of the content. *)
LEMMA DequeueTakes ==
    ASSUME IInv, NEW t \in Tasks, DequeueCopy(t)
    PROVE  /\ Content # <<>>
           /\ buffer[out] = Head(Content)
           /\ Content' = Tail(Content)
  <1> DEFINE V == Values \union {NoValue}
  <1>1. TypeOK /\ TypeOK'
    BY DequeueCopyKeeps DEF IInv
  <1>2. /\ items' = items - 1 /\ items \in 0 .. Size /\ items # 0 /\ Size \in Nat \ {0}
        /\ out \in Slots /\ out' = (out + 1) % Size /\ buffer' = buffer
    BY SizeAssumption DEF DequeueCopy, IInv, TypeOK
  <1>3. out' \in Slots /\ out' = IF out + 1 < Size THEN out + 1 ELSE 0
    BY <1>2, NextSlot
  <1>4. /\ Content' \in Seq(V) /\ Len(Content') = items - 1
        /\ \A i \in 1 .. items - 1 : Content'[i] = buffer[(out' + (i - 1)) % Size]
    <2>1. /\ Content' \in Seq(V) /\ Len(Content') = items'
          /\ \A i \in 1 .. items' : Content'[i] = buffer'[(out' + (i - 1)) % Size]
      <3>1. ContentIsSeq'
        BY <1>1, ContentSeq, PTL
      <3> QED
        BY <3>1 DEF ContentIsSeq
    <2> QED
      BY <2>1, <1>2
  <1>5. /\ Content \in Seq(V) /\ Len(Content) = items
        /\ \A i \in 1 .. items : Content[i] = buffer[(out + (i - 1)) % Size]
    BY <1>1, ContentSeq DEF ContentIsSeq
  <1>6. Content # <<>>
    BY <1>2, <1>5
  <1>7. /\ Head(Content) = Content[1]
        /\ Tail(Content) \in Seq(V)
        /\ Len(Tail(Content)) = items - 1
        /\ \A i \in 1 .. items - 1 : Tail(Content)[i] = Content[i + 1]
    <2>1. Head(Content) = Content[1]
      BY <1>5, <1>6
    <2>2. /\ Tail(Content) \in Seq(V) /\ Len(Tail(Content)) = Len(Content) - 1
          /\ \A i \in 1 .. Len(Tail(Content)) : Tail(Content)[i] = Content[i + 1]
      BY <1>5, <1>6, HeadTailProperties
    <2> QED
      BY <1>5, <2>1, <2>2
  <1>8. buffer[out] = Head(Content)
    <2>1. 1 \in 1 .. items /\ 0 \in 0 .. Size
      BY <1>2
    <2>2. out % Size = out
      BY <1>2, Wrap DEF Slots
    <2>3. out + (1 - 1) = out
      BY <1>2 DEF Slots
    <2> QED
      BY <1>5, <1>7, <2>1, <2>2, <2>3
  <1>9. ASSUME NEW i \in 1 .. items - 1
        PROVE  Content'[i] = Tail(Content)[i]
    <2>1. i - 1 \in 0 .. Size /\ i \in 0 .. Size /\ i + 1 \in 1 .. items
      BY <1>2
    <2>2. (out' + (i - 1)) % Size = IF out' + (i - 1) < Size THEN out' + (i - 1) ELSE out' + (i - 1) - Size
      BY <1>3, <2>1, SlotAfter
    <2>3. (out + i) % Size = IF out + i < Size THEN out + i ELSE out + i - Size
      BY <1>2, <2>1, SlotAfter
    <2>4. (out' + (i - 1)) % Size = (out + i) % Size
      BY <1>2, <1>3, <2>2, <2>3 DEF Slots
    <2>5. Content[i + 1] = buffer[(out + ((i + 1) - 1)) % Size]
      BY <1>5, <2>1
    <2>6. (i + 1) - 1 = i
      OBVIOUS
    <2> QED
      BY <1>4, <1>7, <2>4, <2>5, <2>6
  <1> HIDE DEF V
  <1>10. Len(Content') = Len(Tail(Content)) /\ 1 .. Len(Content') = 1 .. items - 1
    BY <1>4, <1>7
  <1>11. Content' = Tail(Content)
    BY <1>4, <1>7, <1>9, <1>10, SeqEqual
  <1> QED
    BY <1>6, <1>8, <1>11

(* A thread that is in no call has no value. *)
LocalsOK == \A t \in Tasks : pc[t] = "idle" => value[t] = NoValue

LEMMA LocalsKept ==
    ASSUME IInv, LocalsOK, [Next]_vars
    PROVE  LocalsOK'
  <1> USE DEF LocalsOK, IInv, TypeOK
  <1>1. ASSUME NEW t \in Tasks, Begin(t) PROVE LocalsOK'
    BY <1>1 DEF Begin
  <1>2. ASSUME NEW t \in Tasks, Runs(t) PROVE LocalsOK'
    <2>1. CASE EnqueueFull(t) \/ DequeueEmpty(t)
      BY <2>1 DEF EnqueueFull, DequeueEmpty, Sleeps
    <2>2. CASE EnqueueCopy(t) \/ DequeueCopy(t)
      BY <2>2 DEF EnqueueCopy, DequeueCopy
    <2>3. CASE Notify(t)
      <3>1. PICK S : pc' = Woken(S, t)
        BY <2>3 DEF Notify
      <3>2. \A u \in Tasks \ {t} : pc'[u] = "idle" => pc[u] = "idle"
        BY <3>1 DEF Woken
      <3>3. value' = [value EXCEPT ![t] = NoValue]
        BY <2>3 DEF Notify, Returns
      <3> QED
        BY <3>2, <3>3
    <2>4. CASE Timeout(t)
      BY <2>4 DEF Timeout
    <2>5. CASE TimedOut(t)
      BY <2>5 DEF TimedOut, Returns
    <2> QED
      BY <1>2, <2>1, <2>2, <2>3, <2>4, <2>5 DEF Runs
  <1>3. ASSUME NEW t \in Tasks, SpuriousWakeup(t) PROVE LocalsOK'
    BY <1>3 DEF SpuriousWakeup
  <1>4. CASE Tick \/ UNCHANGED vars
    BY <1>4 DEF Tick, vars
  <1> QED
    BY <1>1, <1>2, <1>3, <1>4 DEF Next

(* A step at which no call begins, takes effect or ends. *)
LEMMA CallsSame ==
    ASSUME UNCHANGED <<op, value>>,
           \A t \in Tasks : /\ (pc'[t] = "idle") <=> (pc[t] = "idle")
                            /\ (pc'[t] = "notify") <=> (pc[t] = "notify")
    PROVE  UNCHANGED Calls
  BY DEF Calls, CallOf

(* A step at which the call of one thread changes. *)
LEMMA CallsOne ==
    ASSUME NEW t \in Tasks,
           \A u \in Tasks \ {t} : /\ op'[u] = op[u] /\ value'[u] = value[u]
                                  /\ (pc'[u] = "idle") <=> (pc[u] = "idle")
                                  /\ (pc'[u] = "notify") <=> (pc[u] = "notify")
    PROVE  Calls' = [Calls EXCEPT ![t] = CallOf(t)']
  <1>1. \A u \in Tasks \ {t} : CallOf(u)' = CallOf(u)
    BY DEF CallOf
  <1> QED
    BY <1>1 DEF Calls

(* A call begins. *)
LEMMA BeginRefines ==
    ASSUME IInv, LocalsOK, NEW t \in Tasks, Begin(t)
    PROVE  Channel!Begin(t)
  <1> USE DEF IInv, TypeOK
  <1>1. Calls[t] = Channel!None
    BY DEF LocalsOK, Begin, Calls, CallOf, Channel!None
  <1>2. Calls' = [Calls EXCEPT ![t] = CallOf(t)']
    BY CallsOne DEF Begin
  <1>3. CASE t \in Producers /\ op' = [op EXCEPT ![t] = "enqueue"]
             /\ \E v \in Puts[t] : value' = [value EXCEPT ![t] = v]
    <2>1. PICK v \in Puts[t] : value' = [value EXCEPT ![t] = v]
      BY <1>3
    <2>2. v \in Values
      BY <1>3, <2>1, ValueAssumption
    <2>3. CallOf(t)' = [op |-> "put", value |-> v]
      BY <1>3, <2>1 DEF CallOf, Begin
    <2> QED
      BY <1>1, <1>2, <2>2, <2>3, ContentSame DEF Channel!Begin, Begin
  <1>4. CASE op' = [op EXCEPT ![t] = "dequeue"] /\ UNCHANGED value
    <2>1. CallOf(t)' = [op |-> "take", value |-> NoValue]
      BY <1>4 DEF CallOf, Begin, LocalsOK
    <2> QED
      BY <1>1, <1>2, <2>1, ContentSame DEF Channel!Begin, Begin
  <1> QED
    BY <1>3, <1>4 DEF Begin

(* An enqueue takes effect when the value is copied. *)
LEMMA EnqueueRefines ==
    ASSUME IInv, NEW t \in Tasks, EnqueueCopy(t)
    PROVE  Channel!Put(t)
  <1>1. TypeOK /\ items # Size /\ Len(Content) = items /\ items \in 0 .. Size /\ Size \in Nat
    BY ContentSeq, SizeAssumption DEF IInv, TypeOK, EnqueueCopy, ContentIsSeq
  <1>2. Calls[t] = [op |-> "put", value |-> value[t]]
    BY DEF EnqueueCopy, Calls, CallOf
  <1>3. Calls' = [Calls EXCEPT ![t] = CallOf(t)']
    BY <1>1, CallsOne DEF EnqueueCopy, TypeOK
  <1>4. CallOf(t)' = [op |-> "done", value |-> value[t]]
    BY <1>1 DEF EnqueueCopy, TypeOK, CallOf
  <1>5. Calls' = [Calls EXCEPT ![t].op = "done"]
    <2>1. [Calls[t] EXCEPT !.op = "done"] = CallOf(t)'
      BY <1>2, <1>4
    <2>2. [Calls EXCEPT ![t].op = "done"] = [Calls EXCEPT ![t] = [Calls[t] EXCEPT !.op = "done"]]
      BY DEF Calls
    <2> QED
      BY <1>3, <2>1, <2>2
  <1>6. Content' = Append(Content, value[t])
    BY EnqueueAppends
  <1> QED
    BY <1>1, <1>2, <1>5, <1>6 DEF Channel!Put

(* A dequeue takes effect when the value is copied. *)
LEMMA DequeueRefines ==
    ASSUME IInv, NEW t \in Tasks, DequeueCopy(t)
    PROVE  Channel!Take(t)
  <1>1. Content # <<>> /\ buffer[out] = Head(Content) /\ Content' = Tail(Content)
    BY DequeueTakes
  <1>2. Calls[t].op = "take"
    BY DEF DequeueCopy, Calls, CallOf
  <1>3. Calls' = [Calls EXCEPT ![t] = CallOf(t)']
    BY CallsOne DEF DequeueCopy, IInv, TypeOK
  <1>4. CallOf(t)' = [op |-> "done", value |-> buffer[out]]
    BY DEF DequeueCopy, IInv, TypeOK, CallOf
  <1> QED
    BY <1>1, <1>2, <1>3, <1>4 DEF Channel!Take

(* A call returns, and whom it wakes is still in its own call. *)
LEMMA ReturnRefines ==
    ASSUME IInv, NEW t \in Tasks, Notify(t) \/ TimedOut(t)
    PROVE  Channel!Return(t)
  <1>1. Returns(t) /\ pc'[t] = "idle" /\ pc[t] # "idle"
    BY DEF Notify, TimedOut, IInv, TypeOK, Woken
  <1>2. \A u \in Tasks \ {t} : /\ (pc'[u] = "idle") <=> (pc[u] = "idle")
                               /\ (pc'[u] = "notify") <=> (pc[u] = "notify")
    <2>1. CASE Notify(t)
      <3>1. PICK S \in {cond_empty, cond_full} : pc' = Woken(S, t)
        BY <2>1 DEF Notify
      <3>2. \A u \in S : pc[u] = "wait"
        BY DEF IInv, WaitSetsOK
      <3>3. \A u \in Tasks \ {t} : pc'[u] = IF u \in S THEN "lock" ELSE pc[u]
        BY <3>1 DEF Woken
      <3> QED
        BY <3>2, <3>3
    <2>2. CASE TimedOut(t)
      BY <2>2 DEF TimedOut, IInv, TypeOK
    <2> QED
      BY <2>1, <2>2
  <1>3. \A u \in Tasks \ {t} : op'[u] = op[u] /\ value'[u] = value[u]
    BY <1>1 DEF Returns, IInv, TypeOK
  <1>4. Calls' = [Calls EXCEPT ![t] = CallOf(t)']
    BY <1>2, <1>3, CallsOne
  <1>5. CallOf(t)' = Channel!None
    BY <1>1 DEF CallOf, Returns, IInv, TypeOK, Channel!None
  <1>6. Calls[t].op # "none"
    BY <1>1 DEF Calls, CallOf
  <1>7. UNCHANGED Content
    BY <1>1, ContentSame DEF Returns
  <1> QED
    BY <1>4, <1>5, <1>6, <1>7 DEF Channel!Return

(* Going to sleep, waking up and the passing of time are no steps of the   *)
(* channel.                                                                *)
LEMMA WaitRefines ==
    ASSUME IInv, NEW t \in Tasks,
           EnqueueFull(t) \/ DequeueEmpty(t) \/ Timeout(t) \/ SpuriousWakeup(t)
    PROVE  UNCHANGED Channel!vars
  <1>1. /\ UNCHANGED <<op, value>> /\ UNCHANGED queue
        /\ pc[t] \in {"lock", "wait"}
        /\ \E p \in {"lock", "wait", "timedout"} : pc' = [pc EXCEPT ![t] = p]
    BY DEF EnqueueFull, DequeueEmpty, Timeout, SpuriousWakeup, Sleeps
  <1>2. UNCHANGED Calls
    BY <1>1, CallsSame DEF IInv, TypeOK
  <1> QED
    BY <1>1, <1>2, ContentSame DEF Channel!vars

(* Each step of the queue is a step of the channel or none. *)
LEMMA StepRefines ==
    ASSUME IInv, LocalsOK, [Next]_vars
    PROVE  [Channel!Next]_(Channel!vars)
  <1>1. ASSUME NEW t \in Tasks, Begin(t) PROVE Channel!Next
    BY <1>1, BeginRefines DEF Channel!Next
  <1>2. ASSUME NEW t \in Tasks, Runs(t) PROVE [Channel!Next]_(Channel!vars)
    BY <1>2, EnqueueRefines, DequeueRefines, ReturnRefines, WaitRefines DEF Runs, Channel!Next
  <1>3. ASSUME NEW t \in Tasks, SpuriousWakeup(t) PROVE UNCHANGED Channel!vars
    BY <1>3, WaitRefines
  <1>4. CASE Tick \/ UNCHANGED vars
    <2>1. UNCHANGED queue /\ UNCHANGED <<pc, op, value>>
      BY <1>4 DEF Tick, vars
    <2>2. UNCHANGED Calls
      BY <2>1, CallsSame
    <2> QED
      BY <2>1, <2>2, ContentSame DEF Channel!vars
  <1> QED
    BY <1>1, <1>2, <1>3, <1>4 DEF Next

(* The empty ring is the empty channel. *)
LEMMA InitRefines ==
    ASSUME Init
    PROVE  Channel!Init /\ LocalsOK
  <1>1. IInv
    BY InitIInv
  <1>2. Len(Content) = 0 /\ Content \in Seq(Values \union {NoValue})
    BY <1>1, ContentSeq DEF IInv, ContentIsSeq, Init
  <1>3. Content = <<>>
    BY <1>2, EmptySeq
  <1>4. \A t \in Tasks : CallOf(t) = Channel!None
    BY DEF Init, CallOf, Channel!None
  <1> QED
    BY <1>3, <1>4 DEF Channel!Init, Calls, Init, LocalsOK

(* The queue implements the bounded channel: whatever the threads, the     *)
(* timeouts and the length, values come out once each and in the order     *)
(* they went in, and every call takes effect at one instant or not at all. *)
THEOREM QueueImplementsChannel == Spec => ImplementsChannel
  <1>1. Init => Channel!Init /\ LocalsOK
    BY InitRefines
  <1>2. IInv /\ LocalsOK /\ [Next]_vars => LocalsOK' /\ [Channel!Next]_(Channel!vars)
    BY LocalsKept, StepRefines
  <1> QED
    BY <1>1, <1>2, SpecIInv, PTL DEF Spec, ImplementsChannel, Channel!Spec
=============================================================================
