----------------------------- MODULE PosixQueue -----------------------------
(***************************************************************************)
(* libcsp/source/arch/posix/pthread_queue.c, the queue of libcsp on Linux: *)
(* a ring of `size` slots, a mutex and two condition variables.  What runs *)
(* between pthread_mutex_lock and pthread_mutex_unlock is one action, for  *)
(* nothing else looks at the queue; pthread_cond_timedwait leaves the      *)
(* mutex, so the sleep, the wake-up and the timeout are actions of their   *)
(* own, and so is the broadcast, which comes after the unlock.             *)
(*                                                                         *)
(* Time is counted in ticks, Second of them to a second; a tick stands for *)
(* a nanosecond.                                                           *)
(***************************************************************************)
EXTENDS Integers, Sequences

CONSTANTS Producers,    \* the threads that put values into the queue
          Consumers,    \* the threads that take them
          Values,       \* what is put into it
          Puts,         \* per producer: the values it may put
          NoValue,      \* the content of a slot or a buffer never written
          Size,         \* the length given to pthread_queue_create
          Second,       \* ticks of a second
          Timeouts,     \* the timeouts of the calls, in ticks
          StartTime,    \* what CLOCK_REALTIME shows at first
          MaxTime       \* bound: no call is to end later

Tasks == Producers \union Consumers

ASSUME SizeAssumption == Size \in Nat \ {0}
ASSUME ValueAssumption == /\ NoValue \notin Values
                          /\ Puts \in [Producers -> SUBSET Values]
ASSUME TimeAssumption == /\ Second \in Nat \ {0}
                         /\ Timeouts \subseteq Nat
                         /\ StartTime \in Nat
                         /\ MaxTime \in Nat

VARIABLES buffer, items, in, out,   \* the fields of pthread_queue_t
          cond_full, cond_empty,    \* the threads asleep on either condition
          pc,           \* where a thread is in its call
          op,           \* "enqueue" or "dequeue": the call it makes
          value,        \* *value of an enqueue, *buf of a dequeue
          ts,           \* the deadline its call has computed
          due,          \* history: the instant its timeout really ends
          now           \* CLOCK_REALTIME

queue == <<buffer, items, in, out>>
conds == <<cond_full, cond_empty>>
times == <<ts, due, now>>
vars == <<queue, conds, pc, op, value, times>>

Slots == 0 .. Size - 1
Ops == {"enqueue", "dequeue"}

(***************************************************************************)
(* pthread_queue_create.                                                   *)
(***************************************************************************)
Init ==
    /\ buffer = [s \in Slots |-> NoValue]
    /\ items = 0 /\ in = 0 /\ out = 0
    /\ cond_full = {} /\ cond_empty = {}
    /\ pc = [t \in Tasks |-> "idle"]
    /\ op = [t \in Tasks |-> "none"]
    /\ value = [t \in Tasks |-> NoValue]
    /\ ts = [t \in Tasks |-> 0]
    /\ due = [t \in Tasks |-> 0]
    /\ now = StartTime

(***************************************************************************)
(* The deadline of a call.  The carry from the nanoseconds to the seconds  *)
(* is tested with >, so a sum of exactly one second is not carried.        *)
(***************************************************************************)
\* Mutant: the carry is forgotten.
DeadlineNoCarry(timeout) ==
    LET sec == (now \div Second) + (timeout \div Second)
        nsec == (now % Second) + (timeout % Second)
    IN (sec * Second) + (nsec % Second)

Deadline(timeout) ==
    LET sec == (now \div Second) + (timeout \div Second)
        nsec == (now % Second) + (timeout % Second)
    IN (IF nsec > Second THEN sec + 1 ELSE sec) * Second + (nsec % Second)

(* A thread calls pthread_queue_enqueue or pthread_queue_dequeue and waits *)
(* for the mutex.  When clock_gettime fails the call returns               *)
(* PTHREAD_QUEUE_ERROR and has changed nothing: a stuttering step.         *)
Begin(t) ==
    /\ pc[t] = "idle"
    /\ \E timeout \in Timeouts :
         /\ now + timeout <= MaxTime
         /\ ts' = [ts EXCEPT ![t] = Deadline(timeout)]
         /\ due' = [due EXCEPT ![t] = now + timeout]
    /\ \/ /\ t \in Producers
          /\ op' = [op EXCEPT ![t] = "enqueue"]
          /\ \E v \in Puts[t] : value' = [value EXCEPT ![t] = v]
       \/ /\ t \in Consumers
          /\ op' = [op EXCEPT ![t] = "dequeue"]
          /\ UNCHANGED value
    /\ pc' = [pc EXCEPT ![t] = "lock"]
    /\ UNCHANGED <<queue, conds, now>>

(* The call returns, and its locals are gone. *)
Returns(t) ==
    /\ op' = [op EXCEPT ![t] = "none"]
    /\ value' = [value EXCEPT ![t] = NoValue]
    /\ ts' = [ts EXCEPT ![t] = 0]
    /\ due' = [due EXCEPT ![t] = 0]
    /\ UNCHANGED <<queue, now>>

(* Where the thread goes that finds nothing to do: pthread_cond_timedwait  *)
(* returns at once when the deadline has passed.                           *)
Sleeps(t) == pc' = [pc EXCEPT ![t] = IF now >= ts[t] THEN "timedout" ELSE "wait"]

(***************************************************************************)
(* pthread_queue_enqueue, from the lock to the wait or to the unlock.      *)
(***************************************************************************)
EnqueueFull(t) ==
    /\ pc[t] = "lock" /\ op[t] = "enqueue"
    /\ items = Size
    /\ Sleeps(t)
    /\ cond_full' = IF now >= ts[t] THEN cond_full ELSE cond_full \union {t}
    /\ UNCHANGED <<queue, cond_empty, op, value, times>>

\* Mutant: the slot is computed after the index has moved.
EnqueueCopyLate(t) ==
    /\ pc[t] = "lock" /\ op[t] = "enqueue"
    /\ items # Size
    /\ in' = (in + 1) % Size
    /\ buffer' = [buffer EXCEPT ![in'] = value[t]]
    /\ items' = items + 1
    /\ pc' = [pc EXCEPT ![t] = "notify"]
    /\ UNCHANGED <<out, conds, op, value, times>>

EnqueueCopy(t) ==
    /\ pc[t] = "lock" /\ op[t] = "enqueue"
    /\ items # Size
    /\ buffer' = [buffer EXCEPT ![in] = value[t]]
    /\ items' = items + 1
    /\ in' = (in + 1) % Size
    /\ pc' = [pc EXCEPT ![t] = "notify"]
    /\ UNCHANGED <<out, conds, op, value, times>>

(***************************************************************************)
(* pthread_queue_dequeue, from the lock to the wait or to the unlock.      *)
(***************************************************************************)
DequeueEmpty(t) ==
    /\ pc[t] = "lock" /\ op[t] = "dequeue"
    /\ items = 0
    /\ Sleeps(t)
    /\ cond_empty' = IF now >= ts[t] THEN cond_empty ELSE cond_empty \union {t}
    /\ UNCHANGED <<queue, cond_full, op, value, times>>

DequeueCopy(t) ==
    /\ pc[t] = "lock" /\ op[t] = "dequeue"
    /\ items # 0
    /\ value' = [value EXCEPT ![t] = buffer[out]]
    /\ items' = items - 1
    /\ out' = (out + 1) % Size
    /\ pc' = [pc EXCEPT ![t] = "notify"]
    /\ UNCHANGED <<buffer, in, conds, op, times>>

(***************************************************************************)
(* pthread_cond_broadcast, after the unlock: every thread asleep on the    *)
(* condition goes back for the mutex and tests again.  Then the call       *)
(* returns PTHREAD_QUEUE_OK.                                               *)
(***************************************************************************)
Woken(S, t) == [u \in Tasks |-> CASE u = t -> "idle" [] u \in S /\ u # t -> "lock" [] OTHER -> pc[u]]

\* Mutant: pthread_cond_signal instead of pthread_cond_broadcast.
NotifyOne(t) ==
    LET asleep == IF op[t] = "enqueue" THEN cond_empty ELSE cond_full
    IN /\ pc[t] = "notify"
       /\ \E S \in SUBSET asleep :
            /\ \A u, w \in S : u = w
            /\ (asleep # {}) => (S # {})
            /\ pc' = Woken(S, t)
            /\ cond_full' = cond_full \ S
            /\ cond_empty' = cond_empty \ S
       /\ Returns(t)

Notify(t) ==
    /\ pc[t] = "notify"
    /\ \/ /\ op[t] = "enqueue"
          /\ pc' = Woken(cond_empty, t)
          /\ cond_empty' = {}
          /\ UNCHANGED cond_full
       \/ /\ op[t] = "dequeue"
          /\ pc' = Woken(cond_full, t)
          /\ cond_full' = {}
          /\ UNCHANGED cond_empty
    /\ Returns(t)

(***************************************************************************)
(* pthread_cond_timedwait returns: with 0 although nothing was signalled,  *)
(* or with ETIMEDOUT.  It has the mutex again only after that, and what    *)
(* happened in between is not looked at: PTHREAD_QUEUE_FULL or _EMPTY.     *)
(***************************************************************************)
Leaves(t) ==
    /\ cond_full' = cond_full \ {t}
    /\ cond_empty' = cond_empty \ {t}

SpuriousWakeup(t) ==
    /\ pc[t] = "wait"
    /\ Leaves(t)
    /\ pc' = [pc EXCEPT ![t] = "lock"]
    /\ UNCHANGED <<queue, op, value, times>>

Timeout(t) ==
    /\ pc[t] = "wait"
    /\ now >= ts[t]
    /\ Leaves(t)
    /\ pc' = [pc EXCEPT ![t] = "timedout"]
    /\ UNCHANGED <<queue, op, value, times>>

\* Mutant: the return value of pthread_cond_timedwait is ignored.
TimedOutIgnored(t) ==
    /\ pc[t] = "timedout"
    /\ pc' = [pc EXCEPT ![t] = "lock"]
    /\ UNCHANGED <<queue, conds, op, value, times>>

TimedOut(t) ==
    /\ pc[t] = "timedout"
    /\ pc' = [pc EXCEPT ![t] = "idle"]
    /\ Returns(t)
    /\ UNCHANGED conds

(* Time goes on. *)
Tick ==
    /\ now < MaxTime
    /\ now' = now + 1
    /\ UNCHANGED <<queue, conds, pc, op, value, ts, due>>

Runs(t) == \/ EnqueueFull(t) \/ EnqueueCopy(t)
           \/ DequeueEmpty(t) \/ DequeueCopy(t)
           \/ Notify(t) \/ Timeout(t) \/ TimedOut(t)

Next == \/ \E t \in Tasks : Begin(t) \/ Runs(t) \/ SpuriousWakeup(t)
        \/ Tick

Spec == Init /\ [][Next]_vars

(* A thread that can run is scheduled in the end, and time goes on. *)
Fairness == WF_vars(Tick) /\ \A t \in Tasks : WF_vars(Runs(t))

FairSpec == Spec /\ Fairness

-----------------------------------------------------------------------------
(***************************************************************************)
(* Properties.                                                             *)
(***************************************************************************)
(* Every field of the queue and of the calls has its type; in is where     *)
(* the newest of `items` values starting at out ends (pthread_queue.c:108  *)
(* and 150 keep them so, each on its own side).                            *)
TypeOK ==
    /\ buffer \in [Slots -> Values \union {NoValue}]
    /\ items \in 0 .. Size
    /\ in \in Slots /\ out \in Slots
    /\ cond_full \subseteq Tasks /\ cond_empty \subseteq Tasks
    /\ pc \in [Tasks -> {"idle", "lock", "wait", "timedout", "notify"}]
    /\ op \in [Tasks -> Ops \union {"none"}]
    /\ \A t \in Tasks : (op[t] = "none") <=> (pc[t] = "idle")
    /\ value \in [Tasks -> Values \union {NoValue}]
    /\ ts \in [Tasks -> Int] /\ due \in [Tasks -> Int]
    /\ now \in Nat

(* No wake-up is lost: the broadcast comes after the unlock (lines 112 and *)
(* 154), and a thread whose wait has timed out answers without looking at  *)
(* the queue (lines 101 and 143); still no thread sleeps on a queue that   *)
(* has what it waits for, unless one is just about to wake it.             *)
NoLostWakeup ==
    /\ (cond_empty # {} /\ items > 0)
         => \E t \in Tasks : pc[t] = "notify" /\ op[t] = "enqueue"
    /\ (cond_full # {} /\ items < Size)
         => \E t \in Tasks : pc[t] = "notify" /\ op[t] = "dequeue"

(* A call that answers FULL or EMPTY has waited out its timeout, with the  *)
(* one exception of lines 91 and 133: when the nanoseconds of the time and *)
(* of the timeout add up to a whole second it may give up one second       *)
(* early.                                                                  *)
TimeoutWaitedOut ==
    \A t \in Tasks : pc[t] = "timedout" =>
        \/ now >= due[t]
        \/ due[t] % Second = 0 /\ now >= due[t] - Second

(* The values in the ring, the oldest first. *)
Content == [i \in 1 .. items |-> buffer[(out + (i - 1)) % Size]]

(* What a call has promised so far. *)
CallOf(t) ==
    [op |-> CASE pc[t] = "idle" -> "none"
              [] pc[t] = "notify" -> "done"
              [] OTHER -> IF op[t] = "enqueue" THEN "put" ELSE "take",
     value |-> value[t]]

Calls == [t \in Tasks |-> CallOf(t)]

Channel == INSTANCE BoundedChannel
               WITH Capacity <- Size, chan <- Content, call <- Calls

(* The ring, the mutex and the two conditions (pthread_queue.c:77-157)     *)
(* implement a bounded channel: values come out in the order they went in, *)
(* each once, every call that says OK took effect at one instant between   *)
(* its start and its return, and one that says FULL or EMPTY had no        *)
(* effect.                                                                 *)
ImplementsChannel == Channel!Spec

(* Every call returns: a task that waits with a timeout (and CSP_MAX_DELAY *)
(* is one, of 49 days) is woken or gives up, whatever the others do        *)
(* (pthread_queue.c:97-104, 139-146).                                      *)
CallsReturn == \A t \in Tasks : (pc[t] # "idle") ~> (pc[t] = "idle")
=============================================================================
