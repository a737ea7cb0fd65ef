------------------------------ MODULE TSQueue -------------------------------
(***************************************************************************)
(* cb_tsqueue_t of src/cbase_threading.c: a ring of void* guarded by one   *)
(* mutex and two condition variables, called by any number of threads.     *)
(*                                                                         *)
(* A call is split where another thread can come between its parts: it     *)
(* asks for the mutex, tests the loop condition, waits (which releases the *)
(* mutex), is woken, takes the mutex again, moves one value, signals,      *)
(* unlocks and returns.  The primitives are what pthreads promise: a wait  *)
(* may end for no reason, a signal wakes one waiter, whoever asked for the *)
(* mutex may get it next.                                                  *)
(***************************************************************************)
EXTENDS Integers, Sequences, FiniteSets

CONSTANTS
  Threads,    \* the threads that call the queue
  Values,     \* the pointers they push
  NULL,       \* the null pointer, which may be pushed too
  NoThread,   \* the owner of a free mutex
  Capacity,   \* queue->capacity
  MaxFaults   \* bound on the calls of the primitives that fail

ASSUME CapacityAssumption == Capacity \in Nat \ {0}
ASSUME FaultsAssumption == MaxFaults \in Nat
ASSUME OwnerAssumption == NoThread \notin Threads
ASSUME NullAssumption == NULL \in Values
ASSUME ThreadsAssumption == IsFiniteSet(Threads)

VARIABLES
  items,      \* queue->items
  head,       \* queue->head
  tail,       \* queue->tail
  count,      \* queue->count
  owner,      \* the thread that holds queue->mutex
  notFull,    \* the threads that wait on queue->not_full
  notEmpty,   \* the threads that wait on queue->not_empty
  pc,         \* pc[t]: how far t is in its call
  request,    \* request[t]: the function t called and its argument
  result,     \* result[t]: rc and result of t's call
  faults      \* the calls of the primitives that failed so far

queueVars == << items, head, tail, count >>
waitVars == << notFull, notEmpty >>
vars == << items, head, tail, count, owner, notFull, notEmpty, pc, request,
           result, faults >>

Slots == 0..(Capacity - 1)
Operations == {"push", "pop", "try_pop", "count"}
Fallible == {"push", "pop", "try_pop"}
Points == {"idle", "lock", "test", "wait", "relock", "signal", "unlock", "done"}
Infos == {"OK", "QUEUE_EMPTY", "MUTEX_LOCK_FAILED", "COND_WAIT_FAILED"}

NoRequest == [op |-> "none", arg |-> NULL]
NoResult == [info |-> "OK", data |-> NULL]
Failure(info) == [info |-> info, data |-> NULL]

Init ==
  /\ items = [i \in Slots |-> NULL]
  /\ head = 0
  /\ tail = 0
  /\ count = 0
  /\ owner = NoThread
  /\ notFull = {}
  /\ notEmpty = {}
  /\ pc = [t \in Threads |-> "idle"]
  /\ request = [t \in Threads |-> NoRequest]
  /\ result = [t \in Threads |-> NoResult]
  /\ faults = 0

(***************************************************************************)
(* The steps of a call.                                                    *)
(***************************************************************************)
Goto(t, point) == pc' = [pc EXCEPT ![t] = point]

Call(t, op, v) ==
  /\ pc[t] = "idle"
  /\ op # "push" => v = NULL
  /\ Goto(t, "lock")
  /\ request' = [request EXCEPT ![t] = [op |-> op, arg |-> v]]
  /\ UNCHANGED << queueVars, waitVars, owner, result, faults >>

(* cb_mutex_lock at the head of every function. *)
Lock(t) ==
  /\ pc[t] = "lock"
  /\ owner = NoThread
  /\ owner' = t
  /\ Goto(t, "test")
  /\ UNCHANGED << queueVars, waitVars, request, result, faults >>

(* cb_mutex_lock reports an error: nothing was locked, the call is over. *)
LockFails(t) ==
  /\ pc[t] = "lock"
  /\ request[t].op \in Fallible
  /\ faults < MaxFaults
  /\ faults' = faults + 1
  /\ result' = [result EXCEPT ![t] = Failure("MUTEX_LOCK_FAILED")]
  /\ Goto(t, "done")
  /\ UNCHANGED << queueVars, waitVars, owner, request >>

(* A mutant is a wrong variant of the definition that follows it: put in   *)
(* its place, it breaks one of the properties.                             *)

(* The loop conditions of push and pop. *)
MustWait(t) ==
  \/ request[t].op = "push" /\ count = Capacity
  \/ request[t].op = "pop" /\ count = 0

(* cb_cond_wait releases the mutex and joins the waiters in one step. *)
Wait(t) ==
  /\ pc[t] = "test"
  /\ MustWait(t)
  /\ IF request[t].op = "push"
       THEN notFull' = notFull \cup {t} /\ UNCHANGED notEmpty
       ELSE notEmpty' = notEmpty \cup {t} /\ UNCHANGED notFull
  /\ owner' = NoThread
  /\ Goto(t, "wait")
  /\ UNCHANGED << queueVars, request, result, faults >>

(* Mutant: the error path returns without unlocking. *)
WaitFailsLocked(t) ==
  /\ pc[t] = "test"
  /\ MustWait(t)
  /\ faults < MaxFaults
  /\ faults' = faults + 1
  /\ result' = [result EXCEPT ![t] = Failure("COND_WAIT_FAILED")]
  /\ Goto(t, "done")
  /\ UNCHANGED << queueVars, waitVars, owner, request >>

(* cb_cond_wait reports an error without having waited: the mutex is still *)
(* held, and the call unlocks it and returns rc.                           *)
WaitFails(t) ==
  /\ pc[t] = "test"
  /\ MustWait(t)
  /\ faults < MaxFaults
  /\ faults' = faults + 1
  /\ result' = [result EXCEPT ![t] = Failure("COND_WAIT_FAILED")]
  /\ Goto(t, "unlock")
  /\ UNCHANGED << queueVars, waitVars, owner, request >>

(* pthread_cond_wait may return with nobody having signalled. *)
SpuriousWakeup(t) ==
  /\ pc[t] = "wait"
  /\ notFull' = notFull \ {t}
  /\ notEmpty' = notEmpty \ {t}
  /\ Goto(t, "relock")
  /\ UNCHANGED << queueVars, owner, request, result, faults >>

(* A wait ends by taking the mutex; the while loop tests again. *)
Relock(t) ==
  /\ pc[t] = "relock"
  /\ owner = NoThread
  /\ owner' = t
  /\ Goto(t, "test")
  /\ UNCHANGED << queueVars, waitVars, request, result, faults >>

(* Mutants: the index does not wrap, or wraps one slot too late. *)
NextSlotUnwrapped(i) == i + 1
NextSlotLate(i) == (i + 1) % (Capacity + 1)

NextSlot(i) == (i + 1) % Capacity

Put(t) ==
  /\ pc[t] = "test"
  /\ request[t].op = "push"
  /\ count # Capacity
  /\ items' = [items EXCEPT ![tail] = request[t].arg]
  /\ tail' = NextSlot(tail)
  /\ count' = count + 1
  /\ Goto(t, "signal")
  /\ UNCHANGED << head, waitVars, owner, request, result, faults >>

(* Mutant: the slot is read after head has moved on. *)
TakeAfterAdvance(t) ==
  /\ pc[t] = "test"
  /\ request[t].op \in {"pop", "try_pop"}
  /\ count # 0
  /\ head' = NextSlot(head)
  /\ result' = [result EXCEPT ![t] = [info |-> "OK", data |-> items[head']]]
  /\ count' = count - 1
  /\ Goto(t, "signal")
  /\ UNCHANGED << items, tail, waitVars, owner, request, faults >>

Take(t) ==
  /\ pc[t] = "test"
  /\ request[t].op \in {"pop", "try_pop"}
  /\ count # 0
  /\ result' = [result EXCEPT ![t] = [info |-> "OK", data |-> items[head]]]
  /\ head' = NextSlot(head)
  /\ count' = count - 1
  /\ Goto(t, "signal")
  /\ UNCHANGED << items, tail, waitVars, owner, request, faults >>

TakeNothing(t) ==
  /\ pc[t] = "test"
  /\ request[t].op = "try_pop"
  /\ count = 0
  /\ result' = [result EXCEPT ![t] = Failure("QUEUE_EMPTY")]
  /\ Goto(t, "unlock")
  /\ UNCHANGED << queueVars, waitVars, owner, request, faults >>

ReadCount(t) ==
  /\ pc[t] = "test"
  /\ request[t].op = "count"
  /\ result' = [result EXCEPT ![t] = [info |-> "OK", data |-> count]]
  /\ Goto(t, "unlock")
  /\ UNCHANGED << queueVars, waitVars, owner, request, faults >>

(* cb_cond_signal: one of the waiters, if there is one, stops waiting. *)
Wakes(waiters) == IF waiters = {} THEN {{}} ELSE {{w} : w \in waiters}

Resume(t, woken) ==
  pc' = [u \in Threads |-> CASE u = t -> "unlock"
                             [] u # t /\ u \in woken -> "relock"
                             [] OTHER -> pc[u]]

(* Mutant: push signals the condition variable it waits on. *)
SignalOwnPush(t) ==
  /\ pc[t] = "signal"
  /\ request[t].op = "push"
  /\ \E woken \in Wakes(notFull) :
       /\ notFull' = notFull \ woken
       /\ Resume(t, woken)
  /\ UNCHANGED << queueVars, notEmpty, owner, request, result, faults >>

(* Mutant: pop signals only when it has taken from a full queue. *)
SignalIfWasFull(t) ==
  /\ pc[t] = "signal"
  /\ request[t].op \in {"pop", "try_pop"}
  /\ \E woken \in IF count + 1 = Capacity THEN Wakes(notFull) ELSE {{}} :
       /\ notFull' = notFull \ woken
       /\ Resume(t, woken)
  /\ UNCHANGED << queueVars, notEmpty, owner, request, result, faults >>

SignalNotEmpty(t) ==
  /\ pc[t] = "signal"
  /\ request[t].op = "push"
  /\ \E woken \in Wakes(notEmpty) :
       /\ notEmpty' = notEmpty \ woken
       /\ Resume(t, woken)
  /\ UNCHANGED << queueVars, notFull, owner, request, result, faults >>

SignalNotFull(t) ==
  /\ pc[t] = "signal"
  /\ request[t].op \in {"pop", "try_pop"}
  /\ \E woken \in Wakes(notFull) :
       /\ notFull' = notFull \ woken
       /\ Resume(t, woken)
  /\ UNCHANGED << queueVars, notEmpty, owner, request, result, faults >>

Unlock(t) ==
  /\ pc[t] = "unlock"
  /\ owner' = NoThread
  /\ Goto(t, "done")
  /\ UNCHANGED << queueVars, waitVars, request, result, faults >>

Return(t) ==
  /\ pc[t] = "done"
  /\ Goto(t, "idle")
  /\ request' = [request EXCEPT ![t] = NoRequest]
  /\ result' = [result EXCEPT ![t] = NoResult]
  /\ UNCHANGED << queueVars, waitVars, owner, faults >>

(* A step inside a call, up to the point where it is about to return. *)
Proceed(t) ==
  \/ Lock(t)
  \/ LockFails(t)
  \/ Wait(t)
  \/ WaitFails(t)
  \/ SpuriousWakeup(t)
  \/ Relock(t)
  \/ Put(t)
  \/ Take(t)
  \/ TakeNothing(t)
  \/ ReadCount(t)
  \/ SignalNotEmpty(t)
  \/ SignalNotFull(t)
  \/ Unlock(t)

Next ==
  \E t \in Threads :
    \/ \E op \in Operations, v \in Values : Call(t, op, v)
    \/ Proceed(t)
    \/ Return(t)

Spec == Init /\ [][Next]_vars

(* The code goes on with a call once it is made.  Every step but the       *)
(* taking of a mutex stays possible until it is taken; the mutex is free   *)
(* again and again, and a thread that keeps asking for it gets it.         *)
Running(t) ==
  \/ Lock(t)
  \/ Wait(t)
  \/ Relock(t)
  \/ Put(t)
  \/ Take(t)
  \/ TakeNothing(t)
  \/ ReadCount(t)
  \/ SignalNotEmpty(t)
  \/ SignalNotFull(t)
  \/ Unlock(t)

Fairness == \A t \in Threads : SF_vars(Running(t) \/ Return(t))

FairSpec == Spec /\ Fairness

(***************************************************************************)
(* Properties.                                                             *)
(***************************************************************************)
Results == [info : Infos, data : Values \cup (0..Capacity)]

(* Every variable keeps the type of the field it stands for. *)
TypeOK ==
  /\ items \in [Slots -> Values]
  /\ head \in Slots
  /\ tail \in Slots
  /\ count \in 0..Capacity
  /\ owner \in Threads \cup {NoThread}
  /\ notFull \subseteq Threads
  /\ notEmpty \subseteq Threads
  /\ pc \in [Threads -> Points]
  /\ request \in [Threads -> [op : Operations \cup {"none"}, arg : Values]]
  /\ result \in [Threads -> Results]
  /\ faults \in 0..MaxFaults

Holds(t) == pc[t] \in {"test", "signal", "unlock"}

(* Between cb_mutex_lock and cb_mutex_unlock a thread is alone with the    *)
(* fields of the queue, whatever path it takes through a wait, a failed    *)
(* wait or an early return; and the mutex is free whenever nobody is       *)
(* between the two: no path forgets to unlock.                             *)
MutualExclusion ==
  \A t \in Threads : Holds(t) <=> owner = t

(* A thread sleeps on exactly the condition variable its operation waits   *)
(* for, and only while it is inside cb_cond_wait.                          *)
WaitersWait ==
  \A t \in Threads :
    /\ t \in notFull <=> pc[t] = "wait" /\ request[t].op = "push"
    /\ t \in notEmpty <=> pc[t] = "wait" /\ request[t].op = "pop"

(* head, tail and count, updated separately by push and pop, stay in step  *)
(* through every wrap around of the ring.                                  *)
RingConsistent == tail = (head + count) % Capacity

Awake(op) == {t \in Threads : request[t].op = op /\ pc[t] \in {"relock", "test"}}
Signalling(ops) == {t \in Threads : request[t].op \in ops /\ pc[t] = "signal"}

(* No wakeup is lost.  If a thread sleeps in pop, every value in the queue *)
(* is spoken for: a popper is awake for it, or the push that stored it has *)
(* its signal still to send.  The same for free slots and sleeping         *)
(* pushers.  A signal lost to a stolen slot, to a failed wait or to the    *)
(* wrong condition variable would leave a sleeper beside a free slot.      *)
NoLostWakeup ==
  /\ notEmpty # {} =>
       count <= Cardinality(Awake("pop")) + Cardinality(Signalling({"push"}))
  /\ notFull # {} =>
       Capacity - count <= Cardinality(Awake("push"))
                             + Cardinality(Signalling({"pop", "try_pop"}))

(* If a thread sleeps in pop beside a value in the queue, some value is    *)
(* taken out, and if one sleeps in push beside a free slot, some value is  *)
(* put in: the queue as a whole cannot stall.                              *)
CallersProgress ==
  /\ (notEmpty # {} /\ count > 0) ~> (Signalling({"pop", "try_pop"}) # {})
  /\ (notFull # {} /\ count < Capacity) ~> (Signalling({"push"}) # {})

(***************************************************************************)
(* The ring implements the abstract FIFO.  The live slots, oldest first,   *)
(* are its contents; a call takes effect where the code moves the value.   *)
(***************************************************************************)
Contents == [i \in 1..count |-> items[(head + i - 1) % Capacity]]

Progress(t) ==
  CASE pc[t] = "idle" -> "idle"
    [] pc[t] \in {"lock", "test", "wait", "relock"} -> "pending"
    [] OTHER -> "done"

Fifo == INSTANCE BoundedFifo WITH
  buf <- Contents,
  status <- [t \in Threads |-> Progress(t)],
  request <- request,
  response <- result

(* Every behaviour of the queue is one of a FIFO whose operations are      *)
(* atomic: nothing lost, duplicated or reordered, no failed call with an   *)
(* effect, and a count that was the true length at some instant.           *)
ImplementsFifo == Fifo!FifoSpec
=============================================================================
