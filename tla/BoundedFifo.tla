---------------------------- MODULE BoundedFifo -----------------------------
(***************************************************************************)
(* What cb_tsqueue_t promises its callers: a FIFO of at most Capacity      *)
(* values, on which every operation takes effect at one instant between    *)
(* its call and its return.  There is no ring, no mutex and no condition   *)
(* variable here; TSQueue shows that those implement this module.          *)
(***************************************************************************)
EXTENDS Integers, Sequences

CONSTANTS
  Threads,    \* the callers
  Values,     \* the void* a caller may push (NULL included)
  NULL,       \* the null pointer
  Capacity    \* cb_tsqueue_create's capacity

VARIABLES
  buf,        \* the values queued, oldest first
  status,     \* status[t]: what t's current call has come to
  request,    \* request[t]: the operation t called and its argument
  response    \* response[t]: the result, once the call has taken effect

fifoVars == << buf, status, request, response >>

Idle == "idle"
Pending == "pending"
Done == "done"

NoRequest == [op |-> "none", arg |-> NULL]
NoResponse == [info |-> "OK", data |-> NULL]

Blocking == {"push", "pop"}
Refusable == {"push", "pop", "try_pop"}

FifoInit ==
  /\ buf = << >>
  /\ status = [t \in Threads |-> Idle]
  /\ request = [t \in Threads |-> NoRequest]
  /\ response = [t \in Threads |-> NoResponse]

Invoke(t, op, v) ==
  /\ status[t] = Idle
  /\ op # "push" => v = NULL
  /\ status' = [status EXCEPT ![t] = Pending]
  /\ request' = [request EXCEPT ![t] = [op |-> op, arg |-> v]]
  /\ UNCHANGED << buf, response >>

(* The call of t takes effect, or fails, and its answer is r. *)
Answer(t, r) ==
  /\ status[t] = Pending
  /\ status' = [status EXCEPT ![t] = Done]
  /\ response' = [response EXCEPT ![t] = r]
  /\ UNCHANGED request

Enqueue(t) ==
  /\ request[t].op = "push"
  /\ Len(buf) < Capacity
  /\ buf' = Append(buf, request[t].arg)
  /\ Answer(t, [info |-> "OK", data |-> NULL])

Dequeue(t) ==
  /\ request[t].op \in {"pop", "try_pop"}
  /\ buf # << >>
  /\ buf' = Tail(buf)
  /\ Answer(t, [info |-> "OK", data |-> Head(buf)])

FindEmpty(t) ==
  /\ request[t].op = "try_pop"
  /\ buf = << >>
  /\ Answer(t, [info |-> "QUEUE_EMPTY", data |-> NULL])
  /\ UNCHANGED buf

Measure(t) ==
  /\ request[t].op = "count"
  /\ Answer(t, [info |-> "OK", data |-> Len(buf)])
  /\ UNCHANGED buf

(* A refused call leaves no trace in the queue; one that waits is refused  *)
(* only if it had to wait.                                                 *)
Refuse(t) ==
  /\ \/ /\ request[t].op \in Refusable
        /\ Answer(t, [info |-> "MUTEX_LOCK_FAILED", data |-> NULL])
     \/ /\ request[t].op = "push"
        /\ Len(buf) = Capacity
        /\ Answer(t, [info |-> "COND_WAIT_FAILED", data |-> NULL])
     \/ /\ request[t].op = "pop"
        /\ buf = << >>
        /\ Answer(t, [info |-> "COND_WAIT_FAILED", data |-> NULL])
  /\ UNCHANGED buf

Finish(t) ==
  /\ status[t] = Done
  /\ status' = [status EXCEPT ![t] = Idle]
  /\ request' = [request EXCEPT ![t] = NoRequest]
  /\ response' = [response EXCEPT ![t] = NoResponse]
  /\ UNCHANGED buf

FifoNext ==
  \E t \in Threads :
    \/ \E op \in Refusable \cup {"count"}, v \in Values : Invoke(t, op, v)
    \/ Enqueue(t)
    \/ Dequeue(t)
    \/ FindEmpty(t)
    \/ Measure(t)
    \/ Refuse(t)
    \/ Finish(t)

FifoSpec == FifoInit /\ [][FifoNext]_fifoVars
=============================================================================
