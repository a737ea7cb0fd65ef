--------------------------- MODULE TSQueue_proofs ---------------------------
(***************************************************************************)
(* Theorems about TSQueue, for every set of threads and values, every      *)
(* capacity and every bound on the faults.                                 *)
(***************************************************************************)
EXTENDS TSQueue, SequenceTheorems, FiniteSetTheorems, TLAPS

-----------------------------------------------------------------------------
(* Arithmetic of the ring: indices stay below twice the capacity, where    *)
(* the remainder is a single subtraction.                                  *)

(* The remainder of an index that has not wrapped. *)
LEMMA ModSmall ==
  ASSUME NEW C \in Nat \ {0}, NEW i \in 0..(C - 1)
  PROVE  i % C = i
  OBVIOUS

(* The remainder of an index that has wrapped once. *)
LEMMA ModWrap ==
  ASSUME NEW C \in Nat \ {0}, NEW i \in C..(2 * C - 1)
  PROVE  i % C = i - C
  OBVIOUS

(* A remainder is a slot. *)
LEMMA ModRange ==
  ASSUME NEW C \in Nat \ {0}, NEW i \in Int
  PROVE  i % C \in 0..(C - 1)
  OBVIOUS

(* push's tail = (tail + 1) % capacity keeps the tail count slots after    *)
(* the head, and a tail computed so is a slot.                             *)
LEMMA TailAdvances ==
  ASSUME NEW C \in Nat \ {0}, NEW h \in 0..(C - 1), NEW n \in 0..(C - 1)
  PROVE  /\ (h + n) % C \in 0..(C - 1)
         /\ (((h + n) % C) + 1) % C = (h + (n + 1)) % C
  <1>1. CASE h + n + 1 < C
    <2>1. (h + n) % C = h + n
      BY <1>1, ModSmall
    <2>2. (h + n + 1) % C = h + n + 1
      BY <1>1, ModSmall
    <2> QED BY <2>1, <2>2, <1>1
  <1>2. CASE h + n + 1 = C
    <2>1. (h + n) % C = C - 1
      BY <1>2, ModSmall
    <2> QED BY <2>1, <1>2
  <1>3. CASE h + n + 1 > C
    <2>1. (h + n) % C = h + n - C
      BY <1>3, ModWrap
    <2>2. (h + n + 1) % C = h + n + 1 - C
      BY <1>3, ModWrap
    <2>3. (h + n - C + 1) % C = h + n - C + 1
      BY <1>3, ModSmall
    <2> QED BY <2>1, <2>2, <2>3, <1>3
  <1> QED BY <1>1, <1>2, <1>3

(* pop's head = (head + 1) % capacity leaves the slots after the head      *)
(* where they are.                                                         *)
LEMMA HeadAdvances ==
  ASSUME NEW C \in Nat \ {0}, NEW h \in 0..(C - 1), NEW n \in 1..C
  PROVE  /\ (h + 1) % C \in 0..(C - 1)
         /\ (((h + 1) % C) + (n - 1)) % C = (h + n) % C
  <1>1. CASE h + 1 < C
    <2>1. (h + 1) % C = h + 1
      BY <1>1, ModSmall
    <2> QED BY <2>1, <1>1
  <1>2. CASE h + 1 = C
    <2>1. (h + 1) % C = 0
      BY <1>2
    <2>2. (n - 1) % C = n - 1
      BY ModSmall
    <2>3. (h + n) % C = h + n - C
      BY <1>2, ModWrap
    <2> QED BY <2>1, <2>2, <2>3, <1>2
  <1> QED BY <1>1, <1>2

(* A step of the queue keeps the types: the induction of the theorem below, *)
(* stated alone for the programs built on the queue.                       *)
LEMMA TypeStep ==
  ASSUME TypeOK, [Next]_vars
  PROVE  TypeOK'
  <1> USE CapacityAssumption, FaultsAssumption, OwnerAssumption, NullAssumption
  <1> USE DEF TypeOK, queueVars, waitVars, Goto, Points
  <1>1. ASSUME NEW t \in Threads, NEW op \in Operations, NEW v \in Values,
               Call(t, op, v)
        PROVE  TypeOK'
    BY <1>1 DEF Call
  <1>2. ASSUME NEW t \in Threads, Lock(t) \/ Relock(t)
        PROVE  TypeOK'
    BY <1>2 DEF Lock, Relock
  <1>3. ASSUME NEW t \in Threads, LockFails(t)
        PROVE  TypeOK'
    BY <1>3 DEF LockFails, Failure, Results, Infos
  <1>4. ASSUME NEW t \in Threads, Wait(t)
        PROVE  TypeOK'
    BY <1>4 DEF Wait
  <1>5. ASSUME NEW t \in Threads, WaitFails(t) \/ TakeNothing(t)
        PROVE  TypeOK'
    <2>1. CASE WaitFails(t)
      BY <2>1 DEF WaitFails, Failure, Results, Infos
    <2>2. CASE TakeNothing(t)
      BY <2>2 DEF TakeNothing, Failure, Results, Infos
    <2> QED BY <1>5, <2>1, <2>2
  <1>6. ASSUME NEW t \in Threads, ReadCount(t)
        PROVE  TypeOK'
    BY <1>6 DEF ReadCount, Results, Infos
  <1>7. ASSUME NEW t \in Threads, SpuriousWakeup(t)
        PROVE  TypeOK'
    BY <1>7 DEF SpuriousWakeup
  <1>8. ASSUME NEW t \in Threads, Put(t)
        PROVE  TypeOK'
    BY <1>8 DEF Put, NextSlot, Slots
  <1>9. ASSUME NEW t \in Threads, Take(t)
        PROVE  TypeOK'
    BY <1>9 DEF Take, NextSlot, Slots, Results, Infos
  <1>10. ASSUME NEW t \in Threads, SignalNotEmpty(t) \/ SignalNotFull(t)
         PROVE  TypeOK'
    <2>1. pc' \in [Threads -> Points]
      BY <1>10 DEF SignalNotEmpty, SignalNotFull, Resume
    <2> QED BY <1>10, <2>1 DEF SignalNotEmpty, SignalNotFull
  <1>11. ASSUME NEW t \in Threads, Unlock(t)
         PROVE  TypeOK'
    BY <1>11 DEF Unlock
  <1>12. ASSUME NEW t \in Threads, Return(t)
         PROVE  TypeOK'
    BY <1>12 DEF Return, NoRequest, NoResult, Results, Infos
  <1>13. CASE UNCHANGED vars
    BY <1>13 DEF vars
  <1> QED
    BY <1>1, <1>2, <1>3, <1>4, <1>5, <1>6, <1>7, <1>8, <1>9, <1>10, <1>11,
       <1>12, <1>13 DEF Next, Proceed

-----------------------------------------------------------------------------
(* Every variable keeps its type: no index leaves the ring and count stays *)
(* between 0 and capacity, so that push never overwrites and pop never     *)
(* reads a slot that is not live.                                          *)
THEOREM TypeCorrect == Spec => []TypeOK
  <1> USE CapacityAssumption, FaultsAssumption, OwnerAssumption, NullAssumption
  <1>1. Init => TypeOK
    BY DEF Init, TypeOK, Slots, Points, NoRequest, NoResult, Results, Infos
  <1>2. TypeOK /\ [Next]_vars => TypeOK'
    BY TypeStep
  <1> QED BY <1>1, <1>2, PTL DEF Spec

-----------------------------------------------------------------------------
(* Mutual exclusion is inductive together with what the sleepers are: a    *)
(* signal moves its target from wait to relock, and only knowing that the  *)
(* target was in wait shows that the signal makes nobody a second holder.  *)
LockInv == MutualExclusion /\ WaitersWait

(* A step of the queue keeps the lock invariant.                           *)
LEMMA LockStep ==
  ASSUME TypeOK, LockInv, [Next]_vars
  PROVE  LockInv'
  <1> USE OwnerAssumption
  <1> USE DEF TypeOK, LockInv, MutualExclusion, WaitersWait, Holds, queueVars,
              waitVars, Goto
  <1>1. ASSUME NEW t \in Threads, NEW op \in Operations, NEW v \in Values,
               Call(t, op, v)
        PROVE  LockInv'
    BY <1>1 DEF Call
  <1>2. ASSUME NEW t \in Threads, Lock(t) \/ Relock(t)
        PROVE  LockInv'
    BY <1>2 DEF Lock, Relock
  <1>3. ASSUME NEW t \in Threads, LockFails(t)
        PROVE  LockInv'
    BY <1>3 DEF LockFails
  <1>4. ASSUME NEW t \in Threads, Wait(t)
        PROVE  LockInv'
    BY <1>4 DEF Wait, MustWait
  <1>5. ASSUME NEW t \in Threads, WaitFails(t) \/ TakeNothing(t) \/ ReadCount(t)
        PROVE  LockInv'
    BY <1>5 DEF WaitFails, TakeNothing, ReadCount
  <1>6. ASSUME NEW t \in Threads, SpuriousWakeup(t)
        PROVE  LockInv'
    BY <1>6 DEF SpuriousWakeup
  <1>7. ASSUME NEW t \in Threads, Put(t)
        PROVE  LockInv'
    BY <1>7 DEF Put
  <1>8. ASSUME NEW t \in Threads, Take(t)
        PROVE  LockInv'
    BY <1>8 DEF Take
  <1>9. ASSUME NEW t \in Threads, SignalNotEmpty(t)
        PROVE  LockInv'
    <2>1. PICK woken \in SUBSET notEmpty :
            notEmpty' = notEmpty \ woken /\ Resume(t, woken)
      BY <1>9 DEF SignalNotEmpty, Wakes
    <2> QED BY <1>9, <2>1 DEF SignalNotEmpty, Resume
  <1>10. ASSUME NEW t \in Threads, SignalNotFull(t)
         PROVE  LockInv'
    <2>1. PICK woken \in SUBSET notFull :
            notFull' = notFull \ woken /\ Resume(t, woken)
      BY <1>10 DEF SignalNotFull, Wakes
    <2> QED BY <1>10, <2>1 DEF SignalNotFull, Resume
  <1>11. ASSUME NEW t \in Threads, Unlock(t)
         PROVE  LockInv'
    BY <1>11 DEF Unlock
  <1>12. ASSUME NEW t \in Threads, Return(t)
         PROVE  LockInv'
    BY <1>12 DEF Return
  <1>13. CASE UNCHANGED vars
    BY <1>13 DEF vars
  <1> QED
    BY <1>1, <1>2, <1>3, <1>4, <1>5, <1>6, <1>7, <1>8, <1>9, <1>10, <1>11,
       <1>12, <1>13 DEF Next, Proceed

(* The code between lock and unlock runs alone, along every path: waits,   *)
(* failed waits, stolen wakeups and early returns.                         *)
THEOREM LockCorrect == Spec => []LockInv
  <1> USE OwnerAssumption
  <1>1. Init => LockInv
    BY DEF Init, LockInv, MutualExclusion, WaitersWait, Holds
  <1>2. TypeOK /\ LockInv /\ [Next]_vars => LockInv'
    BY LockStep
  <1> QED BY <1>1, <1>2, TypeCorrect, PTL DEF Spec

(* No two threads are between lock and unlock, and none leaves it locked.  *)
THEOREM MutexHeld == Spec => []MutualExclusion
  BY LockCorrect, PTL DEF LockInv

(* A thread sleeps exactly on the condition variable of its operation: a   *)
(* signal of pop can only wake a pusher, a signal of push only a popper.   *)
THEOREM SleepersWait == Spec => []WaitersWait
  BY LockCorrect, PTL DEF LockInv

-----------------------------------------------------------------------------
(* A step of the queue keeps the ring consistent.                          *)
LEMMA RingStep ==
  ASSUME TypeOK, RingConsistent, [Next]_vars
  PROVE  RingConsistent'
  <1> USE CapacityAssumption
  <1> USE DEF RingConsistent
  <1>1. ASSUME NEW t \in Threads, Put(t)
        PROVE  RingConsistent'
    <2>1. count \in 0..(Capacity - 1) /\ head \in 0..(Capacity - 1)
      BY <1>1 DEF Put, NextSlot, TypeOK, Slots
    <2>2. (((head + count) % Capacity) + 1) % Capacity
            = (head + (count + 1)) % Capacity
      BY <2>1, TailAdvances
    <2> QED BY <1>1, <2>2 DEF Put, NextSlot
  <1>2. ASSUME NEW t \in Threads, Take(t)
        PROVE  RingConsistent'
    <2>1. count \in 1..Capacity /\ head \in 0..(Capacity - 1)
      BY <1>2 DEF Take, NextSlot, TypeOK, Slots
    <2>2. (((head + 1) % Capacity) + (count - 1)) % Capacity
            = (head + count) % Capacity
      BY <2>1, HeadAdvances
    <2> QED BY <1>2, <2>2 DEF Take, NextSlot
  <1>3. CASE UNCHANGED queueVars
    BY <1>3 DEF queueVars
  <1>4. (\E t \in Threads : Put(t) \/ Take(t)) \/ UNCHANGED queueVars
    BY DEF Next, Proceed, vars, queueVars, Call, Lock, LockFails, Wait,
           WaitFails, SpuriousWakeup, Relock, TakeNothing, ReadCount,
           SignalNotEmpty, SignalNotFull, Unlock, Return
  <1> QED BY <1>1, <1>2, <1>3, <1>4

(* The tail is count slots after the head at every moment: push and pop    *)
(* each move one index, and agree about which slots are live.              *)
THEOREM RingCorrect == Spec => []RingConsistent
  <1> USE CapacityAssumption
  <1>1. Init => RingConsistent
    BY ModSmall DEF Init, RingConsistent
  <1>2. TypeOK /\ RingConsistent /\ [Next]_vars => RingConsistent'
    BY RingStep
  <1> QED BY <1>1, <1>2, TypeCorrect, PTL DEF Spec

-----------------------------------------------------------------------------
(***************************************************************************)
(* TSQueue implements BoundedFifo: the call of a thread takes effect at    *)
(* the step that moves its value, and every other step is a stutter.       *)
(***************************************************************************)

-----------------------------------------------------------------------------
(* What the caller has been told so far: nothing before the queue moved a  *)
(* value for it or refused.                                                *)
Silent == {"idle", "lock", "test", "wait", "relock"}

CallInv ==
  \A t \in Threads :
    /\ pc[t] \in Silent => result[t] = NoResult
    /\ pc[t] = "idle" => request[t] = NoRequest

(* A step of the queue gives no thread a result before its call took       *)
(* effect.                                                                 *)
LEMMA CallStep ==
  ASSUME TypeOK, LockInv, CallInv, [Next]_vars
  PROVE  CallInv'
  <1> USE DEF TypeOK, CallInv, Silent, Goto
  <1>1. ASSUME NEW t \in Threads, NEW op \in Operations, NEW v \in Values,
               Call(t, op, v)
        PROVE  CallInv'
    BY <1>1 DEF Call
  <1>2. ASSUME NEW t \in Threads, Lock(t) \/ Relock(t) \/ Wait(t) \/ SpuriousWakeup(t)
        PROVE  CallInv'
    BY <1>2 DEF Lock, Relock, Wait, SpuriousWakeup
  <1>3. ASSUME NEW t \in Threads,
               LockFails(t) \/ WaitFails(t) \/ TakeNothing(t) \/ ReadCount(t)
        PROVE  CallInv'
    BY <1>3 DEF LockFails, WaitFails, TakeNothing, ReadCount
  <1>4. ASSUME NEW t \in Threads, Put(t) \/ Take(t)
        PROVE  CallInv'
    BY <1>4 DEF Put, Take
  <1>5. ASSUME NEW t \in Threads, SignalNotEmpty(t) \/ SignalNotFull(t)
        PROVE  CallInv'
    BY <1>5 DEF SignalNotEmpty, SignalNotFull, Resume, Wakes, LockInv, WaitersWait
  <1>6. ASSUME NEW t \in Threads, Unlock(t) \/ Return(t)
        PROVE  CallInv'
    BY <1>6 DEF Unlock, Return
  <1>7. CASE UNCHANGED vars
    BY <1>7 DEF vars
  <1> QED
    BY <1>1, <1>2, <1>3, <1>4, <1>5, <1>6, <1>7 DEF Next, Proceed

(* A thread has no result before its call took effect. *)
LEMMA CallCorrect == Spec => []CallInv
  <1>1. Init => CallInv
    BY DEF Init, CallInv
  <1>2. TypeOK /\ LockInv /\ CallInv /\ [Next]_vars => CallInv'
    BY CallStep
  <1> QED BY <1>1, <1>2, TypeCorrect, LockCorrect, PTL DEF Spec

-----------------------------------------------------------------------------
(* The live slots as a sequence. *)

(* Two live positions are different slots. *)
LEMMA SlotsDiffer ==
  ASSUME NEW C \in Nat \ {0}, NEW h \in 0..(C - 1),
         NEW i \in 0..(C - 1), NEW j \in 0..(C - 1), i # j
  PROVE  (h + i) % C # (h + j) % C
  <1>1. ASSUME NEW k \in 0..(C - 1)
        PROVE  (h + k) % C = IF h + k < C THEN h + k ELSE h + k - C
    <2>1. CASE h + k < C
      <3>1. h + k \in 0..(C - 1)
        BY <2>1
      <3> QED BY <3>1, <2>1, ModSmall
    <2>2. CASE ~(h + k < C)
      <3>1. h + k \in C..(2 * C - 1)
        BY <2>2
      <3>2. (h + k) % C = h + k - C
        BY ONLY <3>1, ModWrap
      <3> QED BY <3>2, <2>2, Zenon
    <2> QED BY <2>1, <2>2
  <1>2. (h + i) % C = IF h + i < C THEN h + i ELSE h + i - C
    BY <1>1
  <1>3. (h + j) % C = IF h + j < C THEN h + j ELSE h + j - C
    BY <1>1
  <1>4. (IF h + i < C THEN h + i ELSE h + i - C)
          # (IF h + j < C THEN h + j ELSE h + j - C)
    OBVIOUS
  <1> QED BY <1>2, <1>3, <1>4, Zenon

(* Contents holds count values. *)
LEMMA ContentsIsSeq ==
  ASSUME TypeOK
  PROVE  /\ Contents \in Seq(Values)
         /\ Len(Contents) = count
         /\ count = 0 <=> Contents = << >>
  <1> USE CapacityAssumption
  <1>1. \A i \in 1..count : (head + i - 1) % Capacity \in Slots
    BY ModRange DEF TypeOK, Slots
  <1>2. Contents \in [1..count -> Values]
    BY <1>1 DEF Contents, TypeOK
  <1> QED BY <1>2 DEF TypeOK

(* push puts its argument behind the values already there. *)
LEMMA PutAppends ==
  ASSUME TypeOK, RingConsistent, NEW t \in Threads, Put(t)
  PROVE  Contents' = Append(Contents, request[t].arg)
  <1> USE CapacityAssumption
  <1> DEFINE v == request[t].arg
  <1>1. count \in 0..(Capacity - 1) /\ count' = count + 1 /\ head' = head
    BY DEF Put, NextSlot, TypeOK
  <1>2. items' = [items EXCEPT ![(head + count) % Capacity] = v]
    BY DEF Put, NextSlot, RingConsistent
  <1>3. ASSUME NEW i \in 1..count
        PROVE  items'[(head + i - 1) % Capacity] = items[(head + i - 1) % Capacity]
    <2>1. (head + (i - 1)) % Capacity # (head + count) % Capacity
      <3>1. /\ head \in 0..(Capacity - 1)
            /\ i - 1 \in 0..(Capacity - 1)
            /\ count \in 0..(Capacity - 1)
            /\ i - 1 # count
        BY <1>1 DEF TypeOK, Slots
      <3> QED BY <3>1, SlotsDiffer
    <2>2. (head + (i - 1)) = head + i - 1
      BY DEF TypeOK, Slots
    <2>3. (head + i - 1) % Capacity \in Slots
      BY ModRange DEF TypeOK, Slots
    <2> QED BY <2>1, <2>2, <2>3, <1>2 DEF TypeOK
  <1>4. items'[(head + (count + 1) - 1) % Capacity] = v
    <2>1. (head + count) % Capacity \in Slots
      BY ModRange DEF TypeOK, Slots
    <2>2. head + (count + 1) - 1 = head + count
      BY DEF TypeOK, Slots
    <2> QED BY <2>1, <2>2, <1>2 DEF TypeOK
  <1>5. Contents' = [i \in 1..(count + 1) |-> items'[(head + i - 1) % Capacity]]
    BY <1>1 DEF Contents
  <1>6. Append(Contents, v) = [i \in 1..(count + 1) |->
                                 IF i = count + 1 THEN v ELSE Contents[i]]
    BY ContentsIsSeq
  <1>7. ASSUME NEW i \in 1..(count + 1)
        PROVE  items'[(head + i - 1) % Capacity]
                 = IF i = count + 1 THEN v ELSE Contents[i]
    BY <1>1, <1>3, <1>4 DEF Contents
  <1> QED BY <1>5, <1>6, <1>7

(* pop and try_pop take the oldest value and leave the rest in order. *)
LEMMA TakeRemoves ==
  ASSUME TypeOK, NEW t \in Threads, Take(t)
  PROVE  /\ Contents # << >>
         /\ items[head] = Head(Contents)
         /\ Contents' = Tail(Contents)
  <1> USE CapacityAssumption
  <1>1. /\ count \in 1..Capacity
        /\ count' = count - 1
        /\ head' = (head + 1) % Capacity
        /\ items' = items
    BY DEF Take, NextSlot, TypeOK
  <1>2. Contents # << >> /\ Len(Contents) = count /\ Contents \in Seq(Values)
    BY <1>1, ContentsIsSeq
  <1>3. Head(Contents) = items[head]
    <2>1. head \in 0..(Capacity - 1) /\ head + 1 - 1 = head
      BY DEF TypeOK, Slots
    <2>2. (head + 1 - 1) % Capacity = head
      BY <2>1, ModSmall
    <2> QED BY <1>1, <1>2, <2>2 DEF Contents
  <1>4. Contents' = [i \in 1..(count - 1) |->
                       items[(((head + 1) % Capacity) + i - 1) % Capacity]]
    BY <1>1 DEF Contents
  <1>5. Tail(Contents) = [i \in 1..(count - 1) |-> Contents[i + 1]]
    <2>1. /\ Tail(Contents) \in Seq(Values)
          /\ Len(Tail(Contents)) = count - 1
          /\ \A i \in 1..Len(Tail(Contents)) : Tail(Contents)[i] = Contents[i + 1]
      BY <1>2, HeadTailProperties
    <2>2. Tail(Contents) \in [1..(count - 1) -> Values]
      BY <2>1, LenProperties
    <2> QED BY <2>1, <2>2, <1>2
  <1>6. ASSUME NEW i \in 1..(count - 1)
        PROVE  items[(((head + 1) % Capacity) + i - 1) % Capacity] = Contents[i + 1]
    <2>1. /\ (head + 1) % Capacity \in 0..(Capacity - 1)
          /\ (((head + 1) % Capacity) + (i - 1)) % Capacity = (head + i) % Capacity
      <3>1. head \in 0..(Capacity - 1) /\ i \in 1..Capacity
        BY <1>1 DEF TypeOK, Slots
      <3> QED BY <3>1, HeadAdvances
    <2>2. ((head + 1) % Capacity) + (i - 1) = ((head + 1) % Capacity) + i - 1
      BY <2>1
    <2>3. head + i = head + (i + 1) - 1
      BY DEF TypeOK, Slots
    <2>4. i + 1 \in 1..count
      BY <1>1
    <2> QED BY <2>1, <2>2, <2>3, <2>4 DEF Contents
  <1> QED BY <1>2, <1>3, <1>4, <1>5, <1>6

-----------------------------------------------------------------------------
(* Refinement. *)
Statuses == [t \in Threads |-> Progress(t)]

(* A step that leaves the ring, the requests, the results and the status   *)
(* of every call alone is invisible to the abstract queue.                 *)
LEMMA Stutters ==
  ASSUME UNCHANGED << queueVars, request, result >>,
         \A u \in Threads : Progress(u)' = Progress(u)
  PROVE  UNCHANGED Fifo!fifoVars
  <1>1. Contents' = Contents
    BY DEF Contents, queueVars
  <1>2. Statuses' = Statuses
    BY DEF Statuses
  <1> QED BY <1>1, <1>2 DEF Statuses, Fifo!fifoVars

(* Only the status of t changes when only its program counter moves.       *)
LEMMA StatusMoves ==
  ASSUME TypeOK, NEW t \in Threads, NEW p \in Points, Goto(t, p)
  PROVE  /\ Progress(t)' = CASE p = "idle" -> "idle"
                             [] p \in {"lock", "test", "wait", "relock"} -> "pending"
                             [] OTHER -> "done"
         /\ \A u \in Threads \ {t} : Progress(u)' = Progress(u)
         /\ Statuses' = [Statuses EXCEPT ![t] = Progress(t)']
  <1>1. pc'[t] = p /\ \A u \in Threads \ {t} : pc'[u] = pc[u]
    BY DEF Goto, TypeOK
  <1>2. \A u \in Threads \ {t} : Progress(u)' = Progress(u)
    BY <1>1 DEF Progress
  <1>3. Progress(t)' = CASE p = "idle" -> "idle"
                         [] p \in {"lock", "test", "wait", "relock"} -> "pending"
                         [] OTHER -> "done"
    BY <1>1 DEF Progress
  <1> QED BY <1>2, <1>3 DEF Statuses

(* The ring implements the bounded FIFO: a push appends to its contents, a *)
(* pop takes their head, a failed call does nothing, and no step of the    *)
(* mutex or of the condition variables is visible to a caller.             *)
THEOREM RefinesFifo == Spec => ImplementsFifo
  <1> USE CapacityAssumption, OwnerAssumption, NullAssumption
  <1>1. Init => Fifo!FifoInit
    <2> SUFFICES ASSUME Init PROVE Fifo!FifoInit
      OBVIOUS
    <2>1. Contents = << >>
      BY DEF Init, Contents
    <2>2. \A t \in Threads : Progress(t) = "idle"
      BY DEF Init, Progress
    <2> QED
      BY <2>1, <2>2 DEF Init, NoRequest, NoResult, Fifo!FifoInit, Fifo!Idle,
         Fifo!NoRequest, Fifo!NoResponse
  <1>2. TypeOK /\ LockInv /\ RingConsistent /\ CallInv /\ [Next]_vars
          => [Fifo!FifoNext]_(Fifo!fifoVars)
    <2> SUFFICES ASSUME TypeOK, LockInv, RingConsistent, CallInv, [Next]_vars
                 PROVE  [Fifo!FifoNext]_(Fifo!fifoVars)
      OBVIOUS
    <2> USE DEF Points
    <2>0. \A t \in Threads : Statuses[t] = Progress(t)
      BY DEF Statuses
    <2>1. ASSUME NEW t \in Threads, NEW op \in Operations, NEW v \in Values,
                 Call(t, op, v)
          PROVE  Fifo!Invoke(t, op, v)
      <3>1. Progress(t) = "idle" /\ Statuses' = [Statuses EXCEPT ![t] = "pending"]
        BY <2>1, StatusMoves DEF Call, Progress
      <3>2. UNCHANGED Contents
        BY <2>1 DEF Call, queueVars, Contents
      <3> QED BY <2>1, <3>1, <3>2 DEF Call, Statuses, Fifo!Invoke, Fifo!Idle, Fifo!Pending
    <2>2. ASSUME NEW t \in Threads, Lock(t) \/ Relock(t) \/ Wait(t) \/ SpuriousWakeup(t)
          PROVE  UNCHANGED Fifo!fifoVars
      <3>1. Progress(t) = "pending" /\ Progress(t)' = "pending"
        BY <2>2, StatusMoves DEF Lock, Relock, Wait, SpuriousWakeup, Progress
      <3>2. \A u \in Threads : Progress(u)' = Progress(u)
        BY <2>2, <3>1, StatusMoves DEF Lock, Relock, Wait, SpuriousWakeup
      <3> QED BY <2>2, <3>2, Stutters DEF Lock, Relock, Wait, SpuriousWakeup
    <2>3. ASSUME NEW t \in Threads, Unlock(t)
          PROVE  UNCHANGED Fifo!fifoVars
      <3>1. Progress(t) = "done" /\ Progress(t)' = "done"
        BY <2>3, StatusMoves DEF Unlock, Progress
      <3>2. \A u \in Threads : Progress(u)' = Progress(u)
        BY <2>3, <3>1, StatusMoves DEF Unlock
      <3> QED BY <2>3, <3>2, Stutters DEF Unlock
    <2>4. ASSUME NEW t \in Threads, SignalNotEmpty(t) \/ SignalNotFull(t)
          PROVE  UNCHANGED Fifo!fifoVars
      <3>1. ASSUME NEW u \in Threads
            PROVE  Progress(u)' = Progress(u)
        <4>1. \/ pc'[u] = pc[u]
              \/ pc[u] = "signal" /\ pc'[u] = "unlock"
              \/ pc[u] = "wait" /\ pc'[u] = "relock"
          BY <2>4 DEF SignalNotEmpty, SignalNotFull, Resume, Wakes, LockInv, WaitersWait
        <4> QED BY <4>1 DEF Progress
      <3> QED BY <2>4, <3>1, Stutters DEF SignalNotEmpty, SignalNotFull
    <2>5. ASSUME NEW t \in Threads, NEW r,
                 Progress(t) = "pending",
                 Statuses' = [Statuses EXCEPT ![t] = "done"],
                 result' = [result EXCEPT ![t] = r],
                 request' = request
          PROVE  Fifo!Answer(t, r)
      BY <2>5 DEF Statuses, Fifo!Answer, Fifo!Pending, Fifo!Done
    <2>6. ASSUME NEW t \in Threads, Put(t)
          PROVE  Fifo!Enqueue(t)
      <3>1. Progress(t) = "pending" /\ Statuses' = [Statuses EXCEPT ![t] = "done"]
        BY <2>6, StatusMoves DEF Put, Progress
      <3>2. result' = [result EXCEPT ![t] = NoResult]
        BY <2>6 DEF Put, CallInv, Silent, TypeOK
      <3>3. Fifo!Answer(t, [info |-> "OK", data |-> NULL])
        BY <2>6, <2>5, <3>1, <3>2 DEF Put, NoResult
      <3>4. Len(Contents) < Capacity
        BY <2>6, ContentsIsSeq DEF Put, TypeOK
      <3> QED BY <2>6, <3>3, <3>4, PutAppends DEF Put, Fifo!Enqueue
    <2>7. ASSUME NEW t \in Threads, Take(t)
          PROVE  Fifo!Dequeue(t)
      <3>1. Progress(t) = "pending" /\ Statuses' = [Statuses EXCEPT ![t] = "done"]
        BY <2>7, StatusMoves DEF Take, Progress
      <3>2. Fifo!Answer(t, [info |-> "OK", data |-> items[head]])
        BY <2>7, <2>5, <3>1 DEF Take
      <3> QED BY <2>7, <3>2, TakeRemoves DEF Take, Fifo!Dequeue
    <2>8. ASSUME NEW t \in Threads, TakeNothing(t)
          PROVE  Fifo!FindEmpty(t)
      <3>1. Progress(t) = "pending" /\ Statuses' = [Statuses EXCEPT ![t] = "done"]
        BY <2>8, StatusMoves DEF TakeNothing, Progress
      <3>2. Fifo!Answer(t, [info |-> "QUEUE_EMPTY", data |-> NULL])
        BY <2>8, <2>5, <3>1 DEF TakeNothing, Failure
      <3>3. Contents = << >> /\ UNCHANGED Contents
        BY <2>8, ContentsIsSeq DEF TakeNothing, queueVars, Contents
      <3> QED BY <2>8, <3>2, <3>3 DEF TakeNothing, Fifo!FindEmpty
    <2>9. ASSUME NEW t \in Threads, ReadCount(t)
          PROVE  Fifo!Measure(t)
      <3>1. Progress(t) = "pending" /\ Statuses' = [Statuses EXCEPT ![t] = "done"]
        BY <2>9, StatusMoves DEF ReadCount, Progress
      <3>2. Len(Contents) = count
        BY ContentsIsSeq
      <3>3. Fifo!Answer(t, [info |-> "OK", data |-> Len(Contents)])
        BY <2>9, <2>5, <3>1, <3>2 DEF ReadCount
      <3>4. UNCHANGED Contents
        BY <2>9 DEF ReadCount, queueVars, Contents
      <3> QED BY <2>9, <3>3, <3>4 DEF ReadCount, Fifo!Measure
    <2>10. ASSUME NEW t \in Threads, LockFails(t) \/ WaitFails(t)
           PROVE  Fifo!Refuse(t)
      <3>1. Progress(t) = "pending" /\ Statuses' = [Statuses EXCEPT ![t] = "done"]
        BY <2>10, StatusMoves DEF LockFails, WaitFails, Progress
      <3>2. UNCHANGED Contents
        BY <2>10 DEF LockFails, WaitFails, queueVars, Contents
      <3>3. CASE LockFails(t)
        <4>1. Fifo!Answer(t, [info |-> "MUTEX_LOCK_FAILED", data |-> NULL])
          BY <3>3, <2>5, <3>1 DEF LockFails, Failure
        <4> QED BY <3>3, <3>2, <4>1 DEF LockFails, Fallible, Fifo!Refuse, Fifo!Refusable
      <3>4. CASE WaitFails(t)
        <4>1. Fifo!Answer(t, [info |-> "COND_WAIT_FAILED", data |-> NULL])
          BY <3>4, <2>5, <3>1 DEF WaitFails, Failure
        <4>2. Len(Contents) = count /\ (count = 0 <=> Contents = << >>)
          BY ContentsIsSeq
        <4> QED BY <3>4, <3>2, <4>1, <4>2 DEF WaitFails, MustWait, Fifo!Refuse
      <3> QED BY <2>10, <3>3, <3>4
    <2>11. ASSUME NEW t \in Threads, Return(t)
           PROVE  Fifo!Finish(t)
      <3>1. Progress(t) = "done" /\ Statuses' = [Statuses EXCEPT ![t] = "idle"]
        BY <2>11, StatusMoves DEF Return, Progress
      <3>2. UNCHANGED Contents
        BY <2>11 DEF Return, queueVars, Contents
      <3> QED
        BY <2>11, <3>1, <3>2 DEF Return, Statuses, NoRequest, NoResult, Fifo!Finish,
           Fifo!Idle, Fifo!Done, Fifo!NoRequest, Fifo!NoResponse
    <2>12. CASE UNCHANGED vars
      BY <2>12, Stutters DEF vars, queueVars, Progress
    <2>13. Operations = Fifo!Refusable \cup {"count"}
      BY DEF Operations, Fifo!Refusable
    <2> QED
      BY <2>1, <2>2, <2>3, <2>4, <2>6, <2>7, <2>8, <2>9, <2>10, <2>11, <2>12, <2>13
         DEF Next, Proceed, Fifo!FifoNext
  <1> QED
    BY <1>1, <1>2, TypeCorrect, LockCorrect, RingCorrect, CallCorrect, PTL
       DEF Spec, ImplementsFifo, Fifo!FifoSpec

-----------------------------------------------------------------------------
(***************************************************************************)
(* No wakeup of TSQueue is lost, whatever the number of threads, the       *)
(* capacity and the failures of the primitives.                            *)
(***************************************************************************)

-----------------------------------------------------------------------------
(* Counting threads.                                                       *)

(* A set of threads has a size. *)
LEMMA Counted ==
  ASSUME NEW S, S \subseteq Threads
  PROVE  IsFiniteSet(S) /\ Cardinality(S) \in Nat
  <1>1. IsFiniteSet(S)
    BY ThreadsAssumption, FS_Subset
  <1> QED BY <1>1, FS_CardinalityType

(* One more set of threads is no smaller than what it contains. *)
LEMMA CountGrows ==
  ASSUME NEW S, NEW T, S \subseteq T, T \subseteq Threads
  PROVE  Cardinality(S) <= Cardinality(T)
  <1>1. IsFiniteSet(T)
    BY Counted
  <1> QED BY <1>1, FS_Subset

(* A thread that joins a set counts for one ... *)
LEMMA CountJoins ==
  ASSUME NEW S, NEW t, S \subseteq Threads, t \notin S
  PROVE  Cardinality(S \cup {t}) = Cardinality(S) + 1
  <1>1. IsFiniteSet(S)
    BY Counted
  <1> QED BY <1>1, FS_AddElement

(* ... and so does one that leaves it. *)
LEMMA CountLeaves ==
  ASSUME NEW S, NEW t, S \subseteq Threads, t \in S
  PROVE  Cardinality(S \ {t}) = Cardinality(S) - 1
  <1>1. IsFiniteSet(S)
    BY Counted
  <1> QED BY <1>1, FS_RemoveElement

-----------------------------------------------------------------------------
(* The two halves of the invariant: values and poppers, slots and pushers. *)

AwakePoppers == Awake("pop")
AwakePushers == Awake("push")
Pushed == Signalling({"push"})
Popped == Signalling({"pop", "try_pop"})

ValuesSpokenFor ==
  notEmpty # {} => count <= Cardinality(AwakePoppers) + Cardinality(Pushed)

SlotsSpokenFor ==
  notFull # {} => Capacity - count <= Cardinality(AwakePushers) + Cardinality(Popped)

(* They are sets of threads, before and after a step. *)
LEMMA Sets ==
  /\ AwakePoppers \subseteq Threads
  /\ AwakePushers \subseteq Threads
  /\ Pushed \subseteq Threads
  /\ Popped \subseteq Threads
  BY DEF AwakePoppers, AwakePushers, Pushed, Popped, Awake, Signalling

(* They are sets of threads after a step, too.                             *)
LEMMA SetsNext ==
  /\ AwakePoppers' \subseteq Threads
  /\ AwakePushers' \subseteq Threads
  /\ Pushed' \subseteq Threads
  /\ Popped' \subseteq Threads
  BY DEF AwakePoppers, AwakePushers, Pushed, Popped, Awake, Signalling

(* A step that moves no value and takes nobody's place away. *)
LEMMA QuietForPoppers ==
  ASSUME ValuesSpokenFor, TypeOK, count' = count, notEmpty' \subseteq notEmpty,
         AwakePoppers \subseteq AwakePoppers', Pushed \subseteq Pushed'
  PROVE  ValuesSpokenFor'
  <1>1. /\ Cardinality(AwakePoppers) <= Cardinality(AwakePoppers')
        /\ Cardinality(Pushed) <= Cardinality(Pushed')
    BY SetsNext, CountGrows
  <1>2. /\ Cardinality(AwakePoppers) \in Nat /\ Cardinality(AwakePoppers') \in Nat
        /\ Cardinality(Pushed) \in Nat /\ Cardinality(Pushed') \in Nat
    BY Sets, SetsNext, Counted
  <1>3. count \in Nat
    BY CapacityAssumption DEF TypeOK
  <1> QED BY <1>1, <1>2, <1>3 DEF ValuesSpokenFor

(* The same for slots and pushers. *)
LEMMA QuietForPushers ==
  ASSUME SlotsSpokenFor, TypeOK, count' = count, notFull' \subseteq notFull,
         AwakePushers \subseteq AwakePushers', Popped \subseteq Popped'
  PROVE  SlotsSpokenFor'
  <1>1. /\ Cardinality(AwakePushers) <= Cardinality(AwakePushers')
        /\ Cardinality(Popped) <= Cardinality(Popped')
    BY SetsNext, CountGrows
  <1>2. /\ Cardinality(AwakePushers) \in Nat /\ Cardinality(AwakePushers') \in Nat
        /\ Cardinality(Popped) \in Nat /\ Cardinality(Popped') \in Nat
    BY Sets, SetsNext, Counted
  <1>3. count \in Nat
    BY CapacityAssumption DEF TypeOK
  <1> QED BY <1>1, <1>2, <1>3, CapacityAssumption DEF SlotsSpokenFor

-----------------------------------------------------------------------------
(* The steps that move a value or send a signal. *)

(* push adds a value and its own signal for it, and uses one slot itself.  *)
LEMMA PutKeeps ==
  ASSUME TypeOK, ValuesSpokenFor, SlotsSpokenFor, NEW t \in Threads, Put(t)
  PROVE  ValuesSpokenFor' /\ SlotsSpokenFor'
  <1> USE DEF AwakePoppers, AwakePushers, Pushed, Popped, Awake, Signalling
  <1>1. AwakePoppers' = AwakePoppers /\ Popped' = Popped
    BY DEF Put, Goto, TypeOK
  <1>2. t \notin Pushed /\ Pushed' = Pushed \cup {t}
    BY DEF Put, Goto, TypeOK
  <1>3. t \in AwakePushers /\ AwakePushers' = AwakePushers \ {t}
    BY DEF Put, Goto, TypeOK
  <1> HIDE DEF AwakePoppers, AwakePushers, Pushed, Popped
  <1>4. Cardinality(Pushed') = Cardinality(Pushed) + 1
    BY <1>2, Sets, CountJoins
  <1>5. Cardinality(AwakePushers') = Cardinality(AwakePushers) - 1
    BY <1>3, Sets, CountLeaves
  <1>6. count' = count + 1 /\ notEmpty' = notEmpty /\ notFull' = notFull
    BY DEF Put, waitVars
  <1>7. count \in Nat /\ Capacity \in Nat
    BY CapacityAssumption DEF TypeOK
  <1>8. /\ Cardinality(AwakePoppers) \in Nat /\ Cardinality(AwakePushers) \in Nat
        /\ Cardinality(Pushed) \in Nat /\ Cardinality(Popped) \in Nat
    BY Sets, Counted
  <1>9. ValuesSpokenFor'
    BY <1>1, <1>4, <1>6, <1>7, <1>8 DEF ValuesSpokenFor
  <1>10. SlotsSpokenFor'
    BY <1>1, <1>5, <1>6, <1>7, <1>8 DEF SlotsSpokenFor
  <1> QED BY <1>9, <1>10

(* pop and try_pop free a slot and owe a signal for it; a pop uses up the  *)
(* value it was awake for, a try_pop takes one from under those awake.     *)
LEMMA TakeKeeps ==
  ASSUME TypeOK, ValuesSpokenFor, SlotsSpokenFor, NEW t \in Threads, Take(t)
  PROVE  ValuesSpokenFor' /\ SlotsSpokenFor'
  <1> USE DEF AwakePoppers, AwakePushers, Pushed, Popped, Awake, Signalling
  <1>1. AwakePushers' = AwakePushers /\ Pushed' = Pushed
    BY DEF Take, Goto, TypeOK
  <1>2. t \notin Popped /\ Popped' = Popped \cup {t}
    BY DEF Take, Goto, TypeOK
  <1>3. \/ t \in AwakePoppers /\ AwakePoppers' = AwakePoppers \ {t}
        \/ AwakePoppers' = AwakePoppers
    BY DEF Take, Goto, TypeOK
  <1> HIDE DEF AwakePoppers, AwakePushers, Pushed, Popped
  <1>4. Cardinality(Popped') = Cardinality(Popped) + 1
    BY <1>2, Sets, CountJoins
  <1>5. \/ Cardinality(AwakePoppers') = Cardinality(AwakePoppers) - 1
        \/ Cardinality(AwakePoppers') = Cardinality(AwakePoppers)
    BY <1>3, Sets, CountLeaves
  <1>6. count' = count - 1 /\ notEmpty' = notEmpty /\ notFull' = notFull
    BY DEF Take, waitVars
  <1>7. count \in Nat /\ Capacity \in Nat
    BY CapacityAssumption DEF TypeOK
  <1>8. /\ Cardinality(AwakePoppers) \in Nat /\ Cardinality(AwakePushers) \in Nat
        /\ Cardinality(Pushed) \in Nat /\ Cardinality(Popped) \in Nat
    BY Sets, Counted
  <1>9. ValuesSpokenFor'
    BY <1>1, <1>5, <1>6, <1>7, <1>8 DEF ValuesSpokenFor
  <1>10. SlotsSpokenFor'
    BY <1>1, <1>4, <1>6, <1>7, <1>8 DEF SlotsSpokenFor
  <1> QED BY <1>9, <1>10

(* The signal of a push is replaced by the popper it wakes: if there is    *)
(* nobody to wake, nobody sleeps and there is nothing to answer for.       *)
LEMMA SignalNotEmptyKeeps ==
  ASSUME TypeOK, WaitersWait, ValuesSpokenFor, SlotsSpokenFor,
         NEW t \in Threads, SignalNotEmpty(t)
  PROVE  ValuesSpokenFor' /\ SlotsSpokenFor'
  <1> USE DEF AwakePoppers, AwakePushers, Pushed, Popped, Awake, Signalling
  <1>1. PICK woken \in Wakes(notEmpty) :
          notEmpty' = notEmpty \ woken /\ Resume(t, woken)
    BY DEF SignalNotEmpty
  <1>2. woken \subseteq notEmpty
    BY <1>1 DEF Wakes
  <1>3. \A w \in woken : pc[w] = "wait" /\ request[w].op = "pop" /\ w \in Threads
    BY <1>2 DEF WaitersWait, TypeOK
  <1>4. /\ request' = request /\ count' = count /\ notFull' = notFull
        /\ pc[t] = "signal" /\ request[t].op = "push"
    BY DEF SignalNotEmpty, queueVars
  <1>5. AwakePushers' = AwakePushers /\ Popped' = Popped
    BY <1>1, <1>3, <1>4 DEF Resume
  <1>6. SlotsSpokenFor'
    BY <1>4, <1>5 DEF SlotsSpokenFor
  <1>7. CASE notEmpty = {}
    BY <1>1, <1>6, <1>7 DEF ValuesSpokenFor
  <1>8. CASE notEmpty # {}
    <2>1. PICK w \in notEmpty : woken = {w}
      BY <1>1, <1>8 DEF Wakes
    <2>2. pc' = [u \in Threads |-> CASE u = t -> "unlock"
                                     [] u # t /\ u = w -> "relock"
                                     [] OTHER -> pc[u]]
      BY <1>1, <2>1 DEF Resume
    <2>3. w \notin AwakePoppers /\ AwakePoppers' = AwakePoppers \cup {w}
      BY <1>3, <1>4, <2>1, <2>2
    <2>4. t \in Pushed /\ Pushed' = Pushed \ {t}
      BY <1>3, <1>4, <2>1, <2>2
    <2> HIDE DEF AwakePoppers, AwakePushers, Pushed, Popped
    <2>5. Cardinality(AwakePoppers') = Cardinality(AwakePoppers) + 1
      BY <2>3, Sets, CountJoins
    <2>6. Cardinality(Pushed') = Cardinality(Pushed) - 1
      BY <2>4, Sets, CountLeaves
    <2>7. Cardinality(AwakePoppers) \in Nat /\ Cardinality(Pushed) \in Nat
      BY Sets, Counted
    <2>8. count \in Nat
      BY CapacityAssumption DEF TypeOK
    <2>9. ValuesSpokenFor'
      BY <1>4, <1>8, <2>5, <2>6, <2>7, <2>8 DEF ValuesSpokenFor
    <2> QED BY <1>6, <2>9
  <1> QED BY <1>7, <1>8

(* The same for the signal of a pop or try_pop and the pusher it wakes. *)
LEMMA SignalNotFullKeeps ==
  ASSUME TypeOK, WaitersWait, ValuesSpokenFor, SlotsSpokenFor,
         NEW t \in Threads, SignalNotFull(t)
  PROVE  ValuesSpokenFor' /\ SlotsSpokenFor'
  <1> USE DEF AwakePoppers, AwakePushers, Pushed, Popped, Awake, Signalling
  <1>1. PICK woken \in Wakes(notFull) :
          notFull' = notFull \ woken /\ Resume(t, woken)
    BY DEF SignalNotFull
  <1>2. woken \subseteq notFull
    BY <1>1 DEF Wakes
  <1>3. \A w \in woken : pc[w] = "wait" /\ request[w].op = "push" /\ w \in Threads
    BY <1>2 DEF WaitersWait, TypeOK
  <1>4. /\ request' = request /\ count' = count /\ notEmpty' = notEmpty
        /\ pc[t] = "signal" /\ request[t].op \in {"pop", "try_pop"}
    BY DEF SignalNotFull, queueVars
  <1>5. AwakePoppers' = AwakePoppers /\ Pushed' = Pushed
    BY <1>1, <1>3, <1>4 DEF Resume
  <1>6. ValuesSpokenFor'
    BY <1>4, <1>5 DEF ValuesSpokenFor
  <1>7. CASE notFull = {}
    BY <1>1, <1>6, <1>7 DEF SlotsSpokenFor
  <1>8. CASE notFull # {}
    <2>1. PICK w \in notFull : woken = {w}
      BY <1>1, <1>8 DEF Wakes
    <2>2. pc' = [u \in Threads |-> CASE u = t -> "unlock"
                                     [] u # t /\ u = w -> "relock"
                                     [] OTHER -> pc[u]]
      BY <1>1, <2>1 DEF Resume
    <2>3. w \notin AwakePushers /\ AwakePushers' = AwakePushers \cup {w}
      BY <1>3, <1>4, <2>1, <2>2
    <2>4. t \in Popped /\ Popped' = Popped \ {t}
      BY <1>3, <1>4, <2>1, <2>2
    <2> HIDE DEF AwakePoppers, AwakePushers, Pushed, Popped
    <2>5. Cardinality(AwakePushers') = Cardinality(AwakePushers) + 1
      BY <2>3, Sets, CountJoins
    <2>6. Cardinality(Popped') = Cardinality(Popped) - 1
      BY <2>4, Sets, CountLeaves
    <2>7. Cardinality(AwakePushers) \in Nat /\ Cardinality(Popped) \in Nat
      BY Sets, Counted
    <2>8. count \in Nat /\ Capacity \in Nat
      BY CapacityAssumption DEF TypeOK
    <2>9. SlotsSpokenFor'
      BY <1>4, <1>8, <2>5, <2>6, <2>7, <2>8 DEF SlotsSpokenFor
    <2> QED BY <1>6, <2>9
  <1> QED BY <1>7, <1>8

-----------------------------------------------------------------------------
(* The steps that move nothing.                                            *)

(* Steps that leave the values, and every thread that is spoken for, where *)
(* they are; some of them wake a thread up.                                *)
LEMMA QuietKeeps ==
  ASSUME TypeOK, ValuesSpokenFor, SlotsSpokenFor,
         count' = count, notEmpty' \subseteq notEmpty, notFull' \subseteq notFull,
         \A u \in Threads :
           pc[u] \in {"relock", "test", "signal"} =>
             /\ request'[u] = request[u]
             /\ \/ pc'[u] = pc[u]
                \/ pc[u] = "relock" /\ pc'[u] = "test"
                \/ request[u].op \notin {"push", "pop"} /\ pc[u] # "signal"
  PROVE  ValuesSpokenFor' /\ SlotsSpokenFor'
  <1> USE DEF AwakePoppers, AwakePushers, Pushed, Popped, Awake, Signalling
  <1>1. AwakePoppers \subseteq AwakePoppers' /\ Pushed \subseteq Pushed'
    OBVIOUS
  <1>2. AwakePushers \subseteq AwakePushers' /\ Popped \subseteq Popped'
    OBVIOUS
  <1> QED BY <1>1, <1>2, QuietForPoppers, QuietForPushers

(* A wait, taken or failed, is tried only where there is no value or no    *)
(* slot to speak for, and concerns only the side it waits on.              *)
LEMMA WaitKeeps ==
  ASSUME TypeOK, ValuesSpokenFor, SlotsSpokenFor,
         NEW t \in Threads, Wait(t) \/ WaitFails(t)
  PROVE  ValuesSpokenFor' /\ SlotsSpokenFor'
  <1> USE DEF AwakePoppers, AwakePushers, Pushed, Popped, Awake, Signalling
  <1>1. /\ count' = count /\ request' = request /\ pc[t] = "test"
        /\ \A u \in Threads \ {t} : pc'[u] = pc[u]
        /\ \/ request[t].op = "push" /\ count = Capacity /\ notEmpty' = notEmpty
           \/ request[t].op = "pop" /\ count = 0 /\ notFull' = notFull
    BY DEF Wait, WaitFails, MustWait, Goto, queueVars, waitVars, TypeOK
  <1>2. /\ Cardinality(AwakePoppers') \in Nat /\ Cardinality(AwakePushers') \in Nat
        /\ Cardinality(Pushed') \in Nat /\ Cardinality(Popped') \in Nat
    BY SetsNext, Counted
  <1>3. CASE request[t].op = "push"
    <2>1. AwakePoppers \subseteq AwakePoppers' /\ Pushed \subseteq Pushed'
      BY <1>1, <1>3
    <2>2. ValuesSpokenFor'
      BY <1>1, <1>3, <2>1, QuietForPoppers
    <2>3. SlotsSpokenFor'
      BY <1>1, <1>2, <1>3, CapacityAssumption DEF SlotsSpokenFor
    <2> QED BY <2>2, <2>3
  <1>4. CASE request[t].op = "pop"
    <2>1. AwakePushers \subseteq AwakePushers' /\ Popped \subseteq Popped'
      BY <1>1, <1>4
    <2>2. SlotsSpokenFor'
      BY <1>1, <1>4, <2>1, QuietForPushers
    <2>3. ValuesSpokenFor'
      BY <1>1, <1>2, <1>4 DEF ValuesSpokenFor
    <2> QED BY <2>2, <2>3
  <1> QED BY <1>1, <1>3, <1>4

-----------------------------------------------------------------------------
(* No wakeup of push or pop is lost: while a popper sleeps every value in  *)
(* the queue has a popper awake for it or a signal still to come, and the  *)
(* same for pushers and free slots, although the code sends one signal per *)
(* call, after any thread may have taken the value it is about.            *)
THEOREM WakeupsKept == Spec => []NoLostWakeup
  <1>1. NoLostWakeup <=> ValuesSpokenFor /\ SlotsSpokenFor
    BY DEF NoLostWakeup, ValuesSpokenFor, SlotsSpokenFor, AwakePoppers,
           AwakePushers, Pushed, Popped
  <1>2. Init => NoLostWakeup
    BY DEF Init, NoLostWakeup
  <1>3. TypeOK /\ WaitersWait /\ NoLostWakeup /\ [Next]_vars => NoLostWakeup'
    <2> SUFFICES ASSUME TypeOK, WaitersWait, ValuesSpokenFor, SlotsSpokenFor,
                        [Next]_vars
                 PROVE  ValuesSpokenFor' /\ SlotsSpokenFor'
      BY <1>1 DEF NoLostWakeup, ValuesSpokenFor, SlotsSpokenFor, AwakePoppers,
                  AwakePushers, Pushed, Popped
    <2> DEFINE Kept == ValuesSpokenFor' /\ SlotsSpokenFor'
    <2>1. ASSUME NEW t \in Threads, NEW op \in Operations, NEW v \in Values,
                 Call(t, op, v)
          PROVE  Kept
      BY <2>1, QuietKeeps DEF Call, Goto, queueVars, waitVars, TypeOK
    <2>2. ASSUME NEW t \in Threads, Lock(t) \/ Relock(t)
          PROVE  Kept
      BY <2>2, QuietKeeps DEF Lock, Relock, Goto, queueVars, waitVars, TypeOK
    <2>3. ASSUME NEW t \in Threads, LockFails(t)
          PROVE  Kept
      BY <2>3, QuietKeeps DEF LockFails, Goto, queueVars, waitVars, TypeOK
    <2>4. ASSUME NEW t \in Threads, Wait(t) \/ WaitFails(t)
          PROVE  Kept
      BY <2>4, WaitKeeps
    <2>5. ASSUME NEW t \in Threads, SpuriousWakeup(t)
          PROVE  Kept
      BY <2>5, QuietKeeps DEF SpuriousWakeup, Goto, queueVars, TypeOK
    <2>6. ASSUME NEW t \in Threads, Put(t)
          PROVE  Kept
      BY <2>6, PutKeeps
    <2>7. ASSUME NEW t \in Threads, Take(t)
          PROVE  Kept
      BY <2>7, TakeKeeps
    <2>8. ASSUME NEW t \in Threads, TakeNothing(t) \/ ReadCount(t)
          PROVE  Kept
      BY <2>8, QuietKeeps DEF TakeNothing, ReadCount, Goto, queueVars, waitVars, TypeOK
    <2>9. ASSUME NEW t \in Threads, SignalNotEmpty(t)
          PROVE  Kept
      BY <2>9, SignalNotEmptyKeeps
    <2>10. ASSUME NEW t \in Threads, SignalNotFull(t)
           PROVE  Kept
      BY <2>10, SignalNotFullKeeps
    <2>11. ASSUME NEW t \in Threads, Unlock(t) \/ Return(t)
           PROVE  Kept
      BY <2>11, QuietKeeps DEF Unlock, Return, Goto, queueVars, waitVars, TypeOK
    <2>12. CASE UNCHANGED vars
      BY <2>12, QuietKeeps DEF vars, queueVars, waitVars
    <2> QED
      BY <2>1, <2>2, <2>3, <2>4, <2>5, <2>6, <2>7, <2>8, <2>9, <2>10, <2>11,
         <2>12 DEF Next, Proceed
  <1> QED BY <1>2, <1>3, TypeCorrect, SleepersWait, PTL DEF Spec
=============================================================================
