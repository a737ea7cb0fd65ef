----------------------- MODULE ProducerConsumer_proofs -----------------------
(***************************************************************************)
(* Theorems about ProducerConsumer, for every number of workers and jobs,  *)
(* every capacity of the queue and every bound on the faults.  What one    *)
(* step does to the queue is taken from the lemmas about TSQueue.          *)
(***************************************************************************)
EXTENDS ProducerConsumer, FiniteSetTheorems, TLAPS

Q == INSTANCE TSQueue_proofs WITH Values <- Jobs \cup {NULL}

-----------------------------------------------------------------------------
(* Where each thread may be, and what it is doing to the queue there: a    *)
(* thread is inside a call exactly at the places that name one.            *)
Calling == {"popping", "pushing", "render_counting", "render_viewing"}
Pending == {"lock", "test", "wait", "relock"}
Answered == {"signal", "unlock", "done"}
MainPlaces ==
  RenderPlaces \cup {"launch", "first_render", "launch_input", "join_input", "pill",
                     "pushing", "join_display", "last_render", "destroy", "returned"}

PlacesTyped ==
  /\ at \in [Threads -> WorkerPlaces \cup MainPlaces \cup {"loop", "read"}]
  /\ \A w \in Workers : at[w] \in WorkerPlaces
  /\ at[Display] \in RenderPlaces \cup {"unborn", "loop", "exited"}
  /\ at[Input] \in {"unborn", "read", "pushing", "count", "exited"}
  /\ at[Main] \in MainPlaces

CallPlaces ==
  \A t \in Threads :
    /\ pc[t] # "idle" <=> at[t] \in Calling
    /\ at[t] = "popping" => request[t].op = "pop"
    /\ at[t] = "pushing" =>
         /\ request[t].op = "push"
         /\ request[t].arg \in IF t = Input THEN entered ELSE {NULL}
    /\ at[t] \in {"render_counting", "render_viewing"} => request[t].op = "count"

(* What pop gave a worker: a job, or the null pointer of a pill or an error. *)
WorkerAnswers ==
  \A w \in Workers :
    /\ result[w].data \in Jobs \cup {NULL}
    /\ result[w].info # "OK" => result[w].data = NULL
    /\ faults = 0 => result[w].info = "OK"

DataTyped ==
  /\ alive \in BOOLEAN
  /\ running \in BOOLEAN
  /\ seconds \in [Workers -> {0, JobSeconds}]
  /\ remaining \in [Workers -> 0..JobSeconds]
  /\ job \in [Workers -> Jobs \cup {NULL}]
  /\ \A w \in Workers : job[w] = NULL <=> at[w] # "work"
  /\ entered \subseteq Jobs
  /\ finished \in [Jobs -> Nat]
  /\ rounds \in Nat

(* The display mutex is held by whoever renders. *)
DisplayHeld ==
  /\ displayOwner \in {Main, Display, NoThread}
  /\ \A t \in {Main, Display} : displayOwner = t <=> at[t] \in RenderPlaces

(* How far main has come says what the others can still be doing. *)
Draining == {"pill", "pushing", "join_display", "last_render", "destroy", "returned"}
Drained == {"join_display", "last_render", "destroy", "returned"}
LastRender == at[Main] \in RenderPlaces /\ at[Input] = "exited"

Phases ==
  /\ alive <=> at[Main] # "returned"
  /\ at[Main] = "launch" => at[Display] = "unborn"
  /\ at[Main] \in {"launch", "first_render", "launch_input"} => at[Input] = "unborn"
  /\ at[Main] \in RenderPlaces => at[Input] \in {"unborn", "exited"}
  /\ at[Main] \in Draining => at[Input] = "exited"
  /\ at[Main] \in Drained \/ LastRender =>
       rounds = Pills /\ \A w \in Workers : at[w] = "exited"
  /\ at[Main] \in Drained \ {"join_display"} \/ LastRender => at[Display] = "exited"

(* A job is in one place at most, in none before it is typed, and never in *)
(* none after that unless a call of a primitive failed.                    *)
Copies(j) ==
  Cardinality(Pushing(j)) + Cardinality(Queued(j)) + Cardinality(Popped(j))
    + Cardinality(RunBy(j)) + finished[j]

JobsKept ==
  \A j \in Jobs :
    /\ Copies(j) <= IF j \in entered THEN 1 ELSE 0
    /\ faults = 0 => Copies(j) = IF j \in entered THEN 1 ELSE 0

(* The pills: each is being pushed, in the queue, in the hands of a worker *)
(* or the reason why a worker has ended, and nothing follows one.          *)
PillTakers ==
  {w \in Workers : \/ at[w] = "exited"
                   \/ pc[w] \in Answered /\ result[w].data = NULL}
PillPushed == at[Main] = "pushing" /\ pc[Main] \in Pending

PillsLast ==
  /\ \A i, k \in 1..count :
       i < k /\ Queue!Contents[i] = NULL => Queue!Contents[k] = NULL
  /\ \A i \in 1..count : Queue!Contents[i] = NULL => at[Input] = "exited"

PillsKept ==
  faults = 0 =>
    /\ Cardinality(PillTakers) + Cardinality(Queued(NULL))
         + (IF PillPushed THEN 1 ELSE 0) = rounds
    /\ PillTakers # {} =>
         at[Input] = "exited" /\ \A i \in 1..count : Queue!Contents[i] = NULL

(* The two counters follow the jobs typed and the jobs run. *)
InputOwes == at[Input] \in {"pushing", "count"}
WorkersOwe == {w \in Workers : at[w] = "count"}
JobsRun == {j \in Jobs : finished[j] # 0}

Tallies ==
  /\ submitted \in Nat /\ completed \in Nat
  /\ submitted + (IF InputOwes THEN 1 ELSE 0) = Cardinality(entered)
  /\ completed + Cardinality(WorkersOwe) = Cardinality(JobsRun)

-----------------------------------------------------------------------------
(* The queue of the program is the queue of the lemmas. *)

(* The assumptions of TSQueue hold of the program's queue. *)
LEMMA QueueAssumptions ==
  /\ Capacity \in Nat \ {0}
  /\ MaxFaults \in Nat
  /\ NoThread \notin Threads
  /\ NULL \in Jobs \cup {NULL}
  /\ IsFiniteSet(Threads) /\ Q!IsFiniteSet(Threads)
  <1>1. IsFiniteSet({Main, Input, Display})
    <2>1. IsFiniteSet({Main}) /\ IsFiniteSet({Input}) /\ IsFiniteSet({Display})
      BY FS_Singleton
    <2>2. IsFiniteSet({Main} \cup {Input})
      BY <2>1, FS_Union
    <2>3. IsFiniteSet(({Main} \cup {Input}) \cup {Display})
      BY <2>1, <2>2, FS_Union
    <2>4. {Main, Input, Display} = ({Main} \cup {Input}) \cup {Display}
      OBVIOUS
    <2> QED BY <2>3, <2>4, Zenon
  <1>2. IsFiniteSet(Threads)
    BY <1>1, FS_Union, WorkersAssumption DEF Threads
  <1>3. Q!IsFiniteSet(Threads)
    BY <1>2 DEF IsFiniteSet, Q!IsFiniteSet
  <1> QED BY <1>2, <1>3, RolesAssumption, QueueAssumption DEF Threads

(* Both names of the queue mean the same. *)
LEMMA SameQueue ==
  /\ Queue!TypeOK <=> Q!TypeOK
  /\ Queue!Contents = Q!Contents
  /\ Queue!NoResult = Q!NoResult
  /\ Queue!NoRequest = Q!NoRequest
  BY DEF Queue!TypeOK, Q!TypeOK, Queue!Contents, Q!Contents, Queue!NoResult, Q!NoResult,
         Queue!NoRequest, Q!NoRequest, Queue!Slots, Q!Slots, Queue!Points, Q!Points,
         Queue!Operations, Q!Operations, Queue!Results, Q!Results, Queue!Infos, Q!Infos

(* The queue of the program and the queue the lemmas are about make and    *)
(* return from calls alike ...                                             *)
LEMMA SameCalls ==
  ASSUME NEW t, NEW op, NEW v
  PROVE  /\ Queue!Call(t, op, v) => Q!Call(t, op, v)
         /\ Queue!Return(t) => Q!Return(t)
  BY DEF Queue!Call, Q!Call, Queue!Return, Q!Return, Queue!Goto, Q!Goto, Queue!queueVars,
         Q!queueVars, Queue!waitVars, Q!waitVars, Queue!NoResult, Q!NoResult,
         Queue!NoRequest, Q!NoRequest

(* ... and so do the steps of a call under way.                            *)
LEMMA SameSteps ==
  ASSUME NEW t
  PROVE  Queue!Proceed(t) => Q!Proceed(t)
  BY DEF Queue!Proceed, Q!Proceed, Queue!Lock, Q!Lock, Queue!LockFails, Q!LockFails,
         Queue!Wait, Q!Wait, Queue!WaitFails, Q!WaitFails, Queue!SpuriousWakeup,
         Q!SpuriousWakeup, Queue!Relock, Q!Relock, Queue!Put, Q!Put, Queue!Take, Q!Take,
         Queue!TakeNothing, Q!TakeNothing, Queue!ReadCount, Q!ReadCount,
         Queue!SignalNotEmpty, Q!SignalNotEmpty, Queue!SignalNotFull, Q!SignalNotFull,
         Queue!Unlock, Q!Unlock, Queue!Goto, Q!Goto, Queue!queueVars, Q!queueVars,
         Queue!waitVars, Q!waitVars, Queue!MustWait, Q!MustWait, Queue!Failure, Q!Failure,
         Queue!NextSlot, Q!NextSlot, Queue!Wakes, Q!Wakes, Queue!Resume, Q!Resume,
         Queue!Fallible, Q!Fallible

(* The threads are different threads. *)
LEMMA Distinct ==
  /\ Workers \subseteq Threads /\ Main \in Threads /\ Input \in Threads /\ Display \in Threads
  /\ Main # Input /\ Main # Display /\ Input # Display
  /\ Main \notin Workers /\ Input \notin Workers /\ Display \notin Workers
  /\ NoThread \notin Threads
  /\ \A t \in Threads : t \in Workers \/ t = Main \/ t = Input \/ t = Display
  BY RolesAssumption DEF Threads

(* How a step uses the queue: it destroys it, or goes on inside a call,    *)
(* makes one, returns from one, or leaves it alone.                        *)
LEMMA QueueUse ==
  ASSUME [Next]_vars
  PROVE  \/ MainDestroysQueue
         \/ /\ alive' = alive
            /\ \/ \E t \in Threads : InsideQueue(t)
               \/ \E t \in Threads, op \in {"push", "pop", "count"}, v \in Jobs \cup {NULL} :
                    Queue!Call(t, op, v)
               \/ \E t \in Threads : Queue!Return(t)
               \/ UNCHANGED queueState
  <1> USE Distinct
  <1>0. ASSUME NEW t \in Threads, InsideQueue(t)
        PROVE  alive' = alive
    BY <1>0 DEF InsideQueue, appState
  <1>1. ASSUME NEW w \in Workers, WorkerStep(w)
        PROVE  /\ alive' = alive
               /\ Queue!Call(w, "pop", NULL) \/ Queue!Return(w) \/ UNCHANGED queueState
    BY <1>1 DEF WorkerStep, WorkerPops, WorkerStops, WorkerBegins, WorkerTicks,
       WorkerEndsJob, WorkerCounts
  <1>2. ASSUME InputStep
        PROVE  /\ alive' = alive
               /\ \/ \E j \in Jobs : Queue!Call(Input, "push", j)
                  \/ Queue!Return(Input)
                  \/ UNCHANGED queueState
    BY <1>2 DEF InputStep, InputJob, InputPushed, InputCounts, InputQuit, InputEof
  <1>3. ASSUME NEW t \in {Main, Display}, RenderStep(t)
        PROVE  /\ alive' = alive
               /\ Queue!Call(t, "count", NULL) \/ Queue!Return(t) \/ UNCHANGED queueState
    BY <1>3 DEF RenderStep, RenderAsksQueue, RenderQueueAnswered, RenderIdleBar,
       RenderBusyBar, RenderDivides
  <1>4. ASSUME DisplayStep, ~ RenderStep(Display)
        PROVE  alive' = alive /\ UNCHANGED queueState
    BY <1>4 DEF DisplayStep, DisplayLoops, DisplayStops, RenderBegins, RenderEnds
  <1>5. ASSUME MainStep, ~ RenderStep(Main)
        PROVE  \/ MainDestroysQueue
               \/ /\ alive' = alive
                  /\ \/ Queue!Call(Main, "push", NULL)
                     \/ Queue!Return(Main)
                     \/ UNCHANGED queueState
    BY <1>5 DEF MainStep, MainLaunchesWorkers, MainRenders, RenderBegins, RenderEnds,
       MainLaunchesInput, MainJoinsInput, MainPushesPill, MainPushed, MainJoinsWorkers,
       MainJoinsDisplay
  <1>6. UNCHANGED vars => alive' = alive /\ UNCHANGED queueState
    BY DEF vars, appState
  <1> QED BY <1>0, <1>1, <1>2, <1>3, <1>4, <1>5, <1>6 DEF Next, Terminated

(* So a step of the program is to the queue a step of TSQueue, unless it   *)
(* destroys it.                                                            *)
LEMMA QueueMoves ==
  ASSUME [Next]_vars
  PROVE  \/ MainDestroysQueue
         \/ [Q!Next]_(Q!vars) /\ alive' = alive
  <1>1. ASSUME NEW t \in Threads, InsideQueue(t)
        PROVE  Q!Next
    BY <1>1, SameSteps DEF InsideQueue, Q!Next
  <1>2. ASSUME NEW t \in Threads, NEW op \in {"push", "pop", "count"},
               NEW v \in Jobs \cup {NULL}, Queue!Call(t, op, v)
        PROVE  Q!Next
    BY <1>2, SameCalls DEF Q!Next, Q!Operations
  <1>3. ASSUME NEW t \in Threads, Queue!Return(t)
        PROVE  Q!Next
    BY <1>3, SameCalls DEF Q!Next
  <1>4. UNCHANGED queueState => UNCHANGED Q!vars
    BY DEF queueState, Q!vars
  <1> QED BY <1>1, <1>2, <1>3, <1>4, QueueUse

(* What the lemmas of TSQueue say of the program's queue: its types, its   *)
(* mutex and its sleepers, the results of calls under way, and the ring    *)
(* until it is freed.                                                      *)
QueueInv == Q!TypeOK /\ Q!LockInv /\ Q!CallInv /\ (alive => Q!RingConsistent)

(* Every step of the program, main's freeing of the queue included, keeps  *)
(* it.                                                                     *)
LEMMA QueueInvStep ==
  ASSUME QueueInv, [Next]_vars
  PROVE  QueueInv'
  <1> USE QueueAssumptions
  <1>1. CASE [Q!Next]_(Q!vars) /\ alive' = alive
    <2>1. Q!TypeOK'
      BY <1>1, Q!TypeStep DEF QueueInv
    <2>2. Q!LockInv'
      BY <1>1, Q!LockStep DEF QueueInv
    <2>3. Q!CallInv'
      BY <1>1, Q!CallStep DEF QueueInv
    <2>4. alive' => Q!RingConsistent'
      BY <1>1, Q!RingStep DEF QueueInv
    <2> QED BY <2>1, <2>2, <2>3, <2>4 DEF QueueInv
  <1>2. CASE MainDestroysQueue
    <2>1. Q!TypeOK'
      BY <1>2 DEF MainDestroysQueue, QueueInv, Q!TypeOK, Q!Results, Q!Infos, Q!Slots, Q!Points
    <2>2. Q!LockInv' /\ Q!CallInv'
      BY <1>2 DEF MainDestroysQueue, QueueInv, Q!LockInv, Q!CallInv, Q!MutualExclusion,
         Q!WaitersWait, Q!Holds
    <2> QED BY <1>2, <2>1, <2>2 DEF MainDestroysQueue, QueueInv
  <1> QED BY <1>1, <1>2, QueueMoves

-----------------------------------------------------------------------------
(* The steps inside a call that no other thread could tell from a stutter. *)
Quiet ==
  /\ UNCHANGED << items, head, count, result, faults >>
  /\ \A u \in Threads : /\ pc'[u] \in Pending <=> pc[u] \in Pending
                        /\ pc'[u] \in Answered <=> pc[u] \in Answered

(* What a step inside a call may do.                                       *)
LEMMA InsideCall ==
  ASSUME QueueInv, NEW t \in Threads, InsideQueue(t)
  PROVE  /\ request' = request
         /\ pc[t] # "idle"
         /\ \A u \in Threads : pc'[u] = "idle" <=> pc[u] = "idle"
         /\ \/ Quiet
            \/ Q!Put(t) \/ Q!Take(t) \/ Q!TakeNothing(t) \/ Q!ReadCount(t)
            \/ Q!LockFails(t) \/ Q!WaitFails(t)
  <1> USE DEF QueueInv, Q!TypeOK, Q!Points, Q!Goto, Q!queueVars, Q!waitVars
  <1>1. Q!Proceed(t)
    BY SameSteps DEF InsideQueue
  <1>2. CASE Q!Lock(t) \/ Q!Relock(t) \/ Q!Wait(t) \/ Q!SpuriousWakeup(t) \/ Q!Unlock(t)
    BY <1>2 DEF Q!Lock, Q!Relock, Q!Wait, Q!SpuriousWakeup, Q!Unlock, Quiet, Pending, Answered
  <1>3. CASE Q!SignalNotEmpty(t) \/ Q!SignalNotFull(t)
    <2>1. /\ UNCHANGED << items, head, count, result, faults, request >>
          /\ pc[t] = "signal"
      BY <1>3 DEF Q!SignalNotEmpty, Q!SignalNotFull
    <2>2. ASSUME NEW u \in Threads
          PROVE  \/ pc'[u] = pc[u]
                 \/ pc[u] = "signal" /\ pc'[u] = "unlock"
                 \/ pc[u] = "wait" /\ pc'[u] = "relock"
      BY <1>3 DEF Q!SignalNotEmpty, Q!SignalNotFull, Q!Resume, Q!Wakes, Q!LockInv, Q!WaitersWait
    <2>3. Quiet /\ \A u \in Threads : pc'[u] = "idle" <=> pc[u] = "idle"
      BY <2>1, <2>2 DEF Quiet, Pending, Answered
    <2> QED BY <2>1, <2>3
  <1>4. CASE Q!Put(t) \/ Q!Take(t)
    BY <1>4 DEF Q!Put, Q!Take
  <1>5. CASE Q!TakeNothing(t) \/ Q!ReadCount(t) \/ Q!LockFails(t) \/ Q!WaitFails(t)
    BY <1>5 DEF Q!TakeNothing, Q!ReadCount, Q!LockFails, Q!WaitFails
  <1> QED BY <1>1, <1>2, <1>3, <1>4, <1>5 DEF Q!Proceed

(* Every thread stays at the places of its role.                           *)
LEMMA PlacesStep ==
  ASSUME PlacesTyped, [Next]_vars
  PROVE  PlacesTyped'
  <1> USE Distinct DEF PlacesTyped, WorkerPlaces, MainPlaces, RenderPlaces, Move
  <1>1. ASSUME NEW t \in Threads, InsideQueue(t)
        PROVE  PlacesTyped'
    BY <1>1 DEF InsideQueue, appState
  <1>2. ASSUME NEW w \in Workers, WorkerStep(w)
        PROVE  PlacesTyped'
    BY <1>2 DEF WorkerStep, WorkerPops, WorkerStops, WorkerBegins,
       WorkerTicks, WorkerEndsJob, WorkerCounts
  <1>3. ASSUME InputStep
        PROVE  PlacesTyped'
    BY <1>3 DEF InputStep, InputJob, InputPushed, InputCounts, InputQuit, InputEof
  <1>4. ASSUME NEW t \in {Main, Display}, RenderStep(t)
        PROVE  PlacesTyped'
    BY <1>4 DEF RenderStep, RenderAsksQueue, RenderQueueAnswered,
       RenderIdleBar, RenderBusyBar, RenderDivides
  <1>5. ASSUME DisplayStep
        PROVE  PlacesTyped'
    BY <1>5, <1>4 DEF DisplayStep, DisplayLoops, DisplayStops, RenderBegins, RenderEnds
  <1>6. ASSUME MainStep
        PROVE  PlacesTyped'
    <2>1. CASE MainLaunchesWorkers
      BY <2>1 DEF MainLaunchesWorkers
    <2>2. CASE MainRenders
      BY <2>2 DEF MainRenders, RenderBegins, RenderEnds
    <2>3. CASE MainLaunchesInput \/ MainJoinsInput \/ MainPushesPill \/ MainPushed
      BY <2>3 DEF MainLaunchesInput, MainJoinsInput, MainPushesPill, MainPushed
    <2>4. CASE MainJoinsWorkers \/ MainJoinsDisplay \/ MainDestroysQueue
      BY <2>4 DEF MainJoinsWorkers, MainJoinsDisplay, MainDestroysQueue
    <2> QED BY <1>6, <1>4, <2>1, <2>2, <2>3, <2>4 DEF MainStep
  <1>7. UNCHANGED vars => PlacesTyped'
    BY DEF vars, appState
  <1> QED BY <1>1, <1>2, <1>3, <1>5, <1>6, <1>7 DEF Next, Terminated

(* A thread is inside a call exactly where its program makes one.          *)
LEMMA CallPlacesStep ==
  ASSUME QueueInv, PlacesTyped, CallPlaces, Phases, [Next]_vars
  PROVE  CallPlaces'
  <1> USE Distinct DEF PlacesTyped, CallPlaces, Calling, Move
  <1>0. /\ pc \in [Threads -> Q!Points]
        /\ request \in [Threads -> [op : Q!Operations \cup {"none"}, arg : Jobs \cup {NULL}]]
    BY DEF QueueInv, Q!TypeOK
  <1>1. ASSUME NEW t \in Threads, InsideQueue(t)
        PROVE  CallPlaces'
    <2>1. at' = at /\ entered' = entered
      BY <1>1 DEF InsideQueue, appState, history
    <2> QED BY <1>1, <2>1, InsideCall
  <1>2. ASSUME NEW w \in Workers, WorkerStep(w)
        PROVE  CallPlaces'
    <2>1. entered' = entered
      BY <1>2 DEF WorkerStep, WorkerPops, WorkerStops, WorkerBegins, WorkerTicks,
         WorkerEndsJob, WorkerCounts, history
    <2>2. CASE WorkerPops(w)
      BY <1>0, <2>1, <2>2 DEF WorkerPops, Queue!Call, Queue!Goto
    <2>3. CASE WorkerStops(w) \/ WorkerBegins(w)
      BY <1>0, <2>1, <2>3 DEF WorkerStops, WorkerBegins, Queue!Return, Queue!Goto
    <2>4. CASE WorkerTicks(w) \/ WorkerEndsJob(w) \/ WorkerCounts(w)
      BY <2>1, <2>4 DEF WorkerTicks, WorkerEndsJob, WorkerCounts, queueState
    <2> QED BY <1>2, <2>2, <2>3, <2>4 DEF WorkerStep
  <1>3. ASSUME InputStep
        PROVE  CallPlaces'
    <2>1. ASSUME NEW j \in Jobs, InputJob(j)
          PROVE  CallPlaces'
      BY <1>0, <2>1 DEF InputJob, Queue!Call, Queue!Goto
    <2>2. CASE InputPushed
      BY <1>0, <2>2 DEF InputPushed, Queue!Return, Queue!Goto, history
    <2>3. CASE InputCounts \/ InputQuit \/ InputEof
      BY <2>3 DEF InputCounts, InputQuit, InputEof, queueState, history
    <2> QED BY <1>3, <2>1, <2>2, <2>3 DEF InputStep
  <1>4. ASSUME NEW t \in {Main, Display}, RenderStep(t)
        PROVE  CallPlaces'
    <2>1. entered' = entered
      BY <1>4 DEF RenderStep, RenderAsksQueue, RenderQueueAnswered, RenderIdleBar,
         RenderBusyBar, RenderDivides, history
    <2>2. CASE RenderAsksQueue(t)
      BY <1>0, <2>1, <2>2 DEF RenderAsksQueue, Queue!Call, Queue!Goto
    <2>3. CASE RenderQueueAnswered(t)
      BY <1>0, <2>1, <2>3 DEF RenderQueueAnswered, Queue!Return, Queue!Goto
    <2>4. CASE RenderIdleBar(t) \/ RenderBusyBar(t) \/ RenderDivides(t)
      BY <2>1, <2>4 DEF RenderIdleBar, RenderBusyBar, RenderDivides, queueState
    <2> QED BY <1>4, <2>2, <2>3, <2>4 DEF RenderStep
  <1>5. ASSUME DisplayStep
        PROVE  CallPlaces'
    BY <1>5, <1>4 DEF DisplayStep, DisplayLoops, DisplayStops, RenderBegins, RenderEnds,
       queueState, history
  <1>6. ASSUME MainStep
        PROVE  CallPlaces'
    <2>1. CASE MainLaunchesWorkers
      BY <2>1 DEF MainLaunchesWorkers, queueState, history, Phases
    <2>2. CASE MainRenders
      BY <2>2 DEF MainRenders, RenderBegins, RenderEnds, queueState, history
    <2>3. CASE MainPushesPill
      BY <1>0, <2>3 DEF MainPushesPill, Queue!Call, Queue!Goto, history
    <2>4. CASE MainPushed
      BY <1>0, <2>4 DEF MainPushed, Queue!Return, Queue!Goto, history
    <2>5. CASE MainLaunchesInput \/ MainJoinsInput
      BY <2>5 DEF MainLaunchesInput, MainJoinsInput, queueState, history, Phases
    <2>6. CASE MainJoinsWorkers \/ MainJoinsDisplay \/ MainDestroysQueue
      BY <2>6 DEF MainJoinsWorkers, MainJoinsDisplay, MainDestroysQueue, queueState, history
    <2> QED BY <1>6, <1>4, <2>1, <2>2, <2>3, <2>4, <2>5, <2>6 DEF MainStep
  <1>7. UNCHANGED vars => CallPlaces'
    BY DEF vars, appState, queueState, history
  <1> QED BY <1>1, <1>2, <1>3, <1>5, <1>6, <1>7 DEF Next, Terminated

(* What pop hands a worker is a job, or null; without a fault it is never  *)
(* an error.                                                               *)
LEMMA WorkerAnswersStep ==
  ASSUME QueueInv, PlacesTyped, CallPlaces, WorkerAnswers, [Next]_vars
  PROVE  WorkerAnswers'
  <1> USE Distinct, QueueAssumptions DEF WorkerAnswers
  <1>0. result \in [Threads -> Q!Results] /\ faults \in Nat
    BY DEF QueueInv, Q!TypeOK
  <1>1. ASSUME NEW t \in Threads, InsideQueue(t)
        PROVE  WorkerAnswers'
    <2>1. CASE Quiet \/ Q!Put(t)
      BY <2>1 DEF Quiet, Q!Put
    <2>2. CASE Q!Take(t)
      <3>1. items[head] \in Jobs \cup {NULL}
        BY DEF QueueInv, Q!TypeOK
      <3> QED BY <1>0, <2>2, <3>1 DEF Q!Take
    <2>3. CASE Q!TakeNothing(t) \/ Q!ReadCount(t)
      <3>1. t \notin Workers
        BY <2>3 DEF Q!TakeNothing, Q!ReadCount, PlacesTyped, WorkerPlaces, CallPlaces, Calling
      <3> QED BY <1>0, <2>3, <3>1 DEF Q!TakeNothing, Q!ReadCount
    <2>4. CASE Q!LockFails(t) \/ Q!WaitFails(t)
      BY <1>0, <2>4 DEF Q!LockFails, Q!WaitFails, Q!Failure
    <2> QED BY <1>1, <2>1, <2>2, <2>3, <2>4, InsideCall
  <1>2. ASSUME NEW t \in Threads, Queue!Return(t)
        PROVE  WorkerAnswers'
    BY <1>0, <1>2 DEF Queue!Return, Queue!NoResult
  <1>3. ASSUME NEW t \in Threads, NEW op, NEW v, Queue!Call(t, op, v)
        PROVE  WorkerAnswers'
    BY <1>3 DEF Queue!Call
  <1>4. UNCHANGED queueState => WorkerAnswers'
    BY DEF queueState
  <1>5. CASE MainDestroysQueue
    BY <1>5 DEF MainDestroysQueue
  <1> QED BY <1>1, <1>2, <1>3, <1>4, <1>5, QueueUse

(* The fields of a worker go together: it has a job exactly while it works. *)
LEMMA DataTypedStep ==
  ASSUME PlacesTyped, WorkerAnswers, DataTyped, [Next]_vars
  PROVE  DataTyped'
  <1> USE Distinct, JobsAssumption DEF PlacesTyped, WorkerPlaces, DataTyped, Move, progress, history
  <1>1. ASSUME NEW t \in Threads, InsideQueue(t)
        PROVE  DataTyped'
    BY <1>1 DEF InsideQueue, appState
  <1>2. ASSUME NEW w \in Workers, WorkerStep(w)
        PROVE  DataTyped'
    <2>1. CASE WorkerPops(w) \/ WorkerStops(w) \/ WorkerCounts(w)
      BY <2>1 DEF WorkerPops, WorkerStops, WorkerCounts
    <2>2. CASE WorkerBegins(w)
      <3>1. result[w].data \in Jobs
        BY <2>2 DEF WorkerBegins, WorkerAnswers
      <3> QED BY <2>2, <3>1 DEF WorkerBegins
    <2>3. CASE WorkerTicks(w)
      BY <2>3 DEF WorkerTicks
    <2>4. CASE WorkerEndsJob(w)
      <3>1. job[w] \in Jobs
        BY <2>4 DEF WorkerEndsJob
      <3> QED BY <2>4, <3>1 DEF WorkerEndsJob
    <2> QED BY <1>2, <2>1, <2>2, <2>3, <2>4 DEF WorkerStep
  <1>3. ASSUME InputStep
        PROVE  DataTyped'
    BY <1>3 DEF InputStep, InputJob, InputPushed, InputCounts, InputQuit, InputEof
  <1>4. ASSUME NEW t \in {Main, Display}, RenderStep(t)
        PROVE  DataTyped'
    BY <1>4 DEF RenderStep, RenderAsksQueue, RenderQueueAnswered,
       RenderIdleBar, RenderBusyBar, RenderDivides
  <1>5. ASSUME DisplayStep
        PROVE  DataTyped'
    BY <1>5, <1>4 DEF DisplayStep, DisplayLoops, DisplayStops, RenderBegins, RenderEnds
  <1>6. ASSUME MainStep
        PROVE  DataTyped'
    <2>1. CASE MainLaunchesWorkers \/ MainRenders
      BY <2>1 DEF MainLaunchesWorkers, MainRenders, RenderBegins, RenderEnds
    <2>2. CASE MainLaunchesInput \/ MainJoinsInput \/ MainPushesPill \/ MainPushed
      BY <2>2 DEF MainLaunchesInput, MainJoinsInput, MainPushesPill, MainPushed
    <2>3. CASE MainJoinsWorkers \/ MainJoinsDisplay \/ MainDestroysQueue
      BY <2>3 DEF MainJoinsWorkers, MainJoinsDisplay, MainDestroysQueue
    <2> QED BY <1>6, <1>4, <2>1, <2>2, <2>3 DEF MainStep
  <1>7. UNCHANGED vars => DataTyped'
    BY DEF vars, appState
  <1> QED BY <1>1, <1>2, <1>3, <1>5, <1>6, <1>7 DEF Next, Terminated

(* Whoever renders holds the display mutex, and nobody else does.          *)
LEMMA DisplayHeldStep ==
  ASSUME PlacesTyped, DisplayHeld, Phases, [Next]_vars
  PROVE  DisplayHeld'
  <1> USE Distinct DEF PlacesTyped, DisplayHeld, RenderPlaces, Move
  <1>1. ASSUME NEW t \in Threads, InsideQueue(t)
        PROVE  DisplayHeld'
    BY <1>1 DEF InsideQueue, appState
  <1>2. ASSUME NEW w \in Workers, WorkerStep(w)
        PROVE  DisplayHeld'
    BY <1>2 DEF WorkerStep, WorkerPops, WorkerStops, WorkerBegins,
       WorkerTicks, WorkerEndsJob, WorkerCounts
  <1>3. ASSUME InputStep
        PROVE  DisplayHeld'
    BY <1>3 DEF InputStep, InputJob, InputPushed, InputCounts, InputQuit, InputEof
  <1>4. ASSUME NEW t \in {Main, Display}, RenderStep(t)
        PROVE  DisplayHeld'
    BY <1>4 DEF RenderStep, RenderAsksQueue, RenderQueueAnswered,
       RenderIdleBar, RenderBusyBar, RenderDivides
  <1>5. ASSUME DisplayStep
        PROVE  DisplayHeld'
    BY <1>5, <1>4 DEF DisplayStep, DisplayLoops, DisplayStops, RenderBegins, RenderEnds
  <1>6. ASSUME MainStep
        PROVE  DisplayHeld'
    <2>1. CASE MainLaunchesWorkers
      BY <2>1 DEF MainLaunchesWorkers, Phases
    <2>2. CASE MainRenders
      BY <2>2 DEF MainRenders, RenderBegins, RenderEnds
    <2>3. CASE MainLaunchesInput \/ MainJoinsInput \/ MainPushesPill \/ MainPushed
      BY <2>3 DEF MainLaunchesInput, MainJoinsInput, MainPushesPill, MainPushed
    <2>4. CASE MainJoinsWorkers \/ MainJoinsDisplay \/ MainDestroysQueue
      BY <2>4 DEF MainJoinsWorkers, MainJoinsDisplay, MainDestroysQueue
    <2> QED BY <1>6, <1>4, <2>1, <2>2, <2>3, <2>4 DEF MainStep
  <1>7. UNCHANGED vars => DisplayHeld'
    BY DEF vars, appState
  <1> QED BY <1>1, <1>2, <1>3, <1>5, <1>6, <1>7 DEF Next, Terminated

(* The joins order the threads: what has ended stays ended.                *)
LEMMA PhasesStep ==
  ASSUME PlacesTyped, Phases, [Next]_vars
  PROVE  Phases'
  <1> USE Distinct DEF PlacesTyped, Phases, Draining, Drained, LastRender, MainPlaces,
                       RenderPlaces, Move
  <1>1. ASSUME NEW t \in Threads, InsideQueue(t)
        PROVE  Phases'
    BY <1>1 DEF InsideQueue, appState
  <1>2. ASSUME NEW w \in Workers, WorkerStep(w)
        PROVE  Phases'
    <2>1. /\ UNCHANGED << alive, rounds >>
          /\ at[w] # "exited"
          /\ \A t \in Threads \ {w} : at'[t] = at[t]
      BY <1>2 DEF WorkerStep, WorkerPops, WorkerStops, WorkerBegins,
         WorkerTicks, WorkerEndsJob, WorkerCounts
    <2> QED BY <2>1
  <1>3. ASSUME InputStep
        PROVE  Phases'
    <2>1. /\ UNCHANGED << alive, rounds >>
          /\ at[Input] \notin {"unborn", "exited"} /\ at'[Input] # "unborn"
          /\ \A t \in Threads \ {Input} : at'[t] = at[t]
      BY <1>3 DEF InputStep, InputJob, InputPushed, InputCounts, InputQuit, InputEof
    <2> QED BY <2>1
  <1>4. ASSUME NEW t \in {Main, Display}, RenderStep(t)
        PROVE  Phases'
    <2>1. /\ UNCHANGED << alive, rounds >>
          /\ at[t] \in RenderPlaces /\ at'[t] \in RenderPlaces
          /\ \A u \in Threads \ {t} : at'[u] = at[u]
      BY <1>4 DEF RenderStep, RenderAsksQueue, RenderQueueAnswered,
         RenderIdleBar, RenderBusyBar, RenderDivides
    <2> QED BY <2>1
  <1>5. ASSUME DisplayStep
        PROVE  Phases'
    <2>1. ASSUME ~ RenderStep(Display)
          PROVE  /\ UNCHANGED << alive, rounds >>
                 /\ at[Display] \notin {"unborn", "exited"}
                 /\ \A u \in Threads \ {Display} : at'[u] = at[u]
      BY <1>5, <2>1 DEF DisplayStep, DisplayLoops, DisplayStops, RenderBegins, RenderEnds
    <2> QED BY <1>4, <2>1
  <1>6. ASSUME MainStep
        PROVE  Phases'
    <2>1. CASE MainLaunchesWorkers
      BY <2>1 DEF MainLaunchesWorkers
    <2>2. CASE MainRenders
      BY <2>2 DEF MainRenders, RenderBegins, RenderEnds
    <2>3. CASE MainLaunchesInput \/ MainJoinsInput \/ MainPushesPill \/ MainPushed
      BY <2>3 DEF MainLaunchesInput, MainJoinsInput, MainPushesPill, MainPushed
    <2>4. CASE MainJoinsWorkers \/ MainJoinsDisplay \/ MainDestroysQueue
      BY <2>4 DEF MainJoinsWorkers, MainJoinsDisplay, MainDestroysQueue
    <2> QED BY <1>6, <1>4, <2>1, <2>2, <2>3, <2>4 DEF MainStep
  <1>7. UNCHANGED vars => Phases'
    BY DEF vars, appState
  <1> QED BY <1>1, <1>2, <1>3, <1>5, <1>6, <1>7 DEF Next, Terminated

-----------------------------------------------------------------------------
(* Counting where the jobs and the pills are. *)

(* Numbers that add up to nothing. *)
LEMMA SumZero ==
  ASSUME NEW a \in Nat, NEW b \in Nat, NEW c \in Nat, NEW d \in Nat, a + b + c + d <= 0
  PROVE  a = 0 /\ b = 0 /\ c = 0 /\ d = 0
  OBVIOUS

(* A set of at most one element. *)
LEMMA CountOne ==
  ASSUME NEW x, NEW S \in SUBSET {x}
  PROVE  IsFiniteSet(S) /\ Cardinality(S) = IF x \in S THEN 1 ELSE 0
  <1>1. S = {} \/ S = {x}
    OBVIOUS
  <1>2. CASE S = {}
    BY <1>2, FS_EmptySet
  <1>3. CASE S = {x}
    <2>1. IsFiniteSet({x}) /\ Cardinality({x}) = 1
      BY FS_Singleton
    <2> QED BY <1>3, <2>1
  <1> QED BY <1>1, <1>2, <1>3

(* Two sets that differ in one element only. *)
LEMMA CountSwap ==
  ASSUME NEW A, NEW B, NEW x, IsFiniteSet(A), A \ {x} = B \ {x}
  PROVE  /\ IsFiniteSet(B) /\ Cardinality(A) \in Nat /\ Cardinality(B) \in Nat
         /\ Cardinality(B) + (IF x \in A THEN 1 ELSE 0)
              = Cardinality(A) + (IF x \in B THEN 1 ELSE 0)
  <1> DEFINE R == A \ {x}
  <1>1. IsFiniteSet(R) /\ Cardinality(A) = Cardinality(R) + (IF x \in A THEN 1 ELSE 0)
    <2>1. CASE x \in A
      <3>1. A = R \cup {x} /\ x \notin R
        BY <2>1
      <3>2. IsFiniteSet(R)
        BY FS_RemoveElement
      <3> HIDE DEF R
      <3>3. Cardinality(A) = Cardinality(R) + 1
        BY <3>1, <3>2, FS_AddElement
      <3> QED BY <2>1, <3>2, <3>3
    <2>2. CASE x \notin A
      <3>1. A = R
        BY <2>2
      <3>2. Cardinality(A) \in Nat
        BY FS_CardinalityType
      <3> QED BY <2>2, <3>1, <3>2
    <2> QED BY <2>1, <2>2
  <1>2. Cardinality(R) \in Nat
    BY <1>1, FS_CardinalityType
  <1>3. IsFiniteSet(B) /\ Cardinality(B) = Cardinality(R) + (IF x \in B THEN 1 ELSE 0)
    <2>1. CASE x \in B
      <3>1. B = R \cup {x} /\ x \notin R
        BY <2>1
      <3> HIDE DEF R
      <3> QED BY <2>1, <3>1, <1>1, FS_AddElement
    <2>2. CASE x \notin B
      <3>1. B = R
        BY <2>2
      <3> QED BY <2>2, <3>1, <1>1, <1>2
    <2> QED BY <2>1, <2>2
  <1> HIDE DEF R
  <1> QED BY <1>1, <1>2, <1>3

(* The contents of the queue before and after a step, slot by slot.        *)
LEMMA ContentsSame ==
  ASSUME UNCHANGED << items, head, count >>
  PROVE  Queue!Contents' = Queue!Contents /\ \A v : Queued(v)' = Queued(v)
  <1>1. Queue!Contents' = Queue!Contents
    BY DEF Queue!Contents
  <1> QED BY <1>1 DEF Queued

(* push puts its argument behind what the queue holds ...                  *)
LEMMA ContentsPut ==
  ASSUME QueueInv, alive, NEW t \in Threads, Q!Put(t)
  PROVE  /\ count \in Nat /\ count' = count + 1
         /\ \A i \in 1..count : Queue!Contents'[i] = Queue!Contents[i]
         /\ Queue!Contents'[count + 1] = request[t].arg
  <1> USE QueueAssumptions
  <1>1. Q!Contents' = Append(Q!Contents, request[t].arg)
    BY Q!PutAppends DEF QueueInv
  <1>2. Q!Contents \in Seq(Jobs \cup {NULL}) /\ Len(Q!Contents) = count
    BY Q!ContentsIsSeq DEF QueueInv
  <1>3. Queue!Contents = Q!Contents /\ Queue!Contents' = Q!Contents'
    BY DEF Queue!Contents, Q!Contents
  <1>4. count \in Nat /\ count' = count + 1
    BY DEF Q!Put, QueueInv, Q!TypeOK
  <1> QED BY <1>1, <1>2, <1>3, <1>4

(* ... and pop takes the value in front.                                   *)
LEMMA ContentsTake ==
  ASSUME QueueInv, NEW t \in Threads, Q!Take(t)
  PROVE  /\ count \in Nat \ {0} /\ count' = count - 1
         /\ \A i \in 1..(count - 1) : Queue!Contents'[i] = Queue!Contents[i + 1]
         /\ Queue!Contents[1] = items[head]
  <1> USE QueueAssumptions
  <1>1. /\ Q!Contents # << >> /\ items[head] = Head(Q!Contents)
        /\ Q!Contents' = Tail(Q!Contents)
    BY Q!TakeRemoves DEF QueueInv
  <1>2. Q!Contents \in Seq(Jobs \cup {NULL}) /\ Len(Q!Contents) = count
    BY Q!ContentsIsSeq DEF QueueInv
  <1>3. Queue!Contents = Q!Contents /\ Queue!Contents' = Q!Contents'
    BY DEF Queue!Contents, Q!Contents
  <1>4. count \in Nat \ {0} /\ count' = count - 1
    BY DEF Q!Take, QueueInv, Q!TypeOK
  <1> QED BY <1>1, <1>2, <1>3, <1>4

(* push adds its argument to the values in the queue, pop removes the one  *)
(* it returns.                                                             *)
LEMMA QueuedFinite ==
  ASSUME QueueInv, NEW v
  PROVE  IsFiniteSet(Queued(v)) /\ Cardinality(Queued(v)) \in Nat
  <1>1. IsFiniteSet(1..count) /\ Queued(v) \in SUBSET (1..count)
    BY FS_Interval DEF Queued, QueueInv, Q!TypeOK
  <1> QED BY <1>1, FS_Subset, FS_CardinalityType

(* push leaves one copy more of its argument in the queue ...              *)
LEMMA QueuedPut ==
  ASSUME QueueInv, alive, NEW t \in Threads, Q!Put(t), NEW v
  PROVE  Cardinality(Queued(v)')
           = Cardinality(Queued(v)) + (IF request[t].arg = v THEN 1 ELSE 0)
  <1> DEFINE n == count + 1
  <1>1. /\ Queued(v) \ {n} = Queued(v)' \ {n}
        /\ n \notin Queued(v)
        /\ n \in Queued(v)' <=> request[t].arg = v
    BY ContentsPut DEF Queued
  <1> HIDE DEF n
  <1>2. IsFiniteSet(Queued(v)) /\ Cardinality(Queued(v)) \in Nat
    BY QueuedFinite
  <1>3. /\ Cardinality(Queued(v)') \in Nat
        /\ Cardinality(Queued(v)') + (IF n \in Queued(v) THEN 1 ELSE 0)
             = Cardinality(Queued(v)) + (IF n \in Queued(v)' THEN 1 ELSE 0)
    BY <1>1, <1>2, CountSwap
  <1> QED BY <1>1, <1>2, <1>3

(* ... and pop one copy less of the value it returns.                      *)
LEMMA QueuedTake ==
  ASSUME QueueInv, NEW t \in Threads, Q!Take(t), NEW v
  PROVE  /\ Cardinality(Queued(v)') \in Nat
         /\ Cardinality(Queued(v)') + (IF items[head] = v THEN 1 ELSE 0)
              = Cardinality(Queued(v))
  <1> DEFINE A == Queued(v)'
             C == Queued(v)
             B == C \ {1}
             f == [i \in A |-> i + 1]
  <1>1. /\ count \in Nat \ {0}
        /\ A = {i \in 1..(count - 1) : Queue!Contents[i + 1] = v}
        /\ C = {i \in 1..count : Queue!Contents[i] = v}
        /\ 1 \in C <=> items[head] = v
    BY ContentsTake DEF Queued
  <1>2. f \in Bijection(A, B)
    <2>1. f \in [A -> B]
      BY <1>1
    <2>2. \A x, y \in A : f[x] = f[y] => x = y
      BY <1>1
    <2>3. ASSUME NEW y \in B PROVE \E x \in A : f[x] = y
      <3>1. y - 1 \in A /\ f[y - 1] = y
        BY <1>1
      <3> QED BY <3>1
    <2> HIDE DEF f, A, B
    <2>4. f \in Injection(A, B)
      BY <2>1, <2>2 DEF Injection, IsInjective
    <2>5. f \in Surjection(A, B)
      BY <2>1, <2>3 DEF Surjection
    <2> QED BY <2>4, <2>5 DEF Bijection
  <1>3. IsFiniteSet(C) /\ Cardinality(C) \in Nat
    BY QueuedFinite
  <1>4. IsFiniteSet(A)
    <2>1. IsFiniteSet(1..(count - 1)) /\ A \in SUBSET (1..(count - 1))
      BY <1>1, FS_Interval
    <2> HIDE DEF A
    <2> QED BY <2>1, FS_Subset
  <1> HIDE DEF f, A, C
  <1>5. Cardinality(A) = Cardinality(B)
    BY <1>2, <1>4, FS_Bijection DEF ExistsBijection
  <1>6. Cardinality(B) = IF 1 \in C THEN Cardinality(C) - 1 ELSE Cardinality(C)
    BY <1>3, FS_RemoveElement
  <1>7. /\ Cardinality(A) \in Nat
        /\ Cardinality(A) + (IF items[head] = v THEN 1 ELSE 0) = Cardinality(C)
    BY <1>1, <1>3, <1>4, <1>5, <1>6, FS_CardinalityType
  <1> QED BY <1>7 DEF A, C

-----------------------------------------------------------------------------
(* Every job in one place. *)
BeingPushed(j) == request[Input].arg = j /\ pc[Input] \in Pending

(* There is one pusher of jobs, the input thread: it holds a job or it     *)
(* does not.                                                               *)
LEMMA PushingCount ==
  ASSUME NEW j
  PROVE  /\ Cardinality(Pushing(j)) = IF BeingPushed(j) THEN 1 ELSE 0
         /\ Cardinality(Pushing(j)') = IF BeingPushed(j)' THEN 1 ELSE 0
  <1>1. /\ Pushing(j) \in SUBSET {Input} /\ Pushing(j)' \in SUBSET {Input}
        /\ Input \in Pushing(j) <=> BeingPushed(j)
        /\ Input \in Pushing(j)' <=> BeingPushed(j)'
    BY DEF Pushing, BeingPushed, Pending
  <1>2. /\ Cardinality(Pushing(j)) = IF Input \in Pushing(j) THEN 1 ELSE 0
        /\ Cardinality(Pushing(j)') = IF Input \in Pushing(j)' THEN 1 ELSE 0
    BY <1>1, CountOne
  <1> QED BY <1>1, <1>2

(* The numbers that are added up are numbers.                              *)
LEMMA CopiesTyped ==
  ASSUME QueueInv, DataTyped, NEW j \in Jobs
  PROVE  /\ Cardinality(Pushing(j)) \in Nat /\ Cardinality(Queued(j)) \in Nat
         /\ IsFiniteSet(Popped(j)) /\ Cardinality(Popped(j)) \in Nat
         /\ IsFiniteSet(RunBy(j)) /\ Cardinality(RunBy(j)) \in Nat
         /\ finished[j] \in Nat
  <1>1. Popped(j) \in SUBSET Workers /\ RunBy(j) \in SUBSET Workers
    BY DEF Popped, RunBy
  <1>2. IsFiniteSet(Popped(j)) /\ IsFiniteSet(RunBy(j))
    BY <1>1, WorkersAssumption, FS_Subset
  <1>3. Cardinality(Popped(j)) \in Nat /\ Cardinality(RunBy(j)) \in Nat
    BY <1>2, FS_CardinalityType
  <1>4. finished[j] \in Nat
    BY DEF DataTyped
  <1> QED BY <1>2, <1>3, <1>4, PushingCount, QueuedFinite

(* A step that moves no job leaves its number of copies alone.             *)
LEMMA CopiesSame ==
  ASSUME NEW j \in Jobs, UNCHANGED << items, head, count, job, finished >>,
         BeingPushed(j)' <=> BeingPushed(j),
         \A w \in Workers : result'[w].data = j <=> result[w].data = j
  PROVE  Copies(j)' = Copies(j)
  <1>1. Cardinality(Pushing(j)') = Cardinality(Pushing(j))
    BY PushingCount
  <1>2. Queued(j)' = Queued(j)
    BY ContentsSame
  <1>3. Popped(j)' = Popped(j) /\ RunBy(j)' = RunBy(j)
    BY DEF Popped, RunBy
  <1> QED BY <1>1, <1>2, <1>3 DEF Copies

(* A step inside a call: push and pop move the job they are about, an      *)
(* error may lose it, and nothing else changes where a job is.             *)
LEMMA JobsKeptInside ==
  ASSUME QueueInv, PlacesTyped, CallPlaces, DataTyped, Phases, JobsKept,
         NEW t \in Threads, InsideQueue(t)
  PROVE  JobsKept'
  <1> USE Distinct, JobsAssumption
  <1>0. /\ UNCHANGED << at, job, finished, entered, alive >>
        /\ request' = request /\ pc[t] # "idle"
        /\ pc \in [Threads -> Q!Points] /\ result \in [Threads -> Q!Results] /\ faults \in Nat
    BY InsideCall, QueueAssumptions DEF InsideQueue, appState, progress, history, QueueInv, Q!TypeOK
  <1>1. /\ t \in Workers <=> at[t] = "popping"
        /\ t \in Workers => request[t].op = "pop"
        /\ t = Input => at[t] = "pushing" /\ request[t].op = "push"
        /\ request[t].op = "push" /\ t # Input => request[t].arg = NULL
    BY <1>0 DEF PlacesTyped, CallPlaces, Calling, WorkerPlaces, RenderPlaces, MainPlaces
  <1>a. alive
    BY <1>0 DEF PlacesTyped, CallPlaces, Calling, Phases, Drained, Draining
  <1>2. ASSUME NEW j \in Jobs, Copies(j)' = Copies(j), faults' = faults
        PROVE  /\ Copies(j)' <= IF j \in entered' THEN 1 ELSE 0
               /\ faults' = 0 => Copies(j)' = IF j \in entered' THEN 1 ELSE 0
    BY <1>0, <1>2 DEF JobsKept
  <1>3. CASE Quiet
    <2>1. ASSUME NEW j \in Jobs PROVE Copies(j)' = Copies(j)
      <3>1. /\ UNCHANGED << items, head, count, job, finished >>
            /\ BeingPushed(j)' <=> BeingPushed(j)
            /\ result' = result
        BY <1>0, <1>3 DEF Quiet, BeingPushed
      <3> QED BY <3>1, CopiesSame
    <2> QED BY <1>2, <1>3, <2>1 DEF Quiet, JobsKept
  <1>4. CASE Q!Put(t)
    <2>1. /\ alive /\ request[t].op = "push" /\ result' = result /\ faults' = faults
          /\ pc[t] = "test" /\ pc' = [pc EXCEPT ![t] = "signal"]
      BY <1>0, <1>a, <1>4 DEF Q!Put, Q!Goto
    <2>2. ASSUME NEW j \in Jobs PROVE Copies(j)' = Copies(j)
      <3>1. Cardinality(Queued(j)')
              = Cardinality(Queued(j)) + (IF request[t].arg = j THEN 1 ELSE 0)
        BY <1>4, <2>1, QueuedPut
      <3>2. Popped(j)' = Popped(j) /\ RunBy(j)' = RunBy(j) /\ finished'[j] = finished[j]
        BY <1>0, <2>1 DEF Popped, RunBy
      <3>3. Cardinality(Pushing(j))
              = Cardinality(Pushing(j)') + (IF request[t].arg = j THEN 1 ELSE 0)
        <4>1. CASE t = Input /\ request[t].arg = j
          <5>1. BeingPushed(j) /\ ~ BeingPushed(j)'
            BY <1>0, <2>1, <4>1 DEF BeingPushed, Pending
          <5> QED BY <4>1, <5>1, PushingCount
        <4>2. CASE ~ (t = Input /\ request[t].arg = j)
          <5>1. request[t].arg # j /\ (BeingPushed(j)' <=> BeingPushed(j))
            BY <1>0, <1>1, <2>1, <4>2 DEF BeingPushed, Pending
          <5> QED BY <5>1, PushingCount
        <4> QED BY <4>1, <4>2
      <3> QED BY <3>1, <3>2, <3>3, CopiesTyped, PushingCount DEF Copies
    <2> QED BY <1>2, <2>1, <2>2 DEF JobsKept
  <1>5. CASE Q!Take(t)
    <2>1. /\ t \in Workers /\ faults' = faults
          /\ result' = [result EXCEPT ![t] = [info |-> "OK", data |-> items[head]]]
          /\ pc[t] = "test" /\ pc' = [pc EXCEPT ![t] = "signal"]
          /\ result[t].data = NULL
      BY <1>0, <1>1, <1>5 DEF Q!Take, Q!Goto, PlacesTyped, CallPlaces, Calling, QueueInv,
         Q!CallInv, Q!Silent, Q!NoResult
    <2>2. ASSUME NEW j \in Jobs PROVE Copies(j)' = Copies(j)
      <3>1. /\ Cardinality(Queued(j)') \in Nat
            /\ Cardinality(Queued(j)') + (IF items[head] = j THEN 1 ELSE 0)
                 = Cardinality(Queued(j))
        BY <1>5, QueuedTake
      <3>2. RunBy(j)' = RunBy(j) /\ finished'[j] = finished[j]
        BY <1>0 DEF RunBy
      <3>3. Cardinality(Pushing(j)') = Cardinality(Pushing(j))
        BY <1>0, <2>1, PushingCount DEF BeingPushed
      <3>4. /\ Popped(j) \ {t} = Popped(j)' \ {t}
            /\ t \notin Popped(j) /\ (t \in Popped(j)' <=> items[head] = j)
        BY <1>0, <2>1 DEF Popped
      <3>5. /\ Cardinality(Popped(j)') \in Nat
            /\ Cardinality(Popped(j)') + (IF t \in Popped(j) THEN 1 ELSE 0)
                 = Cardinality(Popped(j)) + (IF t \in Popped(j)' THEN 1 ELSE 0)
        BY <3>4, CopiesTyped, CountSwap
      <3>6. Cardinality(Popped(j)') = Cardinality(Popped(j)) + (IF items[head] = j THEN 1 ELSE 0)
        BY <3>4, <3>5, CopiesTyped
      <3> QED BY <3>1, <3>2, <3>3, <3>6, CopiesTyped DEF Copies
    <2> QED BY <1>2, <2>1, <2>2 DEF JobsKept
  <1>6. CASE Q!TakeNothing(t) \/ Q!ReadCount(t)
    <2>1. t # Input /\ t \notin Workers
      BY <1>1, <1>6 DEF Q!TakeNothing, Q!ReadCount
    <2>2. /\ UNCHANGED << items, head, count, faults >>
          /\ pc'[Input] = pc[Input] /\ \A w \in Workers : result'[w] = result[w]
      BY <1>0, <1>6, <2>1 DEF Q!TakeNothing, Q!ReadCount, Q!queueVars, Q!Goto
    <2>3. ASSUME NEW j \in Jobs PROVE Copies(j)' = Copies(j)
      BY <1>0, <2>2, CopiesSame DEF BeingPushed
    <2> QED BY <1>2, <2>2, <2>3 DEF JobsKept
  <1>7. CASE Q!LockFails(t) \/ Q!WaitFails(t)
    <2>1. /\ UNCHANGED << items, head, count >> /\ faults' = faults + 1
          /\ \A u \in Threads \ {t} : pc'[u] = pc[u] /\ result'[u] = result[u]
          /\ result[t].data = NULL /\ result'[t].data = NULL
          /\ pc'[t] \notin Pending
      BY <1>0, <1>7 DEF Q!LockFails, Q!WaitFails, Q!Failure, Q!queueVars, Q!Goto, QueueInv,
         Q!CallInv, Q!Silent, Q!NoResult, Pending
    <2>2. ASSUME NEW j \in Jobs PROVE Copies(j)' <= Copies(j) /\ Copies(j)' \in Int /\ Copies(j) \in Int
      <3>1. Popped(j)' = Popped(j) /\ RunBy(j)' = RunBy(j) /\ finished'[j] = finished[j]
        BY <1>0, <2>1 DEF Popped, RunBy
      <3>2. Queued(j)' = Queued(j)
        BY <2>1, ContentsSame
      <3>3. BeingPushed(j)' => BeingPushed(j)
        BY <1>0, <2>1 DEF BeingPushed
      <3> QED BY <3>1, <3>2, <3>3, CopiesTyped, PushingCount DEF Copies
    <2>3. ASSUME NEW j \in Jobs
          PROVE  Copies(j)' <= IF j \in entered' THEN 1 ELSE 0
      BY <1>0, <2>2 DEF JobsKept
    <2> QED BY <1>0, <2>1, <2>3 DEF JobsKept
  <1> QED BY <1>3, <1>4, <1>5, <1>6, <1>7, InsideCall

(* The steps of the program's own functions hand a job on or count it, and *)
(* the queue is freed when nothing is in it.                               *)
LEMMA JobsKeptOutside ==
  ASSUME QueueInv, PlacesTyped, CallPlaces, WorkerAnswers, DataTyped, JobsKept,
         faults = 0 /\ at[Main] = "destroy" => count = 0,
         [Next]_vars, ~ \E t \in Threads : InsideQueue(t)
  PROVE  JobsKept'
  <1> USE Distinct, JobsAssumption
  <1>0. /\ pc \in [Threads -> Q!Points] /\ result \in [Threads -> Q!Results] /\ faults \in Nat
        /\ request \in [Threads -> [op : Q!Operations \cup {"none"}, arg : Jobs \cup {NULL}]]
    BY QueueAssumptions DEF QueueInv, Q!TypeOK
  <1>1. ASSUME UNCHANGED << items, head, count, job, history, faults >>,
               \A j \in Jobs : BeingPushed(j)' <=> BeingPushed(j),
               \A w \in Workers, j \in Jobs : result'[w].data = j <=> result[w].data = j
        PROVE  JobsKept'
    BY <1>1, CopiesSame DEF JobsKept, history
  <1>2. ASSUME UNCHANGED << queueState, job, history >>
        PROVE  JobsKept'
    <2>1. \A j \in Jobs : BeingPushed(j)' <=> BeingPushed(j)
      BY <1>2 DEF queueState, BeingPushed
    <2> QED BY <1>1, <1>2, <2>1 DEF queueState
  <1>3. ASSUME NEW t \in Threads \ {Input}, NEW op, NEW v, Queue!Call(t, op, v),
               UNCHANGED << job, history >>
        PROVE  JobsKept'
    <2>1. \A j \in Jobs : BeingPushed(j)' <=> BeingPushed(j)
      BY <1>0, <1>3 DEF Queue!Call, Queue!Goto, BeingPushed
    <2> QED BY <1>1, <1>3, <2>1 DEF Queue!Call, Queue!queueVars
  <1>4. ASSUME NEW t \in Threads, Queue!Return(t), result[t].data \notin Jobs \/ t \notin Workers,
               UNCHANGED << job, history >>
        PROVE  JobsKept'
    <2>1. \A j \in Jobs : BeingPushed(j)' <=> BeingPushed(j)
      BY <1>0, <1>4 DEF Queue!Return, Queue!Goto, BeingPushed, Pending
    <2>2. \A w \in Workers, j \in Jobs : result'[w].data = j <=> result[w].data = j
      BY <1>0, <1>4 DEF Queue!Return, Queue!NoResult
    <2> QED BY <1>1, <1>4, <2>1, <2>2 DEF Queue!Return, Queue!queueVars
  <1>5. ASSUME NEW w \in Workers, WorkerBegins(w)
        PROVE  JobsKept'
    <2>1. /\ result[w].data \in Jobs /\ result' = [result EXCEPT ![w] = Queue!NoResult]
          /\ job[w] = NULL /\ job' = [job EXCEPT ![w] = result[w].data]
          /\ UNCHANGED << items, head, count, faults, entered, finished >>
      BY <1>5 DEF WorkerBegins, WorkerAnswers, Queue!Return, Queue!queueVars, Move, DataTyped,
         history
    <2>2. ASSUME NEW j \in Jobs
          PROVE  Copies(j)' = Copies(j)
      <3>1. Cardinality(Pushing(j)') = Cardinality(Pushing(j))
        BY <1>0, <1>5, PushingCount DEF BeingPushed, WorkerBegins, Queue!Return, Queue!Goto
      <3>2. Queued(j)' = Queued(j) /\ finished'[j] = finished[j]
        BY <2>1, ContentsSame
      <3>3. /\ Popped(j) \ {w} = Popped(j)' \ {w}
            /\ w \in Popped(j) <=> result[w].data = j
            /\ w \notin Popped(j)'
        BY <1>0, <2>1 DEF Popped, Queue!NoResult
      <3>4. /\ RunBy(j) \ {w} = RunBy(j)' \ {w}
            /\ w \in RunBy(j)' <=> result[w].data = j
            /\ w \notin RunBy(j)
        BY <1>0, <2>1 DEF RunBy, DataTyped
      <3>5. /\ Cardinality(Popped(j)') \in Nat
            /\ Cardinality(Popped(j)') + (IF w \in Popped(j) THEN 1 ELSE 0)
                 = Cardinality(Popped(j)) + (IF w \in Popped(j)' THEN 1 ELSE 0)
        BY <3>3, CopiesTyped, CountSwap
      <3>6. /\ Cardinality(RunBy(j)') \in Nat
            /\ Cardinality(RunBy(j)') + (IF w \in RunBy(j) THEN 1 ELSE 0)
                 = Cardinality(RunBy(j)) + (IF w \in RunBy(j)' THEN 1 ELSE 0)
        BY <3>4, CopiesTyped, CountSwap
      <3>7. Cardinality(Popped(j)') + Cardinality(RunBy(j)')
              = Cardinality(Popped(j)) + Cardinality(RunBy(j))
        BY <3>3, <3>4, <3>5, <3>6, CopiesTyped
      <3> QED BY <3>1, <3>2, <3>5, <3>6, <3>7, CopiesTyped DEF Copies
    <2> QED BY <2>1, <2>2 DEF JobsKept
  <1>6. ASSUME NEW w \in Workers, WorkerEndsJob(w)
        PROVE  JobsKept'
    <2>1. /\ job[w] \in Jobs /\ job' = [job EXCEPT ![w] = NULL]
          /\ finished' = [finished EXCEPT ![job[w]] = finished[job[w]] + 1]
          /\ entered' = entered /\ queueState' = queueState
      BY <1>6 DEF WorkerEndsJob, Move, DataTyped
    <2>2. ASSUME NEW j \in Jobs
          PROVE  Copies(j)' = Copies(j)
      <3>1. /\ Cardinality(Pushing(j)') = Cardinality(Pushing(j))
            /\ Queued(j)' = Queued(j) /\ Popped(j)' = Popped(j)
        BY <2>1, PushingCount, ContentsSame DEF BeingPushed, queueState, Popped
      <3>2. /\ RunBy(j) \ {w} = RunBy(j)' \ {w}
            /\ w \in RunBy(j) <=> job[w] = j
            /\ w \notin RunBy(j)'
        BY <2>1 DEF RunBy, DataTyped
      <3>3. /\ Cardinality(RunBy(j)') \in Nat
            /\ Cardinality(RunBy(j)') + (IF w \in RunBy(j) THEN 1 ELSE 0)
                 = Cardinality(RunBy(j)) + (IF w \in RunBy(j)' THEN 1 ELSE 0)
        BY <3>2, CopiesTyped, CountSwap
      <3>4. finished'[j] = finished[j] + (IF job[w] = j THEN 1 ELSE 0)
        BY <2>1 DEF DataTyped
      <3>5. Cardinality(RunBy(j)') + finished'[j] = Cardinality(RunBy(j)) + finished[j]
        BY <3>2, <3>3, <3>4, CopiesTyped
      <3> QED BY <3>1, <3>3, <3>4, <3>5, CopiesTyped DEF Copies
    <2> QED BY <2>1, <2>2 DEF JobsKept, queueState
  <1>7. ASSUME NEW k \in Jobs, InputJob(k)
        PROVE  JobsKept'
    <2>1. /\ k \notin entered /\ entered' = entered \cup {k} /\ pc[Input] = "idle"
          /\ pc' = [pc EXCEPT ![Input] = "lock"]
          /\ request' = [request EXCEPT ![Input] = [op |-> "push", arg |-> k]]
          /\ UNCHANGED << items, head, count, result, faults, job, finished >>
      BY <1>7 DEF InputJob, Queue!Call, Queue!Goto, Queue!queueVars, progress, history
    <2>2. ASSUME NEW j \in Jobs
          PROVE  Copies(j)' = IF j = k THEN 1 ELSE Copies(j)
      <3>1. /\ Queued(j)' = Queued(j) /\ Popped(j)' = Popped(j) /\ RunBy(j)' = RunBy(j)
            /\ finished'[j] = finished[j]
        BY <2>1, ContentsSame DEF Popped, RunBy
      <3>2. ~ BeingPushed(j) /\ (BeingPushed(j)' <=> j = k)
        BY <1>0, <2>1 DEF BeingPushed, Pending
      <3>3. /\ Cardinality(Pushing(j)) = 0
            /\ Cardinality(Pushing(j)') = IF j = k THEN 1 ELSE 0
        BY <3>2, PushingCount
      <3>4. CASE j # k
        BY <3>1, <3>3, <3>4 DEF Copies
      <3>5. CASE j = k
        <4>1. Copies(j) <= 0
          BY <2>1, <3>5 DEF JobsKept
        <4>2. /\ Cardinality(Queued(j)) \in Nat /\ Cardinality(Popped(j)) \in Nat
              /\ Cardinality(RunBy(j)) \in Nat /\ finished[j] \in Nat
          BY CopiesTyped
        <4>3. Cardinality(Queued(j)) + Cardinality(Popped(j)) + Cardinality(RunBy(j))
                + finished[j] <= 0
          BY <3>3, <4>1, <4>2 DEF Copies
        <4>4. /\ Cardinality(Queued(j)) = 0 /\ Cardinality(Popped(j)) = 0
              /\ Cardinality(RunBy(j)) = 0 /\ finished[j] = 0
          BY ONLY <4>2, <4>3, SumZero
        <4> QED BY <3>1, <3>3, <3>5, <4>4 DEF Copies
      <3> QED BY <3>4, <3>5
    <2> QED BY <2>1, <2>2 DEF JobsKept
  <1>8. ASSUME MainDestroysQueue
        PROVE  JobsKept'
    <2>1. /\ at[Main] = "destroy" /\ count' = 0
          /\ UNCHANGED << pc, request, result, faults, job, entered, finished >>
      BY <1>8 DEF MainDestroysQueue, Move, progress, history
    <2>2. ASSUME NEW j \in Jobs
          PROVE  /\ Copies(j)' \in Int /\ Copies(j) \in Int /\ Copies(j)' <= Copies(j)
                 /\ faults = 0 => Copies(j)' = Copies(j)
      <3>1. /\ Cardinality(Pushing(j)') = Cardinality(Pushing(j))
            /\ Popped(j)' = Popped(j) /\ RunBy(j)' = RunBy(j) /\ finished'[j] = finished[j]
        BY <2>1, PushingCount DEF BeingPushed, Popped, RunBy
      <3>2. Queued(j)' = {} /\ (count = 0 => Queued(j) = {})
        BY <2>1 DEF Queued
      <3>3. Cardinality(Queued(j)') = 0 /\ (faults = 0 => Cardinality(Queued(j)) = 0)
        BY <2>1, <3>2, FS_EmptySet
      <3> QED BY <3>1, <3>3, CopiesTyped DEF Copies
    <2> QED BY <2>1, <2>2 DEF JobsKept
  <1>9. ASSUME NEW w \in Workers, WorkerStep(w)
        PROVE  JobsKept'
    <2>1. CASE WorkerPops(w)
      BY <1>3, <2>1 DEF WorkerPops, progress
    <2>2. CASE WorkerStops(w)
      BY <1>4, <2>2 DEF WorkerStops, WorkerAnswers, progress
    <2>3. CASE WorkerTicks(w) \/ WorkerCounts(w)
      BY <1>2, <2>3 DEF WorkerTicks, WorkerCounts, progress
    <2> QED BY <1>5, <1>6, <1>9, <2>1, <2>2, <2>3 DEF WorkerStep
  <1>10. ASSUME InputStep
         PROVE  JobsKept'
    <2>1. CASE InputPushed
      BY <1>4, <2>1 DEF InputPushed, progress
    <2> QED BY <1>2, <1>7, <1>10, <2>1 DEF InputStep, InputCounts, InputQuit, InputEof, progress
  <1>11. ASSUME NEW t \in {Main, Display}, RenderStep(t)
         PROVE  JobsKept'
    <2>1. CASE RenderAsksQueue(t)
      BY <1>3, <2>1 DEF RenderAsksQueue, progress
    <2>2. CASE RenderQueueAnswered(t)
      BY <1>4, <2>2 DEF RenderQueueAnswered, progress
    <2> QED BY <1>2, <1>11, <2>1, <2>2 DEF RenderStep, RenderIdleBar, RenderBusyBar,
            RenderDivides, progress
  <1>12. ASSUME DisplayStep
         PROVE  JobsKept'
    BY <1>2, <1>11, <1>12 DEF DisplayStep, DisplayLoops, DisplayStops, RenderBegins,
       RenderEnds, progress
  <1>13. ASSUME MainStep
         PROVE  JobsKept'
    <2>1. CASE MainPushesPill
      BY <1>3, <2>1 DEF MainPushesPill, progress
    <2>2. CASE MainPushed
      BY <1>4, <2>2 DEF MainPushed, progress
    <2>3. CASE MainLaunchesWorkers \/ MainRenders
      BY <1>2, <2>3 DEF MainLaunchesWorkers, MainRenders, RenderBegins, RenderEnds, progress
    <2>4. CASE \/ MainLaunchesInput \/ MainJoinsInput \/ MainJoinsWorkers \/ MainJoinsDisplay
      BY <1>2, <2>4 DEF MainLaunchesInput, MainJoinsInput, MainJoinsWorkers,
         MainJoinsDisplay, progress
    <2> QED BY <1>8, <1>11, <1>13, <2>1, <2>2, <2>3, <2>4 DEF MainStep
  <1>14. UNCHANGED vars => JobsKept'
    BY <1>2 DEF vars, appState, progress
  <1> QED BY <1>9, <1>10, <1>12, <1>13, <1>14 DEF Next, Terminated

-----------------------------------------------------------------------------
(* The pills. *)

(* A thread that has ended is not started again.                           *)
LEMMA EndedStays ==
  ASSUME PlacesTyped, Phases, [Next]_vars
  PROVE  at[Input] = "exited" => at'[Input] = "exited"
  <1> USE Distinct DEF PlacesTyped, Phases, WorkerPlaces, RenderPlaces, Move
  <1>1. ASSUME NEW t \in Threads, InsideQueue(t)
        PROVE  at' = at
    BY <1>1 DEF InsideQueue, appState
  <1>2. ASSUME NEW w \in Workers, WorkerStep(w)
        PROVE  at'[Input] = at[Input]
    BY <1>2 DEF WorkerStep, WorkerPops, WorkerStops, WorkerBegins, WorkerTicks,
       WorkerEndsJob, WorkerCounts
  <1>3. ASSUME InputStep
        PROVE  at[Input] # "exited"
    BY <1>3 DEF InputStep, InputJob, InputPushed, InputCounts, InputQuit, InputEof
  <1>4. ASSUME NEW t \in {Main, Display}, RenderStep(t)
        PROVE  at'[Input] = at[Input]
    BY <1>4 DEF RenderStep, RenderAsksQueue, RenderQueueAnswered, RenderIdleBar,
       RenderBusyBar, RenderDivides
  <1>5. ASSUME DisplayStep
        PROVE  at'[Input] = at[Input]
    BY <1>4, <1>5 DEF DisplayStep, DisplayLoops, DisplayStops, RenderBegins, RenderEnds
  <1>6. ASSUME MainStep, at[Input] = "exited"
        PROVE  at'[Input] = at[Input]
    BY <1>4, <1>6 DEF MainStep, MainLaunchesWorkers, MainRenders, RenderBegins, RenderEnds,
       MainLaunchesInput, MainJoinsInput, MainPushesPill, MainPushed, MainJoinsWorkers,
       MainJoinsDisplay, MainDestroysQueue
  <1>7. UNCHANGED vars => at' = at
    BY DEF vars, appState
  <1> QED BY <1>1, <1>2, <1>3, <1>5, <1>6, <1>7 DEF Next, Terminated

(* What a thread inside a call is doing there.                             *)
LEMMA Callers ==
  ASSUME QueueInv, PlacesTyped, CallPlaces, DataTyped, Phases,
         NEW t \in Threads, pc[t] # "idle"
  PROVE  /\ alive
         /\ request[t].op \in {"push", "pop", "count"}
         /\ request[t].op = "pop" <=> t \in Workers
         /\ request[t].op = "push" <=> at[t] = "pushing"
         /\ request[t].op = "push" =>
              \/ t = Input /\ request[t].arg \in Jobs
              \/ t = Main /\ request[t].arg = NULL /\ at[Input] = "exited"
  BY Distinct DEF PlacesTyped, CallPlaces, Calling, WorkerPlaces, RenderPlaces, MainPlaces,
     Phases, Drained, Draining, DataTyped

(* Nothing follows a pill in the queue: the user has stopped typing.       *)
LEMMA PillsLastStep ==
  ASSUME QueueInv, PlacesTyped, CallPlaces, DataTyped, Phases, PillsLast, [Next]_vars
  PROVE  PillsLast'
  <1> USE Distinct, JobsAssumption
  <1>1. ASSUME UNCHANGED << items, head, count >>
        PROVE  PillsLast'
    BY <1>1, ContentsSame, EndedStays DEF PillsLast
  <1>2. ASSUME NEW t \in Threads, InsideQueue(t)
        PROVE  PillsLast'
    <2>0. at' = at /\ pc[t] # "idle"
      BY <1>2, InsideCall DEF InsideQueue, appState
    <2>1. CASE Q!Put(t)
      <3>1. /\ alive
            /\ \/ t = Input /\ request[t].arg # NULL /\ at[Input] = "pushing"
               \/ request[t].arg = NULL /\ at[Input] = "exited"
        BY <2>0, <2>1, Callers DEF Q!Put
      <3>2. /\ count \in Nat /\ count' = count + 1
            /\ \A i \in 1..count : Queue!Contents'[i] = Queue!Contents[i]
            /\ Queue!Contents'[count + 1] = request[t].arg
        BY <2>1, <3>1, ContentsPut
      <3> QED BY <2>0, <3>1, <3>2 DEF PillsLast
    <2>2. CASE Q!Take(t)
      <3>1. /\ count \in Nat \ {0} /\ count' = count - 1
            /\ \A i \in 1..(count - 1) : Queue!Contents'[i] = Queue!Contents[i + 1]
        BY <2>2, ContentsTake
      <3> QED BY <2>0, <3>1 DEF PillsLast
    <2>3. CASE Quiet \/ Q!TakeNothing(t) \/ Q!ReadCount(t) \/ Q!LockFails(t) \/ Q!WaitFails(t)
      BY <1>1, <2>3 DEF Quiet, Q!TakeNothing, Q!ReadCount, Q!LockFails, Q!WaitFails, Q!queueVars
    <2> QED BY <1>2, <2>1, <2>2, <2>3, InsideCall
  <1>3. ASSUME NEW t \in Threads, NEW op, NEW v, Queue!Call(t, op, v) \/ Queue!Return(t)
        PROVE  PillsLast'
    BY <1>1, <1>3 DEF Queue!Call, Queue!Return, Queue!queueVars
  <1>4. CASE UNCHANGED queueState
    BY <1>1, <1>4 DEF queueState
  <1>5. CASE MainDestroysQueue
    BY <1>5 DEF MainDestroysQueue, PillsLast
  <1> QED BY <1>2, <1>3, <1>4, <1>5, QueueUse

(* As long as nothing fails, every pill pushed is on its way to a worker,  *)
(* in its hands, or has ended it.                                          *)
LEMMA TakersTyped ==
  /\ IsFiniteSet(PillTakers) /\ Cardinality(PillTakers) \in Nat
  <1>1. PillTakers \in SUBSET Workers
    BY DEF PillTakers
  <1> QED BY <1>1, WorkersAssumption, FS_Subset, FS_CardinalityType

(* A step that moves no pill keeps them all.                               *)
LEMMA PillsSame ==
  ASSUME PillsKept, UNCHANGED << items, head, count, rounds >>, faults' = 0 => faults = 0,
         faults' = 0 => PillTakers' = PillTakers /\ (PillPushed' <=> PillPushed),
         at[Input] = "exited" => at'[Input] = "exited"
  PROVE  PillsKept'
  <1>1. Queued(NULL)' = Queued(NULL) /\ Queue!Contents' = Queue!Contents
    BY ContentsSame
  <1> QED BY <1>1 DEF PillsKept

(* A step inside push or pop loses no pill ...                             *)
LEMMA PillsKeptInside ==
  ASSUME QueueInv, PlacesTyped, CallPlaces, DataTyped, Phases, PillsLast, PillsKept,
         NEW t \in Threads, InsideQueue(t)
  PROVE  PillsKept'
  <1> USE Distinct, JobsAssumption
  <1>0. /\ UNCHANGED << at, rounds >> /\ rounds \in Nat
        /\ request' = request /\ pc[t] # "idle"
        /\ pc \in [Threads -> Q!Points] /\ result \in [Threads -> Q!Results] /\ faults \in Nat
    BY InsideCall, QueueAssumptions DEF InsideQueue, appState, QueueInv, Q!TypeOK, DataTyped
  <1>1. CASE Quiet
    <2>1. PillTakers' = PillTakers /\ (PillPushed' <=> PillPushed)
      BY <1>0, <1>1 DEF Quiet, PillTakers, PillPushed
    <2> QED BY <1>0, <1>1, <2>1, PillsSame DEF Quiet
  <1>2. CASE Q!Put(t)
    <2>1. /\ alive /\ request[t].op = "push" /\ result' = result /\ faults' = faults
          /\ pc[t] = "test" /\ pc' = [pc EXCEPT ![t] = "signal"]
      BY <1>0, <1>2, Callers DEF Q!Put, Q!Goto
    <2>2. /\ at[t] = "pushing"
          /\ \/ t = Input /\ request[t].arg # NULL /\ at[Input] = "pushing"
             \/ t = Main /\ request[t].arg = NULL
      BY <1>0, <2>1, Callers
    <2>3. /\ count \in Nat /\ count' = count + 1
          /\ \A i \in 1..count : Queue!Contents'[i] = Queue!Contents[i]
          /\ Queue!Contents'[count + 1] = request[t].arg
      BY <1>2, <2>1, ContentsPut
    <2>4. Cardinality(Queued(NULL)')
            = Cardinality(Queued(NULL)) + (IF request[t].arg = NULL THEN 1 ELSE 0)
      BY <1>2, <2>1, QueuedPut
    <2>5. PillTakers' = PillTakers
      BY <1>0, <2>1, <2>2 DEF PillTakers
    <2>6. Cardinality(Queued(NULL)') + (IF PillPushed' THEN 1 ELSE 0)
            = Cardinality(Queued(NULL)) + (IF PillPushed THEN 1 ELSE 0)
      <3>1. CASE t = Main
        <4>1. PillPushed /\ ~ PillPushed'
          BY <1>0, <2>1, <2>2, <3>1 DEF PillPushed, Pending
        <4> QED BY <2>2, <2>4, <3>1, <4>1, QueuedFinite
      <3>2. CASE t = Input
        <4>1. PillPushed' <=> PillPushed
          BY <1>0, <2>1, <3>2 DEF PillPushed
        <4> QED BY <2>2, <2>4, <3>2, <4>1, QueuedFinite
      <3> QED BY <2>2, <3>1, <3>2
    <2>7. Cardinality(Queued(NULL)') \in Nat
      BY <2>4, QueuedFinite
    <2>8. ASSUME faults = 0
          PROVE  Cardinality(PillTakers') + Cardinality(Queued(NULL)')
                   + (IF PillPushed' THEN 1 ELSE 0) = rounds
      BY <2>5, <2>6, <2>7, <2>8, TakersTyped, QueuedFinite DEF PillsKept
    <2>9. ASSUME faults = 0, PillTakers' # {}
          PROVE  at'[Input] = "exited" /\ \A i \in 1..count' : Queue!Contents'[i] = NULL
      BY <1>0, <2>2, <2>3, <2>5, <2>9 DEF PillsKept
    <2> QED BY <1>0, <2>1, <2>8, <2>9 DEF PillsKept
  <1>3. CASE Q!Take(t)
    <2>1. /\ t \in Workers /\ faults' = faults /\ at[t] # "exited"
          /\ result' = [result EXCEPT ![t] = [info |-> "OK", data |-> items[head]]]
          /\ pc[t] = "test" /\ pc' = [pc EXCEPT ![t] = "signal"]
      BY <1>0, <1>3, Callers DEF Q!Take, Q!Goto, CallPlaces, Calling
    <2>2. /\ count \in Nat \ {0} /\ count' = count - 1
          /\ \A i \in 1..(count - 1) : Queue!Contents'[i] = Queue!Contents[i + 1]
          /\ Queue!Contents[1] = items[head]
      BY <1>3, ContentsTake
    <2>3. /\ Cardinality(Queued(NULL)') \in Nat
          /\ Cardinality(Queued(NULL)') + (IF items[head] = NULL THEN 1 ELSE 0)
               = Cardinality(Queued(NULL))
      BY <1>3, QueuedTake
    <2>4. /\ PillTakers \ {t} = PillTakers' \ {t}
          /\ t \notin PillTakers
          /\ t \in PillTakers' <=> items[head] = NULL
      BY <1>0, <2>1 DEF PillTakers, Answered
    <2>5. /\ Cardinality(PillTakers') \in Nat
          /\ Cardinality(PillTakers') + (IF t \in PillTakers THEN 1 ELSE 0)
               = Cardinality(PillTakers) + (IF t \in PillTakers' THEN 1 ELSE 0)
      BY <2>4, TakersTyped, CountSwap
    <2>6. PillPushed' <=> PillPushed
      BY <1>0, <2>1 DEF PillPushed
    <2>7. Cardinality(PillTakers') + Cardinality(Queued(NULL)')
            = Cardinality(PillTakers) + Cardinality(Queued(NULL))
      BY <2>3, <2>4, <2>5, TakersTyped, QueuedFinite
    <2>8. ASSUME faults = 0
          PROVE  Cardinality(PillTakers') + Cardinality(Queued(NULL)')
                   + (IF PillPushed' THEN 1 ELSE 0) = rounds
      BY <2>6, <2>7, <2>8, <2>3, <2>5, TakersTyped, QueuedFinite DEF PillsKept
    <2>9. ASSUME faults = 0, PillTakers' # {}
          PROVE  at[Input] = "exited" /\ \A i \in 1..count : Queue!Contents[i] = NULL
      <3>1. CASE PillTakers # {}
        BY <2>9, <3>1 DEF PillsKept
      <3>2. CASE items[head] = NULL
        BY <2>2, <3>2 DEF PillsLast
      <3> QED BY <2>4, <2>9, <3>1, <3>2
    <2>10. ASSUME faults = 0, PillTakers' # {}
           PROVE  at'[Input] = "exited" /\ \A i \in 1..count' : Queue!Contents'[i] = NULL
      BY <1>0, <2>2, <2>9, <2>10
    <2> QED BY <1>0, <2>1, <2>8, <2>10 DEF PillsKept
  <1>4. CASE Q!TakeNothing(t) \/ Q!ReadCount(t)
    <2>1. t \notin Workers /\ request[t].op # "push"
      BY <1>0, <1>4, Callers DEF Q!TakeNothing, Q!ReadCount
    <2>2. /\ UNCHANGED << items, head, count, faults >>
          /\ \A u \in Threads \ {t} : pc'[u] = pc[u] /\ result'[u] = result[u]
      BY <1>0, <1>4, <2>1 DEF Q!TakeNothing, Q!ReadCount, Q!queueVars, Q!Goto
    <2>3. at[t] # "pushing"
      BY <1>0, <2>1, Callers
    <2>4. PillTakers' = PillTakers /\ (PillPushed' <=> PillPushed)
      BY <1>0, <2>1, <2>2, <2>3 DEF PillTakers, PillPushed
    <2> QED BY <1>0, <2>2, <2>4, PillsSame
  <1>5. CASE Q!LockFails(t) \/ Q!WaitFails(t)
    <2>1. faults' # 0
      BY <1>0, <1>5 DEF Q!LockFails, Q!WaitFails
    <2> QED BY <2>1 DEF PillsKept
  <1> QED BY <1>1, <1>2, <1>3, <1>4, <1>5, InsideCall

(* ... and neither does a step of the threads outside the queue.           *)
LEMMA PillsKeptOutside ==
  ASSUME QueueInv, PlacesTyped, CallPlaces, WorkerAnswers, DataTyped, Phases, PillsKept,
         faults = 0 /\ at[Main] = "destroy" => count = 0,
         [Next]_vars, ~ \E t \in Threads : InsideQueue(t)
  PROVE  PillsKept'
  <1> USE Distinct, JobsAssumption
  <1>0. /\ pc \in [Threads -> Q!Points] /\ result \in [Threads -> Q!Results]
        /\ at[Input] = "exited" => at'[Input] = "exited"
    BY EndedStays DEF QueueInv, Q!TypeOK
  <1> USE DEF PlacesTyped, Move, PillTakers, PillPushed
  <1>1. ASSUME NEW w \in Workers, WorkerStep(w)
        PROVE  PillsKept'
    <2>1. /\ UNCHANGED << items, head, count, rounds, faults >>
          /\ at'[Main] = at[Main] /\ pc'[Main] = pc[Main]
          /\ \A v \in Workers \ {w} : at'[v] = at[v] /\ pc'[v] = pc[v] /\ result'[v] = result[v]
      BY <1>0, <1>1 DEF WorkerStep, WorkerPops, WorkerStops, WorkerBegins, WorkerTicks,
         WorkerEndsJob, WorkerCounts, Queue!Call, Queue!Return, Queue!Goto, Queue!queueVars,
         queueState
    <2>2. ASSUME faults = 0
          PROVE  w \in PillTakers' <=> w \in PillTakers
      <3>1. CASE WorkerStops(w)
        BY <2>2, <3>1 DEF WorkerStops, WorkerAnswers, Answered, Queue!Return
      <3>2. CASE WorkerBegins(w)
        BY <1>0, <3>2 DEF WorkerBegins, Answered, Queue!Return, Queue!Goto
      <3>3. CASE WorkerPops(w)
        BY <1>0, <3>3 DEF WorkerPops, Answered, Queue!Call, Queue!Goto
      <3>4. CASE WorkerTicks(w) \/ WorkerEndsJob(w) \/ WorkerCounts(w)
        BY <3>4 DEF WorkerTicks, WorkerEndsJob, WorkerCounts, Answered, queueState,
           CallPlaces, Calling
      <3> QED BY <1>1, <3>1, <3>2, <3>3, <3>4 DEF WorkerStep
    <2>3. faults = 0 => PillTakers' = PillTakers
      BY <2>1, <2>2
    <2> QED BY <1>0, <2>1, <2>3, PillsSame
  <1>2. ASSUME UNCHANGED << items, head, count, rounds, faults >>,
               \A w \in Workers : at'[w] = at[w] /\ pc'[w] = pc[w] /\ result'[w] = result[w],
               PillPushed' <=> PillPushed
        PROVE  PillsKept'
    <2>1. PillTakers' = PillTakers
      BY <1>2
    <2> QED BY <1>0, <1>2, <2>1, PillsSame
  <1>3. ASSUME InputStep
        PROVE  PillsKept'
    BY <1>0, <1>2, <1>3 DEF InputStep, InputJob, InputPushed, InputCounts, InputQuit,
       InputEof, Queue!Call, Queue!Return, Queue!Goto, Queue!queueVars, queueState
  <1>4. ASSUME NEW t \in {Main, Display}, RenderStep(t)
        PROVE  PillsKept'
    <2>1. /\ at[t] # "pushing" /\ at'[t] # "pushing"
          /\ \A u \in Threads \ {t} : at'[u] = at[u] /\ pc'[u] = pc[u] /\ result'[u] = result[u]
          /\ UNCHANGED << items, head, count, rounds, faults >>
      BY <1>0, <1>4 DEF RenderStep, RenderAsksQueue, RenderQueueAnswered, RenderIdleBar,
         RenderBusyBar, RenderDivides, Queue!Call, Queue!Return, Queue!Goto,
         Queue!queueVars, queueState
    <2> QED BY <1>2, <2>1
  <1>5. ASSUME DisplayStep
        PROVE  PillsKept'
    BY <1>2, <1>4, <1>5 DEF DisplayStep, DisplayLoops, DisplayStops, RenderBegins,
       RenderEnds, queueState
  <1>6. ASSUME MainStep
        PROVE  PillsKept'
    <2>1. CASE MainLaunchesWorkers
      <3>1. PillTakers' = PillTakers /\ (PillPushed' <=> PillPushed)
        BY <2>1 DEF MainLaunchesWorkers, queueState, CallPlaces, Calling, Answered
      <3> QED BY <1>0, <2>1, <3>1, PillsSame DEF MainLaunchesWorkers, queueState
    <2>2. CASE MainPushesPill
      <3>1. /\ UNCHANGED << items, head, count, faults >> /\ rounds' = rounds + 1
            /\ ~ PillPushed /\ PillPushed' /\ PillTakers' = PillTakers
        BY <1>0, <2>2 DEF MainPushesPill, Pending, Queue!Call, Queue!Goto, Queue!queueVars
      <3>2. Queued(NULL)' = Queued(NULL) /\ Queue!Contents' = Queue!Contents
        BY <3>1, ContentsSame
      <3> HIDE DEF PillTakers, PillPushed
      <3> QED BY <1>0, <3>1, <3>2, TakersTyped, QueuedFinite DEF PillsKept, DataTyped
    <2>3. CASE MainPushed
      BY <1>0, <1>2, <2>3 DEF MainPushed, Pending, Queue!Return, Queue!Goto, Queue!queueVars
    <2>4. CASE MainRenders
      BY <1>2, <2>4 DEF MainRenders, RenderBegins, RenderEnds, queueState
    <2>5. CASE MainLaunchesInput \/ MainJoinsInput \/ MainJoinsWorkers \/ MainJoinsDisplay
      BY <1>2, <2>5 DEF MainLaunchesInput, MainJoinsInput, MainJoinsWorkers,
         MainJoinsDisplay, queueState
    <2>6. CASE MainDestroysQueue
      <3>1. /\ PillTakers' = PillTakers /\ (PillPushed' <=> PillPushed)
            /\ faults' = faults /\ rounds' = rounds /\ at[Main] = "destroy" /\ count' = 0
        BY <2>6 DEF MainDestroysQueue
      <3>2. count = 0 => Queued(NULL) = {} /\ Queued(NULL)' = {}
        BY <3>1 DEF Queued
      <3> HIDE DEF PillTakers, PillPushed
      <3> QED BY <1>0, <3>1, <3>2 DEF PillsKept
    <2> QED BY <1>4, <1>6, <2>1, <2>2, <2>3, <2>4, <2>5, <2>6 DEF MainStep
  <1>7. UNCHANGED vars => PillsKept'
    BY <1>2 DEF vars, appState, queueState
  <1> QED BY <1>1, <1>3, <1>5, <1>6, <1>7 DEF Next, Terminated

(* When the workers have ended they have taken every pill, and with the    *)
(* last pill everything before it: the queue is empty.                     *)
LEMMA QueueDrained ==
  ASSUME QueueInv, Phases, PillsKept, faults = 0, at[Main] \in Drained \/ LastRender
  PROVE  count = 0
  <1>1. PillTakers = Workers /\ rounds = Cardinality(Workers)
    BY DEF Phases, PillTakers, Pills
  <1>2. Cardinality(Workers) \in Nat
    BY WorkersAssumption, FS_CardinalityType
  <1>3. Cardinality(Queued(NULL)) = 0
    <2>1. Cardinality(Workers) + Cardinality(Queued(NULL)) + (IF PillPushed THEN 1 ELSE 0)
            = Cardinality(Workers)
      BY <1>1 DEF PillsKept
    <2> QED BY <1>2, <2>1, QueuedFinite
  <1>4. Queued(NULL) = {}
    BY <1>3, QueuedFinite, FS_EmptySet
  <1>5. \A i \in 1..count : Queue!Contents[i] = NULL
    BY <1>1, WorkersAssumption DEF PillsKept
  <1>6. count \in Nat
    BY QueueAssumptions DEF QueueInv, Q!TypeOK
  <1> QED BY <1>4, <1>5, <1>6 DEF Queued

-----------------------------------------------------------------------------
(* The two counters of the program. *)

(* The sets counted are finite.                                            *)
LEMMA TalliesTyped ==
  ASSUME DataTyped
  PROVE  /\ IsFiniteSet(entered) /\ Cardinality(entered) \in Nat
         /\ Cardinality(entered) <= Cardinality(Jobs)
         /\ IsFiniteSet(WorkersOwe) /\ Cardinality(WorkersOwe) \in Nat
         /\ IsFiniteSet(JobsRun) /\ Cardinality(JobsRun) \in Nat
         /\ Cardinality(JobsRun) <= Cardinality(Jobs)
         /\ Cardinality(Jobs) \in Nat
  <1>1. entered \in SUBSET Jobs /\ WorkersOwe \in SUBSET Workers /\ JobsRun \in SUBSET Jobs
    BY DEF DataTyped, WorkersOwe, JobsRun
  <1>2. /\ IsFiniteSet(entered) /\ Cardinality(entered) <= Cardinality(Jobs)
        /\ IsFiniteSet(JobsRun) /\ Cardinality(JobsRun) <= Cardinality(Jobs)
    BY <1>1, JobsAssumption, FS_Subset
  <1>3. IsFiniteSet(WorkersOwe)
    BY <1>1, WorkersAssumption, FS_Subset
  <1> QED BY <1>2, <1>3, JobsAssumption, FS_CardinalityType

(* A job is counted as submitted by the thread that pushed it and as       *)
(* completed by the worker that ran it, once each.                         *)
LEMMA TalliesStep ==
  ASSUME QueueInv, PlacesTyped, DataTyped, JobsKept, Phases, Tallies, [Next]_vars
  PROVE  Tallies'
  <1> USE Distinct, JobsAssumption DEF PlacesTyped, Move
  <1>1. ASSUME UNCHANGED << submitted, completed, entered, finished >>,
               InputOwes' <=> InputOwes,
               \A w \in Workers : at'[w] = "count" <=> at[w] = "count"
        PROVE  Tallies'
    <2>1. WorkersOwe' = WorkersOwe /\ JobsRun' = JobsRun
      BY <1>1 DEF WorkersOwe, JobsRun
    <2> QED BY <1>1, <2>1 DEF Tallies
  <1>2. ASSUME NEW t \in Threads, InsideQueue(t)
        PROVE  Tallies'
    BY <1>1, <1>2 DEF InsideQueue, appState, counters, history, InputOwes
  <1>3. ASSUME NEW w \in Workers, WorkerEndsJob(w)
        PROVE  Tallies'
    <2>1. /\ job[w] \in Jobs
          /\ finished' = [finished EXCEPT ![job[w]] = finished[job[w]] + 1]
          /\ UNCHANGED << submitted, completed, entered >>
          /\ at[w] = "work" /\ at' = [at EXCEPT ![w] = "count"]
      BY <1>3 DEF WorkerEndsJob, DataTyped, counters
    <2>2. finished[job[w]] = 0
      <3> DEFINE j == job[w]
      <3>0. j \in Jobs
        BY <2>1
      <3>1. RunBy(j) # {}
        BY DEF RunBy
      <3> HIDE DEF j
      <3>2. /\ Cardinality(Pushing(j)) \in Nat /\ Cardinality(Queued(j)) \in Nat
            /\ Cardinality(Popped(j)) \in Nat /\ Cardinality(RunBy(j)) \in Nat
            /\ IsFiniteSet(RunBy(j)) /\ finished[j] \in Nat
        BY <3>0, CopiesTyped
      <3>3. Cardinality(RunBy(j)) # 0
        BY <3>1, <3>2, FS_EmptySet
      <3>4. Copies(j) <= IF j \in entered THEN 1 ELSE 0
        BY <3>0 DEF JobsKept
      <3>5. Cardinality(Pushing(j)) + Cardinality(Queued(j)) + Cardinality(Popped(j))
              + Cardinality(RunBy(j)) + finished[j] <= 1
        BY <3>2, <3>4 DEF Copies
      <3>6. finished[j] = 0
        BY <3>2, <3>3, <3>5
      <3> QED BY <3>6 DEF j
    <2>3. /\ InputOwes' <=> InputOwes
          /\ WorkersOwe \ {w} = WorkersOwe' \ {w} /\ w \notin WorkersOwe /\ w \in WorkersOwe'
      BY <2>1 DEF InputOwes, WorkersOwe
    <2>4. /\ JobsRun \ {job[w]} = JobsRun' \ {job[w]}
          /\ job[w] \notin JobsRun /\ job[w] \in JobsRun'
      BY <2>1, <2>2 DEF JobsRun, DataTyped
    <2>5. Cardinality(WorkersOwe') = Cardinality(WorkersOwe) + 1
      BY <2>3, TalliesTyped, CountSwap
    <2>6. Cardinality(JobsRun') = Cardinality(JobsRun) + 1
      BY <2>4, TalliesTyped, CountSwap
    <2> QED BY <2>1, <2>3, <2>5, <2>6, TalliesTyped DEF Tallies
  <1>4. ASSUME NEW w \in Workers, WorkerCounts(w)
        PROVE  Tallies'
    <2>1. /\ completed' = completed + 1 /\ UNCHANGED << submitted, entered, finished >>
          /\ at[w] = "count" /\ at' = [at EXCEPT ![w] = "pop"]
      BY <1>4 DEF WorkerCounts, history
    <2>2. /\ InputOwes' <=> InputOwes
          /\ WorkersOwe \ {w} = WorkersOwe' \ {w} /\ w \in WorkersOwe /\ w \notin WorkersOwe'
          /\ JobsRun' = JobsRun
      BY <2>1 DEF InputOwes, WorkersOwe, JobsRun
    <2>3. Cardinality(WorkersOwe') \in Nat /\ Cardinality(WorkersOwe') + 1 = Cardinality(WorkersOwe)
      BY <2>2, TalliesTyped, CountSwap
    <2> QED BY <2>1, <2>2, <2>3, TalliesTyped DEF Tallies
  <1>5. ASSUME NEW w \in Workers, WorkerStep(w)
        PROVE  Tallies'
    <2>1. CASE WorkerPops(w) \/ WorkerStops(w) \/ WorkerBegins(w) \/ WorkerTicks(w)
      BY <1>1, <2>1 DEF WorkerPops, WorkerStops, WorkerBegins, WorkerTicks, counters,
         history, InputOwes
    <2> QED BY <1>3, <1>4, <1>5, <2>1 DEF WorkerStep
  <1>6. ASSUME NEW j \in Jobs, InputJob(j)
        PROVE  Tallies'
    <2>1. /\ j \notin entered /\ entered' = entered \cup {j}
          /\ UNCHANGED << submitted, completed, finished >>
          /\ at[Input] = "read" /\ at' = [at EXCEPT ![Input] = "pushing"]
      BY <1>6 DEF InputJob, counters
    <2>2. Cardinality(entered') = Cardinality(entered) + 1
      BY <2>1, TalliesTyped, FS_AddElement
    <2>3. /\ ~ InputOwes /\ InputOwes'
          /\ WorkersOwe' = WorkersOwe /\ JobsRun' = JobsRun
      BY <2>1 DEF InputOwes, WorkersOwe, JobsRun
    <2> QED BY <2>1, <2>2, <2>3, TalliesTyped DEF Tallies
  <1>7. ASSUME InputStep
        PROVE  Tallies'
    <2>1. CASE InputCounts
      <3>1. /\ submitted' = submitted + 1 /\ UNCHANGED << completed, entered, finished >>
            /\ InputOwes /\ ~ InputOwes' /\ WorkersOwe' = WorkersOwe /\ JobsRun' = JobsRun
        BY <2>1 DEF InputCounts, history, InputOwes, WorkersOwe, JobsRun
      <3> QED BY <3>1, TalliesTyped DEF Tallies
    <2>2. CASE InputPushed \/ InputQuit \/ InputEof
      BY <1>1, <2>2 DEF InputPushed, InputQuit, InputEof, counters, history, InputOwes
    <2> QED BY <1>6, <1>7, <2>1, <2>2 DEF InputStep
  <1>8. ASSUME NEW t \in {Main, Display}, RenderStep(t)
        PROVE  Tallies'
    BY <1>1, <1>8 DEF RenderStep, RenderAsksQueue, RenderQueueAnswered, RenderIdleBar,
       RenderBusyBar, RenderDivides, counters, history, InputOwes
  <1>9. ASSUME DisplayStep
        PROVE  Tallies'
    BY <1>1, <1>8, <1>9 DEF DisplayStep, DisplayLoops, DisplayStops, RenderBegins,
       RenderEnds, counters, history, InputOwes
  <1>10. ASSUME MainStep
         PROVE  Tallies'
    <2>1. ASSUME ~ RenderStep(Main)
          PROVE  /\ UNCHANGED << submitted, completed, entered, finished >>
                 /\ \/ at'[Input] = at[Input]
                    \/ at[Input] = "unborn" /\ at'[Input] = "read"
                 /\ \A w \in Workers : at'[w] = "count" <=> at[w] = "count"
      BY <1>10, <2>1 DEF MainStep, MainLaunchesWorkers, MainRenders, RenderBegins, RenderEnds,
         MainLaunchesInput, MainJoinsInput, MainPushesPill, MainPushed, MainJoinsWorkers,
         MainJoinsDisplay, MainDestroysQueue, counters, history, Phases
    <2> QED BY <1>1, <1>8, <2>1 DEF InputOwes
  <1>11. UNCHANGED vars => Tallies'
    BY <1>1 DEF vars, appState, counters, history, InputOwes
  <1> QED BY <1>2, <1>5, <1>7, <1>9, <1>10, <1>11 DEF Next, Terminated

-----------------------------------------------------------------------------
(* The inductive invariant, and what follows from it. *)
Inv ==
  /\ QueueInv
  /\ PlacesTyped
  /\ CallPlaces
  /\ WorkerAnswers
  /\ DataTyped
  /\ DisplayHeld
  /\ Phases
  /\ JobsKept
  /\ PillsLast
  /\ PillsKept
  /\ Tallies

(* The program starts with an empty queue, no job and no pill.             *)
LEMMA InvInit == Init => Inv
  <1> SUFFICES ASSUME Init
               PROVE  Inv
    OBVIOUS
  <1> USE Distinct, QueueAssumptions, JobsAssumption
  <1>1. /\ items = [i \in Q!Slots |-> NULL] /\ head = 0 /\ tail = 0 /\ count = 0
        /\ owner = NoThread /\ notFull = {} /\ notEmpty = {} /\ faults = 0
        /\ pc = [t \in Threads |-> "idle"]
        /\ request = [t \in Threads |-> Q!NoRequest]
        /\ result = [t \in Threads |-> Q!NoResult]
    BY SameQueue DEF Init, Queue!Init, Queue!Slots, Q!Slots
  <1>2. QueueInv
    <2>1. Q!TypeOK
      BY <1>1 DEF Q!TypeOK, Q!Slots, Q!Points, Q!Results, Q!Infos, Q!Operations,
         Q!NoRequest, Q!NoResult
    <2>2. Q!LockInv /\ Q!CallInv
      BY <1>1 DEF Q!LockInv, Q!MutualExclusion, Q!WaitersWait, Q!Holds, Q!CallInv
    <2>3. Q!RingConsistent
      BY <1>1 DEF Q!RingConsistent
    <2> QED BY <2>1, <2>2, <2>3 DEF QueueInv
  <1>3. /\ at = [t \in Threads |-> IF t = Main THEN "launch" ELSE "unborn"]
        /\ entered = {} /\ finished = [j \in Jobs |-> 0] /\ rounds = 0
        /\ submitted = 0 /\ completed = 0
        /\ job = [w \in Workers |-> NULL]
    BY DEF Init
  <1>4. PlacesTyped /\ CallPlaces
    BY <1>1, <1>3 DEF PlacesTyped, CallPlaces, Calling, WorkerPlaces, MainPlaces
  <1>5. WorkerAnswers /\ DisplayHeld /\ Phases
    BY <1>1, <1>3 DEF Init, WorkerAnswers, Q!NoResult, DisplayHeld, RenderPlaces, Phases,
       Draining, Drained, LastRender
  <1>6. DataTyped
    BY <1>3 DEF Init, DataTyped
  <1>7. \A v : Queued(v) = {}
    BY <1>1 DEF Queued
  <1>8. JobsKept
    <2>1. ASSUME NEW j \in Jobs
          PROVE  Copies(j) = 0
      <3>1. ~ BeingPushed(j) /\ Popped(j) = {} /\ RunBy(j) = {} /\ finished[j] = 0
        BY <1>1, <1>3 DEF BeingPushed, Pending, Popped, RunBy, Q!NoResult
      <3> QED BY <1>7, <3>1, PushingCount, FS_EmptySet DEF Copies
    <2> QED BY <1>3, <2>1 DEF JobsKept
  <1>9. PillsLast /\ PillsKept
    <2>1. PillTakers = {} /\ ~ PillPushed
      BY <1>1, <1>3 DEF PillTakers, PillPushed, Answered
    <2> QED BY <1>1, <1>3, <1>7, <2>1, FS_EmptySet DEF PillsLast, PillsKept
  <1>10. Tallies
    <2>1. WorkersOwe = {} /\ JobsRun = {} /\ ~ InputOwes
      BY <1>3 DEF WorkersOwe, JobsRun, InputOwes
    <2> QED BY <1>3, <2>1, FS_EmptySet DEF Tallies
  <1> QED BY <1>2, <1>4, <1>5, <1>6, <1>8, <1>9, <1>10 DEF Inv

(* Every step of the program keeps the whole invariant.                    *)
LEMMA InvStep == Inv /\ [Next]_vars => Inv'
  <1> SUFFICES ASSUME Inv, [Next]_vars
               PROVE  Inv'
    OBVIOUS
  <1> USE DEF Inv
  <1>1. QueueInv' /\ PlacesTyped' /\ CallPlaces'
    BY QueueInvStep, PlacesStep, CallPlacesStep
  <1>2. WorkerAnswers' /\ DataTyped' /\ DisplayHeld' /\ Phases'
    BY WorkerAnswersStep, DataTypedStep, DisplayHeldStep, PhasesStep
  <1>3. faults = 0 /\ at[Main] = "destroy" => count = 0
    BY QueueDrained DEF Drained
  <1>4. JobsKept'
    BY <1>3, JobsKeptInside, JobsKeptOutside
  <1>5. PillsLast'
    BY PillsLastStep
  <1>6. PillsKept'
    BY <1>3, PillsKeptInside, PillsKeptOutside
  <1>7. Tallies'
    BY TalliesStep
  <1> QED BY <1>1, <1>2, <1>4, <1>5, <1>6, <1>7

(* The inductive invariant holds of the program: its queue works, its      *)
(* threads are where their calls say, and no job, pill or tally is out of  *)
(* place.                                                                  *)
THEOREM InvCorrect == Spec => []Inv
  BY InvInit, InvStep, PTL DEF Spec

(* The fields of app_state_t and of the workers keep their types; neither  *)
(* counter exceeds the number of jobs, whatever call of a primitive fails. *)
THEOREM TypeCorrect == Spec => []TypeOK
  <1>1. Inv => TypeOK
    <2> SUFFICES ASSUME Inv
                 PROVE  TypeOK
      OBVIOUS
    <2>1. Queue!TypeOK
      BY SameQueue DEF Inv, QueueInv
    <2>2. submitted \in 0..Cardinality(Jobs) /\ completed \in 0..Cardinality(Jobs)
      BY TalliesTyped DEF Inv, Tallies
    <2> QED BY <2>1, <2>2 DEF Inv, TypeOK, PlacesTyped, MainPlaces, DataTyped, DisplayHeld
  <1> QED BY <1>1, InvCorrect, PTL

(* Unless a call of a primitive failed, a job typed by the user is at      *)
(* every moment in exactly one place, from the push to its end.            *)
THEOREM JobsOnce == Spec => [](faults = 0 => EveryJobOnce)
  <1>1. Inv => (faults = 0 => EveryJobOnce)
    BY DEF Inv, JobsKept, Copies, EveryJobOnce
  <1> QED BY <1>1, InvCorrect, PTL

(* Unless a call of a primitive failed, main destroys the queue when it is *)
(* empty and every other thread has left it for good.                      *)
THEOREM NobodyLeft == Spec => [](faults = 0 => NobodyLeftBehind)
  <1>1. Inv => (faults = 0 => NobodyLeftBehind)
    <2> SUFFICES ASSUME Inv, faults = 0, at[Main] \in {"destroy", "returned"}
                 PROVE  /\ \A t \in Threads \ {Main} : at[t] = "exited"
                        /\ \A t \in Threads : pc[t] = "idle"
                        /\ owner = NoThread /\ notFull = {} /\ notEmpty = {}
                        /\ displayOwner = NoThread
                        /\ count = 0
      BY DEF NobodyLeftBehind
    <2>1. \A t \in Threads \ {Main} : at[t] = "exited"
      BY Distinct DEF Inv, Phases, Drained, Draining
    <2>2. \A t \in Threads : pc[t] = "idle"
      BY <2>1 DEF Inv, CallPlaces, Calling
    <2>3. owner = NoThread /\ notFull = {} /\ notEmpty = {}
      BY <2>2 DEF Inv, QueueInv, Q!TypeOK, Q!LockInv, Q!MutualExclusion, Q!WaitersWait, Q!Holds
    <2>4. displayOwner = NoThread
      BY <2>1, Distinct DEF Inv, DisplayHeld, RenderPlaces
    <2>5. count = 0
      BY QueueDrained DEF Inv, Drained
    <2> QED BY <2>1, <2>2, <2>3, <2>4, <2>5
  <1> QED BY <1>1, InvCorrect, PTL

(* Unless a call of a primitive failed, the number of jobs that main       *)
(* prints at the end is the number of jobs that were typed.                *)
THEOREM TallyFinal == Spec => [](faults = 0 => FinalTally)
  <1>1. Inv => (faults = 0 => FinalTally)
    <2> SUFFICES ASSUME Inv, faults = 0, at[Main] \in {"destroy", "returned"}
                 PROVE  completed = Cardinality(entered) /\ submitted = completed
      BY DEF FinalTally
    <2>1. /\ at[Input] = "exited" /\ pc[Input] = "idle" /\ count = 0
          /\ \A w \in Workers : at[w] = "exited" /\ pc[w] = "idle"
      BY Distinct, QueueDrained DEF Inv, Phases, Drained, Draining, CallPlaces, Calling
    <2>2. WorkersOwe = {} /\ ~ InputOwes
      BY <2>1 DEF WorkersOwe, InputOwes
    <2>3. ASSUME NEW j \in Jobs
          PROVE  j \in entered <=> finished[j] # 0
      <3>1. ~ BeingPushed(j) /\ Queued(j) = {} /\ Popped(j) = {} /\ RunBy(j) = {}
        BY <2>1, Distinct, JobsAssumption DEF BeingPushed, Pending, Queued, Popped, RunBy,
           Inv, DataTyped, QueueInv, Q!CallInv, Q!Silent, Q!NoResult
      <3>2. finished[j] = IF j \in entered THEN 1 ELSE 0
        <4>1. /\ Cardinality(Pushing(j)) = 0 /\ Cardinality(Queued(j)) = 0
              /\ Cardinality(Popped(j)) = 0 /\ Cardinality(RunBy(j)) = 0
          BY <3>1, PushingCount, FS_EmptySet
        <4>2. Copies(j) = IF j \in entered THEN 1 ELSE 0
          BY DEF Inv, JobsKept
        <4>3. finished[j] \in Nat
          BY DEF Inv, DataTyped
        <4> QED BY <4>1, <4>2, <4>3 DEF Copies
      <3> QED BY <3>2
    <2>4. JobsRun = entered
      BY <2>3 DEF JobsRun, Inv, DataTyped
    <2> QED BY <2>2, <2>4, FS_EmptySet DEF Inv, Tallies
  <1> QED BY <1>1, InvCorrect, PTL

(* The slot n places after a slot of the ring.                             *)
LEMMA SlotAfter ==
  ASSUME NEW C \in Nat \ {0}, NEW h \in 0..(C - 1), NEW n \in 0..C
  PROVE  (h + n) % C = IF h + n < C THEN h + n ELSE h + n - C
  <1>1. CASE h + n < C
    BY <1>1
  <1>2. CASE ~(h + n < C)
    <2>1. h + n \in C..(2 * C - 1)
      BY <1>2
    <2>2. \A m \in C..(2 * C - 1) : m % C = m - C
      OBVIOUS
    <2> QED BY <1>2, <2>1, <2>2
  <1> QED BY <1>1, <1>2

(* The loop of render marks the live slots and no others, for an empty, a  *)
(* full and a wrapped ring.                                                *)
THEOREM SlotsDrawn == Spec => []DrawsLiveSlots
  <1>1. Inv => DrawsLiveSlots
    <2> SUFFICES ASSUME Inv
                 PROVE  Occupied(head, count) = {(head + k) % Capacity : k \in 0..(count - 1)}
      BY DEF DrawsLiveSlots
    <2>1. Capacity \in Nat \ {0} /\ head \in 0..(Capacity - 1) /\ count \in 0..Capacity
      BY QueueAssumptions DEF Inv, QueueInv, Q!TypeOK, Q!Slots
    <2>2. \A n \in 0..Capacity : (head + n) % Capacity
                                   = IF head + n < Capacity THEN head + n ELSE head + n - Capacity
      BY <2>1, SlotAfter
    <2>3. ASSUME NEW i \in Occupied(head, count)
          PROVE  \E k \in 0..(count - 1) : i = (head + k) % Capacity
      <3>1. /\ i \in 0..(Capacity - 1) /\ count > 0
            /\ IF head < (head + count) % Capacity
                 THEN i >= head /\ i < (head + count) % Capacity
                 ELSE i >= head \/ i < (head + count) % Capacity
        BY <2>3 DEF Occupied
      <3>2. (head + count) % Capacity
              = IF head + count < Capacity THEN head + count ELSE head + count - Capacity
        BY <2>1, <2>2
      <3>3. CASE i >= head
        <4>1. i - head \in 0..(count - 1) /\ head + (i - head) < Capacity
          BY <2>1, <3>1, <3>2, <3>3
        <4>2. (head + (i - head)) % Capacity = i
          BY <2>1, <2>2, <3>1, <3>3, <4>1
        <4> QED BY <4>1, <4>2
      <3>4. CASE i < head
        <4>1. i + Capacity - head \in 0..(count - 1)
          BY <2>1, <3>1, <3>2, <3>4
        <4>2. (head + (i + Capacity - head)) % Capacity = i
          BY <2>1, <2>2, <3>1, <3>4, <4>1
        <4> QED BY <4>1, <4>2
      <3> QED BY <2>1, <3>1, <3>3, <3>4
    <2>4. ASSUME NEW k \in 0..(count - 1)
          PROVE  (head + k) % Capacity \in Occupied(head, count)
      <3>1. /\ (head + k) % Capacity
                 = IF head + k < Capacity THEN head + k ELSE head + k - Capacity
            /\ (head + count) % Capacity
                 = IF head + count < Capacity THEN head + count ELSE head + count - Capacity
        BY <2>1, <2>2
      <3> QED BY <2>1, <3>1 DEF Occupied
    <2> QED BY <2>3, <2>4
  <1> QED BY <1>1, InvCorrect, PTL
=============================================================================
