-------------------------- MODULE ProducerConsumer --------------------------
(***************************************************************************)
(* src/test_apps/user_producer.c: the program built on cb_tsqueue_t.  An   *)
(* input thread pushes jobs, workers pop and run them, a display thread    *)
(* draws the state, and main shuts down: it joins the input, pushes one    *)
(* NULL per worker, joins the workers and the display and destroys the     *)
(* queue they all used.                                                    *)
(*                                                                         *)
(* The queue is the module TSQueue, step for step; a thread of this module *)
(* makes a call with Queue!Call, is inside it during Queue!Proceed, and    *)
(* reads its answer in the step that does Queue!Return.                    *)
(***************************************************************************)
EXTENDS Integers, Sequences, FiniteSets

CONSTANTS
  Workers,       \* the worker threads (NUM_WORKERS of them)
  Main, Input, Display,
  Jobs,          \* the jobs a user may type, each once
  JobSeconds,    \* the length of every job
  NULL, NoThread, Capacity, MaxFaults

(* NUM_WORKERS is 5, QUEUE_CAPACITY is 64, and a job of no length is never *)
(* pushed; a job is a block malloc returned, never the null pointer.       *)
ASSUME WorkersAssumption == IsFiniteSet(Workers) /\ Workers # {}
ASSUME RolesAssumption ==
  /\ Main # Input /\ Main # Display /\ Input # Display
  /\ {Main, Input, Display} \cap Workers = {}
  /\ NoThread \notin Workers \cup {Main, Input, Display}
ASSUME JobsAssumption == IsFiniteSet(Jobs) /\ NULL \notin Jobs /\ JobSeconds \in Nat \ {0}
ASSUME QueueAssumption == Capacity \in Nat \ {0} /\ MaxFaults \in Nat

VARIABLES
  items, head, tail, count, owner, notFull, notEmpty, pc, request, result, faults,
  alive,         \* the queue has not been destroyed
  displayOwner,  \* the thread that holds state->display_mutex
  running,       \* state->running
  submitted,     \* state->total_jobs_submitted
  completed,     \* state->total_jobs_completed
  at,            \* at[t]: where thread t is in its own function
  rounds,        \* main's loop counter i
  seconds,       \* seconds[w]: workers[w].job_seconds
  remaining,     \* remaining[w]: workers[w].job_remaining
  job,           \* job[w]: the job worker w runs, NULL between jobs
  bars,          \* bars[t]: the workers whose bar render still has to draw
  entered,       \* history: the jobs typed so far
  finished       \* history: finished[j], how often job j was run to its end

Threads == Workers \cup {Main, Input, Display}

Queue == INSTANCE TSQueue WITH Values <- Jobs \cup {NULL}

queueState == << items, head, tail, count, owner, notFull, notEmpty, pc, request,
                 result, faults >>
counters == << submitted, completed >>
progress == << seconds, remaining, job >>
history == << entered, finished >>
appState == << alive, displayOwner, running, counters, at, rounds, progress, bars, history >>
vars == << queueState, appState >>

Init ==
  /\ Queue!Init
  /\ alive = TRUE
  /\ displayOwner = NoThread
  /\ running = TRUE
  /\ submitted = 0
  /\ completed = 0
  /\ at = [t \in Threads |-> IF t = Main THEN "launch" ELSE "unborn"]
  /\ rounds = 0
  /\ seconds = [w \in Workers |-> 0]
  /\ remaining = [w \in Workers |-> 0]
  /\ job = [w \in Workers |-> NULL]
  /\ bars = [t \in {Main, Display} |-> {}]
  /\ entered = {}
  /\ finished = [j \in Jobs |-> 0]

Move(t, from, to) ==
  /\ at[t] = from
  /\ at' = [at EXCEPT ![t] = to]

(***************************************************************************)
(* worker_wrapper                                                          *)
(***************************************************************************)
WorkerPops(w) ==
  /\ Move(w, "pop", "popping")
  /\ Queue!Call(w, "pop", NULL)
  /\ UNCHANGED << alive, displayOwner, running, counters, rounds, progress, bars, history >>

(* Mutant: a worker that finds the program stopping leaves with the job it *)
(* has popped.                                                             *)
WorkerStopsAtOnce(w) ==
  /\ result[w].info # "OK" \/ result[w].data = NULL \/ ~running
  /\ Move(w, "popping", "exited")
  /\ Queue!Return(w)
  /\ UNCHANGED << alive, displayOwner, running, counters, rounds, progress, bars, history >>

(* An error or the NULL pill ends the worker. *)
WorkerStops(w) ==
  /\ result[w].info # "OK" \/ result[w].data = NULL
  /\ Move(w, "popping", "exited")
  /\ Queue!Return(w)
  /\ UNCHANGED << alive, displayOwner, running, counters, rounds, progress, bars, history >>

WorkerBegins(w) ==
  /\ result[w].info = "OK" /\ result[w].data # NULL
  /\ Move(w, "popping", "work")
  /\ Queue!Return(w)
  /\ job' = [job EXCEPT ![w] = result[w].data]
  /\ seconds' = [seconds EXCEPT ![w] = JobSeconds]
  /\ remaining' = [remaining EXCEPT ![w] = JobSeconds]
  /\ UNCHANGED << alive, displayOwner, running, counters, rounds, bars, history >>

(* Mutant: a do-while in the place of the while. *)
WorkerTicksTwice(w) ==
  /\ at[w] = "work"
  /\ remaining[w] >= 0
  /\ remaining' = [remaining EXCEPT ![w] = @ - 1]
  /\ UNCHANGED << queueState, alive, displayOwner, running, counters, at, rounds,
                  seconds, job, bars, history >>

WorkerTicks(w) ==
  /\ at[w] = "work"
  /\ remaining[w] > 0
  /\ remaining' = [remaining EXCEPT ![w] = @ - 1]
  /\ UNCHANGED << queueState, alive, displayOwner, running, counters, at, rounds,
                  seconds, job, bars, history >>

WorkerEndsJob(w) ==
  /\ remaining[w] = 0
  /\ Move(w, "work", "count")
  /\ seconds' = [seconds EXCEPT ![w] = 0]
  /\ remaining' = [remaining EXCEPT ![w] = 0]
  /\ job' = [job EXCEPT ![w] = NULL]
  /\ finished' = [finished EXCEPT ![job[w]] = @ + 1]
  /\ UNCHANGED << queueState, alive, displayOwner, running, counters, rounds, bars, entered >>

(* The short critical sections under display_mutex are one step each. *)
WorkerCounts(w) ==
  /\ displayOwner = NoThread
  /\ Move(w, "count", "pop")
  /\ completed' = completed + 1
  /\ UNCHANGED << queueState, alive, displayOwner, running, submitted, rounds, progress,
                  bars, history >>

(***************************************************************************)
(* input_thread_fn                                                         *)
(***************************************************************************)
InputJob(j) ==
  /\ running
  /\ j \notin entered
  /\ Move(Input, "read", "pushing")
  /\ Queue!Call(Input, "push", j)
  /\ entered' = entered \cup {j}
  /\ UNCHANGED << alive, displayOwner, running, counters, rounds, progress, bars, finished >>

(* The result of the push is not looked at. *)
InputPushed ==
  /\ Move(Input, "pushing", "count")
  /\ Queue!Return(Input)
  /\ UNCHANGED << alive, displayOwner, running, counters, rounds, progress, bars, history >>

InputCounts ==
  /\ displayOwner = NoThread
  /\ Move(Input, "count", "read")
  /\ submitted' = submitted + 1
  /\ UNCHANGED << queueState, alive, displayOwner, running, completed, rounds, progress,
                  bars, history >>

InputQuit ==
  /\ Move(Input, "read", "exited")
  /\ running' = FALSE
  /\ UNCHANGED << queueState, alive, displayOwner, counters, rounds, progress, bars, history >>

InputEof ==
  /\ Move(Input, "read", "exited")
  /\ UNCHANGED << queueState, alive, displayOwner, running, counters, rounds, progress,
                  bars, history >>

(***************************************************************************)
(* render, called by the display thread and by main.  It holds             *)
(* display_mutex throughout and takes queue.mutex twice under it: in       *)
(* cb_tsqueue_count, and by hand to copy head, tail and count, which is    *)
(* the same use of the mutex.                                              *)
(***************************************************************************)
RenderBegins(t, from) ==
  /\ displayOwner = NoThread
  /\ Move(t, from, "render_count")
  /\ displayOwner' = t
  /\ bars' = [bars EXCEPT ![t] = Workers]
  /\ UNCHANGED << queueState, alive, running, counters, rounds, progress, history >>

RenderAsksQueue(t) ==
  /\ \/ Move(t, "render_count", "render_counting")
     \/ Move(t, "render_view", "render_viewing")
  /\ Queue!Call(t, "count", NULL)
  /\ UNCHANGED << alive, displayOwner, running, counters, rounds, progress, bars, history >>

RenderQueueAnswered(t) ==
  /\ \/ Move(t, "render_counting", "render_view")
     \/ Move(t, "render_viewing", "render_bars")
  /\ Queue!Return(t)
  /\ UNCHANGED << alive, displayOwner, running, counters, rounds, progress, bars, history >>

(* The loop over the workers, in some fixed order. *)
NextBar(t) == CHOOSE w \in bars[t] : TRUE

(* A worker is drawn idle unless both of its fields are positive ... *)
RenderIdleBar(t) ==
  /\ at[t] = "render_bars"
  /\ bars[t] # {}
  /\ seconds[NextBar(t)] = 0 \/ remaining[NextBar(t)] = 0
  /\ bars' = [bars EXCEPT ![t] = @ \ {NextBar(t)}]
  /\ UNCHANGED << queueState, alive, displayOwner, running, counters, at, rounds,
                  progress, history >>

(* ... and otherwise the length of its bar is job_remaining * 20 /         *)
(* job_seconds, for which job_seconds is read once more.                   *)
RenderBusyBar(t) ==
  /\ bars[t] # {}
  /\ seconds[NextBar(t)] > 0 /\ remaining[NextBar(t)] > 0
  /\ Move(t, "render_bars", "render_divide")
  /\ UNCHANGED << queueState, alive, displayOwner, running, counters, rounds, progress,
                  bars, history >>

RenderDivides(t) ==
  /\ Move(t, "render_divide", "render_bars")
  /\ bars' = [bars EXCEPT ![t] = @ \ {NextBar(t)}]
  /\ UNCHANGED << queueState, alive, displayOwner, running, counters, rounds, progress,
                  history >>

RenderEnds(t, to) ==
  /\ bars[t] = {}
  /\ Move(t, "render_bars", to)
  /\ displayOwner' = NoThread
  /\ UNCHANGED << queueState, alive, running, counters, rounds, progress, bars, history >>

RenderStep(t) ==
  \/ RenderAsksQueue(t)
  \/ RenderQueueAnswered(t)
  \/ RenderIdleBar(t)
  \/ RenderBusyBar(t)
  \/ RenderDivides(t)

(* Mutant: a full ring, whose end is its head, taken for an empty one. *)
OccupiedUnlessFull(h, n) ==
  LET end == (h + n) % Capacity
  IN  {i \in 0..(Capacity - 1) :
         IF h <= end THEN i >= h /\ i < end ELSE i >= h \/ i < end}

(* The slots render draws as occupied, from its copy of head and count. *)
Occupied(h, n) ==
  LET end == (h + n) % Capacity
  IN  {i \in 0..(Capacity - 1) :
         /\ n > 0
         /\ IF h < end THEN i >= h /\ i < end ELSE i >= h \/ i < end}

(***************************************************************************)
(* display_thread_fn                                                       *)
(***************************************************************************)
DisplayLoops ==
  \/ running /\ RenderBegins(Display, "loop")
  \/ RenderEnds(Display, "loop")

DisplayStops ==
  /\ ~running
  /\ Move(Display, "loop", "exited")
  /\ UNCHANGED << queueState, alive, displayOwner, running, counters, rounds, progress,
                  bars, history >>

(***************************************************************************)
(* main                                                                    *)
(***************************************************************************)
MainLaunchesWorkers ==
  /\ at[Main] = "launch"
  /\ \/ \E w \in Workers :
          /\ at[w] = "unborn"
          /\ at' = [at EXCEPT ![w] = "pop"]
     \/ /\ \A w \in Workers : at[w] # "unborn"
        /\ at' = [at EXCEPT ![Main] = "first_render", ![Display] = "loop"]
  /\ UNCHANGED << queueState, alive, displayOwner, running, counters, rounds, progress,
                  bars, history >>

MainRenders ==
  \/ at[Input] = "unborn" /\ RenderBegins(Main, "first_render")
  \/ at[Input] = "unborn" /\ RenderEnds(Main, "launch_input")
  \/ at[Input] = "exited" /\ RenderBegins(Main, "last_render")
  \/ at[Input] = "exited" /\ RenderEnds(Main, "destroy")

MainLaunchesInput ==
  /\ at[Main] = "launch_input"
  /\ at' = [at EXCEPT ![Main] = "join_input", ![Input] = "read"]
  /\ UNCHANGED << queueState, alive, displayOwner, running, counters, rounds, progress,
                  bars, history >>

(* Mutant: main sends the pills while the user is still typing. *)
MainJoinsNobody ==
  /\ Move(Main, "join_input", "pill")
  /\ UNCHANGED << queueState, alive, displayOwner, running, counters, rounds, progress,
                  bars, history >>

MainJoinsInput ==
  /\ at[Input] = "exited"
  /\ Move(Main, "join_input", "pill")
  /\ UNCHANGED << queueState, alive, displayOwner, running, counters, rounds, progress,
                  bars, history >>

(* Mutant: the loop ends one pill too soon. *)
PillsOneShort == Cardinality(Workers) - 1

Pills == Cardinality(Workers)

MainPushesPill ==
  /\ rounds < Pills
  /\ Move(Main, "pill", "pushing")
  /\ Queue!Call(Main, "push", NULL)
  /\ rounds' = rounds + 1
  /\ UNCHANGED << alive, displayOwner, running, counters, progress, bars, history >>

MainPushed ==
  /\ Move(Main, "pushing", "pill")
  /\ Queue!Return(Main)
  /\ UNCHANGED << alive, displayOwner, running, counters, rounds, progress, bars, history >>

(* Mutant: the workers are not waited for. *)
MainAbandonsWorkers ==
  /\ rounds = Pills
  /\ Move(Main, "pill", "join_display")
  /\ running' = FALSE
  /\ UNCHANGED << queueState, alive, displayOwner, counters, rounds, progress, bars, history >>

(* The joins of all the workers, one after the other, are one step when    *)
(* the last of them has exited; it stops the display.                      *)
MainJoinsWorkers ==
  /\ rounds = Pills
  /\ \A w \in Workers : at[w] = "exited"
  /\ Move(Main, "pill", "join_display")
  /\ running' = FALSE
  /\ UNCHANGED << queueState, alive, displayOwner, counters, rounds, progress, bars, history >>

MainJoinsDisplay ==
  /\ at[Display] = "exited"
  /\ Move(Main, "join_display", "last_render")
  /\ UNCHANGED << queueState, alive, displayOwner, running, counters, rounds, progress,
                  bars, history >>

(* cb_tsqueue_destroy frees the slots and zeroes the count. *)
MainDestroysQueue ==
  /\ Move(Main, "destroy", "returned")
  /\ alive' = FALSE
  /\ count' = 0
  /\ UNCHANGED << items, head, tail, owner, notFull, notEmpty, pc, request, result,
                  faults, displayOwner, running, counters, rounds, progress, bars, history >>

(* The process is over: nothing happens any more. *)
Terminated ==
  /\ at[Main] = "returned"
  /\ UNCHANGED vars

-----------------------------------------------------------------------------
InsideQueue(t) ==
  /\ Queue!Proceed(t)
  /\ UNCHANGED appState

WorkerStep(w) ==
  \/ WorkerPops(w) \/ WorkerStops(w) \/ WorkerBegins(w)
  \/ WorkerTicks(w) \/ WorkerEndsJob(w) \/ WorkerCounts(w)

InputStep ==
  \/ \E j \in Jobs : InputJob(j)
  \/ InputPushed \/ InputCounts \/ InputQuit \/ InputEof

DisplayStep == DisplayLoops \/ DisplayStops \/ RenderStep(Display)

MainStep ==
  \/ MainLaunchesWorkers \/ MainRenders \/ RenderStep(Main) \/ MainLaunchesInput
  \/ MainJoinsInput \/ MainPushesPill \/ MainPushed \/ MainJoinsWorkers
  \/ MainJoinsDisplay \/ MainDestroysQueue

Next ==
  \/ \E t \in Threads : InsideQueue(t)
  \/ \E w \in Workers : WorkerStep(w)
  \/ InputStep
  \/ DisplayStep
  \/ MainStep
  \/ Terminated

Spec == Init /\ [][Next]_vars

(* Every thread goes on with what it is doing, except the user, who may    *)
(* stop typing; a thread that keeps asking for one of the two mutexes gets *)
(* it, and every other step stays possible until it is taken.              *)
Running(t) == Queue!Running(t) /\ UNCHANGED appState

Fairness ==
  /\ \A w \in Workers : SF_vars(Running(w) \/ WorkerStep(w))
  /\ SF_vars(Running(Input) \/ InputPushed \/ InputCounts)
  /\ SF_vars(Running(Display) \/ DisplayStep)
  /\ SF_vars(Running(Main) \/ MainStep)

FairSpec == Spec /\ Fairness

(***************************************************************************)
(* Properties.                                                             *)
(***************************************************************************)
WorkerPlaces == {"unborn", "pop", "popping", "work", "count", "exited"}
RenderPlaces == {"render_count", "render_counting", "render_view", "render_viewing",
                 "render_bars", "render_divide"}

(* The fields of app_state_t and worker_state_t keep their types. *)
TypeOK ==
  /\ Queue!TypeOK
  /\ alive \in BOOLEAN
  /\ displayOwner \in {Main, Display, NoThread}
  /\ running \in BOOLEAN
  /\ submitted \in 0..Cardinality(Jobs)
  /\ completed \in 0..Cardinality(Jobs)
  /\ \A w \in Workers : at[w] \in WorkerPlaces
  /\ at[Display] \in RenderPlaces \cup {"unborn", "loop", "exited"}
  /\ at[Input] \in {"unborn", "read", "pushing", "count", "exited"}
  /\ at[Main] \in RenderPlaces \cup
       {"launch", "first_render", "launch_input", "join_input", "pill", "pushing",
        "join_display", "last_render", "destroy", "returned"}
  /\ seconds \in [Workers -> {0, JobSeconds}]
  /\ remaining \in [Workers -> 0..JobSeconds]
  /\ job \in [Workers -> Jobs \cup {NULL}]

(* Where a job is, if it is anywhere. *)
Pushing(j) == {t \in {Input} : request[t].arg = j /\ pc[t] \in {"lock", "test", "wait", "relock"}}
Queued(j) == {i \in 1..count : Queue!Contents[i] = j}
Popped(j) == {w \in Workers : result[w].data = j}
RunBy(j) == {w \in Workers : job[w] = j}

(* A job typed by the user is at every moment in exactly one place: being  *)
(* pushed, in the queue, handed to one worker, run by one worker, or run   *)
(* to its end once.  None is lost or run twice, whatever the workers, the  *)
(* full queue and the shutdown do.                                         *)
EveryJobOnce ==
  \A j \in Jobs :
    Cardinality(Pushing(j)) + Cardinality(Queued(j)) + Cardinality(Popped(j))
      + Cardinality(RunBy(j)) + finished[j] = IF j \in entered THEN 1 ELSE 0

(* When main destroys the queue nobody is inside it, asleep in it or about *)
(* to come back to it, and it is empty: the pills went to one worker each. *)
NobodyLeftBehind ==
  at[Main] \in {"destroy", "returned"} =>
    /\ \A t \in Threads \ {Main} : at[t] = "exited"
    /\ \A t \in Threads : pc[t] = "idle"
    /\ owner = NoThread /\ notFull = {} /\ notEmpty = {}
    /\ displayOwner = NoThread
    /\ count = 0

(* The line "Shutdown complete. %d jobs processed." counts every job that  *)
(* was typed: those still queued at 'q' are run before the pills arrive.   *)
FinalTally ==
  at[Main] \in {"destroy", "returned"} =>
    /\ completed = Cardinality(entered)
    /\ submitted = completed

(* The slots drawn as occupied are the live slots of the ring, at every    *)
(* head and count: full, empty and wrapped around.                         *)
DrawsLiveSlots ==
  alive => Occupied(head, count) = {(head + k) % Capacity : k \in 0..(count - 1)}

(* Once the input thread has ended the program ends: no pill is stuck      *)
(* before a full queue, no worker sleeps through its pill, and the nesting *)
(* of queue.mutex in display_mutex closes no circle.                       *)
ShutdownCompletes == at[Input] = "exited" ~> at[Main] = "returned"

(* "job_seconds; 0 = idle": render divides by the job_seconds of a worker  *)
(* only while that worker has a job.                                       *)
DividesByJobLength ==
  \A t \in {Main, Display} : at[t] = "render_divide" => seconds[NextBar(t)] # 0
=============================================================================
