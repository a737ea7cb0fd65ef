------------------------------ MODULE TickLoop ------------------------------
(***************************************************************************)
(* The clock and the tick loop of src/cbase_time.c.  One thread owns the   *)
(* loop: it advances it once per frame, resets it, replaces its clock, and *)
(* sleeps between frames.  Two clocks can be read: the system's, which     *)
(* never goes back, and a manual one that the application sets at will,    *)
(* also backwards.                                                         *)
(***************************************************************************)
EXTENDS Integers

CONSTANTS
  MsPerSec,     \* 1000 in the code
  NsPerMs,      \* 10^6 in the code
  MaxU32,       \* UINT32_MAX
  AlphaOne,     \* CB_FX16_ONE, 2^16
  Rates,        \* the tick rates in Hz passed to cb_tick_loop_create
  Clamps,       \* the max_ticks_per_call passed to it
  Sleeps,       \* the milliseconds passed to cb_time_sleep_ms
  Readings,     \* the times the application sets its own clock to
  MaxTime,      \* bound on the system's clock, in ns
  MaxAdvances   \* bound on the advances between two resets

NsPerSec == MsPerSec * NsPerMs

(* What the constants must be. *)
ASSUME TickLoopAssumption ==
  /\ MsPerSec \in Nat \ {0} /\ NsPerMs \in Nat \ {0}
  /\ MaxU32 \in Nat \ {0} /\ AlphaOne \in Nat \ {0}
  /\ Rates \subseteq Nat /\ Clamps \subseteq 0..MaxU32 /\ Sleeps \subseteq Nat
  /\ Readings \subseteq Nat
  /\ MaxTime \in Nat /\ MaxAdvances \in Nat

VARIABLES
  loop,      \* the cb_tick_loop_t
  system,    \* what the monotonic clock shows: seconds and nanoseconds
  manual,    \* what the application's own clock shows
  sleeping,  \* cb_time_sleep_ms: the request still to be slept, or Awake
  advances,  \* history: advances since the loop was created or reset
  base,      \* history: the reading of the first of them
  rewound,   \* history: by how much later readings went back in all
  lost       \* history: the time thrown away with clamped ticks

loopVars == << loop, advances, base, rewound, lost >>
timeVars == << loop, system, manual, sleeping, advances, base, rewound, lost >>

-----------------------------------------------------------------------------
(* The clock.                                                              *)

Timespec(ns) == [sec |-> ns \div NsPerSec, nsec |-> ns % NsPerSec]

NowNs(ts) == ts.sec * NsPerSec + ts.nsec

(* The monotonic clock shows the time elapsed. *)
Elapse(ns) ==
  /\ NowNs(system) + ns <= MaxTime
  /\ system' = Timespec(NowNs(system) + ns)

Awake == [until |-> -1, left |-> 0]

Request(ms) ==
  NowNs([sec |-> ms \div MsPerSec, nsec |-> (ms % MsPerSec) * NsPerMs])

SleepMs(ms) ==
  /\ sleeping = Awake
  /\ NowNs(system) + ms * NsPerMs <= MaxTime
  /\ sleeping' = [until |-> NowNs(system) + ms * NsPerMs, left |-> Request(ms)]
  /\ UNCHANGED << system, manual >>
  /\ UNCHANGED loopVars

(* Mutant: after a signal the sleep is over. *)
SleepCutShort(ns) ==
  /\ sleeping # Awake
  /\ ns < sleeping.left
  /\ Elapse(ns)
  /\ sleeping' = Awake
  /\ UNCHANGED manual
  /\ UNCHANGED loopVars

(* A signal cuts nanosleep short; it goes on with what is left. *)
SleepInterrupted(ns) ==
  /\ sleeping # Awake
  /\ ns < sleeping.left
  /\ Elapse(ns)
  /\ sleeping' = [sleeping EXCEPT !.left = @ - ns]
  /\ UNCHANGED manual
  /\ UNCHANGED loopVars

SleepEnds(ns) ==
  /\ sleeping # Awake
  /\ ns >= sleeping.left
  /\ Elapse(ns)
  /\ sleeping' = Awake
  /\ UNCHANGED manual
  /\ UNCHANGED loopVars

-----------------------------------------------------------------------------
(* cb_tick_loop_create: the other fields of a new loop are as after a reset. *)

TickNs(hz) == IF hz = 0 THEN 0 ELSE NsPerSec \div hz

NewLoop(hz, clamp) ==
  [info |-> IF hz = 0 THEN "BAD_TICK_HZ" ELSE "OK",
   tickNs |-> TickNs(hz), maxTicks |-> clamp,
   last |-> 0, acc |-> 0, index |-> 0, started |-> FALSE, custom |-> FALSE]

TimeInit ==
  /\ \E hz \in Rates, clamp \in Clamps : loop = NewLoop(hz, clamp)
  /\ system = Timespec(0)
  /\ manual = 0
  /\ sleeping = Awake
  /\ advances = 0
  /\ base = 0
  /\ rewound = 0
  /\ lost = 0

SetClock(custom) ==
  /\ sleeping = Awake
  /\ loop.custom # custom
  /\ loop' = [loop EXCEPT !.custom = custom]
  /\ UNCHANGED << system, manual, sleeping, advances, base, rewound, lost >>

Now == IF loop.custom THEN manual ELSE NowNs(system)

Elapsed(now) == IF now >= loop.last THEN now - loop.last ELSE 0

(***************************************************************************)
(* The ticks that an advance runs out of the due ones: not more than       *)
(* max_ticks_per_call, where 0 is no limit, and than 32 bits can tell.     *)
(***************************************************************************)
(* Mutant: 0 is a limit like any other. *)
ClampedAlways(due) == IF due > loop.maxTicks THEN loop.maxTicks ELSE due

Clamped(due) ==
  LET capped == IF loop.maxTicks # 0 /\ due > loop.maxTicks THEN loop.maxTicks
                                                            ELSE due
  IN  IF capped > MaxU32 THEN MaxU32 ELSE capped

(* Mutant: what a clamped advance did not run stays in the accumulator. *)
LeftoverUnrun(acc, ticks) == acc - ticks * loop.tickNs

Leftover(acc, ticks) == acc - (acc \div loop.tickNs) * loop.tickNs

MayAdvance == sleeping = Awake /\ advances < MaxAdvances

(* The first advance sets the baseline. *)
Start ==
  /\ MayAdvance
  /\ ~ loop.started
  /\ loop' = [loop EXCEPT !.started = TRUE, !.last = Now]
  /\ advances' = advances + 1
  /\ base' = Now
  /\ UNCHANGED << system, manual, sleeping, rewound, lost >>

(* By how much a reading is behind the last one. *)
Back(now) == IF now < loop.last THEN loop.last - now ELSE 0

(* A loop without a tick, from a rate of 0 or above one per ns, measures   *)
(* the time and runs nothing.                                              *)
AdvanceWithoutTick ==
  /\ MayAdvance
  /\ loop.started
  /\ loop.tickNs = 0
  /\ loop' = [loop EXCEPT !.last = Now, !.acc = @ + Elapsed(Now),
                          !.info = "BAD_TICK_HZ"]
  /\ advances' = advances + 1
  /\ rewound' = rewound + Back(Now)
  /\ UNCHANGED << system, manual, sleeping, base, lost >>

(* Mutant: an advance that is not clamped clears the info. *)
InfoOfThisStep(due) == IF Clamped(due) < due THEN "TICK_LAG" ELSE "OK"

InfoAfter(due) == IF Clamped(due) < due THEN "TICK_LAG" ELSE loop.info

(* The step returned is read off the change: its ticks are the growth of   *)
(* sim_tick_index, its first tick the old one, its leftover the new        *)
(* accumulator.                                                            *)
Advance ==
  /\ MayAdvance
  /\ loop.started
  /\ loop.tickNs > 0
  /\ LET acc == loop.acc + Elapsed(Now)
         due == acc \div loop.tickNs
     IN  /\ loop' = [loop EXCEPT !.last = Now,
                                 !.acc = Leftover(acc, Clamped(due)),
                                 !.index = @ + Clamped(due),
                                 !.info = InfoAfter(due)]
         /\ lost' = lost + (due - Clamped(due)) * loop.tickNs
  /\ advances' = advances + 1
  /\ rewound' = rewound + Back(Now)
  /\ UNCHANGED << system, manual, sleeping, base >>

LoopReset ==
  /\ sleeping = Awake
  /\ loop' = [loop EXCEPT !.info = IF loop.tickNs = 0 THEN "BAD_TICK_HZ" ELSE "OK",
                          !.last = 0, !.acc = 0, !.index = 0, !.started = FALSE]
  /\ advances' = 0
  /\ base' = 0
  /\ rewound' = 0
  /\ lost' = 0
  /\ UNCHANGED << system, manual, sleeping >>

(* cb_tick_loop_alpha *)
Alpha(l) ==
  IF l.tickNs = 0 THEN 0
  ELSE LET q == (l.acc * AlphaOne) \div l.tickNs
       IN  IF q > AlphaOne - 1 THEN AlphaOne - 1 ELSE q

(* Time goes by between the calls; the application sets its own clock.     *)
Pass(ns) ==
  /\ sleeping = Awake
  /\ Elapse(ns)
  /\ UNCHANGED << manual, sleeping >>
  /\ UNCHANGED loopVars

SetManual(ns) ==
  /\ sleeping = Awake
  /\ loop.custom
  /\ manual' = ns
  /\ UNCHANGED << system, sleeping >>
  /\ UNCHANGED loopVars

TimeNext ==
  \/ Start
  \/ AdvanceWithoutTick
  \/ Advance
  \/ LoopReset
  \/ \E custom \in BOOLEAN : SetClock(custom)
  \/ \E ns \in 1..MaxTime :
       \/ Pass(ns)
       \/ SleepInterrupted(ns)
       \/ SleepEnds(ns)
  \/ \E ns \in Readings : SetManual(ns)
  \/ \E ms \in Sleeps : SleepMs(ms)

TimeSpec == TimeInit /\ [][TimeNext]_timeVars

-----------------------------------------------------------------------------
(* Types of cb_tick_loop_t, the two clocks and the history. *)
TimeTypeOK ==
  /\ loop \in [info : {"OK", "BAD_TICK_HZ", "TICK_LAG"}, tickNs : Nat,
               maxTicks : Clamps, last : Nat, acc : Nat, index : Nat,
               started : BOOLEAN, custom : BOOLEAN]
  /\ system \in [sec : Nat, nsec : 0..(NsPerSec - 1)]
  /\ manual \in Readings \cup {0}
  /\ sleeping \in [until : Int, left : Nat]
  /\ advances \in Nat /\ base \in Nat /\ rewound \in Nat /\ lost \in Nat

(***************************************************************************)
(* No time is lost or counted twice, however the frames cut it, wherever   *)
(* the clock jumps and whatever a clamp throws away: the ticks run, the    *)
(* remainder, and what a clamp dropped (whole ticks only) are together the *)
(* time from the baseline to the last reading, where time that went back   *)
(* counts as standing still; and the remainder is less than a tick, also   *)
(* after a stall.  (cb_tick_loop_advance, cb_tick_loop_reset)              *)
(***************************************************************************)
TimeAccounted ==
  /\ loop.index * loop.tickNs + loop.acc + lost
       = IF loop.started THEN loop.last - base + rewound ELSE 0
  /\ loop.tickNs > 0 => loop.acc < loop.tickNs

(***************************************************************************)
(* loop->info tells at the end whether anything went wrong on the way: lag *)
(* exactly when ticks were dropped since the last reset, however many good *)
(* advances followed, and a bad rate at the latest with the second advance *)
(* of a loop that can never run a tick (a rate above one per ns is         *)
(* created with CB_INFO_OK).                                               *)
(***************************************************************************)
TroubleReported ==
  /\ loop.tickNs > 0 => (lost > 0 <=> loop.info = "TICK_LAG")
  /\ loop.tickNs = 0 /\ advances > 1 => loop.info = "BAD_TICK_HZ"

(***************************************************************************)
(* What is drawn never moves back: the tick and the fraction of the next   *)
(* one that cb_tick_loop_alpha gives for the interpolation grow together,  *)
(* through stalls, clock jumps and rounding, until the loop is reset.      *)
(***************************************************************************)
RenderForward ==
  [][loop'.started =>
       loop'.index * AlphaOne + Alpha(loop') >= loop.index * AlphaOne + Alpha(loop)]_timeVars

(* cb_time_sleep_ms returns no earlier than asked, whatever signals came. *)
SleepsLongEnough ==
  [][sleeping # Awake /\ sleeping' = Awake => NowNs(system') >= sleeping.until]_timeVars
=============================================================================
