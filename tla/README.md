# cbase in TLA+

A specification of the library in `src/` (cbase, a C99 unity-build library) and
of the concurrent program it ships with. Modules are translated from the C
code. Where a comment, a test or a document says something else that matters to a
caller, a run shows the difference and `PROJECT.json` records it under `findings`;
smaller disagreements are only listed, at the end of "Findings".

## The system

| part | code | state | operations | who calls it |
|---|---|---|---|---|
| thread-safe queue | `cbase_threading.c:332-499` | ring `items/head/tail/count`, one mutex, `not_full`, `not_empty` | create, push, pop, try_pop, count, destroy | any number of threads |
| threads, mutexes, conditions | `cbase_threading.c:1-330` | a heap block shared by creator and trampoline | create, join, detach; lock, wait, signal | the queue, the logger, applications |
| producer/consumer program | `test_apps/user_producer.c` | `app_state_t`: the queue, `display_mutex`, `running`, totals, one record per worker | worker, input, display and main threads, `render` | – |
| logger | `cbase_log.c` | one process-global record under a mutex, a once-gate, a sticky error | `cb_log`, setters, `last_error`, `clear_last_error` | any thread |
| network simulator | `cbase_netsim.c` | endpoints with a ready queue and a byte count, one sorted pending list, counters, parameters, clock | bind, close, send_to, step, recv_from, flush, set_params, set_clock, destroy | one thread; the transport |
| transport | `cbase_transport.c` | a table of functions and a context | send, recv, close over UDP or the simulator | games and tests |
| arena | `cbase_arena.c` | a list of blocks, the current one, the strategy | create, alloc, reset, check_health, destroy | every module that allocates |
| tick loop | `cbase_time.c` | accumulator, tick length, last reading of the clock | create, advance, alpha, reset, set_clock | games |
| byte streams | `cbase_bytes.c` | cursor, limit, sticky error | fixed-width reads and writes, frames | network code |
| configuration | `cbase_config.c` | a list of key/value entries | parse, parse_file, typed getters, destroy | applications |
| hash and HMAC | `cbase_hash.c` | eight words, a 64-byte buffer, a length | init, update, final | network code |
| random numbers | `cbase_random.c` | 128 bits of PCG state | draws with bounds, chance, shuffle | simulator, games |
| fixed point | `cbase_fixed.c` | none | saturating arithmetic, trigonometry | games |
| sockets | `cbase_network.c` | file descriptors | UDP, TCP, poll | transport |

How they interact: the queue and the logger share nothing but the primitives.
The program nests the queue's mutex inside its own `display_mutex` (`render`
asks for the count and copies the ring while it draws). The transport calls the
simulator and translates its results; the simulator draws from the random
numbers and reads a clock through a function pointer. All of them may take their
memory from an arena.

Where the difficulty lies:

- **Interleavings.** The queue (several pushers and poppers, wakeups that are
  stolen or spurious, waits that fail), the program (a shutdown by one `NULL`
  per worker through a bounded queue, behind jobs not yet run; two nested
  mutexes; fields written without a lock and read by the display) and the logger
  (a lazy start that races with the first setters, a configuration copied under
  the mutex and used after it was released).
- **Sequences of calls.** The simulator (addresses closed and bound again with
  datagrams under way, parameters changed in between), the arena (a list grown,
  reset and grown differently), the tick loop (stalls, clamps, clocks replaced
  or set back), a byte stream read while it arrives, a message hashed in pieces.
- **Failures in the middle.** A wait that reports an error with the mutex held,
  a sink that cannot be written, the second copy of a datagram that cannot be
  allocated, the third allocation of a configuration entry, a sleep interrupted.
- **Boundaries.** A ring that wraps, a line that just fits its buffer with its
  marker, a queue at its capacity, a frame of the greatest length, a message
  whose padding just fits its last block, a draw that must be rejected, a
  product that saturates, the greatest and the least integer in a text.

What makes each part correct, in words: the queue is an atomic FIFO and loses no
wakeup; the program runs every job once and shuts down leaving nobody behind;
the logger's lines are whole, obey one configuration and appear in one order on
both sinks; the simulator conserves datagrams and bytes and delivers in order of
schedule, as far as its clock lets it, and the transport's replies tell what it did; the arena gives no byte
to two callers and no block away; the tick loop accounts for all time, draws
forward and tells of every loss; a frame that is incomplete leaves the reader
where it was; a digest does not depend on how a message was cut; a draw is
uniform; arithmetic is exact, truncated and saturated, alike in every build; a
configuration is read as its grammar says or refused at the first bad line, with
its memory given back; a parsed number is the one that was written or is refused.

## Modules

| module | models | notes |
|---|---|---|
| `BoundedFifo` | nothing in the code: what the queue promises | atomic operations on a sequence, between call and return |
| `TSQueue` | `cb_tsqueue_*` | one step wherever another thread can come in between |
| `ProducerConsumer` | `user_producer.c` | composes `TSQueue` (an `INSTANCE`) with the four kinds of threads |
| `Log` | `cbase_log.c` | once-gate, setters, `cb_log` |
| `Netsim` | `cbase_netsim.c` | one action per function and outcome |
| `Transport` | `cbase_transport.c` over the simulator | EXTENDS `Netsim` with the handles of the transports and the reply of the last call |
| `Arena` | `cbase_arena.c` | one action per outcome of `cb_arena_alloc` |
| `TickLoop` | `cbase_time.c` | the loop, its two clocks, the sleep |
| `ByteStreams` | `cbase_bytes.c` | a sender, a stream, a receiver |
| `HashBuffer` | `cbase_hash.c` | buffering, padding and HMAC around an uninterpreted compression |
| `Random`, `Fixed`, `Config` | `cbase_random.c`, `cbase_fixed.c`, `cbase_config.c` | pure functions, as operators, with their reference definitions |
| `MCObjects` | – | composes the four objects that have one owner: arena, tick loop, stream, hash |
| `MCFunctions` | – | one call of a pure function and its answer |
| other `MC...` | – | instances for TLC: symmetry and parameter records |
| `SequenceLemmas` | – | arithmetic, induction and sequences for the proofs |
| `TSQueue_proofs` | – | theorems about `TSQueue` |
| `ProducerConsumer_proofs` | – | theorems about `ProducerConsumer`, from the lemmas about its queue |
| `Netsim_proofs` | – | theorems about `Netsim` and `Transport` |
| `Log_proofs`, `HashBuffer_proofs`, `ByteStreams_proofs` | – | theorems about `Log`, `HashBuffer` and `ByteStreams` |
| `MCObjects_proofs` | – | theorems about `Arena` and `TickLoop`, and about the four objects together |

In every module a definition is preceded, where there is one, by its *mutants*:
the same definition with a plausible bug. They are not part of the
specification. `PROJECT.json` pairs every checked property with one of them that
makes the property fail on the same instance, so that each property is known to
depend on the code it is about.

### TSQueue

`items`, `head`, `tail` and `count` are the fields. The mutex is its `owner`; a
condition variable is the set of threads that sleep on it. `pc[t]` is how far
`t` is in its call: `lock` (before `cb_mutex_lock`), `test` (at the loop
condition, holding the mutex), `wait`, `relock` (woken, asking for the mutex
again inside `cb_cond_wait`), `signal` (value moved, signal to be sent),
`unlock`, `done`. Everything between two of these points happens under the mutex,
so splitting it further would add no behaviour. `Wait` is the atomic
release-and-sleep that `cb_cond_wait` gets from pthreads; `SpuriousWakeup` is
what POSIX allows; `Resume` moves exactly one sleeper, if there is one.
`LockFails` and `WaitFails` are the early returns with `rc`, at most `MaxFaults`
of them. `cb_tsqueue_count`, which ignores the result of its lock, is left out
of `LockFails` (see the hazard at `cbase_threading.c:495`). A failed wait is one
that never slept: the mutex is held when it returns, as POSIX says of its errors.

The refinement mapping takes the `count` slots from `head` on as the abstract
contents, and a call as having taken effect once it is past `relock`: the value
moves, the failure is stored, or the count is read, at that very step. The
abstract `Refuse` lets a call fail with no effect, and lets a wait fail only
when there was something to wait for.

### ProducerConsumer

`at[t]` is where a thread is in its own function; while it is in a `..ing` place
its call of the queue is under way and `TSQueue`'s steps move it. The answer is
read in the step that returns. The counters, each changed in a short section
under `display_mutex`, are single steps; `render` holds that mutex over several:
it asks the queue twice (`cb_tsqueue_count`, then a copy of the ring that locks
`queue.mutex` by hand) and then draws one bar per worker, reading the worker's
fields, which the worker writes without a lock. `job_seconds` is read once to be
tested and once to be divided by, hence `RenderBusyBar` and `RenderDivides`.
`seconds` and `remaining` are two stores in C and one step here; nothing that is
checked reads them between the stores other than that division, for which the
zeroing of `job_seconds` alone matters. The races are data races in C; each
access is taken as one indivisible read or write, which is what the build
produces for an aligned `int`.

### Log

`once` is the gate (`pthread_once`): new, run by a thread, or done. `config`
is the part of `cb__log` that `cb_log` copies. A setter is one step, because it
locks, writes a field and unlocks. `cb_log` is: the snapshot (one step under the
mutex), the filter, the formatting (no mutex), and the emission, which holds the
mutex through the write to stderr and the write to the copied sink. A line is
the identity of its call and its lengths; `Truncates` and `LineLength` are the
arithmetic of the buffer `plain[]` in `cb_log`, with `vsnprintf`'s convention about
the terminating NUL. A formatter that reports an error gives an empty body, the
same as a body of length 0. `CloseFile` is the application: it closes a file which is not
attached and which no setter under way attaches or detaches.

### Netsim

The simulator is for one thread, so every function is one action, split by
outcome: a send may go nowhere, be refused by the cap, be dropped, be enqueued
once or twice, or fail for want of memory, the latter also between its two
copies. A roll of the generator is a choice among the outcomes its probability
admits (never, sometimes, always; a delay from its range). The pending list keeps
its order of insertion and `PendingInsert` is the loop at `cbase_netsim.c:119`.
`data` is the number of the send, and stands for payload and sender.
`SetClock` stands for time that passes and for `cb_netsim_set_clock`, which
installs any source: the next reading may be later or earlier. `since`,
`vanished` and `rewinds` are history variables: the sends before an endpoint was
bound, the datagrams that flush, close and failed allocations throw away without
counting, and after how many sends the clock was set back.

With a clock that is set back the simulator does not deliver in order of
schedule. A datagram that is ready stays so although its time is again to come,
and one sent now, by the earlier clock, is due before it but queues behind it.
`DeliveryOrder` says that this is all: the two datagrams must have been sent on
either side of the set-back and the first be ready (`SetBackBetween`), and what
is ready early must have been sent before it (`SetBackSince`). In the pending
list the order of schedule holds whatever the clock reads, and `StepDrains`
needs no exception.

### Arena

The list of blocks is a sequence, `current` a place in it. `AllocHere`,
`AllocNext` and `AllocNewBlock` are the three successful ends of
`cb_arena_alloc`; its failures change nothing. `owned` (blocks malloc'ed and not
freed) and `live` (what was given out since the last reset) are history.

### Transport

`reply` is what the last call of the transport returned. `open` has the addresses
whose transport wraps a `cb_netsim_endpoint_t` that points to the net; the pointer of the
others is null: before the first bind (a program zeroes its handles), after a bind that
was refused, and after `cb_netsim_close`. A handle names its endpoint by address only, so
an open one may be stale: its endpoint closed through a copy of the handle, or lost with
the net, and perhaps bound again since. The refusals of the simulator are modelled as what they answer,
without a change to the net: `GENERIC_ERROR` through a null handle,
`NETSIM_PAYLOAD_TOO_LARGE` above `MaxDatagramBytes`, `NETSIM_BUF_TOO_SMALL`. A
receive that finds nothing surfaces as `NET_WOULD_BLOCK`, whatever the simulator called it; a send
reports its whole length or nothing. Two things the replies do not tell are kept
as they are: a send whose second copy could not be allocated reports an error
and 0 bytes although the first copy is under way (`RepliesTell` says no more
than the code), and a receiver's buffer that is too small is refused by the
simulator with the datagram kept, where a UDP socket cuts it off.

### TickLoop

`loop` is the `cb_tick_loop_t`. `system` is the monotonic clock, which shows
seconds and nanoseconds and never goes back; `manual` is a clock function of the
application, which may be set to anything while it is in use (`SetManual`). An
advance is split by its early returns: the first one (`Start`), one of a loop
without a tick (`AdvanceWithoutTick`), and `Advance`. `cb_time_sleep_ms` spans
several steps, each `nanosleep` either completing or returning early with what
is left. `base`, `rewound` and `lost` are history: where the account of time
begins, what the clock went back by, and what clamps threw away.

### ByteStreams

The sender chains writes and frames without looking at `info` until the end, as
the header recommends, and then ships the buffer or starts over; the receiver reads frames
out of the `arrived` first bytes, unpacks each with a reader of its own, and
tries again when a frame is not complete. A byte has `Base` values, so that the
longest body has `Base^2 - 1` bytes and the limit of the two-byte prefix is within
reach. `body`, `batch`, `shipped`, `got` and `received` are history.

### HashBuffer

The compression function is uninterpreted: the eight words are the sequence of
blocks compressed since the start, and a digest is a byte string that names that
sequence. `bits` is the bit count; `buffer` keeps stale bytes as the code's
does (`Junk` where it was never written). `Update` has the code's three
parts (top up the buffer, whole blocks from the input, stash the tail), `LastBlocks`
its two cases of padding. `HmacInit`, `HmacFinal` and `HmacAbort` use two
contexts, keys shorter than, as long as and longer than a block. The reference
(`HashOf`, `MacOf`) is the definition of FIPS 180-4 and RFC 2104 on the message
as a whole.

### Random, Fixed, Config

Operators, one per function, over words of `Bits` bits instead of 32 and
fractions of `Half` bits instead of 16, so that every argument and every state
can be tried. A draw takes a state of the generator and returns the next with
the answer; `UniformDraws` counts over the whole orbit of the generator how often each
answer comes. `Fixed` has both builds of the wide functions; the build without
128-bit integers works on pairs of words. `AnglesOrdered` uses a short table; of
the real tables it needs that they do not decrease and begin and end as
`SinLut` and `AtanLut` do (0 to one, 0 to an eighth of a turn), which the tables in
`cbase_fixed.c` satisfy. `Config` works on texts over a small alphabet, with `Memory` counting
allocations so that any one of them can fail. What is a configuration is
defined a second time, from the grammar in the header (`GoodLine`,
`IsConfigOf`), and `ConfigFile` compares. A byte NUL inside a value ends
it (the getters return a C string), though the comment at
`cbase_config.c:263` says that the key validator catches embedded NULs.

## Runs

| run | instance | checks | states |
|---|---|---|---|
| `queue` | 3 threads, 2 values, 2 slots, 1 fault, symmetric | types, mutual exclusion, sleepers, ring, no lost wakeup, refinement of `BoundedFifo` | 246 k |
| `queue_live` | 3 threads, 1 slot, 1 fault | progress of poppers and pushers | 46 k |
| `producer` | 2 workers, input, display, main, 1 job, 2 slots | jobs run once, nobody left behind, tally, drawing of the ring, shutdown | 63 k |
| `producer_bar` | the same | *violated*: the divisor of the progress bar is not 0 | – |
| `log` | 2 threads, 1 file, 2 lines, 2 settings, 1 failing write | initialisation, one configuration per line, sinks agree, lines fit, error sticks, calls return | 185 k |
| `log_sink` | the same | *violated*: no write to a file after its owner could close it | – |
| `netsim` | 2 addresses and a transport to each, lengths 0, 2 and 3 of at most 2, buffers of 0 and 2, 2 sends, time 0 and 1 in either direction, 2 binds, 1 fault, symmetric | types, bytes and datagrams accounted for, nothing inherited, order, step drains, replies tell | 1.7 M |
| `netsim_cap` | the same, always duplicating, with time to 2 and 3 binds | *violated*: bytes in flight stay within `max_queue_bytes` | – |
| `objects` | arena: blocks of 4, requests of 1, 3, 6, alignment 1 and 2, 4 blocks, 5 allocations between resets; tick loop: 6 ns to the second, rates 0 to 7, clamps 0 to 2, time to 9, 4 advances between resets; stream: bytes of base 2, a buffer of 7, frames of 2 fields; hash: blocks of 5, messages to 16 in pieces to 11, keys of 0 to 11 | allocations disjoint, reset reclaims; time accounted, trouble reported, drawn forward, sleeps long enough; frames intact; digest of the whole | 782 k |
| `arena_lost` | the arena alone | *violated*: every block malloc'ed is in the list that destroy frees | – |
| `functions` | words of 4 bits, every argument; texts of up to 4 characters after a key or a quote, three lines of several kinds, each allocation failing in turn | uniform draws, exact arithmetic, ordered angles, the file's grammar and its memory, numbers | 75 k |
| `fixed_mul` | the fixed point alone | *violated*: both builds of the wide multiplication give the same | – |

Why the bounds are enough. Three threads are the least with which a wakeup can be
stolen (a sleeper, its waker, and a thief), and with two slots the ring wraps, is
full, empty and in between. With one slot every operation of `queue_live` waits
for another. One fault is enough because the failing paths keep no memory of it.
Two workers and one job make one worker take the job while the other sleeps, and
let the second pill meet a full queue. In `log` two lines and two settings make a
line straddle each setting, and the lengths are chosen so that the text just fits
without a timestamp and just does not with one. In `netsim`, two sends of up to
two copies give ties and inversions in the pending list, two binds let an
address be bound, closed and bound again, with datagrams on the way from itself, and leave
a stale handle. The clock can be set back between the two sends with the first ready
(without its exception `DeliveryOrder` is violated in this instance). One set of
parameters loses and swaps, the other duplicates, delays and limits; two copies of one
datagram are due at the same time, and that they could be apart is left to the theorems.
The length of 3 is refused. In `objects` the arena's three sizes fit the
current block, only the next, only a grown one, or only one made to measure; the rates divide the second evenly, with a
remainder, or not at all (7 per 6 ns, a tick of 0), and the clock can jump over
several clamps; two of the stream's fields are shorter than the longest body, as
long, or longer, and the buffer ends in the middle of a frame; pieces and keys
fall before, at and after each boundary of a block, and of the padding. In `functions`
four bits hold every rounding, saturation and rejection that a word can meet,
and a number has digits up to and past the limits of 8-bit integers. The
theorems remove the bounds for the queue, the program, the logger, the simulator with
its transport, and the four objects.

`CHECK_DEADLOCK FALSE` is said where the system may stop: the logger when all
callers have used up their calls, the simulator and the objects when theirs are,
a pure function after its answer.
In `queue` and `producer` a deadlock could hardly be reported, because a sleeper
may always wake up spuriously: that nobody sleeps who should not is the matter of
`NoLostWakeup`, and of the liveness properties, under which a spurious wakeup is
nothing to rely on. Three pushers before a full queue do sleep, rightly. The
program has an explicit `Terminated`.

### Fairness

Each thread is one strongly fair process. Weak fairness is what a scheduler that
runs every ready thread gives; the strong form adds that a thread which keeps
asking for a mutex, which is free again and again, gets it in the end. POSIX
does not promise that in words, but the default mutexes of the supported systems
do not starve a waiter for ever, and without it no liveness property of code with
a mutex holds. Not fair are: new calls (callers may stop, and so may the user who
types), spurious wakeups, and failures. `CallersProgress` is
therefore about the queue as a whole; that each single sleeper is served is not
claimed, since a condition variable is not a queue.

## Theorems

The theorems about `TSQueue` are about every finite set of threads, every set of values,
every capacity above 0 and every bound on the faults. The assumptions are those named in
`TSQueue`: the capacity
is positive, the threads are finitely many, the bound on faults is a number, `NULL`
is among the values and `NoThread` is not a thread.

- `TypeCorrect`: `TypeOK` is inductive as it stands. `count` stays in
  `0..Capacity` because `Put` tests `count # Capacity` and `Take` `count # 0`
  in the step that moves the value.
- `LockCorrect`, and from it `MutexHeld` and `SleepersWait`: mutual exclusion is
  not inductive. A signal moves its target to `relock`; that this makes nobody a
  second holder needs that the target was at `wait`. So `LockInv` joins
  `MutualExclusion` and `WaitersWait` and is inductive relative to `TypeOK`.
- `RingCorrect`: `RingConsistent` is inductive relative to `TypeOK`; the content
  is two lemmas of modular arithmetic (`TailAdvances`, `HeadAdvances`), proved by
  cases on whether the index wraps.
- `RefinesFifo`: the queue implements `BoundedFifo`. It rests on the three above,
  on `CallCorrect` (a call that has not taken effect has no result yet), on
  `PutAppends` and `TakeRemoves` (what moving a value through the ring does to
  the sequence of live slots), and has one step per action: which abstract
  operation, or a stutter.

- `WakeupsKept`: `NoLostWakeup` is inductive relative to `TypeOK` and
  `WaitersWait`. The proof counts threads: a `Put` adds a value and its own pending
  signal, `SignalNotEmpty` trades that signal for the popper it wakes (or wakes
  nobody because nobody sleeps), a pop uses up one value and one awake popper, a
  `try_pop` only a value, and a wait, taken or failed, happens only where the left
  side of the bound is 0. Every other step is covered by one lemma
  (`QuietKeeps`): it takes no awake thread's place away.

The theorems about `Arena` hold for any sizes, positive alignments, strategies and
bounds (its named assumptions). Those about `TickLoop` rest on `TickLoopAssumption`:
the units of time and the greatest 32-bit number are positive, the rest natural
numbers, and a clamp is a 32-bit number.

- `MemoryDisjoint`, `ResetGivesBack`: `AllocsDisjoint` and `ResetReclaims` are not
  inductive by themselves. A new block must not be mistaken for an old one, so
  `BlocksNamed` says that a block stands in the list once, under a number that malloc has
  given out, and is not used beyond its size; `AllocsForward` that an allocation does not end
  before it starts. The lemma `Placed` is what the three outcomes of
  `cb_arena_alloc` have in common: an allocation at the end of what is used of one block.
- `TimeKept`: `TimeInv` joins the properties with `FreshUntilStarted` (no history before the
  first advance) and `RequestCovers` (what is left to sleep reaches the goal). The balance is kept
  because the division leaves a remainder below a tick and a clamp drops whole ticks only;
  the arithmetic is in lemmas about quotients (`QuotientIs`, `QuotientMonotone`).
- `TroubleTold`: the info is decided by what was lost so far, and a good advance leaves it;
  the clamp drops something exactly when it cuts (`ClampedBounds`).
- `SleepsEnough`: from `RequestCovers`, since a sleep ends only when what was left of it has passed.
- `DrawnForward`: the fraction of `cb_tick_loop_alpha` grows with the remainder and stays
  below one (`AlphaGrows`), so that index and fraction together grow (`PointGrows`); the case of
  each action is in `StepsForward`.

The theorems about `Log` hold for any threads, files, levels and lengths reported by
`vsnprintf`, any number of lines, settings and failing writes. They assume what `Log`
names: that the prefix, the marker and the newline leave room in the buffer
(`BufferAssumption`, true of the sizes in the code), that levels are levels, and that
"nobody" and "no file" are neither a thread nor a file.

- `LogTypes`, `GateCorrect`: `InitBeforeUse` needs `GateHeld`, which says that the
  thread in the initialiser is the one the gate admitted and that there is no error
  before it is done; both need to know which call is where (`CallPlaces`).
- `LinesFitBuffer`: the arithmetic of the two buffers is in `LineMade`; after `Format`
  nothing touches the line of a call.
- `OneConfig`: the witness is the configuration the call copied. `SeenInForce` says that
  it was in force during the call, `LinesMade` that the line was admitted and laid out by
  it, and `FilesHold` that the line stands in its file and in no other. The last one needs
  `CallsNumbered`: two calls may write the same text, and only the number of the call tells
  the lines apart.
- `ErrorsKept`: from `GateHeld`, because the initialiser also sets the error to `OK`,
  and would forget one if it could still run after a write.

- `SinksInOrder`: `SinksAgree` names, for each file, the places of its lines in `stderr`.
  `WriteFile` extends them by the last place (`PicksLast`), which is right because the line
  being written is still the last of `stderr`: `StderrHolds` says so, and holds since the
  mutex is kept from the first write of a call to its last (`LockHeld`). `WriteStderr` adds a
  place that no file has (`PicksMore`), for no file holds a line of that call yet (`FilesHold`).

The theorems about `ProducerConsumer` hold for any finite set of workers, one at least, any
finite set of jobs, any length of a job, any capacity above 0 and any bound on the faults.
They assume besides that main, input, display and the workers are different threads and that
`NULL` is not a job. What a step does to the queue is not proved again: the step lemmas of
`TSQueue_proofs` are instantiated with the jobs and the pill
for values.

- `InvCorrect`: the inductive invariant `Inv` joins the invariants of the queue with where
  the threads are (`PlacesTyped`, `CallPlaces`: a thread is inside a call of the queue
  exactly at the places that name one), how far main has come and what the others can then
  still be doing (`Phases`), the places of each job (`JobsKept`), the pills (`PillsLast`,
  `PillsKept`) and the counters (`Tallies`). The pills carry the shutdown: each is being
  pushed, in the queue, or taken by one worker, which ends, and nothing follows one in the
  queue. So once every worker has ended, every pill is taken and the queue is empty.
- `JobsOnce`, `NobodyLeft`, `TallyFinal` are stated under `faults = 0`. Without it they are
  false: a push that fails loses its job (the hazard at `user_producer.c:411`), and a pop
  that fails gives a worker the null pointer for which it ends. The upper half, that no job
  is ever in two places, is part of `Inv` and holds whatever fails.
- `TypeCorrect`, `SlotsDrawn`: whatever fails. The second is arithmetic on a ring: the
  interval from `head` to `(head + count) % Capacity` that `render` goes by, wrapped or not.

The theorems about `Netsim` hold for any finite set of addresses, any lengths that are
natural numbers, any parameters (`ParamsAssumption`: probabilities known by what they
allow, unsigned times and cap), any readings of the clock, forward or back, and any
bounds on sends, binds, faults and its readings. Those about `Transport` hold for any
buffer sizes besides.

- The inductive invariant `Inv` is `Fields`, the types, with `InOrder`, which says of the
  pending list that it is sorted by due time and then by send, and that what is in it goes
  to an endpoint bound before it was sent; and of each endpoint (`EndpointFine`) that its
  bytes are the sum of what is under way and ready, that what is ready is its own and is
  due or was sent before the clock was set back (`WasDue`), and that the ready queue
  followed by what is under way is in turn (`Ordered`: two datagrams are in order of
  schedule, or the first is ready and the clock was set back between the two sends). None of
  `BytesAccounted`, `NothingInherited` and `DeliveryOrder` is inductive alone: that `step`
  moves a prefix of the list without disturbing the order at an endpoint needs that the
  whole list is sorted, that a new datagram may overtake what is ready needs that what is
  ready and not due was sent before a set-back, and that bytes of a new endpoint start at 0 needs that nothing is
  under way to an address that is not bound.
- `BytesCounted`, `NothingCarriedOver`, `DeliveredInOrder`, `TypeCorrect` follow from `Inv`;
  `StepLeavesNothingDue` from the order of the list.
- `DatagramsCounted`: the balance is inductive together with `Inv`. What is ready is counted
  by its places (`Held`, the cardinality of the pairs of an endpoint and an index), so that
  each action is one lemma about a set that grows or shrinks (`HeldRecv`, `HeldClose`, ...);
  `Gains` says what an action adds to each counter and `Balance` that both sides then grow
  by the same. `close` needs that the datagrams kept and those taken out are the whole list
  (`SentToSplit`).
- `TransportIsNet`: every step of the transport is a step of the simulator, or none.
- `RepliesTrue`: from `Inv` before and after the step, since the byte counts then stand for
  what is in flight (`SendBytes`, `RecvBytes`).

The theorems about `HashBuffer` hold for blocks of any length above 0, digests and length
fields of at most a block, keys of any lengths, and any bounds on pieces and message
(`HashAssumption`, which the sizes in the code satisfy).

- `DigestIsOfWhole`: the invariant (`HashInv`) says that the context in use `Carries` a
  message: the blocks compressed are its full blocks, the buffer begins with what is left
  over, and the bit count is that of its length; of an HMAC, that message begins with the inner
  pad. Stale bytes of the buffer are behind, and no result depends on them. `UpdateHolds` has one
  case for each way of `cb_sha256_update`; each is `BlocksConcat`, that data behind
  whole blocks is cut as if it stood alone. `FinalIsHash` has the two cases of the padding
  and finds in each the one multiple of a block that the reference asks for (`PaddedIs`).
  `BlockKeyIs` and `OuterIsHash` make an HMAC of three hashes. That nothing but the message is
  in the blocks (`AbsorbedWhole`) is an induction over them. Bytes are of several
  kinds, so each lemma is about byte strings over some set, and that set is made larger
  where two strings meet (`HoldsMore`).
- The length field is one operator (`LengthField`), used by the code's padding and by the
  reference; the theorem says that it stands in the right place with the right count, and
  nothing of its digits.
- `HashType`: from the same invariant.

The theorems about `ByteStreams` hold for buffers of any size, bytes of any base above 0, any
set of fields (signed and unsigned, of any width, each with a value of its width) and any
bounds on fields and batches (`StreamAssumption`).

- `FramesComeIntact`: the invariant has two halves. `SenderInv` says what the writer has laid
  in its buffer (`Batched`): first the whole frames that were ended without an error, then, while a frame is
  open and no error has stuck, room for its length and the bytes of the fields written so far; and that
  the stream is what the shipped frames are as bytes (`FramedAll`). `ReceiverInv` says where the
  receiver is in that stream: the frames received begin those shipped, and its cursor is at the start
  of the next one, with an error only if that frame has not wholly arrived (`Waits`); or it is behind that frame,
  and the reader of the frame is behind the fields unpacked so far (`Unpacks`). The step that
  counts is the read of a frame: that the length read at the cursor is the one the writer put there last
  of all needs that `end_frame` patches its own frame and no other (`BatchedEnd`), and that
  the bytes at the cursor are the next frame's, however little of the stream has arrived
  (`IsAt`). That a field comes back as it was written is `RoundTrip`, an
  induction over its bytes, and `FieldRead`, with the complement of a negative one.
- `StreamType`: from the same invariant; no cursor is beyond its end.

The composition `MCObjects`:

- `EachAlone`: a behaviour of the four objects is one of each, for a step of one is a stutter of
  the others.
- `ObjectsTyped`: from it and the type theorems of the four (`ArenaType`, `TimeType`,
  `StreamType`, `HashType`).

`SentTo`, `BytesOf` and the folds over bytes and frames are recursive functions. The provers cannot
instantiate the library's induction theorems, which take an operator. Induction is
therefore stated over sets: `NatInd` says that a set with 0 that is closed under successor
holds the natural numbers, and `SeqInd` the same of sequences and `Append`; both are proved
from the well-foundedness of `<`, and each use gives the set of the numbers or sequences
that have the property.

Model-checked only: the liveness properties `CallersProgress`, `ShutdownCompletes` and
`CallsReturn` (fairness and `ENABLED` are outside what the prover handles), and the pure
functions (`UniformDraws`, `ExactArithmetic`, `AnglesOrdered`, `ConfigFile`, `ParsesExact`).
Of those, one enumeration of all arguments is the question; `Random` is built on `Bitwise`,
which the proof system does not read, and the angles go by tables that are given as
data. No module declares a `RECURSIVE` operator.

## Findings

1. `producer_bar`: `render` may divide by 0. It tests `job_seconds > 0` and
   reads the field again for the division; a worker that ends its job in between
   has set it to 0 (`user_producer.c:240-242`).
2. `log_sink`: detaching a file sink and getting the setter back does not mean
   that the file may be closed. A line that copied the sink before is still to be
   written (`cbase_log.c:304` and `455`), although the header says that the
   setter serialises behind any write under way.
3. `netsim_cap`: the second copy of a duplicated datagram is enqueued without
   regard to `max_queue_bytes` (`cbase_netsim.c:424`), although a test says that
   duplicates count against the cap.
4. `arena_lost`: after a reset, when neither the current block nor the next has
   room, the new block takes the place of the next one; that one and all after it
   are never used again and never freed (`cbase_arena.c:179`).
5. `fixed_mul`: without 128-bit integers `cb_fx32_mul` rounds a negative product
   down instead of toward zero (`cbase_fixed.c:471-482` against `466`), although
   the file promises results that are the same bit for bit on every platform.

Smaller disagreements that no run is about: the header says of an empty key
"parse error" (`cbase.h:468`), the code answers `BAD_KEY`; the comment at
`cbase_config.c:451-456` says that a fixed arena gets the text of a file back, but
`cb__free` does nothing on any arena (`cbase_arena.c:225-232`); the comment at
`cbase_config.c:263` says that the key validator catches embedded NULs, which in a
value it does not; `CB_INFO_NETSIM_UNKNOWN_DEST`, which the header says the
receiving side returns in edge cases (`cbase.h:110`), is never returned; the carry of the
128-bit addition in `cb_fx32_sqrt` never occurs.

## Not modelled

- The system calls behind the primitives, the Windows branches, the sockets and the
  UDP side of the transport: thin wrappers whose behaviour is the operating system's.
- Text of log lines: colours and formats.
- The compression function of SHA-256 and the contents of the trigonometric
  tables: data without control. Helpers from and to floating point.
- Creation that fails: of the queue, of a thread, of memory in the program. The
  block that the thread trampoline hands to join is ordered by the join itself.
- `size_t` sums that wrap in the arena, its guard bytes, and latencies of 2^31 ms
  and more in the simulator: models over natural numbers of small size.
- The unity build, the make file and the other test applications, which were read for
  what they expect of the library.
