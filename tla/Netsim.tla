------------------------------- MODULE Netsim -------------------------------
(***************************************************************************)
(* cb_netsim_t of src/cbase_netsim.c: virtual datagram endpoints joined by *)
(* a link that delays, drops, duplicates, corrupts and reorders.           *)
(*                                                                         *)
(* The simulator is single-threaded, so each function of the API is one    *)
(* action; what is hard is the order in which a program calls them.  A     *)
(* roll of the generator is a choice among the outcomes its probability    *)
(* allows.  A call that is refused before it touches the net (a null       *)
(* handle, a payload above the maximum, malformed new parameters, a        *)
(* receive with nothing ready or too small a buffer) is a stuttering step  *)
(* of the net; what it answers is modelled in Transport.                   *)
(***************************************************************************)
EXTENDS Integers, Sequences, FiniteSets, Functions

CONSTANTS
  Addrs,      \* the addresses endpoints may be bound to
  Lens,       \* the payload lengths that are sent
  MaxDatagramBytes, \* CB_NETSIM_MAX_DATAGRAM_BYTES
  ParamSets,  \* the cb_netsim_params_t the program sets
  MaxSends,   \* bound on the calls of send_to
  MaxTime,    \* bound on the clock, in milliseconds
  MaxBinds,   \* bound on the calls of bind
  MaxFaults   \* bound on the allocations that fail

ASSUME AddrsAssumption == IsFiniteSet(Addrs)
ASSUME LensAssumption == Lens \subseteq Nat /\ MaxDatagramBytes \in Nat
(* The probabilities are known by what they allow; the rest are unsigned.  *)
ASSUME ParamsAssumption ==
  ParamSets \subseteq [drop : {"never", "sometimes", "always"},
                      dup : {"never", "sometimes", "always"},
                      reorder : {"never", "sometimes", "always"},
                      latencyMin : Nat, latencyMax : Nat,
                      swapMin : Nat, swapMax : Nat, maxQueueBytes : Nat]
ASSUME BoundsAssumption == {MaxSends, MaxTime, MaxBinds, MaxFaults} \subseteq Nat

VARIABLES
  params,     \* net->params
  clock,      \* what net->clock_fn returns now
  endpoints,  \* net->endpoints, as a function of the bound addresses
  pending,    \* net->pending, the list from its head
  stat,       \* the net->stat_* counters
  binds,      \* bounds the calls of bind
  faults,     \* the allocations of send_to that failed so far
  vanished,   \* history: the datagrams thrown away without being counted
  rewinds     \* history: after how many sends the clock was set back

vars == << params, clock, endpoints, pending, stat, binds, faults,
           vanished, rewinds >>

Bound == DOMAIN endpoints

ParamsOk(p) ==
  /\ p.latencyMin <= p.latencyMax
  /\ p.swapMin <= p.swapMax

(* The outcomes of cb_rng_chance_fx16 and of cb_rng_i32_range. *)
Chance(probability) ==
  CASE probability = "never" -> {FALSE}
    [] probability = "sometimes" -> BOOLEAN
    [] probability = "always" -> {TRUE}

Uniform(lo, hi) == IF hi < lo THEN {lo} ELSE lo..hi

ZeroStats == [enqueued |-> 0, delivered |-> 0, dropped |-> 0, duplicated |-> 0,
              queueFull |-> 0]

Init ==
  /\ params \in ParamSets
  /\ clock = 0
  /\ endpoints = << >>
  /\ pending = << >>
  /\ stat = ZeroStats
  /\ binds = 0
  /\ faults = 0
  /\ vanished = 0
  /\ rewinds = {}

(***************************************************************************)
(* The pending list.                                                       *)
(***************************************************************************)

(* The datagrams of a queue that go to one of dests, in their order.       *)
SentTo(queue, dests) ==
  LET kept[n \in 0..Len(queue)] ==
        IF n = 0 THEN << >>
        ELSE IF queue[n].dest \in dests THEN Append(kept[n - 1], queue[n])
        ELSE kept[n - 1]
  IN  kept[Len(queue)]

To(queue, a) == SentTo(queue, {a})

(* How many datagrams from the head on are due at time t. *)
Due(queue, t) ==
  CHOOSE n \in 0..Len(queue) :
    /\ \A i \in 1..n : queue[i].at <= t
    /\ n < Len(queue) => queue[n + 1].at > t

(* Mutant: in front of the datagrams due at the same time. *)
PendingInsertFirst(queue, d) ==
  LET n == Due(queue, d.at - 1)
  IN  SubSeq(queue, 1, n) \o << d >> \o SubSeq(queue, n + 1, Len(queue))

(* Behind the datagrams due no later than the new one: ties keep the order *)
(* in which they were sent.                                                *)
PendingInsert(queue, d) ==
  LET n == Due(queue, d.at)
  IN  SubSeq(queue, 1, n) \o << d >> \o SubSeq(queue, n + 1, Len(queue))

(***************************************************************************)
(* send_to.                                                                *)
(***************************************************************************)

(* The delays a copy may roll: its latency and, if it is to be swapped     *)
(* behind later datagrams, some more.                                      *)
Delays ==
  { ms + extra : ms \in Uniform(params.latencyMin, params.latencyMax),
                 extra \in UNION { IF swap THEN Uniform(params.swapMin, params.swapMax)
                                           ELSE {0} : swap \in Chance(params.reorder) } }

(* Mutant: the delay has the wrong sign. *)
CopyEarlier(dest, len, delay) ==
  [dest |-> dest, len |-> len, data |-> stat.enqueued + 1, at |-> clock - delay]

(* The number of the send stands for the sender and the payload; the bit   *)
(* that corruption flips in the payload is left out.                       *)
Copy(dest, len, delay) ==
  [dest |-> dest, len |-> len, data |-> stat.enqueued + 1, at |-> clock + delay]

(* enqueue_copy, once for a datagram or twice, in this order. *)
EnqueueCopy(dest, len, delay) ==
  /\ pending' = PendingInsert(pending, Copy(dest, len, delay))
  /\ endpoints' = [endpoints EXCEPT ![dest].bytes = @ + len]

EnqueueCopies(dest, len, delay, again) ==
  /\ pending' = PendingInsert(PendingInsert(pending, Copy(dest, len, delay)),
                              Copy(dest, len, again))
  /\ endpoints' = [endpoints EXCEPT ![dest].bytes = @ + 2 * len]

SendUnchanged == UNCHANGED << params, clock, binds, rewinds >>

(* An endpoint handle is a plain value: a program may send through a copy  *)
(* of one after the endpoint was closed.                                   *)
MaySend(len) ==
  /\ binds > 0
  /\ stat.enqueued < MaxSends
  /\ len <= MaxDatagramBytes

Full(dest, len) ==
  params.maxQueueBytes # 0 /\ endpoints[dest].bytes + len > params.maxQueueBytes

SendToNobody(dest, len) ==
  /\ MaySend(len)
  /\ dest \notin Bound
  /\ stat' = [stat EXCEPT !.enqueued = @ + 1, !.dropped = @ + 1]
  /\ UNCHANGED << endpoints, pending, faults, vanished >>
  /\ SendUnchanged

SendToFull(dest, len) ==
  /\ MaySend(len)
  /\ dest \in Bound
  /\ Full(dest, len)
  /\ stat' = [stat EXCEPT !.enqueued = @ + 1, !.queueFull = @ + 1]
  /\ UNCHANGED << endpoints, pending, faults, vanished >>
  /\ SendUnchanged

SendDropped(dest, len) ==
  /\ MaySend(len)
  /\ dest \in Bound
  /\ ~Full(dest, len)
  /\ TRUE \in Chance(params.drop)
  /\ stat' = [stat EXCEPT !.enqueued = @ + 1, !.dropped = @ + 1]
  /\ UNCHANGED << endpoints, pending, faults, vanished >>
  /\ SendUnchanged

Admitted(dest, len) ==
  /\ MaySend(len)
  /\ dest \in Bound
  /\ ~Full(dest, len)
  /\ FALSE \in Chance(params.drop)

Send(dest, len) ==
  /\ Admitted(dest, len)
  /\ FALSE \in Chance(params.dup)
  /\ \E delay \in Delays : EnqueueCopy(dest, len, delay)
  /\ stat' = [stat EXCEPT !.enqueued = @ + 1]
  /\ UNCHANGED << faults, vanished >>
  /\ SendUnchanged

(* The second copy is not held against max_queue_bytes. *)
SendTwice(dest, len) ==
  /\ Admitted(dest, len)
  /\ TRUE \in Chance(params.dup)
  /\ \E delay, again \in Delays : EnqueueCopies(dest, len, delay, again)
  /\ stat' = [stat EXCEPT !.enqueued = @ + 1, !.duplicated = @ + 1]
  /\ UNCHANGED << faults, vanished >>
  /\ SendUnchanged

(* There is no memory for the datagram: it is counted as sent and as       *)
(* nothing else.                                                           *)
SendFails(dest, len) ==
  /\ Admitted(dest, len)
  /\ faults < MaxFaults
  /\ faults' = faults + 1
  /\ vanished' = vanished + 1
  /\ stat' = [stat EXCEPT !.enqueued = @ + 1]
  /\ UNCHANGED << endpoints, pending >>
  /\ SendUnchanged

(* There is none for the second copy: send_to reports an error although    *)
(* the datagram is on its way.                                             *)
SendTwiceFails(dest, len) ==
  /\ Admitted(dest, len)
  /\ TRUE \in Chance(params.dup)
  /\ faults < MaxFaults
  /\ faults' = faults + 1
  /\ \E delay \in Delays : EnqueueCopy(dest, len, delay)
  /\ stat' = [stat EXCEPT !.enqueued = @ + 1]
  /\ UNCHANGED vanished
  /\ SendUnchanged

(***************************************************************************)
(* The other functions.                                                    *)
(***************************************************************************)
(* Mutant: one datagram at a time. *)
StepOne ==
  /\ Due(pending, clock) > 0
  /\ pending' = Tail(pending)
  /\ endpoints' = [endpoints EXCEPT ![Head(pending).dest].ready =
                                         Append(@, Head(pending))]
  /\ UNCHANGED << params, clock, stat, binds, faults, vanished, rewinds >>

(* step moves what is due to the ready queue of its destination. *)
Step ==
  LET due == SubSeq(pending, 1, Due(pending, clock))
      lost == SentTo(due, Addrs \ Bound)
  IN  /\ due # << >>
      /\ pending' = SubSeq(pending, Len(due) + 1, Len(pending))
      /\ endpoints' = [a \in Bound |->
                         [endpoints[a] EXCEPT !.ready = @ \o To(due, a)]]
      /\ stat' = [stat EXCEPT !.dropped = @ + Len(lost)]
      /\ UNCHANGED << params, clock, binds, faults, vanished, rewinds >>

(* recv_from with a buffer that is large enough. *)
Recv(a) ==
  /\ a \in Bound
  /\ endpoints[a].ready # << >>
  /\ LET len == Head(endpoints[a].ready).len
         held == endpoints[a].bytes
     IN  endpoints' = [endpoints EXCEPT
                         ![a].ready = Tail(@),
                         ![a].bytes = IF held >= len THEN held - len ELSE 0]
  /\ stat' = [stat EXCEPT !.delivered = @ + 1]
  /\ UNCHANGED << params, clock, pending, binds, faults, vanished, rewinds >>

(* since is history: the sends made before the endpoint came to be. *)
FreshEndpoint == [ready |-> << >>, bytes |-> 0, since |-> stat.enqueued]

Bind(a) ==
  /\ a \notin Bound
  /\ binds < MaxBinds
  /\ binds' = binds + 1
  /\ endpoints' = [x \in Bound \cup {a} |->
                     IF x = a THEN FreshEndpoint ELSE endpoints[x]]
  /\ UNCHANGED << params, clock, pending, stat, faults, vanished, rewinds >>

(* Mutants: close leaves the pending list alone, or does not count what it *)
(* takes out of it.                                                        *)
CloseKeepsPending(a) ==
  /\ a \in Bound
  /\ endpoints' = Restrict(endpoints, Bound \ {a})
  /\ vanished' = vanished + Len(endpoints[a].ready)
  /\ UNCHANGED << params, clock, pending, stat, binds, faults, rewinds >>

CloseUncounted(a) ==
  /\ a \in Bound
  /\ endpoints' = Restrict(endpoints, Bound \ {a})
  /\ pending' = SentTo(pending, Addrs \ {a})
  /\ vanished' = vanished + Len(endpoints[a].ready)
  /\ UNCHANGED << params, clock, stat, binds, faults, rewinds >>

(* Closing unlinks the endpoint, frees its ready queue without counting it *)
(* and takes what is under way to it out of the pending list.              *)
Close(a) ==
  /\ a \in Bound
  /\ endpoints' = Restrict(endpoints, Bound \ {a})
  /\ pending' = SentTo(pending, Addrs \ {a})
  /\ stat' = [stat EXCEPT !.dropped = @ + Len(To(pending, a))]
  /\ vanished' = vanished + Len(endpoints[a].ready)
  /\ UNCHANGED << params, clock, binds, faults, rewinds >>

InFlight(a) == To(pending, a) \o endpoints[a].ready

(* What is ready anywhere, each datagram as its endpoint and its place.    *)
Ready == UNION { {a} \X DOMAIN endpoints[a].ready : a \in Bound }
AllInFlight == Len(pending) + Cardinality(Ready)

(* Mutant: the bytes are still counted. *)
FlushKeepsBytes ==
  /\ pending' = << >>
  /\ endpoints' = [a \in Bound |-> [endpoints[a] EXCEPT !.ready = << >>]]
  /\ vanished' = vanished + AllInFlight
  /\ UNCHANGED << params, clock, stat, binds, faults, rewinds >>

Flush ==
  /\ pending' = << >>
  /\ endpoints' = [a \in Bound |->
                     [endpoints[a] EXCEPT !.ready = << >>, !.bytes = 0]]
  /\ vanished' = vanished + AllInFlight
  /\ UNCHANGED << params, clock, stat, binds, faults, rewinds >>

SetParams(p) ==
  /\ ParamsOk(p)
  /\ params' = p
  /\ UNCHANGED << clock, endpoints, pending, stat, binds, faults,
                  vanished, rewinds >>

(* Time passes, or set_clock installs another source, which may read an    *)
(* earlier time.                                                           *)
SetClock(t) ==
  /\ t # clock
  /\ clock' = t
  /\ rewinds' = IF t < clock THEN rewinds \cup {stat.enqueued} ELSE rewinds
  /\ UNCHANGED << params, endpoints, pending, stat, binds, faults,
                  vanished >>

(* destroy frees everything; the program makes its next net from nothing,  *)
(* with the default clock.                                                 *)
DestroyAndCreate(p) ==
  /\ endpoints' = << >>
  /\ pending' = << >>
  /\ params' = p
  /\ stat' = ZeroStats
  /\ vanished' = 0
  /\ rewinds' = {}
  /\ clock' \in 0..MaxTime
  /\ UNCHANGED << binds, faults >>

Next ==
  \/ \E dest \in Addrs, len \in Lens :
       \/ SendToNobody(dest, len)
       \/ SendToFull(dest, len)
       \/ SendDropped(dest, len)
       \/ Send(dest, len)
       \/ SendTwice(dest, len)
       \/ SendFails(dest, len)
       \/ SendTwiceFails(dest, len)
  \/ Step
  \/ Flush
  \/ \E a \in Addrs : Recv(a) \/ Bind(a) \/ Close(a)
  \/ \E p \in ParamSets : SetParams(p) \/ DestroyAndCreate(p)
  \/ \E t \in 0..MaxTime : SetClock(t)

Spec == Init /\ [][Next]_vars

(***************************************************************************)
(* Properties.                                                             *)
(***************************************************************************)
Datagram == [dest : Addrs, len : Lens, data : 1..MaxSends, at : Nat]

Endpoint == [ready : Seq(Datagram), bytes : Nat, since : 0..MaxSends]
Stats == [enqueued : 0..MaxSends, delivered : Nat, dropped : Nat, duplicated : Nat,
          queueFull : Nat]

(* Every variable keeps the type of the field it stands for. *)
TypeOK ==
  /\ params \in ParamSets
  /\ clock \in 0..MaxTime
  /\ Bound \subseteq Addrs
  /\ endpoints \in [Bound -> Endpoint]
  /\ pending \in Seq(Datagram)
  /\ stat \in Stats
  /\ binds \in 0..MaxBinds
  /\ faults \in 0..MaxFaults
  /\ vanished \in Nat
  /\ rewinds \subseteq 0..MaxSends

BytesOf(queue) ==
  LET sum[n \in 0..Len(queue)] == IF n = 0 THEN 0 ELSE sum[n - 1] + queue[n].len
  IN  sum[Len(queue)]

(* bytes_in_flight, which admits or refuses every send, is what is really  *)
(* under way to the endpoint or ready at it: after any number of sends,    *)
(* duplicates, steps, receives, flushes and closes, no byte is counted     *)
(* twice, forgotten or inherited from an earlier endpoint.                 *)
BytesAccounted ==
  \A a \in Bound : endpoints[a].bytes = BytesOf(InFlight(a))

(* Every datagram sent, and every duplicate of one, is in exactly one      *)
(* place: delivered, in a drop counter, under way, ready, or thrown away   *)
(* by one of the paths that count nothing.                                 *)
DatagramsConserved ==
  stat.enqueued + stat.duplicated =
    stat.delivered + stat.dropped + stat.queueFull + vanished + AllInFlight

(* A datagram reaches nobody but the endpoint it was sent to: what is      *)
(* under way has a bound destination, and an endpoint bound again at the   *)
(* address of a closed one gets nothing that was sent before it was bound. *)
NothingInherited ==
  /\ \A i \in DOMAIN pending : pending[i].dest \in Bound
  /\ \A a \in Bound : \A i \in DOMAIN InFlight(a) :
       InFlight(a)[i].dest = a /\ InFlight(a)[i].data > endpoints[a].since

Before(d, e) == d.at < e.at \/ (d.at = e.at /\ d.data <= e.data)

(* What an endpoint has still to receive, next first. *)
Journey(a) == endpoints[a].ready \o To(pending, a)

(* The clock was set back after d was sent, and before e was.              *)
SetBackSince(d) == \E n \in rewinds : d.data <= n
SetBackBetween(d, e) == \E n \in rewinds : d.data <= n /\ n < e.data

(* An endpoint receives in the order of the scheduled times, and in the    *)
(* order of the sends where these are equal, however the rolls, the steps  *)
(* and the sends were interleaved; and nothing is ready before its time.   *)
(* A clock that is set back excuses only this: a datagram that was ready   *)
(* then, which need not be due any more and need not be behind what is     *)
(* sent afterwards.  What was sent on one side of it keeps its order.      *)
DeliveryOrder ==
  \A a \in Bound :
    LET ready == endpoints[a].ready
    IN  /\ \A i, j \in DOMAIN Journey(a) :
             i < j => \/ Before(Journey(a)[i], Journey(a)[j])
                      \/ /\ i \in DOMAIN ready
                         /\ SetBackBetween(Journey(a)[i], Journey(a)[j])
        /\ \A i \in DOMAIN ready :
             ready[i].at <= clock \/ SetBackSince(ready[i])

(* A step leaves nothing behind whose time has come, although it stops at  *)
(* the first datagram of the list that is not due.                         *)
StepDrains ==
  [][Step => \A i \in DOMAIN pending' : pending'[i].at > clock]_vars

(* cbase.h says of max_queue_bytes that it is the most bytes in flight to  *)
(* an endpoint and that what exceeds it is dropped at enqueue.             *)
CapRespected ==
  params.maxQueueBytes # 0 =>
    \A a \in Bound : endpoints[a].bytes <= params.maxQueueBytes
=============================================================================
