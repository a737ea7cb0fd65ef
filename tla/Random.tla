------------------------------- MODULE Random -------------------------------
(***************************************************************************)
(* The random numbers of src/cbase_random.c on words of Bits bits (32 in   *)
(* the code) with fractions of Frac bits (16): the PCG32 generator, and    *)
(* what the functions built on it make of the words it draws.  The latter  *)
(* take the words still to be drawn as a sequence, and return their value  *)
(* and how many words they used.                                           *)
(***************************************************************************)
EXTENDS Integers, FiniteSets, SequencesExt, Bitwise

CONSTANTS
  Bits,       \* the bits of a word, a power of two
  RotBits,    \* the bits that say how far to rotate one: Bits = 2^RotBits
  Frac,       \* the bits of a fraction
  Mult,       \* CB__PCG_MULT
  MaxStride   \* CB_RNG_SHUFFLE_MAX_STRIDE

Words == 0..(2^Bits - 1)
StateSpace == 2^(2 * Bits)
One == 2^Frac
IntMin == -(2^(Bits - 1))
IntMax == 2^(Bits - 1) - 1

-----------------------------------------------------------------------------
(* The generator.                                                          *)

Step(state, inc) == (state * Mult + inc) % StateSpace

Increment(stream) == (stream * 2 + 1) % StateSpace

Seed(seed, stream) ==
  LET inc == Increment(stream)
  IN  [state |-> Step((Step(0, inc) + seed) % StateSpace, inc), inc |-> inc]

ShiftRight(v, n) == v \div 2^n

(* XSH-RR: the upper bits are mixed by a shift, and rotated by the highest. *)
Output(state) ==
  LET xs == ShiftRight(ShiftRight(state, (RotBits + Bits) \div 2) ^^ state,
                       Bits - RotBits) % 2^Bits
      rot == ShiftRight(state, 2 * Bits - RotBits)
  IN  (ShiftRight(xs, rot) | (xs * 2^((Bits - rot) % Bits))) % 2^Bits

(* The states from a seed on, for as long as the period can be: n steps    *)
(* are the second half of them after the first.                            *)
Orbit(rng) ==
  LET after[n \in 0..StateSpace, state \in 0..(StateSpace - 1)] ==
        IF n = 0 THEN state
        ELSE IF n = 1 THEN Step(state, rng.inc)
        ELSE after[n - n \div 2, after[n \div 2, state]]
  IN  [n \in 0..StateSpace |-> after[n, rng.state]]

-----------------------------------------------------------------------------
(* Bounded integers.                                                       *)

U64(draws) == [value |-> draws[1] * 2^Bits + draws[2], used |-> 2]

(* The words that are left do not suffice. *)
NoAnswer == [value |-> 0, used |-> -1]
IsAnswer(answer) == answer.used >= 0

Low(x, bound) == (x * bound) % 2^Bits

(* Mutant: the threshold is one too low. *)
RejectedBelow(x, bound) == Low(x, bound) + 1 < 2^Bits % bound

(* The threshold is less than bound: only below bound it must be computed. *)
Rejected(x, bound) ==
  /\ Low(x, bound) < bound
  /\ Low(x, bound) < 2^Bits % bound

U32Below(draws, bound) ==
  LET fit == {k \in DOMAIN draws : ~ Rejected(draws[k], bound)}
  IN  IF bound = 0 THEN [value |-> 0, used |-> 0]
      ELSE IF fit = {} THEN NoAnswer
      ELSE [value |-> (draws[Min(fit)] * bound) \div 2^Bits, used |-> Min(fit)]

Plus(lo, answer) ==
  IF IsAnswer(answer) THEN [answer EXCEPT !.value = lo + @] ELSE NoAnswer

I32Range(draws, lo, hi) ==
  IF hi < lo THEN [value |-> lo, used |-> 0]
  ELSE IF hi - lo + 1 >= 2^Bits
  THEN [value |-> lo + draws[1], used |-> 1]
  ELSE Plus(lo, U32Below(draws, hi - lo + 1))

Fx16Unit(draws) == [value |-> ShiftRight(draws[1], Bits - Frac), used |-> 1]

Fx16Range(draws, lo, hi) ==
  IF hi <= lo THEN [value |-> lo, used |-> 0]
  ELSE Plus(lo, U32Below(draws, Min({hi - lo, 2^Bits - 1})))

Brad(draws) == [value |-> ShiftRight(draws[1], Bits - Frac), used |-> 1]

Bool(draws) == [value |-> ShiftRight(draws[1], Bits - 1), used |-> 1]

Chance(draws, p) ==
  IF p <= 0 THEN [value |-> 0, used |-> 0]
  ELSE IF p >= One THEN [value |-> 1, used |-> 0]
  ELSE [value |-> IF Fx16Unit(draws).value < p THEN 1 ELSE 0, used |-> 1]

-----------------------------------------------------------------------------
(* Shuffle: the array after the swaps.                                     *)

Swap(a, i, j) == [a EXCEPT ![i] = a[j], ![j] = a[i]]

(* The partner of place i comes from the places 0..i. *)
Partners(i, n) == i + 1

ShuffleStep(n, acc, i) ==
  LET j == U32Below(acc.draws, Partners(i, n))
  IN  IF acc.dry \/ ~ IsAnswer(j) THEN [acc EXCEPT !.dry = TRUE]
      ELSE [array |-> Swap(acc.array, i + 1, j.value + 1),
            draws |-> SubSeq(acc.draws, j.used + 1, Len(acc.draws)),
            dry |-> FALSE]

Shuffle(draws, n, stride) ==
  LET array == [i \in 1..n |-> i]
      end == FoldLeft(LAMBDA acc, i : ShuffleStep(n, acc, i),
                      [array |-> array, draws |-> draws, dry |-> FALSE],
                      [k \in 1..(n - 1) |-> n - k])
  IN  IF n < 2 THEN [value |-> array, used |-> 0]
      ELSE IF stride > MaxStride THEN [value |-> << >>, used |-> 0]
      ELSE IF end.dry THEN NoAnswer
      ELSE [value |-> end.array, used |-> Len(draws) - Len(end.draws)]

-----------------------------------------------------------------------------
(* Every call on the words of Draws, and what its answers must be.  A call *)
(* is a record: fn, and its arguments.                                     *)

Draws(n) == [1..n -> Words]

Calls ==
  [fn : {"below"}, bound : Words]
    \cup [fn : {"i32_range", "fx16_range"}, lo : IntMin..IntMax, hi : IntMin..IntMax]
    \cup [fn : {"chance"}, p : IntMin..IntMax]
    \cup [fn : {"unit", "brad", "bool", "u64"}]
    \cup [fn : {"shuffle"}, n : 0..3, stride : {MaxStride, MaxStride + 1}]
    \cup [fn : {"orbit"}, seed : {0, 1, One}, stream : 0..(2^Bits - 1)]

AnswerOn(call, draws) ==
  CASE call.fn = "below" -> U32Below(draws, call.bound)
    [] call.fn = "i32_range" -> I32Range(draws, call.lo, call.hi)
    [] call.fn = "fx16_range" -> Fx16Range(draws, call.lo, call.hi)
    [] call.fn = "chance" -> Chance(draws, call.p)
    [] call.fn = "unit" -> Fx16Unit(draws)
    [] call.fn = "brad" -> Brad(draws)
    [] call.fn = "bool" -> Bool(draws)
    [] call.fn = "u64" -> U64(draws)
    [] call.fn = "shuffle" -> Shuffle(draws, call.n, call.stride)

(* The answers to a call: for every sequence of words; for the generator   *)
(* itself, the words it puts out one after the other.                      *)
Answers(call) ==
  IF call.fn = "orbit"
  THEN LET orbit == Orbit(Seed(call.seed, call.stream))
       IN  [n \in 1..StateSpace |->
             [value |-> Output(orbit[n - 1]), used |-> 1]]
  ELSE [draws \in Draws(IF call.fn = "shuffle" THEN 3 ELSE 2) |->
          AnswerOn(call, draws)]

(* The values a call may answer.                                           *)
Targets(call) ==
  CASE call.fn = "below" -> IF call.bound = 0 THEN {0} ELSE 0..(call.bound - 1)
    [] call.fn = "i32_range" -> IF call.hi < call.lo THEN {call.lo}
                                ELSE call.lo..call.hi
    [] call.fn = "fx16_range" -> IF call.hi <= call.lo THEN {call.lo}
                                 ELSE call.lo..(call.hi - 1)
    [] call.fn \in {"unit", "brad"} -> 0..(One - 1)
    [] call.fn = "bool" -> {0, 1}
    [] call.fn = "u64" -> 0..(StateSpace - 1)
    [] call.fn = "shuffle" -> IF call.stride > MaxStride /\ call.n >= 2 THEN {<< >>}
                              ELSE {a \in [1..call.n -> 1..call.n] : IsInjective(a)}
    [] call.fn = "orbit" -> Words

(* What a call answers, at which odds: every target as often as any other, *)
(* and nothing else; a chance in exactly its share of the words.  A call   *)
(* with only one answer draws nothing when its arguments are degenerate.   *)
EvenlySpread(call, answers) ==
  LET answered == {d \in DOMAIN answers : IsAnswer(answers[d])}
      Times(v) == Cardinality({d \in answered : answers[d].value = v})
  IN  IF call.fn = "chance"
      THEN /\ answered = DOMAIN answers
           /\ \A d \in answered : answers[d].value \in {0, 1}
           /\ Times(1) * One = Max({0, Min({One, call.p})}) * Cardinality(answered)
      ELSE /\ \A d \in answered : answers[d].value \in Targets(call)
           /\ \A v \in Targets(call) :
                Times(v) * Cardinality(Targets(call)) = Cardinality(answered)

DrawsNothing(call) ==
  \/ call.fn = "below" /\ call.bound = 0
  \/ call.fn = "i32_range" /\ call.hi < call.lo
  \/ call.fn = "fx16_range" /\ call.hi <= call.lo
  \/ call.fn = "chance" /\ call.p \notin 1..(One - 1)
  \/ call.fn = "shuffle" /\ (call.n < 2 \/ call.stride > MaxStride)

IsUniform(call, answers) ==
  /\ EvenlySpread(call, answers)
  /\ \A d \in DOMAIN answers : (answers[d].used = 0) = DrawsNothing(call)
=============================================================================
