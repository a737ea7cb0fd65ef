-------------------------------- MODULE Fixed --------------------------------
(***************************************************************************)
(* The fixed-point arithmetic of src/cbase_fixed.c, on words scaled down:  *)
(* fx16 has 2 * Half bits, Half of them a fraction (Half is 16 in the      *)
(* code); fx32 has twice as many of both.  cb_fx32_* has two paths: "wide" *)
(* computes in 128 bits, "pair" is the fallback that has none.  The tables *)
(* of sine and arc tangent are parameters.                                 *)
(***************************************************************************)
EXTENDS Integers, SequencesExt

CONSTANTS
  Half,       \* the bits of the fraction of an fx16
  AngleBits,  \* the bits of a full turn: 16
  SinLut,     \* the sines of the first quadrant, first and last included
  AtanLut     \* the angles of the tangents from 0 to One, both included

W16 == 2 * Half
W32 == 4 * Half
MaxOf(w) == 2^(w - 1) - 1
MinOf(w) == -(2^(w - 1))
WordsOf(w) == MinOf(w)..MaxOf(w)
OneOf(w) == 2^(w \div 2)

Clip(w, r) == IF r > MaxOf(w) THEN MaxOf(w) ELSE IF r < MinOf(w) THEN MinOf(w) ELSE r

Extreme(w, negative) == IF negative THEN MinOf(w) ELSE MaxOf(w)

(* An unsigned word read as a signed one. *)
Signed(w, u) == LET v == u % 2^w IN IF v > MaxOf(w) THEN v - 2^w ELSE v

Magnitude(n) == IF n < 0 THEN -n ELSE n

(* The division of C: towards zero. *)
Quot(n, d) ==
  LET q == Magnitude(n) \div Magnitude(d)
  IN  IF (n < 0) # (d < 0) THEN -q ELSE q

-----------------------------------------------------------------------------
(* fx16.                                                                   *)

FromInt16(v) ==
  IF v > 2^Half \div 2 - 1 THEN MaxOf(W16)
  ELSE IF v < -(2^Half \div 2) THEN MinOf(W16) ELSE v * OneOf(W16)

ToInt16(v) == Quot(v, OneOf(W16))

Add16(a, b) == Clip(W16, a + b)
Sub16(a, b) == Clip(W16, a - b)

(* Mutant: an arithmetic shift, which rounds down. *)
Mul16Shift(a, b) == Clip(W16, (a * b) \div OneOf(W16))

Mul16(a, b) == Clip(W16, Quot(a * b, OneOf(W16)))

ByZero(w, a) == IF a = 0 THEN 0 ELSE Extreme(w, a < 0)

Div16(a, b) ==
  IF b = 0 THEN ByZero(W16, a) ELSE Clip(W16, Quot(a * OneOf(W16), b))

Abs16(v) == IF v = MinOf(W16) THEN MaxOf(W16) ELSE Magnitude(v)

Min16(a, b) == IF a < b THEN a ELSE b
Max16(a, b) == IF a > b THEN a ELSE b
Clamp16(v, lo, hi) == IF v < lo THEN lo ELSE IF v > hi THEN hi ELSE v

Lerp16(a, b, t) == Add16(a, Mul16(Sub16(b, a), t))

(* One digit of a square root: what is left of the radicand, and the root. *)
SqrtDigit(acc, bit) ==
  IF acc.n >= acc.res + bit
  THEN [n |-> acc.n - (acc.res + bit), res |-> acc.res \div 2 + bit]
  ELSE [acc EXCEPT !.res = @ \div 2]

(* The digits, from the highest that can be one. *)
SqrtBits(top) == [k \in 1..(top \div 2 + 1) |-> 2^(top - 2 * (k - 1))]

Sqrt16(v) ==
  IF v <= 0 THEN 0
  ELSE FoldLeft(SqrtDigit, [n |-> v * 2^Half, res |-> 0],
                SqrtBits(3 * Half - 2)).res

-----------------------------------------------------------------------------
(* Angles.                                                                 *)

Turn == 2^AngleBits
Quarter == Turn \div 4

(* The segments of a table, and a value between two of its entries.        *)
Segments(lut) == Len(lut) - 1
Between(lut, idx, frac, steps) ==
  lut[idx + 1] + Quot((lut[idx + 2] - lut[idx + 1]) * frac, steps)

SinQ1(pos) ==
  LET steps == Quarter \div Segments(SinLut)
  IN  IF pos >= Quarter THEN OneOf(W16)
      ELSE Between(SinLut, pos \div steps, pos % steps, steps)

Sin(angle) ==
  LET quadrant == angle \div Quarter
      pos == angle % Quarter
      v == IF quadrant % 2 = 0 THEN SinQ1(pos) ELSE SinQ1(Quarter - pos)
  IN  IF quadrant >= 2 THEN -v ELSE v

Cos(angle) == Sin((angle + Quarter) % Turn)

(* Up to an eighth of a turn, from the tangent. *)
Atan(t) ==
  LET steps == OneOf(W16) \div Segments(AtanLut)
  IN  IF t \div steps >= Segments(AtanLut) THEN AtanLut[Len(AtanLut)]
      ELSE Between(AtanLut, t \div steps, t % steps, steps)

(* Mutant: the half turn is made after the reflection at the x axis. *)
Atan2Swapped(y, x) ==
  LET ax == Abs16(x)
      ay == Abs16(y)
      octant == Atan(Div16(Min16(ax, ay), Max16(ax, ay)))
      quadrant == IF ay > ax THEN Quarter - octant ELSE octant
      below == IF y < 0 /\ quadrant # 0 THEN Turn - quadrant ELSE quadrant
  IN  IF x = 0 /\ y = 0 THEN 0
      ELSE (IF x < 0 THEN 2 * Quarter - quadrant ELSE below) % Turn

Atan2(y, x) ==
  LET ax == Abs16(x)
      ay == Abs16(y)
      octant == Atan(Div16(Min16(ax, ay), Max16(ax, ay)))
      quadrant == IF ay > ax THEN Quarter - octant ELSE octant
      above == IF x < 0 THEN 2 * Quarter - quadrant ELSE quadrant
  IN  IF x = 0 /\ y = 0 THEN 0
      ELSE IF x = 0 THEN IF y > 0 THEN Quarter ELSE 3 * Quarter
      ELSE IF y = 0 THEN IF x > 0 THEN 0 ELSE 2 * Quarter
      ELSE (IF y < 0 /\ above # 0 THEN Turn - above ELSE above) % Turn

-----------------------------------------------------------------------------
(* fx32.                                                                   *)

FromInt32(v) ==
  IF v > MaxOf(W16) THEN MaxOf(W32)
  ELSE IF v < MinOf(W16) THEN MinOf(W32) ELSE v * OneOf(W32)

ToInt32(v) == Quot(v, OneOf(W32))

(* The sign bit of (x ^ r) & (y ^ r). *)
BothDiffer(x, y, r) == (x < 0) # (r < 0) /\ (y < 0) # (r < 0)

Add32(path, a, b) ==
  LET r == Signed(W32, a + b)
  IN  IF path = "wide" THEN Clip(W32, a + b)
      ELSE IF BothDiffer(a, b, r) THEN Extreme(W32, a < 0)
      ELSE r

Sub32(path, a, b) ==
  LET r == Signed(W32, a - b)
  IN  IF path = "wide" THEN Clip(W32, a - b)
      ELSE IF BothDiffer(b, r, a) THEN Extreme(W32, a < 0)
      ELSE r

(* The pair shifts a product of two words by half a word. *)
Mul32Pair(a, b) ==
  LET hi == (a * b) \div 2^W32
      lo == (a * b) % 2^W32
      shiftedLo == Signed(W32, lo \div OneOf(W32) + hi * OneOf(W32))
      shiftedHi == hi \div OneOf(W32)
  IN  IF shiftedHi # (IF shiftedLo < 0 THEN -1 ELSE 0)
      THEN Extreme(W32, shiftedHi < 0)
      ELSE shiftedLo

Mul32(path, a, b) ==
  IF path = "wide" THEN Clip(W32, Quot(a * b, OneOf(W32))) ELSE Mul32Pair(a, b)

(* Sign and magnitude; the quotient must fit in a word before it is made.  *)
Div32Pair(a, b) ==
  LET neg == (a < 0) # (b < 0)
      numHi == Magnitude(a) \div OneOf(W32)
      numLo == (Magnitude(a) * OneOf(W32)) % 2^W32
      q == (numHi * 2^W32 + numLo) \div Magnitude(b)
  IN  IF numHi >= Magnitude(b) THEN Extreme(W32, neg)
      ELSE IF neg THEN IF q > MaxOf(W32) THEN MinOf(W32) ELSE -q
      ELSE IF q > MaxOf(W32) THEN MaxOf(W32) ELSE q

Div32(path, a, b) ==
  IF b = 0 THEN ByZero(W32, a)
  ELSE IF path = "wide" THEN Clip(W32, Quot(a * OneOf(W32), b))
  ELSE Div32Pair(a, b)

Abs32(v) == IF v = MinOf(W32) THEN MaxOf(W32) ELSE Magnitude(v)

(* Numbers of two words.                                                   *)
Word == 2^W32
PairShift(x, n) ==
  [hi |-> x.hi \div 2^n, lo |-> (x.lo \div 2^n + x.hi * 2^(W32 - n)) % Word]

PairAdd(x, y) ==
  LET lo == (x.lo + y.lo) % Word
  IN  [hi |-> (x.hi + y.hi + (IF lo < x.lo THEN 1 ELSE 0)) % Word, lo |-> lo]

PairSub(x, y) ==
  [hi |-> (x.hi - y.hi - (IF x.lo < y.lo THEN 1 ELSE 0)) % Word,
   lo |-> (x.lo - y.lo) % Word]

PairAtLeast(x, y) == x.hi > y.hi \/ (x.hi = y.hi /\ x.lo >= y.lo)

SqrtPairDigit(acc, bit) ==
  LET cand == PairAdd(acc.res, bit)
      halved == PairShift(acc.res, 1)
  IN  IF PairAtLeast(acc.n, cand)
      THEN [n |-> PairSub(acc.n, cand), res |-> PairAdd(halved, bit)]
      ELSE [acc EXCEPT !.res = halved]

AsPair(n) == [hi |-> n \div Word, lo |-> n % Word]

Sqrt32(path, v) ==
  LET bits == SqrtBits(3 * 2 * Half - 2)
      radicand == v * 2^(2 * Half)
  IN  IF v <= 0 THEN 0
      ELSE IF path = "wide"
      THEN FoldLeft(SqrtDigit, [n |-> radicand, res |-> 0], bits).res
      ELSE FoldLeft(SqrtPairDigit, [n |-> AsPair(radicand), res |-> AsPair(0)],
                    [k \in DOMAIN bits |-> AsPair(bits[k])]).res.lo

From16(v) == v * 2^Half

From32(v) == Clip(W16, Quot(v, 2^Half))

-----------------------------------------------------------------------------
(* What the results must be.  A call is a record: fn, the path, and the    *)
(* first argument; its answers are a function of the second.               *)

(* r is the word nearest to n / d between 0 and n / d.                     *)
NearestTowardsZero(w, n, d, r) ==
  LET m == Magnitude(d)
      e == IF d < 0 THEN -n ELSE n
  IN  /\ r \in WordsOf(w)
      /\ IF e >= 0
         THEN r >= 0 /\ r * m <= e /\ (r < MaxOf(w) => e < (r + 1) * m)
         ELSE r <= 0 /\ r * m >= e /\ (r > MinOf(w) => e > (r - 1) * m)

FloorSqrt(w, v, r) ==
  IF v <= 0 THEN r = 0 ELSE r * r <= v * OneOf(w) /\ v * OneOf(w) < (r + 1) * (r + 1)

Paths == {"wide", "pair"}
Binary == {"add", "sub", "mul", "div"}

Calls ==
  [fn : Binary, path : {"fx16"}, a : WordsOf(W16)]
    \cup [fn : Binary, path : Paths, a : WordsOf(W32)]
    \cup [fn : {"sqrt"}, path : Paths \cup {"fx16"}]
    \cup [fn : {"lerp"}, path : {"fx16"}, a : WordsOf(W16), b : WordsOf(W16)]
    \cup [fn : {"narrow", "convert", "clamp"}, path : {"fx16"}]

Width(call) == IF call.path = "fx16" THEN W16 ELSE W32

Operation(fn, path, a, b) ==
  CASE path = "fx16" /\ fn = "add" -> Add16(a, b)
    [] path = "fx16" /\ fn = "sub" -> Sub16(a, b)
    [] path = "fx16" /\ fn = "mul" -> Mul16(a, b)
    [] path = "fx16" /\ fn = "div" -> Div16(a, b)
    [] path # "fx16" /\ fn = "add" -> Add32(path, a, b)
    [] path # "fx16" /\ fn = "sub" -> Sub32(path, a, b)
    [] path # "fx16" /\ fn = "mul" -> Mul32(path, a, b)
    [] path # "fx16" /\ fn = "div" -> Div32(path, a, b)

Answers(call) ==
  CASE call.fn \in Binary ->
         [b \in WordsOf(Width(call)) |-> Operation(call.fn, call.path, call.a, b)]
    [] call.fn = "sqrt" -> [v \in WordsOf(Width(call)) |->
         IF call.path = "fx16" THEN Sqrt16(v) ELSE Sqrt32(call.path, v)]
    [] call.fn = "lerp" -> [t \in 0..OneOf(W16) |-> Lerp16(call.a, call.b, t)]
    [] call.fn = "narrow" -> [v \in WordsOf(W32) |->
         <<From32(v), From16(From32(v)), ToInt32(v), FromInt32(v), Abs32(v)>>]
    [] call.fn = "convert" -> [v \in WordsOf(W16) |->
         <<FromInt16(v), ToInt16(v), From16(v), Abs16(v)>>]
    [] call.fn = "clamp" -> [v \in WordsOf(W16) |->
         [bounds \in WordsOf(W16) \X WordsOf(W16) |->
           <<Clamp16(v, bounds[1], bounds[2]),
             Min16(Max16(v, bounds[1]), bounds[2])>>]]

(* Overflow saturates, rounding is towards zero, a division by zero keeps  *)
(* its sign, and a root is exact to the last bit: on either path.          *)
IsExact(call, answers) ==
  LET w == Width(call)
  IN CASE call.fn = "add" -> \A b \in WordsOf(w) :
            NearestTowardsZero(w, call.a + b, 1, answers[b])
       [] call.fn = "sub" -> \A b \in WordsOf(w) :
            NearestTowardsZero(w, call.a - b, 1, answers[b])
       [] call.fn = "mul" -> \A b \in WordsOf(w) :
            NearestTowardsZero(w, call.a * b, OneOf(w), answers[b])
       [] call.fn = "div" -> \A b \in WordsOf(w) :
            IF b = 0 THEN NearestTowardsZero(w, call.a * 2^w, 1, answers[b])
            ELSE NearestTowardsZero(w, call.a * OneOf(w), b, answers[b])
       [] call.fn = "sqrt" -> \A v \in WordsOf(w) : FloorSqrt(w, v, answers[v])
       [] call.fn = "lerp" ->
            /\ answers[0] = call.a
            /\ \A t \in 0..OneOf(w) :
                 Magnitude(answers[t] - call.a) + Magnitude(call.b - answers[t])
                   = Magnitude(call.b - call.a)
            /\ call.b - call.a \in WordsOf(w) => answers[OneOf(w)] = call.b
       [] call.fn = "narrow" -> \A v \in WordsOf(W32) :
            /\ NearestTowardsZero(W16, v, 2^Half, answers[v][1])
            /\ From32(answers[v][2]) = answers[v][1]
            /\ NearestTowardsZero(W32, v, OneOf(W32), answers[v][3])
            /\ NearestTowardsZero(W32, v * OneOf(W32), 1, answers[v][4])
            /\ NearestTowardsZero(W32, Magnitude(v), 1, answers[v][5])
       [] call.fn = "convert" -> \A v \in WordsOf(W16) :
            /\ NearestTowardsZero(W16, v * OneOf(W16), 1, answers[v][1])
            /\ NearestTowardsZero(W16, v, OneOf(W16), answers[v][2])
            /\ From32(answers[v][3]) = v
            /\ NearestTowardsZero(W16, Magnitude(v), 1, answers[v][4])
       [] call.fn = "clamp" -> \A v \in WordsOf(W16) :
            \A bounds \in WordsOf(W16) \X WordsOf(W16) :
              bounds[1] <= bounds[2] => answers[v][bounds][1] = answers[v][bounds][2]

(* Both paths of an operation give the same word.                          *)
PathsGiveTheSame(call, answers) ==
  call.path \in Paths =>
    \A path \in Paths : answers = Answers([call EXCEPT !.path = path])

-----------------------------------------------------------------------------
(* What the angles must be.                                                *)

AngleCalls ==
  [fn : {"sin", "cos"}] \cup [fn : {"atan2_y"}, y : WordsOf(W16)]
                        \cup [fn : {"atan2_x"}, x : WordsOf(W16)]

AngleAnswers(call) ==
  CASE call.fn = "sin" -> [angle \in 0..(Turn - 1) |-> Sin(angle)]
    [] call.fn = "cos" -> [angle \in 0..(Turn - 1) |-> Cos(angle)]
    [] call.fn = "atan2_y" -> [x \in WordsOf(W16) |-> Atan2(call.y, x)]
    [] call.fn = "atan2_x" -> [y \in WordsOf(W16) |-> Atan2(y, call.x)]

Rises(f, from, to) == \A i \in from..(to - 1) : f[i] <= f[i + 1]

(* The quadrant of a point, with its ends; a full turn counts as none.     *)
InQuadrant(x, y, angle) ==
  CASE x >= 0 /\ y >= 0 -> angle \in 0..Quarter
    [] x < 0 /\ y >= 0 -> angle \in Quarter..(2 * Quarter)
    [] x < 0 /\ y < 0 -> angle \in (2 * Quarter)..(3 * Quarter)
    [] x >= 0 /\ y < 0 -> angle \in {0} \cup (3 * Quarter)..(Turn - 1)

(* A sine rises over the first quarter from 0 to One and is mirrored in    *)
(* the others; an angle is in the quadrant of its point, and turns only    *)
(* one way while the point moves along a line.                             *)
IsOrdered(call, answers) ==
  LET min == MinOf(W16)
      max == MaxOf(W16)
      (* The angles of a line, from its lower or right half turn on.       *)
      From(start) == [i \in DOMAIN answers |-> (answers[i] - start) % Turn]
      Back(f) == [i \in -max..-min |-> f[-i]]
  IN CASE call.fn \in {"sin", "cos"} ->
            LET sine == [a \in 0..Turn |->
                  answers[(IF call.fn = "sin" THEN a ELSE a + 3 * Quarter) % Turn]]
            IN  /\ sine[0] = 0 /\ sine[Quarter] = OneOf(W16) /\ Rises(sine, 0, Quarter)
                /\ \A a \in 0..(2 * Quarter) : sine[2 * Quarter - a] = sine[a]
                /\ \A a \in 0..Turn : sine[Turn - a] = -sine[a]
       [] call.fn = "atan2_y" ->
            /\ \A x \in WordsOf(W16) : InQuadrant(x, call.y, answers[x])
            /\ call.y > 0 => Rises(Back(answers), -max, -min)
            /\ call.y < 0 => Rises([x \in WordsOf(W16) |->
                 IF answers[x] = 0 THEN Turn ELSE answers[x]], min, max)
       [] call.fn = "atan2_x" ->
            /\ \A y \in WordsOf(W16) : InQuadrant(call.x, y, answers[y])
            /\ call.x > 0 => Rises(From(2 * Quarter), min, max)
            /\ call.x < 0 => Rises(Back(answers), -max, -min)
            /\ call.x \in 1..max =>
                 answers[call.x] = Turn \div 8 /\ answers[-call.x] = Turn - Turn \div 8
=============================================================================
