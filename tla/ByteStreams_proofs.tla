-------------------------- MODULE ByteStreams_proofs --------------------------
(***************************************************************************)
(* Theorems about ByteStreams, for buffers of any size, bytes of any base, *)
(* any fields, and any bounds on the frames.                               *)
(***************************************************************************)
EXTENDS ByteStreams, SequenceLemmas

-----------------------------------------------------------------------------
(* Bytes and integers.                                                     *)

ByteSet == 0..(Base - 1)

(* What a byte counts at each place, the first n. *)
Counts(place, n) ==
  place = [i \in 0..n |-> IF i = 0 THEN 1 ELSE Base * place[i - 1]]

(* The places count as Place says. *)
LEMMA PlaceIs ==
  ASSUME NEW n \in Nat, NEW f, f[0] = 1, \A i \in Nat : f[i + 1] = Base * f[i]
  PROVE  Place(n) = f[n]
  <1> DEFINE g == [i \in 0..n |-> f[i]]
             h == CHOOSE place : Counts(place, n)
  <1>1. Place(n) = h[n]
    BY DEF Place, Counts
  <1>2. Counts(g, n)
    <2>1. ASSUME NEW i \in 0..n
          PROVE  f[i] = IF i = 0 THEN 1 ELSE Base * g[i - 1]
      <3>1. CASE i = 0
        BY <3>1
      <3>2. CASE i # 0
        <4> DEFINE j == i - 1
        <4>1. j \in Nat /\ j \in 0..n /\ j + 1 = i
          BY <3>2
        <4> HIDE DEF j
        <4>2. f[i] = Base * f[j]
          <5>1. f[j + 1] = Base * f[j]
            BY <4>1
          <5> QED BY <4>1, <5>1, Zenon
        <4>3. g[j] = f[j]
          BY <4>1
        <4> QED BY <3>2, <4>2, <4>3, Zenon DEF j
      <3> QED BY <3>1, <3>2
    <2>2. g = [i \in 0..n |-> IF i = 0 THEN 1 ELSE Base * g[i - 1]]
      BY <2>1
    <2> HIDE DEF g
    <2> QED BY <2>2, Zenon DEF Counts
  <1> HIDE DEF g
  <1>3. Counts(h, n)
    BY <1>2, Zenon
  <1> HIDE DEF h
  <1>4. \A i \in 0..n : h[i] = IF i = 0 THEN 1 ELSE Base * h[i - 1]
    <2>1. h = [i \in 0..n |-> IF i = 0 THEN 1 ELSE Base * h[i - 1]]
      BY <1>3, Zenon DEF Counts
    <2> QED BY <2>1, Zenon
  <1> DEFINE N == {i \in Nat : i <= n => h[i] = f[i]}
  <1>5. 0 \in N
    <2>1. 0 \in 0..n
      OBVIOUS
    <2>2. h[0] = 1
      BY <1>4, <2>1
    <2> QED BY <2>2
  <1>6. ASSUME NEW i \in Nat, i \in N
        PROVE  i + 1 \in N
    <2> SUFFICES ASSUME i + 1 <= n
                 PROVE  h[i + 1] = f[i + 1]
      OBVIOUS
    <2>1. i + 1 \in 0..n /\ i + 1 # 0 /\ (i + 1) - 1 = i /\ i <= n
      OBVIOUS
    <2>2. h[i] = f[i]
      BY <1>6, <2>1
    <2>3. h[i + 1] = Base * h[i]
      BY <1>4, <2>1
    <2>4. f[i + 1] = Base * f[i]
      OBVIOUS
    <2> QED BY <2>2, <2>3, <2>4, Zenon
  <1> HIDE DEF N
  <1>7. Nat \subseteq N
    BY <1>5, <1>6, NatInd
  <1>8. h[n] = f[n]
    BY <1>7 DEF N
  <1> QED BY <1>1, <1>8, Zenon

(* Each place counts as much as all values of the one before. *)
LEMMA PlaceValues ==
  /\ Place(0) = 1
  /\ \A n \in Nat : Place(n) \in Nat \ {0} /\ Place(n + 1) = Base * Place(n)
  <1>0. Base \in Nat \ {0}
    BY StreamAssumption
  <1> DEFINE X == Nat \ {0}
             G == [p \in Nat \X X |-> Base * p[2]]
  <1>1. 1 \in X
    OBVIOUS
  <1>2. G \in [Nat \X X -> X] /\ \A n \in Nat, x \in X : G[<< n, x >>] = Base * x
    <2>1. ASSUME NEW p \in Nat \X X
          PROVE  Base * p[2] \in X
      <3> DEFINE x == p[2]
      <3>1. x \in X
        OBVIOUS
      <3> HIDE DEF x
      <3>2. Base * x \in X
        BY <1>0, <3>1
      <3> QED BY <3>2 DEF x
    <2>2. \A n \in Nat, x \in X : << n, x >> \in Nat \X X /\ << n, x >>[2] = x
      OBVIOUS
    <2> HIDE DEF X
    <2>3. G \in [Nat \X X -> X]
      BY <2>1
    <2> QED BY <2>2, <2>3
  <1> HIDE DEF X, G
  <1>3. PICK f : f \in [Nat -> X] /\ Steps(f, 1, G)
    BY <1>1, <1>2, Recursion, Zenon
  <1>4. f[0] = 1 /\ \A n \in Nat : f[n + 1] = G[<< n + 1, f[n] >>]
    BY <1>3, Zenon DEF Steps
  <1>5. \A n \in Nat : f[n + 1] = Base * f[n]
    <2> TAKE n \in Nat
    <2>1. n + 1 \in Nat /\ f[n] \in X
      BY <1>3
    <2>2. f[n + 1] = G[<< n + 1, f[n] >>]
      BY <1>4
    <2> QED BY <1>2, <2>1, <2>2, Zenon
  <1>6. \A n \in Nat : Place(n) = f[n]
    BY <1>4, <1>5, PlaceIs
  <1>7. Place(0) = 1
    BY <1>4, <1>6
  <1>8. ASSUME NEW n \in Nat
        PROVE  Place(n) \in Nat \ {0} /\ Place(n + 1) = Base * Place(n)
    <2>1. n + 1 \in Nat
      OBVIOUS
    <2>2. Place(n + 1) = f[n + 1] /\ Place(n) = f[n]
      BY <1>6, <2>1, Zenon
    <2>3. f[n] \in Nat \ {0}
      BY <1>3 DEF X
    <2> QED BY <1>5, <2>2, <2>3, Zenon
  <1> QED BY <1>7, <1>8

(* A number is what is below a place, and its digit there. *)
LEMMA Digit ==
  ASSUME NEW v \in Nat, NEW P \in Nat \ {0}, NEW b \in Nat \ {0}
  PROVE  v % (b * P) = (v % P) + ((v \div P) % b) * P
  <1> DEFINE q == v \div P
             u == v % P
             k == q \div b
             d == q % b
  <1>1. q \in Nat /\ u \in 0..(P - 1) /\ v = q * P + u
    BY DivMod
  <1> HIDE DEF q, u
  <1>2. k \in Nat /\ d \in 0..(b - 1) /\ q = k * b + d
    BY <1>1, DivMod
  <1> HIDE DEF k, d
  <1> DEFINE c == b * P
             l == d * P + u
  <1>3. c \in Nat \ {0}
    OBVIOUS
  <1>4. l \in 0..(c - 1)
    <2>1. d + 1 <= b
      BY <1>2
    <2>2. (d + 1) * P <= b * P
      BY <1>2, <2>1
    <2>3. (d + 1) * P = d * P + P
      BY <1>2
    <2>4. d * P \in Nat
      BY <1>2
    <2> DEFINE x == d * P
    <2> HIDE DEF x
    <2>5. x \in Nat /\ x + P <= c
      BY <2>2, <2>3, <2>4 DEF x
    <2> HIDE DEF c
    <2>6. x + u \in 0..(c - 1)
      BY <1>1, <1>3, <2>5
    <2> QED BY <2>6 DEF x
  <1>5. v = k * c + l
    <2>1. q * P = (k * b) * P + d * P
      BY <1>1, <1>2
    <2>2. (k * b) * P = k * c
      BY <1>2
    <2>3. k * c \in Nat /\ d * P \in Nat
      BY <1>2
    <2> DEFINE x == q * P
               y == (k * b) * P
               z == k * c
               e == d * P
    <2>4. x = y + e /\ y = z /\ z \in Nat /\ e \in Nat /\ v = x + u
      BY <1>1, <2>1, <2>2, <2>3
    <2> HIDE DEF x, y, z, e
    <2>5. v = z + (e + u)
      BY <1>1, <2>4
    <2> QED BY <2>5 DEF z, e
  <1> HIDE DEF c, l
  <1>6. v % c = l
    BY <1>2, <1>3, <1>4, <1>5, DivUnique
  <1>7. d * P \in Nat /\ u \in Nat
    BY <1>1, <1>2
  <1>8. l = u + d * P
    BY <1>7 DEF l
  <1> QED BY <1>6, <1>8, Zenon DEF c, u, d, q

(* The bytes of a number. *)
LEMMA EncodeType ==
  ASSUME NEW v \in Nat, NEW n \in Nat
  PROVE  /\ Encode(v, n) \in Seq(ByteSet) /\ Len(Encode(v, n)) = n
         /\ \A i \in 1..n : Encode(v, n)[i] = (v \div Place(i - 1)) % Base
  <1>0. Base \in Nat \ {0}
    BY StreamAssumption
  <1>1. ASSUME NEW i \in 1..n
        PROVE  (v \div Place(i - 1)) % Base \in ByteSet
    <2> DEFINE P == Place(i - 1)
               q == v \div P
    <2>1. P \in Nat \ {0}
      <3>1. i - 1 \in Nat
        OBVIOUS
      <3> QED BY <3>1, PlaceValues, Zenon
    <2> HIDE DEF P
    <2>2. q \in Nat
      BY <2>1, DivMod
    <2> HIDE DEF q
    <2>3. q % Base \in ByteSet
      BY <1>0, <2>2, DivMod DEF ByteSet
    <2> QED BY <2>3 DEF q, P
  <1> DEFINE d(i) == (v \div Place(i - 1)) % Base
             e == Encode(v, n)
  <1>2. e = [i \in 1..n |-> d(i)]
    BY DEF Encode
  <1>3. \A i \in 1..n : d(i) \in ByteSet
    BY <1>1
  <1> HIDE DEF d, e
  <1>4. e \in [1..n -> ByteSet] /\ \A i \in 1..n : e[i] = d(i)
    BY <1>2, <1>3
  <1>5. e \in Seq(ByteSet) /\ Len(e) = n
    BY <1>4
  <1> QED BY <1>4, <1>5 DEF d, e

(* What Decode adds up. *)
Values(value, bytes) ==
  value = [i \in 0..Len(bytes) |->
             IF i = 0 THEN 0 ELSE value[i - 1] + bytes[i] * Place(i - 1)]

(* Decode returns the last of the sums.                                    *)
LEMMA DecodeIs ==
  ASSUME NEW bytes, NEW n \in Nat, Len(bytes) = n, NEW f, f[0] = 0,
         \A i \in 1..n : f[i] = f[i - 1] + bytes[i] * Place(i - 1)
  PROVE  Decode(bytes) = f[n]
  <1> DEFINE g == [i \in 0..n |-> f[i]]
             h == CHOOSE value : Values(value, bytes)
             a(i) == bytes[i] * Place(i - 1)
  <1>1. Decode(bytes) = h[n]
    BY DEF Decode, Values
  <1>a. \A i \in 1..n : f[i] = f[i - 1] + a(i)
    OBVIOUS
  <1> HIDE DEF a
  <1>2. Values(g, bytes)
    <2>1. ASSUME NEW i \in 0..n
          PROVE  f[i] = IF i = 0 THEN 0 ELSE g[i - 1] + a(i)
      <3>1. CASE i = 0
        BY <3>1
      <3>2. CASE i # 0
        <4>1. i \in 1..n /\ i - 1 \in 0..n
          BY <3>2
        <4>2. f[i] = f[i - 1] + a(i)
          BY <1>a, <4>1
        <4>3. g[i - 1] = f[i - 1]
          BY <4>1
        <4> QED BY <3>2, <4>2, <4>3, Zenon
      <3> QED BY <3>1, <3>2
    <2>2. g = [i \in 0..n |-> IF i = 0 THEN 0 ELSE g[i - 1] + a(i)]
      BY <2>1
    <2> HIDE DEF g
    <2> QED BY <2>2, Zenon DEF Values, a
  <1> HIDE DEF g
  <1>3. Values(h, bytes)
    BY <1>2, Zenon
  <1> HIDE DEF h
  <1>4. \A i \in 0..n : h[i] = IF i = 0 THEN 0 ELSE h[i - 1] + a(i)
    <2>1. h = [i \in 0..n |-> IF i = 0 THEN 0 ELSE h[i - 1] + a(i)]
      BY <1>3, Zenon DEF Values, a
    <2> QED BY <2>1, Zenon
  <1> DEFINE N == {i \in Nat : i <= n => h[i] = f[i]}
  <1>5. 0 \in N
    <2>1. 0 \in 0..n
      OBVIOUS
    <2>2. h[0] = 0
      BY <1>4, <2>1
    <2> QED BY <2>2
  <1>6. ASSUME NEW i \in Nat, i \in N
        PROVE  i + 1 \in N
    <2> SUFFICES ASSUME i + 1 <= n
                 PROVE  h[i + 1] = f[i + 1]
      OBVIOUS
    <2>1. /\ i + 1 \in 0..n /\ i + 1 \in 1..n /\ i + 1 # 0
          /\ (i + 1) - 1 = i /\ i <= n
      OBVIOUS
    <2>2. h[i] = f[i]
      BY <1>6, <2>1
    <2>3. h[i + 1] = h[i] + a(i + 1)
      <3>1. h[i + 1] = h[(i + 1) - 1] + a(i + 1)
        BY <1>4, <2>1, Zenon
      <3> QED BY <2>1, <3>1, Zenon
    <2>4. f[i + 1] = f[i] + a(i + 1)
      <3>1. f[i + 1] = f[(i + 1) - 1] + a(i + 1)
        BY <1>a, <2>1, Zenon
      <3> QED BY <2>1, <3>1, Zenon
    <2> QED BY <2>2, <2>3, <2>4, Zenon
  <1> HIDE DEF N
  <1>7. Nat \subseteq N
    BY <1>5, <1>6, NatInd
  <1>8. h[n] = f[n]
    BY <1>7 DEF N
  <1> QED BY <1>1, <1>8, Zenon

(* A number below another is what remains of it. *)
LEMMA Smaller ==
  ASSUME NEW P \in Nat \ {0}, NEW v \in 0..(P - 1)
  PROVE  v % P = v
  OBVIOUS

(* A number that fits in n bytes is what its bytes are read as. *)
LEMMA RoundTrip ==
  ASSUME NEW n \in Nat, NEW v \in 0..(Place(n) - 1)
  PROVE  Decode(Encode(v, n)) = v
  <1>0. Base \in Nat \ {0}
    BY StreamAssumption
  <1>1. Place(n) \in Nat \ {0}
    BY PlaceValues, Zenon
  <1>2. v \in Nat
    BY <1>1
  <1> DEFINE e == Encode(v, n)
             f == [i \in 0..n |-> v % Place(i)]
  <1>3. Len(e) = n /\ \A i \in 1..n : e[i] = (v \div Place(i - 1)) % Base
    BY <1>2, EncodeType, Zenon
  <1> HIDE DEF e
  <1>4. f[0] = 0
    <2>1. v % 1 = 0
      BY <1>2
    <2>2. 0 \in 0..n /\ Place(0) = 1
      BY PlaceValues
    <2> QED BY <2>1, <2>2
  <1>5. ASSUME NEW i \in 1..n
        PROVE  f[i] = f[i - 1] + e[i] * Place(i - 1)
    <2> DEFINE j == i - 1
               P == Place(j)
    <2>1. j \in Nat /\ j \in 0..n /\ j + 1 = i /\ i \in 0..n
      OBVIOUS
    <2>2. f[i] = v % Place(i) /\ f[j] = v % P
      BY <2>1
    <2>3. e[i] = (v \div P) % Base
      BY <1>3
    <2> HIDE DEF j, P, f
    <2>4. P \in Nat \ {0}
      BY <2>1, PlaceValues, Zenon DEF P
    <2>5. Place(i) = Base * P
      <3>1. Place(j + 1) = Base * Place(j)
        BY <2>1, PlaceValues, Zenon
      <3> QED BY <2>1, <3>1, Zenon DEF P
    <2>6. v % (Base * P) = (v % P) + ((v \div P) % Base) * P
      BY <1>0, <1>2, <2>4, Digit
    <2>7. f[i] = f[j] + e[i] * P
      BY <2>2, <2>3, <2>5, <2>6, Zenon
    <2> QED BY <2>7, Zenon DEF j, P
  <1>6. f[n] = v
    <2>1. n \in 0..n
      OBVIOUS
    <2>2. f[n] = v % Place(n)
      BY <2>1
    <2>3. v % Place(n) = v
      BY <1>1, Smaller
    <2> QED BY <2>2, <2>3
  <1> HIDE DEF f
  <1>7. Decode(e) = f[n]
    BY <1>3, <1>4, <1>5, DecodeIs
  <1> QED BY <1>6, <1>7, Zenon DEF e

(* A field that is read is the one that was written. *)
LEMMA FieldRead ==
  ASSUME NEW f \in Fields
  PROVE  /\ BytesOf(f) \in Seq(ByteSet) /\ Len(BytesOf(f)) = f.width /\ f.width \in Nat
         /\ [f EXCEPT !.value = ValueOf(f, BytesOf(f))] = f
  <1>1. /\ f = [signed |-> f.signed, width |-> f.width, value |-> f.value]
        /\ f.signed \in BOOLEAN /\ f.width \in Nat /\ f.value \in Int
        /\ IF f.signed THEN -Place(f.width) <= 2 * f.value /\ 2 * f.value < Place(f.width)
                       ELSE 0 <= f.value /\ f.value < Place(f.width)
    <2>1. IsField(f)
      BY StreamAssumption
    <2> QED BY <2>1, Zenon DEF IsField
  <1> DEFINE P == Place(f.width)
             u == f.value % P
             n == f.width
             x == f.value
             s == f.signed
  <1>2. P \in Nat \ {0} /\ n \in Nat /\ x \in Int /\ s \in BOOLEAN
    BY <1>1, PlaceValues, Zenon
  <1>3. /\ s => -P <= 2 * x /\ 2 * x < P
        /\ ~ s => 0 <= x /\ x < P
    BY <1>1, Zenon
  <1> HIDE DEF P, n, x, s
  <1>4. u \in 0..(P - 1) /\ (u = x \/ (s /\ x < 0 /\ u = x + P))
    <2>1. CASE x >= 0
      <3>1. x \in 0..(P - 1)
        BY <1>2, <1>3, <2>1
      <3>2. x % P = x
        BY <1>2, <3>1, Smaller
      <3> QED BY <3>1, <3>2 DEF x, P
    <2>2. CASE ~ (x >= 0)
      <3>1. s /\ x < 0
        BY <1>2, <1>3, <2>2
      <3>2. x + P \in 0..(P - 1)
        BY <1>2, <1>3, <3>1
      <3>3. x % P = x + P
        BY <1>2, <3>1, <3>2
      <3> QED BY <3>1, <3>2, <3>3 DEF x, P
    <2> QED BY <2>1, <2>2
  <1> HIDE DEF u
  <1>5. u \in Nat
    BY <1>2, <1>4
  <1>6. BytesOf(f) = Encode(u, n)
    BY Zenon DEF BytesOf, u, n, P
  <1>7. Encode(u, n) \in Seq(ByteSet) /\ Len(Encode(u, n)) = n
    BY <1>2, <1>5, EncodeType, Zenon
  <1>8. Decode(Encode(u, n)) = u
    BY <1>2, <1>4, RoundTrip DEF P, n
  <1>9. ValueOf(f, BytesOf(f)) = x
    <2>1. ValueOf(f, BytesOf(f)) = IF s THEN Signed(u, n) ELSE u
      BY <1>6, <1>8, Zenon DEF ValueOf, s, n
    <2>2. CASE s
      <3>1. Signed(u, n) = IF 2 * u >= P THEN u - P ELSE u
        BY DEF Signed, P, n
      <3>2. Signed(u, n) = x
        BY <1>2, <1>3, <1>4, <2>2, <3>1
      <3> QED BY <2>1, <2>2, <3>2, Zenon
    <2>3. CASE ~ s
      BY <1>4, <2>1, <2>3, Zenon
    <2> QED BY <2>2, <2>3
  <1>10. [f EXCEPT !.value = f.value] = f
    <2> DEFINE b == f.signed
               c == f.width
               d == f.value
    <2>1. f = [signed |-> b, width |-> c, value |-> d]
      BY <1>1
    <2> HIDE DEF b, c, d
    <2>2. [[signed |-> b, width |-> c, value |-> d] EXCEPT !.value = d]
            = [signed |-> b, width |-> c, value |-> d]
      OBVIOUS
    <2> QED BY <2>1, <2>2, Zenon DEF d
  <1> QED BY <1>1, <1>6, <1>7, <1>9, <1>10, Zenon DEF n, x

-----------------------------------------------------------------------------
(* Fields and frames behind one another.                                   *)

FrameSet == Seq(Fields)

FieldBytes == [f \in Fields |-> BytesOf(f)]

FrameBytes == [b \in FrameSet |-> Framed(b)]

(* The body of a frame is what its fields are written as. *)
LEMMA BodyIs ==
  ASSUME NEW b \in Seq(Fields)
  PROVE  FieldBytes \in [Fields -> Seq(ByteSet)] /\ BodyOf(b) = Gathered(b, FieldBytes)
  <1>1. FieldBytes \in [Fields -> Seq(ByteSet)]
    BY FieldRead DEF FieldBytes
  <1>2. \A i \in DOMAIN b : b[i] \in Fields
    OBVIOUS
  <1>3. \A i \in DOMAIN b : BytesOf(b[i]) = FieldBytes[b[i]]
    BY <1>2 DEF FieldBytes
  <1>4. [i \in DOMAIN b |-> BytesOf(b[i])] = [i \in DOMAIN b |-> FieldBytes[b[i]]]
    BY <1>3
  <1> QED BY <1>1, <1>4, Zenon DEF BodyOf, Gathered, Mapped

(* Bodies, field by field. *)
LEMMA Bodies ==
  /\ BodyOf(<< >>) = << >>
  /\ \A b \in Seq(Fields) : BodyOf(b) \in Seq(ByteSet)
  /\ \A b \in Seq(Fields), f \in Fields : BodyOf(Append(b, f)) = BodyOf(b) \o BytesOf(f)
  /\ \A b \in Seq(Fields), c \in Seq(Fields) :
       Starts(b, c) => Starts(BodyOf(b), BodyOf(c))
  <1>0. << >> \in Seq(Fields)
    OBVIOUS
  <1>1. FieldBytes \in [Fields -> Seq(ByteSet)]
    BY <1>0, BodyIs, Zenon
  <1>2. \A b \in Seq(Fields) : BodyOf(b) = Gathered(b, FieldBytes)
    BY BodyIs, Zenon
  <1>3. /\ Gathered(<< >>, FieldBytes) = << >>
        /\ \A b \in Seq(Fields) : Gathered(b, FieldBytes) \in Seq(ByteSet)
        /\ \A b \in Seq(Fields), f \in Fields :
             Gathered(Append(b, f), FieldBytes) = Gathered(b, FieldBytes) \o FieldBytes[f]
    BY <1>1, GatheredMore, Zenon
  <1>4. \A b \in Seq(Fields), c \in Seq(Fields) : Starts(b, c) =>
          Starts(Gathered(b, FieldBytes), Gathered(c, FieldBytes))
    BY <1>1, GatheredStarts, Zenon
  <1>5. \A b \in Seq(Fields), f \in Fields : Append(b, f) \in Seq(Fields)
    OBVIOUS
  <1>6. \A f \in Fields : FieldBytes[f] = BytesOf(f)
    BY DEF FieldBytes
  <1>7. BodyOf(<< >>) = << >>
    BY <1>0, <1>2, <1>3, Zenon
  <1>8. \A b \in Seq(Fields) : BodyOf(b) \in Seq(ByteSet)
    BY <1>2, <1>3, Zenon
  <1>9. ASSUME NEW b \in Seq(Fields), NEW f \in Fields
        PROVE  BodyOf(Append(b, f)) = BodyOf(b) \o BytesOf(f)
    <2>1. BodyOf(Append(b, f)) = Gathered(Append(b, f), FieldBytes)
      BY <1>2, <1>5, Zenon
    <2>2. Gathered(Append(b, f), FieldBytes) = Gathered(b, FieldBytes) \o FieldBytes[f]
      BY <1>3, Zenon
    <2> QED BY <1>2, <1>6, <2>1, <2>2, Zenon
  <1>10. ASSUME NEW b \in Seq(Fields), NEW c \in Seq(Fields), Starts(b, c)
         PROVE  Starts(BodyOf(b), BodyOf(c))
    <2>1. Starts(Gathered(b, FieldBytes), Gathered(c, FieldBytes))
      BY <1>4, <1>10, Zenon
    <2> QED BY <1>2, <2>1, Zenon
  <1> QED BY <1>7, <1>8, <1>9, <1>10, Zenon

(* A frame is two bytes longer than its body. *)
LEMMA FrameIs ==
  ASSUME NEW b \in Seq(Fields)
  PROVE  /\ Framed(b) \in Seq(ByteSet) /\ Len(BodyOf(b)) \in Nat
         /\ Len(Framed(b)) = Len(BodyOf(b)) + 2
         /\ \A i \in 1..Len(BodyOf(b)) : Framed(b)[2 + i] = BodyOf(b)[i]
         /\ \A i \in 1..2 : Framed(b)[i] = Encode(Len(BodyOf(b)), 2)[i]
  <1> DEFINE s == BodyOf(b)
             e == Encode(Len(s), 2)
  <1>1. s \in Seq(ByteSet)
    BY Bodies, Zenon
  <1> HIDE DEF s
  <1>2. Len(s) \in Nat /\ 2 \in Nat
    BY <1>1
  <1>3. e \in Seq(ByteSet) /\ Len(e) = 2
    BY <1>2, EncodeType, Zenon
  <1>4. Framed(b) = e \o s
    BY Zenon DEF Framed, s
  <1> HIDE DEF e
  <1> DEFINE u == e \o s
  <1>5. /\ u \in Seq(ByteSet) /\ Len(u) = Len(e) + Len(s)
        /\ \A i \in 1..Len(e) : u[i] = e[i]
        /\ \A i \in 1..Len(s) : u[Len(e) + i] = s[i]
    <2>1. u \in Seq(ByteSet) /\ IsConcat(u, e, s)
      BY <1>1, <1>3, Concat, Zenon
    <2> HIDE DEF u
    <2> QED BY <2>1, Zenon DEF IsConcat
  <1> HIDE DEF u
  <1>6. /\ u \in Seq(ByteSet) /\ Len(u) = Len(s) + 2
        /\ \A i \in 1..2 : u[i] = e[i]
        /\ \A i \in 1..Len(s) : u[2 + i] = s[i]
    BY <1>2, <1>3, <1>5
  <1>7. Framed(b) = u
    BY <1>4, Zenon DEF u
  <1> QED BY <1>2, <1>6, <1>7 DEF s, e

(* Frames gather likewise. *)
LEMMA FramesAre ==
  ASSUME NEW fs \in Seq(FrameSet)
  PROVE  /\ FrameBytes \in [FrameSet -> Seq(ByteSet)]
         /\ FramedAll(fs) = Gathered(fs, FrameBytes)
  <1>1. FrameBytes \in [FrameSet -> Seq(ByteSet)]
    BY FrameIs DEF FrameBytes, FrameSet
  <1>2. \A b \in FrameSet : Framed(b) = FrameBytes[b]
    BY DEF FrameBytes
  <1>3. \A i \in DOMAIN fs : fs[i] \in FrameSet
    OBVIOUS
  <1>4. \A i \in DOMAIN fs : Framed(fs[i]) = FrameBytes[fs[i]]
    BY <1>2, <1>3
  <1>5. [i \in DOMAIN fs |-> Framed(fs[i])] = [i \in DOMAIN fs |-> FrameBytes[fs[i]]]
    BY <1>4
  <1> QED BY <1>1, <1>5, Zenon DEF FramedAll, Gathered, Mapped

(* Buffers of frames, frame by frame. *)
LEMMA Framings ==
  /\ FramedAll(<< >>) = << >>
  /\ \A fs \in Seq(FrameSet) : FramedAll(fs) \in Seq(ByteSet)
  /\ \A fs \in Seq(FrameSet), b \in FrameSet : FramedAll(Append(fs, b)) = FramedAll(fs) \o Framed(b)
  /\ \A fs \in Seq(FrameSet), gs \in Seq(FrameSet) : FramedAll(fs \o gs) = FramedAll(fs) \o FramedAll(gs)
  /\ \A fs \in Seq(FrameSet), gs \in Seq(FrameSet) :
       Starts(fs, gs) => Starts(FramedAll(fs), FramedAll(gs))
  <1>0. << >> \in Seq(FrameSet)
    OBVIOUS
  <1>1. FrameBytes \in [FrameSet -> Seq(ByteSet)]
    BY <1>0, FramesAre, Zenon
  <1>2. \A fs \in Seq(FrameSet) : FramedAll(fs) = Gathered(fs, FrameBytes)
    BY FramesAre, Zenon
  <1>3. /\ Gathered(<< >>, FrameBytes) = << >>
        /\ \A fs \in Seq(FrameSet) : Gathered(fs, FrameBytes) \in Seq(ByteSet)
        /\ \A fs \in Seq(FrameSet), b \in FrameSet :
             Gathered(Append(fs, b), FrameBytes) = Gathered(fs, FrameBytes) \o FrameBytes[b]
    BY <1>1, GatheredMore, Zenon
  <1>4. \A fs \in Seq(FrameSet), gs \in Seq(FrameSet) : Starts(fs, gs) =>
          Starts(Gathered(fs, FrameBytes), Gathered(gs, FrameBytes))
    BY <1>1, GatheredStarts, Zenon
  <1>5. /\ \A fs \in Seq(FrameSet), b \in FrameSet : Append(fs, b) \in Seq(FrameSet)
        /\ \A fs \in Seq(FrameSet), gs \in Seq(FrameSet) : fs \o gs \in Seq(FrameSet)
    OBVIOUS
  <1>6. \A b \in FrameSet : FrameBytes[b] = Framed(b)
    BY DEF FrameBytes
  <1>7. FramedAll(<< >>) = << >>
    BY <1>0, <1>2, <1>3, Zenon
  <1>8. \A fs \in Seq(FrameSet) : FramedAll(fs) \in Seq(ByteSet)
    BY <1>2, <1>3, Zenon
  <1>9. ASSUME NEW fs \in Seq(FrameSet), NEW b \in FrameSet
        PROVE  FramedAll(Append(fs, b)) = FramedAll(fs) \o Framed(b)
    <2>1. FramedAll(Append(fs, b)) = Gathered(Append(fs, b), FrameBytes)
      BY <1>2, <1>5, Zenon
    <2>2. Gathered(Append(fs, b), FrameBytes) = Gathered(fs, FrameBytes) \o FrameBytes[b]
      BY <1>3, Zenon
    <2> QED BY <1>2, <1>6, <2>1, <2>2, Zenon
  <1>10. ASSUME NEW fs \in Seq(FrameSet), NEW gs \in Seq(FrameSet), Starts(fs, gs)
         PROVE  Starts(FramedAll(fs), FramedAll(gs))
    <2>1. Starts(Gathered(fs, FrameBytes), Gathered(gs, FrameBytes))
      BY <1>4, <1>10, Zenon
    <2> QED BY <1>2, <2>1, Zenon
  <1>11. ASSUME NEW fs \in Seq(FrameSet), NEW gs \in Seq(FrameSet)
         PROVE  FramedAll(fs \o gs) = FramedAll(fs) \o FramedAll(gs)
    <2>1. Gathered(fs \o gs, FrameBytes) = Gathered(fs, FrameBytes) \o Gathered(gs, FrameBytes)
      BY <1>1, GatheredConcat, Zenon
    <2>2. FramedAll(fs \o gs) = Gathered(fs \o gs, FrameBytes)
      BY <1>2, <1>5, Zenon
    <2> QED BY <1>2, <2>1, <2>2, Zenon
  <1> QED BY <1>7, <1>8, <1>9, <1>10, <1>11, Zenon

-----------------------------------------------------------------------------
(* The writer's buffer.                                                    *)

Writers == [info : Infos, data : [1..Cap -> 0..(Base - 1)], pos : 0..Cap]

(* d is data with bytes behind its place pos. *)
IsOverwritten(d, data, pos, bytes) ==
  /\ Len(d) = Len(data)
  /\ \A i \in 1..Len(bytes) : d[pos + i] = bytes[i]
  /\ \A i \in 1..Len(data) : i \notin (pos + 1)..(pos + Len(bytes)) => d[i] = data[i]

(* Overwrite does that to a buffer.                                        *)
LEMMA OverwriteIs ==
  ASSUME NEW data \in Seq(ByteSet), NEW pos \in Nat, NEW bytes \in Seq(ByteSet),
         pos + Len(bytes) <= Len(data)
  PROVE  /\ Overwrite(data, pos, bytes) \in Seq(ByteSet)
         /\ IsOverwritten(Overwrite(data, pos, bytes), data, pos, bytes)
  <1> DEFINE n == Len(data)
             m == Len(bytes)
             d == Overwrite(data, pos, bytes)
             e(i) == IF i \in (pos + 1)..(pos + m) THEN bytes[i - pos] ELSE data[i]
  <1>1. n \in Nat /\ m \in Nat /\ DOMAIN data = 1..n /\ \A i \in 1..n : data[i] \in ByteSet
    OBVIOUS
  <1>2. \A i \in 1..m : bytes[i] \in ByteSet
    OBVIOUS
  <1>3. pos + m <= n
    OBVIOUS
  <1>4. d = [i \in 1..n |-> e(i)]
    BY <1>1, Zenon DEF Overwrite
  <1> HIDE DEF n, m
  <1>5. \A i \in 1..n : e(i) \in ByteSet
    <2> SUFFICES ASSUME NEW i \in 1..n
                 PROVE  e(i) \in ByteSet
      OBVIOUS
    <2>1. CASE i \in (pos + 1)..(pos + m)
      <3>1. i - pos \in 1..m
        BY <1>1, <2>1
      <3> QED BY <1>2, <2>1, <3>1
    <2>2. CASE i \notin (pos + 1)..(pos + m)
      BY <1>1, <2>2
    <2> QED BY <2>1, <2>2
  <1>6. \A i \in 1..m : pos + i \in 1..n /\ e(pos + i) = bytes[i]
    <2> TAKE i \in 1..m
    <2>1. pos + i \in 1..n /\ pos + i \in (pos + 1)..(pos + m) /\ (pos + i) - pos = i
      BY <1>1, <1>3
    <2> QED BY <2>1
  <1>7. \A i \in 1..n : i \notin (pos + 1)..(pos + m) => e(i) = data[i]
    OBVIOUS
  <1> HIDE DEF d, e
  <1>8. d \in [1..n -> ByteSet] /\ \A i \in 1..n : d[i] = e(i)
    BY <1>4, <1>5
  <1>9. d \in Seq(ByteSet) /\ Len(d) = n
    BY <1>1, <1>8
  <1>10. \A i \in 1..m : d[pos + i] = bytes[i]
    BY <1>6, <1>8
  <1>11. \A i \in 1..n : i \notin (pos + 1)..(pos + m) => d[i] = data[i]
    BY <1>7, <1>8
  <1>12. IsOverwritten(d, data, pos, bytes)
    BY <1>9, <1>10, <1>11, Zenon DEF IsOverwritten, n, m
  <1> QED BY <1>9, <1>12, Zenon DEF d

(* What begins with two sequences begins with the first. *)
LEMMA StartsFirst ==
  ASSUME NEW S, NEW u \in Seq(S), NEW s \in Seq(S), NEW t \in Seq(S), Starts(u, s \o t)
  PROVE  Starts(u, s)
  <1> DEFINE c == s \o t
  <1>1. Len(s) \in Nat /\ Len(t) \in Nat /\ Len(u) \in Nat
    OBVIOUS
  <1>2. Len(c) = Len(s) + Len(t) /\ \A i \in 1..Len(s) : c[i] = s[i]
    BY Places
  <1> HIDE DEF c
  <1>3. Len(c) <= Len(u) /\ \A i \in 1..Len(c) : c[i] = u[i]
    BY Zenon DEF Starts, c
  <1>4. Len(s) <= Len(u)
    BY <1>1, <1>2, <1>3
  <1>5. \A i \in 1..Len(s) : u[i] = s[i]
    <2> TAKE i \in 1..Len(s)
    <2>1. i \in 1..Len(c)
      BY <1>1, <1>2
    <2> QED BY <1>2, <1>3, <2>1
  <1> QED BY <1>4, <1>5, Zenon DEF Starts

(* Bytes put behind what a buffer begins with. *)
LEMMA OverwriteBehind ==
  ASSUME NEW data \in Seq(ByteSet), NEW c \in Seq(ByteSet), NEW bytes \in Seq(ByteSet),
         Starts(data, c), Len(c) + Len(bytes) <= Len(data)
  PROVE  Starts(Overwrite(data, Len(c), bytes), c \o bytes)
  <1> DEFINE k == Len(c)
             m == Len(bytes)
             n == Len(data)
             d == Overwrite(data, k, bytes)
             u == c \o bytes
  <1>1. k \in Nat /\ m \in Nat /\ n \in Nat /\ k + m <= n
    OBVIOUS
  <1>2. d \in Seq(ByteSet) /\ IsOverwritten(d, data, k, bytes)
    BY <1>1, OverwriteIs
  <1>3. u \in Seq(ByteSet) /\ IsConcat(u, c, bytes)
    BY Concat, Zenon
  <1>4. \A i \in 1..k : data[i] = c[i]
    BY Zenon DEF Starts
  <1> HIDE DEF d, u, k, m, n
  <1>5. /\ Len(d) = n /\ \A i \in 1..m : d[k + i] = bytes[i]
        /\ \A i \in 1..n : i \notin (k + 1)..(k + m) => d[i] = data[i]
    BY <1>2, Zenon DEF IsOverwritten, n, m
  <1>6. /\ Len(u) = k + m /\ \A i \in 1..k : u[i] = c[i]
        /\ \A i \in 1..m : u[k + i] = bytes[i]
    BY <1>3, Zenon DEF IsConcat, k, m
  <1>7. \A i \in 1..Len(u) : d[i] = u[i]
    <2> TAKE i \in 1..Len(u)
    <2>1. CASE i <= k
      <3>1. i \in 1..k /\ i \in 1..n /\ i \notin (k + 1)..(k + m)
        BY <1>1, <1>6, <2>1
      <3> QED BY <1>4, <1>5, <1>6, <3>1
    <2>2. CASE ~ (i <= k)
      <3>1. i - k \in 1..m /\ k + (i - k) = i
        BY <1>1, <1>6, <2>2
      <3>2. d[k + (i - k)] = bytes[i - k] /\ u[k + (i - k)] = bytes[i - k]
        BY <1>5, <1>6, <3>1, Zenon
      <3> QED BY <3>1, <3>2, Zenon
    <2> QED BY <2>1, <2>2
  <1>8. Len(u) <= Len(d)
    BY <1>1, <1>5, <1>6
  <1>9. Starts(d, u)
    BY <1>7, <1>8, Zenon DEF Starts
  <1> QED BY <1>9, Zenon DEF d, u, k

(* Bytes put amid what a buffer begins with, as many as were there. *)
LEMMA OverwriteAmid ==
  ASSUME NEW data \in Seq(ByteSet), NEW s \in Seq(ByteSet), NEW z \in Seq(ByteSet),
         NEW l \in Seq(ByteSet), NEW b \in Seq(ByteSet), NEW m \in Nat,
         Len(l) = m, Len(z) = m, Starts(data, (s \o z) \o b)
  PROVE  Starts(Overwrite(data, Len(s), l), (s \o l) \o b)
  <1> DEFINE k == Len(s)
             n == Len(data)
             d == Overwrite(data, k, l)
             sz == s \o z
             sl == s \o l
             u == sz \o b
             v == sl \o b
             j == Len(b)
  <1>1. k \in Nat /\ n \in Nat /\ j \in Nat
    OBVIOUS
  <1>2. /\ sz \in Seq(ByteSet) /\ IsConcat(sz, s, z)
        /\ sl \in Seq(ByteSet) /\ IsConcat(sl, s, l)
    BY Concat, Zenon
  <1> HIDE DEF sz, sl, k, n, j
  <1>3. u \in Seq(ByteSet) /\ IsConcat(u, sz, b) /\ v \in Seq(ByteSet) /\ IsConcat(v, sl, b)
    BY <1>2, Concat, Zenon
  <1> HIDE DEF u, v
  <1>4. Starts(data, u)
    BY Zenon DEF u, sz
  <1>5. Len(sz) = k + m /\ Len(sl) = k + m
    <2>1. Len(sz) = Len(s) + Len(z) /\ Len(sl) = Len(s) + Len(l)
      BY <1>2, Zenon DEF IsConcat
    <2> QED BY <2>1, Zenon DEF k
  <1>6. /\ \A i \in 1..k : sz[i] = s[i] /\ sl[i] = s[i]
        /\ \A i \in 1..m : sl[k + i] = l[i]
    BY <1>2 DEF IsConcat, k
  <1>7. Len(u) = (k + m) + j /\ Len(v) = (k + m) + j
    <2>1. Len(u) = Len(sz) + Len(b) /\ Len(v) = Len(sl) + Len(b)
      BY <1>3, Zenon DEF IsConcat
    <2> QED BY <1>5, <2>1, Zenon DEF j
  <1>8. /\ \A i \in 1..(k + m) : u[i] = sz[i] /\ v[i] = sl[i]
        /\ \A i \in 1..j : u[(k + m) + i] = b[i] /\ v[(k + m) + i] = b[i]
    BY <1>3, <1>5 DEF IsConcat, j
  <1>9. Len(u) <= n /\ \A i \in 1..Len(u) : data[i] = u[i]
    BY <1>4, Zenon DEF Starts, n
  <1>10. d \in Seq(ByteSet) /\ IsOverwritten(d, data, k, l)
    <2>1. k + Len(l) <= Len(data)
      BY <1>1, <1>7, <1>9 DEF n
    <2> QED BY <1>1, <2>1, OverwriteIs
  <1> HIDE DEF d
  <1>11. /\ Len(d) = n /\ \A i \in 1..m : d[k + i] = l[i]
         /\ \A i \in 1..n : i \notin (k + 1)..(k + m) => d[i] = data[i]
    BY <1>10 DEF IsOverwritten, n
  <1>12. \A i \in 1..Len(v) : d[i] = v[i]
    <2> TAKE i \in 1..Len(v)
    <2>0. i \in 1..n /\ i \in 1..Len(u)
      BY <1>1, <1>7, <1>9
    <2>1. CASE i <= k
      <3>1. i \in 1..k /\ i \in 1..(k + m) /\ i \notin (k + 1)..(k + m)
        BY <1>1, <1>7, <2>1
      <3>2. d[i] = u[i] /\ u[i] = sz[i] /\ v[i] = sl[i] /\ sz[i] = sl[i]
        BY <1>6, <1>8, <1>9, <1>11, <2>0, <3>1
      <3> QED BY <3>2
    <2>2. CASE i > k /\ i <= k + m
      <3>1. i - k \in 1..m /\ k + (i - k) = i /\ i \in 1..(k + m)
        BY <1>1, <1>7, <2>2
      <3>2. d[k + (i - k)] = l[i - k] /\ sl[k + (i - k)] = l[i - k]
        BY <1>6, <1>11, <3>1, Zenon
      <3>3. v[i] = sl[i]
        BY <1>8, <3>1
      <3> QED BY <3>1, <3>2, <3>3, Zenon
    <2>3. CASE i > k + m
      <3> DEFINE x == i - (k + m)
      <3>1. x \in 1..j /\ (k + m) + x = i /\ i \notin (k + 1)..(k + m)
        BY <1>1, <1>7, <2>3
      <3> HIDE DEF x
      <3>2. u[(k + m) + x] = b[x] /\ v[(k + m) + x] = b[x]
        BY <1>8, <3>1, Zenon
      <3>3. u[i] = v[i]
        BY <3>1, <3>2, Zenon
      <3>4. d[i] = u[i]
        BY <1>9, <1>11, <2>0, <3>1
      <3> QED BY <3>3, <3>4, Zenon
    <2> QED BY <1>1, <1>7, <2>1, <2>2, <2>3
  <1>13. Len(v) <= Len(d)
    BY <1>7, <1>9, <1>11
  <1>14. Starts(d, v)
    BY <1>12, <1>13, Zenon DEF Starts
  <1> QED BY <1>14, Zenon DEF d, v, sl, k

(* A writer's buffer is a sequence of bytes. *)
LEMMA WriterData ==
  ASSUME NEW q \in Writers
  PROVE  /\ q.data \in Seq(ByteSet) /\ Len(q.data) = Cap
         /\ q.pos \in 0..Cap /\ q.info \in Infos /\ Cap \in Nat
  <1>1. Cap \in Nat
    BY StreamAssumption
  <1>2. q.data \in [1..Cap -> ByteSet] /\ q.pos \in 0..Cap /\ q.info \in Infos
    BY DEF Writers, ByteSet
  <1> DEFINE d == q.data
  <1> HIDE DEF d
  <1>3. d \in Seq(ByteSet) /\ Len(d) = Cap
    BY <1>1, <1>2 DEF d
  <1> QED BY <1>1, <1>2, <1>3 DEF d

(* A writer's parts. *)
IsWriter(q, info, d, p) == q \in Writers /\ q.info = info /\ q.data = d /\ q.pos = p

(* What changes a writer's buffer, cursor or info to such keeps a writer.  *)
LEMMA WriterWith ==
  ASSUME NEW q \in Writers
  PROVE  /\ \A i \in Infos : IsWriter([q EXCEPT !.info = i], i, q.data, q.pos)
         /\ \A d \in Seq(ByteSet) : Len(d) = Cap =>
              IsWriter([q EXCEPT !.data = d], q.info, d, q.pos)
         /\ \A d \in Seq(ByteSet), p \in 0..Cap : Len(d) = Cap =>
              IsWriter([q EXCEPT !.data = d, !.pos = p], q.info, d, p)
  <1> DEFINE D == [1..Cap -> 0..(Base - 1)]
             P == 0..Cap
  <1>1. ASSUME NEW d \in Seq(ByteSet), Len(d) = Cap
        PROVE  d \in D
    <2>1. d \in [1..Len(d) -> ByteSet]
      OBVIOUS
    <2> QED BY <1>1, <2>1, Zenon DEF ByteSet
  <1>2. Writers = [info : Infos, data : D, pos : P]
    BY DEF Writers
  <1> HIDE DEF D, P
  <1>3. \A i \in Infos : IsWriter([q EXCEPT !.info = i], i, q.data, q.pos)
    BY <1>2 DEF IsWriter
  <1>4. \A d \in D : IsWriter([q EXCEPT !.data = d], q.info, d, q.pos)
    BY <1>2 DEF IsWriter
  <1>5. \A d \in D, p \in P : IsWriter([q EXCEPT !.data = d, !.pos = p], q.info, d, p)
    BY <1>2 DEF IsWriter
  <1> QED BY <1>1, <1>3, <1>4, <1>5, Zenon DEF P

(* What is in the buffer of a writer that has met no error. *)
IsFilled(q, c) == q.info = "OK" => Starts(q.data, c) /\ q.pos = Len(c)

(* A write puts its bytes behind what is there, or fails and puts nothing. *)
LEMMA PutIs ==
  ASSUME NEW q \in Writers, NEW bytes \in Seq(ByteSet), NEW c \in Seq(ByteSet),
         IsFilled(q, c)
  PROVE  /\ Put(q, bytes) \in Writers
         /\ IsFilled(Put(q, bytes), c \o bytes)
         /\ \/ q.info = "OK" /\ Put(q, bytes).info = "OK"
            \/ Put(q, bytes).info # "OK" /\ Put(q, bytes).data = q.data
  <1> DEFINE k == Len(bytes)
             info == Check(q.info, k, Cap, q.pos)
             d == Overwrite(q.data, q.pos, bytes)
             p == q.pos + k
             x == Put(q, bytes)
  <1>1. /\ q.data \in Seq(ByteSet) /\ Len(q.data) = Cap
        /\ q.pos \in 0..Cap /\ q.info \in Infos /\ Cap \in Nat
    BY WriterData
  <1>2. k \in Nat
    OBVIOUS
  <1>3. info \in Infos
    BY <1>1 DEF Check, Infos
  <1>4. info = "OK" => q.info = "OK" /\ k <= Cap /\ q.pos <= Cap - k
    BY <1>1, <1>2 DEF Check
  <1>5. CASE info # "OK"
    <2>1. x = [q EXCEPT !.info = info]
      BY <1>5, Zenon DEF Put
    <2> HIDE DEF x, info
    <2>2. x \in Writers /\ x.info = info /\ x.data = q.data
      <3>1. IsWriter(x, info, q.data, q.pos)
        BY <1>3, <2>1, WriterWith, Zenon
      <3> QED BY <3>1, Zenon DEF IsWriter
    <2>3. IsFilled(x, c \o bytes)
      BY <1>5, <2>2, Zenon DEF IsFilled
    <2> QED BY <1>5, <2>2, <2>3, Zenon DEF x
  <1>6. CASE info = "OK"
    <2>1. x = [q EXCEPT !.data = d, !.pos = p]
      <3>1. x = [q EXCEPT !.data = Overwrite(@, q.pos, bytes), !.pos = @ + Len(bytes)]
        BY <1>6, Zenon DEF Put
      <3> QED BY <3>1
    <2>2. p \in 0..Cap /\ q.pos + k <= Len(q.data)
      BY <1>1, <1>2, <1>4, <1>6
    <2>3. Starts(q.data, c) /\ q.pos = Len(c)
      BY <1>4, <1>6, Zenon DEF IsFilled
    <2>4. d \in Seq(ByteSet) /\ IsOverwritten(d, q.data, q.pos, bytes)
      BY <1>1, <2>2, OverwriteIs
    <2>5. Len(d) = Cap
      <3> HIDE DEF d
      <3> QED BY <1>1, <2>4, Zenon DEF IsOverwritten
    <2>6. Starts(d, c \o bytes)
      <3> DEFINE y == q.data
      <3>1. Starts(Overwrite(y, Len(c), bytes), c \o bytes)
        <4>1. y \in Seq(ByteSet) /\ Starts(y, c) /\ Len(c) + Len(bytes) <= Len(y)
          BY <1>1, <2>2, <2>3
        <4> HIDE DEF y
        <4> QED BY <4>1, OverwriteBehind
      <3> QED BY <2>3, <3>1, Zenon
    <2>7. Len(c \o bytes) = p
      BY <2>3, Places
    <2> HIDE DEF x, d, p, info
    <2>8. x \in Writers /\ x.info = q.info /\ x.data = d /\ x.pos = p
      <3>1. IsWriter(x, q.info, d, p)
        BY <2>1, <2>2, <2>4, <2>5, WriterWith, Zenon
      <3> QED BY <3>1, Zenon DEF IsWriter
    <2>9. IsFilled(x, c \o bytes)
      BY <2>6, <2>7, <2>8, Zenon DEF IsFilled
    <2> QED BY <1>4, <1>6, <2>8, <2>9, Zenon DEF x
  <1> QED BY <1>5, <1>6

-----------------------------------------------------------------------------
(* The sender.                                                             *)

(* The frames' bytes, and behind them those of the frame that is open. *)
Laid(m, open, frames) ==
  IF m = NoFrame THEN FramedAll(frames)
                 ELSE (FramedAll(frames) \o Encode(0, 2)) \o BodyOf(open)

(* Two bytes tell how long each body is. *)
Fit(frames) == \A i \in 1..Len(frames) : Len(BodyOf(frames[i])) < Place(2)

(* The writer q carries frames, and one that is open from m on. *)
Batched(q, m, open, frames) ==
  /\ q \in Writers /\ m \in 0..Cap \cup {NoFrame}
  /\ open \in FrameSet /\ frames \in Seq(FrameSet)
  /\ Starts(q.data, FramedAll(frames))
  /\ IsFilled(q, Laid(m, open, frames))
  /\ m # NoFrame /\ q.info = "OK" => m = Len(FramedAll(frames))
  /\ Fit(frames)

(* The two bytes a frame begins with. *)
LEMMA TwoBytes ==
  ASSUME NEW v \in Nat
  PROVE  Encode(v, 2) \in Seq(ByteSet) /\ Len(Encode(v, 2)) = 2
  <1> DEFINE n == 2
  <1>1. n \in Nat
    OBVIOUS
  <1> HIDE DEF n
  <1>2. Encode(v, n) \in Seq(ByteSet) /\ Len(Encode(v, n)) = n
    BY <1>1, EncodeType, Zenon
  <1> QED BY <1>2, Zenon DEF n

(* What is laid in a buffer is bytes. *)
LEMMA Pieces ==
  /\ \A b \in FrameSet : BodyOf(b) \in Seq(ByteSet)
  /\ \A fs \in Seq(FrameSet) : FramedAll(fs) \in Seq(ByteSet)
  /\ Encode(0, 2) \in Seq(ByteSet) /\ Len(Encode(0, 2)) = 2
  <1>1. \A b \in FrameSet : BodyOf(b) \in Seq(ByteSet)
    BY Bodies, Zenon DEF FrameSet
  <1>2. \A fs \in Seq(FrameSet) : FramedAll(fs) \in Seq(ByteSet)
    BY Framings, Zenon
  <1>3. Encode(0, 2) \in Seq(ByteSet) /\ Len(Encode(0, 2)) = 2
    <2> DEFINE v == 0
    <2>1. v \in Nat
      OBVIOUS
    <2> HIDE DEF v
    <2>2. Encode(v, 2) \in Seq(ByteSet) /\ Len(Encode(v, 2)) = 2
      BY <2>1, TwoBytes, Zenon
    <2> QED BY <2>2, Zenon DEF v
  <1> QED BY <1>1, <1>2, <1>3, Zenon

(* What the open frame is laid behind. *)
LEMMA LaidIs ==
  ASSUME NEW m, NEW open \in FrameSet, NEW frames \in Seq(FrameSet)
  PROVE  /\ Laid(m, open, frames) \in Seq(ByteSet)
         /\ \A d \in Seq(ByteSet) : Starts(d, Laid(m, open, frames)) => Starts(d, FramedAll(frames))
  <1> DEFINE p == FramedAll(frames)
             z == Encode(0, 2)
             b == BodyOf(open)
  <1>1. p \in Seq(ByteSet) /\ b \in Seq(ByteSet) /\ z \in Seq(ByteSet)
    BY Pieces, Zenon
  <1> HIDE DEF p, z, b
  <1>2. p \o z \in Seq(ByteSet)
    BY <1>1, Concat, Zenon
  <1>3. (p \o z) \o b \in Seq(ByteSet)
    BY <1>1, <1>2, Concat, Zenon
  <1>4. \A d \in Seq(ByteSet) : Starts(d, (p \o z) \o b) => Starts(d, p)
    BY <1>1, <1>2, StartsFirst, Zenon
  <1> QED BY <1>1, <1>3, <1>4, Zenon DEF Laid, p, z, b

(* A write goes behind the fields of the open frame. *)
LEMMA BatchedWrite ==
  ASSUME NEW q, NEW m, NEW b, NEW fs, Batched(q, m, b, fs), m # NoFrame, NEW f \in Fields
  PROVE  Batched(Put(q, BytesOf(f)), m, Append(b, f), fs)
  <1> DEFINE x == Put(q, BytesOf(f))
             t == BytesOf(f)
             c == Laid(m, b, fs)
             e == Laid(m, Append(b, f), fs)
  <1>1. /\ q \in Writers /\ m \in 0..Cap \cup {NoFrame}
        /\ b \in FrameSet /\ fs \in Seq(FrameSet)
        /\ Starts(q.data, FramedAll(fs))
        /\ IsFilled(q, c)
        /\ m # NoFrame /\ q.info = "OK" => m = Len(FramedAll(fs))
        /\ Fit(fs)
    BY Zenon DEF Batched
  <1>2. t \in Seq(ByteSet)
    BY FieldRead, Zenon
  <1>3. c \in Seq(ByteSet)
    BY <1>1, LaidIs, Zenon
  <1>4. Append(b, f) \in FrameSet
    BY <1>1 DEF FrameSet
  <1>5. e = c \o t
    <2> DEFINE p == FramedAll(fs)
               z == Encode(0, 2)
               y == BodyOf(b)
               u == p \o z
    <2>1. p \in Seq(ByteSet) /\ y \in Seq(ByteSet) /\ z \in Seq(ByteSet)
      BY <1>1, Pieces, Zenon
    <2>2. BodyOf(Append(b, f)) = y \o t
      BY <1>1, Bodies, Zenon DEF FrameSet
    <2>3. u \in Seq(ByteSet)
      BY <2>1, Concat, Zenon
    <2>4. c = u \o y /\ e = u \o BodyOf(Append(b, f))
      BY Zenon DEF Laid
    <2> HIDE DEF u, y, t, c, e
    <2>5. Associates(u, y, t)
      BY <1>2, <2>1, <2>3, Association, Zenon
    <2>6. (u \o y) \o t = u \o (y \o t)
      BY <2>5, Zenon DEF Associates
    <2> QED BY <2>2, <2>4, <2>6, Zenon
  <1> HIDE DEF c, e, t
  <1>6. /\ x \in Writers /\ IsFilled(x, c \o t)
        /\ \/ q.info = "OK" /\ x.info = "OK"
           \/ x.info # "OK" /\ x.data = q.data
    BY <1>1, <1>2, <1>3, PutIs, Zenon DEF t
  <1> HIDE DEF x
  <1>7. IsFilled(x, e)
    BY <1>5, <1>6, Zenon
  <1>8. Starts(x.data, FramedAll(fs))
    <2>1. CASE x.info = "OK"
      <3>1. Starts(x.data, e)
        BY <1>7, <2>1, Zenon DEF IsFilled
      <3>2. x.data \in Seq(ByteSet)
        BY <1>6, WriterData, Zenon
      <3> QED BY <1>1, <1>4, <3>1, <3>2, LaidIs, Zenon DEF e
    <2>2. CASE x.info # "OK"
      BY <1>1, <1>6, <2>2, Zenon
    <2> QED BY <2>1, <2>2
  <1>9. m # NoFrame /\ x.info = "OK" => m = Len(FramedAll(fs))
    BY <1>1, <1>6, Zenon
  <1> QED BY <1>1, <1>4, <1>6, <1>7, <1>8, <1>9, Zenon DEF Batched, x, e, t

(* A frame begins behind those that were ended. *)
LEMMA BatchedBegin ==
  ASSUME NEW q, NEW b, NEW fs, Batched(q, NoFrame, b, fs),
         NEW x, x = Put(q, Encode(0, 2)), NEW m, m = IF x.info = "OK" THEN q.pos ELSE 0
  PROVE  Batched(x, m, << >>, fs)
  <1> DEFINE p == FramedAll(fs)
             z == Encode(0, 2)
             e == Laid(m, << >>, fs)
  <1>1. /\ q \in Writers /\ fs \in Seq(FrameSet)
        /\ Starts(q.data, p) /\ IsFilled(q, p) /\ Fit(fs)
    BY Zenon DEF Batched, Laid
  <1>2. p \in Seq(ByteSet) /\ z \in Seq(ByteSet)
    BY <1>1, Pieces, Zenon
  <1>3. << >> \in FrameSet
    BY DEF FrameSet
  <1> HIDE DEF p, z
  <1>4. /\ x \in Writers /\ IsFilled(x, p \o z)
        /\ \/ q.info = "OK" /\ x.info = "OK"
           \/ x.info # "OK" /\ x.data = q.data
    BY <1>1, <1>2, PutIs, Zenon DEF z
  <1>5. m \in 0..Cap /\ m # NoFrame
    <2>1. q.pos \in 0..Cap /\ Cap \in Nat
      BY <1>1, WriterData, Zenon
    <2> QED BY <2>1 DEF NoFrame
  <1>6. e = p \o z
    <2>1. p \o z \in Seq(ByteSet)
      BY <1>2, Concat, Zenon
    <2> DEFINE u == p \o z
    <2>2. e = u \o << >>
      BY <1>5, Bodies, Zenon DEF Laid, p, z
    <2> HIDE DEF u
    <2>3. u \o << >> = u
      BY <2>1 DEF u
    <2> QED BY <2>2, <2>3, Zenon DEF u
  <1>7. IsFilled(x, e)
    BY <1>4, <1>6, Zenon
  <1>8. Starts(x.data, p)
    <2>1. CASE x.info = "OK"
      <3>1. Starts(x.data, p \o z)
        BY <1>4, <2>1, Zenon DEF IsFilled
      <3>2. x.data \in Seq(ByteSet)
        BY <1>4, WriterData, Zenon
      <3> QED BY <1>2, <3>1, <3>2, StartsFirst, Zenon
    <2>2. CASE x.info # "OK"
      BY <1>1, <1>4, <2>2, Zenon
    <2> QED BY <2>1, <2>2
  <1>9. m # NoFrame /\ x.info = "OK" => m = Len(FramedAll(fs))
    BY <1>1, <1>4, Zenon DEF IsFilled, p
  <1>10. m \in 0..Cap \cup {NoFrame}
    BY <1>5
  <1> HIDE DEF e
  <1> QED BY <1>1, <1>3, <1>4, <1>7, <1>8, <1>9, <1>10, Zenon DEF Batched, e, p

(* A frame that is ended is laid as frames are. *)
LEMMA BatchedEnd ==
  ASSUME NEW q, NEW m, NEW b, NEW fs, Batched(q, m, b, fs), m # NoFrame,
         NEW x, x = Patched(q, m)
  PROVE  Batched(x, NoFrame, b, IF x.info = "OK" THEN Append(fs, b) ELSE fs)
  <1> DEFINE p == FramedAll(fs)
             z == Encode(0, 2)
             y == BodyOf(b)
             c == (p \o z) \o y
             n == Len(y)
             length == q.pos - m - 2
             l == Encode(n, 2)
             d == Overwrite(q.data, m, Encode(length, 2))
             gs == Append(fs, b)
  <1>1. /\ q \in Writers /\ m \in 0..Cap \cup {NoFrame}
        /\ b \in FrameSet /\ fs \in Seq(FrameSet)
        /\ Starts(q.data, p) /\ IsFilled(q, c)
        /\ q.info = "OK" => m = Len(p)
        /\ Fit(fs)
    BY Zenon DEF Batched, Laid
  <1>2. p \in Seq(ByteSet) /\ y \in Seq(ByteSet) /\ z \in Seq(ByteSet) /\ Len(z) = 2
    BY <1>1, Pieces, Zenon
  <1>3. NoFrame \in 0..Cap \cup {NoFrame}
    OBVIOUS
  <1>4. CASE x = [q EXCEPT !.info = "FRAME_TOO_LARGE"]
    <2>1. IsWriter(x, "FRAME_TOO_LARGE", q.data, q.pos)
      <3>1. "FRAME_TOO_LARGE" \in Infos
        BY DEF Infos
      <3> QED BY <1>1, <1>4, <3>1, WriterWith, Zenon
    <2>2. x \in Writers /\ x.info = "FRAME_TOO_LARGE" /\ x.data = q.data
      BY <2>1, Zenon DEF IsWriter
    <2>3. "FRAME_TOO_LARGE" # "OK"
      OBVIOUS
    <2>4. IsFilled(x, Laid(NoFrame, b, fs))
      BY <2>2, <2>3, Zenon DEF IsFilled
    <2>5. (IF x.info = "OK" THEN Append(fs, b) ELSE fs) = fs
      BY <2>2, <2>3, Zenon
    <2>6. Batched(x, NoFrame, b, fs)
      BY <1>1, <1>3, <2>2, <2>4, Zenon DEF Batched, p
    <2> QED BY <2>5, <2>6, Zenon
  <1>5. CASE q.info # "OK" /\ x = q
    <2>1. IsFilled(x, Laid(NoFrame, b, fs))
      BY <1>5, Zenon DEF IsFilled
    <2>2. (IF x.info = "OK" THEN Append(fs, b) ELSE fs) = fs
      BY <1>5, Zenon
    <2>3. Batched(x, NoFrame, b, fs)
      BY <1>1, <1>3, <1>5, <2>1, Zenon DEF Batched, p
    <2> QED BY <2>2, <2>3, Zenon
  <1>6. CASE /\ q.info = "OK" /\ ~ (length > Place(2) - 1)
             /\ x = [q EXCEPT !.data = d]
    <2>1. /\ q.data \in Seq(ByteSet) /\ Len(q.data) = Cap
          /\ q.pos \in 0..Cap /\ Cap \in Nat
      BY <1>1, WriterData, Zenon
    <2>2. m = Len(p) /\ Starts(q.data, c) /\ q.pos = Len(c)
      BY <1>1, <1>6, Zenon DEF IsFilled
    <2> HIDE DEF p, z, y
    <2>3. n \in Nat /\ Len(p) \in Nat
      BY <1>2
    <2>4. c \in Seq(ByteSet) /\ Len(c) = Len(p) + 2 + n
      <3> DEFINE u == p \o z
      <3>1. u \in Seq(ByteSet) /\ IsConcat(u, p, z)
        BY <1>2, Concat, Zenon
      <3> HIDE DEF u
      <3>2. Len(u) = Len(p) + 2
        BY <1>2, <3>1 DEF IsConcat
      <3> DEFINE v == u \o y
      <3>3. v \in Seq(ByteSet) /\ IsConcat(v, u, y)
        BY <1>2, <3>1, Concat, Zenon
      <3> HIDE DEF v
      <3>4. Len(v) = Len(p) + 2 + n
        BY <2>3, <3>2, <3>3 DEF IsConcat
      <3> QED BY <3>3, <3>4, Zenon DEF u, v
    <2>5. length = n
      BY <2>2, <2>3, <2>4
    <2>6. n < Place(2)
      <3>1. Place(2) \in Nat
        BY PlaceValues
      <3> QED BY <1>6, <2>3, <2>5, <3>1
    <2>7. l \in Seq(ByteSet) /\ Len(l) = 2
      BY <2>3, TwoBytes, Zenon
    <2> HIDE DEF n, l, length, c
    <2>8. d = Overwrite(q.data, Len(p), l)
      BY <2>2, <2>5, Zenon DEF l, n
    <2>9. d \in Seq(ByteSet) /\ IsOverwritten(d, q.data, Len(p), l)
      <3>1. Len(p) + Len(l) <= Len(q.data)
        BY <2>1, <2>2, <2>3, <2>4, <2>7
      <3> HIDE DEF d
      <3> QED BY <2>1, <2>3, <2>7, <2>8, <3>1, OverwriteIs
    <2>10. Starts(d, (p \o l) \o y)
      <3> DEFINE e == q.data
                 k == 2
      <3>1. /\ k \in Nat /\ e \in Seq(ByteSet) /\ Len(l) = k /\ Len(z) = k
            /\ Starts(e, (p \o z) \o y)
        BY <1>2, <2>1, <2>2, <2>7 DEF c
      <3> HIDE DEF e, k
      <3>2. Starts(Overwrite(e, Len(p), l), (p \o l) \o y)
        BY <1>2, <2>7, <3>1, OverwriteAmid
      <3> QED BY <2>8, <3>2, Zenon DEF e
    <2> HIDE DEF d
    <2>11. (p \o l) \o y = p \o (l \o y)
      <3>1. Associates(p, l, y)
        BY <1>2, <2>7, Association, Zenon
      <3> QED BY <3>1, Zenon DEF Associates
    <2>12. FramedAll(gs) = p \o (l \o y) /\ gs \in Seq(FrameSet)
      <3>1. gs \in Seq(FrameSet)
        BY <1>1
      <3>2. FramedAll(gs) = p \o Framed(b)
        BY <1>1, Framings, Zenon DEF p
      <3>3. Framed(b) = l \o y
        BY Zenon DEF Framed, l, n, y
      <3> QED BY <3>1, <3>2, <3>3, Zenon
    <2>13. Starts(d, FramedAll(gs))
      BY <2>10, <2>11, <2>12, Zenon
    <2>14. Len(FramedAll(gs)) = q.pos
      <3> DEFINE u == l \o y
      <3>1. u \in Seq(ByteSet) /\ IsConcat(u, l, y)
        BY <1>2, <2>7, Concat, Zenon
      <3> HIDE DEF u
      <3>2. Len(u) = 2 + n
        BY <2>7, <3>1 DEF IsConcat, n
      <3> DEFINE v == p \o u
      <3>3. v \in Seq(ByteSet) /\ IsConcat(v, p, u)
        BY <1>2, <3>1, Concat, Zenon
      <3> HIDE DEF v
      <3>4. Len(v) = Len(p) + (2 + n)
        BY <3>2, <3>3 DEF IsConcat
      <3>5. Len(v) = q.pos
        BY <2>2, <2>3, <2>4, <3>4 DEF n
      <3> QED BY <2>12, <3>5, Zenon DEF u, v
    <2>15. x \in Writers /\ x.info = q.info /\ x.data = d /\ x.pos = q.pos
      <3>1. Len(d) = Cap
        BY <2>1, <2>9, Zenon DEF IsOverwritten
      <3>2. IsWriter(x, q.info, d, q.pos)
        BY <1>1, <1>6, <2>9, <3>1, WriterWith, Zenon
      <3> QED BY <3>2, Zenon DEF IsWriter
    <2>16. Fit(gs)
      <3>1. Len(gs) = Len(fs) + 1 /\ gs[Len(fs) + 1] = b
            /\ \A i \in 1..Len(fs) : gs[i] = fs[i]
        BY <1>1
      <3>2. \A i \in 1..Len(fs) : Len(BodyOf(fs[i])) < Place(2)
        BY <1>1, Zenon DEF Fit
      <3>3. Len(BodyOf(b)) < Place(2)
        BY <2>6 DEF n, y
      <3>4. Len(fs) \in Nat
        BY <1>1
      <3> HIDE DEF gs
      <3> SUFFICES ASSUME NEW i \in 1..Len(gs)
                   PROVE  Len(BodyOf(gs[i])) < Place(2)
        BY Zenon DEF Fit
      <3>5. CASE i = Len(fs) + 1
        BY <3>1, <3>3, <3>5, Zenon
      <3>6. CASE i # Len(fs) + 1
        <4>1. i \in 1..Len(fs)
          BY <3>1, <3>4, <3>6
        <4> QED BY <3>1, <3>2, <4>1, Zenon
      <3> QED BY <3>5, <3>6
    <2>17. IsFilled(x, Laid(NoFrame, b, gs))
      BY <2>13, <2>14, <2>15, Zenon DEF IsFilled, Laid
    <2>18. Batched(x, NoFrame, b, gs)
      BY <1>1, <1>3, <2>12, <2>13, <2>15, <2>16, <2>17, Zenon DEF Batched
    <2> QED BY <1>6, <2>15, <2>18, Zenon
  <1>7. \/ x = [q EXCEPT !.info = "FRAME_TOO_LARGE"]
        \/ q.info # "OK" /\ x = q
        \/ q.info = "OK" /\ ~ (length > Place(2) - 1) /\ x = [q EXCEPT !.data = d]
    <2>1. CASE q.info # "OK"
      BY <2>1, Zenon DEF Patched
    <2>2. CASE q.info = "OK" /\ length > Place(2) - 1
      BY <2>2, Zenon DEF Patched
    <2>3. CASE q.info = "OK" /\ ~ (length > Place(2) - 1)
      <3>1. x = [q EXCEPT !.data = Overwrite(@, m, Encode(length, 2))]
        BY <2>3, Zenon DEF Patched
      <3> QED BY <2>3, <3>1
    <2> QED BY <2>1, <2>2, <2>3, Zenon
  <1> QED BY <1>4, <1>5, <1>6, <1>7, Zenon

(* Nothing yet. *)
LEMMA BatchedNew ==
  Batched(NewWriter, NoFrame, << >>, << >>)
  <1> DEFINE q == NewWriter
             none == << >>
  <1>1. Base \in Nat \ {0} /\ Cap \in Nat
    BY StreamAssumption
  <1>2. q \in Writers /\ q.pos = 0
    BY <1>1 DEF NewWriter, Writers, Infos
  <1>3. none \in FrameSet /\ none \in Seq(FrameSet)
    BY DEF FrameSet
  <1>4. FramedAll(none) = << >>
    BY Framings, Zenon
  <1>5. Starts(q.data, << >>)
    <2>1. q.data \in Seq(ByteSet)
      BY <1>2, WriterData, Zenon
    <2> QED BY <2>1 DEF Starts
  <1>6. Len(<< >>) = 0
    OBVIOUS
  <1> HIDE DEF q
  <1>7. IsFilled(q, Laid(NoFrame, none, none))
    BY <1>2, <1>4, <1>5, <1>6, Zenon DEF IsFilled, Laid
  <1>8. NoFrame \in 0..Cap \cup {NoFrame}
    OBVIOUS
  <1>9. Fit(none)
    BY DEF Fit
  <1> HIDE DEF none
  <1>10. Batched(q, NoFrame, none, none)
    BY <1>2, <1>3, <1>4, <1>5, <1>7, <1>8, <1>9, Zenon DEF Batched
  <1> QED BY <1>10, Zenon DEF q, none

(* Without an error a buffer is shipped with its frames, and nothing else. *)
LEMMA BatchedShipped ==
  ASSUME NEW q, NEW b, NEW fs, Batched(q, NoFrame, b, fs), q.info = "OK"
  PROVE  SubSeq(q.data, 1, q.pos) = FramedAll(fs)
  <1> DEFINE p == FramedAll(fs)
             d == q.data
             n == q.pos
             s == SubSeq(d, 0 + 1, n)
  <1>1. /\ q \in Writers /\ fs \in Seq(FrameSet) /\ IsFilled(q, p)
    BY Zenon DEF Batched, Laid
  <1>2. p \in Seq(ByteSet)
    BY <1>1, Pieces, Zenon
  <1>3. d \in Seq(ByteSet) /\ Len(d) = Cap /\ n \in 0..Cap /\ Cap \in Nat
    BY <1>1, WriterData, Zenon
  <1>4. Starts(d, p) /\ n = Len(p)
    BY <1>1, Zenon DEF IsFilled
  <1> HIDE DEF p, d, n
  <1>5. /\ s \in Seq(ByteSet) /\ Len(s) = n - 0
        /\ \A i \in 1..(n - 0) : s[i] = d[0 + i]
    <2>1. 0 \in Nat /\ n \in Nat /\ 0 <= n /\ n <= Len(d)
      BY <1>3
    <2> QED BY <1>3, <2>1, PieceOf
  <1>6. Len(s) = n /\ \A i \in 1..n : s[i] = d[i]
    BY <1>3, <1>5
  <1>7. \A i \in 1..n : d[i] = p[i]
    BY <1>4, Zenon DEF Starts
  <1> HIDE DEF s
  <1>8. s = p
    BY <1>2, <1>4, <1>5, <1>6, <1>7, SeqEqual
  <1>9. 0 + 1 = 1
    OBVIOUS
  <1> QED BY <1>8, <1>9 DEF s, p, d, n

(* What the sender's side holds at any time. *)
SenderInv ==
  /\ Batched(w, mark, body, batch)
  /\ batches \in 0..MaxBatches
  /\ batches = MaxBatches => mark = NoFrame /\ batch = << >>
  /\ shipped \in Seq(FrameSet) /\ Fit(shipped)
  /\ stream = FramedAll(shipped)

(* The sender's steps. *)
Sends ==
  /\ UNCHANGED receiver
  /\ (\E f \in Fields : Write(f)) \/ BeginFrame \/ EndFrame \/ Finish

(* Frames that fit, and others behind them. *)
LEMMA FitBoth ==
  ASSUME NEW fs \in Seq(FrameSet), NEW gs \in Seq(FrameSet), Fit(fs), Fit(gs)
  PROVE  fs \o gs \in Seq(FrameSet) /\ Fit(fs \o gs) /\ Starts(fs \o gs, fs)
  <1> DEFINE u == fs \o gs
             k == Len(fs)
             m == Len(gs)
  <1>1. u \in Seq(FrameSet) /\ IsConcat(u, fs, gs)
    BY Concat, Zenon
  <1>2. k \in Nat /\ m \in Nat
    OBVIOUS
  <1> HIDE DEF u
  <1>3. /\ Len(u) = k + m /\ \A i \in 1..k : u[i] = fs[i]
        /\ \A i \in 1..m : u[k + i] = gs[i]
    BY <1>1 DEF IsConcat
  <1> HIDE DEF k, m
  <1>4. /\ \A i \in 1..k : Len(BodyOf(fs[i])) < Place(2)
        /\ \A i \in 1..m : Len(BodyOf(gs[i])) < Place(2)
    BY Zenon DEF Fit, k, m
  <1>5. ASSUME NEW i \in 1..Len(u)
        PROVE  Len(BodyOf(u[i])) < Place(2)
    <2>1. CASE i <= k
      <3>1. i \in 1..k
        BY <1>2, <1>3, <2>1
      <3> QED BY <1>3, <1>4, <3>1, Zenon
    <2>2. CASE ~ (i <= k)
      <3>1. i - k \in 1..m /\ k + (i - k) = i
        BY <1>2, <1>3, <2>2
      <3>2. u[k + (i - k)] = gs[i - k]
        BY <1>3, <3>1, Zenon
      <3>3. u[i] = gs[i - k]
        BY <3>1, <3>2, Zenon
      <3> QED BY <1>4, <3>1, <3>3, Zenon
    <2> QED BY <2>1, <2>2
  <1>6. Fit(u)
    BY <1>5, Zenon DEF Fit
  <1>7. k <= Len(u)
    BY <1>2, <1>3
  <1>8. Starts(u, fs)
    BY <1>3, <1>7, Zenon DEF Starts, k
  <1> QED BY <1>1, <1>6, <1>8, Zenon DEF u

(* The sender begins with an empty buffer and an empty stream. *)
LEMMA SenderBegins ==
  StreamInit => SenderInv
  <1> SUFFICES ASSUME StreamInit
               PROVE  SenderInv
    OBVIOUS
  <1>1. /\ w = NewWriter /\ mark = NoFrame /\ body = << >> /\ batch = << >>
        /\ batches = 0 /\ stream = << >> /\ shipped = << >>
    BY Zenon DEF StreamInit
  <1>2. Batched(w, mark, body, batch)
    BY <1>1, BatchedNew, Zenon
  <1>3. batches \in 0..MaxBatches
    BY <1>1, StreamAssumption
  <1>4. shipped \in Seq(FrameSet) /\ Fit(shipped)
    BY <1>1 DEF Fit
  <1>5. stream = FramedAll(shipped)
    BY <1>1, Framings, Zenon
  <1> QED BY <1>1, <1>2, <1>3, <1>4, <1>5, Zenon DEF SenderInv

(* Its steps keep that, and only add to what was shipped. *)
LEMMA SenderSteps ==
  ASSUME SenderInv, Sends
  PROVE  SenderInv' /\ Starts(shipped', shipped) /\ Starts(stream', stream)
  <1>1. /\ Batched(w, mark, body, batch)
        /\ batches \in 0..MaxBatches
        /\ batches = MaxBatches => mark = NoFrame /\ batch = << >>
        /\ shipped \in Seq(FrameSet) /\ Fit(shipped)
        /\ stream = FramedAll(shipped)
    BY Zenon DEF SenderInv
  <1>2. stream \in Seq(ByteSet)
    BY <1>1, Pieces, Zenon
  <1>3. Starts(shipped, shipped) /\ Starts(stream, stream)
    BY <1>1, <1>2, StartsTrans, Zenon
  <1>4. MaxBatches \in Nat
    BY StreamAssumption
  <1>5. ASSUME NEW f \in Fields, Write(f)
        PROVE  SenderInv' /\ shipped' = shipped /\ stream' = stream
    <2>1. /\ mark # NoFrame /\ w' = Put(w, BytesOf(f)) /\ body' = Append(body, f)
          /\ mark' = mark /\ batch' = batch /\ batches' = batches
          /\ stream' = stream /\ shipped' = shipped
      BY <1>5, Zenon DEF Write
    <2>2. Batched(Put(w, BytesOf(f)), mark, Append(body, f), batch)
      BY <1>1, <2>1, BatchedWrite, Zenon
    <2>3. Batched(w', mark', body', batch')
      BY <2>1, <2>2, Zenon
    <2> QED BY <1>1, <2>1, <2>3, Zenon DEF SenderInv
  <1>6. ASSUME BeginFrame
        PROVE  SenderInv' /\ shipped' = shipped /\ stream' = stream
    <2>1. /\ mark = NoFrame /\ batches < MaxBatches /\ w' = Put(w, Encode(0, 2))
          /\ mark' = (IF w'.info = "OK" THEN w.pos ELSE 0) /\ body' = << >>
          /\ batch' = batch /\ batches' = batches
          /\ stream' = stream /\ shipped' = shipped
      BY <1>6, Zenon DEF BeginFrame
    <2>2. Batched(w, NoFrame, body, batch)
      BY <1>1, <2>1, Zenon
    <2>3. Batched(w', mark', << >>, batch)
      BY <2>1, <2>2, BatchedBegin, Zenon
    <2>4. Batched(w', mark', body', batch')
      BY <2>1, <2>3, Zenon
    <2>5. batches' # MaxBatches
      BY <1>1, <1>4, <2>1
    <2> QED BY <1>1, <2>1, <2>4, <2>5, Zenon DEF SenderInv
  <1>7. ASSUME EndFrame
        PROVE  SenderInv' /\ shipped' = shipped /\ stream' = stream
    <2>1. /\ mark # NoFrame /\ w' = Patched(w, mark) /\ mark' = NoFrame
          /\ batch' = (IF w'.info = "OK" THEN Append(batch, body) ELSE batch)
          /\ body' = body /\ batches' = batches
          /\ stream' = stream /\ shipped' = shipped
      BY <1>7, Zenon DEF EndFrame
    <2>2. Batched(w', NoFrame, body, IF w'.info = "OK" THEN Append(batch, body) ELSE batch)
      BY <1>1, <2>1, BatchedEnd, Zenon
    <2>3. Batched(w', mark', body', batch')
      BY <2>1, <2>2, Zenon
    <2>4. batches # MaxBatches
      BY <1>1, <2>1, Zenon
    <2> QED BY <1>1, <2>1, <2>3, <2>4, Zenon DEF SenderInv
  <1>8. ASSUME Finish
        PROVE  SenderInv' /\ Starts(shipped', shipped) /\ Starts(stream', stream)
    <2>1. /\ mark = NoFrame /\ (batch # << >> \/ w.info # "OK")
          /\ w' = NewWriter /\ body' = << >> /\ batch' = << >> /\ mark' = mark
      BY <1>8, Zenon DEF Finish
    <2>2. Batched(w', mark', body', batch')
      BY <2>1, BatchedNew, Zenon
    <2>3. CASE w.info # "OK"
      <3>1. stream' = stream /\ shipped' = shipped /\ batches' = batches
        BY <1>8, <2>3, Zenon DEF Finish
      <3> QED BY <1>1, <1>3, <2>1, <2>2, <3>1, Zenon DEF SenderInv
    <2>4. CASE w.info = "OK"
      <3>1. /\ stream' = stream \o SubSeq(w.data, 1, w.pos)
            /\ shipped' = shipped \o batch /\ batches' = batches + 1
        BY <1>8, <2>4, Zenon DEF Finish
      <3>2. Batched(w, NoFrame, body, batch)
        BY <1>1, <2>1, Zenon
      <3>3. batch \in Seq(FrameSet) /\ Fit(batch)
        BY <3>2, Zenon DEF Batched
      <3>4. stream' = FramedAll(shipped) \o FramedAll(batch)
        <4>1. SubSeq(w.data, 1, w.pos) = FramedAll(batch)
          BY <2>4, <3>2, BatchedShipped, Zenon
        <4> QED BY <1>1, <3>1, <4>1, Zenon
      <3>5. stream' = FramedAll(shipped')
        BY <1>1, <3>1, <3>3, <3>4, Framings, Zenon
      <3>6. shipped' \in Seq(FrameSet) /\ Fit(shipped') /\ Starts(shipped', shipped)
        BY <1>1, <3>1, <3>3, FitBoth, Zenon
      <3>7. Starts(stream', stream)
        BY <1>1, <3>5, <3>6, Framings, Zenon
      <3>8. batches' \in 0..MaxBatches
        <4>1. batches # MaxBatches
          BY <1>1, <2>1, <2>4, Zenon
        <4> QED BY <1>1, <1>4, <3>1, <4>1
      <3> QED BY <2>1, <2>2, <3>5, <3>6, <3>7, <3>8, Zenon DEF SenderInv
    <2> QED BY <2>3, <2>4
  <1> QED BY <1>3, <1>5, <1>6, <1>7, <1>8, Zenon DEF Sends

-----------------------------------------------------------------------------
(* The receiver.                                                           *)

(* The frame that comes behind rec. *)
NextFrame(rec, ships) == ships[Len(rec) + 1]

(* The cursor is behind the frames that were unpacked; where it is left    *)
(* with an error, not all of the next frame had arrived.                   *)
Waits(rd, rec, ships) ==
  /\ rd.from + rd.pos = Len(FramedAll(rec))
  /\ rd.info # "OK" =>
       /\ Len(rec) < Len(ships)
       /\ rd.len - rd.pos < Len(Framed(NextFrame(rec, ships)))

(* The cursor is behind the frame that is being unpacked, the cursor in it *)
(* behind the fields that were.                                            *)
Unpacks(rd, sb, g, rec, ships) ==
  /\ rd.info = "OK" /\ sb.info = "OK"
  /\ Len(rec) < Len(ships)
  /\ g \in FrameSet /\ Starts(NextFrame(rec, ships), g)
  /\ sb.from = Len(FramedAll(rec)) + 2
  /\ sb.len = Len(BodyOf(NextFrame(rec, ships)))
  /\ sb.pos = Len(BodyOf(g))
  /\ rd.from + rd.pos = Len(FramedAll(rec)) + Len(Framed(NextFrame(rec, ships)))

IsReader(rd) == rd \in Readers /\ rd.pos <= rd.len

ReceiverInv ==
  /\ received \in Seq(FrameSet) /\ Starts(shipped, received)
  /\ arrived \in 0..Len(stream) /\ r.from + r.len = arrived
  /\ IsReader(r) /\ IsReader(sub)
  /\ sub = NoSub => Waits(r, received, shipped)
  /\ sub # NoSub => Unpacks(r, sub, got, received, shipped)

(* A reader's fields. *)
LEMMA ReaderIs ==
  /\ \A i \in Infos, x \in Nat, l \in Nat, p \in Nat : p <= l =>
       IsReader([info |-> i, from |-> x, len |-> l, pos |-> p])
  /\ \A rd : IsReader(rd) =>
       /\ rd = [info |-> rd.info, from |-> rd.from, len |-> rd.len, pos |-> rd.pos]
       /\ rd.info \in Infos /\ rd.from \in Nat /\ rd.len \in Nat /\ rd.pos \in Nat
       /\ rd.pos <= rd.len
  BY DEF IsReader, Readers

(* Where the next frame is in the stream, and that it is one of those that *)
(* were shipped.                                                           *)
LEMMA NextIs ==
  ASSUME NEW ships \in Seq(FrameSet), NEW rec \in Seq(FrameSet), Starts(ships, rec),
         Len(rec) < Len(ships), NEW b, b = NextFrame(rec, ships)
  PROVE  /\ b \in FrameSet
         /\ Append(rec, b) \in Seq(FrameSet) /\ Starts(ships, Append(rec, b))
         /\ FramedAll(Append(rec, b)) = FramedAll(rec) \o Framed(b)
         /\ IsAt(FramedAll(ships), Len(FramedAll(rec)), Framed(b))
  <1>1. b \in FrameSet /\ Append(rec, b) \in Seq(FrameSet) /\ Starts(ships, Append(rec, b))
    BY StartsNext, Zenon DEF NextFrame
  <1>2. FramedAll(Append(rec, b)) = FramedAll(rec) \o Framed(b)
    BY <1>1, Framings, Zenon
  <1>3. Starts(FramedAll(ships), FramedAll(Append(rec, b)))
    BY <1>1, Framings, Zenon
  <1>4. /\ FramedAll(ships) \in Seq(ByteSet) /\ FramedAll(rec) \in Seq(ByteSet)
        /\ Framed(b) \in Seq(ByteSet)
    BY <1>1, Pieces, FrameIs, Zenon DEF FrameSet
  <1>5. IsAt(FramedAll(ships), Len(FramedAll(rec)), Framed(b))
    BY <1>2, <1>3, <1>4, AtBehind, Zenon
  <1> QED BY <1>1, <1>2, <1>5, Zenon

(* A frame's two bytes tell the length of its body, which is behind them.  *)
LEMMA InFrame ==
  ASSUME NEW b \in FrameSet, NEW s \in Seq(ByteSet), NEW n \in Nat, IsAt(s, n, Framed(b)),
         Len(BodyOf(b)) < Place(2), NEW m, m = n + 2
  PROVE  /\ Decode(SubSeq(s, n + 1, m)) = Len(BodyOf(b))
         /\ IsAt(s, m, BodyOf(b))
  <1> DEFINE u == Framed(b)
             y == BodyOf(b)
             k == Len(y)
             e == Encode(k, 2)
  <1>1. /\ u \in Seq(ByteSet) /\ k \in Nat /\ Len(u) = k + 2
        /\ \A i \in 1..k : u[2 + i] = y[i]
        /\ \A i \in 1..2 : u[i] = e[i]
    BY FrameIs DEF FrameSet
  <1>2. y \in Seq(ByteSet)
    BY Pieces, Zenon
  <1>3. e \in Seq(ByteSet) /\ Len(e) = 2
    BY <1>1, TwoBytes, Zenon
  <1>4. Decode(e) = k
    <2> DEFINE v == k
               j == 2
    <2>1. Place(j) \in Nat
      <3>1. j \in Nat
        OBVIOUS
      <3> HIDE DEF j
      <3> QED BY <3>1, PlaceValues, Zenon
    <2>2. j \in Nat /\ v \in 0..(Place(j) - 1)
      BY <1>1, <2>1
    <2> HIDE DEF v, j
    <2>3. Decode(Encode(v, j)) = v
      BY <2>2, RoundTrip
    <2> QED BY <2>3, Zenon DEF v, j
  <1>5. IsAt(s, n, u)
    OBVIOUS
  <1> HIDE DEF u, y, e
  <1>6. IsAt(u, 0, e) /\ IsAt(u, 2, y)
    BY <1>1, <1>3 DEF IsAt
  <1>7. IsAt(s, n + 0, e) /\ IsAt(s, n + 2, y)
    BY <1>1, <1>2, <1>3, <1>5, <1>6, AtWithin
  <1>8. IsAt(s, n, e)
    <2>1. n + 0 = n
      OBVIOUS
    <2> QED BY <1>7, <2>1, Zenon
  <1>9. SubSeq(s, n + 1, m) = e
    <2>1. EndsAt(m, n, e)
      BY <1>3 DEF EndsAt
    <2> QED BY <1>3, <1>8, <2>1, AtPiece, Zenon
  <1> QED BY <1>4, <1>7, <1>9, Zenon DEF k, y

IsNext(f, g, b) == f = b[Len(g) + 1]

(* The next field of a frame in the stream is where the ones before it     *)
(* end, as it was written.                                                 *)
LEMMA InBody ==
  ASSUME NEW b \in FrameSet, NEW s \in Seq(ByteSet), NEW n \in Nat, IsAt(s, n, BodyOf(b)),
         NEW g \in FrameSet, Starts(b, g), Len(g) < Len(b),
         NEW f, IsNext(f, g, b), NEW k, EndsAt(k, n, BodyOf(g)),
         NEW m, EndsAt(m, k, BytesOf(f))
  PROVE  /\ f \in Fields /\ Append(g, f) \in FrameSet /\ Starts(b, Append(g, f))
         /\ Len(BodyOf(Append(g, f))) = Len(BodyOf(g)) + Len(BytesOf(f))
         /\ Len(BodyOf(Append(g, f))) <= Len(BodyOf(b))
         /\ SubSeq(s, k + 1, m) = BytesOf(f)
  <1> DEFINE y == BodyOf(b)
             x == BodyOf(g)
             t == BytesOf(f)
             z == BodyOf(Append(g, f))
  <1>1. f \in Fields /\ Append(g, f) \in FrameSet /\ Starts(b, Append(g, f))
    BY StartsNext, Zenon DEF FrameSet, IsNext
  <1>2. y \in Seq(ByteSet) /\ x \in Seq(ByteSet) /\ z \in Seq(ByteSet) /\ t \in Seq(ByteSet)
    BY <1>1, Pieces, FieldRead, Zenon
  <1>3. z = x \o t
    BY <1>1, Bodies, Zenon DEF FrameSet
  <1>4. Starts(y, z)
    BY <1>1, Bodies, Zenon DEF FrameSet
  <1>5. IsAt(s, n, y)
    OBVIOUS
  <1> HIDE DEF x, y, z, t
  <1>6. Len(x) \in Nat /\ Len(t) \in Nat /\ k \in Nat
    BY <1>2 DEF x, EndsAt
  <1>7. Len(z) = Len(x) + Len(t)
    BY <1>2, <1>3, Places
  <1>8. Len(z) <= Len(y)
    BY <1>4, Zenon DEF Starts
  <1>9. IsAt(y, Len(x), t)
    BY <1>2, <1>3, <1>4, AtBehind, Zenon
  <1>10. IsAt(s, n + Len(x), t)
    BY <1>2, <1>5, <1>6, <1>9, AtWithin
  <1>11. SubSeq(s, k + 1, m) = t
    <2>1. EndsAt(m, k, t)
      BY Zenon DEF t
    <2>2. k = n + Len(x)
      BY Zenon DEF EndsAt, x
    <2>3. IsAt(s, k, t)
      BY <1>10, <2>2, Zenon
    <2> QED BY <1>2, <1>6, <2>1, <2>3, AtPiece, Zenon
  <1> QED BY <1>1, <1>7, <1>8, <1>11, Zenon DEF x, y, z, t

(* A read goes forward, or fails: then it asks for more than is left.      *)
SkipsTo(x, rd, n) ==
  \/ /\ rd.info = "OK" /\ n <= rd.len - rd.pos
     /\ x = [info |-> "OK", from |-> rd.from, len |-> rd.len, pos |-> rd.pos + n]
  \/ x.info # "OK" /\ (rd.info # "OK" \/ n > rd.len - rd.pos)

(* Skip does one or the other, by what CheckRead answers.                  *)
LEMMA SkipIs ==
  ASSUME NEW rd, IsReader(rd), NEW n \in Nat
  PROVE  /\ IsReader(Skip(rd, n)) /\ SkipsTo(Skip(rd, n), rd, n)
         /\ CheckRead(rd, n) = "OK" <=> rd.info = "OK" /\ n <= rd.len - rd.pos
  <1> DEFINE i == rd.info
             x == rd.from
             l == rd.len
             p == rd.pos
             c == CheckRead(rd, n)
  <1>1. /\ rd = [info |-> i, from |-> x, len |-> l, pos |-> p]
        /\ i \in Infos /\ x \in Nat /\ l \in Nat /\ p \in Nat /\ p <= l
    BY ReaderIs, Zenon
  <1>2. c = IF i # "OK" THEN i ELSE IF n > l \/ p > l - n THEN "OUT_OF_BOUNDS" ELSE "OK"
    BY Zenon DEF CheckRead, Check
  <1>3. Skip(rd, n) = IF c # "OK" THEN [rd EXCEPT !.info = c] ELSE [rd EXCEPT !.pos = p + n]
    BY DEF Skip
  <1> HIDE DEF i, x, l, p, c
  <1>4. c \in Infos /\ (c = "OK" <=> i = "OK" /\ n <= l - p)
    BY <1>1, <1>2 DEF Infos
  <1>5. CASE c # "OK"
    <2>1. Skip(rd, n) = [info |-> c, from |-> x, len |-> l, pos |-> p]
      BY <1>1, <1>3, <1>5
    <2>2. IsReader(Skip(rd, n))
      BY <1>1, <1>4, <2>1 DEF IsReader, Readers
    <2>3. Skip(rd, n).info # "OK" /\ (i # "OK" \/ n > l - p)
      BY <1>1, <1>4, <1>5, <2>1
    <2> QED BY <1>4, <1>5, <2>2, <2>3, Zenon DEF SkipsTo, c, i, l, p
  <1>6. CASE c = "OK"
    <2>1. Skip(rd, n) = [info |-> "OK", from |-> x, len |-> l, pos |-> p + n]
      BY <1>1, <1>3, <1>4, <1>6
    <2>2. p + n \in Nat /\ p + n <= l /\ "OK" \in Infos
      BY <1>1, <1>4, <1>6 DEF Infos
    <2>3. IsReader(Skip(rd, n))
      BY <1>1, <2>1, <2>2 DEF IsReader, Readers
    <2> QED BY <1>4, <1>6, <2>1, <2>3, Zenon DEF SkipsTo, c, i, x, l, p
  <1> QED BY <1>5, <1>6

(* A reader that is made. *)
LEMMA NewIs ==
  ASSUME NEW x \in Nat, NEW l \in Nat
  PROVE  /\ IsReader(NewReader(x, l)) /\ NewReader(x, l).info = "OK"
         /\ NewReader(x, l).from = x /\ NewReader(x, l).len = l /\ NewReader(x, l).pos = 0
  BY DEF NewReader, IsReader, Readers, Infos

(* There is no frame to unpack, or else one that begins behind its prefix. *)
LEMMA SubIs ==
  ASSUME NEW rd, IsReader(rd), rd.from >= 2
  PROVE  rd # NoSub
  <1>1. NoSub.from = 0
    BY DEF NoSub, NewReader
  <1> QED BY <1>1, ReaderIs

(* The frame that comes next does not change as more is shipped. *)
LEMMA NextKept ==
  ASSUME NEW ships \in Seq(FrameSet), NEW more \in Seq(FrameSet), NEW rec \in Seq(FrameSet),
         Starts(more, ships), Len(rec) < Len(ships)
  PROVE  Len(rec) < Len(more) /\ NextFrame(rec, more) = NextFrame(rec, ships)
  <1>1. Len(ships) \in Nat /\ Len(more) \in Nat /\ Len(rec) \in Nat
    OBVIOUS
  <1>2. Len(ships) <= Len(more) /\ \A i \in 1..Len(ships) : more[i] = ships[i]
    BY Zenon DEF Starts
  <1>3. Len(rec) + 1 \in 1..Len(ships)
    BY <1>1
  <1>4. Len(rec) < Len(more)
    BY <1>1, <1>2
  <1> QED BY <1>2, <1>3, <1>4, Zenon DEF NextFrame

(* The receiver begins where the stream does. *)
LEMMA ReceiverBegins ==
  StreamInit => ReceiverInv
  <1> SUFFICES ASSUME StreamInit
               PROVE  ReceiverInv
    OBVIOUS
  <1>1. /\ arrived = 0 /\ r = NewReader(0, 0) /\ sub = NoSub /\ received = << >>
        /\ stream = << >> /\ shipped = << >>
    BY Zenon DEF StreamInit
  <1>2. received \in Seq(FrameSet) /\ Starts(shipped, received)
    BY <1>1 DEF Starts
  <1>3. arrived \in 0..Len(stream)
    BY <1>1
  <1>4. /\ r.from = 0 /\ r.len = 0 /\ r.pos = 0 /\ r.info = "OK" /\ IsReader(r)
    BY <1>1, NewIs
  <1>5. IsReader(sub)
    BY <1>1, <1>4 DEF NoSub
  <1>6. Waits(r, received, shipped)
    <2>1. Len(FramedAll(received)) = 0
      <3>1. FramedAll(received) = << >>
        BY <1>1, Framings, Zenon
      <3> QED BY <3>1
    <2> QED BY <1>4, <2>1 DEF Waits
  <1>7. r.from + r.len = arrived
    BY <1>1, <1>4
  <1> QED BY <1>1, <1>2, <1>3, <1>4, <1>5, <1>6, <1>7, Zenon DEF ReceiverInv

(* What the sender does leaves the receiver where it is. *)
LEMMA ReceiverKept ==
  ASSUME SenderInv, ReceiverInv, Sends
  PROVE  ReceiverInv'
  <1>1. SenderInv' /\ Starts(shipped', shipped) /\ Starts(stream', stream)
    BY SenderSteps, Zenon
  <1>2. /\ shipped \in Seq(FrameSet) /\ shipped' \in Seq(FrameSet)
        /\ stream \in Seq(ByteSet) /\ stream' \in Seq(ByteSet)
    BY <1>1, Pieces, Zenon DEF SenderInv
  <1>3. arrived' = arrived /\ r' = r /\ sub' = sub /\ got' = got /\ received' = received
    BY DEF Sends, receiver
  <1>4. /\ received \in Seq(FrameSet) /\ Starts(shipped, received)
        /\ arrived \in 0..Len(stream) /\ r.from + r.len = arrived
        /\ IsReader(r) /\ IsReader(sub)
        /\ sub = NoSub => Waits(r, received, shipped)
        /\ sub # NoSub => Unpacks(r, sub, got, received, shipped)
    BY Zenon DEF ReceiverInv
  <1>5. Starts(shipped', received)
    BY <1>1, <1>2, <1>4, StartsTrans, Zenon
  <1>6. arrived \in 0..Len(stream')
    <2>1. Len(stream) <= Len(stream') /\ Len(stream) \in Nat /\ Len(stream') \in Nat
      BY <1>1, <1>2 DEF Starts
    <2> QED BY <1>4, <2>1
  <1>7. Len(received) < Len(shipped) =>
          Len(received) < Len(shipped') /\ NextFrame(received, shipped') = NextFrame(received, shipped)
    BY <1>1, <1>2, <1>4, NextKept, Zenon
  <1>8. sub = NoSub => Waits(r, received, shipped')
    BY <1>4, <1>7, Zenon DEF Waits
  <1>9. sub # NoSub => Unpacks(r, sub, got, received, shipped')
    BY <1>4, <1>7, Zenon DEF Unpacks
  <1>10. NoSub' = NoSub
    BY DEF NoSub, NewReader
  <1> QED BY <1>3, <1>4, <1>5, <1>6, <1>8, <1>9, <1>10, Zenon DEF ReceiverInv

(* The next frame, where one was shipped. *)
LEMMA NextShipped ==
  ASSUME SenderInv, ReceiverInv, Len(received) < Len(shipped)
  PROVE  /\ Expected = NextFrame(received, shipped) /\ Expected \in FrameSet
         /\ Append(received, Expected) \in Seq(FrameSet)
         /\ Starts(shipped, Append(received, Expected))
         /\ FramedAll(Append(received, Expected)) = FramedAll(received) \o Framed(Expected)
         /\ IsAt(stream, Len(FramedAll(received)), Framed(Expected))
         /\ stream \in Seq(ByteSet) /\ FramedAll(received) \in Seq(ByteSet)
         /\ Len(BodyOf(Expected)) < Place(2)
  <1>1. /\ shipped \in Seq(FrameSet) /\ Fit(shipped) /\ stream = FramedAll(shipped)
        /\ received \in Seq(FrameSet) /\ Starts(shipped, received)
    BY Zenon DEF SenderInv, ReceiverInv
  <1>2. Expected = NextFrame(received, shipped)
    BY Zenon DEF Expected, NextFrame
  <1>3. stream \in Seq(ByteSet) /\ FramedAll(received) \in Seq(ByteSet)
    BY <1>1, Pieces, Zenon
  <1>4. Len(BodyOf(Expected)) < Place(2)
    <2>1. Len(received) + 1 \in 1..Len(shipped)
      <3>1. Len(received) \in Nat /\ Len(shipped) \in Nat
        BY <1>1
      <3> QED BY <3>1
    <2> QED BY <1>1, <2>1, Zenon DEF Fit, Expected
  <1>5. /\ Expected \in FrameSet
        /\ Append(received, Expected) \in Seq(FrameSet)
        /\ Starts(shipped, Append(received, Expected))
        /\ FramedAll(Append(received, Expected)) = FramedAll(received) \o Framed(Expected)
        /\ IsAt(FramedAll(shipped), Len(FramedAll(received)), Framed(Expected))
    BY <1>1, <1>2, NextIs, Zenon
  <1> QED BY <1>1, <1>2, <1>3, <1>4, <1>5, Zenon

(* The bytes of the body of the next frame. *)
LEMMA BodyShipped ==
  ASSUME SenderInv, ReceiverInv, Len(received) < Len(shipped),
         NEW n, n = Len(FramedAll(received)), NEW m, m = n + 2
  PROVE  /\ n \in Nat /\ m \in Nat /\ Len(BodyOf(Expected)) \in Nat
         /\ Len(Framed(Expected)) = Len(BodyOf(Expected)) + 2
         /\ Decode(SubSeq(stream, n + 1, m)) = Len(BodyOf(Expected))
         /\ IsAt(stream, m, BodyOf(Expected))
  <1> DEFINE b == Expected
             s == FramedAll(received)
  <1>1. /\ b \in FrameSet /\ Len(BodyOf(b)) < Place(2)
        /\ stream \in Seq(ByteSet) /\ s \in Seq(ByteSet)
        /\ IsAt(stream, Len(s), Framed(b))
    BY NextShipped, Zenon
  <1>2. n \in Nat /\ m \in Nat
    <2> HIDE DEF s
    <2>1. Len(s) \in Nat
      BY <1>1
    <2> QED BY <2>1 DEF s
  <1>3. Len(BodyOf(b)) \in Nat /\ Len(Framed(b)) = Len(BodyOf(b)) + 2
    BY <1>1, FrameIs DEF FrameSet
  <1>4. IsAt(stream, n, Framed(b))
    BY <1>1, Zenon
  <1> HIDE DEF b
  <1>5. Decode(SubSeq(stream, n + 1, m)) = Len(BodyOf(b)) /\ IsAt(stream, m, BodyOf(b))
    BY <1>1, <1>2, <1>4, InFrame
  <1> QED BY <1>2, <1>3, <1>5, Zenon DEF b

(* More of the stream arrives. *)
LEMMA ArriveKeeps ==
  ASSUME SenderInv, ReceiverInv, NEW n \in 1..Len(stream), Arrive(n)
  PROVE  ReceiverInv'
  <1>1. /\ received \in Seq(FrameSet) /\ Starts(shipped, received)
        /\ arrived \in 0..Len(stream) /\ r.from + r.len = arrived
        /\ IsReader(r) /\ IsReader(sub)
        /\ sub = NoSub => Waits(r, received, shipped)
    BY Zenon DEF ReceiverInv
  <1> DEFINE x == r.from + r.pos
             l == arrived' - x
  <1>2. /\ sub = NoSub /\ arrived + n <= Len(stream) /\ arrived' = arrived + n
        /\ r' = NewReader(x, l)
        /\ sub' = sub /\ got' = got /\ received' = received
        /\ stream' = stream /\ shipped' = shipped
    BY DEF Arrive, sender
  <1>3. x \in Nat /\ l \in Nat /\ x + l = arrived' /\ arrived' \in 0..Len(stream')
    <2>1. r.from \in Nat /\ r.len \in Nat /\ r.pos \in Nat /\ r.pos <= r.len
      BY <1>1, ReaderIs, Zenon
    <2>2. stream \in Seq(ByteSet)
      BY Pieces, Zenon DEF SenderInv
    <2>3. Len(stream) \in Nat
      BY <2>2
    <2>4. x \in Nat /\ x <= arrived
      BY <1>1, <2>1
    <2> HIDE DEF x
    <2>5. arrived' \in 0..Len(stream) /\ arrived <= arrived' /\ arrived \in Nat
      <3> DEFINE k == Len(stream)
      <3>1. arrived \in 0..k /\ n \in 1..k /\ arrived + n <= k /\ k \in Nat
        BY <1>1, <1>2, <2>3, Zenon
      <3> HIDE DEF k
      <3>2. arrived + n \in 0..k /\ arrived <= arrived + n /\ arrived \in Nat
        BY <3>1
      <3> QED BY <1>2, <3>2, Zenon DEF k
    <2>6. l \in Nat /\ x + l = arrived'
      <3>1. arrived' \in Nat
        BY <2>3, <2>5
      <3> DEFINE a == arrived'
      <3>2. x \in Nat /\ a \in Nat /\ arrived \in Nat /\ x <= arrived /\ arrived <= a
        BY <2>4, <2>5, <3>1, Zenon
      <3> HIDE DEF a, l
      <3>3. a - x \in Nat /\ x + (a - x) = a
        BY <3>2
      <3> QED BY <3>3, Zenon DEF a, l
    <2>7. arrived' \in 0..Len(stream')
      BY <1>2, <2>5, Zenon
    <2> QED BY <2>4, <2>6, <2>7
  <1>4. x = Len(FramedAll(received))
    BY <1>1, <1>2, Zenon DEF Waits
  <1> HIDE DEF x, l
  <1>5. IsReader(r') /\ r'.info = "OK" /\ r'.from = x /\ r'.len = l /\ r'.pos = 0
    BY <1>2, <1>3, NewIs
  <1>6. Waits(r', received, shipped)
    BY <1>3, <1>4, <1>5 DEF Waits
  <1>7. r'.from + r'.len = arrived'
    BY <1>3, <1>5, Zenon
  <1>8. NoSub' = NoSub
    BY DEF NoSub, NewReader
  <1> QED BY <1>1, <1>2, <1>3, <1>5, <1>6, <1>7, <1>8, Zenon DEF ReceiverInv

(* A frame is found, or the cursor stays where it was. *)
LEMMA ReadFrameKeeps ==
  ASSUME SenderInv, ReceiverInv, ReadFrame
  PROVE  ReceiverInv'
  <1> DEFINE n == Len(FramedAll(received))
             b == Expected
             length == Len(BodyOf(b))
             prefixed == Skip(r, 2)
             whole == Skip(prefixed, length)
             m == n + 2
  <1>1. /\ received \in Seq(FrameSet) /\ Starts(shipped, received)
        /\ arrived \in 0..Len(stream) /\ r.from + r.len = arrived
        /\ IsReader(r) /\ IsReader(sub)
        /\ sub = NoSub => Waits(r, received, shipped)
    BY Zenon DEF ReceiverInv
  <1>2. sub = NoSub /\ Len(received) < Len(shipped)
    BY Zenon DEF ReadFrame
  <1>3. /\ n \in Nat /\ m \in Nat /\ length \in Nat /\ Len(Framed(b)) = length + 2
        /\ Decode(SubSeq(stream, n + 1, m)) = length
    BY <1>2, BodyShipped, Zenon
  <1>4. b = NextFrame(received, shipped) /\ b \in FrameSet
    BY <1>2, NextShipped, Zenon
  <1>5. r.from + r.pos = n /\ (r.info # "OK" => r.len - r.pos < Len(Framed(b)))
    BY <1>1, <1>2, <1>4, Zenon DEF Waits
  <1>6. Decode(Ahead(r, 2)) = length
    <2>1. Ahead(r, 2) = SubSeq(stream, n + 1, m)
      BY <1>5, Zenon DEF Ahead
    <2> QED BY <1>3, <2>1, Zenon
  <1>7. /\ \/ /\ prefixed.info # "OK" \/ whole.info # "OK"
              /\ r' = [r EXCEPT !.info = "OUT_OF_BOUNDS"]
              /\ sub' = sub /\ got' = got
           \/ /\ prefixed.info = "OK" /\ whole.info = "OK"
              /\ r' = whole /\ sub' = NewReader(prefixed.from + prefixed.pos, length)
              /\ got' = << >>
        /\ arrived' = arrived /\ received' = received
        /\ stream' = stream /\ shipped' = shipped
    <2>1. arrived' = arrived /\ received' = received /\ stream' = stream /\ shipped' = shipped
      BY DEF ReadFrame, sender
    <2>2. CASE prefixed.info # "OK" \/ whole.info # "OK"
      <3>1. /\ r' = [r EXCEPT !.info = "OUT_OF_BOUNDS"]
            /\ UNCHANGED << sub, got >>
        BY <1>6, <2>2, Zenon DEF ReadFrame
      <3>2. sub' = sub /\ got' = got
        BY <3>1
      <3> QED BY <2>1, <2>2, <3>1, <3>2, Zenon
    <2>3. CASE prefixed.info = "OK" /\ whole.info = "OK"
      <3>1. /\ r' = whole /\ sub' = NewReader(prefixed.from + prefixed.pos, length)
            /\ got' = << >>
        BY <1>6, <2>3, Zenon DEF ReadFrame
      <3> QED BY <2>1, <2>3, <3>1, Zenon
    <2> QED BY <2>2, <2>3, Zenon
  <1>8. r.info \in Infos /\ r.from \in Nat /\ r.len \in Nat /\ r.pos \in Nat /\ r.pos <= r.len
    BY <1>1, ReaderIs, Zenon
  <1>9. IsReader(prefixed) /\ SkipsTo(prefixed, r, 2)
    BY <1>1, SkipIs
  <1>10. IsReader(whole) /\ SkipsTo(whole, prefixed, length)
    <2> HIDE DEF prefixed, length
    <2> QED BY <1>3, <1>9, SkipIs, Zenon
  <1>11. NoSub' = NoSub
    BY DEF NoSub, NewReader
  <1> DEFINE size == Len(Framed(b))
  <1> HIDE DEF prefixed, whole, length, n, m, b, size
  <1>12. size = length + 2
    BY <1>3, Zenon DEF size
  <1>13. CASE /\ prefixed.info # "OK" \/ whole.info # "OK"
              /\ r' = [r EXCEPT !.info = "OUT_OF_BOUNDS"]
              /\ sub' = sub /\ got' = got
    <2>1. r.info # "OK" => r.len - r.pos < size
      BY <1>5, Zenon DEF size
    <2>2. r.len - r.pos < size
      BY <1>3, <1>8, <1>9, <1>10, <1>12, <1>13, <2>1 DEF SkipsTo
    <2>3. /\ IsReader(r') /\ r'.info = "OUT_OF_BOUNDS" /\ r'.from = r.from
          /\ r'.len = r.len /\ r'.pos = r.pos
      BY <1>1, <1>13 DEF IsReader, Readers, Infos
    <2>4. r'.from + r'.pos = n /\ r'.len - r'.pos < size /\ r'.from + r'.len = arrived
      BY <1>1, <1>5, <2>2, <2>3
    <2>5. Waits(r', received, shipped)
      BY <1>2, <1>4, <2>4, Zenon DEF Waits, size, n
    <2> QED BY <1>1, <1>2, <1>7, <1>11, <1>13, <2>3, <2>4, <2>5, Zenon DEF ReceiverInv
  <1>14. CASE /\ prefixed.info = "OK" /\ whole.info = "OK"
              /\ r' = whole /\ sub' = NewReader(prefixed.from + prefixed.pos, length)
              /\ got' = << >>
    <2>1. /\ r.info = "OK" /\ prefixed.from = r.from /\ prefixed.len = r.len
          /\ prefixed.pos = r.pos + 2
      BY <1>9, <1>14 DEF SkipsTo
    <2>2. /\ r'.info = "OK" /\ r'.from = r.from /\ r'.len = r.len
          /\ r'.pos = (r.pos + 2) + length
      BY <1>10, <1>14, <2>1 DEF SkipsTo
    <2>3. prefixed.from + prefixed.pos = m /\ r'.from + r'.pos = n + size
      <3> DEFINE x == r.from
                 p == r.pos
      <3>1. x \in Nat /\ p \in Nat /\ x + p = n /\ length \in Nat
        BY <1>3, <1>5, <1>8, Zenon
      <3>2. prefixed.from + prefixed.pos = x + (p + 2)
        BY <2>1, Zenon
      <3>3. r'.from + r'.pos = x + ((p + 2) + length)
        BY <2>2, Zenon
      <3> HIDE DEF x, p
      <3>4. x + (p + 2) = n + 2 /\ x + ((p + 2) + length) = n + (length + 2)
        BY <3>1
      <3> QED BY <1>12, <3>2, <3>3, <3>4, Zenon DEF m
    <2>4. /\ IsReader(sub') /\ sub'.info = "OK" /\ sub'.from = m
          /\ sub'.len = length /\ sub'.pos = 0
      BY <1>3, <1>14, <2>3, NewIs
    <2>5. sub' # NoSub
      <3>1. sub'.from >= 2
        BY <1>3, <2>4 DEF m
      <3> QED BY <2>4, <3>1, SubIs
    <2>6. got' \in FrameSet /\ Starts(NextFrame(received, shipped), got')
      <3>1. got' = << >>
        BY <1>14
      <3>2. b \in Seq(Fields)
        BY <1>4 DEF FrameSet
      <3>3. Starts(b, << >>) /\ << >> \in FrameSet
        BY <3>2 DEF Starts, FrameSet
      <3> QED BY <1>4, <3>1, <3>3, Zenon
    <2>7. Len(BodyOf(got')) = 0
      <3>1. BodyOf(got') = << >>
        BY <1>14, Bodies, Zenon
      <3> QED BY <3>1
    <2>8. Unpacks(r', sub', got', received, shipped)
      <3>1. sub'.from = n + 2 /\ sub'.len = length /\ sub'.pos = Len(BodyOf(got'))
        BY <2>4, <2>7, Zenon DEF m
      <3> QED BY <1>2, <1>4, <2>2, <2>3, <2>4, <2>6, <3>1, Zenon DEF Unpacks, n, length, size
    <2>9. r'.from + r'.len = arrived
      BY <1>1, <2>2, Zenon
    <2>10. IsReader(r')
      BY <1>10, <1>14, Zenon
    <2> QED BY <1>1, <1>7, <1>11, <2>4, <2>5, <2>8, <2>9, <2>10, Zenon DEF ReceiverInv
  <1> QED BY <1>7, <1>13, <1>14

(* A field that is read is the next one of the frame. *)
LEMMA ReadFieldKeeps ==
  ASSUME SenderInv, ReceiverInv, ReadField
  PROVE  ReceiverInv'
  <1> DEFINE b == Expected
             f == b[Len(got) + 1]
             k == Len(BytesOf(f))
             x == sub.from
             p == sub.pos
             g == Append(got, f)
  <1>1. /\ received \in Seq(FrameSet) /\ Starts(shipped, received)
        /\ arrived \in 0..Len(stream) /\ r.from + r.len = arrived
        /\ IsReader(r) /\ IsReader(sub)
        /\ sub # NoSub => Unpacks(r, sub, got, received, shipped)
    BY Zenon DEF ReceiverInv
  <1>2. /\ sub # NoSub /\ Len(got) < Len(b) /\ sub' = Skip(sub, k)
        /\ CheckRead(sub, k) = "OK" =>
             got' = Append(got, [f EXCEPT !.value = ValueOf(f, Ahead(sub, k))])
        /\ arrived' = arrived /\ r' = r /\ received' = received
        /\ stream' = stream /\ shipped' = shipped
    BY DEF ReadField, sender
  <1>3. /\ r.info = "OK" /\ sub.info = "OK"
        /\ Len(received) < Len(shipped)
        /\ got \in FrameSet /\ Starts(NextFrame(received, shipped), got)
        /\ x = Len(FramedAll(received)) + 2
        /\ sub.len = Len(BodyOf(NextFrame(received, shipped)))
        /\ p = Len(BodyOf(got))
        /\ r.from + r.pos = Len(FramedAll(received)) + Len(Framed(NextFrame(received, shipped)))
    BY <1>1, <1>2, Zenon DEF Unpacks
  <1>4. b = NextFrame(received, shipped) /\ b \in FrameSet /\ stream \in Seq(ByteSet)
    BY <1>3, NextShipped, Zenon
  <1>5. IsAt(stream, x, BodyOf(b))
    BY <1>3, BodyShipped, Zenon
  <1>6. x \in Nat /\ p \in Nat /\ sub.len \in Nat
    BY <1>1, ReaderIs, Zenon
  <1>7. /\ f \in Fields /\ g \in FrameSet /\ Starts(b, g)
        /\ Len(BodyOf(g)) = p + k /\ Len(BodyOf(g)) <= sub.len
        /\ Ahead(sub, k) = BytesOf(f)
    <2> DEFINE y == x + p
               m == y + k
    <2>1. EndsAt(y, x, BodyOf(got)) /\ EndsAt(m, y, BytesOf(f))
      BY <1>3, Zenon DEF EndsAt
    <2>2. Starts(b, got)
      BY <1>3, <1>4, Zenon
    <2> HIDE DEF y, m, x, b
    <2>3. /\ f \in Fields /\ g \in FrameSet /\ Starts(b, g)
          /\ Len(BodyOf(g)) = Len(BodyOf(got)) + Len(BytesOf(f))
          /\ Len(BodyOf(g)) <= Len(BodyOf(b))
          /\ SubSeq(stream, y + 1, m) = BytesOf(f)
      <3>1. f = b[Len(got) + 1] /\ Len(got) < Len(b)
        BY <1>2, Zenon
      <3>2. /\ got \in FrameSet /\ b \in FrameSet /\ stream \in Seq(ByteSet) /\ x \in Nat
            /\ IsNext(f, got, b)
        BY <1>3, <1>4, <1>6, <3>1, Zenon DEF IsNext
      <3> HIDE DEF f
      <3> QED BY <1>5, <2>1, <2>2, <3>1, <3>2, InBody
    <2>4. Ahead(sub, k) = SubSeq(stream, y + 1, m)
      BY Zenon DEF Ahead, y, m, x
    <2> QED BY <1>3, <1>4, <2>3, <2>4, Zenon
  <1>8. k \in Nat
    <2>1. BytesOf(f) \in Seq(ByteSet)
      BY <1>7, FieldRead, Zenon
    <2> HIDE DEF f
    <2> QED BY <2>1
  <1>9. IsReader(sub') /\ SkipsTo(sub', sub, k)
        /\ (CheckRead(sub, k) = "OK" <=> sub.info = "OK" /\ k <= sub.len - sub.pos)
    <2> HIDE DEF k
    <2> QED BY <1>1, <1>2, <1>8, SkipIs, Zenon
  <1>10. [f EXCEPT !.value = ValueOf(f, Ahead(sub, k))] = f
    BY <1>7, FieldRead, Zenon
  <1> HIDE DEF b, f, k, g
  <1>11. k <= sub.len - sub.pos
    <2> DEFINE l == sub.len
               y == Len(BodyOf(g))
    <2>1. p \in Nat /\ l \in Nat /\ k \in Nat /\ y = p + k /\ y <= l
      BY <1>6, <1>7, <1>8, Zenon
    <2> HIDE DEF l, p, y
    <2>2. k <= l - p
      BY <2>1
    <2> QED BY <2>2, Zenon DEF l, p
  <1>12. got' = g
    <2>1. CheckRead(sub, k) = "OK"
      BY <1>3, <1>9, <1>11, Zenon
    <2> QED BY <1>2, <1>10, <2>1, Zenon DEF g
  <1>13. /\ sub'.info = "OK" /\ sub'.from = x /\ sub'.len = sub.len
         /\ sub'.pos = p + k
    BY <1>3, <1>6, <1>8, <1>9, <1>11 DEF SkipsTo
  <1>14. sub'.pos = Len(BodyOf(g))
    BY <1>7, <1>13, Zenon
  <1>15. sub' # NoSub
    <2>1. Len(FramedAll(received)) \in Nat
      <3>1. FramedAll(received) \in Seq(ByteSet)
        BY <1>1, Pieces, Zenon
      <3> QED BY <3>1
    <2>2. sub'.from >= 2
      BY <1>3, <1>13, <2>1
    <2> QED BY <1>9, <2>2, SubIs
  <1>16. NoSub' = NoSub
    BY DEF NoSub, NewReader
  <1> HIDE DEF x, p
  <1>17. Unpacks(r', sub', got', received, shipped)
    <2>1. Starts(NextFrame(received, shipped), got') /\ got' \in FrameSet
      BY <1>4, <1>7, <1>12, Zenon
    <2>2. sub'.from = Len(FramedAll(received)) + 2
      BY <1>3, <1>13, Zenon
    <2>3. sub'.len = Len(BodyOf(NextFrame(received, shipped)))
      BY <1>3, <1>13, Zenon
    <2>4. sub'.pos = Len(BodyOf(got'))
      BY <1>12, <1>14, Zenon
    <2> QED BY <1>2, <1>3, <1>13, <2>1, <2>2, <2>3, <2>4, Zenon DEF Unpacks
  <1> QED BY <1>1, <1>2, <1>9, <1>15, <1>16, <1>17, Zenon DEF ReceiverInv

(* Sequences that begin with one another, and are as long, are the same. *)
LEMMA StartsAll ==
  ASSUME NEW S, NEW u \in Seq(S), NEW s \in Seq(S), Starts(u, s), Len(s) = Len(u)
  PROVE  s = u
  <1>1. \A i \in 1..Len(s) : u[i] = s[i]
    BY Zenon DEF Starts
  <1> QED BY <1>1, SeqEqual

(* A frame of which all fields were read is the next one. *)
LEMMA FrameUnpackedKeeps ==
  ASSUME SenderInv, ReceiverInv, FrameUnpacked
  PROVE  ReceiverInv'
  <1> DEFINE b == Expected
             s == FramedAll(received)
             u == Framed(b)
  <1>1. /\ received \in Seq(FrameSet) /\ Starts(shipped, received)
        /\ arrived \in 0..Len(stream) /\ r.from + r.len = arrived
        /\ IsReader(r) /\ IsReader(sub)
        /\ sub # NoSub => Unpacks(r, sub, got, received, shipped)
    BY Zenon DEF ReceiverInv
  <1>2. /\ sub # NoSub /\ (Len(got) = Len(b) \/ sub.info # "OK")
        /\ received' = Append(received, got) /\ sub' = NoSub
        /\ arrived' = arrived /\ r' = r
        /\ stream' = stream /\ shipped' = shipped
    BY DEF FrameUnpacked, sender
  <1>3. /\ r.info = "OK" /\ sub.info = "OK"
        /\ Len(received) < Len(shipped)
        /\ got \in FrameSet /\ Starts(NextFrame(received, shipped), got)
        /\ r.from + r.pos = Len(s) + Len(Framed(NextFrame(received, shipped)))
    BY <1>1, <1>2, Zenon DEF Unpacks
  <1>4. /\ b = NextFrame(received, shipped) /\ b \in FrameSet
        /\ Append(received, b) \in Seq(FrameSet) /\ Starts(shipped, Append(received, b))
        /\ FramedAll(Append(received, b)) = s \o u
        /\ s \in Seq(ByteSet)
    BY <1>3, NextShipped, Zenon
  <1>5. u \in Seq(ByteSet)
    BY <1>4, FrameIs, Zenon DEF FrameSet
  <1>6. got = b
    <2>1. Len(got) = Len(b) /\ Starts(b, got)
      BY <1>2, <1>3, <1>4, Zenon
    <2> HIDE DEF b
    <2> QED BY <1>3, <1>4, <2>1, StartsAll, Zenon DEF FrameSet
  <1> HIDE DEF b, s, u
  <1>7. r.from + r.pos = Len(FramedAll(received'))
    <2> DEFINE v == s \o u
    <2>1. Len(v) = Len(s) + Len(u)
      BY <1>4, <1>5, Places
    <2> HIDE DEF v
    <2>2. FramedAll(received') = v
      BY <1>2, <1>4, <1>6, Zenon DEF v
    <2>3. r.from + r.pos = Len(s) + Len(u)
      BY <1>3, <1>4, Zenon DEF u
    <2> QED BY <2>1, <2>2, <2>3, Zenon
  <1>8. Waits(r, received', shipped)
    BY <1>3, <1>7, Zenon DEF Waits
  <1>9. received' \in Seq(FrameSet) /\ Starts(shipped, received')
    BY <1>2, <1>4, <1>6, Zenon
  <1>10. IsReader(NoSub)
    <2>1. 0 \in Nat
      OBVIOUS
    <2> QED BY <2>1, NewIs DEF NoSub
  <1>11. NoSub' = NoSub
    BY DEF NoSub, NewReader
  <1>12. IsReader(sub') /\ sub' = NoSub'
    BY <1>2, <1>10, <1>11, Zenon
  <1> QED BY <1>1, <1>2, <1>8, <1>9, <1>12, Zenon DEF ReceiverInv

-----------------------------------------------------------------------------
(* Both together.                                                          *)

(* The invariant holds at first. *)
LEMMA StreamInvInit ==
  StreamInit => SenderInv /\ ReceiverInv
  BY SenderBegins, ReceiverBegins, Zenon

(* Every step keeps it. *)
LEMMA StreamInvNext ==
  SenderInv /\ ReceiverInv /\ [StreamNext]_streamVars => (SenderInv /\ ReceiverInv)'
  <1> SUFFICES ASSUME SenderInv, ReceiverInv, [StreamNext]_streamVars
               PROVE  SenderInv' /\ ReceiverInv'
    OBVIOUS
  <1>1. ASSUME Sends
        PROVE  SenderInv' /\ ReceiverInv'
    BY <1>1, SenderSteps, ReceiverKept, Zenon
  <1>2. ASSUME UNCHANGED sender
        PROVE  SenderInv'
    <2>1. /\ w' = w /\ mark' = mark /\ body' = body /\ batch' = batch
          /\ batches' = batches /\ stream' = stream /\ shipped' = shipped
      BY <1>2 DEF sender
    <2> QED BY <2>1, Zenon DEF SenderInv
  <1>3. ASSUME NEW f \in Fields, Write(f)
        PROVE  SenderInv' /\ ReceiverInv'
    BY <1>1, <1>3, Zenon DEF Sends, Write
  <1>4. CASE BeginFrame
    BY <1>1, <1>4, Zenon DEF Sends, BeginFrame
  <1>5. CASE EndFrame
    BY <1>1, <1>5, Zenon DEF Sends, EndFrame
  <1>6. CASE Finish
    BY <1>1, <1>6, Zenon DEF Sends, Finish
  <1>7. ASSUME NEW n \in 1..Len(stream), Arrive(n)
        PROVE  SenderInv' /\ ReceiverInv'
    <2>1. UNCHANGED sender
      BY <1>7, Zenon DEF Arrive
    <2> QED BY <1>2, <1>7, <2>1, ArriveKeeps, Zenon
  <1>8. CASE ReadFrame
    <2>1. UNCHANGED sender
      BY <1>8, Zenon DEF ReadFrame
    <2> QED BY <1>2, <1>8, <2>1, ReadFrameKeeps, Zenon
  <1>9. CASE ReadField
    <2>1. UNCHANGED sender
      BY <1>9, Zenon DEF ReadField
    <2> QED BY <1>2, <1>9, <2>1, ReadFieldKeeps, Zenon
  <1>10. CASE FrameUnpacked
    <2>1. UNCHANGED sender
      BY <1>10, Zenon DEF FrameUnpacked
    <2> QED BY <1>2, <1>10, <2>1, FrameUnpackedKeeps, Zenon
  <1>11. CASE UNCHANGED streamVars
    <2>1. UNCHANGED sender
      BY <1>11 DEF streamVars, sender
    <2>2. arrived' = arrived /\ r' = r /\ sub' = sub /\ got' = got /\ received' = received
          /\ stream' = stream /\ shipped' = shipped /\ NoSub' = NoSub
      BY <1>11 DEF streamVars, NoSub, NewReader
    <2>3. ReceiverInv'
      BY <2>2, Zenon DEF ReceiverInv
    <2> QED BY <1>2, <2>1, <2>3
  <1> QED BY <1>3, <1>4, <1>5, <1>6, <1>7, <1>8, <1>9, <1>10, <1>11, Zenon DEF StreamNext

(* It has the types. *)
LEMMA StreamInvTypes ==
  SenderInv /\ ReceiverInv => StreamTypeOK
  <1> SUFFICES ASSUME SenderInv, ReceiverInv
               PROVE  StreamTypeOK
    OBVIOUS
  <1>1. /\ w \in Writers /\ mark \in 0..Cap \cup {NoFrame}
        /\ body \in FrameSet /\ batch \in Seq(FrameSet)
        /\ batches \in 0..MaxBatches /\ shipped \in Seq(FrameSet)
    BY Zenon DEF SenderInv, Batched
  <1>2. stream \in Seq(ByteSet)
    BY Pieces, Zenon DEF SenderInv
  <1>3. arrived \in 0..Len(stream) /\ IsReader(r) /\ IsReader(sub)
    BY Zenon DEF ReceiverInv
  <1> QED BY <1>1, <1>2, <1>3, Zenon DEF StreamTypeOK, Writers, FrameSet, ByteSet, IsReader

(* It tells that frames are intact. *)
LEMMA StreamInvImplies ==
  SenderInv /\ ReceiverInv => FramesIntact
  <1> SUFFICES ASSUME SenderInv, ReceiverInv
               PROVE  FramesIntact
    OBVIOUS
  <1>1. /\ Batched(w, mark, body, batch) /\ shipped \in Seq(FrameSet)
    BY Zenon DEF SenderInv
  <1>2. BufferHolds
    <2>1. /\ w \in Writers /\ batch \in Seq(FrameSet)
          /\ Starts(w.data, FramedAll(batch)) /\ IsFilled(w, Laid(mark, body, batch))
      BY <1>1, Zenon DEF Batched
    <2>2. w.data \in Seq(ByteSet) /\ FramedAll(batch) \in Seq(ByteSet)
      BY <2>1, WriterData, Pieces, Zenon
    <2>3. IsPrefix(FramedAll(batch), w.data)
      BY <2>1, <2>2, StartsPrefix, Zenon
    <2>4. mark = NoFrame /\ w.info = "OK" => w.pos = Len(FramedAll(batch))
      BY <2>1, Zenon DEF IsFilled, Laid
    <2> QED BY <2>3, <2>4, Zenon DEF BufferHolds
  <1>3. /\ received \in Seq(FrameSet) /\ Starts(shipped, received)
        /\ sub = NoSub => Waits(r, received, shipped)
        /\ sub # NoSub => Unpacks(r, sub, got, received, shipped)
    BY Zenon DEF ReceiverInv
  <1>4. IsPrefix(received, shipped)
    BY <1>1, <1>3, StartsPrefix, Zenon
  <1>5. Expected = NextFrame(received, shipped)
    BY Zenon DEF Expected, NextFrame
  <1>6. sub = NoSub => r.from + r.pos = Len(FramedAll(received))
    BY <1>3, Zenon DEF Waits
  <1>7. sub = NoSub /\ r.info # "OK" => r.len - r.pos < Len(Framed(Expected))
    BY <1>3, <1>5, Zenon DEF Waits
  <1>8. ASSUME sub # NoSub
        PROVE  IsPrefix(got, Expected)
    <2>1. /\ Len(received) < Len(shipped) /\ got \in FrameSet
          /\ Starts(Expected, got)
      BY <1>3, <1>5, <1>8, Zenon DEF Unpacks
    <2>2. Expected \in FrameSet
      BY <2>1, NextShipped, Zenon
    <2> QED BY <2>1, <2>2, StartsPrefix, Zenon DEF FrameSet
  <1> QED BY <1>2, <1>4, <1>6, <1>7, <1>8, Zenon DEF FramesIntact

(* The types of writer and readers; no cursor is ever beyond its end       *)
(* (cb_bytes_writer_t, cb_bytes_reader_t and their bounds checks).         *)
THEOREM StreamType == StreamSpec => []StreamTypeOK
  <1>1. StreamInit => SenderInv /\ ReceiverInv
    BY StreamInvInit
  <1>2. SenderInv /\ ReceiverInv /\ [StreamNext]_streamVars => (SenderInv /\ ReceiverInv)'
    BY StreamInvNext
  <1>3. SenderInv /\ ReceiverInv => StreamTypeOK
    BY StreamInvTypes
  <1> QED BY <1>1, <1>2, <1>3, PTL DEF StreamSpec

(* Every frame comes out as it was put in, whatever failed before it and   *)
(* however the stream arrived (cb_bytes_begin_frame_u16,                   *)
(* cb_bytes_end_frame_u16, cb_bytes_read_frame_u16, writes and reads).     *)
THEOREM FramesComeIntact == StreamSpec => []FramesIntact
  <1>1. StreamInit => SenderInv /\ ReceiverInv
    BY StreamInvInit
  <1>2. SenderInv /\ ReceiverInv /\ [StreamNext]_streamVars => (SenderInv /\ ReceiverInv)'
    BY StreamInvNext
  <1>3. SenderInv /\ ReceiverInv => FramesIntact
    BY StreamInvImplies
  <1> QED BY <1>1, <1>2, <1>3, PTL DEF StreamSpec
=============================================================================
