--------------------------- MODULE SequenceLemmas ---------------------------
(***************************************************************************)
(* Arithmetic, induction and sequences, as far as several proofs need them.*)
(***************************************************************************)
EXTENDS Integers, SequencesExt, SequenceTheorems, WellFoundedInduction, TLAPS

-----------------------------------------------------------------------------
(* Induction.  What holds of 0, and of n + 1 where it holds of n, is told  *)
(* as the set of the numbers it holds of; likewise for sequences.          *)

(* A set of numbers that is not empty has a least one. *)
LEMMA Least ==
  ASSUME NEW S \in SUBSET Nat, S # {}
  PROVE  \E x \in S : \A y \in S : x <= y
  <1>1. PICK x \in S : \A y \in S : ~ (<< y, x >> \in OpToRel(<, Nat))
    BY NatLessThanWellFounded, WFMin
  <1>2. \A y \in S : ~ (<< y, x >> \in {ss \in Nat \X Nat : ss[1] < ss[2]})
    BY <1>1, Zenon DEF OpToRel
  <1>3. ASSUME NEW y \in S PROVE ~ (y < x)
    <2>1. << y, x >>[1] = y /\ << y, x >>[2] = x
      OBVIOUS
    <2>2. << y, x >> \in Nat \X Nat
      OBVIOUS
    <2>3. ~ (<< y, x >>[1] < << y, x >>[2])
      BY <1>2, <2>2, Zenon
    <2> QED BY <2>1, <2>3
  <1>4. \A y \in S : x <= y
    BY <1>3
  <1> QED BY <1>4

(* Induction over the natural numbers. *)
LEMMA NatInd ==
  ASSUME NEW S, 0 \in S, \A n \in Nat : n \in S => n + 1 \in S
  PROVE  Nat \subseteq S
  <1> DEFINE T == Nat \ S
  <1> SUFFICES ASSUME T # {} PROVE FALSE
    OBVIOUS
  <1>1. T \in SUBSET Nat
    OBVIOUS
  <1> HIDE DEF T
  <1>2. PICK x \in T : \A y \in T : x <= y
    BY <1>1, Least
  <1>3. x \in Nat /\ x # 0
    BY <1>1 DEF T
  <1>4. x - 1 \in Nat /\ x - 1 \notin T
    BY <1>1, <1>2, <1>3
  <1>5. x - 1 \in S
    BY <1>4 DEF T
  <1>6. (x - 1) + 1 \in S
    BY <1>4, <1>5
  <1>7. x \in S
    BY <1>3, <1>6
  <1> QED BY <1>7 DEF T

(* Induction over sequences, from the empty one by appending. *)
LEMMA SeqInd ==
  ASSUME NEW D, NEW P, << >> \in P,
         \A s \in Seq(D), d \in D : s \in P => Append(s, d) \in P
  PROVE  Seq(D) \subseteq P
  <1> DEFINE N == {n \in Nat : \A s \in Seq(D) : Len(s) = n => s \in P}
  <1>1. 0 \in N
    OBVIOUS
  <1>2. ASSUME NEW n \in Nat, n \in N
        PROVE  n + 1 \in N
    <2> SUFFICES ASSUME NEW s \in Seq(D), Len(s) = n + 1
                 PROVE  s \in P
      OBVIOUS
    <2> DEFINE r == SubSeq(s, 1, n)
    <2>1. r \in Seq(D) /\ Len(r) = n /\ s[n + 1] \in D
      OBVIOUS
    <2>2. s = Append(r, s[n + 1])
      OBVIOUS
    <2>3. r \in P
      BY <1>2, <2>1
    <2> QED BY <2>1, <2>2, <2>3
  <1> HIDE DEF N
  <1>3. Nat \subseteq N
    BY <1>1, <1>2, NatInd
  <1> QED BY <1>3 DEF N

-----------------------------------------------------------------------------
(* Arithmetic and sequences.                                               *)

(* Division with remainder. *)
LEMMA DivMod ==
  ASSUME NEW n \in Nat, NEW b \in Nat \ {0}
  PROVE  /\ n \div b \in Nat /\ n % b \in 0..(b - 1)
         /\ n = (n \div b) * b + (n % b)
  OBVIOUS

(* A quotient and a remainder that fit are those of the division. *)
LEMMA DivUnique ==
  ASSUME NEW b \in Nat \ {0}, NEW q \in Nat, NEW l \in 0..(b - 1), NEW n, n = q * b + l
  PROVE  n \div b = q /\ n % b = l
  <1> DEFINE p == n \div b
             m == n % b
  <1>1. n \in Nat
    OBVIOUS
  <1>2. p \in Nat /\ m \in 0..(b - 1) /\ n = p * b + m
    BY <1>1, DivMod
  <1> HIDE DEF p, m
  <1>3. CASE p < q
    <2>1. p + 1 <= q
      BY <1>2, <1>3
    <2>2. (p + 1) * b <= q * b
      BY <1>2, <2>1
    <2>3. (p + 1) * b = p * b + b
      BY <1>2
    <2> QED BY <1>2, <2>2, <2>3
  <1>4. CASE q < p
    <2>1. q + 1 <= p
      BY <1>2, <1>4
    <2>2. (q + 1) * b <= p * b
      BY <1>2, <2>1
    <2>3. (q + 1) * b = q * b + b
      OBVIOUS
    <2> QED BY <1>2, <2>2, <2>3
  <1>5. p = q
    BY <1>2, <1>3, <1>4
  <1>6. m = l
    BY <1>2, <1>5
  <1> QED BY <1>5, <1>6 DEF p, m

(* Concatenation by places. *)
LEMMA Places ==
  ASSUME NEW S, NEW s \in Seq(S), NEW t \in Seq(S)
  PROVE  /\ s \o t \in Seq(S) /\ Len(s \o t) = Len(s) + Len(t)
         /\ \A i \in 1..Len(s) : (s \o t)[i] = s[i]
         /\ \A i \in 1..Len(t) : (s \o t)[Len(s) + i] = t[i]
  OBVIOUS

(* One sequence behind another. *)
IsConcat(u, s, t) ==
  /\ Len(u) = Len(s) + Len(t)
  /\ \A i \in 1..Len(s) : u[i] = s[i]
  /\ \A i \in 1..Len(t) : u[Len(s) + i] = t[i]

(* Concatenation is that. *)
LEMMA Concat ==
  ASSUME NEW S, NEW s \in Seq(S), NEW t \in Seq(S)
  PROVE  s \o t \in Seq(S) /\ IsConcat(s \o t, s, t)
  <1>1. s \o t \in Seq(S)
    OBVIOUS
  <1> QED BY <1>1, Places DEF IsConcat

(* Three sequences behind one another. *)
Associates(s, t, u) == (s \o t) \o u = s \o (t \o u)

(* Concatenation is associative. *)
LEMMA Association ==
  ASSUME NEW S, NEW s \in Seq(S), NEW t \in Seq(S), NEW u \in Seq(S)
  PROVE  Associates(s, t, u)
  BY ConcatAssociative DEF Associates

(* A piece of a sequence, from behind its place m to its place n. *)
LEMMA PieceOf ==
  ASSUME NEW S, NEW s \in Seq(S), NEW m \in Nat, NEW n \in Nat, m <= n, n <= Len(s)
  PROVE  /\ SubSeq(s, m + 1, n) \in Seq(S) /\ Len(SubSeq(s, m + 1, n)) = n - m
         /\ \A i \in 1..(n - m) : SubSeq(s, m + 1, n)[i] = s[m + i]
  <1>1. \A i \in (m + 1)..n : s[i] \in S
    OBVIOUS
  <1> QED BY <1>1

(* A piece that ends in the first of two sequences, or begins in the other.*)
LEMMA PieceOfFirst ==
  ASSUME NEW S, NEW s \in Seq(S), NEW t \in Seq(S),
         NEW m \in Nat, NEW n \in Nat, m <= n, n <= Len(s)
  PROVE  SubSeq(s \o t, m + 1, n) = SubSeq(s, m + 1, n)
  <1>1. s \o t \in Seq(S) /\ n <= Len(s \o t)
        /\ \A i \in 1..Len(s) : (s \o t)[i] = s[i]
    BY Places
  <1> DEFINE u == s \o t
             p == SubSeq(u, m + 1, n)
             q == SubSeq(s, m + 1, n)
  <1> HIDE DEF u
  <1>2. /\ p \in Seq(S) /\ Len(p) = n - m
        /\ \A i \in 1..(n - m) : p[i] = u[m + i]
    BY <1>1, PieceOf DEF u
  <1>3. /\ q \in Seq(S) /\ Len(q) = n - m
        /\ \A i \in 1..(n - m) : q[i] = s[m + i]
    BY PieceOf
  <1> HIDE DEF p, q
  <1>4. \A i \in 1..(n - m) : p[i] = q[i]
    <2> TAKE i \in 1..(n - m)
    <2>1. m + i \in 1..Len(s)
      OBVIOUS
    <2>2. u[m + i] = s[m + i]
      BY <1>1, <2>1 DEF u
    <2> QED BY <1>2, <1>3, <2>2
  <1>5. p = q
    BY <1>2, <1>3, <1>4, SeqEqual
  <1> QED BY <1>5 DEF p, q, u

(* The places m and n of the second sequence are x and y of both. *)
IsShifted(first, second, m, n, x, y) ==
  /\ m \in Nat /\ n \in Nat /\ m <= n /\ n <= second
  /\ x = first + m /\ y = first + n

(* The places of u behind x to y hold what those of t behind m to n do. *)
SamePiece(u, x, y, t, m, n) == SubSeq(u, x + 1, y) = SubSeq(t, m + 1, n)

(* A piece that lies in the second of two sequences. *)
LEMMA PieceOfSecond ==
  ASSUME NEW S, NEW s \in Seq(S), NEW t \in Seq(S), NEW m, NEW n, NEW x, NEW y,
         IsShifted(Len(s), Len(t), m, n, x, y)
  PROVE  SamePiece(s \o t, x, y, t, m, n)
  <1>0. /\ m \in Nat /\ n \in Nat /\ m <= n /\ n <= Len(t)
        /\ x = Len(s) + m /\ y = Len(s) + n
    BY DEF IsShifted
  <1>1. s \o t \in Seq(S) /\ Len(s \o t) = Len(s) + Len(t)
        /\ \A i \in 1..Len(t) : (s \o t)[Len(s) + i] = t[i]
    BY Places
  <1> DEFINE u == s \o t
             p == SubSeq(u, x + 1, y)
             q == SubSeq(t, m + 1, n)
  <1> HIDE DEF u
  <1>2. x \in Nat /\ y \in Nat /\ x <= y /\ y - x = n - m
    BY <1>0
  <1>3. /\ p \in Seq(S) /\ Len(p) = n - m
        /\ \A i \in 1..(n - m) : p[i] = u[x + i]
    <2>1. y <= Len(u) /\ u \in Seq(S)
      BY <1>0, <1>1 DEF u
    <2> QED BY <1>0, <1>2, <2>1, PieceOf
  <1>4. /\ q \in Seq(S) /\ Len(q) = n - m
        /\ \A i \in 1..(n - m) : q[i] = t[m + i]
    BY <1>0, PieceOf
  <1> HIDE DEF p, q
  <1>5. \A i \in 1..(n - m) : p[i] = q[i]
    <2> TAKE i \in 1..(n - m)
    <2>1. m + i \in 1..Len(t) /\ x + i = Len(s) + (m + i)
      BY <1>0
    <2>2. u[x + i] = t[m + i]
      BY <1>1, <2>1 DEF u
    <2> QED BY <1>3, <1>4, <2>2
  <1>6. p = q
    BY <1>3, <1>4, <1>5, SeqEqual
  <1> QED BY <1>6 DEF p, q, u, SamePiece

(* A sequence is what is before a place, and what is behind. *)
AreParts(S, s, n, a, t) ==
  /\ s = a \o t
  /\ a \in Seq(S) /\ Len(a) = n
  /\ t \in Seq(S) /\ Len(t) = Len(s) - n

(* Cut at any place, a sequence is its two parts. *)
LEMMA CutAt ==
  ASSUME NEW S, NEW s \in Seq(S), NEW n \in 0..Len(s)
  PROVE  AreParts(S, s, n, SubSeq(s, 1, n), SubSeq(s, n + 1, Len(s)))
  <1>1. 1 \in 1..(Len(s) + 1) /\ n \in (1 - 1)..Len(s) /\ Len(s) \in n..Len(s)
    OBVIOUS
  <1>2. SubSeq(s, 1, n) \o SubSeq(s, n + 1, Len(s)) = SubSeq(s, 1, Len(s))
    BY <1>1, ConcatAdjacentSubSeq
  <1>3. SubSeq(s, 1, Len(s)) = s
    BY SubSeqFull
  <1>4. SubSeq(s, 1, n) \in Seq(S) /\ Len(SubSeq(s, 1, n)) = n
    <2>1. \A i \in 1..n : s[i] \in S
      OBVIOUS
    <2> QED BY <2>1
  <1>5. SubSeq(s, n + 1, Len(s)) \in Seq(S) /\ Len(SubSeq(s, n + 1, Len(s))) = Len(s) - n
    BY PieceOf
  <1> QED BY <1>2, <1>3, <1>4, <1>5, Zenon DEF AreParts

(* Sequences over a set are sequences over a larger one. *)
LEMMA SeqMore ==
  ASSUME NEW S, NEW T, S \subseteq T, NEW s \in Seq(S)
  PROVE  s \in Seq(T)
  <1>1. Len(s) \in Nat /\ s \in [1..Len(s) -> S]
    OBVIOUS
  <1>2. \A i \in 1..Len(s) : s[i] \in T
    BY <1>1
  <1>3. s \in [1..Len(s) -> T]
    BY <1>1, <1>2
  <1> QED BY <1>1, <1>3

-----------------------------------------------------------------------------
(* Sequences joined.                                                       *)

(* g tells what the first blocks are together. *)
Joins(g, blocks) ==
  g = [i \in 1..Len(blocks) |-> IF i = 1 THEN blocks[i] ELSE g[i - 1] \o blocks[i]]

(* FlattenSeq joins blocks one after the other. *)
LEMMA JoinedBlocks ==
  ASSUME NEW B, NEW blocks \in Seq(B), blocks # << >>, NEW g, Joins(g, blocks)
  PROVE  FlattenSeq(blocks) = g[Len(blocks)]
  <1> DEFINE n == Len(blocks)
             h == CHOOSE f : Joins(f, blocks)
  <1>1. n \in Nat \ {0}
    OBVIOUS
  <1>2. Joins(h, blocks)
    BY Zenon
  <1>3. FlattenSeq(blocks) = h[n]
    BY <1>1 DEF FlattenSeq, Joins
  <1> HIDE DEF n, h
  <1>4. \A i \in 1..n : h[i] = IF i = 1 THEN blocks[i] ELSE h[i - 1] \o blocks[i]
    <2>1. h = [i \in 1..n |-> IF i = 1 THEN blocks[i] ELSE h[i - 1] \o blocks[i]]
      BY <1>2, Zenon DEF Joins, n
    <2> QED BY <2>1, Zenon
  <1>5. \A i \in 1..n : g[i] = IF i = 1 THEN blocks[i] ELSE g[i - 1] \o blocks[i]
    <2>1. g = [i \in 1..n |-> IF i = 1 THEN blocks[i] ELSE g[i - 1] \o blocks[i]]
      BY Zenon DEF Joins, n
    <2> QED BY <2>1, Zenon
  <1> DEFINE N == {m \in Nat : m \in 1..n => g[m] = h[m]}
  <1>6. 0 \in N
    OBVIOUS
  <1>7. ASSUME NEW m \in Nat, m \in N
        PROVE  m + 1 \in N
    <2> SUFFICES ASSUME m + 1 \in 1..n
                 PROVE  g[m + 1] = h[m + 1]
      OBVIOUS
    <2>1. CASE m = 0
      <3>1. m + 1 = 1
        BY <2>1
      <3>2. g[1] = blocks[1] /\ h[1] = blocks[1]
        BY <1>1, <1>4, <1>5
      <3> QED BY <3>1, <3>2, Zenon
    <2>2. CASE m # 0
      <3>1. m \in 1..n /\ m + 1 # 1 /\ (m + 1) - 1 = m
        BY <1>1, <2>2
      <3>2. g[m] = h[m]
        BY <1>7, <3>1
      <3>3. g[m + 1] = g[m] \o blocks[m + 1]
        BY <1>5, <3>1
      <3>4. h[m + 1] = h[m] \o blocks[m + 1]
        BY <1>4, <3>1
      <3> QED BY <3>2, <3>3, <3>4, Zenon
    <2> QED BY <2>1, <2>2
  <1> HIDE DEF N
  <1>8. Nat \subseteq N
    BY <1>6, <1>7, NatInd
  <1>9. n \in N /\ n \in 1..n
    BY <1>1, <1>8
  <1>10. g[n] = h[n]
    BY <1>9 DEF N
  <1> QED BY <1>3, <1>10, Zenon DEF n

-----------------------------------------------------------------------------
(* Recursion: values made one from the other.                              *)

Steps(f, a, G) == f[0] = a /\ \A n \in Nat : f[n + 1] = G[<< n + 1, f[n] >>]

StepsTo(h, m, X, a, G) ==
  /\ h \in [0..m -> X] /\ h[0] = a
  /\ \A i \in Nat : i < m => h[i + 1] = G[<< i + 1, h[i] >>]

(* Any number of values can be made, ... *)
LEMMA StepsExist ==
  ASSUME NEW X, NEW a \in X, NEW G \in [Nat \X X -> X]
  PROVE  \A m \in Nat : \E h : StepsTo(h, m, X, a, G)
  <1> DEFINE N == {m \in Nat : \E h : StepsTo(h, m, X, a, G)}
  <1>1. 0 \in N
    <2> DEFINE h == [i \in 0..0 |-> a]
    <2>1. h \in [0..0 -> X] /\ h[0] = a /\ \A i \in Nat : ~ (i < 0)
      OBVIOUS
    <2>2. StepsTo(h, 0, X, a, G)
      BY <2>1, Zenon DEF StepsTo
    <2> QED BY <2>2, Zenon
  <1>2. ASSUME NEW m \in Nat, m \in N
        PROVE  m + 1 \in N
    <2>1. PICK g : StepsTo(g, m, X, a, G)
      BY <1>2
    <2>2. /\ g \in [0..m -> X] /\ g[0] = a
          /\ \A i \in Nat : i < m => g[i + 1] = G[<< i + 1, g[i] >>]
      BY <2>1, Zenon DEF StepsTo
    <2> DEFINE last == G[<< m + 1, g[m] >>]
               h == [i \in 0..(m + 1) |-> IF i = m + 1 THEN last ELSE g[i]]
    <2>3. last \in X
      <3>1. m + 1 \in Nat /\ m \in 0..m
        OBVIOUS
      <3>2. g[m] \in X
        BY <2>2, <3>1
      <3> QED BY <3>1, <3>2
    <2> HIDE DEF last
    <2>4. \A i \in 0..m : h[i] = g[i]
      OBVIOUS
    <2>5. h[m + 1] = last
      OBVIOUS
    <2>6. h \in [0..(m + 1) -> X]
      <3>1. \A i \in 0..(m + 1) : i = m + 1 \/ i \in 0..m
        OBVIOUS
      <3> QED BY <2>2, <2>3, <3>1
    <2> HIDE DEF h
    <2>7. h[0] = a
      BY <2>2, <2>4
    <2>8. ASSUME NEW i \in Nat, i < m + 1
          PROVE  h[i + 1] = G[<< i + 1, h[i] >>]
      <3>1. i \in 0..m
        BY <2>8
      <3>2. h[i] = g[i]
        BY <2>4, <3>1
      <3>3. CASE i = m
        BY <2>5, <3>2, <3>3, Zenon DEF last
      <3>4. CASE i # m
        <4>1. i < m /\ i + 1 \in 0..m
          BY <3>1, <3>4
        <4>2. h[i + 1] = g[i + 1] /\ g[i + 1] = G[<< i + 1, g[i] >>]
          BY <2>2, <2>4, <4>1
        <4> QED BY <3>2, <4>2, Zenon
      <3> QED BY <3>3, <3>4
    <2>9. StepsTo(h, m + 1, X, a, G)
      BY <2>6, <2>7, <2>8, Zenon DEF StepsTo
    <2> QED BY <2>9
  <1> HIDE DEF N
  <1>3. Nat \subseteq N
    BY <1>1, <1>2, NatInd
  <1> QED BY <1>3 DEF N

(* ... and always the same, ... *)
LEMMA StepsAgree ==
  ASSUME NEW X, NEW a, NEW G, NEW g, NEW h, NEW m \in Nat, NEW n \in Nat, m <= n,
         StepsTo(g, m, X, a, G), StepsTo(h, n, X, a, G)
  PROVE  \A i \in 0..m : g[i] = h[i]
  <1>1. /\ g[0] = a
        /\ \A i \in Nat : i < m => g[i + 1] = G[<< i + 1, g[i] >>]
    BY Zenon DEF StepsTo
  <1>2. /\ h[0] = a
        /\ \A i \in Nat : i < n => h[i + 1] = G[<< i + 1, h[i] >>]
    BY Zenon DEF StepsTo
  <1> DEFINE N == {i \in Nat : i <= m => g[i] = h[i]}
  <1>3. 0 \in N
    BY <1>1, <1>2
  <1>4. ASSUME NEW i \in Nat, i \in N
        PROVE  i + 1 \in N
    <2> SUFFICES ASSUME i + 1 <= m
                 PROVE  g[i + 1] = h[i + 1]
      OBVIOUS
    <2>1. i < m /\ i < n /\ i <= m
      OBVIOUS
    <2>2. g[i] = h[i]
      BY <1>4, <2>1
    <2>3. g[i + 1] = G[<< i + 1, g[i] >>] /\ h[i + 1] = G[<< i + 1, h[i] >>]
      BY <1>1, <1>2, <2>1
    <2> QED BY <2>2, <2>3, Zenon
  <1> HIDE DEF N
  <1>5. Nat \subseteq N
    BY <1>3, <1>4, NatInd
  <1> QED BY <1>5 DEF N

(* ... so that there is a function of all numbers. *)
LEMMA Recursion ==
  ASSUME NEW X, NEW a \in X, NEW G \in [Nat \X X -> X]
  PROVE  \E f : f \in [Nat -> X] /\ Steps(f, a, G)
  <1> DEFINE h(m) == CHOOSE g : StepsTo(g, m, X, a, G)
             f == [m \in Nat |-> h(m)[m]]
  <1>1. \A m \in Nat : StepsTo(h(m), m, X, a, G)
    BY StepsExist, Zenon
  <1> HIDE DEF h
  <1>2. ASSUME NEW m \in Nat
        PROVE  /\ h(m) \in [0..m -> X] /\ h(m)[0] = a
               /\ \A i \in Nat : i < m => h(m)[i + 1] = G[<< i + 1, h(m)[i] >>]
    BY <1>1, Zenon DEF StepsTo
  <1>3. f \in [Nat -> X]
    <2>1. \A m \in Nat : m \in 0..m
      OBVIOUS
    <2>2. \A m \in Nat : h(m)[m] \in X
      BY <1>2, <2>1
    <2> QED BY <2>2
  <1>4. f[0] = a
    BY <1>2
  <1>5. ASSUME NEW n \in Nat
        PROVE  f[n + 1] = G[<< n + 1, f[n] >>]
    <2>1. n + 1 \in Nat /\ n < n + 1 /\ n <= n + 1 /\ n \in 0..n
      OBVIOUS
    <2>2. f[n + 1] = h(n + 1)[n + 1] /\ f[n] = h(n)[n]
      BY <2>1
    <2> DEFINE k == n + 1
    <2>3. k \in Nat /\ n < k /\ n <= k
      BY <2>1
    <2> HIDE DEF k, f
    <2>4. h(k)[n + 1] = G[<< n + 1, h(k)[n] >>]
      BY <1>2, <2>3
    <2>5. \A i \in 0..n : h(n)[i] = h(k)[i]
      <3>1. StepsTo(h(n), n, X, a, G) /\ StepsTo(h(k), k, X, a, G)
        BY <1>1, <2>3, Zenon
      <3> DEFINE u == h(n)
                 v == h(k)
      <3> HIDE DEF u, v
      <3>2. StepsTo(u, n, X, a, G) /\ StepsTo(v, k, X, a, G)
        BY <3>1 DEF u, v
      <3>3. \A i \in 0..n : u[i] = v[i]
        BY <2>3, <3>2, StepsAgree
      <3> QED BY <3>3 DEF u, v
    <2>6. h(n)[n] = h(k)[n]
      BY <2>1, <2>5
    <2> QED BY <2>2, <2>4, <2>6, Zenon DEF k
  <1>6. Steps(f, a, G)
    BY <1>4, <1>5, Zenon DEF Steps
  <1> QED BY <1>3, <1>6, Zenon

-----------------------------------------------------------------------------
(* Sequences joined, one by one.                                           *)

(* f tells what the first sequences of ss are together. *)
IsJoin(f, ss) ==
  f[0] = << >> /\ \A i \in 1..Len(ss) : f[i] = f[i - 1] \o ss[i]

(* There is such a function for every sequence of sequences.               *)
LEMMA JoinExists ==
  ASSUME NEW S, NEW ss \in Seq(Seq(S))
  PROVE  \E f : f \in [Nat -> Seq(S)] /\ IsJoin(f, ss)
  <1> DEFINE X == Seq(S)
             G == [p \in Nat \X X |-> IF p[1] \in 1..Len(ss) THEN p[2] \o ss[p[1]] ELSE p[2]]
  <1>1. ss \in Seq(X)
    OBVIOUS
  <1>2. << >> \in X /\ \A x, y \in X : x \o y \in X
    OBVIOUS
  <1> HIDE DEF X
  <1>3. \A i \in 1..Len(ss) : ss[i] \in X
    BY <1>1
  <1>4. G \in [Nat \X X -> X]
    <2>1. ASSUME NEW p \in Nat \X X
          PROVE  (IF p[1] \in 1..Len(ss) THEN p[2] \o ss[p[1]] ELSE p[2]) \in X
      <3>1. p[2] \in X
        OBVIOUS
      <3> QED BY <1>2, <1>3, <3>1
    <2> QED BY <2>1
  <1>5. \A n \in Nat : \A x \in X :
          G[<< n, x >>] = IF n \in 1..Len(ss) THEN x \o ss[n] ELSE x
    OBVIOUS
  <1> HIDE DEF G
  <1>6. PICK f : f \in [Nat -> X] /\ Steps(f, << >>, G)
    BY <1>2, <1>4, Recursion, Zenon
  <1>7. f[0] = << >> /\ \A n \in Nat : f[n + 1] = G[<< n + 1, f[n] >>]
    BY <1>6, Zenon DEF Steps
  <1>8. ASSUME NEW i \in 1..Len(ss)
        PROVE  f[i] = f[i - 1] \o ss[i]
    <2> DEFINE n == i - 1
    <2>1. n \in Nat /\ n + 1 = i /\ i \in Nat
      BY <1>1
    <2> HIDE DEF n
    <2>2. f[n + 1] = G[<< n + 1, f[n] >>] /\ f[n] \in X
      BY <1>6, <1>7, <2>1
    <2>3. f[i] = G[<< i, f[n] >>]
      BY <2>1, <2>2, Zenon
    <2> QED BY <1>5, <2>1, <2>2, <2>3, Zenon DEF n
  <1>9. IsJoin(f, ss)
    BY <1>7, <1>8, Zenon DEF IsJoin
  <1> QED BY <1>6, <1>9, Zenon DEF X

(* FlattenSeq returns its last value.                                      *)
LEMMA JoinIs ==
  ASSUME NEW S, NEW ss \in Seq(Seq(S)), NEW f, f \in [Nat -> Seq(S)], IsJoin(f, ss)
  PROVE  FlattenSeq(ss) = f[Len(ss)]
  <1>0. f[0] = << >> /\ \A i \in 1..Len(ss) : f[i] = f[i - 1] \o ss[i]
    BY Zenon DEF IsJoin
  <1> DEFINE B == Seq(S)
  <1>1. ss \in Seq(B)
    OBVIOUS
  <1>2. \A s \in B : << >> \o s = s
    BY ConcatEmptySeq
  <1> HIDE DEF B
  <1>3. CASE ss = << >>
    <2>1. FlattenSeq(<< >>) = << >> /\ Len(<< >>) = 0
      BY DEF FlattenSeq
    <2> QED BY <1>0, <1>3, <2>1, Zenon
  <1>4. CASE ss # << >>
    <2> DEFINE n == Len(ss)
               g == [i \in 1..n |-> f[i]]
    <2>1. n \in Nat \ {0}
      BY <1>1, <1>4
    <2>2. \A i \in 1..n : ss[i] \in B
      BY <1>1
    <2> HIDE DEF n
    <2>3. ASSUME NEW i \in 1..n
          PROVE  f[i] = IF i = 1 THEN ss[i] ELSE g[i - 1] \o ss[i]
      <3>1. f[i] = f[i - 1] \o ss[i]
        BY <1>0 DEF n
      <3>2. CASE i = 1
        <4>1. f[i - 1] = << >>
          BY <1>0, <3>2
        <4> QED BY <1>2, <2>2, <3>1, <3>2, <4>1, Zenon
      <3>3. CASE i # 1
        <4>1. i - 1 \in 1..n
          BY <2>1, <3>3
        <4> QED BY <3>1, <3>3, <4>1
      <3> QED BY <3>2, <3>3
    <2>4. g = [i \in 1..n |-> IF i = 1 THEN ss[i] ELSE g[i - 1] \o ss[i]]
      BY <2>3
    <2>5. g[n] = f[n]
      BY <2>1
    <2> HIDE DEF g
    <2>6. Joins(g, ss)
      BY <2>4, Zenon DEF Joins, n
    <2>7. FlattenSeq(ss) = g[n]
      BY <1>1, <1>4, <2>6, JoinedBlocks, Zenon DEF n
    <2> QED BY <2>5, <2>7, Zenon DEF n
  <1> QED BY <1>3, <1>4

(* What is joined is a sequence, and one more is put behind. *)
LEMMA JoinAppend ==
  ASSUME NEW S, NEW ss \in Seq(Seq(S)), NEW s \in Seq(S)
  PROVE  /\ FlattenSeq(ss) \in Seq(S)
         /\ FlattenSeq(Append(ss, s)) = FlattenSeq(ss) \o s
  <1> DEFINE B == Seq(S)
             t == Append(ss, s)
             n == Len(ss)
  <1>1. ss \in Seq(B) /\ s \in B
    OBVIOUS
  <1> HIDE DEF B
  <1>2. /\ t \in Seq(B) /\ n \in Nat /\ Len(t) = n + 1
        /\ \A i \in 1..n : t[i] = ss[i]
        /\ t[n + 1] = s
    BY <1>1
  <1> HIDE DEF t, n
  <1>3. PICK f : f \in [Nat -> B] /\ IsJoin(f, t)
    BY <1>2, JoinExists, Zenon DEF B
  <1>4. f[0] = << >> /\ \A i \in 1..Len(t) : f[i] = f[i - 1] \o t[i]
    BY <1>3, Zenon DEF IsJoin
  <1>5. IsJoin(f, ss)
    <2>1. \A i \in 1..n : i \in 1..Len(t)
      BY <1>2
    <2>2. \A i \in 1..n : f[i] = f[i - 1] \o ss[i]
      BY <1>2, <1>4, <2>1, Zenon
    <2> QED BY <1>4, <2>2, Zenon DEF IsJoin, n
  <1>6. FlattenSeq(ss) = f[n]
    BY <1>1, <1>3, <1>5, JoinIs, Zenon DEF B, n
  <1>7. FlattenSeq(t) = f[n + 1]
    <2>1. FlattenSeq(t) = f[Len(t)]
      BY <1>2, <1>3, JoinIs, Zenon DEF B
    <2> QED BY <1>2, <2>1, Zenon
  <1>8. f[n + 1] = f[n] \o s
    <2>1. n + 1 \in 1..Len(t) /\ (n + 1) - 1 = n
      BY <1>2
    <2> QED BY <1>2, <1>4, <2>1, Zenon
  <1>9. f[n] \in B
    BY <1>2, <1>3
  <1> QED BY <1>6, <1>7, <1>8, <1>9, Zenon DEF t, B

(* u begins with s. *)
Starts(u, s) == Len(s) <= Len(u) /\ \A i \in 1..Len(s) : u[i] = s[i]

(* One sequence behind another begins with it, and with what it does. *)
LEMMA StartsConcat ==
  ASSUME NEW S, NEW s \in Seq(S), NEW t \in Seq(S), NEW u \in Seq(S), Starts(s, u)
  PROVE  Starts(s \o t, u)
  <1>1. Len(u) \in Nat /\ Len(s) \in Nat /\ Len(t) \in Nat
    OBVIOUS
  <1>2. Len(u) <= Len(s) /\ \A i \in 1..Len(u) : u[i] = s[i]
    BY Zenon DEF Starts
  <1>3. Len(s \o t) = Len(s) + Len(t) /\ \A i \in 1..Len(s) : (s \o t)[i] = s[i]
    BY Places
  <1> DEFINE v == s \o t
  <1>4. Len(v) = Len(s) + Len(t) /\ \A i \in 1..Len(s) : v[i] = s[i]
    BY <1>3
  <1> HIDE DEF v
  <1>5. Len(u) <= Len(v)
    BY <1>1, <1>2, <1>4
  <1>6. ASSUME NEW i \in 1..Len(u)
        PROVE  v[i] = u[i]
    <2>1. i \in 1..Len(s)
      BY <1>1, <1>2
    <2> QED BY <1>2, <1>4, <2>1
  <1>7. Starts(v, u)
    BY <1>5, <1>6, Zenon DEF Starts
  <1> QED BY <1>7, Zenon DEF v

(* Joined, the first ones are where all of them begin. *)
LEMMA JoinStarts ==
  ASSUME NEW S, NEW ss \in Seq(Seq(S)), NEW rs \in Seq(Seq(S)), Starts(ss, rs)
  PROVE  Starts(FlattenSeq(ss), FlattenSeq(rs))
  <1> DEFINE B == Seq(S)
             n == Len(ss)
             m == Len(rs)
  <1>0. ss \in Seq(B) /\ rs \in Seq(B)
    OBVIOUS
  <1> HIDE DEF B
  <1>1. n \in Nat /\ m \in Nat /\ \A i \in 1..n : ss[i] \in B
    BY <1>0
  <1>2. m <= n /\ \A i \in 1..m : ss[i] = rs[i]
    BY Zenon DEF Starts
  <1>3. PICK f : f \in [Nat -> B] /\ IsJoin(f, ss)
    BY JoinExists, Zenon DEF B
  <1>4. f[0] = << >> /\ \A i \in 1..n : f[i] = f[i - 1] \o ss[i]
    BY <1>3, Zenon DEF IsJoin
  <1> HIDE DEF n, m
  <1>5. IsJoin(f, rs)
    <2>1. \A i \in 1..m : i \in 1..n
      BY <1>1, <1>2
    <2>2. \A i \in 1..m : f[i] = f[i - 1] \o rs[i]
      BY <1>2, <1>4, <2>1, Zenon
    <2> QED BY <1>4, <2>2, Zenon DEF IsJoin, m
  <1>6. FlattenSeq(ss) = f[n] /\ FlattenSeq(rs) = f[m]
    BY <1>3, <1>5, JoinIs, Zenon DEF B, n, m
  <1> DEFINE N == {j \in Nat : m + j <= n => Starts(f[m + j], f[m])}
  <1>7. 0 \in N
    <2>1. m + 0 = m
      BY <1>1
    <2>2. f[m] \in B
      BY <1>1, <1>3
    <2>3. Starts(f[m], f[m])
      BY <2>2 DEF Starts, B
    <2> QED BY <2>1, <2>3
  <1>8. ASSUME NEW j \in Nat, j \in N
        PROVE  j + 1 \in N
    <2> SUFFICES ASSUME m + (j + 1) <= n
                 PROVE  Starts(f[m + (j + 1)], f[m])
      OBVIOUS
    <2> DEFINE k == m + j
    <2>1. /\ k + 1 = m + (j + 1) /\ k + 1 \in 1..n /\ (k + 1) - 1 = k
          /\ k <= n /\ k \in Nat /\ k + 1 \in Nat
      BY <1>1
    <2>2. Starts(f[k], f[m])
      BY <1>8, <2>1
    <2> HIDE DEF k
    <2>3. f[k + 1] = f[k] \o ss[k + 1]
      BY <1>4, <2>1, Zenon
    <2>4. f[k] \in B /\ ss[k + 1] \in B /\ f[m] \in B
      BY <1>1, <1>3, <2>1
    <2>5. Starts(f[k] \o ss[k + 1], f[m])
      BY <2>2, <2>4, StartsConcat, Zenon DEF B
    <2> QED BY <2>1, <2>3, <2>5, Zenon
  <1> HIDE DEF N
  <1>9. Nat \subseteq N
    BY <1>7, <1>8, NatInd
  <1>10. Starts(f[n], f[m])
    <2>1. n - m \in Nat /\ m + (n - m) = n /\ m + (n - m) <= n
      BY <1>1, <1>2
    <2>2. n - m \in N
      BY <1>9, <2>1
    <2>3. Starts(f[m + (n - m)], f[m])
      BY <2>1, <2>2 DEF N
    <2> QED BY <2>1, <2>3, Zenon
  <1> QED BY <1>6, <1>10, Zenon

-----------------------------------------------------------------------------
(* What the elements of a sequence stand for, joined.                      *)

Mapped(b, g) == [i \in DOMAIN b |-> g[b[i]]]

Gathered(b, g) == FlattenSeq(Mapped(b, g))

IsMapped(t, b, g) == Len(t) = Len(b) /\ \A i \in 1..Len(b) : t[i] = g[b[i]]

(* Mapping goes element by element. *)
LEMMA MappedIs ==
  ASSUME NEW D, NEW E, NEW g \in [D -> E], NEW b \in Seq(D)
  PROVE  Mapped(b, g) \in Seq(E) /\ IsMapped(Mapped(b, g), b, g)
  <1> DEFINE n == Len(b)
             t == Mapped(b, g)
  <1>1. n \in Nat /\ DOMAIN b = 1..n /\ \A i \in 1..n : b[i] \in D
    OBVIOUS
  <1> HIDE DEF n
  <1>2. \A i \in 1..n : g[b[i]] \in E
    BY <1>1
  <1>3. t = [i \in 1..n |-> g[b[i]]]
    BY <1>1, Zenon DEF Mapped
  <1> HIDE DEF t
  <1>4. t \in [1..n -> E] /\ \A i \in 1..n : t[i] = g[b[i]]
    BY <1>2, <1>3
  <1>5. t \in Seq(E) /\ Len(t) = n
    BY <1>1, <1>4
  <1>6. IsMapped(t, b, g)
    BY <1>4, <1>5, Zenon DEF IsMapped, n
  <1> QED BY <1>5, <1>6, Zenon DEF t

(* One element more. *)
LEMMA MappedAppend ==
  ASSUME NEW D, NEW E, NEW g \in [D -> E], NEW b \in Seq(D), NEW d \in D
  PROVE  Mapped(Append(b, d), g) = Append(Mapped(b, g), g[d])
  <1> DEFINE n == Len(b)
             c == Append(b, d)
             s == Mapped(b, g)
             t == Mapped(c, g)
             u == Append(s, g[d])
  <1>1. /\ n \in Nat /\ c \in Seq(D) /\ Len(c) = n + 1
        /\ c[n + 1] = d /\ \A i \in 1..n : c[i] = b[i]
    OBVIOUS
  <1> HIDE DEF c, n
  <1>2. s \in Seq(E) /\ Len(s) = n /\ \A i \in 1..n : s[i] = g[b[i]]
    <2>1. s \in Seq(E) /\ IsMapped(s, b, g)
      BY MappedIs, Zenon
    <2> HIDE DEF s
    <2> QED BY <2>1, Zenon DEF IsMapped, n
  <1> HIDE DEF s
  <1>3. t \in Seq(E) /\ Len(t) = n + 1 /\ \A i \in 1..(n + 1) : t[i] = g[c[i]]
    <2>1. t \in Seq(E) /\ IsMapped(t, c, g)
      BY <1>1, MappedIs, Zenon
    <2> HIDE DEF t
    <2>2. t \in Seq(E) /\ Len(t) = Len(c) /\ \A i \in 1..Len(c) : t[i] = g[c[i]]
      BY <2>1, Zenon DEF IsMapped
    <2> QED BY <1>1, <2>2
  <1>4. g[d] \in E
    OBVIOUS
  <1>5. /\ u \in Seq(E) /\ Len(u) = n + 1
        /\ u[n + 1] = g[d] /\ \A i \in 1..n : u[i] = s[i]
    BY <1>2, <1>4
  <1> HIDE DEF t, u, n
  <1>6. \A i \in 1..(n + 1) : t[i] = u[i]
    <2> TAKE i \in 1..(n + 1)
    <2>1. CASE i = n + 1
      BY <1>1, <1>3, <1>5, <2>1
    <2>2. CASE i # n + 1
      <3>1. i \in 1..n
        BY <1>1, <2>2
      <3> QED BY <1>1, <1>2, <1>3, <1>5, <3>1
    <2> QED BY <2>1, <2>2
  <1>7. t = u
    BY <1>3, <1>5, <1>6, SeqEqual
  <1> QED BY <1>7 DEF t, u, c, s

(* Nothing is gathered from nothing, and what one more element stands for  *)
(* comes behind what was gathered.                                         *)
LEMMA GatheredMore ==
  ASSUME NEW D, NEW S, NEW g \in [D -> Seq(S)]
  PROVE  /\ Gathered(<< >>, g) = << >>
         /\ \A b \in Seq(D) : Gathered(b, g) \in Seq(S)
         /\ \A b \in Seq(D), d \in D : Gathered(Append(b, d), g) = Gathered(b, g) \o g[d]
  <1> DEFINE B == Seq(S)
  <1>1. g \in [D -> B]
    OBVIOUS
  <1> HIDE DEF B
  <1>2. Gathered(<< >>, g) = << >>
    <2>1. << >> \in Seq(D) /\ Len(<< >>) = 0
      OBVIOUS
    <2> DEFINE n == << >>
               s == Mapped(n, g)
    <2>2. s \in Seq(B) /\ IsMapped(s, n, g)
      BY <1>1, <2>1, MappedIs, Zenon
    <2> HIDE DEF s
    <2>3. s = << >>
      BY <2>2 DEF IsMapped
    <2>4. FlattenSeq(<< >>) = << >>
      BY DEF FlattenSeq
    <2> QED BY <2>3, <2>4, Zenon DEF Gathered, s
  <1>3. ASSUME NEW b \in Seq(D)
        PROVE  Gathered(b, g) \in B
    <2>1. Mapped(b, g) \in Seq(B)
      BY <1>1, MappedIs, Zenon
    <2>2. << >> \in B
      BY DEF B
    <2>3. FlattenSeq(Mapped(b, g)) \in B
      BY <2>1, <2>2, JoinAppend, Zenon DEF B
    <2> QED BY <2>3, Zenon DEF Gathered
  <1>4. ASSUME NEW b \in Seq(D), NEW d \in D
        PROVE  Gathered(Append(b, d), g) = Gathered(b, g) \o g[d]
    <2>1. Mapped(b, g) \in Seq(B) /\ g[d] \in B
      BY <1>1, MappedIs, Zenon
    <2>2. Mapped(Append(b, d), g) = Append(Mapped(b, g), g[d])
      BY <1>1, MappedAppend, Zenon
    <2>3. FlattenSeq(Append(Mapped(b, g), g[d])) = FlattenSeq(Mapped(b, g)) \o g[d]
      BY <2>1, JoinAppend, Zenon DEF B
    <2> QED BY <2>2, <2>3, Zenon DEF Gathered
  <1> QED BY <1>2, <1>3, <1>4, Zenon DEF B

(* What the first elements stand for is where all that is gathered begins. *)
LEMMA GatheredStarts ==
  ASSUME NEW D, NEW S, NEW g \in [D -> Seq(S)], NEW b \in Seq(D), NEW c \in Seq(D),
         Starts(b, c)
  PROVE  Starts(Gathered(b, g), Gathered(c, g))
  <1> DEFINE B == Seq(S)
             s == Mapped(b, g)
             t == Mapped(c, g)
  <1>1. g \in [D -> B]
    OBVIOUS
  <1> HIDE DEF B
  <1>2. s \in Seq(B) /\ Len(s) = Len(b) /\ \A i \in 1..Len(b) : s[i] = g[b[i]]
    <2>1. s \in Seq(B) /\ IsMapped(s, b, g)
      BY <1>1, MappedIs, Zenon
    <2> HIDE DEF s
    <2> QED BY <2>1, Zenon DEF IsMapped
  <1>3. t \in Seq(B) /\ Len(t) = Len(c) /\ \A i \in 1..Len(c) : t[i] = g[c[i]]
    <2>1. t \in Seq(B) /\ IsMapped(t, c, g)
      BY <1>1, MappedIs, Zenon
    <2> HIDE DEF t
    <2> QED BY <2>1, Zenon DEF IsMapped
  <1>4. Len(c) <= Len(b) /\ \A i \in 1..Len(c) : c[i] = b[i]
    BY Zenon DEF Starts
  <1>5. \A i \in 1..Len(c) : i \in 1..Len(b)
    <2>1. Len(c) \in Nat /\ Len(b) \in Nat
      OBVIOUS
    <2> QED BY <1>4, <2>1
  <1> HIDE DEF s, t
  <1>6. \A i \in 1..Len(t) : t[i] = s[i]
    <2> SUFFICES ASSUME NEW i \in 1..Len(t)
                 PROVE  t[i] = s[i]
      OBVIOUS
    <2>1. i \in 1..Len(c) /\ i \in 1..Len(b)
      BY <1>3, <1>5
    <2>2. t[i] = g[c[i]] /\ s[i] = g[b[i]] /\ c[i] = b[i]
      BY <1>2, <1>3, <1>4, <2>1, Zenon
    <2> QED BY <2>2, Zenon
  <1>7. Starts(s, t)
    BY <1>2, <1>3, <1>4, <1>6 DEF Starts
  <1>8. Starts(FlattenSeq(s), FlattenSeq(t))
    BY <1>2, <1>3, <1>7, JoinStarts, Zenon DEF B
  <1> QED BY <1>8, Zenon DEF Gathered, s, t

(* What is gathered from two sequences is gathered from one and the other. *)
LEMMA GatheredConcat ==
  ASSUME NEW D, NEW S, NEW g \in [D -> Seq(S)], NEW b \in Seq(D), NEW c \in Seq(D)
  PROVE  Gathered(b \o c, g) = Gathered(b, g) \o Gathered(c, g)
  <1> DEFINE B == Seq(S)
             h(a) == Gathered(a, g)
             P == {a \in Seq(D) : h(b \o a) = h(b) \o h(a)}
  <1>1. /\ h(<< >>) = << >>
        /\ \A a \in Seq(D) : h(a) \in B
        /\ \A a \in Seq(D), d \in D : h(Append(a, d)) = h(a) \o g[d]
    BY GatheredMore, Zenon
  <1>2. \A d \in D : g[d] \in B
    OBVIOUS
  <1> HIDE DEF h, B
  <1>3. << >> \in P
    <2>1. b \o << >> = b /\ << >> \in Seq(D)
      OBVIOUS
    <2>2. h(b) \o << >> = h(b)
      BY <1>1 DEF B
    <2> QED BY <1>1, <2>1, <2>2
  <1>4. ASSUME NEW a \in Seq(D), NEW d \in D, a \in P
        PROVE  Append(a, d) \in P
    <2>1. b \o Append(a, d) = Append(b \o a, d) /\ b \o a \in Seq(D)
          /\ Append(a, d) \in Seq(D)
      OBVIOUS
    <2>2. h(b \o a) = h(b) \o h(a)
      BY <1>4
    <2>3. h(Append(b \o a, d)) = h(b \o a) \o g[d]
      BY <1>1, <2>1, Zenon
    <2>4. h(Append(a, d)) = h(a) \o g[d]
      BY <1>1, Zenon
    <2>5. Associates(h(b), h(a), g[d])
      BY <1>1, <1>2, Association, Zenon DEF B
    <2>6. (h(b) \o h(a)) \o g[d] = h(b) \o (h(a) \o g[d])
      BY <2>5, Zenon DEF Associates
    <2>7. h(b \o Append(a, d)) = h(b) \o h(Append(a, d))
      BY <2>1, <2>2, <2>3, <2>4, <2>6, Zenon
    <2> QED BY <2>1, <2>7
  <1> HIDE DEF P
  <1>5. Seq(D) \subseteq P
    BY <1>3, <1>4, SeqInd
  <1>6. c \in P
    BY <1>5
  <1>7. h(b \o c) = h(b) \o h(c)
    BY <1>6 DEF P
  <1> QED BY <1>7, Zenon DEF h

(* u has s behind its place n. *)
IsAt(u, n, s) == n + Len(s) <= Len(u) /\ \A i \in 1..Len(s) : u[n + i] = s[i]

(* What u begins with has its second part behind the first. *)
LEMMA AtBehind ==
  ASSUME NEW S, NEW u \in Seq(S), NEW s \in Seq(S), NEW t \in Seq(S), Starts(u, s \o t)
  PROVE  IsAt(u, Len(s), t)
  <1> DEFINE c == s \o t
  <1>1. Len(s) \in Nat /\ Len(t) \in Nat /\ Len(u) \in Nat
    OBVIOUS
  <1>2. Len(c) = Len(s) + Len(t) /\ \A i \in 1..Len(t) : c[Len(s) + i] = t[i]
    BY Places
  <1> HIDE DEF c
  <1>3. Len(c) <= Len(u) /\ \A i \in 1..Len(c) : c[i] = u[i]
    BY Zenon DEF Starts, c
  <1>4. Len(s) + Len(t) <= Len(u)
    BY <1>2, <1>3
  <1>5. \A i \in 1..Len(t) : u[Len(s) + i] = t[i]
    <2> TAKE i \in 1..Len(t)
    <2>1. Len(s) + i \in 1..Len(c)
      BY <1>1, <1>2
    <2> QED BY <1>2, <1>3, <2>1
  <1> QED BY <1>4, <1>5, Zenon DEF IsAt

EndsAt(m, n, s) == m = n + Len(s)

(* What is behind a place is cut out from there. *)
LEMMA AtPiece ==
  ASSUME NEW S, NEW u \in Seq(S), NEW s \in Seq(S), NEW n \in Nat, IsAt(u, n, s),
         NEW m, EndsAt(m, n, s)
  PROVE  SubSeq(u, n + 1, m) = s
  <1> DEFINE p == SubSeq(u, n + 1, m)
  <1>1. Len(s) \in Nat /\ Len(u) \in Nat /\ m \in Nat /\ n <= m /\ m - n = Len(s)
    BY DEF EndsAt
  <1>2. m <= Len(u) /\ \A i \in 1..Len(s) : u[n + i] = s[i]
    BY Zenon DEF IsAt, EndsAt
  <1>3. /\ p \in Seq(S) /\ Len(p) = m - n
        /\ \A i \in 1..(m - n) : p[i] = u[n + i]
    BY <1>1, <1>2, PieceOf
  <1> HIDE DEF p
  <1>4. Len(p) = Len(s) /\ \A i \in 1..Len(s) : p[i] = s[i]
    BY <1>1, <1>2, <1>3
  <1>5. p = s
    BY <1>3, <1>4, SeqEqual
  <1> QED BY <1>5, Zenon DEF p

(* What is within what is there is there. *)
LEMMA AtWithin ==
  ASSUME NEW S, NEW u \in Seq(S), NEW s \in Seq(S), NEW t \in Seq(S),
         NEW n \in Nat, NEW k \in Nat, IsAt(u, n, s), IsAt(s, k, t)
  PROVE  IsAt(u, n + k, t)
  <1>1. Len(s) \in Nat /\ Len(u) \in Nat /\ Len(t) \in Nat
    OBVIOUS
  <1>2. n + Len(s) <= Len(u) /\ \A i \in 1..Len(s) : u[n + i] = s[i]
    BY Zenon DEF IsAt
  <1>3. k + Len(t) <= Len(s) /\ \A i \in 1..Len(t) : s[k + i] = t[i]
    BY Zenon DEF IsAt
  <1>4. (n + k) + Len(t) <= Len(u)
    BY <1>1, <1>2, <1>3
  <1>5. \A i \in 1..Len(t) : u[(n + k) + i] = t[i]
    <2> TAKE i \in 1..Len(t)
    <2>1. k + i \in 1..Len(s) /\ n + (k + i) = (n + k) + i
      BY <1>1, <1>3
    <2>2. u[n + (k + i)] = s[k + i] /\ s[k + i] = t[i]
      BY <1>2, <1>3, <2>1, Zenon
    <2> QED BY <2>1, <2>2, Zenon
  <1> QED BY <1>4, <1>5, Zenon DEF IsAt

(* The first elements of a sequence, and the next one. *)
LEMMA StartsNext ==
  ASSUME NEW S, NEW u \in Seq(S), NEW s \in Seq(S), Starts(u, s), Len(s) < Len(u)
  PROVE  /\ u[Len(s) + 1] \in S
         /\ Append(s, u[Len(s) + 1]) \in Seq(S)
         /\ Starts(u, Append(s, u[Len(s) + 1]))
  <1> DEFINE n == Len(s)
             x == u[n + 1]
             t == Append(s, x)
  <1>1. n \in Nat /\ n + 1 <= Len(u) /\ Len(u) \in Nat
    OBVIOUS
  <1>2. x \in S
    BY <1>1
  <1>3. t \in Seq(S) /\ Len(t) = n + 1 /\ t[n + 1] = x /\ \A i \in 1..n : t[i] = s[i]
    BY <1>2
  <1>4. \A i \in 1..n : u[i] = s[i]
    BY Zenon DEF Starts
  <1> HIDE DEF t
  <1>5. \A i \in 1..Len(t) : u[i] = t[i]
    <2> TAKE i \in 1..Len(t)
    <2>1. CASE i = n + 1
      BY <1>3, <2>1
    <2>2. CASE i # n + 1
      <3>1. i \in 1..n
        BY <1>1, <1>3, <2>2
      <3> QED BY <1>3, <1>4, <3>1
    <2> QED BY <2>1, <2>2
  <1>6. Len(t) <= Len(u)
    BY <1>1, <1>3
  <1>7. Starts(u, t)
    BY <1>5, <1>6, Zenon DEF Starts
  <1> QED BY <1>2, <1>3, <1>7, Zenon DEF t, x, n

(* To begin with a sequence is to have it as a prefix. *)
LEMMA StartsPrefix ==
  ASSUME NEW S, NEW u \in Seq(S), NEW s \in Seq(S), Starts(u, s)
  PROVE  IsPrefix(s, u)
  <1> DEFINE n == Len(s)
  <1>1. n \in Nat
    OBVIOUS
  <1>2. n <= Len(u) /\ IsAt(u, 0, s) /\ IsAt(s, 0, s)
    BY <1>1 DEF Starts, IsAt
  <1>3. 0 \in Nat /\ EndsAt(n, 0, s) /\ 0 + 1 = 1
    BY <1>1 DEF EndsAt
  <1>4. SubSeq(u, 0 + 1, n) = s /\ SubSeq(s, 0 + 1, n) = s
    BY <1>2, <1>3, AtPiece
  <1> QED BY <1>2, <1>3, <1>4 DEF IsPrefix

(* A sequence begins with itself, and with what one it begins with does. *)
LEMMA StartsTrans ==
  ASSUME NEW S, NEW s \in Seq(S), NEW t \in Seq(S), NEW u \in Seq(S)
  PROVE  Starts(s, s) /\ (Starts(u, t) /\ Starts(t, s) => Starts(u, s))
  <1>1. Len(s) \in Nat /\ Len(t) \in Nat /\ Len(u) \in Nat
    OBVIOUS
  <1> QED BY <1>1 DEF Starts
=============================================================================
