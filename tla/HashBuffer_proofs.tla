-------------------------- MODULE HashBuffer_proofs --------------------------
(***************************************************************************)
(* Theorems about HashBuffer, for every length of a block, of a digest and *)
(* of the length field, for all keys and all cuts of a message.            *)
(***************************************************************************)
EXTENDS HashBuffer, SequenceLemmas

-----------------------------------------------------------------------------
(* Blocks.                                                                 *)

(* The end of a block.                                                     *)
EndOf(i) == i * BlockLen

(* Blocks follow one another. *)
LEMMA Ends ==
  ASSUME NEW q \in Nat, NEW i \in 1..q
  PROVE  /\ EndOf(i - 1) \in Nat /\ EndOf(i) = EndOf(i - 1) + BlockLen
         /\ EndOf(i) <= EndOf(q) /\ EndOf(i) \in Nat /\ EndOf(q) \in Nat
  BY HashAssumption DEF EndOf

(* The ends of blocks add up. *)
LEMMA EndAdds ==
  ASSUME NEW k \in Nat, NEW i \in Nat
  PROVE  EndOf(k) \in Nat /\ EndOf(i) \in Nat /\ EndOf(k + i) = EndOf(k) + EndOf(i)
  BY HashAssumption DEF EndOf

(* The length of a sequence, in blocks and what is left over. *)
LEMMA InBlocks ==
  ASSUME NEW S, NEW s \in Seq(S)
  PROVE  /\ Len(s) \in Nat
         /\ Len(s) \div BlockLen \in Nat
         /\ Len(s) % BlockLen \in 0..(BlockLen - 1)
         /\ Len(s) = EndOf(Len(s) \div BlockLen) + (Len(s) % BlockLen)
  <1>1. BlockLen \in Nat \ {0} /\ Len(s) \in Nat
    BY HashAssumption
  <1> QED BY <1>1, DivMod DEF EndOf

(* How many blocks there are in a length, and what is left over. *)
LEMMA BlocksUnique ==
  ASSUME NEW q \in Nat, NEW l \in 0..(BlockLen - 1), NEW n,
         n = EndOf(q) + l
  PROVE  n \div BlockLen = q /\ n % BlockLen = l
  BY HashAssumption, DivUnique DEF EndOf

(* The blocks of some data, and what is left over. *)
AreBlocks(blocks, data, q) ==
  /\ Len(blocks) = q
  /\ \A i \in 1..q : blocks[i] = SubSeq(data, EndOf(i - 1) + 1, EndOf(i))

IsLeftOver(rest, data, q, l) ==
  rest = SubSeq(data, EndOf(q) + 1, Len(data)) /\ Len(rest) = l

Measures(data, q, l) == q \in Nat /\ l \in 0..(BlockLen - 1) /\ Len(data) = EndOf(q) + l

(* FullBlocks and Tail_ cut as they should. *)
LEMMA BlocksOf ==
  ASSUME NEW S, NEW data \in Seq(S), NEW q, NEW l,
         Measures(data, q, l)
  PROVE  /\ FullBlocks(data) \in Seq(Seq(S)) /\ AreBlocks(FullBlocks(data), data, q)
         /\ Tail_(data) \in Seq(S) /\ IsLeftOver(Tail_(data), data, q, l)
  <1>0. BlockLen \in Nat \ {0}
    BY HashAssumption
  <1>m. q \in Nat /\ l \in 0..(BlockLen - 1) /\ Len(data) = EndOf(q) + l
    BY DEF Measures
  <1>1. Len(data) \div BlockLen = q
    BY <1>m, BlocksUnique
  <1>2. ASSUME NEW i \in 1..q
        PROVE  SubSeq(data, EndOf(i - 1) + 1, EndOf(i)) \in Seq(S)
    <2>1. /\ EndOf(i - 1) \in Nat /\ EndOf(i) = EndOf(i - 1) + BlockLen
          /\ EndOf(i) <= EndOf(q) /\ EndOf(i) \in Nat /\ EndOf(q) \in Nat
      BY <1>m, Ends, Zenon
    <2>2. EndOf(i - 1) <= EndOf(i) /\ EndOf(i) <= Len(data)
      BY <1>0, <1>m, <2>1
    <2> QED BY <2>1, <2>2, PieceOf
  <1> DEFINE e(i) == SubSeq(data, EndOf(i - 1) + 1, EndOf(i))
             blocks == FullBlocks(data)
  <1>3. blocks = [i \in 1..q |-> e(i)]
    BY <1>1, Zenon DEF FullBlocks, EndOf
  <1>4. \A i \in 1..q : e(i) \in Seq(S)
    BY <1>2
  <1> HIDE DEF e, blocks, AreBlocks, IsLeftOver
  <1>5. blocks \in Seq(Seq(S)) /\ Len(blocks) = q /\ \A i \in 1..q : blocks[i] = e(i)
    BY <1>m, <1>3, <1>4
  <1>6. EndOf(q) \in Nat /\ EndOf(q) <= Len(data) /\ Len(data) \in Nat
    <2>1. EndOf(q) \in Nat
      BY <1>m, EndAdds, Zenon
    <2> QED BY <1>0, <1>m, <2>1
  <1>7. Tail_(data) = SubSeq(data, EndOf(q) + 1, Len(data))
    BY <1>1 DEF Tail_, EndOf
  <1>8. Tail_(data) \in Seq(S) /\ Len(Tail_(data)) = Len(data) - EndOf(q)
    <2>1. /\ SubSeq(data, EndOf(q) + 1, Len(data)) \in Seq(S)
          /\ Len(SubSeq(data, EndOf(q) + 1, Len(data))) = Len(data) - EndOf(q)
      BY <1>6, PieceOf
    <2> QED BY <1>7, <2>1, Zenon
  <1>9. Len(Tail_(data)) = l
    <2>1. Len(data) - EndOf(q) = l
      BY <1>0, <1>m, <1>6
    <2> QED BY <1>8, <2>1
  <1> QED BY <1>5, <1>7, <1>8, <1>9 DEF e, blocks, AreBlocks, IsLeftOver

(* A sequence of blocks followed by more: its blocks are followed by those *)
(* of the rest.                                                            *)
LEMMA BlocksConcat ==
  ASSUME NEW S, NEW s \in Seq(S), NEW t \in Seq(S),
         NEW k \in Nat, Len(s) = EndOf(k)
  PROVE  /\ FullBlocks(s \o t) = FullBlocks(s) \o FullBlocks(t)
         /\ Tail_(s \o t) = Tail_(t)
  <1>0. BlockLen \in Nat \ {0}
    BY HashAssumption
  <1>1. PICK q \in Nat, l \in 0..(BlockLen - 1) : Len(t) = EndOf(q) + l
    <2>1. /\ Len(t) \div BlockLen \in Nat /\ Len(t) % BlockLen \in 0..(BlockLen - 1)
          /\ Len(t) = EndOf(Len(t) \div BlockLen) + (Len(t) % BlockLen)
      BY InBlocks, Zenon
    <2> QED BY <2>1, Zenon
  <1> DEFINE u == s \o t
             j == k + q
  <1>2. u \in Seq(S) /\ Len(u) = Len(s) + Len(t) /\ Len(s) \in Nat /\ Len(t) \in Nat
    <2>1. s \o t \in Seq(S) /\ Len(s \o t) = Len(s) + Len(t)
      BY Places, Zenon
    <2>2. Len(s) \in Nat /\ Len(t) \in Nat
      OBVIOUS
    <2> QED BY <2>1, <2>2
  <1>3. EndOf(k) \in Nat /\ EndOf(q) \in Nat /\ EndOf(j) = EndOf(k) + EndOf(q)
    BY EndAdds, Zenon
  <1>4. j \in Nat
    OBVIOUS
  <1> HIDE DEF u, j
  <1>5. Measures(u, j, l)
    BY <1>0, <1>1, <1>2, <1>3, <1>4 DEF Measures
  <1>6. Measures(s, k, 0)
    BY <1>0, <1>3 DEF Measures
  <1> DEFINE a == FullBlocks(u)
             b == FullBlocks(s)
             c == FullBlocks(t)
  <1> HIDE DEF a, b, c
  <1>7. /\ a \in Seq(Seq(S)) /\ Len(a) = j
        /\ \A i \in 1..j : a[i] = SubSeq(u, EndOf(i - 1) + 1, EndOf(i))
        /\ Tail_(u) = SubSeq(u, EndOf(j) + 1, Len(u))
    <2>1. u \in Seq(S)
      BY <1>2
    <2>2. a \in Seq(Seq(S)) /\ AreBlocks(a, u, j) /\ IsLeftOver(Tail_(u), u, j, l)
      BY <1>5, <2>1, BlocksOf, Zenon DEF a
    <2> QED BY <2>2, Zenon DEF AreBlocks, IsLeftOver
  <1>8. /\ b \in Seq(Seq(S)) /\ Len(b) = k
        /\ \A i \in 1..k : b[i] = SubSeq(s, EndOf(i - 1) + 1, EndOf(i))
    <2>1. b \in Seq(Seq(S)) /\ AreBlocks(b, s, k)
      BY <1>6, BlocksOf, Zenon DEF b
    <2> QED BY <2>1, Zenon DEF AreBlocks
  <1>9. /\ c \in Seq(Seq(S)) /\ Len(c) = q
        /\ \A i \in 1..q : c[i] = SubSeq(t, EndOf(i - 1) + 1, EndOf(i))
        /\ Tail_(t) = SubSeq(t, EndOf(q) + 1, Len(t))
    <2>1. Measures(t, q, l)
      BY <1>1, Zenon DEF Measures
    <2>2. c \in Seq(Seq(S)) /\ AreBlocks(c, t, q) /\ IsLeftOver(Tail_(t), t, q, l)
      BY <2>1, BlocksOf, Zenon DEF c
    <2> QED BY <2>2, Zenon DEF AreBlocks, IsLeftOver
  <1>10. /\ b \o c \in Seq(Seq(S)) /\ Len(b \o c) = k + q
         /\ \A i \in 1..k : (b \o c)[i] = b[i]
         /\ \A i \in 1..q : (b \o c)[k + i] = c[i]
    <2> DEFINE B == Seq(S)
    <2>1. b \in Seq(B) /\ c \in Seq(B) /\ Len(b) = k /\ Len(c) = q
      BY <1>8, <1>9
    <2> HIDE DEF B
    <2>2. b \o c \in Seq(B) /\ IsConcat(b \o c, b, c)
      BY <2>1, Concat, Zenon
    <2>3. /\ b \o c \in Seq(B) /\ Len(b \o c) = k + q
          /\ \A i \in 1..k : (b \o c)[i] = b[i]
          /\ \A i \in 1..q : (b \o c)[k + i] = c[i]
      BY <2>1, <2>2, Zenon DEF IsConcat
    <2> QED BY <2>3, Zenon DEF B
  <1>11. ASSUME NEW i \in 1..k
         PROVE  a[i] = (b \o c)[i]
    <2>1. /\ EndOf(i - 1) \in Nat /\ EndOf(i) = EndOf(i - 1) + BlockLen
          /\ EndOf(i) <= EndOf(k) /\ EndOf(i) \in Nat
      BY Ends, Zenon
    <2> DEFINE x == EndOf(i - 1)
               y == EndOf(i)
    <2>2. x \in Nat /\ y \in Nat /\ x <= y /\ y <= Len(s)
      BY <1>0, <1>2, <2>1
    <2> HIDE DEF x, y
    <2>3. SubSeq(u, x + 1, y) = SubSeq(s, x + 1, y)
      BY <2>2, PieceOfFirst DEF u
    <2>4. i \in 1..j
      BY DEF j
    <2> QED BY <1>7, <1>8, <1>10, <2>3, <2>4, Zenon DEF x, y
  <1>12. ASSUME NEW i \in 1..q
         PROVE  a[k + i] = (b \o c)[k + i]
    <2>1. /\ EndOf(i - 1) \in Nat /\ EndOf(i) = EndOf(i - 1) + BlockLen
          /\ EndOf(i) <= EndOf(q) /\ EndOf(i) \in Nat
      BY Ends, Zenon
    <2>2. i \in Nat /\ i - 1 \in Nat
      OBVIOUS
    <2>3. EndOf(k + (i - 1)) = Len(s) + EndOf(i - 1) /\ EndOf(k + i) = Len(s) + EndOf(i)
      <3>1. \A e \in Nat : EndOf(k + e) = EndOf(k) + EndOf(e)
        BY EndAdds, Zenon
      <3> QED BY <2>2, <3>1, Zenon
    <2> DEFINE m == EndOf(i - 1)
               n == EndOf(i)
               x == EndOf(k + (i - 1))
               y == EndOf(k + i)
    <2>4. m \in Nat /\ n \in Nat /\ m <= n /\ n <= Len(t)
      BY <1>0, <1>1, <1>2, <1>3, <2>1, SMTT(20)
    <2>5. x = Len(s) + m /\ y = Len(s) + n
      BY <2>3, Zenon
    <2> HIDE DEF x, y, m, n
    <2>6. SubSeq(u, x + 1, y) = SubSeq(t, m + 1, n)
      <3>1. IsShifted(Len(s), Len(t), m, n, x, y)
        BY <2>4, <2>5, Zenon DEF IsShifted
      <3>2. SamePiece(u, x, y, t, m, n)
        BY <3>1, PieceOfSecond, Zenon DEF u
      <3> QED BY <3>2, Zenon DEF SamePiece
    <2>7. k + i \in 1..j /\ (k + i) - 1 = k + (i - 1)
      BY DEF j
    <2>8. a[k + i] = SubSeq(u, EndOf((k + i) - 1) + 1, EndOf(k + i))
      BY <1>7, <2>7, Zenon
    <2>9. a[k + i] = SubSeq(u, x + 1, y)
      BY <2>7, <2>8, Zenon DEF x, y
    <2> QED BY <1>9, <1>10, <2>6, <2>9, Zenon DEF m, n
  <1>13. \A i \in 1..j : a[i] = (b \o c)[i]
    <2> TAKE i \in 1..j
    <2>1. i \in 1..k \/ (i - k \in 1..q /\ k + (i - k) = i)
      BY DEF j
    <2>2. CASE i \in 1..k
      BY <1>11, <2>2
    <2>3. CASE i - k \in 1..q /\ k + (i - k) = i
      <3>1. a[k + (i - k)] = (b \o c)[k + (i - k)]
        BY <1>12, <2>3, Zenon
      <3> QED BY <2>3, <3>1
    <2> QED BY <2>1, <2>2, <2>3
  <1>14. a = b \o c
    <2>1. Len(b \o c) = j
      BY <1>10 DEF j
    <2> DEFINE d == b \o c
    <2> HIDE DEF d
    <2>2. d \in Seq(Seq(S)) /\ Len(d) = j /\ \A i \in 1..j : a[i] = d[i]
      BY <1>10, <1>13, <2>1 DEF d
    <2>3. a = d
      BY <1>7, <2>2, SeqEqual
    <2> QED BY <2>3 DEF d
  <1>15. Tail_(u) = Tail_(t)
    <2> DEFINE m == EndOf(q)
               n == Len(t)
               x == EndOf(j)
               y == Len(u)
    <2>1. /\ m \in Nat /\ n \in Nat /\ m <= n /\ n <= Len(t)
          /\ x = Len(s) + m /\ y = Len(s) + n
      BY <1>0, <1>1, <1>2, <1>3
    <2> HIDE DEF x, y, m, n
    <2>2. SubSeq(u, x + 1, y) = SubSeq(t, m + 1, n)
      <3>1. IsShifted(Len(s), Len(t), m, n, x, y)
        BY <2>1, Zenon DEF IsShifted
      <3>2. SamePiece(u, x, y, t, m, n)
        BY <3>1, PieceOfSecond, Zenon DEF u
      <3> QED BY <3>2, Zenon DEF SamePiece
    <2> QED BY <1>7, <1>9, <2>2, Zenon DEF x, y, m, n
  <1> QED BY <1>14, <1>15 DEF a, b, c, u

(* What is shorter than a block has no block. *)
LEMMA NoBlock ==
  ASSUME NEW S, NEW s \in Seq(S), Len(s) < BlockLen
  PROVE  FullBlocks(s) = << >> /\ Tail_(s) = s
  <1>0. BlockLen \in Nat \ {0} /\ Len(s) \in Nat
    BY HashAssumption
  <1>1. EndOf(0) = 0
    BY <1>0 DEF EndOf
  <1>2. Measures(s, 0, Len(s))
    BY <1>0, <1>1 DEF Measures
  <1> DEFINE b == FullBlocks(s)
             r == Tail_(s)
  <1> HIDE DEF b, r
  <1>3. b \in Seq(Seq(S)) /\ AreBlocks(b, s, 0) /\ IsLeftOver(r, s, 0, Len(s))
    BY <1>2, BlocksOf, Zenon DEF b, r
  <1>4. Len(b) = 0 /\ r = SubSeq(s, EndOf(0) + 1, Len(s))
    BY <1>3, Zenon DEF AreBlocks, IsLeftOver
  <1>5. b = << >>
    <2> DEFINE B == Seq(S)
    <2>1. b \in Seq(B)
      BY <1>3
    <2> HIDE DEF B
    <2> QED BY <1>4, <2>1
  <1>6. r = SubSeq(s, 1, Len(s))
    BY <1>1, <1>4
  <1>7. SubSeq(s, 1, Len(s)) = s
    BY SubSeqFull
  <1> QED BY <1>5, <1>6, <1>7 DEF b, r

(* A block is its one block. *)
LEMMA OneBlock ==
  ASSUME NEW S, NEW s \in Seq(S), Len(s) = BlockLen
  PROVE  FullBlocks(s) = << s >> /\ Tail_(s) = << >> /\ Len(s) = EndOf(1)
  <1>0. BlockLen \in Nat \ {0}
    BY HashAssumption
  <1>1. EndOf(0) = 0 /\ EndOf(1) = BlockLen /\ 1 - 1 = 0
    BY <1>0 DEF EndOf
  <1>2. Measures(s, 1, 0)
    BY <1>0, <1>1 DEF Measures
  <1> DEFINE b == FullBlocks(s)
             r == Tail_(s)
  <1> HIDE DEF b, r
  <1>3. /\ b \in Seq(Seq(S)) /\ AreBlocks(b, s, 1)
        /\ r \in Seq(S) /\ IsLeftOver(r, s, 1, 0)
    BY <1>2, BlocksOf, Zenon DEF b, r
  <1>4. /\ Len(b) = 1 /\ Len(r) = 0
        /\ \A i \in 1..1 : b[i] = SubSeq(s, EndOf(i - 1) + 1, EndOf(i))
    BY <1>3, Zenon DEF AreBlocks, IsLeftOver
  <1>5. b[1] = SubSeq(s, 1, Len(s))
    <2>1. b[1] = SubSeq(s, EndOf(1 - 1) + 1, EndOf(1))
      BY <1>4
    <2> QED BY <1>1, <2>1
  <1>6. SubSeq(s, 1, Len(s)) = s
    BY SubSeqFull
  <1>7. b = << b[1] >>
    <2> DEFINE B == Seq(S)
    <2>1. b \in Seq(B)
      BY <1>3
    <2> HIDE DEF B
    <2> QED BY <1>4, <2>1
  <1>8. r = << >>
    BY <1>3, <1>4
  <1> QED BY <1>1, <1>5, <1>6, <1>7, <1>8 DEF b, r

(* Some data, whole blocks of it and a rest that is none. *)
IsCut(S, data, blocks, rest, k) ==
  /\ blocks \in Seq(S) /\ rest \in Seq(S) /\ data = blocks \o rest
  /\ k \in Nat /\ Len(blocks) = EndOf(k) /\ Len(rest) \in 0..(BlockLen - 1)

(* All data can be cut so, ... *)
LEMMA CutExists ==
  ASSUME NEW S, NEW data \in Seq(S)
  PROVE  \E blocks, rest, k : IsCut(S, data, blocks, rest, k)
  <1>0. BlockLen \in Nat \ {0}
    BY HashAssumption
  <1> DEFINE k == Len(data) \div BlockLen
             l == Len(data) % BlockLen
             n == EndOf(k)
             a == SubSeq(data, 1, n)
             t == SubSeq(data, n + 1, Len(data))
  <1>1. Len(data) \in Nat /\ k \in Nat /\ l \in 0..(BlockLen - 1) /\ Len(data) = n + l
    BY InBlocks, Zenon
  <1>2. n \in Nat
    BY <1>1, EndAdds, Zenon
  <1> HIDE DEF k, l, n, a, t
  <1>3. n \in 0..Len(data) /\ Len(data) - n = l
    BY <1>0, <1>1, <1>2
  <1>4. /\ data = a \o t /\ a \in Seq(S) /\ Len(a) = n
        /\ t \in Seq(S) /\ Len(t) = Len(data) - n
    <2>1. AreParts(S, data, n, a, t)
      BY <1>3, CutAt, Zenon DEF a, t
    <2> QED BY <2>1, Zenon DEF AreParts
  <1>5. Len(t) = l
    BY <1>3, <1>4
  <1>6. IsCut(S, data, a, t, k)
    BY <1>1, <1>4, <1>5, Zenon DEF IsCut, n
  <1> QED BY <1>6, Zenon

(* ... in one way, into its full blocks and its tail. *)
LEMMA CutBlocks ==
  ASSUME NEW S, NEW data, NEW blocks, NEW rest, NEW k,
         IsCut(S, data, blocks, rest, k)
  PROVE  FullBlocks(data) = FullBlocks(blocks) /\ Tail_(data) = rest
  <1>0. BlockLen \in Nat \ {0}
    BY HashAssumption
  <1>1. /\ blocks \in Seq(S) /\ rest \in Seq(S) /\ data = blocks \o rest
        /\ k \in Nat /\ Len(blocks) = EndOf(k) /\ Len(rest) \in 0..(BlockLen - 1)
    BY Zenon DEF IsCut
  <1>2. /\ FullBlocks(data) = FullBlocks(blocks) \o FullBlocks(rest)
        /\ Tail_(data) = Tail_(rest)
    BY <1>1, BlocksConcat
  <1>3. FullBlocks(rest) = << >> /\ Tail_(rest) = rest
    BY <1>0, <1>1, NoBlock
  <1>4. FullBlocks(blocks) \in Seq(Seq(S))
    <2>1. Measures(blocks, k, 0)
      BY <1>0, <1>1 DEF Measures, EndOf
    <2> QED BY <1>1, <2>1, BlocksOf, Zenon
  <1> DEFINE b == FullBlocks(blocks)
             B == Seq(S)
  <1>5. b \in Seq(B)
    BY <1>4
  <1> HIDE DEF b, B
  <1>6. b \o << >> = b
    BY <1>5
  <1>7. FullBlocks(data) = b \o << >>
    BY <1>2, <1>3, Zenon DEF b
  <1>8. FullBlocks(data) = FullBlocks(blocks)
    BY <1>6, <1>7, Zenon DEF b
  <1> QED BY <1>2, <1>3, <1>8, Zenon

-----------------------------------------------------------------------------
(* The buffer and the context.                                             *)

(* The buffer begins with some bytes. *)
Begins(S, buffer, rest) ==
  /\ buffer \in Seq(S) /\ Len(buffer) = BlockLen
  /\ rest \in Seq(S) /\ Len(rest) \in 0..BlockLen
  /\ \A i \in 1..Len(rest) : buffer[i] = rest[i]

(* What the buffer begins with is its first part. *)
LEMMA BufferPart ==
  ASSUME NEW S, NEW buffer, NEW rest, Begins(S, buffer, rest)
  PROVE  SubSeq(buffer, 1, Len(rest)) = rest
  <1>0. BlockLen \in Nat \ {0}
    BY HashAssumption
  <1>1. /\ buffer \in Seq(S) /\ Len(buffer) = BlockLen
        /\ rest \in Seq(S) /\ Len(rest) \in 0..BlockLen
        /\ \A i \in 1..Len(rest) : buffer[i] = rest[i]
    BY Zenon DEF Begins
  <1> DEFINE p == SubSeq(buffer, 1, Len(rest))
  <1>2. /\ p \in Seq(S) /\ Len(p) = Len(rest)
        /\ \A i \in 1..Len(rest) : p[i] = buffer[i]
    BY <1>0, <1>1
  <1> HIDE DEF p
  <1>3. \A i \in 1..Len(rest) : p[i] = rest[i]
    BY <1>1, <1>2
  <1>4. p = rest
    BY <1>1, <1>2, <1>3, SeqEqual
  <1> QED BY <1>4 DEF p

(* Bytes put behind those the buffer begins with. *)
LEMMA Stashed ==
  ASSUME NEW S, NEW buffer, NEW rest, Begins(S, buffer, rest),
         NEW bytes \in Seq(S), Len(rest) + Len(bytes) <= BlockLen
  PROVE  Begins(S, Stash(buffer, Len(rest), bytes), rest \o bytes)
  <1>0. BlockLen \in Nat \ {0}
    BY HashAssumption
  <1>1. /\ buffer \in Seq(S) /\ Len(buffer) = BlockLen
        /\ rest \in Seq(S) /\ Len(rest) \in 0..BlockLen
        /\ \A i \in 1..Len(rest) : buffer[i] = rest[i]
    BY Zenon DEF Begins
  <1> DEFINE u == rest \o bytes
             l == Len(rest)
             d == Len(bytes)
             b == Stash(buffer, l, bytes)
  <1>2. u \in Seq(S) /\ IsConcat(u, rest, bytes)
    BY <1>1, Concat, Zenon
  <1>3. l \in Nat /\ d \in Nat /\ l + d <= BlockLen
    BY <1>0, <1>1
  <1> HIDE DEF u, l, d
  <1>4. /\ Len(u) = l + d
        /\ \A i \in 1..l : u[i] = rest[i]
        /\ \A i \in 1..d : u[l + i] = bytes[i]
    BY <1>2, Zenon DEF IsConcat, l, d
  <1>5. b = [i \in 1..BlockLen |->
               IF i \in (l + 1)..(l + d) THEN bytes[i - l] ELSE buffer[i]]
    BY Zenon DEF Stash, d
  <1>6. \A i \in 1..BlockLen :
          (IF i \in (l + 1)..(l + d) THEN bytes[i - l] ELSE buffer[i]) \in S
    <2> TAKE i \in 1..BlockLen
    <2>1. CASE i \in (l + 1)..(l + d)
      <3>1. i - l \in 1..Len(bytes)
        BY <1>3, <2>1 DEF d
      <3>2. bytes[i - l] \in S
        BY <3>1
      <3> QED BY <2>1, <3>2
    <2>2. CASE i \notin (l + 1)..(l + d)
      <3>1. buffer[i] \in S
        BY <1>0, <1>1
      <3> QED BY <2>2, <3>1
    <2> QED BY <2>1, <2>2
  <1>7. b \in Seq(S) /\ Len(b) = BlockLen
    <2>1. b \in [1..BlockLen -> S]
      BY <1>5, <1>6
    <2> HIDE DEF b
    <2> QED BY <1>0, <2>1
  <1>8. \A i \in 1..BlockLen :
          b[i] = IF i \in (l + 1)..(l + d) THEN bytes[i - l] ELSE buffer[i]
    BY <1>5
  <1> HIDE DEF b
  <1>9. \A i \in 1..(l + d) : b[i] = u[i]
    <2> TAKE i \in 1..(l + d)
    <2>1. i \in 1..BlockLen
      BY <1>0, <1>3
    <2>2. CASE i \in (l + 1)..(l + d)
      <3>1. b[i] = bytes[i - l]
        BY <1>8, <2>1, <2>2
      <3>2. i - l \in 1..d /\ l + (i - l) = i
        BY <1>3, <2>2
      <3>3. u[l + (i - l)] = bytes[i - l]
        BY <1>4, <3>2, Zenon
      <3> QED BY <3>1, <3>2, <3>3
    <2>3. CASE i \notin (l + 1)..(l + d)
      <3>1. i \in 1..l
        BY <1>3, <2>3
      <3>2. b[i] = buffer[i]
        BY <1>8, <2>1, <2>3
      <3>3. buffer[i] = rest[i] /\ u[i] = rest[i]
        BY <1>1, <1>4, <3>1 DEF l
      <3> QED BY <3>2, <3>3
    <2> QED BY <2>2, <2>3
  <1>10. l + d \in 0..BlockLen
    BY <1>0, <1>3
  <1>11. Begins(S, b, u)
    BY <1>2, <1>4, <1>7, <1>9, <1>10, Zenon DEF Begins
  <1> QED BY <1>11 DEF b, u, l

(* A buffer begins with nothing, whatever is in it. *)
LEMMA BeginsNothing ==
  ASSUME NEW S, NEW buffer \in Seq(S), Len(buffer) = BlockLen
  PROVE  Begins(S, buffer, << >>)
  BY HashAssumption DEF Begins

(* A full buffer is what it begins with. *)
LEMMA BeginsFull ==
  ASSUME NEW S, NEW buffer, NEW rest, Begins(S, buffer, rest),
         Len(rest) = BlockLen
  PROVE  buffer = rest
  <1>1. /\ buffer \in Seq(S) /\ Len(buffer) = BlockLen /\ rest \in Seq(S)
        /\ \A i \in 1..Len(rest) : buffer[i] = rest[i]
    BY Zenon DEF Begins
  <1> QED BY <1>1, SeqEqual

Context(state, bits, buffer, len) ==
  [state |-> state, bits |-> bits, buffer |-> buffer, len |-> len]

(* The three ways of cb_sha256_update. *)
LEMMA UpdateShort ==
  ASSUME NEW state, NEW bits, NEW buffer, NEW l \in Nat, NEW data,
         l > 0, Len(data) < BlockLen - l
  PROVE  Update(Context(state, bits, buffer, l), data) =
           Context(state, bits + 8 * Len(data), Stash(buffer, l, data), l + Len(data))
  BY DEF Update, Context

Fills(buffer, l, data, n, need, filled, rest) ==
  /\ l > 0 /\ n >= need /\ ~ (n < need)
  /\ n = Len(data) /\ need = BlockLen - l
  /\ filled = Stash(buffer, l, SubSeq(data, 1, need))
  /\ rest = SubSeq(data, need + 1, n)

(* The piece fills the block that was begun. *)
LEMMA UpdateFills ==
  ASSUME NEW state, NEW bits, NEW buffer, NEW l \in Nat, NEW data,
         NEW n, NEW need, NEW filled, NEW rest,
         Fills(buffer, l, data, n, need, filled, rest)
  PROVE  Update(Context(state, bits, buffer, l), data) =
           Context((state \o << filled >>) \o FullBlocks(rest), bits + 8 * n,
                   Stash(filled, 0, Tail_(rest)), Len(Tail_(rest)))
  <1> DEFINE c == Context(state, bits, buffer, l)
  <1>1. c.state = state /\ c.bits = bits /\ c.buffer = buffer /\ c.len = l
    BY DEF Context
  <1>2. Update(c, data) =
          [[c EXCEPT !.bits = @ + 8 * n] EXCEPT
             !.state = (@ \o << filled >>) \o FullBlocks(rest),
             !.buffer = Stash(filled, 0, Tail_(rest)),
             !.len = Len(Tail_(rest))]
    BY <1>1 DEF Update, Fills
  <1> QED BY <1>2 DEF Context

(* No block was begun. *)
LEMMA UpdateEmpty ==
  ASSUME NEW state, NEW bits, NEW buffer, NEW data
  PROVE  Update(Context(state, bits, buffer, 0), data) =
           Context((state \o << >>) \o FullBlocks(data), bits + 8 * Len(data),
                   Stash(buffer, 0, Tail_(data)), Len(Tail_(data)))
  <1> DEFINE c == Context(state, bits, buffer, 0)
  <1>1. c.state = state /\ c.bits = bits /\ c.buffer = buffer /\ c.len = 0
    BY DEF Context
  <1>2. ~ (c.len > 0)
    BY <1>1
  <1>3. Update(c, data) =
          [[c EXCEPT !.bits = @ + 8 * Len(data)] EXCEPT
             !.state = (@ \o << >>) \o FullBlocks(data),
             !.buffer = Stash(@, 0, Tail_(data)),
             !.len = Len(Tail_(data))]
    BY <1>2 DEF Update
  <1> QED BY <1>3 DEF Context

(* The blocks of a sequence are sequences; what is left over is none. *)
LEMMA BlocksType ==
  ASSUME NEW S, NEW s \in Seq(S)
  PROVE  /\ FullBlocks(s) \in Seq(Seq(S))
         /\ Tail_(s) \in Seq(S) /\ Len(Tail_(s)) \in 0..(BlockLen - 1)
  <1> DEFINE q == Len(s) \div BlockLen
             l == Len(s) % BlockLen
  <1>1. q \in Nat /\ l \in 0..(BlockLen - 1) /\ Len(s) = EndOf(q) + l
    BY InBlocks, Zenon
  <1> HIDE DEF q, l
  <1>2. Measures(s, q, l)
    BY <1>1, Zenon DEF Measures
  <1>3. FullBlocks(s) \in Seq(Seq(S)) /\ Tail_(s) \in Seq(S) /\ IsLeftOver(Tail_(s), s, q, l)
    BY <1>2, BlocksOf, Zenon
  <1>4. Len(Tail_(s)) = l
    BY <1>3, Zenon DEF IsLeftOver
  <1> QED BY <1>1, <1>3, <1>4, Zenon

(* The rest of some data is put where the buffer begins. *)
LEMMA StashedFirst ==
  ASSUME NEW S, NEW buffer \in Seq(S), Len(buffer) = BlockLen,
         NEW rest \in Seq(S), Len(rest) \in 0..(BlockLen - 1)
  PROVE  Begins(S, Stash(buffer, 0, rest), rest)
  <1>0. BlockLen \in Nat \ {0}
    BY HashAssumption
  <1>1. Begins(S, buffer, << >>)
    BY BeginsNothing
  <1>2. Len(<< >>) = 0 /\ Len(<< >>) + Len(rest) <= BlockLen /\ << >> \o rest = rest
    <2>1. << >> \o rest = rest
      BY ConcatEmptySeq
    <2> QED BY <1>0, <2>1
  <1>3. Begins(S, Stash(buffer, Len(<< >>), rest), << >> \o rest)
    BY <1>1, <1>2, Stashed, Zenon
  <1> QED BY <1>2, <1>3, Zenon

(* More data behind a cut. *)
Extends(S, whole, data, blocks, rest, more) ==
  /\ whole \in Seq(S)
  /\ whole = blocks \o (rest \o more)
  /\ FullBlocks(whole) = FullBlocks(data) \o FullBlocks(rest \o more)
  /\ Tail_(whole) = Tail_(rest \o more)

(* Its blocks are followed by those of the rest and of what comes behind. *)
LEMMA CutAppend ==
  ASSUME NEW S, NEW data, NEW blocks, NEW rest, NEW k,
         IsCut(S, data, blocks, rest, k), NEW more \in Seq(S)
  PROVE  Extends(S, data \o more, data, blocks, rest, more)
  <1>1. /\ blocks \in Seq(S) /\ rest \in Seq(S) /\ data = blocks \o rest
        /\ k \in Nat /\ Len(blocks) = EndOf(k)
    BY Zenon DEF IsCut
  <1>2. data \o more = blocks \o (rest \o more)
    <2>1. Associates(blocks, rest, more)
      BY <1>1, Association, Zenon
    <2> QED BY <1>1, <2>1, Zenon DEF Associates
  <1>3. rest \o more \in Seq(S)
    BY <1>1
  <1> DEFINE t == rest \o more
  <1> HIDE DEF t
  <1>4. t \in Seq(S)
    BY <1>3 DEF t
  <1>5. blocks \o t \in Seq(S)
    BY <1>1, <1>4
  <1>6. FullBlocks(blocks \o t) = FullBlocks(blocks) \o FullBlocks(t)
        /\ Tail_(blocks \o t) = Tail_(t)
    BY <1>1, <1>4, BlocksConcat
  <1>7. FullBlocks(data) = FullBlocks(blocks)
    BY CutBlocks
  <1> QED BY <1>2, <1>5, <1>6, <1>7, Zenon DEF Extends, t

(* The context holds what has been absorbed so far, of bytes of a set S. *)
Holds(S, c, message) ==
  /\ message \in Seq(S)
  /\ \E buffer :
       /\ Begins(S, buffer, Tail_(message))
       /\ c = Context(FullBlocks(message), 8 * Len(message), buffer, Len(Tail_(message)))

(* cb_sha256_update: the context holds what it did and the piece. *)
LEMMA UpdateHolds ==
  ASSUME NEW S, NEW c, NEW message, Holds(S, c, message),
         NEW data \in Seq(S)
  PROVE  Holds(S, Update(c, data), message \o data)
  <1>0. BlockLen \in Nat \ {0}
    BY HashAssumption
  <1>1. message \in Seq(S)
    BY Zenon DEF Holds
  <1>2. PICK buffer :
          /\ Begins(S, buffer, Tail_(message))
          /\ c = Context(FullBlocks(message), 8 * Len(message), buffer, Len(Tail_(message)))
    BY Zenon DEF Holds
  <1>3. PICK blocks, rest, k : IsCut(S, message, blocks, rest, k)
    BY <1>1, CutExists, Zenon
  <1>4. Tail_(message) = rest
    BY <1>3, CutBlocks, Zenon
  <1> DEFINE state == FullBlocks(message)
             bits == 8 * Len(message)
             l == Len(rest)
             d == Len(data)
             whole == message \o data
             t == rest \o data
  <1>5. Begins(S, buffer, rest) /\ c = Context(state, bits, buffer, l)
    BY <1>2, <1>4, Zenon
  <1>6. /\ buffer \in Seq(S) /\ Len(buffer) = BlockLen
        /\ rest \in Seq(S)
    BY <1>5, Zenon DEF Begins
  <1>7. l \in 0..(BlockLen - 1) /\ d \in Nat
    <2>1. l \in 0..(BlockLen - 1)
      BY <1>3, Zenon DEF IsCut
    <2> QED BY <2>1
  <1>8. /\ whole \in Seq(S) /\ FullBlocks(whole) = state \o FullBlocks(t)
        /\ Tail_(whole) = Tail_(t)
    <2>1. Extends(S, whole, message, blocks, rest, data)
      BY <1>3, CutAppend, Zenon
    <2> QED BY <2>1, Zenon DEF Extends
  <1>9. bits + 8 * d = 8 * Len(whole)
    BY <1>1
  <1>10. t \in Seq(S) /\ Len(t) = l + d
    BY <1>6
  <1>11. state \in Seq(Seq(S))
    BY <1>1, BlocksType, Zenon
  <1> HIDE DEF state, bits, l, d, whole, t
  <1>12. ASSUME NEW b, Begins(S, b, Tail_(t)),
                Update(c, data) = Context(state \o FullBlocks(t), bits + 8 * d, b, Len(Tail_(t)))
         PROVE  Holds(S, Update(c, data), whole)
    BY <1>8, <1>9, <1>12, Zenon DEF Holds
  <1>13. CASE l > 0 /\ d < BlockLen - l
    <2>1. Begins(S, Stash(buffer, l, data), t)
      <3>1. l + d <= BlockLen
        BY <1>0, <1>7, <1>13
      <3> QED BY <1>5, <3>1, Stashed, Zenon DEF l, d, t
    <2>2. FullBlocks(t) = << >> /\ Tail_(t) = t
      <3>1. Len(t) < BlockLen
        BY <1>0, <1>7, <1>10, <1>13
      <3> QED BY <1>10, <3>1, NoBlock
    <2>3. Update(c, data) = Context(state, bits + 8 * d, Stash(buffer, l, data), l + d)
      <3>1. l \in Nat
        BY <1>7
      <3> QED BY <1>5, <1>13, <3>1, UpdateShort DEF d
    <2>4. state \o << >> = state
      <3> DEFINE B == Seq(S)
      <3>1. state \in Seq(B)
        BY <1>11
      <3> HIDE DEF B
      <3> QED BY <3>1
    <2>5. Update(c, data) = Context(state \o FullBlocks(t), bits + 8 * d,
                                    Stash(buffer, l, data), Len(Tail_(t)))
      <3> DEFINE x == state \o FullBlocks(t)
                 n == Len(Tail_(t))
                 m == l + d
      <3>1. x = state
        BY <2>2, <2>4, Zenon
      <3>2. n = m
        BY <1>10, <2>2, Zenon
      <3>3. Update(c, data) = Context(state, bits + 8 * d, Stash(buffer, l, data), m)
        BY <2>3
      <3> HIDE DEF x, n, m
      <3>4. Update(c, data) = Context(x, bits + 8 * d, Stash(buffer, l, data), n)
        BY <3>1, <3>2, <3>3, Zenon
      <3> QED BY <3>4 DEF x, n
    <2> QED BY <1>12, <2>1, <2>2, <2>5, Zenon DEF whole
  <1>14. CASE l > 0 /\ ~ (d < BlockLen - l)
    <2> DEFINE need == BlockLen - l
               first == SubSeq(data, 1, need)
               more == SubSeq(data, need + 1, d)
               filled == Stash(buffer, l, first)
               b == Stash(filled, 0, Tail_(more))
    <2>1. need \in 0..d /\ d >= need /\ ~ (d < need)
      BY <1>0, <1>7, <1>14
    <2> HIDE DEF need, first, more, filled
    <2>2. /\ data = first \o more /\ first \in Seq(S) /\ Len(first) = need
          /\ more \in Seq(S)
      <3>1. AreParts(S, data, need, first, more)
        BY <2>1, CutAt, Zenon DEF first, more, d
      <3> QED BY <3>1, Zenon DEF AreParts
    <2>3. Begins(S, filled, rest \o first)
      <3>1. l + Len(first) <= BlockLen
        BY <1>0, <1>7, <2>2 DEF need
      <3> QED BY <1>5, <2>2, <3>1, Stashed, Zenon DEF l, filled
    <2>4. rest \o first \in Seq(S) /\ Len(rest \o first) = BlockLen
      BY <1>0, <1>6, <1>7, <2>2 DEF l, need
    <2>5. filled = rest \o first
      BY <2>3, <2>4, BeginsFull, Zenon
    <2>6. t = filled \o more
      <3>1. (rest \o first) \o more = rest \o (first \o more)
        <4>1. Associates(rest, first, more)
          BY <1>6, <2>2, Association, Zenon
        <4> QED BY <4>1, Zenon DEF Associates
      <3> QED BY <2>2, <2>5, <3>1, Zenon DEF t
    <2>7. filled \in Seq(S) /\ Len(filled) = BlockLen
      BY <2>4, <2>5, Zenon
    <2>8. FullBlocks(filled) = << filled >> /\ Len(filled) = EndOf(1)
      BY <2>7, OneBlock
    <2>9. FullBlocks(t) = << filled >> \o FullBlocks(more) /\ Tail_(t) = Tail_(more)
      <3>1. /\ FullBlocks(filled \o more) = FullBlocks(filled) \o FullBlocks(more)
            /\ Tail_(filled \o more) = Tail_(more)
        <4>1. 1 \in Nat
          OBVIOUS
        <4> QED BY <2>2, <2>7, <2>8, <4>1, BlocksConcat
      <3> QED BY <2>6, <2>8, <3>1, Zenon
    <2>10. /\ FullBlocks(more) \in Seq(Seq(S)) /\ Tail_(more) \in Seq(S)
           /\ Len(Tail_(more)) \in 0..(BlockLen - 1)
      BY <2>2, BlocksType, Zenon
    <2>11. Begins(S, b, Tail_(t))
      <3>1. Begins(S, b, Tail_(more))
        BY <2>7, <2>10, StashedFirst, Zenon
      <3> QED BY <2>9, <3>1, Zenon
    <2>12. Update(c, data) = Context((state \o << filled >>) \o FullBlocks(more),
                                     bits + 8 * d, b, Len(Tail_(more)))
      <3>1. l \in Nat
        BY <1>7
      <3>2. Fills(buffer, l, data, d, need, filled, more)
        BY <1>14, <2>1, Zenon DEF Fills, d, need, filled, first, more
      <3>3. Update(Context(state, bits, buffer, l), data)
              = Context((state \o << filled >>) \o FullBlocks(more), bits + 8 * d,
                        Stash(filled, 0, Tail_(more)), Len(Tail_(more)))
        BY <3>1, <3>2, UpdateFills
      <3> QED BY <1>5, <3>3, Zenon
    <2>13. (state \o << filled >>) \o FullBlocks(more)
             = state \o (<< filled >> \o FullBlocks(more))
      <3> DEFINE B == Seq(S)
                 m == FullBlocks(more)
      <3>1. state \in Seq(B) /\ m \in Seq(B) /\ filled \in B
        BY <1>11, <2>7, <2>10
      <3> HIDE DEF B, m
      <3>2. << filled >> \in Seq(B)
        BY <3>1
      <3>3. (state \o << filled >>) \o m = state \o (<< filled >> \o m)
        BY <3>1, <3>2, ConcatAssociative
      <3> QED BY <3>3 DEF m
    <2>14. Update(c, data) = Context(state \o FullBlocks(t), bits + 8 * d, b, Len(Tail_(t)))
      <3> DEFINE x == state \o FullBlocks(t)
                 y == (state \o << filled >>) \o FullBlocks(more)
                 n == Len(Tail_(t))
                 m == Len(Tail_(more))
      <3>1. x = y
        BY <2>9, <2>13, Zenon
      <3>2. n = m
        BY <2>9, Zenon
      <3>3. Update(c, data) = Context(y, bits + 8 * d, b, m)
        BY <2>12
      <3> HIDE DEF x, y, n, m
      <3>4. Update(c, data) = Context(x, bits + 8 * d, b, n)
        BY <3>1, <3>2, <3>3, Zenon
      <3> QED BY <3>4 DEF x, n
    <2> QED BY <1>12, <2>11, <2>14, Zenon DEF whole
  <1>15. CASE l = 0
    <2> DEFINE b == Stash(buffer, 0, Tail_(data))
    <2>1. t = data
      <3>1. rest = << >>
        BY <1>6, <1>15 DEF l
      <3>2. << >> \o data = data
        BY ConcatEmptySeq
      <3> QED BY <3>1, <3>2 DEF t
    <2>2. Begins(S, b, Tail_(t))
      <3>1. Tail_(data) \in Seq(S) /\ Len(Tail_(data)) \in 0..(BlockLen - 1)
        BY BlocksType, Zenon
      <3>2. Begins(S, b, Tail_(data))
        BY <1>6, <3>1, StashedFirst, Zenon
      <3> QED BY <2>1, <3>2, Zenon
    <2>3. Update(c, data) = Context((state \o << >>) \o FullBlocks(data), bits + 8 * d,
                                    b, Len(Tail_(data)))
      <3>1. c = Context(state, bits, buffer, 0)
        BY <1>5, <1>15, Zenon
      <3> QED BY <3>1, UpdateEmpty DEF d
    <2>4. state \o << >> = state
      <3> DEFINE B == Seq(S)
      <3>1. state \in Seq(B)
        BY <1>11
      <3> HIDE DEF B
      <3> QED BY <3>1
    <2>5. Update(c, data) = Context(state \o FullBlocks(t), bits + 8 * d, b, Len(Tail_(t)))
      <3> DEFINE x == state \o FullBlocks(t)
                 y == (state \o << >>) \o FullBlocks(data)
                 n == Len(Tail_(t))
                 m == Len(Tail_(data))
      <3>1. x = y
        BY <2>1, <2>4, Zenon
      <3>2. n = m
        BY <2>1, Zenon
      <3>3. Update(c, data) = Context(y, bits + 8 * d, b, m)
        BY <2>3
      <3> HIDE DEF x, y, n, m
      <3>4. Update(c, data) = Context(x, bits + 8 * d, b, n)
        BY <3>1, <3>2, <3>3, Zenon
      <3> QED BY <3>4 DEF x, n
    <2> QED BY <1>12, <2>2, <2>5, Zenon DEF whole
  <1>16. l > 0 \/ l = 0
    BY <1>7
  <1> QED BY <1>13, <1>14, <1>15, <1>16 DEF whole

-----------------------------------------------------------------------------
(* The padding.                                                            *)

(* The only multiple of a block that is less than a block away from one. *)
LEMMA OnlyMultiple ==
  ASSUME NEW j \in Nat, NEW m \in Nat, m % BlockLen = 0,
         m < EndOf(j) + BlockLen, EndOf(j) < m + BlockLen
  PROVE  m = EndOf(j)
  <1>0. BlockLen \in Nat \ {0}
    BY HashAssumption
  <1> DEFINE p == m \div BlockLen
  <1>1. p \in Nat /\ m = p * BlockLen
    <2>1. p \in Nat /\ m = p * BlockLen + (m % BlockLen)
      BY <1>0, DivMod
    <2> QED BY <1>0, <2>1
  <1> HIDE DEF p
  <1>2. CASE p < j
    <2>1. p + 1 <= j
      BY <1>1, <1>2
    <2>2. (p + 1) * BlockLen <= j * BlockLen
      BY <1>0, <1>1, <2>1
    <2>3. (p + 1) * BlockLen = p * BlockLen + BlockLen
      BY <1>0, <1>1
    <2> QED BY <1>0, <1>1, <2>2, <2>3 DEF EndOf
  <1>3. CASE j < p
    <2>1. j + 1 <= p
      BY <1>1, <1>3
    <2>2. (j + 1) * BlockLen <= p * BlockLen
      BY <1>0, <1>1, <2>1
    <2>3. (j + 1) * BlockLen = j * BlockLen + BlockLen
      BY <1>0
    <2> QED BY <1>0, <1>1, <2>2, <2>3 DEF EndOf
  <1> QED BY <1>1, <1>2, <1>3 DEF EndOf

(* The padded length is the multiple that holds message, mark and length. *)
LEMMA PaddedIs ==
  ASSUME NEW j \in Nat, NEW n \in Nat,
         EndOf(j) \in (n + 1 + LengthLen)..(n + LengthLen + BlockLen)
  PROVE  PaddedLen(n) = EndOf(j)
  <1>0. BlockLen \in Nat \ {0} /\ LengthLen \in Nat
    BY HashAssumption
  <1> DEFINE R == (n + 1 + LengthLen)..(n + LengthLen + BlockLen)
             e == EndOf(j)
  <1>1. e % BlockLen = 0
    <2>1. 0 \in 0..(BlockLen - 1) /\ e = EndOf(j) + 0
      BY <1>0 DEF EndOf
    <2> QED BY <2>1, BlocksUnique
  <1>2. e \in R
    OBVIOUS
  <1>3. \A m \in R : m % BlockLen = 0 => m = e
    <2> TAKE m \in R
    <2> HAVE m % BlockLen = 0
    <2>1. m \in Nat /\ e \in Nat /\ m < e + BlockLen /\ e < m + BlockLen
      BY <1>0, <1>2
    <2> QED BY <2>1, OnlyMultiple
  <1> HIDE DEF R, e
  <1>4. (CHOOSE m \in R : m % BlockLen = 0) = e
    BY <1>1, <1>2, <1>3
  <1> QED BY <1>4 DEF PaddedLen, R, e

(* Zeros are bytes, as many as asked for. *)
LEMMA ZerosType ==
  ASSUME NEW S, Byte(0) \in S, NEW n \in Nat
  PROVE  Zeros(n) \in Seq(S) /\ Len(Zeros(n)) = n /\ \A i \in 1..n : Zeros(n)[i] = Byte(0)
  BY DEF Zeros

(* Zeros behind zeros. *)
LEMMA ZerosAdd ==
  ASSUME NEW S, Byte(0) \in S, NEW m \in Nat, NEW n \in Nat
  PROVE  Zeros(m) \o Zeros(n) = Zeros(m + n)
  <1> DEFINE a == Zeros(m)
             b == Zeros(n)
             c == Zeros(m + n)
             z == Byte(0)
  <1>1. a \in Seq(S) /\ Len(a) = m /\ \A i \in 1..m : a[i] = z
    BY ZerosType
  <1>2. b \in Seq(S) /\ Len(b) = n /\ \A i \in 1..n : b[i] = z
    BY ZerosType
  <1>3. c \in Seq(S) /\ Len(c) = m + n /\ \A i \in 1..(m + n) : c[i] = z
    <2>1. m + n \in Nat
      OBVIOUS
    <2> QED BY <2>1, ZerosType
  <1> HIDE DEF a, b, c, z
  <1>4. /\ a \o b \in Seq(S) /\ Len(a \o b) = m + n
        /\ \A i \in 1..(m + n) : (a \o b)[i] = z
    BY <1>1, <1>2
  <1> DEFINE d == a \o b
  <1> HIDE DEF d
  <1>5. d \in Seq(S) /\ Len(d) = m + n /\ \A i \in 1..(m + n) : d[i] = z
    BY <1>4 DEF d
  <1>6. d = c
    BY <1>3, <1>5, SeqEqual
  <1> QED BY <1>6 DEF a, b, c, d

(* The bytes that close a message are of the set S. *)
Closes(S, message) ==
  /\ Byte(0) \in S /\ Byte(128) \in S
  /\ LengthField(8 * Len(message)) \in Seq(S)
  /\ Len(LengthField(8 * Len(message))) = LengthLen

(* A message, closed, is its whole blocks and the rest of it, closed. *)
CloseTogether(a, t, mark, zeros, field) ==
  (((a \o t) \o mark) \o zeros) \o field = a \o (((t \o mark) \o zeros) \o field)

(* Mark, zeros and length behind the message are behind its rest. *)
LEMMA Closed ==
  ASSUME NEW S, NEW a \in Seq(S), NEW t \in Seq(S), NEW mark \in Seq(S),
         NEW zeros \in Seq(S), NEW field \in Seq(S)
  PROVE  CloseTogether(a, t, mark, zeros, field)
  <1> DEFINE t1 == t \o mark
             t2 == t1 \o zeros
  <1>1. t1 \in Seq(S)
    OBVIOUS
  <1>2. (a \o t) \o mark = a \o t1
    <2>1. Associates(a, t, mark)
      BY Association, Zenon
    <2> QED BY <2>1, Zenon DEF Associates
  <1> HIDE DEF t1
  <1>3. t2 \in Seq(S)
    BY <1>1
  <1>4. (a \o t1) \o zeros = a \o t2
    <2>1. Associates(a, t1, zeros)
      BY <1>1, Association, Zenon
    <2> QED BY <2>1, Zenon DEF Associates
  <1> HIDE DEF t2
  <1>5. (a \o t2) \o field = a \o (t2 \o field)
    <2>1. Associates(a, t2, field)
      BY <1>3, Association, Zenon
    <2> QED BY <2>1, Zenon DEF Associates
  <1> QED BY <1>2, <1>4, <1>5, Zenon DEF CloseTogether, t1, t2

(* cb_sha256_final: the digest of the padded whole message. *)
LEMMA FinalIsHash ==
  ASSUME NEW S, NEW c, NEW message, Holds(S, c, message),
         Closes(S, message)
  PROVE  Final(c) = HashOf(message)
  <1>0. /\ BlockLen \in Nat \ {0} /\ LengthLen \in Nat /\ LengthLen <= BlockLen
        /\ LengthLen >= 1
    BY HashAssumption
  <1>1. message \in Seq(S)
    BY Zenon DEF Holds
  <1>2. PICK buffer :
          /\ Begins(S, buffer, Tail_(message))
          /\ c = Context(FullBlocks(message), 8 * Len(message), buffer, Len(Tail_(message)))
    BY Zenon DEF Holds
  <1>3. PICK blocks, t, k : IsCut(S, message, blocks, t, k)
    BY <1>1, CutExists, Zenon
  <1>4. Tail_(message) = t /\ FullBlocks(message) = FullBlocks(blocks)
    BY <1>3, CutBlocks, Zenon
  <1>5. /\ blocks \in Seq(S) /\ t \in Seq(S) /\ message = blocks \o t
        /\ k \in Nat /\ Len(blocks) = EndOf(k) /\ Len(t) \in 0..(BlockLen - 1)
    BY <1>3, Zenon DEF IsCut
  <1> DEFINE n == Len(message)
             r == Len(t)
             mark == << Byte(128) >>
             field == LengthField(8 * n)
             room == BlockLen - LengthLen
             marked == t \o mark
             state == FullBlocks(blocks)
             padding == PaddedLen(n) - n - 1 - LengthLen
  <1>6. EndOf(k) \in Nat /\ EndOf(k + 1) = EndOf(k) + BlockLen /\ EndOf(k + 2) = EndOf(k) + 2 * BlockLen
    BY <1>0, <1>5 DEF EndOf
  <1>7. n = EndOf(k) + r /\ r \in 0..(BlockLen - 1) /\ n \in Nat
    <2>1. IsConcat(message, blocks, t)
      BY <1>5, Concat, Zenon
    <2>2. n = Len(blocks) + r
      BY <2>1, Zenon DEF IsConcat
    <2>3. n = EndOf(k) + r /\ r \in 0..(BlockLen - 1)
      BY <1>5, <2>2, Zenon
    <2> HIDE DEF n, r
    <2> QED BY <1>0, <1>6, <2>3
  <1>8. mark \in Seq(S) /\ Len(mark) = 1 /\ field \in Seq(S) /\ Len(field) = LengthLen
    <2>1. Byte(128) \in S /\ field \in Seq(S) /\ Len(field) = LengthLen
      BY Zenon DEF Closes
    <2>2. mark \in Seq(S) /\ Len(mark) = 1
      BY <2>1
    <2> QED BY <2>1, <2>2
  <1>9. marked \in Seq(S) /\ Len(marked) = r + 1
    BY <1>5, <1>8
  <1>10. state \in Seq(Seq(S))
    BY <1>5, BlocksType, Zenon
  <1>11. LastBlocks(c) =
           IF Len(marked) > room
             THEN << marked \o Zeros(BlockLen - Len(marked)), Zeros(room) \o field >>
             ELSE << (marked \o Zeros(room - Len(marked))) \o field >>
    <2>1. c.buffer = buffer /\ c.bits = 8 * n /\ c.len = Len(Tail_(message))
      BY <1>2 DEF Context
    <2>2. SubSeq(c.buffer, 1, c.len) = t
      <3>1. SubSeq(buffer, 1, Len(Tail_(message))) = Tail_(message)
        BY <1>2, BufferPart, Zenon
      <3> QED BY <1>4, <2>1, <3>1, Zenon
    <2>3. Append(SubSeq(c.buffer, 1, c.len), Byte(128)) = marked
      <3>1. Byte(128) \in S
        BY DEF Closes
      <3>2. Append(t, Byte(128)) = marked
        BY <1>5, <3>1, AppendIsConcat
      <3> QED BY <2>2, <3>2, Zenon
    <2> HIDE DEF marked
    <2> QED BY <2>1, <2>3 DEF LastBlocks
  <1>12. c.state = state
    <2>1. c.state = FullBlocks(message)
      BY <1>2 DEF Context
    <2> QED BY <1>4, <2>1, Zenon
  <1> HIDE DEF n, r, mark, field, room, marked, state, padding
  <1>13. ASSUME NEW last \in Seq(Seq(S)), NEW zeros \in Seq(S),
                LastBlocks(c) = last, Zeros(padding) = zeros,
                FullBlocks((marked \o zeros) \o field) = last
         PROVE  Final(c) = HashOf(message)
    <2> DEFINE w == (marked \o zeros) \o field
    <2>1. Padded(message) = ((message \o mark) \o zeros) \o field
      BY <1>13, Zenon DEF Padded, n, mark, field, padding
    <2>2. Padded(message) = blocks \o w
      <3>1. CloseTogether(blocks, t, mark, zeros, field)
        BY <1>5, <1>8, Closed, Zenon
      <3> QED BY <1>5, <2>1, <3>1, Zenon DEF CloseTogether, marked
    <2>3. w \in Seq(S)
      <3>1. marked \o zeros \in Seq(S)
        BY <1>9
      <3> QED BY <1>8, <3>1
    <2> HIDE DEF w
    <2>4. FullBlocks(blocks \o w) = state \o FullBlocks(w)
      BY <1>5, <2>3, BlocksConcat DEF state
    <2>5. FullBlocks(w) = last
      BY <1>13 DEF w
    <2>6. FullBlocks(Padded(message)) = c.state \o LastBlocks(c)
      BY <1>12, <1>13, <2>2, <2>4, <2>5, Zenon
    <2> QED BY <2>6, Zenon DEF Final, HashOf
  <1>14. Byte(0) \in S
    BY DEF Closes
  <1>15. CASE Len(marked) > room
    <2> DEFINE z1 == Zeros(BlockLen - Len(marked))
               z2 == Zeros(room)
               first == marked \o z1
               second == z2 \o field
               zeros == z1 \o z2
               last == << first, second >>
    <2>1. BlockLen - Len(marked) \in Nat /\ room \in Nat
      BY <1>0, <1>7, <1>9 DEF room
    <2>2. /\ z1 \in Seq(S) /\ Len(z1) = BlockLen - Len(marked)
          /\ z2 \in Seq(S) /\ Len(z2) = room
      BY <1>14, <2>1, ZerosType
    <2> HIDE DEF z1, z2
    <2>3. first \in Seq(S) /\ Len(first) = BlockLen
      BY <1>0, <1>7, <1>9, <2>2
    <2>4. second \in Seq(S) /\ Len(second) = BlockLen
      BY <1>0, <1>8, <2>2 DEF room
    <2>5. zeros \in Seq(S)
      BY <2>2
    <2>6. (marked \o zeros) \o field = first \o second
      <3>1. marked \o (z1 \o z2) = first \o z2
        <4>1. Associates(marked, z1, z2)
          BY <1>9, <2>2, Association, Zenon
        <4> QED BY <4>1, Zenon DEF Associates
      <3> HIDE DEF first
      <3>2. (first \o z2) \o field = first \o (z2 \o field)
        <4>1. Associates(first, z2, field)
          BY <1>8, <2>2, <2>3, Association, Zenon
        <4> QED BY <4>1, Zenon DEF Associates
      <3> QED BY <3>1, <3>2, Zenon
    <2>7. padding = (BlockLen - Len(marked)) + room
      <3>1. EndOf(k + 2) \in (n + 1 + LengthLen)..(n + LengthLen + BlockLen)
        <4> DEFINE e == EndOf(k)
                   f == EndOf(k + 2)
                   m == Len(marked)
        <4>1. /\ e \in Nat /\ f = e + 2 * BlockLen /\ m = r + 1
              /\ m > BlockLen - LengthLen /\ n = e + r /\ r \in 0..(BlockLen - 1)
          BY <1>6, <1>7, <1>9, <1>15, Zenon DEF room
        <4> HIDE DEF e, f, m
        <4>2. f \in (n + 1 + LengthLen)..(n + LengthLen + BlockLen)
          BY <1>0, <4>1
        <4> QED BY <4>2 DEF f
      <3>2. k + 2 \in Nat
        BY <1>5
      <3>3. PaddedLen(n) = EndOf(k + 2)
        BY <1>7, <3>1, <3>2, PaddedIs
      <3> QED BY <1>0, <1>6, <1>7, <1>9, <3>3 DEF padding, room
    <2>8. Zeros(padding) = zeros
      <3>1. z1 \o z2 = Zeros((BlockLen - Len(marked)) + room)
        BY <1>14, <2>1, ZerosAdd DEF z1, z2
      <3> QED BY <2>7, <3>1, Zenon
    <2>9. LastBlocks(c) = last
      BY <1>11, <1>15, Zenon DEF z1, z2
    <2> HIDE DEF first, second, zeros
    <2>10. FullBlocks(first \o second) = last
      <3>1. FullBlocks(first) = << first >> /\ Len(first) = EndOf(1)
        BY <2>3, OneBlock
      <3>2. FullBlocks(second) = << second >>
        BY <2>4, OneBlock
      <3>3. FullBlocks(first \o second) = FullBlocks(first) \o FullBlocks(second)
        <4>1. 1 \in Nat
          OBVIOUS
        <4> QED BY <2>3, <2>4, <3>1, <4>1, BlocksConcat
      <3>4. << first >> \o << second >> = << first, second >>
        <4> DEFINE a == << first >>
                   b == << second >>
                   e == a \o b
                   f == << first, second >>
        <4>1. /\ Len(e) = 2 /\ e[1] = first /\ e[2] = second
              /\ e \in Seq({first, second})
          BY SMTT(20)
        <4>2. f \in Seq({first, second}) /\ Len(f) = 2 /\ f[1] = first /\ f[2] = second
          OBVIOUS
        <4> HIDE DEF e, f
        <4>3. \A i \in 1..2 : e[i] = f[i]
          BY <4>1, <4>2
        <4>4. e = f
          BY <4>1, <4>2, <4>3, SeqEqual
        <4> QED BY <4>4 DEF e, f
      <3> QED BY <3>1, <3>2, <3>3, <3>4, Zenon
    <2>11. last \in Seq(Seq(S))
      <3> DEFINE B == Seq(S)
      <3>1. first \in B /\ second \in B
        BY <2>3, <2>4
      <3> HIDE DEF B
      <3>2. last \in Seq(B)
        BY <3>1
      <3> QED BY <3>2 DEF B
    <2> HIDE DEF last
    <2>12. FullBlocks((marked \o zeros) \o field) = last
      BY <2>6, <2>10, Zenon
    <2> QED BY <1>13, <2>5, <2>8, <2>9, <2>11, <2>12, Zenon
  <1>16. CASE ~ (Len(marked) > room)
    <2> DEFINE zeros == Zeros(room - Len(marked))
               w == (marked \o zeros) \o field
               last == << w >>
    <2>1. room - Len(marked) \in Nat
      BY <1>0, <1>7, <1>9, <1>16 DEF room
    <2>2. zeros \in Seq(S) /\ Len(zeros) = room - Len(marked)
      BY <1>14, <2>1, ZerosType
    <2>3. LastBlocks(c) = last
      BY <1>11, <1>16, Zenon
    <2>4. padding = room - Len(marked)
      <3>1. EndOf(k + 1) \in (n + 1 + LengthLen)..(n + LengthLen + BlockLen)
        BY <1>0, <1>6, <1>7, <1>9, <1>16 DEF room
      <3>2. k + 1 \in Nat
        BY <1>5
      <3>3. PaddedLen(n) = EndOf(k + 1)
        BY <1>7, <3>1, <3>2, PaddedIs
      <3> QED BY <1>0, <1>6, <1>7, <1>9, <3>3 DEF padding, room
    <2>5. Zeros(padding) = zeros
      BY <2>4, Zenon
    <2> HIDE DEF zeros
    <2>6. w \in Seq(S) /\ Len(w) = BlockLen
      <3> DEFINE v == marked \o zeros
      <3>1. v \in Seq(S) /\ Len(v) = room
        BY <1>0, <1>7, <1>9, <2>2 DEF room
      <3> HIDE DEF v
      <3>2. v \o field \in Seq(S) /\ Len(v \o field) = BlockLen
        BY <1>0, <1>8, <3>1 DEF room
      <3> QED BY <3>2 DEF v
    <2> HIDE DEF w
    <2>7. FullBlocks(w) = last
      BY <2>6, OneBlock
    <2>8. last \in Seq(Seq(S))
      <3> DEFINE B == Seq(S)
      <3>1. w \in B
        BY <2>6
      <3> HIDE DEF B
      <3>2. last \in Seq(B)
        BY <3>1
      <3> QED BY <3>2 DEF B
    <2> HIDE DEF last
    <2>9. FullBlocks((marked \o zeros) \o field) = last
      BY <2>7 DEF w
    <2> QED BY <1>13, <2>2, <2>3, <2>5, <2>8, <2>9, Zenon
  <1> QED BY <1>15, <1>16

-----------------------------------------------------------------------------
(* What the context holds is what was absorbed.                            *)

(* The blocks of whole blocks are together what they were cut from. *)
LEMMA BlocksJoined ==
  ASSUME NEW S, NEW s \in Seq(S), NEW k \in Nat, Len(s) = EndOf(k)
  PROVE  FlattenSeq(FullBlocks(s)) = s
  <1>0. BlockLen \in Nat \ {0}
    BY HashAssumption
  <1> DEFINE b == FullBlocks(s)
  <1>1. b \in Seq(Seq(S)) /\ AreBlocks(b, s, k)
    <2>1. Measures(s, k, 0)
      BY <1>0 DEF Measures, EndOf
    <2> QED BY <2>1, BlocksOf, Zenon
  <1> HIDE DEF b
  <1>2. Len(b) = k /\ \A i \in 1..k : b[i] = SubSeq(s, EndOf(i - 1) + 1, EndOf(i))
    BY <1>1, Zenon DEF AreBlocks
  <1>3. CASE k = 0
    <2>1. s = << >>
      BY <1>0, <1>3 DEF EndOf
    <2>2. b = << >>
      <3> DEFINE B == Seq(S)
      <3>1. b \in Seq(B)
        BY <1>1
      <3> HIDE DEF B
      <3> QED BY <1>2, <1>3, <3>1
    <2>3. FlattenSeq(<< >>) = << >>
      BY DEF FlattenSeq
    <2> QED BY <2>1, <2>2, <2>3, Zenon DEF b
  <1>4. CASE k # 0
    <2> DEFINE g == [i \in 1..k |-> SubSeq(s, 1, EndOf(i))]
    <2>1. ASSUME NEW i \in 1..k
          PROVE  g[i] = IF i = 1 THEN b[i] ELSE g[i - 1] \o b[i]
      <3>1. /\ EndOf(i - 1) \in Nat /\ EndOf(i) = EndOf(i - 1) + BlockLen
            /\ EndOf(i) <= EndOf(k) /\ EndOf(i) \in Nat
        BY Ends, Zenon
      <3>2. b[i] = SubSeq(s, EndOf(i - 1) + 1, EndOf(i)) /\ g[i] = SubSeq(s, 1, EndOf(i))
        BY <1>2
      <3>3. CASE i = 1
        <4>1. EndOf(i - 1) + 1 = 1
          BY <1>0, <3>3 DEF EndOf
        <4> QED BY <3>2, <3>3, <4>1
      <3>4. CASE i # 1
        <4>1. i - 1 \in 1..k
          BY <3>4
        <4>2. g[i - 1] = SubSeq(s, 1, EndOf(i - 1))
          BY <4>1
        <4> DEFINE x == EndOf(i - 1)
                   y == EndOf(i)
        <4>3. x \in Nat /\ y \in Nat /\ x <= y /\ y <= Len(s)
          BY <1>0, <3>1
        <4> HIDE DEF x, y
        <4>4. 1 \in 1..(Len(s) + 1) /\ x \in (1 - 1)..Len(s) /\ y \in x..Len(s)
          BY <4>3
        <4>5. SubSeq(s, 1, x) \o SubSeq(s, x + 1, y) = SubSeq(s, 1, y)
          BY <4>4, ConcatAdjacentSubSeq
        <4>6. g[i] = g[i - 1] \o b[i]
          BY <3>2, <4>2, <4>5, Zenon DEF x, y
        <4> QED BY <3>4, <4>6
      <3> QED BY <3>3, <3>4
    <2>2. g = [i \in 1..k |-> g[i]]
      OBVIOUS
    <2> HIDE DEF g
    <2>3. Joins(g, b)
      <3>1. g = [i \in 1..k |-> IF i = 1 THEN b[i] ELSE g[i - 1] \o b[i]]
        BY <2>1, <2>2
      <3> QED BY <1>2, <3>1, Zenon DEF Joins
    <2>4. FlattenSeq(b) = g[k]
      <3> DEFINE B == Seq(S)
      <3>1. b \in Seq(B)
        BY <1>1
      <3> HIDE DEF B
      <3>2. b # << >>
        BY <1>2, <1>4
      <3>3. FlattenSeq(b) = g[Len(b)]
        BY <2>3, <3>1, <3>2, JoinedBlocks
      <3> QED BY <1>2, <3>3
    <2>5. g[k] = SubSeq(s, 1, Len(s))
      <3>1. k \in 1..k
        BY <1>4
      <3> QED BY <3>1 DEF g
    <2>6. SubSeq(s, 1, Len(s)) = s
      BY SubSeqFull
    <2> QED BY <2>4, <2>5, <2>6 DEF b
  <1> QED BY <1>3, <1>4

(* The blocks compressed and the bytes in the buffer are the message. *)
LEMMA AbsorbedWhole ==
  ASSUME NEW S, NEW c, NEW message, Holds(S, c, message)
  PROVE  Absorbed(c) = message
  <1>1. message \in Seq(S)
    BY Zenon DEF Holds
  <1>2. PICK buffer :
          /\ Begins(S, buffer, Tail_(message))
          /\ c = Context(FullBlocks(message), 8 * Len(message), buffer, Len(Tail_(message)))
    BY Zenon DEF Holds
  <1>3. PICK blocks, t, k : IsCut(S, message, blocks, t, k)
    BY <1>1, CutExists, Zenon
  <1>4. Tail_(message) = t /\ FullBlocks(message) = FullBlocks(blocks)
    BY <1>3, CutBlocks, Zenon
  <1>5. /\ blocks \in Seq(S) /\ message = blocks \o t
        /\ k \in Nat /\ Len(blocks) = EndOf(k)
    BY <1>3, Zenon DEF IsCut
  <1>6. FlattenSeq(FullBlocks(blocks)) = blocks
    BY <1>5, BlocksJoined
  <1>7. SubSeq(buffer, 1, Len(Tail_(message))) = Tail_(message)
    BY <1>2, BufferPart, Zenon
  <1>8. c.state = FullBlocks(message) /\ c.buffer = buffer /\ c.len = Len(Tail_(message))
    BY <1>2 DEF Context
  <1>9. FlattenSeq(c.state) = blocks
    BY <1>4, <1>6, <1>8, Zenon
  <1>10. SubSeq(c.buffer, 1, c.len) = t
    BY <1>4, <1>7, <1>8, Zenon
  <1> QED BY <1>5, <1>9, <1>10, Zenon DEF Absorbed

-----------------------------------------------------------------------------
(* Contexts and byte strings, of whatever bytes.                           *)

IsBytes(s) == \E S : s \in Seq(S)

Carries(c, message) == \E S : Holds(S, c, message)

(* What a context holds, it holds of any larger set of bytes. *)
LEMMA HoldsMore ==
  ASSUME NEW S, NEW T, S \subseteq T, NEW c, NEW message, Holds(S, c, message)
  PROVE  Holds(T, c, message)
  <1>1. message \in Seq(S)
    BY Zenon DEF Holds
  <1>2. PICK buffer :
          /\ Begins(S, buffer, Tail_(message))
          /\ c = Context(FullBlocks(message), 8 * Len(message), buffer, Len(Tail_(message)))
    BY Zenon DEF Holds
  <1>3. message \in Seq(T)
    BY <1>1, SeqMore, Zenon
  <1>4. Begins(T, buffer, Tail_(message))
    <2>1. buffer \in Seq(S) /\ Tail_(message) \in Seq(S)
      BY <1>2, Zenon DEF Begins
    <2>2. buffer \in Seq(T) /\ Tail_(message) \in Seq(T)
      BY <2>1, SeqMore, Zenon
    <2> QED BY <1>2, <2>2, Zenon DEF Begins
  <1> QED BY <1>2, <1>3, <1>4, Zenon DEF Holds

(* What is made place by place is a byte string. *)
LEMMA BytesMade ==
  ASSUME NEW n \in Nat, NEW f, f = [i \in 1..n |-> f[i]]
  PROVE  f \in Seq({f[i] : i \in 1..n}) /\ IsBytes(f) /\ Len(f) = n
  <1> DEFINE S == {f[i] : i \in 1..n}
  <1>1. \A i \in 1..n : f[i] \in S
    OBVIOUS
  <1> HIDE DEF S
  <1>2. f \in [1..n -> S]
    BY <1>1
  <1>3. f \in Seq(S) /\ Len(f) = n
    BY <1>2
  <1>4. IsBytes(f)
    BY <1>3, Zenon DEF IsBytes
  <1> QED BY <1>3, <1>4 DEF S

(* Byte strings make byte strings. *)
LEMMA BytesConcat ==
  ASSUME NEW s, NEW t, IsBytes(s), IsBytes(t)
  PROVE  IsBytes(s \o t) /\ Len(s \o t) = Len(s) + Len(t)
  <1>1. PICK S : s \in Seq(S)
    BY Zenon DEF IsBytes
  <1>2. PICK T : t \in Seq(T)
    BY Zenon DEF IsBytes
  <1> DEFINE U == S \cup T
  <1>3. S \subseteq U /\ T \subseteq U
    OBVIOUS
  <1> HIDE DEF U
  <1>4. s \in Seq(U) /\ t \in Seq(U)
    BY <1>1, <1>2, <1>3, SeqMore, Zenon
  <1>5. s \o t \in Seq(U) /\ Len(s \o t) = Len(s) + Len(t)
    BY <1>4
  <1> QED BY <1>5, Zenon DEF IsBytes

(* cb_sha256_update, for bytes of any kind. *)
LEMMA UpdateCarries ==
  ASSUME NEW c, NEW message, Carries(c, message),
         NEW data, IsBytes(data)
  PROVE  Carries(Update(c, data), message \o data)
  <1>1. PICK S : Holds(S, c, message)
    BY Zenon DEF Carries
  <1>2. PICK T : data \in Seq(T)
    BY Zenon DEF IsBytes
  <1> DEFINE U == S \cup T
  <1>3. S \subseteq U /\ T \subseteq U
    OBVIOUS
  <1> HIDE DEF U
  <1>4. Holds(U, c, message) /\ data \in Seq(U)
    BY <1>1, <1>2, <1>3, HoldsMore, SeqMore, Zenon
  <1>5. Holds(U, Update(c, data), message \o data)
    BY <1>4, UpdateHolds, Zenon
  <1> QED BY <1>5, Zenon DEF Carries

(* cb_sha256_final, for bytes of any kind. *)
LEMMA FinalCarries ==
  ASSUME NEW c, NEW message, Carries(c, message)
  PROVE  Final(c) = HashOf(message)
  <1>0. LengthLen \in Nat
    BY HashAssumption
  <1>1. PICK S : Holds(S, c, message)
    BY Zenon DEF Carries
  <1> DEFINE field == LengthField(8 * Len(message))
             T == {field[i] : i \in 1..LengthLen}
             U == (S \cup T) \cup {Byte(0), Byte(128)}
  <1>2. S \subseteq U /\ T \subseteq U /\ Byte(0) \in U /\ Byte(128) \in U
    OBVIOUS
  <1>3. field \in Seq(T) /\ Len(field) = LengthLen
    <2>1. field = [i \in 1..LengthLen |-> field[i]]
      BY DEF LengthField
    <2> HIDE DEF field
    <2> QED BY <1>0, <2>1, BytesMade
  <1> HIDE DEF U, T, field
  <1>4. Holds(U, c, message) /\ field \in Seq(U)
    BY <1>1, <1>2, <1>3, HoldsMore, SeqMore, Zenon
  <1>5. Closes(U, message)
    BY <1>2, <1>3, <1>4, Zenon DEF Closes, field
  <1> QED BY <1>4, <1>5, FinalIsHash, Zenon

(* cb_sha256_init: nothing is absorbed yet. *)
LEMMA NewCarries ==
  Carries(NewContext, << >>)
  <1>0. BlockLen \in Nat \ {0}
    BY HashAssumption
  <1> DEFINE S == {Junk}
             b == [i \in 1..BlockLen |-> Junk]
  <1>1. b \in Seq(S) /\ Len(b) = BlockLen /\ << >> \in Seq(S) /\ Len(<< >>) = 0
    <2>1. b \in [1..BlockLen -> S]
      OBVIOUS
    <2> HIDE DEF b
    <2> QED BY <1>0, <2>1
  <1>2. NewContext = Context(<< >>, 0, b, 0)
    BY Zenon DEF NewContext, Context
  <1> HIDE DEF S, b
  <1>3. FullBlocks(<< >>) = << >> /\ Tail_(<< >>) = << >>
    <2>1. Len(<< >>) < BlockLen
      BY <1>0, <1>1
    <2> QED BY <1>1, <2>1, NoBlock
  <1>4. Begins(S, b, << >>)
    BY <1>1, BeginsNothing
  <1>5. 8 * 0 = 0
    OBVIOUS
  <1> DEFINE e == << >>
             x == FullBlocks(e)
             y == 8 * Len(e)
             z == Len(Tail_(e))
  <1>6. x = << >> /\ y = 0 /\ z = 0 /\ Tail_(e) = e
    BY <1>1, <1>3, <1>5, Zenon
  <1> HIDE DEF x, y, z
  <1>7. NewContext = Context(x, y, b, z)
    BY <1>2, <1>6, Zenon
  <1>8. Begins(S, b, Tail_(e))
    BY <1>3, <1>4, Zenon
  <1>9. Holds(S, NewContext, e)
    BY <1>1, <1>7, <1>8, Zenon DEF Holds, x, y, z
  <1> QED BY <1>9, Zenon DEF Carries

(* The fields of a context in use. *)
LEMMA CarriesType ==
  ASSUME NEW c, NEW message, Carries(c, message)
  PROVE  /\ DOMAIN c.buffer = 1..BlockLen /\ c.len \in 0..(BlockLen - 1)
         /\ c.bits \in Nat /\ Absorbed(c) = message
  <1>0. BlockLen \in Nat \ {0}
    BY HashAssumption
  <1>1. PICK S : Holds(S, c, message)
    BY Zenon DEF Carries
  <1>2. message \in Seq(S)
    BY <1>1, Zenon DEF Holds
  <1>3. PICK buffer :
          /\ Begins(S, buffer, Tail_(message))
          /\ c = Context(FullBlocks(message), 8 * Len(message), buffer, Len(Tail_(message)))
    BY <1>1, Zenon DEF Holds
  <1>4. c.buffer = buffer /\ c.bits = 8 * Len(message) /\ c.len = Len(Tail_(message))
    BY <1>3 DEF Context
  <1>5. DOMAIN buffer = 1..BlockLen
    <2>1. buffer \in Seq(S) /\ Len(buffer) = BlockLen
      BY <1>3, Zenon DEF Begins
    <2> QED BY <1>0, <2>1
  <1>6. Len(Tail_(message)) \in 0..(BlockLen - 1)
    BY <1>2, BlocksType, Zenon
  <1>7. 8 * Len(message) \in Nat
    BY <1>2
  <1>8. Absorbed(c) = message
    BY <1>1, AbsorbedWhole, Zenon
  <1> QED BY <1>4, <1>5, <1>6, <1>7, <1>8, Zenon

(* A digest is a byte string of its length. *)
LEMMA HashBytes ==
  ASSUME NEW message
  PROVE  IsBytes(HashOf(message)) /\ Len(HashOf(message)) = DigestLen
  <1>1. DigestLen \in Nat
    BY HashAssumption
  <1> DEFINE h == HashOf(message)
  <1>2. h = [i \in 1..DigestLen |-> h[i]]
    BY DEF HashOf, DigestOf
  <1> HIDE DEF h
  <1>3. IsBytes(h) /\ Len(h) = DigestLen
    BY <1>1, <1>2, BytesMade
  <1> QED BY <1>3 DEF h

(* cb_sha256: all of it in one update. *)
LEMMA OneShotIsHash ==
  ASSUME NEW data, IsBytes(data)
  PROVE  OneShot(data) = HashOf(data) /\ Carries(Update(NewContext, data), data)
  <1>1. Carries(Update(NewContext, data), << >> \o data)
    BY NewCarries, UpdateCarries, Zenon
  <1>2. << >> \o data = data
    <2>1. PICK S : data \in Seq(S)
      BY Zenon DEF IsBytes
    <2> QED BY <2>1, ConcatEmptySeq
  <1>3. Carries(Update(NewContext, data), data)
    BY <1>1, <1>2, Zenon
  <1>4. Final(Update(NewContext, data)) = HashOf(data)
    BY <1>3, FinalCarries, Zenon
  <1> QED BY <1>3, <1>4, Zenon DEF OneShot

(* The outer hash of an HMAC is that of the pad and the inner digest. *)
LEMMA OuterIsHash ==
  ASSUME NEW pad, IsBytes(pad), NEW inner, IsBytes(inner)
  PROVE  OuterFinal(pad, inner) = HashOf(pad \o inner)
  <1>1. Carries(Update(NewContext, pad), pad)
    BY OneShotIsHash, Zenon
  <1>2. Carries(Update(Update(NewContext, pad), inner), pad \o inner)
    BY <1>1, UpdateCarries, Zenon
  <1> QED BY <1>2, FinalCarries, Zenon DEF OuterFinal

(* Zeros are a byte string. *)
LEMMA ZerosBytes ==
  ASSUME NEW n \in Nat
  PROVE  IsBytes(Zeros(n)) /\ Len(Zeros(n)) = n
  <1> DEFINE z == Zeros(n)
  <1>1. z = [i \in 1..n |-> z[i]]
    BY DEF Zeros
  <1> HIDE DEF z
  <1>2. IsBytes(z) /\ Len(z) = n
    BY <1>1, BytesMade
  <1> QED BY <1>2 DEF z

(* A piece of the message. *)
LEMMA PieceBytes ==
  ASSUME NEW from \in Nat, NEW n \in Nat
  PROVE  IsBytes(Piece(from, n)) /\ Len(Piece(from, n)) = n
  <1> DEFINE z == Piece(from, n)
  <1>1. z = [i \in 1..n |-> z[i]]
    BY DEF Piece
  <1> HIDE DEF z
  <1>2. IsBytes(z) /\ Len(z) = n
    BY <1>1, BytesMade
  <1> QED BY <1>2 DEF z

(* A key. *)
LEMMA KeyBytes ==
  ASSUME NEW n \in Nat
  PROVE  IsBytes(Key(n)) /\ Len(Key(n)) = n
  <1> DEFINE z == Key(n)
  <1>1. z = [i \in 1..n |-> z[i]]
    BY DEF Key
  <1> HIDE DEF z
  <1>2. IsBytes(z) /\ Len(z) = n
    BY <1>1, BytesMade
  <1> QED BY <1>2 DEF z

(* The next piece of the message. *)
LEMMA PieceAdds ==
  ASSUME NEW m \in Nat, NEW n \in Nat
  PROVE  Piece(0, m) \o Piece(m, n) = Piece(0, m + n)
  <1> DEFINE S == {<< "msg", i >> : i \in Nat}
             a == Piece(0, m)
             b == Piece(m, n)
             c == Piece(0, m + n)
  <1>1. \A i \in Nat : << "msg", i >> \in S
    OBVIOUS
  <1>2. a \in Seq(S) /\ Len(a) = m /\ \A i \in 1..m : a[i] = << "msg", i >>
    <2>1. a \in [1..m -> S] /\ \A i \in 1..m : a[i] = << "msg", i >>
      <3>1. a = [i \in 1..m |-> << "msg", 0 + i >>]
        BY DEF Piece
      <3>2. \A i \in 1..m : 0 + i = i /\ << "msg", i >> \in S
        BY <1>1
      <3> HIDE DEF a, S
      <3> QED BY <3>1, <3>2
    <2> HIDE DEF a, S
    <2> QED BY <2>1
  <1>3. b \in Seq(S) /\ Len(b) = n /\ \A i \in 1..n : b[i] = << "msg", m + i >>
    <2>1. b \in [1..n -> S] /\ \A i \in 1..n : b[i] = << "msg", m + i >>
      <3>1. b = [i \in 1..n |-> << "msg", m + i >>]
        BY DEF Piece
      <3>2. \A i \in 1..n : m + i \in Nat
        OBVIOUS
      <3>3. \A i \in 1..n : << "msg", m + i >> \in S
        BY <1>1, <3>2
      <3> HIDE DEF b, S
      <3> QED BY <3>1, <3>3
    <2> HIDE DEF b, S
    <2> QED BY <2>1
  <1>4. c \in Seq(S) /\ Len(c) = m + n /\ \A i \in 1..(m + n) : c[i] = << "msg", i >>
    <2>1. c \in [1..(m + n) -> S] /\ \A i \in 1..(m + n) : c[i] = << "msg", i >>
      <3>1. c = [i \in 1..(m + n) |-> << "msg", 0 + i >>]
        BY DEF Piece
      <3>2. \A i \in 1..(m + n) : 0 + i = i /\ << "msg", i >> \in S
        BY <1>1
      <3> HIDE DEF c, S
      <3> QED BY <3>1, <3>2
    <2> HIDE DEF c, S
    <2> QED BY <2>1
  <1> HIDE DEF a, b, c, S
  <1> DEFINE d == a \o b
  <1>5. d \in Seq(S) /\ IsConcat(d, a, b)
    BY <1>2, <1>3, Concat, Zenon
  <1>6. /\ Len(d) = m + n
        /\ \A i \in 1..m : d[i] = a[i]
        /\ \A i \in 1..n : d[m + i] = b[i]
    BY <1>2, <1>3, <1>5, Zenon DEF IsConcat
  <1> HIDE DEF d
  <1>7. \A i \in 1..(m + n) : d[i] = << "msg", i >>
    <2> TAKE i \in 1..(m + n)
    <2>1. CASE i \in 1..m
      BY <1>2, <1>6, <2>1
    <2>2. CASE i \notin 1..m
      <3>1. i - m \in 1..n /\ m + (i - m) = i
        BY <2>2
      <3>2. d[m + (i - m)] = << "msg", m + (i - m) >>
        BY <1>3, <1>6, <3>1, Zenon
      <3> QED BY <3>1, <3>2
    <2> QED BY <2>1, <2>2
  <1>8. \A i \in 1..(m + n) : d[i] = c[i]
    BY <1>4, <1>7
  <1>9. d = c
    BY <1>4, <1>5, <1>6, <1>8, SeqEqual
  <1> QED BY <1>9 DEF a, b, c, d

(* The block made of a key, as RFC 2104 tells it. *)
KeyOrHash(key) == IF Len(key) <= BlockLen THEN key ELSE HashOf(key)

(* cb__hmac_derive_block_key makes a full block of a key of any length. *)
LEMMA BlockKeyIs ==
  ASSUME NEW n \in Nat
  PROVE  /\ BlockKey(Key(n)) = KeyOrHash(Key(n)) \o Zeros(BlockLen - Len(KeyOrHash(Key(n))))
         /\ IsBytes(BlockKey(Key(n))) /\ Len(BlockKey(Key(n))) = BlockLen
  <1>0. BlockLen \in Nat \ {0} /\ DigestLen \in Nat /\ DigestLen <= BlockLen
    BY HashAssumption
  <1> DEFINE key == Key(n)
             block == KeyOrHash(key)
             rest == Zeros(BlockLen - Len(block))
  <1>1. IsBytes(key) /\ Len(key) = n
    BY KeyBytes
  <1>2. OneShot(key) = HashOf(key)
    BY <1>1, OneShotIsHash
  <1>3. IsBytes(HashOf(key)) /\ Len(HashOf(key)) = DigestLen
    BY HashBytes
  <1> HIDE DEF key
  <1>4. IsBytes(block) /\ Len(block) \in 0..BlockLen
    BY <1>0, <1>1, <1>3 DEF KeyOrHash
  <1>5. BlockKey(key) = block \o rest
    <2>1. CASE Len(key) > BlockLen
      <3>1. ~ (Len(key) <= BlockLen)
        BY <1>0, <1>1, <2>1
      <3>2. block = HashOf(key)
        BY <3>1, Zenon DEF KeyOrHash
      <3> HIDE DEF block
      <3>3. BlockKey(key) = HashOf(key) \o Zeros(BlockLen - DigestLen)
        BY <1>2, <2>1, Zenon DEF BlockKey
      <3> QED BY <1>3, <3>2, <3>3, Zenon
    <2>2. CASE ~ (Len(key) > BlockLen)
      <3>1. Len(key) <= BlockLen
        BY <1>0, <1>1, <2>2
      <3>2. block = key
        BY <3>1, Zenon DEF KeyOrHash
      <3> HIDE DEF block
      <3>3. BlockKey(key) = key \o Zeros(BlockLen - Len(key))
        BY <2>2, Zenon DEF BlockKey
      <3> QED BY <3>2, <3>3, Zenon
    <2> QED BY <2>1, <2>2
  <1> HIDE DEF block
  <1>6. IsBytes(rest) /\ Len(rest) = BlockLen - Len(block)
    <2>1. BlockLen - Len(block) \in Nat
      BY <1>0, <1>4
    <2> QED BY <2>1, ZerosBytes
  <1> HIDE DEF rest
  <1>7. IsBytes(block \o rest) /\ Len(block \o rest) = Len(block) + Len(rest)
    BY <1>4, <1>6, BytesConcat
  <1>8. Len(block) + Len(rest) = BlockLen
    BY <1>0, <1>4, <1>6
  <1>9. IsBytes(BlockKey(key)) /\ Len(BlockKey(key)) = BlockLen
    BY <1>5, <1>7, <1>8, Zenon
  <1> QED BY <1>5, <1>9, Zenon DEF key, block, rest

(* The pads of the key. *)
Pad(name, n) == XorPad(name, BlockKey(Key(n)))

(* A pad is a byte string. *)
LEMMA PadBytes ==
  ASSUME NEW name, NEW n \in Nat
  PROVE  IsBytes(Pad(name, n))
  <1>0. BlockLen \in Nat
    BY HashAssumption
  <1> DEFINE block == BlockKey(Key(n))
             p == Pad(name, n)
  <1>1. IsBytes(block) /\ Len(block) = BlockLen
    BY BlockKeyIs
  <1> HIDE DEF block
  <1>2. DOMAIN block = 1..BlockLen
    <2>1. PICK S : block \in Seq(S)
      BY <1>1, Zenon DEF IsBytes
    <2> QED BY <1>1, <2>1
  <1>3. p = [i \in 1..BlockLen |-> p[i]]
    BY <1>2 DEF Pad, XorPad, block
  <1> HIDE DEF p
  <1>4. IsBytes(p)
    BY <1>0, <1>3, BytesMade
  <1> QED BY <1>4 DEF p

(* The HMAC, by the pads. *)
LEMMA MacIs ==
  ASSUME NEW n \in Nat, NEW message
  PROVE  MacOf(Key(n), message) =
           HashOf(Pad("opad", n) \o HashOf(Pad("ipad", n) \o message))
  <1>1. BlockKey(Key(n)) = KeyOrHash(Key(n)) \o Zeros(BlockLen - Len(KeyOrHash(Key(n))))
    BY BlockKeyIs
  <1> QED BY <1>1, Zenon DEF MacOf, KeyOrHash, Pad

-----------------------------------------------------------------------------
(* The caller.                                                             *)

(* A hash in use carries the message so far, an HMAC its inner pad and the *)
(* message, and the outer pad besides; nothing is kept of one that is done.*)
InUse ==
  /\ mode = "hash" => Carries(ctx, Piece(0, msgLen)) /\ outer = Zeros(BlockLen)
  /\ mode = "hmac" => /\ Carries(ctx, Pad("ipad", keyLen) \o Piece(0, msgLen))
                      /\ outer = Pad("opad", keyLen)
  /\ mode \in Idle => ctx = Wiped /\ outer = Zeros(BlockLen)

Answered ==
  /\ mode = "spent hash" => digest = HashOf(Piece(0, msgLen))
  /\ mode = "spent hmac" => digest = MacOf(Key(keyLen), Piece(0, msgLen))

Numbers ==
  /\ mode \in Modes
  /\ keyLen \in KeyLens \cup {0} /\ msgLen \in 0..MaxMessage
  /\ Len(digest) \in {0, DigestLen}

HashInv == Numbers /\ InUse /\ Answered

(* The inductive invariant gives what is claimed. *)
LEMMA HashInvImplies ==
  ASSUME HashInv
  PROVE  HashTypeOK /\ DigestOfWhole
  <1>0. BlockLen \in Nat \ {0}
    BY HashAssumption
  <1>1. Numbers /\ InUse /\ Answered
    BY Zenon DEF HashInv
  <1>2. mode \in Idle \/ mode = "hash" \/ mode = "hmac"
    BY <1>1, Zenon DEF Numbers, Modes
  <1>3. /\ DOMAIN ctx.buffer = 1..BlockLen /\ ctx.len \in 0..(BlockLen - 1)
        /\ ctx.bits \in Nat
    <2>1. CASE mode \in Idle
      <3>1. ctx = Wiped
        BY <1>1, <2>1, Zenon DEF InUse
      <3>2. ctx.buffer = Zeros(BlockLen) /\ ctx.len = 0 /\ ctx.bits = 0
        BY <3>1 DEF Wiped
      <3>3. DOMAIN Zeros(BlockLen) = 1..BlockLen
        BY DEF Zeros
      <3> QED BY <1>0, <3>2, <3>3
    <2>2. CASE mode = "hash"
      BY <1>1, <2>2, CarriesType, Zenon DEF InUse
    <2>3. CASE mode = "hmac"
      BY <1>1, <2>3, CarriesType, Zenon DEF InUse
    <2> QED BY <1>2, <2>1, <2>2, <2>3
  <1>4. HashTypeOK
    BY <1>1, <1>3, Zenon DEF HashTypeOK, Numbers
  <1>5. mode = "hash" => Absorbed(ctx) = Piece(0, msgLen)
    <2> HAVE mode = "hash"
    <2>1. Carries(ctx, Piece(0, msgLen))
      BY <1>1, Zenon DEF InUse
    <2> QED BY <2>1, CarriesType, Zenon
  <1> QED BY <1>1, <1>4, <1>5, Zenon DEF DigestOfWhole, InUse, Answered

(* A message of no pieces is empty. *)
LEMMA NoMessage ==
  Piece(0, 0) = << >> /\ 0 \in 0..MaxMessage
  <1>1. 0 \in 0..MaxMessage
    BY HashAssumption
  <1>2. Piece(0, 0) = << >>
    <2>1. IsBytes(Piece(0, 0)) /\ Len(Piece(0, 0)) = 0
      BY PieceBytes
    <2>2. PICK S : Piece(0, 0) \in Seq(S)
      BY <2>1, Zenon DEF IsBytes
    <2> QED BY <2>1, <2>2
  <1> QED BY <1>1, <1>2

(* An update puts the next piece behind what was absorbed, if not empty. *)
LEMMA AbsorbCarries ==
  ASSUME NEW m \in Nat, NEW n \in Nat,
         NEW c, NEW pad, IsBytes(pad), Carries(c, pad \o Piece(0, m))
  PROVE  Carries(IF n = 0 THEN c ELSE Update(c, Piece(m, n)), pad \o Piece(0, m + n))
  <1>1. CASE n = 0
    <2>1. m + n = m
      BY <1>1
    <2> QED BY <1>1, <2>1, Zenon
  <1>2. CASE n # 0
    <2> DEFINE a == Piece(0, m)
               b == Piece(m, n)
    <2>1. IsBytes(a) /\ IsBytes(b)
      BY PieceBytes
    <2>2. a \o b = Piece(0, m + n)
      BY PieceAdds
    <2> HIDE DEF a, b
    <2>3. Carries(Update(c, b), (pad \o a) \o b)
      BY <2>1, UpdateCarries, Zenon DEF a
    <2>4. (pad \o a) \o b = pad \o (a \o b)
      <3>1. PICK S : pad \in Seq(S)
        BY Zenon DEF IsBytes
      <3>2. PICK T : a \in Seq(T)
        BY <2>1, Zenon DEF IsBytes
      <3>3. PICK U : b \in Seq(U)
        BY <2>1, Zenon DEF IsBytes
      <3> DEFINE V == S \cup T \cup U
      <3>4. S \subseteq V /\ T \subseteq V /\ U \subseteq V
        OBVIOUS
      <3> HIDE DEF V
      <3>5. pad \in Seq(V) /\ a \in Seq(V) /\ b \in Seq(V)
        BY <3>1, <3>2, <3>3, <3>4, SeqMore, Zenon
      <3>6. Associates(pad, a, b)
        BY <3>5, Association, Zenon
      <3> QED BY <3>6, Zenon DEF Associates
    <2>5. Carries(Update(c, b), pad \o Piece(0, m + n))
      BY <2>2, <2>3, <2>4, Zenon
    <2> QED BY <1>2, <2>5, Zenon DEF b
  <1> QED BY <1>1, <1>2

(* It holds at the start ... *)
LEMMA HashInvInit ==
  ASSUME CallerInit
  PROVE  HashInv
  <1>1. 0 \in 0..MaxMessage
    BY NoMessage
  <1>2. /\ mode = "none" /\ ctx = Wiped /\ outer = Zeros(BlockLen)
        /\ keyLen = 0 /\ msgLen = 0 /\ Len(digest) = 0
    BY DEF CallerInit, NoDigest
  <1>3. Numbers
    BY <1>1, <1>2 DEF Numbers, Modes, Idle
  <1>4. InUse /\ Answered
    BY <1>2 DEF InUse, Answered, Idle
  <1> QED BY <1>3, <1>4, Zenon DEF HashInv

(* ... and every step keeps it. *)
LEMMA HashInvNext ==
  ASSUME HashInv, [CallerNext]_hashVars
  PROVE  HashInv'
  <1>1. Numbers /\ InUse /\ Answered
    BY Zenon DEF HashInv
  <1>2. keyLen \in Nat /\ msgLen \in Nat /\ MaxMessage \in Nat /\ KeyLens \subseteq Nat
        /\ MaxPiece \in Nat
    BY <1>1, HashAssumption DEF Numbers
  <1>3. \A c, message : Carries(c, message) => Final(c) = HashOf(message)
    BY FinalCarries, Zenon
  <1>4. ASSUME NEW message
        PROVE  IsBytes(HashOf(message)) /\ Len(HashOf(message)) = DigestLen
    BY HashBytes
  <1>5. CASE HashInit
    <2>1. /\ mode' = "hash" /\ ctx' = NewContext /\ msgLen' = 0 /\ digest' = NoDigest
          /\ outer' = outer /\ keyLen' = keyLen /\ mode \in Idle
      BY <1>5, Zenon DEF HashInit
    <2>2. Len(NoDigest) = 0
      BY DEF NoDigest
    <2>3. Numbers'
      BY <1>1, <2>1, <2>2, NoMessage, Zenon DEF Numbers, Modes
    <2>4. Carries(NewContext, Piece(0, 0))
      BY NewCarries, NoMessage, Zenon
    <2>5. outer = Zeros(BlockLen)
      BY <1>1, <2>1, Zenon DEF InUse
    <2>6. InUse'
      BY <2>1, <2>4, <2>5 DEF InUse, Idle
    <2>7. Answered'
      BY <2>1 DEF Answered
    <2> QED BY <2>3, <2>6, <2>7, Zenon DEF HashInv
  <1>6. ASSUME NEW len \in KeyLens, HmacInit(len)
        PROVE  HashInv'
    <2>1. /\ mode' = "hmac" /\ ctx' = Update(NewContext, Pad("ipad", len))
          /\ outer' = Pad("opad", len) /\ keyLen' = len /\ msgLen' = 0 /\ digest' = NoDigest
      BY <1>6, Zenon DEF HmacInit, Pad
    <2>2. Len(NoDigest) = 0
      BY DEF NoDigest
    <2>3. Numbers'
      BY <2>1, <2>2, NoMessage, Zenon DEF Numbers, Modes
    <2>4. len \in Nat
      BY <1>2
    <2>5. IsBytes(Pad("ipad", len))
      BY <2>4, PadBytes, Zenon
    <2>6. Carries(Update(NewContext, Pad("ipad", len)), Pad("ipad", len))
      BY <2>5, OneShotIsHash, Zenon
    <2>7. Pad("ipad", len) \o Piece(0, 0) = Pad("ipad", len)
      <3>1. PICK S : Pad("ipad", len) \in Seq(S)
        BY <2>5, Zenon DEF IsBytes
      <3>2. Pad("ipad", len) \o << >> = Pad("ipad", len)
        BY <3>1, ConcatEmptySeq
      <3> QED BY <3>2, NoMessage, Zenon
    <2>8. Carries(ctx', Pad("ipad", keyLen') \o Piece(0, msgLen'))
      BY <2>1, <2>6, <2>7, Zenon
    <2>9. InUse'
      BY <2>1, <2>8 DEF InUse, Idle
    <2>10. Answered'
      BY <2>1 DEF Answered
    <2> QED BY <2>3, <2>9, <2>10, Zenon DEF HashInv
  <1>7. ASSUME NEW len \in 0..MaxPiece, Absorb(len)
        PROVE  HashInv'
    <2>1. /\ mode \in {"hash", "hmac"} /\ msgLen + len <= MaxMessage
          /\ ctx' = (IF len = 0 THEN ctx ELSE Update(ctx, Piece(msgLen, len)))
          /\ msgLen' = msgLen + len /\ mode' = mode /\ outer' = outer
          /\ keyLen' = keyLen /\ digest' = digest
      BY <1>7, Zenon DEF Absorb
    <2>2. len \in Nat
      BY <1>2
    <2>3. msgLen' \in 0..MaxMessage
      BY <1>2, <2>1, <2>2
    <2>4. Numbers'
      BY <1>1, <2>1, <2>3, Zenon DEF Numbers
    <2>5. ASSUME mode = "hash"
          PROVE  Carries(ctx', Piece(0, msgLen'))
      <3> DEFINE e == << >>
      <3>1. ASSUME NEW n \in Nat
            PROVE  e \o Piece(0, n) = Piece(0, n)
        <4>1. IsBytes(Piece(0, n))
          BY PieceBytes
        <4>2. PICK S : Piece(0, n) \in Seq(S)
          BY <4>1, Zenon DEF IsBytes
        <4> QED BY <4>2, ConcatEmptySeq
      <3>2. IsBytes(e)
        <4>1. e \in Seq({})
          OBVIOUS
        <4> QED BY <4>1, Zenon DEF IsBytes
      <3> HIDE DEF e
      <3>3. Carries(ctx, Piece(0, msgLen))
        BY <1>1, <2>5, Zenon DEF InUse
      <3>4. Carries(ctx, e \o Piece(0, msgLen))
        BY <1>2, <3>1, <3>3, Zenon
      <3>5. Carries(IF len = 0 THEN ctx ELSE Update(ctx, Piece(msgLen, len)),
                    e \o Piece(0, msgLen + len))
        BY <1>2, <2>2, <3>2, <3>4, AbsorbCarries, Zenon
      <3>6. msgLen + len \in Nat
        BY <1>2, <2>2
      <3> QED BY <2>1, <3>1, <3>5, <3>6, Zenon
    <2>6. ASSUME mode = "hmac"
          PROVE  Carries(ctx', Pad("ipad", keyLen) \o Piece(0, msgLen'))
      <3>1. IsBytes(Pad("ipad", keyLen))
        BY <1>2, PadBytes, Zenon
      <3>2. Carries(ctx, Pad("ipad", keyLen) \o Piece(0, msgLen))
        BY <1>1, <2>6, Zenon DEF InUse
      <3>3. Carries(IF len = 0 THEN ctx ELSE Update(ctx, Piece(msgLen, len)),
                    Pad("ipad", keyLen) \o Piece(0, msgLen + len))
        BY <1>2, <2>2, <3>1, <3>2, AbsorbCarries, Zenon
      <3> QED BY <2>1, <3>3, Zenon
    <2>7. mode \notin Idle
      BY <2>1 DEF Idle
    <2>8. InUse'
      BY <1>1, <2>1, <2>5, <2>6, <2>7, Zenon DEF InUse
    <2>9. Answered'
      BY <2>1 DEF Answered
    <2> QED BY <2>4, <2>8, <2>9, Zenon DEF HashInv
  <1>8. CASE HashFinal
    <2>1. /\ mode = "hash" /\ mode' = "spent hash" /\ digest' = Final(ctx)
          /\ ctx' = Wiped /\ outer' = outer /\ keyLen' = keyLen /\ msgLen' = msgLen
      BY <1>8, Zenon DEF HashFinal
    <2>2. Carries(ctx, Piece(0, msgLen)) /\ outer = Zeros(BlockLen)
      BY <1>1, <2>1, Zenon DEF InUse
    <2>3. digest' = HashOf(Piece(0, msgLen))
      BY <1>3, <2>1, <2>2, Zenon
    <2>4. Len(digest') = DigestLen
      BY <1>4, <2>3, Zenon
    <2>5. Numbers'
      BY <1>1, <2>1, <2>4, Zenon DEF Numbers, Modes, Idle
    <2>6. InUse'
      BY <2>1, <2>2 DEF InUse, Idle
    <2>7. Answered'
      BY <2>1, <2>3 DEF Answered
    <2> QED BY <2>5, <2>6, <2>7, Zenon DEF HashInv
  <1>9. CASE HmacFinal
    <2>1. /\ mode = "hmac" /\ mode' = "spent hmac" /\ digest' = OuterFinal(outer, Final(ctx))
          /\ ctx' = Wiped /\ outer' = Zeros(BlockLen) /\ keyLen' = keyLen /\ msgLen' = msgLen
      BY <1>9, Zenon DEF HmacFinal
    <2> DEFINE inner == Pad("ipad", keyLen) \o Piece(0, msgLen)
    <2>2. Carries(ctx, inner) /\ outer = Pad("opad", keyLen)
      BY <1>1, <2>1, Zenon DEF InUse
    <2>3. Final(ctx) = HashOf(inner)
      BY <1>3, <2>2, Zenon
    <2>4. IsBytes(Pad("opad", keyLen)) /\ IsBytes(HashOf(inner))
      BY <1>2, <1>4, PadBytes, Zenon
    <2> HIDE DEF inner
    <2>5. digest' = HashOf(Pad("opad", keyLen) \o HashOf(inner))
      <3>1. OuterFinal(Pad("opad", keyLen), HashOf(inner))
              = HashOf(Pad("opad", keyLen) \o HashOf(inner))
        BY <2>4, OuterIsHash
      <3> QED BY <2>1, <2>2, <2>3, <3>1, Zenon
    <2>6. digest' = MacOf(Key(keyLen), Piece(0, msgLen))
      <3>1. MacOf(Key(keyLen), Piece(0, msgLen))
              = HashOf(Pad("opad", keyLen) \o HashOf(inner))
        BY <1>2, MacIs DEF inner
      <3> QED BY <2>5, <3>1, Zenon
    <2>7. Len(digest') = DigestLen
      BY <1>4, <2>5, Zenon
    <2>8. Numbers'
      BY <1>1, <2>1, <2>7, Zenon DEF Numbers, Modes, Idle
    <2>9. InUse'
      BY <2>1 DEF InUse, Idle
    <2>10. Answered'
      BY <2>1, <2>6 DEF Answered
    <2> QED BY <2>8, <2>9, <2>10, Zenon DEF HashInv
  <1>10. CASE HmacAbort
    <2>1. /\ mode' = "none" /\ ctx' = Wiped /\ outer' = Zeros(BlockLen)
          /\ keyLen' = keyLen /\ msgLen' = msgLen /\ digest' = digest
      BY <1>10, Zenon DEF HmacAbort
    <2>2. Numbers'
      BY <1>1, <2>1, Zenon DEF Numbers, Modes, Idle
    <2>3. InUse' /\ Answered'
      BY <2>1 DEF InUse, Answered, Idle
    <2> QED BY <2>2, <2>3, Zenon DEF HashInv
  <1>11. CASE UNCHANGED hashVars
    <2>1. /\ mode' = mode /\ ctx' = ctx /\ outer' = outer
          /\ keyLen' = keyLen /\ msgLen' = msgLen /\ digest' = digest
      BY <1>11, Zenon DEF hashVars
    <2>2. Numbers' /\ InUse' /\ Answered'
      BY <1>1, <2>1, Zenon DEF Numbers, InUse, Answered
    <2> QED BY <2>2, Zenon DEF HashInv
  <1>12. CallerNext \/ UNCHANGED hashVars
    OBVIOUS
  <1> QED BY <1>5, <1>6, <1>7, <1>8, <1>9, <1>10, <1>11, <1>12, Zenon DEF CallerNext

-----------------------------------------------------------------------------
(* Results.                                                                *)

(* The context in use is always that of what was absorbed: what is in the  *)
(* buffer is the rest of it, and is never a full block.                    *)
THEOREM HashType ==
  HashSpec => []HashTypeOK
  <1>1. CallerInit => HashInv
    BY HashInvInit
  <1>2. HashInv /\ [CallerNext]_hashVars => HashInv'
    BY HashInvNext
  <1>3. HashInv => HashTypeOK
    BY HashInvImplies
  <1> QED BY <1>1, <1>2, <1>3, PTL DEF HashSpec

(* A digest, and an HMAC, is that of the whole message, however it was cut *)
(* into updates (cb_sha256_update, cb_sha256_final, cb_hmac_sha256_final), *)
(* and nothing of message and key is left behind (cb_hmac_sha256_abort).   *)
THEOREM DigestIsOfWhole ==
  HashSpec => []DigestOfWhole
  <1>1. CallerInit => HashInv
    BY HashInvInit
  <1>2. HashInv /\ [CallerNext]_hashVars => HashInv'
    BY HashInvNext
  <1>3. HashInv => DigestOfWhole
    BY HashInvImplies
  <1> QED BY <1>1, <1>2, <1>3, PTL DEF HashSpec
=============================================================================
