---------------------------- MODULE Netsim_proofs ----------------------------
(***************************************************************************)
(* Proofs about the network simulator, alone and under the transport: for  *)
(* any finite set of addresses, any payloads and parameters, and any       *)
(* bounds on the calls.                                                    *)
(***************************************************************************)
EXTENDS Transport, FiniteSetTheorems, WellFoundedInduction, TLAPS

-----------------------------------------------------------------------------
(* Induction.  What holds of 0, and of n + 1 where it holds of n, is told  *)
(* as the set of the numbers it holds of; likewise for sequences.          *)

(* A set of numbers that is not empty has a least one. *)
LEMMA Least ==
  ASSUME NEW S \in SUBSET Nat, S # {}
  PROVE  \E x \in S : \A y \in S : x <= y
  <1>1. PICK x \in S : \A y \in S : ~ (<< y, x >> \in OpToRel(<, Nat))
    BY NatLessThanWellFounded, WFMin
  <1>2. \A y \in S : ~ (<< y, x >> \in {ss \in Nat \X Nat : ss[1] < ss[2]})
    BY <1>1, Zenon DEF OpToRel
  <1>3. ASSUME NEW y \in S PROVE ~ (y < x)
    <2>1. << y, x >>[1] = y /\ << y, x >>[2] = x
      OBVIOUS
    <2>2. << y, x >> \in Nat \X Nat
      OBVIOUS
    <2>3. ~ (<< y, x >>[1] < << y, x >>[2])
      BY <1>2, <2>2, Zenon
    <2> QED BY <2>1, <2>3
  <1>4. \A y \in S : x <= y
    BY <1>3
  <1> QED BY <1>4

(* Induction over the natural numbers. *)
LEMMA NatInd ==
  ASSUME NEW S, 0 \in S, \A n \in Nat : n \in S => n + 1 \in S
  PROVE  Nat \subseteq S
  <1> DEFINE T == Nat \ S
  <1> SUFFICES ASSUME T # {} PROVE FALSE
    OBVIOUS
  <1>1. T \in SUBSET Nat
    OBVIOUS
  <1> HIDE DEF T
  <1>2. PICK x \in T : \A y \in T : x <= y
    BY <1>1, Least
  <1>3. x \in Nat /\ x # 0
    BY <1>1 DEF T
  <1>4. x - 1 \in Nat /\ x - 1 \notin T
    BY <1>1, <1>2, <1>3
  <1>5. x - 1 \in S
    BY <1>4 DEF T
  <1>6. (x - 1) + 1 \in S
    BY <1>4, <1>5
  <1>7. x \in S
    BY <1>3, <1>6
  <1> QED BY <1>7 DEF T

(* Induction over sequences, from the empty one by appending. *)
LEMMA SeqInd ==
  ASSUME NEW D, NEW P, << >> \in P,
         \A s \in Seq(D), d \in D : s \in P => Append(s, d) \in P
  PROVE  Seq(D) \subseteq P
  <1> DEFINE N == {n \in Nat : \A s \in Seq(D) : Len(s) = n => s \in P}
  <1>1. 0 \in N
    OBVIOUS
  <1>2. ASSUME NEW n \in Nat, n \in N
        PROVE  n + 1 \in N
    <2> SUFFICES ASSUME NEW s \in Seq(D), Len(s) = n + 1
                 PROVE  s \in P
      OBVIOUS
    <2> DEFINE r == SubSeq(s, 1, n)
    <2>1. r \in Seq(D) /\ Len(r) = n /\ s[n + 1] \in D
      OBVIOUS
    <2>2. s = Append(r, s[n + 1])
      OBVIOUS
    <2>3. r \in P
      BY <1>2, <2>1
    <2> QED BY <2>1, <2>2, <2>3
  <1> HIDE DEF N
  <1>3. Nat \subseteq N
    BY <1>1, <1>2, NatInd
  <1> QED BY <1>3 DEF N

-----------------------------------------------------------------------------
(* The fields of a datagram. *)
LEMMA DatagramType ==
  ASSUME NEW d \in Datagram
  PROVE  d.dest \in Addrs /\ d.len \in Nat /\ d.data \in Nat \ {0} /\ d.at \in Nat
  <1>1. MaxSends \in Nat
    BY BoundsAssumption
  <1>2. d.dest \in Addrs /\ d.len \in Lens /\ d.data \in 1..MaxSends /\ d.at \in Nat
    BY DEF Datagram
  <1>3. d.len \in Nat
    BY <1>2, LensAssumption
  <1>4. d.data \in Nat \ {0}
    BY <1>1, <1>2
  <1> QED BY <1>2, <1>3, <1>4

-----------------------------------------------------------------------------
(* The datagrams of a queue that go to some destinations: the recursion of *)
(* SentTo has a value, which grows with the queue.                         *)
KeptStep(queue, dests, kept, n) ==
  IF n = 0 THEN << >>
  ELSE IF queue[n].dest \in dests THEN Append(kept[n - 1], queue[n])
  ELSE kept[n - 1]
IsKept(kept, queue, dests, n) == kept = [i \in 0..n |-> KeptStep(queue, dests, kept, i)]
Kept(queue, dests) == CHOOSE kept : IsKept(kept, queue, dests, Len(queue))

(* There is such a function for every queue and every prefix of it. *)
LEMMA KeptExists ==
  ASSUME NEW queue, NEW dests
  PROVE  \A n \in Nat : \E kept : IsKept(kept, queue, dests, n)
  <1> DEFINE N == {n \in Nat : \E kept : IsKept(kept, queue, dests, n)}
  <1>1. 0 \in N
    <2> DEFINE k == [i \in 0..0 |-> << >>]
    <2>1. k = [i \in 0..0 |-> KeptStep(queue, dests, k, i)]
      BY DEF KeptStep
    <2> QED BY <2>1 DEF IsKept
  <1>2. ASSUME NEW n \in Nat, n \in N
        PROVE  n + 1 \in N
    <2>1. PICK g : IsKept(g, queue, dests, n)
      BY <1>2
    <2> DEFINE k == [i \in 0..(n + 1) |-> IF i = n + 1 THEN KeptStep(queue, dests, g, i)
                                           ELSE g[i]]
    <2>2. \A i \in 0..n : g[i] = KeptStep(queue, dests, g, i)
      BY <2>1 DEF IsKept
    <2>3. \A i \in 0..n : k[i] = g[i]
      OBVIOUS
    <2>4. k[n + 1] = KeptStep(queue, dests, g, n + 1)
      OBVIOUS
    <2>5. k = [i \in 0..(n + 1) |-> k[i]]
      OBVIOUS
    <2> HIDE DEF k
    <2>6. \A i \in 0..(n + 1) : KeptStep(queue, dests, k, i) = KeptStep(queue, dests, g, i)
      <3> TAKE i \in 0..(n + 1)
      <3>1. i = 0 \/ i - 1 \in 0..n
        OBVIOUS
      <3> QED BY <2>3, <3>1 DEF KeptStep
    <2>7. \A i \in 0..(n + 1) : k[i] = KeptStep(queue, dests, k, i)
      <3> TAKE i \in 0..(n + 1)
      <3>1. i \in 0..n \/ i = n + 1
        OBVIOUS
      <3> QED BY <2>2, <2>3, <2>4, <2>6, <3>1
    <2>8. k = [i \in 0..(n + 1) |-> KeptStep(queue, dests, k, i)]
      BY <2>5, <2>7
    <2> QED BY <2>8 DEF IsKept
  <1> HIDE DEF N
  <1>3. Nat \subseteq N
    BY <1>1, <1>2, NatInd
  <1> QED BY <1>3 DEF N

(* SentTo is its value at the end of the queue. *)
LEMMA KeptDef ==
  ASSUME NEW queue, Len(queue) \in Nat, NEW dests
  PROVE  /\ SentTo(queue, dests) = Kept(queue, dests)[Len(queue)]
         /\ \A n \in 0..Len(queue) :
              Kept(queue, dests)[n] = KeptStep(queue, dests, Kept(queue, dests), n)
  <1>1. IsKept(Kept(queue, dests), queue, dests, Len(queue))
    BY KeptExists DEF Kept
  <1>2. SentTo(queue, dests) = Kept(queue, dests)[Len(queue)]
    BY Zenon DEF SentTo, Kept, IsKept, KeptStep
  <1> QED BY <1>1, <1>2 DEF IsKept

(* Nothing of an empty queue is kept, ... *)
LEMMA SentToEmpty ==
  ASSUME NEW X
  PROVE  SentTo(<< >>, X) = << >>
  BY KeptDef, Len(<< >>) = 0 DEF KeptStep

(* ... and the last datagram of any other is kept if it goes to one of the *)
(* destinations.                                                           *)
LEMMA SentToAppend ==
  ASSUME NEW s \in Seq(Datagram), NEW d \in Datagram, NEW X
  PROVE  /\ d.dest \in X => SentTo(Append(s, d), X) = Append(SentTo(s, X), d)
         /\ d.dest \notin X => SentTo(Append(s, d), X) = SentTo(s, X)
  <1> DEFINE t == Append(s, d)
             k == Kept(s, X)
             l == Kept(t, X)
             N == {n \in Nat : n <= Len(s) => k[n] = l[n]}
  <1>1. /\ t \in Seq(Datagram) /\ Len(s) \in Nat /\ Len(t) = Len(s) + 1
        /\ \A i \in 1..Len(s) : t[i] = s[i]
        /\ t[Len(s) + 1] = d
    OBVIOUS
  <1> HIDE DEF t
  <1>3. /\ SentTo(s, X) = k[Len(s)]
        /\ \A n \in 0..Len(s) : k[n] = KeptStep(s, X, k, n)
    BY <1>1, KeptDef
  <1>4. /\ SentTo(t, X) = l[Len(t)]
        /\ \A n \in 0..Len(t) : l[n] = KeptStep(t, X, l, n)
    BY <1>1, KeptDef
  <1> HIDE DEF k, l
  <1>5. 0 \in N
    BY <1>1, <1>3, <1>4 DEF KeptStep
  <1>6. ASSUME NEW n \in Nat, n \in N
        PROVE  n + 1 \in N
    <2> SUFFICES ASSUME n + 1 <= Len(s)
                 PROVE  k[n + 1] = l[n + 1]
      OBVIOUS
    <2>1. k[n] = l[n]
      BY <1>1, <1>6
    <2>2. n + 1 \in 0..Len(s) /\ n + 1 \in 0..Len(t) /\ t[n + 1] = s[n + 1]
      BY <1>1
    <2>3. /\ n + 1 # 0 /\ (n + 1) - 1 = n
          /\ k[n + 1] = KeptStep(s, X, k, n + 1)
          /\ l[n + 1] = KeptStep(t, X, l, n + 1)
      BY <1>3, <1>4, <2>2
    <2> QED BY <2>1, <2>2, <2>3 DEF KeptStep
  <1> HIDE DEF N
  <1>7. Nat \subseteq N
    BY <1>5, <1>6, NatInd
  <1>8. k[Len(s)] = l[Len(s)]
    BY <1>1, <1>7 DEF N
  <1>9. l[Len(t)] = KeptStep(t, X, l, Len(t)) /\ Len(t) # 0 /\ Len(t) - 1 = Len(s)
    BY <1>1, <1>4
  <1>10. SentTo(t, X) = IF d.dest \in X THEN Append(SentTo(s, X), d) ELSE SentTo(s, X)
    BY <1>1, <1>3, <1>4, <1>8, <1>9 DEF KeptStep
  <1> QED BY <1>10 DEF t

(* The elements of a sequence, and of what is made of it. *)
LEMMA RangeAppend ==
  ASSUME NEW s \in Seq(Datagram), NEW d \in Datagram
  PROVE  /\ Range(<< >>) = {}
         /\ Range(s) \subseteq Datagram
         /\ Range(s) = {s[i] : i \in 1..Len(s)}
         /\ Range(Append(s, d)) = Range(s) \cup {d}
  <1>1. Range(<< >>) = {} /\ Range(s) = {s[i] : i \in 1..Len(s)}
    BY DEF Range
  <1>2. Range(s) \subseteq Datagram
    BY <1>1
  <1> DEFINE t == Append(s, d)
  <1>3. /\ t \in Seq(Datagram) /\ Len(s) \in Nat /\ Len(t) = Len(s) + 1
        /\ \A i \in 1..Len(s) : t[i] = s[i]
        /\ t[Len(s) + 1] = d
        /\ DOMAIN t = 1..(Len(s) + 1)
    OBVIOUS
  <1>4. Range(t) = {t[i] : i \in 1..(Len(s) + 1)}
    BY <1>3, Zenon DEF Range
  <1> HIDE DEF t
  <1>5. Range(t) \subseteq Range(s) \cup {d}
    <2> SUFFICES ASSUME NEW i \in 1..(Len(s) + 1)
                 PROVE  t[i] \in Range(s) \cup {d}
      BY <1>4
    <2>1. CASE i = Len(s) + 1
      BY <1>3, <2>1
    <2>2. CASE i # Len(s) + 1
      BY <1>1, <1>3, <2>2
    <2> QED BY <2>1, <2>2
  <1>6. Range(s) \cup {d} \subseteq Range(t)
    BY <1>1, <1>3, <1>4
  <1> QED BY <1>1, <1>2, <1>5, <1>6 DEF t

(* What is kept of a queue is a queue, of those datagrams. *)
LEMMA SentToType ==
  ASSUME NEW s \in Seq(Datagram), NEW X
  PROVE  /\ SentTo(s, X) \in Seq(Datagram)
         /\ Range(SentTo(s, X)) = {d \in Range(s) : d.dest \in X}
  <1> DEFINE P == {q \in Seq(Datagram) : /\ SentTo(q, X) \in Seq(Datagram)
                                  /\ Range(SentTo(q, X)) = {d \in Range(q) : d.dest \in X}}
  <1>1. << >> \in P
    <2>1. SentTo(<< >>, X) = << >>
      BY SentToEmpty
    <2>2. Range(<< >>) = {}
      BY DEF Range
    <2>3. << >> \in Seq(Datagram)
      OBVIOUS
    <2> QED BY <2>1, <2>2, <2>3
  <1>2. ASSUME NEW q \in Seq(Datagram), NEW d \in Datagram, q \in P
        PROVE  Append(q, d) \in P
    <2> DEFINE k == SentTo(q, X)
               a == Append(q, d)
    <2>1. k \in Seq(Datagram) /\ Range(k) = {x \in Range(q) : x.dest \in X}
      BY <1>2
    <2>2. Range(a) = Range(q) \cup {d} /\ Range(Append(k, d)) = Range(k) \cup {d}
      BY <2>1, RangeAppend
    <2>3. a \in Seq(Datagram) /\ Append(k, d) \in Seq(Datagram)
      BY <2>1
    <2>4. /\ d.dest \in X => SentTo(a, X) = Append(k, d)
          /\ d.dest \notin X => SentTo(a, X) = k
      BY SentToAppend
    <2> HIDE DEF a, k
    <2>5. SentTo(a, X) \in Seq(Datagram)
      BY <2>1, <2>3, <2>4
    <2>6. Range(SentTo(a, X)) = {x \in Range(a) : x.dest \in X}
      BY <2>1, <2>2, <2>4
    <2> QED BY <2>3, <2>5, <2>6 DEF a
  <1> HIDE DEF P
  <1>3. Seq(Datagram) \subseteq P
    BY <1>1, <1>2, SeqInd
  <1> QED BY <1>3 DEF P

(* Nothing is kept of a queue without those destinations, ... *)
LEMMA SentToNone ==
  ASSUME NEW s \in Seq(Datagram), NEW X, \A d \in Range(s) : d.dest \notin X
  PROVE  SentTo(s, X) = << >>
  <1>1. SentTo(s, X) \in Seq(Datagram) /\ Range(SentTo(s, X)) = {}
    BY SentToType
  <1>2. Len(SentTo(s, X)) = 0
    BY <1>1 DEF Range
  <1> QED BY <1>1, <1>2

(* ... the whole of one that has no others, ... *)
LEMMA SentToAll ==
  ASSUME NEW s \in Seq(Datagram), NEW X, \A d \in Range(s) : d.dest \in X
  PROVE  SentTo(s, X) = s
  <1> DEFINE P == {q \in Seq(Datagram) : (\A d \in Range(q) : d.dest \in X) => SentTo(q, X) = q}
  <1>1. << >> \in P
    BY SentToEmpty
  <1>2. ASSUME NEW q \in Seq(Datagram), NEW d \in Datagram, q \in P
        PROVE  Append(q, d) \in P
    BY <1>2, RangeAppend, SentToAppend
  <1> HIDE DEF P
  <1>3. Seq(Datagram) \subseteq P
    BY <1>1, <1>2, SeqInd
  <1> QED BY <1>3 DEF P

(* ... and of two queues, first what is kept of the first. *)
LEMMA SentToConcat ==
  ASSUME NEW s \in Seq(Datagram), NEW t \in Seq(Datagram), NEW X
  PROVE  SentTo(s \o t, X) = SentTo(s, X) \o SentTo(t, X)
  <1> DEFINE P == {q \in Seq(Datagram) : SentTo(s \o q, X) = SentTo(s, X) \o SentTo(q, X)}
  <1>1. SentTo(s, X) \in Seq(Datagram)
    BY SentToType
  <1>2. << >> \in P
    BY <1>1, SentToEmpty
  <1>3. ASSUME NEW q \in Seq(Datagram), NEW d \in Datagram, q \in P
        PROVE  Append(q, d) \in P
    <2> DEFINE a == Append(q, d)
               k == SentTo(q, X)
    <2>1. /\ a \in Seq(Datagram) /\ s \o q \in Seq(Datagram)
          /\ s \o a = Append(s \o q, d)
      OBVIOUS
    <2>2. k \in Seq(Datagram)
      BY SentToType
    <2>3. SentTo(s, X) \o Append(k, d) = Append(SentTo(s, X) \o k, d)
      BY <1>1, <2>2
    <2>4. /\ d.dest \in X => SentTo(a, X) = Append(k, d)
          /\ d.dest \notin X => SentTo(a, X) = k
      BY SentToAppend
    <2>5. /\ d.dest \in X => SentTo(s \o a, X) = Append(SentTo(s \o q, X), d)
          /\ d.dest \notin X => SentTo(s \o a, X) = SentTo(s \o q, X)
      <3> DEFINE r == s \o q
      <3>1. r \in Seq(Datagram) /\ s \o a = Append(r, d)
        BY <2>1
      <3> HIDE DEF r, a
      <3>2. /\ d.dest \in X => SentTo(Append(r, d), X) = Append(SentTo(r, X), d)
            /\ d.dest \notin X => SentTo(Append(r, d), X) = SentTo(r, X)
        BY <3>1, SentToAppend
      <3> QED BY <3>1, <3>2 DEF r
    <2>6. SentTo(s \o q, X) = SentTo(s, X) \o k
      BY <1>3
    <2> HIDE DEF a, k
    <2>7. SentTo(s \o a, X) = SentTo(s, X) \o SentTo(a, X)
      BY <2>3, <2>4, <2>5, <2>6
    <2> QED BY <2>1, <2>7 DEF a
  <1> HIDE DEF P
  <1>4. Seq(Datagram) \subseteq P
    BY <1>2, <1>3, SeqInd
  <1> QED BY <1>4 DEF P

(* To keep some destinations and of these others is to keep those that are *)
(* both.                                                                   *)
LEMMA SentToTwice ==
  ASSUME NEW s \in Seq(Datagram), NEW X, NEW Y
  PROVE  SentTo(SentTo(s, X), Y) = SentTo(s, X \cap Y)
  <1> DEFINE Z == X \cap Y
             P == {q \in Seq(Datagram) : SentTo(SentTo(q, X), Y) = SentTo(q, Z)}
  <1> HIDE DEF Z
  <1>1. << >> \in P
    BY SentToEmpty
  <1>2. ASSUME NEW q \in Seq(Datagram), NEW d \in Datagram, q \in P
        PROVE  Append(q, d) \in P
    <2> DEFINE a == Append(q, d)
               k == SentTo(q, X)
    <2>1. k \in Seq(Datagram) /\ a \in Seq(Datagram)
      BY SentToType
    <2>2. /\ d.dest \in X => SentTo(a, X) = Append(k, d)
          /\ d.dest \notin X => SentTo(a, X) = k
      BY SentToAppend
    <2>3. /\ d.dest \in Y => SentTo(Append(k, d), Y) = Append(SentTo(k, Y), d)
          /\ d.dest \notin Y => SentTo(Append(k, d), Y) = SentTo(k, Y)
      BY <2>1, SentToAppend
    <2>4. /\ d.dest \in Z => SentTo(a, Z) = Append(SentTo(q, Z), d)
          /\ d.dest \notin Z => SentTo(a, Z) = SentTo(q, Z)
      BY SentToAppend
    <2>5. SentTo(k, Y) = SentTo(q, Z)
      BY <1>2
    <2>6. d.dest \in Z <=> (d.dest \in X /\ d.dest \in Y)
      BY DEF Z
    <2> HIDE DEF a, k
    <2>7. SentTo(SentTo(a, X), Y) = SentTo(a, Z)
      BY <2>2, <2>3, <2>4, <2>5, <2>6
    <2> QED BY <2>1, <2>7 DEF a
  <1> HIDE DEF P
  <1>3. Seq(Datagram) \subseteq P
    BY <1>1, <1>2, SeqInd
  <1> QED BY <1>3 DEF P, Z

(* What goes to some destinations and what goes to the others is all there *)
(* is.                                                                     *)
LEMMA SentToSplit ==
  ASSUME NEW s \in Seq(Datagram), NEW X, NEW Y, X \cap Y = {},
         Addrs \subseteq X \cup Y
  PROVE  Len(s) = Len(SentTo(s, X)) + Len(SentTo(s, Y))
  <1> DEFINE P == {q \in Seq(Datagram) : Len(q) = Len(SentTo(q, X)) + Len(SentTo(q, Y))}
  <1>1. << >> \in P
    BY SentToEmpty, Len(<< >>) = 0
  <1>2. ASSUME NEW q \in Seq(Datagram), NEW d \in Datagram, q \in P
        PROVE  Append(q, d) \in P
    <2> DEFINE a == Append(q, d)
               k == SentTo(q, X)
               l == SentTo(q, Y)
    <2>1. /\ k \in Seq(Datagram) /\ l \in Seq(Datagram) /\ a \in Seq(Datagram)
      BY SentToType
    <2>2. /\ d.dest \in X => SentTo(a, X) = Append(k, d)
          /\ d.dest \notin X => SentTo(a, X) = k
      BY SentToAppend
    <2>3. /\ d.dest \in Y => SentTo(a, Y) = Append(l, d)
          /\ d.dest \notin Y => SentTo(a, Y) = l
      BY SentToAppend
    <2>4. (d.dest \in X /\ d.dest \notin Y) \/ (d.dest \in Y /\ d.dest \notin X)
      BY DatagramType
    <2>5. /\ Len(k) \in Nat /\ Len(l) \in Nat /\ Len(q) \in Nat
          /\ Len(Append(k, d)) = Len(k) + 1 /\ Len(Append(l, d)) = Len(l) + 1
          /\ Len(a) = Len(q) + 1
      BY <2>1
    <2>6. Len(q) = Len(k) + Len(l)
      BY <1>2
    <2> HIDE DEF a, k, l
    <2>7. Len(a) = Len(SentTo(a, X)) + Len(SentTo(a, Y))
      <3>1. CASE d.dest \in X /\ d.dest \notin Y
        <4>1. Len(SentTo(a, X)) = Len(k) + 1 /\ Len(SentTo(a, Y)) = Len(l)
          BY <2>2, <2>3, <2>5, <3>1
        <4> QED BY <2>5, <2>6, <4>1
      <3>2. CASE d.dest \in Y /\ d.dest \notin X
        <4>1. Len(SentTo(a, X)) = Len(k) /\ Len(SentTo(a, Y)) = Len(l) + 1
          BY <2>2, <2>3, <2>5, <3>2
        <4> QED BY <2>5, <2>6, <4>1
      <3> QED BY <2>4, <3>1, <3>2
    <2> QED BY <2>1, <2>7 DEF a
  <1> HIDE DEF P
  <1>3. Seq(Datagram) \subseteq P
    BY <1>1, <1>2, SeqInd
  <1> QED BY <1>3 DEF P

-----------------------------------------------------------------------------
(* The bytes of a queue, by the same argument.                             *)
SumStep(queue, sum, n) == IF n = 0 THEN 0 ELSE sum[n - 1] + queue[n].len
IsSum(sum, queue, n) == sum = [i \in 0..n |-> SumStep(queue, sum, i)]
Sum(queue) == CHOOSE sum : IsSum(sum, queue, Len(queue))

(* There is such a sum for every prefix of a queue. *)
LEMMA SumExists ==
  ASSUME NEW queue
  PROVE  \A n \in Nat : \E sum : IsSum(sum, queue, n)
  <1> DEFINE N == {n \in Nat : \E sum : IsSum(sum, queue, n)}
  <1>1. 0 \in N
    <2> DEFINE f == [i \in 0..0 |-> 0]
    <2>1. f = [i \in 0..0 |-> SumStep(queue, f, i)]
      BY DEF SumStep
    <2> QED BY <2>1 DEF IsSum
  <1>2. ASSUME NEW n \in Nat, n \in N
        PROVE  n + 1 \in N
    <2>1. PICK g : IsSum(g, queue, n)
      BY <1>2
    <2> DEFINE f == [i \in 0..(n + 1) |-> IF i = n + 1 THEN SumStep(queue, g, i) ELSE g[i]]
    <2>2. \A i \in 0..n : g[i] = SumStep(queue, g, i)
      BY <2>1 DEF IsSum
    <2>3. \A i \in 0..n : f[i] = g[i]
      OBVIOUS
    <2>4. f[n + 1] = SumStep(queue, g, n + 1)
      OBVIOUS
    <2>5. f = [i \in 0..(n + 1) |-> f[i]]
      OBVIOUS
    <2> HIDE DEF f
    <2>6. \A i \in 0..(n + 1) : SumStep(queue, f, i) = SumStep(queue, g, i)
      <3> TAKE i \in 0..(n + 1)
      <3>1. i = 0 \/ i - 1 \in 0..n
        OBVIOUS
      <3> QED BY <2>3, <3>1 DEF SumStep
    <2>7. \A i \in 0..(n + 1) : f[i] = SumStep(queue, f, i)
      <3> TAKE i \in 0..(n + 1)
      <3>1. i \in 0..n \/ i = n + 1
        OBVIOUS
      <3> QED BY <2>2, <2>3, <2>4, <2>6, <3>1
    <2>8. f = [i \in 0..(n + 1) |-> SumStep(queue, f, i)]
      BY <2>5, <2>7
    <2> QED BY <2>8 DEF IsSum
  <1> HIDE DEF N
  <1>3. Nat \subseteq N
    BY <1>1, <1>2, NatInd
  <1> QED BY <1>3 DEF N

(* BytesOf is its value at the end of the queue. *)
LEMMA SumDef ==
  ASSUME NEW queue, Len(queue) \in Nat
  PROVE  /\ BytesOf(queue) = Sum(queue)[Len(queue)]
         /\ \A n \in 0..Len(queue) : Sum(queue)[n] = SumStep(queue, Sum(queue), n)
  <1>1. IsSum(Sum(queue), queue, Len(queue))
    BY SumExists DEF Sum
  <1>2. BytesOf(queue) = Sum(queue)[Len(queue)]
    BY Zenon DEF BytesOf, Sum, IsSum, SumStep
  <1> QED BY <1>1, <1>2 DEF IsSum

(* An empty queue has no bytes, ... *)
LEMMA BytesEmpty == BytesOf(<< >>) = 0
  BY SumDef, Len(<< >>) = 0 DEF SumStep

(* ... and a longer one those of its last datagram besides. *)
LEMMA BytesAppend ==
  ASSUME NEW s \in Seq(Datagram), NEW d \in Datagram
  PROVE  BytesOf(Append(s, d)) = BytesOf(s) + d.len
  <1> DEFINE t == Append(s, d)
             k == Sum(s)
             l == Sum(t)
             N == {n \in Nat : n <= Len(s) => k[n] = l[n]}
  <1>1. /\ t \in Seq(Datagram) /\ Len(s) \in Nat /\ Len(t) = Len(s) + 1
        /\ \A i \in 1..Len(s) : t[i] = s[i]
        /\ t[Len(s) + 1] = d
    OBVIOUS
  <1> HIDE DEF t
  <1>2. /\ BytesOf(s) = k[Len(s)]
        /\ \A n \in 0..Len(s) : k[n] = SumStep(s, k, n)
    BY <1>1, SumDef
  <1>3. /\ BytesOf(t) = l[Len(t)]
        /\ \A n \in 0..Len(t) : l[n] = SumStep(t, l, n)
    BY <1>1, SumDef
  <1> HIDE DEF k, l
  <1>4. 0 \in N
    BY <1>1, <1>2, <1>3 DEF SumStep
  <1>5. ASSUME NEW n \in Nat, n \in N
        PROVE  n + 1 \in N
    <2> SUFFICES ASSUME n + 1 <= Len(s)
                 PROVE  k[n + 1] = l[n + 1]
      OBVIOUS
    <2>1. k[n] = l[n]
      BY <1>1, <1>5
    <2>2. n + 1 \in 0..Len(s) /\ n + 1 \in 0..Len(t) /\ t[n + 1] = s[n + 1]
      BY <1>1
    <2>3. /\ n + 1 # 0 /\ (n + 1) - 1 = n
          /\ k[n + 1] = SumStep(s, k, n + 1)
          /\ l[n + 1] = SumStep(t, l, n + 1)
      BY <1>2, <1>3, <2>2
    <2> QED BY <2>1, <2>2, <2>3 DEF SumStep
  <1> HIDE DEF N
  <1>6. Nat \subseteq N
    BY <1>4, <1>5, NatInd
  <1>7. k[Len(s)] = l[Len(s)]
    BY <1>1, <1>6 DEF N
  <1>8. l[Len(t)] = SumStep(t, l, Len(t)) /\ Len(t) # 0 /\ Len(t) - 1 = Len(s)
    BY <1>1, <1>3
  <1>9. BytesOf(t) = BytesOf(s) + d.len
    BY <1>1, <1>2, <1>3, <1>7, <1>8 DEF SumStep
  <1> QED BY <1>9 DEF t

(* The bytes of two queues, one behind the other, are those of both. *)
LEMMA BytesConcat ==
  ASSUME NEW s \in Seq(Datagram), NEW t \in Seq(Datagram)
  PROVE  /\ BytesOf(s) \in Nat /\ BytesOf(t) \in Nat
         /\ BytesOf(s \o t) = BytesOf(s) + BytesOf(t)
  <1> DEFINE P == {q \in Seq(Datagram) : BytesOf(q) \in Nat}
             R == {q \in Seq(Datagram) : BytesOf(s \o q) = BytesOf(s) + BytesOf(q)}
  <1>1. << >> \in P
    BY BytesEmpty
  <1>2. ASSUME NEW q \in Seq(Datagram), NEW d \in Datagram, q \in P
        PROVE  Append(q, d) \in P
    BY <1>2, BytesAppend, DatagramType
  <1> HIDE DEF P
  <1>3. Seq(Datagram) \subseteq P
    BY <1>1, <1>2, SeqInd
  <1>4. \A q \in Seq(Datagram) : BytesOf(q) \in Nat
    BY <1>3 DEF P
  <1>5. << >> \in R
    BY <1>4, BytesEmpty
  <1>6. ASSUME NEW q \in Seq(Datagram), NEW d \in Datagram, q \in R
        PROVE  Append(q, d) \in R
    <2> DEFINE a == Append(q, d)
               r == s \o q
    <2>1. a \in Seq(Datagram) /\ r \in Seq(Datagram) /\ s \o a = Append(r, d)
      OBVIOUS
    <2>2. BytesOf(a) = BytesOf(q) + d.len
      BY BytesAppend
    <2>3. BytesOf(r) = BytesOf(s) + BytesOf(q)
      BY <1>6
    <2> HIDE DEF a, r
    <2>4. BytesOf(Append(r, d)) = BytesOf(r) + d.len
      BY <2>1, BytesAppend
    <2>5. BytesOf(s) \in Nat /\ BytesOf(q) \in Nat /\ d.len \in Nat
      BY <1>4, DatagramType
    <2>6. BytesOf(s \o a) = BytesOf(s) + BytesOf(a)
      BY <2>1, <2>2, <2>3, <2>4, <2>5
    <2> QED BY <2>1, <2>6 DEF a
  <1> HIDE DEF R
  <1>7. Seq(Datagram) \subseteq R
    BY <1>5, <1>6, SeqInd
  <1> QED BY <1>4, <1>7 DEF R

(* Taking the first datagram takes its bytes. *)
LEMMA BytesHead ==
  ASSUME NEW s \in Seq(Datagram), s # << >>
  PROVE  BytesOf(s) = Head(s).len + BytesOf(Tail(s))
  <1>1. /\ Head(s) \in Datagram /\ Tail(s) \in Seq(Datagram) /\ << Head(s) >> \in Seq(Datagram)
        /\ s = << Head(s) >> \o Tail(s) /\ Append(<< >>, Head(s)) = << Head(s) >>
        /\ << >> \in Seq(Datagram)
    OBVIOUS
  <1>2. BytesOf(<< Head(s) >>) = BytesOf(<< >>) + Head(s).len
    BY <1>1, BytesAppend
  <1>3. BytesOf(<< Head(s) >> \o Tail(s)) = BytesOf(<< Head(s) >>) + BytesOf(Tail(s))
    BY <1>1, BytesConcat
  <1>4. Head(s).len \in Nat /\ BytesOf(<< Head(s) >>) = Head(s).len
    BY <1>1, <1>2, BytesEmpty, DatagramType
  <1>5. BytesOf(s) = BytesOf(<< Head(s) >> \o Tail(s))
    BY <1>1
  <1> QED BY <1>3, <1>4, <1>5

-----------------------------------------------------------------------------
(* The pending list, in the order in which it is to be delivered.          *)
Sorted(queue) == \A i, j \in 1..Len(queue) : i < j => Before(queue[i], queue[j])

(* What is to be received is in that order, except that a datagram may be  *)
(* before one that was sent after the clock was set back; back says after  *)
(* how many sends this was.                                                *)
Between(x, y, back) == \E n \in back : x.data <= n /\ n < y.data
InTurn(x, y, back) == Before(x, y) \/ Between(x, y, back)
Ordered(queue, back) == \A i, j \in 1..Len(queue) : i < j => InTurn(queue[i], queue[j], back)

(* A datagram was due at the time now, or before the clock was set back.   *)
WasDue(d, now, back) == d.at <= now \/ \E n \in back : d.data <= n

(* The elements of a sequence, by their places. *)
LEMMA RangeIs ==
  ASSUME NEW s \in Seq(Datagram)
  PROVE  Range(s) = {s[i] : i \in 1..Len(s)} /\ Range(s) \subseteq Datagram
  BY DEF Range

(* The elements of two sequences, one behind the other. *)
LEMMA RangeConcat ==
  ASSUME NEW s \in Seq(Datagram), NEW t \in Seq(Datagram)
  PROVE  Range(s \o t) = Range(s) \cup Range(t)
  <1> DEFINE u == s \o t
  <1>1. /\ u \in Seq(Datagram) /\ Len(s) \in Nat /\ Len(t) \in Nat /\ Len(u) = Len(s) + Len(t)
        /\ \A i \in 1..Len(s) : u[i] = s[i]
        /\ \A i \in 1..Len(t) : u[Len(s) + i] = t[i]
        /\ \A i \in 1..Len(u) : i \notin 1..Len(s) => i - Len(s) \in 1..Len(t)
    OBVIOUS
  <1> HIDE DEF u
  <1>2. /\ Range(s) = {s[i] : i \in 1..Len(s)} /\ Range(t) = {t[i] : i \in 1..Len(t)}
        /\ Range(u) = {u[i] : i \in 1..Len(u)}
    BY <1>1, RangeIs
  <1>3. Range(u) \subseteq Range(s) \cup Range(t)
    <2> SUFFICES ASSUME NEW i \in 1..Len(u)
                 PROVE  u[i] \in Range(s) \cup Range(t)
      BY <1>2
    <2>1. CASE i \in 1..Len(s)
      BY <1>1, <1>2, <2>1
    <2>2. CASE i \notin 1..Len(s)
      <3>1. i - Len(s) \in 1..Len(t) /\ Len(s) + (i - Len(s)) = i
        BY <1>1, <2>2
      <3>2. u[i] = t[i - Len(s)]
        BY <1>1, <3>1
      <3> QED BY <1>2, <3>1, <3>2
    <2> QED BY <2>1, <2>2
  <1>4. Range(s) \subseteq Range(u)
    BY <1>1, <1>2
  <1>5. Range(t) \subseteq Range(u)
    <2> SUFFICES ASSUME NEW i \in 1..Len(t)
                 PROVE  t[i] \in Range(u)
      BY <1>2
    <2>1. Len(s) + i \in 1..Len(u) /\ u[Len(s) + i] = t[i]
      BY <1>1
    <2> QED BY <1>2, <2>1
  <1> QED BY <1>3, <1>4, <1>5 DEF u

(* Two sequences in order make one if all of the first comes in turn       *)
(* before all of the second. *)
LEMMA OrderedConcat ==
  ASSUME NEW s \in Seq(Datagram), NEW t \in Seq(Datagram), NEW back
  PROVE  Ordered(s \o t, back)
           <=> /\ Ordered(s, back) /\ Ordered(t, back)
               /\ \A x \in Range(s), y \in Range(t) : InTurn(x, y, back)
  <1> DEFINE u == s \o t
             m == Len(s)
  <1>1. /\ u \in Seq(Datagram) /\ m \in Nat /\ Len(t) \in Nat /\ Len(u) = m + Len(t)
        /\ \A i \in 1..m : u[i] = s[i]
        /\ \A i \in 1..Len(t) : u[m + i] = t[i]
        /\ \A i \in 1..Len(u) : i \notin 1..m => i - m \in 1..Len(t) /\ m + (i - m) = i
    OBVIOUS
  <1>2. Range(s) = {s[i] : i \in 1..m} /\ Range(t) = {t[i] : i \in 1..Len(t)}
    BY DEF Range
  <1> HIDE DEF u, m
  <1>3. ASSUME Ordered(u, back)
        PROVE  /\ Ordered(s, back) /\ Ordered(t, back)
               /\ \A x \in Range(s), y \in Range(t) : InTurn(x, y, back)
    <2>1. ASSUME NEW i \in 1..m, NEW j \in 1..m, i < j
          PROVE  InTurn(s[i], s[j], back)
      <3>1. i \in 1..Len(u) /\ j \in 1..Len(u) /\ u[i] = s[i] /\ u[j] = s[j]
        BY <1>1
      <3> QED BY <1>3, <2>1, <3>1 DEF Ordered
    <2>2. ASSUME NEW i \in 1..Len(t), NEW j \in 1..Len(t), i < j
          PROVE  InTurn(t[i], t[j], back)
      <3>1. /\ m + i \in 1..Len(u) /\ m + j \in 1..Len(u) /\ m + i < m + j
            /\ u[m + i] = t[i] /\ u[m + j] = t[j]
        BY <1>1, <2>2
      <3> QED BY <1>3, <3>1 DEF Ordered
    <2>3. ASSUME NEW i \in 1..m, NEW j \in 1..Len(t)
          PROVE  InTurn(s[i], t[j], back)
      <3>1. /\ i \in 1..Len(u) /\ m + j \in 1..Len(u) /\ i < m + j
            /\ u[i] = s[i] /\ u[m + j] = t[j]
        BY <1>1
      <3> QED BY <1>3, <3>1 DEF Ordered
    <2> QED BY <1>2, <2>1, <2>2, <2>3 DEF Ordered, m
  <1>4. ASSUME Ordered(s, back), Ordered(t, back), \A x \in Range(s), y \in Range(t) : InTurn(x, y, back)
        PROVE  Ordered(u, back)
    <2> SUFFICES ASSUME NEW i \in 1..Len(u), NEW j \in 1..Len(u), i < j
                 PROVE  InTurn(u[i], u[j], back)
      BY DEF Ordered
    <2>1. CASE i \in 1..m /\ j \in 1..m
      BY <1>1, <1>4, <2>1 DEF Ordered, m
    <2>2. CASE i \in 1..m /\ j \notin 1..m
      <3>1. j - m \in 1..Len(t) /\ u[j] = t[j - m] /\ u[i] = s[i]
        BY <1>1, <2>2
      <3>2. s[i] \in Range(s) /\ t[j - m] \in Range(t)
        BY <1>2, <2>2, <3>1
      <3> QED BY <1>4, <3>1, <3>2
    <2>3. CASE i \notin 1..m
      <3>1. j \notin 1..m
        BY <1>1, <2>3
      <3>2. /\ i - m \in 1..Len(t) /\ m + (i - m) = i
            /\ j - m \in 1..Len(t) /\ m + (j - m) = j
        BY <1>1, <2>3, <3>1
      <3>3. u[m + (i - m)] = t[i - m] /\ u[m + (j - m)] = t[j - m]
        BY <1>1, <3>2
      <3>4. i - m < j - m
        BY <1>1
      <3> QED BY <1>4, <3>2, <3>3, <3>4 DEF Ordered
    <2> QED BY <2>1, <2>2, <2>3
  <1> QED BY <1>3, <1>4 DEF u

(* Where the clock was never set back, in order is sorted; and what is     *)
(* sorted is in order whenever it was set back. *)
LEMMA SortedIs ==
  /\ \A s : Sorted(s) <=> Ordered(s, {})
  /\ \A x, y : Before(x, y) <=> InTurn(x, y, {})
  /\ \A s, back : Sorted(s) => Ordered(s, back)
  BY DEF Sorted, Ordered, InTurn, Between

(* Two sorted sequences make one if all of the first comes before all of   *)
(* the second. *)
LEMMA SortedConcat ==
  ASSUME NEW s \in Seq(Datagram), NEW t \in Seq(Datagram)
  PROVE  Sorted(s \o t)
           <=> /\ Sorted(s) /\ Sorted(t)
               /\ \A x \in Range(s), y \in Range(t) : Before(x, y)
  <1>1. Ordered(s \o t, {})
          <=> /\ Ordered(s, {}) /\ Ordered(t, {})
              /\ \A x \in Range(s), y \in Range(t) : InTurn(x, y, {})
    BY OrderedConcat
  <1>2. Sorted(s \o t) <=> Ordered(s \o t, {})
    BY SortedIs, Zenon
  <1>3. /\ Sorted(s) <=> Ordered(s, {})
        /\ Sorted(t) <=> Ordered(t, {})
    BY SortedIs, Zenon
  <1>4. \A x, y : Before(x, y) <=> InTurn(x, y, {})
    BY SortedIs
  <1> QED BY <1>1, <1>2, <1>3, <1>4, Zenon

(* One datagram is sorted. *)
LEMMA SortedOne ==
  ASSUME NEW d \in Datagram
  PROVE  /\ << d >> \in Seq(Datagram) /\ Sorted(<< d >>) /\ Range(<< d >>) = {d}
         /\ \A s \in Seq(Datagram) : Append(s, d) = s \o << d >>
  BY DEF Sorted, Range

(* What is kept of a sorted queue is sorted. *)
LEMMA SentToSorted ==
  ASSUME NEW s \in Seq(Datagram), NEW X, Sorted(s)
  PROVE  Sorted(SentTo(s, X))
  <1> DEFINE P == {q \in Seq(Datagram) : Sorted(q) => Sorted(SentTo(q, X))}
  <1>1. << >> \in P
    BY SentToEmpty
  <1>2. ASSUME NEW q \in Seq(Datagram), NEW d \in Datagram, q \in P
        PROVE  Append(q, d) \in P
    <2> DEFINE a == Append(q, d)
               k == SentTo(q, X)
    <2>1. /\ a \in Seq(Datagram) /\ k \in Seq(Datagram)
          /\ Range(k) = {x \in Range(q) : x.dest \in X}
      BY SentToType
    <2>2. a = q \o << d >> /\ Append(k, d) = k \o << d >>
      BY <2>1, SortedOne
    <2>3. /\ d.dest \in X => SentTo(a, X) = Append(k, d)
          /\ d.dest \notin X => SentTo(a, X) = k
      BY SentToAppend
    <2>4. Sorted(q) => Sorted(k)
      BY <1>2
    <2> HIDE DEF a, k
    <2> DEFINE e == << d >>
    <2>5. e \in Seq(Datagram) /\ Range(e) = {d} /\ Sorted(e)
      BY SortedOne
    <2>6. a = q \o e /\ Append(k, d) = k \o e
      BY <2>2
    <2> HIDE DEF e
    <2>7. ASSUME Sorted(a) PROVE Sorted(SentTo(a, X))
      <3>1. Sorted(q) /\ \A x \in Range(q) : Before(x, d)
        BY <2>5, <2>6, <2>7, SortedConcat
      <3>2. Sorted(k) /\ \A x \in Range(k) : Before(x, d)
        BY <2>1, <2>4, <3>1
      <3>3. \A x \in Range(k), y \in Range(e) : Before(x, y)
        BY <2>5, <3>2
      <3>4. Sorted(k \o e)
        BY <2>1, <2>5, <3>2, <3>3, SortedConcat
      <3> QED BY <2>3, <2>6, <3>2, <3>4
    <2> QED BY <2>1, <2>7 DEF a
  <1> HIDE DEF P
  <1>3. Seq(Datagram) \subseteq P
    BY <1>1, <1>2, SeqInd
  <1> QED BY <1>3 DEF P

(* Due counts the datagrams up to the first that is not due. *)
LEMMA DueIs ==
  ASSUME NEW q \in Seq(Datagram), NEW t \in Nat
  PROVE  /\ Due(q, t) \in 0..Len(q)
         /\ \A i \in 1..Due(q, t) : q[i].at <= t
         /\ Due(q, t) < Len(q) => q[Due(q, t) + 1].at > t
  <1> DEFINE S == {n \in 0..Len(q) : n < Len(q) => q[n + 1].at > t}
             Stops(n) == /\ \A i \in 1..n : q[i].at <= t
                         /\ n < Len(q) => q[n + 1].at > t
  <1>1. Len(q) \in Nat /\ \A i \in 1..Len(q) : q[i].at \in Nat
    BY DatagramType
  <1>2. S \in SUBSET Nat /\ S # {}
    <2>1. Len(q) \in S
      BY <1>1
    <2> QED BY <1>1, <2>1
  <1> HIDE DEF S
  <1>3. PICK n \in S : \A m \in S : n <= m
    BY <1>2, Least
  <1>4. n \in 0..Len(q) /\ (n < Len(q) => q[n + 1].at > t)
    BY DEF S
  <1>5. ASSUME NEW i \in 1..n PROVE q[i].at <= t
    <2>1. i - 1 \in 0..Len(q) /\ i - 1 < n /\ i - 1 < Len(q) /\ (i - 1) + 1 = i
          /\ i \in 1..Len(q)
      BY <1>1, <1>4
    <2>2. i - 1 \notin S
      BY <1>3, <1>4, <2>1
    <2>3. ~ (q[i].at > t)
      BY <2>1, <2>2 DEF S
    <2> QED BY <1>1, <2>1, <2>3
  <1>6. \E m \in 0..Len(q) : Stops(m)
    BY <1>4, <1>5
  <1>7. Due(q, t) = CHOOSE m \in 0..Len(q) : Stops(m)
    BY DEF Due
  <1> HIDE DEF Stops
  <1>8. Due(q, t) \in 0..Len(q) /\ Stops(Due(q, t))
    BY <1>6, <1>7
  <1> QED BY <1>8 DEF Stops

(* A sequence is its front and its rest. *)
LEMMA SplitAt ==
  ASSUME NEW q \in Seq(Datagram), NEW n \in 0..Len(q)
  PROVE  /\ SubSeq(q, 1, n) \in Seq(Datagram) /\ Len(SubSeq(q, 1, n)) = n
         /\ \A i \in 1..n : SubSeq(q, 1, n)[i] = q[i]
         /\ SubSeq(q, n + 1, Len(q)) \in Seq(Datagram)
         /\ Len(SubSeq(q, n + 1, Len(q))) = Len(q) - n
         /\ \A i \in 1..(Len(q) - n) : SubSeq(q, n + 1, Len(q))[i] = q[n + i]
         /\ q = SubSeq(q, 1, n) \o SubSeq(q, n + 1, Len(q))
  <1> DEFINE l == SubSeq(q, 1, n)
             r == SubSeq(q, n + 1, Len(q))
  <1>1. Len(q) \in Nat
    OBVIOUS
  <1>2. l \in Seq(Datagram) /\ Len(l) = n /\ \A i \in 1..n : l[i] = q[i]
    BY <1>1
  <1>3. r \in Seq(Datagram) /\ Len(r) = Len(q) - n
    <2>1. n + 1 \in Nat /\ Len(q) - (n + 1) + 1 = Len(q) - n /\ Len(q) - n \in Nat
      BY <1>1
    <2>2. r \in Seq(Datagram)
      BY <1>1
    <2>3. CASE n = Len(q)
      BY <1>1, <2>3
    <2>4. CASE n < Len(q)
      <3>1. n + 1 <= Len(q)
        BY <1>1, <2>4
      <3>2. Len(r) = Len(q) - (n + 1) + 1
        BY <1>1, <3>1
      <3> QED BY <2>1, <2>2, <3>2
    <2> QED BY <1>1, <2>2, <2>3, <2>4
  <1>4. \A i \in 1..(Len(q) - n) : r[i] = q[n + i]
    BY <1>1
  <1> HIDE DEF l, r
  <1>5. \A i \in 1..Len(q) : (l \o r)[i] = q[i]
    <2> TAKE i \in 1..Len(q)
    <2>1. CASE i \in 1..n
      BY <1>2, <1>3, <2>1
    <2>2. CASE i \notin 1..n
      <3>1. i - n \in 1..(Len(q) - n) /\ n + (i - n) = i
        BY <1>1, <2>2
      <3>2. (l \o r)[i] = r[i - n]
        BY <1>1, <1>2, <1>3, <2>2
      <3>3. r[i - n] = q[n + (i - n)]
        BY <1>4, <3>1
      <3> QED BY <3>1, <3>2, <3>3
    <2> QED BY <2>1, <2>2
  <1>6. l \o r \in Seq(Datagram) /\ Len(l \o r) = Len(q)
    <2>1. Len(l \o r) = Len(l) + Len(r) /\ l \o r \in Seq(Datagram)
      BY <1>2, <1>3
    <2> QED BY <1>1, <1>2, <1>3, <2>1
  <1> DEFINE c == l \o r
  <1> HIDE DEF c
  <1>7. c \in Seq(Datagram) /\ Len(c) = Len(q) /\ \A i \in 1..Len(q) : c[i] = q[i]
    BY <1>5, <1>6 DEF c
  <1>8. q = c
    BY <1>7
  <1> QED BY <1>2, <1>3, <1>4, <1>8 DEF c, l, r

(* A new datagram goes behind those due no later, and in front of one that *)
(* is due later.                                                           *)
LEMMA InsertSplits ==
  ASSUME NEW q \in Seq(Datagram), NEW d \in Datagram
  PROVE  \E l, r \in Seq(Datagram) :
           /\ q = l \o r
           /\ PendingInsert(q, d) = (l \o << d >>) \o r
           /\ \A x \in Range(l) : x.at <= d.at
           /\ r # << >> => Head(r).at > d.at
  <1> DEFINE n == Due(q, d.at)
             l == SubSeq(q, 1, n)
             r == SubSeq(q, n + 1, Len(q))
  <1>1. d.at \in Nat /\ Len(q) \in Nat
    BY DatagramType
  <1>2. /\ n \in 0..Len(q)
        /\ \A i \in 1..n : q[i].at <= d.at
        /\ n < Len(q) => q[n + 1].at > d.at
    BY <1>1, DueIs
  <1> HIDE DEF n
  <1>3. /\ l \in Seq(Datagram) /\ Len(l) = n /\ \A i \in 1..n : l[i] = q[i]
        /\ r \in Seq(Datagram) /\ Len(r) = Len(q) - n
        /\ \A i \in 1..(Len(q) - n) : r[i] = q[n + i]
    BY <1>2, SplitAt
  <1>5. q = l \o r
    BY <1>2, SplitAt
  <1>6. PendingInsert(q, d) = (l \o << d >>) \o r
    BY DEF PendingInsert, n
  <1> HIDE DEF l, r
  <1>4. r # << >> => n < Len(q) /\ Head(r) = q[n + 1]
    <2> SUFFICES ASSUME r # << >> PROVE n < Len(q) /\ Head(r) = q[n + 1]
      OBVIOUS
    <2>1. Len(r) # 0 /\ Head(r) = r[1]
      BY <1>3
    <2>2. 1 \in 1..(Len(q) - n)
      BY <1>1, <1>2, <1>3, <2>1
    <2> QED BY <1>1, <1>2, <1>3, <2>1, <2>2
  <1>7. \A x \in Range(l) : x.at <= d.at
    BY <1>2, <1>3, RangeIs
  <1>8. r # << >> => Head(r).at > d.at
    BY <1>2, <1>4
  <1> QED BY <1>3, <1>5, <1>6, <1>7, <1>8

(* What is kept of one datagram. *)
LEMMA SentToOne ==
  ASSUME NEW d \in Datagram, NEW X
  PROVE  SentTo(<< d >>, X) = IF d.dest \in X THEN << d >> ELSE << >>
  <1>1. << >> \in Seq(Datagram) /\ Append(<< >>, d) = << d >>
    OBVIOUS
  <1>2. /\ d.dest \in X => SentTo(Append(<< >>, d), X) = Append(SentTo(<< >>, X), d)
        /\ d.dest \notin X => SentTo(Append(<< >>, d), X) = SentTo(<< >>, X)
    BY <1>1, SentToAppend
  <1> QED BY <1>1, <1>2, SentToEmpty

(* What the lemmas say of queues, for proofs that need not know that these *)
(* are sequences.                                                          *)
Queue == Seq(Datagram)

(* The empty queue is one ... *)
LEMMA QueueEmpty == << >> \in Queue
  BY DEF Queue

(* ... and so is one datagram; its elements, its bytes and what is kept.   *)
LEMMA QueueOne ==
  ASSUME NEW d \in Datagram
  PROVE  /\ << d >> \in Queue /\ Sorted(<< d >>) /\ Range(<< d >>) = {d}
         /\ BytesOf(<< d >>) = d.len
         /\ \A X : SentTo(<< d >>, X) = IF d.dest \in X THEN << d >> ELSE << >>
  <1>1. << d >> \in Queue /\ Sorted(<< d >>) /\ Range(<< d >>) = {d}
    BY SortedOne DEF Queue
  <1>2. BytesOf(<< d >>) = d.len
    <2>1. << >> \in Seq(Datagram) /\ Append(<< >>, d) = << d >> /\ d.len \in Nat
      BY DatagramType
    <2>2. BytesOf(Append(<< >>, d)) = BytesOf(<< >>) + d.len
      BY <2>1, BytesAppend
    <2> QED BY <2>1, <2>2, BytesEmpty
  <1> QED BY <1>1, <1>2, SentToOne

(* One queue behind another: elements, bytes and what is kept add up.      *)
LEMMA QueueConcat ==
  ASSUME NEW s \in Queue, NEW t \in Queue
  PROVE  /\ s \o t \in Queue
         /\ Range(s \o t) = Range(s) \cup Range(t)
         /\ BytesOf(s \o t) = BytesOf(s) + BytesOf(t)
         /\ \A X : SentTo(s \o t, X) = SentTo(s, X) \o SentTo(t, X)
  <1>1. s \in Seq(Datagram) /\ t \in Seq(Datagram)
    BY DEF Queue
  <1>2. s \o t \in Queue
    BY <1>1 DEF Queue
  <1>3. Range(s \o t) = Range(s) \cup Range(t)
    BY <1>1, RangeConcat
  <1>4. BytesOf(s \o t) = BytesOf(s) + BytesOf(t)
    BY <1>1, BytesConcat
  <1>5. \A X : SentTo(s \o t, X) = SentTo(s, X) \o SentTo(t, X)
    BY <1>1, SentToConcat
  <1> QED BY <1>2, <1>3, <1>4, <1>5

(* What is kept of a queue is a queue. *)
LEMMA QueueKept ==
  ASSUME NEW s \in Queue
  PROVE  /\ BytesOf(s) \in Nat /\ Len(s) \in Nat /\ Range(s) \subseteq Datagram
         /\ s \o << >> = s /\ << >> \o s = s
         /\ \A X : /\ SentTo(s, X) \in Queue
                  /\ Range(SentTo(s, X)) = {d \in Range(s) : d.dest \in X}
  <1>1. s \in Seq(Datagram)
    BY DEF Queue
  <1>2. BytesOf(s) \in Nat
    BY <1>1, BytesConcat
  <1>3. Len(s) \in Nat /\ s \o << >> = s /\ << >> \o s = s
    BY <1>1
  <1>4. Range(s) \subseteq Datagram
    BY <1>1, RangeIs
  <1>5. \A X : /\ SentTo(s, X) \in Queue
              /\ Range(SentTo(s, X)) = {d \in Range(s) : d.dest \in X}
    BY <1>1, SentToType DEF Queue
  <1> QED BY <1>2, <1>3, <1>4, <1>5

(* Two queues are sorted together when all of one is before all of the     *)
(* other. *)
LEMMA QueueSorted ==
  ASSUME NEW s \in Queue, NEW t \in Queue
  PROVE  Sorted(s \o t)
           <=> /\ Sorted(s) /\ Sorted(t)
               /\ \A x \in Range(s), y \in Range(t) : Before(x, y)
  <1>1. s \in Seq(Datagram) /\ t \in Seq(Datagram)
    BY DEF Queue
  <1> QED BY <1>1, SortedConcat

(* Two queues are in order together when all of one is in turn before all  *)
(* of the other. *)
LEMMA QueueOrdered ==
  ASSUME NEW s \in Queue, NEW t \in Queue, NEW back
  PROVE  Ordered(s \o t, back)
           <=> /\ Ordered(s, back) /\ Ordered(t, back)
               /\ \A x \in Range(s), y \in Range(t) : InTurn(x, y, back)
  <1>1. s \in Seq(Datagram) /\ t \in Seq(Datagram)
    BY DEF Queue
  <1> QED BY <1>1, OrderedConcat

(* Joining queues is associative. *)
LEMMA QueueAssociates ==
  ASSUME NEW s \in Queue, NEW t \in Queue, NEW u \in Queue
  PROVE  (s \o t) \o u = s \o (t \o u)
  BY DEF Queue


(* PendingInsert puts one datagram more in the list, for its destination   *)
(* and for nobody else, ...                                                *)
LEMMA InsertAdds ==
  ASSUME NEW q \in Queue, NEW d \in Datagram
  PROVE  /\ PendingInsert(q, d) \in Queue
         /\ Len(PendingInsert(q, d)) = Len(q) + 1
         /\ Range(PendingInsert(q, d)) = Range(q) \cup {d}
         /\ \A X : d.dest \notin X => SentTo(PendingInsert(q, d), X) = SentTo(q, X)
         /\ \A X : d.dest \in X => BytesOf(SentTo(PendingInsert(q, d), X))
                                     = BytesOf(SentTo(q, X)) + d.len
  <1> DEFINE e == << d >>
             p == PendingInsert(q, d)
  <1>1. PICK l \in Queue, r \in Queue :
           /\ q = l \o r
           /\ p = (l \o e) \o r
           /\ \A x \in Range(l) : x.at <= d.at
           /\ r # << >> => Head(r).at > d.at
    BY InsertSplits DEF Queue
  <1> DEFINE m == l \o e
  <1>2. Len(p) = Len(q) + 1
    <2>1. l \in Seq(Datagram) /\ r \in Seq(Datagram) /\ e \in Seq(Datagram) /\ Len(e) = 1
      BY DEF Queue
    <2>2. Len(m) = Len(l) + 1 /\ m \in Seq(Datagram) /\ Len(q) = Len(l) + Len(r)
      BY <1>1, <2>1
    <2> HIDE DEF m
    <2>3. Len(m \o r) = Len(m) + Len(r) /\ Len(l) \in Nat /\ Len(r) \in Nat
      BY <2>1, <2>2
    <2> QED BY <1>1, <2>2, <2>3 DEF m
  <1>3. /\ e \in Queue /\ Range(e) = {d} /\ BytesOf(e) = d.len
        /\ \A X : SentTo(e, X) = IF d.dest \in X THEN e ELSE << >>
    BY QueueOne
  <1> HIDE DEF e
  <1>4. /\ m \in Queue /\ Range(m) = Range(l) \cup {d}
        /\ \A X : SentTo(m, X) = SentTo(l, X) \o SentTo(e, X)
    BY <1>3, QueueConcat
  <1>5. /\ Range(q) = Range(l) \cup Range(r)
        /\ \A X : SentTo(q, X) = SentTo(l, X) \o SentTo(r, X)
    BY <1>1, QueueConcat
  <1> HIDE DEF m, p
  <1>6. /\ p \in Queue /\ Range(p) = Range(m) \cup Range(r)
        /\ \A X : SentTo(p, X) = SentTo(m, X) \o SentTo(r, X)
    <2>1. p = m \o r
      BY <1>1 DEF m
    <2> QED BY <1>4, <2>1, QueueConcat
  <1>7. Range(p) = Range(q) \cup {d}
    BY <1>4, <1>5, <1>6
  <1>8. ASSUME NEW X, d.dest \notin X
        PROVE  SentTo(p, X) = SentTo(q, X)
    <2>1. SentTo(l, X) \o << >> = SentTo(l, X)
      BY QueueKept
    <2>2. SentTo(m, X) = SentTo(l, X)
      BY <1>3, <1>4, <1>8, <2>1
    <2> QED BY <1>5, <1>6, <2>2
  <1>9. ASSUME NEW X, d.dest \in X
        PROVE  BytesOf(SentTo(p, X)) = BytesOf(SentTo(q, X)) + d.len
    <2>1. /\ SentTo(l, X) \in Queue /\ SentTo(r, X) \in Queue /\ SentTo(m, X) \in Queue
          /\ BytesOf(SentTo(l, X)) \in Nat /\ BytesOf(SentTo(r, X)) \in Nat
          /\ d.len \in Nat
      BY <1>4, QueueKept, DatagramType
    <2>2. SentTo(m, X) = SentTo(l, X) \o e
      BY <1>3, <1>4, <1>9
    <2>3. BytesOf(SentTo(m, X)) = BytesOf(SentTo(l, X)) + d.len
      BY <1>3, <2>1, <2>2, QueueConcat
    <2>4. BytesOf(SentTo(p, X)) = BytesOf(SentTo(m, X)) + BytesOf(SentTo(r, X))
      BY <1>6, <2>1, QueueConcat
    <2>5. BytesOf(SentTo(q, X)) = BytesOf(SentTo(l, X)) + BytesOf(SentTo(r, X))
      BY <1>5, <2>1, QueueConcat
    <2> QED BY <2>1, <2>3, <2>4, <2>5
  <1> QED BY <1>2, <1>6, <1>7, <1>8, <1>9 DEF p

(* ... and the list stays sorted when the new datagram is the last sent. *)
LEMMA InsertSorted ==
  ASSUME NEW q \in Queue, NEW d \in Datagram,
         Sorted(q), \A x \in Range(q) : x.data <= d.data
  PROVE  Sorted(PendingInsert(q, d))
  <1> DEFINE e == << d >>
             p == PendingInsert(q, d)
  <1>1. PICK l \in Queue, r \in Queue :
           /\ q = l \o r
           /\ p = (l \o e) \o r
           /\ \A x \in Range(l) : x.at <= d.at
           /\ r # << >> => Head(r).at > d.at
    BY InsertSplits DEF Queue
  <1> DEFINE m == l \o e
  <1>2. e \in Queue /\ Range(e) = {d} /\ Sorted(e)
    BY QueueOne
  <1> HIDE DEF e, p
  <1>3. /\ Sorted(l) /\ Sorted(r)
        /\ \A x \in Range(l), y \in Range(r) : Before(x, y)
    BY <1>1, QueueSorted
  <1>4. /\ Range(q) = Range(l) \cup Range(r)
        /\ Range(l) \subseteq Datagram /\ Range(r) \subseteq Datagram
    BY <1>1, QueueConcat, QueueKept
  <1>5. \A x \in Range(l) : Before(x, d)
    <2> TAKE x \in Range(l)
    <2>1. x.at \in Nat /\ d.at \in Nat /\ x.at <= d.at /\ x.data <= d.data
      BY <1>1, <1>4, DatagramType
    <2> QED BY <2>1 DEF Before
  <1>6. \A y \in Range(r) : Before(d, y)
    <2> TAKE y \in Range(r)
    <2>0. r \in Seq(Datagram)
      BY DEF Queue
    <2>1. PICK j \in 1..Len(r) : y = r[j]
      BY <2>0, RangeIs
    <2>2. r # << >> /\ Head(r) = r[1] /\ 1 \in 1..Len(r) /\ r[1] \in Datagram /\ y \in Datagram
      BY <2>0, <2>1
    <2>3. r[1].at \in Nat /\ y.at \in Nat /\ d.at \in Nat /\ r[1].at > d.at
      BY <1>1, <2>2, DatagramType
    <2>4. j = 1 \/ 1 < j
      BY <2>1
    <2>5. CASE j = 1
      BY <2>1, <2>3, <2>5 DEF Before
    <2>6. CASE 1 < j
      <3>1. Before(r[1], y)
        BY <1>3, <2>1, <2>2, <2>6 DEF Sorted
      <3> QED BY <2>3, <3>1 DEF Before
    <2> QED BY <2>4, <2>5, <2>6
  <1>7. m \in Queue /\ Range(m) = Range(l) \cup {d}
    BY <1>2, QueueConcat
  <1>8. Sorted(m)
    BY <1>2, <1>3, <1>5, QueueSorted
  <1>9. \A x \in Range(m), y \in Range(r) : Before(x, y)
    BY <1>3, <1>6, <1>7
  <1> HIDE DEF m
  <1>10. Sorted(m \o r)
    BY <1>3, <1>7, <1>8, <1>9, QueueSorted
  <1> QED BY <1>1, <1>10 DEF m, p

-----------------------------------------------------------------------------
(* The invariant of the pending list and the endpoints, after sent sends,  *)
(* at the time now of a clock that was set back after as many sends as     *)
(* back says: the list is sorted; what is in it goes to an endpoint that   *)
(* was bound before it was sent; and of each endpoint the bytes are        *)
(* counted, what is ready is its own and was due, and what it is to        *)
(* receive is in order.                                                    *)
EndpointFine(queue, e, a, sent, now, back) ==
  /\ e.since <= sent
  /\ e.bytes = BytesOf(To(queue, a) \o e.ready)
  /\ \A d \in Range(e.ready) :
       d.dest = a /\ d.data > e.since /\ d.data <= sent /\ WasDue(d, now, back)
  /\ Ordered(e.ready \o To(queue, a), back)

Fine(queue, eps, sent, now, back) ==
  /\ queue \in Queue /\ sent \in 0..MaxSends /\ now \in Nat /\ back \subseteq 0..sent
  /\ DOMAIN eps \subseteq Addrs /\ eps \in [DOMAIN eps -> Endpoint]
  /\ Sorted(queue)
  /\ \A d \in Range(queue) :
       d.dest \in DOMAIN eps /\ d.data > eps[d.dest].since /\ d.data <= sent
  /\ \A a \in DOMAIN eps : EndpointFine(queue, eps[a], a, sent, now, back)

(* The fields of an endpoint. *)
LEMMA EndpointType ==
  /\ \A e \in Endpoint : e.ready \in Queue /\ e.bytes \in Nat /\ e.since \in 0..MaxSends
  /\ \A q \in Queue, b \in Nat, n \in 0..MaxSends :
       [ready |-> q, bytes |-> b, since |-> n] \in Endpoint
  BY DEF Endpoint, Queue

(* Changing some fields of an endpoint keeps the others. *)
LEMMA EndpointExcept ==
  ASSUME NEW e \in Endpoint, NEW q, NEW b
  PROVE  /\ [e EXCEPT !.ready = q] = [ready |-> q, bytes |-> e.bytes, since |-> e.since]
         /\ [e EXCEPT !.bytes = b] = [ready |-> e.ready, bytes |-> b, since |-> e.since]
         /\ [e EXCEPT !.ready = q, !.bytes = b] = [ready |-> q, bytes |-> b, since |-> e.since]
  <1>1. [e EXCEPT !.ready = q] = [ready |-> q, bytes |-> e.bytes, since |-> e.since]
    BY DEF Endpoint
  <1>2. [e EXCEPT !.bytes = b] = [ready |-> e.ready, bytes |-> b, since |-> e.since]
    BY DEF Endpoint
  <1>3. [e EXCEPT !.ready = q, !.bytes = b] = [ready |-> q, bytes |-> b, since |-> e.since]
    <2> DEFINE f == [e EXCEPT !.ready = q]
    <2>1. [e EXCEPT !.ready = q, !.bytes = b] = [f EXCEPT !.bytes = b]
      BY Zenon
    <2>2. f = [ready |-> q, bytes |-> e.bytes, since |-> e.since]
      BY <1>1
    <2> HIDE DEF f
    <2>3. [f EXCEPT !.bytes = b] = [ready |-> q, bytes |-> b, since |-> e.since]
      BY <2>2
    <2> QED BY <2>1, <2>3
  <1> QED BY <1>1, <1>2, <1>3

(* It holds of the empty net. *)
LEMMA FineEmpty ==
  ASSUME NEW now \in Nat
  PROVE  Fine(<< >>, << >>, 0, now, {})
  <1>1. DOMAIN << >> = {} /\ << >> \in [{} -> Endpoint]
    OBVIOUS
  <1>2. Sorted(<< >>) /\ Range(<< >>) = {}
    BY DEF Sorted, Range
  <1>3. 0 \in 0..MaxSends
    BY BoundsAssumption
  <1> QED BY <1>1, <1>2, <1>3, QueueEmpty DEF Fine

(* It survives a send that puts nothing in the list, ... *)
LEMMA FineSent ==
  ASSUME NEW queue, NEW eps, NEW sent, NEW now, NEW back, Fine(queue, eps, sent, now, back),
         sent < MaxSends
  PROVE  Fine(queue, eps, sent + 1, now, back)
  <1>1. MaxSends \in Nat /\ sent \in Nat /\ sent + 1 \in 0..MaxSends /\ queue \in Queue
    BY BoundsAssumption DEF Fine
  <1>2. \A d \in Range(queue) :
          d.dest \in DOMAIN eps /\ d.data > eps[d.dest].since /\ d.data <= sent + 1
    <2> TAKE d \in Range(queue)
    <2>1. d.data \in Nat /\ d.data <= sent
      BY <1>1, QueueKept, DatagramType DEF Fine
    <2> QED BY <1>1, <2>1 DEF Fine
  <1>3. ASSUME NEW a \in DOMAIN eps
        PROVE  EndpointFine(queue, eps[a], a, sent + 1, now, back)
    <2>1. eps[a].since \in Nat /\ eps[a].ready \in Queue /\ EndpointFine(queue, eps[a], a, sent, now, back)
      BY EndpointType DEF Fine
    <2>2. eps[a].since <= sent + 1
      BY <1>1, <2>1 DEF EndpointFine
    <2>3. \A d \in Range(eps[a].ready) : d.data \in Nat /\ d.data <= sent
      BY <2>1, QueueKept, DatagramType DEF EndpointFine
    <2>4. \A d \in Range(eps[a].ready) : d.data <= sent + 1
      BY <1>1, <2>3
    <2> QED BY <2>1, <2>2, <2>4 DEF EndpointFine
  <1>4. back \subseteq 0..(sent + 1)
    BY <1>1 DEF Fine
  <1> QED BY <1>1, <1>2, <1>3, <1>4 DEF Fine

(* ... and another time, which is told when it is an earlier one. *)
LEMMA FineClock ==
  ASSUME NEW queue, NEW eps, NEW sent, NEW now, NEW back, Fine(queue, eps, sent, now, back),
         NEW t \in Nat, NEW more \in SUBSET (0..sent), back \subseteq more,
         t >= now \/ sent \in more
  PROVE  Fine(queue, eps, sent, t, more)
  <1>1. \A x, y : InTurn(x, y, back) => InTurn(x, y, more)
    BY DEF InTurn, Between
  <1>2. \A q : Ordered(q, back) => Ordered(q, more)
    BY <1>1 DEF Ordered
  <1>3. ASSUME NEW a \in DOMAIN eps
        PROVE  EndpointFine(queue, eps[a], a, sent, t, more)
    <2>1. eps[a].ready \in Queue /\ EndpointFine(queue, eps[a], a, sent, now, back) /\ now \in Nat
      BY EndpointType DEF Fine
    <2>2. \A d \in Range(eps[a].ready) :
            d.at \in Nat /\ d.data <= sent /\ WasDue(d, now, back)
      BY <2>1, QueueKept, DatagramType DEF EndpointFine
    <2>3. ASSUME NEW d \in Range(eps[a].ready)
          PROVE  WasDue(d, t, more)
      <3>1. d.at \in Nat /\ d.data <= sent /\ WasDue(d, now, back)
        BY <2>2
      <3>2. CASE sent \in more
        BY <3>1, <3>2 DEF WasDue
      <3>3. CASE t >= now /\ d.at <= now
        <4>1. d.at <= t
          BY <2>1, <3>1, <3>3
        <4> QED BY <4>1 DEF WasDue
      <3>4. CASE \E n \in back : d.data <= n
        BY <3>4 DEF WasDue
      <3> QED BY <3>1, <3>2, <3>3, <3>4 DEF WasDue
    <2> QED BY <1>2, <2>1, <2>3 DEF EndpointFine
  <1> QED BY <1>3 DEF Fine

(* A copy put in the list, of the last datagram sent, is in order. *)
LEMMA FineInsert ==
  ASSUME NEW queue, NEW eps, NEW sent, NEW now, NEW back, Fine(queue, eps, sent, now, back),
         NEW d \in Datagram, d.dest \in DOMAIN eps, d.data = sent,
         d.data > eps[d.dest].since, d.at >= now, \A n \in back : n < d.data
  PROVE  Fine(PendingInsert(queue, d), [eps EXCEPT ![d.dest].bytes = @ + d.len], sent, now, back)
  <1> DEFINE p == PendingInsert(queue, d)
             f == [eps EXCEPT ![d.dest].bytes = @ + d.len]
  <1>1. /\ queue \in Queue /\ DOMAIN f = DOMAIN eps
        /\ eps \in [DOMAIN eps -> Endpoint] /\ Sorted(queue)
        /\ sent \in Nat /\ now \in Nat /\ sent \in 0..MaxSends /\ back \subseteq 0..sent
    BY BoundsAssumption DEF Fine
  <1>2. /\ p \in Queue /\ Range(p) = Range(queue) \cup {d}
        /\ \A X : d.dest \notin X => SentTo(p, X) = SentTo(queue, X)
        /\ \A X : d.dest \in X => BytesOf(SentTo(p, X)) = BytesOf(SentTo(queue, X)) + d.len
    BY <1>1, InsertAdds
  <1>3. \A x \in Range(queue) : x \in Datagram /\ x.data <= d.data
    BY <1>1, QueueKept DEF Fine
  <1>4. Sorted(p)
    BY <1>1, <1>3, InsertSorted
  <1>5. \A a \in DOMAIN eps : a # d.dest => f[a] = eps[a]
    BY <1>1
  <1>6. f[d.dest] = [ready |-> eps[d.dest].ready, bytes |-> eps[d.dest].bytes + d.len,
                     since |-> eps[d.dest].since]
    <2>1. f[d.dest] = [eps[d.dest] EXCEPT !.bytes = eps[d.dest].bytes + d.len]
      BY <1>1
    <2> QED BY <1>1, <2>1, EndpointExcept
  <1>7. f \in [DOMAIN eps -> Endpoint]
    <2>1. eps[d.dest] \in Endpoint /\ d.len \in Nat
      BY <1>1, DatagramType
    <2>2. /\ eps[d.dest].ready \in Queue /\ eps[d.dest].bytes + d.len \in Nat
          /\ eps[d.dest].since \in 0..MaxSends
      BY <2>1, EndpointType
    <2>3. f[d.dest] \in Endpoint
      BY <1>6, <2>2, EndpointType
    <2>4. \A a \in DOMAIN eps : f[a] \in Endpoint
      BY <1>1, <1>5, <2>3
    <2>5. f = [a \in DOMAIN eps |-> f[a]]
      BY <1>1
    <2> HIDE DEF f
    <2> QED BY <2>4, <2>5
  <1> HIDE DEF p, f
  <1>8. \A x \in Range(p) : x.dest \in DOMAIN f /\ x.data > f[x.dest].since /\ x.data <= sent
    <2>1. \A a \in DOMAIN eps : f[a].since = eps[a].since
      BY <1>5, <1>6
    <2>2. \A x \in Range(queue) :
            x.dest \in DOMAIN eps /\ x.data > eps[x.dest].since /\ x.data <= sent
      BY DEF Fine
    <2> QED BY <1>1, <1>2, <2>1, <2>2
  <1>9. ASSUME NEW a \in DOMAIN eps
        PROVE  EndpointFine(p, f[a], a, sent, now, back)
    <2>1. EndpointFine(queue, eps[a], a, sent, now, back) /\ eps[a] \in Endpoint
      BY <1>1 DEF Fine
    <2>2. CASE a # d.dest
      <3>1. f[a] = eps[a] /\ To(p, a) = To(queue, a)
        BY <1>2, <1>5, <2>2 DEF To
      <3> QED BY <2>1, <3>1 DEF EndpointFine
    <2>3. CASE a = d.dest
      <3> DEFINE r == eps[a].ready
                 k == To(queue, a)
                 l == To(p, a)
      <3>1. /\ f[a].ready = r /\ f[a].since = eps[a].since
            /\ f[a].bytes = eps[a].bytes + d.len
        BY <1>6, <2>3
      <3>2. /\ r \in Queue /\ k \in Queue /\ l \in Queue /\ d.len \in Nat
            /\ Range(k) = {x \in Range(queue) : x.dest \in {a}}
            /\ Range(l) = {x \in Range(p) : x.dest \in {a}}
        BY <1>1, <1>2, <2>1, EndpointType, QueueKept, DatagramType DEF To
      <3>3. BytesOf(l) = BytesOf(k) + d.len
        BY <1>2, <2>3 DEF To
      <3>4. Ordered(l, back)
        BY <1>2, <1>4, SentToSorted, SortedIs DEF To, Queue
      <3> HIDE DEF r, k, l
      <3>5. BytesOf(l \o r) = BytesOf(k \o r) + d.len
        BY <3>2, <3>3, QueueConcat, QueueKept
      <3>6. /\ eps[a].bytes = BytesOf(k \o r)
            /\ \A x \in Range(r) : x.data <= sent /\ WasDue(x, now, back)
            /\ Ordered(r \o k, back)
        BY <2>1 DEF EndpointFine, r, k
      <3>7. Ordered(r, back) /\ \A x \in Range(r), y \in Range(k) : InTurn(x, y, back)
        BY <3>2, <3>6, QueueOrdered
      <3>8. \A x \in Range(r) : InTurn(x, d, back)
        <4> TAKE x \in Range(r)
        <4>1. x.at \in Nat /\ x.data \in Nat /\ d.at \in Nat /\ d.data \in Nat
          BY <3>2, QueueKept, DatagramType
        <4>2. x.data <= sent /\ WasDue(x, now, back)
          BY <3>6
        <4>3. CASE x.at <= now
          BY <1>1, <4>1, <4>2, <4>3 DEF Before, InTurn
        <4>4. CASE \E n \in back : x.data <= n
          BY <4>4 DEF InTurn, Between
        <4> QED BY <4>2, <4>3, <4>4 DEF WasDue
      <3>9. \A x \in Range(r), y \in Range(l) : InTurn(x, y, back)
        BY <1>2, <3>2, <3>7, <3>8
      <3>10. Ordered(r \o l, back)
        BY <3>2, <3>4, <3>7, <3>9, QueueOrdered
      <3>11. f[a].bytes = BytesOf(l \o r)
        BY <3>1, <3>5, <3>6
      <3> QED BY <2>1, <3>1, <3>10, <3>11 DEF EndpointFine, r, l
    <2> QED BY <2>2, <2>3
  <1> QED BY <1>1, <1>2, <1>4, <1>7, <1>8, <1>9 DEF Fine, p, f

(* A step moves what is due from the head of the list to the endpoints. *)
LEMMA FineStep ==
  ASSUME NEW queue, NEW eps, NEW sent, NEW now, NEW back, Fine(queue, eps, sent, now, back),
         NEW due \in Queue, NEW rest \in Queue, queue = due \o rest,
         \A x \in Range(due) : x.at <= now,
         NEW f \in [DOMAIN eps -> Endpoint],
         \A a \in DOMAIN eps : f[a].ready = eps[a].ready \o To(due, a),
         \A a \in DOMAIN eps : f[a].bytes = eps[a].bytes /\ f[a].since = eps[a].since
  PROVE  Fine(rest, f, sent, now, back)
  <1>1. /\ queue \in Queue /\ DOMAIN f = DOMAIN eps /\ DOMAIN eps \subseteq Addrs
        /\ eps \in [DOMAIN eps -> Endpoint] /\ Sorted(queue)
        /\ sent \in Nat /\ now \in Nat /\ sent \in 0..MaxSends /\ back \subseteq 0..sent
    BY BoundsAssumption DEF Fine
  <1>2. /\ Range(queue) = Range(due) \cup Range(rest)
        /\ \A X : SentTo(queue, X) = SentTo(due, X) \o SentTo(rest, X)
    BY QueueConcat
  <1>3. Sorted(rest)
    BY <1>1, QueueSorted
  <1>4. \A x \in Range(queue) :
          x.dest \in DOMAIN eps /\ x.data > eps[x.dest].since /\ x.data <= sent
    BY DEF Fine
  <1>5. \A x \in Range(rest) :
          x.dest \in DOMAIN f /\ x.data > f[x.dest].since /\ x.data <= sent
    BY <1>1, <1>2, <1>4
  <1>6. ASSUME NEW a \in DOMAIN eps
         PROVE  EndpointFine(rest, f[a], a, sent, now, back)
    <2> DEFINE r == eps[a].ready
               k == To(due, a)
               l == To(rest, a)
    <2>1. EndpointFine(queue, eps[a], a, sent, now, back) /\ eps[a] \in Endpoint
      BY <1>1 DEF Fine
    <2>2. f[a].ready = r \o k /\ f[a].bytes = eps[a].bytes /\ f[a].since = eps[a].since
      OBVIOUS
    <2>3. /\ r \in Queue /\ k \in Queue /\ l \in Queue
          /\ Range(k) = {x \in Range(due) : x.dest \in {a}}
      BY <2>1, EndpointType, QueueKept DEF To
    <2>4. To(queue, a) = k \o l
      BY <1>2 DEF To
    <2> HIDE DEF r, k, l
    <2>5. /\ eps[a].since <= sent /\ eps[a].bytes = BytesOf((k \o l) \o r)
          /\ \A x \in Range(r) :
               x.dest = a /\ x.data > eps[a].since /\ x.data <= sent /\ WasDue(x, now, back)
          /\ Ordered(r \o (k \o l), back)
      BY <2>1, <2>4 DEF EndpointFine, r
    <2>6. BytesOf((k \o l) \o r) = BytesOf(l \o (r \o k))
      <3>1. k \o l \in Queue /\ r \o k \in Queue
        BY <2>3, QueueConcat
      <3>2. /\ BytesOf((k \o l) \o r) = (BytesOf(k) + BytesOf(l)) + BytesOf(r)
            /\ BytesOf(l \o (r \o k)) = BytesOf(l) + (BytesOf(r) + BytesOf(k))
        BY <2>3, <3>1, QueueConcat
      <3> QED BY <2>3, <3>2, QueueKept
    <2>7. Ordered((r \o k) \o l, back)
      <3>1. (r \o k) \o l = r \o (k \o l)
        BY <2>3, QueueAssociates
      <3> QED BY <2>5, <3>1, Zenon
    <2>8. \A x \in Range(r \o k) :
            x.dest = a /\ x.data > eps[a].since /\ x.data <= sent /\ WasDue(x, now, back)
      <3>1. Range(r \o k) = Range(r) \cup Range(k)
        BY <2>3, QueueConcat
      <3>2. \A x \in Range(k) :
              x.dest = a /\ x.data > eps[a].since /\ x.data <= sent /\ WasDue(x, now, back)
        BY <1>2, <1>4, <2>3 DEF WasDue
      <3> QED BY <2>5, <3>1, <3>2
    <2> QED BY <2>2, <2>5, <2>6, <2>7, <2>8 DEF EndpointFine, l
  <1> QED BY <1>1, <1>3, <1>5, <1>6 DEF Fine

(* Its endpoints, with one of them replaced, whose destination has the     *)
(* same datagrams under way. *)
LEMMA FineReplace ==
  ASSUME NEW queue, NEW eps, NEW sent, NEW now, NEW back, Fine(queue, eps, sent, now, back),
         NEW a \in DOMAIN eps, NEW e \in Endpoint, e.since = eps[a].since,
         EndpointFine(queue, e, a, sent, now, back)
  PROVE  Fine(queue, [eps EXCEPT ![a] = e], sent, now, back)
  <1> DEFINE f == [eps EXCEPT ![a] = e]
  <1>1. /\ DOMAIN f = DOMAIN eps /\ eps \in [DOMAIN eps -> Endpoint]
        /\ f[a] = e /\ \A b \in DOMAIN eps : b # a => f[b] = eps[b]
    BY DEF Fine
  <1>2. f \in [DOMAIN f -> Endpoint] /\ \A b \in DOMAIN eps : f[b].since = eps[b].since
    BY <1>1
  <1> HIDE DEF f
  <1>3. \A x \in Range(queue) :
          x.dest \in DOMAIN f /\ x.data > f[x.dest].since /\ x.data <= sent
    BY <1>1, <1>2 DEF Fine
  <1>4. \A b \in DOMAIN f : EndpointFine(queue, f[b], b, sent, now, back)
    BY <1>1 DEF Fine
  <1> QED BY <1>1, <1>2, <1>3, <1>4 DEF Fine, f

(* A receive takes the first datagram that is ready, and its bytes. *)
LEMMA FineRecv ==
  ASSUME NEW queue, NEW sent, NEW now, NEW back, NEW a, NEW e \in Endpoint,
         queue \in Queue, EndpointFine(queue, e, a, sent, now, back), e.ready # << >>
  PROVE  LET len == Head(e.ready).len
             g == [ready |-> Tail(e.ready), bytes |-> e.bytes - len, since |-> e.since]
         IN  /\ e.bytes >= len
             /\ g \in Endpoint
             /\ EndpointFine(queue, g, a, sent, now, back)
             /\ Len(e.ready) = Len(g.ready) + 1
  <1> DEFINE h == << Head(e.ready) >>
             t == Tail(e.ready)
             k == To(queue, a)
             len == Head(e.ready).len
  <1>1. e.ready \in Queue /\ e.bytes \in Nat /\ e.since \in 0..MaxSends
    BY EndpointType
  <1>2. /\ e.ready = h \o t /\ t \in Queue /\ Head(e.ready) \in Datagram
        /\ Len(e.ready) = Len(t) + 1
    BY <1>1 DEF Queue
  <1>3. h \in Queue /\ Range(h) = {Head(e.ready)} /\ BytesOf(h) = len /\ len \in Nat
    BY <1>2, QueueOne, DatagramType
  <1>4. k \in Queue
    BY QueueKept DEF To
  <1> HIDE DEF h, t, k, len
  <1>5. /\ BytesOf(k) \in Nat /\ BytesOf(t) \in Nat
        /\ BytesOf(k \o (h \o t)) = BytesOf(k) + (len + BytesOf(t))
        /\ BytesOf(k \o t) = BytesOf(k) + BytesOf(t)
    <2>1. h \o t \in Queue /\ BytesOf(h \o t) = len + BytesOf(t)
      BY <1>2, <1>3, QueueConcat
    <2>2. /\ BytesOf(k \o (h \o t)) = BytesOf(k) + BytesOf(h \o t)
          /\ BytesOf(k \o t) = BytesOf(k) + BytesOf(t)
      BY <1>2, <1>4, <2>1, QueueConcat
    <2> QED BY <1>2, <1>4, <2>1, <2>2, QueueKept
  <1>6. e.bytes = BytesOf(k \o (h \o t))
    BY <1>2 DEF EndpointFine, k
  <1>7. e.bytes >= len /\ e.bytes - len = BytesOf(k \o t) /\ e.bytes - len \in Nat
    BY <1>1, <1>3, <1>5, <1>6
  <1>8. Ordered(t \o k, back)
    <2>1. Ordered((h \o t) \o k, back)
      BY <1>2 DEF EndpointFine, k
    <2>2. Ordered(h \o (t \o k), back)
      BY <1>2, <1>3, <1>4, <2>1, QueueAssociates
    <2> QED BY <1>2, <1>3, <1>4, <2>2, QueueConcat, QueueOrdered
  <1>9. \A d \in Range(t) : d \in Range(e.ready)
    BY <1>2, <1>3, QueueConcat
  <1> DEFINE g == [ready |-> t, bytes |-> e.bytes - len, since |-> e.since]
  <1>10. g \in Endpoint
    BY <1>1, <1>2, <1>7, EndpointType
  <1>11. EndpointFine(queue, g, a, sent, now, back)
    BY <1>7, <1>8, <1>9 DEF EndpointFine, k
  <1> QED BY <1>2, <1>7, <1>10, <1>11 DEF len, t

(* An endpoint that is bound inherits nothing. *)
LEMMA FineBind ==
  ASSUME NEW queue, NEW eps, NEW sent, NEW now, NEW back, Fine(queue, eps, sent, now, back),
         NEW a \in Addrs, a \notin DOMAIN eps,
         NEW f \in [DOMAIN eps \cup {a} -> Endpoint],
         \A b \in DOMAIN eps : f[b] = eps[b],
         f[a] = [ready |-> << >>, bytes |-> 0, since |-> sent]
  PROVE  Fine(queue, f, sent, now, back)
  <1> DEFINE e == [ready |-> << >>, bytes |-> 0, since |-> sent]
  <1>1. /\ queue \in Queue /\ DOMAIN f = DOMAIN eps \cup {a}
        /\ eps \in [DOMAIN eps -> Endpoint] /\ sent \in 0..MaxSends /\ sent \in Nat
        /\ back \subseteq 0..sent
        /\ f[a] = e /\ \A b \in DOMAIN eps : f[b] = eps[b]
    BY BoundsAssumption DEF Fine
  <1>2. e \in Endpoint
    BY <1>1, QueueEmpty, EndpointType
  <1>3. f \in [DOMAIN f -> Endpoint]
    <2> HIDE DEF e
    <2> QED BY <1>1, <1>2
  <1>4. \A x \in Range(queue) :
          x.dest \in DOMAIN eps /\ x.data > eps[x.dest].since /\ x.data <= sent
    BY DEF Fine
  <1>5. To(queue, a) = << >>
    BY <1>1, <1>4, SentToNone DEF To, Queue
  <1>6. EndpointFine(queue, e, a, sent, now, back)
    <2>1. << >> \o << >> = << >>
      BY QueueEmpty, QueueKept
    <2>2. Ordered(<< >>, back) /\ Range(<< >>) = {}
      BY DEF Ordered, Range
    <2>3. To(queue, a) \o e.ready = << >> /\ e.ready \o To(queue, a) = << >>
      BY <1>5, <2>1
    <2>4. e.bytes = 0 /\ e.since = sent /\ e.ready = << >>
      OBVIOUS
    <2> HIDE DEF e
    <2> QED BY <1>1, <2>2, <2>3, <2>4, BytesEmpty DEF EndpointFine
  <1> HIDE DEF e
  <1>7. \A b \in DOMAIN f : EndpointFine(queue, f[b], b, sent, now, back)
    BY <1>1, <1>6 DEF Fine
  <1>8. \A x \in Range(queue) :
          x.dest \in DOMAIN f /\ x.data > f[x.dest].since /\ x.data <= sent
    BY <1>1, <1>4
  <1> QED BY <1>1, <1>3, <1>7, <1>8 DEF Fine, e

(* Closing an endpoint leaves the others with what is theirs. *)
LEMMA FineClose ==
  ASSUME NEW queue, NEW eps, NEW sent, NEW now, NEW back, Fine(queue, eps, sent, now, back),
         NEW a \in DOMAIN eps
  PROVE  Fine(SentTo(queue, Addrs \ {a}), Restrict(eps, DOMAIN eps \ {a}), sent, now, back)
  <1> DEFINE f == Restrict(eps, DOMAIN eps \ {a})
             q == SentTo(queue, Addrs \ {a})
  <1>1. /\ queue \in Queue /\ DOMAIN f = DOMAIN eps \ {a} /\ DOMAIN eps \subseteq Addrs
        /\ eps \in [DOMAIN eps -> Endpoint]
        /\ \A b \in DOMAIN f : f[b] = eps[b]
    BY DEF Fine, Restrict
  <1>2. f \in [DOMAIN f -> Endpoint]
    BY <1>1 DEF Restrict
  <1>3. q \in Queue /\ Range(q) = {d \in Range(queue) : d.dest \in Addrs \ {a}}
    BY <1>1, QueueKept
  <1>4. Sorted(q)
    BY SentToSorted DEF Fine, Queue
  <1>5. ASSUME NEW b \in DOMAIN f
        PROVE  To(q, b) = To(queue, b)
    <2>1. (Addrs \ {a}) \cap {b} = {b}
      BY <1>1
    <2> QED BY <1>1, <2>1, SentToTwice DEF To, Queue
  <1> HIDE DEF f, q
  <1>6. \A x \in Range(q) :
          x.dest \in DOMAIN f /\ x.data > f[x.dest].since /\ x.data <= sent
    <2> TAKE x \in Range(q)
    <2>1. x \in Range(queue) /\ x.dest # a
      BY <1>3
    <2> QED BY <1>1, <2>1 DEF Fine
  <1>7. \A b \in DOMAIN f : EndpointFine(q, f[b], b, sent, now, back)
    <2> TAKE b \in DOMAIN f
    <2>1. EndpointFine(queue, eps[b], b, sent, now, back)
      BY <1>1 DEF Fine
    <2> QED BY <1>1, <1>5, <2>1 DEF EndpointFine
  <1> QED BY <1>1, <1>2, <1>3, <1>4, <1>6, <1>7 DEF Fine, f, q

(* A flush leaves empty endpoints, ... *)
LEMMA FineFlush ==
  ASSUME NEW queue, NEW eps, NEW sent, NEW now, NEW back, Fine(queue, eps, sent, now, back),
         NEW f \in [DOMAIN eps -> Endpoint],
         \A a \in DOMAIN eps : f[a].ready = << >>,
         \A a \in DOMAIN eps : f[a].bytes = 0 /\ f[a].since = eps[a].since
  PROVE  Fine(<< >>, f, sent, now, back)
  <1>1. /\ DOMAIN f = DOMAIN eps /\ DOMAIN eps \subseteq Addrs /\ sent \in 0..MaxSends
        /\ eps \in [DOMAIN eps -> Endpoint] /\ now \in Nat /\ back \subseteq 0..sent
    BY DEF Fine
  <1>2. /\ Sorted(<< >>) /\ Ordered(<< >>, back) /\ Range(<< >>) = {}
        /\ << >> \o << >> = << >>
    <2>1. << >> \o << >> = << >>
      BY QueueEmpty, QueueKept
    <2> QED BY <2>1 DEF Sorted, Ordered, Range
  <1>3. \A a \in DOMAIN f : EndpointFine(<< >>, f[a], a, sent, now, back)
    <2> TAKE a \in DOMAIN f
    <2>1. To(<< >>, a) = << >> /\ BytesOf(<< >>) = 0
      BY SentToEmpty, BytesEmpty DEF To
    <2>2. f[a].ready = << >> /\ f[a].bytes = 0 /\ f[a].since = eps[a].since
      BY <1>1
    <2>3. eps[a].since <= sent
      BY <1>1 DEF Fine, EndpointFine
    <2> QED BY <1>2, <2>1, <2>2, <2>3 DEF EndpointFine
  <1> QED BY <1>1, <1>2, <1>3, QueueEmpty DEF Fine

-----------------------------------------------------------------------------
(* Counting what is ready: a datagram is told by its endpoint, one of D,   *)
(* and its place, up to the length of the ready queue there.               *)
Places(D, len) == {p \in D \X Nat : p[2] >= 1 /\ p[2] <= len[p[1]]}
Total(D, len) == Cardinality(Places(D, len))

(* There are finitely many places. *)
LEMMA PlacesFinite ==
  ASSUME NEW D, IsFiniteSet(D), NEW len \in [D -> Nat]
  PROVE  IsFiniteSet(Places(D, len)) /\ Total(D, len) \in Nat
  <1> DEFINE f == [a \in D |-> {a} \X (1..len[a])]
             S == {f[a] : a \in D}
  <1>1. f \in Surjection(D, S)
    BY DEF Surjection
  <1>2. IsFiniteSet(S)
    BY <1>1, FS_Surjection
  <1>3. ASSUME NEW T \in S
        PROVE  IsFiniteSet(T)
    <2>1. PICK a \in D : T = f[a]
      OBVIOUS
    <2>2. IsFiniteSet({a}) /\ IsFiniteSet(1..len[a])
      <3>1. 1 \in Int /\ len[a] \in Int
        OBVIOUS
      <3>2. IsFiniteSet(1..len[a])
        BY <3>1, FS_Interval
      <3> QED BY <3>2, FS_Singleton
    <2> QED BY <2>1, <2>2, FS_Product
  <1>4. IsFiniteSet(UNION S)
    <2> HIDE DEF S
    <2> QED BY <1>2, <1>3, FS_UNION
  <1>5. Places(D, len) \subseteq UNION S
    <2>1. ASSUME NEW p \in Places(D, len)
          PROVE  p \in UNION S
      <3>1. p[1] \in D /\ p[2] \in 1..len[p[1]] /\ p = << p[1], p[2] >>
        BY DEF Places
      <3>2. p \in f[p[1]] /\ f[p[1]] \in S
        BY <3>1
      <3> QED BY <3>2
    <2> QED BY <2>1
  <1> HIDE DEF S
  <1>6. IsFiniteSet(Places(D, len))
    BY <1>4, <1>5, FS_Subset
  <1> QED BY <1>6, FS_CardinalityType DEF Total

(* One place more at an endpoint is one more of all, ... *)
LEMMA PlacesOne ==
  ASSUME NEW D, IsFiniteSet(D), NEW len \in [D -> Nat], NEW more \in [D -> Nat],
         NEW a \in D, more[a] = len[a] + 1, \A b \in D : b # a => more[b] = len[b]
  PROVE  Total(D, more) = Total(D, len) + 1
  <1> DEFINE p == << a, more[a] >>
  <1>1. p \notin Places(D, len) /\ p \in Places(D, more)
    BY DEF Places
  <1>2. Places(D, more) = Places(D, len) \cup {p}
    <2>1. ASSUME NEW q \in D \X Nat
          PROVE  q \in Places(D, more) <=> q \in Places(D, len) \/ q = p
      <3>1. q[1] \in D /\ q[2] \in Nat /\ q = << q[1], q[2] >>
        OBVIOUS
      <3>2. q \in Places(D, more) <=> q[2] >= 1 /\ q[2] <= more[q[1]]
        BY <3>1 DEF Places
      <3>3. q \in Places(D, len) <=> q[2] >= 1 /\ q[2] <= len[q[1]]
        BY <3>1 DEF Places
      <3>4. q = p <=> q[1] = a /\ q[2] = more[a]
        BY <3>1
      <3>5. CASE q[1] = a
        <4>1. more[a] \in Nat /\ len[a] \in Nat
          OBVIOUS
        <4> QED BY <3>1, <3>2, <3>3, <3>4, <3>5, <4>1
      <3> QED BY <3>1, <3>2, <3>3, <3>4, <3>5
    <2> QED BY <1>1, <2>1 DEF Places
  <1> HIDE DEF p
  <1>3. IsFiniteSet(Places(D, len))
    BY PlacesFinite
  <1> QED BY <1>1, <1>2, <1>3, FS_AddElement DEF Total

(* ... and n places are n more. *)
LEMMA PlacesMore ==
  ASSUME NEW D, IsFiniteSet(D), NEW len \in [D -> Nat], NEW a \in D
  PROVE  \A n \in Nat : \A more \in [D -> Nat] :
           (more[a] = len[a] + n /\ \A b \in D : b # a => more[b] = len[b])
             => Total(D, more) = Total(D, len) + n
  <1> DEFINE Grown(more, n) == more[a] = len[a] + n /\ \A b \in D : b # a => more[b] = len[b]
             N == {n \in Nat : \A more \in [D -> Nat] :
                                 Grown(more, n) => Total(D, more) = Total(D, len) + n}
  <1>1. Total(D, len) \in Nat
    BY PlacesFinite
  <1>2. 0 \in N
    <2> SUFFICES ASSUME NEW more \in [D -> Nat], Grown(more, 0)
                 PROVE  Total(D, more) = Total(D, len)
      BY <1>1
    <2>1. more = len
      OBVIOUS
    <2> QED BY <2>1
  <1>3. ASSUME NEW n \in Nat, n \in N
        PROVE  n + 1 \in N
    <2> SUFFICES ASSUME NEW more \in [D -> Nat], Grown(more, n + 1)
                 PROVE  Total(D, more) = Total(D, len) + (n + 1)
      OBVIOUS
    <2> DEFINE less == [more EXCEPT ![a] = len[a] + n]
    <2>1. less \in [D -> Nat] /\ Grown(less, n)
      OBVIOUS
    <2>2. Total(D, less) = Total(D, len) + n
      BY <1>3, <2>1
    <2>3. more[a] = less[a] + 1 /\ \A b \in D : b # a => more[b] = less[b]
      OBVIOUS
    <2> HIDE DEF less
    <2>4. Total(D, more) = Total(D, less) + 1
      BY <2>1, <2>3, PlacesOne
    <2> QED BY <1>1, <2>2, <2>4
  <1> HIDE DEF N
  <1>4. Nat \subseteq N
    BY <1>2, <1>3, NatInd
  <1> QED BY <1>4 DEF N

(* An endpoint less has its own places less. *)
LEMMA PlacesWithout ==
  ASSUME NEW D, IsFiniteSet(D), NEW len \in [D -> Nat], NEW a \in D
  PROVE  Total(D, len) = Total(D \ {a}, [b \in D \ {a} |-> len[b]]) + len[a]
  <1> DEFINE none == [len EXCEPT ![a] = 0]
             rest == [b \in D \ {a} |-> len[b]]
  <1>1. none \in [D -> Nat] /\ len[a] = none[a] + len[a] /\ len[a] \in Nat
    OBVIOUS
  <1>2. \A b \in D : b # a => len[b] = none[b]
    OBVIOUS
  <1>3. Places(D \ {a}, rest) = Places(D, none)
    <2>1. ASSUME NEW q \in D \X Nat
          PROVE  q \in Places(D, none) <=> q \in Places(D \ {a}, rest)
      <3>1. q[1] \in D /\ q[2] \in Nat /\ q = << q[1], q[2] >>
        OBVIOUS
      <3>2. q \in Places(D, none) <=> q[2] >= 1 /\ q[2] <= none[q[1]]
        BY <3>1 DEF Places
      <3>3. q \in Places(D \ {a}, rest) <=> q[1] # a /\ q[2] >= 1 /\ q[2] <= rest[q[1]]
        BY <3>1 DEF Places
      <3>4. CASE q[1] = a
        BY <3>1, <3>2, <3>3, <3>4
      <3>5. CASE q[1] # a
        BY <3>1, <3>2, <3>3, <3>5
      <3> QED BY <3>4, <3>5
    <2>2. Places(D, none) \subseteq D \X Nat /\ Places(D \ {a}, rest) \subseteq D \X Nat
      BY DEF Places
    <2> QED BY <2>1, <2>2
  <1> HIDE DEF none, rest
  <1>4. Total(D, len) = Total(D, none) + len[a]
    BY <1>1, <1>2, PlacesMore
  <1> QED BY <1>3, <1>4 DEF Total, rest

(* Where datagrams are moved to the endpoints, the places grow by what is  *)
(* moved to one of them. *)
LEMMA PlacesMoved ==
  ASSUME NEW D, IsFiniteSet(D), NEW len \in [D -> Nat], NEW due \in Seq(Datagram)
  PROVE  Total(D, [a \in D |-> len[a] + Len(To(due, a))])
           = Total(D, len) + Len(SentTo(due, D))
  <1> DEFINE moved(s) == [a \in D |-> len[a] + Len(To(s, a))]
             P == {s \in Seq(Datagram) : Total(D, moved(s)) = Total(D, len) + Len(SentTo(s, D))}
  <1>1. Total(D, len) \in Nat
    BY PlacesFinite
  <1>2. \A s \in Seq(Datagram) :
          /\ moved(s) \in [D -> Nat] /\ Len(SentTo(s, D)) \in Nat
          /\ \A a \in D : Len(To(s, a)) \in Nat /\ moved(s)[a] = len[a] + Len(To(s, a))
    <2> TAKE s \in Seq(Datagram)
    <2>1. \A X : Len(SentTo(s, X)) \in Nat
      BY SentToType
    <2> QED BY <2>1 DEF To
  <1>3. << >> \in P
    <2>1. \A X : SentTo(<< >>, X) = << >>
      BY SentToEmpty
    <2>2. moved(<< >>) = len
      BY <2>1, Len(<< >>) = 0 DEF To
    <2> HIDE DEF moved
    <2> QED BY <1>1, <2>1, <2>2, Len(<< >>) = 0
  <1> HIDE DEF moved
  <1>4. ASSUME NEW s \in Seq(Datagram), NEW d \in Datagram, s \in P
        PROVE  Append(s, d) \in P
    <2> DEFINE t == Append(s, d)
    <2>1. t \in Seq(Datagram)
      OBVIOUS
    <2>2. \A X : SentTo(s, X) \in Seq(Datagram)
      BY SentToType
    <2>3. \A X : /\ d.dest \in X => Len(SentTo(t, X)) = Len(SentTo(s, X)) + 1
                 /\ d.dest \notin X => Len(SentTo(t, X)) = Len(SentTo(s, X))
      <3> TAKE X
      <3>1. CASE d.dest \in X
        <4>1. SentTo(t, X) = Append(SentTo(s, X), d)
          BY <3>1, SentToAppend
        <4> DEFINE k == SentTo(s, X)
        <4>2. k \in Seq(Datagram)
          BY <2>2
        <4> HIDE DEF k
        <4>3. Len(Append(k, d)) = Len(k) + 1
          BY <4>2
        <4> QED BY <3>1, <4>1, <4>3 DEF k
      <3>2. CASE d.dest \notin X
        BY <3>2, SentToAppend
      <3> QED BY <3>1, <3>2
    <2> HIDE DEF t
    <2>4. Total(D, moved(s)) = Total(D, len) + Len(SentTo(s, D))
      BY <1>4
    <2> DEFINE u == moved(s)
               v == moved(t)
    <2>5. /\ u \in [D -> Nat] /\ v \in [D -> Nat]
          /\ \A b \in D : b # d.dest => v[b] = u[b]
          /\ \A b \in D : b = d.dest => v[b] = u[b] + 1
      <3>1. u \in [D -> Nat] /\ \A b \in D : u[b] = len[b] + Len(To(s, b))
        BY <1>2
      <3>2. v \in [D -> Nat] /\ \A b \in D : v[b] = len[b] + Len(To(t, b))
        BY <1>2, <2>1
      <3> HIDE DEF u, v
      <3>3. \A b \in D : Len(To(s, b)) \in Nat
        BY <1>2
      <3>4. \A b \in D : /\ b # d.dest => Len(To(t, b)) = Len(To(s, b))
                         /\ b = d.dest => Len(To(t, b)) = Len(To(s, b)) + 1
        BY <2>3 DEF To
      <3> QED BY <3>1, <3>2, <3>3, <3>4
    <2> HIDE DEF u, v
    <2>6. CASE d.dest \in D
      <3>1. v[d.dest] = u[d.dest] + 1
        BY <2>5, <2>6
      <3>2. Total(D, v) = Total(D, u) + 1
        BY <2>5, <2>6, <3>1, PlacesOne
      <3>3. Len(SentTo(t, D)) = Len(SentTo(s, D)) + 1
        BY <2>3, <2>6
      <3>4. Len(SentTo(s, D)) \in Nat
        BY <1>2
      <3>5. Total(D, moved(t)) = Total(D, len) + Len(SentTo(t, D))
        BY <1>1, <2>4, <3>2, <3>3, <3>4 DEF u, v
      <3> QED BY <2>1, <3>5 DEF t
    <2>7. CASE d.dest \notin D
      <3>1. u = v
        BY <2>5, <2>7
      <3>2. Len(SentTo(t, D)) = Len(SentTo(s, D))
        BY <2>3, <2>7
      <3> QED BY <2>1, <2>4, <3>1, <3>2 DEF t, u, v
    <2> QED BY <2>6, <2>7
  <1> HIDE DEF P
  <1>5. Seq(Datagram) \subseteq P
    BY <1>3, <1>4, SeqInd
  <1> QED BY <1>5 DEF P, moved

(* Without a place there is nothing. *)
LEMMA PlacesNone ==
  ASSUME NEW D, NEW len \in [D -> Nat], \A a \in D : len[a] = 0
  PROVE  Total(D, len) = 0
  <1>1. Places(D, len) = {}
    <2> SUFFICES ASSUME NEW p \in Places(D, len)
                 PROVE  FALSE
      OBVIOUS
    <2>1. p[1] \in D /\ p[2] \in Nat /\ p[2] >= 1 /\ p[2] <= len[p[1]]
      BY DEF Places
    <2> QED BY <2>1
  <1> QED BY <1>1, FS_EmptySet DEF Total

(* The datagrams that are ready at some endpoints. *)
Held(eps) == Cardinality(UNION { {a} \X DOMAIN eps[a].ready : a \in DOMAIN eps })

(* How many datagrams are ready at each endpoint. *)
Lengths(eps) == [a \in DOMAIN eps |-> Len(eps[a].ready)]

(* They are counted by their places. *)
LEMMA HeldIs ==
  ASSUME NEW eps, DOMAIN eps \subseteq Addrs, eps \in [DOMAIN eps -> Endpoint]
  PROVE  /\ IsFiniteSet(DOMAIN eps) /\ Lengths(eps) \in [DOMAIN eps -> Nat]
         /\ \A a \in DOMAIN eps : Lengths(eps)[a] = Len(eps[a].ready)
         /\ Held(eps) = Total(DOMAIN eps, Lengths(eps)) /\ Held(eps) \in Nat
  <1> DEFINE D == DOMAIN eps
             len == Lengths(eps)
             S == UNION { {a} \X DOMAIN eps[a].ready : a \in D }
  <1>1. IsFiniteSet(D)
    BY AddrsAssumption, FS_Subset
  <1>2. /\ len \in [D -> Nat]
        /\ \A a \in D : len[a] = Len(eps[a].ready) /\ DOMAIN eps[a].ready = 1..len[a]
    <2>1. \A a \in D : eps[a].ready \in Seq(Datagram)
      BY EndpointType DEF Queue
    <2>2. \A a \in D : /\ Len(eps[a].ready) \in Nat
                       /\ DOMAIN eps[a].ready = 1..Len(eps[a].ready)
      BY <2>1
    <2> QED BY <2>2 DEF Lengths
  <1>3. S = Places(D, len)
    <2>1. ASSUME NEW p \in S
          PROVE  p \in Places(D, len)
      <3>1. PICK a \in D : p \in {a} \X DOMAIN eps[a].ready
        OBVIOUS
      <3>2. p[1] = a /\ p[2] \in 1..len[a] /\ p = << p[1], p[2] >>
        BY <1>2, <3>1
      <3>3. len[a] \in Nat
        BY <1>2
      <3> HIDE DEF len
      <3> QED BY <3>2, <3>3 DEF Places
    <2>2. ASSUME NEW p \in Places(D, len)
          PROVE  p \in S
      <3>1. p[1] \in D /\ p[2] \in 1..len[p[1]] /\ p = << p[1], p[2] >>
        BY DEF Places
      <3>2. p \in {p[1]} \X DOMAIN eps[p[1]].ready
        BY <1>2, <3>1
      <3> QED BY <3>1, <3>2
    <2> HIDE DEF S, len
    <2> QED BY <2>1, <2>2
  <1> HIDE DEF len
  <1>4. Total(D, len) \in Nat
    BY <1>1, <1>2, PlacesFinite
  <1> QED BY <1>1, <1>2, <1>3, <1>4 DEF Held, Total, len

(* As many as before, where the ready queues are as long as before. *)
LEMMA HeldSame ==
  ASSUME NEW eps, DOMAIN eps \subseteq Addrs, eps \in [DOMAIN eps -> Endpoint],
         NEW f \in [DOMAIN eps -> Endpoint],
         \A a \in DOMAIN eps : Len(f[a].ready) = Len(eps[a].ready)
  PROVE  Held(f) = Held(eps)
  <1>1. DOMAIN f = DOMAIN eps /\ f \in [DOMAIN f -> Endpoint]
    OBVIOUS
  <1>2. Lengths(f) = Lengths(eps)
    BY <1>1 DEF Lengths
  <1> QED BY <1>1, <1>2, HeldIs

(* A step makes ready what goes to the endpoints. *)
LEMMA HeldStep ==
  ASSUME NEW eps, DOMAIN eps \subseteq Addrs, eps \in [DOMAIN eps -> Endpoint],
         NEW due \in Queue,
         NEW f \in [DOMAIN eps -> Endpoint],
         \A a \in DOMAIN eps : f[a].ready = eps[a].ready \o To(due, a)
  PROVE  Held(f) = Held(eps) + Len(SentTo(due, DOMAIN eps))
  <1> DEFINE D == DOMAIN eps
             moved == [a \in D |-> Lengths(eps)[a] + Len(To(due, a))]
  <1>1. DOMAIN f = D /\ f \in [DOMAIN f -> Endpoint]
    OBVIOUS
  <1>2. \A a \in D : Lengths(f)[a] = moved[a]
    <2> TAKE a \in D
    <2>1. eps[a].ready \in Seq(Datagram) /\ To(due, a) \in Seq(Datagram)
      BY EndpointType, QueueKept DEF To, Queue
    <2>2. Len(eps[a].ready \o To(due, a)) = Len(eps[a].ready) + Len(To(due, a))
      BY <2>1
    <2>3. Lengths(f)[a] = Len(f[a].ready) /\ Lengths(eps)[a] = Len(eps[a].ready)
      BY <1>1, HeldIs
    <2> QED BY <2>2, <2>3
  <1>3. Lengths(f) = moved
    <2>1. Lengths(f) = [a \in D |-> Lengths(f)[a]]
      BY <1>1 DEF Lengths
    <2> QED BY <1>2, <2>1
  <1>4. IsFiniteSet(D) /\ Lengths(eps) \in [D -> Nat] /\ Held(eps) = Total(D, Lengths(eps))
    BY HeldIs
  <1>5. Total(D, moved) = Total(D, Lengths(eps)) + Len(SentTo(due, D))
    BY <1>4, PlacesMoved DEF Queue
  <1>6. Held(f) = Total(D, Lengths(f))
    BY <1>1, HeldIs
  <1> QED BY <1>3, <1>4, <1>5, <1>6

(* A receive takes one. *)
LEMMA HeldRecv ==
  ASSUME NEW eps, DOMAIN eps \subseteq Addrs, eps \in [DOMAIN eps -> Endpoint],
         NEW a \in DOMAIN eps, NEW f \in [DOMAIN eps -> Endpoint],
         \A b \in DOMAIN eps : b # a => f[b] = eps[b],
         Len(eps[a].ready) = Len(f[a].ready) + 1
  PROVE  Held(eps) = Held(f) + 1
  <1> DEFINE D == DOMAIN eps
  <1>1. DOMAIN f = D /\ f \in [DOMAIN f -> Endpoint]
    OBVIOUS
  <1>2. /\ IsFiniteSet(D) /\ Lengths(eps) \in [D -> Nat] /\ Held(eps) = Total(D, Lengths(eps))
        /\ \A b \in D : Lengths(eps)[b] = Len(eps[b].ready)
    BY HeldIs
  <1>3. /\ Lengths(f) \in [D -> Nat] /\ Held(f) = Total(D, Lengths(f))
        /\ \A b \in D : Lengths(f)[b] = Len(f[b].ready)
    BY <1>1, HeldIs
  <1>4. /\ Lengths(eps)[a] = Lengths(f)[a] + 1
        /\ \A b \in D : b # a => Lengths(eps)[b] = Lengths(f)[b]
    BY <1>2, <1>3
  <1>5. Total(D, Lengths(eps)) = Total(D, Lengths(f)) + 1
    <2> DEFINE u == Lengths(eps)
               v == Lengths(f)
    <2>1. /\ u \in [D -> Nat] /\ v \in [D -> Nat] /\ a \in D /\ IsFiniteSet(D)
          /\ u[a] = v[a] + 1 /\ \A b \in D : b # a => u[b] = v[b]
      BY <1>2, <1>3, <1>4
    <2> HIDE DEF D, u, v
    <2>2. Total(D, u) = Total(D, v) + 1
      BY <2>1, PlacesOne
    <2> QED BY <2>2 DEF u, v
  <1> QED BY <1>2, <1>3, <1>5

(* Closing an endpoint throws away what is ready there. *)
LEMMA HeldClose ==
  ASSUME NEW eps, DOMAIN eps \subseteq Addrs, eps \in [DOMAIN eps -> Endpoint],
         NEW a \in DOMAIN eps, NEW f \in [DOMAIN eps \ {a} -> Endpoint],
         \A b \in DOMAIN f : f[b] = eps[b]
  PROVE  Held(eps) = Held(f) + Len(eps[a].ready)
  <1> DEFINE D == DOMAIN eps
             rest == [b \in D \ {a} |-> Lengths(eps)[b]]
  <1>1. DOMAIN f = D \ {a} /\ DOMAIN f \subseteq Addrs /\ f \in [DOMAIN f -> Endpoint]
    OBVIOUS
  <1>2. /\ IsFiniteSet(D) /\ Lengths(eps) \in [D -> Nat] /\ Held(eps) = Total(D, Lengths(eps))
        /\ \A b \in D : Lengths(eps)[b] = Len(eps[b].ready)
    BY HeldIs
  <1>3. Held(f) = Total(D \ {a}, Lengths(f))
    BY <1>1, HeldIs
  <1>4. Lengths(f) = rest
    BY <1>1, <1>2 DEF Lengths
  <1>5. Total(D, Lengths(eps)) = Total(D \ {a}, rest) + Lengths(eps)[a]
    BY <1>2, PlacesWithout
  <1> QED BY <1>2, <1>3, <1>4, <1>5

(* Nothing is ready at an endpoint that was just bound, ... *)
LEMMA HeldBind ==
  ASSUME NEW eps, DOMAIN eps \subseteq Addrs, eps \in [DOMAIN eps -> Endpoint],
         NEW a \in Addrs \ DOMAIN eps, NEW f \in [DOMAIN eps \cup {a} -> Endpoint],
         \A b \in DOMAIN eps : f[b] = eps[b], f[a].ready = << >>
  PROVE  Held(f) = Held(eps)
  <1>1. DOMAIN f = DOMAIN eps \cup {a} /\ DOMAIN f \subseteq Addrs /\ f \in [DOMAIN f -> Endpoint]
    OBVIOUS
  <1>2. eps \in [DOMAIN f \ {a} -> Endpoint]
    BY <1>1
  <1>3. Len(f[a].ready) = 0
    OBVIOUS
  <1>4. Held(f) = Held(eps) + Len(f[a].ready)
    BY <1>1, <1>2, HeldClose
  <1>5. Held(eps) \in Nat
    BY HeldIs
  <1> QED BY <1>3, <1>4, <1>5

(* ... or anywhere when all ready queues are empty. *)
LEMMA HeldNone ==
  ASSUME NEW eps, DOMAIN eps \subseteq Addrs, eps \in [DOMAIN eps -> Endpoint],
         \A a \in DOMAIN eps : eps[a].ready = << >>
  PROVE  Held(eps) = 0
  <1>1. /\ Lengths(eps) \in [DOMAIN eps -> Nat] /\ Held(eps) = Total(DOMAIN eps, Lengths(eps))
        /\ \A b \in DOMAIN eps : Lengths(eps)[b] = Len(eps[b].ready)
    BY HeldIs
  <1>2. \A b \in DOMAIN eps : Lengths(eps)[b] = 0
    BY <1>1, Len(<< >>) = 0
  <1> QED BY <1>1, <1>2, PlacesNone

-----------------------------------------------------------------------------
(* The inductive invariant: the types of the fields, and the order in the  *)
(* net.  That datagrams are conserved is inductive only together with it:  *)
(* what close counts as dropped must be what leaves the list.              *)
Fields ==
  /\ params \in ParamSets /\ clock \in 0..MaxTime /\ stat \in Stats
  /\ binds \in 0..MaxBinds /\ faults \in 0..MaxFaults /\ vanished \in Nat

InOrder == Fine(pending, endpoints, stat.enqueued, clock, rewinds)

Inv == Fields /\ InOrder

(* What the proofs about the actions need of it. *)
LEMMA InvFacts ==
  ASSUME Inv
  PROVE  /\ MaxSends \in Nat /\ MaxTime \in Nat /\ MaxBinds \in Nat /\ MaxFaults \in Nat
         /\ clock \in Nat /\ stat.enqueued \in Nat
         /\ Bound \subseteq Addrs /\ endpoints \in [Bound -> Endpoint]
         /\ pending \in Queue /\ Len(pending) \in Nat /\ Held(endpoints) \in Nat
  <1>1. MaxSends \in Nat /\ MaxTime \in Nat /\ MaxBinds \in Nat /\ MaxFaults \in Nat
    BY BoundsAssumption
  <1>2. clock \in Nat /\ stat.enqueued \in Nat
    BY <1>1 DEF Inv, Fields, Stats
  <1>3. /\ DOMAIN endpoints \subseteq Addrs /\ endpoints \in [DOMAIN endpoints -> Endpoint]
        /\ pending \in Queue
    BY DEF Inv, InOrder, Fine
  <1>4. Held(endpoints) \in Nat
    BY <1>3, HeldIs
  <1>5. Len(pending) \in Nat
    BY <1>3, QueueKept
  <1> QED BY <1>1, <1>2, <1>3, <1>4, <1>5 DEF Bound

(* What is in flight, in terms of the proofs. *)
LEMMA InFlightIs ==
  /\ AllInFlight = Len(pending) + Held(endpoints)
  /\ AllInFlight' = Len(pending') + Held(endpoints')
  BY DEF AllInFlight, Ready, Held, Bound

(* The conservation in terms of the fields. *)
LEMMA ConservedIs ==
  /\ DatagramsConserved <=>
       stat.enqueued + stat.duplicated =
         stat.delivered + stat.dropped + stat.queueFull + vanished
           + (Len(pending) + Held(endpoints))
  /\ DatagramsConserved' <=>
       stat'.enqueued + stat'.duplicated =
         stat'.delivered + stat'.dropped + stat'.queueFull + vanished'
           + (Len(pending') + Held(endpoints'))
  BY InFlightIs DEF DatagramsConserved

(* The invariant contains the type invariant. *)
LEMMA InvTypes ==
  ASSUME Inv
  PROVE  TypeOK
  <1>1. rewinds \subseteq 0..MaxSends
    BY InvFacts DEF Inv, InOrder, Fine
  <1> QED BY <1>1, InvFacts DEF Inv, Fields, TypeOK, Queue

(* Every byte is accounted for: this is a part of the order at each        *)
(* endpoint. *)
LEMMA InvBytes ==
  ASSUME Inv
  PROVE  BytesAccounted
  BY DEF Inv, InOrder, Fine, EndpointFine, BytesAccounted, InFlight, Bound

(* Nothing is inherited, by the datagrams in the list and the ready ones. *)
LEMMA InvInherits ==
  ASSUME Inv
  PROVE  NothingInherited
  <1>1. pending \in Queue /\ Range(pending) = {pending[i] : i \in DOMAIN pending}
    BY DEF Range, Inv, InOrder, Fine
  <1>2. \A d \in Range(pending) :
          d.dest \in DOMAIN endpoints /\ d.data > endpoints[d.dest].since
    BY DEF Inv, InOrder, Fine
  <1>3. ASSUME NEW a \in Bound, NEW i \in DOMAIN InFlight(a)
        PROVE  InFlight(a)[i].dest = a /\ InFlight(a)[i].data > endpoints[a].since
    <2> DEFINE r == endpoints[a].ready
               k == To(pending, a)
               w == k \o r
    <2>1. /\ k \in Queue /\ r \in Queue
          /\ Range(k) = {d \in Range(pending) : d.dest \in {a}}
      BY <1>1, InvFacts, EndpointType, QueueKept DEF To
    <2>2. \A d \in Range(r) : d.dest = a /\ d.data > endpoints[a].since
      BY DEF Inv, InOrder, Fine, EndpointFine, Bound
    <2>3. w \in Queue /\ Range(w) = Range(k) \cup Range(r)
      BY <2>1, QueueConcat
    <2>4. \A d \in Range(w) : d.dest = a /\ d.data > endpoints[a].since
      BY <1>2, <2>1, <2>2, <2>3
    <2> HIDE DEF w
    <2>5. InFlight(a) = w
      BY DEF InFlight, w
    <2>6. w[i] \in Range(w)
      BY <2>5 DEF Range
    <2> QED BY <2>4, <2>5, <2>6
  <1> QED BY <1>1, <1>2, <1>3 DEF NothingInherited, Bound

(* And what is delivered is in order: what is under way is sorted, and     *)
(* what is ready is in turn before it. *)
LEMMA InvDelivers ==
  ASSUME Inv
  PROVE  DeliveryOrder
  <1> SUFFICES ASSUME NEW a \in Bound
               PROVE  /\ \A i, j \in DOMAIN Journey(a) :
                           i < j => \/ Before(Journey(a)[i], Journey(a)[j])
                                    \/ /\ i \in DOMAIN endpoints[a].ready
                                       /\ SetBackBetween(Journey(a)[i], Journey(a)[j])
                      /\ \A i \in DOMAIN endpoints[a].ready :
                           \/ endpoints[a].ready[i].at <= clock
                           \/ SetBackSince(endpoints[a].ready[i])
    BY DEF DeliveryOrder
  <1> DEFINE r == endpoints[a].ready
             k == To(pending, a)
             w == r \o k
  <1>1. Ordered(w, rewinds) /\ \A d \in Range(r) : WasDue(d, clock, rewinds)
    BY DEF Inv, InOrder, Fine, EndpointFine, Bound
  <1>2. /\ pending \in Queue /\ Sorted(pending)
        /\ r \in Seq(Datagram) /\ k \in Seq(Datagram)
    BY InvFacts, EndpointType, QueueKept DEF To, Queue, Inv, InOrder, Fine
  <1>3. Sorted(k)
    BY <1>2, SentToSorted DEF To, Queue
  <1>4. /\ DOMAIN w = 1..Len(w) /\ Len(w) = Len(r) + Len(k)
        /\ Len(r) \in Nat /\ Len(k) \in Nat /\ DOMAIN r = 1..Len(r)
        /\ \A i \in 1..Len(k) : w[Len(r) + i] = k[i]
    BY <1>2
  <1>5. \A i \in DOMAIN r : r[i] \in Range(r)
    BY DEF Range
  <1> HIDE DEF r, k, w
  <1>6. ASSUME NEW i \in DOMAIN w, NEW j \in DOMAIN w, i < j
        PROVE  Before(w[i], w[j]) \/ (i \in DOMAIN r /\ SetBackBetween(w[i], w[j]))
    <2>1. CASE i \in DOMAIN r
      <3>1. InTurn(w[i], w[j], rewinds)
        BY <1>1, <1>4, <1>6 DEF Ordered
      <3> QED BY <2>1, <3>1 DEF InTurn, Between, SetBackBetween
    <2>2. CASE i \notin DOMAIN r
      <3> DEFINE first == Len(r)
                 all == Len(w)
                 m == i - first
                 n == j - first
      <3>1. /\ first \in Nat /\ Len(k) \in Nat /\ all = first + Len(k)
            /\ i \in 1..all /\ j \in 1..all /\ i \notin 1..first /\ i < j
        BY <1>4, <1>6, <2>2
      <3> HIDE DEF first, all
      <3> DEFINE last == Len(k)
      <3>2. last \in Nat /\ all = first + last
        BY <3>1
      <3> HIDE DEF last
      <3>3. /\ m \in 1..last /\ n \in 1..last /\ m < n
            /\ first + m = i /\ first + n = j
        BY <3>1, <3>2
      <3>4. m \in 1..Len(k) /\ n \in 1..Len(k)
        BY <3>3 DEF last
      <3> HIDE DEF m, n
      <3>5. w[i] = k[m] /\ w[j] = k[n]
        BY <1>4, <3>3, <3>4 DEF first
      <3> QED BY <1>3, <3>3, <3>4, <3>5 DEF Sorted
    <2> QED BY <2>1, <2>2
  <1>7. Journey(a) = w
    BY DEF Journey, r, k, w
  <1>8. \A i \in DOMAIN r : r[i].at <= clock \/ SetBackSince(r[i])
    BY <1>1, <1>5 DEF WasDue, SetBackSince
  <1> QED BY <1>6, <1>7, <1>8 DEF r

(* It holds initially, when there is nothing. *)
LEMMA InitInv ==
  ASSUME Init
  PROVE  Inv /\ DatagramsConserved
  <1>1. DOMAIN << >> = {} /\ << >> \in [{} -> Endpoint]
    OBVIOUS
  <1>2. Held(<< >>) = 0
    BY <1>1, HeldNone
  <1>3. MaxSends \in Nat /\ MaxTime \in Nat /\ MaxBinds \in Nat /\ MaxFaults \in Nat
    BY BoundsAssumption
  <1>4. stat \in Stats /\ stat.enqueued = 0 /\ stat = ZeroStats
    BY <1>3 DEF Init, ZeroStats, Stats
  <1>5. Fields
    BY <1>3, <1>4 DEF Init, Fields
  <1>6. InOrder
    BY <1>4, FineEmpty DEF Init, InOrder
  <1>7. DatagramsConserved
    BY <1>2, <1>4, ConservedIs, Len(<< >>) = 0 DEF Init, ZeroStats
  <1> QED BY <1>5, <1>6, <1>7 DEF Inv

-----------------------------------------------------------------------------
(* The actions.  What a copy adds to the list and to the bytes of its      *)
(* destination keeps the net in order, and is one datagram more.           *)
LEMMA CopyAdds ==
  ASSUME NEW queue, NEW eps, NEW sent, NEW now, NEW back, Fine(queue, eps, sent, now, back),
         NEW d \in Datagram, d.dest \in DOMAIN eps, d.data = sent,
         d.data > eps[d.dest].since, d.at >= now, \A n \in back : n < d.data,
         NEW len, len = d.len
  PROVE  LET f == [eps EXCEPT ![d.dest].bytes = @ + len]
         IN  /\ Fine(PendingInsert(queue, d), f, sent, now, back)
             /\ Held(f) = Held(eps)
             /\ Len(PendingInsert(queue, d)) = Len(queue) + 1
             /\ \A a \in DOMAIN eps : f[a].since = eps[a].since
  <1> DEFINE f == [eps EXCEPT ![d.dest].bytes = @ + len]
  <1>1. /\ DOMAIN eps \subseteq Addrs /\ eps \in [DOMAIN eps -> Endpoint]
        /\ DOMAIN f = DOMAIN eps /\ queue \in Queue
    BY DEF Fine
  <1>2. Fine(PendingInsert(queue, d), f, sent, now, back)
    BY FineInsert
  <1>3. f \in [DOMAIN eps -> Endpoint]
    BY <1>1, <1>2 DEF Fine
  <1>4. \A a \in DOMAIN eps : a # d.dest => f[a] = eps[a]
    BY <1>1
  <1>5. /\ f[d.dest].ready = eps[d.dest].ready
        /\ f[d.dest].since = eps[d.dest].since
    <2>1. f[d.dest] = [eps[d.dest] EXCEPT !.bytes = eps[d.dest].bytes + len]
      BY <1>1
    <2>2. eps[d.dest] \in Endpoint
      BY <1>1
    <2> HIDE DEF f
    <2>3. f[d.dest] = [ready |-> eps[d.dest].ready, bytes |-> eps[d.dest].bytes + len,
                       since |-> eps[d.dest].since]
      BY <2>1, <2>2, EndpointExcept
    <2> QED BY <2>3
  <1> HIDE DEF f
  <1>6. \A a \in DOMAIN eps : f[a].ready = eps[a].ready /\ f[a].since = eps[a].since
    BY <1>4, <1>5
  <1>7. Held(f) = Held(eps)
    BY <1>1, <1>3, <1>6, HeldSame
  <1>8. Len(PendingInsert(queue, d)) = Len(queue) + 1
    BY <1>1, InsertAdds
  <1> QED BY <1>2, <1>6, <1>7, <1>8 DEF f

(* The delays are natural numbers. *)
LEMMA DelaysType ==
  ASSUME params \in ParamSets
  PROVE  Delays \subseteq Nat
  <1>1. /\ params.latencyMin \in Nat /\ params.latencyMax \in Nat
        /\ params.swapMin \in Nat /\ params.swapMax \in Nat
    BY ParamsAssumption
  <1>2. \A lo, hi \in Nat : Uniform(lo, hi) \subseteq Nat
    BY DEF Uniform
  <1>3. ASSUME NEW delay \in Delays
        PROVE  delay \in Nat
    <2>1. PICK ms \in Uniform(params.latencyMin, params.latencyMax),
               extra \in UNION { IF swap THEN Uniform(params.swapMin, params.swapMax)
                                 ELSE {0} : swap \in Chance(params.reorder) } :
            delay = ms + extra
      BY DEF Delays
    <2>2. PICK swap \in Chance(params.reorder) :
            extra \in (IF swap THEN Uniform(params.swapMin, params.swapMax) ELSE {0})
      OBVIOUS
    <2>3. ms \in Nat /\ extra \in Nat
      BY <1>1, <1>2, <2>2
    <2> QED BY <2>1, <2>3
  <1> QED BY <1>3

(* A copy is a datagram that is due no earlier than now. *)
LEMMA CopyType ==
  ASSUME Inv, stat.enqueued < MaxSends, NEW dest \in Bound, NEW len \in Lens, NEW delay \in Delays
  PROVE  LET d == Copy(dest, len, delay)
         IN  /\ d \in Datagram /\ d.dest = dest /\ d.len = len
             /\ d.data = stat.enqueued + 1 /\ d.at >= clock
             /\ d.data > endpoints[dest].since /\ \A n \in rewinds : n < d.data
  <1>1. delay \in Nat
    BY DelaysType DEF Inv, Fields
  <1>2. /\ clock \in Nat /\ stat.enqueued \in Nat /\ MaxSends \in Nat
        /\ dest \in Addrs /\ stat.enqueued < MaxSends
    BY InvFacts
  <1>3. stat.enqueued + 1 \in 1..MaxSends /\ clock + delay \in Nat /\ clock + delay >= clock
    BY <1>1, <1>2
  <1>4. endpoints[dest].since \in Nat /\ endpoints[dest].since <= stat.enqueued
    BY InvFacts, EndpointType DEF Inv, InOrder, Fine, EndpointFine, Bound
  <1>5. Copy(dest, len, delay) \in Datagram
    BY <1>2, <1>3 DEF Copy, Datagram
  <1>6. \A n \in rewinds : n < stat.enqueued + 1
    BY <1>2 DEF Inv, InOrder, Fine
  <1> QED BY <1>2, <1>3, <1>4, <1>5, <1>6 DEF Copy

(* One copy. *)
LEMMA OneCopy ==
  ASSUME Inv, stat.enqueued < MaxSends, NEW dest \in Bound, NEW len \in Lens, NEW delay \in Delays,
         EnqueueCopy(dest, len, delay), clock' = clock, rewinds' = rewinds,
         stat'.enqueued = stat.enqueued + 1
  PROVE  /\ InOrder'
         /\ Len(pending') = Len(pending) + 1 /\ Held(endpoints') = Held(endpoints)
  <1> DEFINE d == Copy(dest, len, delay)
             n == stat.enqueued + 1
  <1>1. /\ d \in Datagram /\ d.dest = dest /\ d.len = len /\ d.data = n /\ d.at >= clock
        /\ d.data > endpoints[d.dest].since /\ \A i \in rewinds : i < d.data
    BY CopyType
  <1>2. Fine(pending, endpoints, n, clock, rewinds)
    BY FineSent DEF Inv, InOrder
  <1>3. pending' = PendingInsert(pending, d)
    BY DEF EnqueueCopy
  <1>4. endpoints' = [endpoints EXCEPT ![d.dest].bytes = @ + len]
    BY <1>1 DEF EnqueueCopy
  <1> HIDE DEF d, n
  <1>5. /\ Fine(PendingInsert(pending, d), endpoints', n, clock, rewinds)
        /\ Held(endpoints') = Held(endpoints)
        /\ Len(PendingInsert(pending, d)) = Len(pending) + 1
    <2> DEFINE g == [endpoints EXCEPT ![d.dest].bytes = @ + len]
    <2>1. /\ Fine(PendingInsert(pending, d), g, n, clock, rewinds)
          /\ Held(g) = Held(endpoints)
          /\ Len(PendingInsert(pending, d)) = Len(pending) + 1
      BY <1>1, <1>2, CopyAdds DEF Bound
    <2>2. endpoints' = g
      BY <1>4
    <2> HIDE DEF g
    <2> QED BY <2>1, <2>2
  <1> QED BY <1>3, <1>5 DEF InOrder, n

(* Two copies. *)
LEMMA TwoCopies ==
  ASSUME Inv, stat.enqueued < MaxSends, NEW dest \in Bound, NEW len \in Lens,
         NEW delay \in Delays, NEW again \in Delays,
         EnqueueCopies(dest, len, delay, again), clock' = clock, rewinds' = rewinds,
         stat'.enqueued = stat.enqueued + 1
  PROVE  /\ InOrder'
         /\ Len(pending') = Len(pending) + 2 /\ Held(endpoints') = Held(endpoints)
  <1> DEFINE d == Copy(dest, len, delay)
             e == Copy(dest, len, again)
             n == stat.enqueued + 1
             q == PendingInsert(pending, d)
             f == [endpoints EXCEPT ![dest].bytes = @ + len]
  <1>1. /\ d \in Datagram /\ d.dest = dest /\ d.len = len /\ d.data = n /\ d.at >= clock
        /\ d.data > endpoints[d.dest].since /\ \A i \in rewinds : i < d.data
    BY CopyType
  <1>2. /\ e \in Datagram /\ e.dest = dest /\ e.len = len /\ e.data = n /\ e.at >= clock
        /\ e.data > endpoints[e.dest].since /\ \A i \in rewinds : i < e.data
    BY CopyType
  <1>3. Fine(pending, endpoints, n, clock, rewinds)
    BY FineSent DEF Inv, InOrder
  <1>4. pending' = PendingInsert(q, e)
    BY DEF EnqueueCopies
  <1>5. endpoints' = [f EXCEPT ![dest].bytes = @ + len]
    <2>1. /\ endpoints \in [Bound -> Endpoint] /\ dest \in DOMAIN endpoints
          /\ endpoints[dest].bytes \in Nat /\ len \in Nat
      BY InvFacts, EndpointType, LensAssumption DEF Bound
    <2>2. (endpoints[dest].bytes + len) + len = endpoints[dest].bytes + 2 * len
      BY <2>1
    <2>3. endpoints' = [endpoints EXCEPT ![dest].bytes = endpoints[dest].bytes + 2 * len]
      BY DEF EnqueueCopies
    <2>4. [f EXCEPT ![dest].bytes = @ + len]
            = [endpoints EXCEPT ![dest].bytes = (endpoints[dest].bytes + len) + len]
      <3> DEFINE was == endpoints[dest]
                 b == was.bytes + len
                 w == [was EXCEPT !.bytes = b]
      <3>1. f = [endpoints EXCEPT ![dest] = w]
        BY Zenon
      <3>2. was \in Endpoint
        BY <2>1 DEF Bound
      <3> HIDE DEF was, f
      <3>3. w = [ready |-> was.ready, bytes |-> b, since |-> was.since]
        BY <3>2, EndpointExcept
      <3> HIDE DEF w, b
      <3>4. [w EXCEPT !.bytes = b + len] = [ready |-> was.ready, bytes |-> b + len, since |-> was.since]
        BY <3>3
      <3>5. [was EXCEPT !.bytes = b + len] = [ready |-> was.ready, bytes |-> b + len, since |-> was.since]
        BY <3>2, EndpointExcept
      <3>6. w.bytes = b
        BY <3>3
      <3>7. f[dest] = w
        BY <2>1, <3>1
      <3>8. [f EXCEPT ![dest].bytes = @ + len] = [f EXCEPT ![dest] = [w EXCEPT !.bytes = b + len]]
        BY <3>6, <3>7, Zenon
      <3>9. [f EXCEPT ![dest] = [w EXCEPT !.bytes = b + len]]
              = [endpoints EXCEPT ![dest] = [was EXCEPT !.bytes = b + len]]
        <4> DEFINE x == [w EXCEPT !.bytes = b + len]
                   y == [was EXCEPT !.bytes = b + len]
        <4>1. x = y
          BY <3>4, <3>5
        <4> HIDE DEF x, y
        <4>2. [f EXCEPT ![dest] = x] = [endpoints EXCEPT ![dest] = x]
          BY <2>1, <3>1
        <4> QED BY <4>1, <4>2 DEF x, y
      <3> QED BY <3>8, <3>9, Zenon DEF was, b
    <2> QED BY <2>2, <2>3, <2>4
  <1> HIDE DEF d, e, n, q
  <1>6. /\ Fine(q, f, n, clock, rewinds)
        /\ Held(f) = Held(endpoints)
        /\ Len(q) = Len(pending) + 1
        /\ \A a \in DOMAIN endpoints : f[a].since = endpoints[a].since
    <2> DEFINE g == [endpoints EXCEPT ![d.dest].bytes = @ + len]
    <2>1. f = g
      BY <1>1
    <2>2. d.dest \in DOMAIN endpoints
      BY <1>1 DEF Bound
    <2> HIDE DEF f
    <2>3. /\ Fine(PendingInsert(pending, d), g, n, clock, rewinds)
          /\ Held(g) = Held(endpoints)
          /\ Len(PendingInsert(pending, d)) = Len(pending) + 1
          /\ \A a \in DOMAIN endpoints : g[a].since = endpoints[a].since
      BY <1>1, <1>3, <2>2, CopyAdds
    <2>4. q = PendingInsert(pending, d)
      BY DEF q
    <2> HIDE DEF g
    <2> QED BY <2>1, <2>3, <2>4, Zenon
  <1>7. DOMAIN f = DOMAIN endpoints
    OBVIOUS
  <1> HIDE DEF f
  <1>8. dest \in DOMAIN f /\ e.data > f[e.dest].since
    BY <1>2, <1>6, <1>7 DEF Bound
  <1>9. /\ Fine(PendingInsert(q, e), endpoints', n, clock, rewinds)
        /\ Held(endpoints') = Held(f)
        /\ Len(PendingInsert(q, e)) = Len(q) + 1
    <2> DEFINE g == [f EXCEPT ![e.dest].bytes = @ + len]
    <2>1. endpoints' = g
      BY <1>2, <1>5
    <2>2. /\ Fine(PendingInsert(q, e), g, n, clock, rewinds)
          /\ Held(g) = Held(f)
          /\ Len(PendingInsert(q, e)) = Len(q) + 1
      BY <1>2, <1>6, <1>8, CopyAdds
    <2> HIDE DEF g
    <2> QED BY <2>1, <2>2
  <1>10. Len(pending') = Len(pending) + 2
    BY <1>4, <1>6, <1>9, InvFacts
  <1> QED BY <1>4, <1>6, <1>9, <1>10 DEF InOrder, n

(* Counting changes one counter and keeps the others. *)
LEMMA StatsExcept ==
  ASSUME NEW s \in Stats, NEW x
  PROVE  /\ [s EXCEPT !.enqueued = x]
              = [enqueued |-> x, delivered |-> s.delivered, dropped |-> s.dropped,
                 duplicated |-> s.duplicated, queueFull |-> s.queueFull]
         /\ [s EXCEPT !.delivered = x]
              = [enqueued |-> s.enqueued, delivered |-> x, dropped |-> s.dropped,
                 duplicated |-> s.duplicated, queueFull |-> s.queueFull]
         /\ [s EXCEPT !.dropped = x]
              = [enqueued |-> s.enqueued, delivered |-> s.delivered, dropped |-> x,
                 duplicated |-> s.duplicated, queueFull |-> s.queueFull]
  BY DEF Stats

(* Counters that have grown. *)
Plus(s, en, de, dr, du, fu) ==
  [enqueued |-> s.enqueued + en, delivered |-> s.delivered + de,
   dropped |-> s.dropped + dr, duplicated |-> s.duplicated + du,
   queueFull |-> s.queueFull + fu]

(* Their fields, of which the sends are bounded. *)
LEMMA PlusIs ==
  ASSUME NEW s \in Stats, NEW en \in Nat, NEW de \in Nat, NEW dr \in Nat, NEW du \in Nat,
         NEW fu \in Nat
  PROVE  /\ s.enqueued \in Nat /\ s.delivered \in Nat /\ s.dropped \in Nat
         /\ s.duplicated \in Nat /\ s.queueFull \in Nat
         /\ Plus(s, en, de, dr, du, fu).enqueued = s.enqueued + en
         /\ Plus(s, en, de, dr, du, fu).delivered = s.delivered + de
         /\ Plus(s, en, de, dr, du, fu).dropped = s.dropped + dr
         /\ Plus(s, en, de, dr, du, fu).duplicated = s.duplicated + du
         /\ Plus(s, en, de, dr, du, fu).queueFull = s.queueFull + fu
         /\ s.enqueued + en <= MaxSends => Plus(s, en, de, dr, du, fu) \in Stats
  <1>1. /\ s.enqueued \in 0..MaxSends /\ MaxSends \in Nat
        /\ s.delivered \in Nat /\ s.dropped \in Nat /\ s.duplicated \in Nat
        /\ s.queueFull \in Nat
    BY BoundsAssumption DEF Stats
  <1>2. s.enqueued \in Nat
    BY <1>1
  <1>3. /\ s.delivered + de \in Nat /\ s.dropped + dr \in Nat /\ s.duplicated + du \in Nat
        /\ s.queueFull + fu \in Nat
        /\ s.enqueued + en <= MaxSends => s.enqueued + en \in 0..MaxSends
    BY <1>1, <1>2
  <1> QED BY <1>1, <1>2, <1>3 DEF Plus, Stats

(* The counting of the actions. *)
LEMMA PlusExcept ==
  ASSUME NEW s \in Stats
  PROVE  /\ [s EXCEPT !.enqueued = @ + 1] = Plus(s, 1, 0, 0, 0, 0)
         /\ [s EXCEPT !.enqueued = @ + 1, !.dropped = @ + 1] = Plus(s, 1, 0, 1, 0, 0)
         /\ [s EXCEPT !.enqueued = @ + 1, !.queueFull = @ + 1] = Plus(s, 1, 0, 0, 0, 1)
         /\ [s EXCEPT !.enqueued = @ + 1, !.duplicated = @ + 1] = Plus(s, 1, 0, 0, 1, 0)
         /\ [s EXCEPT !.delivered = @ + 1] = Plus(s, 0, 1, 0, 0, 0)
         /\ \A n \in Nat : [s EXCEPT !.dropped = @ + n] = Plus(s, 0, 0, n, 0, 0)
  <1>1. /\ s.enqueued + 0 = s.enqueued /\ s.delivered + 0 = s.delivered
        /\ s.dropped + 0 = s.dropped /\ s.duplicated + 0 = s.duplicated
        /\ s.queueFull + 0 = s.queueFull
    BY PlusIs
  <1>2. [s EXCEPT !.enqueued = s.enqueued + 1] = Plus(s, 1, 0, 0, 0, 0)
    <2>1. [s EXCEPT !.enqueued = s.enqueued + 1]
            = [enqueued |-> s.enqueued + 1, delivered |-> s.delivered, dropped |-> s.dropped,
               duplicated |-> s.duplicated, queueFull |-> s.queueFull]
      BY StatsExcept, Zenon
    <2>2. [enqueued |-> s.enqueued + 1, delivered |-> s.delivered, dropped |-> s.dropped,
           duplicated |-> s.duplicated, queueFull |-> s.queueFull]
            = Plus(s, 1, 0, 0, 0, 0)
      BY <1>1, Zenon DEF Plus
    <2> QED BY <2>1, <2>2, Zenon
  <1>3. [s EXCEPT !.delivered = s.delivered + 1] = Plus(s, 0, 1, 0, 0, 0)
    <2>1. [s EXCEPT !.delivered = s.delivered + 1]
            = [enqueued |-> s.enqueued, delivered |-> s.delivered + 1, dropped |-> s.dropped,
               duplicated |-> s.duplicated, queueFull |-> s.queueFull]
      BY StatsExcept, Zenon
    <2>2. [enqueued |-> s.enqueued, delivered |-> s.delivered + 1, dropped |-> s.dropped,
           duplicated |-> s.duplicated, queueFull |-> s.queueFull]
            = Plus(s, 0, 1, 0, 0, 0)
      BY <1>1, Zenon DEF Plus
    <2> QED BY <2>1, <2>2, Zenon
  <1>4. [s EXCEPT !.enqueued = s.enqueued + 1, !.dropped = s.dropped + 1] = Plus(s, 1, 0, 1, 0, 0)
    <2>1. [s EXCEPT !.enqueued = s.enqueued + 1, !.dropped = s.dropped + 1]
            = [enqueued |-> s.enqueued + 1, delivered |-> s.delivered, dropped |-> s.dropped + 1,
               duplicated |-> s.duplicated, queueFull |-> s.queueFull]
      <3> DEFINE x == s.enqueued + 1
                 y == s.dropped + 1
                 t == [s EXCEPT !.enqueued = x]
      <3>1. [s EXCEPT !.enqueued = x, !.dropped = y] = [t EXCEPT !.dropped = y]
        BY Zenon
      <3> HIDE DEF x, y
      <3>2. t = [enqueued |-> x, delivered |-> s.delivered, dropped |-> s.dropped,
                 duplicated |-> s.duplicated, queueFull |-> s.queueFull]
        BY StatsExcept
      <3> HIDE DEF t
      <3>3. [t EXCEPT !.dropped = y]
              = [enqueued |-> x, delivered |-> s.delivered, dropped |-> y,
                 duplicated |-> s.duplicated, queueFull |-> s.queueFull]
        BY <3>2
      <3> QED BY <3>1, <3>3, Zenon DEF x, y
    <2>2. [enqueued |-> s.enqueued + 1, delivered |-> s.delivered, dropped |-> s.dropped + 1,
           duplicated |-> s.duplicated, queueFull |-> s.queueFull]
            = Plus(s, 1, 0, 1, 0, 0)
      BY <1>1, Zenon DEF Plus
    <2> QED BY <2>1, <2>2, Zenon
  <1>5. [s EXCEPT !.enqueued = s.enqueued + 1, !.queueFull = s.queueFull + 1] = Plus(s, 1, 0, 0, 0, 1)
    <2>1. [s EXCEPT !.enqueued = s.enqueued + 1, !.queueFull = s.queueFull + 1]
            = [enqueued |-> s.enqueued + 1, delivered |-> s.delivered, dropped |-> s.dropped,
               duplicated |-> s.duplicated, queueFull |-> s.queueFull + 1]
      <3> DEFINE x == s.enqueued + 1
                 y == s.queueFull + 1
                 t == [s EXCEPT !.enqueued = x]
      <3>1. [s EXCEPT !.enqueued = x, !.queueFull = y] = [t EXCEPT !.queueFull = y]
        BY Zenon
      <3> HIDE DEF x, y
      <3>2. t = [enqueued |-> x, delivered |-> s.delivered, dropped |-> s.dropped,
                 duplicated |-> s.duplicated, queueFull |-> s.queueFull]
        BY StatsExcept
      <3> HIDE DEF t
      <3>3. [t EXCEPT !.queueFull = y]
              = [enqueued |-> x, delivered |-> s.delivered, dropped |-> s.dropped,
                 duplicated |-> s.duplicated, queueFull |-> y]
        BY <3>2
      <3> QED BY <3>1, <3>3, Zenon DEF x, y
    <2>2. [enqueued |-> s.enqueued + 1, delivered |-> s.delivered, dropped |-> s.dropped,
           duplicated |-> s.duplicated, queueFull |-> s.queueFull + 1]
            = Plus(s, 1, 0, 0, 0, 1)
      BY <1>1, Zenon DEF Plus
    <2> QED BY <2>1, <2>2, Zenon
  <1>6. [s EXCEPT !.enqueued = s.enqueued + 1, !.duplicated = s.duplicated + 1] = Plus(s, 1, 0, 0, 1, 0)
    <2>1. [s EXCEPT !.enqueued = s.enqueued + 1, !.duplicated = s.duplicated + 1]
            = [enqueued |-> s.enqueued + 1, delivered |-> s.delivered, dropped |-> s.dropped,
               duplicated |-> s.duplicated + 1, queueFull |-> s.queueFull]
      <3> DEFINE x == s.enqueued + 1
                 y == s.duplicated + 1
                 t == [s EXCEPT !.enqueued = x]
      <3>1. [s EXCEPT !.enqueued = x, !.duplicated = y] = [t EXCEPT !.duplicated = y]
        BY Zenon
      <3> HIDE DEF x, y
      <3>2. t = [enqueued |-> x, delivered |-> s.delivered, dropped |-> s.dropped,
                 duplicated |-> s.duplicated, queueFull |-> s.queueFull]
        BY StatsExcept
      <3> HIDE DEF t
      <3>3. [t EXCEPT !.duplicated = y]
              = [enqueued |-> x, delivered |-> s.delivered, dropped |-> s.dropped,
                 duplicated |-> y, queueFull |-> s.queueFull]
        BY <3>2
      <3> QED BY <3>1, <3>3, Zenon DEF x, y
    <2>2. [enqueued |-> s.enqueued + 1, delivered |-> s.delivered, dropped |-> s.dropped,
           duplicated |-> s.duplicated + 1, queueFull |-> s.queueFull]
            = Plus(s, 1, 0, 0, 1, 0)
      BY <1>1, Zenon DEF Plus
    <2> QED BY <2>1, <2>2, Zenon
  <1>7. ASSUME NEW n \in Nat
        PROVE  [s EXCEPT !.dropped = s.dropped + n] = Plus(s, 0, 0, n, 0, 0)
    <2>1. [s EXCEPT !.dropped = s.dropped + n]
            = [enqueued |-> s.enqueued, delivered |-> s.delivered, dropped |-> s.dropped + n,
               duplicated |-> s.duplicated, queueFull |-> s.queueFull]
      BY StatsExcept, Zenon
    <2>2. [enqueued |-> s.enqueued, delivered |-> s.delivered, dropped |-> s.dropped + n,
           duplicated |-> s.duplicated, queueFull |-> s.queueFull]
            = Plus(s, 0, 0, n, 0, 0)
      BY <1>1, Zenon DEF Plus
    <2> QED BY <2>1, <2>2, Zenon
  <1> QED BY <1>2, <1>3, <1>4, <1>5, <1>6, <1>7, Zenon

(* Both sides of a balance grow by the same. *)
LEMMA SumsGrow ==
  ASSUME NEW a \in Nat, NEW b \in Nat, NEW c \in Nat, NEW d \in Nat, NEW e \in Nat,
         NEW v \in Nat, NEW m \in Nat, NEW n \in Nat,
         NEW en \in Nat, NEW de \in Nat, NEW dr \in Nat, NEW du \in Nat, NEW fu \in Nat,
         NEW va \in Nat,
         a + b = c + d + e + v + m, n + (de + dr + fu + va) = m + (en + du)
  PROVE  (a + en) + (b + du) = (c + de) + (d + dr) + (e + fu) + (v + va) + n
  OBVIOUS

(* An action counts what it does to the datagrams in flight. *)
Gains(en, de, dr, du, fu, va) ==
  /\ stat' = Plus(stat, en, de, dr, du, fu)
  /\ vanished' = vanished + va
  /\ stat.enqueued + en <= MaxSends
  /\ Len(pending') \in Nat /\ Held(endpoints') \in Nat
  /\ (Len(pending') + Held(endpoints')) + (de + dr + fu + va)
       = (Len(pending) + Held(endpoints)) + (en + du)

(* Then the counters keep their types, and the datagrams are conserved. *)
LEMMA Balance ==
  ASSUME Inv, NEW en \in Nat, NEW de \in Nat, NEW dr \in Nat, NEW du \in Nat,
         NEW fu \in Nat, NEW va \in Nat, Gains(en, de, dr, du, fu, va)
  PROVE  /\ stat' \in Stats /\ stat'.enqueued = stat.enqueued + en /\ vanished' \in Nat
         /\ DatagramsConserved => DatagramsConserved'
  <1> DEFINE m == Len(pending) + Held(endpoints)
             n == Len(pending') + Held(endpoints')
             t == Plus(stat, en, de, dr, du, fu)
  <1>1. stat \in Stats /\ vanished \in Nat
    BY DEF Inv, Fields
  <1>2. m \in Nat
    BY InvFacts
  <1>3. n \in Nat /\ n + (de + dr + fu + va) = m + (en + du)
    BY DEF Gains
  <1>4. /\ stat.enqueued \in Nat /\ stat.delivered \in Nat /\ stat.dropped \in Nat
        /\ stat.duplicated \in Nat /\ stat.queueFull \in Nat
        /\ t.enqueued = stat.enqueued + en /\ t.delivered = stat.delivered + de
        /\ t.dropped = stat.dropped + dr /\ t.duplicated = stat.duplicated + du
        /\ t.queueFull = stat.queueFull + fu
        /\ stat.enqueued + en <= MaxSends => t \in Stats
    BY <1>1, PlusIs
  <1>5. stat' = t /\ vanished' = vanished + va /\ stat.enqueued + en <= MaxSends
    BY DEF Gains
  <1> HIDE DEF m, n, t
  <1>6. stat' \in Stats /\ stat'.enqueued = stat.enqueued + en
    BY <1>4, <1>5, Zenon
  <1>7. vanished' \in Nat
    BY <1>1, <1>5
  <1>8. ASSUME DatagramsConserved
        PROVE  DatagramsConserved'
    <2>1. stat.enqueued + stat.duplicated =
            stat.delivered + stat.dropped + stat.queueFull + vanished + m
      BY <1>8, ConservedIs DEF m
    <2>2. (stat.enqueued + en) + (stat.duplicated + du) =
            (stat.delivered + de) + (stat.dropped + dr) + (stat.queueFull + fu)
              + (vanished + va) + n
      BY <1>1, <1>2, <1>3, <1>4, <2>1, SumsGrow
    <2>3. stat'.enqueued + stat'.duplicated =
            stat'.delivered + stat'.dropped + stat'.queueFull + vanished' + n
      BY <1>4, <1>5, <2>2, Zenon
    <2> QED BY <2>3, ConservedIs DEF n
  <1> QED BY <1>6, <1>7, <1>8

(* A send that puts nothing in the list, counted where it is refused,      *)
(* dropped or thrown away. *)
LEMMA SendNothing ==
  ASSUME Inv, stat.enqueued < MaxSends,
         UNCHANGED << params, clock, endpoints, pending, binds, rewinds >>,
         faults' \in 0..MaxFaults, NEW dr \in Nat, NEW fu \in Nat, NEW va \in Nat,
         dr + fu + va = 1,
         stat' = Plus(stat, 1, 0, dr, 0, fu), vanished' = vanished + va
  PROVE  Inv' /\ (DatagramsConserved => DatagramsConserved')
  <1>1. /\ MaxSends \in Nat /\ stat.enqueued \in Nat
        /\ Len(pending) \in Nat /\ Held(endpoints) \in Nat
    BY InvFacts
  <1>2. /\ Len(pending') = Len(pending) /\ Held(endpoints') = Held(endpoints)
        /\ stat.enqueued + 1 <= MaxSends
    BY <1>1
  <1>3. (Len(pending') + Held(endpoints')) + (0 + dr + fu + va)
          = (Len(pending) + Held(endpoints)) + (1 + 0)
    BY <1>1, <1>2
  <1>4. /\ stat' \in Stats /\ stat'.enqueued = stat.enqueued + 1 /\ vanished' \in Nat
        /\ DatagramsConserved => DatagramsConserved'
    <2>1. Gains(1, 0, dr, 0, fu, va)
      BY <1>1, <1>2, <1>3 DEF Gains
    <2> QED BY <2>1, Balance
  <1>5. Fields'
    BY <1>4 DEF Inv, Fields
  <1>6. Fine(pending, endpoints, stat.enqueued + 1, clock, rewinds)
    BY FineSent DEF Inv, InOrder
  <1>7. InOrder'
    BY <1>4, <1>6 DEF InOrder
  <1> QED BY <1>4, <1>5, <1>7 DEF Inv

(* A send that puts one copy in the list, or two and counts a duplicate. *)
LEMMA SendSomething ==
  ASSUME Inv, stat.enqueued < MaxSends, InOrder',
         UNCHANGED << params, clock, binds, vanished, rewinds >>,
         faults' \in 0..MaxFaults, Held(endpoints') = Held(endpoints),
         NEW du \in Nat, stat' = Plus(stat, 1, 0, 0, du, 0),
         Len(pending') = Len(pending) + (1 + du)
  PROVE  Inv' /\ (DatagramsConserved => DatagramsConserved')
  <1>1. vanished \in Nat
    BY DEF Inv, Fields
  <1>2. /\ MaxSends \in Nat /\ stat.enqueued \in Nat
        /\ Len(pending) \in Nat /\ Held(endpoints) \in Nat
    BY InvFacts
  <1>3. /\ Len(pending') \in Nat /\ Held(endpoints') \in Nat /\ vanished' = vanished + 0
        /\ stat.enqueued + 1 <= MaxSends
    BY <1>1, <1>2
  <1>4. (Len(pending') + Held(endpoints')) + (0 + 0 + 0 + 0)
          = (Len(pending) + Held(endpoints)) + (1 + du)
    BY <1>2
  <1>5. /\ stat' \in Stats
        /\ DatagramsConserved => DatagramsConserved'
    <2>1. Gains(1, 0, 0, du, 0, 0)
      BY <1>3, <1>4 DEF Gains
    <2> QED BY <2>1, Balance
  <1>6. Fields'
    BY <1>5 DEF Inv, Fields
  <1> QED BY <1>5, <1>6 DEF Inv

(* The calls of send_to. *)
LEMMA SendInv ==
  ASSUME Inv, NEW dest \in Addrs, NEW len \in Lens,
         \/ SendToNobody(dest, len) \/ SendToFull(dest, len) \/ SendDropped(dest, len)
         \/ Send(dest, len) \/ SendTwice(dest, len)
         \/ SendFails(dest, len) \/ SendTwiceFails(dest, len)
  PROVE  Inv' /\ (DatagramsConserved => DatagramsConserved')
  <1>1. /\ stat \in Stats /\ stat.enqueued \in Nat /\ vanished \in Nat
        /\ faults \in 0..MaxFaults /\ MaxFaults \in Nat
        /\ vanished + 0 = vanished /\ 1 + 0 = 1 /\ 1 + 1 = 2
    BY InvFacts DEF Inv, Fields
  <1>2. /\ [stat EXCEPT !.enqueued = @ + 1] = Plus(stat, 1, 0, 0, 0, 0)
        /\ [stat EXCEPT !.enqueued = @ + 1, !.dropped = @ + 1] = Plus(stat, 1, 0, 1, 0, 0)
        /\ [stat EXCEPT !.enqueued = @ + 1, !.queueFull = @ + 1] = Plus(stat, 1, 0, 0, 0, 1)
        /\ [stat EXCEPT !.enqueued = @ + 1, !.duplicated = @ + 1] = Plus(stat, 1, 0, 0, 1, 0)
    BY <1>1, PlusExcept
  <1>3. faults < MaxFaults /\ faults' = faults + 1 => faults' \in 0..MaxFaults
    BY <1>1
  <1>4. \A du \in Nat : Plus(stat, 1, 0, 0, du, 0).enqueued = stat.enqueued + 1
    BY <1>1, PlusIs
  <1>5. CASE SendToNobody(dest, len) \/ SendDropped(dest, len)
    <2>1. /\ stat.enqueued < MaxSends /\ stat' = Plus(stat, 1, 0, 1, 0, 0)
          /\ UNCHANGED << params, clock, endpoints, pending, binds, faults, vanished, rewinds >>
      BY <1>2, <1>5, Zenon DEF SendToNobody, SendDropped, MaySend, SendUnchanged
    <2>2. vanished' = vanished + 0 /\ faults' \in 0..MaxFaults /\ 1 + 0 + 0 = 1
      BY <1>1, <2>1
    <2> QED BY <2>1, <2>2, SendNothing
  <1>6. CASE SendToFull(dest, len)
    <2>1. /\ stat.enqueued < MaxSends /\ stat' = Plus(stat, 1, 0, 0, 0, 1)
          /\ UNCHANGED << params, clock, endpoints, pending, binds, faults, vanished, rewinds >>
      BY <1>2, <1>6, Zenon DEF SendToFull, MaySend, SendUnchanged
    <2>2. vanished' = vanished + 0 /\ faults' \in 0..MaxFaults /\ 0 + 1 + 0 = 1
      BY <1>1, <2>1
    <2> QED BY <2>1, <2>2, SendNothing
  <1>7. CASE SendFails(dest, len)
    <2>1. /\ stat.enqueued < MaxSends /\ stat' = Plus(stat, 1, 0, 0, 0, 0)
          /\ UNCHANGED << params, clock, endpoints, pending, binds, rewinds >>
          /\ faults < MaxFaults /\ faults' = faults + 1 /\ vanished' = vanished + 1
      BY <1>2, <1>7, Zenon DEF SendFails, Admitted, MaySend, SendUnchanged
    <2>2. faults' \in 0..MaxFaults /\ 0 + 0 + 1 = 1
      BY <1>3, <2>1
    <2> QED BY <2>1, <2>2, SendNothing
  <1>8. CASE Send(dest, len)
    <2>1. /\ stat.enqueued < MaxSends /\ dest \in Bound
          /\ stat' = Plus(stat, 1, 0, 0, 0, 0)
          /\ UNCHANGED << params, clock, binds, faults, vanished, rewinds >>
      BY <1>2, <1>8, Zenon DEF Send, Admitted, MaySend, SendUnchanged
    <2>2. PICK delay \in Delays : EnqueueCopy(dest, len, delay)
      BY <1>8 DEF Send
    <2>3. stat'.enqueued = stat.enqueued + 1 /\ clock' = clock /\ rewinds' = rewinds
      BY <1>4, <2>1
    <2>4. /\ InOrder'
          /\ Len(pending') = Len(pending) + (1 + 0) /\ Held(endpoints') = Held(endpoints)
      BY <1>1, <2>1, <2>2, <2>3, OneCopy
    <2> QED BY <1>1, <2>1, <2>4, SendSomething
  <1>9. CASE SendTwice(dest, len)
    <2>1. /\ stat.enqueued < MaxSends /\ dest \in Bound
          /\ stat' = Plus(stat, 1, 0, 0, 1, 0)
          /\ UNCHANGED << params, clock, binds, faults, vanished, rewinds >>
      BY <1>2, <1>9, Zenon DEF SendTwice, Admitted, MaySend, SendUnchanged
    <2>2. PICK delay \in Delays, again \in Delays : EnqueueCopies(dest, len, delay, again)
      BY <1>9 DEF SendTwice
    <2>3. stat'.enqueued = stat.enqueued + 1 /\ clock' = clock /\ rewinds' = rewinds
      BY <1>4, <2>1
    <2>4. /\ InOrder'
          /\ Len(pending') = Len(pending) + (1 + 1) /\ Held(endpoints') = Held(endpoints)
      BY <1>1, <2>1, <2>2, <2>3, TwoCopies
    <2> QED BY <1>1, <2>1, <2>4, SendSomething
  <1>10. CASE SendTwiceFails(dest, len)
    <2>1. /\ stat.enqueued < MaxSends /\ dest \in Bound
          /\ stat' = Plus(stat, 1, 0, 0, 0, 0)
          /\ UNCHANGED << params, clock, binds, vanished, rewinds >>
          /\ faults < MaxFaults /\ faults' = faults + 1
      BY <1>2, <1>10, Zenon DEF SendTwiceFails, Admitted, MaySend, SendUnchanged
    <2>2. PICK delay \in Delays : EnqueueCopy(dest, len, delay)
      BY <1>10 DEF SendTwiceFails
    <2>3. stat'.enqueued = stat.enqueued + 1 /\ clock' = clock /\ rewinds' = rewinds
      BY <1>4, <2>1
    <2>4. /\ InOrder'
          /\ Len(pending') = Len(pending) + (1 + 0) /\ Held(endpoints') = Held(endpoints)
      BY <1>1, <2>1, <2>2, <2>3, OneCopy
    <2> QED BY <1>3, <2>1, <2>4, SendSomething
  <1> QED BY <1>5, <1>6, <1>7, <1>8, <1>9, <1>10

(* What step divides the list into. *)
LEMMA StepSplits ==
  ASSUME Inv, Step
  PROVE  \E due, rest \in Queue :
           /\ pending = due \o rest /\ pending' = rest
           /\ Len(pending) = Len(due) + Len(rest)
           /\ \A x \in Range(due) : x.at <= clock
           /\ \A x \in Range(rest) : x.at > clock
           /\ endpoints' = [a \in Bound |-> [endpoints[a] EXCEPT !.ready = @ \o To(due, a)]]
           /\ stat' = [stat EXCEPT !.dropped = @ + Len(SentTo(due, Addrs \ Bound))]
           /\ UNCHANGED << params, clock, binds, faults, vanished, rewinds >>
  <1> DEFINE n == Due(pending, clock)
             due == SubSeq(pending, 1, n)
             rest == SubSeq(pending, n + 1, Len(pending))
  <1>1. pending \in Seq(Datagram) /\ clock \in Nat /\ Sorted(pending)
    BY InvFacts DEF Inv, InOrder, Fine, Queue
  <1>2. /\ n \in 0..Len(pending)
        /\ \A i \in 1..n : pending[i].at <= clock
        /\ n < Len(pending) => pending[n + 1].at > clock
    BY <1>1, DueIs
  <1> HIDE DEF n
  <1>3. /\ due \in Seq(Datagram) /\ Len(due) = n
        /\ \A i \in 1..n : due[i] = pending[i]
        /\ rest \in Seq(Datagram) /\ Len(rest) = Len(pending) - n
        /\ \A i \in 1..(Len(pending) - n) : rest[i] = pending[n + i]
        /\ pending = due \o rest
    BY <1>1, <1>2, SplitAt
  <1>4. /\ pending' = rest
        /\ endpoints' = [a \in Bound |-> [endpoints[a] EXCEPT !.ready = @ \o To(due, a)]]
        /\ stat' = [stat EXCEPT !.dropped = @ + Len(SentTo(due, Addrs \ Bound))]
        /\ UNCHANGED << params, clock, binds, faults, vanished, rewinds >>
    BY <1>3 DEF Step, n
  <1> HIDE DEF due, rest
  <1>5. Len(pending) \in Nat /\ n \in Nat
    BY <1>1, <1>2
  <1>6. Range(due) = {due[i] : i \in 1..n}
    BY <1>3, RangeIs
  <1>7. \A x \in Range(due) : x.at <= clock
    BY <1>2, <1>3, <1>6
  <1>8. Range(rest) = {rest[i] : i \in 1..(Len(pending) - n)}
    BY <1>3, RangeIs
  <1>9. ASSUME NEW x \in Range(rest)
        PROVE  x.at > clock
    <2>1. PICK i \in 1..(Len(pending) - n) : x = rest[i]
      BY <1>8
    <2>2. n + 1 \in 1..Len(pending) /\ n + i \in 1..Len(pending) /\ n < Len(pending)
      BY <1>5
    <2>3. pending[n + 1].at > clock /\ x = pending[n + i]
      BY <1>2, <1>3, <2>1, <2>2
    <2>4. i = 1 \/ n + 1 < n + i
      BY <1>5
    <2>5. n + 1 < n + i => Before(pending[n + 1], x)
      BY <1>1, <2>2, <2>3 DEF Sorted
    <2>6. pending[n + 1] \in Datagram /\ x \in Datagram
      BY <1>1, <2>2, <2>3
    <2>7. pending[n + 1].at \in Nat /\ x.at \in Nat
      BY <2>6, DatagramType
    <2>8. CASE i = 1
      BY <2>3, <2>8
    <2>9. CASE n + 1 < n + i
      BY <1>1, <2>3, <2>5, <2>7, <2>9 DEF Before
    <2> QED BY <2>4, <2>8, <2>9
  <1>10. Len(pending) = Len(due) + Len(rest) /\ due \in Queue /\ rest \in Queue
    BY <1>3, <1>5 DEF Queue
  <1> QED BY <1>3, <1>4, <1>7, <1>9, <1>10

(* step: what is due becomes ready, or is counted as dropped. *)
LEMMA StepInv ==
  ASSUME Inv, Step
  PROVE  Inv' /\ (DatagramsConserved => DatagramsConserved')
  <1>1. PICK due \in Queue, rest \in Queue :
           /\ pending = due \o rest /\ pending' = rest
           /\ Len(pending) = Len(due) + Len(rest)
           /\ \A x \in Range(due) : x.at <= clock
           /\ \A x \in Range(rest) : x.at > clock
           /\ endpoints' = [a \in Bound |-> [endpoints[a] EXCEPT !.ready = @ \o To(due, a)]]
           /\ stat' = [stat EXCEPT !.dropped = @ + Len(SentTo(due, Addrs \ Bound))]
           /\ UNCHANGED << params, clock, binds, faults, vanished, rewinds >>
    BY StepSplits
  <1> DEFINE lost == Len(SentTo(due, Addrs \ Bound))
             kept == Len(SentTo(due, Bound))
             f == [a \in Bound |-> [endpoints[a] EXCEPT !.ready = @ \o To(due, a)]]
  <1>2. /\ Bound \subseteq Addrs /\ endpoints \in [Bound -> Endpoint]
        /\ DOMAIN endpoints = Bound /\ stat \in Stats /\ stat.enqueued <= MaxSends
        /\ Len(pending) \in Nat /\ Held(endpoints) \in Nat /\ vanished \in Nat
        /\ stat.enqueued \in Nat
    BY InvFacts DEF Inv, Fields, Bound, InOrder, Fine
  <1>3. \A a \in Bound :
          /\ f[a] \in Endpoint
          /\ f[a].ready = endpoints[a].ready \o To(due, a)
          /\ f[a].bytes = endpoints[a].bytes /\ f[a].since = endpoints[a].since
    <2> TAKE a \in Bound
    <2> DEFINE e == endpoints[a]
               w == e.ready \o To(due, a)
    <2>1. f[a] = [e EXCEPT !.ready = w]
      OBVIOUS
    <2>2. e \in Endpoint
      BY <1>2
    <2>3. e.ready \in Queue /\ e.bytes \in Nat /\ e.since \in 0..MaxSends
      BY <2>2, EndpointType
    <2>4. w \in Queue
      BY <2>3, QueueKept, QueueConcat DEF To
    <2> HIDE DEF e, w, f
    <2>5. f[a] = [ready |-> w, bytes |-> e.bytes, since |-> e.since]
      BY <2>1, <2>2, EndpointExcept
    <2>6. f[a].ready = w /\ f[a].bytes = e.bytes /\ f[a].since = e.since
      BY <2>5
    <2>7. f[a] \in Endpoint
      BY <2>3, <2>4, <2>5, EndpointType
    <2> QED BY <2>6, <2>7, Zenon DEF w, e
  <1>4. f \in [Bound -> Endpoint]
    <2>1. f = [a \in Bound |-> f[a]]
      OBVIOUS
    <2> HIDE DEF f
    <2> QED BY <1>3, <2>1
  <1> HIDE DEF f
  <1>5. Fine(rest, f, stat.enqueued, clock, rewinds)
    <2>1. Fine(pending, endpoints, stat.enqueued, clock, rewinds)
      BY DEF Inv, InOrder
    <2>2. /\ f \in [DOMAIN endpoints -> Endpoint]
          /\ \A a \in DOMAIN endpoints : f[a].ready = endpoints[a].ready \o To(due, a)
          /\ \A a \in DOMAIN endpoints :
               f[a].bytes = endpoints[a].bytes /\ f[a].since = endpoints[a].since
      BY <1>3, <1>4 DEF Bound
    <2>3. pending = due \o rest /\ \A x \in Range(due) : x.at <= clock
      BY <1>1
    <2> QED BY <2>1, <2>2, <2>3, FineStep
  <1>6. Held(f) = Held(endpoints) + kept
    BY <1>2, <1>3, <1>4, HeldStep
  <1>7. Len(due) = kept + lost /\ kept \in Nat /\ lost \in Nat
    <2>1. Bound \cap (Addrs \ Bound) = {} /\ Addrs \subseteq Bound \cup (Addrs \ Bound)
      OBVIOUS
    <2>2. Len(due) = Len(SentTo(due, Bound)) + Len(SentTo(due, Addrs \ Bound))
      BY <2>1, SentToSplit DEF Queue
    <2>3. SentTo(due, Bound) \in Queue /\ SentTo(due, Addrs \ Bound) \in Queue
      BY QueueKept
    <2> QED BY <2>2, <2>3, QueueKept
  <1> HIDE DEF lost, kept
  <1>8. stat' = Plus(stat, 0, 0, lost, 0, 0)
    <2>1. stat' = [stat EXCEPT !.dropped = @ + lost]
      BY <1>1 DEF lost
    <2> QED BY <1>2, <1>7, <2>1, PlusExcept
  <1>9. Gains(0, 0, lost, 0, 0, 0)
    <2>1. endpoints' = f /\ pending' = rest /\ vanished' = vanished + 0
      BY <1>1, <1>2 DEF f
    <2>2. Len(rest) \in Nat /\ Len(due) \in Nat
      BY QueueKept
    <2>3. Len(pending') \in Nat /\ Held(endpoints') \in Nat
      BY <1>2, <1>6, <1>7, <2>1, <2>2
    <2>4. (Len(pending') + Held(endpoints')) + (0 + lost + 0 + 0)
            = (Len(pending) + Held(endpoints)) + (0 + 0)
      <3>1. Len(pending) = (kept + lost) + Len(rest) /\ Held(endpoints') = Held(endpoints) + kept
        BY <1>1, <1>6, <1>7, <2>1
      <3>2. Len(pending') = Len(rest)
        BY <2>1
      <3> DEFINE l == Len(pending)
                 m == Len(pending')
                 h == Held(endpoints)
                 k == Held(endpoints')
      <3>3. /\ l = (kept + lost) + m /\ k = h + kept
            /\ l \in Nat /\ m \in Nat /\ h \in Nat /\ k \in Nat /\ kept \in Nat /\ lost \in Nat
        BY <1>2, <1>7, <2>3, <3>1, <3>2
      <3> HIDE DEF l, m, h, k
      <3>4. (m + k) + (0 + lost + 0 + 0) = (l + h) + (0 + 0)
        BY <3>3
      <3> QED BY <3>4 DEF l, m, h, k
    <2>5. stat.enqueued + 0 <= MaxSends
      BY <1>2
    <2> QED BY <1>8, <2>1, <2>3, <2>4, <2>5 DEF Gains
  <1>10. /\ stat' \in Stats /\ stat'.enqueued = stat.enqueued + 0 /\ vanished' \in Nat
         /\ DatagramsConserved => DatagramsConserved'
    BY <1>7, <1>9, Balance
  <1>11. Fields'
    BY <1>1, <1>10 DEF Inv, Fields
  <1>12. stat'.enqueued = stat.enqueued /\ UNCHANGED << clock, rewinds >>
         /\ endpoints' = f /\ pending' = rest
    BY <1>1, <1>2, <1>10 DEF f
  <1>13. InOrder'
    BY <1>5, <1>12 DEF InOrder
  <1> QED BY <1>10, <1>11, <1>13 DEF Inv

(* recv_from takes one datagram and its bytes. *)
LEMMA RecvTakes ==
  ASSUME Inv, NEW a \in Addrs, Recv(a)
  PROVE  LET e == endpoints[a]
             len == Head(e.ready).len
             g == [ready |-> Tail(e.ready), bytes |-> e.bytes - len, since |-> e.since]
         IN  /\ a \in Bound /\ e \in Endpoint /\ e.ready # << >>
             /\ e.bytes >= len /\ g \in Endpoint
             /\ EndpointFine(pending, g, a, stat.enqueued, clock, rewinds)
             /\ Len(e.ready) = Len(g.ready) + 1
             /\ endpoints' = [endpoints EXCEPT ![a] = g]
  <1> DEFINE e == endpoints[a]
             len == Head(e.ready).len
             g == [ready |-> Tail(e.ready), bytes |-> e.bytes - len, since |-> e.since]
             f == [endpoints EXCEPT ![a] = g]
  <1>1. a \in Bound /\ e.ready # << >>
    BY DEF Recv
  <1>2. /\ endpoints \in [Bound -> Endpoint] /\ DOMAIN endpoints = Bound
        /\ pending \in Queue
    BY InvFacts DEF Bound
  <1>3. e \in Endpoint /\ EndpointFine(pending, e, a, stat.enqueued, clock, rewinds)
    BY <1>1, <1>2 DEF Inv, InOrder, Fine
  <1>4. /\ e.bytes >= len /\ g \in Endpoint
        /\ EndpointFine(pending, g, a, stat.enqueued, clock, rewinds)
        /\ Len(e.ready) = Len(g.ready) + 1
    BY <1>1, <1>2, <1>3, FineRecv
  <1>5. endpoints' = f
    <2> DEFINE q == Tail(e.ready)
               b == IF e.bytes >= len THEN e.bytes - len ELSE 0
               h == [endpoints EXCEPT ![a].ready = q]
    <2>1. endpoints' = [endpoints EXCEPT ![a].ready = q, ![a].bytes = b]
      BY DEF Recv
    <2>2. [endpoints EXCEPT ![a].ready = q, ![a].bytes = b] = [h EXCEPT ![a].bytes = b]
      BY Zenon
    <2>3. b = e.bytes - len
      BY <1>4
    <2> HIDE DEF q, b
    <2>4. h = [endpoints EXCEPT ![a] = [e EXCEPT !.ready = q]]
      BY Zenon
    <2> DEFINE w == [e EXCEPT !.ready = q]
    <2>5. w = [ready |-> q, bytes |-> e.bytes, since |-> e.since]
      BY <1>3, EndpointExcept
    <2>6. h = [endpoints EXCEPT ![a] = w]
      BY <2>4
    <2> HIDE DEF w, h, e, len
    <2>7. h[a] = w
      BY <1>1, <1>2, <2>6
    <2>8. [h EXCEPT ![a].bytes = b] = [h EXCEPT ![a] = [w EXCEPT !.bytes = b]]
      BY <2>7, Zenon
    <2>9. [w EXCEPT !.bytes = b] = [ready |-> q, bytes |-> b, since |-> e.since]
      BY <2>5
    <2> DEFINE x == [ready |-> q, bytes |-> b, since |-> e.since]
    <2>10. x = g
      BY <2>3 DEF q
    <2> HIDE DEF x, g
    <2>11. [h EXCEPT ![a] = x] = [endpoints EXCEPT ![a] = x]
      BY <1>1, <1>2, <2>6
    <2>12. [h EXCEPT ![a].bytes = b] = [h EXCEPT ![a] = x]
      BY <2>8, <2>9, Zenon DEF x
    <2> QED BY <2>1, <2>2, <2>10, <2>11, <2>12, Zenon
  <1> QED BY <1>1, <1>3, <1>4, <1>5

(* It keeps the invariant. *)
LEMMA RecvInv ==
  ASSUME Inv, NEW a \in Addrs, Recv(a)
  PROVE  Inv' /\ (DatagramsConserved => DatagramsConserved')
  <1> DEFINE e == endpoints[a]
             len == Head(e.ready).len
             g == [ready |-> Tail(e.ready), bytes |-> e.bytes - len, since |-> e.since]
             f == [endpoints EXCEPT ![a] = g]
  <1>1. /\ a \in Bound /\ e.ready # << >>
        /\ stat' = [stat EXCEPT !.delivered = @ + 1]
        /\ UNCHANGED << params, clock, pending, binds, faults, vanished, rewinds >>
    BY DEF Recv
  <1>2. /\ Bound \subseteq Addrs /\ endpoints \in [Bound -> Endpoint]
        /\ DOMAIN endpoints = Bound /\ stat \in Stats /\ stat.enqueued <= MaxSends
        /\ Len(pending) \in Nat /\ Held(endpoints) \in Nat /\ vanished \in Nat
        /\ stat.enqueued \in Nat /\ pending \in Queue
    BY InvFacts DEF Inv, Fields, Bound, InOrder, Fine
  <1>3. /\ e \in Endpoint /\ g \in Endpoint
        /\ EndpointFine(pending, g, a, stat.enqueued, clock, rewinds)
        /\ Len(e.ready) = Len(g.ready) + 1
        /\ endpoints' = f
    BY RecvTakes
  <1>4. g.since = e.since
    OBVIOUS
  <1> HIDE DEF g, e, len
  <1>5. f \in [Bound -> Endpoint] /\ f[a] = g /\ \A b \in Bound : b # a => f[b] = endpoints[b]
    BY <1>1, <1>2, <1>3
  <1>6. Fine(pending, f, stat.enqueued, clock, rewinds)
    BY <1>1, <1>2, <1>3, <1>4, FineReplace DEF Inv, InOrder, e
  <1> HIDE DEF f
  <1>7. Held(endpoints) = Held(f) + 1
    BY <1>1, <1>2, <1>3, <1>5, HeldRecv DEF e
  <1>8. stat' = Plus(stat, 0, 1, 0, 0, 0)
    BY <1>1, <1>2, PlusExcept
  <1>9. Gains(0, 1, 0, 0, 0, 0)
    <2>1. DOMAIN f \subseteq Addrs /\ f \in [DOMAIN f -> Endpoint]
      BY <1>2, <1>5
    <2>2. Len(pending') = Len(pending) /\ Held(endpoints') = Held(f) /\ Held(f) \in Nat
      BY <1>1, <1>3, <2>1, HeldIs
    <2>3. (Len(pending') + Held(endpoints')) + (1 + 0 + 0 + 0)
            = (Len(pending) + Held(endpoints)) + (0 + 0)
      BY <1>2, <1>7, <2>2
    <2>4. stat.enqueued + 0 <= MaxSends /\ vanished' = vanished + 0
      BY <1>1, <1>2
    <2> QED BY <1>2, <1>8, <2>2, <2>3, <2>4 DEF Gains
  <1>10. /\ stat' \in Stats /\ stat'.enqueued = stat.enqueued + 0 /\ vanished' \in Nat
         /\ DatagramsConserved => DatagramsConserved'
    BY <1>9, Balance
  <1>11. Fields'
    BY <1>1, <1>10 DEF Inv, Fields
  <1>12. stat'.enqueued = stat.enqueued /\ UNCHANGED << clock, pending, rewinds >>
    BY <1>1, <1>2, <1>10
  <1>13. InOrder'
    BY <1>3, <1>6, <1>12 DEF InOrder
  <1> QED BY <1>10, <1>11, <1>13 DEF Inv

(* bind adds an empty endpoint. *)
LEMMA BindInv ==
  ASSUME Inv, NEW a \in Addrs, Bind(a)
  PROVE  Inv' /\ (DatagramsConserved => DatagramsConserved')
  <1> DEFINE e == [ready |-> << >>, bytes |-> 0, since |-> stat.enqueued]
             f == [x \in Bound \cup {a} |-> IF x = a THEN e ELSE endpoints[x]]
  <1>1. /\ a \notin Bound /\ binds < MaxBinds /\ binds' = binds + 1 /\ endpoints' = f
        /\ UNCHANGED << params, clock, pending, stat, faults, vanished, rewinds >>
    BY DEF Bind, FreshEndpoint
  <1>2. /\ Bound \subseteq Addrs /\ endpoints \in [Bound -> Endpoint]
        /\ DOMAIN endpoints = Bound /\ stat.enqueued \in 0..MaxSends
        /\ binds \in 0..MaxBinds /\ MaxBinds \in Nat
    BY InvFacts DEF Inv, Fields, Bound, InOrder, Fine
  <1>3. e \in Endpoint /\ 0 \in Nat
    BY <1>2, QueueEmpty, EndpointType
  <1>4. e.ready = << >>
    OBVIOUS
  <1>5. f[a] = e /\ \A b \in Bound : f[b] = endpoints[b]
    BY <1>1
  <1>6. f \in [Bound \cup {a} -> Endpoint]
    <2> HIDE DEF e
    <2> QED BY <1>2, <1>3
  <1> HIDE DEF f
  <1>7. Fine(pending, f, stat.enqueued, clock, rewinds)
    <2>1. Fine(pending, endpoints, stat.enqueued, clock, rewinds)
      BY DEF Inv, InOrder
    <2>2. a \notin DOMAIN endpoints /\ f \in [DOMAIN endpoints \cup {a} -> Endpoint]
      BY <1>1, <1>2, <1>6
    <2>3. \A b \in DOMAIN endpoints : f[b] = endpoints[b]
      BY <1>2, <1>5
    <2>4. f[a] = [ready |-> << >>, bytes |-> 0, since |-> stat.enqueued]
      BY <1>5
    <2> QED BY <2>1, <2>2, <2>3, <2>4, FineBind
  <1>8. Held(f) = Held(endpoints)
    <2>1. a \in Addrs \ DOMAIN endpoints /\ f[a].ready = << >>
      BY <1>1, <1>2, <1>4, <1>5
    <2> HIDE DEF e
    <2> QED BY <1>2, <1>5, <1>6, <2>1, HeldBind
  <1> HIDE DEF e
  <1>9. DatagramsConserved => DatagramsConserved'
    <2>1. Held(endpoints') = Held(endpoints)
      BY <1>1, <1>8
    <2> QED BY <1>1, <2>1, ConservedIs
  <1>10. binds' \in 0..MaxBinds
    BY <1>1, <1>2
  <1>11. Fields'
    BY <1>1, <1>10 DEF Inv, Fields
  <1>12. InOrder'
    BY <1>1, <1>7 DEF InOrder
  <1> QED BY <1>9, <1>11, <1>12 DEF Inv

(* close counts what was under way to the endpoint as dropped, and throws  *)
(* away what was ready. *)
LEMMA CloseInv ==
  ASSUME Inv, NEW a \in Addrs, Close(a)
  PROVE  Inv' /\ (DatagramsConserved => DatagramsConserved')
  <1> DEFINE f == Restrict(endpoints, Bound \ {a})
             rest == SentTo(pending, Addrs \ {a})
             lost == Len(To(pending, a))
             gone == Len(endpoints[a].ready)
  <1>1. /\ a \in Bound /\ endpoints' = f /\ pending' = rest
        /\ vanished' = vanished + gone
        /\ UNCHANGED << params, clock, binds, faults, rewinds >>
    BY DEF Close
  <1>2. /\ Bound \subseteq Addrs /\ endpoints \in [Bound -> Endpoint]
        /\ DOMAIN endpoints = Bound /\ stat \in Stats /\ stat.enqueued <= MaxSends
        /\ Len(pending) \in Nat /\ Held(endpoints) \in Nat /\ vanished \in Nat
        /\ stat.enqueued \in Nat /\ pending \in Queue
    BY InvFacts DEF Inv, Fields, Bound, InOrder, Fine
  <1>3. lost \in Nat /\ Len(rest) \in Nat /\ gone \in Nat
    <2>1. To(pending, a) \in Queue /\ rest \in Queue /\ endpoints[a].ready \in Queue
      BY <1>1, <1>2, QueueKept, EndpointType DEF To
    <2> QED BY <2>1, QueueKept
  <1>4. Len(pending) = lost + Len(rest)
    <2>1. {a} \cap (Addrs \ {a}) = {} /\ Addrs \subseteq {a} \cup (Addrs \ {a})
      OBVIOUS
    <2> QED BY <1>2, <2>1, SentToSplit DEF To, Queue
  <1>5. Fine(rest, f, stat.enqueued, clock, rewinds)
    BY <1>1, FineClose DEF Inv, InOrder, Bound
  <1>6. f \in [Bound \ {a} -> Endpoint] /\ \A b \in DOMAIN f : f[b] = endpoints[b]
    BY <1>2 DEF Restrict
  <1>7. stat' = Plus(stat, 0, 0, lost, 0, 0)
    <2>1. stat' = [stat EXCEPT !.dropped = @ + lost]
      BY DEF Close
    <2> HIDE DEF lost
    <2> QED BY <1>2, <1>3, <2>1, PlusExcept
  <1> HIDE DEF f, rest, lost
  <1>8. Held(endpoints) = Held(f) + gone
    BY <1>1, <1>2, <1>6, HeldClose
  <1> HIDE DEF gone
  <1>9. Gains(0, 0, lost, 0, 0, gone)
    <2>1. DOMAIN f \subseteq Addrs /\ f \in [DOMAIN f -> Endpoint]
      BY <1>2, <1>6
    <2>2. Len(pending') = Len(rest) /\ Held(endpoints') = Held(f) /\ Held(f) \in Nat
      BY <1>1, <2>1, HeldIs
    <2>3. (Len(pending') + Held(endpoints')) + (0 + lost + 0 + gone)
            = (Len(pending) + Held(endpoints)) + (0 + 0)
      <3> DEFINE l == Len(pending)
                 m == Len(pending')
                 h == Held(endpoints)
                 k == Held(endpoints')
      <3>1. /\ l = lost + m /\ h = k + gone
            /\ l \in Nat /\ m \in Nat /\ h \in Nat /\ k \in Nat /\ lost \in Nat /\ gone \in Nat
        BY <1>2, <1>3, <1>4, <1>8, <2>2
      <3> HIDE DEF l, m, h, k
      <3>2. (m + k) + (0 + lost + 0 + gone) = (l + h) + (0 + 0)
        BY <3>1
      <3> QED BY <3>2 DEF l, m, h, k
    <2>4. stat.enqueued + 0 <= MaxSends
      BY <1>2
    <2>5. Len(pending') \in Nat /\ Held(endpoints') \in Nat
      BY <1>3, <2>2
    <2> QED BY <1>1, <1>7, <2>3, <2>4, <2>5 DEF Gains
  <1>10. /\ stat' \in Stats /\ stat'.enqueued = stat.enqueued + 0 /\ vanished' \in Nat
         /\ DatagramsConserved => DatagramsConserved'
    BY <1>3, <1>9, Balance
  <1>11. Fields'
    BY <1>1, <1>10 DEF Inv, Fields
  <1>12. stat'.enqueued = stat.enqueued
    BY <1>2, <1>10
  <1>13. InOrder'
    BY <1>1, <1>5, <1>12 DEF InOrder
  <1> QED BY <1>10, <1>11, <1>13 DEF Inv

(* flush throws away all that is in flight. *)
LEMMA FlushInv ==
  ASSUME Inv, Flush
  PROVE  Inv' /\ (DatagramsConserved => DatagramsConserved')
  <1> DEFINE f == [a \in Bound |-> [endpoints[a] EXCEPT !.ready = << >>, !.bytes = 0]]
             all == Len(pending) + Held(endpoints)
  <1>1. /\ endpoints' = f /\ pending' = << >>
        /\ UNCHANGED << params, clock, stat, binds, faults, rewinds >>
        /\ vanished' = vanished + all
    BY InFlightIs DEF Flush
  <1>2. /\ Bound \subseteq Addrs /\ endpoints \in [Bound -> Endpoint]
        /\ DOMAIN endpoints = Bound /\ stat \in Stats /\ stat.enqueued <= MaxSends
        /\ Len(pending) \in Nat /\ Held(endpoints) \in Nat /\ vanished \in Nat
        /\ all \in Nat
    BY InvFacts DEF Inv, Fields, Bound, InOrder, Fine
  <1>3. ASSUME NEW a \in Bound
        PROVE  /\ f[a] \in Endpoint /\ f[a].ready = << >>
               /\ f[a].bytes = 0 /\ f[a].since = endpoints[a].since
    <2> DEFINE e == endpoints[a]
               z == << >>
    <2>1. f[a] = [e EXCEPT !.ready = z, !.bytes = 0]
      OBVIOUS
    <2>2. e \in Endpoint /\ z \in Queue
      BY <1>2, QueueEmpty
    <2>3. e.since \in 0..MaxSends
      BY <2>2, EndpointType
    <2> HIDE DEF e, z, f
    <2>4. f[a] = [ready |-> z, bytes |-> 0, since |-> e.since]
      BY <2>1, <2>2, EndpointExcept
    <2> DEFINE g == f[a]
    <2>5. g = [ready |-> z, bytes |-> 0, since |-> e.since]
      BY <2>4
    <2> HIDE DEF g
    <2>6. g.ready = z /\ g.bytes = 0 /\ g.since = e.since
      BY <2>5
    <2>7. g \in Endpoint
      BY <2>2, <2>3, <2>5, EndpointType
    <2> QED BY <2>6, <2>7, Zenon DEF z, e, g
  <1>4. f \in [Bound -> Endpoint]
    <2>1. f = [a \in Bound |-> f[a]]
      OBVIOUS
    <2> HIDE DEF f
    <2> QED BY <1>3, <2>1
  <1> HIDE DEF f
  <1>5. Fine(<< >>, f, stat.enqueued, clock, rewinds)
    <2>1. Fine(pending, endpoints, stat.enqueued, clock, rewinds)
      BY DEF Inv, InOrder
    <2>2. /\ f \in [DOMAIN endpoints -> Endpoint]
          /\ \A a \in DOMAIN endpoints : f[a].ready = << >>
          /\ \A a \in DOMAIN endpoints : f[a].bytes = 0 /\ f[a].since = endpoints[a].since
      BY <1>3, <1>4 DEF Bound
    <2> QED BY <2>1, <2>2, FineFlush
  <1>6. Held(f) = 0
    <2>1. DOMAIN f \subseteq Addrs /\ f \in [DOMAIN f -> Endpoint] /\ DOMAIN f = Bound
      BY <1>2, <1>4
    <2> QED BY <1>3, <2>1, HeldNone
  <1>7. DatagramsConserved => DatagramsConserved'
    <2> SUFFICES ASSUME DatagramsConserved
                 PROVE  DatagramsConserved'
      OBVIOUS
    <2>1. stat.enqueued + stat.duplicated =
            stat.delivered + stat.dropped + stat.queueFull + vanished + all
      BY ConservedIs
    <2>2. Len(pending') + Held(endpoints') = 0
      BY <1>1, <1>6
    <2>3. /\ stat.delivered \in Nat /\ stat.dropped \in Nat /\ stat.queueFull \in Nat
      BY <1>2 DEF Stats
    <2> HIDE DEF all
    <2>4. stat.enqueued + stat.duplicated =
            stat.delivered + stat.dropped + stat.queueFull + (vanished + all) + 0
      BY <1>2, <2>1, <2>3
    <2>5. stat'.enqueued + stat'.duplicated =
            stat'.delivered + stat'.dropped + stat'.queueFull + vanished'
              + (Len(pending') + Held(endpoints'))
      BY <1>1, <2>2, <2>4
    <2> QED BY <2>5, ConservedIs
  <1>8. vanished' \in Nat
    BY <1>1, <1>2
  <1>9. Fields'
    BY <1>1, <1>8 DEF Inv, Fields
  <1>10. InOrder'
    BY <1>1, <1>5 DEF InOrder
  <1> QED BY <1>7, <1>9, <1>10 DEF Inv

(* The other calls leave the datagrams alone, or begin from nothing. *)
LEMMA OtherInv ==
  ASSUME Inv,
         \/ \E p \in ParamSets : SetParams(p) \/ DestroyAndCreate(p)
         \/ \E t \in 0..MaxTime : SetClock(t)
  PROVE  Inv' /\ (DatagramsConserved => DatagramsConserved')
  <1>1. CASE \E p \in ParamSets : SetParams(p)
    <2>1. params' \in ParamSets
          /\ UNCHANGED << clock, endpoints, pending, stat, binds, faults, vanished, rewinds >>
      BY <1>1 DEF SetParams
    <2> QED BY <2>1, ConservedIs DEF Inv, Fields, InOrder
  <1>2. CASE \E t \in 0..MaxTime : SetClock(t)
    <2> DEFINE back == rewinds'
               t == clock'
               sent == stat.enqueued
    <2>1. /\ clock' \in 0..MaxTime
          /\ back = IF t < clock THEN rewinds \cup {stat.enqueued} ELSE rewinds
          /\ UNCHANGED << params, endpoints, pending, stat, binds, faults, vanished >>
      BY <1>2 DEF SetClock
    <2>2. t \in Nat /\ clock \in Nat /\ sent \in Nat
      BY <2>1, InvFacts
    <2>3. Fine(pending, endpoints, sent, clock, rewinds) /\ rewinds \subseteq 0..sent
      BY DEF Inv, InOrder, Fine
    <2> HIDE DEF t
    <2>4. /\ rewinds \subseteq back /\ back \in SUBSET (0..sent)
          /\ t >= clock \/ sent \in back
      <3> HIDE DEF back, sent
      <3>1. sent \in 0..sent
        BY <2>2
      <3>2. CASE t < clock
        BY <2>1, <2>3, <3>1, <3>2 DEF sent
      <3>3. CASE ~ (t < clock)
        <4>1. t >= clock
          BY <2>2, <3>3
        <4> QED BY <2>1, <2>3, <3>3, <4>1
      <3> QED BY <3>2, <3>3
    <2> HIDE DEF back
    <2>5. Fine(pending, endpoints, sent, t, back)
      BY <2>2, <2>3, <2>4, FineClock
    <2> QED BY <2>1, <2>5, ConservedIs DEF Inv, Fields, InOrder, back, t
  <1>3. CASE \E p \in ParamSets : DestroyAndCreate(p)
    <2>1. /\ params' \in ParamSets /\ endpoints' = << >> /\ pending' = << >>
          /\ stat' = ZeroStats /\ vanished' = 0 /\ rewinds' = {} /\ clock' \in 0..MaxTime
          /\ UNCHANGED << binds, faults >>
      BY <1>3 DEF DestroyAndCreate
    <2>2. ZeroStats \in Stats /\ ZeroStats.enqueued = 0 /\ ZeroStats.duplicated = 0
          /\ ZeroStats.delivered = 0 /\ ZeroStats.dropped = 0 /\ ZeroStats.queueFull = 0
      BY BoundsAssumption DEF ZeroStats, Stats
    <2>3. DOMAIN << >> = {} /\ << >> \in [{} -> Endpoint]
      OBVIOUS
    <2>4. Held(<< >>) = 0
      BY <2>3, HeldNone
    <2>5. Fields'
      BY <2>1, <2>2 DEF Inv, Fields
    <2>6. Fine(<< >>, << >>, 0, clock', {})
      BY <2>1, InvFacts, FineEmpty
    <2>7. InOrder'
      BY <2>1, <2>2, <2>6 DEF InOrder
    <2>8. DatagramsConserved'
      BY <2>1, <2>2, <2>4, ConservedIs, Len(<< >>) = 0
    <2> QED BY <2>5, <2>7, <2>8 DEF Inv
  <1> QED BY <1>1, <1>2, <1>3

(* Every step keeps the invariant, and the balance. *)
LEMMA StepKeeps ==
  ASSUME Inv, [Next]_vars
  PROVE  Inv' /\ (DatagramsConserved => DatagramsConserved')
  <1>1. CASE UNCHANGED vars
    BY <1>1, ConservedIs DEF vars, Inv, Fields, InOrder
  <1>2. CASE \E dest \in Addrs, len \in Lens :
               \/ SendToNobody(dest, len) \/ SendToFull(dest, len) \/ SendDropped(dest, len)
               \/ Send(dest, len) \/ SendTwice(dest, len)
               \/ SendFails(dest, len) \/ SendTwiceFails(dest, len)
    BY <1>2, SendInv
  <1>3. CASE Step
    BY <1>3, StepInv
  <1>4. CASE Flush
    BY <1>4, FlushInv
  <1>5. CASE \E a \in Addrs : Recv(a)
    BY <1>5, RecvInv
  <1>6. CASE \E a \in Addrs : Bind(a)
    BY <1>6, BindInv
  <1>7. CASE \E a \in Addrs : Close(a)
    BY <1>7, CloseInv
  <1>8. CASE \/ \E p \in ParamSets : SetParams(p) \/ DestroyAndCreate(p)
             \/ \E t \in 0..MaxTime : SetClock(t)
    BY <1>8, OtherInv
  <1> QED BY <1>1, <1>2, <1>3, <1>4, <1>5, <1>6, <1>7, <1>8 DEF Next

-----------------------------------------------------------------------------
(* Every variable keeps its type, for every instance. *)
THEOREM TypeCorrect == Spec => []TypeOK
  <1>1. Init => Inv
    BY InitInv
  <1>2. Inv /\ [Next]_vars => Inv'
    BY StepKeeps
  <1>3. Inv => TypeOK
    BY InvTypes
  <1> QED BY <1>1, <1>2, <1>3, PTL DEF Spec

(* bytes_in_flight, by which sends are admitted, is what is really under   *)
(* way to the endpoint or ready at it. *)
THEOREM BytesCounted == Spec => []BytesAccounted
  <1>1. Init => Inv
    BY InitInv
  <1>2. Inv /\ [Next]_vars => Inv'
    BY StepKeeps
  <1>3. Inv => BytesAccounted
    BY InvBytes
  <1> QED BY <1>1, <1>2, <1>3, PTL DEF Spec

(* Every datagram sent or duplicated is in exactly one place or counter. *)
THEOREM DatagramsCounted == Spec => []DatagramsConserved
  <1> DEFINE Counted == Inv /\ DatagramsConserved
  <1>1. Init => Counted
    BY InitInv
  <1>2. Counted /\ [Next]_vars => Counted'
    BY StepKeeps
  <1>3. Counted => DatagramsConserved
    OBVIOUS
  <1> HIDE DEF Counted
  <1> QED BY <1>1, <1>2, <1>3, PTL DEF Spec

(* An endpoint gets nothing that was sent to another, or before it was     *)
(* bound to the address of a closed one. *)
THEOREM NothingCarriedOver == Spec => []NothingInherited
  <1>1. Init => Inv
    BY InitInv
  <1>2. Inv /\ [Next]_vars => Inv'
    BY StepKeeps
  <1>3. Inv => NothingInherited
    BY InvInherits
  <1> QED BY <1>1, <1>2, <1>3, PTL DEF Spec

(* Datagrams arrive in the order of their times and, where these are       *)
(* equal, of their sends, and none before its time; a clock that is set    *)
(* back excuses what was ready then, and nothing else. *)
THEOREM DeliveredInOrder == Spec => []DeliveryOrder
  <1>1. Init => Inv
    BY InitInv
  <1>2. Inv /\ [Next]_vars => Inv'
    BY StepKeeps
  <1>3. Inv => DeliveryOrder
    BY InvDelivers
  <1> QED BY <1>1, <1>2, <1>3, PTL DEF Spec

(* step stops at the first datagram that is not due, and leaves none       *)
(* behind that is. *)
LEMMA StepDrainsAll ==
  ASSUME Inv, [Next]_vars, Step
  PROVE  \A i \in DOMAIN pending' : pending'[i].at > clock
  <1>1. PICK due \in Queue, rest \in Queue :
          pending' = rest /\ \A x \in Range(rest) : x.at > clock
    BY StepSplits
  <1> QED BY <1>1 DEF Range

(* The property of a run: cb_netsim_step drains what is due. *)
THEOREM StepLeavesNothingDue == Spec => StepDrains
  <1> DEFINE Drained == \A i \in DOMAIN pending' : pending'[i].at > clock
  <1>1. Init => Inv
    BY InitInv
  <1>2. Inv /\ [Next]_vars => Inv'
    BY StepKeeps
  <1>3. Inv /\ [Next]_vars => [Step => Drained]_vars
    BY StepDrainsAll
  <1> QED BY <1>1, <1>2, <1>3, PTL DEF Spec, StepDrains

(* A program that uses the transport, and manages the net itself, makes    *)
(* calls of the net and nothing else. *)
LEMMA TransportSteps ==
  ASSUME [TransportNext]_transportVars
  PROVE  [Next]_vars
  <1>1. CASE UNCHANGED transportVars
    BY <1>1 DEF transportVars
  <1>2. CASE \E from, dest \in Addrs, len \in Lens : TransportSend(from, dest, len)
    BY <1>2 DEF TransportSend, SendRefused, Next
  <1>3. CASE \E a \in Addrs, cap \in Caps : TransportRecv(a, cap)
    <2>1. PICK a \in Addrs, cap \in Caps : TransportRecv(a, cap)
      BY <1>3
    <2>2. Recv(a) \/ UNCHANGED vars
      BY <2>1, Zenon DEF TransportRecv
    <2> QED BY <2>2 DEF Next
  <1>4. CASE \E a \in Addrs : TransportClose(a)
    BY <1>4 DEF TransportClose
  <1>5. CASE \E a \in Addrs : BindHandle(a) \/ CloseHandle(a)
    BY <1>5 DEF BindHandle, CloseHandle, Next
  <1>6. CASE \/ Step
             \/ Flush
             \/ \E p \in ParamSets : SetParams(p) \/ DestroyAndCreate(p)
             \/ \E t \in 0..MaxTime : SetClock(t)
    BY <1>6 DEF Next
  <1> QED BY <1>1, <1>2, <1>3, <1>4, <1>5, <1>6 DEF TransportNext, ManageNet

(* The transport implements the net: what is proved of every program that  *)
(* calls the net holds of one that sends and receives through a transport. *)
THEOREM TransportIsNet == TransportSpec => Spec
  <1>1. TransportInit => Init
    BY DEF TransportInit
  <1>2. [TransportNext]_transportVars => [Next]_vars
    BY TransportSteps
  <1> QED BY <1>1, <1>2, PTL DEF TransportSpec, Spec

-----------------------------------------------------------------------------
(* The bytes under way to an endpoint, and ready at it, before a step and  *)
(* after it. *)
LEMMA BytesAre ==
  ASSUME Inv, Inv', NEW a \in Bound, a \in DOMAIN endpoints'
  PROVE  /\ BytesOf(InFlight(a)) = endpoints[a].bytes /\ endpoints[a].bytes \in Nat
         /\ BytesOf(InFlight(a)') = endpoints'[a].bytes
  <1>1. BytesAccounted
    BY InvBytes
  <1>2. BytesAccounted'
    BY DEF Inv, InOrder, Fine, EndpointFine, BytesAccounted, InFlight, Bound
  <1>3. endpoints[a].bytes \in Nat
    BY InvFacts, EndpointType
  <1> QED BY <1>1, <1>2, <1>3 DEF BytesAccounted, Bound

(* A copy adds its length to the bytes of its destination. *)
LEMMA CopyBytes ==
  ASSUME NEW eps \in [Bound -> Endpoint], NEW dest \in Bound, NEW add, NEW a \in Bound
  PROVE  LET f == [eps EXCEPT ![dest].bytes = @ + add]
         IN  /\ DOMAIN f = Bound
             /\ f[a].bytes = IF a = dest THEN eps[a].bytes + add ELSE eps[a].bytes
  <1> DEFINE f == [eps EXCEPT ![dest].bytes = @ + add]
  <1>1. DOMAIN f = Bound
    OBVIOUS
  <1>2. CASE a # dest
    BY <1>2
  <1>3. CASE a = dest
    <2>1. f[a] = [eps[a] EXCEPT !.bytes = eps[a].bytes + add]
      BY <1>3
    <2>2. eps[a] \in Endpoint
      OBVIOUS
    <2> HIDE DEF f
    <2>3. f[a] = [ready |-> eps[a].ready, bytes |-> eps[a].bytes + add, since |-> eps[a].since]
      BY <2>1, <2>2, EndpointExcept
    <2> QED BY <1>3, <2>3
  <1> HIDE DEF f
  <1> QED BY <1>1, <1>2, <1>3 DEF f

(* A send that succeeds adds no copy, one or two. *)
LEMMA SendBytes ==
  ASSUME Inv, NEW dest \in Bound, NEW len \in Lens,
         \/ SendToNobody(dest, len) \/ SendToFull(dest, len) \/ SendDropped(dest, len)
         \/ Send(dest, len) \/ SendTwice(dest, len)
  PROVE  /\ dest \in DOMAIN endpoints'
         /\ endpoints'[dest].bytes \in {endpoints[dest].bytes, endpoints[dest].bytes + len,
                                        endpoints[dest].bytes + 2 * len}
  <1>1. endpoints \in [Bound -> Endpoint] /\ DOMAIN endpoints = Bound
    BY InvFacts DEF Bound
  <1>2. CASE SendToNobody(dest, len) \/ SendToFull(dest, len) \/ SendDropped(dest, len)
    <2>1. endpoints' = endpoints
      BY <1>2 DEF SendToNobody, SendToFull, SendDropped
    <2> QED BY <1>1, <2>1
  <1>3. ASSUME NEW add, endpoints' = [endpoints EXCEPT ![dest].bytes = @ + add]
        PROVE  dest \in DOMAIN endpoints' /\ endpoints'[dest].bytes = endpoints[dest].bytes + add
    <2> DEFINE f == [endpoints EXCEPT ![dest].bytes = @ + add]
    <2>1. DOMAIN f = Bound /\ f[dest].bytes = endpoints[dest].bytes + add
      BY <1>1, CopyBytes
    <2>2. endpoints' = f
      BY <1>3
    <2> HIDE DEF f
    <2> QED BY <2>1, <2>2
  <1>4. CASE Send(dest, len)
    <2>1. endpoints' = [endpoints EXCEPT ![dest].bytes = @ + len]
      BY <1>4 DEF Send, EnqueueCopy
    <2>2. dest \in DOMAIN endpoints' /\ endpoints'[dest].bytes = endpoints[dest].bytes + len
      BY <1>3, <2>1
    <2> QED BY <2>2
  <1>5. CASE SendTwice(dest, len)
    <2>1. endpoints' = [endpoints EXCEPT ![dest].bytes = @ + 2 * len]
      BY <1>5 DEF SendTwice, EnqueueCopies
    <2>2. dest \in DOMAIN endpoints' /\ endpoints'[dest].bytes = endpoints[dest].bytes + 2 * len
      BY <1>3, <2>1
    <2> QED BY <2>2
  <1> QED BY <1>2, <1>4, <1>5

(* What is under way to a bound address is what is in flight there; it is  *)
(* a queue for every address. *)
LEMMA UnderWayIs ==
  ASSUME Inv, NEW a \in Addrs
  PROVE  /\ a \in Bound => UnderWay(a) = InFlight(a)
         /\ a \in DOMAIN endpoints' => UnderWay(a)' = InFlight(a)'
         /\ UnderWay(a) \in Queue /\ BytesOf(UnderWay(a)) \in Nat
         /\ UNCHANGED << pending, endpoints >> => UnderWay(a)' = UnderWay(a)
  <1>1. To(pending, a) \in Queue
    BY InvFacts, QueueKept DEF To
  <1>2. Waiting(a) \in Queue
    BY InvFacts, EndpointType, QueueEmpty DEF Waiting
  <1>3. UnderWay(a) \in Queue /\ BytesOf(UnderWay(a)) \in Nat
    <2>1. UnderWay(a) \in Queue
      BY <1>1, <1>2, QueueConcat DEF UnderWay
    <2> QED BY <2>1, QueueKept
  <1>4. /\ a \in Bound => UnderWay(a) = InFlight(a)
        /\ a \in DOMAIN endpoints' => UnderWay(a)' = InFlight(a)'
    BY DEF UnderWay, Waiting, InFlight, Bound
  <1>5. UNCHANGED << pending, endpoints >> => UnderWay(a)' = UnderWay(a)
    BY DEF UnderWay, Waiting, Bound
  <1> QED BY <1>3, <1>4, <1>5

(* The reply of a send tells what became of it. *)
LEMMA SendTells ==
  ASSUME Inv, Inv', NEW from \in Addrs, NEW dest \in Addrs, NEW len \in Lens,
         TransportSend(from, dest, len), NEW a \in Addrs
  PROVE  ReplyTells(a)
  <1> SUFFICES ASSUME reply'.at = a
               PROVE  /\ reply'.op # "recv"
                      /\ IF reply'.info = "OK"
                         THEN BytesOf(UnderWay(a)') - BytesOf(UnderWay(a))
                                \in {0, reply'.bytes, 2 * reply'.bytes}
                         ELSE /\ reply'.bytes = 0
                              /\ IF reply'.info = "NETSIM_ALLOC_FAILED" THEN faults' > faults
                                 ELSE UNCHANGED vars
    BY DEF ReplyTells
  <1>1. CASE /\ \/ SendToNobody(dest, len) \/ SendToFull(dest, len) \/ SendDropped(dest, len)
                \/ Send(dest, len) \/ SendTwice(dest, len)
             /\ SendReply(dest, "OK", len)
    <2>1. reply' = [op |-> "send", at |-> dest, info |-> "OK", bytes |-> len] /\ dest = a
      BY <1>1 DEF SendReply
    <2>2. len \in Nat
      BY LensAssumption
    <2> DEFINE was == BytesOf(UnderWay(a))
               is == BytesOf(UnderWay(a)')
    <2>3. was \in Nat /\ is \in {was, was + len, was + 2 * len}
      <3>1. CASE a \in Bound
        <4>1. /\ a \in DOMAIN endpoints'
              /\ endpoints'[a].bytes \in {endpoints[a].bytes, endpoints[a].bytes + len,
                                          endpoints[a].bytes + 2 * len}
          BY <1>1, <2>1, <3>1, SendBytes
        <4>2. /\ BytesOf(InFlight(a)) = endpoints[a].bytes /\ endpoints[a].bytes \in Nat
              /\ BytesOf(InFlight(a)') = endpoints'[a].bytes
          BY <3>1, <4>1, BytesAre
        <4>3. UnderWay(a) = InFlight(a) /\ UnderWay(a)' = InFlight(a)'
          BY <3>1, <4>1, UnderWayIs
        <4> QED BY <4>1, <4>2, <4>3
      <3>2. CASE a \notin Bound
        <4>1. UNCHANGED << pending, endpoints >>
          BY <1>1, <2>1, <3>2 DEF SendToNobody, SendToFull, SendDropped, Send, SendTwice, Admitted
        <4> QED BY <4>1, UnderWayIs
      <3> QED BY <3>1, <3>2
    <2> HIDE DEF was, is
    <2>4. is - was \in {0, len, 2 * len}
      BY <2>2, <2>3
    <2> QED BY <2>1, <2>4 DEF was, is
  <1>2. CASE /\ SendFails(dest, len) \/ SendTwiceFails(dest, len)
             /\ SendReply(dest, "NETSIM_ALLOC_FAILED", len)
    <2>1. reply' = [op |-> "send", at |-> dest, info |-> "NETSIM_ALLOC_FAILED", bytes |-> 0]
      BY <1>2 DEF SendReply
    <2>2. faults' = faults + 1
      BY <1>2 DEF SendFails, SendTwiceFails
    <2>3. faults \in Nat
      BY InvFacts DEF Inv, Fields
    <2> QED BY <2>1, <2>2, <2>3
  <1>3. CASE SendRefused(from, dest, len)
    <2>1. /\ UNCHANGED vars
          /\ \/ SendReply(dest, "GENERIC_ERROR", len)
             \/ SendReply(dest, "NETSIM_PAYLOAD_TOO_LARGE", len)
      BY <1>3 DEF SendRefused
    <2>2. /\ reply'.op = "send" /\ reply'.bytes = 0
          /\ reply'.info \in {"GENERIC_ERROR", "NETSIM_PAYLOAD_TOO_LARGE"}
      BY <2>1 DEF SendReply
    <2> QED BY <2>1, <2>2
  <1> QED BY <1>1, <1>2, <1>3 DEF TransportSend

(* A receive that succeeds takes the bytes it reports. *)
LEMMA RecvBytes ==
  ASSUME Inv, Inv', NEW a \in Addrs, Recv(a)
  PROVE  /\ a \in Bound /\ endpoints[a].ready # << >>
         /\ BytesOf(InFlight(a)) = BytesOf(InFlight(a)') + Head(endpoints[a].ready).len
         /\ Len(InFlight(a)) = Len(InFlight(a)') + 1
  <1> DEFINE e == endpoints[a]
             len == Head(e.ready).len
             g == [ready |-> Tail(e.ready), bytes |-> e.bytes - len, since |-> e.since]
  <1>1. /\ a \in Bound /\ e \in Endpoint /\ e.ready # << >>
        /\ g \in Endpoint /\ Len(e.ready) = Len(g.ready) + 1
        /\ endpoints' = [endpoints EXCEPT ![a] = g]
    BY RecvTakes
  <1>2. g.bytes = e.bytes - len
    OBVIOUS
  <1>3. len \in Nat
    <2>1. e.ready \in Seq(Datagram)
      BY <1>1 DEF Endpoint
    <2>2. Head(e.ready) \in Datagram
      BY <1>1, <2>1
    <2> QED BY <2>2, DatagramType
  <1> HIDE DEF g, e, len
  <1>4. a \in DOMAIN endpoints' /\ endpoints'[a] = g
    BY <1>1 DEF Bound
  <1>5. BytesOf(InFlight(a)) = BytesOf(InFlight(a)') + len
    <2>1. /\ BytesOf(InFlight(a)) = e.bytes /\ e.bytes \in Nat
          /\ BytesOf(InFlight(a)') = endpoints'[a].bytes
      BY <1>1, <1>4, BytesAre DEF e
    <2>2. BytesOf(InFlight(a)') = e.bytes - len
      BY <1>2, <1>4, <2>1
    <2> DEFINE is == BytesOf(InFlight(a)')
    <2>3. is = e.bytes - len
      BY <2>2
    <2> HIDE DEF is
    <2>4. e.bytes = is + len
      BY <1>3, <2>1, <2>3
    <2> QED BY <2>1, <2>4 DEF is
  <1>6. Len(InFlight(a)) = Len(InFlight(a)') + 1
    <2> DEFINE q == To(pending, a)
    <2>1. pending \in Queue /\ pending' = pending
      BY InvFacts DEF Recv
    <2>2. q \in Queue
      BY <2>1, QueueKept DEF To
    <2>3. InFlight(a) = q \o e.ready /\ InFlight(a)' = q \o g.ready
      BY <1>4, <2>1 DEF InFlight, e
    <2> HIDE DEF q
    <2>4. e.ready \in Queue /\ g.ready \in Queue
      BY <1>1, EndpointType
    <2>5. /\ Len(q \o e.ready) = Len(q) + Len(e.ready)
          /\ Len(q \o g.ready) = Len(q) + Len(g.ready)
          /\ Len(q) \in Nat /\ Len(g.ready) \in Nat
      BY <2>2, <2>4 DEF Queue
    <2> QED BY <1>1, <2>3, <2>5
  <1> QED BY <1>1, <1>5, <1>6 DEF e, len

(* The reply of a receive tells what was there. *)
LEMMA RecvTells ==
  ASSUME Inv, Inv', NEW b \in Addrs, NEW cap \in Caps, TransportRecv(b, cap),
         NEW a \in Addrs
  PROVE  ReplyTells(a)
  <1> DEFINE empty == a \in open /\ Waiting(a) = << >>
  <1> SUFFICES ASSUME reply'.at = a
               PROVE  /\ reply'.op # "send"
                      /\ (reply'.info = "NET_WOULD_BLOCK") <=> empty
                      /\ IF reply'.info = "OK"
                         THEN /\ BytesOf(UnderWay(a)) = BytesOf(UnderWay(a)') + reply'.bytes
                              /\ Len(UnderWay(a)) = Len(UnderWay(a)') + 1
                         ELSE reply'.bytes = 0 /\ UNCHANGED vars
    BY DEF ReplyTells
  <1> DEFINE info == RecvInfo(b, cap)
             size == IF info = "OK" THEN Head(endpoints[b].ready).len ELSE 0
  <1>1. /\ reply' = [op |-> "recv", at |-> b, info |-> Surfaced(info), bytes |-> size]
        /\ IF info = "OK" THEN Recv(b) ELSE UNCHANGED vars
    BY Zenon DEF TransportRecv, RecvReply
  <1>2. b = a
    BY <1>1
  <1>3. /\ reply'.op = "recv" /\ reply'.info = Surfaced(info) /\ reply'.bytes = size
    BY <1>1
  <1>4. /\ (info = "NETSIM_EMPTY") <=> empty
        /\ info # "NET_WOULD_BLOCK"
    BY <1>2 DEF RecvInfo
  <1>5. CASE info = "OK"
    <2>1. Recv(a)
      BY <1>1, <1>2, <1>5
    <2>2. Surfaced(info) = "OK" /\ size = Head(endpoints[a].ready).len /\ ~ empty
      BY <1>2, <1>4, <1>5 DEF Surfaced
    <2>3. /\ a \in Bound
          /\ BytesOf(InFlight(a)) = BytesOf(InFlight(a)') + Head(endpoints[a].ready).len
          /\ Len(InFlight(a)) = Len(InFlight(a)') + 1
      BY <2>1, RecvBytes
    <2>4. a \in DOMAIN endpoints'
      BY <2>1, <2>3, InvFacts DEF Recv
    <2>5. UnderWay(a) = InFlight(a) /\ UnderWay(a)' = InFlight(a)'
      BY <2>3, <2>4, UnderWayIs
    <2> HIDE DEF info, size, empty
    <2> QED BY <1>3, <2>2, <2>3, <2>5
  <1>6. CASE info # "OK"
    <2>1. Surfaced(info) # "OK" /\ (Surfaced(info) = "NET_WOULD_BLOCK" <=> empty)
      BY <1>4, <1>6 DEF Surfaced
    <2>2. size = 0 /\ UNCHANGED vars
      BY <1>1, <1>6
    <2> HIDE DEF info, size, empty
    <2> QED BY <1>3, <2>1, <2>2
  <1> QED BY <1>5, <1>6

(* The other calls give no reply. *)
LEMMA StepTells ==
  ASSUME Inv, Inv', [TransportNext]_transportVars
  PROVE  [\A a \in Addrs : ReplyTells(a)]_transportVars
  <1>1. CASE \E from, dest \in Addrs, len \in Lens : TransportSend(from, dest, len)
    BY <1>1, SendTells
  <1>2. CASE \E a \in Addrs, cap \in Caps : TransportRecv(a, cap)
    BY <1>2, RecvTells
  <1>3. CASE (\E a \in Addrs : TransportClose(a)) \/ ManageNet
    <2>1. reply' = NoReply
      BY <1>3 DEF TransportClose, ManageNet
    <2>2. reply'.op = "none"
      BY <2>1 DEF NoReply
    <2> QED BY <2>2 DEF ReplyTells
  <1> QED BY <1>1, <1>2, <1>3 DEF TransportNext

(* The replies of the transport say what happened in the net. *)
THEOREM RepliesTrue == TransportSpec => RepliesTell
  <1> DEFINE Tells == \A a \in Addrs : ReplyTells(a)
  <1>1. TransportInit => Inv
    BY InitInv DEF TransportInit
  <1>2. Inv /\ [TransportNext]_transportVars => Inv'
    BY StepKeeps, TransportSteps
  <1>3. Inv /\ Inv' /\ [TransportNext]_transportVars => [Tells]_transportVars
    BY StepTells
  <1> HIDE DEF Tells
  <1>4. TransportSpec => [][Tells]_transportVars
    BY <1>1, <1>2, <1>3, PTL DEF TransportSpec
  <1> QED BY <1>4 DEF RepliesTell, Tells
=============================================================================
