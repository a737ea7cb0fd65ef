--------------------------- MODULE MCObjects_proofs ---------------------------
(***************************************************************************)
(* Theorems about Arena and TickLoop, whose proofs are few, and about the  *)
(* four objects together: for every strategy, every set of sizes and       *)
(* alignments, any number of blocks and allocations, every resolution of   *)
(* the clock, every rate and clamp, and any number of advances.            *)
(***************************************************************************)
EXTENDS MCObjects, HashBuffer_proofs, ByteStreams_proofs

-----------------------------------------------------------------------------
(* Alignment moves an offset forward, and leaves the start of a block.     *)
LEMMA Aligned ==
  ASSUME NEW offset \in Nat, NEW align \in Nat \ {0}
  PROVE  /\ AlignForward(offset, align) \in Nat
         /\ offset <= AlignForward(offset, align)
         /\ AlignForward(0, align) = 0
  <1> DEFINE q == (offset + align - 1) \div align
             m == (offset + align - 1) % align
  <1>1. q \in Nat /\ m \in 0..(align - 1) /\ offset + align - 1 = align * q + m
    OBVIOUS
  <1> HIDE DEF q, m
  <1>2. q * align = align * q /\ q * align \in Nat
    BY <1>1
  <1>3. (align - 1) \div align = 0
    OBVIOUS
  <1>4. AlignForward(offset, align) = q * align
    BY DEF AlignForward, q
  <1>5. AlignForward(0, align) = 0
    BY <1>3 DEF AlignForward
  <1> QED BY <1>1, <1>2, <1>4, <1>5

(* A new block is large enough for the request it is made for.             *)
LEMMA GrownFits ==
  ASSUME TypeOK, strategy # "none", NEW size \in Sizes, NEW align \in Aligns
  PROVE  /\ GrownSize(size, align) \in Nat
         /\ End(0, size, align) = size
         /\ size <= GrownSize(size, align)
  <1> USE SizeAssumption, AlignAssumption
  <1>1. End(0, size, align) = size
    BY Aligned DEF End
  <1> DEFINE tried == chain[IF current < Len(chain) THEN current + 1 ELSE current]
             wanted == IF strategy = "LINEAR" THEN initialSize ELSE 2 * tried.size
  <1>2. tried \in Block
    <2>1. /\ chain \in Seq(Block) /\ current \in 1..Len(chain)
      BY DEF TypeOK
    <2>2. (IF current < Len(chain) THEN current + 1 ELSE current) \in 1..Len(chain)
      BY <2>1
    <2> DEFINE next == IF current < Len(chain) THEN current + 1 ELSE current
    <2>3. next \in 1..Len(chain) /\ tried = chain[next]
      BY <2>2
    <2> HIDE DEF next, tried
    <2> QED BY <2>1, <2>3
  <1> HIDE DEF tried
  <1>3. tried.size \in Nat /\ initialSize \in Nat
    BY <1>2 DEF Block, TypeOK
  <1>4. wanted \in Nat
    BY <1>3
  <1>5. GrownSize(size, align) = IF wanted < size + align THEN size + align ELSE wanted
    BY DEF GrownSize, tried
  <1> QED BY <1>1, <1>4, <1>5

-----------------------------------------------------------------------------
(***************************************************************************)
(* The inductive invariant: besides the properties themselves, that a      *)
(* block stands in the list once, under a number given out by malloc, and  *)
(* that an allocation does not end before it starts.                       *)
(***************************************************************************)
BlocksNamed ==
  /\ \A i \in DOMAIN chain : chain[i].id <= mallocs /\ chain[i].used <= chain[i].size
  /\ \A i, j \in DOMAIN chain : chain[i].id = chain[j].id => i = j

AllocsForward == \A a \in live : a.from <= a.to

ArenaInv == TypeOK /\ BlocksNamed /\ AllocsForward /\ AllocsDisjoint /\ ResetReclaims

(***************************************************************************)
(* An allocation that is put at the end of block k of the list keeps the   *)
(* invariant, provided the blocks before stay, nothing that is live is in  *)
(* block k unless it is the current one, and the blocks behind are empty.  *)
(***************************************************************************)
LEMMA Placed ==
  ASSUME ArenaInv, strategy # "none", NEW k \in {current, current + 1},
         NEW from \in Nat, NEW to \in Nat, from <= to,
         chain' \in Seq(Block), k \in DOMAIN chain', current' = k,
         strategy' = strategy, initialSize' = initialSize,
         mallocs' \in mallocs..MaxBlocks, owned' \subseteq 1..MaxBlocks,
         \A i \in 1..(k - 1) : chain'[i] = chain[i],
         \A i \in DOMAIN chain' : i > k => chain'[i].used = 0,
         chain'[k].used = to, to <= chain'[k].size,
         live' = live \cup {[block |-> chain'[k].id, from |-> from, to |-> to]},
         k = current => chain'[k].id = chain[k].id /\ chain[k].used <= from,
         \A i \in DOMAIN chain' : chain'[i].id <= mallocs',
         \A i, j \in DOMAIN chain' : chain'[i].id = chain'[j].id => i = j
  PROVE  ArenaInv'
  <1> DEFINE new == [block |-> chain'[k].id, from |-> from, to |-> to]
  <1>1. current \in DOMAIN chain /\ DOMAIN chain = 1..Len(chain) /\ Len(chain) \in Nat
    BY DEF ArenaInv, TypeOK
  <1>2. DOMAIN chain' = 1..Len(chain') /\ Len(chain') \in Nat
    OBVIOUS
  <1>3. \A i \in DOMAIN chain' : chain'[i] \in Block
    BY <1>2
  <1>4. chain'[k].id \in 1..MaxBlocks
    BY <1>3 DEF Block
  <1>5. TypeOK'
    BY <1>4, BoundsAssumption DEF ArenaInv, TypeOK
  <1>6. \A i \in DOMAIN chain' :
          chain'[i].used \in Nat /\ chain'[i].size \in Nat
    BY <1>3 DEF Block
  <1>7. BlocksNamed'
    <2>1. ASSUME NEW i \in DOMAIN chain'
          PROVE  chain'[i].used <= chain'[i].size
      <3>1. CASE i < k
        <4>1. i \in DOMAIN chain /\ chain'[i] = chain[i]
          BY <3>1, <1>1, <1>2
        <4> QED BY <4>1 DEF ArenaInv, BlocksNamed
      <3>2. CASE i = k
        BY <3>2
      <3>3. CASE i > k
        BY <3>3, <1>6
      <3> QED BY <3>1, <3>2, <3>3, <1>1, <1>2
    <2> QED BY <2>1 DEF BlocksNamed
  <1>8. AllocsForward'
    BY DEF ArenaInv, AllocsForward
  (* A live allocation stands before block k, or in it when it is current. *)
  <1>9. ASSUME NEW a \in live
        PROVE  \E i \in 1..k : /\ chain'[i].id = a.block
                               /\ a.to <= chain'[i].used
                               /\ i = k => a.to <= from
    <2>1. PICK i \in 1..current : chain[i].id = a.block /\ a.to <= chain[i].used
      BY DEF ArenaInv, AllocsDisjoint
    <2>2. a.to \in Nat /\ chain[i].used \in Nat
      <3>1. chain \in Seq(Block) /\ i \in 1..Len(chain)
        BY <1>1 DEF ArenaInv, TypeOK
      <3>2. chain[i] \in Block
        BY <3>1
      <3> QED BY <3>2 DEF ArenaInv, TypeOK, Block
    <2>3. CASE i < k
      BY <2>1, <2>3, <1>1
    <2>4. CASE i = k
      BY <2>1, <2>2, <2>4, <1>1
    <2> QED BY <2>3, <2>4, <1>1
  <1>10. \A a \in live' : \E i \in 1..current' :
           /\ chain'[i].id = a.block
           /\ a.to <= chain'[i].used
           /\ chain'[i].used <= chain'[i].size
    <2>1. ASSUME NEW a \in live
          PROVE  \E i \in 1..k : /\ chain'[i].id = a.block
                                 /\ a.to <= chain'[i].used
                                 /\ chain'[i].used <= chain'[i].size
      BY <1>9, <1>7, <1>1, <1>2 DEF BlocksNamed
    <2>2. k \in 1..k /\ new.to <= chain'[k].used /\ chain'[k].used <= chain'[k].size
      BY <1>1
    <2> QED BY <2>1, <2>2
  <1>11. ASSUME NEW a \in live, a.block = new.block
         PROVE  a.to <= new.from
    <2>1. PICK i \in 1..k : chain'[i].id = a.block /\ (i = k => a.to <= from)
      BY <1>9
    <2>2. i \in DOMAIN chain'
      BY <1>1, <1>2
    <2>3. i = k
      BY <2>1, <2>2, <1>11
    <2> QED BY <2>1, <2>3
  <1>12. \A a, b \in live' :
           a # b /\ a.block = b.block => a.to <= b.from \/ b.to <= a.from
    <2>1. \A a, b \in live :
            a # b /\ a.block = b.block => a.to <= b.from \/ b.to <= a.from
      BY DEF ArenaInv, AllocsDisjoint
    <2> QED BY <2>1, <1>11
  <1>13. AllocsDisjoint'
    BY <1>10, <1>12 DEF AllocsDisjoint
  <1>14. ResetReclaims'
    BY DEF ResetReclaims
  <1> QED BY <1>5, <1>7, <1>8, <1>13, <1>14 DEF ArenaInv

(* The invariant holds initially and is kept by every step.                *)
LEMMA ArenaInvInductive ==
  /\ Init => ArenaInv
  /\ ArenaInv /\ [Next]_vars => ArenaInv'
  <1> USE SizeAssumption, AlignAssumption, BoundsAssumption
  <1>1. Init => ArenaInv
    BY DEF Init, ArenaInv, TypeOK, BlocksNamed, AllocsForward, AllocsDisjoint,
           ResetReclaims, Block
  <1>2. ArenaInv /\ [Next]_vars => ArenaInv'
    <2> SUFFICES ASSUME ArenaInv, [Next]_vars
                 PROVE  ArenaInv'
      OBVIOUS
    <2>1. mallocs \in 0..MaxBlocks /\ chain \in Seq(Block) /\ Len(chain) \in Nat
          /\ DOMAIN chain = 1..Len(chain)
          /\ \A i \in DOMAIN chain : chain[i] \in Block
      BY DEF ArenaInv, TypeOK
    <2>2. ASSUME NEW s \in Strategies, NEW size \in InitialSizes, Create(s, size)
          PROVE  ArenaInv'
      <3>1. NewBlock(size) \in Block
        BY <2>1, <2>2 DEF Create, NewBlock, Block
      <3>2. chain' = << NewBlock(size) >> /\ mallocs' = mallocs + 1 /\ live' = live
            /\ NewBlock(size).id = mallocs + 1 /\ NewBlock(size).used = 0
            /\ NewBlock(size).size = size
        BY <2>2 DEF Create, NewBlock
      <3>3. chain' \in Seq(Block) /\ DOMAIN chain' = 1..1 /\ chain'[1] = NewBlock(size)
        BY <3>1, <3>2
      <3>4. live = {}
        BY <2>2 DEF ArenaInv, TypeOK, AllocsDisjoint, Create
      <3>5. TypeOK'
        <4>1. strategy' = s /\ s # "none" /\ current' = 1 /\ initialSize' = size
              /\ owned' = owned \cup {mallocs + 1} /\ mallocs < MaxBlocks
          BY <2>2, StrategyAssumption DEF Create
        <4>2. owned' \subseteq 1..MaxBlocks
          BY <4>1, <2>1 DEF ArenaInv, TypeOK
        <4> QED BY <4>1, <4>2, <2>1, <3>2, <3>3, <3>4 DEF TypeOK
      <3> QED BY <3>2, <3>3, <3>4, <3>5, <2>1 DEF ArenaInv, BlocksNamed, AllocsForward,
                                              AllocsDisjoint, ResetReclaims
    <2>3. ASSUME NEW size \in Sizes, NEW align \in Aligns, AllocHere(size, align)
          PROVE  ArenaInv'
      <3> DEFINE block == chain[current]
                 from == AlignForward(block.used, align)
                 to == End(block.used, size, align)
      <3>1. strategy # "none" /\ current \in 1..Len(chain)
        BY <2>1, <2>3 DEF AllocHere, MayAlloc, ArenaInv, TypeOK
      <3>2. block \in Block /\ block.used \in Nat /\ block.size \in Nat
        BY <2>1, <3>1 DEF Block
      <3>3. from \in Nat /\ block.used <= from /\ to = from + size
        BY <3>2, Aligned DEF End
      <3>4. /\ chain' = [chain EXCEPT ![current].used = to]
            /\ to <= block.size
            /\ live' = live \cup {[block |-> block.id, from |-> from, to |-> to]}
            /\ current' = current /\ strategy' = strategy /\ mallocs' = mallocs
            /\ initialSize' = initialSize /\ owned' = owned
        BY <2>3 DEF AllocHere, Fits, Allocation
      <3> HIDE DEF from, to
      <3>5. chain' \in Seq(Block) /\ DOMAIN chain' = DOMAIN chain
        <4>1. [block EXCEPT !.used = to] \in Block
          BY <3>2, <3>3 DEF Block
        <4>2. chain' = [chain EXCEPT ![current] = [block EXCEPT !.used = to]]
          BY <3>4
        <4> QED BY <4>1, <4>2, <2>1, <3>1
      <3>6. /\ chain'[current].used = to /\ chain'[current].id = block.id
            /\ chain'[current].size = block.size
            /\ \A i \in DOMAIN chain : i # current => chain'[i] = chain[i]
        BY <2>1, <3>1, <3>2, <3>4 DEF Block
      <3>7. \A i \in DOMAIN chain : chain'[i].id = chain[i].id
        BY <3>6
      <3>8. \A i \in DOMAIN chain' : i > current => chain'[i].used = 0
        BY <3>5, <3>6, <3>1 DEF ArenaInv, ResetReclaims
      <3>9. /\ \A i \in DOMAIN chain' : chain'[i].id <= mallocs'
            /\ \A i, j \in DOMAIN chain' : chain'[i].id = chain'[j].id => i = j
        BY <3>4, <3>5, <3>7 DEF ArenaInv, BlocksNamed
      <3>10. owned' \subseteq 1..MaxBlocks /\ mallocs' \in mallocs..MaxBlocks
        BY <2>1, <3>4 DEF ArenaInv, TypeOK
      <3>11. \A i \in 1..(current - 1) : chain'[i] = chain[i]
        BY <3>6, <2>1, <3>1
      <3>12. from \in Nat /\ to \in Nat /\ from <= to
        BY <3>3
      <3> QED BY <3>1, <3>3, <3>4, <3>5, <3>6, <3>8, <3>9, <3>10, <3>11, <3>12, <2>1, Placed
    <2>4. ASSUME NEW size \in Sizes, NEW align \in Aligns, AllocNext(size, align)
          PROVE  ArenaInv'
      <3> DEFINE k == current + 1
                 block == chain[k]
                 from == AlignForward(0, align)
                 to == End(0, size, align)
      <3>1. strategy # "none" /\ current \in 1..Len(chain) /\ k \in 1..Len(chain)
        BY <2>1, <2>4 DEF AllocNext, MayAlloc, ArenaInv, TypeOK
      <3>2. block \in Block /\ block.size \in Nat
        BY <2>1, <3>1 DEF Block
      <3>3. from = 0 /\ to = size
        BY Aligned DEF End
      <3>4. /\ chain' = [chain EXCEPT ![k].used = to]
            /\ to <= block.size
            /\ live' = live \cup {[block |-> block.id, from |-> from, to |-> to]}
            /\ current' = k /\ strategy' = strategy /\ mallocs' = mallocs
            /\ initialSize' = initialSize /\ owned' = owned
        BY <2>4 DEF AllocNext, Fits, Allocation
      <3> HIDE DEF from, to
      <3>5. chain' \in Seq(Block) /\ DOMAIN chain' = DOMAIN chain
        <4>1. [block EXCEPT !.used = to] \in Block
          BY <3>2, <3>3 DEF Block
        <4>2. chain' = [chain EXCEPT ![k] = [block EXCEPT !.used = to]]
          BY <3>4
        <4> QED BY <4>1, <4>2, <2>1, <3>1
      <3>6. /\ chain'[k].used = to /\ chain'[k].id = block.id
            /\ chain'[k].size = block.size
            /\ \A i \in DOMAIN chain : i # k => chain'[i] = chain[i]
        BY <2>1, <3>1, <3>2, <3>4 DEF Block
      <3>7. \A i \in DOMAIN chain : chain'[i].id = chain[i].id
        BY <3>6
      <3>8. \A i \in DOMAIN chain' : i > k => chain'[i].used = 0
        BY <3>5, <3>6, <3>1, <2>1 DEF ArenaInv, ResetReclaims
      <3>9. /\ \A i \in DOMAIN chain' : chain'[i].id <= mallocs'
            /\ \A i, j \in DOMAIN chain' : chain'[i].id = chain'[j].id => i = j
        BY <3>4, <3>5, <3>7 DEF ArenaInv, BlocksNamed
      <3>10. owned' \subseteq 1..MaxBlocks /\ mallocs' \in mallocs..MaxBlocks
        BY <2>1, <3>4 DEF ArenaInv, TypeOK
      <3>11. \A i \in 1..(k - 1) : chain'[i] = chain[i]
        BY <3>6, <2>1, <3>1
      <3>12. from \in Nat /\ to \in Nat /\ from <= to
        BY <3>3
      <3>13. k \in {current, current + 1} /\ k # current
        BY <3>1
      <3> HIDE DEF k, block
      <3> QED BY <3>1, <3>4, <3>5, <3>6, <3>8, <3>9, <3>10, <3>11, <3>12, <3>13, <2>1, Placed
    <2>5. ASSUME NEW size \in Sizes, NEW align \in Aligns, AllocNewBlock(size, align)
          PROVE  ArenaInv'
      <3> DEFINE k == current + 1
                 kept == SubSeq(chain, 1, current)
                 grown == GrownSize(size, align)
                 from == AlignForward(0, align)
                 to == End(0, size, align)
                 block == [NewBlock(grown) EXCEPT !.used = to]
      <3>1. strategy # "none" /\ current \in 1..Len(chain) /\ mallocs < MaxBlocks
        BY <2>1, <2>5 DEF AllocNewBlock, MayAlloc, ArenaInv, TypeOK
      <3>2. from = 0 /\ to = size /\ grown \in Nat /\ to <= grown
        BY <3>1, Aligned, GrownFits DEF ArenaInv
      <3>3. /\ chain' = Append(kept, block)
            /\ live' = live \cup {[block |-> mallocs + 1, from |-> from, to |-> to]}
            /\ current' = k /\ strategy' = strategy /\ mallocs' = mallocs + 1
            /\ initialSize' = initialSize /\ owned' = owned \cup {mallocs + 1}
        BY <2>5 DEF AllocNewBlock, Allocation, NewBlock
      <3>4. block = [id |-> mallocs + 1, size |-> grown, used |-> to]
        BY DEF NewBlock
      <3>5. block \in Block /\ block.id = mallocs + 1 /\ block.size = grown /\ block.used = to
        <4> HIDE DEF from, to, grown, block
        <4>1. mallocs \in 0..MaxBlocks /\ MaxBlocks \in Nat
          BY <2>1, BoundsAssumption DEF ArenaInv, TypeOK
        <4>2. mallocs + 1 \in 1..MaxBlocks /\ grown \in Nat /\ to \in Nat
          BY <4>1, <2>1, <3>1, <3>2
        <4> QED BY <4>2, <3>4 DEF Block
      <3> HIDE DEF from, to, grown, block
      <3>6. kept \in Seq(Block) /\ Len(kept) = current
            /\ \A i \in 1..current : kept[i] = chain[i]
        BY <2>1, <3>1
      <3> HIDE DEF kept
      <3>7. chain' \in Seq(Block) /\ DOMAIN chain' = 1..k /\ chain'[k] = block
            /\ \A i \in 1..current : chain'[i] = chain[i]
        BY <2>1, <3>1, <3>3, <3>5, <3>6
      <3>8. \A i \in DOMAIN chain' : i > k => chain'[i].used = 0
        BY <3>7, <3>1
      <3>9. \A i \in 1..current : chain'[i].id \in Nat /\ chain'[i].id <= mallocs
        <4>1. \A i \in 1..current : i \in DOMAIN chain /\ chain'[i] = chain[i]
          BY <2>1, <3>1, <3>7
        <4>2. \A i \in DOMAIN chain : chain[i].id \in Nat /\ chain[i].id <= mallocs
          BY <2>1 DEF ArenaInv, BlocksNamed, Block
        <4> QED BY <4>1, <4>2
      <3>10. \A i \in DOMAIN chain' : chain'[i].id <= mallocs'
        BY <2>1, <3>1, <3>3, <3>5, <3>7, <3>9
      <3>11. ASSUME NEW i \in DOMAIN chain', NEW j \in DOMAIN chain',
                    chain'[i].id = chain'[j].id
             PROVE  i = j
        <4>1. CASE i \in 1..current /\ j \in 1..current
          BY <4>1, <3>1, <3>7, <3>11, <2>1 DEF ArenaInv, BlocksNamed
        <4>2. CASE i = k \/ j = k
          BY <4>2, <2>1, <3>1, <3>5, <3>7, <3>9, <3>11
        <4> QED BY <4>1, <4>2, <3>1, <3>7
      <3>12. owned' \subseteq 1..MaxBlocks /\ mallocs' \in mallocs..MaxBlocks
        BY <2>1, <3>1, <3>3 DEF ArenaInv, TypeOK
      <3>13. k \in {current, current + 1} /\ k # current /\ k \in DOMAIN chain'
        BY <3>1, <3>7
      <3>14. \A i \in 1..(k - 1) : chain'[i] = chain[i]
        BY <3>1, <3>7
      <3>15. from \in Nat /\ to \in Nat /\ from <= to
        BY <3>2
      <3>16. chain'[k].used = to /\ to <= chain'[k].size /\ chain'[k].id = mallocs + 1
        BY <3>2, <3>5, <3>7
      <3>17. \A i, j \in DOMAIN chain' : chain'[i].id = chain'[j].id => i = j
        BY <3>11
      <3> HIDE DEF k
      <3> QED BY <3>1, <3>3, <3>7, <3>8, <3>10, <3>12, <3>13, <3>14, <3>15, <3>16, <3>17, Placed
    <2>6. CASE Reset
      <3>1. /\ chain' = [i \in DOMAIN chain |-> [chain[i] EXCEPT !.used = 0]]
            /\ current' = 1 /\ live' = {} /\ strategy' = strategy
            /\ initialSize' = initialSize /\ mallocs' = mallocs /\ owned' = owned
            /\ strategy # "none"
        BY <2>6 DEF Reset
      <3>2. \A i \in DOMAIN chain : /\ [chain[i] EXCEPT !.used = 0] \in Block
                                    /\ chain'[i].id = chain[i].id
                                    /\ chain'[i].used = 0
                                    /\ chain[i].size \in Nat
                                    /\ chain'[i].size = chain[i].size
        BY <2>1, <3>1 DEF Block
      <3>3. chain' \in Seq(Block) /\ DOMAIN chain' = DOMAIN chain
        BY <2>1, <3>1, <3>2
      <3>4. 1 \in DOMAIN chain'
        BY <2>1, <3>1, <3>3 DEF ArenaInv, TypeOK
      <3>5. TypeOK'
        BY <3>1, <3>3, <3>4 DEF ArenaInv, TypeOK
      <3>6. BlocksNamed'
        BY <3>1, <3>2, <3>3 DEF ArenaInv, BlocksNamed
      <3> QED BY <3>1, <3>2, <3>3, <3>5, <3>6 DEF ArenaInv, AllocsForward, AllocsDisjoint,
                                              ResetReclaims
    <2>7. CASE Destroy
      <3>1. chain' = << >> /\ live' = {} /\ DOMAIN chain' = {}
        BY <2>7 DEF Destroy
      <3>2. TypeOK'
        <4>1. chain' \in Seq(Block)
          BY <3>1
        <4>2. /\ strategy' = "none" /\ current' = 0 /\ initialSize' = initialSize
              /\ mallocs' = mallocs /\ owned' \subseteq owned
          BY <2>7 DEF Destroy
        <4> QED BY <3>1, <4>1, <4>2 DEF ArenaInv, TypeOK
      <3> QED BY <3>1, <3>2 DEF ArenaInv, BlocksNamed, AllocsForward, AllocsDisjoint,
                                ResetReclaims
    <2>8. CASE UNCHANGED vars
      BY <2>8 DEF vars, ArenaInv, TypeOK, BlocksNamed, AllocsForward, AllocsDisjoint,
                  ResetReclaims
    <2> QED BY <2>2, <2>3, <2>4, <2>5, <2>6, <2>7, <2>8 DEF Next
  <1> QED BY <1>1, <1>2

-----------------------------------------------------------------------------
(* No two callers of cb_arena_alloc are given the same byte before the     *)
(* next reset, and each lies within a block that destroy will free.        *)
THEOREM MemoryDisjoint == Spec => []AllocsDisjoint
  <1>1. ArenaInv => AllocsDisjoint
    BY DEF ArenaInv
  <1> QED BY <1>1, ArenaInvInductive, PTL DEF Spec

(* cb_arena_alloc never finds a block ahead of the current one that is     *)
(* partly used: cb_arena_reset gives all the memory back.                  *)
THEOREM ResetGivesBack == Spec => []ResetReclaims
  <1>1. ArenaInv => ResetReclaims
    BY DEF ArenaInv
  <1> QED BY <1>1, ArenaInvInductive, PTL DEF Spec

-----------------------------------------------------------------------------
(* Arithmetic.                                                             *)

(* Quotient and remainder make up the number. *)
LEMMA QuotientIs ==
  ASSUME NEW a \in Nat, NEW t \in Nat \ {0}
  PROVE  /\ a \div t \in Nat
         /\ a % t \in 0..(t - 1)
         /\ (a \div t) * t + (a % t) = a
         /\ a - (a \div t) * t \in 0..(t - 1)
  <1>1. a \div t \in Nat /\ a % t \in 0..(t - 1) /\ a = t * (a \div t) + (a % t)
    OBVIOUS
  <1> DEFINE q == a \div t
             m == a % t
  <1>2. q \in Nat /\ m \in 0..(t - 1) /\ a = t * q + m
    BY <1>1
  <1> HIDE DEF q, m
  <1>3. t * q = q * t /\ q * t \in Nat
    BY <1>2
  <1>4. a - q * t = m /\ q * t + m = a
    BY <1>2, <1>3
  <1> QED BY <1>2, <1>4 DEF q, m

(* Products of naturals. *)
LEMMA Product ==
  ASSUME NEW a \in Nat, NEW b \in Nat
  PROVE  a * b \in Nat /\ a * b = b * a
  OBVIOUS

(* Multiplication distributes over sums and differences.                   *)
LEMMA Distributes ==
  ASSUME NEW a \in Int, NEW b \in Int, NEW c \in Int
  PROVE  /\ (a + b) * c = a * c + b * c
         /\ (a - b) * c = a * c - b * c
         /\ a * c \in Int
  OBVIOUS

(* A larger factor gives a larger product ...                              *)
LEMMA ProductMonotone ==
  ASSUME NEW a \in Nat, NEW b \in Nat, NEW c \in Nat, a <= b
  PROVE  a * c <= b * c
  <1>1. (b - a) * c \in Nat
    OBVIOUS
  <1>2. (b - a) * c = b * c - a * c
    BY Distributes
  <1> QED BY <1>1, <1>2, Product

(* ... and a larger dividend a larger quotient.                            *)
LEMMA QuotientMonotone ==
  ASSUME NEW a \in Nat, NEW b \in Nat, NEW t \in Nat \ {0}, a <= b
  PROVE  a \div t <= b \div t
  <1> DEFINE p == a \div t
             q == b \div t
  <1>1. /\ p \in Nat /\ q \in Nat
        /\ a - p * t \in 0..(t - 1) /\ b - q * t \in 0..(t - 1)
        /\ p * t \in Nat /\ q * t \in Nat
    BY QuotientIs, Product
  <1> HIDE DEF p, q
  <1>2. CASE q < p
    <2>1. (q + 1) * t <= p * t
      BY <1>1, <1>2, ProductMonotone
    <2>2. (q + 1) * t = q * t + 1 * t
      BY <1>1, Distributes
    <2>3. 1 * t = t
      OBVIOUS
    <2> QED BY <1>1, <2>1, <2>2, <2>3
  <1>3. p <= q
    BY <1>1, <1>2
  <1> QED BY <1>3 DEF p, q

-----------------------------------------------------------------------------
(* The clock.                                                              *)

(* A timespec tells the time it was made of. *)
LEMMA TimespecTells ==
  ASSUME NEW ns \in Nat
  PROVE  /\ NowNs(Timespec(ns)) = ns
         /\ Timespec(ns) \in [sec : Nat, nsec : 0..(NsPerSec - 1)]
  <1>1. NsPerSec \in Nat \ {0}
    BY TickLoopAssumption DEF NsPerSec
  <1> QED BY <1>1, QuotientIs DEF NowNs, Timespec

(* The request passed to nanosleep is the time asked for. *)
LEMMA RequestTells ==
  ASSUME NEW ms \in Nat
  PROVE  Request(ms) = ms * NsPerMs /\ ms * NsPerMs \in Nat
  <1> DEFINE q == ms \div MsPerSec
             m == ms % MsPerSec
  <1>1. MsPerSec \in Nat \ {0} /\ NsPerMs \in Nat \ {0}
    BY TickLoopAssumption
  <1>2. q \in Nat /\ m \in Nat /\ q * MsPerSec + m = ms /\ q * MsPerSec \in Nat
    BY <1>1, QuotientIs, Product
  <1>3. Request(ms) = q * (MsPerSec * NsPerMs) + m * NsPerMs
    BY DEF Request, NowNs, NsPerSec
  <1> HIDE DEF q, m
  <1>4. (q * MsPerSec + m) * NsPerMs = (q * MsPerSec) * NsPerMs + m * NsPerMs
    BY <1>1, <1>2, Distributes
  <1>5. (q * MsPerSec) * NsPerMs = q * (MsPerSec * NsPerMs)
    BY <1>1, <1>2
  <1> QED BY <1>1, <1>2, <1>3, <1>4, <1>5, Product

(* What the loop reads is a time. *)
LEMMA NowIsTime ==
  ASSUME TimeTypeOK
  PROVE  Now \in Nat /\ NowNs(system) \in Nat
  <1>1. NsPerSec \in Nat
    BY TickLoopAssumption DEF NsPerSec
  <1>2. system.sec \in Nat /\ system.nsec \in Nat
    BY DEF TimeTypeOK
  <1>3. NowNs(system) \in Nat
    BY <1>1, <1>2, Product DEF NowNs
  <1> QED BY <1>3, TickLoopAssumption DEF Now, TimeTypeOK

(* The bounds of what an advance computes.                                 *)
LEMMA ElapsedBounds ==
  ASSUME TimeTypeOK, NEW now \in Nat
  PROVE  /\ Elapsed(now) \in Nat /\ Back(now) \in Nat
         /\ Elapsed(now) = now - loop.last + Back(now)
  BY DEF TimeTypeOK, Elapsed, Back

(* The clamp leaves at most what is due, and at least one tick of it.      *)
LEMMA ClampedBounds ==
  ASSUME TimeTypeOK, NEW due \in Nat
  PROVE  /\ Clamped(due) \in 0..due
         /\ due > 0 => Clamped(due) > 0
  <1>1. loop.maxTicks \in Clamps /\ Clamps \subseteq 0..MaxU32 /\ MaxU32 \in Nat \ {0}
    BY TickLoopAssumption DEF TimeTypeOK
  <1>2. loop.maxTicks \in Nat
    <2>1. loop.maxTicks \in 0..MaxU32
      BY <1>1, Zenon
    <2> QED BY <1>1, <2>1
  <1> DEFINE capped == IF loop.maxTicks # 0 /\ due > loop.maxTicks THEN loop.maxTicks
                                                                   ELSE due
  <1>3. capped \in 0..due /\ (due > 0 => capped > 0)
    BY <1>2
  <1>4. Clamped(due) = IF capped > MaxU32 THEN MaxU32 ELSE capped
    BY DEF Clamped
  <1> HIDE DEF capped
  <1> QED BY <1>1, <1>3, <1>4

-----------------------------------------------------------------------------
(***************************************************************************)
(* The inductive invariant: the properties, that before the first advance  *)
(* there is no history, and that a sleeper's remaining request covers the  *)
(* time up to its goal.                                                    *)
(***************************************************************************)
FreshUntilStarted == ~ loop.started => advances = 0 /\ rewound = 0

RequestCovers ==
  sleeping # Awake => NowNs(system) + sleeping.left >= sleeping.until

TimeInv ==
  /\ TimeTypeOK
  /\ TimeAccounted
  /\ TroubleReported
  /\ FreshUntilStarted
  /\ RequestCovers

(* A loop that is created with a rate of 0, or above one tick per ns, has  *)
(* no tick; otherwise a tick takes some time.                              *)
LEMMA TickTypes ==
  ASSUME NEW hz \in Rates
  PROVE  TickNs(hz) \in Nat /\ (hz = 0 => TickNs(hz) = 0)
  <1>1. NsPerSec \in Nat /\ hz \in Nat
    BY TickLoopAssumption DEF NsPerSec
  <1>2. CASE hz = 0
    BY <1>2 DEF TickNs
  <1>3. CASE hz # 0
    BY <1>1, <1>3, QuotientIs DEF TickNs
  <1> QED BY <1>2, <1>3

(* cb_tick_loop_init establishes the invariant.                            *)
LEMMA TimeInvInit == ASSUME TimeInit PROVE TimeInv
  <1>1. PICK hz \in Rates, clamp \in Clamps : loop = NewLoop(hz, clamp)
    BY DEF TimeInit
  <1>2. loop = [info |-> IF hz = 0 THEN "BAD_TICK_HZ" ELSE "OK",
                tickNs |-> TickNs(hz), maxTicks |-> clamp, last |-> 0, acc |-> 0,
                index |-> 0, started |-> FALSE, custom |-> FALSE]
    BY <1>1 DEF NewLoop
  <1>3. /\ system = Timespec(0) /\ manual = 0 /\ sleeping = Awake
        /\ advances = 0 /\ base = 0 /\ rewound = 0 /\ lost = 0
    BY DEF TimeInit
  <1>4. system \in [sec : Nat, nsec : 0..(NsPerSec - 1)]
    BY <1>3, TimespecTells
  <1>5. TimeTypeOK
    BY <1>2, <1>3, <1>4, TickTypes DEF TimeTypeOK, Awake
  <1>6. TimeAccounted
    <2>1. 0 * TickNs(hz) = 0 /\ TickNs(hz) \in Nat
      BY TickTypes
    <2> QED BY <1>2, <1>3, <2>1 DEF TimeAccounted
  <1>7. TroubleReported
    BY <1>2, <1>3, TickTypes DEF TroubleReported
  <1> QED BY <1>2, <1>3, <1>5, <1>6, <1>7 DEF TimeInv, FreshUntilStarted, RequestCovers

(***************************************************************************)
(* An advance: what was due, what ran, and what is left.                   *)
(***************************************************************************)
LEMMA AdvanceInv ==
  ASSUME TimeInv, Advance
  PROVE  /\ TimeInv'
         /\ loop'.tickNs = loop.tickNs
         /\ loop'.index \in Nat /\ loop'.acc \in Nat
         /\ loop'.index > loop.index \/ (loop'.index = loop.index /\ loop'.acc >= loop.acc)
  <1> DEFINE acc == loop.acc + Elapsed(Now)
             t == loop.tickNs
             due == acc \div t
             ran == Clamped(due)
             left == Leftover(acc, ran)
  <1>1. TimeTypeOK /\ t \in Nat \ {0} /\ loop.started
    BY DEF TimeInv, Advance, TimeTypeOK
  <1>2. Now \in Nat /\ NowNs(system) \in Nat
    BY <1>1, NowIsTime
  <1>3. Elapsed(Now) \in Nat /\ Back(Now) \in Nat
        /\ Elapsed(Now) = Now - loop.last + Back(Now)
    BY <1>1, <1>2, ElapsedBounds
  <1>4. acc \in Nat /\ acc >= loop.acc /\ acc = loop.acc + (Now - loop.last + Back(Now))
        /\ loop.last \in Nat /\ loop.acc \in Nat /\ loop.index \in Nat
    BY <1>1, <1>3 DEF TimeTypeOK
  <1>5. due \in Nat /\ left = acc - due * t /\ left \in 0..(t - 1)
    <2>1. left = acc - due * t
      BY DEF Leftover
    <2> HIDE DEF left
    <2> QED BY <1>1, <1>4, <2>1, QuotientIs
  <1>6. ran \in 0..due /\ (due > 0 => ran > 0)
    BY <1>1, <1>5, ClampedBounds
  <1>7. /\ loop' = [loop EXCEPT !.last = Now, !.acc = left, !.index = @ + ran,
                                !.info = InfoAfter(due)]
        /\ lost' = lost + (due - ran) * t
        /\ advances' = advances + 1 /\ rewound' = rewound + Back(Now)
        /\ system' = system /\ manual' = manual /\ sleeping' = sleeping /\ base' = base
    BY <1>1 DEF Advance
  <1> HIDE DEF acc, due, ran, left
  <1>8. lost \in Nat /\ advances \in Nat /\ rewound \in Nat /\ base \in Nat
    BY <1>1 DEF TimeTypeOK
  <1>9. loop \in [info : {"OK", "BAD_TICK_HZ", "TICK_LAG"}, tickNs : Nat,
                  maxTicks : Clamps, last : Nat, acc : Nat, index : Nat,
                  started : BOOLEAN, custom : BOOLEAN]
    BY <1>1 DEF TimeTypeOK
  <1>10. /\ loop'.last = Now /\ loop'.acc = left /\ loop'.index = loop.index + ran
         /\ loop'.info = InfoAfter(due) /\ loop'.tickNs = t
         /\ loop'.started = loop.started
    BY <1>7, <1>9
  <1>11. (due - ran) * t \in Nat /\ (due - ran > 0 <=> (due - ran) * t > 0)
    <2>1. due - ran \in Nat
      BY <1>5, <1>6
    <2>2. CASE due - ran = 0
      BY <1>1, <2>2
    <2>3. CASE due - ran > 0
      <3>1. 1 * t <= (due - ran) * t
        BY <1>1, <2>1, <2>3, ProductMonotone
      <3>2. 1 * t = t
        BY <1>1
      <3> QED BY <1>1, <2>1, <2>3, <3>1, <3>2, Product
    <2> QED BY <2>1, <2>2, <2>3
  <1>12. InfoAfter(due) = IF ran < due THEN "TICK_LAG" ELSE loop.info
    BY DEF InfoAfter, ran
  <1>13. TimeTypeOK'
    <2>1. left \in Nat /\ loop.index + ran \in Nat
      BY <1>1, <1>4, <1>5, <1>6
    <2>2. InfoAfter(due) \in {"OK", "BAD_TICK_HZ", "TICK_LAG"}
      BY <1>9, <1>12
    <2>3. loop' \in [info : {"OK", "BAD_TICK_HZ", "TICK_LAG"}, tickNs : Nat,
                     maxTicks : Clamps, last : Nat, acc : Nat, index : Nat,
                     started : BOOLEAN, custom : BOOLEAN]
      BY <1>2, <1>7, <1>9, <2>1, <2>2
    <2>4. lost' \in Nat /\ advances' \in Nat /\ rewound' \in Nat /\ base' \in Nat
      BY <1>3, <1>7, <1>8, <1>11
    <2> QED BY <1>1, <1>7, <2>3, <2>4 DEF TimeTypeOK
  <1>14. TimeAccounted'
    <2>1. loop.index * t + loop.acc + lost = loop.last - base + rewound
      BY <1>1 DEF TimeInv, TimeAccounted
    <2>2. (loop.index + ran) * t = loop.index * t + ran * t
          /\ loop.index * t \in Int /\ ran * t \in Int
      BY <1>1, <1>4, <1>6, Distributes
    <2>3. (due - ran) * t = due * t - ran * t /\ due * t \in Int
      BY <1>1, <1>5, <1>6, Distributes
    <2>4. loop'.index * t + loop'.acc + lost' = loop'.last - base' + rewound'
      <3> DEFINE before == loop.index * t
                 run == ran * t
                 all == due * t
      <3>1. loop'.index * t = before + run /\ lost' = lost + (all - run)
            /\ left = acc - all
        BY <1>5, <1>7, <1>10, <2>2, <2>3
      <3>2. before \in Int /\ run \in Int /\ all \in Int
            /\ before + loop.acc + lost = loop.last - base + rewound
        BY <2>1, <2>2, <2>3
      <3>3. loop'.acc = left /\ loop'.last = Now /\ base' = base
            /\ rewound' = rewound + Back(Now)
        BY <1>7, <1>10
      <3> HIDE DEF before, run, all
      <3> QED BY <1>2, <1>3, <1>4, <1>8, <3>1, <3>2, <3>3
    <2>5. loop'.tickNs > 0 => loop'.acc < loop'.tickNs
      BY <1>1, <1>5, <1>10
    <2> QED BY <1>1, <1>10, <2>4, <2>5 DEF TimeAccounted
  <1>15. TroubleReported'
    <2>1. lost > 0 <=> loop.info = "TICK_LAG"
      BY <1>1 DEF TimeInv, TroubleReported
    <2>2. lost' > 0 <=> (lost > 0 \/ due - ran > 0)
      BY <1>7, <1>8, <1>11
    <2>3. ran < due <=> due - ran > 0
      BY <1>5, <1>6
    <2> QED BY <1>1, <1>10, <1>12, <2>1, <2>2, <2>3 DEF TroubleReported
  <1>16. FreshUntilStarted'
    BY <1>1, <1>10 DEF FreshUntilStarted
  <1>17. RequestCovers'
    BY <1>7 DEF TimeInv, RequestCovers, NowNs
  <1>18. loop'.index > loop.index \/ (loop'.index = loop.index /\ loop'.acc >= loop.acc)
    <2>1. CASE due > 0
      BY <1>4, <1>5, <1>6, <1>10, <2>1
    <2>2. CASE due = 0
      <3>1. due * t = 0
        BY <1>1, <2>2
      <3> QED BY <1>4, <1>5, <1>6, <1>10, <2>2, <3>1
    <2> QED BY <1>5, <2>1, <2>2
  <1>19. loop'.index \in Nat /\ loop'.acc \in Nat
    BY <1>13 DEF TimeTypeOK
  <1> QED BY <1>10, <1>13, <1>14, <1>15, <1>16, <1>17, <1>18, <1>19 DEF TimeInv

(***************************************************************************)
(* The other steps.                                                        *)
(***************************************************************************)
LoopType ==
  [info : {"OK", "BAD_TICK_HZ", "TICK_LAG"}, tickNs : Nat, maxTicks : Clamps,
   last : Nat, acc : Nat, index : Nat, started : BOOLEAN, custom : BOOLEAN]

(* Steps of the clock: the loop and its history stay.                      *)
LEMMA ClockInv ==
  ASSUME TimeInv, UNCHANGED loopVars,
         system' \in [sec : Nat, nsec : 0..(NsPerSec - 1)],
         manual' \in Readings \cup {0}, sleeping' \in [until : Int, left : Nat],
         RequestCovers'
  PROVE  TimeInv'
  <1>1. TimeTypeOK'
    BY DEF TimeInv, TimeTypeOK, loopVars
  <1>2. TimeAccounted' /\ TroubleReported' /\ FreshUntilStarted'
    BY DEF TimeInv, TimeAccounted, TroubleReported, FreshUntilStarted, loopVars
  <1> QED BY <1>1, <1>2 DEF TimeInv

(* Letting time pass moves what the system clock tells by exactly that     *)
(* much.                                                                   *)
LEMMA ElapseTells ==
  ASSUME TimeTypeOK, NEW ns \in Nat, Elapse(ns)
  PROVE  /\ system' \in [sec : Nat, nsec : 0..(NsPerSec - 1)]
         /\ NowNs(system') = NowNs(system) + ns
  <1>1. NowNs(system) + ns \in Nat
    BY NowIsTime
  <1> QED BY <1>1, TimespecTells DEF Elapse

(* The steps of cb_time_sleep_ms keep the invariant, and it returns no     *)
(* earlier than asked.                                                     *)
LEMMA SleepInv ==
  ASSUME TimeInv
  PROVE  /\ \A ms \in Sleeps : SleepMs(ms) => TimeInv'
         /\ \A ns \in 1..MaxTime :
              /\ SleepInterrupted(ns) => TimeInv'
              /\ SleepEnds(ns) => TimeInv' /\ NowNs(system') >= sleeping.until
  <1>1. TimeTypeOK /\ NowNs(system) \in Nat
    BY NowIsTime DEF TimeInv
  <1>2. ASSUME NEW ms \in Sleeps, SleepMs(ms) PROVE TimeInv'
    <2>1. ms \in Nat
      BY TickLoopAssumption
    <2>2. Request(ms) \in Nat /\ NowNs(system) + ms * NsPerMs = NowNs(system) + Request(ms)
          /\ NowNs(system) + ms * NsPerMs \in Nat
      BY <1>1, <2>1, RequestTells
    <2>3. /\ sleeping' = [until |-> NowNs(system) + ms * NsPerMs, left |-> Request(ms)]
          /\ system' = system /\ manual' = manual /\ UNCHANGED loopVars
      BY <1>2 DEF SleepMs
    <2>4. sleeping' \in [until : Int, left : Nat]
      BY <2>2, <2>3
    <2>5. RequestCovers'
      BY <1>1, <2>2, <2>3 DEF RequestCovers
    <2> QED BY <1>1, <2>3, <2>4, <2>5, ClockInv DEF TimeTypeOK
  <1>3. sleeping \in [until : Int, left : Nat]
    BY <1>1 DEF TimeTypeOK
  <1>4. ASSUME NEW ns \in 1..MaxTime, SleepInterrupted(ns) PROVE TimeInv'
    <2>1. NowNs(system') = NowNs(system) + ns /\ ns \in Nat
          /\ system' \in [sec : Nat, nsec : 0..(NsPerSec - 1)]
      BY <1>1, <1>4, ElapseTells DEF SleepInterrupted
    <2>2. /\ sleeping' = [sleeping EXCEPT !.left = @ - ns] /\ ns < sleeping.left
          /\ sleeping # Awake /\ manual' = manual /\ UNCHANGED loopVars
      BY <1>4 DEF SleepInterrupted
    <2>3. /\ sleeping' \in [until : Int, left : Nat]
          /\ sleeping'.until = sleeping.until /\ sleeping'.left = sleeping.left - ns
      BY <1>3, <2>1, <2>2
    <2>4. RequestCovers'
      BY <1>1, <1>3, <2>1, <2>2, <2>3 DEF TimeInv, RequestCovers
    <2> QED BY <1>1, <2>1, <2>2, <2>3, <2>4, ClockInv DEF TimeTypeOK
  <1>5. ASSUME NEW ns \in 1..MaxTime, SleepEnds(ns)
        PROVE  TimeInv' /\ NowNs(system') >= sleeping.until
    <2>1. NowNs(system') = NowNs(system) + ns /\ ns \in Nat
          /\ system' \in [sec : Nat, nsec : 0..(NsPerSec - 1)]
      BY <1>1, <1>5, ElapseTells DEF SleepEnds
    <2>2. /\ sleeping' = Awake /\ ns >= sleeping.left
          /\ sleeping # Awake /\ manual' = manual /\ UNCHANGED loopVars
      BY <1>5 DEF SleepEnds
    <2>3. sleeping' \in [until : Int, left : Nat]
      BY <2>2 DEF Awake
    <2>4. RequestCovers'
      BY <2>2 DEF RequestCovers
    <2>5. NowNs(system') >= sleeping.until
      BY <1>1, <1>3, <2>1, <2>2 DEF TimeInv, RequestCovers
    <2> QED BY <1>1, <2>1, <2>2, <2>3, <2>4, <2>5, ClockInv DEF TimeTypeOK
  <1> QED BY <1>2, <1>4, <1>5

(* The operations of the loop that run no tick keep it.                    *)
LEMMA LoopInv ==
  ASSUME TimeInv,
         Start \/ AdvanceWithoutTick \/ LoopReset \/ \E custom \in BOOLEAN : SetClock(custom)
  PROVE  TimeInv'
  <1>1. TimeTypeOK /\ Now \in Nat /\ loop \in LoopType
    BY NowIsTime DEF TimeInv, TimeTypeOK, LoopType
  <1>2. /\ lost \in Nat /\ advances \in Nat /\ rewound \in Nat /\ base \in Nat
        /\ loop.tickNs \in Nat /\ loop.acc \in Nat /\ loop.index \in Nat /\ loop.last \in Nat
    BY <1>1 DEF TimeTypeOK, LoopType
  <1>3. loop.index * loop.tickNs \in Nat
    BY <1>2, Product
  <1>4. CASE Start
    <2>1. /\ loop' = [loop EXCEPT !.started = TRUE, !.last = Now]
          /\ advances' = advances + 1 /\ base' = Now /\ ~ loop.started
          /\ UNCHANGED << system, manual, sleeping, rewound, lost >>
      BY <1>4 DEF Start
    <2>2. /\ loop' \in LoopType /\ loop'.tickNs = loop.tickNs /\ loop'.acc = loop.acc
          /\ loop'.index = loop.index /\ loop'.last = Now /\ loop'.started
          /\ loop'.info = loop.info
      BY <1>1, <2>1 DEF LoopType
    <2>3. advances = 0 /\ rewound = 0
      BY <2>1 DEF TimeInv, FreshUntilStarted
    <2>4. TimeTypeOK'
      BY <1>1, <1>2, <2>1, <2>2 DEF TimeTypeOK, LoopType
    <2>5. TimeAccounted'
      BY <1>1, <1>2, <1>3, <2>1, <2>2, <2>3 DEF TimeInv, TimeAccounted
    <2>6. TroubleReported'
      BY <2>1, <2>2, <2>3 DEF TimeInv, TroubleReported
    <2> QED BY <2>1, <2>2, <2>4, <2>5, <2>6 DEF TimeInv, FreshUntilStarted, RequestCovers, NowNs
  <1>5. CASE AdvanceWithoutTick
    <2>1. /\ loop' = [loop EXCEPT !.last = Now, !.acc = @ + Elapsed(Now),
                                  !.info = "BAD_TICK_HZ"]
          /\ advances' = advances + 1 /\ rewound' = rewound + Back(Now)
          /\ loop.started /\ loop.tickNs = 0
          /\ UNCHANGED << system, manual, sleeping, base, lost >>
      BY <1>5 DEF AdvanceWithoutTick
    <2>2. Elapsed(Now) \in Nat /\ Back(Now) \in Nat
          /\ Elapsed(Now) = Now - loop.last + Back(Now)
      BY <1>1, ElapsedBounds
    <2>3. /\ loop' \in LoopType /\ loop'.tickNs = 0 /\ loop'.acc = loop.acc + Elapsed(Now)
          /\ loop'.index = loop.index /\ loop'.last = Now /\ loop'.started
          /\ loop'.info = "BAD_TICK_HZ"
      <3>1. loop.acc + Elapsed(Now) \in Nat
        BY <1>2, <2>2
      <3> QED BY <1>1, <2>1, <3>1 DEF LoopType
    <2>4. TimeTypeOK'
      <3>1. advances' \in Nat /\ rewound' \in Nat
        BY <1>1, <2>1, <2>2 DEF TimeTypeOK
      <3>2. /\ system' \in [sec : Nat, nsec : 0..(NsPerSec - 1)]
            /\ manual' \in Readings \cup {0} /\ sleeping' \in [until : Int, left : Nat]
            /\ base' \in Nat /\ lost' \in Nat
        BY <1>1, <2>1 DEF TimeTypeOK
      <3> QED BY <2>3, <3>1, <3>2 DEF TimeTypeOK, LoopType
    <2>5. TimeAccounted'
      <3> DEFINE ticked == loop.index * loop.tickNs
      <3>1. loop'.index * loop'.tickNs = ticked /\ ticked \in Nat
        BY <1>3, <2>1, <2>3
      <3>2. ticked + loop.acc + lost = loop.last - base + rewound
        BY <2>1 DEF TimeInv, TimeAccounted
      <3> HIDE DEF ticked
      <3>3. /\ loop'.acc = loop.acc + Elapsed(Now) /\ loop'.last = Now
            /\ rewound' = rewound + Back(Now) /\ base' = base /\ lost' = lost
        BY <2>1, <2>3
      <3>4. Now \in Nat
        BY <1>1
      <3>5. ticked + (loop.acc + Elapsed(Now)) + lost = Now - base + (rewound + Back(Now))
        <4> DEFINE acc == loop.acc
                   last == loop.last
                   e == Elapsed(Now)
                   b == Back(Now)
                   n == Now
        <4>1. acc \in Nat /\ last \in Int /\ base \in Nat /\ lost \in Nat /\ rewound \in Nat
          BY <1>1, <1>2 DEF TimeTypeOK, LoopType, TimeInv
        <4>2. e \in Nat /\ b \in Nat /\ n \in Nat /\ e = n - last + b
          BY <2>2, <3>4
        <4>3. ticked \in Nat /\ ticked + acc + lost = last - base + rewound
          BY <3>1, <3>2
        <4> HIDE DEF acc, last, e, b, n
        <4>4. ticked + (acc + e) + lost = n - base + (rewound + b)
          BY <4>1, <4>2, <4>3
        <4> QED BY <4>4 DEF acc, last, e, b, n
      <3>6. loop'.index * loop'.tickNs + loop'.acc + lost' = loop'.last - base' + rewound'
        BY <3>1, <3>3, <3>5
      <3>7. loop'.started /\ ~ (loop'.tickNs > 0)
        BY <2>3
      <3> HIDE <2>3
      <3> QED BY <3>6, <3>7 DEF TimeAccounted
    <2>6. TroubleReported'
      BY <2>3 DEF TroubleReported
    <2> QED BY <2>1, <2>3, <2>4, <2>5, <2>6 DEF TimeInv, FreshUntilStarted, RequestCovers, NowNs
  <1>6. CASE LoopReset
    <2>1. /\ loop' = [loop EXCEPT !.info = IF loop.tickNs = 0 THEN "BAD_TICK_HZ" ELSE "OK",
                                  !.last = 0, !.acc = 0, !.index = 0, !.started = FALSE]
          /\ advances' = 0 /\ base' = 0 /\ rewound' = 0 /\ lost' = 0
          /\ UNCHANGED << system, manual, sleeping >>
      BY <1>6 DEF LoopReset
    <2>2. /\ loop' \in LoopType /\ loop'.tickNs = loop.tickNs /\ loop'.acc = 0
          /\ loop'.index = 0 /\ ~ loop'.started
          /\ loop'.info = IF loop.tickNs = 0 THEN "BAD_TICK_HZ" ELSE "OK"
      BY <1>1, <2>1 DEF LoopType
    <2>3. TimeTypeOK'
      BY <1>1, <2>1, <2>2 DEF TimeTypeOK, LoopType
    <2>4. TimeAccounted' /\ TroubleReported'
      BY <1>2, <2>1, <2>2 DEF TimeAccounted, TroubleReported
    <2> QED BY <2>1, <2>3, <2>4 DEF TimeInv, FreshUntilStarted, RequestCovers, NowNs
  <1>7. ASSUME NEW custom \in BOOLEAN, SetClock(custom)
        PROVE  TimeInv'
    <2>1. /\ loop' = [loop EXCEPT !.custom = custom]
          /\ UNCHANGED << system, manual, sleeping, advances, base, rewound, lost >>
      BY <1>7 DEF SetClock
    <2>2. /\ loop' \in LoopType /\ loop'.tickNs = loop.tickNs /\ loop'.acc = loop.acc
          /\ loop'.index = loop.index /\ loop'.last = loop.last
          /\ loop'.started = loop.started /\ loop'.info = loop.info
      BY <1>1, <2>1 DEF LoopType
    <2>3. TimeTypeOK'
      BY <1>1, <2>1, <2>2 DEF TimeTypeOK, LoopType
    <2>4. TimeAccounted' /\ TroubleReported' /\ FreshUntilStarted'
      BY <2>1, <2>2 DEF TimeInv, TimeAccounted, TroubleReported, FreshUntilStarted
    <2> QED BY <2>1, <2>3, <2>4 DEF TimeInv, RequestCovers, NowNs
  <1> QED BY <1>4, <1>5, <1>6, <1>7

(* The invariant is kept by every step.                                    *)
LEMMA TimeInvNext ==
  ASSUME TimeInv, [TimeNext]_timeVars
  PROVE  TimeInv'
  <1>1. ASSUME Start \/ AdvanceWithoutTick \/ LoopReset \/ \E custom \in BOOLEAN : SetClock(custom)
        PROVE  TimeInv'
    BY <1>1, LoopInv
  <1>2. CASE Advance
    BY <1>2, AdvanceInv
  <1>3. ASSUME NEW ns \in 1..MaxTime, Pass(ns)
        PROVE  TimeInv'
    <2>1. ns \in Nat /\ TimeTypeOK
      BY TickLoopAssumption DEF TimeInv
    <2>2. system' \in [sec : Nat, nsec : 0..(NsPerSec - 1)]
      BY <1>3, <2>1, ElapseTells DEF Pass
    <2>3. sleeping = Awake /\ sleeping' = sleeping /\ manual' = manual /\ UNCHANGED loopVars
      BY <1>3 DEF Pass
    <2>4. RequestCovers'
      BY <2>3 DEF RequestCovers
    <2> QED BY <2>1, <2>2, <2>3, <2>4, ClockInv DEF TimeTypeOK
  <1>4. ASSUME NEW ns \in 1..MaxTime, SleepInterrupted(ns) \/ SleepEnds(ns)
        PROVE  TimeInv'
    BY <1>4, SleepInv
  <1>5. ASSUME NEW ms \in Sleeps, SleepMs(ms)
        PROVE  TimeInv'
    BY <1>5, SleepInv
  <1>6. ASSUME NEW ns \in Readings, SetManual(ns)
        PROVE  TimeInv'
    <2>1. manual' = ns /\ system' = system /\ sleeping' = sleeping /\ UNCHANGED loopVars
      BY <1>6 DEF SetManual
    <2>2. RequestCovers'
      BY <2>1 DEF TimeInv, RequestCovers, NowNs
    <2>3. TimeTypeOK
      BY DEF TimeInv
    <2> QED BY <2>1, <2>2, <2>3, ClockInv DEF TimeTypeOK
  <1>7. CASE UNCHANGED timeVars
    <2>1. system' = system /\ manual' = manual /\ sleeping' = sleeping /\ UNCHANGED loopVars
      BY <1>7 DEF timeVars, loopVars
    <2>2. RequestCovers'
      BY <2>1 DEF TimeInv, RequestCovers, NowNs
    <2>3. TimeTypeOK
      BY DEF TimeInv
    <2> QED BY <2>1, <2>2, <2>3, ClockInv DEF TimeTypeOK
  <1> QED BY <1>1, <1>2, <1>3, <1>4, <1>5, <1>6, <1>7 DEF TimeNext

(* So it holds in every state of the loop.                                 *)
LEMMA TimeInvHolds == TimeSpec => []TimeInv
  <1>1. TimeInit => TimeInv
    BY TimeInvInit
  <1>2. TimeInv /\ [TimeNext]_timeVars => TimeInv'
    BY TimeInvNext
  <1> QED BY <1>1, <1>2, PTL DEF TimeSpec

-----------------------------------------------------------------------------
(* cb_tick_loop_advance loses no time and counts none twice, and what it   *)
(* leaves in the accumulator is less than a tick.                          *)
THEOREM TimeKept == TimeSpec => []TimeAccounted
  <1>1. TimeInv => TimeAccounted
    BY DEF TimeInv
  <1> QED BY <1>1, TimeInvHolds, PTL

(* loop->info tells of every tick that was dropped, however long ago, and  *)
(* of a rate that gives no tick.                                           *)
THEOREM TroubleTold == TimeSpec => []TroubleReported
  <1>1. TimeInv => TroubleReported
    BY DEF TimeInv
  <1> QED BY <1>1, TimeInvHolds, PTL

(* cb_time_sleep_ms sleeps for the time asked for, or longer.              *)
THEOREM SleepsEnough == TimeSpec => SleepsLongEnough
  <1>1. ASSUME TimeInv, [TimeNext]_timeVars, sleeping # Awake, sleeping' = Awake
        PROVE  NowNs(system') >= sleeping.until
    <2>1. PICK ns \in 1..MaxTime : SleepEnds(ns)
      <3>1. ~ UNCHANGED sleeping
        BY <1>1
      <3>2. PICK ns \in 1..MaxTime : SleepInterrupted(ns) \/ SleepEnds(ns)
        BY <1>1, <3>1 DEF TimeNext, timeVars, Start, AdvanceWithoutTick, Advance, LoopReset,
                          SetClock, Pass, SetManual, SleepMs
      <3>3. CASE SleepInterrupted(ns)
        <4>1. sleeping' = [sleeping EXCEPT !.left = @ - ns] /\ ns < sleeping.left
              /\ sleeping \in [until : Int, left : Nat]
          BY <1>1, <3>3 DEF SleepInterrupted, TimeInv, TimeTypeOK
        <4>2. sleeping'.left > 0
          BY <4>1
        <4> QED BY <1>1, <4>2 DEF Awake
      <3> QED BY <3>2, <3>3
    <2> QED BY <1>1, <2>1, SleepInv
  <1>2. TimeInv /\ [TimeNext]_timeVars =>
          [sleeping # Awake /\ sleeping' = Awake => NowNs(system') >= sleeping.until]_timeVars
    BY <1>1
  <1> QED BY <1>2, TimeInvHolds, PTL DEF TimeSpec, SleepsLongEnough

(* The fraction that cb_tick_loop_alpha gives is less than one, and grows  *)
(* with the accumulator.                                                   *)
LEMMA AlphaGrows ==
  ASSUME NEW l, NEW m, l.tickNs \in Nat, m.tickNs = l.tickNs,
         l.acc \in Nat, m.acc \in Nat, l.acc <= m.acc
  PROVE  /\ Alpha(l) \in 0..(AlphaOne - 1)
         /\ Alpha(m) \in 0..(AlphaOne - 1)
         /\ Alpha(l) <= Alpha(m)
  <1>1. AlphaOne \in Nat \ {0}
    BY TickLoopAssumption
  <1>2. CASE l.tickNs = 0
    BY <1>1, <1>2 DEF Alpha
  <1>3. CASE l.tickNs # 0
    <2> DEFINE p == (l.acc * AlphaOne) \div l.tickNs
               q == (m.acc * AlphaOne) \div l.tickNs
    <2>1. l.acc * AlphaOne \in Nat /\ m.acc * AlphaOne \in Nat
          /\ l.acc * AlphaOne <= m.acc * AlphaOne
      BY <1>1, Product, ProductMonotone
    <2>2. p \in Nat /\ q \in Nat
      BY <1>3, <2>1, QuotientIs
    <2>3. p <= q
      BY <1>3, <2>1, QuotientMonotone
    <2>4. /\ Alpha(l) = IF p > AlphaOne - 1 THEN AlphaOne - 1 ELSE p
          /\ Alpha(m) = IF q > AlphaOne - 1 THEN AlphaOne - 1 ELSE q
      BY <1>3 DEF Alpha
    <2> HIDE DEF p, q
    <2> QED BY <1>1, <2>2, <2>3, <2>4
  <1> QED BY <1>2, <1>3

(* A point of the interpolation: the tick, and the fraction of the next.   *)
LEMMA PointGrows ==
  ASSUME NEW l, NEW m, l.tickNs \in Nat, m.tickNs = l.tickNs,
         l.acc \in Nat, m.acc \in Nat, l.index \in Nat, m.index \in Nat,
         m.index > l.index \/ (m.index = l.index /\ m.acc >= l.acc)
  PROVE  m.index * AlphaOne + Alpha(m) >= l.index * AlphaOne + Alpha(l)
  <1>1. AlphaOne \in Nat \ {0}
    BY TickLoopAssumption
  <1>2. l.index * AlphaOne \in Nat /\ m.index * AlphaOne \in Nat
    BY <1>1, Product
  <1>3. CASE m.index > l.index
    <2>1. Alpha(l) \in 0..(AlphaOne - 1) /\ Alpha(m) \in 0..(AlphaOne - 1)
      BY AlphaGrows
    <2>2. (l.index + 1) * AlphaOne <= m.index * AlphaOne
      BY <1>1, <1>3, ProductMonotone
    <2>3. (l.index + 1) * AlphaOne = l.index * AlphaOne + 1 * AlphaOne
          /\ 1 * AlphaOne = AlphaOne
      BY <1>1, Distributes
    <2> QED BY <1>1, <1>2, <2>1, <2>2, <2>3
  <1>4. CASE m.index = l.index /\ m.acc >= l.acc
    <2>1. /\ Alpha(l) \in 0..(AlphaOne - 1) /\ Alpha(m) \in 0..(AlphaOne - 1)
          /\ Alpha(l) <= Alpha(m)
      BY <1>4, AlphaGrows
    <2> QED BY <1>1, <1>2, <1>4, <2>1
  <1> QED BY <1>3, <1>4

(* Until a reset, every step leaves the tick of a loop and its remainder   *)
(* where they are or moves them forward.                                   *)
LEMMA StepsForward ==
  ASSUME TimeInv, [TimeNext]_timeVars, loop'.started
  PROVE  /\ loop'.tickNs = loop.tickNs
         /\ loop'.index \in Nat /\ loop'.acc \in Nat
         /\ loop'.index > loop.index \/ (loop'.index = loop.index /\ loop'.acc >= loop.acc)
  <1>1. loop \in LoopType /\ TimeTypeOK
    BY DEF TimeInv, TimeTypeOK, LoopType
  <1>2. loop.index \in Nat /\ loop.acc \in Nat
    BY <1>1 DEF LoopType
  <1>3. CASE Advance
    BY <1>3, AdvanceInv
  <1>4. CASE AdvanceWithoutTick
    <2>1. loop' = [loop EXCEPT !.last = Now, !.acc = @ + Elapsed(Now),
                               !.info = "BAD_TICK_HZ"]
      BY <1>4 DEF AdvanceWithoutTick
    <2>2. Elapsed(Now) \in Nat
      BY <1>1, NowIsTime, ElapsedBounds
    <2> QED BY <1>1, <1>2, <2>1, <2>2 DEF LoopType
  <1>5. CASE Start
    BY <1>1, <1>2, <1>5 DEF Start, LoopType
  <1>6. CASE LoopReset
    BY <1>1, <1>6 DEF LoopReset, LoopType
  <1>7. CASE \E custom \in BOOLEAN : SetClock(custom)
    BY <1>1, <1>2, <1>7 DEF SetClock, LoopType
  <1>8. CASE UNCHANGED loop
    BY <1>2, <1>8
  <1>9. ASSUME NEW ns, Pass(ns) \/ SleepInterrupted(ns) \/ SleepEnds(ns)
                         \/ SetManual(ns) \/ SleepMs(ns)
        PROVE  UNCHANGED loop
    BY <1>9 DEF Pass, SleepInterrupted, SleepEnds, SetManual, SleepMs, loopVars
  <1> QED BY <1>3, <1>4, <1>5, <1>6, <1>7, <1>8, <1>9 DEF TimeNext, timeVars

(* What is drawn between two ticks, at the fraction of cb_tick_loop_alpha, *)
(* never moves back: not when ticks are dropped, not when a clock does.    *)
THEOREM DrawnForward == TimeSpec => RenderForward
  <1>1. ASSUME TimeInv, [TimeNext]_timeVars, loop'.started
        PROVE  loop'.index * AlphaOne + Alpha(loop') >= loop.index * AlphaOne + Alpha(loop)
    <2>1. loop.index \in Nat /\ loop.acc \in Nat /\ loop.tickNs \in Nat
      BY <1>1 DEF TimeInv, TimeTypeOK
    <2> QED BY <1>1, <2>1, StepsForward, PointGrows
  <1>2. TimeInv /\ [TimeNext]_timeVars =>
          [loop'.started => loop'.index * AlphaOne + Alpha(loop')
                              >= loop.index * AlphaOne + Alpha(loop)]_timeVars
    BY <1>1
  <1> QED BY <1>2, TimeInvHolds, PTL DEF TimeSpec, RenderForward

-----------------------------------------------------------------------------
(* The four objects together.                                              *)

(* The types of an arena (cb_arena_t): no block is used beyond its size. *)
THEOREM ArenaType == Spec => []TypeOK
  <1>1. ArenaInv => TypeOK
    BY DEF ArenaInv
  <1> QED BY <1>1, ArenaInvInductive, PTL DEF Spec

(* The types of a tick loop and of the clocks (cb_tick_loop_t). *)
THEOREM TimeType == TimeSpec => []TimeTypeOK
  <1>1. TimeInv => TimeTypeOK
    BY DEF TimeInv
  <1> QED BY <1>1, TimeInvHolds, PTL

(* A behaviour of the four is one of each: what is proved of an object     *)
(* alone holds of it among the others, which share nothing with it.        *)
THEOREM EachAlone == MCSpec => Spec /\ TimeSpec /\ StreamSpec /\ HashSpec
  <1>1. MCInit => Init /\ TimeInit /\ StreamInit /\ CallerInit
    BY Zenon DEF MCInit
  <1>2. [MCNext]_objects => [Next]_vars
    BY Zenon DEF MCNext, objects
  <1>3. [MCNext]_objects => [TimeNext]_timeVars
    BY Zenon DEF MCNext, objects
  <1>4. [MCNext]_objects => [StreamNext]_streamVars
    BY Zenon DEF MCNext, objects
  <1>5. [MCNext]_objects => [CallerNext]_hashVars
    BY Zenon DEF MCNext, objects
  <1> QED BY <1>1, <1>2, <1>3, <1>4, <1>5, PTL DEF MCSpec, Spec, TimeSpec, StreamSpec, HashSpec

(* Every field of the four objects keeps its type: cursors stay within     *)
(* their buffers (cb_arena_t, cb_tick_loop_t, cb_bytes_writer_t,           *)
(* cb_bytes_reader_t, cb_sha256_t).                                        *)
THEOREM ObjectsTyped == MCSpec => []ObjectsTypeOK
  <1>1. TypeOK /\ TimeTypeOK /\ StreamTypeOK /\ HashTypeOK => ObjectsTypeOK
    BY Zenon DEF ObjectsTypeOK
  <1> QED BY <1>1, EachAlone, ArenaType, TimeType, StreamType, HashType, PTL
=============================================================================
