------------------------------- MODULE Arena --------------------------------
(***************************************************************************)
(* cb_arena_t of src/cbase_arena.c: a bump allocator over a linked list of *)
(* blocks that grows by its strategy, is emptied by a reset without giving *)
(* a block back, and frees all of them when it is destroyed.               *)
(*                                                                         *)
(* The list from arena->head is a sequence.  A call that returns an error  *)
(* (no block fits and the arena is fixed, or malloc fails) changes nothing *)
(* and is a stuttering step.                                               *)
(***************************************************************************)
EXTENDS Integers, Sequences, FiniteSets

CONSTANTS
  Strategies,   \* the strategies an arena may be created with
  InitialSizes, \* the sizes passed to cb_arena_create
  Sizes,        \* the sizes passed to cb_arena_alloc
  Aligns,       \* the alignments, powers of two
  MaxBlocks,    \* bound on the blocks ever malloc'ed
  MaxAllocs     \* bound on the allocations between two resets

ASSUME StrategyAssumption == Strategies \subseteq {"FIXED", "LINEAR", "EXPONENTIAL"}
ASSUME SizeAssumption == InitialSizes \subseteq Nat /\ Sizes \subseteq Nat
ASSUME AlignAssumption == Aligns \subseteq Nat \ {0}
ASSUME BoundsAssumption == MaxBlocks \in Nat /\ MaxAllocs \in Nat

VARIABLES
  strategy,     \* arena->strategy, "none" while there is no arena
  initialSize,  \* arena->initial_size
  chain,        \* the blocks from arena->head on, along block->next
  current,      \* the place of arena->current in the chain
  mallocs,      \* the blocks malloc'ed so far
  owned,        \* history: the blocks malloc'ed and not freed
  live          \* history: what was allocated since the last reset

vars == << strategy, initialSize, chain, current, mallocs, owned, live >>

NewBlock(size) == [id |-> mallocs + 1, size |-> size, used |-> 0]

Init ==
  /\ strategy = "none"
  /\ initialSize = 0
  /\ chain = << >>
  /\ current = 0
  /\ mallocs = 0
  /\ owned = {}
  /\ live = {}

Create(s, size) ==
  /\ strategy = "none"
  /\ mallocs < MaxBlocks
  /\ strategy' = s
  /\ initialSize' = size
  /\ chain' = << NewBlock(size) >>
  /\ current' = 1
  /\ mallocs' = mallocs + 1
  /\ owned' = owned \cup {mallocs + 1}
  /\ UNCHANGED live

(***************************************************************************)
(* cb_arena_alloc                                                          *)
(***************************************************************************)
AlignForward(offset, align) == ((offset + align - 1) \div align) * align

(* Where in a block used up to used an allocation would end. *)
End(used, size, align) == AlignForward(used, align) + size

(* Mutant: only the size is compared, not where it is placed. *)
FitsAnywhere(block, used, size, align) == used + size <= block.size

Fits(block, used, size, align) == End(used, size, align) <= block.size

Allocation(block, used, size, align) ==
  [block |-> block.id, from |-> AlignForward(used, align),
   to |-> End(used, size, align)]

MayAlloc == strategy # "none" /\ Cardinality(live) < MaxAllocs

AllocHere(size, align) ==
  /\ MayAlloc
  /\ LET block == chain[current]
     IN  /\ Fits(block, block.used, size, align)
         /\ chain' = [chain EXCEPT ![current].used = End(block.used, size, align)]
         /\ live' = live \cup {Allocation(block, block.used, size, align)}
  /\ UNCHANGED << strategy, initialSize, current, mallocs, owned >>

(* A block left over from before a reset is filled from its start. *)
AllocNext(size, align) ==
  /\ MayAlloc
  /\ ~ Fits(chain[current], chain[current].used, size, align)
  /\ current < Len(chain)
  /\ LET block == chain[current + 1]
     IN  /\ Fits(block, 0, size, align)
         /\ chain' = [chain EXCEPT ![current + 1].used = End(0, size, align)]
         /\ live' = live \cup {Allocation(block, 0, size, align)}
  /\ current' = current + 1
  /\ UNCHANGED << strategy, initialSize, mallocs, owned >>

(* The size of a new block; the exponential strategy doubles the last      *)
(* block that was tried, which is the next one if there is a next one.     *)
GrownSize(size, align) ==
  LET tried == chain[IF current < Len(chain) THEN current + 1 ELSE current]
      wanted == IF strategy = "LINEAR" THEN initialSize ELSE 2 * tried.size
  IN  IF wanted < size + align THEN size + align ELSE wanted

(* The new block becomes the next of the current one, whatever block was   *)
(* its next before: what followed is in no list any more.                  *)
AllocNewBlock(size, align) ==
  /\ MayAlloc
  /\ strategy # "FIXED"
  /\ ~ Fits(chain[current], chain[current].used, size, align)
  /\ current < Len(chain) => ~ Fits(chain[current + 1], 0, size, align)
  /\ mallocs < MaxBlocks
  /\ LET block == NewBlock(GrownSize(size, align))
     IN  /\ chain' = Append(SubSeq(chain, 1, current),
                            [block EXCEPT !.used = End(0, size, align)])
         /\ live' = live \cup {Allocation(block, 0, size, align)}
  /\ current' = current + 1
  /\ mallocs' = mallocs + 1
  /\ owned' = owned \cup {mallocs + 1}
  /\ UNCHANGED << strategy, initialSize >>

(***************************************************************************)
(* The end of allocations.                                                 *)
(***************************************************************************)

(* Mutant: the arena goes on in the block where it was. *)
ResetInPlace ==
  /\ strategy # "none"
  /\ chain' = [chain EXCEPT ![1].used = 0]
  /\ live' = {}
  /\ UNCHANGED << strategy, initialSize, current, mallocs, owned >>

Reset ==
  /\ strategy # "none"
  /\ chain' = [i \in DOMAIN chain |-> [chain[i] EXCEPT !.used = 0]]
  /\ current' = 1
  /\ live' = {}
  /\ UNCHANGED << strategy, initialSize, mallocs, owned >>

(* Mutant: arena->current is left behind. *)
DestroyKeepsCurrent ==
  /\ strategy # "none"
  /\ strategy' = "none"
  /\ owned' = owned \ {chain[i].id : i \in DOMAIN chain}
  /\ chain' = << >>
  /\ live' = {}
  /\ UNCHANGED << initialSize, current, mallocs >>

Destroy ==
  /\ strategy # "none"
  /\ strategy' = "none"
  /\ owned' = owned \ {chain[i].id : i \in DOMAIN chain}
  /\ chain' = << >>
  /\ current' = 0
  /\ live' = {}
  /\ UNCHANGED << initialSize, mallocs >>

Next ==
  \/ \E s \in Strategies, size \in InitialSizes : Create(s, size)
  \/ \E size \in Sizes, align \in Aligns :
       \/ AllocHere(size, align)
       \/ AllocNext(size, align)
       \/ AllocNewBlock(size, align)
  \/ Reset
  \/ Destroy

Spec == Init /\ [][Next]_vars

(***************************************************************************)
(* Properties.                                                             *)
(***************************************************************************)
Block == [id : 1..MaxBlocks, size : Nat, used : Nat]

(* The fields of the arena and of its blocks keep their types. *)
TypeOK ==
  /\ strategy \in Strategies \cup {"none"}
  /\ initialSize \in InitialSizes \cup {0}
  /\ chain \in Seq(Block)
  /\ IF strategy = "none" THEN current = 0 /\ chain = << >> ELSE current \in DOMAIN chain
  /\ mallocs \in 0..MaxBlocks
  /\ owned \subseteq 1..MaxBlocks
  /\ \A a \in live : a.block \in 1..MaxBlocks /\ a.from \in Nat /\ a.to \in Nat

(* What a caller was given since the last reset lies in a block that is    *)
(* still in the list, in the part of it that counts as used, and no two    *)
(* callers share a byte: not over blocks that were filled before a reset,  *)
(* not over the padding of different alignments, not in a list that was    *)
(* cut and grown again.                                                    *)
AllocsDisjoint ==
  /\ \A a \in live : \E i \in 1..current :
       chain[i].id = a.block /\ a.to <= chain[i].used /\ chain[i].used <= chain[i].size
  /\ \A a, b \in live :
       a # b /\ a.block = b.block => a.to <= b.from \/ b.to <= a.from

(* After a reset the arena starts over at its first block: allocation      *)
(* never finds a block ahead of the current one that is partly used, so a  *)
(* reset gives back all there was.                                         *)
ResetReclaims ==
  /\ \A i \in DOMAIN chain : i > current => chain[i].used = 0
  /\ live = {} => \A i \in DOMAIN chain : chain[i].used = 0

(* "cb_arena_reset() reuses existing blocks without freeing", and memory   *)
(* is "freed in bulk via destroy": every block that was malloc'ed is in    *)
(* the list that destroy frees.                                            *)
NoBlockLost == owned = {chain[i].id : i \in DOMAIN chain}
=============================================================================
