------------------------------ MODULE MCObjects ------------------------------
(***************************************************************************)
(* The library's sequential objects: an arena, a tick loop, a byte stream  *)
(* with its frames, and a hash.  Each has one owner and nothing is shared, *)
(* so a behaviour is that of one of them, and the others are as new.       *)
(***************************************************************************)
EXTENDS Arena, TickLoop, ByteStreams, HashBuffer

VARIABLE which     \* the object whose behaviour this is

objects == << vars, timeVars, streamVars, hashVars, which >>

(* Fields of 0 to 4 bytes: two of them are shorter than the longest body,  *)
(* as long, or longer.                                                     *)
MCFields ==
  {[signed |-> FALSE, width |-> 0, value |-> 0],
   [signed |-> FALSE, width |-> 1, value |-> 1],
   [signed |-> TRUE, width |-> 2, value |-> -2],
   [signed |-> FALSE, width |-> 4, value |-> 6]}

ANewLoop == loop = NewLoop(1, 1)

MCInit ==
  /\ which \in {"arena", "ticks", "stream", "hash"}
  /\ Init
  /\ TimeInit
  /\ which # "ticks" => ANewLoop
  /\ StreamInit
  /\ CallerInit

MCNext ==
  /\ UNCHANGED which
  /\ \/ /\ which = "arena"
        /\ Next
        /\ UNCHANGED << timeVars, streamVars, hashVars >>
     \/ /\ which = "ticks"
        /\ TimeNext
        /\ UNCHANGED << vars, streamVars, hashVars >>
     \/ /\ which = "stream"
        /\ StreamNext
        /\ UNCHANGED << vars, timeVars, hashVars >>
     \/ /\ which = "hash"
        /\ CallerNext
        /\ UNCHANGED << vars, timeVars, streamVars >>

MCSpec == MCInit /\ [][MCNext]_objects

-----------------------------------------------------------------------------
(* Every field of the four objects has its type: cursors stay within their *)
(* buffers, an arena without blocks has no current one.                    *)
ObjectsTypeOK ==
  /\ TypeOK
  /\ TimeTypeOK
  /\ StreamTypeOK
  /\ HashTypeOK
=============================================================================
