------------------------------ MODULE MCNetsim ------------------------------
EXTENDS Transport, TLC

(* A faultless link without delay. *)
Plain == [drop |-> "never", dup |-> "never", reorder |-> "never",
          latencyMin |-> 0, latencyMax |-> 0,
          swapMin |-> 0, swapMax |-> 0, maxQueueBytes |-> 0]

(* Datagrams are lost, and swapped with later ones. *)
Lossy == [Plain EXCEPT !.drop = "sometimes",
                       !.reorder = "sometimes", !.swapMax = 1]

(* All arrive twice, a millisecond late, as far as the limit admits them.  *)
(* The parameters are malformed: a net can be created with them, but they  *)
(* cannot be set.                                                          *)
Late == [Plain EXCEPT !.dup = "always", !.latencyMin = 1, !.maxQueueBytes = 3]

CappedDuplicates == [Plain EXCEPT !.dup = "always", !.maxQueueBytes = 3]

Symmetry == Permutations(Addrs)

MCParamSets == {Lossy, Late}
MCCapParamSets == {CappedDuplicates}
=============================================================================
