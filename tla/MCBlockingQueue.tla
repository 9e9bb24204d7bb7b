--------------------------- MODULE MCBlockingQueue ---------------------------
(* Instances of BlockingQueue; putters and takers are interchangeable.     *)
EXTENDS BlockingQueue, TLC

Symmetry == Permutations(Putters) \cup Permutations(Takers)
=============================================================================
