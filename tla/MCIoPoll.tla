------------------------------ MODULE MCIoPoll ------------------------------
(* Model-checking instance of IoPoll. *)
EXTENDS IoPoll, TLC

Symmetry == Permutations(Watchers) \cup Permutations(Fds)
=============================================================================
