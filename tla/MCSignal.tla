------------------------------ MODULE MCSignal ------------------------------
(* Model-checking instance of Signal: a watcher in each of two loops. *)
EXTENDS Signal, TLC

CONSTANTS h1, h2, l1, l2

TwoLoops == (h1 :> l1) @@ (h2 :> l2)
=============================================================================
