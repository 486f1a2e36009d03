------------------------------- MODULE MCLoop -------------------------------
(* Model-checking instances of Loop: two idle handles, a timer and an I/O handle. *)
EXTENDS Loop, TLC

CONSTANTS idle1, idle2, tim, io

KindOf(h) ==
    CASE h \in {idle1, idle2} -> "idle"
      [] h = tim -> "timer"
      [] h = io -> "io"

MCKind == [h \in Handles |-> KindOf(h)]

Symmetry == Permutations({idle1, idle2})
=============================================================================
