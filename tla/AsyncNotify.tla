---------------------------- MODULE AsyncNotify ----------------------------
(***************************************************************************)
(* What uv_async_t promises: uv_async_send may be called at any time from  *)
(* any thread, sends coalesce until the callback is called, the callback   *)
(* is called for no other reason, and a closed handle is never called.     *)
(***************************************************************************)
CONSTANT Handles

VARIABLES
    life,       \* "none", "open" or "closing"
    signalled   \* a send awaits the callback

vars == <<life, signalled>>

Init ==
    /\ life = [h \in Handles |-> "none"]
    /\ signalled = [h \in Handles |-> FALSE]

Open(h) ==
    /\ life[h] = "none"
    /\ life' = [life EXCEPT ![h] = "open"]
    /\ UNCHANGED signalled

Send(h) ==
    /\ life[h] = "open"
    /\ signalled' = [signalled EXCEPT ![h] = TRUE]
    /\ UNCHANGED life

Callback(h) ==
    /\ life[h] = "open"
    /\ signalled[h]
    /\ signalled' = [signalled EXCEPT ![h] = FALSE]
    /\ UNCHANGED life

Close(h) ==
    /\ life[h] = "open"
    /\ life' = [life EXCEPT ![h] = "closing"]
    /\ signalled' = [signalled EXCEPT ![h] = FALSE]

Closed(h) ==
    /\ life[h] = "closing"
    /\ life' = [life EXCEPT ![h] = "none"]
    /\ UNCHANGED signalled

Next == \E h \in Handles : Open(h) \/ Send(h) \/ Callback(h) \/ Close(h) \/ Closed(h)

\* A signalled handle is called back and a closing one is closed.
Spec ==
    /\ Init /\ [][Next]_vars
    /\ \A h \in Handles : WF_vars(Callback(h)) /\ WF_vars(Closed(h))
=============================================================================
