----------------------------- MODULE WorkRequest -----------------------------
(***************************************************************************)
(* What the thread pool promises about a work request, without threads,    *)
(* queues or locks: the work function runs at most once, the request can   *)
(* be cancelled only before that starts, and the done callback comes       *)
(* exactly once, after the function has returned or the cancellation.      *)
(***************************************************************************)
CONSTANT Reqs

VARIABLE phase

Phases == {"idle", "queued", "running", "ran", "cancelled"}

RequestInit == phase = [r \in Reqs |-> "idle"]

Move(r, from, to) == phase[r] = from /\ phase' = [phase EXCEPT ![r] = to]

RequestSubmit(r) == Move(r, "idle", "queued")
RequestStart(r) == Move(r, "queued", "running")
RequestFinish(r) == Move(r, "running", "ran")
RequestCancel(r) == Move(r, "queued", "cancelled")
RequestDone(r) == Move(r, "ran", "idle") \/ Move(r, "cancelled", "idle")

RequestNext ==
    \E r \in Reqs :
        \/ RequestSubmit(r) \/ RequestStart(r) \/ RequestFinish(r)
        \/ RequestCancel(r) \/ RequestDone(r)

RequestSpec == RequestInit /\ [][RequestNext]_phase
=============================================================================
