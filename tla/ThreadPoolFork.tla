--------------------------- MODULE ThreadPoolFork ---------------------------
(***************************************************************************)
(* The thread pool across fork(2): from Fork on, the behaviour is the      *)
(* child's.  Only the forking thread exists in the child, reset_once makes *)
(* the next uv_once run init_once again, and the child uses a new loop.    *)
(***************************************************************************)
EXTENDS ThreadPool

VARIABLES
    forked,     \* we are in the child
    lost        \* requests that were active at the fork; the child drops them

forkVars == <<forked, lost>>
allVars == <<vars, forkVars>>

ForkInit == Init /\ forked = FALSE /\ lost = {}

\* fork from user code of the loop thread l, and reset_once in the child.  No
\* worker survives.  The static variables keep the values they had.  The loop
\* is a fresh one, so nothing is queued on it.  The child inherits `mutex'
\* whoever holds it; init_threads makes a new one.
Fork(l) ==
    /\ UserCode(l)
    /\ once
    /\ ~ forked
    /\ forked' = TRUE
    /\ lost' = {r \in Reqs : active[r]}
    /\ once' = FALSE
    /\ pc' = [w \in Workers |-> "none"]
    /\ cur' = [w \in Workers |-> None]
    /\ is_slow_work' = [w \in Workers |-> FALSE]
    /\ wq_mutex' = [k \in Loops |-> None]
    /\ loop_wq' = [k \in Loops |-> <<>>]
    /\ wq_async' = [k \in Loops |-> FALSE]
    /\ loop_pc' = [k \in Loops |-> "user"]
    /\ local_wq' = [k \in Loops |-> <<>>]
    /\ creq' = [k \in Loops |-> None]
    /\ active_reqs' = [k \in Loops |-> 0]
    /\ UNCHANGED <<mutex, wq, slow_io_pending_wq, idle_threads, slow_io_work_running,
                   reqVars, envVars>>

\* A user of the child's loop does not cancel what was submitted in the parent.
ForkUserStep(l) ==
    \/ InitOnce(l)
    \/ \E r \in Reqs, slow \in BOOLEAN : Submit(l, r, slow)
    \/ \E r \in Reqs \ lost : CancelLock(l, r)

ForkNext ==
    \/ /\ \/ \E w \in Workers : WorkerStep(w) \/ SpuriousWakeup(w)
          \/ \E l \in Loops : LoopStep(l) \/ ForkUserStep(l)
       /\ UNCHANGED forkVars
    \/ \E l \in Loops : Fork(l)

ForkSpec ==
    /\ ForkInit
    /\ [][ForkNext]_allVars
    /\ \A w \in Workers : SF_allVars(WorkerStep(w) /\ UNCHANGED forkVars)
    /\ \A l \in Loops : SF_allVars(LoopStep(l) /\ UNCHANGED forkVars)

\* The thread pool works in a child process: what the child submits completes.
WorksInChild ==
    \A r \in Reqs : (forked /\ active[r] /\ r \notin lost) ~> ~ active[r]
=============================================================================
