----------------------------- MODULE ThreadPool -----------------------------
(***************************************************************************)
(* The global thread pool of src/src/threadpool.c: nthreads workers that   *)
(* share the queue wq, the loops that submit and cancel work requests, and *)
(* the delivery of completions to each loop through loop->wq and the       *)
(* loop's wq_async handle.                                                 *)
(*                                                                         *)
(* Granularity.  `mutex' is a variable of its own, because a worker goes   *)
(* around its loop several times while it holds it and uv__work_cancel     *)
(* takes a second lock under it.  loop->wq_mutex is held across a step by  *)
(* a worker that publishes a result; the loop thread's own sections under  *)
(* it are single steps.                                                    *)
(***************************************************************************)
EXTENDS UVQueue, FiniteSets

CONSTANTS
    Workers,       \* the threads init_threads creates
    Loops,         \* event loops, each driven by one thread
    Reqs,          \* struct uv__work objects, owned by the user
    RunSlow,       \* &run_slow_work_message
    Exit,          \* &exit_message
    None,          \* no thread, no request
    MaxSubmits,    \* bound: calls of uv__work_submit
    MaxCancels     \* bound: calls of uv__work_cancel

ASSUME WorkersAssumption == IsFiniteSet(Workers) /\ Workers # {}
ASSUME ReqsAssumption == IsFiniteSet(Reqs)
ASSUME MessagesAssumption == RunSlow \notin Reqs /\ Exit \notin Reqs /\ RunSlow # Exit
ASSUME NoneAssumption == None \notin Workers \cup Loops \cup Reqs
ASSUME ThreadsAssumption == Workers \cap Loops = {}
ASSUME BoundsAssumption == MaxSubmits \in Nat /\ MaxCancels \in Nat

VARIABLES
    once,                  \* init_once has run
    mutex,                 \* holder of the global mutex
    wq,                    \* queue of requests, RunSlow and Exit
    slow_io_pending_wq,    \* queue of slow requests
    idle_threads,
    slow_io_work_running,
    pc,                    \* where each worker is
    cur,                   \* the request a worker took
    is_slow_work,          \* per worker
    wq_mutex,              \* holder of each loop's wq_mutex
    loop_wq,               \* loop->wq: completed requests
    wq_async,              \* loop->wq_async has a send pending
    loop_pc,               \* what the thread of each loop does inside libuv
    local_wq,              \* the list uv__work_done is walking
    creq,                  \* the request uv__work_cancel works on
    active_reqs,           \* loop->active_reqs.count
    work,                  \* w->work: the user's function, NULL or uv__cancelled
    w_loop,                \* w->loop
    active,                \* the user may not touch the request
    executed,              \* history: w->work has been called
    shutdown,              \* progress of uv__threadpool_cleanup
    submits, cancels       \* calls made so far

poolVars == <<once, mutex, wq, slow_io_pending_wq, idle_threads, slow_io_work_running>>
workerVars == <<pc, cur, is_slow_work>>
loopVars == <<wq_mutex, loop_wq, wq_async, loop_pc, local_wq, creq, active_reqs>>
reqVars == <<work, w_loop, active, executed>>
envVars == <<shutdown, submits, cancels>>
vars == <<poolVars, workerVars, loopVars, reqVars, envVars>>

Items == Reqs \cup {RunSlow, Exit}

WorkerPCs == {"none", "lock", "top", "wait", "woken", "work", "publish", "publishing", "exited"}

TypeOK ==
    /\ once \in BOOLEAN
    /\ mutex \in Workers \cup Loops \cup {None}
    /\ wq \in Seq(Items)
    /\ slow_io_pending_wq \in Seq(Reqs)
    /\ idle_threads \in Nat
    /\ slow_io_work_running \in Nat
    /\ pc \in [Workers -> WorkerPCs]
    /\ cur \in [Workers -> Reqs \cup {None}]
    /\ is_slow_work \in [Workers -> BOOLEAN]
    /\ wq_mutex \in [Loops -> Workers \cup {None}]
    /\ loop_wq \in [Loops -> Seq(Reqs)]
    /\ wq_async \in [Loops -> BOOLEAN]
    /\ loop_pc \in [Loops -> {"user", "work_done", "cancel_locked", "cancel_publish"}]
    /\ local_wq \in [Loops -> Seq(Reqs)]
    /\ creq \in [Loops -> Reqs \cup {None}]
    /\ active_reqs \in [Loops -> Int]
    /\ work \in [Reqs -> {"fn", "null", "cancelled"}]
    /\ w_loop \in [Reqs -> Loops]
    /\ active \in [Reqs -> BOOLEAN]
    /\ executed \in [Reqs -> BOOLEAN]
    /\ shutdown \in {"no", "joining", "done"}
    /\ submits \in 0 .. MaxSubmits
    /\ cancels \in 0 .. MaxCancels

Init ==
    /\ once = FALSE
    /\ mutex = None
    /\ wq = <<>>
    /\ slow_io_pending_wq = <<>>
    /\ idle_threads = 0
    /\ slow_io_work_running = 0
    /\ pc = [w \in Workers |-> "none"]
    /\ cur = [w \in Workers |-> None]
    /\ is_slow_work = [w \in Workers |-> FALSE]
    /\ wq_mutex = [l \in Loops |-> None]
    /\ loop_wq = [l \in Loops |-> <<>>]
    /\ wq_async = [l \in Loops |-> FALSE]
    /\ loop_pc = [l \in Loops |-> "user"]
    /\ local_wq = [l \in Loops |-> <<>>]
    /\ creq = [l \in Loops |-> None]
    /\ active_reqs = [l \in Loops |-> 0]
    /\ work = [r \in Reqs |-> "null"]
    /\ w_loop \in [Reqs -> Loops]
    /\ active = [r \in Reqs |-> FALSE]
    /\ executed = [r \in Reqs |-> FALSE]
    /\ shutdown = "no"
    /\ submits = 0
    /\ cancels = 0

-----------------------------------------------------------------------------
nthreads == Cardinality(Workers)

slow_work_thread_threshold == (nthreads + 1) \div 2

BadAtThreshold == slow_io_work_running > slow_work_thread_threshold

AtThreshold == slow_io_work_running >= slow_work_thread_threshold

\* The workers blocked in uv_cond_wait.
Waiters(p) == {w \in Workers : p[w] = "wait"}

\* uv_cond_signal: one blocked worker, if there is one, returns from the wait
\* and competes for the mutex.
CondSignal(p) ==
    IF Waiters(p) = {} THEN {p} ELSE {[p EXCEPT ![w] = "woken"] : w \in Waiters(p)}

BadSignalIfIdle(p) == IF idle_threads > 1 THEN CondSignal(p) ELSE {p}

SignalIfIdle(p) == IF idle_threads > 0 THEN CondSignal(p) ELSE {p}

-----------------------------------------------------------------------------
(* The worker threads.  A definition whose name begins with Bad is a faulty
   variant of the one after it: no specification uses it, and it serves to see
   that a property notices the fault. *)

BadSlowAfterRun(w) == slow_io_work_running - 1

\* Lines 135-138: the slow request a worker ran is no longer counted.
SlowAfterRun(w) ==
    IF is_slow_work[w] THEN slow_io_work_running - 1 ELSE slow_io_work_running

\* worker, lines 69 and 134-138: takes the mutex at the start of the thread
\* and after each request, and uncounts the slow request it ran.
WorkerLock(w) ==
    /\ pc[w] = "lock"
    /\ mutex = None
    /\ mutex' = w
    /\ pc' = [pc EXCEPT ![w] = "top"]
    /\ slow_io_work_running' = SlowAfterRun(w)
    /\ is_slow_work' = [is_slow_work EXCEPT ![w] = FALSE]
    /\ UNCHANGED <<once, wq, slow_io_pending_wq, idle_threads, cur, loopVars, reqVars, envVars>>

\* uv_cond_wait returns with the mutex held, line 78.
WorkerWake(w) ==
    /\ pc[w] = "woken"
    /\ mutex = None
    /\ mutex' = w
    /\ pc' = [pc EXCEPT ![w] = "top"]
    /\ idle_threads' = idle_threads - 1
    /\ UNCHANGED <<once, wq, slow_io_pending_wq, slow_io_work_running, cur, is_slow_work,
                   loopVars, reqVars, envVars>>

\* The condition of the wait loop: no work, or only slow work at the threshold.
NothingToRun == QueueEmpty(wq) \/ (wq = <<RunSlow>> /\ AtThreshold)

WorkerWait(w) ==
    /\ pc[w] = "top"
    /\ NothingToRun
    /\ idle_threads' = idle_threads + 1
    /\ mutex' = None
    /\ pc' = [pc EXCEPT ![w] = "wait"]
    /\ UNCHANGED <<once, wq, slow_io_pending_wq, slow_io_work_running, cur, is_slow_work,
                   loopVars, reqVars, envVars>>

\* A condition variable may wake a thread that nobody signalled.
SpuriousWakeup(w) ==
    /\ pc[w] = "wait"
    /\ pc' = [pc EXCEPT ![w] = "woken"]
    /\ UNCHANGED <<poolVars, cur, is_slow_work, loopVars, reqVars, envVars>>

BadWorkerExit(w) ==
    /\ pc[w] = "top"
    /\ ~ NothingToRun
    /\ QueueHead(wq) = Exit
    /\ wq' = QueuePop(wq)
    /\ pc' \in CondSignal([pc EXCEPT ![w] = "exited"])
    /\ mutex' = None
    /\ UNCHANGED <<once, slow_io_pending_wq, idle_threads, slow_io_work_running,
                   cur, is_slow_work, loopVars, reqVars, envVars>>

\* The exit message stays queued: each worker that sees it wakes the next.
WorkerExit(w) ==
    /\ pc[w] = "top"
    /\ ~ NothingToRun
    /\ QueueHead(wq) = Exit
    /\ pc' \in CondSignal([pc EXCEPT ![w] = "exited"])
    /\ mutex' = None
    /\ UNCHANGED <<once, wq, slow_io_pending_wq, idle_threads, slow_io_work_running,
                   cur, is_slow_work, loopVars, reqVars, envVars>>

\* The message that was at the head goes to the tail.
RescheduleSlow(q) == QueueInsertTail(QueuePop(q), RunSlow)

\* At the threshold the message goes behind all other work; the worker keeps
\* the mutex and looks again.
WorkerRequeueSlow(w) ==
    /\ pc[w] = "top"
    /\ ~ NothingToRun
    /\ QueueHead(wq) = RunSlow
    /\ AtThreshold
    /\ wq' = RescheduleSlow(wq)
    /\ UNCHANGED <<once, mutex, slow_io_pending_wq, idle_threads, slow_io_work_running,
                   workerVars, loopVars, reqVars, envVars>>

\* All slow work was cancelled: the message is dropped and the worker looks again.
WorkerDropSlow(w) ==
    /\ pc[w] = "top"
    /\ ~ NothingToRun
    /\ QueueHead(wq) = RunSlow
    /\ ~ AtThreshold
    /\ QueueEmpty(slow_io_pending_wq)
    /\ wq' = QueuePop(wq)
    /\ UNCHANGED <<once, mutex, slow_io_pending_wq, idle_threads, slow_io_work_running,
                   workerVars, loopVars, reqVars, envVars>>

\* Takes one slow request; if more are pending the message is queued again and
\* another worker is woken for it.
WorkerTakeSlow(w) ==
    /\ pc[w] = "top"
    /\ ~ NothingToRun
    /\ QueueHead(wq) = RunSlow
    /\ ~ AtThreshold
    /\ ~ QueueEmpty(slow_io_pending_wq)
    /\ slow_io_work_running' = slow_io_work_running + 1
    /\ is_slow_work' = [is_slow_work EXCEPT ![w] = TRUE]
    /\ cur' = [cur EXCEPT ![w] = QueueHead(slow_io_pending_wq)]
    /\ slow_io_pending_wq' = QueuePop(slow_io_pending_wq)
    /\ \/ /\ QueueEmpty(QueuePop(slow_io_pending_wq))
          /\ wq' = QueuePop(wq)
          /\ pc' = [pc EXCEPT ![w] = "work"]
       \/ /\ ~ QueueEmpty(QueuePop(slow_io_pending_wq))
          /\ wq' = RescheduleSlow(wq)
          /\ pc' \in SignalIfIdle([pc EXCEPT ![w] = "work"])
    /\ mutex' = None
    /\ UNCHANGED <<once, idle_threads, loopVars, reqVars, envVars>>

WorkerTake(w) ==
    /\ pc[w] = "top"
    /\ ~ NothingToRun
    /\ QueueHead(wq) \in Reqs
    /\ cur' = [cur EXCEPT ![w] = QueueHead(wq)]
    /\ wq' = QueuePop(wq)
    /\ pc' = [pc EXCEPT ![w] = "work"]
    /\ mutex' = None
    /\ UNCHANGED <<once, slow_io_pending_wq, idle_threads, slow_io_work_running,
                   is_slow_work, loopVars, reqVars, envVars>>

BadAsyncSend(l) == UNCHANGED wq_async

\* uv_async_send(&loop->wq_async): module Async has its details.
AsyncSend(l) == wq_async' = [wq_async EXCEPT ![l] = TRUE]

\* w->work(w), line 123, runs with no lock held.
WorkerRun(w) ==
    /\ pc[w] = "work"
    /\ executed' = [executed EXCEPT ![cur[w]] = TRUE]
    /\ pc' = [pc EXCEPT ![w] = "publish"]
    /\ UNCHANGED <<poolVars, cur, is_slow_work, loopVars, work, w_loop, active, envVars>>

WorkerPublishLock(w) ==
    /\ pc[w] = "publish"
    /\ wq_mutex[w_loop[cur[w]]] = None
    /\ wq_mutex' = [wq_mutex EXCEPT ![w_loop[cur[w]]] = w]
    /\ pc' = [pc EXCEPT ![w] = "publishing"]
    /\ UNCHANGED <<poolVars, cur, is_slow_work, loop_wq, wq_async, loop_pc, local_wq, creq,
                   active_reqs, reqVars, envVars>>

\* Lines 126-130, under loop->wq_mutex.
WorkerPublish(w) ==
    LET r == cur[w]
        l == w_loop[r]
    IN  /\ pc[w] = "publishing"
        /\ work' = [work EXCEPT ![r] = "null"]
        /\ loop_wq' = [loop_wq EXCEPT ![l] = QueueInsertTail(@, r)]
        /\ AsyncSend(l)
        /\ wq_mutex' = [wq_mutex EXCEPT ![l] = None]
        /\ pc' = [pc EXCEPT ![w] = "lock"]
        /\ cur' = [cur EXCEPT ![w] = None]
        /\ UNCHANGED <<poolVars, is_slow_work, loop_pc, local_wq, creq, active_reqs,
                       w_loop, active, executed, envVars>>

-----------------------------------------------------------------------------
(* The loop threads.  User code runs between the steps of libuv while
   loop_pc is "user": outside callbacks, in other handles' callbacks and in the
   after-work callbacks that uv__work_done makes. *)

UserCode(l) == loop_pc[l] = "user" /\ shutdown = "no"

InitQueues == wq' = <<>> /\ slow_io_pending_wq' = <<>>

\* uv_once(&once, init_once), the first thing uv__work_submit does: creates the
\* workers and initialises the lists.  The counters idle_threads and
\* slow_io_work_running are static and are not assigned.
InitOnce(l) ==
    /\ UserCode(l)
    /\ ~ once
    /\ once' = TRUE
    /\ mutex' = None
    /\ InitQueues
    /\ pc' = [w \in Workers |-> "lock"]
    /\ UNCHANGED <<idle_threads, slow_io_work_running, cur, is_slow_work, loopVars, reqVars,
                   envVars>>

\* post of a fast or CPU item.
Post(e) ==
    /\ wq' = QueueInsertTail(wq, e)
    /\ pc' \in SignalIfIdle(pc)
    /\ UNCHANGED slow_io_pending_wq

\* post of a slow item: queued apart, with one message in wq for all of them.
PostSlow(r) ==
    /\ slow_io_pending_wq' = QueueInsertTail(slow_io_pending_wq, r)
    /\ \/ InQueue(wq, RunSlow) /\ UNCHANGED <<wq, pc>>
       \/ /\ ~ InQueue(wq, RunSlow)
          /\ wq' = QueueInsertTail(wq, RunSlow)
          /\ pc' \in SignalIfIdle(pc)

\* uv_queue_work and the other callers of uv__work_submit: registers the
\* request with the loop, fills it in and posts it.
Submit(l, r, slow) ==
    /\ UserCode(l)
    /\ once
    /\ mutex = None
    /\ ~ active[r]
    /\ submits < MaxSubmits
    /\ submits' = submits + 1
    /\ active' = [active EXCEPT ![r] = TRUE]
    /\ active_reqs' = [active_reqs EXCEPT ![l] = @ + 1]
    /\ work' = [work EXCEPT ![r] = "fn"]
    /\ w_loop' = [w_loop EXCEPT ![r] = l]
    /\ executed' = [executed EXCEPT ![r] = FALSE]
    /\ IF slow THEN PostSlow(r) ELSE Post(r)
    /\ UNCHANGED <<once, mutex, idle_threads, slow_io_work_running, cur, is_slow_work,
                   wq_mutex, loop_wq, wq_async, loop_pc, local_wq, creq, shutdown, cancels>>

\* uv__work_cancel takes the global mutex ...
CancelLock(l, r) ==
    /\ UserCode(l)
    /\ active[r]
    /\ w_loop[r] = l
    /\ cancels < MaxCancels
    /\ cancels' = cancels + 1
    /\ mutex = None
    /\ mutex' = l
    /\ loop_pc' = [loop_pc EXCEPT ![l] = "cancel_locked"]
    /\ creq' = [creq EXCEPT ![l] = r]
    /\ UNCHANGED <<once, wq, slow_io_pending_wq, idle_threads, slow_io_work_running,
                   workerVars, wq_mutex, loop_wq, wq_async, local_wq, active_reqs, reqVars,
                   shutdown, submits>>

\* The request is linked into one of the lists, line 301.
Linked(l, r) ==
    \/ InQueue(wq, r)
    \/ InQueue(slow_io_pending_wq, r)
    \/ InQueue(loop_wq[l], r)
    \/ InQueue(local_wq[l], r)

BadCancellableExecuted(l, r) == Linked(l, r)

BadCancellable(l, r) == work[r] # "null"

\* Not executing, and not done executing.
Cancellable(l, r) == Linked(l, r) /\ work[r] # "null"

\* ... then loop->wq_mutex, and under both unlinks the request from whatever
\* list it is in, unless it is executing or has executed.
CancelUnlink(l) ==
    LET r == creq[l]
    IN  /\ loop_pc[l] = "cancel_locked"
        /\ wq_mutex[l] = None
        /\ Cancellable(l, r)
        /\ wq' = QueueRemove(wq, r)
        /\ slow_io_pending_wq' = QueueRemove(slow_io_pending_wq, r)
        /\ loop_wq' = [loop_wq EXCEPT ![l] = QueueRemove(@, r)]
        /\ local_wq' = [local_wq EXCEPT ![l] = QueueRemove(@, r)]
        /\ mutex' = None
        /\ loop_pc' = [loop_pc EXCEPT ![l] = "cancel_publish"]
        /\ UNCHANGED <<once, idle_threads, slow_io_work_running, workerVars, wq_mutex,
                       wq_async, creq, active_reqs, reqVars, envVars>>

\* UV_EBUSY.
CancelBusy(l) ==
    LET r == creq[l]
    IN  /\ loop_pc[l] = "cancel_locked"
        /\ wq_mutex[l] = None
        /\ ~ Cancellable(l, r)
        /\ mutex' = None
        /\ loop_pc' = [loop_pc EXCEPT ![l] = "user"]
        /\ creq' = [creq EXCEPT ![l] = None]
        /\ UNCHANGED <<once, wq, slow_io_pending_wq, idle_threads, slow_io_work_running,
                       workerVars, wq_mutex, loop_wq, wq_async, local_wq, active_reqs,
                       reqVars, envVars>>

\* Lines 309-313: the unlinked request is handed to the loop as cancelled.
CancelPublish(l) ==
    LET r == creq[l]
    IN  /\ loop_pc[l] = "cancel_publish"
        /\ wq_mutex[l] = None
        /\ work' = [work EXCEPT ![r] = "cancelled"]
        /\ loop_wq' = [loop_wq EXCEPT ![l] = QueueInsertTail(@, r)]
        /\ AsyncSend(l)
        /\ loop_pc' = [loop_pc EXCEPT ![l] = "user"]
        /\ creq' = [creq EXCEPT ![l] = None]
        /\ UNCHANGED <<poolVars, workerVars, wq_mutex, local_wq, active_reqs, w_loop, active,
                       executed, envVars>>

\* uv__async_io clears the pending flag of wq_async and calls uv__work_done.
\* uv__work_done is not re-entered before it has walked its list.
AsyncIo(l) ==
    /\ UserCode(l)
    /\ QueueEmpty(local_wq[l])
    /\ wq_async[l]
    /\ wq_async' = [wq_async EXCEPT ![l] = FALSE]
    /\ loop_pc' = [loop_pc EXCEPT ![l] = "work_done"]
    /\ UNCHANGED <<poolVars, workerVars, wq_mutex, loop_wq, local_wq, creq, active_reqs,
                   reqVars, envVars>>

\* uv__work_done, lines 328-330: takes the whole list under loop->wq_mutex.
WorkDone(l) ==
    /\ loop_pc[l] = "work_done"
    /\ wq_mutex[l] = None
    /\ local_wq' = [local_wq EXCEPT ![l] = loop_wq[l]]
    /\ loop_wq' = [loop_wq EXCEPT ![l] = <<>>]
    /\ loop_pc' = [loop_pc EXCEPT ![l] = "user"]
    /\ UNCHANGED <<poolVars, workerVars, wq_mutex, wq_async, creq, active_reqs, reqVars, envVars>>

\* uv__req_unregister.
Unregister(l) == active_reqs' = [active_reqs EXCEPT ![l] = @ - 1]

\* One turn of the loop of uv__work_done: w->done unregisters the request and
\* calls the user back; from then on the request is the user's again.
Done(l) ==
    LET r == QueueHead(local_wq[l])
    IN  /\ UserCode(l)
        /\ ~ QueueEmpty(local_wq[l])
        /\ local_wq' = [local_wq EXCEPT ![l] = QueuePop(@)]
        /\ active' = [active EXCEPT ![r] = FALSE]
        /\ Unregister(l)
        /\ UNCHANGED <<poolVars, workerVars, wq_mutex, loop_wq, wq_async, loop_pc, creq, work,
                       w_loop, executed, envVars>>

\* uv__threadpool_cleanup, from uv_library_shutdown at process exit: no thread
\* uses libuv any more, but requests may still be queued or running.
Cleanup ==
    /\ shutdown = "no"
    /\ \A l \in Loops : UserCode(l)
    /\ once
    /\ mutex = None
    /\ shutdown' = "joining"
    /\ Post(Exit)
    /\ UNCHANGED <<once, mutex, idle_threads, slow_io_work_running, cur, is_slow_work,
                   loopVars, reqVars, submits, cancels>>

\* uv_thread_join returned for every worker.
CleanupJoined ==
    /\ shutdown = "joining"
    /\ \A w \in Workers : pc[w] = "exited"
    /\ shutdown' = "done"
    /\ UNCHANGED <<poolVars, workerVars, loopVars, reqVars, submits, cancels>>

WorkerStep(w) ==
    \/ WorkerLock(w) \/ WorkerWake(w) \/ WorkerWait(w) \/ WorkerExit(w)
    \/ WorkerRequeueSlow(w) \/ WorkerDropSlow(w) \/ WorkerTakeSlow(w) \/ WorkerTake(w)
    \/ WorkerRun(w) \/ WorkerPublishLock(w) \/ WorkerPublish(w)

\* Steps libuv takes in the loop thread without the user asking for them.
LoopStep(l) ==
    \/ CancelUnlink(l) \/ CancelBusy(l) \/ CancelPublish(l)
    \/ AsyncIo(l) \/ WorkDone(l) \/ Done(l)

\* Calls the user makes.
UserStep(l) ==
    \/ InitOnce(l)
    \/ \E r \in Reqs, slow \in BOOLEAN : Submit(l, r, slow)
    \/ \E r \in Reqs : CancelLock(l, r)

Next ==
    \/ \E w \in Workers : WorkerStep(w) \/ SpuriousWakeup(w)
    \/ \E l \in Loops : LoopStep(l) \/ UserStep(l)
    \/ Cleanup \/ CleanupJoined

Spec == Init /\ [][Next]_vars

\* The scheduler runs every thread that can run, and a thread that waits for a
\* mutex eventually gets it; callbacks and work functions return.
FairSpec ==
    /\ Spec
    /\ \A w \in Workers : SF_vars(WorkerStep(w))
    /\ \A l \in Loops : SF_vars(LoopStep(l))
    /\ WF_vars(CleanupJoined)

-----------------------------------------------------------------------------
(* Properties. *)

\* Where a request is: the lists it is linked into, the workers that hold it,
\* the uv__work_cancel that has unlinked it and not yet linked it again.
Holds(w, r) == pc[w] \in {"work", "publish", "publishing"} /\ cur[w] = r

Places(r) ==
    (IF InQueue(wq, r) THEN {<<"wq", None>>} ELSE {})
    \cup (IF InQueue(slow_io_pending_wq, r) THEN {<<"slow", None>>} ELSE {})
    \cup {<<"worker", w>> : w \in {v \in Workers : Holds(v, r)}}
    \cup {<<"loop_wq", l>> : l \in {k \in Loops : InQueue(loop_wq[k], r)}}
    \cup {<<"local_wq", l>> : l \in {k \in Loops : InQueue(local_wq[k], r)}}
    \cup {<<"cancel", l>> : l \in {k \in Loops : loop_pc[k] = "cancel_publish" /\ creq[k] = r}}

\* A submitted request is in exactly one place until its done callback, and
\* linked once there; a request the user owns is nowhere.  Otherwise a
\* completion is lost, delivered twice, or a node is linked into two lists.
OnePlace ==
    /\ \A r \in Reqs : active[r] <=> Places(r) # {}
    /\ \A r \in Reqs : \A p, q \in Places(r) : p = q
    /\ IsInjective(wq) /\ IsInjective(slow_io_pending_wq)
    /\ \A l \in Loops : IsInjective(loop_wq[l]) /\ IsInjective(local_wq[l])

\* No worker calls uv__cancelled (it aborts) or a NULL work function, and none
\* calls the function of a request a second time.
RunsOnlyUncancelled ==
    \A w \in Workers : pc[w] = "work" => work[cur[w]] = "fn" /\ ~ executed[cur[w]]

\* The status uv__work_done is about to report is the truth: UV_ECANCELED iff
\* the work function never ran, although cancellation and the worker race.
TruthfulStatus ==
    \A l \in Loops, r \in Reqs :
        InQueue(loop_wq[l], r) \/ InQueue(local_wq[l], r)
            => work[r] = (IF executed[r] THEN "null" ELSE "cancelled")

\* slow_io_work_running counts the workers that run slow requests, and they
\* never exceed the threshold, so half the pool stays free for other work.
SlowBound ==
    /\ slow_io_work_running = Cardinality({w \in Workers : is_slow_work[w]})
    /\ slow_io_work_running <= slow_work_thread_threshold

\* While slow requests are pending there is a message in wq for them: a
\* submitter that finds the message queued may rely on it.
SlowScheduled == ~ QueueEmpty(slow_io_pending_wq) => InQueue(wq, RunSlow)

\* Workers that have or compete for the mutex and will look at wq.
Awake == {w \in Workers : pc[w] \in {"lock", "top", "woken"}}

\* How many workers could take something from wq now.
Demand ==
    Cardinality({i \in DOMAIN wq : wq[i] # RunSlow})
        + (IF InQueue(wq, RunSlow) /\ ~ AtThreshold THEN 1 ELSE 0)

\* No lost wakeup: while some worker sleeps in uv_cond_wait, as many workers
\* are on their way to wq as there are items to take from it.
NoLostWakeup == Waiters(pc) # {} => Demand <= Cardinality(Awake)

\* Every submitted request completes, unless the process exits first.
EventuallyDone ==
    \A r \in Reqs : active[r] ~> (~ active[r] \/ shutdown # "no")

\* uv__threadpool_cleanup returns: the exit message reaches every worker, also
\* the ones that sleep because slow work is at its threshold.
CleanupReturns == shutdown = "joining" ~> shutdown = "done"

-----------------------------------------------------------------------------
(* The pool implements WorkRequest. *)

phaseOf ==
    [r \in Reqs |->
        CASE ~ active[r] -> "idle"
          [] active[r] /\ \E w \in Workers : Holds(w, r) ->
                 IF executed[r] THEN "ran" ELSE "running"
          [] active[r] /\ ~ (\E w \in Workers : Holds(w, r))
             /\ \E l \in Loops : loop_pc[l] = "cancel_publish" /\ creq[l] = r -> "cancelled"
          [] OTHER -> CASE work[r] = "fn" -> "queued"
                        [] work[r] = "null" -> "ran"
                        [] work[r] = "cancelled" -> "cancelled"]

Request == INSTANCE WorkRequest WITH phase <- phaseOf

\* Every request goes through the abstract life cycle, whatever the workers,
\* the loops and uv_cancel do at the same time.
ImplementsWorkRequest == Request!RequestSpec
=============================================================================
