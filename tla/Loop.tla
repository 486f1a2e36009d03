-------------------------------- MODULE Loop --------------------------------
(***************************************************************************)
(* unix/core.c, unix/loop-watcher.c and the handle macros of uv-common.h:  *)
(* uv_run and its phases, with the handles it calls and closes.  User code *)
(* runs outside uv_run and in every callback.  Timers are seen as timer.c  *)
(* promises them (module Timer): an active timer becomes due, the due ones *)
(* are collected and called once.  An "io" handle stands for a handle with *)
(* an I/O watcher.                                                         *)
(***************************************************************************)
EXTENDS UVQueue, FiniteSets

CONSTANTS
    Handles,
    Kind,         \* of a handle: "idle", "prepare", "check", "timer" or "io"
    PendingRuns,  \* how often uv__run_pending runs after polling: 8
    MaxReqs       \* bound on active requests

Watchers == {"idle", "prepare", "check"}

ASSUME KindAssumption == Kind \in [Handles -> Watchers \cup {"timer", "io"}]
ASSUME HandlesAssumption == IsFiniteSet(Handles)
ASSUME BoundsAssumption == PendingRuns \in Nat /\ MaxReqs \in Nat

VARIABLES
    open,             \* initialised and not closing
    active,           \* UV_HANDLE_ACTIVE
    ref,              \* UV_HANDLE_REF
    active_handles,   \* loop->active_handles
    active_reqs,
    list,             \* loop->idle_handles, prepare_handles and check_handles
    queue,            \* the list the uv__run_idle, _prepare or _check at work walks
    due,              \* active timers whose time has come
    ready,            \* timers uv__run_timers has collected
    pending_queue,
    pq,               \* the list uv__run_pending walks
    closing_handles,
    walk,             \* the chain uv__run_closing_handles walks
    stop_flag,
    pc,               \* where uv_run is
    incb,             \* uv_run is in a callback
    mode,
    r,                \* r # 0
    can_sleep,
    timeout,          \* of uv__io_poll: 0, 1 for any other time, or -1 for ever
    woken,            \* uv__io_poll has reported an event
    drains            \* counts uv__run_pending after polling

handleVars == <<open, active, ref, active_handles, active_reqs>>
listVars == <<list, queue, due, ready, pending_queue, pq, closing_handles, walk>>
runVars == <<pc, incb, mode, r, can_sleep, timeout, woken, drains>>
vars == <<handleVars, listVars, stop_flag, runVars>>

Timers == {h \in Handles : Kind[h] = "timer"}

TypeOK ==
    /\ open \subseteq Handles /\ active \subseteq Handles /\ ref \subseteq Handles
    /\ active_handles \in 0 .. Cardinality(Handles)
    /\ active_reqs \in 0 .. MaxReqs
    /\ list \in [Watchers -> Seq(Handles)] /\ queue \in Seq(Handles)
    /\ due \subseteq Timers /\ ready \subseteq Timers
    /\ pending_queue \in Seq(Handles) /\ pq \in Seq(Handles)
    /\ closing_handles \in Seq(Handles) /\ walk \in Seq(Handles)
    /\ stop_flag \in BOOLEAN
    /\ pc \in Watchers \cup {"out", "first", "top", "pending", "poll", "drain", "closing",
                             "timers", "return", "gone"}
    /\ incb \in BOOLEAN
    /\ mode \in {"UV_RUN_DEFAULT", "UV_RUN_ONCE", "UV_RUN_NOWAIT"}
    /\ r \in BOOLEAN /\ can_sleep \in BOOLEAN
    /\ timeout \in {-1, 0, 1}
    /\ woken \in BOOLEAN
    /\ drains \in 0 .. PendingRuns

Init ==
    /\ open = {} /\ active = {} /\ ref = {}
    /\ active_handles = 0 /\ active_reqs = 0
    /\ list = [k \in Watchers |-> <<>>] /\ queue = <<>>
    /\ due = {} /\ ready = {}
    /\ pending_queue = <<>> /\ pq = <<>>
    /\ closing_handles = <<>> /\ walk = <<>>
    /\ stop_flag = FALSE
    /\ pc = "out" /\ incb = FALSE
    /\ mode = "UV_RUN_DEFAULT" /\ r = FALSE /\ can_sleep = FALSE
    /\ timeout = 0 /\ woken = FALSE /\ drains = 0

-----------------------------------------------------------------------------
(* The macros of uv-common.h, for a set of handles. *)

uv__handle_start(hs) ==
    /\ active' = active \cup hs
    /\ active_handles' = active_handles + Cardinality((hs \ active) \cap ref)

Bad_handle_stop(hs) ==
    /\ active' = active \ hs
    /\ active_handles' = active_handles - Cardinality(hs \cap ref)

uv__handle_stop(hs) ==
    /\ active' = active \ hs
    /\ active_handles' = active_handles - Cardinality(hs \cap active \cap ref)

uv__handle_ref(h) ==
    /\ ref' = ref \cup {h}
    /\ active_handles' = active_handles + Cardinality(({h} \cap active \cap open) \ ref)

Bad_handle_unref(h) == ref' = ref \ {h} /\ active_handles' = active_handles - 1

uv__handle_unref(h) ==
    /\ ref' = ref \ {h}
    /\ active_handles' = active_handles - Cardinality({h} \cap active \cap open \cap ref)

uv__loop_alive ==
    \/ active_handles > 0
    \/ active_reqs > 0
    \/ pending_queue # <<>>
    \/ closing_handles # <<>>

\* Module Timer's uv__next_timeout
uv__next_timeout ==
    IF Timers \cap active = {} THEN -1 ELSE IF due # {} THEN 0 ELSE 1

BadBackendTimeout ==
    IF ~ stop_flag /\ (active_handles > 0 \/ active_reqs > 0) /\ pending_queue = <<>>
          /\ list["idle"] = <<>>
    THEN uv__next_timeout ELSE 0

uv__backend_timeout ==
    IF /\ ~ stop_flag
       /\ active_handles > 0 \/ active_reqs > 0
       /\ pending_queue = <<>>
       /\ list["idle"] = <<>>
       /\ closing_handles = <<>>
    THEN uv__next_timeout ELSE 0

-----------------------------------------------------------------------------
(* User code *)

UserCode == pc = "out" \/ incb

uv__handle_init(h) ==
    /\ UserCode
    /\ h \notin open \cup Range(closing_handles \o walk)
    /\ open' = open \cup {h}
    /\ ref' = ref \cup {h}
    /\ active' = active \ {h}
    /\ UNCHANGED <<active_handles, active_reqs, listVars, stop_flag, runVars>>

BadAlreadyStarted(h) == FALSE

\* uv_idle_start and its like return at once for an active handle.
AlreadyStarted(h) == h \in active

\* uv_idle_start, uv_prepare_start, uv_check_start
WatcherStart(h) ==
    /\ UserCode
    /\ h \in open /\ Kind[h] \in Watchers
    /\ ~ AlreadyStarted(h)
    /\ list' = [list EXCEPT ![Kind[h]] = QueueInsertHead(@, h)]
    /\ uv__handle_start({h})
    /\ UNCHANGED <<open, ref, active_reqs, queue, due, ready, pending_queue, pq, closing_handles,
                   walk, stop_flag, runVars>>

\* uv_timer_start; with a zero timeout the timer is due at once.
TimerStart(h, now) ==
    /\ UserCode
    /\ h \in open /\ Kind[h] = "timer"
    /\ uv__handle_start({h})
    /\ due' = IF now THEN due \cup {h} ELSE due \ {h}
    /\ ready' = ready \ {h}
    /\ UNCHANGED <<open, ref, active_reqs, list, queue, pending_queue, pq, closing_handles, walk,
                   stop_flag, runVars>>

\* uv_read_start, uv_poll_start and their like.
IoStart(h) ==
    /\ UserCode
    /\ h \in open /\ Kind[h] = "io"
    /\ uv__handle_start({h})
    /\ UNCHANGED <<open, ref, active_reqs, listVars, stop_flag, runVars>>

\* A stopped handle leaves every list; uv__queue_remove works for whichever
\* list the handle is in.
Unlink(h) ==
    /\ list' = [k \in Watchers |-> QueueRemove(list[k], h)]
    /\ queue' = QueueRemove(queue, h)
    /\ due' = due \ {h}
    /\ ready' = ready \ {h}

Stop(h) ==
    /\ UserCode
    /\ h \in open
    /\ uv__handle_stop({h})
    /\ Unlink(h)
    /\ UNCHANGED <<open, ref, active_reqs, pending_queue, pq, closing_handles, walk, stop_flag,
                   runVars>>

uv_ref(h) ==
    /\ UserCode
    /\ h \in open \cup Range(closing_handles \o walk)
    /\ uv__handle_ref(h)
    /\ UNCHANGED <<open, active, active_reqs, listVars, stop_flag, runVars>>

uv_unref(h) ==
    /\ UserCode
    /\ h \in open \cup Range(closing_handles \o walk)
    /\ uv__handle_unref(h)
    /\ UNCHANGED <<open, active, active_reqs, listVars, stop_flag, runVars>>

BadPendingWithout(h) == UNCHANGED <<pending_queue, pq>>

\* uv__io_close takes the handle's watcher off the pending list.
PendingWithout(h) ==
    /\ pending_queue' = QueueRemove(pending_queue, h)
    /\ pq' = QueueRemove(pq, h)

\* uv_close, with the close function of the handle and uv__make_close_pending
uv_close(h) ==
    /\ UserCode
    /\ h \in open
    /\ open' = open \ {h}
    /\ uv__handle_stop({h})
    /\ Unlink(h)
    /\ PendingWithout(h)
    /\ closing_handles' = QueueInsertHead(closing_handles, h)
    /\ UNCHANGED <<ref, active_reqs, walk, stop_flag, runVars>>

\* For example uv_write on a stream that must report an error later.
uv__io_feed(h) ==
    /\ UserCode
    /\ h \in open /\ Kind[h] = "io"
    /\ ~ InQueue(pending_queue \o pq, h)
    /\ pending_queue' = QueueInsertTail(pending_queue, h)
    /\ UNCHANGED <<handleVars, list, queue, due, ready, pq, closing_handles, walk, stop_flag, runVars>>

uv__req_register ==
    /\ UserCode
    /\ active_reqs < MaxReqs
    /\ active_reqs' = active_reqs + 1
    /\ UNCHANGED <<open, active, ref, active_handles, listVars, stop_flag, runVars>>

uv_stop ==
    /\ UserCode
    /\ stop_flag' = TRUE
    /\ UNCHANGED <<handleVars, listVars, runVars>>

uv_update_time(h) ==
    /\ UserCode
    /\ h \in active \cap Timers
    /\ due' = due \cup {h}
    /\ UNCHANGED <<handleVars, list, queue, ready, pending_queue, pq, closing_handles, walk,
                   stop_flag, runVars>>

\* handle_queue is empty; closing handles stay in it until uv__finish_close.
NoHandles == open = {} /\ closing_handles = <<>>

\* UV_EBUSY while there are requests or handles.
uv_loop_close ==
    /\ pc = "out"
    /\ active_reqs = 0
    /\ NoHandles
    /\ pc' = "gone"
    /\ UNCHANGED <<handleVars, listVars, stop_flag, incb, mode, r, can_sleep, timeout, woken, drains>>

-----------------------------------------------------------------------------
(* uv_run *)

\* uv__update_time and the first loop of uv__run_timers: time may have come for
\* the timers of ts too.
CollectTimers(ts) ==
    /\ ts \subseteq active \cap Timers
    /\ ready' = due \cup ts
    /\ due' = {}
    /\ uv__handle_stop(due \cup ts)

UnchangedCollecting == UNCHANGED <<active, active_handles, due, ready>>

RunStart(m, ts) ==
    /\ pc = "out"
    /\ mode' = m
    /\ r' = uv__loop_alive
    /\ \/ /\ m = "UV_RUN_DEFAULT" /\ uv__loop_alive /\ ~ stop_flag
          /\ CollectTimers(ts)
          /\ pc' = "first"
       \/ /\ ~ (m = "UV_RUN_DEFAULT" /\ uv__loop_alive /\ ~ stop_flag)
          /\ ts = {}
          /\ UnchangedCollecting
          /\ pc' = "top"
    /\ UNCHANGED <<open, ref, active_reqs, list, queue, pending_queue, pq, closing_handles, walk,
                   stop_flag, incb, can_sleep, timeout, woken, drains>>

\* The condition of the while loop; then uv__run_pending starts.
Top ==
    /\ pc = "top"
    /\ r /\ ~ stop_flag
    /\ can_sleep' = (pending_queue = <<>> /\ list["idle"] = <<>>)
    /\ pq' = pending_queue
    /\ pending_queue' = <<>>
    /\ pc' = "pending"
    /\ UNCHANGED <<handleVars, list, queue, due, ready, closing_handles, walk, stop_flag, incb, mode,
                   r, timeout, woken, drains>>

Leave ==
    /\ pc = "top"
    /\ ~ r \/ stop_flag
    /\ pc' = "return"
    /\ UNCHANGED <<handleVars, listVars, stop_flag, incb, mode, r, can_sleep, timeout, woken, drains>>

RunPending ==
    /\ pc \in {"pending", "drain"} /\ ~ incb
    /\ ~ QueueEmpty(pq)
    /\ pq' = QueuePop(pq)
    /\ incb' = TRUE
    /\ UNCHANGED <<handleVars, list, queue, due, ready, pending_queue, closing_handles, walk,
                   stop_flag, pc, mode, r, can_sleep, timeout, woken, drains>>

\* uv__run_idle, uv__run_prepare or uv__run_check begins: uv__queue_move
RunWatchers(k) ==
    /\ queue' = list[k]
    /\ list' = [list EXCEPT ![k] = <<>>]
    /\ pc' = k

PendingEnd ==
    /\ pc = "pending" /\ ~ incb
    /\ QueueEmpty(pq)
    /\ RunWatchers("idle")
    /\ UNCHANGED <<handleVars, due, ready, pending_queue, pq, closing_handles, walk, stop_flag, incb,
                   mode, r, can_sleep, timeout, woken, drains>>

\* The handle goes to the end of the loop's list, not of the one walked.
PutBack(h) ==
    /\ queue' = QueuePop(queue)
    /\ list' = [list EXCEPT ![Kind[h]] = QueueInsertTail(@, h)]

WatcherCallback ==
    /\ pc \in Watchers /\ ~ incb
    /\ ~ QueueEmpty(queue)
    /\ PutBack(QueueHead(queue))
    /\ incb' = TRUE
    /\ UNCHANGED <<handleVars, due, ready, pending_queue, pq, closing_handles, walk, stop_flag, pc,
                   mode, r, can_sleep, timeout, woken, drains>>

IdleEnd ==
    /\ pc = "idle" /\ ~ incb
    /\ QueueEmpty(queue)
    /\ RunWatchers("prepare")
    /\ UNCHANGED <<handleVars, due, ready, pending_queue, pq, closing_handles, walk, stop_flag, incb,
                   mode, r, can_sleep, timeout, woken, drains>>

PrepareEnd ==
    /\ pc = "prepare" /\ ~ incb
    /\ QueueEmpty(queue)
    /\ timeout' = IF (mode = "UV_RUN_ONCE" /\ can_sleep) \/ mode = "UV_RUN_DEFAULT"
                  THEN uv__backend_timeout ELSE 0
    /\ woken' = FALSE
    /\ pc' = "poll"
    /\ UNCHANGED <<handleVars, listVars, stop_flag, incb, mode, r, can_sleep, drains>>

\* uv__io_poll reports an event of an active handle ...
PollEvent(h) ==
    /\ pc = "poll" /\ ~ incb
    /\ h \in active /\ Kind[h] = "io"
    /\ woken' = TRUE
    /\ incb' = TRUE
    /\ UNCHANGED <<handleVars, listVars, stop_flag, pc, mode, r, can_sleep, timeout, drains>>

\* ... or the completion of a request: uv__req_unregister and its callback.
PollRequest ==
    /\ pc = "poll" /\ ~ incb
    /\ active_reqs > 0
    /\ active_reqs' = active_reqs - 1
    /\ woken' = TRUE
    /\ incb' = TRUE
    /\ UNCHANGED <<open, active, ref, active_handles, listVars, stop_flag, pc, mode, r, can_sleep,
                   timeout, drains>>

\* Without a timeout uv__io_poll returns only after an event.
PollReturn ==
    /\ pc = "poll" /\ ~ incb
    /\ timeout # -1 \/ woken
    /\ pc' = "drain"
    /\ timeout' = 0
    /\ woken' = FALSE
    /\ drains' = 0
    /\ UNCHANGED <<handleVars, listVars, stop_flag, incb, mode, r, can_sleep>>

DrainAgain ==
    /\ pc = "drain" /\ ~ incb
    /\ QueueEmpty(pq)
    /\ drains < PendingRuns /\ pending_queue # <<>>
    /\ pq' = pending_queue
    /\ pending_queue' = <<>>
    /\ drains' = drains + 1
    /\ UNCHANGED <<handleVars, list, queue, due, ready, closing_handles, walk, stop_flag, pc, incb,
                   mode, r, can_sleep, timeout, woken>>

DrainEnd ==
    /\ pc = "drain" /\ ~ incb
    /\ QueueEmpty(pq)
    /\ drains = PendingRuns \/ pending_queue = <<>>
    /\ drains' = 0
    /\ RunWatchers("check")
    /\ UNCHANGED <<handleVars, due, ready, pending_queue, pq, closing_handles, walk, stop_flag, incb,
                   mode, r, can_sleep, timeout, woken>>

\* uv__run_closing_handles begins.
CheckEnd ==
    /\ pc = "check" /\ ~ incb
    /\ QueueEmpty(queue)
    /\ walk' = closing_handles
    /\ closing_handles' = <<>>
    /\ pc' = "closing"
    /\ UNCHANGED <<handleVars, list, queue, due, ready, pending_queue, pq, stop_flag, incb, mode, r,
                   can_sleep, timeout, woken, drains>>

\* next_closing is read before uv__finish_close, whose callback may reuse the
\* handle's memory.
FinishClose ==
    /\ pc = "closing" /\ ~ incb
    /\ walk # <<>>
    /\ uv__handle_unref(QueueHead(walk))
    /\ walk' = QueuePop(walk)
    /\ incb' = TRUE
    /\ UNCHANGED <<open, active, active_reqs, list, queue, due, ready, pending_queue, pq,
                   closing_handles, stop_flag, pc, mode, r, can_sleep, timeout, woken, drains>>

ClosingEnd(ts) ==
    /\ pc = "closing" /\ ~ incb
    /\ walk = <<>>
    /\ CollectTimers(ts)
    /\ pc' = "timers"
    /\ UNCHANGED <<open, ref, active_reqs, list, queue, pending_queue, pq, closing_handles, walk,
                   stop_flag, incb, mode, r, can_sleep, timeout, woken, drains>>

\* A timer that repeats is restarted before its callback.
RunTimer(h, repeats) ==
    /\ pc \in {"first", "timers"} /\ ~ incb
    /\ h \in ready
    /\ ready' = ready \ {h}
    /\ IF repeats THEN uv__handle_start({h}) ELSE UNCHANGED <<active, active_handles>>
    /\ incb' = TRUE
    /\ UNCHANGED <<open, ref, active_reqs, list, queue, due, pending_queue, pq, closing_handles,
                   walk, stop_flag, pc, mode, r, can_sleep, timeout, woken, drains>>

FirstTimersEnd ==
    /\ pc = "first" /\ ~ incb
    /\ ready = {}
    /\ pc' = "top"
    /\ UNCHANGED <<handleVars, listVars, stop_flag, incb, mode, r, can_sleep, timeout, woken, drains>>

TimersEnd ==
    /\ pc = "timers" /\ ~ incb
    /\ ready = {}
    /\ r' = uv__loop_alive
    /\ pc' = IF mode = "UV_RUN_DEFAULT" THEN "top" ELSE "return"
    /\ UNCHANGED <<handleVars, listVars, stop_flag, incb, mode, can_sleep, timeout, woken, drains>>

BadClearStop == UNCHANGED stop_flag

ClearStop == stop_flag' = FALSE

\* What a call of uv_run leaves in its variables is forgotten.
RunReturn ==
    /\ pc = "return"
    /\ ClearStop
    /\ pc' = "out"
    /\ mode' = "UV_RUN_DEFAULT"
    /\ r' = FALSE
    /\ can_sleep' = FALSE
    /\ UNCHANGED <<handleVars, listVars, incb, timeout, woken, drains>>

CallbackReturn ==
    /\ incb
    /\ incb' = FALSE
    /\ UNCHANGED <<handleVars, listVars, stop_flag, pc, mode, r, can_sleep, timeout, woken, drains>>

-----------------------------------------------------------------------------
UserStep ==
    \/ \E h \in Handles :
           \/ uv__handle_init(h) \/ WatcherStart(h) \/ IoStart(h) \/ Stop(h)
           \/ \E now \in BOOLEAN : TimerStart(h, now)
           \/ uv_ref(h) \/ uv_unref(h) \/ uv_close(h) \/ uv__io_feed(h) \/ uv_update_time(h)
    \/ uv__req_register \/ uv_stop \/ uv_loop_close

Run ==
    \E m \in {"UV_RUN_DEFAULT", "UV_RUN_ONCE", "UV_RUN_NOWAIT"}, ts \in SUBSET Timers :
        RunStart(m, ts)

\* Steps of uv_run that wait for nothing.
LoopStep ==
    \/ Top \/ Leave \/ RunPending \/ PendingEnd \/ WatcherCallback \/ IdleEnd \/ PrepareEnd
    \/ PollReturn \/ DrainAgain \/ DrainEnd \/ CheckEnd \/ FinishClose
    \/ \E ts \in SUBSET Timers : ClosingEnd(ts)
    \/ \E h \in Timers, repeats \in BOOLEAN : RunTimer(h, repeats)
    \/ FirstTimersEnd \/ TimersEnd \/ RunReturn

Event == PollRequest \/ \E h \in Handles : PollEvent(h)

Next == UserStep \/ Run \/ LoopStep \/ Event \/ CallbackReturn

Spec == Init /\ [][Next]_vars

\* The loop thread runs, callbacks return after finitely many calls, uv__io_poll
\* reports a bounded number of events (48 arrays of them) before it returns, and
\* the program calls uv_run again.  Events need not come.
FairSpec ==
    /\ Spec
    /\ WF_vars(LoopStep)
    /\ SF_vars(CallbackReturn)
    /\ SF_vars(PollReturn)
    /\ SF_vars(Run)

-----------------------------------------------------------------------------
(* Properties *)

\* loop->active_handles, which every start, stop, ref, unref and close adjusts
\* on its own, is the number of active handles that are referenced.
ActiveExact == active_handles = Cardinality(active \cap ref)

\* Although uv__run_idle, _prepare and _check move handles between two lists and
\* callbacks start, stop and close handles under them, exactly the active
\* watchers are linked, each once.
WatchersLinked ==
    \A k \in Watchers :
        LET linked == list[k] \o (IF pc = k THEN queue ELSE <<>>)
        IN  IsInjective(linked) /\ Range(linked) = {h \in active : Kind[h] = k}

\* A closing handle is in the chain of the loop or in the one being walked,
\* once: its close callback comes, and comes once, although close callbacks
\* close more handles and reuse memory.  No other list holds it.
ClosingLinked ==
    LET chains == closing_handles \o walk
    IN  /\ IsInjective(chains)
        /\ Range(chains) \cap (open \cup active \cup Range(pending_queue \o pq) \cup ready) = {}

\* uv__io_poll blocks only if it has to: not with a callback to make, a handle
\* to close, an idle handle (even an unreferenced one) or a due timer, not after
\* uv_stop and not when nothing keeps the loop alive.
BlocksOnlyIdle ==
    pc = "poll" /\ timeout # 0 /\ ~ woken
        => /\ pending_queue = <<>> /\ closing_handles = <<>> /\ ~ stop_flag
           /\ \A h \in active : Kind[h] # "idle" /\ h \notin due
           /\ active \cap ref # {} \/ active_reqs > 0
           /\ timeout = -1 => active \cap Timers = {}

\* A handle that is closing gets its close callback, unless uv_stop keeps uv_run
\* from going on, although nothing may happen that wakes uv__io_poll up.
CloseCompletes ==
    \A h \in Handles :
        InQueue(closing_handles \o walk, h)
            ~> (~ InQueue(closing_handles \o walk, h) \/ stop_flag)

\* uv_run returns after uv_stop, and the flag does not stop the next uv_run.
StopStops == (stop_flag /\ pc \notin {"out", "gone"}) ~> (pc = "out" /\ ~ stop_flag)
=============================================================================
