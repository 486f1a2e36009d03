------------------------------- MODULE Timer -------------------------------
(***************************************************************************)
(* timer.c: the timers of one loop.  User code starts, stops and closes    *)
(* timers, also from the callbacks that uv__run_timers makes while it      *)
(* walks the list of expired timers.                                       *)
(***************************************************************************)
EXTENDS UVQueue, HeapArray, FiniteSets

CONSTANTS
    Timers,
    None,
    Width,      \* uint64_t has Width bits
    INT_MAX,    \* of the int that uv__next_timeout returns
    Timeouts,   \* arguments of uv_timer_start
    Repeats,
    MaxStarts   \* bound on timer_counter

ASSUME WidthAssumption == Width \in Nat \ {0} /\ INT_MAX \in 0 .. 2^Width - 1
ASSUME ArgumentsAssumption == Timeouts \cup Repeats \subseteq 0 .. 2^Width - 1
ASSUME NoneAssumption == None \notin Timers

UINT64_MAX == 2^Width - 1

VARIABLES
    state,          \* of a timer: "none", "init" or "closing"
    timer_cb,       \* timer_cb is not NULL
    timeout,
    repeat,
    start_id,
    heap,           \* loop->timer_heap
    timer_counter,
    time,           \* loop->time
    ready_queue,    \* of uv__run_timers
    pc,             \* "user" outside and "callback" inside uv__run_timers
    due,            \* the exact time at which the timer may fire
    armed,          \* started, not stopped and not expired
    fired           \* called by this uv__run_timers

fields == <<state, timer_cb, timeout, repeat, start_id>>
loopVars == <<heap, timer_counter, time, ready_queue, pc>>
ghosts == <<due, armed, fired>>
vars == <<fields, loopVars, ghosts>>

TypeOK ==
    /\ state \in [Timers -> {"none", "init", "closing"}]
    /\ timer_cb \in [Timers -> BOOLEAN]
    /\ timeout \in [Timers -> 0 .. UINT64_MAX]
    /\ repeat \in [Timers -> 0 .. UINT64_MAX]
    /\ start_id \in [Timers -> 0 .. MaxStarts]
    /\ heap \in Seq(Timers)
    /\ timer_counter \in 0 .. MaxStarts
    /\ time \in 0 .. UINT64_MAX
    /\ ready_queue \in Seq(Timers)
    /\ pc \in {"user", "collect", "run", "callback"}
    /\ due \in [Timers -> Nat]
    /\ armed \subseteq Timers
    /\ fired \subseteq Timers

Init ==
    /\ state = [h \in Timers |-> "none"]
    /\ timer_cb = [h \in Timers |-> FALSE]
    /\ timeout = [h \in Timers |-> 0]
    /\ repeat = [h \in Timers |-> 0]
    /\ start_id = [h \in Timers |-> 0]
    /\ heap = <<>>
    /\ timer_counter = 0
    /\ time = 0
    /\ ready_queue = <<>>
    /\ pc = "user"
    /\ due = [h \in Timers |-> 0]
    /\ armed = {}
    /\ fired = {}

-----------------------------------------------------------------------------
timer_less_than(to, id) ==
    [<<a, b>> \in Timers \X Timers |-> to[a] < to[b] \/ (to[a] = to[b] /\ id[a] < id[b])]

uv__is_active(h) == h \in Range(heap)

\* uv_timer_stop: the heap and the list without the timer.  A timer that has
\* expired and waits for its callback is in ready_queue.
HeapWithout(h) ==
    IF uv__is_active(h) THEN HeapRemove(heap, h, timer_less_than(timeout, start_id)) ELSE heap

BadReadyWithout(h) == ready_queue

ReadyWithout(h) == IF uv__is_active(h) THEN ready_queue ELSE QueueRemove(ready_queue, h)

BadClamp(t) == (time + t) % 2^Width


\* loop->time + timeout, in 64 bits; a sum that overflows is clamped.
Clamp(t) ==
    LET sum == (time + t) % 2^Width
    IN  IF sum < t THEN UINT64_MAX ELSE sum

\* The rest of uv_timer_start, when the timer is no longer in hp.
Arm(h, hp, t, r) ==
    LET to == [timeout EXCEPT ![h] = Clamp(t)]
        id == [start_id EXCEPT ![h] = timer_counter]
    IN  /\ timer_counter < MaxStarts
        /\ timer_counter' = timer_counter + 1
        /\ timer_cb' = [timer_cb EXCEPT ![h] = TRUE]
        /\ timeout' = to
        /\ start_id' = id
        /\ repeat' = [repeat EXCEPT ![h] = r]
        /\ heap' = HeapInsert(hp, h, timer_less_than(to, id))
        /\ due' = [due EXCEPT ![h] = time + t]
        /\ armed' = armed \cup {h}

Disarm(h) ==
    /\ armed' = armed \ {h}
    /\ due' = [due EXCEPT ![h] = 0]

-----------------------------------------------------------------------------
(* Calls of the user. *)

UserCode == pc \in {"user", "callback"}

uv_timer_init(h) ==
    /\ UserCode
    /\ state[h] = "none"
    /\ state' = [state EXCEPT ![h] = "init"]
    /\ timer_cb' = [timer_cb EXCEPT ![h] = FALSE]
    /\ timeout' = [timeout EXCEPT ![h] = 0]
    /\ repeat' = [repeat EXCEPT ![h] = 0]
    /\ UNCHANGED <<start_id, loopVars, ghosts>>

\* On a closing timer, or without a callback, it fails with UV_EINVAL.
uv_timer_start(h, t, r) ==
    /\ UserCode
    /\ state[h] = "init"
    /\ Arm(h, HeapWithout(h), t, r)
    /\ ready_queue' = ReadyWithout(h)
    /\ UNCHANGED <<state, time, pc, fired>>

uv_timer_stop(h) ==
    /\ UserCode
    /\ state[h] = "init"
    /\ heap' = HeapWithout(h)
    /\ ready_queue' = ReadyWithout(h)
    /\ Disarm(h)
    /\ UNCHANGED <<fields, timer_counter, time, pc, fired>>

\* Without a repeat value, and before the first start, it does nothing.
uv_timer_again(h) ==
    /\ UserCode
    /\ state[h] = "init"
    /\ timer_cb[h]
    /\ repeat[h] # 0
    /\ Arm(h, HeapWithout(h), repeat[h], repeat[h])
    /\ ready_queue' = ReadyWithout(h)
    /\ UNCHANGED <<state, time, pc, fired>>

uv_timer_set_repeat(h, r) ==
    /\ UserCode
    /\ state[h] = "init"
    /\ repeat' = [repeat EXCEPT ![h] = r]
    /\ UNCHANGED <<state, timer_cb, timeout, start_id, loopVars, ghosts>>

\* uv_close -> uv__timer_close
Close(h) ==
    /\ UserCode
    /\ state[h] = "init"
    /\ state' = [state EXCEPT ![h] = "closing"]
    /\ heap' = HeapWithout(h)
    /\ ready_queue' = ReadyWithout(h)
    /\ Disarm(h)
    /\ UNCHANGED <<timer_cb, timeout, repeat, start_id, timer_counter, time, pc, fired>>

\* uv__finish_close, from the loop: the memory is the user's again, and what it
\* holds no longer matters.
FinishClose(h) ==
    /\ pc = "user"
    /\ state[h] = "closing"
    /\ state' = [state EXCEPT ![h] = "none"]
    /\ timer_cb' = [timer_cb EXCEPT ![h] = FALSE]
    /\ timeout' = [timeout EXCEPT ![h] = 0]
    /\ repeat' = [repeat EXCEPT ![h] = 0]
    /\ start_id' = [start_id EXCEPT ![h] = 0]
    /\ UNCHANGED <<loopVars, ghosts>>

\* uv__update_time from the loop, uv_update_time from the user.
UpdateTime(now) ==
    /\ UserCode
    /\ time < now
    /\ time' = now
    /\ UNCHANGED <<fields, heap, timer_counter, ready_queue, pc, ghosts>>

-----------------------------------------------------------------------------
(* uv__run_timers *)

RunTimers ==
    /\ pc = "user"
    /\ pc' = "collect"
    /\ UNCHANGED <<fields, heap, timer_counter, time, ready_queue, ghosts>>

\* The first timer of the heap has expired.
Expired == heap # <<>> /\ timeout[heap[1]] <= time

CollectOne ==
    /\ pc = "collect"
    /\ Expired
    /\ heap' = HeapWithout(heap[1])
    /\ ready_queue' = QueueInsertTail(ready_queue, heap[1])
    /\ UNCHANGED <<fields, timer_counter, time, pc, ghosts>>

CollectEnd ==
    /\ pc = "collect"
    /\ ~ Expired
    /\ pc' = "run"
    /\ UNCHANGED <<fields, heap, timer_counter, time, ready_queue, ghosts>>

\* Takes the first timer off the list, uv_timer_again restarts it if it repeats,
\* and then its callback runs.
RunOne ==
    LET h == QueueHead(ready_queue)
    IN  /\ pc = "run"
        /\ ~ QueueEmpty(ready_queue)
        /\ ready_queue' = QueuePop(ready_queue)
        /\ \/ repeat[h] # 0 /\ Arm(h, heap, repeat[h], repeat[h])
           \/ /\ repeat[h] = 0
              /\ Disarm(h)
              /\ UNCHANGED <<timer_cb, timeout, start_id, timer_counter, repeat, heap>>
        /\ fired' = fired \cup {h}
        /\ pc' = "callback"
        /\ UNCHANGED <<state, time>>

BadCallbackReturn ==
    /\ pc = "callback"
    /\ pc' = "collect"
    /\ UNCHANGED <<fields, heap, timer_counter, time, ready_queue, ghosts>>

CallbackReturn ==
    /\ pc = "callback"
    /\ pc' = "run"
    /\ UNCHANGED <<fields, heap, timer_counter, time, ready_queue, ghosts>>

RunEnd ==
    /\ pc = "run"
    /\ QueueEmpty(ready_queue)
    /\ pc' = "user"
    /\ fired' = {}
    /\ UNCHANGED <<fields, heap, timer_counter, time, ready_queue, due, armed>>

BadNextTimeout == IF heap = <<>> THEN -1 ELSE timeout[heap[1]] - time

\* uv__next_timeout: how long uv__io_poll may sleep.
uv__next_timeout ==
    IF heap = <<>> THEN -1
    ELSE IF timeout[heap[1]] <= time THEN 0
    ELSE IF timeout[heap[1]] - time > INT_MAX THEN INT_MAX
    ELSE timeout[heap[1]] - time

-----------------------------------------------------------------------------
UserStep(h) ==
    \/ uv_timer_init(h) \/ uv_timer_stop(h) \/ uv_timer_again(h) \/ Close(h)
    \/ \E t \in Timeouts, r \in Repeats : uv_timer_start(h, t, r)
    \/ \E r \in Repeats : uv_timer_set_repeat(h, r)

LoopStep == RunTimers \/ CollectOne \/ CollectEnd \/ RunOne \/ CallbackReturn \/ RunEnd

Next ==
    \/ \E h \in Timers : UserStep(h) \/ FinishClose(h)
    \/ \E now \in 0 .. UINT64_MAX : UpdateTime(now)
    \/ LoopStep

Spec == Init /\ [][Next]_vars

-----------------------------------------------------------------------------
(* Properties *)

\* A timer is in the heap or waits for its callback iff it was started and has
\* since been neither stopped nor closed nor called for the last time: a stop
\* from the callback of another timer that expired at the same time works.  Its
\* node, whose memory heap and list share, is linked once.
ArmedExactly == armed = Range(heap \o ready_queue) /\ IsInjective(heap \o ready_queue)

\* No callback comes early: also a timeout that overflows loop->time waits.
NeverEarly ==
    \A h \in Range(ready_queue) :
        due[h] <= time \/ (time = UINT64_MAX /\ due[h] > UINT64_MAX)

\* uv__run_timers calls a timer at most once, however callbacks restart timers
\* with a zero timeout, so that it cannot starve the loop.
OncePerRun == fired \cap Range(ready_queue) = {}

\* uv__io_poll neither sleeps past the first timer nor, short of INT_MAX, wakes
\* up before it, and sleeps for ever only without timers.
SleepsUntilDue ==
    LET t == uv__next_timeout
        first == CHOOSE h \in Range(heap) : \A g \in Range(heap) : timeout[h] <= timeout[g]
    IN  IF heap = <<>> THEN t = -1
        ELSE /\ t \in 0 .. INT_MAX
             /\ t > 0 => time + t <= timeout[first]
             /\ t < INT_MAX => time + t >= timeout[first]
=============================================================================
