------------------------------- MODULE Async -------------------------------
(***************************************************************************)
(* unix/async.c: the async handles of one loop.  Threads send on a handle  *)
(* while the loop thread delivers callbacks, initialises and closes        *)
(* handles and finally closes the loop.  Every atomic operation on         *)
(* handle->pending and every system call on the wakeup descriptor is one   *)
(* step.                                                                   *)
(***************************************************************************)
EXTENDS UVQueue, FiniteSets

CONSTANTS
    Handles,   \* uv_async_t structures of the loop
    Internal,  \* the ones uv_loop_close leaves to uv__async_stop (wq_async)
    Threads,   \* other threads that call uv_async_send
    None,
    MaxSends   \* bound on calls of uv_async_send

ASSUME InternalAssumption == Internal \subseteq Handles
ASSUME NoneAssumption == None \notin Handles
ASSUME ThreadsAssumption == IsFiniteSet(Threads)
ASSUME SendsAssumption == MaxSends \in Nat

VARIABLES
    flag,           \* bit 0 of handle->pending
    busy,           \* bits 1 and up of handle->pending
    state,          \* of a handle: "none", "open", "spin" in uv__async_spin, "closed"
    async_handles,  \* loop->async_handles
    queue,          \* the list uv__async_io or uv__async_stop walks
    readable,       \* the wakeup descriptor has something to read
    started,        \* async_io_watcher.fd is open
    in_io,          \* uv__async_io is on the stack of the loop thread
    loop_pc,        \* where the loop thread is
    target,         \* the handle that uv__async_spin waits for
    send_pc,        \* where a thread is in uv_async_send
    send_h,         \* its handle
    sends           \* calls so far

pendingVars == <<flag, busy>>
loopVars == <<state, async_handles, queue, started, in_io, loop_pc, target>>
sendVars == <<send_pc, send_h, sends>>
vars == <<pendingVars, loopVars, readable, sendVars>>

TypeOK ==
    /\ flag \in [Handles -> BOOLEAN]
    /\ busy \in [Handles -> Nat]
    /\ state \in [Handles -> {"none", "open", "spin", "closed"}]
    /\ async_handles \in Seq(Handles)
    /\ queue \in Seq(Handles)
    /\ readable \in BOOLEAN
    /\ started \in BOOLEAN
    /\ in_io \in BOOLEAN
    /\ loop_pc \in {"user", "io", "close", "stop", "stop_spin", "gone"}
    /\ target \in Handles \cup {None}
    /\ send_pc \in [Threads -> {"idle", "cas", "write", "dec"}]
    /\ send_h \in [Threads -> Handles \cup {None}]
    /\ sends \in 0 .. MaxSends

Init ==
    /\ flag = [h \in Handles |-> FALSE]
    /\ busy = [h \in Handles |-> 0]
    /\ state = [h \in Handles |-> "none"]
    /\ async_handles = <<>>
    /\ queue = <<>>
    /\ readable = FALSE
    /\ started = FALSE
    /\ in_io = FALSE
    /\ loop_pc = "user"
    /\ target = None
    /\ send_pc = [t \in Threads |-> "idle"]
    /\ send_h = [t \in Threads |-> None]
    /\ sends = 0

-----------------------------------------------------------------------------
(* uv_async_send in another thread.  The caller keeps the handle's memory
   valid during the call; the handle may be closing. *)

SendStart(t, h) ==
    /\ send_pc[t] = "idle"
    /\ state[h] # "none"
    /\ sends < MaxSends
    /\ sends' = sends + 1
    /\ send_pc' = [send_pc EXCEPT ![t] = "cas"]
    /\ send_h' = [send_h EXCEPT ![t] = h]
    /\ UNCHANGED <<pendingVars, loopVars, readable>>

\* The cheap read or a failed exchange sees the pending flag: nothing to do.
SendCoalesce(t) ==
    /\ send_pc[t] = "cas"
    /\ flag[send_h[t]]
    /\ send_pc' = [send_pc EXCEPT ![t] = "idle"]
    /\ send_h' = [send_h EXCEPT ![t] = None]
    /\ UNCHANGED <<pendingVars, loopVars, readable, sends>>

BadSetPending(h) == flag' = [flag EXCEPT ![h] = TRUE] /\ UNCHANGED busy

\* current + 3: the flag and one more busy thread, in one exchange.
SetPending(h) ==
    /\ flag' = [flag EXCEPT ![h] = TRUE]
    /\ busy' = [busy EXCEPT ![h] = @ + 1]

SendCas(t) ==
    /\ send_pc[t] = "cas"
    /\ ~ flag[send_h[t]]
    /\ SetPending(send_h[t])
    /\ send_pc' = [send_pc EXCEPT ![t] = "write"]
    /\ UNCHANGED <<loopVars, readable, send_h, sends>>

\* uv__async_send: EAGAIN also means that there is something to read.
SendWrite(t) ==
    /\ send_pc[t] = "write"
    /\ readable' = TRUE
    /\ send_pc' = [send_pc EXCEPT ![t] = "dec"]
    /\ UNCHANGED <<pendingVars, loopVars, send_h, sends>>

BadClearBusy(h) == UNCHANGED busy

ClearBusy(h) == busy' = [busy EXCEPT ![h] = @ - 1]

SendDec(t) ==
    /\ send_pc[t] = "dec"
    /\ ClearBusy(send_h[t])
    /\ send_pc' = [send_pc EXCEPT ![t] = "idle"]
    /\ send_h' = [send_h EXCEPT ![t] = None]
    /\ UNCHANGED <<flag, loopVars, readable, sends>>

-----------------------------------------------------------------------------
(* The loop thread.  It runs user code when loop_pc is "user", in an async
   callback if in_io, elsewhere otherwise. *)

\* handle->pending = 0
ResetPending(h) ==
    /\ flag' = [flag EXCEPT ![h] = FALSE]
    /\ busy' = [busy EXCEPT ![h] = 0]

\* uv_async_init; the first one opens the wakeup descriptor (uv__async_start).
AsyncInit(h) ==
    /\ loop_pc = "user"
    /\ state[h] = "none"
    /\ \A t \in Threads : send_h[t] # h
    /\ started' = TRUE
    /\ state' = [state EXCEPT ![h] = "open"]
    /\ ResetPending(h)
    /\ async_handles' = QueueInsertTail(async_handles, h)
    /\ UNCHANGED <<queue, in_io, loop_pc, target, readable, sendVars>>

\* uv_async_send called by the loop thread itself.
LoopSend(h) ==
    /\ loop_pc = "user"
    /\ state[h] = "open"
    /\ sends < MaxSends
    /\ sends' = sends + 1
    /\ flag' = [flag EXCEPT ![h] = TRUE]
    /\ readable' = (readable \/ ~ flag[h])
    /\ UNCHANGED <<busy, loopVars, send_pc, send_h>>

\* uv__async_spin sets the flag, so that no thread starts another send.
SpinStart(h) == flag' = [flag EXCEPT ![h] = TRUE]

\* uv_close
Close(h) ==
    /\ loop_pc = "user"
    /\ state[h] = "open"
    /\ h \notin Internal
    /\ SpinStart(h)
    /\ state' = [state EXCEPT ![h] = "spin"]
    /\ target' = h
    /\ loop_pc' = "close"
    /\ UNCHANGED <<busy, async_handles, queue, started, in_io, readable, sendVars>>

BadSpinEnds == TRUE

SpinEnds == busy[target] = 0


\* uv__queue_remove takes the handle out of whichever list it is in.
Unlink(h) ==
    /\ async_handles' = QueueRemove(async_handles, h)
    /\ queue' = QueueRemove(queue, h)

\* uv__async_close after the spin; uv_close queues the handle for closing.
CloseUnlink ==
    /\ loop_pc = "close"
    /\ SpinEnds
    /\ Unlink(target)
    /\ state' = [state EXCEPT ![target] = "closed"]
    /\ target' = None
    /\ loop_pc' = "user"
    /\ UNCHANGED <<pendingVars, started, in_io, readable, sendVars>>

\* uv__run_closing_handles calls the close callback; the memory of the handle
\* is the user's again, whose threads no longer use it.
FinishClose(h) ==
    /\ loop_pc = "user"
    /\ ~ in_io
    /\ state[h] = "closed"
    /\ \A t \in Threads : send_h[t] # h
    /\ state' = [state EXCEPT ![h] = "none"]
    /\ UNCHANGED <<pendingVars, async_handles, queue, started, in_io, loop_pc, target, readable,
                   sendVars>>

\* The read loop of uv__async_io empties the descriptor.
Drain == readable' = FALSE

\* uv__io_poll finds the descriptor readable and calls uv__async_io.
AsyncIo ==
    /\ loop_pc = "user"
    /\ ~ in_io
    /\ started
    /\ readable
    /\ Drain
    /\ queue' = async_handles
    /\ async_handles' = <<>>
    /\ in_io' = TRUE
    /\ loop_pc' = "io"
    /\ UNCHANGED <<pendingVars, state, started, target, sendVars>>

BadClearFlag(h) == UNCHANGED flag

ClearFlag(h) == flag' = [flag EXCEPT ![h] = FALSE]

\* One turn of the loop of uv__async_io for a handle that is not pending ...
IoSkip ==
    LET h == QueueHead(queue)
    IN  /\ loop_pc = "io"
        /\ ~ QueueEmpty(queue)
        /\ ~ flag[h]
        /\ queue' = QueuePop(queue)
        /\ async_handles' = QueueInsertTail(async_handles, h)
        /\ UNCHANGED <<pendingVars, state, started, in_io, loop_pc, target, readable, sendVars>>

\* ... and for a pending one, whose callback runs next.
IoCallback ==
    LET h == QueueHead(queue)
    IN  /\ loop_pc = "io"
        /\ ~ QueueEmpty(queue)
        /\ flag[h]
        /\ ClearFlag(h)
        /\ queue' = QueuePop(queue)
        /\ async_handles' = QueueInsertTail(async_handles, h)
        /\ loop_pc' = "user"
        /\ UNCHANGED <<busy, state, started, in_io, target, readable, sendVars>>

CallbackReturn ==
    /\ loop_pc = "user"
    /\ in_io
    /\ loop_pc' = "io"
    /\ UNCHANGED <<pendingVars, state, async_handles, queue, started, in_io, target, readable,
                   sendVars>>

IoEnd ==
    /\ loop_pc = "io"
    /\ QueueEmpty(queue)
    /\ in_io' = FALSE
    /\ loop_pc' = "user"
    /\ UNCHANGED <<pendingVars, state, async_handles, queue, started, target, readable, sendVars>>

-----------------------------------------------------------------------------
(* uv_loop_close -> uv__async_stop.  Only internal handles are left. *)

Stop ==
    /\ loop_pc = "user"
    /\ ~ in_io
    /\ started
    /\ \A h \in Handles : state[h] = "none" \/ (state[h] = "open" /\ h \in Internal)
    /\ queue' = async_handles
    /\ async_handles' = <<>>
    /\ loop_pc' = "stop"
    /\ UNCHANGED <<pendingVars, state, started, in_io, target, readable, sendVars>>

StopNext ==
    LET h == QueueHead(queue)
    IN  /\ loop_pc = "stop"
        /\ ~ QueueEmpty(queue)
        /\ queue' = QueuePop(queue)
        /\ async_handles' = QueueInsertTail(async_handles, h)
        /\ SpinStart(h)
        /\ state' = [state EXCEPT ![h] = "spin"]
        /\ target' = h
        /\ loop_pc' = "stop_spin"
        /\ UNCHANGED <<busy, started, in_io, readable, sendVars>>

StopSpun ==
    /\ loop_pc = "stop_spin"
    /\ SpinEnds
    /\ state' = [state EXCEPT ![target] = "closed"]
    /\ target' = None
    /\ loop_pc' = "stop"
    /\ UNCHANGED <<pendingVars, async_handles, queue, started, in_io, readable, sendVars>>

\* The descriptors are closed and the loop is gone.
StopClose ==
    /\ loop_pc = "stop"
    /\ QueueEmpty(queue)
    /\ started' = FALSE
    /\ readable' = FALSE
    /\ loop_pc' = "gone"
    /\ UNCHANGED <<pendingVars, state, async_handles, queue, in_io, target, sendVars>>

-----------------------------------------------------------------------------
SendStep(t) == SendCoalesce(t) \/ SendCas(t) \/ SendWrite(t) \/ SendDec(t)

LoopStep ==
    \/ CloseUnlink \/ AsyncIo \/ IoSkip \/ IoCallback \/ CallbackReturn \/ IoEnd
    \/ StopNext \/ StopSpun \/ StopClose

UserStep ==
    \/ \E h \in Handles : AsyncInit(h) \/ LoopSend(h) \/ Close(h)
    \/ Stop

Next ==
    \/ \E t \in Threads : SendStep(t) \/ \E h \in Handles : SendStart(t, h)
    \/ LoopStep \/ UserStep
    \/ \E h \in Handles : FinishClose(h)

Spec == Init /\ [][Next]_vars

\* Threads inside uv_async_send run and the loop thread runs.  User code returns
\* to the loop (strong fairness: between its calls it always may), which then
\* polls and closes handles.
FairSpec ==
    /\ Spec
    /\ \A t \in Threads : WF_vars(SendStep(t))
    /\ WF_vars(LoopStep)
    /\ SF_vars(CallbackReturn)
    /\ SF_vars(AsyncIo)
    /\ \A h \in Handles : SF_vars(FinishClose(h))

-----------------------------------------------------------------------------
(* Properties *)

Sending(h) == {t \in Threads : send_h[t] = h /\ send_pc[t] \in {"write", "dec"}}

\* No send is lost: a pending open handle is in the part of the list that
\* uv__async_io has yet to look at, or the loop will be woken up for it: there
\* is something to read, or a thread that set a flag is about to write.
NoLostSend ==
    \A h \in Handles :
        state[h] = "open" /\ flag[h]
            => \/ in_io /\ InQueue(queue, h)
               \/ readable
               \/ \E t \in Sending(h) : send_pc[t] = "write"
               \/ loop_pc \in {"stop", "stop_spin"}

\* Once uv__async_spin has returned for a handle, no thread that found the flag
\* clear still uses the handle or writes to the descriptor, so that the memory
\* may be released and the descriptor closed.
QuietAfterSpin ==
    /\ \A t \in Threads :
           send_pc[t] \in {"write", "dec"} => state[send_h[t]] \in {"open", "spin"} /\ started
    /\ \A h \in Handles : state[h] = "closed" => flag[h] /\ busy[h] = 0

\* uv_close returns, however many threads are in uv_async_send.
CloseReturns == loop_pc = "close" ~> loop_pc = "user"

-----------------------------------------------------------------------------
(* The handles implement AsyncNotify, until the loop is closed. *)

lifeOf == [h \in Handles |-> IF state[h] \in {"spin", "closed"} /\ h \notin Internal THEN "closing"
                             ELSE IF state[h] = "none" THEN "none" ELSE "open"]

signalledOf == [h \in Handles |-> lifeOf[h] = "open" /\ flag[h] ]

Notify == INSTANCE AsyncNotify WITH life <- lifeOf, signalled <- signalledOf

=============================================================================
