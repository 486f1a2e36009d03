------------------------------- MODULE FsPoll -------------------------------
(***************************************************************************)
(* fs-poll.c: a handle that stats a path in the thread pool, compares, and *)
(* starts a timer for the next stat.  Every start makes a context with a   *)
(* timer and a request of its own; a context outlives the stop until its   *)
(* request has come back and its timer is closed.                          *)
(***************************************************************************)
EXTENDS Integers, Sequences, SequencesExt

CONSTANTS
    MaxStarts,  \* bound on calls of uv_fs_poll_start
    Stats,      \* successful results of stat
    Errors      \* failures of stat

ASSUME StartsAssumption == MaxStarts \in Nat

Ctxs == 1 .. MaxStarts
Results == Stats \cup Errors

VARIABLES
    active,     \* uv_is_active(handle)
    state,      \* of the handle: "open", "closing", "pending" (uv__make_close_pending) or "closed"
    chain,      \* handle->poll_ctx and its previous contexts
    starts,     \* contexts made so far
    phase,      \* of a context: "stat" requested, in its "callback", "timer" running or "closing", "free"
    busy,       \* ctx->busy_polling: "no" for 0, "yes" for 1, or an error
    statbuf,    \* ctx->statbuf, "zero" at first
    last,       \* history: the result before the one that is handled
    pc,         \* 0, or the context whose user callback runs
    aborted     \* an assertion has failed

handleVars == <<active, state>>
ctxVars == <<busy, statbuf, last>>
vars == <<handleVars, ctxVars, chain, starts, phase, pc, aborted>>

TypeOK ==
    /\ active \in BOOLEAN
    /\ state \in {"open", "closing", "pending", "closed"}
    /\ chain \in Seq(Ctxs)
    /\ starts \in 0 .. MaxStarts
    /\ phase \in [Ctxs -> {"free", "stat", "callback", "timer", "closing"}]
    /\ busy \in [Ctxs -> {"no", "yes"} \cup Errors]
    /\ statbuf \in [Ctxs -> Stats \cup {"zero"}]
    /\ last \in [Ctxs -> Results \cup {"none"}]
    /\ pc \in 0 .. MaxStarts
    /\ aborted \in BOOLEAN

\* uv_fs_poll_init
Init ==
    /\ active = FALSE /\ state = "open"
    /\ chain = <<>>
    /\ starts = 0
    /\ phase = [c \in Ctxs |-> "free"]
    /\ busy = [c \in Ctxs |-> "no"]
    /\ statbuf = [c \in Ctxs |-> "zero"]
    /\ last = [c \in Ctxs |-> "none"]
    /\ pc = 0
    /\ aborted = FALSE

poll_ctx == Head(chain)

-----------------------------------------------------------------------------
(* User code, between callbacks or in one *)

\* Starting an active handle changes nothing.
uv_fs_poll_start ==
    /\ ~ aborted
    /\ state = "open"
    /\ ~ active
    /\ starts < MaxStarts
    /\ starts' = starts + 1
    /\ chain' = <<starts'>> \o chain
    /\ phase' = [phase EXCEPT ![starts'] = "stat"]
    /\ active' = TRUE
    /\ UNCHANGED <<state, ctxVars, pc, aborted>>

\* If the timer is inactive a stat is in progress and poll_cb cleans up.
CloseTimer ==
    phase' = IF phase[poll_ctx] = "timer" THEN [phase EXCEPT ![poll_ctx] = "closing"] ELSE phase

uv_fs_poll_stop ==
    /\ ~ aborted
    /\ state = "open"
    /\ active
    /\ CloseTimer
    /\ active' = FALSE
    /\ UNCHANGED <<state, ctxVars, chain, starts, pc, aborted>>

BadClosedNow == TRUE

ClosedNow == chain = <<>>

\* uv_close and uv__fs_poll_close
uv_close ==
    /\ ~ aborted
    /\ state = "open"
    /\ IF active THEN CloseTimer ELSE UNCHANGED phase
    /\ active' = FALSE
    /\ state' = IF ClosedNow THEN "pending" ELSE "closing"
    /\ UNCHANGED <<ctxVars, chain, starts, pc, aborted>>

-----------------------------------------------------------------------------
(* Callbacks of the loop *)

InLoop == pc = 0 /\ ~ aborted

Stopped == ~ active \/ state # "open"

\* From the label out: close the timer, or start it for the next stat.
Reschedule(c) == phase' = [phase EXCEPT ![c] = IF Stopped THEN "closing" ELSE "timer"]

BadChanged(c, r) == busy[c] # "no" /\ (busy[c] # "yes" \/ statbuf[c] # r)

\* Whether the callback is called: for an error that is new, and for a result
\* after an error or one that differs.
Changed(c, r) ==
    IF r \in Errors
    THEN busy[c] # r
    ELSE busy[c] # "no" /\ (busy[c] # "yes" \/ statbuf[c] # r)

BadRemember(c, r) ==
    /\ busy' = [busy EXCEPT ![c] = r]
    /\ statbuf' = IF r \in Errors THEN statbuf ELSE [statbuf EXCEPT ![c] = r]
    /\ last' = [last EXCEPT ![c] = r]

\* busy_polling and statbuf are assigned after the callback, which cannot see them.
Remember(c, r) ==
    /\ busy' = [busy EXCEPT ![c] = IF r \in Errors THEN r ELSE "yes"]
    /\ statbuf' = IF r \in Errors THEN statbuf ELSE [statbuf EXCEPT ![c] = r]
    /\ last' = [last EXCEPT ![c] = r]

\* The stat is done, and the handle has been stopped.
PollStopped(c) ==
    /\ InLoop
    /\ phase[c] = "stat"
    /\ Stopped
    /\ Reschedule(c)
    /\ UNCHANGED <<handleVars, ctxVars, chain, starts, pc, aborted>>

\* The stat is done, without news.
PollSame(c, r) ==
    /\ InLoop
    /\ phase[c] = "stat"
    /\ ~ Stopped
    /\ ~ Changed(c, r)
    /\ Remember(c, r)
    /\ Reschedule(c)
    /\ UNCHANGED <<handleVars, chain, starts, pc, aborted>>

\* The stat is done, and the user's callback is called.
PollChanged(c, r) ==
    /\ InLoop
    /\ phase[c] = "stat"
    /\ ~ Stopped
    /\ Changed(c, r)
    /\ Remember(c, r)
    /\ phase' = [phase EXCEPT ![c] = "callback"]
    /\ pc' = c
    /\ UNCHANGED <<handleVars, chain, starts, aborted>>

CallbackReturn ==
    /\ pc # 0 /\ ~ aborted
    /\ Reschedule(pc)
    /\ pc' = 0
    /\ UNCHANGED <<handleVars, ctxVars, chain, starts, aborted>>

\* timer_cb, with its assertion on poll_ctx.
timer_cb(c) ==
    /\ InLoop
    /\ phase[c] = "timer"
    /\ IF poll_ctx = c
       THEN phase' = [phase EXCEPT ![c] = "stat"] /\ UNCHANGED aborted
       ELSE aborted' = TRUE /\ UNCHANGED phase
    /\ UNCHANGED <<handleVars, ctxVars, chain, starts, pc>>


EndClose(c) == IF chain = <<c>> /\ state = "closing" THEN "pending" ELSE state

\* The loop has closed the timer of a context.
timer_close_cb(c) ==
    /\ InLoop
    /\ phase[c] = "closing"
    /\ chain' = Remove(chain, c)
    /\ state' = EndClose(c)
    /\ phase' = [phase EXCEPT ![c] = "free"]
    /\ UNCHANGED <<active, ctxVars, starts, pc, aborted>>

\* uv__finish_close calls the handle's close callback; the user frees the handle.
FinishClose ==
    /\ InLoop
    /\ state = "pending"
    /\ state' = "closed"
    /\ UNCHANGED <<active, ctxVars, chain, starts, phase, pc, aborted>>

-----------------------------------------------------------------------------
LoopStep ==
    \/ \E c \in Ctxs :
           \/ PollStopped(c)
           \/ \E r \in Results : PollSame(c, r) \/ PollChanged(c, r)
           \/ timer_cb(c) \/ timer_close_cb(c)
    \/ CallbackReturn \/ FinishClose

Next == uv_fs_poll_start \/ uv_fs_poll_stop \/ uv_close \/ LoopStep

Spec == Init /\ [][Next]_vars

\* The thread pool finishes every stat, timers fire, the loop runs its callbacks
\* and user callbacks return.
FairSpec ==
    /\ Spec
    /\ \A c \in Ctxs :
           /\ WF_vars(PollStopped(c) \/ \E r \in Results : PollSame(c, r) \/ PollChanged(c, r))
           /\ WF_vars(timer_cb(c)) /\ WF_vars(timer_close_cb(c))
    /\ WF_vars(CallbackReturn) /\ WF_vars(FinishClose)

-----------------------------------------------------------------------------
(* Properties *)

\* The contexts of the handle are exactly the ones whose request or timer is still
\* to call back: none is leaked, none is freed too early, and when the close
\* callback runs, and the user frees the handle, nothing points to it any more.
ChainExact ==
    /\ ToSet(chain) = {c \in Ctxs : phase[c] # "free"}
    /\ IsInjective(chain)
    /\ state \in {"pending", "closed"} => chain = <<>>

\* fs_poll.rst: after a failure the "callback is not called again until something
\* changes": a callback is called if and only if the result differs from the
\* previous one, where a first successful result is no news.
ReportsChanges ==
    [][\A c \in Ctxs :
           phase[c] = "stat" /\ phase'[c] \in {"callback", "timer"} =>
               (phase'[c] = "callback"
                   <=> last'[c] # last[c] /\ ~ (last[c] = "none" /\ last'[c] \in Stats))]_vars

\* timer_cb: assert(ctx->parent_handle->poll_ctx == ctx).
NoAbort == ~ aborted

\* A handle that is closed gets its close callback, whether a stat, a callback or
\* a timer was in progress, of this start or of earlier ones, unless the assertion
\* in timer_cb has ended the program.
CloseCompletes == state = "closing" ~> state = "closed" \/ aborted
=============================================================================
