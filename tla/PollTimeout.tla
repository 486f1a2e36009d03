---------------------------- MODULE PollTimeout ----------------------------
(***************************************************************************)
(* How long one call of uv__io_poll in linux.c waits: epoll_pwait returns  *)
(* early for signals and for events that nobody wants, and is called again *)
(* with a corrected timeout.  With UV_METRICS_IDLE_TIME the first call of  *)
(* epoll_pwait does not block.                                             *)
(***************************************************************************)
EXTENDS Integers

CONSTANTS
    MaxTimeout,  \* bound on the argument of uv__io_poll
    MaxLag,      \* bound on the age of loop->time when uv__io_poll is entered
    MaxTime,     \* bound on the clock
    Count        \* batches of one call, 48 in the code

VARIABLES
    asked,         \* the argument
    entered,       \* the clock when uv__io_poll was called
    clock,
    time,          \* loop->time; base is its value on entry, 0
    timeout,
    real_timeout,
    user_timeout,
    reset_timeout,
    count,
    pc             \* "wait" in epoll_pwait, "update" at update_timeout, "done"

callVars == <<asked, entered, user_timeout>>
vars == <<callVars, clock, time, timeout, real_timeout, reset_timeout, count, pc>>

base == 0

\* The prologue.  reset_timeout says whether UV_METRICS_IDLE_TIME is set.
Init ==
    /\ asked \in -1 .. MaxTimeout
    /\ entered \in 0 .. MaxLag
    /\ clock = entered /\ time = base
    /\ real_timeout = asked
    /\ reset_timeout \in BOOLEAN
    /\ user_timeout = IF reset_timeout THEN asked ELSE 0
    /\ timeout = IF reset_timeout THEN 0 ELSE asked
    /\ count = Count
    /\ pc = "wait"

\* epoll_pwait takes d, and uv__io_poll_check updates the loop's time.
Sleep(d) ==
    /\ pc = "wait"
    /\ clock + d <= MaxTime
    /\ clock' = clock + d
    /\ time' = clock'

\* The call that only measured is over.
ResetTimeout ==
    /\ timeout' = IF reset_timeout THEN user_timeout ELSE timeout
    /\ reset_timeout' = FALSE

\* nfds == 0
Expire ==
    /\ timeout # -1
    /\ Sleep(timeout)
    /\ ResetTimeout
    /\ pc' = IF reset_timeout THEN "update" ELSE "done"
    /\ UNCHANGED <<callVars, real_timeout, count>>

\* EINTR, or events none of which is wanted (nevents == 0).
Interrupt(d) ==
    /\ timeout = -1 \/ d <= timeout
    /\ Sleep(d)
    /\ ResetTimeout
    /\ pc' = "update"
    /\ UNCHANGED <<callVars, real_timeout, count>>

\* --count != 0
More == count > 1

\* Callbacks were called, and the array of events was full: poll for more.
EventsFull(d) ==
    /\ timeout = -1 \/ d <= timeout
    /\ Sleep(d)
    /\ More
    /\ count' = count - 1
    /\ timeout' = 0
    /\ reset_timeout' = FALSE
    /\ UNCHANGED <<callVars, real_timeout, pc>>

\* Callbacks were called, and that is all for this call.
EventsLast(d) ==
    /\ timeout = -1 \/ d <= timeout
    /\ Sleep(d)
    /\ ResetTimeout
    /\ pc' = "done"
    /\ UNCHANGED <<callVars, real_timeout, count>>

Remaining == real_timeout - (time - base)

\* update_timeout:
UpdateTimeout ==
    /\ pc = "update"
    /\ \/ /\ timeout = 0
          /\ pc' = "done"
          /\ UNCHANGED <<timeout, real_timeout>>
       \/ /\ timeout = -1
          /\ pc' = "wait"
          /\ UNCHANGED <<timeout, real_timeout>>
       \/ /\ timeout > 0
          /\ real_timeout' = Remaining
          /\ pc' = IF real_timeout' <= 0 THEN "done" ELSE "wait"
          /\ timeout' = IF real_timeout' <= 0 THEN timeout ELSE real_timeout'
    /\ UNCHANGED <<callVars, clock, time, reset_timeout, count>>

Next ==
    \/ Expire
    \/ \E d \in 0 .. MaxTimeout : Interrupt(d) \/ EventsFull(d) \/ EventsLast(d)
    \/ UpdateTimeout

Spec == Init /\ [][Next]_vars

-----------------------------------------------------------------------------
(* Properties *)

\* docs/src/design.rst: "the loop will block for I/O for the duration calculated
\* in the previous step."  The end of an interrupted wait is not before its time.
FullDuration ==
    [][pc = "update" /\ pc' = "done" /\ timeout > 0 => time - base >= asked]_vars
=============================================================================
