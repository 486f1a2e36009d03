------------------------------- MODULE IoPoll -------------------------------
(***************************************************************************)
(* The I/O watchers of core.c and uv__io_poll on epoll in linux.c.  The    *)
(* handles that own the watchers run as user code, between polls and in    *)
(* the callbacks of a batch of events, where they start, stop and close    *)
(* watchers and where descriptors are reused.                              *)
(***************************************************************************)
EXTENDS UVQueue, FiniteSets

CONSTANTS
    Watchers,   \* uv__io_t structures
    Fds,        \* file descriptors
    None,
    Events,     \* POLLIN, POLLOUT: what a watcher may ask for
    MaxOpens    \* bound on opened descriptors

ASSUME NoneAssumption == None \notin Watchers \cup Fds
ASSUME FiniteAssumption == IsFiniteSet(Watchers) /\ IsFiniteSet(Fds)
ASSUME OpensAssumption == MaxOpens \in Nat

POLLHUP == "POLLHUP"

VARIABLES
    fd,             \* of a watcher, None for -1
    pevents,
    events,
    watchers,       \* loop->watchers
    nfds,           \* loop->nfds
    watcher_queue,
    file,           \* kernel: what a descriptor refers to, 0 if it is closed
    epoll,          \* kernel: the mask a descriptor is registered with, None if it is not
    opens,
    batch,          \* the events of epoll_pwait that are yet to be handled
    pc              \* where the loop thread is

watcherVars == <<fd, pevents, events>>
loopVars == <<watchers, nfds, watcher_queue>>
kernelVars == <<file, epoll, opens>>
vars == <<watcherVars, loopVars, kernelVars, batch, pc>>

\* file is what the kernel saw the event on.
Report == [fd : Fds \cup {None}, mask : SUBSET (Events \cup {POLLHUP}), file : 1 .. MaxOpens]

TypeOK ==
    /\ fd \in [Watchers -> Fds \cup {None}]
    /\ pevents \in [Watchers -> SUBSET Events]
    /\ events \in [Watchers -> SUBSET Events]
    /\ watchers \in [Fds -> Watchers \cup {None}]
    /\ nfds \in 0 .. Cardinality(Fds)
    /\ watcher_queue \in Seq(Watchers)
    /\ file \in [Fds -> 0 .. MaxOpens]
    /\ epoll \in [Fds -> SUBSET Events \cup {None}]
    /\ opens \in 0 .. MaxOpens
    /\ batch \in Seq(Report)
    /\ pc \in {"user", "register", "wait", "poll", "callback"}

Init ==
    /\ fd = [w \in Watchers |-> None]
    /\ pevents = [w \in Watchers |-> {}]
    /\ events = [w \in Watchers |-> {}]
    /\ watchers = [f \in Fds |-> None]
    /\ nfds = 0
    /\ watcher_queue = <<>>
    /\ file = [f \in Fds |-> 0]
    /\ epoll = [f \in Fds |-> None]
    /\ opens = 0
    /\ batch = <<>>
    /\ pc = "user"

-----------------------------------------------------------------------------
(* User code: the handles *)

UserCode == pc \in {"user", "callback"}

\* A new descriptor (socket, accept4, open) and uv__io_init.
Open(w, f) ==
    /\ UserCode
    /\ fd[w] = None
    /\ file[f] = 0
    /\ opens < MaxOpens
    /\ opens' = opens + 1
    /\ file' = [file EXCEPT ![f] = opens + 1]
    /\ fd' = [fd EXCEPT ![w] = f]
    /\ pevents' = [pevents EXCEPT ![w] = {}]
    /\ events' = [events EXCEPT ![w] = {}]
    /\ UNCHANGED <<loopVars, epoll, batch, pc>>

BadEnqueue(w) == QueueInsertTail(watcher_queue, w)

\* Queues the watcher, once, for the next uv__io_poll.
Enqueue(w) ==
    IF InQueue(watcher_queue, w) THEN watcher_queue ELSE QueueInsertTail(watcher_queue, w)

\* Nothing to tell the kernel if it already has the mask.
uv__io_start(w, e) ==
    LET mask == pevents[w] \cup e
        known == events[w] = mask
        free == watchers[fd[w]] = None
    IN  /\ UserCode
        /\ fd[w] # None
        /\ pevents' = [pevents EXCEPT ![w] = mask]
        /\ watcher_queue' = IF known THEN watcher_queue ELSE Enqueue(w)
        /\ watchers' = IF known \/ ~ free THEN watchers ELSE [watchers EXCEPT ![fd[w]] = w]
        /\ nfds' = IF known \/ ~ free THEN nfds ELSE nfds + 1
        /\ UNCHANGED <<fd, events, kernelVars, batch, pc>>


\* w->events = 0: the next start says EPOLL_CTL_ADD.
Forget(w) == events' = [events EXCEPT ![w] = {}]

BadVacate(w) ==
    /\ watchers' = [watchers EXCEPT ![fd[w]] = None]
    /\ nfds' = nfds - 1

Vacate(w) ==
    IF watchers[fd[w]] = w
    THEN watchers' = [watchers EXCEPT ![fd[w]] = None] /\ nfds' = nfds - 1
    ELSE UNCHANGED <<watchers, nfds>>

\* The kernel is not told that the mask is empty.
StopEvents(w, e) ==
    LET mask == pevents[w] \ e
    IN  /\ pevents' = [pevents EXCEPT ![w] = mask]
        /\ \/ /\ mask = {}
              /\ watcher_queue' = QueueRemove(watcher_queue, w)
              /\ Forget(w)
              /\ Vacate(w)
           \/ /\ mask # {}
              /\ watcher_queue' = Enqueue(w)
              /\ UNCHANGED <<events, watchers, nfds>>

uv__io_stop(w, e) ==
    /\ UserCode
    /\ fd[w] # None
    /\ StopEvents(w, e)
    /\ UNCHANGED <<fd, kernelVars, batch, pc>>

BadInvalidated(f) == batch

Invalidated(f) == [i \in DOMAIN batch |-> IF batch[i].fd = f THEN [batch[i] EXCEPT !.fd = None] ELSE batch[i]]

\* uv__io_close, with uv__platform_invalidate_fd, and then the handle closes
\* the descriptor, as uv__stream_close and uv__udp_close do.
uv__io_close(w) ==
    /\ UserCode
    /\ fd[w] # None
    /\ StopEvents(w, Events)
    /\ batch' = Invalidated(fd[w])
    /\ epoll' = [epoll EXCEPT ![fd[w]] = None]
    /\ file' = [file EXCEPT ![fd[w]] = 0]
    /\ fd' = [fd EXCEPT ![w] = None]
    /\ UNCHANGED <<opens, pc>>

\* uv__poll_stop, after which the user may close the descriptor.
uv__poll_stop(w) ==
    /\ UserCode
    /\ fd[w] # None
    /\ StopEvents(w, Events)
    /\ batch' = Invalidated(fd[w])
    /\ epoll' = [epoll EXCEPT ![fd[w]] = None]
    /\ UNCHANGED <<fd, file, opens, pc>>

\* uv_poll_init on a descriptor that has just been opened: uv__io_check_fd
\* registers it and removes it again.
uv__io_check_fd(f) ==
    /\ UserCode
    /\ file[f] # 0
    /\ watchers[f] = None
    /\ epoll' = [epoll EXCEPT ![f] = None]
    /\ UNCHANGED <<watcherVars, loopVars, file, opens, batch, pc>>

-----------------------------------------------------------------------------
(* uv__io_poll *)

PollStart ==
    /\ pc = "user"
    /\ pc' = "register"
    /\ UNCHANGED <<watcherVars, loopVars, kernelVars, batch>>

\* The first loop registers the watchers of watcher_queue, with EPOLL_CTL_ADD
\* or, if that fails with EEXIST or w->events is set, EPOLL_CTL_MOD.
Register ==
    LET w == QueueHead(watcher_queue)
    IN  /\ pc = "register"
        /\ ~ QueueEmpty(watcher_queue)
        /\ watcher_queue' = QueuePop(watcher_queue)
        /\ events' = [events EXCEPT ![w] = pevents[w]]
        /\ epoll' = [epoll EXCEPT ![fd[w]] = pevents[w]]
        /\ UNCHANGED <<fd, pevents, watchers, nfds, file, opens, batch, pc>>

RegisterEnd ==
    /\ pc = "register"
    /\ QueueEmpty(watcher_queue)
    /\ pc' = "wait"
    /\ UNCHANGED <<watcherVars, loopVars, kernelVars, batch>>

Registered == {f \in Fds : epoll[f] # None}

\* epoll_pwait reports the descriptors of fs, in any order, each with some of
\* the events it is registered for; POLLHUP always counts.
Wait(fs, masks) ==
    /\ pc = "wait"
    /\ nfds > 0
    /\ IsInjective(fs) /\ Range(fs) \subseteq Registered
    /\ \A i \in DOMAIN fs : masks[i] # {} /\ masks[i] \subseteq epoll[fs[i]] \cup {POLLHUP}
    /\ batch' = [i \in DOMAIN fs |-> [fd |-> fs[i], mask |-> masks[i], file |-> file[fs[i]]]]
    /\ pc' = "poll"
    /\ UNCHANGED <<watcherVars, loopVars, kernelVars>>

BadWanted(w) == TRUE

\* Events the watcher no longer asks for are dropped.
Wanted(w) == Head(batch).mask \cap (pevents[w] \cup {POLLHUP}) # {}

Skip ==
    LET f == Head(batch).fd
    IN  /\ pc = "poll"
        /\ batch # <<>>
        /\ IF f = None THEN UNCHANGED epoll
           ELSE IF watchers[f] = None THEN epoll' = [epoll EXCEPT ![f] = None]  \* EPOLL_CTL_DEL
           ELSE ~ Wanted(watchers[f]) /\ UNCHANGED epoll
        /\ batch' = Tail(batch)
        /\ UNCHANGED <<watcherVars, loopVars, file, opens, pc>>

\* uv__io_cb
Callback ==
    LET f == Head(batch).fd
    IN  /\ pc = "poll"
        /\ batch # <<>>
        /\ f # None /\ watchers[f] # None /\ Wanted(watchers[f])
        /\ batch' = Tail(batch)
        /\ pc' = "callback"
        /\ UNCHANGED <<watcherVars, loopVars, kernelVars>>

CallbackReturn ==
    /\ pc = "callback"
    /\ pc' = "poll"
    /\ UNCHANGED <<watcherVars, loopVars, kernelVars, batch>>

\* With a full array of events, and when no event was wanted, uv__io_poll waits
\* again, without looking at watcher_queue.
BatchEnd ==
    /\ pc = "poll"
    /\ batch = <<>>
    /\ pc' \in {"wait", "user"}
    /\ UNCHANGED <<watcherVars, loopVars, kernelVars, batch>>

\* Nothing to wait for, or the time is up (module PollTimeout).
PollReturn ==
    /\ pc = "wait"
    /\ pc' = "user"
    /\ UNCHANGED <<watcherVars, loopVars, kernelVars, batch>>

-----------------------------------------------------------------------------
SomeEvents == SUBSET Events \ {{}}

UserStep(w) ==
    \/ \E f \in Fds : Open(w, f)
    \/ \E e \in SomeEvents : uv__io_start(w, e) \/ uv__io_stop(w, e)
    \/ uv__io_close(w) \/ uv__poll_stop(w)

Next ==
    \/ \E w \in Watchers : UserStep(w)
    \/ \E f \in Fds : uv__io_check_fd(f)
    \/ PollStart \/ Register \/ RegisterEnd
    \/ \E n \in 1 .. Cardinality(Fds) :
           \E fs \in [1 .. n -> Fds], masks \in [1 .. n -> SUBSET (Events \cup {POLLHUP})] :
               Wait(fs, masks)
    \/ Skip \/ Callback \/ CallbackReturn \/ BatchEnd \/ PollReturn

Spec == Init /\ [][Next]_vars

-----------------------------------------------------------------------------
(* Properties *)


\* An event reaches a watcher only if it happened on the file that the watcher
\* has now, although callbacks close descriptors and the kernel reuses them while
\* the batch is handled.
NoStaleEvent ==
    pc = "poll" /\ batch # <<>> /\ Head(batch).fd # None /\ watchers[Head(batch).fd] # None
        => Head(batch).file = file[Head(batch).fd]

\* A watcher is called only for events that it still asks for when its turn
\* comes: not if a callback of the same batch has stopped it.
StoppedIsQuiet ==
    [][pc = "poll" /\ pc' = "callback"
           => \E w \in Watchers :
                  /\ fd[w] = Head(batch).fd
                  /\ pevents[w] # {}
                  /\ Head(batch).mask \cap (pevents[w] \cup {POLLHUP}) # {}]_vars
=============================================================================
