------------------------------- MODULE Signal -------------------------------
(***************************************************************************)
(* unix/signal.c: the signal watchers of all loops of the process.  The    *)
(* signal handler, in whatever thread the kernel picks, takes the lock,    *)
(* walks the tree of watchers and writes a message for each to the pipe of *)
(* its loop; the loop reads its pipe and runs the callbacks.               *)
(***************************************************************************)
EXTENDS Integers, Sequences, SequencesExt

CONSTANTS
    Handles,
    Loops,
    loop,         \* the loop of a handle
    Signals,
    None,
    MaxSignals,   \* bound on delivered signals
    PipeSize,     \* messages that fit into a pipe
    BufSize       \* messages that uv__signal_event reads at once, 32 in the code

ASSUME LoopAssumption == loop \in [Handles -> Loops]
ASSUME NoneAssumption == None \notin Handles \cup Signals
ASSUME SizeAssumption == MaxSignals \in Nat /\ PipeSize \in Nat \ {0} /\ BufSize \in Nat \ {0}

VARIABLES
    state,        \* of a handle: "open", "closing" or "closed"
    signum,       \* what a handle watches, None for 0; the watching handles form the tree
    oneshot,      \* flags & UV_SIGNAL_ONE_SHOT
    caught,       \* caught_signals
    dispatched,   \* dispatched_signals
    sigaction,    \* "default", "handler" or, with SA_RESETHAND, "once"
    delivered,    \* signals sent so far
    entered,      \* runs of the handler, by signal, that wait for the lock
    todo,         \* the rest of the walk of the handler that holds the lock, None if it is free
    written,      \* the handle whose message it has just written, or None
    sig,          \* its signal
    pipe,         \* signal_pipefd of a loop
    buf,          \* messages that uv__signal_event has read
    callback      \* the handle whose callback a loop runs, or None

handleVars == <<state, signum, oneshot>>
countVars == <<caught, dispatched>>
kernelVars == <<sigaction, delivered, entered>>
handlerVars == <<todo, written, sig>>
loopVars == <<pipe, buf, callback>>
vars == <<handleVars, countVars, kernelVars, handlerVars, loopVars>>

Message == [handle : Handles, signum : Signals]

TypeOK ==
    /\ state \in [Handles -> {"open", "closing", "closed"}]
    /\ signum \in [Handles -> Signals \cup {None}]
    /\ oneshot \in [Handles -> BOOLEAN]
    /\ caught \in [Handles -> 0 .. MaxSignals]
    /\ dispatched \in [Handles -> 0 .. MaxSignals]
    /\ sigaction \in [Signals -> {"default", "handler", "once"}]
    /\ delivered \in 0 .. MaxSignals
    /\ entered \in [Signals -> 0 .. MaxSignals]
    /\ todo \in (SUBSET Handles) \cup {None}
    /\ written \in Handles \cup {None}
    /\ sig \in Signals \cup {None}
    /\ \A l \in Loops : pipe[l] \in Seq(Message) /\ Len(pipe[l]) <= PipeSize
    /\ \A l \in Loops : buf[l] \in Seq(Message) /\ Len(buf[l]) <= BufSize
    /\ callback \in [Loops -> Handles \cup {None}]

\* Every handle has been through uv_signal_init.
Init ==
    /\ state = [h \in Handles |-> "open"]
    /\ signum = [h \in Handles |-> None]
    /\ oneshot = [h \in Handles |-> FALSE]
    /\ caught = [h \in Handles |-> 0]
    /\ dispatched = [h \in Handles |-> 0]
    /\ sigaction = [s \in Signals |-> "default"]
    /\ delivered = 0
    /\ entered = [s \in Signals |-> 0]
    /\ todo = None /\ written = None /\ sig = None
    /\ pipe = [l \in Loops |-> <<>>]
    /\ buf = [l \in Loops |-> <<>>]
    /\ callback = [l \in Loops |-> None]

-----------------------------------------------------------------------------
(* The tree of watchers, under the lock *)

Unlocked == todo = None

Watching(s) == {h \in Handles : signum[h] = s}

\* uv__signal_first_handle is a one-shot watcher only if all of them are: the
\* order of the tree puts the others first.
FirstOneShot(hs) == hs # {} /\ \A h \in hs : oneshot[h]


\* Whether uv__signal_start registers the handler.
Register(s, once) == Watching(s) = {} \/ (~ once /\ FirstOneShot(Watching(s)))

\* What uv__signal_stop leaves of the signal's disposition.
StopAction(h) ==
    LET rest == Watching(signum[h]) \ {h}
    IN  IF rest = {} THEN "default"
        ELSE IF FirstOneShot(rest) /\ ~ oneshot[h] THEN "once"
        ELSE sigaction[signum[h]]

\* uv__signal_stop
Stop(h) ==
    IF signum[h] = None
    THEN UNCHANGED <<signum, sigaction>>
    ELSE /\ Unlocked
         /\ sigaction' = [sigaction EXCEPT ![signum[h]] = StopAction(h)]
         /\ signum' = [signum EXCEPT ![h] = None]

-----------------------------------------------------------------------------
(* User code in the thread of the loop: outside uv__signal_event or in a callback *)

UserCode(l) == callback[l] # None \/ buf[l] = <<>>

\* uv_signal_start and uv_signal_start_oneshot on a stopped handle.  A handle that
\* watches another signal is stopped first (uv_signal_stop), and the lock is free
\* in between; if it watches this signal only the callback changes.
Start(h, s, once) ==
    /\ UserCode(loop[h])
    /\ state[h] = "open"
    /\ signum[h] = None
    /\ Unlocked
    /\ sigaction' = IF Register(s, once)
                    THEN [sigaction EXCEPT ![s] = IF once THEN "once" ELSE "handler"]
                    ELSE sigaction
    /\ signum' = [signum EXCEPT ![h] = s]
    /\ oneshot' = [oneshot EXCEPT ![h] = @ \/ once]
    /\ UNCHANGED <<state, countVars, delivered, entered, handlerVars, pipe, buf, callback>>

uv_signal_stop(h) ==
    /\ UserCode(loop[h])
    /\ state[h] = "open"
    /\ signum[h] # None
    /\ Stop(h)
    /\ UNCHANGED <<state, oneshot, countVars, delivered, entered, handlerVars, pipe, buf, callback>>

\* uv_close and uv__signal_close
uv_close(h) ==
    /\ UserCode(loop[h])
    /\ state[h] = "open"
    /\ Stop(h)
    /\ state' = [state EXCEPT ![h] = "closing"]
    /\ UNCHANGED <<oneshot, countVars, delivered, entered, handlerVars, pipe, buf, callback>>

BadTrapped(h) == FALSE

Trapped(h) == caught[h] > dispatched[h]

\* uv__finish_close: as long as messages are trapped in the pipe the handle goes
\* back into the closing queue.
FinishClose(h) ==
    /\ callback[loop[h]] = None /\ buf[loop[h]] = <<>>
    /\ state[h] = "closing"
    /\ ~ Trapped(h)
    /\ state' = [state EXCEPT ![h] = "closed"]
    /\ UNCHANGED <<signum, oneshot, countVars, kernelVars, handlerVars, loopVars>>

-----------------------------------------------------------------------------
(* The kernel and the signal handler *)

\* A signal arrives and finds the handler installed; SA_RESETHAND removes it.
Deliver(s) ==
    /\ delivered < MaxSignals
    /\ sigaction[s] # "default"
    /\ delivered' = delivered + 1
    /\ entered' = [entered EXCEPT ![s] = @ + 1]
    /\ sigaction' = [sigaction EXCEPT ![s] = IF @ = "once" THEN "default" ELSE @]
    /\ UNCHANGED <<handleVars, countVars, handlerVars, loopVars>>

HandlerLock(s) ==
    /\ entered[s] > 0
    /\ Unlocked
    /\ entered' = [entered EXCEPT ![s] = @ - 1]
    /\ todo' = Watching(s)
    /\ sig' = s
    /\ UNCHANGED <<handleVars, countVars, sigaction, delivered, written, loopVars>>

HandlerWrite(h) ==
    /\ ~ Unlocked /\ written = None
    /\ h \in todo
    /\ Len(pipe[loop[h]]) < PipeSize
    /\ pipe' = [pipe EXCEPT ![loop[h]] = Append(@, [handle |-> h, signum |-> sig])]
    /\ todo' = todo \ {h}
    /\ written' = h
    /\ UNCHANGED <<handleVars, countVars, kernelVars, sig, buf, callback>>

BadCountDropped(h) == [caught EXCEPT ![h] = @ + 1]

CountDropped(h) == caught

\* EAGAIN: "the user is out of luck".
HandlerDrop(h) ==
    /\ ~ Unlocked /\ written = None
    /\ h \in todo
    /\ Len(pipe[loop[h]]) = PipeSize
    /\ todo' = todo \ {h}
    /\ caught' = CountDropped(h)
    /\ UNCHANGED <<handleVars, dispatched, kernelVars, written, sig, loopVars>>

HandlerCount ==
    /\ written # None
    /\ caught' = [caught EXCEPT ![written] = @ + 1]
    /\ written' = None
    /\ UNCHANGED <<handleVars, dispatched, kernelVars, todo, sig, loopVars>>

HandlerUnlock ==
    /\ todo = {} /\ written = None
    /\ todo' = None
    /\ sig' = None
    /\ UNCHANGED <<handleVars, countVars, kernelVars, written, loopVars>>

-----------------------------------------------------------------------------
(* uv__signal_event *)

ReadCount(l) == IF Len(pipe[l]) < BufSize THEN Len(pipe[l]) ELSE BufSize

Read(l) ==
    LET n == ReadCount(l)
    IN  /\ callback[l] = None /\ buf[l] = <<>>
        /\ pipe[l] # <<>>
        /\ buf' = [buf EXCEPT ![l] = SubSeq(pipe[l], 1, n)]
        /\ pipe' = [pipe EXCEPT ![l] = SubSeq(pipe[l], n + 1, Len(pipe[l]))]
        /\ UNCHANGED <<handleVars, countVars, kernelVars, handlerVars, callback>>

\* A message for the signal that the handle watches now.
Callback(l) ==
    LET msg == Head(buf[l])
    IN  /\ callback[l] = None /\ buf[l] # <<>>
        /\ msg.signum = signum[msg.handle]
        /\ callback' = [callback EXCEPT ![l] = msg.handle]
        /\ UNCHANGED <<handleVars, countVars, kernelVars, handlerVars, pipe, buf>>

BadDispatched(h) == IF signum[h] = None THEN dispatched ELSE [dispatched EXCEPT ![h] = @ + 1]

BadDispatchedTwice(h) == [dispatched EXCEPT ![h] = IF signum[h] = None THEN @ + 1 ELSE @ + 2]

Dispatched(h) == [dispatched EXCEPT ![h] = @ + 1]

\* The callback has returned, or the message was not for what is watched now.
MessageDone(l) ==
    LET msg == Head(buf[l])
        h == msg.handle
    IN  /\ buf[l] # <<>>
        /\ callback[l] # None \/ msg.signum # signum[h]
        /\ dispatched' = Dispatched(h)
        /\ IF oneshot[h] THEN Stop(h) ELSE UNCHANGED <<signum, sigaction>>
        /\ buf' = [buf EXCEPT ![l] = Tail(@)]
        /\ callback' = [callback EXCEPT ![l] = None]
        /\ UNCHANGED <<state, oneshot, caught, delivered, entered, handlerVars, pipe>>

-----------------------------------------------------------------------------
HandlerStep ==
    \/ \E s \in Signals : HandlerLock(s)
    \/ \E h \in Handles : HandlerWrite(h) \/ HandlerDrop(h)
    \/ HandlerCount \/ HandlerUnlock

LoopStep(l) == Read(l) \/ Callback(l) \/ MessageDone(l)

Next ==
    \/ \E h \in Handles, s \in Signals, once \in BOOLEAN : Start(h, s, once)
    \/ \E h \in Handles : uv_signal_stop(h) \/ uv_close(h) \/ FinishClose(h)
    \/ \E s \in Signals : Deliver(s)
    \/ HandlerStep
    \/ \E l \in Loops : LoopStep(l)

Spec == Init /\ [][Next]_vars

\* Handlers and loops keep running and callbacks return.  A loop gets the lock in
\* the end (the pipe's readers queue), and comes to its closing handles in every
\* iteration, whatever arrives.
FairSpec ==
    /\ Spec
    /\ WF_vars(HandlerStep)
    /\ \A l \in Loops : SF_vars(LoopStep(l))
    /\ \A h \in Handles : SF_vars(FinishClose(h))

-----------------------------------------------------------------------------
(* Properties *)

Messages(h, msgs) == Len(SelectSeq(msgs, LAMBDA m : m.handle = h))

\* caught_signals and dispatched_signals differ by the messages that are under way,
\* the one that the handler has written and not counted aside, also when a full
\* pipe drops messages and when the handle has been stopped or restarted.
CountsExact ==
    \A h \in Handles :
        caught[h] + (IF written = h THEN 1 ELSE 0)
            = dispatched[h] + Messages(h, pipe[loop[h]]) + Messages(h, buf[loop[h]])

\* When the close callback has run, and the handle may be freed, no pipe, no buffer
\* and no running handler refers to the handle.
NothingTrapped ==
    \A h \in Handles :
        state[h] = "closed" =>
            /\ Messages(h, pipe[loop[h]]) = 0 /\ Messages(h, buf[loop[h]]) = 0
            /\ written # h /\ (Unlocked \/ h \notin todo)


\* A handle that is closed while signals for it are under way gets its close callback.
CloseCompletes == \A h \in Handles : state[h] = "closing" ~> state[h] = "closed"
=============================================================================
