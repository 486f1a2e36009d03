-------------------------- MODULE ThreadPoolPlaces --------------------------
(***************************************************************************)
(* Proof that the thread pool neither loses nor duplicates a request, that *)
(* no worker runs a cancelled one and that the reported status is true.    *)
(***************************************************************************)
EXTENDS ThreadPoolProofs

-----------------------------------------------------------------------------
(* Where requests are.  The argument for OnePlace: every request r has one
   place <<k, o>>, a kind of place and the worker or loop it belongs to, and is
   in no other. *)

Kinds == {"user", "wq", "slow", "worker", "loop_wq", "local_wq", "cancel"}

Owners == Workers \cup Loops \cup {None}

\* uv__work_cancel of loop l has unlinked r and not yet linked it again.
Cancels(l, r) == loop_pc[l] = "cancel_publish" /\ creq[l] = r

At(r, k, o) ==
    /\ InQueue(wq, r) <=> k = "wq"
    /\ InQueue(slow_io_pending_wq, r) <=> k = "slow"
    /\ active[r] <=> k # "user"
    /\ \A w \in Workers : Holds(w, r) <=> k = "worker" /\ o = w
    /\ \A l \in Loops : /\ InQueue(loop_wq[l], r) <=> k = "loop_wq" /\ o = l
                        /\ InQueue(local_wq[l], r) <=> k = "local_wq" /\ o = l
                        /\ Cancels(l, r) <=> k = "cancel" /\ o = l

\* What is known of a request in each place.
Fits(r, k, o) ==
    /\ k \in {"wq", "slow"} => work[r] = "fn" /\ ~ executed[r]
    /\ k = "worker" => o \in Workers /\ work[r] = "fn" /\ (executed[r] <=> pc[o] # "work")
    /\ k \in {"loop_wq", "local_wq"} => work[r] = (IF executed[r] THEN "null" ELSE "cancelled")
    /\ k = "cancel" => ~ executed[r]
    /\ k \in {"loop_wq", "local_wq", "cancel"} => o = w_loop[r]

Located(r) == \E k \in Kinds, o \in Owners : At(r, k, o) /\ Fits(r, k, o)

LinkedOnce ==
    /\ IsInjective(wq) /\ IsInjective(slow_io_pending_wq)
    /\ \A l \in Loops : IsInjective(loop_wq[l]) /\ IsInjective(local_wq[l])

\* uv__work_done runs only when the list of the previous call is walked, and
\* the exit message is queued once.
DonePhase ==
    /\ \A l \in Loops : loop_pc[l] = "work_done" => local_wq[l] = <<>>
    /\ shutdown = "no" => ~ InQueue(wq, Exit)

\* A request whose cancellation holds the mutex is active.
CancelsActive ==
    \A l \in Loops : loop_pc[l] = "cancel_locked" => w_loop[creq[l]] = l /\ active[creq[l]]

Lists == LinkedOnce /\ DonePhase /\ SlowScheduled

Owned == Lists /\ CancelsActive /\ \A r \in Reqs : Located(r)

\* The types that the steps below need.
Typed ==
    /\ wq \in Seq(Items) /\ slow_io_pending_wq \in Seq(Reqs)
    /\ IsInjective(wq) /\ IsInjective(slow_io_pending_wq)
    /\ pc \in [Workers -> WorkerPCs] /\ cur \in [Workers -> Reqs \cup {None}]
    /\ loop_wq \in [Loops -> Seq(Reqs)] /\ local_wq \in [Loops -> Seq(Reqs)]
    /\ loop_pc \in [Loops -> {"user", "work_done", "cancel_locked", "cancel_publish"}]
    /\ creq \in [Loops -> Reqs \cup {None}]
    /\ work \in [Reqs -> {"fn", "null", "cancelled"}] /\ w_loop \in [Reqs -> Loops]
    /\ active \in [Reqs -> BOOLEAN] /\ executed \in [Reqs -> BOOLEAN]
    /\ \A l \in Loops : IsInjective(loop_wq[l]) /\ IsInjective(local_wq[l])
    /\ RunSlow \in Items /\ Exit \in Items

LEMMA OwnedTyped == Counted /\ Owned => Typed
  BY DEF Counted, TypeOK, Owned, Lists, LinkedOnce, Items, Typed

-----------------------------------------------------------------------------
(* A step that leaves request r where it is, as each part of the state sees
   it. *)

SameInPool(r) ==
    /\ InQueue(wq, r)' <=> InQueue(wq, r)
    /\ InQueue(slow_io_pending_wq, r)' <=> InQueue(slow_io_pending_wq, r)

SameInWorkers(r) ==
    \A w \in Workers : /\ Holds(w, r)' <=> Holds(w, r)
                       /\ Holds(w, r) => (pc'[w] = "work" <=> pc[w] = "work")

SameInLoops(r) ==
    \A l \in Loops : /\ InQueue(loop_wq[l], r)' <=> InQueue(loop_wq[l], r)
                     /\ InQueue(local_wq[l], r)' <=> InQueue(local_wq[l], r)

SameInCancels(r) == \A l \in Loops : Cancels(l, r)' <=> Cancels(l, r)

SameFields(r) ==
    /\ work'[r] = work[r] /\ w_loop'[r] = w_loop[r]
    /\ active'[r] = active[r] /\ executed'[r] = executed[r]

Same(r) ==
    SameInPool(r) /\ SameInWorkers(r) /\ SameInLoops(r) /\ SameInCancels(r) /\ SameFields(r)

LEMMA SameLocated ==
  ASSUME NEW r \in Reqs, Located(r), Same(r)
  PROVE  Located(r)'
<1>1. PICK k \in Kinds, o \in Owners : At(r, k, o) /\ Fits(r, k, o)
  BY DEF Located
<1>2. At(r, k, o)'
  <2>1. (InQueue(wq, r) <=> k = "wq")' /\ (InQueue(slow_io_pending_wq, r) <=> k = "slow")'
    BY <1>1 DEF At, Same, SameInPool
  <2>2. (active[r] <=> k # "user")'
    BY <1>1 DEF At, Same, SameFields
  <2>3. \A w \in Workers : (Holds(w, r) <=> k = "worker" /\ o = w)'
    BY <1>1 DEF At, Same, SameInWorkers
  <2>4. \A l \in Loops : /\ (InQueue(loop_wq[l], r) <=> k = "loop_wq" /\ o = l)'
                         /\ (InQueue(local_wq[l], r) <=> k = "local_wq" /\ o = l)'
    BY <1>1 DEF At, Same, SameInLoops
  <2>5. \A l \in Loops : (Cancels(l, r) <=> k = "cancel" /\ o = l)'
    BY <1>1 DEF At, Same, SameInCancels
  <2> QED BY <2>1, <2>2, <2>3, <2>4, <2>5 DEF At
<1>3. k = "worker" => o \in Workers /\ Holds(o, r) /\ (pc'[o] = "work" <=> pc[o] = "work")
  BY <1>1 DEF At, Fits, Same, SameInWorkers
<1>4. Fits(r, k, o)'
  BY <1>1, <1>3 DEF Fits, Same, SameFields
<1> QED BY <1>2, <1>4 DEF Located

\* No worker begins or ends to hold a request, and no work function ends.
WorkersKeep ==
    \A w \in Workers : \/ pc'[w] = pc[w] /\ cur'[w] = cur[w]
                       \/ pc[w] \notin HolderPCs /\ pc'[w] \notin HolderPCs
                       \/ pc[w] = "publish" /\ pc'[w] = "publishing" /\ cur'[w] = cur[w]

LEMMA WorkersKeepSame == ASSUME NEW r, WorkersKeep PROVE SameInWorkers(r)
  BY DEF WorkersKeep, SameInWorkers, Holds, HolderPCs

\* What a step that leaves the lists and the requests alone does.
Quiet ==
    /\ UNCHANGED <<wq, slow_io_pending_wq, loop_wq, local_wq, reqVars>>
    /\ WorkersKeep
    /\ \A l \in Loops : \/ loop_pc'[l] = loop_pc[l] /\ creq'[l] = creq[l]
                        \/ loop_pc[l] # "cancel_publish" /\ loop_pc'[l] # "cancel_publish"
    /\ CancelsActive'
    /\ \A l \in Loops : loop_pc'[l] = "work_done" => local_wq[l] = <<>>
    /\ shutdown' = "no" => shutdown = "no"

LEMMA QuietOwned == Counted /\ Owned /\ Quiet => Owned'
<1> SUFFICES ASSUME Counted, Owned, Quiet PROVE Owned'
  OBVIOUS
<1>1. ASSUME NEW r \in Reqs PROVE Located(r)'
  <2>1. SameInPool(r) /\ SameInLoops(r) /\ SameFields(r)
    BY DEF Quiet, SameInPool, SameInLoops, SameFields, reqVars
  <2>2. SameInCancels(r)
    BY DEF Quiet, SameInCancels, Cancels
  <2>3. SameInWorkers(r)
    BY WorkersKeepSame DEF Quiet
  <2> QED BY <2>1, <2>2, <2>3, SameLocated DEF Owned, Same
<1>2. Lists'
  BY DEF Owned, Lists, LinkedOnce, DonePhase, SlowScheduled, Quiet
<1> QED BY <1>1, <1>2 DEF Owned, Quiet

\* A worker that takes RunSlow off the queue and puts it back changes only the order.
LEMMA Requeue ==
  ASSUME NEW S, NEW q \in Seq(S), NEW e \in S, q # <<>>, IsInjective(q), QueueHead(q) = e
  PROVE  /\ Range(QueueInsertTail(QueuePop(q), e)) = Range(q)
         /\ IsInjective(QueueInsertTail(QueuePop(q), e))
<1>1. /\ QueuePop(q) \in Seq(S) /\ IsInjective(QueuePop(q))
      /\ Range(QueuePop(q)) = Range(q) \ {e} /\ e \in Range(q)
  BY Pop
<1>2. e \notin Range(QueuePop(q))
  BY <1>1
<1>3. Range(QueueInsertTail(QueuePop(q), e)) = Range(QueuePop(q)) \cup {e}
  <2>1. QueuePop(q) \in Seq(S)
    BY <1>1
  <2> QED BY <2>1, InsertTail
<1>4. IsInjective(QueueInsertTail(QueuePop(q), e))
  BY <1>1, <1>2, InsertTail
<1> QED BY <1>1, <1>3, <1>4

\* post links the request into one of the two lists and queues the message for
\* a slow one.
LEMMA Posted ==
  ASSUME wq \in Seq(Items), slow_io_pending_wq \in Seq(Reqs),
         IsInjective(wq), IsInjective(slow_io_pending_wq),
         NEW r \in Reqs, r \notin Range(wq), r \notin Range(slow_io_pending_wq),
         Post(r) \/ PostSlow(r)
  PROVE  /\ \/ /\ Range(wq') = Range(wq) \cup {r}
               /\ slow_io_pending_wq' = slow_io_pending_wq
            \/ /\ Range(slow_io_pending_wq') = Range(slow_io_pending_wq) \cup {r}
               /\ Range(wq') = Range(wq) \cup {RunSlow}
         /\ IsInjective(wq') /\ IsInjective(slow_io_pending_wq')
<1>1. r \in Items /\ RunSlow \in Items
  BY DEF Items
<1>2. ASSUME NEW e \in Items, e \notin Range(wq)
      PROVE  /\ Range(QueueInsertTail(wq, e)) = Range(wq) \cup {e}
             /\ IsInjective(QueueInsertTail(wq, e))
  BY <1>2, InsertTail
<1>4. CASE Post(r)
  <2>1. wq' = QueueInsertTail(wq, r) /\ slow_io_pending_wq' = slow_io_pending_wq
    BY <1>4 DEF Post
  <2>2. Range(wq') = Range(wq) \cup {r} /\ IsInjective(wq')
    BY <1>1, <1>2, <2>1
  <2> QED BY <2>1, <2>2
<1>3. CASE PostSlow(r)
  <2>1. slow_io_pending_wq' = QueueInsertTail(slow_io_pending_wq, r)
    BY <1>3 DEF PostSlow
  <2>2. /\ Range(slow_io_pending_wq') = Range(slow_io_pending_wq) \cup {r}
        /\ IsInjective(slow_io_pending_wq')
    BY <2>1, InsertTail
  <2>3. CASE InQueue(wq, RunSlow)
    <3>1. wq' = wq /\ RunSlow \in Range(wq)
      BY <1>3, <2>3 DEF PostSlow, InQueue
    <3> QED BY <2>2, <3>1
  <2>4. CASE ~ InQueue(wq, RunSlow)
    <3>1. wq' = QueueInsertTail(wq, RunSlow) /\ RunSlow \notin Range(wq)
      BY <1>3, <2>4 DEF PostSlow, InQueue
    <3>2. Range(wq') = Range(wq) \cup {RunSlow} /\ IsInjective(wq')
      BY <1>1, <1>2, <3>1
    <3> QED BY <2>2, <3>2
  <2> QED BY <2>3, <2>4
<1> QED BY <1>3, <1>4

LEMMA OwnedInit == Init => Owned
<1> SUFFICES ASSUME Init PROVE Owned
  OBVIOUS
<1>1. \A e : ~ InQueue(<<>>, e)
  BY DEF InQueue, Range
<1>2. IsInjective(<<>>)
  BY DEF IsInjective
<1>3. ASSUME NEW r \in Reqs PROVE Located(r)
  <2>1. At(r, "user", None)
    BY <1>1 DEF Init, At, Holds, Cancels
  <2> QED BY <2>1 DEF Located, Fits, Kinds, Owners
<1>4. Lists /\ CancelsActive
  BY <1>1, <1>2 DEF Init, Lists, LinkedOnce, DonePhase, SlowScheduled, QueueEmpty, CancelsActive
<1> QED BY <1>3, <1>4 DEF Owned

-----------------------------------------------------------------------------
(* The steps that move no request. *)

LEMMA QuietWorkerLock ==
  ASSUME Counted, Owned, NEW w \in Workers, WorkerLock(w)
  PROVE  Quiet
<1> USE DEF poolVars, workerVars, loopVars, envVars
<1>1. Typed /\ CancelsActive
  BY OwnedTyped DEF Owned
<1>2. WorkersKeep
  BY <1>1 DEF WorkerLock, Typed, WorkersKeep, HolderPCs
<1>3. CancelsActive'
  BY <1>1 DEF WorkerLock, Typed, CancelsActive, reqVars
<1> QED BY <1>1, <1>2, <1>3 DEF WorkerLock, Typed, Quiet, UserCode, QueueEmpty, Owned, Lists, DonePhase

LEMMA QuietWorkerWake ==
  ASSUME Counted, Owned, NEW w \in Workers, WorkerWake(w)
  PROVE  Quiet
<1> USE DEF poolVars, workerVars, loopVars, envVars
<1>1. Typed /\ CancelsActive
  BY OwnedTyped DEF Owned
<1>2. WorkersKeep
  BY <1>1 DEF WorkerWake, Typed, WorkersKeep, HolderPCs
<1>3. CancelsActive'
  BY <1>1 DEF WorkerWake, Typed, CancelsActive, reqVars
<1> QED BY <1>1, <1>2, <1>3 DEF WorkerWake, Typed, Quiet, UserCode, QueueEmpty, Owned, Lists, DonePhase

LEMMA QuietWorkerWait ==
  ASSUME Counted, Owned, NEW w \in Workers, WorkerWait(w)
  PROVE  Quiet
<1> USE DEF poolVars, workerVars, loopVars, envVars
<1>1. Typed /\ CancelsActive
  BY OwnedTyped DEF Owned
<1>2. WorkersKeep
  BY <1>1 DEF WorkerWait, Typed, WorkersKeep, HolderPCs
<1>3. CancelsActive'
  BY <1>1 DEF WorkerWait, Typed, CancelsActive, reqVars
<1> QED BY <1>1, <1>2, <1>3 DEF WorkerWait, Typed, Quiet, UserCode, QueueEmpty, Owned, Lists, DonePhase

LEMMA QuietSpuriousWakeup ==
  ASSUME Counted, Owned, NEW w \in Workers, SpuriousWakeup(w)
  PROVE  Quiet
<1> USE DEF poolVars, workerVars, loopVars, envVars
<1>1. Typed /\ CancelsActive
  BY OwnedTyped DEF Owned
<1>2. WorkersKeep
  BY <1>1 DEF SpuriousWakeup, Typed, WorkersKeep, HolderPCs
<1>3. CancelsActive'
  BY <1>1 DEF SpuriousWakeup, Typed, CancelsActive, reqVars
<1> QED BY <1>1, <1>2, <1>3 DEF SpuriousWakeup, Typed, Quiet, UserCode, QueueEmpty, Owned, Lists, DonePhase

LEMMA QuietWorkerExit ==
  ASSUME Counted, Owned, NEW w \in Workers, WorkerExit(w)
  PROVE  Quiet
<1> USE DEF poolVars, workerVars, loopVars, envVars
<1>1. Typed /\ CancelsActive
  BY OwnedTyped DEF Owned
<1>0. \A v \in Workers : \/ v = w /\ pc'[v] = "exited"
                         \/ v # w /\ pc'[v] = pc[v]
                         \/ v # w /\ pc[v] = "wait" /\ pc'[v] = "woken"
  <2>1. [pc EXCEPT ![w] = "exited"] \in [Workers -> WorkerPCs]
    BY <1>1 DEF Typed, WorkerPCs
  <2>2. pc' \in CondSignal([pc EXCEPT ![w] = "exited"]) \cup SignalIfIdle([pc EXCEPT ![w] = "exited"])
    BY DEF WorkerExit
  <2>3. \A v \in Workers : \/ pc'[v] = [pc EXCEPT ![w] = "exited"][v]
                           \/ [pc EXCEPT ![w] = "exited"][v] = "wait" /\ pc'[v] = "woken"
    BY <2>1, <2>2, SignalWakes
  <2> QED BY <1>1, <2>3 DEF Typed
<1>2. WorkersKeep
  BY <1>1, <1>0 DEF WorkerExit, Typed, WorkersKeep, HolderPCs
<1>3. CancelsActive'
  BY <1>1 DEF WorkerExit, Typed, CancelsActive, reqVars
<1> QED BY <1>1, <1>2, <1>3 DEF WorkerExit, Typed, Quiet, UserCode, QueueEmpty, Owned, Lists, DonePhase

LEMMA QuietWorkerPublishLock ==
  ASSUME Counted, Owned, NEW w \in Workers, WorkerPublishLock(w)
  PROVE  Quiet
<1> USE DEF poolVars, workerVars, loopVars, envVars
<1>1. Typed /\ CancelsActive
  BY OwnedTyped DEF Owned
<1>2. WorkersKeep
  BY <1>1 DEF WorkerPublishLock, Typed, WorkersKeep, HolderPCs
<1>3. CancelsActive'
  BY <1>1 DEF WorkerPublishLock, Typed, CancelsActive, reqVars
<1> QED BY <1>1, <1>2, <1>3 DEF WorkerPublishLock, Typed, Quiet, UserCode, QueueEmpty, Owned, Lists, DonePhase

LEMMA QuietCancelLock ==
  ASSUME Counted, Owned, NEW l \in Loops, NEW r \in Reqs, CancelLock(l, r)
  PROVE  Quiet
<1> USE DEF poolVars, workerVars, loopVars, envVars
<1>1. Typed /\ CancelsActive
  BY OwnedTyped DEF Owned
<1>2. WorkersKeep
  BY <1>1 DEF CancelLock, Typed, WorkersKeep, HolderPCs
<1>3. CancelsActive'
  BY <1>1 DEF CancelLock, Typed, CancelsActive, reqVars
<1> QED BY <1>1, <1>2, <1>3 DEF CancelLock, Typed, Quiet, UserCode, QueueEmpty, Owned, Lists, DonePhase

LEMMA QuietCancelBusy ==
  ASSUME Counted, Owned, NEW l \in Loops, CancelBusy(l)
  PROVE  Quiet
<1> USE DEF poolVars, workerVars, loopVars, envVars
<1>1. Typed /\ CancelsActive
  BY OwnedTyped DEF Owned
<1>2. WorkersKeep
  BY <1>1 DEF CancelBusy, Typed, WorkersKeep, HolderPCs
<1>3. CancelsActive'
  BY <1>1 DEF CancelBusy, Typed, CancelsActive, reqVars
<1> QED BY <1>1, <1>2, <1>3 DEF CancelBusy, Typed, Quiet, UserCode, QueueEmpty, Owned, Lists, DonePhase

LEMMA QuietAsyncIo ==
  ASSUME Counted, Owned, NEW l \in Loops, AsyncIo(l)
  PROVE  Quiet
<1> USE DEF poolVars, workerVars, loopVars, envVars
<1>1. Typed /\ CancelsActive
  BY OwnedTyped DEF Owned
<1>2. WorkersKeep
  BY <1>1 DEF AsyncIo, Typed, WorkersKeep, HolderPCs
<1>3. CancelsActive'
  BY <1>1 DEF AsyncIo, Typed, CancelsActive, reqVars
<1> QED BY <1>1, <1>2, <1>3 DEF AsyncIo, Typed, Quiet, UserCode, QueueEmpty, Owned, Lists, DonePhase

LEMMA QuietCleanupJoined ==
  ASSUME Counted, Owned, CleanupJoined
  PROVE  Quiet
<1> USE DEF poolVars, workerVars, loopVars, envVars
<1>1. Typed /\ CancelsActive
  BY OwnedTyped DEF Owned
<1>2. WorkersKeep
  BY <1>1 DEF CleanupJoined, Typed, WorkersKeep, HolderPCs
<1>3. CancelsActive'
  BY <1>1 DEF CleanupJoined, Typed, CancelsActive, reqVars
<1> QED BY <1>1, <1>2, <1>3 DEF CleanupJoined, Typed, Quiet, UserCode, QueueEmpty, Owned, Lists, DonePhase

LEMMA QuietStutter ==
  ASSUME Counted, Owned, UNCHANGED vars
  PROVE  Quiet
<1> USE DEF poolVars, workerVars, loopVars, envVars
<1>1. Typed /\ CancelsActive
  BY OwnedTyped DEF Owned
<1>2. WorkersKeep
  BY <1>1 DEF vars, Typed, WorkersKeep, HolderPCs
<1>3. CancelsActive'
  BY <1>1 DEF vars, Typed, CancelsActive, reqVars
<1> QED BY <1>1, <1>2, <1>3 DEF vars, Typed, Quiet, UserCode, QueueEmpty, Owned, Lists, DonePhase

-----------------------------------------------------------------------------
(* The workers' steps. *)

\* A worker that takes request r off a list of the pool holds it.
TakenBy(w, r) ==
    \A v \in Workers : \/ v = w /\ pc[v] = "top" /\ pc'[v] = "work" /\ cur'[v] = r
                       \/ v # w /\ pc'[v] = pc[v] /\ cur'[v] = cur[v]
                       \/ v # w /\ pc[v] = "wait" /\ pc'[v] = "woken" /\ cur'[v] = cur[v]

LEMMA TakenMoves ==
  ASSUME Owned, NEW w \in Workers, NEW r \in Reqs, InQueue(wq, r) \/ InQueue(slow_io_pending_wq, r),
         TakenBy(w, r),
         \A x \in Reqs : x # r => SameInPool(x),
         ~ InQueue(wq, r)', ~ InQueue(slow_io_pending_wq, r)',
         UNCHANGED <<loop_wq, local_wq, reqVars, loop_pc, creq>>
  PROVE  \A x \in Reqs : Located(x)'
<1>1. ASSUME NEW x \in Reqs, x # r PROVE Located(x)'
  <2>1. SameInWorkers(x)
    BY <1>1 DEF TakenBy, SameInWorkers, Holds
  <2>2. SameInLoops(x) /\ SameFields(x) /\ SameInCancels(x)
    BY DEF SameInLoops, SameFields, SameInCancels, Cancels, reqVars
  <2> QED BY <1>1, <2>1, <2>2, SameLocated DEF Owned, Same
<1>2. PICK k \in Kinds, o \in Owners : At(r, k, o) /\ Fits(r, k, o)
  BY DEF Owned, Located
<1>3. k \in {"wq", "slow"}
  BY <1>2 DEF At
<1>4. /\ active[r] /\ work[r] = "fn" /\ ~ executed[r]
      /\ \A v \in Workers : ~ Holds(v, r)
      /\ \A l \in Loops : ~ InQueue(loop_wq[l], r) /\ ~ InQueue(local_wq[l], r) /\ ~ Cancels(l, r)
  BY <1>2, <1>3 DEF At, Fits
<1>5. \A v \in Workers : Holds(v, r)' <=> v = w
  BY <1>4 DEF TakenBy, Holds
<1>6. \A l \in Loops : ~ InQueue(loop_wq[l], r)' /\ ~ InQueue(local_wq[l], r)' /\ ~ Cancels(l, r)'
  BY <1>4 DEF Cancels
<1>7. At(r, "worker", w)'
  BY <1>4, <1>5, <1>6 DEF At, reqVars
<1>8. Fits(r, "worker", w)'
  BY <1>4 DEF TakenBy, Fits, reqVars
<1>9. Located(r)'
  BY <1>7, <1>8 DEF Located, Kinds, Owners
<1> QED BY <1>1, <1>9

LEMMA OwnedSlowMessage ==
  ASSUME Counted, Owned, NEW w \in Workers, WorkerRequeueSlow(w) \/ WorkerDropSlow(w)
  PROVE  Owned'
<1> USE DEF workerVars, loopVars, envVars
<1>0. Typed
  BY OwnedTyped
<1>1. wq # <<>> /\ QueueHead(wq) = RunSlow /\ RunSlow \notin Reqs
  BY MessagesAssumption DEF WorkerRequeueSlow, WorkerDropSlow, NothingToRun, QueueEmpty
<1>2. /\ QueuePop(wq) \in Seq(Items) /\ IsInjective(QueuePop(wq))
      /\ Range(QueuePop(wq)) = Range(wq) \ {RunSlow} /\ RunSlow \in Range(wq)
  BY <1>0, <1>1, Pop DEF Typed
<1>3. \/ Range(wq') = Range(wq) /\ IsInjective(wq')
      \/ Range(wq') = Range(wq) \ {RunSlow} /\ IsInjective(wq') /\ slow_io_pending_wq = <<>>
  <2>1. CASE WorkerRequeueSlow(w)
    <3>1. wq' = QueueInsertTail(QueuePop(wq), RunSlow)
      BY <2>1 DEF WorkerRequeueSlow, RescheduleSlow
    <3> QED BY <1>0, <1>1, <3>1, Requeue DEF Typed
  <2>2. CASE WorkerDropSlow(w)
    BY <1>2, <2>2 DEF WorkerDropSlow, QueueEmpty
  <2> QED BY <2>1, <2>2
<1>4. UNCHANGED <<slow_io_pending_wq, loop_wq, local_wq, reqVars, pc, cur, loop_pc, creq, shutdown>>
  BY DEF WorkerRequeueSlow, WorkerDropSlow
<1>5. ASSUME NEW r \in Reqs PROVE Located(r)'
  <2>1. SameInPool(r)
    BY <1>1, <1>3, <1>4 DEF SameInPool, InQueue
  <2>2. SameInWorkers(r) /\ SameInLoops(r) /\ SameFields(r) /\ SameInCancels(r)
    BY <1>4 DEF SameInWorkers, Holds, SameInLoops, SameFields, SameInCancels, Cancels, reqVars
  <2> QED BY <2>1, <2>2, SameLocated DEF Owned, Same
<1>6. LinkedOnce'
  BY <1>3, <1>4 DEF Owned, Lists, LinkedOnce
<1>7. DonePhase'
  BY <1>3, <1>4 DEF Owned, Lists, DonePhase, InQueue
<1>8. SlowScheduled'
  BY <1>2, <1>3, <1>4 DEF SlowScheduled, InQueue, QueueEmpty
<1>9. CancelsActive'
  BY <1>4 DEF Owned, CancelsActive, reqVars
<1> QED BY <1>5, <1>6, <1>7, <1>8, <1>9 DEF Owned, Lists

LEMMA OwnedWorkerTakeSlow ==
  ASSUME Counted, Owned, NEW w \in Workers, WorkerTakeSlow(w)
  PROVE  Owned'
<1> USE DEF loopVars, envVars
<1>0. Typed
  BY OwnedTyped
<1>r. PICK r : r = QueueHead(slow_io_pending_wq)
  OBVIOUS
<1>1. /\ wq # <<>> /\ QueueHead(wq) = RunSlow /\ RunSlow \notin Reqs
      /\ slow_io_pending_wq # <<>>
  BY MessagesAssumption DEF WorkerTakeSlow, NothingToRun, QueueEmpty
<1>2. /\ QueuePop(wq) \in Seq(Items) /\ IsInjective(QueuePop(wq))
      /\ Range(QueuePop(wq)) = Range(wq) \ {RunSlow} /\ RunSlow \in Range(wq)
  BY <1>0, <1>1, Pop DEF Typed
<1>3. /\ r \in Reqs /\ InQueue(slow_io_pending_wq, r)
      /\ IsInjective(slow_io_pending_wq')
      /\ Range(slow_io_pending_wq') = Range(slow_io_pending_wq) \ {r}
  BY <1>0, <1>r, <1>1, Pop DEF WorkerTakeSlow, Typed, InQueue
<1>4. /\ IsInjective(wq')
      /\ \A x \in Reqs \cup {Exit} : InQueue(wq, x)' <=> InQueue(wq, x)
      /\ slow_io_pending_wq' # <<>> => InQueue(wq, RunSlow)'
  <2>1. CASE wq' = QueuePop(wq) /\ slow_io_pending_wq' = <<>>
    BY <1>1, <1>2, <2>1, MessagesAssumption DEF InQueue
  <2>2. CASE wq' = QueueInsertTail(QueuePop(wq), RunSlow)
    <3>1. Range(wq') = Range(wq) /\ IsInjective(wq')
      BY <1>0, <1>1, <2>2, Requeue DEF Typed
    <3> QED BY <1>2, <3>1 DEF InQueue
  <2> QED BY <2>1, <2>2 DEF WorkerTakeSlow, RescheduleSlow, QueueEmpty
<1>5. TakenBy(w, r)
  <2> DEFINE m == [pc EXCEPT ![w] = "work"]
  <2>1. m \in [Workers -> WorkerPCs]
    BY <1>0 DEF Typed, WorkerPCs
  <2>2. pc' = m \/ pc' \in CondSignal(m) \cup SignalIfIdle(m)
    BY DEF WorkerTakeSlow
  <2>3. \A v \in Workers : pc'[v] = m[v] \/ (m[v] = "wait" /\ pc'[v] = "woken")
    BY <2>1, <2>2, SignalWakes
  <2>4. cur' = [cur EXCEPT ![w] = r] /\ pc[w] = "top"
    BY <1>r DEF WorkerTakeSlow
  <2> QED BY <1>0, <2>3, <2>4 DEF Typed, TakenBy
<1>6. UNCHANGED <<loop_wq, local_wq, reqVars, loop_pc, creq, shutdown>>
  BY DEF WorkerTakeSlow
<1>7. ~ InQueue(wq, r)' /\ ~ InQueue(slow_io_pending_wq, r)'
  <2>1. ~ InQueue(wq, r)
    BY <1>3 DEF Owned, Located, At
  <2> QED BY <1>3, <1>4, <2>1 DEF InQueue
<1>8. \A x \in Reqs : x # r => SameInPool(x)
  BY <1>3, <1>4 DEF SameInPool, InQueue
<1>9. \A x \in Reqs : Located(x)'
  BY <1>3, <1>5, <1>6, <1>7, <1>8, TakenMoves
<1>10. LinkedOnce' /\ SlowScheduled'
  BY <1>3, <1>4, <1>6 DEF Owned, Lists, LinkedOnce, SlowScheduled, QueueEmpty
<1>11. DonePhase' /\ CancelsActive'
  BY <1>4, <1>6 DEF Owned, Lists, DonePhase, CancelsActive, reqVars
<1> QED BY <1>9, <1>10, <1>11 DEF Owned, Lists

LEMMA OwnedWorkerTake ==
  ASSUME Counted, Owned, NEW w \in Workers, WorkerTake(w)
  PROVE  Owned'
<1> USE DEF loopVars, envVars
<1>0. Typed
  BY OwnedTyped
<1>r. PICK r : r = QueueHead(wq)
  OBVIOUS
<1>1. wq # <<>> /\ r \in Reqs
  BY <1>r DEF WorkerTake, NothingToRun, QueueEmpty
<1>2. IsInjective(wq') /\ Range(wq') = Range(wq) \ {r} /\ InQueue(wq, r)
  BY <1>0, <1>r, <1>1, Pop DEF WorkerTake, Typed, InQueue
<1>3. TakenBy(w, r)
  BY <1>0, <1>r DEF WorkerTake, Typed, TakenBy
<1>4. UNCHANGED <<slow_io_pending_wq, loop_wq, local_wq, reqVars, loop_pc, creq, shutdown>>
  BY DEF WorkerTake
<1>5. ~ InQueue(wq, r)' /\ ~ InQueue(slow_io_pending_wq, r)'
  <2>1. ~ InQueue(slow_io_pending_wq, r)
    BY <1>1, <1>2 DEF Owned, Located, At
  <2> QED BY <1>2, <1>4, <2>1 DEF InQueue
<1>6. \A x \in Reqs : x # r => SameInPool(x)
  BY <1>2, <1>4 DEF SameInPool, InQueue
<1>7. \A x \in Reqs : Located(x)'
  BY <1>1, <1>2, <1>3, <1>4, <1>5, <1>6, TakenMoves
<1>8. LinkedOnce'
  BY <1>2, <1>4 DEF Owned, Lists, LinkedOnce
<1>9. SlowScheduled' /\ DonePhase'
  BY <1>1, <1>2, <1>4, MessagesAssumption
     DEF Owned, Lists, SlowScheduled, DonePhase, InQueue, QueueEmpty
<1>10. CancelsActive'
  BY <1>4 DEF Owned, CancelsActive, reqVars
<1> QED BY <1>7, <1>8, <1>9, <1>10 DEF Owned, Lists

LEMMA OwnedWorkerRun ==
  ASSUME Counted, Owned, NEW w \in Workers, WorkerRun(w)
  PROVE  Owned'
<1> USE DEF poolVars, loopVars, envVars
<1>0. Typed
  BY OwnedTyped
<1>r. PICK r : r = cur[w]
  OBVIOUS
<1>1. r \in Reqs /\ Holds(w, r)
  BY <1>r DEF Counted, HolderPCs, WorkerRun, Holds
<1>2. UNCHANGED <<wq, slow_io_pending_wq, loop_wq, local_wq, work, w_loop, active, cur, loop_pc,
                  creq, shutdown>>
  BY DEF WorkerRun
<1>3. \A v \in Workers : \/ v = w /\ pc[v] = "work" /\ pc'[v] = "publish"
                         \/ v # w /\ pc'[v] = pc[v]
  BY <1>0 DEF WorkerRun, Typed
<1>4. executed'[r] /\ \A x \in Reqs : x # r => executed'[x] = executed[x]
  BY <1>0, <1>r, <1>1 DEF WorkerRun, Typed
<1>5. \A x \in Reqs, v \in Workers : Holds(v, x)' <=> Holds(v, x)
  BY <1>2, <1>3 DEF Holds
<1>6. ASSUME NEW x \in Reqs PROVE SameInPool(x) /\ SameInLoops(x) /\ SameInCancels(x)
  BY <1>2 DEF SameInPool, SameInLoops, SameInCancels, Cancels
<1>7. ASSUME NEW x \in Reqs, x # r PROVE Located(x)'
  <2>1. ~ Holds(w, x)
    BY <1>r, <1>7 DEF Holds
  <2>2. SameInWorkers(x)
    BY <1>3, <1>5, <2>1 DEF SameInWorkers
  <2>3. SameFields(x)
    BY <1>2, <1>4, <1>7 DEF SameFields
  <2> QED BY <1>6, <2>2, <2>3, SameLocated DEF Owned, Same
<1>8. Located(r)'
  <2>1. PICK k \in Kinds, o \in Owners : At(r, k, o) /\ Fits(r, k, o)
    BY <1>1 DEF Owned, Located
  <2>2. k = "worker" /\ o = w /\ work[r] = "fn"
    BY <1>1, <2>1 DEF At, Fits
  <2>3. At(r, k, o)'
    BY <1>1, <1>2, <1>5, <1>6, <2>1 DEF At, SameInPool, SameInLoops, SameInCancels
  <2>4. Fits(r, k, o)'
    BY <1>2, <1>3, <1>4, <2>2 DEF Fits
  <2> QED BY <2>3, <2>4 DEF Located
<1>9. Lists' /\ CancelsActive'
  BY <1>2 DEF Owned, Lists, LinkedOnce, DonePhase, SlowScheduled, CancelsActive
<1> QED BY <1>7, <1>8, <1>9 DEF Owned

\* A request that goes to the list of its loop, from a worker or a cancellation.
LEMMA LinkedAgain ==
  ASSUME Typed, NEW l \in Loops, NEW r \in Reqs, ~ InQueue(loop_wq[l], r),
         loop_wq' = [loop_wq EXCEPT ![l] = QueueInsertTail(loop_wq[l], r)]
  PROVE  /\ \A m \in Loops : IsInjective(loop_wq'[m])
         /\ \A m \in Loops, x \in Reqs : InQueue(loop_wq[m], x)'
                                           <=> InQueue(loop_wq[m], x) \/ (m = l /\ x = r)
<1>q. PICK q : q = loop_wq[l]
  OBVIOUS
<1>1. q \in Seq(Reqs) /\ IsInjective(q) /\ r \notin Range(q)
  BY <1>q DEF Typed, InQueue
<1>2. Range(QueueInsertTail(q, r)) = Range(q) \cup {r} /\ IsInjective(QueueInsertTail(q, r))
  BY <1>1, InsertTail
<1>3. \A m \in Loops : \/ m = l /\ loop_wq'[m] = QueueInsertTail(q, r)
                       \/ m # l /\ loop_wq'[m] = loop_wq[m]
  BY <1>q DEF Typed
<1>4. \A m \in Loops : IsInjective(loop_wq'[m])
  BY <1>2, <1>3 DEF Typed
<1>5. \A m \in Loops, x \in Reqs : InQueue(loop_wq'[m], x) <=> InQueue(loop_wq[m], x) \/ (m = l /\ x = r)
  BY <1>q, <1>2, <1>3 DEF InQueue
<1> QED BY <1>4, <1>5

LEMMA OwnedWorkerPublish ==
  ASSUME Counted, Owned, NEW w \in Workers, WorkerPublish(w)
  PROVE  Owned'
<1> USE DEF poolVars, envVars
<1>0. Typed
  BY OwnedTyped
<1>r. PICK r, l : r = cur[w] /\ l = w_loop[r]
  OBVIOUS
<1>1. r \in Reqs /\ l \in Loops /\ Holds(w, r) /\ pc[w] = "publishing"
  BY <1>0, <1>r DEF Counted, HolderPCs, WorkerPublish, Holds, Typed
<1>2. UNCHANGED <<wq, slow_io_pending_wq, local_wq, w_loop, active, executed, loop_pc, creq, shutdown>>
  BY DEF WorkerPublish
<1>3. PICK k \in Kinds, o \in Owners : At(r, k, o) /\ Fits(r, k, o)
  BY <1>1 DEF Owned, Located
<1>4. k = "worker" /\ o = w
  BY <1>1, <1>3 DEF At
<1>5. /\ ~ InQueue(wq, r) /\ ~ InQueue(slow_io_pending_wq, r) /\ active[r] /\ executed[r]
      /\ \A v \in Workers : Holds(v, r) <=> v = w
      /\ \A m \in Loops : ~ InQueue(loop_wq[m], r) /\ ~ InQueue(local_wq[m], r) /\ ~ Cancels(m, r)
  BY <1>1, <1>3, <1>4 DEF At, Fits
<1>6. /\ \A m \in Loops : IsInjective(loop_wq'[m])
      /\ \A m \in Loops, x \in Reqs : InQueue(loop_wq[m], x)'
                                        <=> InQueue(loop_wq[m], x) \/ (m = l /\ x = r)
  <2>1. loop_wq' = [loop_wq EXCEPT ![l] = QueueInsertTail(loop_wq[l], r)]
    BY <1>r DEF WorkerPublish
  <2> QED BY <1>0, <1>1, <1>5, <2>1, LinkedAgain
<1>7. \A v \in Workers : \/ v = w /\ pc'[v] = "lock"
                         \/ v # w /\ pc'[v] = pc[v] /\ cur'[v] = cur[v]
  BY <1>0 DEF WorkerPublish, Typed
<1>8. work'[r] = "null" /\ \A x \in Reqs : x # r => work'[x] = work[x]
  BY <1>0, <1>r, <1>1 DEF WorkerPublish, Typed
<1>9. ASSUME NEW x \in Reqs, x # r PROVE Located(x)'
  <2>1. ~ Holds(w, x)
    BY <1>r, <1>9 DEF Holds
  <2>2. SameInWorkers(x)
    BY <1>7, <2>1 DEF SameInWorkers, Holds
  <2>3. SameInPool(x) /\ SameInCancels(x)
    BY <1>2 DEF SameInPool, SameInCancels, Cancels
  <2>4. SameInLoops(x)
    BY <1>2, <1>6, <1>9 DEF SameInLoops
  <2>5. SameFields(x)
    BY <1>2, <1>8, <1>9 DEF SameFields
  <2> QED BY <2>2, <2>3, <2>4, <2>5, SameLocated DEF Owned, Same
<1>10. Located(r)'
  <2>1. \A v \in Workers : ~ Holds(v, r)'
    BY <1>5, <1>7 DEF Holds
  <2>2. \A m \in Loops : ~ InQueue(local_wq[m], r)' /\ ~ Cancels(m, r)'
    BY <1>2, <1>5 DEF Cancels
  <2>3. At(r, "loop_wq", l)'
    BY <1>1, <1>2, <1>5, <1>6, <2>1, <2>2 DEF At
  <2>4. Fits(r, "loop_wq", l)'
    BY <1>r, <1>2, <1>5, <1>8 DEF Fits
  <2> QED BY <1>1, <2>3, <2>4 DEF Located, Kinds, Owners
<1>11. Lists' /\ CancelsActive'
  BY <1>2, <1>6 DEF Owned, Lists, LinkedOnce, DonePhase, SlowScheduled, CancelsActive
<1> QED BY <1>9, <1>10, <1>11 DEF Owned

-----------------------------------------------------------------------------
(* The loop threads' steps. *)

LEMMA OwnedInitOnce ==
  ASSUME Counted, Owned, NEW l \in Loops, InitOnce(l)
  PROVE  Owned'
<1> USE DEF loopVars, envVars
<1>1. /\ UNCHANGED <<wq, slow_io_pending_wq, loop_wq, local_wq, reqVars, loop_pc, creq, shutdown>>
      /\ \A w \in Workers : pc[w] = "none" /\ pc'[w] = "lock"
  BY DEF InitOnce, InitQueues, Counted
<1>2. Quiet
  BY <1>1 DEF Quiet, WorkersKeep, HolderPCs, Owned, Lists, DonePhase, CancelsActive, reqVars
<1> QED BY <1>2, QuietOwned

LEMMA OwnedCleanup ==
  ASSUME Counted, Owned, Cleanup
  PROVE  Owned'
<1> USE DEF loopVars, envVars
<1>0. Typed
  BY OwnedTyped
<1>1. UNCHANGED <<slow_io_pending_wq, loop_wq, local_wq, reqVars, cur, loop_pc, creq>>
  BY DEF Cleanup, Post
<1>2. Range(wq') = Range(wq) \cup {Exit} /\ IsInjective(wq') /\ shutdown' # "no"
  <2>1. Exit \notin Range(wq) /\ wq' = QueueInsertTail(wq, Exit) /\ shutdown' = "joining"
    BY DEF Cleanup, Post, Owned, Lists, DonePhase, InQueue
  <2>2. PICK q : q = wq
    OBVIOUS
  <2>3. q \in Seq(Items) /\ IsInjective(q) /\ Exit \in Items /\ Exit \notin Range(q)
    BY <1>0, <2>1, <2>2 DEF Typed
  <2>4. Range(QueueInsertTail(q, Exit)) = Range(q) \cup {Exit} /\ IsInjective(QueueInsertTail(q, Exit))
    BY <2>3, InsertTail
  <2> QED BY <2>1, <2>2, <2>4
<1>3. WorkersKeep
  <2>1. pc' \in CondSignal(pc) \cup SignalIfIdle(pc) /\ pc \in [Workers -> WorkerPCs]
    BY <1>0 DEF Cleanup, Post, Typed
  <2>2. \A v \in Workers : pc'[v] = pc[v] \/ (pc[v] = "wait" /\ pc'[v] = "woken")
    BY <2>1, SignalWakes
  <2> QED BY <1>1, <2>2 DEF WorkersKeep, HolderPCs
<1>4. ASSUME NEW r \in Reqs PROVE Located(r)'
  <2>1. SameInPool(r)
    BY <1>1, <1>2, MessagesAssumption DEF SameInPool, InQueue
  <2>2. SameInLoops(r) /\ SameFields(r) /\ SameInCancels(r)
    BY <1>1 DEF SameInLoops, SameFields, SameInCancels, Cancels, reqVars
  <2>3. SameInWorkers(r)
    BY <1>3, WorkersKeepSame
  <2> QED BY <2>1, <2>2, <2>3, SameLocated DEF Owned, Same
<1>5. Lists'
  BY <1>1, <1>2 DEF Owned, Lists, LinkedOnce, DonePhase, SlowScheduled, InQueue, QueueEmpty
<1>6. CancelsActive'
  BY <1>1 DEF Owned, CancelsActive, reqVars
<1> QED BY <1>4, <1>5, <1>6 DEF Owned

LEMMA OwnedSubmit ==
  ASSUME Counted, Owned, NEW l \in Loops, NEW r \in Reqs, NEW slow \in BOOLEAN, Submit(l, r, slow)
  PROVE  Owned'
<1>0. Typed
  BY OwnedTyped
<1>1. UNCHANGED <<loop_wq, local_wq, cur, loop_pc, creq, shutdown>> /\ ~ active[r]
  BY DEF Submit
<1>2. /\ active'[r] /\ work'[r] = "fn" /\ ~ executed'[r] /\ w_loop'[r] = l
      /\ \A x \in Reqs : x # r => SameFields(x)
  BY <1>0 DEF Submit, Typed, SameFields
<1>3. WorkersKeep
  <2>1. pc' = pc \/ pc' \in CondSignal(pc) \cup SignalIfIdle(pc)
    BY DEF Submit, Post, PostSlow
  <2>2. pc \in [Workers -> WorkerPCs]
    BY <1>0 DEF Typed
  <2>3. \A v \in Workers : pc'[v] = pc[v] \/ (pc[v] = "wait" /\ pc'[v] = "woken")
    BY <2>1, <2>2, SignalWakes
  <2> QED BY <1>1, <2>3 DEF WorkersKeep, HolderPCs
<1>4. /\ ~ InQueue(wq, r) /\ ~ InQueue(slow_io_pending_wq, r)
      /\ \A v \in Workers : ~ Holds(v, r)
      /\ \A m \in Loops : ~ InQueue(loop_wq[m], r) /\ ~ InQueue(local_wq[m], r) /\ ~ Cancels(m, r)
  <2>1. PICK k \in Kinds, o \in Owners : At(r, k, o)
    BY DEF Owned, Located
  <2>2. k = "user"
    BY <1>1, <2>1 DEF At
  <2> QED BY <2>1, <2>2 DEF At
<1>5. PICK k \in {"wq", "slow"} :
          /\ k = "wq" => /\ Range(wq') = Range(wq) \cup {r}
                         /\ slow_io_pending_wq' = slow_io_pending_wq
          /\ k = "slow" => /\ Range(slow_io_pending_wq') = Range(slow_io_pending_wq) \cup {r}
                           /\ Range(wq') = Range(wq) \cup {RunSlow}
          /\ IsInjective(wq') /\ IsInjective(slow_io_pending_wq')
  <2>1. Post(r) \/ PostSlow(r)
    BY DEF Submit
  <2>2. r \notin Range(wq) /\ r \notin Range(slow_io_pending_wq)
    BY <1>4 DEF InQueue
  <2> QED BY <1>0, <2>1, <2>2, Posted DEF Typed
<1>6. ASSUME NEW x \in Reqs, x # r PROVE Located(x)'
  <2>1. SameInPool(x)
    BY <1>5, <1>6, MessagesAssumption DEF SameInPool, InQueue
  <2>2. SameInLoops(x) /\ SameInCancels(x)
    BY <1>1 DEF SameInLoops, SameInCancels, Cancels
  <2>3. SameInWorkers(x)
    BY <1>3, WorkersKeepSame
  <2> QED BY <1>2, <1>6, <2>1, <2>2, <2>3, SameLocated DEF Owned, Same
<1>7. Located(r)'
  <2>1. (InQueue(wq, r)' <=> k = "wq") /\ (InQueue(slow_io_pending_wq, r)' <=> k = "slow")
    BY <1>4, <1>5, MessagesAssumption DEF InQueue
  <2>2. \A v \in Workers : ~ Holds(v, r)'
    BY <1>3, <1>4, WorkersKeepSame DEF SameInWorkers
  <2>3. \A m \in Loops : ~ InQueue(loop_wq[m], r)' /\ ~ InQueue(local_wq[m], r)' /\ ~ Cancels(m, r)'
    BY <1>1, <1>4 DEF Cancels
  <2>4. At(r, k, None)'
    BY <1>2, <1>5, <2>1, <2>2, <2>3 DEF At
  <2>5. Fits(r, k, None)'
    BY <1>2, <1>5 DEF Fits
  <2> QED BY <1>5, <2>4, <2>5 DEF Located, Kinds, Owners
<1>8. Lists'
  <2>1. LinkedOnce'
    BY <1>1, <1>5 DEF Owned, Lists, LinkedOnce
  <2>2. DonePhase'
    BY <1>1, <1>5, MessagesAssumption DEF Owned, Lists, DonePhase, InQueue
  <2>3. SlowScheduled'
    BY <1>5 DEF Owned, Lists, SlowScheduled, InQueue, QueueEmpty
  <2> QED BY <2>1, <2>2, <2>3 DEF Lists
<1>9. CancelsActive'
  <2>1. ASSUME NEW m \in Loops, loop_pc[m] = "cancel_locked"
        PROVE  creq[m] \in Reqs /\ creq[m] # r /\ w_loop[creq[m]] = m /\ active[creq[m]]
    BY <1>1, <2>1 DEF Counted, Owned, CancelsActive
  <2> QED BY <1>1, <1>2, <2>1 DEF CancelsActive, SameFields
<1> QED BY <1>6, <1>7, <1>8, <1>9 DEF Owned

LEMMA OwnedCancelUnlink ==
  ASSUME Counted, Owned, NEW l \in Loops, CancelUnlink(l)
  PROVE  Owned'
<1> USE DEF workerVars, envVars
<1>0. Typed
  BY OwnedTyped
<1>r. PICK r : r = creq[l]
  OBVIOUS
<1>1. r \in Reqs /\ w_loop[r] = l /\ active[r] /\ loop_pc[l] = "cancel_locked"
  BY <1>r DEF CancelUnlink, Counted, Owned, CancelsActive
<1>2. PICK k \in Kinds, o \in Owners : At(r, k, o) /\ Fits(r, k, o)
  BY <1>1 DEF Owned, Located
<1>3. k \in {"wq", "slow", "loop_wq", "local_wq"} /\ ~ executed[r]
  <2>1. work[r] # "null" /\ Linked(l, r)
    BY <1>r DEF CancelUnlink, Cancellable
  <2>2. k \in {"wq", "slow", "loop_wq", "local_wq"}
    BY <1>1, <1>2, <2>1 DEF Linked, At
  <2> QED BY <1>1, <1>2, <2>1, <2>2 DEF Fits
<1>4. /\ \A v \in Workers : ~ Holds(v, r)
      /\ \A m \in Loops : ~ Cancels(m, r)
      /\ \A m \in Loops : m # l => ~ InQueue(loop_wq[m], r) /\ ~ InQueue(local_wq[m], r)
  BY <1>1, <1>2, <1>3 DEF At, Fits
<1>5. UNCHANGED <<pc, cur, reqVars, creq, shutdown>>
  BY DEF CancelUnlink
<1>6. /\ Range(wq') = Range(wq) \ {r} /\ IsInjective(wq')
      /\ Range(slow_io_pending_wq') = Range(slow_io_pending_wq) \ {r}
      /\ IsInjective(slow_io_pending_wq')
      /\ slow_io_pending_wq' # <<>> => slow_io_pending_wq # <<>>
  <2>1. wq' = QueueRemove(wq, r) /\ slow_io_pending_wq' = QueueRemove(slow_io_pending_wq, r)
    BY <1>r DEF CancelUnlink
  <2>2. wq \in Seq(Items) /\ IsInjective(wq)
    BY <1>0 DEF Typed
  <2>3. slow_io_pending_wq \in Seq(Reqs) /\ IsInjective(slow_io_pending_wq)
    BY <1>0 DEF Typed
  <2>4. Range(wq') = Range(wq) \ {r} /\ IsInjective(wq')
    BY <2>1, <2>2, Removal
  <2>5. /\ Range(slow_io_pending_wq') = Range(slow_io_pending_wq) \ {r}
        /\ IsInjective(slow_io_pending_wq')
    BY <2>1, <2>3, Removal
  <2>6. slow_io_pending_wq = <<>> => slow_io_pending_wq' = <<>>
    BY <2>1 DEF QueueRemove, InQueue, Range
  <2> QED BY <2>4, <2>5, <2>6
<1>7. \A m \in Loops :
          \/ /\ m = l /\ loop_pc'[m] = "cancel_publish"
             /\ Range(loop_wq'[m]) = Range(loop_wq[m]) \ {r} /\ IsInjective(loop_wq'[m])
             /\ Range(local_wq'[m]) = Range(local_wq[m]) \ {r} /\ IsInjective(local_wq'[m])
          \/ /\ m # l /\ loop_pc'[m] = loop_pc[m]
             /\ loop_wq'[m] = loop_wq[m] /\ local_wq'[m] = local_wq[m]
  <2>1. PICK p, q : p = loop_wq[l] /\ q = local_wq[l]
    OBVIOUS
  <2>2. p \in Seq(Reqs) /\ IsInjective(p)
    BY <1>0, <2>1 DEF Typed
  <2>3. q \in Seq(Reqs) /\ IsInjective(q)
    BY <1>0, <2>1 DEF Typed
  <2>4. Range(QueueRemove(p, r)) = Range(p) \ {r} /\ IsInjective(QueueRemove(p, r))
    BY <2>2, Removal
  <2>5. Range(QueueRemove(q, r)) = Range(q) \ {r} /\ IsInjective(QueueRemove(q, r))
    BY <2>3, Removal
  <2>6. /\ loop_wq' = [loop_wq EXCEPT ![l] = QueueRemove(p, r)]
        /\ local_wq' = [local_wq EXCEPT ![l] = QueueRemove(q, r)]
        /\ loop_pc' = [loop_pc EXCEPT ![l] = "cancel_publish"]
    BY <1>r, <2>1 DEF CancelUnlink
  <2>7. \A m \in Loops :
            \/ /\ m = l /\ loop_pc'[m] = "cancel_publish"
               /\ loop_wq'[m] = QueueRemove(p, r) /\ local_wq'[m] = QueueRemove(q, r)
            \/ /\ m # l /\ loop_pc'[m] = loop_pc[m]
               /\ loop_wq'[m] = loop_wq[m] /\ local_wq'[m] = local_wq[m]
    BY <1>0, <2>6 DEF Typed
  <2> QED BY <2>1, <2>4, <2>5, <2>7
<1>8. ASSUME NEW x \in Reqs, x # r PROVE Located(x)'
  <2>1. SameInPool(x)
    BY <1>6, <1>8 DEF SameInPool, InQueue
  <2>2. SameInLoops(x)
    BY <1>7, <1>8 DEF SameInLoops, InQueue
  <2>3. SameInWorkers(x) /\ SameFields(x)
    BY <1>5 DEF SameInWorkers, SameFields, Holds, reqVars
  <2>4. SameInCancels(x)
    BY <1>r, <1>1, <1>5, <1>7, <1>8 DEF SameInCancels, Cancels
  <2> QED BY <2>1, <2>2, <2>3, <2>4, SameLocated DEF Owned, Same
<1>9. Located(r)'
  <2>1. ~ InQueue(wq, r)' /\ ~ InQueue(slow_io_pending_wq, r)'
    BY <1>6 DEF InQueue
  <2>2. \A m \in Loops : ~ InQueue(loop_wq[m], r)' /\ ~ InQueue(local_wq[m], r)'
    BY <1>4, <1>7 DEF InQueue
  <2>3. \A m \in Loops : Cancels(m, r)' <=> m = l
    BY <1>r, <1>4, <1>5, <1>7 DEF Cancels
  <2>4. \A v \in Workers : ~ Holds(v, r)'
    BY <1>4, <1>5 DEF Holds
  <2>5. At(r, "cancel", l)'
    BY <1>1, <1>5, <2>1, <2>2, <2>3, <2>4 DEF At, reqVars
  <2>6. Fits(r, "cancel", l)'
    BY <1>1, <1>3, <1>5 DEF Fits, reqVars
  <2> QED BY <2>5, <2>6 DEF Located, Kinds, Owners
<1>10. LinkedOnce'
  BY <1>6, <1>7 DEF Owned, Lists, LinkedOnce
<1>11. DonePhase'
  BY <1>5, <1>6, <1>7 DEF Owned, Lists, DonePhase, InQueue
<1>12. SlowScheduled'
  BY <1>1, <1>6, MessagesAssumption DEF Owned, Lists, SlowScheduled, InQueue, QueueEmpty
<1>13. CancelsActive'
  BY <1>5, <1>7 DEF Owned, CancelsActive, reqVars
<1> QED BY <1>8, <1>9, <1>10, <1>11, <1>12, <1>13 DEF Owned, Lists

LEMMA OwnedCancelPublish ==
  ASSUME Counted, Owned, NEW l \in Loops, CancelPublish(l)
  PROVE  Owned'
<1> USE DEF poolVars, workerVars, envVars
<1>0. Typed
  BY OwnedTyped
<1>r. PICK r : r = creq[l]
  OBVIOUS
<1>1. r \in Reqs /\ Cancels(l, r)
  BY <1>r DEF CancelPublish, Counted, Cancels
<1>2. UNCHANGED <<wq, slow_io_pending_wq, pc, cur, local_wq, w_loop, active, executed, shutdown>>
  BY DEF CancelPublish
<1>3. PICK k \in Kinds, o \in Owners : At(r, k, o) /\ Fits(r, k, o)
  BY <1>1 DEF Owned, Located
<1>4. k = "cancel" /\ o = l
  BY <1>1, <1>3 DEF At
<1>5. /\ ~ InQueue(wq, r) /\ ~ InQueue(slow_io_pending_wq, r) /\ active[r] /\ ~ executed[r]
      /\ w_loop[r] = l
      /\ \A v \in Workers : ~ Holds(v, r)
      /\ \A m \in Loops : ~ InQueue(loop_wq[m], r) /\ ~ InQueue(local_wq[m], r)
      /\ \A m \in Loops : Cancels(m, r) <=> m = l
  BY <1>1, <1>3, <1>4 DEF At, Fits
<1>6. /\ \A m \in Loops : IsInjective(loop_wq'[m])
      /\ \A m \in Loops, x \in Reqs : InQueue(loop_wq[m], x)'
                                        <=> InQueue(loop_wq[m], x) \/ (m = l /\ x = r)
  <2>1. loop_wq' = [loop_wq EXCEPT ![l] = QueueInsertTail(loop_wq[l], r)]
    BY <1>r DEF CancelPublish
  <2> QED BY <1>0, <1>1, <1>5, <2>1, LinkedAgain
<1>7. \A m \in Loops : \/ m = l /\ loop_pc'[m] = "user"
                       \/ m # l /\ loop_pc'[m] = loop_pc[m] /\ creq'[m] = creq[m]
  BY <1>0 DEF CancelPublish, Typed
<1>8. work'[r] = "cancelled" /\ \A x \in Reqs : x # r => work'[x] = work[x]
  BY <1>0, <1>r, <1>1 DEF CancelPublish, Typed
<1>9. ASSUME NEW x \in Reqs, x # r PROVE Located(x)'
  <2>1. SameInPool(x) /\ SameInWorkers(x)
    BY <1>2 DEF SameInPool, SameInWorkers, Holds
  <2>2. SameInLoops(x)
    BY <1>2, <1>6, <1>9 DEF SameInLoops
  <2>3. SameInCancels(x)
    BY <1>r, <1>7, <1>9 DEF SameInCancels, Cancels
  <2>4. SameFields(x)
    BY <1>2, <1>8, <1>9 DEF SameFields
  <2> QED BY <2>1, <2>2, <2>3, <2>4, SameLocated DEF Owned, Same
<1>10. Located(r)'
  <2>1. \A v \in Workers : ~ Holds(v, r)'
    BY <1>2, <1>5 DEF Holds
  <2>2. \A m \in Loops : ~ InQueue(local_wq[m], r)' /\ ~ Cancels(m, r)'
    BY <1>2, <1>5, <1>7 DEF Cancels
  <2>3. At(r, "loop_wq", l)'
    BY <1>1, <1>2, <1>5, <1>6, <2>1, <2>2 DEF At
  <2>4. Fits(r, "loop_wq", l)'
    BY <1>2, <1>5, <1>8 DEF Fits
  <2> QED BY <2>3, <2>4 DEF Located, Kinds, Owners
<1>11. Lists'
  BY <1>2, <1>6, <1>7 DEF Owned, Lists, LinkedOnce, DonePhase, SlowScheduled
<1>12. CancelsActive'
  BY <1>2, <1>7 DEF Owned, CancelsActive
<1> QED BY <1>9, <1>10, <1>11, <1>12 DEF Owned

LEMMA OwnedWorkDone ==
  ASSUME Counted, Owned, NEW l \in Loops, WorkDone(l)
  PROVE  Owned'
<1> USE DEF poolVars, workerVars, envVars
<1>0. Typed
  BY OwnedTyped
<1>1. UNCHANGED <<wq, slow_io_pending_wq, pc, cur, reqVars, creq, shutdown>>
  BY DEF WorkDone
<1>2. /\ loop_pc[l] = "work_done" /\ local_wq[l] = <<>>
      /\ \A m \in Loops : \/ /\ m = l /\ loop_pc'[m] = "user"
                             /\ loop_wq'[m] = <<>> /\ local_wq'[m] = loop_wq[m]
                          \/ /\ m # l /\ loop_pc'[m] = loop_pc[m]
                             /\ loop_wq'[m] = loop_wq[m] /\ local_wq'[m] = local_wq[m]
  BY <1>0 DEF WorkDone, Typed, Owned, Lists, DonePhase
<1>3. IsInjective(<<>>) /\ \A e : ~ InQueue(<<>>, e)
  BY DEF IsInjective, InQueue, Range
<1>4. ASSUME NEW x \in Reqs PROVE SameInPool(x) /\ SameInWorkers(x) /\ SameFields(x) /\ SameInCancels(x)
  <2>1. SameInPool(x) /\ SameInWorkers(x) /\ SameFields(x)
    BY <1>1 DEF SameInPool, SameInWorkers, Holds, SameFields, reqVars
  <2>2. SameInCancels(x)
    BY <1>1, <1>2 DEF SameInCancels, Cancels
  <2> QED BY <2>1, <2>2
<1>5. ASSUME NEW x \in Reqs, ~ InQueue(loop_wq[l], x) PROVE Located(x)'
  <2>1. SameInLoops(x)
    BY <1>2, <1>3, <1>5 DEF SameInLoops
  <2> QED BY <1>4, <2>1, SameLocated DEF Owned, Same
<1>6. ASSUME NEW x \in Reqs, InQueue(loop_wq[l], x) PROVE Located(x)'
  <2>1. PICK k \in Kinds, o \in Owners : At(x, k, o) /\ Fits(x, k, o)
    BY DEF Owned, Located
  <2>2. k = "loop_wq" /\ o = l
    BY <1>6, <2>1 DEF At
  <2>3. \A m \in Loops : /\ InQueue(loop_wq[m], x) <=> m = l
                         /\ ~ InQueue(local_wq[m], x)
    BY <2>1, <2>2 DEF At
  <2>4. \A m \in Loops : ~ InQueue(loop_wq[m], x)' /\ (InQueue(local_wq[m], x)' <=> m = l)
    BY <1>2, <1>3, <2>3
  <2>5. At(x, "local_wq", l)'
    BY <1>4, <2>1, <2>2, <2>4
       DEF At, SameInPool, SameInWorkers, SameFields, SameInCancels
  <2>6. Fits(x, "local_wq", l)'
    BY <1>4, <2>1, <2>2 DEF Fits, SameFields
  <2> QED BY <2>5, <2>6 DEF Located, Kinds, Owners
<1>7. Lists'
  BY <1>1, <1>2, <1>3 DEF Owned, Lists, LinkedOnce, DonePhase, SlowScheduled
<1>8. CancelsActive'
  BY <1>1, <1>2 DEF Owned, CancelsActive, reqVars
<1> QED BY <1>5, <1>6, <1>7, <1>8 DEF Owned

LEMMA OwnedDone ==
  ASSUME Counted, Owned, NEW l \in Loops, Done(l)
  PROVE  Owned'
<1> USE DEF poolVars, workerVars, envVars
<1>0. Typed
  BY OwnedTyped
<1>q. PICK q, r : q = local_wq[l] /\ r = QueueHead(q)
  OBVIOUS
<1>1. /\ r \in Reqs /\ InQueue(local_wq[l], r) /\ loop_pc[l] = "user"
      /\ Range(QueuePop(q)) = Range(q) \ {r} /\ IsInjective(QueuePop(q))
  <2>1. q \in Seq(Reqs) /\ IsInjective(q)
    BY <1>0, <1>q DEF Typed
  <2>2. q # <<>> /\ loop_pc[l] = "user"
    BY <1>q DEF Done, QueueEmpty, UserCode
  <2> QED BY <1>q, <2>1, <2>2, Pop DEF InQueue
<1>2. UNCHANGED <<wq, slow_io_pending_wq, pc, cur, loop_wq, loop_pc, creq, work, w_loop, executed,
                  shutdown>>
  BY DEF Done
<1>3. \A m \in Loops : \/ m = l /\ local_wq'[m] = QueuePop(q)
                       \/ m # l /\ local_wq'[m] = local_wq[m]
  BY <1>0, <1>q DEF Done, Typed
<1>4. ~ active'[r] /\ \A x \in Reqs : x # r => active'[x] = active[x]
  BY <1>0, <1>q, <1>1 DEF Done, Typed
<1>5. PICK k \in Kinds, o \in Owners : At(r, k, o) /\ Fits(r, k, o)
  BY <1>1 DEF Owned, Located
<1>6. k = "local_wq" /\ o = l
  BY <1>1, <1>5 DEF At
<1>7. /\ ~ InQueue(wq, r) /\ ~ InQueue(slow_io_pending_wq, r) /\ w_loop[r] = l
      /\ \A v \in Workers : ~ Holds(v, r)
      /\ \A m \in Loops : ~ InQueue(loop_wq[m], r) /\ ~ Cancels(m, r)
      /\ \A m \in Loops : InQueue(local_wq[m], r) <=> m = l
  BY <1>5, <1>6 DEF At, Fits
<1>8. ASSUME NEW x \in Reqs, x # r PROVE Located(x)'
  <2>1. SameInPool(x) /\ SameInWorkers(x) /\ SameInCancels(x)
    BY <1>2 DEF SameInPool, SameInWorkers, Holds, SameInCancels, Cancels
  <2>2. SameInLoops(x)
    BY <1>q, <1>1, <1>2, <1>3, <1>8 DEF SameInLoops, InQueue
  <2>3. SameFields(x)
    BY <1>2, <1>4, <1>8 DEF SameFields
  <2> QED BY <2>1, <2>2, <2>3, SameLocated DEF Owned, Same
<1>9. Located(r)'
  <2>1. \A v \in Workers : ~ Holds(v, r)'
    BY <1>2, <1>7 DEF Holds
  <2>2. \A m \in Loops : ~ InQueue(loop_wq[m], r)' /\ ~ Cancels(m, r)'
    BY <1>2, <1>7 DEF Cancels
  <2>3. \A m \in Loops : ~ InQueue(local_wq[m], r)'
    BY <1>1, <1>3, <1>7 DEF InQueue
  <2>4. At(r, "user", None)'
    BY <1>2, <1>4, <1>7, <2>1, <2>2, <2>3 DEF At
  <2> QED BY <2>4 DEF Located, Fits, Kinds, Owners
<1>10. Lists'
  BY <1>1, <1>2, <1>3 DEF Owned, Lists, LinkedOnce, DonePhase, SlowScheduled
<1>11. CancelsActive'
  <2>1. ASSUME NEW m \in Loops, loop_pc[m] = "cancel_locked"
        PROVE  creq[m] \in Reqs /\ creq[m] # r /\ w_loop[creq[m]] = m /\ active[creq[m]]
    <3>1. creq[m] \in Reqs /\ w_loop[creq[m]] = m /\ active[creq[m]] /\ m # l
      BY <1>1, <2>1 DEF Counted, Owned, CancelsActive
    <3> QED BY <1>7, <3>1
  <2> QED BY <1>2, <1>4, <2>1 DEF CancelsActive
<1> QED BY <1>8, <1>9, <1>10, <1>11 DEF Owned

-----------------------------------------------------------------------------
LEMMA OwnedNext == Counted /\ Owned /\ [Next]_vars => Owned'
<1> SUFFICES ASSUME Counted, Owned, [Next]_vars PROVE Owned'
  OBVIOUS
<1>1. ASSUME NEW w \in Workers, WorkerStep(w) \/ SpuriousWakeup(w) PROVE Owned'
  <2>1. CASE \/ WorkerLock(w) \/ WorkerWake(w) \/ WorkerWait(w) \/ SpuriousWakeup(w)
             \/ WorkerExit(w) \/ WorkerPublishLock(w)
    BY <2>1, QuietOwned, QuietWorkerLock, QuietWorkerWake, QuietWorkerWait, QuietSpuriousWakeup,
       QuietWorkerExit, QuietWorkerPublishLock
  <2>2. CASE WorkerRequeueSlow(w) \/ WorkerDropSlow(w) \/ WorkerTakeSlow(w) \/ WorkerTake(w)
    BY <2>2, OwnedSlowMessage, OwnedWorkerTakeSlow, OwnedWorkerTake
  <2>3. CASE WorkerRun(w) \/ WorkerPublish(w)
    BY <2>3, OwnedWorkerRun, OwnedWorkerPublish
  <2> QED BY <1>1, <2>1, <2>2, <2>3 DEF WorkerStep
<1>2. ASSUME NEW l \in Loops, LoopStep(l) PROVE Owned'
  <2>1. CASE CancelBusy(l) \/ AsyncIo(l)
    BY <2>1, QuietOwned, QuietCancelBusy, QuietAsyncIo
  <2>2. CASE CancelUnlink(l) \/ CancelPublish(l)
    BY <2>2, OwnedCancelUnlink, OwnedCancelPublish
  <2>3. CASE WorkDone(l) \/ Done(l)
    BY <2>3, OwnedWorkDone, OwnedDone
  <2> QED BY <1>2, <2>1, <2>2, <2>3 DEF LoopStep
<1>3. ASSUME NEW l \in Loops, UserStep(l) PROVE Owned'
  BY <1>3, QuietOwned, QuietCancelLock, OwnedInitOnce, OwnedSubmit DEF UserStep
<1>4. CASE Cleanup \/ CleanupJoined \/ UNCHANGED vars
  BY <1>4, QuietOwned, OwnedCleanup, QuietCleanupJoined, QuietStutter
<1> QED BY <1>1, <1>2, <1>3, <1>4 DEF Next

LEMMA OwnedAlways == Spec => [](Counted /\ Owned)
<1>1. Init => Counted /\ Owned
  BY CountedInit, OwnedInit
<1>2. Counted /\ Owned /\ [Next]_vars => (Counted /\ Owned)'
  BY CountedNext, OwnedNext
<1> QED BY <1>1, <1>2, PTL DEF Spec

\* A request is in one place at a time: linked into one list, once, or held by
\* one worker or one cancellation, from uv__work_submit until its callback.
THEOREM RequestsHaveOnePlace == Spec => []OnePlace
<1>1. ASSUME Counted, Owned PROVE OnePlace
  <2>1. ASSUME NEW r \in Reqs
        PROVE  (active[r] <=> Places(r) # {}) /\ \A p, q \in Places(r) : p = q
    <3>1. PICK k \in Kinds, o \in Owners : At(r, k, o) /\ Fits(r, k, o)
      BY <1>1, <2>1 DEF Owned, Located
    <3>2. PICK place : place = IF k \in {"wq", "slow"} THEN <<k, None>> ELSE <<k, o>>
      OBVIOUS
    <3>3. /\ k = "worker" => o \in Workers
          /\ k \in {"loop_wq", "local_wq", "cancel"} => o \in Loops
      BY <1>1, <2>1, <3>1 DEF Fits, Counted, TypeOK
    <3>4. ASSUME NEW p \in Places(r) PROVE p = place /\ k # "user"
      BY <3>1, <3>2, <3>4 DEF At, Places, Cancels
    <3>5. ASSUME k # "user" PROVE place \in Places(r)
      <4>1. k \in {"wq", "slow", "worker", "loop_wq", "local_wq", "cancel"}
        BY <3>1, <3>5 DEF Kinds
      <4>2. CASE k \in {"wq", "slow"}
        BY <3>1, <3>2, <4>2 DEF At, Places
      <4>3. CASE k = "worker"
        BY <3>1, <3>2, <3>3, <4>3 DEF At, Places
      <4>4. CASE k \in {"loop_wq", "local_wq", "cancel"}
        BY <3>1, <3>2, <3>3, <4>4 DEF At, Places, Cancels
      <4> QED BY <4>1, <4>2, <4>3, <4>4
    <3>6. active[r] <=> k # "user"
      BY <3>1 DEF At
    <3> QED BY <3>4, <3>5, <3>6
  <2>2. LinkedOnce
    BY <1>1 DEF Owned, Lists
  <2> QED BY <2>1, <2>2 DEF OnePlace, LinkedOnce
<1> QED BY <1>1, OwnedAlways, PTL

\* Cancellation races the workers for a request, and a worker never calls the
\* function of a cancelled request or calls one twice.
THEOREM WorkersRunOnlyUncancelled == Spec => []RunsOnlyUncancelled
<1>1. ASSUME Counted, Owned PROVE RunsOnlyUncancelled
  <2>1. ASSUME NEW w \in Workers, pc[w] = "work" PROVE work[cur[w]] = "fn" /\ ~ executed[cur[w]]
    <3>1. PICK r : r = cur[w]
      OBVIOUS
    <3>2. r \in Reqs /\ Holds(w, r)
      BY <1>1, <2>1, <3>1 DEF Counted, HolderPCs, Holds
    <3>3. PICK k \in Kinds, o \in Owners : At(r, k, o) /\ Fits(r, k, o)
      BY <1>1, <3>2 DEF Owned, Located
    <3>4. k = "worker" /\ o = w
      BY <3>2, <3>3 DEF At
    <3> QED BY <2>1, <3>1, <3>3, <3>4 DEF Fits
  <2> QED BY <2>1 DEF RunsOnlyUncancelled
<1> QED BY <1>1, OwnedAlways, PTL

\* uv__work_done reports UV_ECANCELED for the requests whose function never ran
\* and for no other.
THEOREM StatusIsTruthful == Spec => []TruthfulStatus
<1>1. ASSUME Owned PROVE TruthfulStatus
  <2>1. ASSUME NEW l \in Loops, NEW r \in Reqs, InQueue(loop_wq[l], r) \/ InQueue(local_wq[l], r)
        PROVE  work[r] = (IF executed[r] THEN "null" ELSE "cancelled")
    <3>1. PICK k \in Kinds, o \in Owners : At(r, k, o) /\ Fits(r, k, o)
      BY <1>1 DEF Owned, Located
    <3>2. k \in {"loop_wq", "local_wq"}
      BY <2>1, <3>1 DEF At
    <3> QED BY <3>1, <3>2 DEF Fits
  <2> QED BY <2>1 DEF TruthfulStatus
<1> QED BY <1>1, OwnedAlways, PTL

\* Whenever slow requests are pending, the message that makes a worker look at
\* them is queued.
THEOREM SlowWorkScheduled == Spec => []SlowScheduled
<1>1. Owned => SlowScheduled
  BY DEF Owned, Lists
<1> QED BY <1>1, OwnedAlways, PTL
=============================================================================
