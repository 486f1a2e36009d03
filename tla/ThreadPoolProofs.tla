-------------------------- MODULE ThreadPoolProofs --------------------------
(***************************************************************************)
(* Proofs about ThreadPool, for any number of workers, loops and requests  *)
(* and any number of calls.                                                *)
(***************************************************************************)
EXTENDS ThreadPool, UVQueueProofs, FiniteSetTheorems

-----------------------------------------------------------------------------
(* The counters of the pool. *)

Sleepers == {w \in Workers : pc[w] \in {"wait", "woken"}}

SlowWorkers == {w \in Workers : is_slow_work[w]}

HolderPCs == {"work", "publish", "publishing"}

\* The inductive invariant behind the types: the counters count threads, a
\* worker that runs something has a request, and before init_once there is
\* neither a worker nor work.
Counted ==
    /\ TypeOK
    /\ idle_threads = Cardinality(Sleepers)
    /\ slow_io_work_running = Cardinality(SlowWorkers)
    /\ slow_io_work_running <= slow_work_thread_threshold
    /\ \A w \in Workers : pc[w] \in HolderPCs => cur[w] \in Reqs
    /\ \A w \in Workers : is_slow_work[w] => pc[w] \in HolderPCs \cup {"lock"}
    /\ \A l \in Loops : loop_pc[l] \in {"cancel_locked", "cancel_publish"} => creq[l] \in Reqs
    /\ ~ once => /\ \A w \in Workers : pc[w] = "none"
                 /\ wq = <<>>
                 /\ slow_io_pending_wq = <<>>

\* The threshold is a positive number of workers.
LEMMA Threshold == slow_work_thread_threshold \in Nat /\ slow_work_thread_threshold > 0
<1>1. Cardinality(Workers) \in Nat /\ Cardinality(Workers) # 0
  BY WorkersAssumption, FS_CardinalityType, FS_EmptySet
<1> QED BY <1>1 DEF slow_work_thread_threshold, nthreads

\* uv_cond_signal changes nothing but that a sleeping worker may be woken.
LEMMA SignalWakes ==
  ASSUME NEW p \in [Workers -> WorkerPCs], NEW q \in CondSignal(p) \cup SignalIfIdle(p)
  PROVE  /\ q \in [Workers -> WorkerPCs]
         /\ \A w \in Workers : q[w] = p[w] \/ (p[w] = "wait" /\ q[w] = "woken")
BY DEF CondSignal, SignalIfIdle, Waiters, WorkerPCs

\* One thread more or fewer in a set of workers.
LEMMA CountWorkers ==
  ASSUME NEW S \in SUBSET Workers, NEW w \in Workers
  PROVE  /\ Cardinality(S) \in Nat
         /\ w \notin S => Cardinality(S \cup {w}) = Cardinality(S) + 1
         /\ w \in S => Cardinality(S \ {w}) = Cardinality(S) - 1 /\ Cardinality(S) > 0
<1>1. IsFiniteSet(S) /\ Cardinality(S) \in Nat
  BY WorkersAssumption, FS_Subset, FS_CardinalityType
<1>2. w \notin S => Cardinality(S \cup {w}) = Cardinality(S) + 1
  BY <1>1, FS_AddElement
<1>3. ASSUME w \in S PROVE Cardinality(S \ {w}) = Cardinality(S) - 1 /\ Cardinality(S) > 0
  <2>1. Cardinality(S \ {w}) = Cardinality(S) - 1
    BY <1>1, <1>3, FS_RemoveElement
  <2>2. Cardinality(S \ {w}) \in Nat
    BY <1>1, FS_RemoveElement, FS_CardinalityType
  <2> QED BY <1>1, <2>1, <2>2
<1> QED BY <1>1, <1>2, <1>3

LEMMA CountedInit == Init => Counted
<1> SUFFICES ASSUME Init PROVE Counted
  OBVIOUS
<1>1. TypeOK
  <2>1. <<>> \in Seq(Items) /\ <<>> \in Seq(Reqs)
    OBVIOUS
  <2>2. 0 \in 0 .. MaxSubmits /\ 0 \in 0 .. MaxCancels
    BY BoundsAssumption
  <2>3. /\ pc \in [Workers -> WorkerPCs] /\ cur \in [Workers -> Reqs \cup {None}]
        /\ is_slow_work \in [Workers -> BOOLEAN]
    BY DEF Init, WorkerPCs
  <2>4. /\ wq_mutex \in [Loops -> Workers \cup {None}]
        /\ loop_wq \in [Loops -> Seq(Reqs)] /\ local_wq \in [Loops -> Seq(Reqs)]
        /\ wq_async \in [Loops -> BOOLEAN]
        /\ creq \in [Loops -> Reqs \cup {None}]
        /\ active_reqs \in [Loops -> Int]
    BY <2>1 DEF Init
  <2>5. loop_pc \in [Loops -> {"user", "work_done", "cancel_locked", "cancel_publish"}]
    BY DEF Init
  <2>6. /\ work \in [Reqs -> {"fn", "null", "cancelled"}] /\ w_loop \in [Reqs -> Loops]
        /\ active \in [Reqs -> BOOLEAN] /\ executed \in [Reqs -> BOOLEAN]
    BY DEF Init
  <2> QED BY <2>1, <2>2, <2>3, <2>4, <2>5, <2>6 DEF Init, TypeOK
<1>2. Sleepers = {} /\ SlowWorkers = {}
  BY DEF Init, Sleepers, SlowWorkers
<1>3. Cardinality({}) = 0
  BY FS_EmptySet
<1> QED BY <1>1, <1>2, <1>3, Threshold DEF Init, Counted, HolderPCs

LEMMA CountedNext == Counted /\ [Next]_vars => Counted'
<1> SUFFICES ASSUME Counted, [Next]_vars PROVE Counted'
  OBVIOUS
<1> USE Threshold
<1> DEFINE Rest ==
      /\ \A w \in Workers : pc[w] \in HolderPCs => cur[w] \in Reqs
      /\ \A w \in Workers : is_slow_work[w] => pc[w] \in HolderPCs \cup {"lock"}
      /\ \A l \in Loops : loop_pc[l] \in {"cancel_locked", "cancel_publish"} => creq[l] \in Reqs
      /\ ~ once => /\ \A w \in Workers : pc[w] = "none"
                   /\ wq = <<>>
                   /\ slow_io_pending_wq = <<>>
<1> USE DEF poolVars, workerVars, loopVars, reqVars, envVars
<1>1. ASSUME NEW w \in Workers, WorkerLock(w) PROVE Counted'
  <2>1. SlowWorkers' = SlowWorkers \ {w} /\ Sleepers' = Sleepers
    BY <1>1 DEF Counted, TypeOK, WorkerPCs, HolderPCs, WorkerLock, SlowAfterRun, SlowWorkers, Sleepers
  <2>2. SlowWorkers \in SUBSET Workers /\ (is_slow_work[w] <=> w \in SlowWorkers)
    BY DEF SlowWorkers
  <2>3. slow_io_work_running' = Cardinality(SlowWorkers') /\ slow_io_work_running' \in Nat
    <3>1. CASE w \in SlowWorkers
      BY <1>1, <2>1, <2>2, <3>1, CountWorkers DEF Counted, WorkerLock, SlowAfterRun
    <3>2. CASE w \notin SlowWorkers
      <4>1. SlowWorkers' = SlowWorkers
        BY <2>1, <3>2
      <4> QED BY <1>1, <2>2, <3>2, <4>1, CountWorkers DEF Counted, WorkerLock, SlowAfterRun
    <3> QED BY <3>1, <3>2
  <2>4. TypeOK'
    BY <1>1, <2>3 DEF Counted, TypeOK, WorkerPCs, HolderPCs, WorkerLock, SlowAfterRun
  <2>5. Rest'
    BY <1>1 DEF Counted, TypeOK, WorkerPCs, HolderPCs, WorkerLock, SlowAfterRun
  <2>6. slow_io_work_running' <= slow_io_work_running /\ UNCHANGED idle_threads
    BY <1>1 DEF Counted, TypeOK, WorkerLock, SlowAfterRun
  <2>7. slow_io_work_running' <= slow_work_thread_threshold
    BY <2>3, <2>6 DEF Counted, TypeOK
  <2> QED BY <2>1, <2>3, <2>4, <2>5, <2>6, <2>7 DEF Counted
<1>2. ASSUME NEW w \in Workers, WorkerWake(w) PROVE Counted'
  <2>1. w \in Sleepers /\ Sleepers' = Sleepers \ {w} /\ SlowWorkers' = SlowWorkers
    BY <1>2 DEF Counted, TypeOK, WorkerPCs, HolderPCs, WorkerWake, SlowWorkers, Sleepers
  <2>2. Sleepers \in SUBSET Workers
    BY DEF Sleepers
  <2>3. idle_threads' = Cardinality(Sleepers') /\ idle_threads' \in Nat
    BY <1>2, <2>1, <2>2, CountWorkers DEF Counted, WorkerWake
  <2>4. TypeOK'
    BY <1>2, <2>3 DEF Counted, TypeOK, WorkerPCs, HolderPCs, WorkerWake
  <2>5. Rest'
    BY <1>2 DEF Counted, TypeOK, WorkerPCs, HolderPCs, WorkerWake
  <2> QED BY <1>2, <2>1, <2>3, <2>4, <2>5 DEF Counted, WorkerWake
<1>3. ASSUME NEW w \in Workers, WorkerWait(w) PROVE Counted'
  <2>1. TypeOK'
    <3>1. idle_threads' \in Nat /\ mutex' \in Workers \cup Loops \cup {None}
      <4>1. idle_threads \in Nat
        BY DEF Counted, TypeOK
      <4> QED BY <1>3, <4>1 DEF WorkerWait
    <3> QED BY <1>3, <3>1 DEF Counted, TypeOK, WorkerPCs, WorkerWait
  <2>2. w \notin Sleepers /\ Sleepers' = Sleepers \cup {w}
    BY <1>3 DEF Counted, TypeOK, WorkerPCs, HolderPCs, WorkerWait, Sleepers
  <2>3. SlowWorkers' = SlowWorkers
    BY <1>3 DEF Counted, TypeOK, WorkerPCs, HolderPCs, WorkerWait, SlowWorkers
  <2>4. Rest'
    BY <1>3, <2>1 DEF Counted, TypeOK, WorkerPCs, HolderPCs, WorkerWait
  <2>5. Sleepers \in SUBSET Workers /\ SlowWorkers \in SUBSET Workers
    BY DEF Sleepers, SlowWorkers
  <2> QED BY <1>3, <2>1, <2>2, <2>3, <2>4, <2>5, CountWorkers DEF Counted, WorkerWait, AtThreshold
<1>4. ASSUME NEW w \in Workers, SpuriousWakeup(w) PROVE Counted'
  <2>1. TypeOK'
    BY <1>4 DEF Counted, TypeOK, WorkerPCs, HolderPCs, SpuriousWakeup
  <2>2. Sleepers' = Sleepers
    BY <1>4 DEF Counted, TypeOK, WorkerPCs, HolderPCs, SpuriousWakeup, Sleepers
  <2>3. SlowWorkers' = SlowWorkers
    BY <1>4 DEF Counted, TypeOK, WorkerPCs, HolderPCs, SpuriousWakeup, SlowWorkers
  <2>4. Rest'
    BY <1>4, <2>1 DEF Counted, TypeOK, WorkerPCs, HolderPCs, SpuriousWakeup
  <2>5. Sleepers \in SUBSET Workers /\ SlowWorkers \in SUBSET Workers
    BY DEF Sleepers, SlowWorkers
  <2> QED BY <1>4, <2>1, <2>2, <2>3, <2>4, <2>5, CountWorkers DEF Counted, SpuriousWakeup, AtThreshold
<1>5. ASSUME NEW w \in Workers, WorkerExit(w) PROVE Counted'
  <2> DEFINE p == [pc EXCEPT ![w] = "exited"]
  <2>0. /\ pc' \in [Workers -> WorkerPCs]
        /\ \A v \in Workers : pc'[v] = p[v] \/ (p[v] = "wait" /\ pc'[v] = "woken")
    <3>1. p \in [Workers -> WorkerPCs]
      BY DEF Counted, TypeOK, WorkerPCs
    <3>2. pc' \in CondSignal(p) \cup SignalIfIdle(p)
      BY <1>5 DEF WorkerExit
    <3> QED BY <3>1, <3>2, SignalWakes
  <2>1. TypeOK'
    BY <1>5, <2>0 DEF Counted, TypeOK, WorkerPCs, HolderPCs, WorkerExit
  <2>2. Sleepers' = Sleepers
    BY <1>5, <2>0 DEF Counted, TypeOK, WorkerPCs, HolderPCs, WorkerExit, Sleepers
  <2>3. SlowWorkers' = SlowWorkers
    BY <1>5, <2>0 DEF Counted, TypeOK, WorkerPCs, HolderPCs, WorkerExit, SlowWorkers
  <2>4. Rest'
    <3>1. once
      BY <1>5 DEF Counted, WorkerExit
    <3>2. \A v \in Workers : pc'[v] \in HolderPCs => pc[v] \in HolderPCs /\ pc'[v] = pc[v]
      BY <1>5, <2>0 DEF Counted, TypeOK, WorkerPCs, HolderPCs, WorkerExit
    <3>3. \A v \in Workers : pc[v] \in HolderPCs \cup {"lock"} => pc'[v] = pc[v]
      BY <1>5, <2>0 DEF Counted, TypeOK, WorkerPCs, HolderPCs, WorkerExit
    <3> QED BY <1>5, <3>1, <3>2, <3>3 DEF Counted, WorkerExit
  <2>5. Sleepers \in SUBSET Workers /\ SlowWorkers \in SUBSET Workers
    BY DEF Sleepers, SlowWorkers
  <2> QED BY <1>5, <2>1, <2>2, <2>3, <2>4, <2>5, CountWorkers DEF Counted, WorkerExit, AtThreshold
<1>6. ASSUME NEW w \in Workers, WorkerRequeueSlow(w) PROVE Counted'
  <2>0. wq # <<>> /\ wq \in Seq(Items) /\ RunSlow \in Items
    BY <1>6 DEF Counted, TypeOK, WorkerRequeueSlow, RescheduleSlow, NothingToRun, QueueEmpty, Items
  <2>1. TypeOK'
    <3>1. wq' \in Seq(Items)
      BY <1>6, <2>0, QueueTypes DEF WorkerRequeueSlow, RescheduleSlow
    <3> QED BY <1>6, <3>1 DEF Counted, TypeOK, WorkerPCs, WorkerRequeueSlow, RescheduleSlow
  <2>2. Sleepers' = Sleepers
    BY <1>6 DEF Counted, TypeOK, WorkerPCs, HolderPCs, WorkerRequeueSlow, RescheduleSlow, Sleepers
  <2>3. SlowWorkers' = SlowWorkers
    BY <1>6 DEF Counted, TypeOK, WorkerPCs, HolderPCs, WorkerRequeueSlow, RescheduleSlow, SlowWorkers
  <2>4. Rest'
    BY <1>6, <2>0, <2>1 DEF Counted, TypeOK, WorkerPCs, HolderPCs, WorkerRequeueSlow, RescheduleSlow
  <2>5. Sleepers \in SUBSET Workers /\ SlowWorkers \in SUBSET Workers
    BY DEF Sleepers, SlowWorkers
  <2> QED BY <1>6, <2>1, <2>2, <2>3, <2>4, <2>5, CountWorkers DEF Counted, WorkerRequeueSlow, RescheduleSlow, AtThreshold
<1>7. ASSUME NEW w \in Workers, WorkerDropSlow(w) PROVE Counted'
  <2>0. wq # <<>> /\ wq \in Seq(Items) /\ RunSlow \in Items
    BY <1>7 DEF Counted, TypeOK, WorkerDropSlow, NothingToRun, QueueEmpty, Items
  <2>1. TypeOK'
    <3>1. wq' \in Seq(Items)
      BY <1>7, <2>0, QueueTypes DEF WorkerDropSlow
    <3> QED BY <1>7, <3>1 DEF Counted, TypeOK, WorkerPCs, WorkerDropSlow
  <2>2. Sleepers' = Sleepers
    BY <1>7 DEF Counted, TypeOK, WorkerPCs, HolderPCs, WorkerDropSlow, Sleepers
  <2>3. SlowWorkers' = SlowWorkers
    BY <1>7 DEF Counted, TypeOK, WorkerPCs, HolderPCs, WorkerDropSlow, SlowWorkers
  <2>4. Rest'
    BY <1>7, <2>0, <2>1 DEF Counted, TypeOK, WorkerPCs, HolderPCs, WorkerDropSlow
  <2>5. Sleepers \in SUBSET Workers /\ SlowWorkers \in SUBSET Workers
    BY DEF Sleepers, SlowWorkers
  <2> QED BY <1>7, <2>1, <2>2, <2>3, <2>4, <2>5, CountWorkers DEF Counted, WorkerDropSlow, AtThreshold
<1>8. ASSUME NEW w \in Workers, WorkerTakeSlow(w) PROVE Counted'
  <2> DEFINE p == [pc EXCEPT ![w] = "work"]
  <2>0. /\ pc' \in [Workers -> WorkerPCs]
        /\ \A v \in Workers : pc'[v] = p[v] \/ (p[v] = "wait" /\ pc'[v] = "woken")
    <3>1. p \in [Workers -> WorkerPCs]
      BY DEF Counted, TypeOK, WorkerPCs
    <3>2. pc' = p \/ pc' \in CondSignal(p) \cup SignalIfIdle(p)
      BY <1>8 DEF WorkerTakeSlow, RescheduleSlow
    <3> QED BY <3>1, <3>2, SignalWakes
  <2>1. wq # <<>> /\ slow_io_pending_wq # <<>>
    BY <1>8 DEF WorkerTakeSlow, RescheduleSlow, NothingToRun, QueueEmpty
  <2>2. /\ QueueHead(slow_io_pending_wq) \in Reqs
        /\ slow_io_pending_wq' \in Seq(Reqs)
        /\ wq' \in Seq(Items)
    <3>1. QueueHead(slow_io_pending_wq) \in Reqs /\ slow_io_pending_wq' \in Seq(Reqs)
      BY <1>8, <2>1, QueueTypes DEF Counted, TypeOK, WorkerTakeSlow, RescheduleSlow
    <3>2. QueuePop(wq) \in Seq(Items) /\ RunSlow \in Items
      BY <2>1, QueueTypes DEF Counted, TypeOK, Items
    <3>3. wq' \in Seq(Items)
      BY <1>8, <3>2, QueueTypes DEF WorkerTakeSlow, RescheduleSlow
    <3> QED BY <3>1, <3>3
  <2>3. TypeOK'
    <3>1. slow_io_work_running' \in Nat /\ mutex' \in Workers \cup Loops \cup {None}
      <4>1. slow_io_work_running \in Nat
        BY DEF Counted, TypeOK
      <4> QED BY <1>8, <4>1 DEF WorkerTakeSlow
    <3> QED BY <1>8, <2>0, <2>2, <3>1 DEF Counted, TypeOK, WorkerTakeSlow, RescheduleSlow
  <2>4. Sleepers' = Sleepers
    BY <1>8, <2>0 DEF Counted, TypeOK, WorkerPCs, WorkerTakeSlow, RescheduleSlow, Sleepers
  <2>5. w \notin SlowWorkers /\ SlowWorkers' = SlowWorkers \cup {w}
    BY <1>8 DEF Counted, TypeOK, WorkerPCs, HolderPCs, WorkerTakeSlow, RescheduleSlow, SlowWorkers
  <2>6. Rest'
    <3>1. once
      BY <1>8 DEF Counted, WorkerTakeSlow
    <3>2. pc \in [Workers -> WorkerPCs] /\ cur \in [Workers -> Reqs \cup {None}]
      BY DEF Counted, TypeOK
    <3>3. \A v \in Workers : pc'[v] \in HolderPCs => cur'[v] \in Reqs
      BY <1>8, <2>0, <2>2, <3>2 DEF Counted, HolderPCs, WorkerTakeSlow
    <3>4. \A v \in Workers : is_slow_work'[v] => pc'[v] \in HolderPCs \cup {"lock"}
      <4>1. \A v \in Workers : pc[v] \in HolderPCs \cup {"lock"} => pc'[v] \in HolderPCs \cup {"lock"}
        BY <1>8, <2>0, <3>2 DEF HolderPCs, WorkerTakeSlow
      <4>2. pc'[w] \in HolderPCs
        BY <1>8, <2>0, <3>2 DEF HolderPCs
      <4>3. \A v \in Workers : v # w => is_slow_work'[v] = is_slow_work[v]
        BY <1>8 DEF Counted, TypeOK, WorkerTakeSlow
      <4> QED BY <4>1, <4>2, <4>3 DEF Counted
    <3>5. UNCHANGED <<once, loop_pc, creq>>
      BY <1>8 DEF WorkerTakeSlow
    <3> QED BY <3>1, <3>3, <3>4, <3>5 DEF Counted
  <2>7. SlowWorkers \in SUBSET Workers
    BY DEF SlowWorkers
  <2>8. slow_io_work_running' <= slow_work_thread_threshold
    BY <1>8 DEF Counted, TypeOK, WorkerTakeSlow, RescheduleSlow, AtThreshold
  <2> QED BY <1>8, <2>3, <2>4, <2>5, <2>6, <2>7, <2>8, CountWorkers DEF Counted, WorkerTakeSlow, RescheduleSlow
<1>9. ASSUME NEW w \in Workers, WorkerTake(w) PROVE Counted'
  <2>0. wq # <<>> /\ wq \in Seq(Items) /\ RunSlow \in Items
    BY <1>9 DEF Counted, TypeOK, WorkerTake, NothingToRun, QueueEmpty, Items
  <2>1. TypeOK'
    <3>1. wq' \in Seq(Items)
      BY <1>9, <2>0, QueueTypes DEF WorkerTake
    <3> QED BY <1>9, <3>1 DEF Counted, TypeOK, WorkerPCs, WorkerTake
  <2>2. Sleepers' = Sleepers
    BY <1>9 DEF Counted, TypeOK, WorkerPCs, HolderPCs, WorkerTake, Sleepers
  <2>3. SlowWorkers' = SlowWorkers
    BY <1>9 DEF Counted, TypeOK, WorkerPCs, HolderPCs, WorkerTake, SlowWorkers
  <2>4. Rest'
    <3>1. once
      BY <1>9 DEF Counted, WorkerTake
    <3>2. pc \in [Workers -> WorkerPCs] /\ cur \in [Workers -> Reqs \cup {None}]
      BY DEF Counted, TypeOK
    <3>3. \A v \in Workers : pc'[v] \in HolderPCs => cur'[v] \in Reqs
      BY <1>9, <2>0, <3>2 DEF Counted, HolderPCs, WorkerTake
    <3>4. \A v \in Workers : is_slow_work'[v] => pc'[v] \in HolderPCs \cup {"lock"}
      BY <1>9, <3>2 DEF Counted, HolderPCs, WorkerTake
    <3>5. UNCHANGED <<once, loop_pc, creq>>
      BY <1>9 DEF WorkerTake
    <3> QED BY <3>1, <3>3, <3>4, <3>5 DEF Counted
  <2>5. Sleepers \in SUBSET Workers /\ SlowWorkers \in SUBSET Workers
    BY DEF Sleepers, SlowWorkers
  <2> QED BY <1>9, <2>1, <2>2, <2>3, <2>4, <2>5, CountWorkers DEF Counted, WorkerTake, AtThreshold
<1>10. ASSUME NEW w \in Workers, WorkerRun(w) PROVE Counted'
  <2>1. TypeOK'
    BY <1>10 DEF Counted, TypeOK, WorkerPCs, HolderPCs, WorkerRun
  <2>2. Sleepers' = Sleepers
    BY <1>10 DEF Counted, TypeOK, WorkerPCs, HolderPCs, WorkerRun, Sleepers
  <2>3. SlowWorkers' = SlowWorkers
    BY <1>10 DEF Counted, TypeOK, WorkerPCs, HolderPCs, WorkerRun, SlowWorkers
  <2>4. Rest'
    <3>1. once
      BY <1>10 DEF Counted, WorkerRun
    <3>2. pc \in [Workers -> WorkerPCs] /\ cur \in [Workers -> Reqs \cup {None}]
      BY DEF Counted, TypeOK
    <3>3. \A v \in Workers : pc'[v] \in HolderPCs => cur'[v] \in Reqs
      BY <1>10, <3>2 DEF Counted, HolderPCs, WorkerRun
    <3>4. \A v \in Workers : is_slow_work'[v] => pc'[v] \in HolderPCs \cup {"lock"}
      BY <1>10, <3>2 DEF Counted, HolderPCs, WorkerRun
    <3>5. UNCHANGED <<once, loop_pc, creq>>
      BY <1>10 DEF WorkerRun
    <3> QED BY <3>1, <3>3, <3>4, <3>5 DEF Counted
  <2>5. Sleepers \in SUBSET Workers /\ SlowWorkers \in SUBSET Workers
    BY DEF Sleepers, SlowWorkers
  <2> QED BY <1>10, <2>1, <2>2, <2>3, <2>4, <2>5, CountWorkers DEF Counted, WorkerRun, AtThreshold
<1>11. ASSUME NEW w \in Workers, WorkerPublishLock(w) PROVE Counted'
  <2>1. TypeOK'
    BY <1>11 DEF Counted, TypeOK, WorkerPCs, HolderPCs, WorkerPublishLock
  <2>2. Sleepers' = Sleepers
    BY <1>11 DEF Counted, TypeOK, WorkerPCs, HolderPCs, WorkerPublishLock, Sleepers
  <2>3. SlowWorkers' = SlowWorkers
    BY <1>11 DEF Counted, TypeOK, WorkerPCs, HolderPCs, WorkerPublishLock, SlowWorkers
  <2>4. Rest'
    <3>1. once
      BY <1>11 DEF Counted, WorkerPublishLock
    <3>2. pc \in [Workers -> WorkerPCs] /\ cur \in [Workers -> Reqs \cup {None}]
      BY DEF Counted, TypeOK
    <3>3. \A v \in Workers : pc'[v] \in HolderPCs => cur'[v] \in Reqs
      BY <1>11, <3>2 DEF Counted, HolderPCs, WorkerPublishLock
    <3>4. \A v \in Workers : is_slow_work'[v] => pc'[v] \in HolderPCs \cup {"lock"}
      BY <1>11, <3>2 DEF Counted, HolderPCs, WorkerPublishLock
    <3>5. UNCHANGED <<once, loop_pc, creq>>
      BY <1>11 DEF WorkerPublishLock
    <3> QED BY <3>1, <3>3, <3>4, <3>5 DEF Counted
  <2>5. Sleepers \in SUBSET Workers /\ SlowWorkers \in SUBSET Workers
    BY DEF Sleepers, SlowWorkers
  <2> QED BY <1>11, <2>1, <2>2, <2>3, <2>4, <2>5, CountWorkers DEF Counted, WorkerPublishLock, AtThreshold
<1>12. ASSUME NEW w \in Workers, WorkerPublish(w) PROVE Counted'
  <2>1. TypeOK'
    BY <1>12, QueueTypes DEF Counted, TypeOK, WorkerPCs, HolderPCs, WorkerPublish, AsyncSend
  <2>2. Sleepers' = Sleepers
    BY <1>12 DEF Counted, TypeOK, WorkerPCs, HolderPCs, WorkerPublish, AsyncSend, Sleepers
  <2>3. SlowWorkers' = SlowWorkers
    BY <1>12 DEF Counted, TypeOK, WorkerPCs, HolderPCs, WorkerPublish, AsyncSend, SlowWorkers
  <2>4. Rest'
    <3>1. once
      BY <1>12 DEF Counted, WorkerPublish
    <3>2. pc \in [Workers -> WorkerPCs] /\ cur \in [Workers -> Reqs \cup {None}]
      BY DEF Counted, TypeOK
    <3>3. \A v \in Workers : pc'[v] \in HolderPCs => cur'[v] \in Reqs
      BY <1>12, <3>2 DEF Counted, HolderPCs, WorkerPublish
    <3>4. \A v \in Workers : is_slow_work'[v] => pc'[v] \in HolderPCs \cup {"lock"}
      BY <1>12, <3>2 DEF Counted, HolderPCs, WorkerPublish
    <3>5. UNCHANGED <<once, loop_pc, creq>>
      BY <1>12 DEF WorkerPublish
    <3> QED BY <3>1, <3>3, <3>4, <3>5 DEF Counted
  <2>5. Sleepers \in SUBSET Workers /\ SlowWorkers \in SUBSET Workers
    BY DEF Sleepers, SlowWorkers
  <2> QED BY <1>12, <2>1, <2>2, <2>3, <2>4, <2>5, CountWorkers DEF Counted, WorkerPublish, AsyncSend, AtThreshold
<1>13. ASSUME NEW l \in Loops, InitOnce(l) PROVE Counted'
  <2>1. TypeOK'
    BY <1>13 DEF Counted, TypeOK, WorkerPCs, HolderPCs, InitOnce, InitQueues, Items, UserCode
  <2>2. Sleepers' = Sleepers /\ SlowWorkers' = SlowWorkers
    BY <1>13 DEF Counted, TypeOK, WorkerPCs, HolderPCs, InitOnce, InitQueues, Sleepers, SlowWorkers
  <2>3. Rest'
    BY <1>13 DEF Counted, TypeOK, WorkerPCs, HolderPCs, InitOnce, InitQueues
  <2> QED BY <1>13, <2>1, <2>2, <2>3 DEF Counted, InitOnce, InitQueues
<1>14. ASSUME NEW l \in Loops, NEW r \in Reqs, NEW slow \in BOOLEAN, Submit(l, r, slow) PROVE Counted'
  <2>0. /\ pc' \in [Workers -> WorkerPCs]
        /\ \A v \in Workers : pc'[v] = pc[v] \/ (pc[v] = "wait" /\ pc'[v] = "woken")
    <3>1. pc \in [Workers -> WorkerPCs]
      BY DEF Counted, TypeOK
    <3>2. pc' = pc \/ pc' \in CondSignal(pc) \cup SignalIfIdle(pc)
      BY <1>14 DEF Submit, Post, PostSlow
    <3> QED BY <3>1, <3>2, SignalWakes
  <2>1. TypeOK'
    <3>1. wq \in Seq(Items) /\ r \in Items /\ RunSlow \in Items
      BY DEF Counted, TypeOK, Items
    <3>2. wq' \in Seq(Items) /\ slow_io_pending_wq' \in Seq(Reqs)
      <4>1. CASE slow
        <5>1. slow_io_pending_wq' \in Seq(Reqs)
          <6>1. slow_io_pending_wq' = QueueInsertTail(slow_io_pending_wq, r)
            BY <1>14, <4>1 DEF Submit, PostSlow
          <6> QED BY <6>1, QueueTypes DEF Counted, TypeOK
        <5>2. wq' = wq \/ wq' = QueueInsertTail(wq, RunSlow)
          BY <1>14, <4>1 DEF Submit, PostSlow
        <5> QED BY <3>1, <5>1, <5>2, QueueTypes
      <4>2. CASE ~ slow
        <5>1. slow_io_pending_wq' = slow_io_pending_wq /\ wq' = QueueInsertTail(wq, r)
          BY <1>14, <4>2 DEF Submit, Post
        <5> QED BY <3>1, <5>1, QueueTypes DEF Counted, TypeOK
      <4> QED BY <4>1, <4>2
    <3>3. submits' \in 0 .. MaxSubmits
      <4>1. submits \in 0 .. MaxSubmits /\ submits < MaxSubmits /\ submits' = submits + 1
        BY <1>14 DEF Counted, TypeOK, Submit
      <4> QED BY <4>1, BoundsAssumption
    <3>4. /\ active' \in [Reqs -> BOOLEAN] /\ executed' \in [Reqs -> BOOLEAN]
          /\ w_loop' \in [Reqs -> Loops] /\ work' \in [Reqs -> {"fn", "null", "cancelled"}]
      BY <1>14 DEF Counted, TypeOK, Submit
    <3>5. active_reqs' \in [Loops -> Int]
      <4>1. /\ active_reqs \in [Loops -> Int]
            /\ active_reqs' = [active_reqs EXCEPT ![l] = @ + 1]
        BY <1>14 DEF Counted, TypeOK, Submit
      <4> QED BY <4>1
    <3>6. UNCHANGED <<once, mutex, idle_threads, slow_io_work_running, cur, is_slow_work,
                      wq_mutex, loop_wq, wq_async, loop_pc, local_wq, creq, shutdown, cancels>>
      BY <1>14 DEF Submit
    <3> QED BY <2>0, <3>2, <3>3, <3>4, <3>5, <3>6 DEF Counted, TypeOK
  <2>2. Sleepers' = Sleepers /\ SlowWorkers' = SlowWorkers
    BY <1>14, <2>0 DEF Counted, TypeOK, WorkerPCs, HolderPCs, Submit, Post, PostSlow, Sleepers, SlowWorkers
  <2>3. Rest'
    BY <1>14, <2>0, QueueTypes DEF Counted, TypeOK, WorkerPCs, HolderPCs, Submit, Post, PostSlow
  <2> QED BY <1>14, <2>1, <2>2, <2>3 DEF Counted, Submit, Post, PostSlow
<1>15. ASSUME NEW l \in Loops, NEW r \in Reqs, CancelLock(l, r) PROVE Counted'
  <2>1. TypeOK'
    <3>1. cancels' \in 0 .. MaxCancels
      <4>1. cancels \in 0 .. MaxCancels /\ cancels < MaxCancels /\ cancels' = cancels + 1
        BY <1>15 DEF Counted, TypeOK, CancelLock
      <4> QED BY <4>1, BoundsAssumption
    <3> QED BY <1>15, <3>1 DEF Counted, TypeOK, CancelLock
  <2>2. Sleepers' = Sleepers /\ SlowWorkers' = SlowWorkers
    BY <1>15 DEF Counted, TypeOK, WorkerPCs, HolderPCs, CancelLock, Sleepers, SlowWorkers
  <2>3. Rest'
    BY <1>15 DEF Counted, TypeOK, WorkerPCs, HolderPCs, CancelLock
  <2> QED BY <1>15, <2>1, <2>2, <2>3 DEF Counted, CancelLock
<1>16. ASSUME NEW l \in Loops, CancelUnlink(l) PROVE Counted'
  <2>1. TypeOK'
    BY <1>16, QueueTypes DEF Counted, TypeOK, WorkerPCs, HolderPCs, CancelUnlink, Items, UserCode
  <2>2. Sleepers' = Sleepers /\ SlowWorkers' = SlowWorkers
    BY <1>16 DEF Counted, TypeOK, WorkerPCs, HolderPCs, CancelUnlink, Sleepers, SlowWorkers
  <2>3. Rest'
    <3>1. loop_pc \in [Loops -> {"user", "work_done", "cancel_locked", "cancel_publish"}]
      BY DEF Counted, TypeOK
    <3>2. UNCHANGED <<once, pc, cur, is_slow_work, creq>>
      BY <1>16 DEF CancelUnlink
    <3>3. \A k \in Loops : loop_pc'[k] \in {"cancel_locked", "cancel_publish"} => creq[k] \in Reqs
      BY <1>16, <3>1 DEF Counted, CancelUnlink
    <3>4. \A e : QueueRemove(<<>>, e) = <<>>
      BY DEF QueueRemove, InQueue, Range
    <3>5. ~ once => wq' = <<>> /\ slow_io_pending_wq' = <<>>
      BY <1>16, <3>4 DEF Counted, CancelUnlink
    <3> QED BY <3>2, <3>3, <3>5 DEF Counted
  <2> QED BY <1>16, <2>1, <2>2, <2>3 DEF Counted, CancelUnlink
<1>17. ASSUME NEW l \in Loops, CancelBusy(l) PROVE Counted'
  <2>1. TypeOK'
    BY <1>17 DEF Counted, TypeOK, WorkerPCs, HolderPCs, CancelBusy, Items, UserCode
  <2>2. Sleepers' = Sleepers /\ SlowWorkers' = SlowWorkers
    BY <1>17 DEF Counted, TypeOK, WorkerPCs, HolderPCs, CancelBusy, Sleepers, SlowWorkers
  <2>3. Rest'
    BY <1>17 DEF Counted, TypeOK, WorkerPCs, HolderPCs, CancelBusy
  <2> QED BY <1>17, <2>1, <2>2, <2>3 DEF Counted, CancelBusy
<1>18. ASSUME NEW l \in Loops, CancelPublish(l) PROVE Counted'
  <2>1. TypeOK'
    BY <1>18, QueueTypes DEF Counted, TypeOK, WorkerPCs, HolderPCs, CancelPublish, AsyncSend, Items, UserCode
  <2>2. Sleepers' = Sleepers /\ SlowWorkers' = SlowWorkers
    BY <1>18 DEF Counted, TypeOK, WorkerPCs, HolderPCs, CancelPublish, AsyncSend, Sleepers, SlowWorkers
  <2>3. Rest'
    BY <1>18, QueueTypes DEF Counted, TypeOK, WorkerPCs, HolderPCs, CancelPublish, AsyncSend
  <2> QED BY <1>18, <2>1, <2>2, <2>3 DEF Counted, CancelPublish, AsyncSend
<1>19. ASSUME NEW l \in Loops, AsyncIo(l) PROVE Counted'
  <2>1. TypeOK'
    BY <1>19 DEF Counted, TypeOK, WorkerPCs, HolderPCs, AsyncIo, Items, UserCode
  <2>2. Sleepers' = Sleepers /\ SlowWorkers' = SlowWorkers
    BY <1>19 DEF Counted, TypeOK, WorkerPCs, HolderPCs, AsyncIo, Sleepers, SlowWorkers
  <2>3. Rest'
    BY <1>19 DEF Counted, TypeOK, WorkerPCs, HolderPCs, AsyncIo
  <2> QED BY <1>19, <2>1, <2>2, <2>3 DEF Counted, AsyncIo
<1>20. ASSUME NEW l \in Loops, WorkDone(l) PROVE Counted'
  <2>1. TypeOK'
    <3>1. <<>> \in Seq(Reqs)
      OBVIOUS
    <3> QED BY <1>20, <3>1 DEF Counted, TypeOK, WorkDone
  <2>2. Sleepers' = Sleepers /\ SlowWorkers' = SlowWorkers
    BY <1>20 DEF Counted, TypeOK, WorkerPCs, HolderPCs, WorkDone, Sleepers, SlowWorkers
  <2>3. Rest'
    BY <1>20 DEF Counted, TypeOK, WorkerPCs, HolderPCs, WorkDone
  <2> QED BY <1>20, <2>1, <2>2, <2>3 DEF Counted, WorkDone
<1>21. ASSUME NEW l \in Loops, Done(l) PROVE Counted'
  <2>1. TypeOK'
    <3>1. QueuePop(local_wq[l]) \in Seq(Reqs) /\ QueueHead(local_wq[l]) \in Reqs
      BY <1>21, QueueTypes DEF Counted, TypeOK, Done, Unregister, QueueEmpty
    <3>2. active_reqs' \in [Loops -> Int]
      <4>1. active_reqs \in [Loops -> Int] /\ Unregister(l)
        BY <1>21 DEF Counted, TypeOK, Done
      <4> QED BY <4>1 DEF Unregister
    <3>3. local_wq' \in [Loops -> Seq(Reqs)]
      BY <1>21, <3>1 DEF Counted, TypeOK, Done, Unregister
    <3>4. active' \in [Reqs -> BOOLEAN]
      BY <1>21, <3>1 DEF Counted, TypeOK, Done, Unregister
    <3> QED BY <1>21, <3>2, <3>3, <3>4 DEF Counted, TypeOK, Done, Unregister
  <2>2. Sleepers' = Sleepers /\ SlowWorkers' = SlowWorkers
    BY <1>21 DEF Counted, TypeOK, WorkerPCs, HolderPCs, Done, Unregister, QueueEmpty, Sleepers, SlowWorkers
  <2>3. Rest'
    BY <1>21, QueueTypes DEF Counted, TypeOK, WorkerPCs, HolderPCs, Done, Unregister, QueueEmpty
  <2> QED BY <1>21, <2>1, <2>2, <2>3 DEF Counted, Done, Unregister, QueueEmpty
<1>22. ASSUME Cleanup PROVE Counted'
  <2>0. /\ pc' \in [Workers -> WorkerPCs]
        /\ \A v \in Workers : pc'[v] = pc[v] \/ (pc[v] = "wait" /\ pc'[v] = "woken")
    <3>1. pc \in [Workers -> WorkerPCs]
      BY DEF Counted, TypeOK
    <3>2. pc' = pc \/ pc' \in CondSignal(pc) \cup SignalIfIdle(pc)
      BY <1>22 DEF Cleanup, Post
    <3> QED BY <3>1, <3>2, SignalWakes
  <2>1. TypeOK'
    BY <1>22, <2>0, QueueTypes DEF Counted, TypeOK, WorkerPCs, HolderPCs, Cleanup, Post, Items, UserCode
  <2>2. Sleepers' = Sleepers /\ SlowWorkers' = SlowWorkers
    BY <1>22, <2>0 DEF Counted, TypeOK, WorkerPCs, HolderPCs, Cleanup, Post, Sleepers, SlowWorkers
  <2>3. Rest'
    BY <1>22, <2>0, QueueTypes DEF Counted, TypeOK, WorkerPCs, HolderPCs, Cleanup, Post
  <2> QED BY <1>22, <2>1, <2>2, <2>3 DEF Counted, Cleanup, Post
<1>23. ASSUME CleanupJoined PROVE Counted'
  <2>1. TypeOK'
    BY <1>23 DEF Counted, TypeOK, WorkerPCs, HolderPCs, CleanupJoined, Items, UserCode
  <2>2. Sleepers' = Sleepers /\ SlowWorkers' = SlowWorkers
    BY <1>23 DEF Counted, TypeOK, WorkerPCs, HolderPCs, CleanupJoined, Sleepers, SlowWorkers
  <2>3. Rest'
    BY <1>23 DEF Counted, TypeOK, WorkerPCs, HolderPCs, CleanupJoined
  <2> QED BY <1>23, <2>1, <2>2, <2>3 DEF Counted, CleanupJoined
<1>24. CASE UNCHANGED vars
  BY <1>24 DEF Counted, TypeOK, vars, Sleepers, SlowWorkers
<1> QED
  BY <1>1, <1>2, <1>3, <1>4, <1>5, <1>6, <1>7, <1>8, <1>9, <1>10, <1>11, <1>12, <1>13, <1>14,
     <1>15, <1>16, <1>17, <1>18, <1>19, <1>20, <1>21, <1>22, <1>23, <1>24
     DEF Next, WorkerStep, LoopStep, UserStep
\* Types, counters and the slow-work limit hold in every reachable state.
LEMMA CountedAlways == Spec => []Counted
BY CountedInit, CountedNext, PTL DEF Spec

\* Every variable of the pool keeps its type; in particular the unsigned
\* counters idle_threads and slow_io_work_running are never decremented at 0.
THEOREM TypeCorrect == Spec => []TypeOK
<1>1. Counted => TypeOK
  BY DEF Counted
<1> QED BY <1>1, CountedAlways, PTL

\* slow_io_work_running is the number of workers that run slow requests, and
\* for every pool size at most half of the workers, rounded up, do so.
THEOREM SlowBounded == Spec => []SlowBound
<1>1. Counted => SlowBound
  BY DEF Counted, SlowBound, SlowWorkers
<1> QED BY <1>1, CountedAlways, PTL
=============================================================================
