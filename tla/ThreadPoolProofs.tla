---------------------------- MODULE ThreadPoolProofs ----------------------------
(***************************************************************************)
(* Proofs of the safety properties of ThreadPool, for any number of        *)
(* threads, tasks and committers, any queue length and every strategy of   *)
(* close.                                                                  *)
(*                                                                         *)
(* SettledOnce follows from PlacesInv: a step that settles a task takes it *)
(* from the one place it is in.  NothingLeftBehindIfQuiet and              *)
(* NoThreadLeftIfStarted follow from ClosingInv.                           *)
(***************************************************************************)
EXTENDS ThreadPoolInvariants, TLAPS

USE DEF exceptWorkers, exceptManager, exceptClosing

\* The core threads are threads, and so are the dynamic ones.
LEMMA KindsOfThreads == CoreThreads \subseteq Threads /\ DynamicThreads \subseteq Threads
  BY ThreadsAssumption DEF CoreThreads, DynamicThreads, Threads

\* A notification only wakes threads that were asleep.
LEMMA OnlySleepersWake ==
  ASSUME NEW w \in [Threads -> WorkerStates], NEW v,
         v = Woken(w) \/ v \in OneWoken(w)
  PROVE  /\ v \in [Threads -> WorkerStates]
         /\ \A i \in Threads : v[i] = w[i] \/ (w[i] = "asleep" /\ v[i] = "testing")
  <1>1. CASE v = Woken(w)
    BY <1>1 DEF Woken, WorkerStates
  <1>2. CASE v \in OneWoken(w)
    <2>1. CASE v = w
      BY <2>1
    <2>2. CASE \E i \in Threads : w[i] = "asleep" /\ v = [w EXCEPT ![i] = "testing"]
      BY <2>2 DEF WorkerStates
    <2>3. QED  BY <1>2, <2>1, <2>2 DEF OneWoken
  <1>3. QED  BY <1>1, <1>2

\* The tasks of a batch are a sequence of distinct tasks.
LEMMA BatchesAreSequences ==
  ASSUME NEW ts \in Batches
  PROVE  /\ ts \in Seq(Tasks)
         /\ \A j, k \in 1 .. Len(ts) : ts[j] = ts[k] => j = k
  <1>1. PICK n \in 1 .. MaxBatch :
          ts \in [1 .. n -> Tasks] /\ \A j, k \in 1 .. n : ts[j] = ts[k] => j = k
    BY DEF Batches
  <1>2. n \in Nat
    BY <1>1, QueueAssumption
  <1>3. ts \in Seq(Tasks)
    BY <1>1, <1>2
  <1>4. Len(ts) = n
    BY <1>1, <1>2, <1>3
  <1>5. QED  BY <1>1, <1>3, <1>4
--------------------------------------------------------------------------------
\* Initially every variable has its type.
LEMMA InitTyped == Init => TypeOK
  <1> SUFFICES ASSUME Init PROVE TypeOK
    OBVIOUS
  <1>1. queueTask \in Seq(Tasks) /\ Len(queueTask) <= QueueMaxSize
    BY QueueAssumption DEF Init
  <1>2. committing \in [Committers -> Seq(Tasks)]
    BY DEF Init
  <1>3. /\ workers \in [Threads -> WorkerStates]
        /\ current \in [Threads -> Tasks \cup {NoTask}]
        /\ isRunning \in [DynamicThreads -> BOOLEAN]
        /\ state \in [Tasks -> TaskStates]
    BY DEF Init, WorkerStates, TaskStates
  <1>4. isStart \in BOOLEAN /\ runState \in BOOLEAN /\ stopCommitState \in BOOLEAN
    BY Zenon DEF Init
  <1>5. /\ manager \in ManagerStates /\ closing \in CloseStates
        /\ vacantThreadsCount \in Int
        /\ atClose \in {"none", "unstarted", "committing", "quiet"}
    BY DEF Init, ManagerStates, CloseStates
  <1>6. QED  BY <1>1, <1>2, <1>3, <1>4, <1>5, Zenon DEF TypeOK

\* A commit that looks at the flags keeps the types.
LEMMA CommitTyped ==
  ASSUME TypeOK, NEW c \in Committers, NEW ts \in Batches, Commit(c, ts)
  PROVE  TypeOK'
  <1>1. ts \in Seq(Tasks)
    BY BatchesAreSequences
  <1>2. isStart' \in BOOLEAN /\ runState' \in BOOLEAN
    BY Zenon DEF Commit, Start, TypeOK
  <1>3. vacantThreadsCount' \in Int /\ manager' \in ManagerStates
    BY ThreadsAssumption DEF Commit, Start, TypeOK, ManagerStates
  <1>4. workers' \in [Threads -> WorkerStates]
    BY DEF Commit, Start, TypeOK, WorkerStates
  <1>5. state' \in [Tasks -> TaskStates]
    BY DEF Commit, MarkAll, TypeOK, TaskStates
  <1>6. committing' \in [Committers -> Seq(Tasks)]
    BY <1>1 DEF Commit, TypeOK
  <1>7. QED
    BY <1>2, <1>3, <1>4, <1>5, <1>6 DEF Commit, closeVars, TypeOK

\* Putting tasks into the queue keeps the types, and the queue within its bound.
LEMMA EnqueueTyped ==
  ASSUME TypeOK, NEW c \in Committers, Enqueue(c)
  PROVE  TypeOK'
  <1> DEFINE ts == committing[c]
             n  == IF Room < Len(ts) THEN Room ELSE Len(ts)
  <1>1. ts \in Seq(Tasks) /\ queueTask \in Seq(Tasks) /\ Room \in Nat
    BY QueueAssumption DEF TypeOK, Room
  <1>2. n \in Nat /\ n <= Room /\ n <= Len(ts)
    BY <1>1
  <1>3. SubSeq(ts, 1, n) \in Seq(Tasks) /\ Len(SubSeq(ts, 1, n)) = n
    BY <1>1, <1>2
  <1>4. queueTask' = queueTask \o SubSeq(ts, 1, n)
    BY DEF Enqueue
  <1>5. queueTask' \in Seq(Tasks) /\ Len(queueTask') <= QueueMaxSize
    BY <1>1, <1>2, <1>3, <1>4, QueueAssumption DEF Room, TypeOK
  <1>6. workers' \in [Threads -> WorkerStates]
    BY OnlySleepersWake DEF Enqueue, Notified, TypeOK
  <1>7. state' \in [Tasks -> TaskStates]
    BY DEF Enqueue, TypeOK, TaskStates
  <1>8. QED  BY <1>5, <1>6, <1>7 DEF Enqueue, TypeOK, flagVars, closeVars

\* What a worker does keeps the types.
LEMMA WorkerTyped ==
  ASSUME TypeOK, NEW i \in Threads, Working(i) \/ WakeSpuriously(i)
  PROVE  TypeOK'
  <1> USE DEF TypeOK, WorkerStates, TaskStates, flagVars, taskVars, closeVars
  <1>1. CASE Leave(i)           BY <1>1 DEF Leave
  <1>2. CASE TakeTask(i)
    <2>1. /\ Head(queueTask) \in Tasks /\ Tail(queueTask) \in Seq(Tasks)
          /\ Len(Tail(queueTask)) <= QueueMaxSize
      BY <1>2, QueueAssumption DEF TakeTask
    <2>2. /\ workers' \in [Threads -> WorkerStates]
          /\ current' \in [Threads -> Tasks \cup {NoTask}]
          /\ state' \in [Tasks -> TaskStates]
      BY <1>2, <2>1 DEF TakeTask
    <2>3. queueTask' \in Seq(Tasks) /\ Len(queueTask') <= QueueMaxSize
      BY <1>2, <2>1 DEF TakeTask, Popped
    <2>4. vacantThreadsCount' \in Int
      BY <1>2 DEF TakeTask
    <2>5. QED  BY <1>2, <2>2, <2>3, <2>4 DEF TakeTask
  <1>3. CASE Park(i)            BY <1>3 DEF Park
  <1>4. CASE FallAsleep(i)      BY <1>4 DEF FallAsleep
  <1>5. CASE FinishTask(i)
    <2>1. /\ workers' \in [Threads -> WorkerStates]
          /\ current' \in [Threads -> Tasks \cup {NoTask}]
          /\ state' \in [Tasks -> TaskStates]
      BY <1>5 DEF FinishTask
    <2>2. vacantThreadsCount' \in Int
      BY <1>5 DEF FinishTask
    <2>3. QED  BY <1>5, <2>1, <2>2 DEF FinishTask
  <1>6. CASE WakeSpuriously(i)  BY <1>6 DEF WakeSpuriously
  <1>7. QED  BY <1>1, <1>2, <1>3, <1>4, <1>5, <1>6 DEF Working

\* What the manager does keeps the types.
LEMMA ManagerTyped ==
  ASSUME TypeOK, Managing
  PROVE  TypeOK'
  <1> USE DEF TypeOK, WorkerStates, ManagerStates, flagVars, taskVars, closeVars
  <1>1. CASE ManagerTests       BY <1>1 DEF ManagerTests
  <1>2. CASE ManagerDecides     BY <1>2 DEF ManagerDecides
  <1>3. CASE ManagerNotifies    BY <1>3, OnlySleepersWake DEF ManagerNotifies
  <1>4. ASSUME NEW i \in DynamicThreads, addDynamicThread(i)
        PROVE  TypeOK'
    BY <1>4, KindsOfThreads DEF addDynamicThread
  <1>5. ASSUME NEW i \in DynamicThreads, killDynamicThread(i)
        PROVE  TypeOK'
    BY <1>5 DEF killDynamicThread
  <1>6. ASSUME NEW i \in DynamicThreads, ManagerJoins(i)
        PROVE  TypeOK'
    BY <1>6, KindsOfThreads DEF ManagerJoins
  <1>7. QED  BY <1>1, <1>2, <1>3, <1>4, <1>5, <1>6 DEF Managing

\* What close does keeps the types.
LEMMA CloseTyped ==
  ASSUME TypeOK, CloseBegins \/ Closing
  PROVE  TypeOK'
  <1> USE DEF TypeOK, CloseStep, CloseStates, threadVars, flagVars, taskVars
  <1>1. CASE CloseBegins        BY <1>1 DEF CloseBegins
  <1>2. CASE CloseSeesEmpty     BY <1>2 DEF CloseSeesEmpty
  <1>3. CASE CloseJoinsManager  BY <1>3 DEF CloseJoinsManager
  <1>4. CASE CloseStops         BY <1>4 DEF CloseStops
  <1>5. CASE CloseDrops
    BY <1>5, QueueAssumption DEF CloseDrops, MarkAll, TaskStates
  <1>6. CASE CloseNotifies      BY <1>6, OnlySleepersWake DEF CloseNotifies
  <1>7. CASE CloseJoinsWorkers  BY <1>7 DEF CloseJoinsWorkers
  <1>8. QED
    BY <1>1, <1>2, <1>3, <1>4, <1>5, <1>6, <1>7 DEF Closing

\* In every reachable state of the pool every variable has its type, and the
\* queue holds no more than QueueMaxSize tasks.
THEOREM PoolTypeCorrect == Spec => []TypeOK
  <1>1. TypeOK /\ [Next]_vars => TypeOK'
    <2> SUFFICES ASSUME TypeOK, [Next]_vars PROVE TypeOK'
      OBVIOUS
    <2>1. CASE Committing
      BY <2>1, CommitTyped, EnqueueTyped DEF Committing
    <2>2. CASE \E i \in Threads : Working(i) \/ WakeSpuriously(i)
      BY <2>2, WorkerTyped
    <2>3. CASE Managing
      BY <2>3, ManagerTyped
    <2>4. CASE CloseBegins \/ Closing
      BY <2>4, CloseTyped
    <2>5. CASE UNCHANGED vars
      BY <2>5 DEF TypeOK, vars, threadVars, flagVars, taskVars, closeVars
    <2>6. QED  BY <2>1, <2>2, <2>3, <2>4, <2>5 DEF Next, Terminated
  <1>2. QED  BY InitTyped, <1>1, PTL DEF Spec
--------------------------------------------------------------------------------
\* The threads before the pool starts, and those that are told to end.
LEMMA InitThreads == Init => ThreadsInv
  BY KindsOfThreads DEF Init, ThreadsInv, NotStarted, OneDying, Dying

\* No step joins two dying workers, or starts a pool that has threads.
LEMMA ThreadsStep ==
  ASSUME TypeOK, ThreadsInv, [Next]_vars
  PROVE  ThreadsInv'
  <1> USE DEF ThreadsInv, NotStarted, OneDying, Dying
  <1>1. ASSUME NEW c \in Committers, NEW ts \in Batches, Commit(c, ts)
        PROVE  ThreadsInv'
    <2>1. CASE isStart
      BY <1>1, <2>1 DEF Commit, Start, TypeOK
    <2>2. CASE ~isStart
      <3>1. \A i \in DynamicThreads : workers'[i] = "absent"
        BY <1>1, <2>2, KindsOfThreads, ThreadsAssumption
        DEF Commit, Start, CoreThreads, DynamicThreads
      <3>2. isStart'
        BY <1>1, <2>2 DEF Commit, Start
      <3>3. QED  BY <3>1, <3>2
    <2>3. QED  BY <2>1, <2>2
  <1>2. ASSUME NEW c \in Committers, Enqueue(c)
        PROVE  ThreadsInv'
    <2>1. \A i \in Threads : workers'[i] = "absent" <=> workers[i] = "absent"
      BY <1>2, OnlySleepersWake DEF Enqueue, Notified, TypeOK
    <2>2. isStart
      BY <1>2 DEF Enqueue
    <2>3. QED  BY <1>2, <2>1, <2>2, KindsOfThreads DEF Enqueue, flagVars
  <1>3. ASSUME NEW i \in Threads, Working(i) \/ WakeSpuriously(i)
        PROVE  ThreadsInv'
    <2>1. workers[i] # "absent" /\ UNCHANGED <<isStart, isRunning, manager>>
      BY <1>3
      DEF Working, Leave, TakeTask, Park, FallAsleep, FinishTask, WakeSpuriously,
          flagVars
    <2>2. \A j \in Threads : workers'[j] = "absent" <=> workers[j] = "absent"
      BY <1>3
      DEF Working, Leave, TakeTask, Park, FallAsleep, FinishTask, WakeSpuriously,
          TypeOK
    <2>3. QED  BY <2>1, <2>2, KindsOfThreads
  <1>4. ASSUME Managing
        PROVE  ThreadsInv'
    <2>1. isStart /\ isStart'
      BY <1>4
      DEF Managing, ManagerTests, ManagerDecides, ManagerNotifies,
          addDynamicThread, killDynamicThread, ManagerJoins, flagVars
    <2>2. CASE ManagerTests \/ ManagerDecides
      BY <2>1, <2>2 DEF ManagerTests, ManagerDecides
    <2>3. CASE ManagerNotifies
      <3>1. \A i \in Threads : workers'[i] = "absent" <=> workers[i] = "absent"
        BY <2>3, OnlySleepersWake DEF ManagerNotifies, TypeOK
      <3>2. QED  BY <2>1, <2>3, <3>1, KindsOfThreads DEF ManagerNotifies
    <2>4. ASSUME NEW i \in DynamicThreads, addDynamicThread(i)
          PROVE  ThreadsInv'
      BY <2>1, <2>4, KindsOfThreads DEF addDynamicThread, TypeOK
    <2>5. ASSUME NEW i \in DynamicThreads, killDynamicThread(i)
          PROVE  ThreadsInv'
      BY <2>1, <2>5, KindsOfThreads DEF killDynamicThread, TypeOK
    <2>6. ASSUME NEW i \in DynamicThreads, ManagerJoins(i)
          PROVE  ThreadsInv'
      BY <2>1, <2>6, KindsOfThreads DEF ManagerJoins, TypeOK
    <2>7. QED
      BY <1>4, <2>2, <2>3, <2>4, <2>5, <2>6 DEF Managing
  <1>5. ASSUME CloseBegins \/ Closing
        PROVE  ThreadsInv'
    <2>1. CASE CloseNotifies
      <3>1. \A i \in Threads : workers'[i] = "absent" <=> workers[i] = "absent"
        BY <2>1, OnlySleepersWake DEF CloseNotifies, TypeOK
      <3>2. QED  BY <2>1, <3>1, KindsOfThreads DEF CloseNotifies, flagVars, taskVars
    <2>2. CASE ~CloseNotifies
      <3>1. UNCHANGED <<isStart, workers, isRunning, manager, committing>>
        BY <1>5, <2>2
        DEF CloseBegins, Closing, CloseSeesEmpty, CloseJoinsManager, CloseStops,
            CloseDrops, CloseJoinsWorkers, threadVars, flagVars, taskVars
      <3>2. QED  BY <3>1
    <2>3. QED  BY <2>1, <2>2
  <1>6. CASE UNCHANGED vars
    BY <1>6 DEF vars, threadVars, flagVars, taskVars
  <1>7. QED
    BY <1>1, <1>2, <1>3, <1>4, <1>5, <1>6 DEF Next, Committing, Terminated
--------------------------------------------------------------------------------
\* What is settled stays as it is in this step.
Settled == \A t \in Tasks :
  state[t] \in {"finished", "refused", "discarded", "returned"} => state'[t] = state[t]

\* Initially no task is anywhere.
LEMMA InitPlaces == Init => PlacesInv
  BY DEF Init, PlacesInv, QueuedOnce, RunningOnce, OfferedOnce

\* A step that moves no task and neither starts nor ends the run of one.
LEMMA SamePlaces ==
  ASSUME PlacesInv, UNCHANGED <<state, queueTask, committing, current>>,
         \A i \in Threads : workers'[i] = "running" <=> workers[i] = "running"
  PROVE  PlacesInv' /\ Settled
  BY DEF PlacesInv, QueuedOnce, RunningOnce, OfferedOnce, Settled

\* A batch that is offered or refused was new, so it is in no other place.
LEMMA CommitPlaces ==
  ASSUME TypeOK, ThreadsInv, PlacesInv,
         NEW c \in Committers, NEW ts \in Batches, Commit(c, ts)
  PROVE  PlacesInv' /\ Settled
  <1>1. /\ ts \in Seq(Tasks)
        /\ \A j, k \in 1 .. Len(ts) : ts[j] = ts[k] => j = k
    BY BatchesAreSequences
  <1>2. \A j \in 1 .. Len(ts) : ts[j] \in Tasks /\ state[ts[j]] = "new"
    BY <1>1 DEF Commit
  <1>3. \E mark \in {"refused", "offered"} : state' = MarkAll(ts, mark)
    BY DEF Commit
  <1>4. /\ \A t \in Tasks : state[t] # "new" => state'[t] = state[t]
        /\ \A t \in Tasks : state'[t] \in {"queued", "running"} => state'[t] = state[t]
    BY <1>1, <1>2, <1>3 DEF MarkAll, TypeOK
  <1>5. QueuedOnce'
    <2>1. queueTask' = queueTask /\ queueTask \in Seq(Tasks)
      BY DEF Commit, TypeOK
    <2>2. QED  BY <1>4, <2>1 DEF PlacesInv, QueuedOnce
  <1>6. RunningOnce'
    <2>1. \A i \in Threads : workers'[i] = "running" <=> workers[i] = "running"
      BY DEF Commit, Start, ThreadsInv, NotStarted
    <2>2. current' = current
      BY DEF Commit
    <2>3. QED  BY <1>4, <2>1, <2>2 DEF PlacesInv, RunningOnce
  <1>7. OfferedOnce'
    <2>1. CASE stopCommitState
      <3>1. committing' = committing
        BY <2>1 DEF Commit
      <3>2. \A d \in Committers : \A j \in 1 .. Len(committing[d]) :
              committing[d][j] \in Tasks
        BY DEF TypeOK
      <3>3. QED  BY <1>4, <3>1, <3>2 DEF PlacesInv, OfferedOnce
    <2>2. CASE ~stopCommitState
      <3>1. /\ committing' = [committing EXCEPT ![c] = ts]
            /\ state' = MarkAll(ts, "offered")
        BY <2>2 DEF Commit
      <3>2. \A j \in 1 .. Len(ts) : state'[ts[j]] = "offered"
        BY <1>1, <1>2, <3>1 DEF MarkAll
      <3>3. /\ committing'[c] = ts
            /\ \A d \in Committers : d # c => committing'[d] = committing[d]
        BY <3>1 DEF TypeOK
      <3>4. \A d \in Committers : \A j \in 1 .. Len(committing[d]) :
              committing[d][j] \in Tasks /\ state[committing[d][j]] = "offered"
        BY DEF TypeOK, PlacesInv, OfferedOnce
      <3>5. \A d \in Committers : \A j \in 1 .. Len(committing'[d]) :
              state'[committing'[d][j]] = "offered"
        BY <1>4, <3>2, <3>3, <3>4
      <3>6. ASSUME NEW d \in Committers, NEW e \in Committers,
                   NEW j \in 1 .. Len(committing'[d]),
                   NEW k \in 1 .. Len(committing'[e]),
                   committing'[d][j] = committing'[e][k]
            PROVE  d = e /\ j = k
        <4>1. CASE d = c /\ e = c
          BY <1>1, <3>3, <3>6, <4>1
        <4>2. CASE d # c /\ e # c
          BY <3>3, <3>6, <4>2 DEF PlacesInv, OfferedOnce
        <4>3. CASE d = c /\ e # c
          BY <1>2, <3>3, <3>4, <3>6, <4>3
        <4>4. CASE d # c /\ e = c
          BY <1>2, <3>3, <3>4, <3>6, <4>4
        <4>5. QED  BY <4>1, <4>2, <4>3, <4>4
      <3>7. QED  BY <3>5, <3>6 DEF OfferedOnce
    <2>3. QED  BY <2>1, <2>2
  <1>8. Settled
    BY <1>4 DEF Settled
  <1>9. QED  BY <1>5, <1>6, <1>7, <1>8 DEF PlacesInv

\* The batch leaves the committer: its first tasks are queued, the rest refused.
LEMMA EnqueuePlaces ==
  ASSUME TypeOK, PlacesInv, NEW c \in Committers, Enqueue(c)
  PROVE  PlacesInv' /\ Settled
  <1> DEFINE ts == committing[c]
             n  == IF Room < Len(ts) THEN Room ELSE Len(ts)
             L  == Len(queueTask)
  <1>1. ts \in Seq(Tasks) /\ queueTask \in Seq(Tasks) /\ Room \in Nat
    BY QueueAssumption DEF TypeOK, Room
  <1>2. n \in Nat /\ n <= Len(ts) /\ L \in Nat
    BY <1>1
  <1>3. queueTask' = queueTask \o SubSeq(ts, 1, n)
    BY DEF Enqueue
  <1>4. /\ Len(queueTask') = L + n
        /\ \A j \in 1 .. L : queueTask'[j] = queueTask[j]
        /\ \A j \in 1 .. n : queueTask'[L + j] = ts[j]
    <2>1. /\ SubSeq(ts, 1, n) \in Seq(Tasks) /\ Len(SubSeq(ts, 1, n)) = n
          /\ \A j \in 1 .. n : SubSeq(ts, 1, n)[j] = ts[j]
      BY <1>1, <1>2
    <2>2. QED  BY <1>1, <1>2, <1>3, <2>1
  <1>5. /\ \A j \in 1 .. Len(ts) : ts[j] \in Tasks /\ state[ts[j]] = "offered"
        /\ \A j, k \in 1 .. Len(ts) : ts[j] = ts[k] => j = k
    BY <1>1 DEF PlacesInv, OfferedOnce
  <1>6. state' = [t \in Tasks |->
                    IF \E j \in 1 .. n : ts[j] = t THEN "queued"
                    ELSE IF \E j \in n + 1 .. Len(ts) : ts[j] = t THEN "refused"
                    ELSE state[t]]
    BY DEF Enqueue
  <1>7. \A t \in Tasks : state[t] # "offered" => state'[t] = state[t]
    BY <1>1, <1>2, <1>5, <1>6
  <1>8. \A t \in Tasks : state'[t] = "running" => state[t] = "running"
    BY <1>6
  <1>9. \A t \in Tasks :
          state'[t] = "queued" => state[t] = "queued" \/ \E j \in 1 .. n : ts[j] = t
    BY <1>6
  <1>10. QueuedOnce'
    <2>1. \A j \in 1 .. L : queueTask[j] \in Tasks /\ state[queueTask[j]] = "queued"
      BY <1>1 DEF PlacesInv, QueuedOnce
    <2>2. ASSUME NEW j \in 1 .. Len(queueTask')
          PROVE  state'[queueTask'[j]] = "queued"
      <3>1. CASE j \in 1 .. L
        BY <1>4, <1>7, <2>1, <3>1
      <3>2. CASE j \notin 1 .. L
        <4>1. j - L \in 1 .. n /\ j = L + (j - L)
          BY <1>2, <1>4, <3>2
        <4>2. queueTask'[j] = ts[j - L]
          BY <1>4, <4>1
        <4>3. ts[j - L] \in Tasks
          BY <1>2, <1>5, <4>1
        <4>4. QED  BY <1>6, <4>1, <4>2, <4>3
      <3>3. QED  BY <3>1, <3>2
    <2>3. ASSUME NEW t \in Tasks, state'[t] = "queued"
          PROVE  \E j \in 1 .. Len(queueTask') : queueTask'[j] = t
      <3>1. CASE state[t] = "queued"
        <4>1. PICK j \in 1 .. L : queueTask[j] = t
          BY <3>1 DEF PlacesInv, QueuedOnce
        <4>2. j \in 1 .. Len(queueTask') /\ queueTask'[j] = t
          BY <1>2, <1>4, <4>1
        <4>3. QED  BY <4>2
      <3>2. CASE \E j \in 1 .. n : ts[j] = t
        <4>1. PICK j \in 1 .. n : ts[j] = t
          BY <3>2
        <4>2. L + j \in 1 .. Len(queueTask') /\ queueTask'[L + j] = t
          BY <1>2, <1>4, <4>1
        <4>3. QED  BY <4>2
      <3>3. QED  BY <1>9, <2>3, <3>1, <3>2
    <2>4. ASSUME NEW j \in 1 .. Len(queueTask'), NEW k \in 1 .. Len(queueTask'),
                 queueTask'[j] = queueTask'[k]
          PROVE  j = k
      <3>1. \A i \in 1 .. Len(queueTask') : i \in 1 .. L
              \/ /\ i - L \in 1 .. n
                 /\ queueTask'[i] = ts[i - L]
                 /\ state[queueTask'[i]] = "offered"
        <4>1. SUFFICES ASSUME NEW i \in 1 .. Len(queueTask'), i \notin 1 .. L
                       PROVE  /\ i - L \in 1 .. n
                              /\ queueTask'[i] = ts[i - L]
                              /\ state[queueTask'[i]] = "offered"
          OBVIOUS
        <4>2. i - L \in 1 .. n /\ i = L + (i - L)
          BY <1>2, <1>4, <4>1
        <4>3. queueTask'[i] = ts[i - L]
          BY <1>4, <4>2
        <4>4. QED  BY <1>2, <1>5, <4>2, <4>3
      <3>2. CASE j \in 1 .. L /\ k \in 1 .. L
        BY <1>4, <2>4, <3>2 DEF PlacesInv, QueuedOnce
      <3>3. CASE j \notin 1 .. L /\ k \notin 1 .. L
        <4>1. j - L \in 1 .. Len(ts) /\ k - L \in 1 .. Len(ts)
          BY <1>2, <3>1, <3>3
        <4>2. j - L = k - L
          BY <1>5, <2>4, <3>1, <3>3, <4>1
        <4>3. QED  BY <1>2, <4>2
      <3>4. CASE j \in 1 .. L /\ k \notin 1 .. L
        BY <1>4, <2>1, <2>4, <3>1, <3>4
      <3>5. CASE j \notin 1 .. L /\ k \in 1 .. L
        BY <1>4, <2>1, <2>4, <3>1, <3>5
      <3>6. QED  BY <3>2, <3>3, <3>4, <3>5
    <2>5. QED  BY <2>2, <2>3, <2>4 DEF QueuedOnce
  <1>11. RunningOnce'
    <2>1. \A i \in Threads : workers'[i] = "running" <=> workers[i] = "running"
      BY OnlySleepersWake DEF Enqueue, Notified, TypeOK
    <2>2. current' = current
      BY DEF Enqueue
    <2>3. QED  BY <1>7, <1>8, <2>1, <2>2 DEF PlacesInv, RunningOnce
  <1>12. OfferedOnce'
    <2>1. /\ committing'[c] = <<>>
          /\ \A d \in Committers : d # c => committing'[d] = committing[d]
      BY DEF Enqueue, TypeOK
    <2>2. Len(committing'[c]) = 0
      BY <2>1
    <2>3. ASSUME NEW d \in Committers, NEW j \in 1 .. Len(committing'[d])
          PROVE  state'[committing'[d][j]] = "offered"
      <3>1. d # c
        BY <2>2
      <3>2. committing[d] \in Seq(Tasks) /\ j \in 1 .. Len(committing[d])
        BY <2>1, <3>1 DEF TypeOK
      <3>3. committing[d][j] \in Tasks /\ state[committing[d][j]] = "offered"
        BY <3>2 DEF PlacesInv, OfferedOnce
      <3>4. \A k \in 1 .. Len(ts) : ts[k] # committing[d][j]
        BY <3>1, <3>2 DEF PlacesInv, OfferedOnce
      <3>5. state'[committing[d][j]] = state[committing[d][j]]
        BY <1>1, <1>2, <1>6, <3>3, <3>4
      <3>6. QED  BY <2>1, <3>1, <3>3, <3>5
    <2>4. QED  BY <2>1, <2>2, <2>3 DEF PlacesInv, OfferedOnce
  <1>13. Settled
    BY <1>7 DEF Settled
  <1>14. QED  BY <1>10, <1>11, <1>12, <1>13 DEF PlacesInv

\* A worker takes a task from the queue, or finishes the one it runs.
LEMMA WorkerPlaces ==
  ASSUME TypeOK, PlacesInv, NEW i \in Threads, Working(i) \/ WakeSpuriously(i)
  PROVE  PlacesInv' /\ Settled
  <1>1. CASE TakeTask(i)
    <2> DEFINE h == queueTask[1]
               L == Len(queueTask)
    <2>1. /\ queueTask \in Seq(Tasks) /\ L \in Nat /\ L > 0
          /\ Head(queueTask) = h /\ h \in Tasks
          /\ Len(queueTask') = L - 1
          /\ \A j \in 1 .. L - 1 : queueTask'[j] = queueTask[j + 1]
      BY <1>1 DEF TakeTask, Popped, TypeOK
    <2>2. /\ workers[i] = "testing" /\ workers' = [workers EXCEPT ![i] = "running"]
          /\ current' = [current EXCEPT ![i] = h]
          /\ state' = [state EXCEPT ![h] = "running"]
          /\ committing' = committing
      BY <1>1, <2>1 DEF TakeTask
    <2>3. state[h] = "queued"
      BY <2>1 DEF PlacesInv, QueuedOnce
    <2>4. state'[h] = "running" /\ \A t \in Tasks : t # h => state'[t] = state[t]
      BY <2>1, <2>2 DEF TypeOK
    <2>5. QueuedOnce'
      <3>1. ASSUME NEW j \in 1 .. Len(queueTask')
            PROVE  state'[queueTask'[j]] = "queued"
        <4>1. j + 1 \in 1 .. L /\ j + 1 # 1 /\ queueTask'[j] = queueTask[j + 1]
          BY <2>1
        <4>2. /\ queueTask[j + 1] \in Tasks /\ queueTask[j + 1] # h
              /\ state[queueTask[j + 1]] = "queued"
          BY <2>1, <4>1 DEF PlacesInv, QueuedOnce
        <4>3. QED  BY <2>4, <4>1, <4>2
      <3>2. ASSUME NEW t \in Tasks, state'[t] = "queued"
            PROVE  \E j \in 1 .. Len(queueTask') : queueTask'[j] = t
        <4>1. t # h /\ state[t] = "queued"
          BY <2>4, <3>2
        <4>2. PICK j \in 1 .. L : queueTask[j] = t
          BY <4>1 DEF PlacesInv, QueuedOnce
        <4>3. j - 1 \in 1 .. L - 1 /\ queueTask'[j - 1] = t
          BY <2>1, <4>1, <4>2
        <4>4. QED  BY <2>1, <4>3
      <3>3. ASSUME NEW j \in 1 .. Len(queueTask'), NEW k \in 1 .. Len(queueTask'),
                   queueTask'[j] = queueTask'[k]
            PROVE  j = k
        <4>1. /\ j + 1 \in 1 .. L /\ k + 1 \in 1 .. L
              /\ queueTask[j + 1] = queueTask[k + 1]
          BY <2>1, <3>3
        <4>2. j + 1 = k + 1
          BY <4>1 DEF PlacesInv, QueuedOnce
        <4>3. QED  BY <2>1, <4>2
      <3>4. QED  BY <3>1, <3>2, <3>3 DEF QueuedOnce
    <2>6. RunningOnce'
      <3>1. /\ workers'[i] = "running" /\ current'[i] = h
            /\ \A k \in Threads : k # i =>
                 workers'[k] = workers[k] /\ current'[k] = current[k]
        BY <2>2 DEF TypeOK
      <3>2. \A k \in Threads : workers[k] = "running" =>
              k # i /\ current[k] \in Tasks /\ current[k] # h
                /\ state[current[k]] = "running"
        BY <2>2, <2>3 DEF PlacesInv, RunningOnce
      <3>3. \A k \in Threads : workers'[k] = "running" =>
              current'[k] \in Tasks /\ state'[current'[k]] = "running"
        BY <2>1, <2>4, <3>1, <3>2
      <3>4. \A t \in Tasks : state'[t] = "running" =>
              \E k \in Threads : workers'[k] = "running" /\ current'[k] = t
        BY <2>4, <3>1, <3>2 DEF PlacesInv, RunningOnce
      <3>5. \A k, m \in Threads :
              workers'[k] = "running" /\ workers'[m] = "running"
                /\ current'[k] = current'[m] => k = m
        BY <3>1, <3>2 DEF PlacesInv, RunningOnce
      <3>6. QED  BY <3>3, <3>4, <3>5 DEF RunningOnce
    <2>7. OfferedOnce'
      <3>1. \A d \in Committers : \A j \in 1 .. Len(committing[d]) :
              committing[d][j] \in Tasks /\ state[committing[d][j]] = "offered"
        BY DEF TypeOK, PlacesInv, OfferedOnce
      <3>2. QED  BY <2>2, <2>3, <2>4, <3>1 DEF PlacesInv, OfferedOnce
    <2>8. QED  BY <2>3, <2>4, <2>5, <2>6, <2>7 DEF PlacesInv, Settled
  <1>2. CASE FinishTask(i)
    <2> DEFINE h == current[i]
    <2>1. /\ workers[i] = "running" /\ workers' = [workers EXCEPT ![i] = "testing"]
          /\ current' = [current EXCEPT ![i] = NoTask]
          /\ state' = [state EXCEPT ![h] = "finished"]
          /\ queueTask' = queueTask /\ committing' = committing
      BY <1>2 DEF FinishTask
    <2>2. h \in Tasks /\ state[h] = "running"
      BY <2>1 DEF PlacesInv, RunningOnce
    <2>3. state'[h] = "finished" /\ \A t \in Tasks : t # h => state'[t] = state[t]
      BY <2>1, <2>2 DEF TypeOK
    <2>4. QueuedOnce'
      <3>1. \A j \in 1 .. Len(queueTask) : queueTask[j] \in Tasks
        BY DEF TypeOK
      <3>2. QED  BY <2>1, <2>2, <2>3, <3>1 DEF PlacesInv, QueuedOnce
    <2>5. RunningOnce'
      <3>1. /\ workers'[i] = "testing"
            /\ \A k \in Threads : k # i =>
                 workers'[k] = workers[k] /\ current'[k] = current[k]
        BY <2>1 DEF TypeOK
      <3>2. \A k \in Threads : workers'[k] = "running" =>
              k # i /\ workers[k] = "running" /\ current[k] # h
        BY <2>1, <3>1 DEF PlacesInv, RunningOnce
      <3>3. \A k \in Threads : workers'[k] = "running" =>
              current'[k] \in Tasks /\ state'[current'[k]] = "running"
        BY <2>3, <3>1, <3>2 DEF PlacesInv, RunningOnce
      <3>4. \A t \in Tasks : state'[t] = "running" =>
              \E k \in Threads : workers'[k] = "running" /\ current'[k] = t
        BY <2>3, <3>1 DEF PlacesInv, RunningOnce
      <3>5. QED  BY <3>1, <3>2, <3>3, <3>4 DEF PlacesInv, RunningOnce
    <2>6. OfferedOnce'
      <3>1. \A d \in Committers : \A j \in 1 .. Len(committing[d]) :
              committing[d][j] \in Tasks /\ state[committing[d][j]] = "offered"
        BY DEF TypeOK, PlacesInv, OfferedOnce
      <3>2. QED  BY <2>1, <2>2, <2>3, <3>1 DEF PlacesInv, OfferedOnce
    <2>7. QED  BY <2>2, <2>3, <2>4, <2>5, <2>6 DEF PlacesInv, Settled
  <1>3. CASE Leave(i) \/ Park(i) \/ FallAsleep(i) \/ WakeSpuriously(i)
    <2>1. UNCHANGED <<state, queueTask, committing, current>>
      BY <1>3 DEF Leave, Park, FallAsleep, WakeSpuriously, taskVars
    <2>2. \A k \in Threads : workers'[k] = "running" <=> workers[k] = "running"
      BY <1>3 DEF Leave, Park, FallAsleep, WakeSpuriously, TypeOK
    <2>3. QED  BY <2>1, <2>2, SamePlaces
  <1>4. QED  BY <1>1, <1>2, <1>3 DEF Working

\* The manager moves no task.
LEMMA ManagerPlaces ==
  ASSUME TypeOK, ThreadsInv, PlacesInv, Managing
  PROVE  PlacesInv' /\ Settled
  <1>1. UNCHANGED <<state, queueTask, committing, current>>
    BY DEF Managing, ManagerTests, ManagerDecides, ManagerNotifies,
           addDynamicThread, killDynamicThread, ManagerJoins, taskVars
  <1>2. \A k \in Threads : workers'[k] = "running" <=> workers[k] = "running"
    <2>1. CASE ManagerTests \/ ManagerDecides
      BY <2>1 DEF ManagerTests, ManagerDecides
    <2>2. CASE ManagerNotifies
      BY <2>2, OnlySleepersWake DEF ManagerNotifies, TypeOK
    <2>3. ASSUME NEW i \in DynamicThreads, addDynamicThread(i)
          PROVE  \A k \in Threads : workers'[k] = "running" <=> workers[k] = "running"
      <3>1. workers[i] = "absent"
        BY <2>3 DEF addDynamicThread, FirstDynamic, ThreadsInv, OneDying, Dying
      <3>2. QED  BY <2>3, <3>1 DEF addDynamicThread, TypeOK
    <2>4. ASSUME NEW i \in DynamicThreads, killDynamicThread(i) \/ ManagerJoins(i)
          PROVE  \A k \in Threads : workers'[k] = "running" <=> workers[k] = "running"
      BY <2>4 DEF killDynamicThread, ManagerJoins, TypeOK
    <2>5. QED
      BY <2>1, <2>2, <2>3, <2>4 DEF Managing
  <1>3. QED  BY <1>1, <1>2, SamePlaces

\* close drops the tasks that are left in the queue, and moves no other.
LEMMA ClosePlaces ==
  ASSUME TypeOK, PlacesInv, CloseBegins \/ Closing
  PROVE  PlacesInv' /\ Settled
  <1>1. CASE CloseDrops
    <2>1. /\ queueTask' = <<>> /\ workers' = workers /\ current' = current
          /\ committing' = committing
          /\ \E mark \in {"discarded", "returned"} : state' = MarkAll(queueTask, mark)
      BY <1>1 DEF CloseDrops, threadVars
    <2>2. queueTask \in Seq(Tasks)
      BY DEF TypeOK
    <2>3. /\ \A t \in Tasks : state[t] # "queued" => state'[t] = state[t]
          /\ \A t \in Tasks : state'[t] # "queued"
          /\ \A t \in Tasks : state'[t] = "running" => state[t] = "running"
      BY <2>1, <2>2 DEF MarkAll, PlacesInv, QueuedOnce, TypeOK
    <2>4. QueuedOnce'
      BY <2>1, <2>3 DEF QueuedOnce
    <2>5. RunningOnce'
      BY <2>1, <2>3 DEF PlacesInv, RunningOnce
    <2>6. OfferedOnce'
      <3>1. \A d \in Committers : \A j \in 1 .. Len(committing[d]) :
              committing[d][j] \in Tasks /\ state[committing[d][j]] = "offered"
        BY DEF TypeOK, PlacesInv, OfferedOnce
      <3>2. QED  BY <2>1, <2>3, <3>1 DEF PlacesInv, OfferedOnce
    <2>7. QED  BY <2>3, <2>4, <2>5, <2>6 DEF PlacesInv, Settled
  <1>2. CASE CloseNotifies
    BY <1>2, OnlySleepersWake, SamePlaces DEF CloseNotifies, taskVars, TypeOK
  <1>3. CASE ~CloseDrops /\ ~CloseNotifies
    <2>1. UNCHANGED <<state, queueTask, committing, current, workers>>
      BY <1>3
      DEF CloseBegins, Closing, CloseSeesEmpty, CloseJoinsManager, CloseStops,
          CloseJoinsWorkers, threadVars, taskVars
    <2>2. QED  BY <2>1, SamePlaces
  <1>4. QED  BY <1>1, <1>2, <1>3

\* Every step keeps each task in one place and settles a task once.
LEMMA PlacesStep ==
  ASSUME TypeOK, ThreadsInv, PlacesInv, [Next]_vars
  PROVE  PlacesInv' /\ Settled
  <1>1. CASE Committing
    BY <1>1, CommitPlaces, EnqueuePlaces DEF Committing
  <1>2. CASE \E i \in Threads : Working(i) \/ WakeSpuriously(i)
    BY <1>2, WorkerPlaces
  <1>3. CASE Managing
    BY <1>3, ManagerPlaces
  <1>4. CASE CloseBegins \/ Closing
    BY <1>4, ClosePlaces
  <1>5. CASE UNCHANGED vars
    BY <1>5, SamePlaces DEF vars, threadVars, taskVars
  <1>6. QED  BY <1>1, <1>2, <1>3, <1>4, <1>5 DEF Next, Terminated

\* The three inductive parts hold in every reachable state.
THEOREM PoolPlaces == Spec => [](ThreadsInv /\ PlacesInv)
  <1>1. Init => ThreadsInv /\ PlacesInv
    BY InitThreads, InitPlaces
  <1>2. TypeOK /\ ThreadsInv /\ PlacesInv /\ [Next]_vars => (ThreadsInv /\ PlacesInv)'
    BY ThreadsStep, PlacesStep
  <1>3. QED  BY <1>1, <1>2, PoolTypeCorrect, PTL DEF Spec

\* A task that was run, refused, discarded or returned is never touched again,
\* for any number of workers, whatever close does meanwhile.
THEOREM TasksAreSettledOnce == Spec => SettledOnce
  <1>1. TypeOK /\ ThreadsInv /\ PlacesInv /\ [Next]_vars =>
          [\A t \in Tasks :
             state[t] \in {"finished", "refused", "discarded", "returned"} =>
               state'[t] = state[t]]_vars
    BY PlacesStep DEF Settled
  <1>2. QED  BY <1>1, PoolTypeCorrect, PoolPlaces, PTL DEF Spec, SettledOnce
--------------------------------------------------------------------------------
\* Before close is called there is nothing to keep.
LEMMA InitClosing == Init => ClosingInv
  BY DEF Init, ClosingInv, CloseSeen, StaysQuiet, StaysClosed

\* After close was called a commit is refused, and a batch that was already on
\* its way does not count as quiet.
LEMMA CommitClosing ==
  ASSUME TypeOK, ThreadsInv, ClosingInv, Committing
  PROVE  ClosingInv'
  <1>1. UNCHANGED <<closing, atClose, stopCommitState>>
    BY DEF Committing, Commit, Enqueue, closeVars, flagVars
  <1>2. ASSUME NEW c \in Committers, NEW ts \in Batches, Commit(c, ts)
        PROVE  ClosingInv'
    <2>1. isStart' /\ (isStart => UNCHANGED <<workers, manager>>)
      BY <1>2 DEF Commit, Start
    <2>2. \A i \in Threads : workers'[i] = "running" => workers[i] = "running"
      BY <1>2 DEF Commit, Start
    <2>3. queueTask' = queueTask /\ (stopCommitState => committing' = committing)
      BY <1>2 DEF Commit
    <2>4. CloseSeen'
      BY <1>1, <2>1 DEF ClosingInv, CloseSeen
    <2>5. StaysQuiet'
      BY <1>1, <2>2, <2>3 DEF ClosingInv, CloseSeen, StaysQuiet
    <2>6. StaysClosed'
      BY <1>1, <2>1 DEF ClosingInv, CloseSeen, StaysClosed, ManagerGone, WorkersGone
    <2>7. QED  BY <2>4, <2>5, <2>6 DEF ClosingInv
  <1>3. ASSUME NEW c \in Committers, Enqueue(c)
        PROVE  ClosingInv'
    <2>1. committing[c] # <<>> /\ UNCHANGED <<isStart, manager>>
      BY <1>3 DEF Enqueue, flagVars
    <2>2. \A i \in Threads : workers[i] \in {"absent", "ended"} => workers'[i] = workers[i]
      BY <1>3, OnlySleepersWake DEF Enqueue, Notified, TypeOK
    <2>3. CloseSeen'
      BY <1>1, <2>1 DEF ClosingInv, CloseSeen
    <2>4. StaysQuiet'
      BY <1>1, <2>1 DEF ClosingInv, StaysQuiet
    <2>5. StaysClosed'
      BY <1>1, <2>1, <2>2 DEF ClosingInv, StaysClosed, ManagerGone, WorkersGone
    <2>6. QED  BY <2>3, <2>4, <2>5 DEF ClosingInv
  <1>4. QED  BY <1>2, <1>3 DEF Committing

\* Once close has joined a started pool's workers none of them can move, and
\* those of a pool that starts late find no task.
LEMMA WorkerClosing ==
  ASSUME TypeOK, ClosingInv, NEW i \in Threads, Working(i) \/ WakeSpuriously(i)
  PROVE  ClosingInv'
  <1>1. UNCHANGED <<closing, atClose, stopCommitState, isStart, manager, committing>>
    BY DEF Working, Leave, TakeTask, Park, FallAsleep, FinishTask, WakeSpuriously,
           flagVars, taskVars, closeVars
  <1>2. workers[i] \notin {"absent", "ended"}
    BY DEF Working, Leave, TakeTask, Park, FallAsleep, FinishTask, WakeSpuriously
  <1>3. queueTask = <<>> =>
          /\ queueTask' = <<>>
          /\ \A k \in Threads : workers'[k] = "running" => workers[k] = "running"
    BY DEF Working, Leave, TakeTask, Park, FallAsleep, FinishTask, WakeSpuriously,
           taskVars, TypeOK
  <1>4. CloseSeen'
    BY <1>1 DEF ClosingInv, CloseSeen
  <1>5. StaysQuiet'
    BY <1>1, <1>3 DEF ClosingInv, StaysQuiet, EmptiedStates
  <1>6. StaysClosed'
    BY <1>1, <1>2 DEF ClosingInv, StaysClosed, WorkersGone, ManagerGone
  <1>7. QED  BY <1>4, <1>5, <1>6 DEF ClosingInv

\* After close has joined the manager there is none that could add a worker.
LEMMA ManagerClosing ==
  ASSUME TypeOK, ClosingInv, Managing
  PROVE  ClosingInv'
  <1>1. UNCHANGED <<closing, atClose, stopCommitState, isStart, committing, queueTask>>
    BY DEF Managing, ManagerTests, ManagerDecides, ManagerNotifies,
           addDynamicThread, killDynamicThread, ManagerJoins,
           flagVars, taskVars, closeVars
  <1>2. ~ManagerGone
    BY DEF Managing, ManagerTests, ManagerDecides, ManagerNotifies,
           addDynamicThread, killDynamicThread, ManagerJoins, ManagerGone
  <1>3. \A k \in Threads : workers'[k] = "running" => workers[k] = "running"
    <2>1. CASE ManagerNotifies
      BY <2>1, OnlySleepersWake DEF ManagerNotifies, TypeOK
    <2>2. CASE ~ManagerNotifies
      BY <2>2 DEF Managing, ManagerTests, ManagerDecides, addDynamicThread,
                  killDynamicThread, ManagerJoins, TypeOK
    <2>3. QED  BY <2>1, <2>2
  <1>4. CloseSeen'
    BY <1>1 DEF ClosingInv, CloseSeen
  <1>5. StaysQuiet'
    BY <1>1, <1>3 DEF ClosingInv, StaysQuiet
  <1>6. StaysClosed'
    BY <1>1, <1>2 DEF ClosingInv, StaysClosed, ManagerGoneStates
  <1>7. QED  BY <1>4, <1>5, <1>6 DEF ClosingInv

\* Each step of close achieves what the next ones rely on.
LEMMA CloseClosing ==
  ASSUME TypeOK, ThreadsInv, ClosingInv, CloseBegins \/ Closing
  PROVE  ClosingInv'
  <1> USE DEF CloseStep
  <1>1. CASE CloseBegins
    <2>1. /\ closing' \in {"draining", "joiningManager"}
          /\ closing' = "joiningManager" => closeStrategy # "WaitAllTaskFinish"
          /\ stopCommitState'
          /\ UNCHANGED <<isStart, workers, manager, committing, queueTask>>
      BY <1>1 DEF CloseBegins, threadVars, taskVars
    <2>2. /\ atClose' # "none"
          /\ atClose' # "unstarted" => isStart
          /\ atClose' # "committing" => \A c \in Committers : committing[c] = <<>>
      BY <1>1 DEF CloseBegins, ThreadsInv, NotStarted
    <2>3. CloseSeen'
      BY <2>1, <2>2 DEF CloseSeen
    <2>4. StaysQuiet'
      BY <2>1, <2>2 DEF StaysQuiet, EmptiedStates
    <2>5. StaysClosed'
      BY <2>1 DEF StaysClosed, ManagerGoneStates
    <2>6. QED  BY <2>3, <2>4, <2>5 DEF ClosingInv
  <1>2. CASE Closing
    <2>1. /\ closing # "open" /\ closing' # "open"
          /\ UNCHANGED <<atClose, stopCommitState, isStart, manager, committing>>
      BY <1>2
      DEF Closing, CloseSeesEmpty, CloseJoinsManager, CloseStops, CloseDrops,
          CloseNotifies, CloseJoinsWorkers, threadVars, flagVars, taskVars
    <2>2. closing' \in EmptiedStates =>
            queueTask' = <<>> \/ (closing \in EmptiedStates /\ queueTask' = queueTask)
      BY <1>2, StrategyAssumption
      DEF Closing, CloseSeesEmpty, CloseJoinsManager, CloseStops, CloseDrops,
          CloseNotifies, CloseJoinsWorkers, taskVars, EmptiedStates
    <2>3. closing' = "terminated" => CloseJoinsWorkers
      BY <1>2
      DEF Closing, CloseSeesEmpty, CloseJoinsManager, CloseStops, CloseDrops,
          CloseNotifies
    <2>4. closing' = "terminated" => WorkersGone /\ WorkersGone'
      BY <2>3 DEF CloseJoinsWorkers, threadVars, WorkersGone
    <2>5. closing' \in ManagerGoneStates => ManagerGone \/ closing \in ManagerGoneStates
      BY <1>2
      DEF Closing, CloseSeesEmpty, CloseJoinsManager, CloseStops, CloseDrops,
          CloseNotifies, CloseJoinsWorkers, ManagerGoneStates
    <2>6. CloseSeen'
      BY <2>1 DEF ClosingInv, CloseSeen
    <2>7. StaysQuiet'
      <3>1. \A i \in Threads : WorkersGone' => workers'[i] # "running"
        BY DEF WorkersGone
      <3>2. QED  BY <2>1, <2>2, <2>4, <3>1 DEF ClosingInv, StaysQuiet, EmptiedStates
    <2>8. StaysClosed'
      BY <2>1, <2>4, <2>5 DEF ClosingInv, StaysClosed, ManagerGone
    <2>9. QED  BY <2>6, <2>7, <2>8 DEF ClosingInv
  <1>3. QED  BY <1>1, <1>2

\* What close achieves holds in every reachable state.
THEOREM PoolCloses == Spec => []ClosingInv
  <1>1. TypeOK /\ ThreadsInv /\ ClosingInv /\ [Next]_vars => ClosingInv'
    <2> SUFFICES ASSUME TypeOK, ThreadsInv, ClosingInv, [Next]_vars PROVE ClosingInv'
      OBVIOUS
    <2>1. CASE Committing
      BY <2>1, CommitClosing
    <2>2. CASE \E i \in Threads : Working(i) \/ WakeSpuriously(i)
      BY <2>2, WorkerClosing
    <2>3. CASE Managing
      BY <2>3, ManagerClosing
    <2>4. CASE CloseBegins \/ Closing
      BY <2>4, CloseClosing
    <2>5. CASE UNCHANGED vars
      BY <2>5
      DEF vars, threadVars, flagVars, taskVars, closeVars, ClosingInv, CloseSeen,
          StaysQuiet, StaysClosed, ManagerGone, WorkersGone
    <2>6. QED  BY <2>1, <2>2, <2>3, <2>4, <2>5 DEF Next, Terminated
  <1>2. QED  BY InitClosing, <1>1, PoolTypeCorrect, PoolPlaces, PTL DEF Spec

\* When close has returned, every task the pool accepted was run, discarded or
\* returned, provided no commit was past its look at stopCommitState when close
\* set it.
THEOREM CloseLeavesNothingBehind == Spec => []NothingLeftBehindIfQuiet
  <1>1. PlacesInv /\ ClosingInv => NothingLeftBehindIfQuiet
    <2> SUFFICES ASSUME PlacesInv, ClosingInv,
                        atClose # "committing", closing = "terminated",
                        NEW t \in Tasks
                 PROVE  state[t] \notin {"queued", "running"}
      BY DEF NothingLeftBehindIfQuiet, NothingLeftBehind
    <2>1. /\ queueTask = <<>>
          /\ \A i \in Threads : workers[i] # "running"
      BY DEF ClosingInv, StaysQuiet, EmptiedStates
    <2>2. Len(queueTask) = 0
      BY <2>1
    <2>3. state[t] # "queued"
      BY <2>2 DEF PlacesInv, QueuedOnce
    <2>4. state[t] # "running"
      BY <2>1 DEF PlacesInv, RunningOnce
    <2>5. QED  BY <2>3, <2>4
  <1>2. QED  BY <1>1, PoolPlaces, PoolCloses, PTL

\* When close of a pool that had started has returned no thread is left, and
\* none is added any more.
THEOREM CloseLeavesNoThread == Spec => []NoThreadLeftIfStarted
  <1>1. ClosingInv => NoThreadLeftIfStarted
    BY DEF ClosingInv, StaysClosed, WorkersGone, NoThreadLeftIfStarted, NoThreadLeft
  <1>2. QED  BY <1>1, PoolCloses, PTL
================================================================================
