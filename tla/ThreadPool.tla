------------------------------- MODULE ThreadPool -------------------------------
(***************************************************************************)
(* muse::pool::ThreadPool: a bounded queue of tasks under one mutex        *)
(* (queueMute) and one condition variable, core workers, dynamic workers   *)
(* that a manager thread adds and kills, and close with its three          *)
(* strategies.                                                             *)
(*                                                                         *)
(* A critical section is one step, taken while nobody holds queueMute,     *)
(* except where the code lets others act in the middle: a worker that      *)
(* found nothing to do still holds the mutex ("parking") until it is in    *)
(* the wait set ("asleep"), and the flags runState, stopCommitState and    *)
(* isRunning are written, and the condition is notified, without the       *)
(* mutex.                                                                  *)
(***************************************************************************)
EXTENDS Integers, Sequences

CONSTANTS
  cores,            \* core workers
  MaxThreadCount,   \* core and dynamic workers
  QueueMaxSize,
  Type,             \* "Fixed" or "Flexible": whether there is a manager
  closeStrategy,
  Tasks,            \* every task is committed once at most
  NoTask,
  Committers,       \* threads that call commit_executor or commit_executors
  MaxBatch          \* bound: tasks in one call of commit_executors

Strategies == {"DiscardAllTasks", "WaitAllTaskFinish", "ReturnTaskAndClose"}

ASSUME ThreadsAssumption ==
  cores \in Nat \ {0} /\ MaxThreadCount \in Nat /\ cores <= MaxThreadCount
ASSUME QueueAssumption == QueueMaxSize \in Nat /\ MaxBatch \in Nat
ASSUME StrategyAssumption ==
  closeStrategy \in Strategies /\ Type \in {"Fixed", "Flexible"}
ASSUME NoTaskAssumption == NoTask \notin Tasks

VARIABLES
  isStart,        \* init has run: the first commit starts the threads
  workers,        \* where each thread is, "absent" before it is created
  current,        \* the task a thread runs
  isRunning,      \* Worker::isRunning of the dynamic workers
  queueTask,
  vacantThreadsCount,
  runState,
  stopCommitState,
  manager,        \* where the manager thread is
  committing,     \* what a committer is about to put in the queue
  closing,        \* where close is, "open" before it is called
  state,          \* history: what became of each task
  atClose         \* history: what the pool was doing when close was called

threadVars == <<workers, current, isRunning, vacantThreadsCount, manager>>
flagVars == <<isStart, runState, stopCommitState>>
taskVars == <<queueTask, committing, state>>
closeVars == <<closing, atClose>>
vars == <<threadVars, flagVars, taskVars, closeVars>>

exceptWorkers == <<current, isRunning, vacantThreadsCount, manager, flagVars,
                   taskVars, closeVars>>
exceptManager == <<workers, current, isRunning, vacantThreadsCount, flagVars,
                   taskVars, closeVars>>
exceptClosing == <<threadVars, flagVars, taskVars, atClose>>

Threads == 0 .. MaxThreadCount - 1
CoreThreads == 0 .. cores - 1
DynamicThreads == cores .. MaxThreadCount - 1

WorkerStates == {"absent", "testing", "parking", "asleep", "running", "ended"}
ManagerStates == {"absent", "top", "sleeping", "adding", "removing", "killing",
                  "joining", "ended"}
CloseStates == {"open", "draining", "joiningManager", "stopping", "dropping",
                "notifying", "joiningWorkers", "terminated"}
TaskStates == {"new", "offered", "refused", "queued", "running", "finished",
               "discarded", "returned"}
--------------------------------------------------------------------------------
Init ==
  /\ isStart = FALSE
  /\ workers = [i \in Threads |-> "absent"]
  /\ current = [i \in Threads |-> NoTask]
  /\ isRunning = [i \in DynamicThreads |-> FALSE]
  /\ queueTask = <<>>
  /\ vacantThreadsCount = 0
  /\ runState = FALSE
  /\ stopCommitState = FALSE
  /\ manager = "absent"
  /\ committing = [c \in Committers |-> <<>>]
  /\ closing = "open"
  /\ state = [t \in Tasks |-> "new"]
  /\ atClose = "none"

\* Only a worker between its test and its wait holds queueMute across steps.
MutexFree == \A i \in Threads : workers[i] # "parking"

\* condition.notify_all and notify_one, applied to the threads as they are in w.
Woken(w) == [i \in Threads |-> IF w[i] = "asleep" THEN "testing" ELSE w[i]]

OneWoken(w) ==
  LET asleep == {i \in Threads : w[i] = "asleep"}
  IN  IF asleep = {} THEN {w} ELSE {[w EXCEPT ![i] = "testing"] : i \in asleep}
--------------------------------------------------------------------------------
\* Committing.

\* init, once: the core workers, and the manager of a pool that can grow.
Start ==
  IF isStart
    THEN UNCHANGED <<isStart, runState, workers, vacantThreadsCount, manager>>
    ELSE /\ isStart' = TRUE
         /\ runState' = TRUE
         /\ workers' = [i \in Threads |->
                          IF i \in CoreThreads THEN "testing" ELSE "absent"]
         /\ vacantThreadsCount' = cores
         /\ manager' = IF Type = "Flexible" /\ cores < MaxThreadCount
                         THEN "top" ELSE "absent"

\* The tasks of one call: distinct ones that nobody committed before.
Batches ==
  UNION {{ts \in [1 .. n -> Tasks] :
            \A j, k \in 1 .. n : ts[j] = ts[k] => j = k} : n \in 1 .. MaxBatch}

MarkAll(ts, mark) ==
  [t \in Tasks |-> IF \E j \in DOMAIN ts : ts[j] = t THEN mark ELSE state[t]]

\* The call starts the pool and looks at stopCommitState, without the mutex.
Commit(c, ts) ==
  /\ committing[c] = <<>>
  /\ \A j \in DOMAIN ts : state[ts[j]] = "new"
  /\ Start
  /\ IF stopCommitState
       THEN /\ state' = MarkAll(ts, "refused")
            /\ UNCHANGED committing
       ELSE /\ state' = MarkAll(ts, "offered")
            /\ committing' = [committing EXCEPT ![c] = ts]
  /\ UNCHANGED <<current, isRunning, queueTask, stopCommitState, closeVars>>

\* Mutant of Room: a task more than the queue may hold.
RoomOffByOne == QueueMaxSize + 1 - Len(queueTask)

Room == QueueMaxSize - Len(queueTask)

\* Mutant of Notified: the notification is forgotten.
NotifiedNobody(ts, n) == {workers}

\* One task that was queued wakes one worker, a batch wakes them all.
Notified(ts, n) ==
  IF Len(ts) > 1 THEN {Woken(workers)}
  ELSE IF n = 1 THEN OneWoken(workers)
  ELSE {workers}

\* Under the mutex, and without a second look at stopCommitState: as many as
\* there is room for are queued, the others refused.
Enqueue(c) ==
  LET ts == committing[c]
      n  == IF Room < Len(ts) THEN Room ELSE Len(ts)
  IN  /\ ts # <<>>
      /\ MutexFree
      /\ queueTask' = queueTask \o SubSeq(ts, 1, n)
      /\ state' = [t \in Tasks |->
                     IF \E j \in 1 .. n : ts[j] = t THEN "queued"
                     ELSE IF \E j \in n + 1 .. Len(ts) : ts[j] = t THEN "refused"
                     ELSE state[t]]
      /\ workers' \in Notified(ts, n)
      /\ committing' = [committing EXCEPT ![c] = <<>>]
      /\ UNCHANGED <<current, isRunning, vacantThreadsCount, manager, flagVars,
                     closeVars>>
--------------------------------------------------------------------------------
\* Workers: coreRun and dynamicRun.

Dismissed(i) == i \in DynamicThreads /\ ~isRunning[i]

\* The pool or the worker was stopped: the thread returns.
Leave(i) ==
  /\ workers[i] = "testing"
  /\ MutexFree
  /\ ~runState \/ Dismissed(i)
  /\ workers' = [workers EXCEPT ![i] = "ended"]
  /\ UNCHANGED exceptWorkers

\* Mutant of Popped: the task stays in the queue.
PoppedNothing(q) == q

Popped(q) == Tail(q)

\* The thread takes the first task.
TakeTask(i) ==
  /\ workers[i] = "testing"
  /\ MutexFree
  /\ runState /\ ~Dismissed(i)
  /\ queueTask # <<>>
  /\ workers' = [workers EXCEPT ![i] = "running"]
  /\ current' = [current EXCEPT ![i] = Head(queueTask)]
  /\ state' = [state EXCEPT ![Head(queueTask)] = "running"]
  /\ queueTask' = Popped(queueTask)
  /\ vacantThreadsCount' = vacantThreadsCount - 1
  /\ UNCHANGED <<isRunning, manager, flagVars, committing, closeVars>>

\* It finds nothing to do, and still holds the mutex.
Park(i) ==
  /\ workers[i] = "testing"
  /\ MutexFree
  /\ runState /\ ~Dismissed(i)
  /\ queueTask = <<>>
  /\ workers' = [workers EXCEPT ![i] = "parking"]
  /\ UNCHANGED exceptWorkers

\* It enters the wait set and releases the mutex.
FallAsleep(i) ==
  /\ workers[i] = "parking"
  /\ workers' = [workers EXCEPT ![i] = "asleep"]
  /\ UNCHANGED exceptWorkers

\* The condition variable may wake a thread for no reason.
WakeSpuriously(i) ==
  /\ workers[i] = "asleep"
  /\ workers' = [workers EXCEPT ![i] = "testing"]
  /\ UNCHANGED exceptWorkers

\* The task returns, or throws, which is caught.
FinishTask(i) ==
  /\ workers[i] = "running"
  /\ workers' = [workers EXCEPT ![i] = "testing"]
  /\ current' = [current EXCEPT ![i] = NoTask]
  /\ state' = [state EXCEPT ![current[i]] = "finished"]
  /\ vacantThreadsCount' = vacantThreadsCount + 1
  /\ UNCHANGED <<isRunning, manager, flagVars, queueTask, committing, closeVars>>
--------------------------------------------------------------------------------
\* The manager: managerThreadTask, addDynamicThread, killDynamicThread.

ManagerTests ==
  /\ manager = "top"
  /\ manager' = IF stopCommitState THEN "ended" ELSE "sleeping"
  /\ UNCHANGED exceptManager

\* dynamicWorkerCount, which only the manager changes.
CanAdd == \E i \in DynamicThreads : ~isRunning[i]
CanRemove == \E i \in DynamicThreads : isRunning[i]

\* It reads vacantThreadsCount once and decides: workers go on in between.
ManagerDecides ==
  /\ manager = "sleeping"
  /\ manager' = IF vacantThreadsCount > 2 /\ CanRemove THEN "removing"
                ELSE IF vacantThreadsCount <= 1 /\ CanAdd THEN "adding"
                ELSE "top"
  /\ UNCHANGED exceptManager

\* Slot i is the first dynamic one whose isRunning is b.
FirstDynamic(i, b) ==
  /\ isRunning[i] = b
  /\ \A j \in DynamicThreads : j < i => isRunning[j] # b

addDynamicThread(i) ==
  /\ manager = "adding"
  /\ FirstDynamic(i, FALSE)
  /\ isRunning' = [isRunning EXCEPT ![i] = TRUE]
  /\ workers' = [workers EXCEPT ![i] = "testing"]
  /\ manager' = "top"
  /\ UNCHANGED <<current, vacantThreadsCount, flagVars, taskVars, closeVars>>

\* It tells the first dynamic worker to end, wakes all workers and joins it.
killDynamicThread(i) ==
  /\ manager = "removing"
  /\ FirstDynamic(i, TRUE)
  /\ isRunning' = [isRunning EXCEPT ![i] = FALSE]
  /\ manager' = "killing"
  /\ UNCHANGED <<workers, current, vacantThreadsCount, flagVars, taskVars,
                 closeVars>>

ManagerNotifies ==
  /\ manager = "killing"
  /\ manager' = "joining"
  /\ workers' = Woken(workers)
  /\ UNCHANGED <<current, isRunning, vacantThreadsCount, flagVars, taskVars,
                 closeVars>>

ManagerJoins(i) ==
  /\ manager = "joining"
  /\ ~isRunning[i]
  /\ workers[i] = "ended"
  /\ workers' = [workers EXCEPT ![i] = "absent"]
  /\ manager' = "top"
  /\ UNCHANGED <<current, isRunning, vacantThreadsCount, flagVars, taskVars,
                 closeVars>>
--------------------------------------------------------------------------------
\* close, called once: ~ThreadPool calls it again only if it has not ended.

CloseStep(from, to) == closing = from /\ closing' = to

CloseBegins ==
  /\ CloseStep("open", IF closeStrategy = "WaitAllTaskFinish"
                         THEN "draining" ELSE "joiningManager")
  /\ stopCommitState' = TRUE
  /\ atClose' = IF ~isStart THEN "unstarted"
                ELSE IF \E c \in Committers : committing[c] # <<>>
                  THEN "committing" ELSE "quiet"
  /\ UNCHANGED <<threadVars, isStart, runState, taskVars>>

\* WaitAllTaskFinish polls until the queue is empty.
CloseSeesEmpty ==
  /\ CloseStep("draining", "joiningManager")
  /\ MutexFree
  /\ queueTask = <<>>
  /\ UNCHANGED exceptClosing

\* Mutant of ManagerGone: the manager is not joined.
ManagerUnjoined == TRUE

ManagerGone == manager \in {"absent", "ended"}

CloseJoinsManager ==
  /\ CloseStep("joiningManager", "stopping")
  /\ ManagerGone
  /\ UNCHANGED exceptClosing

CloseStops ==
  /\ CloseStep("stopping", IF closeStrategy = "WaitAllTaskFinish"
                             THEN "notifying" ELSE "dropping")
  /\ runState' = FALSE
  /\ UNCHANGED <<threadVars, isStart, stopCommitState, taskVars, atClose>>

\* Mutant of CloseMayDrop: the queue is emptied without the mutex.
CloseMayDropUnlocked == TRUE

CloseMayDrop == MutexFree

\* What is left is discarded, or handed back to the caller.
CloseDrops ==
  /\ CloseStep("dropping", "notifying")
  /\ CloseMayDrop
  /\ queueTask' = <<>>
  /\ state' = MarkAll(queueTask, IF closeStrategy = "DiscardAllTasks"
                                   THEN "discarded" ELSE "returned")
  /\ UNCHANGED <<threadVars, flagVars, committing, atClose>>

CloseNotifies ==
  /\ CloseStep("notifying", "joiningWorkers")
  /\ workers' = Woken(workers)
  /\ UNCHANGED <<current, isRunning, vacantThreadsCount, manager, flagVars,
                 taskVars, atClose>>

\* Mutant of WorkersGone: only the core workers are joined.
CoreWorkersGone == \A i \in CoreThreads : workers[i] \in {"absent", "ended"}

WorkersGone == \A i \in Threads : workers[i] \in {"absent", "ended"}

CloseJoinsWorkers ==
  /\ CloseStep("joiningWorkers", "terminated")
  /\ WorkersGone
  /\ UNCHANGED exceptClosing
--------------------------------------------------------------------------------
Committing == \E c \in Committers : Enqueue(c) \/ \E ts \in Batches : Commit(c, ts)

Working(i) ==
  Leave(i) \/ TakeTask(i) \/ Park(i) \/ FallAsleep(i) \/ FinishTask(i)

Managing ==
  \/ ManagerTests \/ ManagerDecides \/ ManagerNotifies
  \/ \E i \in DynamicThreads :
       addDynamicThread(i) \/ killDynamicThread(i) \/ ManagerJoins(i)

Closing ==
  \/ CloseSeesEmpty \/ CloseJoinsManager \/ CloseStops \/ CloseDrops
  \/ CloseNotifies \/ CloseJoinsWorkers

\* close has returned.
Terminated == closing = "terminated" /\ UNCHANGED vars

Next ==
  \/ Committing
  \/ \E i \in Threads : Working(i) \/ WakeSpuriously(i)
  \/ Managing
  \/ CloseBegins
  \/ Closing
  \/ Terminated

Spec == Init /\ [][Next]_vars

\* Every thread of the pool runs when it can, a call under way goes on, and
\* tasks return.  Nobody has to call commit or close, or to wake spuriously.
Fairness ==
  /\ \A c \in Committers : WF_vars(Enqueue(c))
  /\ \A i \in Threads : WF_vars(Working(i))
  /\ WF_vars(Managing)
  /\ WF_vars(Closing)

FairSpec == Spec /\ Fairness
--------------------------------------------------------------------------------
\* Every variable has its type, and the queue holds no more than QueueMaxSize.
TypeOK ==
  /\ isStart \in BOOLEAN
  /\ workers \in [Threads -> WorkerStates]
  /\ current \in [Threads -> Tasks \cup {NoTask}]
  /\ isRunning \in [DynamicThreads -> BOOLEAN]
  /\ queueTask \in Seq(Tasks) /\ Len(queueTask) <= QueueMaxSize
  /\ vacantThreadsCount \in Int
  /\ runState \in BOOLEAN
  /\ stopCommitState \in BOOLEAN
  /\ manager \in ManagerStates
  /\ committing \in [Committers -> Seq(Tasks)]
  /\ closing \in CloseStates
  /\ state \in [Tasks -> TaskStates]
  /\ atClose \in {"none", "unstarted", "committing", "quiet"}

\* A task is settled once: what was run, refused, discarded or returned is not
\* touched again, whatever workers, manager and close do at the same time.
SettledOnce ==
  [][\A t \in Tasks :
       state[t] \in {"finished", "refused", "discarded", "returned"} =>
         state'[t] = state[t]]_vars

NothingLeftBehind ==
  closing = "terminated" =>
    \A t \in Tasks : state[t] \notin {"queued", "running"}

\* close leaves nothing behind: when it has returned, every task the pool
\* accepted was run, discarded or returned, provided no commit was past its look
\* at stopCommitState when close set it (pool.cpp:300: such a commit still puts
\* its task into the queue, after close has looked).
NothingLeftBehindIfQuiet == atClose # "committing" => NothingLeftBehind

NoThreadLeft == closing = "terminated" =>
  \A i \in Threads : workers[i] \in {"absent", "ended"}

\* When close has returned ("termination complete", pool.cpp:379) no thread of
\* the pool is left and none is added, provided the pool had started: the first
\* commit starts the threads even of a closed pool (pool.cpp:294).
NoThreadLeftIfStarted == atClose # "unstarted" => NoThreadLeft

\* A task that was accepted is run, unless close is called first.
EveryTaskRuns ==
  \A t \in Tasks :
    state[t] = "queued" ~> state[t] = "finished" \/ closing # "open"

\* close of a pool that had started returns: every thread is woken
\* (pool.cpp:372) and joined.
StartedCloseReturns ==
  closing # "open" /\ atClose # "unstarted" ~> closing = "terminated"
================================================================================
