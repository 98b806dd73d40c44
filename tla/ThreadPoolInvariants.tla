-------------------------- MODULE ThreadPoolInvariants --------------------------
(***************************************************************************)
(* What makes the safety properties of ThreadPool inductive: where each    *)
(* task is, which threads exist, and what close has achieved at each of    *)
(* its steps.                                                              *)
(***************************************************************************)
EXTENDS ThreadPool

\* The tasks in the queue are those in state "queued", each once.
QueuedOnce ==
  /\ \A j \in 1 .. Len(queueTask) : state[queueTask[j]] = "queued"
  /\ \A t \in Tasks :
       state[t] = "queued" => \E j \in 1 .. Len(queueTask) : queueTask[j] = t
  /\ \A j, k \in 1 .. Len(queueTask) : queueTask[j] = queueTask[k] => j = k

\* The tasks that threads run are those in state "running", each once.
RunningOnce ==
  /\ \A i \in Threads :
       workers[i] = "running" => current[i] \in Tasks /\ state[current[i]] = "running"
  /\ \A t \in Tasks : state[t] = "running" =>
       \E i \in Threads : workers[i] = "running" /\ current[i] = t
  /\ \A i, j \in Threads :
       workers[i] = "running" /\ workers[j] = "running" /\ current[i] = current[j]
         => i = j

\* The tasks about to be queued are in state "offered", each in one place.
OfferedOnce ==
  /\ \A c \in Committers : \A j \in 1 .. Len(committing[c]) :
       state[committing[c][j]] = "offered"
  /\ \A c, d \in Committers :
       \A j \in 1 .. Len(committing[c]), k \in 1 .. Len(committing[d]) :
         committing[c][j] = committing[d][k] => c = d /\ j = k

PlacesInv == QueuedOnce /\ RunningOnce /\ OfferedOnce

\* The first commit starts the pool: before, there is no thread and no commit.
NotStarted ==
  ~isStart =>
    /\ \A c \in Committers : committing[c] = <<>>
    /\ \A i \in Threads : workers[i] = "absent"
    /\ manager = "absent"

\* A dynamic worker that was told to end and is not joined yet.
Dying(i) == ~isRunning[i] /\ workers[i] # "absent"

\* There is one at most, and the manager is busy with it.
OneDying ==
  \A i, j \in DynamicThreads :
    Dying(i) /\ Dying(j) => i = j /\ manager \in {"killing", "joining"}

ThreadsInv == NotStarted /\ OneDying

\* close has been called when commits are stopped and the pool was looked at.
CloseSeen ==
  /\ stopCommitState <=> closing # "open"
  /\ atClose = "none" <=> closing = "open"
  /\ closing # "open" /\ atClose # "unstarted" => isStart

\* The steps of close at which it has seen the queue empty, or emptied it.
EmptiedStates ==
  IF closeStrategy = "WaitAllTaskFinish"
    THEN {"joiningManager", "stopping", "notifying", "joiningWorkers", "terminated"}
    ELSE {"notifying", "joiningWorkers", "terminated"}

\* A quiet pool stays quiet: no batch under way, nothing queued any more, and
\* nothing running in the end.
StaysQuiet ==
  closing # "open" /\ atClose # "committing" =>
    /\ \A c \in Committers : committing[c] = <<>>
    /\ closing \in EmptiedStates => queueTask = <<>>
    /\ closing = "terminated" => \A i \in Threads : workers[i] # "running"

ManagerGoneStates ==
  {"stopping", "dropping", "notifying", "joiningWorkers", "terminated"}

\* A started pool that is closed loses its manager, then its workers.
StaysClosed ==
  closing # "open" /\ atClose # "unstarted" =>
    /\ closing \in ManagerGoneStates => ManagerGone
    /\ closing = "terminated" => WorkersGone

ClosingInv == CloseSeen /\ StaysQuiet /\ StaysClosed
================================================================================
