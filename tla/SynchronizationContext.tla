------------------------ MODULE SynchronizationContext ------------------------
(***************************************************************************)
(* ETJump::SynchronizationContext (etj_synchronization_context.{h,cpp}):   *)
(* the game thread posts tasks, worker threads run them, and the game      *)
(* thread runs their callbacks once per frame.  The module keeps every     *)
(* lock, every wait on the condition variable and every read of the        *)
(* atomic _running as a step of its own, because the order of those is     *)
(* what the class has to get right.  A task is only an identity; running   *)
(* it may succeed or fail.                                                 *)
(***************************************************************************)
EXTENDS Naturals, Sequences, FiniteSets

CONSTANTS
    Task,      \* the tasks a game may post, each at most once
    Worker,    \* the worker threads (TimerunV2::initialize starts one)
    Main,      \* the game thread
    Free,      \* the owner of a mutex nobody holds
    NoTask     \* a worker's operation pointer when it holds none

ASSUME ThreadAssumption == Main \notin Worker /\ Free \notin Worker /\ Main # Free
ASSUME TaskAssumption == NoTask \notin Task

VARIABLES
    running,           \* _running
    incomplete,        \* _incompleted: posted tasks no worker has taken
    incompleteMutex,   \* owner of _incompletedMutex
    workAvailable,     \* workers blocked on the condition variable
    completed,         \* _completed: finished operations
    completedMutex,    \* owner of _completedMutex
    pc,                \* where each worker is
    operation,         \* the task each worker holds
    outcome,           \* status of the operation each worker holds
    mainPc,            \* where the game thread is
    current,           \* the operation whose callback the game thread runs
    posted,            \* history: every task in the order it was posted
    delivered          \* history: tasks whose callbacks have run, in order

queues == <<incomplete, completed>>
mutexes == <<incompleteMutex, completedMutex>>
workers == <<workAvailable, pc, operation, outcome>>
history == <<posted, delivered>>
vars == <<running, incomplete, incompleteMutex, workAvailable, completed,
          completedMutex, pc, operation, outcome, mainPc, current, posted, delivered>>

Status == {"Incomplete", "Complete", "Error"}

\* An entry of the completed queue.
Operation == [task : Task, status : {"Complete", "Error"}]

\* A finished task as the callbacks saw it: a callback that throws is followed
\* by the error callback of the same task.
Delivery == [task : Task, calls : {"callback", "error", "callbackThenError"}]

WorkerPc == {"idle", "loop", "lock", "test", "granted", "sleep", "waiting",
             "task", "push", "exited"}

MainPc == {"created", "frame", "draining", "callback", "notify", "join", "stopped"}

NoOperation == [task |-> NoTask, status |-> "Complete"]

Init ==
    /\ running = FALSE
    /\ incomplete = <<>>
    /\ incompleteMutex = Free
    /\ workAvailable = {}
    /\ completed = <<>>
    /\ completedMutex = Free
    /\ pc = [w \in Worker |-> "idle"]
    /\ operation = [w \in Worker |-> NoTask]
    /\ outcome = [w \in Worker |-> "Incomplete"]
    /\ mainPc = "created"
    /\ current = NoOperation
    /\ posted = <<>>
    /\ delivered = <<>>

WasPosted(t) == \E i \in 1..Len(posted) : posted[i] = t
WasDelivered(t) == \E i \in 1..Len(delivered) : delivered[i].task = t

-----------------------------------------------------------------------------
(* The game thread.                                                        *)

\* startWorkerThreads: refuses to run twice, then raises _running before the
\* threads exist.
StartWorkerThreads ==
    /\ mainPc = "created"
    /\ ~running
    /\ running' = TRUE
    /\ pc' = [w \in Worker |-> "loop"]
    /\ mainPc' = "frame"
    /\ UNCHANGED <<queues, mutexes, workAvailable, operation, outcome, current, history>>

\* Mutant of NotifyOne: the task is queued but no worker is told.
NotifyNobody == UNCHANGED workAvailable

\* notify_one wakes some blocked worker if there is one.
NotifyOne ==
    \/ workAvailable = {} /\ UNCHANGED workAvailable
    \/ \E w \in workAvailable : workAvailable' = workAvailable \ {w}

\* postTask: the push and the notification both happen under the mutex.  The
\* game thread posts from its frame and from the callback it is running.
PostTask(t) ==
    /\ mainPc \in {"frame", "callback"}
    /\ ~WasPosted(t)
    /\ incompleteMutex = Free
    /\ incomplete' = Append(incomplete, t)
    /\ NotifyOne
    /\ posted' = Append(posted, t)
    /\ UNCHANGED <<running, mutexes, completed, pc, operation, outcome, mainPc,
                   current, delivered>>

\* processCompletedTasks takes the mutex for the whole loop ...
BeginProcessing ==
    /\ mainPc = "frame"
    /\ completedMutex = Free
    /\ completedMutex' = Main
    /\ mainPc' = "draining"
    /\ UNCHANGED <<running, queues, incompleteMutex, workers, current, history>>

\* ... pops the front operation and enters its callback ...
PopCompleted ==
    /\ mainPc = "draining"
    /\ completed # <<>>
    /\ current' = Head(completed)
    /\ completed' = Tail(completed)
    /\ mainPc' = "callback"
    /\ UNCHANGED <<running, incomplete, mutexes, workers, history>>

\* ... which returns, or throws a runtime_error that the error callback gets ...
CallbackReturns ==
    /\ mainPc = "callback"
    /\ \E calls \in IF current.status = "Complete"
                    THEN {"callback", "callbackThenError"}
                    ELSE {"error"} :
          delivered' = Append(delivered, [task |-> current.task, calls |-> calls])
    /\ current' = NoOperation
    /\ mainPc' = "draining"
    /\ UNCHANGED <<running, queues, mutexes, workers, posted>>

\* ... until the queue is empty.
EndProcessing ==
    /\ mainPc = "draining"
    /\ completed = <<>>
    /\ completedMutex' = Free
    /\ mainPc' = "frame"
    /\ UNCHANGED <<running, queues, incompleteMutex, workers, current, history>>

\* stopWorkerThreads lowers _running without taking any mutex ...
StopWorkerThreads ==
    /\ mainPc = "frame"
    /\ running' = FALSE
    /\ mainPc' = "notify"
    /\ UNCHANGED <<queues, mutexes, workers, current, history>>

\* ... wakes every worker that is blocked at this moment ...
NotifyAll ==
    /\ mainPc = "notify"
    /\ workAvailable' = {}
    /\ mainPc' = "join"
    /\ UNCHANGED <<running, queues, mutexes, pc, operation, outcome, current, history>>

\* Mutant of JoinWorkers: the threads are detached instead of joined.
DetachWorkers ==
    /\ mainPc = "join"
    /\ mainPc' = "stopped"
    /\ UNCHANGED <<running, queues, mutexes, workers, current, history>>

\* ... and waits for all of them to return.
JoinWorkers ==
    /\ mainPc = "join"
    /\ \A w \in Worker : pc[w] = "exited"
    /\ mainPc' = "stopped"
    /\ UNCHANGED <<running, queues, mutexes, workers, current, history>>

-----------------------------------------------------------------------------
(* A worker thread.                                                        *)

\* while (_running)
LoopTest(w) ==
    /\ pc[w] = "loop"
    /\ pc' = [pc EXCEPT ![w] = IF running THEN "lock" ELSE "exited"]
    /\ UNCHANGED <<running, queues, mutexes, workAvailable, operation, outcome,
                   mainPc, current, history>>

\* Mutant of LockIncomplete: a plain wait, whose predicate is not tested again
\* once the worker was woken.
LockWithoutRetest(w) ==
    /\ pc[w] = "lock" \/ (pc[w] = "waiting" /\ w \notin workAvailable)
    /\ incompleteMutex = Free
    /\ incompleteMutex' = w
    /\ pc' = [pc EXCEPT ![w] = IF @ = "lock" THEN "test" ELSE "granted"]
    /\ UNCHANGED <<running, queues, completedMutex, workAvailable, operation, outcome,
                   mainPc, current, history>>

\* The mutex is taken at the top of the loop, and again when the wait is over.
LockIncomplete(w) ==
    /\ pc[w] = "lock" \/ (pc[w] = "waiting" /\ w \notin workAvailable)
    /\ incompleteMutex = Free
    /\ incompleteMutex' = w
    /\ pc' = [pc EXCEPT ![w] = "test"]
    /\ UNCHANGED <<running, queues, completedMutex, workAvailable, operation, outcome,
                   mainPc, current, history>>

\* Mutant of TestPredicate: the predicate forgets || !_running.
TestOnlyQueue(w) ==
    /\ pc[w] = "test"
    /\ pc' = [pc EXCEPT ![w] = IF incomplete # <<>> THEN "granted" ELSE "sleep"]
    /\ UNCHANGED <<running, queues, mutexes, workAvailable, operation, outcome,
                   mainPc, current, history>>

\* The predicate of the wait: !_incompleted.empty() || !_running.
TestPredicate(w) ==
    /\ pc[w] = "test"
    /\ pc' = [pc EXCEPT ![w] = IF incomplete # <<>> \/ ~running THEN "granted" ELSE "sleep"]
    /\ UNCHANGED <<running, queues, mutexes, workAvailable, operation, outcome,
                   mainPc, current, history>>

\* The wait gives up the mutex and blocks in one step, but only after the
\* predicate was evaluated.
Sleep(w) ==
    /\ pc[w] = "sleep"
    /\ incompleteMutex' = Free
    /\ workAvailable' = workAvailable \cup {w}
    /\ pc' = [pc EXCEPT ![w] = "waiting"]
    /\ UNCHANGED <<running, queues, completedMutex, operation, outcome, mainPc,
                   current, history>>

\* A condition variable may wake a thread nobody notified.
SpuriousWakeup(w) ==
    /\ w \in workAvailable
    /\ workAvailable' = workAvailable \ {w}
    /\ UNCHANGED <<running, queues, mutexes, pc, operation, outcome, mainPc,
                   current, history>>

\* if (!_running) return: the worker leaves whatever is queued behind.
ExitWorker(w) ==
    /\ pc[w] = "granted"
    /\ ~running
    /\ incompleteMutex' = Free
    /\ pc' = [pc EXCEPT ![w] = "exited"]
    /\ UNCHANGED <<running, queues, completedMutex, workAvailable, operation,
                   outcome, mainPc, current, history>>

\* Mutants of TakeTask: front without pop, the newest task instead of the
\* oldest, and the mutex kept while the task runs.
Take(w, task, rest, owner) ==
    /\ pc[w] = "granted"
    /\ running
    /\ operation' = [operation EXCEPT ![w] = task]
    /\ outcome' = [outcome EXCEPT ![w] = "Incomplete"]
    /\ incomplete' = rest
    /\ incompleteMutex' = owner
    /\ pc' = [pc EXCEPT ![w] = "task"]
    /\ UNCHANGED <<running, completed, completedMutex, workAvailable, mainPc,
                   current, history>>

TakeWithoutPop(w) == Take(w, Head(incomplete), incomplete, Free)
TakeNewest(w) ==
    Take(w, incomplete[Len(incomplete)], SubSeq(incomplete, 1, Len(incomplete) - 1), Free)
TakeKeepingLock(w) == Take(w, Head(incomplete), Tail(incomplete), w)

\* Otherwise it takes the front task and releases the mutex.
TakeTask(w) ==
    /\ pc[w] = "granted"
    /\ running
    /\ operation' = [operation EXCEPT ![w] = Head(incomplete)]
    /\ outcome' = [outcome EXCEPT ![w] = "Incomplete"]
    /\ incomplete' = Tail(incomplete)
    /\ incompleteMutex' = Free
    /\ pc' = [pc EXCEPT ![w] = "task"]
    /\ UNCHANGED <<running, completed, completedMutex, workAvailable, mainPc,
                   current, history>>

\* The task runs outside both mutexes; a runtime_error becomes its status.
RunTask(w) ==
    /\ pc[w] = "task"
    /\ \E s \in {"Complete", "Error"} : outcome' = [outcome EXCEPT ![w] = s]
    /\ pc' = [pc EXCEPT ![w] = "push"]
    /\ UNCHANGED <<running, queues, mutexes, workAvailable, operation, mainPc,
                   current, history>>

\* The finished operation is queued for the game thread.
PushCompleted(w) ==
    /\ pc[w] = "push"
    /\ completedMutex = Free
    /\ completed' = Append(completed, [task |-> operation[w], status |-> outcome[w]])
    /\ operation' = [operation EXCEPT ![w] = NoTask]
    /\ outcome' = [outcome EXCEPT ![w] = "Incomplete"]
    /\ pc' = [pc EXCEPT ![w] = "loop"]
    /\ UNCHANGED <<running, incomplete, mutexes, workAvailable, mainPc, current, history>>

-----------------------------------------------------------------------------
MainStep ==
    \/ StartWorkerThreads
    \/ \E t \in Task : PostTask(t)
    \/ BeginProcessing \/ PopCompleted \/ CallbackReturns \/ EndProcessing
    \/ StopWorkerThreads \/ NotifyAll \/ JoinWorkers

WorkerStep(w) ==
    \/ LoopTest(w) \/ LockIncomplete(w) \/ TestPredicate(w) \/ Sleep(w)
    \/ ExitWorker(w) \/ TakeTask(w) \/ RunTask(w) \/ PushCompleted(w)

Next == MainStep \/ \E w \in Worker : WorkerStep(w) \/ SpuriousWakeup(w)

Spec == Init /\ [][Next]_vars

\* The scheduler runs every thread that can run, every task returns, the game
\* runs frames and finishes the shutdown it began.  Strong fairness stands for
\* the mutexes: the game thread holds each only for a moment of every frame.
Fairness ==
    /\ WF_vars(BeginProcessing) /\ WF_vars(PopCompleted)
    /\ WF_vars(CallbackReturns) /\ WF_vars(EndProcessing)
    /\ WF_vars(NotifyAll) /\ WF_vars(JoinWorkers)
    /\ \A w \in Worker :
          /\ WF_vars(LoopTest(w)) /\ WF_vars(TestPredicate(w)) /\ WF_vars(Sleep(w))
          /\ WF_vars(ExitWorker(w)) /\ WF_vars(TakeTask(w)) /\ WF_vars(RunTask(w))
          /\ SF_vars(LockIncomplete(w)) /\ SF_vars(PushCompleted(w))

FairSpec == Spec /\ Fairness

-----------------------------------------------------------------------------
(* Properties.                                                             *)

TypeOK ==
    /\ running \in BOOLEAN
    /\ incomplete \in Seq(Task)
    /\ incompleteMutex \in Worker \cup {Free}
    /\ workAvailable \in SUBSET Worker
    /\ completed \in Seq(Operation)
    /\ completedMutex \in {Main, Free}
    /\ pc \in [Worker -> WorkerPc]
    /\ operation \in [Worker -> Task \cup {NoTask}]
    /\ outcome \in [Worker -> Status]
    /\ mainPc \in MainPc
    /\ current \in Operation \cup {NoOperation}
    /\ posted \in Seq(Task)
    /\ delivered \in Seq(Delivery)

Copies(t) ==
    Cardinality({i \in 1..Len(incomplete) : incomplete[i] = t})
    + Cardinality({w \in Worker : operation[w] = t})
    + Cardinality({i \in 1..Len(completed) : completed[i].task = t})
    + (IF current.task = t THEN 1 ELSE 0)
    + Cardinality({i \in 1..Len(delivered) : delivered[i].task = t})

\* A posted task is in exactly one place until its callbacks have run, and it
\* stays there for good: no task is lost, run twice or delivered twice, however
\* postTask, the workers and processCompletedTasks interleave.
ExactlyOnce == \A t \in Task : Copies(t) = IF WasPosted(t) THEN 1 ELSE 0

\* A worker that saw its wait predicate hold finds the queue non-empty when it
\* pops: std::queue::front on an empty queue would be undefined behaviour.
PopIsSafe == \A w \in Worker : pc[w] = "granted" /\ running => incomplete # <<>>

\* Once stopWorkerThreads returns no worker is inside a task: TimerunV2::shutdown
\* destroys the repository the tasks use right after it.
NoTaskAfterStop == mainPc = "stopped" => \A w \in Worker : pc[w] \notin {"task", "push"}

\* The two mutexes are never waited for in a circle: the game thread takes
\* _incompletedMutex inside a callback while it holds _completedMutex, so a
\* worker that is queueing a finished operation must not hold _incompletedMutex.
NoLockCycle ==
    \A w \in Worker : pc[w] = "push" /\ completedMutex = Main => incompleteMutex # w

\* A task that was posted has its callback run, unless the game shuts down.
EventuallyDelivered ==
    \A t \in Task : WasPosted(t) ~> (WasDelivered(t) \/ mainPc \in {"notify", "join", "stopped"})

\* stopWorkerThreads returns, provided no worker is between its predicate and its
\* sleep when notify_all is called.
NoneFallingAsleep == \A w \in Worker : pc[w] # "sleep" /\ w \notin workAvailable
StopReturnsWhenAwake == (mainPc = "join" /\ NoneFallingAsleep) ~> (mainPc = "stopped")

\* "the timerun worker threads must be stopped" (etj_main_ext.cpp, OnGameShutdown):
\* a shutdown that began ends.
StopReturns == (mainPc = "notify") ~> (mainPc = "stopped")

-----------------------------------------------------------------------------
(* With the single worker TimerunV2 starts, the context is a first-in      *)
(* first-out queue of tasks.                                               *)

Undelivered == SubSeq(posted, Len(delivered) + 1, Len(posted))
DeliveredTasks == [i \in 1..Len(delivered) |-> delivered[i].task]
Stopping == mainPc \in {"notify", "join", "stopped"}

Queue == INSTANCE TaskQueue WITH
    pending <- Undelivered, delivered <- DeliveredTasks, open <- ~Stopping

\* The callbacks run once each, in the order their tasks were posted: the reads
\* and writes of one task are ordered before those of the next one.
IsTaskQueue == Queue!QueueSpec
=============================================================================
