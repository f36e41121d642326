--------------------- MODULE SynchronizationContext_proof ---------------------
(***************************************************************************)
(* Proofs about SynchronizationContext for any number of workers and       *)
(* tasks: types, the discipline of the two mutexes, and the safety         *)
(* properties the runs check.                                              *)
(***************************************************************************)
EXTENDS SynchronizationContext, SequenceTheorems, FiniteSetTheorems, FunctionTheorems, TLAPS

\* Who holds a mutex can be read off the program counters.
MutexInv ==
    /\ \A w \in Worker : incompleteMutex = w <=> pc[w] \in {"test", "granted", "sleep"}
    /\ completedMutex = Main <=> mainPc \in {"draining", "callback"}

\* A worker holds a task exactly while it runs or queues it, and the game thread
\* exactly while it is in the callback.
HoldingInv ==
    /\ \A w \in Worker : operation[w] \in Task <=> pc[w] \in {"task", "push"}
    /\ \A w \in Worker : pc[w] = "push" => outcome[w] \in {"Complete", "Error"}
    /\ current \in Operation <=> mainPc = "callback"
    /\ current \notin Operation => current = NoOperation

\* The life of the context: created, running, stopping.
LifeInv ==
    /\ running <=> mainPc \in {"frame", "draining", "callback"}
    /\ mainPc = "created" => \A w \in Worker : pc[w] = "idle"
    /\ mainPc = "stopped" => \A w \in Worker : pc[w] = "exited"

IInv == TypeOK /\ MutexInv /\ HoldingInv /\ LifeInv /\ PopIsSafe

\* The marker of "no operation" is not an operation.
LEMMA NoOperationIsNone == NoOperation \notin Operation
  BY TaskAssumption DEF NoOperation, Operation

\* Appending keeps the type of a sequence.
LEMMA AppendType == ASSUME NEW S, NEW s \in Seq(S), NEW e \in S PROVE Append(s, e) \in Seq(S)
  OBVIOUS

LEMMA InitIInv == Init => IInv
<1> SUFFICES ASSUME Init PROVE IInv
  OBVIOUS
<1> USE ThreadAssumption DEF Init
<1>1. TypeOK
  <2>1. mainPc \in MainPc /\ current \in Operation \cup {NoOperation}
    BY DEF MainPc
  <2>2. /\ pc \in [Worker -> WorkerPc] /\ outcome \in [Worker -> Status]
        /\ operation \in [Worker -> Task \cup {NoTask}]
    BY DEF WorkerPc, Status
  <2>3. incomplete \in Seq(Task) /\ posted \in Seq(Task)
    OBVIOUS
  <2>4. completed \in Seq(Operation) /\ delivered \in Seq(Delivery)
    OBVIOUS
  <2>5. QED BY <2>1, <2>2, <2>3, <2>4 DEF TypeOK
<1>2. MutexInv
  BY DEF MutexInv
<1>3. HoldingInv
  BY NoOperationIsNone, TaskAssumption DEF HoldingInv
<1>4. LifeInv /\ PopIsSafe
  BY DEF LifeInv, PopIsSafe
<1>5. QED BY <1>1, <1>2, <1>3, <1>4 DEF IInv

\* The steps of the game thread preserve the invariant.
LEMMA MainStepIInv == ASSUME IInv, MainStep PROVE IInv'
<1> USE ThreadAssumption, TaskAssumption DEF IInv, TypeOK, MutexInv, HoldingInv, LifeInv,
    PopIsSafe, queues, mutexes, workers, history
<1>1. CASE StartWorkerThreads
  BY <1>1 DEF StartWorkerThreads, WorkerPc, MainPc
<1>2. ASSUME NEW t \in Task, PostTask(t) PROVE IInv'
  BY <1>2 DEF PostTask, NotifyOne
<1>3. CASE BeginProcessing
  BY <1>3 DEF BeginProcessing, MainPc
<1>4. CASE PopCompleted
  BY <1>4 DEF PopCompleted, MainPc
<1>5. CASE CallbackReturns
  <2> PICK calls \in {"callback", "error", "callbackThenError"} :
           delivered' = Append(delivered, [task |-> current.task, calls |-> calls])
    BY <1>5 DEF CallbackReturns
  <2>1. [task |-> current.task, calls |-> calls] \in Delivery
    BY <1>5 DEF CallbackReturns, Delivery, Operation
  <2>2. delivered' \in Seq(Delivery)
    BY <2>1, AppendType
  <2>3. /\ UNCHANGED <<running, incomplete, completed, incompleteMutex, completedMutex,
                      workAvailable, pc, operation, outcome, posted>>
        /\ mainPc = "callback" /\ mainPc' = "draining" /\ current' = NoOperation
    BY <1>5 DEF CallbackReturns
  <2>4. TypeOK'
    BY <2>2, <2>3 DEF MainPc
  <2>5. MutexInv' /\ LifeInv' /\ PopIsSafe'
    BY <2>3
  <2>6. HoldingInv'
    BY <2>3, NoOperationIsNone
  <2>7. QED BY <2>4, <2>5, <2>6
<1>6. CASE EndProcessing
  BY <1>6 DEF EndProcessing, MainPc
<1>7. CASE StopWorkerThreads
  BY <1>7 DEF StopWorkerThreads, MainPc
<1>8. CASE NotifyAll
  BY <1>8 DEF NotifyAll, MainPc
<1>9. CASE JoinWorkers
  BY <1>9 DEF JoinWorkers, MainPc
<1>10. QED BY <1>1, <1>2, <1>3, <1>4, <1>5, <1>6, <1>7, <1>8, <1>9 DEF MainStep

\* So do the steps of a worker.
LEMMA WorkerStepIInv ==
  ASSUME IInv, NEW w \in Worker, WorkerStep(w) \/ SpuriousWakeup(w) PROVE IInv'
<1> USE ThreadAssumption, TaskAssumption DEF IInv, TypeOK, MutexInv, HoldingInv, LifeInv,
    PopIsSafe, queues, mutexes, history, WorkerPc
<1>1. CASE LoopTest(w)
  BY <1>1 DEF LoopTest
<1>2. CASE LockIncomplete(w)
  BY <1>2 DEF LockIncomplete
<1>3. CASE TestPredicate(w)
  BY <1>3 DEF TestPredicate
<1>4. CASE Sleep(w)
  BY <1>4 DEF Sleep
<1>5. CASE ExitWorker(w)
  BY <1>5 DEF ExitWorker
<1>6. CASE TakeTask(w)
  BY <1>6 DEF TakeTask, Status
<1>7. CASE RunTask(w)
  BY <1>7 DEF RunTask, Status
<1>8. CASE PushCompleted(w)
  BY <1>8 DEF PushCompleted, Status, Operation
<1>9. CASE SpuriousWakeup(w)
  BY <1>9 DEF SpuriousWakeup
<1>10. QED BY <1>1, <1>2, <1>3, <1>4, <1>5, <1>6, <1>7, <1>8, <1>9 DEF WorkerStep

LEMMA StutterIInv == IInv /\ UNCHANGED vars => IInv'
  BY DEF IInv, TypeOK, MutexInv, HoldingInv, LifeInv, PopIsSafe, vars

LEMMA Invariance == Spec => []IInv
<1>1. IInv /\ [Next]_vars => IInv'
  BY MainStepIInv, WorkerStepIInv, StutterIInv DEF Next
<1>2. QED BY InitIInv, <1>1, PTL DEF Spec

\* Every variable keeps its type: in particular a finished operation always
\* carries a task and a final status when it reaches the completed queue.
THEOREM TypeCorrect == Spec => []TypeOK
<1>1. IInv => TypeOK BY DEF IInv
<1>2. QED BY Invariance, <1>1, PTL

\* A worker never pops an empty queue, for any number of workers: the mutex is
\* held from the predicate to the pop.
THEOREM PopSafety == Spec => []PopIsSafe
<1>1. IInv => PopIsSafe BY DEF IInv
<1>2. QED BY Invariance, <1>1, PTL

\* When stopWorkerThreads has returned no worker is inside a task.
THEOREM StopSafety == Spec => []NoTaskAfterStop
<1>1. IInv => NoTaskAfterStop BY DEF IInv, LifeInv, NoTaskAfterStop
<1>2. QED BY Invariance, <1>1, PTL

\* The two mutexes are never waited for in a circle.
THEOREM LockOrder == Spec => []NoLockCycle
<1>1. IInv => NoLockCycle BY DEF IInv, MutexInv, NoLockCycle
<1>2. QED BY Invariance, <1>1, PTL

-----------------------------------------------------------------------------
(* With one worker the context is first-in first-out.                      *)

\* How many operations the game thread and worker w hold.
InCallback == IF mainPc = "callback" THEN 1 ELSE 0
Held(w) == IF pc[w] \in {"task", "push"} THEN 1 ELSE 0

\* Where the oldest task of each place stands in the order of posting.
FromCompleted == Len(delivered) + InCallback
FromWorker == FromCompleted + Len(completed)
FromIncomplete(w) == FromWorker + Held(w)

\* Laid end to end the places spell the order in which the tasks were posted.
FifoInv(w) ==
    /\ Len(posted) = FromIncomplete(w) + Len(incomplete)
    /\ \A i \in 1..Len(delivered) : delivered[i].task = posted[i]
    /\ mainPc = "callback" => current.task = posted[Len(delivered) + 1]
    /\ \A i \in 1..Len(completed) : completed[i].task = posted[FromCompleted + i]
    /\ pc[w] \in {"task", "push"} => operation[w] = posted[FromWorker + 1]
    /\ \A i \in 1..Len(incomplete) : incomplete[i] = posted[FromIncomplete(w) + i]

LEMMA AppendAt ==
  ASSUME NEW S, NEW s \in Seq(S), NEW e
  PROVE  /\ Len(Append(s, e)) = Len(s) + 1
         /\ \A i \in 1..Len(s) : Append(s, e)[i] = s[i]
         /\ Append(s, e)[Len(s) + 1] = e
         /\ Len(s) \in Nat
  OBVIOUS

LEMMA TailAt ==
  ASSUME NEW S, NEW s \in Seq(S), s # <<>>
  PROVE  /\ Len(s) \in Nat \ {0} /\ Len(Tail(s)) = Len(s) - 1
         /\ Head(s) = s[1]
         /\ \A i \in 1..Len(Tail(s)) : Tail(s)[i] = s[i + 1]
<1>1. Len(s) \in Nat \ {0} /\ Head(s) = s[1]
  OBVIOUS
<1>2. Len(Tail(s)) = Len(s) - 1 /\ \A i \in 1..Len(Tail(s)) : Tail(s)[i] = s[i + 1]
  BY <1>1, HeadTailProperties
<1>3. QED BY <1>1, <1>2

LEMMA InitFifo == ASSUME NEW w \in Worker, Init PROVE FifoInv(w)
<1>1. /\ Len(posted) = 0 /\ Len(delivered) = 0 /\ Len(completed) = 0 /\ Len(incomplete) = 0
      /\ mainPc # "callback" /\ pc[w] \notin {"task", "push"}
  BY DEF Init
<1>2. QED
  BY <1>1 DEF FifoInv, FromIncomplete, FromWorker, FromCompleted, InCallback, Held

\* The offsets are natural numbers.
LEMMA Offsets ==
  ASSUME NEW w \in Worker, TypeOK
  PROVE  /\ Len(delivered) \in Nat /\ Len(completed) \in Nat /\ Len(incomplete) \in Nat
         /\ FromCompleted \in Nat /\ FromWorker \in Nat /\ FromIncomplete(w) \in Nat
         /\ InCallback \in {0, 1} /\ Held(w) \in {0, 1}
<1>1. Len(delivered) \in Nat /\ Len(completed) \in Nat /\ Len(incomplete) \in Nat
  BY DEF TypeOK
<1>2. InCallback \in {0, 1} /\ Held(w) \in {0, 1}
  BY DEF InCallback, Held
<1>3. FromCompleted \in Nat
  BY <1>1, <1>2 DEF FromCompleted
<1>4. FromWorker \in Nat
  BY <1>1, <1>3 DEF FromWorker
<1>5. FromIncomplete(w) \in Nat
  BY <1>2, <1>4 DEF FromIncomplete
<1>6. QED BY <1>1, <1>2, <1>3, <1>4, <1>5

\* Steps that move no task.
LEMMA QuietFifo ==
  ASSUME NEW w \in Worker, FifoInv(w), Held(w)' = Held(w), InCallback' = InCallback,
         UNCHANGED <<posted, delivered, current, completed, operation, incomplete>>
  PROVE  FifoInv(w)'
<1>1. (mainPc' = "callback" <=> mainPc = "callback")
      /\ (pc'[w] \in {"task", "push"} <=> pc[w] \in {"task", "push"})
  BY DEF InCallback, Held
<1>2. FromCompleted' = FromCompleted
  BY DEF FromCompleted
<1>3. FromWorker' = FromWorker
  BY <1>2 DEF FromWorker
<1>4. FromIncomplete(w)' = FromIncomplete(w)
  BY <1>3 DEF FromIncomplete
<1>5. QED BY <1>1, <1>2, <1>3, <1>4 DEF FifoInv

\* postTask extends the order and the incomplete queue by the same task.
LEMMA PostFifo ==
  ASSUME NEW w \in Worker, TypeOK, FifoInv(w), NEW t \in Task, PostTask(t)
  PROVE  FifoInv(w)'
<1>1. /\ posted' = Append(posted, t) /\ incomplete' = Append(incomplete, t)
      /\ UNCHANGED <<delivered, completed, pc, operation, mainPc, current>>
  BY DEF PostTask, mutexes
<1>2. /\ FromCompleted' = FromCompleted /\ FromWorker' = FromWorker
      /\ FromIncomplete(w)' = FromIncomplete(w)
  BY <1>1 DEF FromIncomplete, FromWorker, FromCompleted, InCallback, Held
<1>3. /\ Len(incomplete') = Len(incomplete) + 1
      /\ \A i \in 1..Len(incomplete) : incomplete'[i] = incomplete[i]
      /\ incomplete'[Len(incomplete) + 1] = t
  BY <1>1, AppendAt DEF TypeOK
<1>4. /\ Len(posted) \in Nat /\ Len(posted') = Len(posted) + 1
      /\ \A i \in 1..Len(posted) : posted'[i] = posted[i]
      /\ posted'[Len(posted) + 1] = t
  BY <1>1, AppendAt DEF TypeOK
<1>5. Len(posted) = FromIncomplete(w) + Len(incomplete)
  BY DEF FifoInv
<1>6. /\ Len(delivered) + Len(incomplete) <= Len(posted)
      /\ mainPc = "callback" => Len(delivered) + 1 <= Len(posted)
      /\ FromCompleted + Len(completed) <= Len(posted)
      /\ pc[w] \in {"task", "push"} => FromWorker + 1 <= Len(posted)
  <2>1. Len(posted) = Len(delivered) + InCallback + Len(completed) + Held(w) + Len(incomplete)
    BY <1>5, Offsets DEF FromIncomplete, FromWorker, FromCompleted
  <2>2. (mainPc = "callback" => InCallback = 1) /\ (pc[w] \in {"task", "push"} => Held(w) = 1)
    BY DEF InCallback, Held
  <2>3. QED BY <2>1, <2>2, Offsets DEF FromWorker, FromCompleted
<1>7. \A i \in 1..Len(delivered) : delivered'[i].task = posted'[i]
  BY <1>1, <1>4, <1>6, Offsets DEF FifoInv
<1>8. mainPc' = "callback" => current'.task = posted'[Len(delivered') + 1]
  BY <1>1, <1>4, <1>6, Offsets DEF FifoInv
<1>9. \A i \in 1..Len(completed) : completed'[i].task = posted'[FromCompleted + i]
  BY <1>1, <1>4, <1>6, Offsets DEF FifoInv
<1>10. pc'[w] \in {"task", "push"} => operation'[w] = posted'[FromWorker + 1]
  <2> SUFFICES ASSUME pc[w] \in {"task", "push"}
               PROVE  operation[w] = posted'[FromWorker + 1]
    BY <1>1
  <2>1. operation[w] = posted[FromWorker + 1]
    BY DEF FifoInv
  <2>2. FromWorker + 1 \in 1..Len(posted)
    BY <1>4, <1>6, Offsets
  <2>3. QED BY <1>4, <2>1, <2>2
<1>11. \A i \in 1..Len(incomplete') : incomplete'[i] = posted'[FromIncomplete(w) + i]
  <2> TAKE i \in 1..Len(incomplete')
  <2>1. CASE i \in 1..Len(incomplete)
    BY <2>1, <1>3, <1>4, <1>5, Offsets DEF FifoInv
  <2>2. CASE i = Len(incomplete) + 1
    BY <2>2, <1>3, <1>4, <1>5, Offsets
  <2>3. QED BY <2>1, <2>2, <1>3, Offsets
<1>12. Len(posted') = FromIncomplete(w) + Len(incomplete')
  BY <1>3, <1>4, <1>5, Offsets
<1>13. QED
  BY <1>1, <1>2, <1>7, <1>8, <1>9, <1>10, <1>11, <1>12 DEF FifoInv

\* The callback gets the front of the completed queue.
LEMMA PopFifo ==
  ASSUME NEW w \in Worker, TypeOK, FifoInv(w), PopCompleted
  PROVE  FifoInv(w)'
<1>1. /\ completed # <<>> /\ current' = Head(completed) /\ completed' = Tail(completed)
      /\ mainPc = "draining" /\ mainPc' = "callback"
      /\ UNCHANGED <<posted, incomplete, delivered, pc, operation>>
  BY DEF PopCompleted, mutexes, workers, history
<1>2. /\ Len(completed) \in Nat \ {0} /\ Len(completed') = Len(completed) - 1
      /\ current' = completed[1]
      /\ \A i \in 1..Len(completed') : completed'[i] = completed[i + 1]
  BY <1>1, TailAt DEF TypeOK
<1>3. FromCompleted = Len(delivered) /\ FromCompleted' = Len(delivered) + 1
  BY <1>1, Offsets DEF FromCompleted, InCallback
<1>4. FromWorker' = FromWorker /\ FromIncomplete(w)' = FromIncomplete(w)
  BY <1>1, <1>2, <1>3, Offsets DEF FromIncomplete, FromWorker, Held
<1>5. current'.task = posted[Len(delivered) + 1]
  BY <1>2, <1>3 DEF FifoInv
<1>6. \A i \in 1..Len(completed') : completed'[i].task = posted[FromCompleted' + i]
  <2> TAKE i \in 1..Len(completed')
  <2>1. i \in Nat /\ i + 1 \in 1..Len(completed)
    BY <1>2
  <2>2. completed[i + 1].task = posted[FromCompleted + (i + 1)]
    BY <2>1 DEF FifoInv
  <2>3. FromCompleted' + i = FromCompleted + (i + 1)
    BY <2>1, <1>3, Offsets
  <2>4. QED BY <2>2, <2>3, <1>2
<1>7. QED BY <1>1, <1>4, <1>5, <1>6 DEF FifoInv

\* A callback that returns closes the gap behind the delivered tasks.
LEMMA ReturnFifo ==
  ASSUME NEW w \in Worker, TypeOK, FifoInv(w), CallbackReturns
  PROVE  FifoInv(w)'
<1>1. PICK calls \in {"callback", "error", "callbackThenError"} :
           delivered' = Append(delivered, [task |-> current.task, calls |-> calls])
  BY DEF CallbackReturns
<1>2. /\ mainPc = "callback" /\ mainPc' = "draining"
      /\ UNCHANGED <<posted, incomplete, completed, pc, operation>>
  BY DEF CallbackReturns, queues, mutexes, workers
<1>3. /\ Len(delivered') = Len(delivered) + 1
      /\ \A i \in 1..Len(delivered) : delivered'[i] = delivered[i]
      /\ delivered'[Len(delivered) + 1].task = current.task
  <2> DEFINE d == [task |-> current.task, calls |-> calls]
  <2>1. d.task = current.task
    OBVIOUS
  <2> HIDE DEF d
  <2>2. delivered' = Append(delivered, d) /\ delivered \in Seq(Delivery)
    BY <1>1 DEF d, TypeOK
  <2>3. QED BY <2>1, <2>2, AppendAt
<1>4. /\ FromCompleted' = FromCompleted /\ FromWorker' = FromWorker
      /\ FromIncomplete(w)' = FromIncomplete(w)
  <2>1. InCallback = 1 /\ InCallback' = 0 /\ Held(w)' = Held(w)
    BY <1>2 DEF InCallback, Held
  <2>2. FromCompleted' = FromCompleted
    BY <2>1, <1>3, Offsets DEF FromCompleted
  <2>3. QED BY <1>2, <2>1, <2>2 DEF FromIncomplete, FromWorker
<1>5. \A i \in 1..Len(delivered') : delivered'[i].task = posted[i]
  <2> TAKE i \in 1..Len(delivered')
  <2>1. CASE i \in 1..Len(delivered)
    BY <2>1, <1>3 DEF FifoInv
  <2>2. CASE i = Len(delivered) + 1
    BY <2>2, <1>2, <1>3 DEF FifoInv
  <2>3. QED BY <2>1, <2>2, <1>3, Offsets
<1>6. QED BY <1>2, <1>4, <1>5 DEF FifoInv

\* The worker gets the front of the incomplete queue.
LEMMA TakeFifo ==
  ASSUME NEW w \in Worker, TypeOK, PopIsSafe, FifoInv(w), TakeTask(w)
  PROVE  FifoInv(w)'
<1>1. /\ incomplete # <<>>
      /\ operation'[w] = Head(incomplete) /\ incomplete' = Tail(incomplete)
      /\ pc[w] = "granted" /\ pc'[w] = "task"
      /\ UNCHANGED <<posted, delivered, completed, mainPc, current>>
  BY DEF TakeTask, TypeOK, PopIsSafe, history
<1>2. /\ Len(incomplete) \in Nat \ {0} /\ Len(incomplete') = Len(incomplete) - 1
      /\ operation'[w] = incomplete[1]
      /\ \A i \in 1..Len(incomplete') : incomplete'[i] = incomplete[i + 1]
  BY <1>1, TailAt DEF TypeOK
<1>3. FromCompleted' = FromCompleted /\ FromWorker' = FromWorker
  BY <1>1 DEF FromWorker, FromCompleted, InCallback
<1>4. FromIncomplete(w) = FromWorker /\ FromIncomplete(w)' = FromWorker + 1
  BY <1>1, <1>3, Offsets DEF FromIncomplete, Held
<1>5. operation'[w] = posted[FromWorker + 1]
  BY <1>2, <1>4 DEF FifoInv
<1>6. \A i \in 1..Len(incomplete') : incomplete'[i] = posted[FromIncomplete(w)' + i]
  <2> TAKE i \in 1..Len(incomplete')
  <2>1. i \in Nat /\ i + 1 \in 1..Len(incomplete)
    BY <1>2
  <2>2. incomplete[i + 1] = posted[FromIncomplete(w) + (i + 1)]
    BY <2>1 DEF FifoInv
  <2>3. FromIncomplete(w)' + i = FromIncomplete(w) + (i + 1)
    BY <2>1, <1>4, Offsets
  <2>4. QED BY <2>2, <2>3, <1>2
<1>7. Len(posted) = FromIncomplete(w)' + Len(incomplete')
  BY <1>2, <1>4, Offsets DEF FifoInv
<1>8. QED BY <1>1, <1>3, <1>5, <1>6, <1>7 DEF FifoInv

\* The worker queues its operation behind the completed ones.
LEMMA PushFifo ==
  ASSUME NEW w \in Worker, TypeOK, FifoInv(w), PushCompleted(w)
  PROVE  FifoInv(w)'
<1>1. /\ completed' = Append(completed, [task |-> operation[w], status |-> outcome[w]])
      /\ pc[w] = "push" /\ pc'[w] = "loop"
      /\ UNCHANGED <<posted, delivered, incomplete, mainPc, current>>
  BY DEF PushCompleted, TypeOK, history
<1>2. /\ Len(completed') = Len(completed) + 1
      /\ \A i \in 1..Len(completed) : completed'[i] = completed[i]
      /\ completed'[Len(completed) + 1].task = operation[w]
  BY <1>1, AppendAt DEF TypeOK
<1>3. FromCompleted' = FromCompleted
  BY <1>1 DEF FromCompleted, InCallback
<1>4. FromWorker' = FromWorker + 1 /\ FromIncomplete(w)' = FromIncomplete(w)
  BY <1>1, <1>2, <1>3, Offsets DEF FromIncomplete, FromWorker, Held
<1>5. \A i \in 1..Len(completed') : completed'[i].task = posted[FromCompleted + i]
  <2> TAKE i \in 1..Len(completed')
  <2>1. CASE i \in 1..Len(completed)
    BY <2>1, <1>2 DEF FifoInv
  <2>2. CASE i = Len(completed) + 1
    BY <2>2, <1>1, <1>2, Offsets DEF FifoInv, FromWorker
  <2>3. QED BY <2>1, <2>2, <1>2, Offsets
<1>6. QED BY <1>1, <1>3, <1>4, <1>5 DEF FifoInv

\* The order is kept by every step when w is the only worker.
LEMMA NextFifo ==
  ASSUME NEW w \in Worker, Worker = {w}, IInv, FifoInv(w), [Next]_vars
  PROVE  FifoInv(w)'
<1> USE DEF queues, mutexes, workers, history
<1>1. CASE StartWorkerThreads
  BY <1>1, QuietFifo DEF StartWorkerThreads, InCallback, Held, IInv, LifeInv
<1>2. ASSUME NEW t \in Task, PostTask(t) PROVE FifoInv(w)'
  BY <1>2, PostFifo DEF IInv
<1>3. CASE BeginProcessing \/ EndProcessing
  BY <1>3, QuietFifo DEF BeginProcessing, EndProcessing, InCallback, Held
<1>4. CASE StopWorkerThreads \/ NotifyAll \/ JoinWorkers
  BY <1>4, QuietFifo DEF StopWorkerThreads, NotifyAll, JoinWorkers, InCallback, Held
<1>5. CASE PopCompleted \/ CallbackReturns
  BY <1>5, PopFifo, ReturnFifo DEF IInv
<1>6. CASE TakeTask(w) \/ PushCompleted(w)
  BY <1>6, TakeFifo, PushFifo DEF IInv
<1>7. CASE LoopTest(w) \/ LockIncomplete(w) \/ TestPredicate(w) \/ Sleep(w)
           \/ ExitWorker(w) \/ RunTask(w) \/ SpuriousWakeup(w)
  <2>1. /\ Held(w)' = Held(w) /\ InCallback' = InCallback
        /\ UNCHANGED <<posted, delivered, current, completed, operation, incomplete>>
    BY <1>7 DEF LoopTest, LockIncomplete, TestPredicate, Sleep, ExitWorker, RunTask,
       SpuriousWakeup, InCallback, Held, IInv, TypeOK
  <2>2. QED BY <2>1, QuietFifo
<1>8. CASE UNCHANGED vars
  BY <1>8, QuietFifo DEF vars, InCallback, Held
<1>9. QED
  BY <1>1, <1>2, <1>3, <1>4, <1>5, <1>6, <1>7, <1>8 DEF Next, MainStep, WorkerStep

-----------------------------------------------------------------------------
(* The refinement.                                                         *)

\* Appending commutes with dropping a prefix.
LEMMA SuffixAppend ==
  ASSUME NEW S, NEW s \in Seq(S), NEW e \in S, NEW n \in 0..Len(s)
  PROVE  SubSeq(Append(s, e), n + 1, Len(s) + 1) = Append(SubSeq(s, n + 1, Len(s)), e)
<1> DEFINE l == SubSeq(Append(s, e), n + 1, Len(s) + 1)
           r == Append(SubSeq(s, n + 1, Len(s)), e)
<1>1. l \in Seq(S) /\ r \in Seq(S)
  OBVIOUS
<1>2. Len(l) = Len(s) + 1 - n /\ Len(r) = Len(s) + 1 - n
  OBVIOUS
<1>3. \A i \in 1..Len(l) : l[i] = r[i]
  BY <1>2
<1> HIDE DEF l, r
<1>4. l = r
  BY <1>1, <1>2, <1>3, SeqEqual
<1>5. QED BY <1>4 DEF l, r

\* Dropping one more element is taking the tail.
LEMMA SuffixTail ==
  ASSUME NEW S, NEW s \in Seq(S), NEW n \in Nat, n < Len(s)
  PROVE  /\ SubSeq(s, n + 1, Len(s)) # <<>>
         /\ Head(SubSeq(s, n + 1, Len(s))) = s[n + 1]
         /\ Tail(SubSeq(s, n + 1, Len(s))) = SubSeq(s, n + 2, Len(s))
<1>1. n + 1 \in 1..Len(s) /\ Len(s) \in (n + 1)..Len(s)
  OBVIOUS
<1>2. /\ Head(SubSeq(s, n + 1, Len(s))) = s[n + 1]
      /\ Tail(SubSeq(s, n + 1, Len(s))) = SubSeq(s, n + 2, Len(s))
  BY <1>1, HeadTailOfSubSeq
<1>3. SubSeq(s, n + 1, Len(s)) \in Seq(S) /\ Len(SubSeq(s, n + 1, Len(s))) # 0
  OBVIOUS
<1>4. SubSeq(s, n + 1, Len(s)) # <<>>
  BY <1>3, EmptySeq
<1>5. QED BY <1>2, <1>4

\* No more tasks are delivered than were posted, and the one in the callback is
\* still undelivered.
LEMMA DeliveredBound ==
  ASSUME NEW w \in Worker, TypeOK, FifoInv(w)
  PROVE  /\ Len(posted) \in Nat /\ Len(delivered) \in 0..Len(posted)
         /\ mainPc = "callback" => Len(delivered) < Len(posted)
<1>1. Len(posted) = Len(delivered) + InCallback + Len(completed) + Held(w) + Len(incomplete)
  BY Offsets DEF FifoInv, FromIncomplete, FromWorker, FromCompleted
<1>2. mainPc = "callback" => InCallback = 1
  BY DEF InCallback
<1>3. QED BY <1>1, <1>2, Offsets

LEMMA PostRefines ==
  ASSUME NEW w \in Worker, TypeOK, FifoInv(w), NEW t \in Task, PostTask(t)
  PROVE  Queue!Post(t)
<1>1. posted' = Append(posted, t) /\ UNCHANGED <<delivered, mainPc>>
  BY DEF PostTask
<1>2. Len(posted') = Len(posted) + 1 /\ posted \in Seq(Task)
  BY <1>1, AppendAt DEF TypeOK
<1>3. Undelivered' = Append(Undelivered, t)
  BY <1>1, <1>2, DeliveredBound, SuffixAppend DEF Undelivered
<1>4. UNCHANGED <<DeliveredTasks, ~Stopping>>
  BY <1>1 DEF DeliveredTasks, Stopping
<1>5. QED BY <1>3, <1>4 DEF Queue!Post

LEMMA ReturnRefines ==
  ASSUME NEW w \in Worker, IInv, FifoInv(w), CallbackReturns
  PROVE  Queue!Deliver
<1>1. PICK calls \in {"callback", "error", "callbackThenError"} :
           delivered' = Append(delivered, [task |-> current.task, calls |-> calls])
  BY DEF CallbackReturns
<1>2. /\ mainPc = "callback" /\ mainPc' = "draining" /\ posted' = posted
      /\ posted \in Seq(Task) /\ Len(delivered) \in Nat /\ Len(delivered) < Len(posted)
  <2>1. TypeOK
    BY DEF IInv
  <2>2. mainPc = "callback" /\ mainPc' = "draining" /\ posted' = posted
    BY DEF CallbackReturns
  <2>3. posted \in Seq(Task) /\ Len(delivered) \in Nat
    BY <2>1 DEF TypeOK
  <2>4. QED BY <2>1, <2>2, <2>3, DeliveredBound
<1>3. /\ Len(delivered') = Len(delivered) + 1
      /\ \A i \in 1..Len(delivered) : delivered'[i] = delivered[i]
      /\ delivered'[Len(delivered) + 1].task = posted[Len(delivered) + 1]
  <2> DEFINE d == [task |-> current.task, calls |-> calls]
  <2>1. d.task = posted[Len(delivered) + 1]
    BY <1>2 DEF FifoInv
  <2> HIDE DEF d
  <2>2. delivered' = Append(delivered, d) /\ delivered \in Seq(Delivery)
    BY <1>1 DEF d, IInv, TypeOK
  <2>3. QED BY <2>1, <2>2, AppendAt
<1>4. /\ Undelivered # <<>> /\ Head(Undelivered) = posted[Len(delivered) + 1]
      /\ Undelivered' = Tail(Undelivered)
  <2>1. Len(delivered') + 1 = Len(delivered) + 2
    BY <1>2, <1>3
  <2>2. QED BY <1>2, <2>1, SuffixTail DEF Undelivered
<1>5. DeliveredTasks' = Append(DeliveredTasks, Head(Undelivered))
  <2>1. DeliveredTasks \in Seq(Task) /\ Len(DeliveredTasks) = Len(delivered)
    <3>1. \A i \in 1..Len(delivered) : delivered[i].task \in Task
      <4> TAKE i \in 1..Len(delivered)
      <4>1. delivered[i] \in Delivery
        BY ElementOfSeq DEF IInv, TypeOK
      <4>2. QED BY <4>1 DEF Delivery
    <3>2. QED BY <1>2, <3>1 DEF DeliveredTasks
  <2>2. posted[Len(delivered) + 1] \in Task
    BY <1>2
  <2>3. DeliveredTasks' = [i \in 1..(Len(delivered) + 1) |-> delivered'[i].task]
    BY <1>3 DEF DeliveredTasks
  <2>4. \A i \in 1..Len(delivered) : delivered'[i].task = DeliveredTasks[i]
    BY <1>3 DEF DeliveredTasks
  <2>5. Append(DeliveredTasks, posted[Len(delivered) + 1]) =
          [i \in 1..(Len(delivered) + 1) |->
             IF i <= Len(delivered) THEN DeliveredTasks[i] ELSE posted[Len(delivered) + 1]]
    BY <1>2, <2>1, <2>2
  <2>6. \A i \in 1..(Len(delivered) + 1) :
          delivered'[i].task =
             IF i <= Len(delivered) THEN DeliveredTasks[i] ELSE posted[Len(delivered) + 1]
    BY <1>2, <1>3, <2>4
  <2>7. QED BY <1>4, <2>3, <2>5, <2>6
<1>6. ~Stopping /\ UNCHANGED (~Stopping)
  BY <1>2 DEF Stopping
<1>7. QED BY <1>4, <1>5, <1>6 DEF Queue!Deliver

\* Every step of the context is a step of the queue or leaves it alone.
LEMMA StepRefines ==
  ASSUME NEW w \in Worker, IInv, FifoInv(w), [Next]_vars
  PROVE  [Queue!QueueNext]_(Queue!queueVars)
<1> USE DEF Queue!QueueNext, Queue!queueVars
<1>1. ASSUME NEW t \in Task, PostTask(t) PROVE Queue!Post(t)
  BY <1>1, PostRefines DEF IInv
<1>2. CASE CallbackReturns
  BY <1>2, ReturnRefines
<1>3. CASE StopWorkerThreads
  BY <1>3 DEF StopWorkerThreads, Queue!Close, Undelivered, DeliveredTasks, Stopping, history
<1>4. CASE \/ StartWorkerThreads \/ BeginProcessing \/ PopCompleted \/ EndProcessing
           \/ NotifyAll \/ JoinWorkers
  <2>1. UNCHANGED <<posted, delivered>> /\ Stopping' = Stopping
    BY <1>4 DEF StartWorkerThreads, BeginProcessing, PopCompleted, EndProcessing,
       NotifyAll, JoinWorkers, Stopping, history
  <2>2. QED BY <2>1 DEF Undelivered, DeliveredTasks
<1>5. ASSUME NEW u \in Worker, WorkerStep(u) \/ SpuriousWakeup(u)
      PROVE  UNCHANGED (Queue!queueVars)
  <2>1. UNCHANGED <<posted, delivered, mainPc>>
    BY <1>5 DEF WorkerStep, LoopTest, LockIncomplete, TestPredicate, Sleep, ExitWorker,
       TakeTask, RunTask, PushCompleted, SpuriousWakeup, history
  <2>2. QED BY <2>1 DEF Undelivered, DeliveredTasks, Stopping
<1>6. CASE UNCHANGED vars
  BY <1>6 DEF vars, Undelivered, DeliveredTasks, Stopping
<1>7. QED BY <1>1, <1>2, <1>3, <1>4, <1>5, <1>6 DEF Next, MainStep

\* With the one worker TimerunV2::initialize starts, the context implements a
\* first-in first-out queue: callbacks run once each, in the order of posting,
\* and never after shutdown began.
THEOREM IsFifo == ASSUME NEW w \in Worker, Worker = {w} PROVE Spec => IsTaskQueue
<1>1. Init => Queue!QueueInit
  BY DEF Init, Queue!QueueInit, Undelivered, DeliveredTasks, Stopping
<1>2. Init => FifoInv(w)
  BY InitFifo
<1>3. IInv /\ FifoInv(w) /\ [Next]_vars => FifoInv(w)'
  BY NextFifo
<1>4. IInv /\ FifoInv(w) /\ [Next]_vars => [Queue!QueueNext]_(Queue!queueVars)
  BY StepRefines
<1>5. QED
  BY <1>1, <1>2, <1>3, <1>4, Invariance, PTL DEF Spec, IsTaskQueue, Queue!QueueSpec

-----------------------------------------------------------------------------
(* Every posted task is in exactly one place.                              *)

\* Where a task waits, in each of the sequences and with the workers.
Waiting(t) == {i \in 1..Len(incomplete) : incomplete[i] = t}
Holders(t) == {w \in Worker : operation[w] = t}
Finished(t) == {i \in 1..Len(completed) : completed[i].task = t}
InHand(t) == IF current.task = t THEN 1 ELSE 0
Deliveries(t) == {i \in 1..Len(delivered) : delivered[i].task = t}

LEMMA FiniteInterval == ASSUME NEW n \in Nat PROVE IsFiniteSet(1..n)
  BY FS_Interval

\* Appending a matching element adds one place.
LEMMA GrowCount ==
  ASSUME NEW n \in Nat, NEW S \in SUBSET (1..n), NEW T, NEW matches \in BOOLEAN,
         \A i \in 1..n : i \in T <=> i \in S,
         n + 1 \in T <=> matches, T \subseteq 1..(n + 1)
  PROVE  Cardinality(T) = Cardinality(S) + (IF matches THEN 1 ELSE 0)
<1>0. \A i \in 1..(n + 1) : i \in 1..n \/ i = n + 1
  OBVIOUS
<1>1. IsFiniteSet(S)
  BY FiniteInterval, FS_Subset
<1>2. CASE matches
  <2>1. T = S \cup {n + 1} /\ n + 1 \notin S
    <3>1. n + 1 \in T /\ n + 1 \notin S
      BY <1>2
    <3>2. \A i \in T : i \in S \cup {n + 1}
      BY <1>0
    <3>3. \A i \in S : i \in T
      OBVIOUS
    <3>4. QED BY <3>1, <3>2, <3>3
  <2>2. QED BY <1>1, <1>2, <2>1, FS_AddElement
<1>3. CASE ~matches
  <2>1. T = S
    <3>1. \A i \in T : i \in S
      BY <1>0, <1>3
    <3>2. \A i \in S : i \in T
      OBVIOUS
    <3>3. QED BY <3>1, <3>2
  <2>2. QED BY <1>1, <1>3, <2>1, FS_CardinalityType
<1>4. QED BY <1>2, <1>3

\* Taking the first element away removes its place and moves the others by one.
LEMMA ShiftCount ==
  ASSUME NEW n \in Nat, NEW S \in SUBSET (1..n), NEW T \in SUBSET Nat,
         \A i \in Nat : i \in T <=> i # 0 /\ i + 1 \in S
  PROVE  Cardinality(T) = Cardinality(S) - (IF 1 \in S THEN 1 ELSE 0)
<1> DEFINE R == S \ {1}
           f == [i \in T |-> i + 1]
<1>1. IsFiniteSet(S) /\ IsFiniteSet(R)
  <2>1. IsFiniteSet(S)
    BY FiniteInterval, FS_Subset
  <2>2. QED BY <2>1, FS_RemoveElement
<1>2. Cardinality(R) = Cardinality(S) - (IF 1 \in S THEN 1 ELSE 0)
  BY <1>1, FS_RemoveElement, FS_CardinalityType
<1>3. T \subseteq 1..n
  OBVIOUS
<1>4. IsFiniteSet(T)
  BY <1>3, FiniteInterval, FS_Subset
<1>5. f \in [T -> R]
  OBVIOUS
<1>6. \A i, j \in T : f[i] = f[j] => i = j
  OBVIOUS
<1>7. \A r \in R : \E i \in T : f[i] = r
  <2> SUFFICES ASSUME NEW r \in R PROVE \E i \in T : f[i] = r
    OBVIOUS
  <2>1. r - 1 \in T /\ f[r - 1] = r
    OBVIOUS
  <2>2. QED BY <2>1
<1>8. f \in Bijection(T, R)
  BY <1>5, <1>6, <1>7, Fun_IsBij
<1>9. Cardinality(R) = Cardinality(T)
  BY <1>4, <1>8, FS_Bijection DEF ExistsBijection
<1>10. QED BY <1>2, <1>9

\* The places of a task are countable: Copies adds natural numbers.
LEMMA CopiesType ==
  ASSUME IsFiniteSet(Worker), TypeOK, NEW t \in Task
  PROVE  /\ Cardinality(Waiting(t)) \in Nat /\ Cardinality(Holders(t)) \in Nat
         /\ Cardinality(Finished(t)) \in Nat /\ InHand(t) \in Nat
         /\ Cardinality(Deliveries(t)) \in Nat
         /\ IsFiniteSet(Holders(t))
         /\ Copies(t) = Cardinality(Waiting(t)) + Cardinality(Holders(t))
                        + Cardinality(Finished(t)) + InHand(t) + Cardinality(Deliveries(t))
<1>1. Len(incomplete) \in Nat /\ Len(completed) \in Nat /\ Len(delivered) \in Nat
  BY DEF TypeOK
<1>2. /\ IsFiniteSet(Waiting(t)) /\ IsFiniteSet(Finished(t)) /\ IsFiniteSet(Deliveries(t))
  <2>1. /\ Waiting(t) \subseteq 1..Len(incomplete) /\ Finished(t) \subseteq 1..Len(completed)
        /\ Deliveries(t) \subseteq 1..Len(delivered)
    BY DEF Waiting, Finished, Deliveries
  <2>2. QED BY <1>1, <2>1, FiniteInterval, FS_Subset
<1>3. IsFiniteSet(Holders(t))
  BY FS_Subset DEF Holders
<1>4. Copies(t) = Cardinality(Waiting(t)) + Cardinality(Holders(t))
                  + Cardinality(Finished(t)) + InHand(t) + Cardinality(Deliveries(t))
  BY DEF Copies, Waiting, Holders, Finished, InHand, Deliveries
<1>5. QED BY <1>2, <1>3, <1>4, FS_CardinalityType DEF InHand

\* A worker that takes or gives up a task adds or removes one holder.
LEMMA HolderCount ==
  ASSUME IsFiniteSet(Worker), NEW w \in Worker, NEW t \in Task, NEW task \in Task \cup {NoTask},
         operation \in [Worker -> Task \cup {NoTask}],
         operation' = [operation EXCEPT ![w] = task]
  PROVE  /\ operation[w] = NoTask =>
               Cardinality(Holders(t)') = Cardinality(Holders(t)) + (IF task = t THEN 1 ELSE 0)
         /\ task = NoTask =>
               Cardinality(Holders(t)') = Cardinality(Holders(t)) - (IF operation[w] = t THEN 1 ELSE 0)
<1>1. NoTask # t
  BY TaskAssumption
<1>2. IsFiniteSet(Holders(t)) /\ Cardinality(Holders(t)) \in Nat
  BY FS_Subset, FS_CardinalityType DEF Holders
<1>3. ASSUME operation[w] = NoTask
      PROVE  Cardinality(Holders(t)') = Cardinality(Holders(t)) + (IF task = t THEN 1 ELSE 0)
  <2>1. w \notin Holders(t) /\ Holders(t)' = Holders(t) \cup (IF task = t THEN {w} ELSE {})
    BY <1>1, <1>3 DEF Holders
  <2>2. CASE task = t
    BY <1>2, <2>1, <2>2, FS_AddElement
  <2>3. CASE task # t
    BY <1>2, <2>1, <2>3
  <2>4. QED BY <2>2, <2>3
<1>4. ASSUME task = NoTask
      PROVE  Cardinality(Holders(t)') = Cardinality(Holders(t)) - (IF operation[w] = t THEN 1 ELSE 0)
  <2>1. Holders(t)' = Holders(t) \ (IF operation[w] = t THEN {w} ELSE {})
    BY <1>1, <1>4 DEF Holders
  <2>2. CASE operation[w] = t
    <3>1. w \in Holders(t)
      BY <2>2 DEF Holders
    <3>2. QED BY <1>2, <2>1, <2>2, <3>1, FS_RemoveElement
  <2>3. CASE operation[w] # t
    BY <1>2, <2>1, <2>3
  <2>4. QED BY <2>2, <2>3
<1>5. QED BY <1>3, <1>4

\* Posting adds the one copy of a task ...
LEMMA PostCopies ==
  ASSUME IsFiniteSet(Worker), IInv, IInv', ExactlyOnce, NEW t \in Task, PostTask(t)
  PROVE  ExactlyOnce'
<1> SUFFICES ASSUME NEW u \in Task PROVE (Copies(u) = IF WasPosted(u) THEN 1 ELSE 0)'
  BY DEF ExactlyOnce
<1>1. /\ incomplete' = Append(incomplete, t) /\ posted' = Append(posted, t) /\ ~WasPosted(t)
      /\ UNCHANGED <<completed, operation, current, delivered>>
      /\ incomplete \in Seq(Task) /\ posted \in Seq(Task) /\ TypeOK /\ TypeOK'
  BY DEF PostTask, IInv, TypeOK
<1>2. Cardinality(Waiting(u)') = Cardinality(Waiting(u)) + (IF t = u THEN 1 ELSE 0)
  <2>1. Waiting(u) \in SUBSET (1..Len(incomplete)) /\ Len(incomplete) \in Nat
    BY <1>1 DEF Waiting
  <2>2. /\ Len(incomplete') = Len(incomplete) + 1 /\ incomplete'[Len(incomplete) + 1] = t
        /\ \A i \in 1..Len(incomplete) : incomplete'[i] = incomplete[i]
    BY <1>1, AppendAt
  <2>3. /\ Waiting(u)' \subseteq 1..(Len(incomplete) + 1)
        /\ Len(incomplete) + 1 \in Waiting(u)' <=> t = u
        /\ \A i \in 1..Len(incomplete) : i \in Waiting(u)' <=> i \in Waiting(u)
    BY <2>1, <2>2 DEF Waiting
  <2>4. QED BY <2>1, <2>3, GrowCount
<1>3. WasPosted(u)' <=> u = t \/ WasPosted(u)
  <2>1. /\ Len(posted') = Len(posted) + 1 /\ posted'[Len(posted) + 1] = t /\ Len(posted) \in Nat
        /\ \A i \in 1..Len(posted) : posted'[i] = posted[i]
    BY <1>1, AppendAt
  <2>2. \A i \in 1..(Len(posted) + 1) : i \in 1..Len(posted) \/ i = Len(posted) + 1
    BY <2>1
  <2>3. \A i \in 1..Len(posted) : i \in 1..(Len(posted) + 1)
    BY <2>1
  <2>4. Len(posted) + 1 \in 1..(Len(posted) + 1)
    BY <2>1
  <2>5. QED BY <2>1, <2>2, <2>3, <2>4 DEF WasPosted
<1>4. UNCHANGED <<Cardinality(Holders(u)), Cardinality(Finished(u)), InHand(u), Cardinality(Deliveries(u))>>
  BY <1>1 DEF Holders, Finished, InHand, Deliveries
<1>5. Copies(u)' = Copies(u) + (IF t = u THEN 1 ELSE 0)
  <2>1. /\ Copies(u) = Cardinality(Waiting(u)) + Cardinality(Holders(u))
                        + Cardinality(Finished(u)) + InHand(u) + Cardinality(Deliveries(u))
        /\ Cardinality(Waiting(u)) \in Nat /\ Cardinality(Holders(u)) \in Nat
        /\ Cardinality(Finished(u)) \in Nat /\ InHand(u) \in Nat /\ Cardinality(Deliveries(u)) \in Nat
    BY <1>1, CopiesType
  <2>2. Copies(u)' = Cardinality(Waiting(u)') + Cardinality(Holders(u)')
                      + Cardinality(Finished(u)') + InHand(u)' + Cardinality(Deliveries(u)')
    BY DEF Copies, Waiting, Holders, Finished, InHand, Deliveries
  <2>3. QED BY <1>2, <1>4, <2>1, <2>2
<1>6. QED BY <1>1, <1>3, <1>5 DEF ExactlyOnce

\* ... and every other step moves copies from one place to another.
LEMMA MovedCopies ==
  ASSUME IsFiniteSet(Worker), IInv, ExactlyOnce, UNCHANGED posted,
         \A u \in Task :
            Cardinality(Waiting(u)') + Cardinality(Holders(u)') + Cardinality(Finished(u)')
               + InHand(u)' + Cardinality(Deliveries(u)')
            = Cardinality(Waiting(u)) + Cardinality(Holders(u)) + Cardinality(Finished(u))
               + InHand(u) + Cardinality(Deliveries(u))
  PROVE  ExactlyOnce'
<1> SUFFICES ASSUME NEW u \in Task PROVE (Copies(u) = IF WasPosted(u) THEN 1 ELSE 0)'
  BY DEF ExactlyOnce
<1>1. Copies(u)' = Cardinality(Waiting(u)') + Cardinality(Holders(u)')
                    + Cardinality(Finished(u)') + InHand(u)' + Cardinality(Deliveries(u)')
  BY DEF Copies, Waiting, Holders, Finished, InHand, Deliveries
<1>2. Copies(u) = Cardinality(Waiting(u)) + Cardinality(Holders(u))
                   + Cardinality(Finished(u)) + InHand(u) + Cardinality(Deliveries(u))
  BY DEF Copies, Waiting, Holders, Finished, InHand, Deliveries
<1>3. WasPosted(u)' = WasPosted(u)
  BY DEF WasPosted
<1>4. QED BY <1>1, <1>2, <1>3 DEF ExactlyOnce

\* The places of a task in a sequence that loses its head, or gains an element.
LEMMA TailPlaces ==
  ASSUME NEW S, NEW STATE s, s \in Seq(S), s # <<>>, NEW STATE A, A \in SUBSET (1..Len(s)), NEW STATE B,
         B \subseteq 1..Len(Tail(s)),
         \A i \in 1..Len(Tail(s)) : i \in B <=> i + 1 \in A
  PROVE  Cardinality(B) = Cardinality(A) - (IF 1 \in A THEN 1 ELSE 0)
<1>1. Len(s) \in Nat \ {0} /\ Len(Tail(s)) = Len(s) - 1
  BY TailAt
<1>2. \A i \in Nat : i \in B <=> i # 0 /\ i + 1 \in A
  BY <1>1
<1>3. B \in SUBSET Nat
  BY <1>1
<1>4. QED BY <1>1, <1>2, <1>3, ShiftCount

LEMMA TakeCopies ==
  ASSUME IsFiniteSet(Worker), IInv, ExactlyOnce, NEW w \in Worker, TakeTask(w)
  PROVE  ExactlyOnce'
<1>1. /\ incomplete' = Tail(incomplete) /\ operation' = [operation EXCEPT ![w] = Head(incomplete)]
      /\ UNCHANGED <<completed, current, delivered, posted>>
      /\ incomplete \in Seq(Task) /\ incomplete # <<>>
      /\ operation \in [Worker -> Task \cup {NoTask}] /\ operation[w] = NoTask
  BY DEF TakeTask, IInv, TypeOK, PopIsSafe, HoldingInv, history
<1>2. Head(incomplete) \in Task /\ Head(incomplete) = incomplete[1] /\ 1 \in 1..Len(incomplete)
  <2>1. Len(incomplete) \in Nat \ {0} /\ Head(incomplete) = incomplete[1]
    BY <1>1, TailAt
  <2>2. QED BY <1>1, <2>1
<1>3. ASSUME NEW u \in Task
      PROVE  /\ Cardinality(Waiting(u)') = Cardinality(Waiting(u)) - (IF Head(incomplete) = u THEN 1 ELSE 0)
             /\ Cardinality(Holders(u)') = Cardinality(Holders(u)) + (IF Head(incomplete) = u THEN 1 ELSE 0)
  <2>1. Cardinality(Holders(u)') = Cardinality(Holders(u)) + (IF Head(incomplete) = u THEN 1 ELSE 0)
    BY <1>1, <1>2, HolderCount
  <2>2. /\ Waiting(u) \in SUBSET (1..Len(incomplete)) /\ Waiting(u)' \subseteq 1..Len(Tail(incomplete))
        /\ 1 \in Waiting(u) <=> Head(incomplete) = u
    BY <1>1, <1>2 DEF Waiting
  <2>3. /\ \A i \in 1..Len(Tail(incomplete)) : Tail(incomplete)[i] = incomplete[i + 1]
        /\ \A i \in 1..Len(Tail(incomplete)) : i + 1 \in 1..Len(incomplete)
    BY <1>1, TailAt
  <2>4. \A i \in 1..Len(Tail(incomplete)) : i \in Waiting(u)' <=> i + 1 \in Waiting(u)
    BY <1>1, <2>3 DEF Waiting
  <2>5. Cardinality(Waiting(u)') = Cardinality(Waiting(u)) - (IF 1 \in Waiting(u) THEN 1 ELSE 0)
    BY <1>1, <2>2, <2>4, TailPlaces
  <2>6. QED BY <2>1, <2>2, <2>5
<1>4. \A u \in Task : UNCHANGED <<Cardinality(Finished(u)), InHand(u), Cardinality(Deliveries(u))>>
  BY <1>1 DEF Finished, InHand, Deliveries
<1>5. \A u \in Task : /\ Cardinality(Waiting(u)) \in Nat /\ Cardinality(Holders(u)) \in Nat
                      /\ Cardinality(Finished(u)) \in Nat /\ InHand(u) \in Nat
                      /\ Cardinality(Deliveries(u)) \in Nat
  BY CopiesType DEF IInv
<1>6. ASSUME NEW u \in Task
      PROVE  Cardinality(Waiting(u)') + Cardinality(Holders(u)') + Cardinality(Finished(u)')
                + InHand(u)' + Cardinality(Deliveries(u)')
             = Cardinality(Waiting(u)) + Cardinality(Holders(u)) + Cardinality(Finished(u))
                + InHand(u) + Cardinality(Deliveries(u))
  BY <1>3, <1>4, <1>5
<1>7. QED BY <1>1, <1>6, MovedCopies

LEMMA PushCopies ==
  ASSUME IsFiniteSet(Worker), IInv, ExactlyOnce, NEW w \in Worker, PushCompleted(w)
  PROVE  ExactlyOnce'
<1> DEFINE done == [task |-> operation[w], status |-> outcome[w]]
<1>1. /\ completed' = Append(completed, done) /\ operation' = [operation EXCEPT ![w] = NoTask]
      /\ UNCHANGED <<incomplete, current, delivered, posted>>
      /\ completed \in Seq(Operation) /\ operation \in [Worker -> Task \cup {NoTask}]
  BY DEF PushCompleted, IInv, TypeOK, history
<1>2. ASSUME NEW u \in Task
      PROVE  /\ Cardinality(Finished(u)') = Cardinality(Finished(u)) + (IF operation[w] = u THEN 1 ELSE 0)
             /\ Cardinality(Holders(u)') = Cardinality(Holders(u)) - (IF operation[w] = u THEN 1 ELSE 0)
  <2>1. Cardinality(Holders(u)') = Cardinality(Holders(u)) - (IF operation[w] = u THEN 1 ELSE 0)
    BY <1>1, HolderCount
  <2>2. Finished(u) \in SUBSET (1..Len(completed)) /\ Len(completed) \in Nat
    BY <1>1 DEF Finished
  <2>3. /\ Len(completed') = Len(completed) + 1 /\ completed'[Len(completed) + 1] = done
        /\ \A i \in 1..Len(completed) : completed'[i] = completed[i]
    <3> HIDE DEF done
    <3>1. QED BY <1>1, AppendAt
  <2>4. /\ Finished(u)' \subseteq 1..(Len(completed) + 1)
        /\ Len(completed) + 1 \in Finished(u)' <=> operation[w] = u
        /\ \A i \in 1..Len(completed) : i \in Finished(u)' <=> i \in Finished(u)
    BY <2>2, <2>3 DEF Finished
  <2>5. QED BY <2>1, <2>2, <2>4, GrowCount
<1>3. \A u \in Task : UNCHANGED <<Cardinality(Waiting(u)), InHand(u), Cardinality(Deliveries(u))>>
  BY <1>1 DEF Waiting, InHand, Deliveries
<1>4. \A u \in Task : /\ Cardinality(Waiting(u)) \in Nat /\ Cardinality(Holders(u)) \in Nat
                      /\ Cardinality(Finished(u)) \in Nat /\ InHand(u) \in Nat
                      /\ Cardinality(Deliveries(u)) \in Nat
  BY CopiesType DEF IInv
<1>5. ASSUME NEW u \in Task
      PROVE  Cardinality(Waiting(u)') + Cardinality(Holders(u)') + Cardinality(Finished(u)')
                + InHand(u)' + Cardinality(Deliveries(u)')
             = Cardinality(Waiting(u)) + Cardinality(Holders(u)) + Cardinality(Finished(u))
                + InHand(u) + Cardinality(Deliveries(u))
  BY <1>2, <1>3, <1>4
<1>6. QED BY <1>1, <1>5, MovedCopies

LEMMA PopCopies ==
  ASSUME IsFiniteSet(Worker), IInv, ExactlyOnce, PopCompleted
  PROVE  ExactlyOnce'
<1>1. /\ completed' = Tail(completed) /\ current' = Head(completed)
      /\ UNCHANGED <<incomplete, operation, delivered, posted>>
      /\ completed \in Seq(Operation) /\ completed # <<>> /\ current = NoOperation
  BY DEF PopCompleted, IInv, TypeOK, HoldingInv, workers, history
<1>2. Head(completed) = completed[1] /\ 1 \in 1..Len(completed)
  <2>1. Len(completed) \in Nat \ {0} /\ Head(completed) = completed[1]
    BY <1>1, TailAt
  <2>2. QED BY <2>1
<1>3. ASSUME NEW u \in Task
      PROVE  /\ Cardinality(Finished(u)') = Cardinality(Finished(u)) - (IF completed[1].task = u THEN 1 ELSE 0)
             /\ InHand(u) = 0 /\ InHand(u)' = IF completed[1].task = u THEN 1 ELSE 0
  <2>1. InHand(u) = 0 /\ InHand(u)' = IF completed[1].task = u THEN 1 ELSE 0
    BY <1>1, <1>2, TaskAssumption DEF InHand, NoOperation
  <2>2. /\ Finished(u) \in SUBSET (1..Len(completed)) /\ Finished(u)' \subseteq 1..Len(Tail(completed))
        /\ 1 \in Finished(u) <=> completed[1].task = u
    BY <1>1, <1>2 DEF Finished
  <2>3. /\ \A i \in 1..Len(Tail(completed)) : Tail(completed)[i] = completed[i + 1]
        /\ \A i \in 1..Len(Tail(completed)) : i + 1 \in 1..Len(completed)
    BY <1>1, TailAt
  <2>4. \A i \in 1..Len(Tail(completed)) : i \in Finished(u)' <=> i + 1 \in Finished(u)
    BY <1>1, <2>3 DEF Finished
  <2>5. Cardinality(Finished(u)') = Cardinality(Finished(u)) - (IF 1 \in Finished(u) THEN 1 ELSE 0)
    BY <1>1, <2>2, <2>4, TailPlaces
  <2>6. QED BY <2>1, <2>2, <2>5
<1>4. \A u \in Task : UNCHANGED <<Cardinality(Waiting(u)), Cardinality(Holders(u)), Cardinality(Deliveries(u))>>
  BY <1>1 DEF Waiting, Holders, Deliveries
<1>5. \A u \in Task : /\ Cardinality(Waiting(u)) \in Nat /\ Cardinality(Holders(u)) \in Nat
                      /\ Cardinality(Finished(u)) \in Nat /\ InHand(u) \in Nat
                      /\ Cardinality(Deliveries(u)) \in Nat
  BY CopiesType DEF IInv
<1>6. ASSUME NEW u \in Task
      PROVE  Cardinality(Waiting(u)') + Cardinality(Holders(u)') + Cardinality(Finished(u)')
                + InHand(u)' + Cardinality(Deliveries(u)')
             = Cardinality(Waiting(u)) + Cardinality(Holders(u)) + Cardinality(Finished(u))
                + InHand(u) + Cardinality(Deliveries(u))
  BY <1>3, <1>4, <1>5
<1>7. QED BY <1>1, <1>6, MovedCopies

LEMMA ReturnCopies ==
  ASSUME IsFiniteSet(Worker), IInv, ExactlyOnce, CallbackReturns
  PROVE  ExactlyOnce'
<1>1. PICK d : delivered' = Append(delivered, d) /\ d.task = current.task
  BY DEF CallbackReturns
<1>2. /\ current' = NoOperation /\ UNCHANGED <<incomplete, operation, completed, posted>>
      /\ delivered \in Seq(Delivery)
  BY DEF CallbackReturns, IInv, TypeOK, queues, workers
<1>3. ASSUME NEW u \in Task
      PROVE  /\ Cardinality(Deliveries(u)') = Cardinality(Deliveries(u)) + InHand(u)
             /\ InHand(u)' = 0
  <2>1. InHand(u)' = 0
    BY <1>2, TaskAssumption DEF InHand, NoOperation
  <2>2. Deliveries(u) \in SUBSET (1..Len(delivered)) /\ Len(delivered) \in Nat
    BY <1>2 DEF Deliveries
  <2>3. /\ Len(delivered') = Len(delivered) + 1 /\ delivered'[Len(delivered) + 1] = d
        /\ \A i \in 1..Len(delivered) : delivered'[i] = delivered[i]
    BY <1>1, <1>2, AppendAt
  <2>4. /\ Deliveries(u)' \subseteq 1..(Len(delivered) + 1)
        /\ Len(delivered) + 1 \in Deliveries(u)' <=> current.task = u
        /\ \A i \in 1..Len(delivered) : i \in Deliveries(u)' <=> i \in Deliveries(u)
    BY <1>1, <2>2, <2>3 DEF Deliveries
  <2>5. Cardinality(Deliveries(u)') = Cardinality(Deliveries(u)) + (IF current.task = u THEN 1 ELSE 0)
    BY <2>2, <2>4, GrowCount
  <2>6. QED BY <2>1, <2>5 DEF InHand
<1>4. \A u \in Task : UNCHANGED <<Cardinality(Waiting(u)), Cardinality(Holders(u)), Cardinality(Finished(u))>>
  BY <1>2 DEF Waiting, Holders, Finished
<1>5. \A u \in Task : /\ Cardinality(Waiting(u)) \in Nat /\ Cardinality(Holders(u)) \in Nat
                      /\ Cardinality(Finished(u)) \in Nat /\ InHand(u) \in Nat
                      /\ Cardinality(Deliveries(u)) \in Nat
  BY CopiesType DEF IInv
<1>6. ASSUME NEW u \in Task
      PROVE  Cardinality(Waiting(u)') + Cardinality(Holders(u)') + Cardinality(Finished(u)')
                + InHand(u)' + Cardinality(Deliveries(u)')
             = Cardinality(Waiting(u)) + Cardinality(Holders(u)) + Cardinality(Finished(u))
                + InHand(u) + Cardinality(Deliveries(u))
  BY <1>3, <1>4, <1>5
<1>7. QED BY <1>2, <1>6, MovedCopies

LEMMA InitCopies == Init => ExactlyOnce
<1> SUFFICES ASSUME Init, NEW t \in Task PROVE Copies(t) = IF WasPosted(t) THEN 1 ELSE 0
  BY DEF ExactlyOnce
<1>1. Len(incomplete) = 0 /\ Len(completed) = 0 /\ Len(delivered) = 0 /\ Len(posted) = 0
  BY DEF Init
<1>2. Waiting(t) = {} /\ Finished(t) = {} /\ Deliveries(t) = {} /\ ~WasPosted(t)
  BY <1>1 DEF Waiting, Finished, Deliveries, WasPosted
<1>3. Holders(t) = {} /\ InHand(t) = 0
  BY TaskAssumption DEF Init, NoOperation, Holders, InHand
<1>4. Copies(t) = Cardinality(Waiting(t)) + Cardinality(Holders(t))
                  + Cardinality(Finished(t)) + InHand(t) + Cardinality(Deliveries(t))
  BY DEF Copies, Waiting, Holders, Finished, InHand, Deliveries
<1>5. Cardinality(Waiting(t)) = 0 /\ Cardinality(Holders(t)) = 0 /\ Cardinality(Finished(t)) = 0
      /\ Cardinality(Deliveries(t)) = 0
  BY <1>2, <1>3, FS_EmptySet
<1>6. QED BY <1>2, <1>3, <1>4, <1>5

\* With any finite number of worker threads a posted task is in exactly one place until
\* its callbacks have run, and stays delivered.
THEOREM TaskOnce == ASSUME IsFiniteSet(Worker) PROVE Spec => []ExactlyOnce
<1>1. ASSUME IInv, IInv', ExactlyOnce, [Next]_vars PROVE ExactlyOnce'
  <2>1. ASSUME UNCHANGED <<incomplete, operation, completed, current, delivered, posted>>
        PROVE  ExactlyOnce'
    BY <1>1, <2>1 DEF ExactlyOnce, Copies, WasPosted
  <2>2. CASE UNCHANGED vars
    BY <2>1, <2>2 DEF vars
  <2>3. CASE MainStep
    BY <1>1, <2>1, <2>3, PostCopies, PopCopies, ReturnCopies
       DEF MainStep, StartWorkerThreads, BeginProcessing, EndProcessing, StopWorkerThreads,
           NotifyAll, JoinWorkers, queues, workers, history
  <2>4. ASSUME NEW w \in Worker, WorkerStep(w) \/ SpuriousWakeup(w) PROVE ExactlyOnce'
    BY <1>1, <2>1, <2>4, TakeCopies, PushCopies
       DEF WorkerStep, LoopTest, LockIncomplete, TestPredicate, Sleep, ExitWorker, RunTask,
           SpuriousWakeup, queues, history
  <2>5. QED BY <1>1, <2>2, <2>3, <2>4 DEF Next
<1>2. QED BY <1>1, InitCopies, Invariance, PTL DEF Spec
=============================================================================
