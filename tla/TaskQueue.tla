------------------------------ MODULE TaskQueue ------------------------------
(***************************************************************************)
(* What TimerunV2 relies on when it hands database work to its             *)
(* SynchronizationContext: a first-in first-out queue of tasks.  Every     *)
(* posted task has its callback run at most once, on the game thread, in   *)
(* the order the tasks were posted, and nothing is delivered once the      *)
(* queue is closed.                                                        *)
(***************************************************************************)
EXTENDS Sequences

CONSTANT Task    \* the tasks a game may post

VARIABLES
    pending,     \* posted and not yet delivered, oldest first
    delivered,   \* tasks whose callback has run, in that order
    open         \* TRUE until the queue is shut down

queueVars == <<pending, delivered, open>>

QueueInit ==
    /\ pending = <<>>
    /\ delivered = <<>>
    /\ open = TRUE

\* A task is posted at the back.
Post(t) ==
    /\ pending' = Append(pending, t)
    /\ UNCHANGED <<delivered, open>>

\* The callback of the oldest task runs.
Deliver ==
    /\ open
    /\ pending # <<>>
    /\ delivered' = Append(delivered, Head(pending))
    /\ pending' = Tail(pending)
    /\ UNCHANGED open

\* Shutdown: whatever is still pending is lost.
Close ==
    /\ open
    /\ open' = FALSE
    /\ UNCHANGED <<pending, delivered>>

QueueNext == (\E t \in Task : Post(t)) \/ Deliver \/ Close

QueueSpec == QueueInit /\ [][QueueNext]_queueVars
=============================================================================
