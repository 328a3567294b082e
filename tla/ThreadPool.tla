----------------------------- MODULE ThreadPool -----------------------------
(***************************************************************************)
(* core::ThreadPool (include/anonx/core/thread_pool.hpp and                *)
(* src/core/thread_pool.cpp): callers that enqueue, workers that wait on a *)
(* condition variable, and an owner that shuts the pool down.              *)
(*                                                                         *)
(* A step is one atomic load, store or read-modify-write of the code, one  *)
(* critical section of mutex_, or one notification.  Only a worker that    *)
(* has found the predicate of cv_.wait false keeps mutex_ from one step to *)
(* the next ("park"): it holds it until cv_.wait has put it to sleep, and  *)
(* shutdown() may store stop_ and notify in between.                       *)
(***************************************************************************)
EXTENDS Integers, Sequences, FiniteSets, Functions

CONSTANTS Workers,        \* the threads the constructor starts
          Callers,        \* threads that call enqueue (receivers, EOF threads)
          Tasks,          \* one member per call of enqueue
          MaxQueueSize,   \* max_queue_size_
          NoTask

ASSUME PoolAssumption ==
    /\ IsFiniteSet(Workers) /\ Workers # {}
    /\ IsFiniteSet(Callers) /\ Callers # {}
    /\ MaxQueueSize \in Nat
    /\ NoTask \notin Tasks

VARIABLES tasks,            \* tasks_
          stop,             \* stop_
          pending_tasks,    \* pending_tasks_
          completed_tasks,  \* completed_tasks_
          callerPC, callerTask,
          workerPC, workerTask,
          ownerPC,          \* where the thread that destroys the pool is
          offered,          \* history: the tasks handed to enqueue so far
          executed,         \* history: the tasks whose function has returned
          backlog           \* history: the tasks accepted before stop_ was set

vars == <<tasks, stop, pending_tasks, completed_tasks, callerPC, callerTask,
          workerPC, workerTask, ownerPC, offered, executed, backlog>>

callerVars == <<callerPC, callerTask, offered>>
workerVars == <<workerPC, workerTask, executed, completed_tasks>>
ownerVars  == <<stop, ownerPC, backlog>>

CallerStates == {"idle", "check_stop", "check_capacity", "charge", "push", "notify"}
WorkerStates == {"acquire", "park", "wait", "execute", "complete", "retire", "exited"}

\* mutex_ is held across steps only by a worker on its way to sleep.
MutexFree == \A w \in Workers : workerPC[w] # "park"

Waiting == {w \in Workers : workerPC[w] = "wait"}

\* The tasks the pool has accepted and that no worker has finished running.
Unfinished == Range(tasks) \cup (Range(workerTask) \ {NoTask})

Init ==
    /\ tasks = <<>>
    /\ stop = FALSE
    /\ pending_tasks = 0
    /\ completed_tasks = 0
    /\ callerPC = [c \in Callers |-> "idle"]
    /\ callerTask = [c \in Callers |-> NoTask]
    /\ workerPC = [w \in Workers |-> "acquire"]
    /\ workerTask = [w \in Workers |-> NoTask]
    /\ ownerPC = "running"
    /\ offered = {}
    /\ executed = {}
    /\ backlog = {}

-----------------------------------------------------------------------------
(* enqueue *)

Call(c) ==
    /\ callerPC[c] = "idle"
    /\ \E t \in Tasks \ offered :
          /\ callerTask' = [callerTask EXCEPT ![c] = t]
          /\ offered' = offered \cup {t}
    /\ callerPC' = [callerPC EXCEPT ![c] = "check_stop"]
    /\ UNCHANGED <<tasks, pending_tasks, workerVars, ownerVars>>

CallerMoves(c, from, to) ==
    /\ callerPC[c] = from
    /\ callerPC' = [callerPC EXCEPT ![c] = to]
    /\ UNCHANGED <<offered, ownerVars>>

\* The two throws: the task is dropped before it is counted.
Throw(c, from) ==
    /\ CallerMoves(c, from, "idle")
    /\ callerTask' = [callerTask EXCEPT ![c] = NoTask]
    /\ UNCHANGED <<tasks, pending_tasks, workerVars>>

CheckStop(c) ==
    \/ /\ stop
       /\ Throw(c, "check_stop")
    \/ /\ ~stop
       /\ CallerMoves(c, "check_stop", "check_capacity")
       /\ UNCHANGED <<tasks, pending_tasks, callerTask, workerVars>>

\* Mutant of CheckCapacity: lets one task too many in.
CheckCapacityLate(c) ==
    \/ /\ pending_tasks > MaxQueueSize
       /\ Throw(c, "check_capacity")
    \/ /\ pending_tasks <= MaxQueueSize
       /\ CallerMoves(c, "check_capacity", "charge")
       /\ UNCHANGED <<tasks, pending_tasks, callerTask, workerVars>>

CheckCapacity(c) ==
    \/ /\ pending_tasks >= MaxQueueSize
       /\ Throw(c, "check_capacity")
    \/ /\ pending_tasks < MaxQueueSize
       /\ CallerMoves(c, "check_capacity", "charge")
       /\ UNCHANGED <<tasks, pending_tasks, callerTask, workerVars>>

Charge(c) ==
    /\ CallerMoves(c, "charge", "push")
    /\ pending_tasks' = pending_tasks + 1
    /\ UNCHANGED <<tasks, callerTask, workerVars>>

Push(c) ==
    /\ MutexFree
    /\ CallerMoves(c, "push", "notify")
    /\ tasks' = Append(tasks, callerTask[c])
    /\ callerTask' = [callerTask EXCEPT ![c] = NoTask]
    /\ UNCHANGED <<pending_tasks, workerVars>>

\* Mutant of NotifyOne: no notification.
NotifyNobody(c) ==
    /\ CallerMoves(c, "notify", "idle")
    /\ UNCHANGED <<tasks, pending_tasks, callerTask, workerVars>>

\* cv_.notify_one wakes one sleeper, or nobody when nobody sleeps.
NotifyOne(c) ==
    /\ CallerMoves(c, "notify", "idle")
    /\ \/ /\ Waiting = {}
          /\ UNCHANGED workerPC
       \/ \E w \in Waiting : workerPC' = [workerPC EXCEPT ![w] = "acquire"]
    /\ UNCHANGED <<tasks, pending_tasks, callerTask, workerTask, executed, completed_tasks>>

-----------------------------------------------------------------------------
(* the worker loop *)

WorkerMoves(w, from, to) ==
    /\ workerPC[w] = from
    /\ workerPC' = [workerPC EXCEPT ![w] = to]
    /\ UNCHANGED <<callerVars, ownerVars>>

\* The predicate of cv_.wait is false: mutex_ stays held until Park.
Sleep(w) ==
    /\ MutexFree /\ ~stop /\ tasks = <<>>
    /\ WorkerMoves(w, "acquire", "park")
    /\ UNCHANGED <<tasks, pending_tasks, workerTask, executed, completed_tasks>>

Park(w) ==
    /\ WorkerMoves(w, "park", "wait")
    /\ UNCHANGED <<tasks, pending_tasks, workerTask, executed, completed_tasks>>

SpuriousWakeup(w) ==
    /\ WorkerMoves(w, "wait", "acquire")
    /\ UNCHANGED <<tasks, pending_tasks, workerTask, executed, completed_tasks>>

\* Mutant of Exit: leaves as soon as stop_ is set.
ExitAtOnce(w) ==
    /\ MutexFree /\ stop
    /\ WorkerMoves(w, "acquire", "exited")
    /\ UNCHANGED <<tasks, pending_tasks, workerTask, executed, completed_tasks>>

Exit(w) ==
    /\ MutexFree /\ stop /\ tasks = <<>>
    /\ WorkerMoves(w, "acquire", "exited")
    /\ UNCHANGED <<tasks, pending_tasks, workerTask, executed, completed_tasks>>

\* Mutant of Pop: takes the newest task.
PopNewest(w) ==
    /\ MutexFree /\ tasks # <<>>
    /\ WorkerMoves(w, "acquire", "execute")
    /\ workerTask' = [workerTask EXCEPT ![w] = tasks[Len(tasks)]]
    /\ tasks' = SubSeq(tasks, 1, Len(tasks) - 1)
    /\ UNCHANGED <<pending_tasks, executed, completed_tasks>>

Pop(w) ==
    /\ MutexFree /\ tasks # <<>>
    /\ WorkerMoves(w, "acquire", "execute")
    /\ workerTask' = [workerTask EXCEPT ![w] = Head(tasks)]
    /\ tasks' = Tail(tasks)
    /\ UNCHANGED <<pending_tasks, executed, completed_tasks>>

\* (*task)(): a task that throws has been executed too.
Execute(w) ==
    /\ WorkerMoves(w, "execute", "complete")
    /\ executed' = executed \cup {workerTask[w]}
    /\ workerTask' = [workerTask EXCEPT ![w] = NoTask]
    /\ UNCHANGED <<tasks, pending_tasks, completed_tasks>>

Complete(w) ==
    /\ WorkerMoves(w, "complete", "retire")
    /\ completed_tasks' = completed_tasks + 1
    /\ UNCHANGED <<tasks, pending_tasks, workerTask, executed>>

\* Mutant of Retire: the counter leaks.
RetireLeaks(w) ==
    /\ WorkerMoves(w, "retire", "acquire")
    /\ UNCHANGED <<tasks, pending_tasks, workerTask, executed, completed_tasks>>

Retire(w) ==
    /\ WorkerMoves(w, "retire", "acquire")
    /\ pending_tasks' = pending_tasks - 1
    /\ UNCHANGED <<tasks, workerTask, executed, completed_tasks>>

-----------------------------------------------------------------------------
(* shutdown *)

\* The compare-exchange of stop_, which does not take mutex_.
Stop ==
    /\ ownerPC = "running"
    /\ ~stop
    /\ stop' = TRUE
    /\ ownerPC' = "notify"
    /\ backlog' = Unfinished
    /\ UNCHANGED <<tasks, pending_tasks, callerVars, workerVars>>

NotifyAll ==
    /\ ownerPC = "notify"
    /\ ownerPC' = "join"
    /\ workerPC' = [w \in Workers |-> IF w \in Waiting THEN "acquire" ELSE workerPC[w]]
    /\ UNCHANGED <<tasks, stop, backlog, pending_tasks, completed_tasks, callerVars,
                   workerTask, executed>>

JoinAll ==
    /\ ownerPC = "join"
    /\ \A w \in Workers : workerPC[w] = "exited"
    /\ ownerPC' = "done"
    /\ UNCHANGED <<tasks, stop, backlog, pending_tasks, callerVars, workerVars>>

\* Everything that can happen has happened: the calls are spent and the pool is down.
Finished ==
    /\ ownerPC = "done"
    /\ offered = Tasks
    /\ \A c \in Callers : callerPC[c] = "idle"
    /\ UNCHANGED vars

-----------------------------------------------------------------------------
CallerStep(c) == CheckStop(c) \/ CheckCapacity(c) \/ Charge(c) \/ Push(c) \/ NotifyOne(c)

WorkerStep(w) == Sleep(w) \/ Park(w) \/ Exit(w) \/ Pop(w) \/ Execute(w) \/ Complete(w) \/ Retire(w)

OwnerStep == NotifyAll \/ JoinAll

Next == \/ \E c \in Callers : Call(c) \/ CallerStep(c)
        \/ \E w \in Workers : WorkerStep(w) \/ SpuriousWakeup(w)
        \/ Stop \/ OwnerStep \/ Finished

Spec == Init /\ [][Next]_vars

(***************************************************************************)
(* A thread that can take its next step takes it, tasks return, and nobody *)
(* is obliged to call enqueue, to shut the pool down or to wake a sleeper  *)
(* without a notification.                                                 *)
(***************************************************************************)
Fairness == /\ \A c \in Callers : WF_vars(CallerStep(c))
            /\ \A w \in Workers : WF_vars(WorkerStep(w))
            /\ WF_vars(OwnerStep)

FairSpec == Spec /\ Fairness

-----------------------------------------------------------------------------
TypeOK ==
    /\ tasks \in Seq(Tasks)
    /\ stop \in BOOLEAN
    /\ pending_tasks \in Nat
    /\ completed_tasks \in Nat
    /\ callerPC \in [Callers -> CallerStates]
    /\ callerTask \in [Callers -> Tasks \cup {NoTask}]
    /\ workerPC \in [Workers -> WorkerStates]
    /\ workerTask \in [Workers -> Tasks \cup {NoTask}]
    /\ ownerPC \in {"running", "notify", "join", "done"}
    /\ offered \subseteq Tasks /\ executed \subseteq Tasks /\ backlog \subseteq Tasks

Pushing == {c \in Callers : callerPC[c] = "push"}
Charging == {c \in Callers : callerPC[c] = "charge"}
Working == {w \in Workers : workerPC[w] \in {"execute", "complete", "retire"}}
Awake == {w \in Workers : workerPC[w] = "acquire"}
Notifying == {c \in Callers : callerPC[c] = "notify"}

(***************************************************************************)
(* The counter that /ping prints and that admission depends on never       *)
(* drifts: it counts the tasks being pushed, queued, or held by a worker.  *)
(* A leak would close the pool for good once it added up to the capacity.  *)
(***************************************************************************)
PendingExact ==
    pending_tasks = Cardinality(Pushing) + Len(tasks) + Cardinality(Working)

(***************************************************************************)
(* "Bounded capacity check": the load and the increment of pending_tasks_  *)
(* are two steps, so callers overtake one another between them.  The bound *)
(* that does hold counts one task too many for every caller but one.       *)
(***************************************************************************)
OvershootBounded ==
    MaxQueueSize > 0 => pending_tasks < MaxQueueSize + Cardinality(Callers)

(***************************************************************************)
(* shutdown() returns only when every task accepted before stop_ was set   *)
(* has run: workers drain the queue before they exit.  (A task pushed by a *)
(* caller that passed the stop_ check earlier may be left in the queue.)   *)
(***************************************************************************)
DrainedBeforeExit == ownerPC = "done" => backlog \subseteq executed

(***************************************************************************)
(* No wake-up is lost: while a worker sleeps in cv_.wait, each queued task *)
(* has an awake worker on its way to the queue, or the notify_one of its   *)
(* enqueue still to come.  enqueue notifies after it has released mutex_,  *)
(* so workers pop, sleep and steal each other's tasks in between.          *)
(***************************************************************************)
NobodySleepsOnWork ==
    Waiting # {} => Len(tasks) <= Cardinality(Awake) + Cardinality(Notifying)

(***************************************************************************)
(* A task accepted before the shutdown runs, whoever gets its notification *)
(* and whether or not the pool is being shut down meanwhile.               *)
(***************************************************************************)
AcceptedRuns == \A t \in Tasks : (t \in Range(tasks) /\ ~stop) ~> (t \in executed)

(***************************************************************************)
(* shutdown() returns.  This is what the teardown in main.cpp takes for    *)
(* granted; it fails: stop_ is stored and cv_ notified while a worker that *)
(* has already found the predicate false is not asleep yet.                *)
(***************************************************************************)
ShutdownReturns == (ownerPC = "notify") ~> (ownerPC = "done")

(***************************************************************************)
(* The pool implements the queue it promises: accepted tasks leave in FIFO *)
(* order, each to one worker, and run once.                                *)
(***************************************************************************)
Pool == INSTANCE TaskPool WITH queue <- tasks, running <- workerTask, finished <- executed

ImplementsTaskPool == Pool!Spec
=============================================================================
