------------------------------ MODULE TaskPool ------------------------------
(***************************************************************************)
(* What core::ThreadPool promises to its callers, without its mutex, its   *)
(* condition variable or its counters: the tasks that were accepted form   *)
(* one FIFO queue, each is taken by one worker, and each runs once.        *)
(* A member of Tasks stands for one call of enqueue that was accepted.     *)
(***************************************************************************)
EXTENDS Sequences, Functions

CONSTANTS Workers, Tasks, NoTask

VARIABLES queue,     \* accepted tasks nobody has taken yet, oldest first
          running,   \* worker -> the task it runs, or NoTask
          finished   \* the tasks that ran to their end

vars == <<queue, running, finished>>

Init == /\ queue = <<>>
        /\ running = [w \in Workers |-> NoTask]
        /\ finished = {}

\* A task is accepted only if it is new: not queued, not running, not done.
Submit(t) == /\ t \notin Range(queue) \cup Range(running) \cup finished
             /\ queue' = Append(queue, t)
             /\ UNCHANGED <<running, finished>>

Take(w) == /\ running[w] = NoTask
           /\ queue # <<>>
           /\ running' = [running EXCEPT ![w] = Head(queue)]
           /\ queue' = Tail(queue)
           /\ UNCHANGED finished

Finish(w) == /\ running[w] # NoTask
             /\ finished' = finished \cup {running[w]}
             /\ running' = [running EXCEPT ![w] = NoTask]
             /\ UNCHANGED queue

Next == \/ \E t \in Tasks : Submit(t)
        \/ \E w \in Workers : Take(w) \/ Finish(w)

Spec == Init /\ [][Next]_vars
=============================================================================
