---------------------------- MODULE MCThreadPool ----------------------------
(* ThreadPool with two workers, two callers and a queue of one. *)
EXTENDS ThreadPool
CONSTANTS w1, w2, c1, c2, t1, t2, t3

MCWorkers == {w1, w2}
MCCallers == {c1, c2}
MCTasks == {t1, t2, t3}
=============================================================================
