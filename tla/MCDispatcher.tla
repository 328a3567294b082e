---------------------------- MODULE MCDispatcher ----------------------------
(* Instances of Dispatcher: how many commands of each kind arrive. *)
EXTENDS Dispatcher, TLC

CONSTANTS c1, w1, w2

OneChat == {c1}
OneWorker == {w1}
TwoWorkers == {w1, w2}

Commands_(play, skip, stop, pause) ==
    [cmd \in Commands |-> CASE cmd = "play" -> play [] cmd = "skip" -> skip
                            [] cmd = "stop" -> stop [] OTHER -> pause]

TurnsBudget == Commands_(3, 2, 1, 0)
RestBudget == Commands_(2, 1, 1, 1)
ParallelBudget == Commands_(2, 1, 0, 1)
SkipBudget == Commands_(3, 1, 0, 0)
StopBudget == Commands_(2, 0, 1, 0)
StrandBudget == Commands_(2, 0, 0, 0)

\* Of the commands of a budget at most three arrive.
ThreeCommands ==
    issued["play"] + issued["skip"] + issued["pause"] + issued["resume"] <= 3

\* The workers are interchangeable.
Symmetric == Permutations(TwoWorkers)

NoTracks == {}
FirstTrack == {1}
SecondTrack == {2}
AllThree == 1 .. 3
=============================================================================
