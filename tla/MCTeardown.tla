----------------------------- MODULE MCTeardown -----------------------------
(* Instances of Teardown: one chat, one worker, a few commands. *)
EXTENDS Teardown, TLC

CONSTANTS c1, w1

OneChat == {c1}
OneWorker == {w1}
TheBudget == [cmd \in Commands |-> CASE cmd = "play" -> 2 [] cmd \in {"stop", "resume"} -> 0
                                     [] OTHER -> 1]
FirstTrack == {1}
=============================================================================
