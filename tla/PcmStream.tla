----------------------------- MODULE PcmStream -----------------------------
(***************************************************************************)
(* What AudioStreamer relies on from a pipeline (audio::FFmpegPipeline):   *)
(* once launched its reader spawns a decoder or gives up; it reads, or     *)
(* holds while paused; the stream ends once, by itself or after stop();    *)
(* on_eof is called once, last; and a join returns when it has returned.   *)
(***************************************************************************)
CONSTANT Pipelines

VARIABLES running, paused,
          reader    \* pipeline -> none, starting, reading, held, ending or exited

vars == <<running, paused, reader>>

Init == /\ running = [p \in Pipelines |-> FALSE]
        /\ paused = [p \in Pipelines |-> FALSE]
        /\ reader = [p \in Pipelines |-> "none"]

Becomes(p, from, to) == /\ reader[p] \in from
                        /\ reader' = [reader EXCEPT ![p] = to]

Halts(p) == running' = [running EXCEPT ![p] = FALSE] /\ UNCHANGED paused

\* A pause from before is forgotten.
Launch(p) == /\ Becomes(p, {"none"}, "starting")
             /\ running' = [running EXCEPT ![p] = TRUE]
             /\ paused' = [paused EXCEPT ![p] = FALSE]

Spawns(p) == Becomes(p, {"starting"}, "reading") /\ UNCHANGED <<running, paused>>

GivesUp(p) == Becomes(p, {"starting"}, "exited") /\ Halts(p)

Holds(p) == paused[p] /\ Becomes(p, {"reading"}, "held") /\ UNCHANGED <<running, paused>>

\* A reader that is held wakes up for a stop(), too.
ReadsOn(p) == /\ ~paused[p] \/ ~running[p]
              /\ Becomes(p, {"held"}, "reading")
              /\ UNCHANGED <<running, paused>>

\* At the end of the stream, or because of a stop(), which ends a pause, too.
Ends(p) == /\ reader[p] = "held" => ~running[p]
           /\ Becomes(p, {"reading", "held"}, "ending")
           /\ Halts(p)

on_eof(p) == Becomes(p, {"ending"}, "exited") /\ UNCHANGED <<running, paused>>

Stop(p) == Halts(p) /\ UNCHANGED reader

Join(p) == Becomes(p, {"exited"}, "none") /\ UNCHANGED <<running, paused>>

SetPaused(p, b) == paused' = [paused EXCEPT ![p] = b] /\ UNCHANGED <<running, reader>>

Next == \E p \in Pipelines :
    \/ Launch(p) \/ Spawns(p) \/ GivesUp(p) \/ Holds(p) \/ ReadsOn(p) \/ Ends(p)
    \/ on_eof(p) \/ Stop(p) \/ Join(p) \/ \E b \in BOOLEAN : SetPaused(p, b)

Spec == Init /\ [][Next]_vars
=============================================================================
