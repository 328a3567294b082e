--------------------------- MODULE FFmpegPipeline ---------------------------
(***************************************************************************)
(* audio::FFmpegPipeline (src/audio/ffmpeg_pipeline.cpp, the POSIX build): *)
(* start, stop, pause and resume on the thread that owns the pipeline, and *)
(* the reader thread, for several pipelines of one process.                *)
(*                                                                         *)
(* pipe_fd_ and child_pid_ are plain integers that both threads read and   *)
(* write without a lock: every access is a step, but two loads with no     *)
(* call between them give one value, as any optimised build makes of them, *)
(* and what no other thread can tell apart shares a step.                  *)
(*                                                                         *)
(* Pausable, Stoppable, Fds and, in Posix, Size and Capacity are bounds of *)
(* the instances; start() is called once per pipeline, as by the streamer. *)
(***************************************************************************)
EXTENDS Posix, Integers

CONSTANTS Frame,         \* PCM_FRAME_BYTES, in units
          Pausable,      \* the pipelines whose owner may pause and resume them
          Stoppable,     \* the pipelines whose owner may stop them
          SpawnMayFail   \* whether pipe() and fork() can fail

ASSUME FrameAssumption == Frame \in Nat \ {0}

None == -1   \* no descriptor

VARIABLES owner,        \* pipeline -> where the thread that owns it is
          reader,       \* pipeline -> where its reader is: worker_thread_
          running, paused,
          pipe_fd,
          child_pid,    \* pipeline -> whether child_pid_ > 0
          made,         \* pipeline -> pipefd[0] and pipefd[1] of the reader
          file,         \* pipeline -> the pipe end its read() is at work on
          total,        \* pipeline -> total_read
          delivered,    \* history: pipeline -> units given to on_frame
          heard_end,    \* history: pipeline -> the reader found the end while running
          raced         \* history: pipe_fd_ was used between the close() and the = -1 of the other thread

pipelineVars == <<owner, reader, running, paused, pipe_fd, child_pid, made, file, total,
                  delivered, heard_end, raced>>
vars == <<osVars, pipelineVars>>

Init ==
    /\ OSInit
    /\ owner = [p \in Pipelines |-> "new"]
    /\ reader = [p \in Pipelines |-> "none"]
    /\ running = [p \in Pipelines |-> FALSE]
    /\ paused = [p \in Pipelines |-> FALSE]
    /\ pipe_fd = [p \in Pipelines |-> None]
    /\ child_pid = [p \in Pipelines |-> FALSE]
    /\ made = [p \in Pipelines |-> <<None, None>>]
    /\ file = [p \in Pipelines |-> Free]
    /\ total = [p \in Pipelines |-> 0]
    /\ delivered = [p \in Pipelines |-> 0]
    /\ heard_end = [p \in Pipelines |-> FALSE]
    /\ raced = FALSE

-----------------------------------------------------------------------------
\* One thread uses pipe_fd_ while the other has closed it and not yet stored -1.
NoteRace(p) == raced' = (raced \/ "clear" \in {owner[p], reader[p]})

-----------------------------------------------------------------------------
(* the owner *)

OwnerGoes(p, from, to) == owner[p] = from /\ owner' = [owner EXCEPT ![p] = to]

start(p) ==
    /\ OwnerGoes(p, "new", "started")
    /\ running' = [running EXCEPT ![p] = TRUE]
    /\ paused' = [paused EXCEPT ![p] = FALSE]
    /\ reader' = [reader EXCEPT ![p] = "pipe"]
    /\ UNCHANGED <<osVars, pipe_fd, child_pid, made, file, total, delivered, heard_end, raced>>

set_paused(p, b) ==
    /\ owner[p] = "started" /\ p \in Pausable
    /\ paused' = [paused EXCEPT ![p] = b]
    /\ UNCHANGED <<osVars, owner, reader, running, pipe_fd, child_pid, made, file, total,
                   delivered, heard_end, raced>>

\* stop(), step by step
StopHalts(p) ==
    /\ p \in Stoppable
    /\ OwnerGoes(p, "started", "kill")
    /\ running' = [running EXCEPT ![p] = FALSE]
    /\ UNCHANGED <<osVars, reader, paused, pipe_fd, child_pid, made, file, total, delivered,
                   heard_end, raced>>

StopKills(p) ==
    /\ OwnerGoes(p, "kill", IF child_pid[p] THEN "reap" ELSE "close")
    /\ IF child_pid[p] THEN Kill(p) ELSE UNCHANGED child
    /\ UNCHANGED <<fd, holds, pipe, reader, running, paused, pipe_fd, child_pid, made, file,
                   total, delivered, heard_end, raced>>

\* waitpid(child_pid_, WNOHANG), then child_pid_ = -1.  child_pid_ may be -1 already,
\* and waitpid(-1) takes any child.
StopReaps(p) ==
    /\ OwnerGoes(p, "reap", "close")
    /\ LET ended == IF child_pid[p] THEN {p} \cap Zombies ELSE Zombies
       IN  \/ ended = {} /\ UNCHANGED child
           \/ \E q \in ended : Reap(q)
    /\ child_pid' = [child_pid EXCEPT ![p] = FALSE]
    /\ UNCHANGED <<fd, holds, pipe, reader, running, paused, pipe_fd, made, file, total,
                   delivered, heard_end, raced>>

StopCloses(p) ==
    /\ OwnerGoes(p, "close", IF pipe_fd[p] # None THEN "clear" ELSE "join")
    /\ IF pipe_fd[p] # None THEN Close(pipe_fd[p]) ELSE UNCHANGED fd
    /\ NoteRace(p)
    /\ UNCHANGED <<child, holds, pipe, reader, running, paused, pipe_fd, child_pid, made, file,
                   total, delivered, heard_end>>

StopClears(p) ==
    /\ OwnerGoes(p, "clear", "join")
    /\ pipe_fd' = [pipe_fd EXCEPT ![p] = None]
    /\ UNCHANGED <<osVars, reader, running, paused, child_pid, made, file, total, delivered,
                   heard_end, raced>>

StopJoins(p) ==
    /\ reader[p] = "exited"
    /\ OwnerGoes(p, "join", "stopped")
    /\ reader' = [reader EXCEPT ![p] = "none"]
    /\ UNCHANGED <<osVars, running, paused, pipe_fd, child_pid, made, file, total, delivered,
                   heard_end, raced>>

OwnerStops(p) == StopKills(p) \/ StopReaps(p) \/ StopCloses(p) \/ StopClears(p) \/ StopJoins(p)

-----------------------------------------------------------------------------
(* the reader *)

ReaderGoes(p, from, to) == reader[p] = from /\ reader' = [reader EXCEPT ![p] = to]

\* Mutant of GivesUp: the reader calls on_eof.
GivesUpAndTells(p, from) ==
    /\ SpawnMayFail
    /\ ReaderGoes(p, from, "eof")
    /\ running' = [running EXCEPT ![p] = FALSE]

\* Without a pipe or a child the thread returns; on_eof is not called.
GivesUp(p, from) ==
    /\ SpawnMayFail
    /\ ReaderGoes(p, from, "exited")
    /\ running' = [running EXCEPT ![p] = FALSE]

MakesPipe(p) ==
    /\ \/ /\ ReaderGoes(p, "pipe", "fork")
          /\ \E r, w \in FreeFds :
                /\ Lowest(r, w)
                /\ fd' = [fd EXCEPT ![r] = ReadEnd(p), ![w] = WriteEnd(p)]
                /\ made' = [made EXCEPT ![p] = <<r, w>>]
          /\ UNCHANGED running
       \/ /\ GivesUp(p, "pipe")
          /\ UNCHANGED <<fd, made>>
    /\ UNCHANGED <<child, holds, pipe, owner, paused, pipe_fd, child_pid, file, total, delivered,
                   heard_end, raced>>

Forks(p) ==
    /\ \/ /\ ReaderGoes(p, "fork", "store")
          /\ Fork(p)
          /\ UNCHANGED <<fd, running>>
       \/ /\ GivesUp(p, "fork")
          /\ fd' = [fd EXCEPT ![made[p][1]] = Free, ![made[p][2]] = Free]
          /\ UNCHANGED <<child, holds>>
    /\ UNCHANGED <<pipe, owner, paused, pipe_fd, child_pid, made, file, total, delivered,
                   heard_end, raced>>

\* Mutant of Stores: the parent keeps its copy of the write end.
KeepsWriteEnd(p) ==
    /\ ReaderGoes(p, "store", "loop")
    /\ pipe_fd' = [pipe_fd EXCEPT ![p] = made[p][1]]
    /\ child_pid' = [child_pid EXCEPT ![p] = TRUE]
    /\ made' = [made EXCEPT ![p] = <<None, None>>]
    /\ UNCHANGED <<fd, child, holds, pipe, owner, running, paused, file, total, delivered,
                   heard_end, raced>>

\* close(pipefd[1]), pipe_fd_ and child_pid_; pipefd is not used after that.
Stores(p) ==
    /\ ReaderGoes(p, "store", "loop")
    /\ Close(made[p][2])
    /\ pipe_fd' = [pipe_fd EXCEPT ![p] = made[p][1]]
    /\ child_pid' = [child_pid EXCEPT ![p] = TRUE]
    /\ made' = [made EXCEPT ![p] = <<None, None>>]
    /\ UNCHANGED <<child, holds, pipe, owner, running, paused, file, total, delivered, heard_end,
                   raced>>

\* Mutant of Loops: while paused is_running_ is not looked at.
SleepsOn(p) ==
    /\ \/ ~running[p] /\ ~paused[p] /\ reader[p] \in {"loop", "held"} /\ ReaderGoes(p, reader[p], "close")
       \/ paused[p] /\ ReaderGoes(p, "loop", "held")
       \/ running[p] /\ ~paused[p] /\ reader[p] \in {"loop", "held"} /\ ReaderGoes(p, reader[p], "read")
    /\ total' = [total EXCEPT ![p] = 0]
    /\ UNCHANGED <<osVars, owner, running, paused, pipe_fd, child_pid, made, file, delivered,
                   heard_end, raced>>

\* while (is_running_): sleep while paused, else begin a frame.
Loops(p) ==
    /\ \/ ~running[p] /\ reader[p] \in {"loop", "held"} /\ ReaderGoes(p, reader[p], "close")
       \/ running[p] /\ paused[p] /\ ReaderGoes(p, "loop", "held")
       \/ running[p] /\ ~paused[p] /\ reader[p] \in {"loop", "held"}
          /\ ReaderGoes(p, reader[p], "read")
    /\ total' = [total EXCEPT ![p] = 0]
    /\ UNCHANGED <<osVars, owner, running, paused, pipe_fd, child_pid, made, file, delivered,
                   heard_end, raced>>

\* read(pipe_fd_): EBADF, or a wait in the pipe end that the number names now.
Reads(p) ==
    /\ LET end == IF pipe_fd[p] = None THEN Free ELSE fd[pipe_fd[p]]
       IN  \/ /\ end \in Ends /\ end[2] = "read"
              /\ ReaderGoes(p, "read", "reading")
              /\ file' = [file EXCEPT ![p] = end]
           \/ /\ ~(end \in Ends /\ end[2] = "read")
              /\ ReaderGoes(p, "read", "frame")
              /\ UNCHANGED file
    /\ NoteRace(p)
    /\ UNCHANGED <<osVars, owner, running, paused, pipe_fd, child_pid, made, total, delivered,
                   heard_end>>

\* Mutant of ReadReturns: every read() asks for a whole frame.
ReadsWholeFrames(p) ==
    /\ reader[p] = "reading"
    /\ LET q == file[p][1]
           n == IF pipe[q].buffered < Frame THEN pipe[q].buffered ELSE Frame
       IN  /\ n > 0
           /\ pipe' = [pipe EXCEPT ![q].buffered = @ - n]
           /\ total' = [total EXCEPT ![p] = @ + n]
           /\ ReaderGoes(p, "reading", IF total[p] < Frame /\ running[p] THEN "read" ELSE "frame")
    /\ file' = [file EXCEPT ![p] = Free]
    /\ UNCHANGED <<fd, child, holds, owner, running, paused, pipe_fd, child_pid, made, delivered,
                   heard_end, raced>>

\* What is in the pipe, as far as the frame has room; or the end, when the pipe is
\* empty and no write end is open.
ReadReturns(p) ==
    /\ reader[p] = "reading"
    /\ LET q == file[p][1]
       IN  \/ \E n \in 1 .. Frame - total[p] :
                 /\ n <= pipe[q].buffered
                 /\ n = Frame - total[p] \/ n = pipe[q].buffered
                 /\ pipe' = [pipe EXCEPT ![q].buffered = @ - n]
                 /\ total' = [total EXCEPT ![p] = @ + n]
                 /\ ReaderGoes(p, "reading",
                               IF total'[p] < Frame /\ running[p] THEN "read" ELSE "frame")
           \/ /\ pipe[q].buffered = 0
              /\ ~IsOpen(WriteEnd(q))
              /\ ReaderGoes(p, "reading", "frame")
              /\ UNCHANGED <<pipe, total>>
    /\ file' = [file EXCEPT ![p] = Free]
    /\ UNCHANGED <<fd, child, holds, owner, running, paused, pipe_fd, child_pid, made, delivered,
                   heard_end, raced>>

\* Mutant of Delivers: a frame that is not full is dropped.
DropsShortFrame(p) ==
    /\ ReaderGoes(p, "frame", IF total[p] = 0 THEN "close" ELSE "loop")
    /\ delivered' = [delivered EXCEPT ![p] =
                        @ + IF running[p] /\ total[p] = Frame THEN total[p] ELSE 0]
    /\ heard_end' = [heard_end EXCEPT ![p] = total[p] = 0 /\ running[p]]
    /\ UNCHANGED <<osVars, owner, running, paused, pipe_fd, child_pid, made, file, total, raced>>

\* Nothing read: the end.  Else on_frame, if still running, and the next frame.
Delivers(p) ==
    /\ ReaderGoes(p, "frame", IF total[p] = 0 THEN "close" ELSE "loop")
    /\ delivered' = [delivered EXCEPT ![p] = @ + IF running[p] THEN total[p] ELSE 0]
    /\ heard_end' = [heard_end EXCEPT ![p] = total[p] = 0 /\ running[p]]
    /\ UNCHANGED <<osVars, owner, running, paused, pipe_fd, child_pid, made, file, total, raced>>

\* Mutant of AfterClose: nobody waits for the child.
NeverWaits(p) == "done"

\* if (child_pid_ > 0), loaded once for the test and for waitpid(child_pid_, 0).
AfterClose(p) == IF child_pid[p] THEN "wait" ELSE "done"

\* Mutant of ReaderCloses: the descriptor is left to stop().
LeavesOpen(p) ==
    /\ ReaderGoes(p, "close", AfterClose(p))
    /\ UNCHANGED <<osVars, owner, running, paused, pipe_fd, child_pid, made, file, total,
                   delivered, heard_end, raced>>

ReaderCloses(p) ==
    /\ ReaderGoes(p, "close", IF pipe_fd[p] # None THEN "clear" ELSE AfterClose(p))
    /\ IF pipe_fd[p] # None THEN Close(pipe_fd[p]) ELSE UNCHANGED fd
    /\ NoteRace(p)
    /\ UNCHANGED <<child, holds, pipe, owner, running, paused, pipe_fd, child_pid, made, file,
                   total, delivered, heard_end>>

ReaderClears(p) ==
    /\ ReaderGoes(p, "clear", AfterClose(p))
    /\ pipe_fd' = [pipe_fd EXCEPT ![p] = None]
    /\ UNCHANGED <<osVars, owner, running, paused, child_pid, made, file, total, delivered,
                   heard_end, raced>>

\* Another waitpid may have had the child: ECHILD.
WaitReturns(p) ==
    /\ child[p] \in {"zombie", "reaped"}
    /\ ReaderGoes(p, "wait", "done")
    /\ Reap(p)
    /\ child_pid' = [child_pid EXCEPT ![p] = FALSE]
    /\ UNCHANGED <<fd, holds, pipe, owner, running, paused, pipe_fd, made, file, total,
                   delivered, heard_end, raced>>

ReaderHalts(p) ==
    /\ ReaderGoes(p, "done", "eof")
    /\ running' = [running EXCEPT ![p] = FALSE]
    /\ UNCHANGED <<osVars, owner, paused, pipe_fd, child_pid, made, file, total, delivered,
                   heard_end, raced>>

on_eof(p) ==
    /\ ReaderGoes(p, "eof", "exited")
    /\ UNCHANGED <<osVars, owner, running, paused, pipe_fd, child_pid, made, file, total,
                   delivered, heard_end, raced>>

ReaderStep(p) ==
    \/ MakesPipe(p) \/ Forks(p) \/ Stores(p) \/ Loops(p) \/ Reads(p) \/ ReadReturns(p)
    \/ Delivers(p) \/ ReaderCloses(p) \/ ReaderClears(p) \/ WaitReturns(p) \/ ReaderHalts(p)
    \/ on_eof(p)

-----------------------------------------------------------------------------
\* Somebody can still read what the child of p writes.
Readable(p) == \/ IsOpen(ReadEnd(p))
               \/ \E q \in Pipelines : file[q] = ReadEnd(p)

ChildStep(p) == /\ Exec(p) \/ ChildDies(p) \/ ChildFinds(p, Readable(p))
                /\ UNCHANGED pipelineVars

Next == \E p \in Pipelines :
    \/ start(p) \/ (\E b \in BOOLEAN : set_paused(p, b)) \/ StopHalts(p) \/ OwnerStops(p)
    \/ ReaderStep(p) \/ ChildStep(p)

Spec == Init /\ [][Next]_vars

-----------------------------------------------------------------------------
TypeOK ==
    /\ owner \in [Pipelines -> {"new", "started", "kill", "reap", "close", "clear", "join",
                                "stopped"}]
    /\ reader \in [Pipelines -> {"none", "pipe", "fork", "store", "loop", "held", "read",
                                 "reading", "frame", "close", "clear", "wait", "done", "eof",
                                 "exited"}]
    /\ fd \in [Fds -> Ends \cup {Free}]
    /\ child \in [Pipelines -> {"none", "forked", "running", "killed", "zombie", "reaped"}]
    /\ holds \in [Pipelines -> SUBSET Ends]
    /\ pipe \in [Pipelines -> [buffered : 0 .. Capacity, written : Nat]]
    /\ pipe_fd \in [Pipelines -> Fds \cup {None}]
    /\ made \in [Pipelines -> (Fds \cup {None}) \X (Fds \cup {None})]
    /\ file \in [Pipelines -> Ends \cup {Free}]
    /\ total \in [Pipelines -> 0 .. Frame] /\ delivered \in [Pipelines -> Nat]
    /\ running \in [Pipelines -> BOOLEAN] /\ paused \in [Pipelines -> BOOLEAN]
    /\ child_pid \in [Pipelines -> BOOLEAN] /\ heard_end \in [Pipelines -> BOOLEAN]
    /\ raced \in BOOLEAN

(* How far the reader is, as AudioStreamer sees it. *)
Phase(p) ==
    CASE reader[p] \in {"none", "held", "exited"} -> reader[p]
      [] reader[p] \in {"pipe", "fork", "store"} -> "starting"
      [] reader[p] = "eof" -> "ending"
      [] OTHER -> "reading"

(***************************************************************************)
(* Pipes, children, unlocked integers and all, a pipeline keeps the        *)
(* promise that AudioStreamer relies on.                                   *)
(***************************************************************************)
Promise == INSTANCE PcmStream WITH reader <- [p \in Pipelines |-> Phase(p)]

ImplementsPcmStream == Promise!Spec

(***************************************************************************)
(* Streams of different chats do not mix: a reader reads its own pipe, and *)
(* one that comes to the end of its stream has handed on all of it, the    *)
(* short last frame included.  Only a use of pipe_fd_ between the close()  *)
(* and the = -1 of the other thread can spoil that: by then the number may *)
(* name the pipe of another chat, which is read or closed in its place.    *)
(***************************************************************************)
StreamsApart ==
    ~raced => \A p \in Pipelines : /\ file[p] \in {Free, ReadEnd(p)}
                                   /\ heard_end[p] => delivered[p] = Size[p]

(***************************************************************************)
(* stop() and the reader both close pipe_fd_, whichever comes first, and   *)
(* between them they always do: a reader that has returned leaves no       *)
(* descriptor of its pipe open in the process.                             *)
(***************************************************************************)
NoDescriptorLeak ==
    \A p \in Pipelines : reader[p] \in {"none", "exited"} =>
        {ReadEnd(p), WriteEnd(p)} \cap Open = {}

(***************************************************************************)
(* A stream that was not stopped leaves no zombie: its child has been      *)
(* waited for when on_eof is called, by its reader or by the waitpid(-1)   *)
(* of another pipeline's stop().                                           *)
(***************************************************************************)
ReapedUnlessStopped ==
    \A p \in Pipelines :
        reader[p] = "exited" /\ owner[p] = "started" => child[p] \in {"none", "reaped"}

\* A child forked by another reader has an end of p's pipe.
Inherited(p) == \E q \in Pipelines \ {p} : {ReadEnd(p), WriteEnd(p)} \cap holds[q] # {}

(* What a thread or a child can be waiting for; in every other place it can take a step,  *)
(* since pipe() may fail when there are no descriptors.                                   *)

OwnerWaits(p) == \/ owner[p] \in {"new", "started", "stopped"}
                 \/ owner[p] = "join" /\ reader[p] # "exited"

ReaderWaits(p) ==
    \/ reader[p] \in {"none", "exited"}
    \/ reader[p] = "held" /\ running[p] /\ paused[p]
    \/ /\ reader[p] = "reading"
       /\ pipe[file[p][1]].buffered = 0 /\ IsOpen(WriteEnd(file[p][1]))
    \/ reader[p] = "wait" /\ child[p] \notin {"zombie", "reaped"}

ChildWaits(p) ==
    \/ child[p] \in {"none", "zombie", "reaped"}
    \/ /\ child[p] = "running" /\ Readable(p)
       /\ pipe[p].written < Size[p] /\ pipe[p].buffered = Capacity

Waits(p) == OwnerWaits(p) /\ ReaderWaits(p) /\ ChildWaits(p)

(***************************************************************************)
(* Waits says exactly when no thread and no child of a pipeline can take a *)
(* step: nothing else blocks, neither a close(), a signal or a waitpid of  *)
(* stop(), nor a reader that is paused and stopped.                        *)
(***************************************************************************)
NothingElseBlocks ==
    \A p \in Pipelines : Waits(p) <=> ~ENABLED (OwnerStops(p) \/ ReaderStep(p) \/ ChildStep(p))

\* No thread and no child can take a step.
AtRest == \A p \in Pipelines : Waits(p)

(***************************************************************************)
(* stop() returns and ends are noticed, although the signal may find no    *)
(* process group yet, the descriptor may be closed under a read(), and the *)
(* reader may wait for a child that nobody signalled: when nothing moves,  *)
(* every reader has returned or is paused, and no stop() is under way,     *)
(* unless the child of another chat holds an end of the pipe, or of the    *)
(* pipe of another chat that the reader was led to by a race.              *)
(***************************************************************************)
OnlyInheritanceBlocks ==
    AtRest => \A p \in Pipelines :
        \/ reader[p] \in {"none", "held", "exited"} /\ owner[p] \in {"new", "started", "stopped"}
        \/ Inherited(p)
        \/ \E q \in Pipelines : file[p] = ReadEnd(q) /\ Inherited(q)

(***************************************************************************)
(* "so killpg cleanly cleans up both yt-dlp & ffmpeg": after stop() the    *)
(* processes end, signalled or not, unless the child of another chat holds *)
(* the read end of the pipe they write to.                                 *)
(***************************************************************************)
NothingSurvivesStop ==
    AtRest => \A p \in Pipelines :
        owner[p] = "stopped" => child[p] \in {"none", "zombie", "reaped"} \/ Inherited(p)
=============================================================================
