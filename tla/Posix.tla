------------------------------- MODULE Posix -------------------------------
(***************************************************************************)
(* What FFmpegPipeline uses of the operating system: the descriptors of    *)
(* the process, pipes, and children with a process group of their own.     *)
(*                                                                         *)
(* Each pipeline makes one pipe and forks one child, and both go by the    *)
(* name of the pipeline.  The child stands for its whole group (the shell, *)
(* yt-dlp and ffmpeg); it writes Size units of audio.  No descriptor is    *)
(* close-on-exec: a child keeps a copy of every pipe end that is open when *)
(* it is forked.                                                           *)
(***************************************************************************)
EXTENDS Naturals, FiniteSets

CONSTANTS Pipelines,
          Fds,        \* the descriptor numbers there are
          Size,       \* what the child of each writes before it ends, in units
          Capacity    \* of a pipe, in units

ASSUME PosixAssumption ==
    /\ IsFiniteSet(Pipelines) /\ Fds \subseteq Nat
    /\ Size \in [Pipelines -> Nat] /\ Capacity \in Nat \ {0}

VARIABLES fd,      \* descriptor -> the pipe end it names, or Free
          child,   \* pipeline -> its child
          holds,   \* pipeline -> the pipe ends its child has open
          pipe     \* pipeline -> units in its pipe, and units ever written to it

osVars == <<fd, child, holds, pipe>>

ReadEnd(p) == <<p, "read">>
WriteEnd(p) == <<p, "write">>
Free == <<>>
Ends == Pipelines \X {"read", "write"}

OSInit ==
    /\ fd = [n \in Fds |-> Free]
    /\ child = [p \in Pipelines |-> "none"]
    /\ holds = [p \in Pipelines |-> {}]
    /\ pipe = [p \in Pipelines |-> [buffered |-> 0, written |-> 0]]

Open == {fd[n] : n \in Fds} \ {Free}

\* An end lives on in the process, or in a child.
IsOpen(end) == end \in Open \/ \E q \in Pipelines : end \in holds[q]

FreeFds == {n \in Fds : fd[n] = Free}

\* pipe(): the two lowest free descriptors.
Lowest(r, w) == /\ {r, w} \subseteq FreeFds /\ r < w
                /\ \A n \in FreeFds : n < w => n = r

Close(n) == fd' = [fd EXCEPT ![n] = Free]

Fork(p) == /\ child' = [child EXCEPT ![p] = "forked"]
           /\ holds' = [holds EXCEPT ![p] = Open]

\* kill(-pid): ESRCH until the child has its group, and when it has ended.
Kill(p) == child' = [child EXCEPT ![p] = IF @ = "running" THEN "killed" ELSE @]

\* waitpid() of an ended child.
Reap(p) == child' = [child EXCEPT ![p] = "reaped"]

Zombies == {p \in Pipelines : child[p] = "zombie"}

\* Mutant of Exec: the child keeps the read end of its own pipe.
ExecKeepsReadEnd(p) ==
    /\ child[p] = "forked"
    /\ child' = [child EXCEPT ![p] = "running"]
    /\ UNCHANGED <<fd, holds, pipe>>

\* The child calls setpgid, closes its read end, moves the write end to its
\* standard output and executes the shell.
Exec(p) ==
    /\ child[p] = "forked"
    /\ child' = [child EXCEPT ![p] = "running"]
    /\ holds' = [holds EXCEPT ![p] = @ \ {ReadEnd(p)}]
    /\ UNCHANGED <<fd, pipe>>

Ended(p) == /\ child' = [child EXCEPT ![p] = "zombie"]
            /\ holds' = [holds EXCEPT ![p] = {}]
            /\ UNCHANGED <<fd, pipe>>

ChildDies(p) == child[p] = "killed" /\ Ended(p)

\* SIGPIPE is ignored, here and so in the child: a write that nobody can read fails.
ChildFinds(p, readers) ==
    /\ child[p] = "running"
    /\ \/ /\ pipe[p].written = Size[p] \/ ~readers
          /\ Ended(p)
       \/ /\ pipe[p].written < Size[p] /\ readers
          /\ pipe[p].buffered < Capacity
          /\ pipe' = [pipe EXCEPT ![p] = [buffered |-> @.buffered + 1, written |-> @.written + 1]]
          /\ UNCHANGED <<fd, child, holds>>
=============================================================================
