---------------------------- MODULE AudioProofs ----------------------------
(***************************************************************************)
(* Proofs about the audio path: FFmpegPipeline, for any set of pipelines   *)
(* and descriptors and any sizes, and PcmGain.                             *)
(*                                                                         *)
(* The inductive invariant IInv of the pipelines has two halves.           *)
(* Descriptors, Lives, Reaping and InPlace hold whatever happens: an open  *)
(* end is known to the thread that will close it, the reader of a pipeline *)
(* that nobody stopped knows its child until it has waited for it, and     *)
(* each thread is where the child and the pipe let it be.  OwnPipe,        *)
(* Counted and AtEnd hold as long as no thread has used pipe_fd_ between   *)
(* the close() and the = -1 of the other: then a number that is in use     *)
(* names the pipe of the reader that uses it, every unit that a child      *)
(* wrote is delivered, read or in the pipe, and a read() that finds the    *)
(* end finds it after the last unit.                                       *)
(***************************************************************************)
EXTENDS FFmpegPipeline, PcmGain, TLAPS

\* The ends of different pipes, and the two of one, are different.
LEMMA EndsDiffer ==
    /\ \A p, q \in Pipelines : ReadEnd(p) # WriteEnd(q) /\ ReadEnd(p) # Free /\ WriteEnd(p) # Free
    /\ \A p, q \in Pipelines : ReadEnd(p) = ReadEnd(q) => p = q
    /\ \A p, q \in Pipelines : WriteEnd(p) = WriteEnd(q) => p = q
    /\ \A p \in Pipelines : ReadEnd(p) \in Ends /\ WriteEnd(p) \in Ends
    /\ Free \notin Ends
    /\ \A e \in Ends : e[1] \in Pipelines /\ (e[2] = "read" => e = ReadEnd(e[1]))
    /\ \A p \in Pipelines : ReadEnd(p)[1] = p /\ ReadEnd(p)[2] = "read"
BY DEF ReadEnd, WriteEnd, Free, Ends

-----------------------------------------------------------------------------
\* A read() is at work on some pipe end.
Reading == \A p \in Pipelines : reader[p] = "reading" => file[p] \in Ends

Types == TypeOK /\ Reading

LEMMA InitTypes == Init => Types
<1> SUFFICES ASSUME Init PROVE Types
    OBVIOUS
<1>1. fd \in [Fds -> Ends \cup {Free}] /\ file \in [Pipelines -> Ends \cup {Free}]
    BY DEF Init, OSInit
<1>2. made \in [Pipelines -> (Fds \cup {None}) \X (Fds \cup {None})]
    BY DEF Init
<1>3. pipe \in [Pipelines -> [buffered : 0 .. Capacity, written : Nat]]
    BY PosixAssumption DEF Init, OSInit
<1>4. total \in [Pipelines -> 0 .. Frame]
    BY FrameAssumption DEF Init
<1> QED BY <1>1, <1>2, <1>3, <1>4 DEF Init, OSInit, Types, TypeOK, Reading

LEMMA TypesStep == Types /\ [Next]_vars => Types'
<1> SUFFICES ASSUME Types, [Next]_vars PROVE Types'
    OBVIOUS
<1> USE PosixAssumption, FrameAssumption DEF Types
<1>0. CASE UNCHANGED vars
    BY <1>0 DEF TypeOK, Reading, vars, osVars, pipelineVars
<1>1. ASSUME NEW p \in Pipelines, start(p) PROVE Types'
    BY <1>1 DEF start, OwnerGoes, TypeOK, Reading, osVars, pipelineVars
<1>2. ASSUME NEW p \in Pipelines, NEW b \in BOOLEAN, set_paused(p, b) PROVE Types'
    BY <1>2 DEF set_paused, TypeOK, Reading, osVars, pipelineVars
<1>3. ASSUME NEW p \in Pipelines, StopHalts(p) PROVE Types'
    BY <1>3 DEF StopHalts, OwnerGoes, TypeOK, Reading, osVars, pipelineVars
<1>4. ASSUME NEW p \in Pipelines, StopKills(p) PROVE Types'
    BY <1>4 DEF StopKills, OwnerGoes, Kill, TypeOK, Reading, osVars, pipelineVars
<1>5. ASSUME NEW p \in Pipelines, StopReaps(p) PROVE Types'
    BY <1>5 DEF StopReaps, OwnerGoes, Reap, Zombies, TypeOK, Reading, osVars, pipelineVars
<1>6. ASSUME NEW p \in Pipelines, StopCloses(p) PROVE Types'
    BY <1>6 DEF StopCloses, OwnerGoes, Close, NoteRace, TypeOK, Reading, osVars, pipelineVars
<1>7. ASSUME NEW p \in Pipelines, StopClears(p) PROVE Types'
    BY <1>7 DEF StopClears, OwnerGoes, TypeOK, Reading, osVars, pipelineVars
<1>8. ASSUME NEW p \in Pipelines, StopJoins(p) PROVE Types'
    BY <1>8 DEF StopJoins, OwnerGoes, TypeOK, Reading, osVars, pipelineVars
<1>9. ASSUME NEW p \in Pipelines, MakesPipe(p) PROVE Types'
    <2>1. CASE UNCHANGED <<fd, made>>
        BY <1>9, <2>1 DEF MakesPipe, ReaderGoes, GivesUp, TypeOK, Reading
    <2>2. CASE ~UNCHANGED <<fd, made>>
        <3>1. PICK r, w \in Fds :
                /\ fd' = [fd EXCEPT ![r] = ReadEnd(p), ![w] = WriteEnd(p)]
                /\ made' = [made EXCEPT ![p] = <<r, w>>]
            BY <1>9, <2>2 DEF MakesPipe, GivesUp, FreeFds
        <3>2. fd' \in [Fds -> Ends \cup {Free}]
            BY <3>1, EndsDiffer DEF TypeOK
        <3>3. made' \in [Pipelines -> (Fds \cup {None}) \X (Fds \cup {None})]
            BY <3>1 DEF TypeOK
        <3> QED BY <1>9, <3>2, <3>3 DEF MakesPipe, ReaderGoes, GivesUp, TypeOK, Reading
    <2> QED BY <2>1, <2>2
<1>10. ASSUME NEW p \in Pipelines, Forks(p) PROVE Types'
    <2>1. fd' \in [Fds -> Ends \cup {Free}]
        BY <1>10 DEF Forks, ReaderGoes, GivesUp, TypeOK
    <2>2. holds' \in [Pipelines -> SUBSET Ends]
        <3>1. Open \in SUBSET Ends
            BY DEF TypeOK, Open
        <3> QED BY <1>10, <3>1 DEF Forks, Fork, TypeOK
    <2> QED
        BY <1>10, <2>1, <2>2 DEF Forks, ReaderGoes, GivesUp, Fork, TypeOK, Reading
<1>11. ASSUME NEW p \in Pipelines, Stores(p) PROVE Types'
    BY <1>11 DEF Stores, ReaderGoes, Close, TypeOK, Reading, osVars, pipelineVars
<1>12. ASSUME NEW p \in Pipelines, Loops(p) PROVE Types'
    <2>1. total' \in [Pipelines -> 0 .. Frame]
        BY <1>12 DEF Loops, TypeOK
    <2>2. /\ reader' \in [Pipelines -> {"none", "pipe", "fork", "store", "loop", "held", "read", "reading",
                                   "frame", "close", "clear", "wait", "done", "eof", "exited"}]
          /\ reader'[p] # "reading" /\ \A q \in Pipelines \ {p} : reader'[q] = reader[q]
        <3>1. PICK s \in {"close", "held", "read"} : reader' = [reader EXCEPT ![p] = s]
            BY <1>12 DEF Loops, ReaderGoes
        <3> QED BY <3>1 DEF TypeOK
    <2> QED
        BY <1>12, <2>1, <2>2 DEF Loops, TypeOK, Reading, osVars
<1>13. ASSUME NEW p \in Pipelines, Reads(p) PROVE Types'
    BY <1>13 DEF Reads, ReaderGoes, NoteRace, TypeOK, Reading, osVars, pipelineVars
<1>14. ASSUME NEW p \in Pipelines, ReadReturns(p) PROVE Types'
    <2>1. pipe' \in [Pipelines -> [buffered : 0 .. Capacity, written : Nat]] /\ total' \in [Pipelines -> 0 .. Frame]
        <3>1. file[p] \in Ends /\ file[p][1] \in Pipelines
            BY <1>14 DEF ReadReturns, Reading, Ends
        <3>2. CASE UNCHANGED <<pipe, total>>
            BY <3>2 DEF TypeOK
        <3>3. CASE ~UNCHANGED <<pipe, total>>
            <4>1. PICK n \in 1 .. Frame - total[p] :
                    /\ n <= pipe[file[p][1]].buffered
                    /\ pipe' = [pipe EXCEPT ![file[p][1]].buffered = @ - n]
                    /\ total' = [total EXCEPT ![p] = @ + n]
                BY <1>14, <3>3 DEF ReadReturns
            <4>2. /\ pipe[file[p][1]].buffered \in 0 .. Capacity
                  /\ pipe[file[p][1]].buffered - n \in 0 .. Capacity
                BY <3>1, <4>1 DEF TypeOK
            <4>3. total[p] + n \in 0 .. Frame
                BY <4>1 DEF TypeOK
            <4>4. total' \in [Pipelines -> 0 .. Frame]
                BY <4>1, <4>3 DEF TypeOK
            <4>5. pipe' \in [Pipelines -> [buffered : 0 .. Capacity, written : Nat]]
                <5> DEFINE q == file[p][1]
                           r == [pipe[q] EXCEPT !.buffered = @ - n]
                <5>1. pipe[q] \in [buffered : 0 .. Capacity, written : Nat]
                    BY <3>1 DEF TypeOK
                <5>2. r \in [buffered : 0 .. Capacity, written : Nat]
                    BY <5>1, <4>2
                <5>3. pipe' = [pipe EXCEPT ![q] = r]
                    BY <4>1
                <5> HIDE DEF r, q
                <5> QED BY <5>2, <5>3 DEF TypeOK
            <4> QED BY <4>4, <4>5
        <3> QED BY <3>2, <3>3
    <2>2. /\ reader' \in [Pipelines -> {"none", "pipe", "fork", "store", "loop", "held", "read", "reading",
                                   "frame", "close", "clear", "wait", "done", "eof", "exited"}]
          /\ reader'[p] # "reading" /\ \A q \in Pipelines \ {p} : reader'[q] = reader[q]
        <3>1. PICK s \in {"frame", "read"} : reader' = [reader EXCEPT ![p] = s]
            BY <1>14 DEF ReadReturns, ReaderGoes
        <3> QED BY <3>1 DEF TypeOK
    <2> QED
        BY <1>14, <2>1, <2>2 DEF ReadReturns, TypeOK, Reading
<1>15. ASSUME NEW p \in Pipelines, Delivers(p) PROVE Types'
    BY <1>15 DEF Delivers, ReaderGoes, TypeOK, Reading, osVars, pipelineVars
<1>16. ASSUME NEW p \in Pipelines, ReaderCloses(p) PROVE Types'
    BY <1>16 DEF ReaderCloses, ReaderGoes, AfterClose, Close, NoteRace, TypeOK, Reading, osVars,
                 pipelineVars
<1>17. ASSUME NEW p \in Pipelines, ReaderClears(p) PROVE Types'
    BY <1>17 DEF ReaderClears, ReaderGoes, AfterClose, TypeOK, Reading, osVars, pipelineVars
<1>18. ASSUME NEW p \in Pipelines, WaitReturns(p) PROVE Types'
    BY <1>18 DEF WaitReturns, ReaderGoes, Reap, TypeOK, Reading, osVars, pipelineVars
<1>19. ASSUME NEW p \in Pipelines, ReaderHalts(p) PROVE Types'
    BY <1>19 DEF ReaderHalts, ReaderGoes, TypeOK, Reading, osVars, pipelineVars
<1>20. ASSUME NEW p \in Pipelines, on_eof(p) PROVE Types'
    BY <1>20 DEF on_eof, ReaderGoes, TypeOK, Reading, osVars, pipelineVars
<1>21. ASSUME NEW p \in Pipelines, Exec(p), UNCHANGED pipelineVars PROVE Types'
    BY <1>21 DEF Exec, TypeOK, Reading, osVars, pipelineVars
<1>22. ASSUME NEW p \in Pipelines, ChildDies(p), UNCHANGED pipelineVars PROVE Types'
    BY <1>22 DEF ChildDies, Ended, TypeOK, Reading, osVars, pipelineVars
<1>23. ASSUME NEW p \in Pipelines, ChildFinds(p, Readable(p)), UNCHANGED pipelineVars PROVE Types'
    <2>1. pipe' \in [Pipelines -> [buffered : 0 .. Capacity, written : Nat]]
        <3>1. CASE UNCHANGED pipe
            BY <3>1 DEF TypeOK
        <3>2. CASE ~UNCHANGED pipe
            <4>1. /\ pipe[p].buffered < Capacity
                  /\ pipe' = [pipe EXCEPT ![p] = [buffered |-> @.buffered + 1, written |-> @.written + 1]]
                BY <1>23, <3>2 DEF ChildFinds, Ended
            <4> QED BY <4>1 DEF TypeOK
        <3> QED BY <3>1, <3>2
    <2>2. /\ child' \in [Pipelines -> {"none", "forked", "running", "killed", "zombie", "reaped"}]
          /\ holds' \in [Pipelines -> SUBSET Ends] /\ fd' = fd
        BY <1>23 DEF ChildFinds, Ended, TypeOK
    <2> QED BY <1>23, <2>1, <2>2 DEF pipelineVars, TypeOK, Reading
<1> QED BY <1>0, <1>1, <1>2, <1>3, <1>4, <1>5, <1>6, <1>7, <1>8, <1>9, <1>10, <1>11, <1>12, <1>13,
    <1>14, <1>15, <1>16, <1>17, <1>18, <1>19, <1>20, <1>21, <1>22, <1>23 DEF Next, OwnerStops,
    ReaderStep, ChildStep

-----------------------------------------------------------------------------
Making == {"fork", "store"}
Using == {"loop", "held", "read", "reading", "frame", "close"}

\* pipefd is the reader's until the descriptor is in pipe_fd_, and an end that is open
\* is where the thread that will close it finds it.
ReadEndKnown ==
    \A n \in Fds, p \in Pipelines : fd[n] = ReadEnd(p) =>
        \/ reader[p] \in Making /\ made[p][1] = n
        \/ reader[p] \in Using /\ pipe_fd[p] = n /\ owner[p] # "clear"
WriteEndKnown ==
    \A n \in Fds, p \in Pipelines : fd[n] = WriteEnd(p) => reader[p] \in Making /\ made[p][2] = n
PipeFdInTime ==
    \A p \in Pipelines :
        /\ owner[p] = "clear" => reader[p] \notin Making \cup {"none", "pipe"}
        /\ pipe_fd[p] # None => reader[p] \in Using \cup {"clear"}
        /\ owner[p] = "new" => reader[p] = "none"

Descriptors == ReadEndKnown /\ WriteEndKnown /\ PipeFdInTime

\* Races included: a close() by either thread can only close an end too early.
LEMMA DescriptorsStep == Types /\ Descriptors /\ [Next]_vars => Descriptors'
<1> SUFFICES ASSUME Types, Descriptors, [Next]_vars PROVE Descriptors'
    OBVIOUS
<1>0. CASE UNCHANGED vars
    BY <1>0 DEF Descriptors, ReadEndKnown, WriteEndKnown, PipeFdInTime, vars, osVars, pipelineVars
<1>1. ASSUME NEW p \in Pipelines, start(p) PROVE Descriptors'
    BY <1>1, EndsDiffer DEF start, OwnerGoes, Types, TypeOK, Descriptors, ReadEndKnown,
                            WriteEndKnown, PipeFdInTime, Making, Using, None, osVars, pipelineVars
<1>2. ASSUME NEW p \in Pipelines, NEW b \in BOOLEAN, set_paused(p, b) PROVE Descriptors'
    BY <1>2, EndsDiffer DEF set_paused, Types, TypeOK, Descriptors, ReadEndKnown, WriteEndKnown,
                            PipeFdInTime, Making, Using, None, osVars, pipelineVars
<1>3. ASSUME NEW p \in Pipelines, StopHalts(p) PROVE Descriptors'
    BY <1>3, EndsDiffer DEF StopHalts, OwnerGoes, Types, TypeOK, Descriptors, ReadEndKnown,
                            WriteEndKnown, PipeFdInTime, Making, Using, None, osVars, pipelineVars
<1>4. ASSUME NEW p \in Pipelines, StopKills(p) PROVE Descriptors'
    BY <1>4, EndsDiffer DEF StopKills, OwnerGoes, Kill, Types, TypeOK, Descriptors, ReadEndKnown,
                            WriteEndKnown, PipeFdInTime, Making, Using, None, osVars, pipelineVars
<1>5. ASSUME NEW p \in Pipelines, StopReaps(p) PROVE Descriptors'
    BY <1>5, EndsDiffer DEF StopReaps, OwnerGoes, Reap, Zombies, Types, TypeOK, Descriptors,
                            ReadEndKnown, WriteEndKnown, PipeFdInTime, Making, Using, None,
                            osVars, pipelineVars
<1>6. ASSUME NEW p \in Pipelines, StopCloses(p) PROVE Descriptors'
    BY <1>6, EndsDiffer DEF StopCloses, OwnerGoes, Close, NoteRace, Types, TypeOK, Descriptors,
                            ReadEndKnown, WriteEndKnown, PipeFdInTime, Making, Using, None,
                            osVars, pipelineVars
<1>7. ASSUME NEW p \in Pipelines, StopClears(p) PROVE Descriptors'
    BY <1>7, EndsDiffer DEF StopClears, OwnerGoes, Types, TypeOK, Descriptors, ReadEndKnown,
                            WriteEndKnown, PipeFdInTime, Making, Using, None, osVars, pipelineVars
<1>8. ASSUME NEW p \in Pipelines, StopJoins(p) PROVE Descriptors'
    BY <1>8, EndsDiffer DEF StopJoins, OwnerGoes, Types, TypeOK, Descriptors, ReadEndKnown,
                            WriteEndKnown, PipeFdInTime, Making, Using, None, osVars, pipelineVars
<1>9. ASSUME NEW p \in Pipelines, MakesPipe(p) PROVE Descriptors'
    <2>1. CASE GivesUp(p, "pipe")
        <3>1. /\ reader[p] = "pipe" /\ reader'[p] = "exited"
              /\ \A q \in Pipelines \ {p} : reader'[q] = reader[q]
              /\ UNCHANGED <<owner, pipe_fd>>
            BY <1>9, <2>1 DEF MakesPipe, ReaderGoes, GivesUp, Types, TypeOK
        <3>2. UNCHANGED <<fd, made>>
            BY <1>9, <3>1 DEF MakesPipe, ReaderGoes, Types, TypeOK
        <3> QED BY <3>1, <3>2, EndsDiffer DEF Descriptors, ReadEndKnown, WriteEndKnown,
                                              PipeFdInTime,
                                             Making, Using
    <2>2. CASE ~GivesUp(p, "pipe")
        <3>1. PICK r, w \in Fds :
                /\ r # w
                /\ fd' = [fd EXCEPT ![r] = ReadEnd(p), ![w] = WriteEnd(p)]
                /\ made' = [made EXCEPT ![p] = <<r, w>>]
            BY <1>9, <2>2, PosixAssumption DEF MakesPipe, FreeFds, Lowest
        <3>2. /\ fd'[r] = ReadEnd(p) /\ fd'[w] = WriteEnd(p)
              /\ \A n \in Fds \ {r, w} : fd'[n] = fd[n]
              /\ made'[p][1] = r /\ made'[p][2] = w
              /\ \A q \in Pipelines \ {p} : made'[q] = made[q]
            BY <3>1 DEF Types, TypeOK
        <3>3. /\ reader[p] = "pipe" /\ reader'[p] = "fork"
              /\ \A q \in Pipelines \ {p} : reader'[q] = reader[q]
              /\ UNCHANGED <<owner, pipe_fd>>
            BY <1>9, <2>2 DEF MakesPipe, ReaderGoes, Types, TypeOK
        <3>4. ReadEndKnown'
            BY <3>2, <3>3, EndsDiffer DEF Descriptors, ReadEndKnown, Making, Using
        <3>5. WriteEndKnown'
            BY <3>2, <3>3, EndsDiffer DEF Descriptors, WriteEndKnown, Making, Using
        <3>6. PipeFdInTime'
            BY <3>3 DEF Descriptors, PipeFdInTime, Making, Using
        <3> QED BY <3>4, <3>5, <3>6 DEF Descriptors
    <2> QED BY <2>1, <2>2
<1>10. ASSUME NEW p \in Pipelines, Forks(p) PROVE Descriptors'
    <2>1. CASE UNCHANGED fd
        <3>1. /\ reader[p] = "fork"
              /\ \E s \in {"store", "exited"} : reader' = [reader EXCEPT ![p] = s]
              /\ UNCHANGED <<fd, pipe_fd, made, owner>>
              /\ reader'[p] = "exited" => fd' = [fd EXCEPT ![made[p][1]] = Free, ![made[p][2]] = Free]
            BY <1>10, <2>1 DEF Forks, ReaderGoes, GivesUp, Types, TypeOK
        <3> QED BY <3>1, EndsDiffer DEF Types, TypeOK, Descriptors, ReadEndKnown, WriteEndKnown,
                                        PipeFdInTime, Making, Using
    <2>2. CASE ~UNCHANGED fd
        <3>1. /\ reader[p] = "fork" /\ reader' = [reader EXCEPT ![p] = "exited"]
              /\ UNCHANGED <<pipe_fd, made, owner>>
              /\ fd' = [fd EXCEPT ![made[p][1]] = Free, ![made[p][2]] = Free]
            BY <1>10, <2>2 DEF Forks, ReaderGoes, GivesUp
        <3> DEFINE r == made[p][1]
                   w == made[p][2]
        <3>2. \A n \in Fds : fd'[n] # Free => fd'[n] = fd[n] /\ n # r /\ n # w
            BY <3>1 DEF Types, TypeOK
        <3>3. /\ reader'[p] = "exited" /\ \A q \in Pipelines \ {p} : reader'[q] = reader[q]
            BY <3>1 DEF Types, TypeOK
        <3>4. ReadEndKnown'
            BY <3>1, <3>2, <3>3, EndsDiffer DEF Descriptors, ReadEndKnown, Making, Using
        <3>5. WriteEndKnown'
            BY <3>1, <3>2, <3>3, EndsDiffer DEF Descriptors, WriteEndKnown, Making, Using
        <3>6. PipeFdInTime'
            BY <3>1, <3>3 DEF Descriptors, PipeFdInTime, Making, Using
        <3> QED BY <3>4, <3>5, <3>6 DEF Descriptors
    <2> QED BY <2>1, <2>2
<1>11. ASSUME NEW p \in Pipelines, Stores(p) PROVE Descriptors'
    BY <1>11, EndsDiffer DEF Stores, ReaderGoes, Close, Types, TypeOK, Descriptors, ReadEndKnown,
                             WriteEndKnown, PipeFdInTime, Making, Using, None, osVars,
                             pipelineVars
<1>12. ASSUME NEW p \in Pipelines, Loops(p) PROVE Descriptors'
    <2>1. /\ reader[p] \in {"loop", "held"}
          /\ \E s \in {"close", "held", "read"} : reader' = [reader EXCEPT ![p] = s]
          /\ UNCHANGED <<fd, pipe_fd, made, owner>>
        BY <1>12 DEF Loops, ReaderGoes, osVars
    <2> QED BY <2>1 DEF Types, TypeOK, Descriptors, ReadEndKnown, WriteEndKnown, PipeFdInTime,
                        Making, Using
<1>13. ASSUME NEW p \in Pipelines, Reads(p) PROVE Descriptors'
    <2>1. /\ reader[p] \in {"read"}
          /\ \E s \in {"reading", "frame"} : reader' = [reader EXCEPT ![p] = s]
          /\ UNCHANGED <<fd, pipe_fd, made, owner>>
        BY <1>13 DEF Reads, ReaderGoes, osVars
    <2> QED BY <2>1 DEF Types, TypeOK, Descriptors, ReadEndKnown, WriteEndKnown, PipeFdInTime,
                        Making, Using
<1>14. ASSUME NEW p \in Pipelines, ReadReturns(p) PROVE Descriptors'
    <2>1. /\ reader[p] \in {"reading"}
          /\ \E s \in {"read", "frame"} : reader' = [reader EXCEPT ![p] = s]
          /\ UNCHANGED <<fd, pipe_fd, made, owner>>
        BY <1>14 DEF ReadReturns, ReaderGoes, osVars
    <2> QED BY <2>1 DEF Types, TypeOK, Descriptors, ReadEndKnown, WriteEndKnown, PipeFdInTime,
                        Making, Using
<1>15. ASSUME NEW p \in Pipelines, Delivers(p) PROVE Descriptors'
    BY <1>15, EndsDiffer DEF Delivers, ReaderGoes, Types, TypeOK, Descriptors, ReadEndKnown,
                             WriteEndKnown, PipeFdInTime, Making, Using, None, osVars,
                             pipelineVars
<1>16. ASSUME NEW p \in Pipelines, ReaderCloses(p) PROVE Descriptors'
    <2>1. /\ reader[p] = "close" /\ UNCHANGED <<owner, pipe_fd, made>>
          /\ \E s \in {"clear", "wait", "done"} :
                reader' = [reader EXCEPT ![p] = s] /\ (pipe_fd[p] # None => s = "clear")
          /\ IF pipe_fd[p] # None THEN fd' = [fd EXCEPT ![pipe_fd[p]] = Free] ELSE UNCHANGED fd
        BY <1>16 DEF ReaderCloses, ReaderGoes, AfterClose, Close
    <2>2. /\ reader'[p] \in {"clear", "wait", "done"} /\ (pipe_fd[p] # None => reader'[p] = "clear")
          /\ \A q \in Pipelines \ {p} : reader'[q] = reader[q]
        BY <2>1 DEF Types, TypeOK
    <2>3. \A n \in Fds : fd'[n] # Free => fd'[n] = fd[n] /\ n # pipe_fd[p]
        BY <2>1, PosixAssumption DEF Types, TypeOK, None
    <2>4. ReadEndKnown'
        BY <2>1, <2>2, <2>3, EndsDiffer DEF Descriptors, ReadEndKnown, Making, Using
    <2>5. WriteEndKnown'
        BY <2>1, <2>2, <2>3, EndsDiffer DEF Descriptors, WriteEndKnown, Making, Using
    <2>6. PipeFdInTime'
        BY <2>1, <2>2 DEF Descriptors, PipeFdInTime, Making, Using
    <2> QED BY <2>4, <2>5, <2>6 DEF Descriptors
<1>17. ASSUME NEW p \in Pipelines, ReaderClears(p) PROVE Descriptors'
    BY <1>17, EndsDiffer DEF ReaderClears, ReaderGoes, AfterClose, Types, TypeOK, Descriptors,
                             ReadEndKnown, WriteEndKnown, PipeFdInTime, Making, Using, None,
                             osVars, pipelineVars
<1>18. ASSUME NEW p \in Pipelines, WaitReturns(p) PROVE Descriptors'
    BY <1>18, EndsDiffer DEF WaitReturns, ReaderGoes, Reap, Types, TypeOK, Descriptors,
                             ReadEndKnown, WriteEndKnown, PipeFdInTime, Making, Using, None,
                             osVars, pipelineVars
<1>19. ASSUME NEW p \in Pipelines, ReaderHalts(p) PROVE Descriptors'
    BY <1>19, EndsDiffer DEF ReaderHalts, ReaderGoes, Types, TypeOK, Descriptors, ReadEndKnown,
                             WriteEndKnown, PipeFdInTime, Making, Using, None, osVars,
                             pipelineVars
<1>20. ASSUME NEW p \in Pipelines, on_eof(p) PROVE Descriptors'
    BY <1>20, EndsDiffer DEF on_eof, ReaderGoes, Types, TypeOK, Descriptors, ReadEndKnown,
                             WriteEndKnown, PipeFdInTime, Making, Using, None, osVars,
                             pipelineVars
<1>21. ASSUME NEW p \in Pipelines, Exec(p), UNCHANGED pipelineVars PROVE Descriptors'
    BY <1>21, EndsDiffer DEF Exec, Types, TypeOK, Descriptors, ReadEndKnown, WriteEndKnown,
                             PipeFdInTime, Making, Using, None, osVars, pipelineVars
<1>22. ASSUME NEW p \in Pipelines, ChildDies(p), UNCHANGED pipelineVars PROVE Descriptors'
    BY <1>22, EndsDiffer DEF ChildDies, Ended, Types, TypeOK, Descriptors, ReadEndKnown,
                             WriteEndKnown, PipeFdInTime, Making, Using, None, osVars,
                             pipelineVars
<1>23. ASSUME NEW p \in Pipelines, ChildFinds(p, Readable(p)), UNCHANGED pipelineVars PROVE Descriptors'
    BY <1>23, EndsDiffer DEF ChildFinds, Ended, Types, TypeOK, Descriptors, ReadEndKnown,
                             WriteEndKnown, PipeFdInTime, Making, Using, None, osVars,
                             pipelineVars
<1> QED BY <1>0, <1>1, <1>2, <1>3, <1>4, <1>5, <1>6, <1>7, <1>8, <1>9, <1>10, <1>11, <1>12, <1>13,
    <1>14, <1>15, <1>16, <1>17, <1>18, <1>19, <1>20, <1>21, <1>22, <1>23 DEF Next, OwnerStops,
    ReaderStep, ChildStep

\* -1 is no descriptor.
LEMMA FdsNotNone == None \notin Fds
BY PosixAssumption DEF None

-----------------------------------------------------------------------------
\* Nothing has happened to a pipeline that was not started.
Fresh == \A p \in Pipelines : owner[p] = "new" => ~running[p] /\ ~paused[p] /\ ~heard_end[p] /\ child[p] = "none"
\* is_running_ is set between start() and the end of the reader or stop().
RunsInTime == \A p \in Pipelines : running[p] => owner[p] = "started" /\ reader[p] \notin {"none", "eof", "exited"}
\* As long as nobody stops it, a reader in its loop has its descriptor.
PipeFdSet == \A p \in Pipelines :
    /\ reader[p] \in Making => made[p][1] # None
    /\ reader[p] \in Using /\ owner[p] = "started" => pipe_fd[p] # None
\* The child is there before the loop begins, and killed only by stop().
ChildInTime == \A p \in Pipelines :
    /\ reader[p] \in {"pipe", "fork"} => child[p] = "none"
    /\ reader[p] \in {"store"} \cup Using => child[p] # "none"
    /\ child[p] = "killed" => ~running[p]

Lives == Fresh /\ RunsInTime /\ PipeFdSet /\ ChildInTime

LEMMA LivesStep == Types /\ PipeFdInTime /\ Lives /\ [Next]_vars => Lives'
<1> SUFFICES ASSUME Types, PipeFdInTime, Lives, [Next]_vars PROVE Lives'
    OBVIOUS
<1>0. CASE UNCHANGED vars
    BY <1>0 DEF Lives, Fresh, RunsInTime, PipeFdSet, ChildInTime, vars, osVars, pipelineVars
<1>1. ASSUME NEW p \in Pipelines, start(p) PROVE Lives'
    BY <1>1, PosixAssumption DEF start, OwnerGoes, Types, TypeOK, PipeFdInTime, Lives, Fresh,
                                 RunsInTime, PipeFdSet, ChildInTime, Making, Using, None, osVars,
                                 pipelineVars
<1>2. ASSUME NEW p \in Pipelines, NEW b \in BOOLEAN, set_paused(p, b) PROVE Lives'
    BY <1>2, PosixAssumption DEF set_paused, Types, TypeOK, PipeFdInTime, Lives, Fresh,
                                 RunsInTime, PipeFdSet, ChildInTime, Making, Using, None, osVars,
                                 pipelineVars
<1>3. ASSUME NEW p \in Pipelines, StopHalts(p) PROVE Lives'
    BY <1>3, PosixAssumption DEF StopHalts, OwnerGoes, Types, TypeOK, PipeFdInTime, Lives, Fresh,
                                 RunsInTime, PipeFdSet, ChildInTime, Making, Using, None, osVars,
                                 pipelineVars
<1>4. ASSUME NEW p \in Pipelines, StopKills(p) PROVE Lives'
    BY <1>4, PosixAssumption DEF StopKills, OwnerGoes, Kill, Types, TypeOK, PipeFdInTime, Lives,
                                 Fresh, RunsInTime, PipeFdSet, ChildInTime, Making, Using, None,
                                 osVars, pipelineVars
<1>5. ASSUME NEW p \in Pipelines, StopReaps(p) PROVE Lives'
    BY <1>5, PosixAssumption DEF StopReaps, OwnerGoes, Reap, Zombies, Types, TypeOK, PipeFdInTime,
                                 Lives, Fresh, RunsInTime, PipeFdSet, ChildInTime, Making, Using,
                                 None, osVars, pipelineVars
<1>6. ASSUME NEW p \in Pipelines, StopCloses(p) PROVE Lives'
    BY <1>6, PosixAssumption DEF StopCloses, OwnerGoes, Close, NoteRace, Types, TypeOK,
                                 PipeFdInTime, Lives, Fresh, RunsInTime, PipeFdSet, ChildInTime,
                                 Making, Using, None, osVars, pipelineVars
<1>7. ASSUME NEW p \in Pipelines, StopClears(p) PROVE Lives'
    BY <1>7, PosixAssumption DEF StopClears, OwnerGoes, Types, TypeOK, PipeFdInTime, Lives, Fresh,
                                 RunsInTime, PipeFdSet, ChildInTime, Making, Using, None, osVars,
                                 pipelineVars
<1>8. ASSUME NEW p \in Pipelines, StopJoins(p) PROVE Lives'
    BY <1>8, PosixAssumption DEF StopJoins, OwnerGoes, Types, TypeOK, PipeFdInTime, Lives, Fresh,
                                 RunsInTime, PipeFdSet, ChildInTime, Making, Using, None, osVars,
                                 pipelineVars
<1>9. ASSUME NEW p \in Pipelines, MakesPipe(p) PROVE Lives'
    <2>1. reader[p] = "pipe" /\ UNCHANGED <<child, owner, paused, pipe_fd, heard_end>>
        BY <1>9 DEF MakesPipe, ReaderGoes, GivesUp, FreeFds
    <2>2. CASE /\ reader' = [reader EXCEPT ![p] = "fork"] /\ UNCHANGED running
               /\ \E r, w \in Fds : made' = [made EXCEPT ![p] = <<r, w>>]
        BY <2>1, <2>2, FdsNotNone DEF Types, TypeOK, PipeFdInTime, Lives, Fresh, RunsInTime,
                                      PipeFdSet, ChildInTime, Making, Using
    <2>3. CASE /\ reader' = [reader EXCEPT ![p] = "exited"] /\ UNCHANGED made
               /\ running' = [running EXCEPT ![p] = FALSE]
        BY <2>1, <2>3 DEF Types, TypeOK, PipeFdInTime, Lives, Fresh, RunsInTime, PipeFdSet,
                          ChildInTime, Making, Using
    <2> QED BY <1>9, <2>2, <2>3 DEF MakesPipe, ReaderGoes, GivesUp, FreeFds
<1>10. ASSUME NEW p \in Pipelines, Forks(p) PROVE Lives'
    <2>1. reader[p] = "fork" /\ UNCHANGED <<owner, paused, pipe_fd, made, heard_end>>
        BY <1>10 DEF Forks, ReaderGoes, GivesUp, Fork
    <2>2. CASE /\ reader' = [reader EXCEPT ![p] = "store"] /\ UNCHANGED running
               /\ child' = [child EXCEPT ![p] = "forked"]
        BY <2>1, <2>2 DEF Types, TypeOK, PipeFdInTime, Lives, Fresh, RunsInTime, PipeFdSet,
                          ChildInTime, Making, Using
    <2>3. CASE /\ reader' = [reader EXCEPT ![p] = "exited"] /\ UNCHANGED child
               /\ running' = [running EXCEPT ![p] = FALSE]
        BY <2>1, <2>3 DEF Types, TypeOK, PipeFdInTime, Lives, Fresh, RunsInTime, PipeFdSet,
                          ChildInTime, Making, Using
    <2> QED BY <1>10, <2>2, <2>3 DEF Forks, ReaderGoes, GivesUp, Fork
<1>11. ASSUME NEW p \in Pipelines, Stores(p) PROVE Lives'
    BY <1>11, PosixAssumption DEF Stores, ReaderGoes, Close, Types, TypeOK, PipeFdInTime, Lives,
                                  Fresh, RunsInTime, PipeFdSet, ChildInTime, Making, Using, None,
                                  osVars, pipelineVars
<1>12. ASSUME NEW p \in Pipelines, Loops(p) PROVE Lives'
    BY <1>12, PosixAssumption DEF Loops, ReaderGoes, Types, TypeOK, PipeFdInTime, Lives, Fresh,
                                  RunsInTime, PipeFdSet, ChildInTime, Making, Using, None, osVars,
                                  pipelineVars
<1>13. ASSUME NEW p \in Pipelines, Reads(p) PROVE Lives'
    BY <1>13, PosixAssumption DEF Reads, ReaderGoes, NoteRace, Types, TypeOK, PipeFdInTime, Lives,
                                  Fresh, RunsInTime, PipeFdSet, ChildInTime, Making, Using, None,
                                  osVars, pipelineVars
<1>14. ASSUME NEW p \in Pipelines, ReadReturns(p) PROVE Lives'
    <2>1. /\ reader[p] \in {"reading"}
          /\ \E s \in {"read", "frame"} : reader' = [reader EXCEPT ![p] = s]
          /\ UNCHANGED <<child, owner, running, paused, pipe_fd, made, heard_end>>
        BY <1>14 DEF ReadReturns, ReaderGoes, osVars
    <2> QED BY <2>1 DEF Types, TypeOK, PipeFdInTime, Lives, Fresh, RunsInTime, PipeFdSet,
                        ChildInTime, Making, Using
<1>15. ASSUME NEW p \in Pipelines, Delivers(p) PROVE Lives'
    BY <1>15, PosixAssumption DEF Delivers, ReaderGoes, Types, TypeOK, PipeFdInTime, Lives, Fresh,
                                  RunsInTime, PipeFdSet, ChildInTime, Making, Using, None, osVars,
                                  pipelineVars
<1>16. ASSUME NEW p \in Pipelines, ReaderCloses(p) PROVE Lives'
    BY <1>16, PosixAssumption DEF ReaderCloses, ReaderGoes, AfterClose, Close, NoteRace, Types,
                                  TypeOK, PipeFdInTime, Lives, Fresh, RunsInTime, PipeFdSet,
                                  ChildInTime, Making, Using, None, osVars, pipelineVars
<1>17. ASSUME NEW p \in Pipelines, ReaderClears(p) PROVE Lives'
    BY <1>17, PosixAssumption DEF ReaderClears, ReaderGoes, AfterClose, Types, TypeOK,
                                  PipeFdInTime, Lives, Fresh, RunsInTime, PipeFdSet, ChildInTime,
                                  Making, Using, None, osVars, pipelineVars
<1>18. ASSUME NEW p \in Pipelines, WaitReturns(p) PROVE Lives'
    BY <1>18, PosixAssumption DEF WaitReturns, ReaderGoes, Reap, Types, TypeOK, PipeFdInTime,
                                  Lives, Fresh, RunsInTime, PipeFdSet, ChildInTime, Making, Using,
                                  None, osVars, pipelineVars
<1>19. ASSUME NEW p \in Pipelines, ReaderHalts(p) PROVE Lives'
    BY <1>19, PosixAssumption DEF ReaderHalts, ReaderGoes, Types, TypeOK, PipeFdInTime, Lives,
                                  Fresh, RunsInTime, PipeFdSet, ChildInTime, Making, Using, None,
                                  osVars, pipelineVars
<1>20. ASSUME NEW p \in Pipelines, on_eof(p) PROVE Lives'
    BY <1>20, PosixAssumption DEF on_eof, ReaderGoes, Types, TypeOK, PipeFdInTime, Lives, Fresh,
                                  RunsInTime, PipeFdSet, ChildInTime, Making, Using, None, osVars,
                                  pipelineVars
<1>21. ASSUME NEW p \in Pipelines, Exec(p), UNCHANGED pipelineVars PROVE Lives'
    BY <1>21, PosixAssumption DEF Exec, Types, TypeOK, PipeFdInTime, Lives, Fresh, RunsInTime,
                                  PipeFdSet, ChildInTime, Making, Using, None, osVars,
                                  pipelineVars
<1>22. ASSUME NEW p \in Pipelines, ChildDies(p), UNCHANGED pipelineVars PROVE Lives'
    BY <1>22, PosixAssumption DEF ChildDies, Ended, Types, TypeOK, PipeFdInTime, Lives, Fresh,
                                  RunsInTime, PipeFdSet, ChildInTime, Making, Using, None, osVars,
                                  pipelineVars
<1>23. ASSUME NEW p \in Pipelines, ChildFinds(p, Readable(p)), UNCHANGED pipelineVars PROVE Lives'
    BY <1>23, PosixAssumption DEF ChildFinds, Ended, Types, TypeOK, PipeFdInTime, Lives, Fresh,
                                  RunsInTime, PipeFdSet, ChildInTime, Making, Using, None, osVars,
                                  pipelineVars
<1> QED BY <1>0, <1>1, <1>2, <1>3, <1>4, <1>5, <1>6, <1>7, <1>8, <1>9, <1>10, <1>11, <1>12, <1>13,
    <1>14, <1>15, <1>16, <1>17, <1>18, <1>19, <1>20, <1>21, <1>22, <1>23 DEF Next, OwnerStops,
    ReaderStep, ChildStep

-----------------------------------------------------------------------------
\* Without races, the numbers in use name the reader's own pipe.
OwnPipe == \A p \in Pipelines :
    /\ pipe_fd[p] # None /\ owner[p] # "clear" /\ reader[p] # "clear" => fd[pipe_fd[p]] = ReadEnd(p)
    /\ reader[p] \in Making => /\ made[p][1] \in Fds /\ fd[made[p][1]] = ReadEnd(p)
                               /\ made[p][2] \in Fds /\ fd[made[p][2]] = WriteEnd(p)
    /\ file[p] \in {Free, ReadEnd(p)}
    /\ child[p] \in {"forked", "running", "killed"} => WriteEnd(p) \in holds[p]

LEMMA OwnPipeStep ==
    Types /\ Descriptors /\ OwnPipe /\ [Next]_vars /\ ~raced' => OwnPipe'
<1> SUFFICES ASSUME Types, Descriptors, OwnPipe, [Next]_vars, ~raced' PROVE OwnPipe'
    OBVIOUS
<1>0. CASE UNCHANGED vars
    BY <1>0 DEF OwnPipe, vars, osVars, pipelineVars
<1>1. ASSUME NEW p \in Pipelines, start(p) PROVE OwnPipe'
    BY <1>1, EndsDiffer, FdsNotNone DEF start, OwnerGoes, Types, TypeOK, Descriptors,
                                        PipeFdInTime, OwnPipe, Making, Using, osVars, pipelineVars
<1>2. ASSUME NEW p \in Pipelines, NEW b \in BOOLEAN, set_paused(p, b) PROVE OwnPipe'
    BY <1>2, EndsDiffer, FdsNotNone DEF set_paused, Types, TypeOK, Descriptors, PipeFdInTime,
                                        OwnPipe, Making, Using, osVars, pipelineVars
<1>3. ASSUME NEW p \in Pipelines, StopHalts(p) PROVE OwnPipe'
    BY <1>3, EndsDiffer, FdsNotNone DEF StopHalts, OwnerGoes, Types, TypeOK, Descriptors,
                                        PipeFdInTime, OwnPipe, Making, Using, osVars, pipelineVars
<1>4. ASSUME NEW p \in Pipelines, StopKills(p) PROVE OwnPipe'
    BY <1>4, EndsDiffer, FdsNotNone DEF StopKills, OwnerGoes, Kill, Types, TypeOK, Descriptors,
                                        PipeFdInTime, OwnPipe, Making, Using, osVars, pipelineVars
<1>5. ASSUME NEW p \in Pipelines, StopReaps(p) PROVE OwnPipe'
    BY <1>5, EndsDiffer, FdsNotNone DEF StopReaps, OwnerGoes, Reap, Zombies, Types, TypeOK,
                                        Descriptors, PipeFdInTime, OwnPipe, Making, Using, osVars,
                                        pipelineVars
<1>6. ASSUME NEW p \in Pipelines, StopCloses(p) PROVE OwnPipe'
    <2>1. /\ owner[p] = "close" /\ reader[p] # "clear"
          /\ owner' = [owner EXCEPT ![p] = IF pipe_fd[p] # None THEN "clear" ELSE "join"]
          /\ UNCHANGED <<child, holds, file, reader, pipe_fd, made>>
        BY <1>6 DEF StopCloses, OwnerGoes, NoteRace, Types, TypeOK
    <2>2. CASE pipe_fd[p] = None
        BY <1>6, <2>1, <2>2 DEF StopCloses, Types, TypeOK, Descriptors, PipeFdInTime, OwnPipe,
                                Making, Using
    <2>3. CASE pipe_fd[p] # None
        <3>1. fd[pipe_fd[p]] = ReadEnd(p) /\ fd' = [fd EXCEPT ![pipe_fd[p]] = Free] /\ reader[p] \notin Making
            BY <1>6, <2>1, <2>3 DEF StopCloses, Close, Types, TypeOK, Descriptors, PipeFdInTime,
                                    OwnPipe, Making, Using
        <3>2. \A n \in Fds : fd[n] # ReadEnd(p) => fd'[n] = fd[n]
            BY <3>1 DEF Types, TypeOK
        <3>3. owner'[p] = "clear" /\ \A q \in Pipelines \ {p} : owner'[q] = owner[q]
            BY <2>1, <2>3 DEF Types, TypeOK
        <3> QED BY <2>1, <3>1, <3>2, <3>3, EndsDiffer DEF Types, TypeOK, Descriptors,
                                                          PipeFdInTime, OwnPipe, Making, Using
    <2> QED BY <2>2, <2>3
<1>7. ASSUME NEW p \in Pipelines, StopClears(p) PROVE OwnPipe'
    BY <1>7, EndsDiffer, FdsNotNone DEF StopClears, OwnerGoes, Types, TypeOK, Descriptors,
                                        PipeFdInTime, OwnPipe, Making, Using, osVars, pipelineVars
<1>8. ASSUME NEW p \in Pipelines, StopJoins(p) PROVE OwnPipe'
    BY <1>8, EndsDiffer, FdsNotNone DEF StopJoins, OwnerGoes, Types, TypeOK, Descriptors,
                                        PipeFdInTime, OwnPipe, Making, Using, osVars, pipelineVars
<1>9. ASSUME NEW p \in Pipelines, MakesPipe(p) PROVE OwnPipe'
    <2>1. /\ reader[p] = "pipe" /\ UNCHANGED <<child, holds, owner, pipe_fd, file>> /\ pipe_fd[p] = None
        BY <1>9 DEF MakesPipe, ReaderGoes, GivesUp, Types, TypeOK, Descriptors, PipeFdInTime,
                    OwnPipe, Making, Using
    <2>2. CASE /\ reader' = [reader EXCEPT ![p] = "exited"] /\ UNCHANGED <<fd, made>>
        BY <2>1, <2>2 DEF Types, TypeOK, Descriptors, PipeFdInTime, OwnPipe, Making, Using
    <2>3. ASSUME NEW r \in Fds, NEW w \in Fds, r # w, fd[r] = Free, fd[w] = Free,
                 fd' = [fd EXCEPT ![r] = ReadEnd(p), ![w] = WriteEnd(p)],
                 made' = [made EXCEPT ![p] = <<r, w>>],
                 reader' = [reader EXCEPT ![p] = "fork"]
          PROVE  OwnPipe'
        <3>1. /\ fd'[r] = ReadEnd(p) /\ fd'[w] = WriteEnd(p)
              /\ \A n \in Fds : fd[n] # Free => fd'[n] = fd[n]
            BY <2>3 DEF Types, TypeOK
        <3>2. /\ made'[p] = <<r, w>> /\ \A q \in Pipelines \ {p} : made'[q] = made[q]
              /\ reader'[p] = "fork" /\ \A q \in Pipelines \ {p} : reader'[q] = reader[q]
            BY <2>3 DEF Types, TypeOK
        <3> QED BY <2>1, <3>1, <3>2, EndsDiffer DEF Types, TypeOK, Descriptors, PipeFdInTime,
                                                    OwnPipe, Making, Using
    <2> QED BY <1>9, <2>2, <2>3, PosixAssumption DEF MakesPipe, ReaderGoes, GivesUp, FreeFds,
                                                     Lowest
<1>10. ASSUME NEW p \in Pipelines, Forks(p) PROVE OwnPipe'
    <2>1. /\ reader[p] = "fork" /\ UNCHANGED <<owner, pipe_fd, made, file>> /\ pipe_fd[p] = None
          /\ made[p][1] \in Fds /\ fd[made[p][1]] = ReadEnd(p)
          /\ made[p][2] \in Fds /\ fd[made[p][2]] = WriteEnd(p)
        BY <1>10 DEF Forks, ReaderGoes, GivesUp, Types, TypeOK, Descriptors, PipeFdInTime,
                     OwnPipe, Making, Using
    <2>2. CASE /\ reader' = [reader EXCEPT ![p] = "store"] /\ UNCHANGED fd
               /\ child' = [child EXCEPT ![p] = "forked"]
               /\ holds' = [holds EXCEPT ![p] = Open]
        <3>1. WriteEnd(p) \in Open
            BY <2>1, EndsDiffer DEF Open
        <3> QED BY <2>1, <2>2, <3>1 DEF Types, TypeOK, Descriptors, PipeFdInTime, OwnPipe, Making,
                                        Using
    <2>3. CASE /\ reader' = [reader EXCEPT ![p] = "exited"] /\ UNCHANGED <<child, holds>>
               /\ fd' = [fd EXCEPT ![made[p][1]] = Free, ![made[p][2]] = Free]
        <3>1. \A n \in Fds : fd[n] \notin {ReadEnd(p), WriteEnd(p)} => fd'[n] = fd[n]
            BY <2>1, <2>3 DEF Types, TypeOK
        <3>2. reader'[p] = "exited" /\ \A q \in Pipelines \ {p} : reader'[q] = reader[q]
            BY <2>3 DEF Types, TypeOK
        <3> QED BY <2>1, <2>3, <3>1, <3>2, EndsDiffer DEF Types, TypeOK, Descriptors,
                                                          PipeFdInTime, OwnPipe, Making, Using
    <2> QED BY <1>10, <2>2, <2>3 DEF Forks, ReaderGoes, GivesUp, Fork
<1>11. ASSUME NEW p \in Pipelines, Stores(p) PROVE OwnPipe'
    BY <1>11, EndsDiffer, FdsNotNone DEF Stores, ReaderGoes, Close, Types, TypeOK, Descriptors,
                                         PipeFdInTime, OwnPipe, Making, Using, osVars,
                                         pipelineVars
<1>12. ASSUME NEW p \in Pipelines, Loops(p) PROVE OwnPipe'
    BY <1>12, EndsDiffer, FdsNotNone DEF Loops, ReaderGoes, Types, TypeOK, Descriptors,
                                         PipeFdInTime, OwnPipe, Making, Using, osVars,
                                         pipelineVars
<1>13. ASSUME NEW p \in Pipelines, Reads(p) PROVE OwnPipe'
    <2>1. /\ \E s \in {"reading", "frame"} : reader' = [reader EXCEPT ![p] = s]
          /\ reader[p] = "read" /\ owner[p] # "clear"
          /\ UNCHANGED <<fd, child, holds, owner, pipe_fd, made>>
        BY <1>13 DEF Reads, ReaderGoes, NoteRace, osVars
    <2>2. file' = file \/ file' = [file EXCEPT ![p] = ReadEnd(p)]
        <3>1. pipe_fd[p] # None => fd[pipe_fd[p]] = ReadEnd(p)
            BY <2>1 DEF OwnPipe
        <3> QED BY <1>13, <3>1, EndsDiffer DEF Reads
    <2> QED BY <2>1, <2>2 DEF Types, TypeOK, Descriptors, PipeFdInTime, OwnPipe, Making, Using
<1>14. ASSUME NEW p \in Pipelines, ReadReturns(p) PROVE OwnPipe'
    <2>1. /\ \E s \in {"read", "frame"} : reader' = [reader EXCEPT ![p] = s]
          /\ file' = [file EXCEPT ![p] = Free] /\ reader[p] = "reading"
          /\ UNCHANGED <<fd, child, holds, owner, pipe_fd, made>>
        BY <1>14 DEF ReadReturns, ReaderGoes
    <2> QED BY <2>1 DEF Types, TypeOK, Descriptors, PipeFdInTime, OwnPipe, Making, Using
<1>15. ASSUME NEW p \in Pipelines, Delivers(p) PROVE OwnPipe'
    BY <1>15, EndsDiffer, FdsNotNone DEF Delivers, ReaderGoes, Types, TypeOK, Descriptors,
                                         PipeFdInTime, OwnPipe, Making, Using, osVars,
                                         pipelineVars
<1>16. ASSUME NEW p \in Pipelines, ReaderCloses(p) PROVE OwnPipe'
    <2>1. /\ reader[p] = "close" /\ owner[p] # "clear"
          /\ UNCHANGED <<child, holds, file, owner, pipe_fd, made>>
        BY <1>16 DEF ReaderCloses, ReaderGoes, NoteRace, Types, TypeOK
    <2>2. CASE pipe_fd[p] = None
        <3>1. UNCHANGED fd /\ \E s \in {"wait", "done"} : reader' = [reader EXCEPT ![p] = s]
            BY <1>16, <2>2 DEF ReaderCloses, ReaderGoes, AfterClose
        <3> QED BY <2>1, <2>2, <3>1 DEF Types, TypeOK, Descriptors, PipeFdInTime, OwnPipe, Making,
                                        Using
    <2>3. CASE pipe_fd[p] # None
        <3>1. /\ fd[pipe_fd[p]] = ReadEnd(p) /\ fd' = [fd EXCEPT ![pipe_fd[p]] = Free]
              /\ reader' = [reader EXCEPT ![p] = "clear"]
            BY <1>16, <2>1, <2>3 DEF ReaderCloses, ReaderGoes, Close, OwnPipe
        <3>2. \A n \in Fds : fd[n] # ReadEnd(p) => fd'[n] = fd[n]
            BY <3>1 DEF Types, TypeOK
        <3>3. reader'[p] = "clear" /\ \A q \in Pipelines \ {p} : reader'[q] = reader[q]
            BY <3>1 DEF Types, TypeOK
        <3> QED BY <2>1, <3>1, <3>2, <3>3, EndsDiffer DEF Types, TypeOK, Descriptors,
                                                          PipeFdInTime, OwnPipe, Making, Using
    <2> QED BY <2>2, <2>3
<1>17. ASSUME NEW p \in Pipelines, ReaderClears(p) PROVE OwnPipe'
    BY <1>17, EndsDiffer, FdsNotNone DEF ReaderClears, ReaderGoes, AfterClose, Types, TypeOK,
                                         Descriptors, PipeFdInTime, OwnPipe, Making, Using,
                                         osVars, pipelineVars
<1>18. ASSUME NEW p \in Pipelines, WaitReturns(p) PROVE OwnPipe'
    BY <1>18, EndsDiffer, FdsNotNone DEF WaitReturns, ReaderGoes, Reap, Types, TypeOK,
                                         Descriptors, PipeFdInTime, OwnPipe, Making, Using,
                                         osVars, pipelineVars
<1>19. ASSUME NEW p \in Pipelines, ReaderHalts(p) PROVE OwnPipe'
    BY <1>19, EndsDiffer, FdsNotNone DEF ReaderHalts, ReaderGoes, Types, TypeOK, Descriptors,
                                         PipeFdInTime, OwnPipe, Making, Using, osVars,
                                         pipelineVars
<1>20. ASSUME NEW p \in Pipelines, on_eof(p) PROVE OwnPipe'
    BY <1>20, EndsDiffer, FdsNotNone DEF on_eof, ReaderGoes, Types, TypeOK, Descriptors,
                                         PipeFdInTime, OwnPipe, Making, Using, osVars,
                                         pipelineVars
<1>21. ASSUME NEW p \in Pipelines, Exec(p), UNCHANGED pipelineVars PROVE OwnPipe'
    BY <1>21, EndsDiffer, FdsNotNone DEF Exec, Types, TypeOK, Descriptors, PipeFdInTime, OwnPipe,
                                         Making, Using, osVars, pipelineVars
<1>22. ASSUME NEW p \in Pipelines, ChildDies(p), UNCHANGED pipelineVars PROVE OwnPipe'
    BY <1>22, EndsDiffer, FdsNotNone DEF ChildDies, Ended, Types, TypeOK, Descriptors,
                                         PipeFdInTime, OwnPipe, Making, Using, osVars,
                                         pipelineVars
<1>23. ASSUME NEW p \in Pipelines, ChildFinds(p, Readable(p)), UNCHANGED pipelineVars PROVE OwnPipe'
    BY <1>23, EndsDiffer, FdsNotNone DEF ChildFinds, Ended, Types, TypeOK, Descriptors,
                                         PipeFdInTime, OwnPipe, Making, Using, osVars,
                                         pipelineVars
<1> QED BY <1>0, <1>1, <1>2, <1>3, <1>4, <1>5, <1>6, <1>7, <1>8, <1>9, <1>10, <1>11, <1>12, <1>13,
    <1>14, <1>15, <1>16, <1>17, <1>18, <1>19, <1>20, <1>21, <1>22, <1>23 DEF Next, OwnerStops,
    ReaderStep, ChildStep

-----------------------------------------------------------------------------
\* What the reader has of the next frame.
Pending(p) == IF reader[p] \in {"read", "reading", "frame"} THEN total[p] ELSE 0

\* Until stop(), every unit the child wrote is delivered, pending or in the pipe.
Counted == \A p \in Pipelines : running[p] \/ owner[p] = "new" =>
    delivered[p] + Pending(p) + pipe[p].buffered = pipe[p].written

LEMMA CountedStep ==
    Types /\ PipeFdInTime /\ Lives /\ OwnPipe /\ Counted /\ [Next]_vars => Counted'
<1> SUFFICES ASSUME Types, PipeFdInTime, Lives, OwnPipe, Counted, [Next]_vars PROVE Counted'
    OBVIOUS
<1>0. CASE UNCHANGED vars
    BY <1>0 DEF Counted, Pending, vars, osVars, pipelineVars
<1>1. ASSUME NEW p \in Pipelines, start(p) PROVE Counted'
    BY <1>1 DEF start, OwnerGoes, Types, TypeOK, PipeFdInTime, Lives, RunsInTime, Counted,
                Pending, osVars, pipelineVars
<1>2. ASSUME NEW p \in Pipelines, NEW b \in BOOLEAN, set_paused(p, b) PROVE Counted'
    BY <1>2 DEF set_paused, Types, TypeOK, PipeFdInTime, Lives, RunsInTime, Counted, Pending,
                osVars, pipelineVars
<1>3. ASSUME NEW p \in Pipelines, StopHalts(p) PROVE Counted'
    BY <1>3 DEF StopHalts, OwnerGoes, Types, TypeOK, PipeFdInTime, Lives, RunsInTime, Counted,
                Pending, osVars, pipelineVars
<1>4. ASSUME NEW p \in Pipelines, StopKills(p) PROVE Counted'
    BY <1>4 DEF StopKills, OwnerGoes, Kill, Types, TypeOK, PipeFdInTime, Lives, RunsInTime,
                Counted, Pending, osVars, pipelineVars
<1>5. ASSUME NEW p \in Pipelines, StopReaps(p) PROVE Counted'
    BY <1>5 DEF StopReaps, OwnerGoes, Reap, Zombies, Types, TypeOK, PipeFdInTime, Lives,
                RunsInTime, Counted, Pending, osVars, pipelineVars
<1>6. ASSUME NEW p \in Pipelines, StopCloses(p) PROVE Counted'
    BY <1>6 DEF StopCloses, OwnerGoes, Close, NoteRace, Types, TypeOK, PipeFdInTime, Lives,
                RunsInTime, Counted, Pending, osVars, pipelineVars
<1>7. ASSUME NEW p \in Pipelines, StopClears(p) PROVE Counted'
    BY <1>7 DEF StopClears, OwnerGoes, Types, TypeOK, PipeFdInTime, Lives, RunsInTime, Counted,
                Pending, osVars, pipelineVars
<1>8. ASSUME NEW p \in Pipelines, StopJoins(p) PROVE Counted'
    BY <1>8 DEF StopJoins, OwnerGoes, Types, TypeOK, PipeFdInTime, Lives, RunsInTime, Counted,
                Pending, osVars, pipelineVars
<1>9. ASSUME NEW p \in Pipelines, MakesPipe(p) PROVE Counted'
    <2>1. /\ reader[p] = "pipe" /\ UNCHANGED <<owner, pipe, total, delivered>>
          /\ \E s \in {"fork", "exited"} : reader' = [reader EXCEPT ![p] = s]
          /\ running' \in {running, [running EXCEPT ![p] = FALSE]}
        BY <1>9 DEF MakesPipe, ReaderGoes, GivesUp
    <2> QED BY <2>1 DEF Types, TypeOK, PipeFdInTime, Lives, RunsInTime, Counted, Pending
<1>10. ASSUME NEW p \in Pipelines, Forks(p) PROVE Counted'
    <2>1. /\ reader[p] = "fork" /\ UNCHANGED <<owner, pipe, total, delivered>>
          /\ \E s \in {"store", "exited"} : reader' = [reader EXCEPT ![p] = s]
          /\ running' \in {running, [running EXCEPT ![p] = FALSE]}
        BY <1>10 DEF Forks, ReaderGoes, GivesUp
    <2> QED BY <2>1 DEF Types, TypeOK, PipeFdInTime, Lives, RunsInTime, Counted, Pending
<1>11. ASSUME NEW p \in Pipelines, Stores(p) PROVE Counted'
    BY <1>11 DEF Stores, ReaderGoes, Close, Types, TypeOK, PipeFdInTime, Lives, RunsInTime,
                 Counted, Pending, osVars, pipelineVars
<1>12. ASSUME NEW p \in Pipelines, Loops(p) PROVE Counted'
    BY <1>12 DEF Loops, ReaderGoes, Types, TypeOK, PipeFdInTime, Lives, RunsInTime, Counted,
                 Pending, osVars, pipelineVars
<1>13. ASSUME NEW p \in Pipelines, Reads(p) PROVE Counted'
    BY <1>13 DEF Reads, ReaderGoes, NoteRace, Types, TypeOK, PipeFdInTime, Lives, RunsInTime,
                 Counted, Pending, osVars, pipelineVars
<1>14. ASSUME NEW p \in Pipelines, ReadReturns(p) PROVE Counted'
    <2>1. /\ reader[p] = "reading" /\ file[p][1] = p
          /\ \E s \in {"read", "frame"} : reader' = [reader EXCEPT ![p] = s]
          /\ UNCHANGED <<owner, running, delivered>>
        BY <1>14, EndsDiffer DEF ReadReturns, ReaderGoes, OwnPipe, Types, Reading
    <2>2. CASE UNCHANGED <<pipe, total>>
        BY <2>1, <2>2 DEF Types, TypeOK, PipeFdInTime, Lives, RunsInTime, Counted, Pending
    <2>3. CASE ~UNCHANGED <<pipe, total>>
        <3>1. PICK n \in 1 .. Frame - total[p] :
                /\ pipe' = [pipe EXCEPT ![file[p][1]].buffered = @ - n]
                /\ total' = [total EXCEPT ![p] = @ + n]
            BY <1>14, <2>3 DEF ReadReturns
        <3>2. /\ pipe'[p].buffered = pipe[p].buffered - n /\ pipe'[p].written = pipe[p].written
              /\ total'[p] = total[p] + n
              /\ \A q \in Pipelines \ {p} : pipe'[q] = pipe[q] /\ total'[q] = total[q]
            BY <2>1, <3>1 DEF Types, TypeOK
        <3>3. /\ Pending(p)' = Pending(p) + n
              /\ \A q \in Pipelines \ {p} : Pending(q)' = Pending(q)
            BY <2>1, <3>2 DEF Pending, Types, TypeOK
        <3>4. /\ pipe[p].buffered \in Nat /\ pipe[p].written \in Nat /\ delivered[p] \in Nat
              /\ Pending(p) \in Nat /\ n \in Nat
            BY PosixAssumption, FrameAssumption DEF Types, TypeOK, Pending
        <3> QED BY <2>1, <3>2, <3>3, <3>4 DEF Counted
    <2> QED BY <2>2, <2>3
<1>15. ASSUME NEW p \in Pipelines, Delivers(p) PROVE Counted'
    BY <1>15 DEF Delivers, ReaderGoes, Types, TypeOK, PipeFdInTime, Lives, RunsInTime, Counted,
                 Pending, osVars, pipelineVars
<1>16. ASSUME NEW p \in Pipelines, ReaderCloses(p) PROVE Counted'
    BY <1>16 DEF ReaderCloses, ReaderGoes, AfterClose, Close, NoteRace, Types, TypeOK,
                 PipeFdInTime, Lives, RunsInTime, Counted, Pending, osVars, pipelineVars
<1>17. ASSUME NEW p \in Pipelines, ReaderClears(p) PROVE Counted'
    BY <1>17 DEF ReaderClears, ReaderGoes, AfterClose, Types, TypeOK, PipeFdInTime, Lives,
                 RunsInTime, Counted, Pending, osVars, pipelineVars
<1>18. ASSUME NEW p \in Pipelines, WaitReturns(p) PROVE Counted'
    BY <1>18 DEF WaitReturns, ReaderGoes, Reap, Types, TypeOK, PipeFdInTime, Lives, RunsInTime,
                 Counted, Pending, osVars, pipelineVars
<1>19. ASSUME NEW p \in Pipelines, ReaderHalts(p) PROVE Counted'
    BY <1>19 DEF ReaderHalts, ReaderGoes, Types, TypeOK, PipeFdInTime, Lives, RunsInTime, Counted,
                 Pending, osVars, pipelineVars
<1>20. ASSUME NEW p \in Pipelines, on_eof(p) PROVE Counted'
    BY <1>20 DEF on_eof, ReaderGoes, Types, TypeOK, PipeFdInTime, Lives, RunsInTime, Counted,
                 Pending, osVars, pipelineVars
<1>21. ASSUME NEW p \in Pipelines, Exec(p), UNCHANGED pipelineVars PROVE Counted'
    BY <1>21 DEF Exec, Types, TypeOK, PipeFdInTime, Lives, RunsInTime, Counted, Pending, osVars,
                 pipelineVars
<1>22. ASSUME NEW p \in Pipelines, ChildDies(p), UNCHANGED pipelineVars PROVE Counted'
    BY <1>22 DEF ChildDies, Ended, Types, TypeOK, PipeFdInTime, Lives, RunsInTime, Counted,
                 Pending, osVars, pipelineVars
<1>23. ASSUME NEW p \in Pipelines, ChildFinds(p, Readable(p)), UNCHANGED pipelineVars PROVE Counted'
    <2>1. CASE UNCHANGED pipe
        BY <1>23, <2>1 DEF Counted, Pending, pipelineVars
    <2>2. CASE ~UNCHANGED pipe
        <3>1. /\ pipe[p].written < Size[p]
              /\ pipe' = [pipe EXCEPT ![p] = [buffered |-> @.buffered + 1, written |-> @.written + 1]]
            BY <1>23, <2>2 DEF ChildFinds, Ended
        <3>2. /\ pipe'[p].buffered = pipe[p].buffered + 1 /\ pipe'[p].written = pipe[p].written + 1
              /\ \A q \in Pipelines \ {p} : pipe'[q] = pipe[q]
            BY <3>1 DEF Types, TypeOK
        <3>3. /\ pipe[p].buffered \in Nat /\ pipe[p].written \in Nat /\ delivered[p] \in Nat
              /\ Pending(p) \in Nat
            BY PosixAssumption, FrameAssumption DEF Types, TypeOK, Pending
        <3>4. \A q \in Pipelines : Pending(q)' = Pending(q)
            BY <1>23 DEF pipelineVars, Pending
        <3> QED BY <1>23, <3>2, <3>3, <3>4 DEF Counted, pipelineVars
    <2> QED BY <2>1, <2>2
<1> QED BY <1>0, <1>1, <1>2, <1>3, <1>4, <1>5, <1>6, <1>7, <1>8, <1>9, <1>10, <1>11, <1>12, <1>13,
    <1>14, <1>15, <1>16, <1>17, <1>18, <1>19, <1>20, <1>21, <1>22, <1>23 DEF Next, OwnerStops,
    ReaderStep, ChildStep

\* A running stream ends after its last unit, for the child and for the reader.
AtEnd == \A p \in Pipelines :
    /\ running[p] /\ child[p] \in {"zombie", "reaped"} => pipe[p].written = Size[p]
    /\ running[p] /\ reader[p] \in {"close", "clear", "wait", "done"} => pipe[p].written = Size[p]
    /\ running[p] /\ reader[p] = "frame" /\ total[p] = 0 =>
            pipe[p].buffered = 0 /\ pipe[p].written = Size[p]
    /\ heard_end[p] => /\ reader[p] \in {"none", "close", "clear", "wait", "done", "eof", "exited"}
                       /\ delivered[p] = Size[p]

LEMMA AtEndStep ==
    Types /\ PipeFdInTime /\ Lives /\ OwnPipe /\ Counted /\ AtEnd /\ [Next]_vars /\ ~raced' => AtEnd'
<1> SUFFICES ASSUME Types, PipeFdInTime, Lives, OwnPipe, Counted, AtEnd, [Next]_vars, ~raced'
             PROVE  AtEnd'
    OBVIOUS
<1>0. CASE UNCHANGED vars
    BY <1>0 DEF AtEnd, vars, osVars, pipelineVars
<1>1. ASSUME NEW p \in Pipelines, start(p) PROVE AtEnd'
    BY <1>1 DEF start, OwnerGoes, Types, TypeOK, PipeFdInTime, Lives, Fresh, RunsInTime,
                ChildInTime, AtEnd, Using, osVars, pipelineVars
<1>2. ASSUME NEW p \in Pipelines, NEW b \in BOOLEAN, set_paused(p, b) PROVE AtEnd'
    BY <1>2 DEF set_paused, Types, TypeOK, PipeFdInTime, Lives, Fresh, RunsInTime, ChildInTime,
                AtEnd, Using, osVars, pipelineVars
<1>3. ASSUME NEW p \in Pipelines, StopHalts(p) PROVE AtEnd'
    BY <1>3 DEF StopHalts, OwnerGoes, Types, TypeOK, PipeFdInTime, Lives, Fresh, RunsInTime,
                ChildInTime, AtEnd, Using, osVars, pipelineVars
<1>4. ASSUME NEW p \in Pipelines, StopKills(p) PROVE AtEnd'
    BY <1>4 DEF StopKills, OwnerGoes, Kill, Types, TypeOK, PipeFdInTime, Lives, Fresh, RunsInTime,
                ChildInTime, AtEnd, Using, osVars, pipelineVars
<1>5. ASSUME NEW p \in Pipelines, StopReaps(p) PROVE AtEnd'
    BY <1>5 DEF StopReaps, OwnerGoes, Reap, Zombies, Types, TypeOK, PipeFdInTime, Lives, Fresh,
                RunsInTime, ChildInTime, AtEnd, Using, osVars, pipelineVars
<1>6. ASSUME NEW p \in Pipelines, StopCloses(p) PROVE AtEnd'
    BY <1>6 DEF StopCloses, OwnerGoes, Close, NoteRace, Types, TypeOK, PipeFdInTime, Lives, Fresh,
                RunsInTime, ChildInTime, AtEnd, Using, osVars, pipelineVars
<1>7. ASSUME NEW p \in Pipelines, StopClears(p) PROVE AtEnd'
    BY <1>7 DEF StopClears, OwnerGoes, Types, TypeOK, PipeFdInTime, Lives, Fresh, RunsInTime,
                ChildInTime, AtEnd, Using, osVars, pipelineVars
<1>8. ASSUME NEW p \in Pipelines, StopJoins(p) PROVE AtEnd'
    BY <1>8 DEF StopJoins, OwnerGoes, Types, TypeOK, PipeFdInTime, Lives, Fresh, RunsInTime,
                ChildInTime, AtEnd, Using, osVars, pipelineVars
<1>9. ASSUME NEW p \in Pipelines, MakesPipe(p) PROVE AtEnd'
    <2>1. /\ reader[p] = "pipe" /\ UNCHANGED <<pipe, child, total, delivered, heard_end>>
          /\ \E s \in {"fork", "exited"} : reader' = [reader EXCEPT ![p] = s]
          /\ running' \in {running, [running EXCEPT ![p] = FALSE]}
        BY <1>9 DEF MakesPipe, ReaderGoes, GivesUp
    <2> QED BY <2>1 DEF Types, TypeOK, RunsInTime, Lives, Fresh, ChildInTime, AtEnd
<1>10. ASSUME NEW p \in Pipelines, Forks(p) PROVE AtEnd'
    BY <1>10 DEF Forks, ReaderGoes, GivesUp, Fork, Types, TypeOK, PipeFdInTime, Lives, Fresh,
                 RunsInTime, ChildInTime, AtEnd, Using, osVars, pipelineVars
<1>11. ASSUME NEW p \in Pipelines, Stores(p) PROVE AtEnd'
    BY <1>11 DEF Stores, ReaderGoes, Close, Types, TypeOK, PipeFdInTime, Lives, Fresh, RunsInTime,
                 ChildInTime, AtEnd, Using, osVars, pipelineVars
<1>12. ASSUME NEW p \in Pipelines, Loops(p) PROVE AtEnd'
    BY <1>12 DEF Loops, ReaderGoes, Types, TypeOK, PipeFdInTime, Lives, Fresh, RunsInTime,
                 ChildInTime, AtEnd, Using, osVars, pipelineVars
<1>13. ASSUME NEW p \in Pipelines, Reads(p) PROVE AtEnd'
    <2>1. /\ reader[p] = "read" /\ UNCHANGED <<pipe, child, running, total, delivered, heard_end>>
          /\ \E s \in {"reading", "frame"} : reader' = [reader EXCEPT ![p] = s]
        BY <1>13 DEF Reads, ReaderGoes, osVars
    <2>2. reader'[p] = "reading" \/ ~running[p]
        <3> SUFFICES ASSUME running[p] PROVE reader'[p] = "reading"
            OBVIOUS
        <3>1. pipe_fd[p] # None /\ owner[p] = "started"
            BY <2>1 DEF Lives, RunsInTime, PipeFdSet, Using
        <3>2. fd[pipe_fd[p]] = ReadEnd(p)
            BY <2>1, <3>1 DEF OwnPipe
        <3>3. reader' = [reader EXCEPT ![p] = "reading"]
            BY <1>13, <3>1, <3>2, EndsDiffer DEF Reads, ReaderGoes
        <3> QED BY <3>3 DEF Types, TypeOK
    <2> QED BY <2>1, <2>2 DEF Types, TypeOK, RunsInTime, Lives, Fresh, ChildInTime, AtEnd
<1>14. ASSUME NEW p \in Pipelines, ReadReturns(p) PROVE AtEnd'
    <2>1. /\ reader[p] = "reading" /\ file[p][1] = p
          /\ \E s \in {"read", "frame"} : reader' = [reader EXCEPT ![p] = s]
          /\ UNCHANGED <<child, running, delivered, heard_end>>
        BY <1>14, EndsDiffer DEF ReadReturns, ReaderGoes, OwnPipe, Types, Reading
    <2>2. CASE UNCHANGED <<pipe, total>>
        <3>1. pipe[p].buffered = 0 /\ ~IsOpen(WriteEnd(p))
            <4>1. ASSUME NEW n \in 1 .. Frame - total[p], total' = [total EXCEPT ![p] = @ + n]
                  PROVE  FALSE
                BY <2>2, <4>1 DEF Types, TypeOK
            <4> QED BY <1>14, <2>1, <4>1 DEF ReadReturns
        <3>2. child[p] \in {"zombie", "reaped"}
            BY <2>1, <3>1 DEF IsOpen, OwnPipe, Types, TypeOK, Lives, ChildInTime, Using
        <3> QED BY <2>1, <2>2, <3>1, <3>2 DEF Types, TypeOK, RunsInTime, Lives, Fresh,
                                              ChildInTime, AtEnd
    <2>3. CASE ~UNCHANGED <<pipe, total>>
        <3>1. PICK n \in 1 .. Frame - total[p] :
                /\ pipe' = [pipe EXCEPT ![file[p][1]].buffered = @ - n]
                /\ total' = [total EXCEPT ![p] = @ + n]
            BY <1>14, <2>3 DEF ReadReturns
        <3>2. /\ pipe'[p].written = pipe[p].written
              /\ total'[p] # 0
              /\ \A q \in Pipelines \ {p} : pipe'[q] = pipe[q] /\ total'[q] = total[q]
            BY <2>1, <3>1, FrameAssumption DEF Types, TypeOK
        <3> QED BY <2>1, <3>2 DEF Types, TypeOK, RunsInTime, Lives, Fresh, ChildInTime, AtEnd
    <2> QED BY <2>2, <2>3
<1>15. ASSUME NEW p \in Pipelines, Delivers(p) PROVE AtEnd'
    <2>1. /\ reader[p] = "frame" /\ UNCHANGED <<pipe, child, running, total>>
          /\ reader' = [reader EXCEPT ![p] = IF total[p] = 0 THEN "close" ELSE "loop"]
          /\ delivered' = [delivered EXCEPT ![p] = @ + IF running[p] THEN total[p] ELSE 0]
          /\ heard_end' = [heard_end EXCEPT ![p] = total[p] = 0 /\ running[p]]
        BY <1>15 DEF Delivers, ReaderGoes, osVars
    <2>2. CASE total[p] = 0 /\ running[p]
        <3>1. pipe[p].buffered = 0 /\ pipe[p].written = Size[p] /\ Pending(p) = 0
            BY <2>1, <2>2 DEF AtEnd, Pending
        <3>2. delivered[p] \in Nat /\ Size[p] \in Nat /\ delivered[p] + 0 + 0 = Size[p]
            BY <2>2, <3>1, PosixAssumption DEF Counted, Types, TypeOK
        <3>3. /\ delivered'[p] = Size[p] /\ reader'[p] = "close"
              /\ \A q \in Pipelines \ {p} :
                    delivered'[q] = delivered[q] /\ heard_end'[q] = heard_end[q] /\ reader'[q] = reader[q]
            BY <2>1, <2>2, <3>2 DEF Types, TypeOK
        <3> QED BY <2>1, <2>2, <3>1, <3>3 DEF Types, TypeOK, RunsInTime, Lives, Fresh,
                                              ChildInTime, AtEnd
    <2>3. CASE ~(total[p] = 0 /\ running[p])
        <3>1. /\ ~heard_end'[p] /\ reader'[p] \in {"close", "loop"} /\ (running[p] => reader'[p] = "loop")
              /\ \A q \in Pipelines \ {p} :
                    delivered'[q] = delivered[q] /\ heard_end'[q] = heard_end[q] /\ reader'[q] = reader[q]
            BY <2>1, <2>3 DEF Types, TypeOK
        <3> QED BY <2>1, <2>3, <3>1 DEF Types, TypeOK, RunsInTime, Lives, Fresh, ChildInTime,
                                        AtEnd
    <2> QED BY <2>2, <2>3
<1>16. ASSUME NEW p \in Pipelines, ReaderCloses(p) PROVE AtEnd'
    BY <1>16 DEF ReaderCloses, ReaderGoes, AfterClose, Close, NoteRace, Types, TypeOK,
                 PipeFdInTime, Lives, Fresh, RunsInTime, ChildInTime, AtEnd, Using, osVars,
                 pipelineVars
<1>17. ASSUME NEW p \in Pipelines, ReaderClears(p) PROVE AtEnd'
    BY <1>17 DEF ReaderClears, ReaderGoes, AfterClose, Types, TypeOK, PipeFdInTime, Lives, Fresh,
                 RunsInTime, ChildInTime, AtEnd, Using, osVars, pipelineVars
<1>18. ASSUME NEW p \in Pipelines, WaitReturns(p) PROVE AtEnd'
    BY <1>18 DEF WaitReturns, ReaderGoes, Reap, Types, TypeOK, PipeFdInTime, Lives, Fresh,
                 RunsInTime, ChildInTime, AtEnd, Using, osVars, pipelineVars
<1>19. ASSUME NEW p \in Pipelines, ReaderHalts(p) PROVE AtEnd'
    BY <1>19 DEF ReaderHalts, ReaderGoes, Types, TypeOK, PipeFdInTime, Lives, Fresh, RunsInTime,
                 ChildInTime, AtEnd, Using, osVars, pipelineVars
<1>20. ASSUME NEW p \in Pipelines, on_eof(p) PROVE AtEnd'
    BY <1>20 DEF on_eof, ReaderGoes, Types, TypeOK, PipeFdInTime, Lives, Fresh, RunsInTime,
                 ChildInTime, AtEnd, Using, osVars, pipelineVars
<1>21. ASSUME NEW p \in Pipelines, Exec(p), UNCHANGED pipelineVars PROVE AtEnd'
    BY <1>21 DEF Exec, Types, TypeOK, PipeFdInTime, Lives, Fresh, RunsInTime, ChildInTime, AtEnd,
                 Using, osVars, pipelineVars
<1>22. ASSUME NEW p \in Pipelines, ChildDies(p), UNCHANGED pipelineVars PROVE AtEnd'
    BY <1>22 DEF ChildDies, Ended, Types, TypeOK, PipeFdInTime, Lives, Fresh, RunsInTime,
                 ChildInTime, AtEnd, Using, osVars, pipelineVars
<1>23. ASSUME NEW p \in Pipelines, ChildFinds(p, Readable(p)), UNCHANGED pipelineVars PROVE AtEnd'
    <2>1. CASE UNCHANGED pipe
        <3>1. CASE UNCHANGED child
            BY <1>23, <2>1, <3>1 DEF AtEnd, pipelineVars
        <3>2. CASE ~UNCHANGED child
            <4>1. /\ child[p] = "running" /\ child' = [child EXCEPT ![p] = "zombie"]
                  /\ pipe[p].written = Size[p] \/ ~Readable(p)
                BY <1>23, <3>2 DEF ChildFinds, Ended
            <4>2. running[p] => pipe[p].written = Size[p]
                <5> SUFFICES ASSUME running[p], ~Readable(p) PROVE pipe[p].written = Size[p]
                    BY <4>1
                <5>1. ReadEnd(p) \notin Open
                    BY DEF Readable, IsOpen
                <5>2. CASE reader[p] \in Using
                    <6>1. pipe_fd[p] \in Fds /\ owner[p] = "started"
                        BY <5>2 DEF Lives, PipeFdSet, RunsInTime, Types, TypeOK
                    <6>2. fd[pipe_fd[p]] = ReadEnd(p)
                        BY <5>2, <6>1, FdsNotNone DEF OwnPipe, Using
                    <6> QED BY <5>1, <6>1, <6>2, EndsDiffer DEF Open
                <5>3. CASE reader[p] \in Making
                    BY <5>1, <5>3, EndsDiffer DEF OwnPipe, Open
                <5>4. CASE reader[p] \notin Using \cup Making
                    BY <4>1, <5>4 DEF Lives, ChildInTime, RunsInTime, Using, Making, Types,
                                      TypeOK, AtEnd
                <5> QED BY <5>2, <5>3, <5>4
            <4> QED BY <1>23, <2>1, <4>1, <4>2 DEF AtEnd, pipelineVars, Types, TypeOK
        <3> QED BY <3>1, <3>2
    <2>2. CASE ~UNCHANGED pipe
        <3>1. /\ pipe[p].written < Size[p]
              /\ pipe' = [pipe EXCEPT ![p] = [buffered |-> @.buffered + 1, written |-> @.written + 1]]
            BY <1>23, <2>2 DEF ChildFinds, Ended
        <3>2. /\ pipe'[p].buffered = pipe[p].buffered + 1 /\ pipe'[p].written = pipe[p].written + 1
              /\ \A q \in Pipelines \ {p} : pipe'[q] = pipe[q]
            BY <3>1 DEF Types, TypeOK
        <3>3. pipe[p].written # Size[p]
            BY <3>1, PosixAssumption DEF Types, TypeOK
        <3>4. UNCHANGED child
            BY <1>23, <2>2 DEF ChildFinds, Ended
        <3> QED BY <1>23, <3>2, <3>3, <3>4 DEF AtEnd, pipelineVars
    <2> QED BY <2>1, <2>2
<1> QED BY <1>0, <1>1, <1>2, <1>3, <1>4, <1>5, <1>6, <1>7, <1>8, <1>9, <1>10, <1>11, <1>12, <1>13,
    <1>14, <1>15, <1>16, <1>17, <1>18, <1>19, <1>20, <1>21, <1>22, <1>23 DEF Next, OwnerStops,
    ReaderStep, ChildStep

-----------------------------------------------------------------------------
\* As long as nobody stops the pipeline, the reader knows its child until it has waited
\* for it; and a child that has been waited for stays so.
Reaping == \A p \in Pipelines : owner[p] = "started" =>
    /\ reader[p] \in Using \cup {"clear"} => child_pid[p]
    /\ reader[p] \in {"pipe", "fork"} => child[p] = "none"
    /\ reader[p] \in {"done", "eof", "exited"} => child[p] \in {"none", "reaped"}

LEMMA ReapingStep == Types /\ PipeFdInTime /\ Fresh /\ Reaping /\ [Next]_vars => Reaping'
<1> SUFFICES ASSUME Types, PipeFdInTime, Fresh, Reaping, [Next]_vars PROVE Reaping'
    OBVIOUS
<1> USE DEF Reaping, Using
<1>0. CASE UNCHANGED vars
    BY <1>0 DEF vars, osVars, pipelineVars
<1>1. ASSUME NEW p \in Pipelines, start(p) PROVE Reaping'
    BY <1>1 DEF start, OwnerGoes, Types, TypeOK, PipeFdInTime, Fresh, osVars
<1>2. ASSUME NEW p \in Pipelines, NEW b \in BOOLEAN, set_paused(p, b) PROVE Reaping'
    BY <1>2 DEF set_paused, osVars
\* The owner stops: nothing is said of p any more.
<1>3. ASSUME NEW p \in Pipelines, OwnerStops(p) \/ StopHalts(p) PROVE Reaping'
    <2>1. /\ owner[p] # "started" \/ StopHalts(p)
          /\ owner'[p] # "started" /\ \A q \in Pipelines \ {p} : owner'[q] = owner[q]
        BY <1>3 DEF OwnerStops, StopHalts, StopKills, StopReaps, StopCloses, StopClears, StopJoins,
                    OwnerGoes, Types, TypeOK
    <2>2. \A q \in Pipelines \ {p} : reader'[q] = reader[q] /\ child_pid'[q] = child_pid[q]
        BY <1>3 DEF OwnerStops, StopHalts, StopKills, StopReaps, StopCloses, StopClears, StopJoins,
                    Types, TypeOK
    <2>3. \A q \in Pipelines \ {p} :
             child'[q] = child[q] \/ (child[q] = "zombie" /\ child'[q] = "reaped")
        BY <1>3 DEF OwnerStops, StopHalts, StopKills, StopReaps, StopCloses, StopClears, StopJoins,
                    Kill, Reap, Zombies, osVars, Types, TypeOK
    <2> QED BY <2>1, <2>2, <2>3
<1>4. ASSUME NEW p \in Pipelines, MakesPipe(p) PROVE Reaping'
    <2>1. /\ reader[p] = "pipe" /\ UNCHANGED <<child, owner, child_pid>>
          /\ \E s \in {"fork", "exited"} : reader' = [reader EXCEPT ![p] = s]
        BY <1>4 DEF MakesPipe, ReaderGoes, GivesUp
    <2> QED BY <2>1 DEF Types, TypeOK
<1>5. ASSUME NEW p \in Pipelines, Forks(p) PROVE Reaping'
    <2>1. /\ reader[p] = "fork" /\ UNCHANGED <<owner, child_pid>>
          /\ \/ /\ reader' = [reader EXCEPT ![p] = "store"]
                /\ \A q \in Pipelines \ {p} : child'[q] = child[q]
             \/ reader' = [reader EXCEPT ![p] = "exited"] /\ UNCHANGED child
        BY <1>5 DEF Forks, ReaderGoes, GivesUp, Fork, Types, TypeOK
    <2> QED BY <2>1 DEF Types, TypeOK
<1>6. ASSUME NEW p \in Pipelines, Stores(p) PROVE Reaping'
    BY <1>6 DEF Stores, ReaderGoes, Types, TypeOK
<1>7. ASSUME NEW p \in Pipelines, Loops(p) \/ Reads(p) \/ ReadReturns(p) \/ Delivers(p) PROVE Reaping'
    <2>1. /\ reader[p] \in Using /\ UNCHANGED <<child, owner, child_pid>>
          /\ \E s \in Using : reader' = [reader EXCEPT ![p] = s]
        BY <1>7 DEF Loops, Reads, ReadReturns, Delivers, ReaderGoes, osVars
    <2> QED BY <2>1 DEF Types, TypeOK
<1>8. ASSUME NEW p \in Pipelines, ReaderCloses(p) \/ ReaderClears(p) PROVE Reaping'
    <2>1. /\ reader[p] \in {"close", "clear"} /\ UNCHANGED <<child, owner, child_pid>>
          /\ \E s \in {"clear", "wait", "done"} :
                reader' = [reader EXCEPT ![p] = s] /\ (s = "done" => ~child_pid[p])
        BY <1>8 DEF ReaderCloses, ReaderClears, ReaderGoes, AfterClose, osVars
    <2> QED BY <2>1 DEF Types, TypeOK
<1>9. ASSUME NEW p \in Pipelines, WaitReturns(p) PROVE Reaping'
    BY <1>9 DEF WaitReturns, ReaderGoes, Reap, Types, TypeOK
<1>10. ASSUME NEW p \in Pipelines, ReaderHalts(p) \/ on_eof(p) PROVE Reaping'
    <2>1. /\ reader[p] \in {"done", "eof"} /\ UNCHANGED <<child, owner, child_pid>>
          /\ \E s \in {"eof", "exited"} : reader' = [reader EXCEPT ![p] = s]
        BY <1>10 DEF ReaderHalts, on_eof, ReaderGoes, osVars
    <2> QED BY <2>1 DEF Types, TypeOK
<1>11. ASSUME NEW p \in Pipelines, ChildStep(p) PROVE Reaping'
    <2>1. /\ UNCHANGED <<owner, reader, child_pid>>
          /\ \A q \in Pipelines : child'[q] = child[q] \/ child[q] \notin {"none", "reaped"}
        BY <1>11 DEF ChildStep, Exec, ChildDies, ChildFinds, Ended, pipelineVars, Types, TypeOK
    <2> QED BY <2>1
<1> QED BY <1>0, <1>1, <1>2, <1>3, <1>4, <1>5, <1>6, <1>7, <1>8, <1>9, <1>10, <1>11
        DEF Next, ReaderStep

-----------------------------------------------------------------------------
\* What the places of the threads say of the children and the pipes.
\* A reader that reads has room in its frame and a pipe to read from.
InPlace == \A p \in Pipelines :
    /\ reader[p] \in {"read", "reading"} => total[p] < Frame
    /\ file[p] # Free => reader[p] = "reading" /\ \E q \in Pipelines : file[p] = ReadEnd(q)
    /\ reader[p] \in {"clear", "wait"} => child[p] # "none"
    /\ reader[p] = "none" => owner[p] \in {"new", "stopped"}
    /\ owner[p] = "stopped" => reader[p] = "none"
    /\ holds[p] # {} => child[p] \in {"forked", "running", "killed"}
    /\ child[p] # "forked" => ReadEnd(p) \notin holds[p]

LEMMA InPlaceStep ==
    Types /\ PipeFdInTime /\ Fresh /\ ChildInTime /\ InPlace /\ [Next]_vars => InPlace'
<1> SUFFICES ASSUME Types, PipeFdInTime, Fresh, ChildInTime, InPlace, [Next]_vars PROVE InPlace'
    OBVIOUS
<1> USE DEF InPlace
<1>0. CASE UNCHANGED vars
    BY <1>0 DEF vars, osVars, pipelineVars
<1>1. ASSUME NEW p \in Pipelines, start(p) PROVE InPlace'
    BY <1>1 DEF start, OwnerGoes, Types, TypeOK, PipeFdInTime, osVars
<1>2. ASSUME NEW p \in Pipelines, NEW b \in BOOLEAN, set_paused(p, b) PROVE InPlace'
    BY <1>2 DEF set_paused, osVars
\* A signal and a waitpid change only children that are there.
<1>3. ASSUME NEW p \in Pipelines, OwnerStops(p) \/ StopHalts(p) PROVE InPlace'
    <2>1. /\ UNCHANGED <<total, file, holds>>
          /\ \A q \in Pipelines \ {p} : owner'[q] = owner[q] /\ reader'[q] = reader[q]
        BY <1>3 DEF OwnerStops, StopHalts, StopKills, StopReaps, StopCloses, StopClears, StopJoins,
                    OwnerGoes, osVars, Types, TypeOK
    <2>2. \/ /\ reader'[p] = reader[p] /\ owner'[p] # "stopped"
             /\ owner[p] \notin {"new", "stopped"}
          \/ /\ reader[p] = "exited" /\ reader'[p] = "none" /\ owner'[p] = "stopped"
        BY <1>3 DEF OwnerStops, StopHalts, StopKills, StopReaps, StopCloses, StopClears, StopJoins,
                    OwnerGoes, osVars, Types, TypeOK
    <2>3. \A q \in Pipelines :
             \/ child'[q] = child[q]
             \/ child[q] = "running" /\ child'[q] = "killed"
             \/ child[q] = "zombie" /\ child'[q] = "reaped"
        BY <1>3 DEF OwnerStops, StopHalts, StopKills, StopReaps, StopCloses, StopClears, StopJoins,
                    Kill, Reap, Zombies, osVars, Types, TypeOK
    <2> QED BY <2>1, <2>2, <2>3
<1>4. ASSUME NEW p \in Pipelines, MakesPipe(p) PROVE InPlace'
    <2>1. /\ reader[p] = "pipe" /\ UNCHANGED <<child, owner, holds, total, file>>
          /\ \E s \in {"fork", "exited"} : reader' = [reader EXCEPT ![p] = s]
        BY <1>4 DEF MakesPipe, ReaderGoes, GivesUp
    <2>2. owner[p] \notin {"new", "stopped"}
        BY <2>1 DEF PipeFdInTime
    <2> QED BY <2>1, <2>2 DEF Types, TypeOK
<1>5. ASSUME NEW p \in Pipelines, Forks(p) PROVE InPlace'
    <2>1. /\ reader[p] = "fork" /\ UNCHANGED <<owner, total, file>>
          /\ \/ /\ reader' = [reader EXCEPT ![p] = "store"]
                /\ child'[p] = "forked"
                /\ \A q \in Pipelines \ {p} : child'[q] = child[q] /\ holds'[q] = holds[q]
             \/ reader' = [reader EXCEPT ![p] = "exited"] /\ UNCHANGED <<child, holds>>
        BY <1>5 DEF Forks, ReaderGoes, GivesUp, Fork, Types, TypeOK
    <2>2. owner[p] \notin {"new", "stopped"} /\ child[p] = "none"
        BY <2>1 DEF PipeFdInTime, ChildInTime
    <2> QED BY <2>1, <2>2 DEF Types, TypeOK
<1>6. ASSUME NEW p \in Pipelines, Stores(p) PROVE InPlace'
    BY <1>6 DEF Stores, ReaderGoes, Types, TypeOK
<1>7. ASSUME NEW p \in Pipelines, Loops(p) PROVE InPlace'
    <2>1. /\ reader[p] \in {"loop", "held"} /\ UNCHANGED <<child, owner, holds, file>>
          /\ total' = [total EXCEPT ![p] = 0]
          /\ \E s \in {"close", "held", "read"} : reader' = [reader EXCEPT ![p] = s]
        BY <1>7 DEF Loops, ReaderGoes, osVars
    <2> QED BY <2>1, FrameAssumption DEF Types, TypeOK
<1>8. ASSUME NEW p \in Pipelines, Reads(p) PROVE InPlace'
    <2>1. /\ reader[p] = "read" /\ UNCHANGED <<child, owner, holds, total>>
          /\ \/ /\ reader' = [reader EXCEPT ![p] = "reading"]
                /\ \E e \in Ends : e[2] = "read" /\ file' = [file EXCEPT ![p] = e]
             \/ reader' = [reader EXCEPT ![p] = "frame"] /\ UNCHANGED file
        BY <1>8 DEF Reads, ReaderGoes, osVars
    <2>2. CASE reader' = [reader EXCEPT ![p] = "frame"] /\ UNCHANGED file
        BY <2>1, <2>2 DEF Types, TypeOK
    <2>3. CASE ~(reader' = [reader EXCEPT ![p] = "frame"] /\ UNCHANGED file)
        <3>1. PICK e \in Ends : e[2] = "read" /\ file' = [file EXCEPT ![p] = e]
            BY <2>1, <2>3
        <3>2. e = ReadEnd(e[1]) /\ e[1] \in Pipelines
            BY <3>1, EndsDiffer
        <3>3. file'[p] = ReadEnd(e[1]) /\ \A q \in Pipelines \ {p} : file'[q] = file[q]
            BY <3>1, <3>2 DEF Types, TypeOK
        <3>4. reader'[p] = "reading" /\ \A q \in Pipelines \ {p} : reader'[q] = reader[q]
            BY <2>1, <2>3 DEF Types, TypeOK
        <3>5. \E q \in Pipelines : file'[p] = ReadEnd(q)
            BY <3>2, <3>3
        <3> QED BY <2>1, <3>3, <3>4, <3>5
    <2> QED BY <2>2, <2>3
<1>9. ASSUME NEW p \in Pipelines, ReadReturns(p) PROVE InPlace'
    <2>1. /\ reader[p] = "reading" /\ UNCHANGED <<child, owner, holds>>
          /\ file' = [file EXCEPT ![p] = Free]
          /\ \A q \in Pipelines \ {p} : total'[q] = total[q]
          /\ \E s \in {"read", "frame"} :
                /\ reader' = [reader EXCEPT ![p] = s]
                /\ s = "read" => total'[p] < Frame
        BY <1>9 DEF ReadReturns, ReaderGoes, Types, TypeOK
    <2> QED BY <2>1 DEF Types, TypeOK
<1>10. ASSUME NEW p \in Pipelines, Delivers(p) PROVE InPlace'
    BY <1>10 DEF Delivers, ReaderGoes, osVars, Types, TypeOK
<1>11. ASSUME NEW p \in Pipelines, ReaderCloses(p) \/ ReaderClears(p) PROVE InPlace'
    <2>1. /\ reader[p] \in {"close", "clear"} /\ UNCHANGED <<child, owner, holds, total, file>>
          /\ \E s \in {"clear", "wait", "done"} : reader' = [reader EXCEPT ![p] = s]
        BY <1>11 DEF ReaderCloses, ReaderClears, ReaderGoes, AfterClose, osVars
    <2>2. child[p] # "none"
        BY <2>1 DEF ChildInTime, Using
    <2> QED BY <2>1, <2>2 DEF Types, TypeOK
<1>12. ASSUME NEW p \in Pipelines, WaitReturns(p) PROVE InPlace'
    <2>1. holds[p] = {}
        BY <1>12 DEF WaitReturns
    <2> QED BY <1>12, <2>1 DEF WaitReturns, ReaderGoes, Reap, Types, TypeOK
<1>13. ASSUME NEW p \in Pipelines, ReaderHalts(p) \/ on_eof(p) PROVE InPlace'
    <2>1. /\ reader[p] \in {"done", "eof"} /\ UNCHANGED <<child, owner, holds, total, file>>
          /\ \E s \in {"eof", "exited"} : reader' = [reader EXCEPT ![p] = s]
        BY <1>13 DEF ReaderHalts, on_eof, ReaderGoes, osVars
    <2> QED BY <2>1 DEF Types, TypeOK
<1>14. ASSUME NEW p \in Pipelines, ChildStep(p) PROVE InPlace'
    <2>1. UNCHANGED <<owner, reader, total, file>>
        BY <1>14 DEF ChildStep, pipelineVars
    <2>2. \A q \in Pipelines \ {p} : child'[q] = child[q] /\ holds'[q] = holds[q]
        BY <1>14 DEF ChildStep, Exec, ChildDies, ChildFinds, Ended, Types, TypeOK
    <2>3. \/ child'[p] = child[p] /\ holds'[p] = holds[p]
          \/ /\ child[p] # "none" /\ child'[p] = "running" /\ child[p] = "forked"
             /\ holds'[p] = holds[p] \ {ReadEnd(p)}
          \/ child[p] # "none" /\ child'[p] = "zombie" /\ holds'[p] = {}
        BY <1>14 DEF ChildStep, Exec, ChildDies, ChildFinds, Ended, Types, TypeOK
    <2> QED BY <2>1, <2>2, <2>3
<1> QED BY <1>0, <1>1, <1>2, <1>3, <1>4, <1>5, <1>6, <1>7, <1>8, <1>9, <1>10, <1>11, <1>12, <1>13,
    <1>14 DEF Next, ReaderStep

-----------------------------------------------------------------------------
IInv == /\ Types /\ Descriptors /\ Lives /\ Reaping /\ InPlace
        /\ ~raced => OwnPipe /\ Counted /\ AtEnd

\* A race is not forgotten.
LEMMA RacedStays == raced /\ [Next]_vars => raced'
BY DEF Next, OwnerStops, ReaderStep, ChildStep, start, set_paused, StopHalts, StopKills,
       StopReaps, StopCloses,
       StopClears, StopJoins, MakesPipe, Forks, Stores, Loops, Reads, ReadReturns, Delivers, ReaderCloses,
       ReaderClears, WaitReturns, ReaderHalts, on_eof, NoteRace, vars, pipelineVars

LEMMA InitInv == Init => IInv
<1> SUFFICES ASSUME Init PROVE IInv
    OBVIOUS
<1>1. Types
    BY InitTypes
<1>2. Descriptors
    BY EndsDiffer DEF Init, OSInit, Descriptors, ReadEndKnown, WriteEndKnown, PipeFdInTime
<1>3. Lives
    BY DEF Init, OSInit, Lives, Fresh, RunsInTime, PipeFdSet, ChildInTime, Making, Using
<1>4. OwnPipe
    BY DEF Init, OSInit, OwnPipe, Making
<1>5. Counted
    BY DEF Init, OSInit, Counted, Pending
<1>6. AtEnd
    BY DEF Init, OSInit, AtEnd
<1>7. Reaping /\ InPlace
    BY EndsDiffer DEF Init, OSInit, Reaping, InPlace, Using
<1> QED BY <1>1, <1>2, <1>3, <1>4, <1>5, <1>6, <1>7 DEF IInv

LEMMA InvStep == IInv /\ [Next]_vars => IInv'
<1> SUFFICES ASSUME IInv, [Next]_vars PROVE IInv'
    OBVIOUS
<1>1. Types' /\ Descriptors' /\ Lives'
    BY TypesStep, DescriptorsStep, LivesStep DEF IInv, Descriptors
<1>2. ~raced' => OwnPipe' /\ Counted' /\ AtEnd'
    BY RacedStays, OwnPipeStep, CountedStep, AtEndStep DEF IInv, Descriptors
<1>3. Reaping' /\ InPlace'
    BY ReapingStep, InPlaceStep DEF IInv, Descriptors, Lives
<1> QED BY <1>1, <1>2, <1>3 DEF IInv

LEMMA Invariance == Spec => []IInv
BY InitInv, InvStep, PTL DEF Spec

(***************************************************************************)
(* Every state of the pipelines is of its type: no read() overruns the     *)
(* frame, no pipe holds more than its capacity, and pipe_fd_ is a          *)
(* descriptor or -1, whatever the threads and the children do.             *)
(***************************************************************************)
THEOREM TypeCorrect == Spec => []TypeOK
<1>1. IInv => TypeOK
    BY DEF IInv, Types
<1> QED BY <1>1, Invariance, PTL

(***************************************************************************)
(* A reader that has returned leaves no end of its pipe open in the        *)
(* process, with or without races: start() may fail at every point, and    *)
(* stop() may close the descriptor before, while or after the reader does. *)
(***************************************************************************)
THEOREM NothingLeaks == Spec => []NoDescriptorLeak
<1>1. IInv => NoDescriptorLeak
    BY DEF IInv, Descriptors, ReadEndKnown, WriteEndKnown, NoDescriptorLeak, Open, Making, Using
<1> QED BY <1>1, Invariance, PTL

(***************************************************************************)
(* Unless a thread uses pipe_fd_ between the close() and the = -1 of the   *)
(* other, each reader reads its own pipe, and one that finds the end has   *)
(* handed on every byte that its child wrote.                              *)
(***************************************************************************)
THEOREM StreamsStayApart == Spec => []StreamsApart
<1>1. IInv => StreamsApart
    BY DEF IInv, OwnPipe, AtEnd, StreamsApart
<1> QED BY <1>1, Invariance, PTL

(***************************************************************************)
(* The reader of a pipeline that nobody stopped has waited for its child   *)
(* by the time it tells that the track is over: a bot that plays through   *)
(* its queues collects no zombies, for whatever a child does and a         *)
(* neighbour is made to do.                                                *)
(***************************************************************************)
THEOREM ChildrenAreReaped == Spec => []ReapedUnlessStopped
<1>1. IInv => ReapedUnlessStopped
    BY DEF IInv, Lives, RunsInTime, Reaping, ReapedUnlessStopped
<1> QED BY <1>1, Invariance, PTL

-----------------------------------------------------------------------------
\* A child that is held up writes to a full pipe, which a reader that is held up does not
\* read; so the end of the pipe that somebody could read is held by another child.
LEMMA ChildHeldUp ==
    ASSUME IInv, AtRest, NEW p \in Pipelines, child[p] = "running", reader[p] \notin Using
    PROVE  Inherited(p)
<1>1. /\ Readable(p) /\ pipe[p].buffered # 0 /\ reader[p] \notin Making
    BY PosixAssumption DEF AtRest, Waits, ChildWaits, ReaderWaits, Making
<1>2. \A q \in Pipelines : file[q] # ReadEnd(p)
    BY <1>1, EndsDiffer DEF IInv, InPlace, AtRest, Waits, ReaderWaits
<1>3. ReadEnd(p) \notin Open
    BY <1>1 DEF IInv, Descriptors, ReadEndKnown, Open
<1>4. PICK q \in Pipelines : ReadEnd(p) \in holds[q]
    BY <1>1, <1>2, <1>3 DEF Readable, IsOpen
<1> QED BY <1>4 DEF IInv, InPlace, Inherited

\* A read() that is held up waits for the writers of an empty pipe: not for its own child,
\* which could write.
LEMMA ReaderHeldUp ==
    ASSUME IInv, AtRest, NEW p \in Pipelines, reader[p] = "reading"
    PROVE  \E q \in Pipelines : file[p] = ReadEnd(q) /\ Inherited(q)
<1>1. PICK q \in Pipelines : file[p] = ReadEnd(q)
    BY EndsDiffer DEF IInv, Types, Reading, InPlace
<1>2. /\ file[p][1] = q /\ pipe[q].buffered = 0 /\ IsOpen(WriteEnd(q))
    BY <1>1, EndsDiffer DEF AtRest, Waits, ReaderWaits
<1>3. WriteEnd(q) \notin Open
    BY DEF IInv, Descriptors, WriteEndKnown, Open, AtRest, Waits, ReaderWaits, Making
<1>4. PICK r \in Pipelines : WriteEnd(q) \in holds[r]
    BY <1>2, <1>3 DEF IsOpen
<1>5. child[r] = "running"
    BY <1>4 DEF IInv, InPlace, AtRest, Waits, ChildWaits
<1>6. r # q
    BY <1>2, <1>5, PosixAssumption DEF AtRest, Waits, ChildWaits
<1> QED BY <1>1, <1>4, <1>6 DEF Inherited

LEMMA RestIsRight == IInv => OnlyInheritanceBlocks /\ NothingSurvivesStop
<1> SUFFICES ASSUME IInv, AtRest, NEW p \in Pipelines
             PROVE  /\ \/ /\ reader[p] \in {"none", "held", "exited"}
                          /\ owner[p] \in {"new", "started", "stopped"}
                       \/ Inherited(p)
                       \/ \E q \in Pipelines : file[p] = ReadEnd(q) /\ Inherited(q)
                    /\ owner[p] = "stopped" =>
                          child[p] \in {"none", "zombie", "reaped"} \/ Inherited(p)
    BY DEF OnlyInheritanceBlocks, NothingSurvivesStop
<1>1. OwnerWaits(p) /\ ReaderWaits(p) /\ ChildWaits(p)
    BY DEF AtRest, Waits
<1>2. CASE reader[p] = "reading"
    <2>1. owner[p] # "stopped"
        BY <1>2 DEF IInv, InPlace
    <2> QED BY <1>2, <2>1, ReaderHeldUp
<1>3. CASE reader[p] = "wait"
    <2>1. child[p] = "running"
        BY <1>1, <1>3 DEF ReaderWaits, ChildWaits, IInv, InPlace
    <2> QED BY <1>3, <2>1, ChildHeldUp DEF Using
<1>4. CASE reader[p] \in {"none", "held", "exited"}
    <2>1. owner[p] # "join"
        BY <1>1, <1>4 DEF OwnerWaits, ReaderWaits, InPlace, IInv, Lives, RunsInTime
    <2>2. owner[p] \in {"new", "started", "stopped"}
        BY <1>1, <2>1 DEF OwnerWaits
    <2>3. owner[p] = "stopped" => child[p] \in {"none", "zombie", "reaped"} \/ Inherited(p)
        BY <1>1, ChildHeldUp DEF ChildWaits, IInv, InPlace, Using
    <2> QED BY <1>4, <2>2, <2>3
<1> QED BY <1>1, <1>2, <1>3, <1>4 DEF ReaderWaits

(***************************************************************************)
(* Once no thread and no child can go on, every pipeline is done, paused   *)
(* or held up by a child of another one that inherited an end of its pipe, *)
(* however many pipelines there are and whatever raced.  That AtRest,      *)
(* stated by the guards of the calls that block, is where no step is       *)
(* enabled is left to the run (NothingElseBlocks).                         *)
(***************************************************************************)
THEOREM OnlyInheritance == Spec => []OnlyInheritanceBlocks
BY RestIsRight, Invariance, PTL

(***************************************************************************)
(* A stop() that has returned leaves no child that will live for ever:     *)
(* even one that ignored the SIGTERM, or was not told, ends on its closed  *)
(* pipe, unless another child holds that pipe open.                        *)
(***************************************************************************)
THEOREM StopLeavesNothing == Spec => []NothingSurvivesStop
BY RestIsRight, Invariance, PTL

-----------------------------------------------------------------------------
Phases == [p \in Pipelines |-> Phase(p)]

\* Moves of one reader, as PcmStream sees them.
LEMMA PhaseMoves ==
    ASSUME Types, NEW p \in Pipelines, NEW s,
           reader' = [reader EXCEPT ![p] = s]
    PROVE  /\ Phases[p] = Phase(p)
           /\ s \in {"none", "held", "exited"} => Phases' = [Phases EXCEPT ![p] = s]
           /\ s \in {"pipe", "fork", "store"} => Phases' = [Phases EXCEPT ![p] = "starting"]
           /\ s = "eof" => Phases' = [Phases EXCEPT ![p] = "ending"]
           /\ s \in {"loop", "read", "close"} => Phases' = [Phases EXCEPT ![p] = "reading"]
<1>1. reader'[p] = s /\ \A q \in Pipelines \ {p} : reader'[q] = reader[q]
    BY DEF Types, TypeOK
<1>2. \A q \in Pipelines \ {p} : Phase(q)' = Phase(q)
    BY <1>1 DEF Phase
<1>3. /\ s \in {"none", "held", "exited"} => Phase(p)' = s
      /\ s \in {"pipe", "fork", "store"} => Phase(p)' = "starting"
      /\ s = "eof" => Phase(p)' = "ending"
      /\ s \in {"loop", "read", "close"} => Phase(p)' = "reading"
    BY <1>1 DEF Phase
<1> DEFINE To == Phase(p)'
<1>4. Phases = [q \in Pipelines |-> Phase(q)] /\ Phases' = [q \in Pipelines |-> Phase(q)']
    BY DEF Phases
<1>5. Phases' = [Phases EXCEPT ![p] = To]
    BY <1>2, <1>4
<1> QED BY <1>3, <1>4, <1>5

\* Steps of the reader that PcmStream does not see.
LEMMA PhaseStays ==
    ASSUME Types, NEW p \in Pipelines, NEW s,
           reader' = [reader EXCEPT ![p] = s],
           \/ reader[p] \in {"pipe", "fork"} /\ s \in {"fork", "store"}
           \/ /\ reader[p] \in {"loop", "read", "reading", "frame", "close", "clear", "wait"}
              /\ s \in {"loop", "read", "reading", "frame", "close", "clear", "wait", "done"}
    PROVE  UNCHANGED Phases
<1>1. reader'[p] = s /\ \A q \in Pipelines \ {p} : reader'[q] = reader[q]
    BY DEF Types, TypeOK
<1>2. \A q \in Pipelines : Phase(q)' = Phase(q)
    BY <1>1 DEF Phase
<1> QED BY <1>2 DEF Phases

\* Every step is one of PcmStream's, or changes nothing there.
LEMMA PromiseStep ==
    ASSUME Types, PipeFdInTime, Fresh, [Next]_vars
    PROVE  [Promise!Next]_(Promise!vars)
<1>0. CASE UNCHANGED vars
    BY <1>0 DEF vars, pipelineVars, Promise!vars, Phase
<1> DEFINE Same == UNCHANGED <<running, paused, Phases>>
<1>s. ASSUME Same PROVE UNCHANGED Promise!vars
    BY <1>s DEF Promise!vars, Phases
<1>p. Phases = [q \in Pipelines |-> Phase(q)] /\ Phases' = [q \in Pipelines |-> Phase(q)']
    BY DEF Phases
<1>1. ASSUME NEW p \in Pipelines, start(p) PROVE Promise!Launch(p)
    <2>1. reader[p] = "none" /\ reader' = [reader EXCEPT ![p] = "pipe"] /\ ~paused[p]
        BY <1>1 DEF start, OwnerGoes, PipeFdInTime, Fresh
    <2>2. Phase(p) = "none" /\ Phases' = [Phases EXCEPT ![p] = "starting"] /\ Phases[p] = "none"
        BY <2>1, PhaseMoves DEF Phase
    <2>3. paused' = paused
        BY <1>1, <2>1 DEF start, Types, TypeOK
    <2> QED BY <1>1, <1>p, <2>2, <2>3 DEF start, Promise!Launch, Promise!Becomes
<1>2. ASSUME NEW p \in Pipelines, NEW b \in BOOLEAN, set_paused(p, b) PROVE Promise!SetPaused(p, b)
    BY <1>2 DEF set_paused, Promise!SetPaused, Phase
<1>3. ASSUME NEW p \in Pipelines, StopHalts(p) PROVE Promise!Stop(p)
    BY <1>3 DEF StopHalts, Promise!Stop, Promise!Halts, Phase
<1>4. ASSUME NEW p \in Pipelines, StopKills(p) \/ StopReaps(p) \/ StopCloses(p) \/ StopClears(p) PROVE Same
    BY <1>4 DEF StopKills, StopReaps, StopCloses, StopClears, Phases, Phase
<1>5. ASSUME NEW p \in Pipelines, StopJoins(p) PROVE Promise!Join(p)
    <2>1. reader[p] = "exited" /\ reader' = [reader EXCEPT ![p] = "none"]
        BY <1>5 DEF StopJoins
    <2>2. Phases[p] = "exited" /\ Phases' = [Phases EXCEPT ![p] = "none"]
        BY <2>1, PhaseMoves DEF Phase
    <2> QED BY <1>5, <1>p, <2>2 DEF StopJoins, Promise!Join, Promise!Becomes
<1>6. ASSUME NEW p \in Pipelines, NEW from \in {"pipe", "fork"}, GivesUp(p, from), UNCHANGED paused
      PROVE  Promise!GivesUp(p)
    <2>1. reader[p] \in {"pipe", "fork"} /\ reader' = [reader EXCEPT ![p] = "exited"]
        BY <1>6 DEF GivesUp, ReaderGoes
    <2>2. Phases[p] = "starting" /\ Phases' = [Phases EXCEPT ![p] = "exited"]
        BY <2>1, PhaseMoves DEF Phase
    <2> QED BY <1>6, <1>p, <2>2 DEF GivesUp, Promise!GivesUp, Promise!Becomes, Promise!Halts
<1>7. ASSUME NEW p \in Pipelines, MakesPipe(p) PROVE Promise!GivesUp(p) \/ Same
    <2>1. CASE GivesUp(p, "pipe")
        BY <1>6, <1>7, <2>1 DEF MakesPipe
    <2>2. CASE ReaderGoes(p, "pipe", "fork") /\ UNCHANGED running
        BY <1>7, <2>2, PhaseStays DEF MakesPipe, ReaderGoes
    <2> QED BY <1>7, <2>1, <2>2 DEF MakesPipe
<1>8. ASSUME NEW p \in Pipelines, Forks(p) PROVE Promise!GivesUp(p) \/ Same
    <2>1. CASE GivesUp(p, "fork")
        BY <1>6, <1>8, <2>1 DEF Forks
    <2>2. CASE ReaderGoes(p, "fork", "store") /\ UNCHANGED running
        BY <1>8, <2>2, PhaseStays DEF Forks, ReaderGoes
    <2> QED BY <1>8, <2>1, <2>2 DEF Forks
<1>9. ASSUME NEW p \in Pipelines, Stores(p) PROVE Promise!Spawns(p)
    <2>1. reader[p] = "store" /\ reader' = [reader EXCEPT ![p] = "loop"]
        BY <1>9 DEF Stores, ReaderGoes
    <2>2. Phases[p] = "starting" /\ Phases' = [Phases EXCEPT ![p] = "reading"]
        BY <2>1, PhaseMoves DEF Phase
    <2> QED BY <1>9, <1>p, <2>2 DEF Stores, Promise!Spawns, Promise!Becomes
<1>10. ASSUME NEW p \in Pipelines, Loops(p) PROVE Promise!Holds(p) \/ Promise!ReadsOn(p) \/ Same
    <2>0. UNCHANGED <<running, paused>>
        BY <1>10 DEF Loops
    <2>1. CASE paused[p] /\ ReaderGoes(p, "loop", "held")
        <3>1. Phases[p] = "reading" /\ Phases' = [Phases EXCEPT ![p] = "held"]
            BY <2>1, PhaseMoves DEF Phase, ReaderGoes
        <3> QED BY <1>p, <2>0, <2>1, <3>1 DEF Promise!Holds, Promise!Becomes
    <2>2. ASSUME NEW s \in {"close", "read"}, reader[p] = "held", ReaderGoes(p, "held", s),
                 ~paused[p] \/ ~running[p]
          PROVE  Promise!ReadsOn(p)
        <3>1. Phases[p] = "held" /\ Phases' = [Phases EXCEPT ![p] = "reading"]
            BY <2>2, PhaseMoves DEF Phase, ReaderGoes
        <3> QED BY <1>p, <2>0, <2>2, <3>1 DEF Promise!ReadsOn, Promise!Becomes
    <2>3. ASSUME NEW s \in {"close", "read"}, ReaderGoes(p, "loop", s) PROVE Same
        BY <2>0, <2>3, PhaseStays DEF ReaderGoes
    <2> QED BY <1>10, <2>1, <2>2, <2>3 DEF Loops
<1>11. ASSUME NEW p \in Pipelines, Reads(p) \/ ReadReturns(p) \/ Delivers(p) \/ ReaderCloses(p) \/ ReaderClears(p)
                                   \/ WaitReturns(p)
       PROVE  Same
    <2>1. UNCHANGED <<running, paused>>
        BY <1>11 DEF Reads, ReadReturns, Delivers, ReaderCloses, ReaderClears, WaitReturns
    <2>2. /\ reader[p] \in {"loop", "read", "reading", "frame", "close", "clear", "wait"}
          /\ \E s \in {"loop", "read", "reading", "frame", "close", "clear", "wait", "done"} :
                reader' = [reader EXCEPT ![p] = s]
        BY <1>11 DEF Reads, ReadReturns, Delivers, ReaderCloses, ReaderClears, WaitReturns,
                     ReaderGoes, AfterClose
    <2> QED BY <2>1, <2>2, PhaseStays
<1>12. ASSUME NEW p \in Pipelines, ReaderHalts(p) PROVE Promise!Ends(p)
    <2>1. reader[p] = "done" /\ reader' = [reader EXCEPT ![p] = "eof"]
        BY <1>12 DEF ReaderHalts, ReaderGoes
    <2>2. Phases[p] = "reading" /\ Phases' = [Phases EXCEPT ![p] = "ending"]
        BY <2>1, PhaseMoves DEF Phase
    <2> QED BY <1>12, <1>p, <2>2 DEF ReaderHalts, Promise!Ends, Promise!Becomes, Promise!Halts
<1>13. ASSUME NEW p \in Pipelines, on_eof(p) PROVE Promise!on_eof(p)
    <2>1. reader[p] = "eof" /\ reader' = [reader EXCEPT ![p] = "exited"]
        BY <1>13 DEF on_eof, ReaderGoes
    <2>2. Phases[p] = "ending" /\ Phases' = [Phases EXCEPT ![p] = "exited"]
        BY <2>1, PhaseMoves DEF Phase
    <2> QED BY <1>13, <1>p, <2>2 DEF on_eof, Promise!on_eof, Promise!Becomes
<1>14. ASSUME NEW p \in Pipelines, ChildStep(p) PROVE Same
    BY <1>14 DEF ChildStep, pipelineVars, Phases, Phase
<1> HIDE DEF Same
<1> QED BY <1>0, <1>s, <1>1, <1>2, <1>3, <1>4, <1>5, <1>7, <1>8, <1>9, <1>10, <1>11, <1>12, <1>13,
    <1>14
        DEF Next, OwnerStops, ReaderStep, Promise!Next

(***************************************************************************)
(* For any number of pipelines, descriptors and sizes, and whatever races  *)
(* there are, every behaviour of the pipelines is one of PcmStream: the    *)
(* promise that the model of AudioStreamer is built on.                    *)
(***************************************************************************)
THEOREM PipelineImplementsPcmStream == Spec => ImplementsPcmStream
<1>1. Init => Promise!Init
    BY DEF Init, Promise!Init, Phase
<1>2. IInv /\ [Next]_vars => [Promise!Next]_(Promise!vars)
    BY PromiseStep DEF IInv, Descriptors, Lives
<1> QED BY <1>1, <1>2, Invariance, PTL DEF Spec, ImplementsPcmStream, Promise!Spec

-----------------------------------------------------------------------------
(* What PcmGain does to a frame. *)

\* What the theorems assume of the volume: every session has one from 1 to 200.
LEMMA VolumeInRange ==
    ASSUME NEW volume \in 1 .. 200, NEW vol \in Int
    PROVE  handle_volume(volume, vol) \in 1 .. 200
BY SMT DEF handle_volume, Clamp

LEMMA ProductMonotone ==
    ASSUME NEW a \in Int, NEW b \in Int, NEW v \in Nat, a <= b
    PROVE  a * v \in Int /\ b * v \in Int /\ a * v <= b * v
<1>1. PICK d \in Nat : b = a + d
    BY SMT
<1>2. b * v = a * v + d * v /\ d * v \in Nat /\ a * v \in Int
    BY <1>1, SMT
<1> QED BY <1>2, SMT

LEMMA QuotientMonotone ==
    ASSUME NEW x \in Int, NEW y \in Int, x <= y
    PROVE  /\ Quotient(x, 100) \in Int /\ Quotient(y, 100) \in Int
           /\ Quotient(x, 100) <= Quotient(y, 100)
BY SMT DEF Quotient

LEMMA QuotientOfMultiple ==
    ASSUME NEW x \in Int
    PROVE  Quotient(x * 100, 100) = x
<1>1. CASE x >= 0
    BY <1>1, SMT DEF Quotient
<1>2. CASE x < 0
    BY <1>2, SMT DEF Quotient
<1> QED BY <1>1, <1>2, SMT

(***************************************************************************)
(* The product of a sample and a volume fits an int, so that the           *)
(* multiplication in on_frame_received never overflows.                    *)
(***************************************************************************)
THEOREM ProductFits ==
    ASSUME NEW sample \in Samples, NEW vol \in 0 .. 200
    PROVE  sample * vol \in Ints
<1>1. /\ sample \in Int /\ -32768 <= sample /\ sample <= 32767
      /\ vol \in Nat /\ vol <= 200
      /\ -32768 \in Int /\ 32767 \in Int
    BY SMT DEF Samples
<1>2. /\ (-32768) * vol <= sample * vol /\ sample * vol <= 32767 * vol
      /\ sample * vol \in Int
    BY <1>1, ProductMonotone
<1> QED BY <1>1, <1>2, SMT DEF Ints

(***************************************************************************)
(* The shortcut of on_frame_received for 100 is what scaling would do: a   *)
(* change of volume to 100 and back makes no step in the audio.            *)
(***************************************************************************)
THEOREM ShortcutIsScaling ==
    ASSUME NEW frame \in Seq(Samples), NEW vol \in 0 .. 200
    PROVE  on_frame_received(frame, vol) = Scaling(frame, vol)
<1>1. ASSUME NEW x \in Samples PROVE scaled(x, 100) = x
    <2>1. x \in Int /\ -32768 <= x /\ x <= 32767
        BY SMT DEF Samples
    <2>2. Quotient(x * 100, 100) = x
        BY <2>1, QuotientOfMultiple
    <2> QED BY <2>1, <2>2, SMT DEF scaled, Clamp
<1>2. /\ frame = [i \in 1 .. Len(frame) |-> frame[i]]
      /\ \A i \in 1 .. Len(frame) : frame[i] \in Samples
    OBVIOUS
<1>3. Scaling(frame, 100) = frame
    BY <1>1, <1>2, Zenon DEF Scaling
<1> QED BY <1>3 DEF on_frame_received

(***************************************************************************)
(* Whatever the volume, the louder of two samples stays the louder one:    *)
(* truncation and clamping flatten the wave and never fold it over.        *)
(***************************************************************************)
THEOREM GainKeepsOrder ==
    ASSUME NEW a \in Samples, NEW b \in Samples, NEW vol \in 0 .. 200, a <= b
    PROVE  /\ scaled(a, vol) \in Samples /\ scaled(b, vol) \in Samples
           /\ scaled(a, vol) <= scaled(b, vol)
<1>1. a \in Int /\ b \in Int /\ vol \in Nat
    BY SMT DEF Samples
<1>2. a * vol \in Int /\ b * vol \in Int /\ a * vol <= b * vol
    BY <1>1, ProductMonotone
<1>3. /\ Quotient(a * vol, 100) \in Int /\ Quotient(b * vol, 100) \in Int
      /\ Quotient(a * vol, 100) <= Quotient(b * vol, 100)
    BY <1>2, QuotientMonotone
<1> QED BY <1>3, SMT DEF scaled, Clamp, Samples

(***************************************************************************)
(* Up to 100 nothing is clipped.                                           *)
(***************************************************************************)
THEOREM NothingClipsUpTo100 ==
    ASSUME NEW sample \in Samples, NEW vol \in 0 .. 100
    PROVE  scaled(sample, vol) = Quotient(sample * vol, 100)
<1>1. /\ sample \in Int /\ -32768 <= sample /\ sample <= 32767
      /\ vol \in Nat /\ vol <= 100
      /\ -32768 \in Int /\ 32767 \in Int
    BY SMT DEF Samples
<1>2. /\ (-32768) * vol <= sample * vol /\ sample * vol <= 32767 * vol
      /\ sample * vol \in Int
    BY <1>1, ProductMonotone
<1>3. -3276800 <= sample * vol /\ sample * vol <= 3276700
    BY <1>1, <1>2, SMT
<1>4. /\ Quotient(sample * vol, 100) \in Int
      /\ -32768 <= Quotient(sample * vol, 100) /\ Quotient(sample * vol, 100) <= 32767
    BY <1>2, <1>3, SMT DEF Quotient
<1> QED BY <1>4, SMT DEF scaled, Clamp
=============================================================================
