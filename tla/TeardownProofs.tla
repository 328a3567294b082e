--------------------------- MODULE TeardownProofs ---------------------------
(***************************************************************************)
(* Proofs about Teardown, for any chats, workers, commands and settings    *)
(* of what may fail.                                                       *)
(*                                                                         *)
(* That the bot is in no call after shutdown() is not inductive: a worker  *)
(* that is about to join a call would bring one back.  What keeps it from  *)
(* that is `initialized`, which shutdown() clears and nothing sets again:  *)
(* join_group_call then calls init(), and never returns.                   *)
(***************************************************************************)
EXTENDS Teardown, TLAPS

IsShut == active_chats = {} /\ ~initialized

IInv == main \notin {"live", "shutdown"} => IsShut

\* A call of AudioStreamer enters no voice call.
LEMMA CallsEnterNothing ==
    ASSUME NEW w \in Workers, Streamer!CallStep(w)
    PROVE  active_chats' \subseteq active_chats
<1>1. CASE Streamer!Leave(w)
    BY <1>1 DEF Streamer!Leave, Streamer!NTg!leave_group_call
<1>2. CASE Streamer!Pause(w) \/ Streamer!Resume(w)
    BY <1>2 DEF Streamer!Pause, Streamer!Resume, Streamer!Check, Streamer!Apply,
                Streamer!MemoryError, Streamer!callVars, Streamer!NTg!pause, Streamer!NTg!resume
<1>3. CASE ~(Streamer!Leave(w) \/ Streamer!Pause(w) \/ Streamer!Resume(w))
    <2>1. UNCHANGED Streamer!callVars
        BY <1>3 DEF Streamer!CallStep, Streamer!Lookup, Streamer!Inspect, Streamer!Halt,
           Streamer!Join, Streamer!JoinOfDestroyed, Streamer!JoinThrows, Streamer!Reset,
           Streamer!Clear, Streamer!Destroy, Streamer!DestroyedTwice, Streamer!DestroyThrows,
           Streamer!Assign, Streamer!Create, Streamer!Install, Streamer!Start, Streamer!Launch,
           Streamer!Playing, Streamer!Release, Streamer!Erase, Streamer!SetIdle,
           Streamer!MemoryError, Streamer!callVars
    <2> QED BY <2>1 DEF Streamer!callVars
<1> QED BY <1>1, <1>2, <1>3

\* Nor does any step of a handler but the one that joins.
LEMMA OnlyJoinEnters ==
    ASSUME NEW w \in Workers, HandlerStep(w), ~At(w, "join")
    PROVE  active_chats' \subseteq active_chats
<1>1. CASE InStreamer(w)
    BY <1>1, CallsEnterNothing DEF InStreamer
<1>2. CASE LeaveCall(w)
    BY <1>2 DEF LeaveCall, NTg!leave_group_call
<1>3. CASE ~(InStreamer(w) \/ LeaveCall(w))
    BY <1>3 DEF HandlerStep, execute_command, PlayCheck, PlayNow, PlayLater, SkipCheck, PopNext,
       PopNone, ClearQueue, Await, streamerVars
<1> QED BY <1>1, <1>2, <1>3

LEMMA InitInv == TeardownInit => IInv
BY DEF TeardownInit, IInv

LEMMA InvStep == IInv /\ [TeardownNext]_allVars => IInv'
<1> SUFFICES ASSUME IInv, [TeardownNext]_allVars PROVE IInv'
    OBVIOUS
<1> USE DEF IInv, IsShut
<1>0. CASE UNCHANGED allVars
    BY <1>0 DEF allVars, teardownVars, vars, streamerVars
<1>1. CASE StopClients
    BY <1>1 DEF StopClients, Goes
<1>2. CASE ShutdownCalls
    BY <1>2 DEF ShutdownCalls, NTg!shutdown
\* The rest of main() is past the shutdown, and leaves the calls alone.
<1>3. CASE MainStep /\ ~ShutdownCalls
    <2>1. main \notin {"live", "shutdown"}
        BY <1>3 DEF MainStep, Disconnect, LockSessions, StopSession, JoinReader, ClearSessions,
                    StopPool, NotifyWorkers, JoinWorkers, Exit, Goes
    <2>2. UNCHANGED <<active_chats, initialized>>
        BY <1>3 DEF MainStep, Disconnect, LockSessions, StopSession, JoinReader, ClearSessions,
                    StopPool, NotifyWorkers, JoinWorkers, Exit, vars, streamerVars
    <2> QED BY <2>1, <2>2
<1>4. ASSUME NEW w \in Workers, Works(w) PROVE IInv'
    <2>1. UNCHANGED <<main, initialized>>
        BY <1>4 DEF Works, teardownVars
    <2>2. CASE ~initialized
        <3>1. active_chats' \subseteq active_chats
            BY <1>4, <2>2, OnlyJoinEnters DEF Works
        <3> QED BY <2>1, <3>1
    <2>3. CASE initialized
        BY <2>1, <2>3
    <2> QED BY <2>2, <2>3
<1>5. ASSUME NEW w \in Workers, Relocks(w) \/ UsesDestroyed(w) PROVE IInv'
    BY <1>5 DEF Relocks, UsesDestroyed, Crash, vars, streamerVars, teardownVars
<1>6. ASSUME NEW p \in Tracks, Reads(p) \/ EndsOnDestroyed(p) PROVE IInv'
    <2>1. UNCHANGED teardownVars
        BY <1>6 DEF Reads, EndsOnDestroyed, Crash
    <2>2. UNCHANGED active_chats
        BY <1>6 DEF Reads, EndsOnDestroyed, Crash, Reader, TrackEnds, Streamer!ReaderStep,
           Streamer!StreamEnds, Streamer!ReaderSpawns, Streamer!ReaderHolds,
           Streamer!ReaderHalts, Streamer!on_stream_eof, Streamer!callVars
    <2> QED BY <2>1, <2>2 DEF teardownVars
<1>7. ASSUME NEW c \in Chats, Advances(c) PROVE IInv'
    BY <1>7 DEF Advances, on_track_ended, Crash, teardownVars
<1>8. ASSUME NEW cmd \in Commands, NEW c \in Chats, Arrives(cmd, c) PROVE IInv'
    BY <1>8 DEF Arrives, dispatch_message, streamerVars, teardownVars
<1>9. ASSUME NEW w \in Workers, Checks(w) \/ Sleeps(w) \/ Wakes(w) PROVE IInv'
    BY <1>9 DEF Checks, Sleeps, Wakes, vars, streamerVars
<1> QED BY <1>0, <1>1, <1>2, <1>3, <1>4, <1>5, <1>6, <1>7, <1>8, <1>9 DEF TeardownNext

(***************************************************************************)
(* Once NTgCallsClient::shutdown() has ended the calls the bot is in none, *)
(* whatever the workers were doing when it came: a /play that had decided  *)
(* to join hangs in init() and does not bring a call back.                 *)
(***************************************************************************)
THEOREM ShutdownIsFinal == TeardownSpec => []NoCallAfterShutdown
<1>1. IInv => NoCallAfterShutdown
    BY DEF IInv, IsShut, NoCallAfterShutdown
<1> QED BY InitInv, InvStep, <1>1, PTL DEF TeardownSpec
=============================================================================
