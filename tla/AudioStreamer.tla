--------------------------- MODULE AudioStreamer ---------------------------
(***************************************************************************)
(* audio::AudioStreamer (src/audio/audio_streamer.cpp).  Of a pipeline it  *)
(* relies on what PcmStream promises and FFmpegPipeline implements: the    *)
(* steps of a reader below are those of PcmStream.                         *)
(*                                                                         *)
(* play, stop, pause and resume are called by several threads at once.     *)
(* sessions_mutex_ covers only the lookup in the map; what a call then     *)
(* does to the session and to its pipeline it does without a lock, one     *)
(* step of this module per access that another thread can see.  Objects of *)
(* the heap (sessions and pipelines) are named by the track of the call of *)
(* play that allocates them: each call of play has a track of its own.     *)
(*                                                                         *)
(* Undefined behaviour: using a null or destroyed pipeline stops the       *)
(* process ("memory"), or, for destroyed memory that still holds its last  *)
(* contents, does nothing; joining a thread that another thread is joining *)
(* throws; assigning to a joinable std::thread terminates.                 *)
(***************************************************************************)
EXTENDS Integers, Sequences, FiniteSets

CONSTANTS Chats,
          Threads,        \* the threads that call the operations
          Tracks,         \* positive numbers
          Endless,        \* tracks that do not end while the model runs (radio)
          SpawnMayFail,   \* whether pipe() or fork() can fail
          JoinMayFail

None == 0   \* no track, no session, no pipeline

VARIABLES sessions,      \* sessions_: chat -> its session, or None
          session,       \* the ChatSession objects: state and pipeline
          pipeline,      \* the FFmpegPipeline objects, each with its reader thread
          call,          \* thread -> the call of an operation it is in
          detached,      \* chat -> detached threads about to call on_track_ended_
          raced,         \* history: two calls have shared a session
          crashed,       \* "no", "memory" or "terminate"
          active_chats, paused_calls

NTg == INSTANCE NTgCallsClient

vars == <<sessions, session, pipeline, call, detached, raced, crashed,
          active_chats, paused_calls>>
callVars == <<active_chats, paused_calls>>

NoCall == [op |-> "none", pc |-> "none", chat |-> None, track |-> None,
           s |-> None, p |-> None, next |-> "none", threw |-> FALSE]

NoPipeline == [object |-> "none", running |-> FALSE, paused |-> FALSE, reader |-> "none",
               track |-> None, chat |-> None, volume |-> None]

Init ==
    /\ sessions = [c \in Chats |-> None]
    /\ session = [s \in Tracks |-> [state |-> "Idle", pipeline |-> None]]
    /\ pipeline = [p \in Tracks |-> NoPipeline]
    /\ call = [w \in Threads |-> NoCall]
    /\ detached = [c \in Chats |-> 0]
    /\ raced = FALSE
    /\ crashed = "no"
    /\ NTg!Init

-----------------------------------------------------------------------------
(* What the steps are made of. *)

\* sessions_mutex_ is held across steps only by pause and resume.
SessionsFree == \A w \in Threads : call[w].pc \notin {"pause_apply", "resume_apply"}

get_state(c) == IF sessions[c] = None THEN "Idle" ELSE session[sessions[c]].state

\* A ChatSession lives while the map or a call holds a shared_ptr to it.
Alive(s) == \/ \E c \in Chats : sessions[c] = s
            \/ \E w \in Threads : call[w].s = s

\* Mutant of ReaderActive: a join would wait for the loop, not for the callback
\* at its end.
ReaderLoops(p) == pipeline[p].reader \in {"starting", "reading", "held"}

\* The thread has been started and has not returned.
ReaderActive(p) == pipeline[p].reader \in {"starting", "reading", "held", "ending"}

\* if (joinable()) join(), for a reader that has returned or was never started.
Joined(reader) == IF reader = "exited" THEN "none" ELSE reader

Begin(w, op, c, track) ==
    call' = [call EXCEPT ![w] = [NoCall EXCEPT !.op = op, !.chat = c, !.track = track,
                                               !.pc = CASE op = "play" -> "lookup"
                                                        [] op = "stop" -> "erase"
                                                        [] OTHER -> op]]

Done(w) == call[w].pc = "done"

Go(w, pc) == call' = [call EXCEPT ![w].pc = pc]

\* The pipeline of the session the call works on.
Current(w) == session[call[w].s].pipeline

MemoryError == /\ crashed' = "memory"
               /\ UNCHANGED <<sessions, session, pipeline, call, detached, raced, callVars>>

\* The pointer that was tested, or the one that is there now: a compiler may load
\* it once or twice.
Loaded(w) == {call[w].p, Current(w)}

AfterReset(w) == IF call[w].op = "play" THEN "assign" ELSE "idle"

\* Two calls are now at work on the same session, and nothing orders them.
NoteRace(w, s) == raced' = (raced \/ (s # None /\ \E v \in Threads \ {w} : call[v].s = s))

-----------------------------------------------------------------------------
(* play *)

Lookup(w) ==
    /\ call[w].pc = "lookup" /\ SessionsFree
    /\ LET c == call[w].chat
           s == IF sessions[c] = None THEN call[w].track ELSE sessions[c]
       IN  /\ sessions' = [sessions EXCEPT ![c] = s]
           /\ call' = [call EXCEPT ![w].pc = "inspect", ![w].s = s]
           /\ NoteRace(w, s)
    /\ UNCHANGED <<session, pipeline, detached, crashed, callVars>>

\* if (session->pipeline), in play and in stop
Inspect(w) ==
    /\ call[w].pc = "inspect"
    /\ \/ /\ Current(w) # None
          /\ call' = [call EXCEPT ![w].pc = "halt", ![w].p = Current(w)]
       \/ /\ Current(w) = None
          /\ Go(w, AfterReset(w))
    /\ UNCHANGED <<sessions, session, pipeline, detached, raced, crashed, callVars>>

\* Mutant of Halt: is_running_ is left set.
HaltKeepsRunning(w) ==
    /\ call[w].pc = "halt"
    /\ call' = [call EXCEPT ![w].pc = "join", ![w].next = "reset"]
    /\ UNCHANGED <<sessions, session, pipeline, detached, raced, crashed, callVars>>

\* session->pipeline->stop(), up to the join
Halt(w) ==
    /\ call[w].pc = "halt"
    /\ \/ /\ None \in Loaded(w)
          /\ MemoryError
       \/ \E p \in Loaded(w) \ {None} :
             /\ pipeline' = [pipeline EXCEPT ![p].running = FALSE]
             /\ call' = [call EXCEPT ![w].pc = "join", ![w].p = p, ![w].next = "reset"]
             /\ UNCHANGED <<sessions, session, detached, raced, crashed, callVars>>

\* if (worker_thread_.joinable()) worker_thread_.join()
Join(w) ==
    /\ call[w].pc = "join"
    /\ ~ReaderActive(call[w].p)
    /\ Go(w, call[w].next)
    /\ pipeline' = [pipeline EXCEPT ![call[w].p].reader = Joined(@)]
    /\ UNCHANGED <<sessions, session, detached, raced, crashed, callVars>>

\* The object was destroyed while this call was in its stop().
JoinOfDestroyed(w) ==
    /\ call[w].pc = "join"
    /\ pipeline[call[w].p].object = "destroyed"
    /\ MemoryError

\* Another thread is waiting in the join of the same reader.
JoinedElsewhere(w) ==
    /\ ReaderActive(call[w].p)
    /\ \E v \in Threads \ {w} : call[v].pc \in {"join", "destroy"} /\ call[v].p = call[w].p

\* The second join throws std::system_error, and the call unwinds.
JoinThrows(w) ==
    /\ call[w].pc = "join"
    /\ JoinedElsewhere(w)
    /\ call' = [call EXCEPT ![w].pc = "release", ![w].threw = TRUE]
    /\ UNCHANGED <<sessions, session, pipeline, detached, raced, crashed, callVars>>

\* session->pipeline.reset() reads the pointer, stores null, and deletes what it read.
Reset(w) ==
    /\ call[w].pc = "reset"
    /\ call' = [call EXCEPT ![w].pc = "clear", ![w].p = Current(w)]
    /\ UNCHANGED <<sessions, session, pipeline, detached, raced, crashed, callVars>>

\* The destructor of what a pointer held before calls stop() once more.
Delete(w, next) ==
    \/ /\ call[w].p = None
       /\ Go(w, next)
       /\ UNCHANGED pipeline
    \/ /\ call[w].p # None
       /\ pipeline' = [pipeline EXCEPT ![call[w].p].running = FALSE]
       /\ call' = [call EXCEPT ![w].pc = "destroy", ![w].next = next]

\* Mutant of Clear: deletes the object and keeps the pointer.
ClearKeepsPointer(w) ==
    /\ call[w].pc = "clear"
    /\ Delete(w, AfterReset(w))
    /\ UNCHANGED <<sessions, session, detached, raced, crashed, callVars>>

Clear(w) ==
    /\ call[w].pc = "clear"
    /\ session' = [session EXCEPT ![call[w].s].pipeline = None]
    /\ Delete(w, AfterReset(w))
    /\ UNCHANGED <<sessions, detached, raced, crashed, callVars>>

\* ~FFmpegPipeline: its stop() joins the reader, then the object is gone.
Destroy(w) ==
    /\ call[w].pc = "destroy" /\ pipeline[call[w].p].object = "live"
    /\ ~ReaderActive(call[w].p)
    /\ pipeline' = [pipeline EXCEPT ![call[w].p].object = "destroyed",
                                    ![call[w].p].reader = Joined(@)]
    /\ Go(w, call[w].next)
    /\ UNCHANGED <<sessions, session, detached, raced, crashed, callVars>>

\* Two calls delete the same object.
DestroyedTwice(w) ==
    /\ call[w].pc = "destroy" /\ pipeline[call[w].p].object = "destroyed"
    /\ MemoryError

\* In a destructor the exception of the second join ends the process.
DestroyThrows(w) ==
    /\ call[w].pc = "destroy"
    /\ JoinedElsewhere(w)
    /\ crashed' = "terminate"
    /\ UNCHANGED <<sessions, session, pipeline, call, detached, raced, callVars>>

Assign(w) ==
    /\ call[w].pc = "assign"
    /\ session' = [session EXCEPT ![call[w].s].state = "Buffering"]
    /\ Go(w, "create")
    /\ UNCHANGED <<sessions, pipeline, detached, raced, crashed, callVars>>

\* session->pipeline = std::make_unique<FFmpegPipeline>() reads the old pointer,
\* stores the new one, and deletes what it read: something that only another call
\* can have put there.
Create(w) ==
    /\ call[w].pc = "create"
    /\ pipeline' = [pipeline EXCEPT ![call[w].track] = [NoPipeline EXCEPT !.object = "live"]]
    /\ call' = [call EXCEPT ![w].pc = "install", ![w].p = Current(w)]
    /\ UNCHANGED <<sessions, session, detached, raced, crashed, callVars>>

Install(w) ==
    /\ call[w].pc = "install"
    /\ session' = [session EXCEPT ![call[w].s].pipeline = call[w].track]
    /\ Delete(w, "start")
    /\ UNCHANGED <<sessions, detached, raced, crashed, callVars>>

\* session->pipeline->start(): a pipeline that runs already is stopped first.
Start(w) ==
    /\ call[w].pc = "start"
    /\ \/ /\ Current(w) = None
          /\ MemoryError
       \/ /\ Current(w) # None
          /\ pipeline[Current(w)].running
          /\ pipeline' = [pipeline EXCEPT ![Current(w)].running = FALSE]
          /\ call' = [call EXCEPT ![w].pc = "join", ![w].p = Current(w), ![w].next = "launch"]
          /\ UNCHANGED <<sessions, session, detached, raced, crashed, callVars>>
       \/ /\ Current(w) # None
          /\ ~pipeline[Current(w)].running
          /\ call' = [call EXCEPT ![w].pc = "launch", ![w].p = Current(w)]
          /\ UNCHANGED <<sessions, session, pipeline, detached, raced, crashed, callVars>>

\* is_running_ = true and the reader thread; the callbacks it gets hold the chat
\* and a raw pointer to the volume of the session.
Launch(w) ==
    /\ call[w].pc = "launch"
    /\ LET p == call[w].p
       IN  \/ /\ pipeline[p].object = "destroyed"
              /\ MemoryError
           \/ /\ pipeline[p].object = "live" /\ pipeline[p].reader # "none"
              /\ crashed' = "terminate"
              /\ UNCHANGED <<sessions, session, pipeline, call, detached, raced, callVars>>
           \/ /\ pipeline[p].object = "live" /\ pipeline[p].reader = "none"
              /\ pipeline' = [pipeline EXCEPT ![p] =
                    [object |-> "live", running |-> TRUE, paused |-> FALSE,
                     reader |-> "starting", track |-> call[w].track,
                     chat |-> call[w].chat, volume |-> call[w].s]]
              /\ Go(w, "playing")
              /\ UNCHANGED <<sessions, session, detached, raced, crashed, callVars>>

Playing(w) ==
    /\ call[w].pc = "playing"
    /\ session' = [session EXCEPT ![call[w].s].state = "Playing"]
    /\ Go(w, "release")
    /\ UNCHANGED <<sessions, pipeline, detached, raced, crashed, callVars>>

\* The shared_ptr of the call goes; the last one destroys the session and with
\* it a pipeline that is still there.
Release(w) ==
    /\ call[w].pc = "release"
    /\ LET s == call[w].s
           last == /\ \A c \in Chats : sessions[c] # s
                   /\ \A v \in Threads \ {w} : call[v].s # s
       IN  \/ /\ ~last \/ Current(w) = None
              /\ call' = [call EXCEPT ![w].pc = "done", ![w].s = None, ![w].p = None]
              /\ UNCHANGED <<session, pipeline>>
           \/ /\ last /\ Current(w) # None
              /\ session' = [session EXCEPT ![s].pipeline = None]
              /\ pipeline' = [pipeline EXCEPT ![Current(w)].running = FALSE]
              /\ call' = [call EXCEPT ![w].pc = "destroy", ![w].p = Current(w),
                                      ![w].next = "release"]
    /\ UNCHANGED <<sessions, detached, raced, crashed, callVars>>

-----------------------------------------------------------------------------
(* stop *)

Erase(w) ==
    /\ call[w].pc = "erase" /\ SessionsFree
    /\ LET s == sessions[call[w].chat]
       IN  /\ sessions' = [sessions EXCEPT ![call[w].chat] = None]
           /\ call' = [call EXCEPT ![w].pc = IF s = None THEN "done" ELSE "inspect",
                                   ![w].s = s]
           /\ NoteRace(w, s)
    /\ UNCHANGED <<session, pipeline, detached, crashed, callVars>>

SetIdle(w) ==
    /\ call[w].pc = "idle"
    /\ session' = [session EXCEPT ![call[w].s].state = "Idle"]
    /\ Go(w, "leave")
    /\ UNCHANGED <<sessions, pipeline, detached, raced, crashed, callVars>>

Leave(w) ==
    /\ call[w].pc = "leave"
    /\ NTg!leave_group_call(call[w].chat)
    /\ Go(w, "release")
    /\ UNCHANGED <<sessions, session, pipeline, detached, raced, crashed>>

-----------------------------------------------------------------------------
(* pause and resume: sessions_mutex_ is held from the check to the end *)

Check(w, op, apply) ==
    /\ call[w].pc = op /\ SessionsFree
    /\ LET s == sessions[call[w].chat]
           playing == s # None /\ session[s].pipeline # None
       IN  \/ /\ ~playing
              /\ Go(w, "done")
              /\ UNCHANGED raced
           \/ /\ playing
              /\ call' = [call EXCEPT ![w].pc = apply, ![w].s = s, ![w].p = session[s].pipeline]
              /\ NoteRace(w, s)
    /\ UNCHANGED <<sessions, session, pipeline, detached, crashed, callVars>>

\* Mutant of Apply: the state of the session is not updated.
ApplyForgetsState(w, apply, paused, state) ==
    /\ call[w].pc = apply
    /\ \E p \in Loaded(w) \ {None} :
          pipeline' = [pipeline EXCEPT ![p].paused = paused]
    /\ IF paused THEN NTg!pause(call[w].chat) ELSE NTg!resume(call[w].chat)
    /\ call' = [call EXCEPT ![w].pc = "done", ![w].s = None, ![w].p = None]
    /\ UNCHANGED <<sessions, session, detached, raced, crashed>>

Apply(w, apply, paused, state) ==
    /\ call[w].pc = apply
    /\ \/ /\ Loaded(w) \cap {p \in Tracks : pipeline[p].object = "live"} # Loaded(w)
          /\ MemoryError
       \/ /\ \E p \in Loaded(w) \ {None} :
                pipeline' = [pipeline EXCEPT ![p].paused = paused]
          /\ session' = [session EXCEPT ![call[w].s].state = state]
          /\ IF paused THEN NTg!pause(call[w].chat) ELSE NTg!resume(call[w].chat)
          /\ call' = [call EXCEPT ![w].pc = "done", ![w].s = None, ![w].p = None]
          /\ UNCHANGED <<sessions, detached, raced, crashed>>

Pause(w) == Check(w, "pause", "pause_apply") \/ Apply(w, "pause_apply", TRUE, "Paused")
Resume(w) == Check(w, "resume", "resume_apply") \/ Apply(w, "resume_apply", FALSE, "Playing")

-----------------------------------------------------------------------------
(* the reader thread of a pipeline, and on_stream_eof *)

\* Mutant of ReaderSpawns: a failure makes the session Idle, and tells nobody.
FailureIsIdle(p) ==
    /\ pipeline[p].reader = "starting"
    /\ \/ /\ pipeline' = [pipeline EXCEPT ![p].reader = "reading"]
          /\ UNCHANGED session
       \/ /\ SpawnMayFail
          /\ pipeline' = [pipeline EXCEPT ![p].reader = "exited", ![p].running = FALSE]
          /\ session' = [session EXCEPT ![pipeline[p].volume].state = "Idle"]
    /\ UNCHANGED <<sessions, call, detached, raced, crashed, callVars>>

\* pipe() and fork(): when one fails the thread ends without calling on_eof.
ReaderSpawns(p) ==
    /\ pipeline[p].reader = "starting"
    /\ \/ pipeline' = [pipeline EXCEPT ![p].reader = "reading"]
       \/ /\ SpawnMayFail
          /\ pipeline' = [pipeline EXCEPT ![p].reader = "exited", ![p].running = FALSE]
    /\ UNCHANGED <<sessions, session, call, detached, raced, crashed, callVars>>

\* Mutant of StreamEnds: is_running_ is left set.
StreamEndsRunning(p) ==
    /\ pipeline[p].reader = "reading"
    /\ pipeline[p].running
    /\ pipeline[p].track \notin Endless
    /\ pipeline' = [pipeline EXCEPT ![p].reader = "ending"]
    /\ UNCHANGED <<sessions, session, call, detached, raced, crashed, callVars>>

\* The stream has been read to its end.  A pause is noticed between two frames
\* only: a read that is under way still may find the end.
StreamEnds(p) ==
    /\ pipeline[p].reader = "reading"
    /\ pipeline[p].running
    /\ pipeline[p].track \notin Endless
    /\ pipeline' = [pipeline EXCEPT ![p].reader = "ending", ![p].running = FALSE]
    /\ UNCHANGED <<sessions, session, call, detached, raced, crashed, callVars>>

\* Between two frames: sleep while paused, read on when not.
ReaderHolds(p) ==
    /\ pipeline[p].reader = IF pipeline[p].paused THEN "reading" ELSE "held"
    /\ pipeline' = [pipeline EXCEPT ![p].reader = IF @ = "reading" THEN "held" ELSE "reading"]
    /\ UNCHANGED <<sessions, session, call, detached, raced, crashed, callVars>>

\* stop() has cleared is_running_, and the reader sees it, paused or not.
ReaderHalts(p) ==
    /\ pipeline[p].reader \in {"reading", "held"} /\ ~pipeline[p].running
    /\ pipeline' = [pipeline EXCEPT ![p].reader = "ending"]
    /\ UNCHANGED <<sessions, session, call, detached, raced, crashed, callVars>>

\* Mutant of on_stream_eof: on_track_ended_ is not called.
EofTellsNobody(p) ==
    /\ pipeline[p].reader = "ending" /\ SessionsFree
    /\ LET c == pipeline[p].chat
       IN  session' = IF sessions[c] = None THEN session
                      ELSE [session EXCEPT ![sessions[c]].state = "Idle"]
    /\ pipeline' = [pipeline EXCEPT ![p].reader = "exited"]
    /\ UNCHANGED <<sessions, call, detached, raced, crashed, callVars>>

\* on_stream_eof: whatever session the chat has now becomes Idle, and a detached
\* thread will call on_track_ended_.  The reader does this after a stop() too.
on_stream_eof(p) ==
    /\ pipeline[p].reader = "ending" /\ SessionsFree
    /\ LET c == pipeline[p].chat
       IN  /\ session' = IF sessions[c] = None THEN session
                         ELSE [session EXCEPT ![sessions[c]].state = "Idle"]
           /\ detached' = [detached EXCEPT ![c] = @ + 1]
    /\ pipeline' = [pipeline EXCEPT ![p].reader = "exited"]
    /\ UNCHANGED <<sessions, call, raced, crashed, callVars>>

-----------------------------------------------------------------------------
CallStep(w) ==
    \/ Lookup(w) \/ Inspect(w) \/ Halt(w) \/ Join(w) \/ JoinOfDestroyed(w) \/ JoinThrows(w)
    \/ Reset(w) \/ Clear(w) \/ Destroy(w) \/ DestroyedTwice(w) \/ DestroyThrows(w) \/ Assign(w)
    \/ Create(w) \/ Install(w) \/ Start(w) \/ Launch(w) \/ Playing(w) \/ Release(w)
    \/ Erase(w) \/ SetIdle(w) \/ Leave(w) \/ Pause(w) \/ Resume(w)

ReaderStep(p) == ReaderSpawns(p) \/ ReaderHolds(p) \/ ReaderHalts(p) \/ on_stream_eof(p)
=============================================================================
