------------------------------ MODULE Teardown ------------------------------
(***************************************************************************)
(* The end of main() (src/main.cpp) while the dispatcher is at work: both  *)
(* clients are stopped, the calls end, the store is cleared, and the       *)
(* static objects are destroyed in the reverse order of their              *)
(* construction: the AudioStreamer, the CommandDispatcher with its pool,   *)
(* the NTgCallsClient, the MongoClient.  Workers, readers and detached     *)
(* threads go on all the while.                                            *)
(*                                                                         *)
(* A use of the destroyed AudioStreamer or dispatcher counts as a crash:   *)
(* what such a process does after that is not modelled.                    *)
(***************************************************************************)
EXTENDS Dispatcher

VARIABLES main,          \* where the main thread is
          initialized,   \* of NTgCallsClient
          relocked,      \* the workers that locked its mutex a second time
          doomed,        \* chats whose sessions ~AudioStreamer has still to stop
          stopping,      \* the pipeline it is stopping
          gap,           \* the worker, if any, that goes to sleep on what it saw before stop_
          missed         \* the workers that fell asleep after the last notification

poolVars == <<gap, missed>>
destructorVars == <<doomed, stopping>>
teardownVars == <<main, initialized, relocked, destructorVars, poolVars>>
allVars == <<vars, teardownVars>>

TeardownInit == /\ Init
                /\ main = "live"
                /\ initialized = TRUE
                /\ relocked = {} /\ doomed = {} /\ stopping = Streamer!None
                /\ gap = {} /\ missed = {}

dispatchVars == <<pool, handler, issued, historyVars>>
Goes(from, to) == Up /\ main = from /\ main' = to

-----------------------------------------------------------------------------
(* the main thread *)

\* g_running is false; bot_client->stop() and assistant_client->stop() have returned.
StopClients == /\ Goes("live", "shutdown")
               /\ UNCHANGED <<vars, initialized, relocked, destructorVars, poolVars>>

\* NTgCallsClient::shutdown waits for the mutex.
ShutdownCalls == /\ Goes("shutdown", "disconnect")
                 /\ relocked = {}
                 /\ NTg!shutdown
                 /\ initialized' = FALSE
                 /\ UNCHANGED <<queues, sessions, session, pipeline, call, detached, raced, crashed,
                                dispatchVars, relocked, destructorVars, poolVars>>

Disconnect == /\ Goes("disconnect", "return")
              /\ DB!disconnect
              /\ UNCHANGED <<streamerVars, dispatchVars, initialized, relocked, destructorVars, poolVars>>

\* ~AudioStreamer takes sessions_mutex_ and keeps it until it has stopped every session.
LockSessions == /\ Goes("return", "streamer")
                /\ Streamer!SessionsFree
                /\ doomed' = {c \in Chats : sessions[c] # Streamer!None}
                /\ UNCHANGED <<vars, initialized, relocked, stopping, poolVars>>

\* Mutant of StopSession: is_running_ is left set.
StopKeepsRunning(c) ==
    /\ Goes("streamer", "streamer")
    /\ c \in doomed /\ stopping = Streamer!None
    /\ doomed' = doomed \ {c}
    /\ stopping' = session[sessions[c]].pipeline
    /\ raced' = (raced \/ \E w \in Workers : call[w].s = sessions[c])
    /\ UNCHANGED <<queues, active_chats, paused_calls, sessions, session, pipeline, call, detached,
                   crashed, dispatchVars, initialized, relocked, poolVars>>

\* session->pipeline->stop(), up to the join.  A call that looked the session up before
\* may be at work on it without a lock.
StopSession(c) ==
    /\ Goes("streamer", "streamer")
    /\ c \in doomed /\ stopping = Streamer!None
    /\ doomed' = doomed \ {c}
    /\ stopping' = session[sessions[c]].pipeline
    /\ pipeline' = IF stopping' = Streamer!None THEN pipeline
                   ELSE [pipeline EXCEPT ![stopping'].running = FALSE]
    /\ raced' = (raced \/ \E w \in Workers : call[w].s = sessions[c])
    /\ UNCHANGED <<queues, active_chats, paused_calls, sessions, session, call, detached,
                   crashed, dispatchVars, initialized, relocked, poolVars>>

\* A worker may be joining the same reader, which throws in this destructor, or may
\* have destroyed the pipeline.
JoinReader ==
    /\ stopping # Streamer!None
    /\ \/ /\ Goes("streamer", "streamer")
          /\ pipeline[stopping].object = "live"
          /\ ~Streamer!ReaderActive(stopping)
          /\ pipeline' = [pipeline EXCEPT ![stopping].reader = Streamer!Joined(@)]
          /\ stopping' = Streamer!None
          /\ UNCHANGED crashed
       \/ /\ Goes("streamer", "streamer")
          /\ \/ /\ pipeline[stopping].object = "destroyed"
                /\ crashed' = "memory"
             \/ /\ Streamer!ReaderActive(stopping)
                /\ \E w \in Workers : call[w].pc \in {"join", "destroy"} /\ call[w].p = stopping
                /\ crashed' = "terminate"
          /\ UNCHANGED <<pipeline, stopping>>
    /\ UNCHANGED <<queues, active_chats, paused_calls, sessions, session, call, detached, raced,
                   dispatchVars, initialized, relocked, doomed, poolVars>>

\* sessions_.clear() destroys what no call holds; its readers have been joined.
ClearSessions ==
    /\ Goes("streamer", "destroyed")
    /\ doomed = {} /\ stopping = Streamer!None
    /\ sessions' = [c \in Chats |-> Streamer!None]
    /\ UNCHANGED <<queues, active_chats, paused_calls, session, pipeline, call, detached, raced,
                   crashed, dispatchVars, initialized, relocked, destructorVars, poolVars>>

\* ~ThreadPool: stop_ is stored, and then everybody who sleeps is notified, both without
\* mutex_.
StopPool == /\ Goes("destroyed", "notify")
            /\ UNCHANGED <<vars, initialized, relocked, destructorVars, poolVars>>

NotifyWorkers == /\ Goes("notify", "drain")
                 /\ UNCHANGED <<vars, initialized, relocked, destructorVars, poolVars>>

\* Mutant of JoinWorkers: idle workers are not notified of stop_, and sleep on.
JoinsUnnotified == /\ Goes("drain", "joined")
                   /\ pool = <<>> /\ Busy = Workers
                   /\ UNCHANGED <<vars, initialized, relocked, destructorVars, poolVars>>

\* Each worker leaves when the queue is empty, unless it sleeps.
JoinWorkers == /\ Goes("drain", "joined")
               /\ pool = <<>> /\ Busy = {}
               /\ gap = {} /\ missed = {}
               /\ UNCHANGED <<vars, initialized, relocked, destructorVars, poolVars>>

\* ~NTgCallsClient finds nothing to shut down; then the process is gone.
Exit == /\ Goes("joined", "exited")
        /\ UNCHANGED <<vars, initialized, relocked, destructorVars, poolVars>>

MainStep == \/ ShutdownCalls \/ Disconnect \/ LockSessions \/ (\E c \in Chats : StopSession(c))
            \/ JoinReader \/ ClearSessions \/ StopPool \/ NotifyWorkers \/ JoinWorkers
            \/ Exit

-----------------------------------------------------------------------------
(* the other threads *)

\* ~AudioStreamer has the mutex; the object is gone.
SessionsHeld == main = "streamer"
StreamerGone == main \in {"destroyed", "notify", "drain", "joined"}

\* The next step of the worker locks sessions_mutex_.
WantsSessions(w) == \/ At(w, "play_check") \/ At(w, "skip_check")
                    \/ call[w].pc \in {"lookup", "erase", "pause", "resume"}

\* The next step of the worker locks the mutex of NTgCallsClient.
WantsCalls(w) == \/ At(w, "join")
                 \/ At(w, "await_leave") /\ Streamer!Done(w) /\ ~call[w].threw
                 \/ call[w].pc \in {"leave", "pause_apply", "resume_apply"}

Crash(how) == /\ crashed' = how
              /\ UNCHANGED <<queues, active_chats, paused_calls, sessions, session, pipeline, call,
                             detached, raced, dispatchVars, teardownVars>>

Works(w) == /\ main # "exited" /\ w \notin relocked
            /\ WantsSessions(w) => ~SessionsHeld /\ ~StreamerGone
            /\ WantsCalls(w) => relocked = {}
            /\ At(w, "join") => initialized
            /\ HandlerStep(w)
            /\ UNCHANGED teardownVars

\* join_group_call calls init() with the mutex locked, and init() locks it.
Relocks(w) == /\ Up /\ main # "exited"
              /\ At(w, "join") /\ ~initialized /\ relocked = {}
              /\ relocked' = {w}
              /\ UNCHANGED <<vars, main, initialized, destructorVars, poolVars>>

UsesDestroyed(w) == /\ Up /\ WantsSessions(w) /\ StreamerGone
                    /\ Crash("memory")

\* on_stream_eof locks sessions_mutex_.
Reads(p) == /\ main # "exited"
            /\ pipeline[p].reader = "ending" => ~SessionsHeld /\ ~StreamerGone
            /\ Reader(p) \/ TrackEnds(p)
            /\ UNCHANGED teardownVars

EndsOnDestroyed(p) == /\ Up /\ pipeline[p].reader = "ending" /\ StreamerGone
                      /\ Crash("memory")

\* An idle worker finds the predicate of cv_.wait false, and keeps mutex_ until it sleeps.
\* Who does so and is asleep before stop_ is stored is notified like everybody else.
Checks(w) == /\ Up /\ main = "destroyed"
             /\ At(w, "idle") /\ pool = <<>> /\ gap = {}
             /\ gap' = {w}
             /\ UNCHANGED <<vars, main, initialized, relocked, destructorVars, missed>>

Sleeps(w) == /\ Up /\ w \in gap
             /\ gap' = {}
             /\ missed' = IF main = "drain" THEN missed \cup {w} ELSE missed
             /\ UNCHANGED <<vars, main, initialized, relocked, destructorVars>>

\* A spurious wake-up: the worker sees stop_ after all.
Wakes(w) == /\ Up /\ w \in missed
            /\ missed' = missed \ {w}
            /\ UNCHANGED <<vars, main, initialized, relocked, destructorVars, gap>>

\* A detached thread: enqueue pushes under mutex_; a stopped pool throws, and after that the
\* dispatcher is gone.
PoolStopped == main \in {"notify", "drain"}

Advances(c) ==
    \/ /\ ~PoolStopped /\ main \notin {"joined", "exited"}
       /\ gap = {} \/ Saturated
       /\ on_track_ended(c)
       /\ UNCHANGED teardownVars
    \/ /\ Up /\ detached[c] > 0
       /\ PoolStopped \/ main = "joined"
       /\ Crash(IF PoolStopped THEN "terminate" ELSE "memory")

Arrives(cmd, c) == main = "live" /\ dispatch_message(cmd, c) /\ UNCHANGED teardownVars

TeardownNext ==
    \/ MainStep \/ StopClients
    \/ \E cmd \in Commands, c \in Chats : Arrives(cmd, c)
    \/ \E w \in Workers : \/ Works(w) \/ Relocks(w) \/ UsesDestroyed(w)
                         \/ Checks(w) \/ Sleeps(w) \/ Wakes(w)
    \/ \E p \in Tracks : Reads(p) \/ EndsOnDestroyed(p)
    \/ \E c \in Chats : Advances(c)

TeardownSpec == TeardownInit /\ [][TeardownNext]_allVars

(***************************************************************************)
(* Threads that can run run.  Nothing obliges a signal, a command, the end *)
(* of a stream, or a spurious wake-up.                                     *)
(***************************************************************************)
FairTeardown ==
    /\ TeardownSpec
    /\ WF_allVars(MainStep)
    /\ \A w \in Workers : WF_allVars(Works(w) \/ Relocks(w) \/ UsesDestroyed(w) \/ Sleeps(w))
    /\ \A p \in Tracks : WF_allVars((Reads(p) /\ ~TrackEnds(p)) \/ EndsOnDestroyed(p))
    /\ \A c \in Chats : WF_allVars(Advances(c))

-----------------------------------------------------------------------------
\* on_stream_eof waits for the mutex that ~AudioStreamer holds while it joins the reader.
JoinsUnderLock == SessionsHeld /\ \E p \in Tracks : pipeline[p].reader = "ending"

(***************************************************************************)
(* The process exits, or a thread uses what is destroyed or is refused by  *)
(* a pool, unless a /play that was under way locks the mutex of            *)
(* NTgCallsClient twice, ~AudioStreamer joins, with sessions_mutex_        *)
(* locked, a reader that has on_stream_eof still to run, it stops a        *)
(* session that a call of play is at work on, and the stream starts after  *)
(* all, or ~ThreadPool notifies while an idle worker is between the        *)
(* predicate and its sleep.  Nothing else keeps it: no paused reader, no   *)
(* task that is queued or running, no pause that holds sessions_mutex_.    *)
(***************************************************************************)
TeardownEnds ==
    main = "shutdown" ~> \/ main = "exited" \/ ~Up
                         \/ relocked # {} \/ JoinsUnderLock \/ raced \/ missed # {}

(***************************************************************************)
(* "All subsystems halted cleanly": a bot that has nothing under way when  *)
(* its clients have stopped exits, whatever tracks are left in the store   *)
(* and whatever sessions in the map, unless the notification of            *)
(* ~ThreadPool is lost: no lock, join or sleep in the other destructors    *)
(* keeps it, and a worker that was asleep, or looks for work afterwards,   *)
(* learns of the stop.                                                     *)
(***************************************************************************)
IdleBotExits ==
    /\ main = "shutdown" /\ Up /\ Quiescent
    /\ \A p \in Tracks : pipeline[p].reader \in {"none", "exited"}
    ~> main = "exited" \/ missed # {}

(***************************************************************************)
(* Once shutdown() has ended the calls the bot is in no call any more,     *)
(* although handlers go on: a join that comes later never returns.         *)
(***************************************************************************)
NoCallAfterShutdown == main \notin {"live", "shutdown"} => active_chats = {}
=============================================================================
