----------------------------- MODULE Dispatcher -----------------------------
(***************************************************************************)
(* telegram::CommandDispatcher (src/telegram/dispatcher.cpp) on top of     *)
(* MongoClient, NTgCallsClient, AudioStreamer and the thread pool: the     *)
(* life of the playback of each chat, from the commands that arrive to the *)
(* audio that is read.                                                     *)
(*                                                                         *)
(* The pool is the FIFO queue that ThreadPool implements; admission counts *)
(* the tasks queued and running.  A worker that has taken a task runs its  *)
(* handler one step at a time; in a call of AudioStreamer it takes the     *)
(* steps of that module.  Commands that change nothing (queue, ping, help) *)
(* and what handlers send back to the chat are left out.                   *)
(***************************************************************************)
EXTENDS Integers, Sequences, FiniteSets, Functions

CONSTANTS Chats,
          Workers,        \* the threads of the pool
          Budget,         \* command -> how many of them arrive: bounds the model
          PoolCapacity,   \* max_queue_size_ of the pool
          Endless, SpawnMayFail, JoinMayFail

Commands == {"play", "skip", "stop", "pause", "resume"}

Tracks == 1 .. Budget["play"]   \* the n-th /play asks for track n

ASSUME DispatcherAssumption ==
    /\ Workers # {}
    /\ Budget \in [Commands -> Nat]
    /\ PoolCapacity \in Nat
    /\ Endless \subseteq Tracks

VARIABLES
    queues,                                                          \* MongoClient
    active_chats, paused_calls,                                      \* NTgCallsClient
    sessions, session, pipeline, call, detached, raced, crashed,     \* AudioStreamer
    pool,       \* the tasks waiting in the thread pool
    handler,    \* worker -> the task it runs and where its handler is
    issued,     \* command -> how many have arrived
    starts,     \* history: track -> how often its stream was started
    granted,    \* history: the reasons there were to start a track
    last        \* history: chat -> the last /play, /skip or /stop accepted for it

DB == INSTANCE MongoClient
Streamer == INSTANCE AudioStreamer WITH Threads <- Workers
NTg == INSTANCE NTgCallsClient

streamerVars == <<active_chats, paused_calls, sessions, session, pipeline, call, detached,
                  raced, crashed>>
historyVars == <<starts, granted, last>>
vars == <<queues, streamerVars, pool, handler, issued, historyVars>>

Idle == [pc |-> "idle", cmd |-> "none", chat |-> 0, track |-> 0]

Init ==
    /\ DB!Init
    /\ Streamer!Init
    /\ pool = <<>>
    /\ handler = [w \in Workers |-> Idle]
    /\ issued = [cmd \in Commands |-> 0]
    /\ starts = [t \in Tracks |-> 0]
    /\ granted = 0
    /\ last = [c \in Chats |-> "none"]

-----------------------------------------------------------------------------
(* the pool *)

Task(cmd, c, t) == [cmd |-> cmd, chat |-> c, track |-> t]

Busy == {w \in Workers : handler[w].pc # "idle"}

Saturated == Len(pool) + Cardinality(Busy) >= PoolCapacity

Up == crashed = "no"

-----------------------------------------------------------------------------
(* where tasks come from *)

\* Mutant of dispatch_message: nothing catches what a saturated pool throws.
DispatchUncaught(cmd, c) ==
    /\ Up /\ issued[cmd] < Budget[cmd]
    /\ issued' = [issued EXCEPT ![cmd] = @ + 1]
    /\ \/ Saturated /\ crashed' = "terminate" /\ UNCHANGED <<pool, last>>
       \/ /\ ~Saturated
          /\ pool' = Append(pool, Task(cmd, c, IF cmd = "play" THEN issued'[cmd] ELSE 0))
          /\ last' = IF cmd \in {"play", "skip", "stop"} THEN [last EXCEPT ![c] = cmd] ELSE last
          /\ UNCHANGED crashed
    /\ UNCHANGED <<queues, active_chats, paused_calls, sessions, session, pipeline, call,
                   detached, raced, handler, starts, granted>>

\* dispatch_message, for a command that the rate limiter lets through.  A saturated
\* pool throws and the command is shed.
dispatch_message(cmd, c) ==
    /\ Up /\ issued[cmd] < Budget[cmd]
    /\ issued' = [issued EXCEPT ![cmd] = @ + 1]
    /\ \/ Saturated /\ UNCHANGED <<pool, last>>
       \/ /\ ~Saturated
          /\ pool' = Append(pool, Task(cmd, c, IF cmd = "play" THEN issued'[cmd] ELSE 0))
          /\ last' = IF cmd \in {"play", "skip", "stop"} THEN [last EXCEPT ![c] = cmd] ELSE last
    /\ UNCHANGED <<queues, streamerVars, handler, starts, granted>>

\* The callback of init on a detached thread: it enqueues play_next_in_queue.
\* Nothing there catches what a saturated pool throws.
on_track_ended(c) ==
    /\ Up /\ detached[c] > 0
    /\ \/ /\ Saturated
          /\ crashed' = "terminate"
          /\ UNCHANGED <<pool, detached>>
       \/ /\ ~Saturated
          /\ pool' = Append(pool, Task("next", c, 0))
          /\ detached' = [detached EXCEPT ![c] = @ - 1]
          /\ UNCHANGED crashed
    /\ UNCHANGED <<queues, active_chats, paused_calls, sessions, session, pipeline, call, raced,
                   handler, issued, historyVars>>

-----------------------------------------------------------------------------
(* the handlers *)

At(w, pc) == handler[w].pc = pc
Goto(w, pc) == handler' = [handler EXCEPT ![w].pc = pc]
Return(w) == handler' = [handler EXCEPT ![w] = Idle]

\* A call of AudioStreamer; the handler goes on at pc when it returns.
CallStreamer(w, op, c, t, pc) ==
    /\ Streamer!Begin(w, op, c, t)
    /\ handler' = [handler EXCEPT ![w].pc = pc, ![w].track = t]

execute_command(w) ==
    /\ Up /\ At(w, "idle") /\ pool # <<>>
    /\ pool' = Tail(pool)
    /\ LET task == Head(pool)
           first == CASE task.cmd = "play" -> "play_check"
                      [] task.cmd = "skip" -> "skip_check"
                      [] task.cmd = "next" -> "pop"
                      [] task.cmd = "stop" -> "clear"
                      [] OTHER -> "await"
       IN  /\ handler' = [handler EXCEPT ![w] =
                 [pc |-> first, cmd |-> task.cmd, chat |-> task.chat, track |-> task.track]]
           /\ IF task.cmd \in {"pause", "resume"}
              THEN Streamer!Begin(w, task.cmd, task.chat, 0)
              ELSE UNCHANGED call
    /\ UNCHANGED <<queues, active_chats, paused_calls, sessions, session, pipeline, detached,
                   raced, crashed, issued, historyVars>>

\* handle_play: get_state, then join and play, or queue.
PlayCheck(w) ==
    /\ Up /\ At(w, "play_check") /\ Streamer!SessionsFree
    /\ Goto(w, IF Streamer!get_state(handler[w].chat) = "Idle" THEN "join" ELSE "enqueue")
    /\ UNCHANGED <<queues, streamerVars, pool, issued, historyVars>>

PlayNow(w) ==
    /\ Up /\ At(w, "join")
    /\ NTg!join_group_call(handler[w].chat)
    /\ CallStreamer(w, "play", handler[w].chat, handler[w].track, "await")
    /\ granted' = granted + 1
    /\ UNCHANGED <<queues, sessions, session, pipeline, detached, raced, crashed, pool, issued,
                   starts, last>>

PlayLater(w) ==
    /\ Up /\ At(w, "enqueue")
    /\ DB!enqueue_track(handler[w].chat, handler[w].track)
    /\ Return(w)
    /\ UNCHANGED <<streamerVars, pool, issued, historyVars>>

\* handle_skip: nothing to skip, or on to play_next_in_queue.
SkipCheck(w) ==
    /\ Up /\ At(w, "skip_check") /\ Streamer!SessionsFree
    /\ \/ /\ Streamer!get_state(handler[w].chat) = "Idle"
          /\ Return(w)
          /\ UNCHANGED granted
       \/ /\ Streamer!get_state(handler[w].chat) # "Idle"
          /\ Goto(w, "pop")
          /\ granted' = granted + 1
    /\ UNCHANGED <<queues, streamerVars, pool, issued, starts, last>>

\* play_next_in_queue: play the head of the queue, or stop and leave.
PopNext(w) ==
    /\ Up /\ At(w, "pop") /\ DB!has_next_track(handler[w].chat)
    /\ CallStreamer(w, "play", handler[w].chat, DB!next_track(handler[w].chat), "await")
    /\ DB!pop_next_track(handler[w].chat)
    /\ UNCHANGED <<active_chats, paused_calls, sessions, session, pipeline, detached, raced,
                   crashed, pool, issued, historyVars>>

PopNone(w) ==
    /\ Up /\ At(w, "pop") /\ ~DB!has_next_track(handler[w].chat)
    /\ CallStreamer(w, "stop", handler[w].chat, 0, "await_leave")
    /\ UNCHANGED <<queues, active_chats, paused_calls, sessions, session, pipeline, detached,
                   raced, crashed, pool, issued, historyVars>>

\* Mutant of ClearQueue: stops without clearing.
ClearNothing(w) ==
    /\ Up /\ At(w, "clear")
    /\ CallStreamer(w, "stop", handler[w].chat, 0, "await_leave")
    /\ UNCHANGED <<queues, active_chats, paused_calls, sessions, session, pipeline, detached,
                   raced, crashed, pool, issued, historyVars>>

\* handle_stop
ClearQueue(w) ==
    /\ Up /\ At(w, "clear")
    /\ DB!clear_queue(handler[w].chat)
    /\ CallStreamer(w, "stop", handler[w].chat, 0, "await_leave")
    /\ UNCHANGED <<active_chats, paused_calls, sessions, session, pipeline, detached, raced,
                   crashed, pool, issued, historyVars>>

\* The call has returned, or has thrown: the exception ends the task.
Await(w) ==
    /\ Up
    /\ At(w, "await") \/ (At(w, "await_leave") /\ call[w].threw)
    /\ Streamer!Done(w)
    /\ call' = [call EXCEPT ![w] = Streamer!NoCall]
    /\ Return(w)
    /\ UNCHANGED <<queues, active_chats, paused_calls, sessions, session, pipeline, detached,
                   raced, crashed, pool, issued, historyVars>>

LeaveCall(w) ==
    /\ Up /\ At(w, "await_leave") /\ Streamer!Done(w) /\ ~call[w].threw
    /\ NTg!leave_group_call(handler[w].chat)
    /\ call' = [call EXCEPT ![w] = Streamer!NoCall]
    /\ Return(w)
    /\ UNCHANGED <<queues, sessions, session, pipeline, detached, raced, crashed, pool, issued,
                   historyVars>>

\* The steps of a call of AudioStreamer; Launch starts a stream.
InStreamer(w) ==
    /\ Up /\ Streamer!CallStep(w)
    /\ starts' = IF call[w].pc = "launch" /\ call'[w].pc = "playing"
                 THEN [starts EXCEPT ![call[w].track] = @ + 1] ELSE starts
    /\ UNCHANGED <<queues, pool, handler, issued, granted, last>>

Reader(p) ==
    /\ Up /\ Streamer!ReaderStep(p)
    /\ UNCHANGED <<queues, pool, handler, issued, historyVars>>

TrackEnds(p) ==
    /\ Up /\ Streamer!StreamEnds(p)
    /\ granted' = granted + 1
    /\ UNCHANGED <<queues, pool, handler, issued, starts, last>>

-----------------------------------------------------------------------------
HandlerStep(w) ==
    \/ execute_command(w) \/ PlayCheck(w) \/ PlayNow(w) \/ PlayLater(w) \/ SkipCheck(w)
    \/ PopNext(w) \/ PopNone(w) \/ ClearQueue(w) \/ Await(w) \/ LeaveCall(w) \/ InStreamer(w)

\* Nothing is on its way any more; a stream may be playing.
Quiescent ==
    /\ pool = <<>>
    /\ Busy = {}
    /\ \A c \in Chats : detached[c] = 0
    /\ \A p \in Tracks : pipeline[p].reader \notin {"starting", "ending"}

\* The process is down, or waits for the next command.
Rest == (~Up \/ Quiescent) /\ UNCHANGED vars

Next ==
    \/ \E cmd \in Commands, c \in Chats : dispatch_message(cmd, c)
    \/ \E c \in Chats : on_track_ended(c)
    \/ \E w \in Workers : HandlerStep(w)
    \/ \E p \in Tracks : Reader(p) \/ TrackEnds(p)
    \/ Rest

Spec == Init /\ [][Next]_vars

(***************************************************************************)
(* Every thread that can run runs.  Nothing obliges commands to arrive or  *)
(* a stream to end.                                                        *)
(***************************************************************************)
Fairness ==
    /\ \A w \in Workers : WF_vars(HandlerStep(w))
    /\ \A c \in Chats : WF_vars(on_track_ended(c))
    /\ \A p \in Tracks : WF_vars(Reader(p))

FairSpec == Spec /\ Fairness

(***************************************************************************)
(* The behaviours in which the handlers of a chat take turns, while those  *)
(* of different chats run side by side on the workers.  The code does not  *)
(* see to it: what holds of TurnsSpec and not of Spec is what the code     *)
(* owes to a lock, or a queue, per chat, and can only go wrong after two   *)
(* handlers of one chat have overlapped.  With one worker they never do.   *)
(***************************************************************************)
TakeTurns == \A v, w \in Workers :
    v # w /\ ~At(v, "idle") /\ ~At(w, "idle") => handler[v].chat # handler[w].chat

TurnsSpec == Init /\ [][Next /\ TakeTurns']_vars

-----------------------------------------------------------------------------
TypeOK ==
    /\ queues \in [Chats -> Seq(Tracks)]
    /\ active_chats \subseteq Chats /\ paused_calls \subseteq Chats
    /\ sessions \in [Chats -> Tracks \cup {Streamer!None}]
    /\ \A s \in Tracks : /\ session[s].state \in {"Idle", "Buffering", "Playing", "Paused"}
                         /\ session[s].pipeline \in Tracks \cup {Streamer!None}
    /\ \A p \in Tracks : /\ pipeline[p].object \in {"none", "live", "destroyed"}
                         /\ pipeline[p].reader \in
                               {"none", "starting", "reading", "held", "ending", "exited"}
    /\ detached \in [Chats -> Nat]
    /\ crashed \in {"no", "memory", "terminate"}
    /\ raced \in BOOLEAN
    /\ issued \in [Commands -> Nat]
    /\ starts \in [Tracks -> Nat]
    /\ last \in [Chats -> {"none", "play", "skip", "stop"}]

\* How far a track has come, read off the pool, the handlers and the queues.
TrackStatus(t) ==
    CASE starts[t] > 0 -> "started"
      [] starts[t] = 0 /\ \E w \in Workers : At(w, "await") /\ handler[w].track = t -> "taken"
      [] \E c \in Chats : t \in Range(queues[c]) -> "queued"
      [] \/ \E task \in Range(pool) : task.track = t
         \/ \E w \in Workers : /\ handler[w].track = t
                                /\ handler[w].pc \in {"play_check", "join", "enqueue"} -> "asked"
      [] t > issued["play"] -> "new"
      [] OTHER -> "dropped"

(***************************************************************************)
(* Whatever the interleaving of handlers, readers and detached threads, a  *)
(* requested track is played at once or queued, leaves the queue in FIFO   *)
(* order, once, and its stream is started at most once.                    *)
(***************************************************************************)
Requests == INSTANCE Playlist WITH queue <- queues, status <- [t \in Tracks |-> TrackStatus(t)]

ImplementsPlaylist == Requests!Spec

(***************************************************************************)
(* A reader thread holds `this` of its pipeline and the raw pointer        *)
(* &session->volume.  As long as no two calls of AudioStreamer have worked *)
(* on one session at the same time, neither object goes away while the     *)
(* reader runs, in whatever order play, stop and the end of streams come.  *)
(***************************************************************************)
ReadersOwnLiveObjects ==
    ~raced => \A p \in Tracks : pipeline[p].reader \notin {"none", "exited"} =>
                 /\ pipeline[p].object = "live"
                 /\ Streamer!Alive(pipeline[p].volume)

(***************************************************************************)
(* AudioStreamer uses a pipeline as PcmStream, which FFmpegPipeline        *)
(* implements, allows it: as long as no two calls have shared a session,   *)
(* whatever launches, pauses, stops and joins of several workers meet in   *)
(* one pipeline, it is launched only when its last reader has been joined, *)
(* and its reader makes only the moves that the pipeline promises.         *)
(***************************************************************************)
Contract == INSTANCE PcmStream WITH
    Pipelines <- Tracks,
    running <- [p \in Tracks |-> pipeline[p].running],
    paused <- [p \in Tracks |-> pipeline[p].paused],
    reader <- [p \in Tracks |-> pipeline[p].reader]

UsesPcmStream == [][~raced' => Contract!Next \/ UNCHANGED Contract!vars]_vars

(***************************************************************************)
(* Who waits for whom: a call for sessions_mutex_, which the calls of      *)
(* pause and resume hold, or in a join for a reader; a worker for a task;  *)
(* a reader for the end of its stream, or, in on_stream_eof, for           *)
(* sessions_mutex_.                                                        *)
(***************************************************************************)
WaitsForSessions(w) ==
    /\ ~Streamer!SessionsFree
    /\ \/ At(w, "play_check") \/ At(w, "skip_check")
       \/ call[w].pc \in {"lookup", "erase", "pause", "resume"}

WaitsForReader(w) == call[w].pc \in {"join", "destroy"} /\ Streamer!ReaderActive(call[w].p)

Waits(w) == \/ At(w, "idle") /\ pool = <<>>
            \/ WaitsForSessions(w) \/ WaitsForReader(w)

ReaderWaits(p) ==
    \/ pipeline[p].reader \in {"none", "exited"}
    \/ pipeline[p].reader \in {"reading", "held"} /\ pipeline[p].running
    \/ pipeline[p].reader = "ending" /\ ~Streamer!SessionsFree

(***************************************************************************)
(* As long as no two calls have shared a session, nobody waits in vain,    *)
(* however many workers there are: the reader that a join waits for has    *)
(* seen, or will see, that it is to end, and waits at most for             *)
(* sessions_mutex_, whose holder waits for nothing; so when everybody      *)
(* waits, the process is at rest.                                          *)
(***************************************************************************)
NobodyWaitsInVain ==
    Up /\ ~raced =>
        /\ \A w \in Workers : WaitsForReader(w) =>
               ~ReaderWaits(call[w].p) \/ ~Streamer!SessionsFree
        /\ /\ \A w \in Workers : Waits(w)
           /\ \A p \in Tracks : ReaderWaits(p)
           /\ \A c \in Chats : detached[c] = 0
           => Quiescent

(***************************************************************************)
(* A destroyed or null pipeline is used only after two calls have worked   *)
(* on one session at the same time: readers and their EOF callbacks alone  *)
(* never cause it, however many workers there are.                         *)
(***************************************************************************)
MemoryErrorsNeedARace == crashed = "memory" => raced

(***************************************************************************)
(* With one worker: handlers return, readers end, every end of a track is  *)
(* handed on to a worker, and the process comes to rest, with at most a    *)
(* stream playing, unless a saturated pool has brought it down.  The join  *)
(* of a reader inside stop() and on_stream_eof waiting for sessions_mutex_ *)
(* could deadlock here, and a paused reader could be waited for in vain.   *)
(* (With two workers a pipeline can be started between the stop() of       *)
(* another call and its join, which then waits as long as the stream       *)
(* lasts, for ever when it is paused.)                                     *)
(***************************************************************************)
ComesToRest == <>[](Quiescent \/ ~Up)

Reading(p, c) == pipeline[p].reader \in {"reading", "held"} /\ pipeline[p].chat = c

(***************************************************************************)
(* "Hook track end callback to auto-play next track in queue": when all is *)
(* quiet, a chat has tracks waiting only if one is playing.  Holds as long *)
(* as the handlers of a chat take turns; fails when two of them overlap.   *)
(***************************************************************************)
NoStrandedTrack ==
    Quiescent /\ Up =>
        \A c \in Chats : queues[c] # <<>> => \E p \in Tracks : Reading(p, c)

(***************************************************************************)
(* A stream that cannot be started (pipe() or fork() fails) leaves its     *)
(* session Playing, and nobody advances the queue.  As long as the         *)
(* handlers of a chat take turns that is the worst: whatever has failed,   *)
(* when all is quiet a chat is not Idle while tracks wait for it, so that  *)
(* a /skip, which does nothing when the chat is Idle, still gets at them,  *)
(* and a /play queues behind them.                                         *)
(***************************************************************************)
SkipCanAdvance ==
    Quiescent /\ Up =>
        \A c \in Chats : queues[c] # <<>> => Streamer!get_state(c) # "Idle"

(***************************************************************************)
(* When the handlers of a chat take turns and all is quiet, get_state      *)
(* tells the truth.  A mapped session is Playing or Paused, its pipeline   *)
(* is being read and paused accordingly; and no stream is read outside the *)
(* mapped session.                                                         *)
(***************************************************************************)
SessionTellsTruth ==
    Quiescent /\ Up =>
        /\ \A c \in Chats : sessions[c] # Streamer!None =>
              LET s == session[sessions[c]]
              IN  /\ s.pipeline # Streamer!None /\ Reading(s.pipeline, c)
                  /\ s.state = IF pipeline[s.pipeline].paused THEN "Paused" ELSE "Playing"
        /\ \A p \in Tracks, c \in Chats : Reading(p, c) =>
              sessions[c] # Streamer!None /\ session[sessions[c]].pipeline = p

(***************************************************************************)
(* With handlers that take turns and calls that can be joined: when all is *)
(* quiet, audio is read for exactly the chats whose voice call the bot is  *)
(* in.                                                                     *)
(***************************************************************************)
InCallWhilePlaying ==
    Quiescent /\ Up =>
        \A c \in Chats : c \in active_chats <=> \E p \in Tracks : Reading(p, c)

(***************************************************************************)
(* As long as no two calls have shared a session, nothing ends the process *)
(* but a detached thread whose on_track_ended finds the pool full: enqueue *)
(* throws, and nobody there catches.  No pipeline is used after free, no   *)
(* running thread is assigned to, and no thread is joined twice, however   *)
(* the ends of streams meet play and stop, on any number of workers.       *)
(***************************************************************************)
OnlyAFullPoolCrashes ==
    [][crashed' # crashed =>
          raced \/ (Saturated /\ \E c \in Chats : on_track_ended(c))]_vars

(***************************************************************************)
(* "Skip to the next song in the MongoDB queue": a stream starts because   *)
(* a /play found the chat idle, a /skip found it playing, or a stream came *)
(* to its end; each of these starts one.  Fails: the track that is skipped *)
(* ends too, and advances the queue again.                                 *)
(***************************************************************************)
SkipAdvancesOneTrack == Cardinality({t \in Tracks : starts[t] > 0}) <= granted

(***************************************************************************)
(* "Stop playback, clear queue, and leave voice chat": when the last of    *)
(* the commands /play, /skip and /stop was a /stop, the chat ends up       *)
(* silent, with an empty queue and out of the call.  Holds as long as the  *)
(* handlers of a chat take turns; when two of them overlap, the one that   *)
(* is under way plays after the /stop.                                     *)
(***************************************************************************)
StopSilences ==
    Quiescent /\ Up =>
        \A c \in Chats : last[c] = "stop" =>
            /\ \A p \in Tracks : ~Reading(p, c)
            /\ queues[c] = <<>>
            /\ c \notin active_chats
=============================================================================
