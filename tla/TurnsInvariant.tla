---------------------------- MODULE TurnsInvariant ----------------------------
(***************************************************************************)
(* What holds of Dispatcher besides IInv in the behaviours of TurnsSpec:   *)
(* the handlers of a chat take turns, those of different chats overlap as  *)
(* they like.  What a session, its reader and its call have to do with     *)
(* each other is then a matter of the chat alone (ChatInv), whose calls    *)
(* meet other threads only through the ends of streams.                    *)
(***************************************************************************)
EXTENDS DispatcherInvariant

\* The worker runs a handler of the chat.
On(w, c) == handler[w].pc # "idle" /\ handler[w].chat = c

-----------------------------------------------------------------------------
\* The handler and the call of a worker belong together.
Paired(w) ==
    /\ handler[w].pc \in Asking => handler[w].cmd = "play"
    /\ handler[w].pc = "skip_check" => handler[w].cmd = "skip"
    /\ handler[w].pc = "await_leave" <=> call[w].op = "stop"
    /\ call[w].pc # "none" => call[w].chat = handler[w].chat
    /\ ~call[w].threw

\* stop() has taken its session, and its chat, out of the map.
Unmapped(w) == call[w].op = "stop" =>
    /\ \A c \in Chats : call[w].s # None => sessions[c] # call[w].s
    /\ call[w].pc # "erase" => sessions[call[w].chat] = None

\* A reader that runs belongs to the session of its chat, in the map or in a stop().
Homed(p) == Streamer!ReaderActive(p) =>
    /\ pipeline[p].chat \in Chats
    /\ \/ sessions[pipeline[p].chat] = pipeline[p].volume
       \/ \E w \in Workers : /\ On(w, pipeline[p].chat)
                             /\ call[w].op = "stop" /\ call[w].s = pipeline[p].volume

\* A call of play that has not launched its stream is at work on the session.
Replacing(c) == \E w \in Workers :
    On(w, c) /\ call[w].op = "play" /\ call[w].s = sessions[c] /\ ~Past(call[w])

\* play_next_in_queue is still to run for the chat, or something that does as much.
NextInPool(c) == \E i \in 1 .. Len(pool) : pool[i].cmd = "next" /\ pool[i].chat = c
Advancing(c) ==
    \/ detached[c] > 0
    \/ NextInPool(c)
    \/ \E w \in Workers : /\ On(w, c)
                          /\ handler[w].pc = "pop" \/ call[w].pc \in {"lookup", "erase"}

\* The stream of a session runs, or its end is not handled yet.
Streaming(c) == sessions[c] # None /\ ~Replacing(c) =>
    LET p == session[sessions[c]].pipeline
    IN  /\ p # None
        /\ Streamer!ReaderActive(p) \/ pipeline[p].reader = "exited"
        /\ pipeline[p].reader = "exited" => SpawnMayFail \/ Advancing(c)

\* play has yet to set the state of the session.
Settling(c) == \E w \in Workers :
    On(w, c) /\ call[w].op = "play" /\ call[w].s = sessions[c] /\ call[w].pc = "playing"

\* The state of a session is what its reader does.
Truthful(c) == sessions[c] # None /\ ~Replacing(c) =>
    LET s == session[sessions[c]]
    IN  Streamer!ReaderActive(s.pipeline) =>
           IF Settling(c) THEN ~pipeline[s.pipeline].paused
           ELSE s.state = IF pipeline[s.pipeline].paused THEN "Paused" ELSE "Playing"

\* The state of a session is Idle only until the chat advances, whatever has failed.
BrieflyIdle(c) == sessions[c] # None /\ ~Replacing(c) /\ ~Settling(c) =>
    session[sessions[c]].state # "Idle" \/ Advancing(c)

\* Tracks wait only for a chat that has a session.
Awaited(c) ==
    /\ queues[c] # <<>> => sessions[c] # None
    /\ \A w \in Workers : On(w, c) => /\ handler[w].pc = "enqueue" => sessions[c] # None
                                      /\ call[w].op = "stop" => queues[c] = <<>>

\* The bot is in the call of a chat that has a session, or is about to have one, or had
\* one that a stop() is at work on.
Leaving(c) == \E w \in Workers :
    On(w, c) /\ call[w].op = "stop" /\ call[w].pc \notin {"erase", "release", "done"}
InCall(c) ==
    /\ c \in active_chats => \/ sessions[c] # None
                             \/ Leaving(c)
                             \/ \E w \in Workers : On(w, c) /\ call[w].pc = "lookup"
    /\ ~JoinMayFail =>
         /\ sessions[c] # None => c \in active_chats
         /\ \A w \in Workers : On(w, c) /\ call[w].op = "play" => c \in active_chats

\* No /play or /skip for the chat waits behind the i-th task.
NoneAsked(c, i) == \A j \in 1 .. Len(pool) :
    j > i /\ pool[j].chat = c => pool[j].cmd \notin {"play", "skip"}

StopAsked(c) == \E i \in 1 .. Len(pool) :
    pool[i].cmd = "stop" /\ pool[i].chat = c /\ NoneAsked(c, i)

Stopped(c) ==
    /\ NoneAsked(c, 0)
    /\ \A w \in Workers : On(w, c) =>
          handler[w].cmd \notin {"play", "skip"} /\ call[w].op # "play"
    /\ \/ sessions[c] = None
       \/ \E w \in Workers : On(w, c) /\ (handler[w].pc = "clear" \/ call[w].pc = "erase")

\* The last of the commands of a chat was a /stop: it is still to come, or has done its work.
Obeyed(c) == last[c] = "stop" => StopAsked(c) \/ Stopped(c)

ChatInv(c) == Streaming(c) /\ Truthful(c) /\ BrieflyIdle(c) /\ Awaited(c) /\ InCall(c) /\ Obeyed(c)

TInv ==
    /\ ~raced
    /\ TakeTurns
    /\ \A w \in Workers : Paired(w) /\ Unmapped(w)
    /\ \A p \in Tracks : Homed(p)
    /\ \A c \in Chats : ChatInv(c)
=============================================================================
