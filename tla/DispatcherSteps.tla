---------------------------- MODULE DispatcherSteps ----------------------------
(***************************************************************************)
(* What the steps of AudioStreamer do to the variables, field by field,    *)
(* from any state that satisfies the types; and, from these facts, that a  *)
(* step of a call or of a reader keeps the types and, as long as no two    *)
(* calls share a session, the ownership of the sessions and of the         *)
(* pipelines.                                                              *)
(***************************************************************************)
EXTENDS DispatcherInvariant, TLAPS

-----------------------------------------------------------------------------
LEMMA TracksArePositive == Tracks \subseteq Nat \ {0} /\ None = 0 /\ Streamer!None = 0
BY DispatcherAssumption DEF Tracks, Commands, None, Streamer!None

(* The effects that the steps are made of. *)

\* Only the call of w changes, and goes on with these local variables.
OnlyMoves(w) ==
    /\ call' \in [Workers -> Calls]
    /\ \A v \in Workers : v # w => call'[v] = call[v]

Moves(w, pc, s, p, next) ==
    /\ OnlyMoves(w)
    /\ call'[w].op = call[w].op /\ call'[w].chat = call[w].chat /\ call'[w].track = call[w].track
    /\ call'[w].pc = pc /\ call'[w].s = s /\ call'[w].p = p /\ call'[w].next = next

\* The session of s owns p; the others own what they owned.
Owns(s, p) ==
    /\ session' \in [Tracks -> Sessions]
    /\ \A r \in Tracks : session'[r].pipeline = IF r = s THEN p ELSE session[r].pipeline

KeepsOwners ==
    /\ session' \in [Tracks -> Sessions]
    /\ \A r \in Tracks : session'[r].pipeline = session[r].pipeline

\* Only the pipeline p changes.
Sets(p, object, reader, running, volume) ==
    /\ pipeline' \in [Tracks -> PipelineStates]
    /\ \A q \in Tracks : q # p => pipeline'[q] = pipeline[q]
    /\ pipeline'[p].object = object /\ pipeline'[p].reader = reader
    /\ pipeline'[p].running = running /\ pipeline'[p].volume = volume

Maps(c, s) ==
    /\ sessions' \in [Chats -> Places]
    /\ \A d \in Chats : sessions'[d] = IF d = c THEN s ELSE sessions[d]

\* w begins to work on session s.
Shares(w, s) ==
    /\ raced' \in BOOLEAN
    /\ ~raced' => ~raced /\ (s # None => \A v \in Workers : v # w => call[v].s # s)

CallsTyped == active_chats' \subseteq Chats /\ paused_calls' \subseteq Chats

Crashes == /\ crashed' = "memory"
           /\ UNCHANGED <<call, sessions, session, pipeline, raced, detached, active_chats,
                       paused_calls>>

Found(w) == IF sessions[call[w].chat] = None THEN call[w].track ELSE sessions[call[w].chat]

\* The pointer that a call tested, or the one that is there now.
Tested(w) == {call[w].p, Mine(w)}

-----------------------------------------------------------------------------
(* The updates of the model, field by field. *)

LEMMA MovesTo ==
    ASSUME Types, NEW w \in Workers, NEW o \in Calls,
           o.op = call[w].op, o.chat = call[w].chat, o.track = call[w].track,
           call' = [call EXCEPT ![w] = o]
    PROVE  Moves(w, o.pc, o.s, o.p, o.next)
BY DEF Types, Shapes, Moves, OnlyMoves

LEMMA MovesPc ==
    ASSUME Types, NEW w \in Workers, NEW pc \in Pcs, call' = [call EXCEPT ![w].pc = pc]
    PROVE  Moves(w, pc, call[w].s, call[w].p, call[w].next)
<1> DEFINE o == [call[w] EXCEPT !.pc = pc]
<1>1. call[w] \in Calls
    BY DEF Types, Shapes
<1>2. o \in Calls /\ o.op = call[w].op /\ o.chat = call[w].chat /\ o.track = call[w].track
    BY <1>1 DEF Calls
<1>3. Moves(w, o.pc, o.s, o.p, o.next)
    <2>1. call' = [call EXCEPT ![w] = o]
        BY DEF Types, Shapes
    <2> HIDE DEF o
    <2> QED BY <2>1, <1>2, MovesTo
<1>4. o.pc = pc /\ o.s = call[w].s /\ o.p = call[w].p /\ o.next = call[w].next
    BY <1>1 DEF Calls
<1> QED BY <1>3, <1>4

LEMMA MovesThrew ==
    ASSUME Types, NEW w \in Workers, NEW pc \in Pcs,
           call' = [call EXCEPT ![w].pc = pc, ![w].threw = TRUE]
    PROVE  Moves(w, pc, call[w].s, call[w].p, call[w].next)
<1> DEFINE o == [call[w] EXCEPT !.pc = pc, !.threw = TRUE]
<1>1. call[w] \in Calls
    BY DEF Types, Shapes
<1>2. o \in Calls /\ o.op = call[w].op /\ o.chat = call[w].chat /\ o.track = call[w].track
    BY <1>1 DEF Calls
<1>3. Moves(w, o.pc, o.s, o.p, o.next)
    <2>1. call' = [call EXCEPT ![w] = o]
        BY DEF Types, Shapes
    <2> HIDE DEF o
    <2> QED BY <2>1, <1>2, MovesTo
<1>4. o.pc = pc /\ o.s = call[w].s /\ o.p = call[w].p /\ o.next = call[w].next
    BY <1>1 DEF Calls
<1> QED BY <1>3, <1>4

LEMMA MovesS ==
    ASSUME Types, NEW w \in Workers, NEW pc \in Pcs, NEW s \in Places,
           call' = [call EXCEPT ![w].pc = pc, ![w].s = s]
    PROVE  Moves(w, pc, s, call[w].p, call[w].next)
<1> DEFINE o == [call[w] EXCEPT !.pc = pc, !.s = s]
<1>1. call[w] \in Calls
    BY DEF Types, Shapes
<1>2. o \in Calls /\ o.op = call[w].op /\ o.chat = call[w].chat /\ o.track = call[w].track
    BY <1>1 DEF Calls
<1>3. Moves(w, o.pc, o.s, o.p, o.next)
    <2>1. call' = [call EXCEPT ![w] = o]
        BY DEF Types, Shapes
    <2> HIDE DEF o
    <2> QED BY <2>1, <1>2, MovesTo
<1>4. o.pc = pc /\ o.s = s /\ o.p = call[w].p /\ o.next = call[w].next
    BY <1>1 DEF Calls
<1> QED BY <1>3, <1>4

LEMMA MovesP ==
    ASSUME Types, NEW w \in Workers, NEW pc \in Pcs, NEW p \in Places,
           call' = [call EXCEPT ![w].pc = pc, ![w].p = p]
    PROVE  Moves(w, pc, call[w].s, p, call[w].next)
<1> DEFINE o == [call[w] EXCEPT !.pc = pc, !.p = p]
<1>1. call[w] \in Calls
    BY DEF Types, Shapes
<1>2. o \in Calls /\ o.op = call[w].op /\ o.chat = call[w].chat /\ o.track = call[w].track
    BY <1>1 DEF Calls
<1>3. Moves(w, o.pc, o.s, o.p, o.next)
    <2>1. call' = [call EXCEPT ![w] = o]
        BY DEF Types, Shapes
    <2> HIDE DEF o
    <2> QED BY <2>1, <1>2, MovesTo
<1>4. o.pc = pc /\ o.s = call[w].s /\ o.p = p /\ o.next = call[w].next
    BY <1>1 DEF Calls
<1> QED BY <1>3, <1>4

LEMMA MovesNext ==
    ASSUME Types, NEW w \in Workers, NEW pc \in Pcs, NEW next \in Nexts,
           call' = [call EXCEPT ![w].pc = pc, ![w].next = next]
    PROVE  Moves(w, pc, call[w].s, call[w].p, next)
<1> DEFINE o == [call[w] EXCEPT !.pc = pc, !.next = next]
<1>1. call[w] \in Calls
    BY DEF Types, Shapes
<1>2. o \in Calls /\ o.op = call[w].op /\ o.chat = call[w].chat /\ o.track = call[w].track
    BY <1>1 DEF Calls
<1>3. Moves(w, o.pc, o.s, o.p, o.next)
    <2>1. call' = [call EXCEPT ![w] = o]
        BY DEF Types, Shapes
    <2> HIDE DEF o
    <2> QED BY <2>1, <1>2, MovesTo
<1>4. o.pc = pc /\ o.s = call[w].s /\ o.p = call[w].p /\ o.next = next
    BY <1>1 DEF Calls
<1> QED BY <1>3, <1>4

LEMMA MovesSP ==
    ASSUME Types, NEW w \in Workers, NEW pc \in Pcs, NEW s \in Places, NEW p \in Places,
           call' = [call EXCEPT ![w].pc = pc, ![w].s = s, ![w].p = p]
    PROVE  Moves(w, pc, s, p, call[w].next)
<1> DEFINE o == [call[w] EXCEPT !.pc = pc, !.s = s, !.p = p]
<1>1. call[w] \in Calls
    BY DEF Types, Shapes
<1>2. o \in Calls /\ o.op = call[w].op /\ o.chat = call[w].chat /\ o.track = call[w].track
    BY <1>1 DEF Calls
<1>3. Moves(w, o.pc, o.s, o.p, o.next)
    <2>1. call' = [call EXCEPT ![w] = o]
        BY DEF Types, Shapes
    <2> HIDE DEF o
    <2> QED BY <2>1, <1>2, MovesTo
<1>4. o.pc = pc /\ o.s = s /\ o.p = p /\ o.next = call[w].next
    BY <1>1 DEF Calls
<1> QED BY <1>3, <1>4

LEMMA MovesPNext ==
    ASSUME Types, NEW w \in Workers, NEW pc \in Pcs, NEW p \in Places, NEW next \in Nexts,
           call' = [call EXCEPT ![w].pc = pc, ![w].p = p, ![w].next = next]
    PROVE  Moves(w, pc, call[w].s, p, next)
<1> DEFINE o == [call[w] EXCEPT !.pc = pc, !.p = p, !.next = next]
<1>1. call[w] \in Calls
    BY DEF Types, Shapes
<1>2. o \in Calls /\ o.op = call[w].op /\ o.chat = call[w].chat /\ o.track = call[w].track
    BY <1>1 DEF Calls
<1>3. Moves(w, o.pc, o.s, o.p, o.next)
    <2>1. call' = [call EXCEPT ![w] = o]
        BY DEF Types, Shapes
    <2> HIDE DEF o
    <2> QED BY <2>1, <1>2, MovesTo
<1>4. o.pc = pc /\ o.s = call[w].s /\ o.p = p /\ o.next = next
    BY <1>1 DEF Calls
<1> QED BY <1>3, <1>4

LEMMA OwnsPipeline ==
    ASSUME Types, NEW s \in Tracks, NEW p \in Places,
           session' = [session EXCEPT ![s].pipeline = p]
    PROVE  Owns(s, p)
BY DEF Types, Shapes, Owns, Sessions

LEMMA KeepsState ==
    ASSUME Types, NEW s, NEW state \in {"Idle", "Buffering", "Playing", "Paused"},
           session' = [session EXCEPT ![s].state = state]
    PROVE  KeepsOwners
BY DEF Types, Shapes, KeepsOwners, Sessions

LEMMA SetsAll ==
    ASSUME Types, NEW p \in Tracks, NEW o \in PipelineStates, pipeline' = [pipeline EXCEPT ![p] = o]
    PROVE  Sets(p, o.object, o.reader, o.running, o.volume)
BY DEF Types, Shapes, Sets

LEMMA SetsRunning ==
    ASSUME Types, NEW p \in Tracks, pipeline' = [pipeline EXCEPT ![p].running = FALSE]
    PROVE  Sets(p, pipeline[p].object, pipeline[p].reader, FALSE, pipeline[p].volume)
<1> DEFINE o == [pipeline[p] EXCEPT !.running = FALSE]
<1>1. pipeline[p] \in PipelineStates
    BY DEF Types, Shapes
<1>2. o \in PipelineStates
    BY <1>1 DEF PipelineStates
<1>3. Sets(p, o.object, o.reader, o.running, o.volume)
    <2>1. pipeline' = [pipeline EXCEPT ![p] = o]
        BY DEF Types, Shapes
    <2> HIDE DEF o
    <2> QED BY <2>1, <1>2, SetsAll
<1>4. /\ o.object = pipeline[p].object /\ o.reader = pipeline[p].reader
      /\ o.running = FALSE /\ o.volume = pipeline[p].volume
    BY <1>1 DEF PipelineStates
<1> QED BY <1>3, <1>4

LEMMA SetsPaused ==
    ASSUME Types, NEW p \in Tracks, NEW paused \in BOOLEAN,
           pipeline' = [pipeline EXCEPT ![p].paused = paused]
    PROVE  Sets(p, pipeline[p].object, pipeline[p].reader, pipeline[p].running, pipeline[p].volume)
<1> DEFINE o == [pipeline[p] EXCEPT !.paused = paused]
<1>1. pipeline[p] \in PipelineStates
    BY DEF Types, Shapes
<1>2. o \in PipelineStates
    BY <1>1 DEF PipelineStates
<1>3. Sets(p, o.object, o.reader, o.running, o.volume)
    <2>1. pipeline' = [pipeline EXCEPT ![p] = o]
        BY DEF Types, Shapes
    <2> HIDE DEF o
    <2> QED BY <2>1, <1>2, SetsAll
<1>4. /\ o.object = pipeline[p].object /\ o.reader = pipeline[p].reader
      /\ o.running = pipeline[p].running /\ o.volume = pipeline[p].volume
    BY <1>1 DEF PipelineStates
<1> QED BY <1>3, <1>4

LEMMA SetsReader ==
    ASSUME Types, NEW p \in Tracks, NEW reader \in ReaderStates,
           pipeline' = [pipeline EXCEPT ![p].reader = reader]
    PROVE  Sets(p, pipeline[p].object, reader, pipeline[p].running, pipeline[p].volume)
<1> DEFINE o == [pipeline[p] EXCEPT !.reader = reader]
<1>1. pipeline[p] \in PipelineStates
    BY DEF Types, Shapes
<1>2. o \in PipelineStates
    BY <1>1 DEF PipelineStates
<1>3. Sets(p, o.object, o.reader, o.running, o.volume)
    <2>1. pipeline' = [pipeline EXCEPT ![p] = o]
        BY DEF Types, Shapes
    <2> HIDE DEF o
    <2> QED BY <2>1, <1>2, SetsAll
<1>4. /\ o.object = pipeline[p].object /\ o.reader = reader
      /\ o.running = pipeline[p].running /\ o.volume = pipeline[p].volume
    BY <1>1 DEF PipelineStates
<1> QED BY <1>3, <1>4

LEMMA SetsEnd ==
    ASSUME Types, NEW p \in Tracks, NEW reader \in ReaderStates,
           pipeline' = [pipeline EXCEPT ![p].reader = reader, ![p].running = FALSE]
    PROVE  Sets(p, pipeline[p].object, reader, FALSE, pipeline[p].volume)
<1> DEFINE o == [pipeline[p] EXCEPT !.reader = reader, !.running = FALSE]
<1>1. pipeline[p] \in PipelineStates
    BY DEF Types, Shapes
<1>2. o \in PipelineStates
    BY <1>1 DEF PipelineStates
<1>3. Sets(p, o.object, o.reader, o.running, o.volume)
    <2>1. pipeline' = [pipeline EXCEPT ![p] = o]
        BY DEF Types, Shapes
    <2> HIDE DEF o
    <2> QED BY <2>1, <1>2, SetsAll
<1>4. /\ o.object = pipeline[p].object /\ o.reader = reader /\ o.running = FALSE
      /\ o.volume = pipeline[p].volume
    BY <1>1 DEF PipelineStates
<1> QED BY <1>3, <1>4

LEMMA SetsDestroyed ==
    ASSUME Types, NEW p \in Tracks, NEW reader \in ReaderStates,
           pipeline' = [pipeline EXCEPT ![p].object = "destroyed", ![p].reader = reader]
    PROVE  Sets(p, "destroyed", reader, pipeline[p].running, pipeline[p].volume)
<1> DEFINE o == [pipeline[p] EXCEPT !.object = "destroyed", !.reader = reader]
<1>1. pipeline[p] \in PipelineStates
    BY DEF Types, Shapes
<1>2. o \in PipelineStates
    BY <1>1 DEF PipelineStates
<1>3. Sets(p, o.object, o.reader, o.running, o.volume)
    <2>1. pipeline' = [pipeline EXCEPT ![p] = o]
        BY DEF Types, Shapes
    <2> HIDE DEF o
    <2> QED BY <2>1, <1>2, SetsAll
<1>4. /\ o.object = "destroyed" /\ o.reader = reader /\ o.running = pipeline[p].running
      /\ o.volume = pipeline[p].volume
    BY <1>1 DEF PipelineStates
<1> QED BY <1>3, <1>4

LEMMA Locals ==
    ASSUME Types, NEW w \in Workers
    PROVE  /\ call[w].pc \in Pcs /\ call[w].next \in Nexts
           /\ call[w].s \in Places /\ call[w].p \in Places /\ call[w].track \in Places
           /\ call[w].pc # "none" => call[w].chat \in Chats
           /\ call[w].pc # "none" => sessions[call[w].chat] \in Places
BY DEF Types, Shapes, Control, ControlOf, Calls

LEMMA Objects ==
    ASSUME Types
    PROVE  /\ \A s \in Tracks : session[s].pipeline \in Places
           /\ \A c \in Chats : sessions[c] \in Places
           /\ \A p \in Tracks : /\ pipeline[p] \in PipelineStates
                                /\ pipeline[p].reader \in ReaderStates
                                /\ pipeline[p].running \in BOOLEAN
BY DEF Types, Shapes, Sessions, PipelineStates

LEMMA InSession ==
    ASSUME Types, NEW w \in Workers, call[w].pc \notin Outside
    PROVE  call[w].s \in Tracks /\ Mine(w) \in Places
BY Objects, Locals, TracksArePositive DEF Types, Control, ControlOf, Mine, Places

LEMMA OfPipeline ==
    ASSUME Types, NEW w \in Workers,
           call[w].pc \in {"halt", "join", "destroy", "launch"} \cup Applying
    PROVE  call[w].p \in Tracks
BY Locals, TracksArePositive DEF Types, Control, ControlOf, Places

LEMMA OfTrack ==
    ASSUME Types, NEW w \in Workers, call[w].pc \in OfPlay \cup {"lookup"}
    PROVE  call[w].track \in Tracks
BY DEF Types, Control, ControlOf

LEMMA Literals ==
    /\ \A w : Streamer!AfterReset(w) \in Pcs \cap Nexts
    /\ \A reader \in ReaderStates : Streamer!Joined(reader) \in ReaderStates
    /\ Tracks \subseteq Places /\ None \in Places
    /\ Nexts \subseteq Pcs
<1>1. ASSUME NEW w PROVE Streamer!AfterReset(w) \in Pcs \cap Nexts
    BY DEF Streamer!AfterReset, Pcs, OfPlay, OfStop, Nexts
<1>2. ASSUME NEW reader \in ReaderStates PROVE Streamer!Joined(reader) \in ReaderStates
    BY DEF Streamer!Joined, ReaderStates
<1>3. Tracks \subseteq Places /\ None \in Places
    BY TracksArePositive DEF Places
<1>4. Nexts \subseteq Pcs
    BY DEF Nexts, Pcs, Outside, Either, OfPlay, OfStop
<1> QED BY <1>1, <1>2, <1>3, <1>4

-----------------------------------------------------------------------------
(* What each step of AudioStreamer does. *)

LookupDoes(w) ==
    /\ call[w].pc = "lookup"
    /\ Streamer!SessionsFree
    /\ Moves(w, "inspect", Found(w), call[w].p, call[w].next)
    /\ Maps(call[w].chat, Found(w))
    /\ Shares(w, Found(w))
    /\ UNCHANGED <<session, pipeline, detached, crashed, active_chats, paused_calls>>

InspectDoes(w) ==
    /\ call[w].pc = "inspect"
    /\ UNCHANGED <<sessions, session, pipeline, detached, raced, crashed, active_chats,
           paused_calls>>
    /\ \/ /\ Mine(w) # None
          /\ Moves(w, "halt", call[w].s, Mine(w), call[w].next)
       \/ /\ Mine(w) = None
          /\ Moves(w, Streamer!AfterReset(w), call[w].s, call[w].p, call[w].next)

HaltDoes(w) ==
    /\ call[w].pc = "halt"
    /\ \/ /\ None \in Tested(w)
          /\ Crashes
       \/ /\ \E p \in Tested(w) :
             /\ p # None /\ Moves(w, "join", call[w].s, p, "reset")
             /\ Sets(p, pipeline[p].object, pipeline[p].reader, FALSE, pipeline[p].volume)
          /\ UNCHANGED <<sessions, session, detached, raced, crashed, active_chats,
                 paused_calls>>

JoinDoes(w) ==
    /\ call[w].pc = "join"
    /\ pipeline[call[w].p].reader \in {"none", "exited"}
    /\ Moves(w, call[w].next, call[w].s, call[w].p, call[w].next)
    /\ Sets(call[w].p, pipeline[call[w].p].object, "none", pipeline[call[w].p].running,
           pipeline[call[w].p].volume)
    /\ UNCHANGED <<sessions, session, detached, raced, crashed, active_chats,
           paused_calls>>

JoinOfDestroyedDoes(w) ==
    /\ call[w].pc = "join"
    /\ pipeline[call[w].p].object = "destroyed"
    /\ Crashes

JoinThrowsDoes(w) ==
    /\ call[w].pc = "join"
    /\ \E v \in Workers :
          /\ v # w
          /\ call[v].pc \in {"join", "destroy"}
          /\ call[v].p = call[w].p
    /\ Moves(w, "release", call[w].s, call[w].p, call[w].next)
    /\ UNCHANGED <<sessions, session, pipeline, detached, raced, crashed, active_chats,
           paused_calls>>

ResetDoes(w) ==
    /\ call[w].pc = "reset"
    /\ Moves(w, "clear", call[w].s, Mine(w), call[w].next)
    /\ UNCHANGED <<sessions, session, pipeline, detached, raced, crashed, active_chats,
           paused_calls>>

ClearDoes(w) ==
    /\ call[w].pc = "clear"
    /\ Owns(call[w].s, None)
    /\ UNCHANGED <<sessions, detached, raced, crashed, active_chats, paused_calls>>
    /\ \/ /\ call[w].p = None
          /\ Moves(w, Streamer!AfterReset(w), call[w].s, call[w].p, call[w].next)
          /\ UNCHANGED pipeline
       \/ /\ call[w].p # None
          /\ Moves(w, "destroy", call[w].s, call[w].p, Streamer!AfterReset(w))
          /\ Sets(call[w].p, pipeline[call[w].p].object, pipeline[call[w].p].reader,
                 FALSE, pipeline[call[w].p].volume)

DestroyDoes(w) ==
    /\ call[w].pc = "destroy"
    /\ Moves(w, call[w].next, call[w].s, call[w].p, call[w].next)
    /\ Sets(call[w].p, "destroyed", "none", pipeline[call[w].p].running,
           pipeline[call[w].p].volume)
    /\ UNCHANGED <<sessions, session, detached, raced, crashed, active_chats,
           paused_calls>>

DestroyedTwiceDoes(w) ==
    /\ call[w].pc = "destroy"
    /\ pipeline[call[w].p].object = "destroyed"
    /\ Crashes

DestroyThrowsDoes(w) ==
    /\ call[w].pc = "destroy"
    /\ crashed' = "terminate"
    /\ UNCHANGED <<call, sessions, session, pipeline, raced, detached, active_chats,
           paused_calls>>

AssignDoes(w) ==
    /\ call[w].pc = "assign"
    /\ Moves(w, "create", call[w].s, call[w].p, call[w].next)
    /\ KeepsOwners
    /\ UNCHANGED <<sessions, pipeline, detached, raced, crashed, active_chats,
           paused_calls>>

CreateDoes(w) ==
    /\ call[w].pc = "create"
    /\ Moves(w, "install", call[w].s, Mine(w), call[w].next)
    /\ Sets(call[w].track, "live", "none", FALSE, 0)
    /\ UNCHANGED <<sessions, session, detached, raced, crashed, active_chats,
           paused_calls>>

InstallDoes(w) ==
    /\ call[w].pc = "install"
    /\ Owns(call[w].s, call[w].track)
    /\ UNCHANGED <<sessions, detached, raced, crashed, active_chats, paused_calls>>
    /\ \/ /\ call[w].p = None
          /\ Moves(w, "start", call[w].s, call[w].p, call[w].next)
          /\ UNCHANGED pipeline
       \/ /\ call[w].p # None
          /\ Moves(w, "destroy", call[w].s, call[w].p, "start")
          /\ Sets(call[w].p, pipeline[call[w].p].object, pipeline[call[w].p].reader,
                 FALSE, pipeline[call[w].p].volume)

StartDoes(w) ==
    /\ call[w].pc = "start"
    /\ \/ /\ Mine(w) = None
          /\ Crashes
       \/ /\ Mine(w) # None
          /\ pipeline[Mine(w)].running
          /\ Moves(w, "join", call[w].s, Mine(w), "launch")
          /\ Sets(Mine(w), pipeline[Mine(w)].object, pipeline[Mine(w)].reader, FALSE,
                 pipeline[Mine(w)].volume)
          /\ UNCHANGED <<sessions, session, detached, raced, crashed, active_chats,
                 paused_calls>>
       \/ /\ Mine(w) # None
          /\ ~pipeline[Mine(w)].running
          /\ Moves(w, "launch", call[w].s, Mine(w), call[w].next)
          /\ UNCHANGED <<sessions, session, pipeline, detached, raced, crashed,
                 active_chats, paused_calls>>

LaunchDoes(w) ==
    /\ call[w].pc = "launch"
    /\ \/ /\ pipeline[call[w].p].object = "destroyed"
          /\ Crashes
       \/ /\ pipeline[call[w].p].object = "live"
          /\ pipeline[call[w].p].reader # "none"
          /\ crashed' = "terminate"
          /\ UNCHANGED <<call, sessions, session, pipeline, raced, detached,
                 active_chats, paused_calls>>
       \/ /\ pipeline[call[w].p].object = "live"
          /\ pipeline[call[w].p].reader = "none"
          /\ Moves(w, "playing", call[w].s, call[w].p, call[w].next)
          /\ Sets(call[w].p, "live", "starting", TRUE, call[w].s)
          /\ UNCHANGED <<sessions, session, detached, raced, crashed, active_chats,
                 paused_calls>>

PlayingDoes(w) ==
    /\ call[w].pc = "playing"
    /\ Moves(w, "release", call[w].s, call[w].p, call[w].next)
    /\ KeepsOwners
    /\ UNCHANGED <<sessions, pipeline, detached, raced, crashed, active_chats,
           paused_calls>>

ReleaseDoes(w) ==
    /\ call[w].pc = "release"
    /\ UNCHANGED <<sessions, detached, raced, crashed, active_chats, paused_calls>>
    /\ \/ /\ Moves(w, "done", None, None, call[w].next)
          /\ UNCHANGED <<session, pipeline>>
       \/ /\ Mine(w) # None
          /\ \A c \in Chats : sessions[c] # call[w].s
          /\ Moves(w, "destroy", call[w].s, Mine(w), "release")
          /\ Owns(call[w].s, None)
          /\ Sets(Mine(w), pipeline[Mine(w)].object, pipeline[Mine(w)].reader, FALSE,
                 pipeline[Mine(w)].volume)

EraseDoes(w) ==
    /\ call[w].pc = "erase"
    /\ Streamer!SessionsFree
    /\ Moves(w, IF sessions[call[w].chat] = None THEN "done" ELSE "inspect",
           sessions[call[w].chat], call[w].p, call[w].next)
    /\ Maps(call[w].chat, None)
    /\ Shares(w, sessions[call[w].chat])
    /\ UNCHANGED <<session, pipeline, detached, crashed, active_chats, paused_calls>>

SetIdleDoes(w) ==
    /\ call[w].pc = "idle"
    /\ Moves(w, "leave", call[w].s, call[w].p, call[w].next)
    /\ KeepsOwners
    /\ UNCHANGED <<sessions, pipeline, detached, raced, crashed, active_chats,
           paused_calls>>

LeaveDoes(w) ==
    /\ call[w].pc = "leave"
    /\ Moves(w, "release", call[w].s, call[w].p, call[w].next)
    /\ CallsTyped
    /\ UNCHANGED <<sessions, session, pipeline, detached, raced, crashed>>

CheckDoes(w, op, apply) ==
    /\ call[w].pc = op
    /\ Streamer!SessionsFree
    /\ UNCHANGED <<sessions, session, pipeline, detached, crashed, active_chats,
           paused_calls>>
    /\ \/ /\ Moves(w, "done", call[w].s, call[w].p, call[w].next)
          /\ UNCHANGED raced
       \/ /\ sessions[call[w].chat] # None
          /\ session[sessions[call[w].chat]].pipeline # None
          /\ Moves(w, apply, sessions[call[w].chat],
                 session[sessions[call[w].chat]].pipeline, call[w].next)
          /\ Shares(w, sessions[call[w].chat])

ApplyDoes(w, apply) ==
    /\ call[w].pc = apply
    /\ \/ /\ \E p \in Tested(w) : p = None \/ pipeline[p].object # "live"
          /\ Crashes
       \/ /\ \E p \in Tested(w) :
              /\ p # None
              /\ Sets(p, pipeline[p].object, pipeline[p].reader, pipeline[p].running,
                      pipeline[p].volume)
          /\ KeepsOwners
          /\ Moves(w, "done", None, None, call[w].next)
          /\ CallsTyped
          /\ UNCHANGED <<sessions, detached, raced, crashed>>

ReaderSpawnsDoes(p) ==
    /\ pipeline[p].reader = "starting"
    /\ \/ Sets(p, pipeline[p].object, "reading", pipeline[p].running, pipeline[p].volume)
       \/ Sets(p, pipeline[p].object, "exited", FALSE, pipeline[p].volume)
    /\ UNCHANGED <<call, sessions, session, detached, raced, crashed, active_chats,
           paused_calls>>

ReaderHoldsDoes(p) ==
    /\ pipeline[p].reader \in {"reading", "held"}
    /\ \/ Sets(p, pipeline[p].object, "reading", pipeline[p].running, pipeline[p].volume)
       \/ Sets(p, pipeline[p].object, "held", pipeline[p].running, pipeline[p].volume)
    /\ UNCHANGED <<call, sessions, session, detached, raced, crashed, active_chats,
           paused_calls>>

ReaderHaltsDoes(p) ==
    /\ pipeline[p].reader \in {"reading", "held"}
    /\ Sets(p, pipeline[p].object, "ending", pipeline[p].running, pipeline[p].volume)
    /\ UNCHANGED <<call, sessions, session, detached, raced, crashed, active_chats,
           paused_calls>>

on_stream_eofDoes(p) ==
    /\ pipeline[p].reader = "ending"
    /\ Sets(p, pipeline[p].object, "exited", pipeline[p].running, pipeline[p].volume)
    /\ KeepsOwners
    /\ detached' \in [Chats -> Nat]
    /\ UNCHANGED <<call, sessions, raced, crashed, active_chats, paused_calls>>

StreamEndsDoes(p) ==
    /\ pipeline[p].reader = "reading"
    /\ Sets(p, pipeline[p].object, "ending", FALSE, pipeline[p].volume)
    /\ UNCHANGED <<call, sessions, session, detached, raced, crashed, active_chats,
           paused_calls>>

-----------------------------------------------------------------------------
(* The actions do what they are said to do. *)

LEMMA LookupFacts ==
    ASSUME Types, NEW w \in Workers, Streamer!Lookup(w)
    PROVE  LookupDoes(w)
<1> USE DEF LookupDoes
<1>1. call[w].pc = "lookup" /\ call[w].track \in Tracks /\ Found(w) \in Places
    BY Locals, OfTrack, Literals DEF Streamer!Lookup, Found
<1>2. Moves(w, "inspect", Found(w), call[w].p, call[w].next)
    BY <1>1, MovesS, Literals DEF Streamer!Lookup, Found, None, Streamer!None, Pcs, Either
<1>3. Maps(call[w].chat, Found(w))
    BY <1>1, Objects DEF Streamer!Lookup, Found, Maps, None, Streamer!None, Types, Shapes
<1>4. Shares(w, Found(w))
    BY DEF Streamer!Lookup, Streamer!NoteRace, Found, Shares, None, Streamer!None, Types, Shapes
<1> QED BY <1>1, <1>2, <1>3, <1>4 DEF Streamer!Lookup, Streamer!callVars

LEMMA InspectFacts ==
    ASSUME Types, NEW w \in Workers, Streamer!Inspect(w)
    PROVE  InspectDoes(w)
BY Locals, Objects, Literals, TracksArePositive, InSession, MovesP, MovesPc DEF Streamer!Inspect,
   Streamer!Current, Streamer!Go, Streamer!AfterReset, Streamer!callVars, Pcs, Outside, Either,
   OfPlay, OfStop, Applying, Nexts, ReaderStates, Places, Mine, InspectDoes

LEMMA HaltFacts ==
    ASSUME Types, NEW w \in Workers, Streamer!Halt(w)
    PROVE  HaltDoes(w)
BY Locals, Objects, Literals, TracksArePositive, InSession, OfPipeline, MovesPNext, SetsRunning DEF
   Streamer!Halt, Streamer!Loaded, Streamer!Current, Streamer!MemoryError, Streamer!callVars, Pcs,
   Outside, Either, OfPlay, OfStop, Applying, Nexts, ReaderStates, Places, Crashes, Mine, Tested,
   HaltDoes

LEMMA JoinFacts ==
    ASSUME Types, NEW w \in Workers, Streamer!Join(w)
    PROVE  JoinDoes(w)
BY Locals, Objects, Literals, TracksArePositive, InSession, OfPipeline, MovesPc, SetsReader DEF
   Streamer!Join, Streamer!ReaderActive, Streamer!Go, Streamer!Joined, Streamer!callVars, Pcs,
   Outside, Either, OfPlay, OfStop, Applying, Nexts, ReaderStates, Places, JoinDoes

LEMMA JoinOfDestroyedFacts ==
    ASSUME Types, NEW w \in Workers, Streamer!JoinOfDestroyed(w)
    PROVE  JoinOfDestroyedDoes(w)
BY Locals, Objects, Literals, TracksArePositive, InSession, OfPipeline DEF Streamer!JoinOfDestroyed,
   Streamer!MemoryError, Streamer!callVars, Pcs, Outside, Either, OfPlay, OfStop, Applying, Nexts,
   ReaderStates, Places, Crashes, JoinOfDestroyedDoes

LEMMA JoinThrowsFacts ==
    ASSUME Types, NEW w \in Workers, Streamer!JoinThrows(w)
    PROVE  JoinThrowsDoes(w)
BY Locals, Objects, Literals, TracksArePositive, InSession, OfPipeline, MovesThrew DEF
   Streamer!JoinThrows, Streamer!JoinedElsewhere, Streamer!callVars, Pcs, Outside, Either, OfPlay,
   OfStop, Applying, Nexts, ReaderStates, Places, JoinThrowsDoes

LEMMA ResetFacts ==
    ASSUME Types, NEW w \in Workers, Streamer!Reset(w)
    PROVE  ResetDoes(w)
BY Locals, Objects, Literals, TracksArePositive, InSession, MovesP DEF Streamer!Reset,
   Streamer!Current, Streamer!callVars, Pcs, Outside, Either, OfPlay, OfStop, Applying, Nexts,
   ReaderStates, Places, Mine, ResetDoes

LEMMA ClearFacts ==
    ASSUME Types, NEW w \in Workers, Streamer!Clear(w)
    PROVE  ClearDoes(w)
BY Locals, Objects, Literals, TracksArePositive, InSession, MovesPc, MovesNext, SetsRunning,
   OwnsPipeline DEF Streamer!Clear, Streamer!Delete, Streamer!Go, Streamer!AfterReset,
   Streamer!callVars, Pcs, Outside, Either, OfPlay, OfStop, Applying, Nexts, ReaderStates, Places,
   ClearDoes

LEMMA DestroyFacts ==
    ASSUME Types, NEW w \in Workers, Streamer!Destroy(w)
    PROVE  DestroyDoes(w)
BY Locals, Objects, Literals, TracksArePositive, InSession, OfPipeline, MovesPc, SetsDestroyed DEF
   Streamer!Destroy, Streamer!ReaderActive, Streamer!Joined, Streamer!Go, Streamer!callVars, Pcs,
   Outside, Either, OfPlay, OfStop, Applying, Nexts, ReaderStates, Places, DestroyDoes

LEMMA DestroyedTwiceFacts ==
    ASSUME Types, NEW w \in Workers, Streamer!DestroyedTwice(w)
    PROVE  DestroyedTwiceDoes(w)
BY Locals, Objects, Literals, TracksArePositive, InSession, OfPipeline DEF Streamer!DestroyedTwice,
   Streamer!MemoryError, Streamer!callVars, Pcs, Outside, Either, OfPlay, OfStop, Applying, Nexts,
   ReaderStates, Places, Crashes, DestroyedTwiceDoes

LEMMA DestroyThrowsFacts ==
    ASSUME Types, NEW w \in Workers, Streamer!DestroyThrows(w)
    PROVE  DestroyThrowsDoes(w)
BY Locals, Objects, Literals, TracksArePositive, InSession, OfPipeline DEF Streamer!DestroyThrows,
   Streamer!callVars, Pcs, Outside, Either, OfPlay, OfStop, Applying, Nexts, ReaderStates, Places,
   DestroyThrowsDoes

LEMMA AssignFacts ==
    ASSUME Types, NEW w \in Workers, Streamer!Assign(w)
    PROVE  AssignDoes(w)
BY Locals, Objects, Literals, TracksArePositive, InSession, OfTrack, MovesPc, KeepsState DEF
   Streamer!Assign, Streamer!Go, Streamer!callVars, Pcs, Outside, Either, OfPlay, OfStop, Applying,
   Nexts, ReaderStates, Places, KeepsOwners, AssignDoes

LEMMA CreateFacts ==
    ASSUME Types, NEW w \in Workers, Streamer!Create(w)
    PROVE  CreateDoes(w)
<1> USE DEF CreateDoes
<1> DEFINE o == [Streamer!NoPipeline EXCEPT !.object = "live"]
<1>1. call[w].pc = "create" /\ call[w].track \in Tracks /\ Mine(w) \in Places
    BY InSession, OfTrack DEF Streamer!Create, OfPlay, Outside
<1>2. /\ o \in PipelineStates
      /\ o.object = "live" /\ o.reader = "none" /\ o.running = FALSE /\ o.volume = 0
    BY DEF PipelineStates, Streamer!NoPipeline, Streamer!None, ReaderStates, Places
<1>3. Sets(call[w].track, "live", "none", FALSE, 0)
    <2>1. pipeline' = [pipeline EXCEPT ![call[w].track] = o]
        BY DEF Streamer!Create
    <2> HIDE DEF o
    <2>2. Sets(call[w].track, o.object, o.reader, o.running, o.volume)
        BY <2>1, <1>1, <1>2, SetsAll
    <2> QED BY <2>2, <1>2
<1>4. Moves(w, "install", call[w].s, Mine(w), call[w].next)
    BY <1>1, MovesP DEF Streamer!Create, Streamer!Current, Mine, Pcs, OfPlay
<1> QED BY <1>1, <1>3, <1>4 DEF Streamer!Create, Streamer!callVars

LEMMA InstallFacts ==
    ASSUME Types, NEW w \in Workers, Streamer!Install(w)
    PROVE  InstallDoes(w)
BY Locals, Objects, Literals, TracksArePositive, InSession, OfTrack, MovesPc, MovesNext,
   SetsRunning, OwnsPipeline DEF Streamer!Install, Streamer!Delete, Streamer!Go, Streamer!callVars,
   Pcs, Outside, Either, OfPlay, OfStop, Applying, Nexts, ReaderStates, Places, InstallDoes

LEMMA StartFacts ==
    ASSUME Types, NEW w \in Workers, Streamer!Start(w)
    PROVE  StartDoes(w)
BY Locals, Objects, Literals, TracksArePositive, InSession, OfTrack, MovesPNext, MovesP, SetsRunning
   DEF Streamer!Start, Streamer!Current, Streamer!MemoryError, Streamer!callVars, Pcs, Outside,
   Either, OfPlay, OfStop, Applying, Nexts, ReaderStates, Places, Crashes, Mine, StartDoes

LEMMA LaunchFacts ==
    ASSUME Types, NEW w \in Workers, Streamer!Launch(w)
    PROVE  LaunchDoes(w)
<1> USE DEF LaunchDoes
<1> DEFINE p == call[w].p
           o == [object |-> "live", running |-> TRUE, paused |-> FALSE, reader |-> "starting",
                 track |-> call[w].track, chat |-> call[w].chat, volume |-> call[w].s]
<1>1. /\ call[w].pc = "launch" /\ p \in Tracks /\ call[w].track \in Tracks
      /\ call[w].s \in Places /\ call[w].chat \in Chats
    BY OfPipeline, OfTrack, Locals, Literals DEF Streamer!Launch, OfPlay
<1>2. o \in PipelineStates
    BY <1>1, Literals DEF PipelineStates, ReaderStates, Places
<1>3. CASE pipeline[p].object = "live" /\ pipeline[p].reader = "none"
    <2>1. pipeline' = [pipeline EXCEPT ![p] = o] /\ call' = [call EXCEPT ![w].pc = "playing"]
        BY <1>3 DEF Streamer!Launch, Streamer!Go
    <2>2. Moves(w, "playing", call[w].s, p, call[w].next)
        BY <2>1, MovesPc DEF Pcs, OfPlay
    <2>3. Sets(p, "live", "starting", TRUE, call[w].s)
        <3> HIDE DEF o
        <3>1. Sets(p, o.object, o.reader, o.running, o.volume)
            BY <2>1, <1>1, <1>2, SetsAll
        <3> QED BY <3>1 DEF o
    <2> QED BY <1>1, <1>3, <2>2, <2>3 DEF Streamer!Launch, Streamer!callVars
<1>4. CASE ~(pipeline[p].object = "live" /\ pipeline[p].reader = "none")
    BY <1>1, <1>4 DEF Streamer!Launch, Streamer!MemoryError, Streamer!callVars, Crashes
<1> QED BY <1>3, <1>4

LEMMA PlayingFacts ==
    ASSUME Types, NEW w \in Workers, Streamer!Playing(w)
    PROVE  PlayingDoes(w)
BY Locals, Objects, Literals, TracksArePositive, InSession, OfTrack, MovesPc, KeepsState DEF
   Streamer!Playing, Streamer!Go, Streamer!callVars, Pcs, Outside, Either, OfPlay, OfStop, Applying,
   Nexts, ReaderStates, Places, KeepsOwners, PlayingDoes

LEMMA ReleaseFacts ==
    ASSUME Types, NEW w \in Workers, Streamer!Release(w)
    PROVE  ReleaseDoes(w)
BY Locals, Objects, Literals, TracksArePositive, InSession, MovesSP, MovesPNext, SetsRunning,
   OwnsPipeline DEF Streamer!Release, Streamer!Current, Streamer!callVars, Pcs, Outside, Either,
   OfPlay, OfStop, Applying, Nexts, ReaderStates, Places, Mine, ReleaseDoes

LEMMA EraseFacts ==
    ASSUME Types, NEW w \in Workers, Streamer!Erase(w)
    PROVE  EraseDoes(w)
<1> USE DEF EraseDoes
<1> DEFINE found == sessions[call[w].chat]
<1>1. call[w].pc = "erase" /\ found \in Places
    BY Locals DEF Streamer!Erase
<1>2. Moves(w, IF found = None THEN "done" ELSE "inspect", found, call[w].p, call[w].next)
    <2>1. (IF found = None THEN "done" ELSE "inspect") \in Pcs
        BY DEF Pcs, Outside, Either
    <2> QED BY <1>1, <2>1, MovesS DEF Streamer!Erase, None, Streamer!None
<1>3. Maps(call[w].chat, None)
    BY <1>1, Literals DEF Streamer!Erase, Maps, None, Streamer!None, Types, Shapes
<1>4. Shares(w, found)
    BY DEF Streamer!Erase, Streamer!NoteRace, Shares, None, Streamer!None, Types, Shapes
<1> QED BY <1>1, <1>2, <1>3, <1>4 DEF Streamer!Erase, Streamer!callVars

LEMMA SetIdleFacts ==
    ASSUME Types, NEW w \in Workers, Streamer!SetIdle(w)
    PROVE  SetIdleDoes(w)
BY Locals, Objects, Literals, TracksArePositive, InSession, MovesPc, KeepsState DEF
   Streamer!SetIdle, Streamer!Go, Streamer!callVars, Pcs, Outside, Either, OfPlay, OfStop, Applying,
   Nexts, ReaderStates, Places, KeepsOwners, SetIdleDoes

LEMMA LeaveFacts ==
    ASSUME Types, NEW w \in Workers, Streamer!Leave(w)
    PROVE  LeaveDoes(w)
<1> USE DEF LeaveDoes
<1>1. CallsTyped
    BY DEF Streamer!Leave, Streamer!NTg!leave_group_call, CallsTyped, Types, Shapes
<1>2. Moves(w, "release", call[w].s, call[w].p, call[w].next)
    BY MovesPc DEF Streamer!Leave, Streamer!Go, Pcs, Either
<1> QED BY <1>1, <1>2 DEF Streamer!Leave

LEMMA CheckFacts ==
    ASSUME Types, NEW w \in Workers, NEW op \in {"pause", "resume"}, NEW apply \in Applying,
           Streamer!Check(w, op, apply)
    PROVE  CheckDoes(w, op, apply)
BY Locals, Objects, Literals, TracksArePositive, InSession, MovesPc, MovesSP DEF Streamer!Check,
   Streamer!Go, Streamer!NoteRace, Streamer!SessionsFree, Streamer!callVars, Pcs, Outside, Either,
   OfPlay, OfStop, Applying, Nexts, ReaderStates, Places, Shares, CheckDoes

LEMMA ApplyFacts ==
    ASSUME Types, NEW w \in Workers, NEW apply \in Applying, NEW paused \in BOOLEAN, NEW
           state \in {"Paused", "Playing"}, Streamer!Apply(w, apply, paused, state)
    PROVE  ApplyDoes(w, apply)
<1> USE DEF ApplyDoes
<1>1. /\ call[w].pc = apply /\ call[w].p \in Tracks /\ Mine(w) \in Places
      /\ Tested(w) = Streamer!Loaded(w)
    BY OfPipeline, InSession DEF Streamer!Apply, Applying, Outside, Tested, Mine,
           Streamer!Loaded, Streamer!Current
<1>2. CASE Crashes /\ \E p \in Tested(w) : p = None \/ pipeline[p].object # "live"
    BY <1>1, <1>2
<1>3. CASE ~(Crashes /\ \E p \in Tested(w) : p = None \/ pipeline[p].object # "live")
    <2>1. /\ \E p \in Tested(w) \ {None} : pipeline' = [pipeline EXCEPT ![p].paused = paused]
          /\ session' = [session EXCEPT ![call[w].s].state = state]
          /\ \/ Streamer!NTg!pause(call[w].chat)
             \/ Streamer!NTg!resume(call[w].chat)
          /\ call' = [call EXCEPT ![w].pc = "done", ![w].s = None, ![w].p = None]
          /\ UNCHANGED <<sessions, detached, raced, crashed>>
        <3>1. ASSUME Streamer!MemoryError,
                     Tested(w) \cap {p \in Tracks : pipeline[p].object = "live"} # Tested(w)
              PROVE  FALSE
            <4>1. \E p \in Tested(w) : p = None \/ pipeline[p].object # "live"
                BY <3>1, <1>1 DEF Tested, Places, None, Streamer!None
            <4> QED BY <4>1, <1>3, <3>1 DEF Crashes, Streamer!MemoryError, Streamer!callVars
        <3> QED BY <3>1, <1>1 DEF Streamer!Apply, None, Streamer!None
    <2>2. Moves(w, "done", None, None, call[w].next)
        BY <2>1, MovesSP, Literals DEF Pcs, Outside
    <2>3. KeepsOwners
        BY <2>1, KeepsState DEF KeepsOwners
    <2>4. \E p \in Tested(w) : /\ p # None
                               /\ Sets(p, pipeline[p].object, pipeline[p].reader,
                                       pipeline[p].running, pipeline[p].volume)
        <3>1. PICK p \in Tested(w) \ {None} : pipeline' = [pipeline EXCEPT ![p].paused = paused]
            BY <2>1
        <3>2. p \in Tracks
            BY <1>1 DEF Tested, Places, None, Streamer!None
        <3> QED BY <3>1, <3>2, SetsPaused
    <2>5. CallsTyped
        BY <2>1 DEF Streamer!NTg!pause, Streamer!NTg!resume, CallsTyped, Types, Shapes
    <2> QED BY <1>1, <2>1, <2>2, <2>3, <2>4, <2>5
<1> QED BY <1>2, <1>3

LEMMA ReaderSpawnsFacts ==
    ASSUME Types, NEW p \in Tracks, Streamer!ReaderSpawns(p)
    PROVE  ReaderSpawnsDoes(p)
BY Locals, Objects, Literals, TracksArePositive, SetsReader, SetsEnd DEF Streamer!ReaderSpawns,
   Streamer!callVars, Pcs, Outside, Either, OfPlay, OfStop, Applying, Nexts, ReaderStates, Places,
   ReaderSpawnsDoes

LEMMA ReaderHoldsFacts ==
    ASSUME Types, NEW p \in Tracks, Streamer!ReaderHolds(p)
    PROVE  ReaderHoldsDoes(p)
BY Locals, Objects, Literals, TracksArePositive, SetsReader DEF Streamer!ReaderHolds,
   Streamer!callVars, Pcs, Outside, Either, OfPlay, OfStop, Applying, Nexts, ReaderStates, Places,
   ReaderHoldsDoes

LEMMA ReaderHaltsFacts ==
    ASSUME Types, NEW p \in Tracks, Streamer!ReaderHalts(p)
    PROVE  ReaderHaltsDoes(p)
BY Locals, Objects, Literals, TracksArePositive, SetsReader DEF Streamer!ReaderHalts,
   Streamer!callVars, Pcs, Outside, Either, OfPlay, OfStop, Applying, Nexts, ReaderStates, Places,
   ReaderHaltsDoes

LEMMA on_stream_eofFacts ==
    ASSUME Types, NEW p \in Tracks, Streamer!on_stream_eof(p)
    PROVE  on_stream_eofDoes(p)
<1> USE DEF on_stream_eofDoes
<1> DEFINE c == pipeline[p].chat
<1>1. detached' \in [Chats -> Nat]
    <2>1. detached' = [detached EXCEPT ![c] = @ + 1]
        BY DEF Streamer!on_stream_eof
    <2>2. detached \in [Chats -> Nat]
        BY DEF Types, Shapes
    <2> HIDE DEF c
    <2>3. CASE c \in Chats
        BY <2>1, <2>2, <2>3
    <2>4. CASE c \notin Chats
        BY <2>1, <2>2, <2>4
    <2> QED BY <2>3, <2>4
<1>2. KeepsOwners
    BY KeepsState DEF Streamer!on_stream_eof, KeepsOwners, Types, Shapes
<1>3. Sets(p, pipeline[p].object, "exited", pipeline[p].running, pipeline[p].volume)
    BY SetsReader DEF Streamer!on_stream_eof, ReaderStates
<1> QED BY <1>1, <1>2, <1>3 DEF Streamer!on_stream_eof, Streamer!callVars

LEMMA StreamEndsFacts ==
    ASSUME Types, NEW p \in Tracks, Streamer!StreamEnds(p)
    PROVE  StreamEndsDoes(p)
BY SetsEnd DEF Streamer!StreamEnds, Streamer!callVars, ReaderStates, StreamEndsDoes

-----------------------------------------------------------------------------
(* What every step of a call keeps. *)

\* The values that the types give, where a step looks for them.
Typed ==
    /\ \A s \in Tracks : session[s].pipeline \in Places
    /\ \A c \in Chats : sessions[c] \in Places
    /\ \A v \in Workers :
        /\ call[v].s \in Places /\ call[v].p \in Places /\ call[v].track \in Places
        /\ call[v].pc \in Pcs /\ call[v].next \in Nexts
        /\ call[v].s # None => /\ call[v].s \in Tracks /\ call[v].pc \notin Outside
                               /\ Mine(v) \in Places
        /\ call[v].pc \notin Outside => call[v].s \in Tracks /\ Mine(v) \in Places
        /\ call[v].pc \in {"halt", "join", "destroy", "launch"} \cup Applying
              => call[v].p \in Tracks
        /\ call[v].pc \in OfPlay \cup {"lookup"} => call[v].track \in Tracks
        /\ call[v].pc # "none" => call[v].chat \in Chats

LEMMA EverythingTyped == Types => Typed
<1> SUFFICES ASSUME Types PROVE Typed
    OBVIOUS
<1>1. ASSUME NEW v \in Workers, call[v].s # None
      PROVE  call[v].s \in Tracks /\ call[v].pc \notin Outside
    BY <1>1, Locals, TracksArePositive DEF Types, Control, ControlOf, Places
<1> QED BY <1>1, Locals, Objects, InSession, OfPipeline, OfTrack DEF Typed

\* A step of AudioStreamer leaves the dispatcher alone.
Elsewhere == UNCHANGED <<queues, pool, handler, issued, last>> /\ starts' \in [Tracks -> Nat]

LEMMA CallTypes ==
    ASSUME Types, Elsewhere, NEW w \in Workers, OnlyMoves(w), ControlOf(handler[w], call'[w]),
           sessions' \in [Chats -> Places], session' \in [Tracks -> Sessions],
           pipeline' \in [Tracks -> PipelineStates], detached' \in [Chats -> Nat],
           raced' \in BOOLEAN, crashed' \in {"no", "memory", "terminate"}, CallsTyped
    PROVE  Types'
<1>1. Shapes'
    BY DEF Types, Shapes, OnlyMoves, Elsewhere, CallsTyped
<1>2. Control'
    BY DEF Types, Control, OnlyMoves, Elsewhere
<1> QED BY <1>1, <1>2 DEF Types

LEMMA StillFresh ==
    ASSUME Types, Elsewhere, NEW w \in Workers, OnlyMoves(w),
           call'[w].pc \notin BeforeLookup,
           call'[w].pc \in BeforeCreate => call[w].pc \in BeforeCreate \/ call[w].op # "play",
           NEW t \in Tracks
    PROVE  /\ NoSessionYet(t)' => NoSessionYet(t)
           /\ NoPipelineYet(t)' => NoPipelineYet(t)
<1>1. Unplayed(t)' <=> Unplayed(t)
    BY DEF Elsewhere, Unplayed, InPool, InQueue
<1>2. \A v \in Workers : InHand(t, v)' <=> InHand(t, v)
    BY DEF Elsewhere, InHand
<1>3. ASSUME InHand(t, w), call'[w].pc \in BeforeCreate PROVE call[w].pc \in BeforeCreate
    BY <1>3, TracksArePositive DEF Types, Control, ControlOf, InHand, BeforeCreate, BeforeLookup
<1>4. \A v \in Workers : v # w => call'[v] = call[v]
    BY DEF OnlyMoves
<1> QED BY <1>1, <1>2, <1>3, <1>4 DEF NoSessionYet, NoPipelineYet

LEMMA CrashTypes ==
    ASSUME Types, Elsewhere, crashed' \in {"no", "memory", "terminate"},
           UNCHANGED <<call, sessions, session, pipeline, raced, detached, active_chats,
                       paused_calls>>
    PROVE  Types'
BY DEF Types, Shapes, Control, Elsewhere

LEMMA LookupTypes ==
    ASSUME Types, Elsewhere, NEW w \in Workers, Streamer!Lookup(w)
    PROVE  Types'
<1>1. ControlOf(handler[w], call[w]) /\ Typed
    BY EverythingTyped DEF Types, Control
<1>2. LookupDoes(w)
    BY LookupFacts
<1>3. OnlyMoves(w) /\ ControlOf(handler[w], call'[w])
    BY <1>1, <1>2, Literals, TracksArePositive DEF ControlOf, Pcs, Nexts, Typed, Places,
        Outside, Either, OfPlay, OfStop, Applying, Streamer!AfterReset, Moves, OnlyMoves, Maps,
        Shares, Found, LookupDoes
<1> QED
    BY <1>2, <1>3, CallTypes DEF Types, Shapes, CallsTyped, Moves, Maps, Shares, Found, LookupDoes

LEMMA InspectTypes ==
    ASSUME Types, Elsewhere, NEW w \in Workers, Streamer!Inspect(w)
    PROVE  Types'
<1>1. ControlOf(handler[w], call[w]) /\ Typed
    BY EverythingTyped DEF Types, Control
<1>2. InspectDoes(w)
    BY InspectFacts
<1>3. OnlyMoves(w) /\ ControlOf(handler[w], call'[w])
    BY <1>1, <1>2, Literals, TracksArePositive DEF ControlOf, Pcs, Nexts, Typed, Places, Outside,
       Either, OfPlay, OfStop, Applying, Streamer!AfterReset, Moves, OnlyMoves, InspectDoes
<1> QED
    BY <1>2, <1>3, CallTypes DEF Types, Shapes, CallsTyped, Moves, InspectDoes

LEMMA HaltTypes ==
    ASSUME Types, Elsewhere, NEW w \in Workers, Streamer!Halt(w)
    PROVE  Types'
<1>1. ControlOf(handler[w], call[w]) /\ Typed
    BY EverythingTyped DEF Types, Control
<1>2. HaltDoes(w)
    BY HaltFacts
<1>3. CASE Crashes
    BY <1>3, CrashTypes DEF Crashes
<1>4. CASE ~Crashes
    <2>1. OnlyMoves(w) /\ ControlOf(handler[w], call'[w])
        BY <1>1, <1>2, <1>4, Literals, TracksArePositive DEF ControlOf, Pcs, Nexts, Typed, Places,
            Outside, Either, OfPlay, OfStop, Applying, Streamer!AfterReset, Moves, OnlyMoves, Sets,
            Crashes, Tested, HaltDoes
    <2> QED
        BY <1>2, <1>4, <2>1, CallTypes DEF Types, Shapes, CallsTyped, Moves, Sets, Crashes, Tested,
           HaltDoes
<1> QED BY <1>3, <1>4

LEMMA JoinTypes ==
    ASSUME Types, Elsewhere, NEW w \in Workers, Streamer!Join(w)
    PROVE  Types'
<1>1. ControlOf(handler[w], call[w]) /\ Typed
    BY EverythingTyped DEF Types, Control
<1>2. JoinDoes(w)
    BY JoinFacts
<1>3. OnlyMoves(w) /\ ControlOf(handler[w], call'[w])
    BY <1>1, <1>2, Literals, TracksArePositive DEF ControlOf, Pcs, Nexts, Typed, Places, Outside,
       Either, OfPlay, OfStop, Applying, Streamer!AfterReset, Moves, OnlyMoves, Sets, JoinDoes
<1> QED
    BY <1>2, <1>3, CallTypes DEF Types, Shapes, CallsTyped, Moves, Sets, JoinDoes

LEMMA JoinOfDestroyedTypes ==
    ASSUME Types, Elsewhere, NEW w \in Workers, Streamer!JoinOfDestroyed(w)
    PROVE  Types'
BY JoinOfDestroyedFacts, CrashTypes DEF Crashes, JoinOfDestroyedDoes

LEMMA JoinThrowsTypes ==
    ASSUME Types, Elsewhere, NEW w \in Workers, Streamer!JoinThrows(w)
    PROVE  Types'
<1>1. ControlOf(handler[w], call[w]) /\ Typed
    BY EverythingTyped DEF Types, Control
<1>2. JoinThrowsDoes(w)
    BY JoinThrowsFacts
<1>3. OnlyMoves(w) /\ ControlOf(handler[w], call'[w])
    BY <1>1, <1>2, Literals, TracksArePositive DEF ControlOf, Pcs, Nexts, Typed, Places, Outside,
       Either, OfPlay, OfStop, Applying, Streamer!AfterReset, Moves, OnlyMoves, JoinThrowsDoes
<1> QED
    BY <1>2, <1>3, CallTypes DEF Types, Shapes, CallsTyped, Moves, JoinThrowsDoes

LEMMA ResetTypes ==
    ASSUME Types, Elsewhere, NEW w \in Workers, Streamer!Reset(w)
    PROVE  Types'
<1>1. ControlOf(handler[w], call[w]) /\ Typed
    BY EverythingTyped DEF Types, Control
<1>2. ResetDoes(w)
    BY ResetFacts
<1>3. OnlyMoves(w) /\ ControlOf(handler[w], call'[w])
    BY <1>1, <1>2, Literals, TracksArePositive DEF ControlOf, Pcs, Nexts, Typed, Places,
        Outside, Either, OfPlay, OfStop, Applying, Streamer!AfterReset, Moves, OnlyMoves, ResetDoes
<1> QED
    BY <1>2, <1>3, CallTypes DEF Types, Shapes, CallsTyped, Moves, ResetDoes

LEMMA ClearTypes ==
    ASSUME Types, Elsewhere, NEW w \in Workers, Streamer!Clear(w)
    PROVE  Types'
<1>1. ControlOf(handler[w], call[w]) /\ Typed
    BY EverythingTyped DEF Types, Control
<1>2. ClearDoes(w)
    BY ClearFacts
<1>3. OnlyMoves(w) /\ ControlOf(handler[w], call'[w])
    BY <1>1, <1>2, Literals, TracksArePositive DEF ControlOf, Pcs, Nexts, Typed, Places,
        Outside, Either, OfPlay, OfStop, Applying, Streamer!AfterReset, Moves, OnlyMoves, Sets,
        Owns, ClearDoes
<1> QED
    BY <1>2, <1>3, CallTypes DEF Types, Shapes, CallsTyped, Moves, Sets, Owns, ClearDoes

LEMMA DestroyTypes ==
    ASSUME Types, Elsewhere, NEW w \in Workers, Streamer!Destroy(w)
    PROVE  Types'
<1>1. ControlOf(handler[w], call[w]) /\ Typed
    BY EverythingTyped DEF Types, Control
<1>2. DestroyDoes(w)
    BY DestroyFacts
<1>3. OnlyMoves(w) /\ ControlOf(handler[w], call'[w])
    BY <1>1, <1>2, Literals, TracksArePositive DEF ControlOf, Pcs, Nexts, Typed, Places, Outside,
       Either, OfPlay, OfStop, Applying, Streamer!AfterReset, Moves, OnlyMoves, Sets, DestroyDoes
<1> QED
    BY <1>2, <1>3, CallTypes DEF Types, Shapes, CallsTyped, Moves, Sets, DestroyDoes

LEMMA DestroyedTwiceTypes ==
    ASSUME Types, Elsewhere, NEW w \in Workers, Streamer!DestroyedTwice(w)
    PROVE  Types'
BY DestroyedTwiceFacts, CrashTypes DEF Crashes, DestroyedTwiceDoes

LEMMA DestroyThrowsTypes ==
    ASSUME Types, Elsewhere, NEW w \in Workers, Streamer!DestroyThrows(w)
    PROVE  Types'
BY DestroyThrowsFacts, CrashTypes DEF Crashes, DestroyThrowsDoes

LEMMA AssignTypes ==
    ASSUME Types, Elsewhere, NEW w \in Workers, Streamer!Assign(w)
    PROVE  Types'
<1>1. ControlOf(handler[w], call[w]) /\ Typed
    BY EverythingTyped DEF Types, Control
<1>2. AssignDoes(w)
    BY AssignFacts
<1>3. OnlyMoves(w) /\ ControlOf(handler[w], call'[w])
    BY <1>1, <1>2, Literals, TracksArePositive DEF ControlOf, Pcs, Nexts, Typed, Places,
        Outside, Either, OfPlay, OfStop, Applying, Streamer!AfterReset, Moves, OnlyMoves,
        KeepsOwners, AssignDoes
<1> QED
    BY <1>2, <1>3, CallTypes DEF Types, Shapes, CallsTyped, Moves, KeepsOwners, AssignDoes

LEMMA CreateTypes ==
    ASSUME Types, Elsewhere, NEW w \in Workers, Streamer!Create(w)
    PROVE  Types'
<1>1. ControlOf(handler[w], call[w]) /\ Typed
    BY EverythingTyped DEF Types, Control
<1>2. CreateDoes(w)
    BY CreateFacts
<1>3. OnlyMoves(w) /\ ControlOf(handler[w], call'[w])
    BY <1>1, <1>2, Literals, TracksArePositive DEF ControlOf, Pcs, Nexts, Typed, Places, Outside,
       Either, OfPlay, OfStop, Applying, Streamer!AfterReset, Moves, OnlyMoves, Sets, CreateDoes
<1> QED
    BY <1>2, <1>3, CallTypes DEF Types, Shapes, CallsTyped, Moves, Sets, CreateDoes

LEMMA InstallTypes ==
    ASSUME Types, Elsewhere, NEW w \in Workers, Streamer!Install(w)
    PROVE  Types'
<1>1. ControlOf(handler[w], call[w]) /\ Typed
    BY EverythingTyped DEF Types, Control
<1>2. InstallDoes(w)
    BY InstallFacts
<1>3. OnlyMoves(w) /\ ControlOf(handler[w], call'[w])
    BY <1>1, <1>2, Literals, TracksArePositive DEF ControlOf, Pcs, Nexts, Typed, Places,
        Outside, Either, OfPlay, OfStop, Applying, Streamer!AfterReset, Moves, OnlyMoves, Sets,
        Owns, InstallDoes
<1> QED
    BY <1>2, <1>3, CallTypes DEF Types, Shapes, CallsTyped, Moves, Sets, Owns, InstallDoes

LEMMA StartTypes ==
    ASSUME Types, Elsewhere, NEW w \in Workers, Streamer!Start(w)
    PROVE  Types'
<1>1. ControlOf(handler[w], call[w]) /\ Typed
    BY EverythingTyped DEF Types, Control
<1>2. StartDoes(w)
    BY StartFacts
<1>3. CASE Crashes
    BY <1>3, CrashTypes DEF Crashes
<1>4. CASE ~Crashes
    <2>1. OnlyMoves(w) /\ ControlOf(handler[w], call'[w])
        BY <1>1, <1>2, <1>4, Literals, TracksArePositive DEF ControlOf, Pcs, Nexts, Typed, Places,
            Outside, Either, OfPlay, OfStop, Applying, Streamer!AfterReset, Moves, OnlyMoves, Sets,
            Crashes, StartDoes
    <2> QED
        BY <1>2, <1>4, <2>1, CallTypes DEF Types, Shapes, CallsTyped, Moves, Sets, Crashes,
           StartDoes
<1> QED BY <1>3, <1>4

LEMMA LaunchTypes ==
    ASSUME Types, Elsewhere, NEW w \in Workers, Streamer!Launch(w)
    PROVE  Types'
<1>1. ControlOf(handler[w], call[w]) /\ Typed
    BY EverythingTyped DEF Types, Control
<1>2. LaunchDoes(w)
    BY LaunchFacts
<1>3. CASE UNCHANGED <<call, sessions, session, pipeline, raced, detached, active_chats,
                         paused_calls>>
    BY <1>2, <1>3, CrashTypes DEF Crashes, Types, Shapes, LaunchDoes
<1>4. CASE Moves(w, "playing", call[w].s, call[w].p, call[w].next)
    <2>1. OnlyMoves(w) /\ ControlOf(handler[w], call'[w])
        BY <1>1, <1>2, <1>4, Literals, TracksArePositive DEF ControlOf, Pcs, Nexts, Typed, Places,
            Outside, Either, OfPlay, OfStop, Applying, Streamer!AfterReset, Moves, OnlyMoves, Sets,
            Crashes, LaunchDoes
    <2> QED
        BY <1>2, <1>4, <2>1, CallTypes DEF Types, Shapes, CallsTyped, Moves, Sets, Crashes,
           LaunchDoes
<1> QED BY <1>2, <1>3, <1>4 DEF Crashes, LaunchDoes

LEMMA PlayingTypes ==
    ASSUME Types, Elsewhere, NEW w \in Workers, Streamer!Playing(w)
    PROVE  Types'
<1>1. ControlOf(handler[w], call[w]) /\ Typed
    BY EverythingTyped DEF Types, Control
<1>2. PlayingDoes(w)
    BY PlayingFacts
<1>3. OnlyMoves(w) /\ ControlOf(handler[w], call'[w])
    BY <1>1, <1>2, Literals, TracksArePositive DEF ControlOf, Pcs, Nexts, Typed, Places,
        Outside, Either, OfPlay, OfStop, Applying, Streamer!AfterReset, Moves, OnlyMoves,
        KeepsOwners, PlayingDoes
<1> QED
    BY <1>2, <1>3, CallTypes DEF Types, Shapes, CallsTyped, Moves, KeepsOwners, PlayingDoes

LEMMA ReleaseTypes ==
    ASSUME Types, Elsewhere, NEW w \in Workers, Streamer!Release(w)
    PROVE  Types'
<1>1. ControlOf(handler[w], call[w]) /\ Typed
    BY EverythingTyped DEF Types, Control
<1>2. ReleaseDoes(w)
    BY ReleaseFacts
<1>3. OnlyMoves(w) /\ ControlOf(handler[w], call'[w])
    BY <1>1, <1>2, Literals, TracksArePositive DEF ControlOf, Pcs, Nexts, Typed, Places,
        Outside, Either, OfPlay, OfStop, Applying, Streamer!AfterReset, Moves, OnlyMoves, Sets,
        Owns, ReleaseDoes
<1> QED
    BY <1>2, <1>3, CallTypes DEF Types, Shapes, CallsTyped, Moves, Sets, Owns, ReleaseDoes

LEMMA EraseTypes ==
    ASSUME Types, Elsewhere, NEW w \in Workers, Streamer!Erase(w)
    PROVE  Types'
<1>1. ControlOf(handler[w], call[w]) /\ Typed
    BY EverythingTyped DEF Types, Control
<1>2. EraseDoes(w)
    BY EraseFacts
<1>3. OnlyMoves(w) /\ ControlOf(handler[w], call'[w])
    BY <1>1, <1>2, Literals, TracksArePositive DEF ControlOf, Pcs, Nexts, Typed, Places,
        Outside, Either, OfPlay, OfStop, Applying, Streamer!AfterReset, Moves, OnlyMoves, Maps,
        Shares, EraseDoes
<1> QED
    BY <1>2, <1>3, CallTypes DEF Types, Shapes, CallsTyped, Moves, Maps, Shares, EraseDoes

LEMMA SetIdleTypes ==
    ASSUME Types, Elsewhere, NEW w \in Workers, Streamer!SetIdle(w)
    PROVE  Types'
<1>1. ControlOf(handler[w], call[w]) /\ Typed
    BY EverythingTyped DEF Types, Control
<1>2. SetIdleDoes(w)
    BY SetIdleFacts
<1>3. OnlyMoves(w) /\ ControlOf(handler[w], call'[w])
    BY <1>1, <1>2, Literals, TracksArePositive DEF ControlOf, Pcs, Nexts, Typed, Places,
        Outside, Either, OfPlay, OfStop, Applying, Streamer!AfterReset, Moves, OnlyMoves,
        KeepsOwners, SetIdleDoes
<1> QED
    BY <1>2, <1>3, CallTypes DEF Types, Shapes, CallsTyped, Moves, KeepsOwners, SetIdleDoes

LEMMA LeaveTypes ==
    ASSUME Types, Elsewhere, NEW w \in Workers, Streamer!Leave(w)
    PROVE  Types'
<1>1. ControlOf(handler[w], call[w]) /\ Typed
    BY EverythingTyped DEF Types, Control
<1>2. LeaveDoes(w)
    BY LeaveFacts
<1>3. OnlyMoves(w) /\ ControlOf(handler[w], call'[w])
    BY <1>1, <1>2, Literals, TracksArePositive DEF ControlOf, Pcs, Nexts, Typed, Places,
        Outside, Either, OfPlay, OfStop, Applying, Streamer!AfterReset, Moves, OnlyMoves,
        CallsTyped, LeaveDoes
<1> QED
    BY <1>2, <1>3, CallTypes DEF Types, Shapes, CallsTyped, Moves, LeaveDoes

LEMMA CheckTypes ==
    ASSUME Types, Elsewhere, NEW w \in Workers, NEW op \in {"pause", "resume"}, NEW
           apply \in Applying, Streamer!Check(w, op, apply)
    PROVE  Types'
<1>1. ControlOf(handler[w], call[w]) /\ Typed
    BY EverythingTyped DEF Types, Control
<1>2. CheckDoes(w, op, apply)
    BY CheckFacts
<1>3. OnlyMoves(w) /\ ControlOf(handler[w], call'[w])
    BY <1>1, <1>2, Literals, TracksArePositive DEF ControlOf, Pcs, Nexts, Typed, Places, Outside,
       Either, OfPlay, OfStop, Applying, Streamer!AfterReset, Moves, OnlyMoves, Shares, CheckDoes
<1> QED
    BY <1>2, <1>3, CallTypes DEF Types, Shapes, CallsTyped, Moves, Shares, CheckDoes

LEMMA ApplyTypes ==
    ASSUME Types, Elsewhere, NEW w \in Workers, NEW apply \in Applying, NEW paused \in BOOLEAN, NEW
           state \in {"Paused", "Playing"}, Streamer!Apply(w, apply, paused, state)
    PROVE  Types'
<1>1. ControlOf(handler[w], call[w]) /\ Typed
    BY EverythingTyped DEF Types, Control
<1>2. ApplyDoes(w, apply)
    BY ApplyFacts
<1>3. CASE Crashes
    BY <1>3, CrashTypes DEF Crashes
<1>4. CASE ~Crashes
    <2>1. OnlyMoves(w) /\ ControlOf(handler[w], call'[w])
        BY <1>1, <1>2, <1>4, Literals, TracksArePositive DEF ControlOf, Pcs, Nexts, Typed, Places,
            Outside, Either, OfPlay, OfStop, Applying, Streamer!AfterReset, Moves, OnlyMoves, Sets,
            KeepsOwners, Crashes, Tested, CallsTyped, ApplyDoes
    <2> QED
        BY <1>2, <1>4, <2>1, CallTypes DEF Types, Shapes, CallsTyped, Moves, Sets, KeepsOwners,
           Crashes, Tested, ApplyDoes
<1> QED BY <1>3, <1>4

-----------------------------------------------------------------------------
(* A step of a call that works on its session, as long as nobody shares it. *)

\* Nobody but w has to do with the pipeline p.
Private(w, p) == p # None =>
    /\ \A s \in Tracks : s # call[w].s => session[s].pipeline # p
    /\ \A v \in Workers : v # w => /\ call[v].pc = "destroy" => call[v].p # p
                                   /\ call[v].pc = "install" => call[v].track # p

\* A step of w changes the pipeline p at most, and leaves o in its session.
Works(w, p, o) ==
    /\ OnlyMoves(w)
    /\ call'[w].s = call[w].s /\ call[w].s # None
    /\ call'[w].op = call[w].op /\ call'[w].chat = call[w].chat /\ call'[w].track = call[w].track
    /\ call'[w].p \in {None, call[w].p, Mine(w)}
    /\ call'[w].pc = "destroy" => call'[w].p = p
    /\ Private(w, p)
    /\ \A q \in Tracks : q # p => pipeline'[q] = pipeline[q]
    /\ \A r \in Tracks : session'[r].pipeline = IF r = call[w].s THEN o ELSE session[r].pipeline
    /\ o \in {None, Mine(w), p}
    /\ UNCHANGED <<sessions, crashed>>

LEMMA MineIsPrivate ==
    ASSUME Types, Apart, Handed, NEW w \in Workers, call[w].s # None, Mine(w) # None
    PROVE  Private(w, Mine(w))
BY EverythingTyped, TracksArePositive
   DEF Typed, Apart, Handed, HandedOf, Private, Mine, Unowned, Places

LEMMA DeletedIsPrivate ==
    ASSUME Types, Handed, NEW w \in Workers, call[w].pc = "destroy"
    PROVE  Private(w, call[w].p)
BY EverythingTyped, TracksArePositive DEF Typed, Handed, HandedOf, Private, Unowned, Places

LEMMA OthersKnow ==
    ASSUME Types, Apart, Knows, NEW w \in Workers, NEW p \in Places, NEW o,
           Works(w, p, o), NEW v \in Workers, v # w
    PROVE  KnowsOf(v)'
<1>1. CASE call[v].s = None
    <2>1. call[v].pc \in Outside
        BY <1>1, TracksArePositive DEF Types, Control, ControlOf
    <2>2. call'[v] = call[v]
        BY DEF Works, OnlyMoves
    <2> QED BY <1>1, <2>1, <2>2 DEF KnowsOf, Outside, Applying, OfStop
<1>2. CASE call[v].s # None
    <2>1. call[v].s \in Tracks /\ Mine(v) \in Places /\ call[v].s # call[w].s
        BY <1>2, EverythingTyped DEF Typed, Apart
    <2>2. call'[v] = call[v] /\ sessions' = sessions /\ Mine(v)' = Mine(v)
        BY <2>1 DEF Works, OnlyMoves, Mine
    <2>3. Mine(v) # None => pipeline'[Mine(v)] = pipeline[Mine(v)]
        BY <2>1, TracksArePositive DEF Works, Private, Mine, Places
    <2>4. KnowsOf(v)
        BY DEF Knows
    <2> QED BY <2>2, <2>3, <2>4 DEF KnowsOf
<1> QED BY <1>1, <1>2

LEMMA OthersHanded ==
    ASSUME Types, Handed, NEW w \in Workers, NEW p \in Places, NEW o,
           Works(w, p, o), NEW v \in Workers, v # w
    PROVE  HandedOf(v)'
<1>1. call'[v] = call[v] /\ HandedOf(v)
    BY DEF Works, OnlyMoves, Handed
<1>2. ASSUME NEW q \in Tracks, Unowned(q), q # p PROVE Unowned(q)'
    BY <1>2, TracksArePositive DEF Works, Unowned, Mine
<1>3. CASE call[v].pc = "destroy"
    <2>1. call[v].p \in Tracks /\ call[v].p # p
        BY <1>3, EverythingTyped, TracksArePositive DEF Typed, Works, Private
    <2>2. pipeline'[call[v].p] = pipeline[call[v].p]
        BY <2>1 DEF Works
    <2>3. Unowned(call[v].p)'
        BY <1>1, <1>2, <1>3, <2>1 DEF HandedOf
    <2>4. ASSUME NEW u \in Workers, call'[u].pc = "destroy", call'[u].p = call[v].p PROVE u = v
        BY <1>1, <1>3, <2>1, <2>4 DEF HandedOf, Works, OnlyMoves
    <2> QED BY <1>1, <1>3, <2>2, <2>3, <2>4 DEF HandedOf
<1>4. CASE call[v].pc = "install"
    <2>1. call[v].track \in Tracks /\ call[v].track # p
        BY <1>4, EverythingTyped, TracksArePositive DEF Typed, Works, Private, OfPlay
    <2>2. pipeline'[call[v].track] = pipeline[call[v].track]
        BY <2>1 DEF Works
    <2>3. Unowned(call[v].track)'
        BY <1>1, <1>2, <1>4, <2>1 DEF HandedOf
    <2>4. ASSUME NEW u \in Workers, call'[u].pc = "destroy" PROVE call'[u].p # call[v].track
        BY <1>1, <1>4, <2>1, <2>4 DEF HandedOf, Works, OnlyMoves
    <2> QED BY <1>1, <1>4, <2>2, <2>3, <2>4 DEF HandedOf
<1>5. CASE call[v].pc \notin {"destroy", "install"}
    BY <1>1, <1>5 DEF HandedOf
<1> QED BY <1>3, <1>4, <1>5

LEMMA FreshKept ==
    ASSUME Types, OnceEach, Elsewhere, Fresh, NEW w \in Workers, NEW p, NEW o,
           Works(w, p, o),
           call'[w].pc \notin BeforeLookup,
           call'[w].pc \in BeforeCreate => call[w].pc \in BeforeCreate \/ call[w].op # "play",
           o \in {None, Mine(w)} \/ (o = call[w].track /\ call'[w].pc \notin BeforeCreate)
    PROVE  Fresh'
<1>1. \A t \in Tracks : /\ NoSessionYet(t)' => NoSessionYet(t)
                        /\ NoPipelineYet(t)' => NoPipelineYet(t)
    BY StillFresh DEF Works
<1>2. call[w].s \in Tracks /\ call[w].pc \notin Outside
    BY EverythingTyped DEF Typed, Works
<1>3. ASSUME NEW t \in Tracks, NoSessionYet(t)'
      PROVE  /\ session'[t].pipeline = None
             /\ \A c \in Chats : sessions'[c] # t
             /\ \A v \in Workers : call'[v].s # t
    BY <1>1, <1>2, <1>3 DEF Fresh, Works, OnlyMoves
<1>4. ASSUME NEW t \in Tracks, NoPipelineYet(t)'
      PROVE  /\ \A s \in Tracks : session'[s].pipeline # t
             /\ \A v \in Workers : call'[v].p # t
    <2>1. /\ \A s \in Tracks : session[s].pipeline # t
          /\ \A v \in Workers : call[v].p # t
        BY <1>1, <1>4 DEF Fresh
    <2>2. CASE o \in {None, Mine(w)}
        <3>1. Mine(w) # t /\ None # t
            BY <1>2, <2>1, TracksArePositive DEF Mine
        <3>2. \A s \in Tracks : session'[s].pipeline # t
            BY <2>1, <2>2, <3>1 DEF Works
        <3>3. \A v \in Workers : call'[v].p # t
            BY <2>1, <3>1 DEF Works, OnlyMoves
        <3> QED BY <3>2, <3>3
    <2>3. CASE o = call[w].track /\ call'[w].pc \notin BeforeCreate
        <3>1. o # t
            <4>1. SUFFICES ASSUME o = t PROVE FALSE
                OBVIOUS
            <4>2. InHand(t, w) /\ handler' = handler
                BY <1>2, <2>3, <4>1 DEF Types, Control, ControlOf, InHand, Elsewhere, Outside
            <4>3. ~Unplayed(t)'
                <5>1. Unplayed(t)' <=> Unplayed(t)
                    BY DEF Elsewhere, Unplayed, InPool, InQueue
                <5>2. t <= issued["play"] /\ ~InPool(t) /\ \A c \in Chats : ~InQueue(t, c)
                    BY <4>2 DEF OnceEach, OnePlace
                <5>3. t \in Nat /\ issued["play"] \in Nat
                    BY TracksArePositive DEF Types, Shapes, Commands
                <5> QED BY <5>1, <5>2, <5>3 DEF Unplayed
            <4>4. PICK v \in Workers : InHand(t, v)' /\ call'[v].pc \in BeforeCreate
                BY <1>4, <4>3 DEF NoPipelineYet
            <4> QED BY <2>3, <4>2, <4>4 DEF OnceEach, OnePlace, InHand
        <3> QED BY <1>2, <2>1, <2>3, <3>1, TracksArePositive DEF Works, OnlyMoves, Mine
    <2> QED BY <2>2, <2>3
<1> QED BY <1>3, <1>4 DEF Fresh

LEMMA ApartKept ==
    ASSUME Types, Apart, NEW w \in Workers, NEW p, NEW o, Works(w, p, o)
    PROVE  Apart'
<1>1. \A c, d \in Chats : sessions'[c] # None /\ sessions'[c] = sessions'[d] => c = d
    BY DEF Works, Apart
<1>2. \A u, v \in Workers : call'[v].s # None /\ call'[v].s = call'[u].s => u = v
    <2>1. \A v \in Workers : call'[v].s = call[v].s
        BY DEF Works, OnlyMoves
    <2> QED BY <2>1 DEF Apart
<1>3. ASSUME NEW s \in Tracks, NEW r \in Tracks,
             session'[s].pipeline # None, session'[s].pipeline = session'[r].pipeline
      PROVE  s = r
    <2>1. \A q \in Tracks : q # call[w].s => session'[q].pipeline = session[q].pipeline
        BY DEF Works
    <2>2. \A q \in Tracks : q # call[w].s /\ o # None => session[q].pipeline # o
        BY EverythingTyped DEF Works, Private, Apart, Typed, Mine
    <2> QED BY <1>3, <2>1, <2>2 DEF Apart, Works
<1> QED BY <1>1, <1>2, <1>3 DEF Apart

LEMMA OwnedKept ==
    ASSUME Types, Owned, NEW w \in Workers, NEW p, NEW o, Works(w, p, o),
           o # None => pipeline'[o].object = "live"
    PROVE  Owned'
<1> SUFFICES ASSUME NEW s \in Tracks, session'[s].pipeline # None
             PROVE  pipeline'[session'[s].pipeline].object = "live" /\ Streamer!Alive(s)'
    BY DEF Owned
<1>1. CASE s = call[w].s
    BY <1>1 DEF Works, Streamer!Alive
<1>2. CASE s # call[w].s
    <2>1. session'[s].pipeline = session[s].pipeline /\ session[s].pipeline \in Tracks
        BY <1>2, EverythingTyped, TracksArePositive DEF Works, Typed, Places
    <2>2. pipeline'[session[s].pipeline] = pipeline[session[s].pipeline]
        BY <1>2, <2>1, TracksArePositive DEF Works, Private
    <2>3. Streamer!Alive(s)'
        <3>1. sessions' = sessions /\ \A v \in Workers : call'[v].s = call[v].s
            BY DEF Works, OnlyMoves
        <3>2. Streamer!Alive(s)
            BY <2>1, TracksArePositive DEF Owned
        <3> QED BY <3>1, <3>2 DEF Streamer!Alive
    <2> QED BY <2>1, <2>2, <2>3, TracksArePositive DEF Owned
<1> QED BY <1>1, <1>2

LEMMA ReadersKept ==
    ASSUME Types, Readers, NEW w \in Workers, NEW p, NEW o, Works(w, p, o),
           o # Mine(w) /\ Mine(w) # None => ~Streamer!ReaderActive(Mine(w)),
           p \in Tracks /\ Streamer!ReaderActive(p)' =>
              /\ pipeline'[p].volume \in Tracks
              /\ session'[pipeline'[p].volume].pipeline = p
    PROVE  Readers'
<1> SUFFICES ASSUME NEW q \in Tracks, Streamer!ReaderActive(q)', q # p
             PROVE  /\ pipeline'[q].volume \in Tracks
                    /\ session'[pipeline'[q].volume].pipeline = q
    BY DEF Readers
<1>1. pipeline'[q] = pipeline[q]
    BY DEF Works
<1>2. /\ Streamer!ReaderActive(q)
      /\ pipeline[q].volume \in Tracks /\ session[pipeline[q].volume].pipeline = q
    BY <1>1 DEF Readers, Streamer!ReaderActive
<1> QED BY <1>1, <1>2, TracksArePositive DEF Works, Mine

\* What is left to show of such a step concerns its own call only.
LEMMA OwnershipKept ==
    ASSUME Types, OnceEach, Ownership, Elsewhere, NEW w \in Workers, NEW p \in Places, NEW o,
           Works(w, p, o),
           call'[w].pc \notin BeforeLookup,
           call'[w].pc \in BeforeCreate => call[w].pc \in BeforeCreate \/ call[w].op # "play",
           o \in {None, Mine(w)} \/ (o = call[w].track /\ call'[w].pc \notin BeforeCreate),
           o # None => pipeline'[o].object = "live",
           o # Mine(w) /\ Mine(w) # None => ~Streamer!ReaderActive(Mine(w)),
           p \in Tracks /\ Streamer!ReaderActive(p)' =>
              /\ pipeline'[p].volume \in Tracks
              /\ session'[pipeline'[p].volume].pipeline = p,
           KnowsOf(w)', HandedOf(w)'
    PROVE  Ownership'
<1>1. Fresh'
    BY FreshKept DEF Ownership
<1>2. Apart'
    BY ApartKept DEF Ownership
<1>3. Owned'
    BY OwnedKept DEF Ownership
<1>4. Knows'
    BY OthersKnow DEF Ownership, Knows
<1>5. Handed'
    BY OthersHanded DEF Ownership, Handed
<1>6. Readers'
    BY ReadersKept DEF Ownership
<1>7. NoMisuse'
    BY DEF Ownership, NoMisuse, Works
<1> QED BY <1>1, <1>2, <1>3, <1>4, <1>5, <1>6, <1>7 DEF Ownership

LEMMA InspectStep ==
    ASSUME Types, OnceEach, Ownership, Elsewhere, NEW w \in Workers, Streamer!Inspect(w)
    PROVE  Ownership'
<1>1. ControlOf(handler[w], call[w]) /\ Typed /\ KnowsOf(w) /\ HandedOf(w)
    BY EverythingTyped DEF Types, Control, Ownership, Knows, Handed
<1>2. InspectDoes(w)
    BY InspectFacts
<1>3. Mine(w) # None => pipeline[Mine(w)].object = "live"
    BY <1>1, <1>2 DEF Typed, Ownership, Owned, Mine, Outside, InspectDoes
<1>4. Works(w, None, Mine(w))
    BY <1>1, <1>2, <1>3, MineIsPrivate, DeletedIsPrivate, Literals, TracksArePositive DEF
        ControlOf, Typed, KnowsOf, HandedOf, Outside, Either, OfPlay, OfStop, Applying, Works,
        Mine, Private, Ownership, Streamer!AfterReset, Moves, OnlyMoves, InspectDoes
<1>5. KnowsOf(w)' /\ HandedOf(w)'
    <2>1. KnowsOf(w)'
        BY <1>1, <1>2, <1>3, <1>4, TracksArePositive DEF ControlOf, Typed, KnowsOf, HandedOf,
            Outside, Either, OfPlay, OfStop, Applying, Mine, Works, Streamer!AfterReset, Moves,
            OnlyMoves, InspectDoes
    <2>2. HandedOf(w)'
        BY <1>1, <1>2, <1>3, <1>4, TracksArePositive DEF Typed, KnowsOf, HandedOf, Outside,
            Either, OfPlay, OfStop, Applying, Mine, Private, Unowned, Works, Owned, Ownership,
            Streamer!AfterReset, Moves, OnlyMoves, InspectDoes
    <2> QED BY <2>1, <2>2
<1> QED
    BY <1>1, <1>2, <1>3, <1>4, <1>5, OwnershipKept, Literals, TracksArePositive DEF ControlOf,
        Typed, KnowsOf, HandedOf, Outside, Either, OfPlay, OfStop, Applying, Mine, Owned,
        Ownership, BeforeLookup, BeforeCreate, Streamer!ReaderActive, Streamer!AfterReset,
        Moves, OnlyMoves, InspectDoes

LEMMA HaltStep ==
    ASSUME Types, OnceEach, Ownership, Elsewhere, NEW w \in Workers, Streamer!Halt(w)
    PROVE  Ownership'
<1>1. ControlOf(handler[w], call[w]) /\ Typed /\ KnowsOf(w) /\ HandedOf(w)
    BY EverythingTyped DEF Types, Control, Ownership, Knows, Handed
<1>2. HaltDoes(w)
    BY HaltFacts
<1>3. Mine(w) # None => pipeline[Mine(w)].object = "live"
    BY <1>1, <1>2 DEF Typed, Ownership, Owned, Mine, Outside, HaltDoes
<1>4. Works(w, Mine(w), Mine(w))
    BY <1>1, <1>2, <1>3, MineIsPrivate, DeletedIsPrivate, Literals, TracksArePositive DEF ControlOf,
       Typed, KnowsOf, HandedOf, Outside, Either, OfPlay, OfStop, Applying, Works, Mine, Private,
       Ownership, Streamer!AfterReset, Moves, OnlyMoves, Sets, Crashes, Tested, HaltDoes
<1>5. KnowsOf(w)' /\ HandedOf(w)'
    <2>1. KnowsOf(w)'
        BY <1>1, <1>2, <1>3, <1>4, TracksArePositive DEF ControlOf, Typed, KnowsOf, HandedOf,
            Outside, Either, OfPlay, OfStop, Applying, Mine, Works, Streamer!AfterReset, Moves,
            OnlyMoves, Sets, Crashes, Tested, HaltDoes
    <2>2. HandedOf(w)'
        BY <1>1, <1>2, <1>3, <1>4, TracksArePositive DEF Typed, KnowsOf, HandedOf, Outside,
            Either, OfPlay, OfStop, Applying, Mine, Private, Unowned, Works, Owned, Ownership,
            Streamer!AfterReset, Moves, OnlyMoves, Sets, Crashes, Tested, HaltDoes
    <2> QED BY <2>1, <2>2
<1>6. ASSUME NEW q \in Tracks, q = Mine(w), Streamer!ReaderActive(q)'
      PROVE  pipeline'[q].volume \in Tracks /\ session'[pipeline'[q].volume].pipeline = q
    <2>1. call[w].p = q /\ Tested(w) = {q} /\ None \notin Tested(w)
        BY <1>1, <1>2, <1>6 DEF KnowsOf, Tested, HaltDoes
    <2>2. pipeline'[q].reader = pipeline[q].reader /\ pipeline'[q].volume = pipeline[q].volume
        BY <1>2, <2>1 DEF Sets, HaltDoes
    <2>3. session' = session
        BY <1>2, <2>1 DEF HaltDoes
    <2> QED BY <1>6, <2>2, <2>3 DEF Ownership, Readers, Streamer!ReaderActive
<1>7. /\ call'[w].pc \notin BeforeLookup
      /\ call'[w].pc \in BeforeCreate => call[w].pc \in BeforeCreate \/ call[w].op # "play"
    BY <1>1, <1>2, <1>3, TracksArePositive DEF KnowsOf, Typed, ControlOf, Outside, Either,
        OfPlay, OfStop, Applying, BeforeLookup, BeforeCreate, Moves, OnlyMoves, Sets, Crashes,
        Tested, HaltDoes
<1>8. Mine(w) \in Places /\ (Mine(w) # None => pipeline'[Mine(w)].object = "live")
    BY <1>1, <1>2, <1>3, TracksArePositive DEF KnowsOf, Typed, Places, Outside, Either, OfPlay,
        OfStop, Applying, Moves, OnlyMoves, Sets, Crashes, Tested, HaltDoes
<1> QED BY <1>4, <1>5, <1>6, <1>7, <1>8, OwnershipKept

LEMMA JoinStep ==
    ASSUME Types, OnceEach, Ownership, Elsewhere, NEW w \in Workers, Streamer!Join(w)
    PROVE  Ownership'
<1>1. ControlOf(handler[w], call[w]) /\ Typed /\ KnowsOf(w) /\ HandedOf(w)
    BY EverythingTyped DEF Types, Control, Ownership, Knows, Handed
<1>2. JoinDoes(w)
    BY JoinFacts
<1>3. Mine(w) # None => pipeline[Mine(w)].object = "live"
    BY <1>1, <1>2 DEF Typed, Ownership, Owned, Mine, Outside, JoinDoes
<1>4. Works(w, Mine(w), Mine(w))
    BY <1>1, <1>2, <1>3, MineIsPrivate, DeletedIsPrivate, Literals, TracksArePositive DEF
        ControlOf, Typed, KnowsOf, HandedOf, Outside, Either, OfPlay, OfStop, Applying, Works,
        Mine, Private, Ownership, Streamer!AfterReset, Moves, OnlyMoves, Sets, JoinDoes
<1>5. KnowsOf(w)' /\ HandedOf(w)'
    <2>1. KnowsOf(w)'
        BY <1>1, <1>2, <1>3, <1>4, TracksArePositive DEF ControlOf, Typed, KnowsOf, HandedOf,
            Outside, Either, OfPlay, OfStop, Applying, Mine, Works, Streamer!AfterReset, Moves,
            OnlyMoves, Sets, JoinDoes
    <2>2. HandedOf(w)'
        BY <1>1, <1>2, <1>3, <1>4, TracksArePositive DEF Typed, KnowsOf, HandedOf, Outside,
            Either, OfPlay, OfStop, Applying, Mine, Private, Unowned, Works, Owned, Ownership,
            Streamer!AfterReset, Moves, OnlyMoves, Sets, JoinDoes
    <2> QED BY <2>1, <2>2
<1>6. ASSUME NEW q \in Tracks, q = Mine(w), Streamer!ReaderActive(q)'
      PROVE  pipeline'[q].volume \in Tracks /\ session'[pipeline'[q].volume].pipeline = q
    BY <1>1, <1>2, <1>3, <1>6, TracksArePositive DEF KnowsOf, Typed, Outside, Either, OfPlay,
        OfStop, Applying, Ownership, Readers, Mine, Streamer!ReaderActive, Moves, OnlyMoves,
        Sets, JoinDoes
<1>7. /\ call'[w].pc \notin BeforeLookup
      /\ call'[w].pc \in BeforeCreate => call[w].pc \in BeforeCreate \/ call[w].op # "play"
    BY <1>1, <1>2, <1>3, TracksArePositive DEF KnowsOf, Typed, ControlOf, Outside, Either,
        OfPlay, OfStop, Applying, BeforeLookup, BeforeCreate, Moves, OnlyMoves, Sets, JoinDoes
<1>8. Mine(w) \in Places /\ (Mine(w) # None => pipeline'[Mine(w)].object = "live")
    BY <1>1, <1>2, <1>3, TracksArePositive DEF KnowsOf, Typed, Places, Outside, Either, OfPlay,
        OfStop, Applying, Moves, OnlyMoves, Sets, JoinDoes
<1> QED BY <1>4, <1>5, <1>6, <1>7, <1>8, OwnershipKept

LEMMA ResetStep ==
    ASSUME Types, OnceEach, Ownership, Elsewhere, NEW w \in Workers, Streamer!Reset(w)
    PROVE  Ownership'
<1>1. ControlOf(handler[w], call[w]) /\ Typed /\ KnowsOf(w) /\ HandedOf(w)
    BY EverythingTyped DEF Types, Control, Ownership, Knows, Handed
<1>2. ResetDoes(w)
    BY ResetFacts
<1>3. Mine(w) # None => pipeline[Mine(w)].object = "live"
    BY <1>1, <1>2 DEF Typed, Ownership, Owned, Mine, Outside, ResetDoes
<1>4. Works(w, None, Mine(w))
    BY <1>1, <1>2, <1>3, MineIsPrivate, DeletedIsPrivate, Literals, TracksArePositive DEF
        ControlOf, Typed, KnowsOf, HandedOf, Outside, Either, OfPlay, OfStop, Applying, Works,
        Mine, Private, Ownership, Streamer!AfterReset, Moves, OnlyMoves, ResetDoes
<1>5. KnowsOf(w)' /\ HandedOf(w)'
    <2>1. KnowsOf(w)'
        BY <1>1, <1>2, <1>3, <1>4, TracksArePositive DEF ControlOf, Typed, KnowsOf, HandedOf,
            Outside, Either, OfPlay, OfStop, Applying, Mine, Works, Streamer!AfterReset, Moves,
            OnlyMoves, ResetDoes
    <2>2. HandedOf(w)'
        BY <1>1, <1>2, <1>3, <1>4, TracksArePositive DEF Typed, KnowsOf, HandedOf, Outside,
            Either, OfPlay, OfStop, Applying, Mine, Private, Unowned, Works, Owned, Ownership,
            Streamer!AfterReset, Moves, OnlyMoves, ResetDoes
    <2> QED BY <2>1, <2>2
<1> QED
    BY <1>1, <1>2, <1>3, <1>4, <1>5, OwnershipKept, Literals, TracksArePositive DEF ControlOf,
        Typed, KnowsOf, HandedOf, Outside, Either, OfPlay, OfStop, Applying, Mine, Owned,
        Ownership, BeforeLookup, BeforeCreate, Streamer!ReaderActive, Streamer!AfterReset,
        Moves, OnlyMoves, ResetDoes

LEMMA ClearStep ==
    ASSUME Types, OnceEach, Ownership, Elsewhere, NEW w \in Workers, Streamer!Clear(w)
    PROVE  Ownership'
<1>1. ControlOf(handler[w], call[w]) /\ Typed /\ KnowsOf(w) /\ HandedOf(w)
    BY EverythingTyped DEF Types, Control, Ownership, Knows, Handed
<1>2. ClearDoes(w)
    BY ClearFacts
<1>3. Mine(w) # None => pipeline[Mine(w)].object = "live"
    BY <1>1, <1>2 DEF Typed, Ownership, Owned, Mine, Outside, ClearDoes
<1>4. Works(w, Mine(w), None)
    BY <1>1, <1>2, <1>3, MineIsPrivate, DeletedIsPrivate, Literals, TracksArePositive DEF
        ControlOf, Typed, KnowsOf, HandedOf, Outside, Either, OfPlay, OfStop, Applying, Works,
        Mine, Private, Ownership, Streamer!AfterReset, Moves, OnlyMoves, Sets, Owns, ClearDoes
<1>5. KnowsOf(w)' /\ HandedOf(w)'
    <2>1. /\ call[w].p = Mine(w) /\ Mine(w) \in Tracks /\ call[w].s \in Tracks
          /\ pipeline[Mine(w)].object = "live" /\ pipeline[Mine(w)].reader = "none"
        BY <1>1, <1>2, <1>3, TracksArePositive DEF KnowsOf, Typed, Outside, Either, Places,
           ClearDoes
    <2>2. /\ call'[w].pc = "destroy" /\ call'[w].p = Mine(w)
          /\ call'[w].next \in {"assign", "idle"}
          /\ pipeline'[Mine(w)].object = "live" /\ pipeline'[Mine(w)].reader = "none"
        BY <1>2, <2>1, TracksArePositive DEF Moves, Sets, Streamer!AfterReset, ClearDoes
    <2>3. call'[w].s = call[w].s /\ Mine(w)' = None
        BY <1>4, <2>1 DEF Works, Mine
    <2>4. \A s \in Tracks : session'[s].pipeline # Mine(w)
        BY <1>4, <2>1, TracksArePositive DEF Works, Private
    <2>5. \A v \in Workers : call'[v].pc = "destroy" /\ call'[v].p = Mine(w) => v = w
        BY <1>4, <2>1, TracksArePositive DEF Works, Private, OnlyMoves
    <2>6. KnowsOf(w)'
        BY <1>1, <1>4, <2>1, <2>2, <2>3 DEF KnowsOf, Works, Outside, Applying, OfStop
    <2>7. HandedOf(w)'
        BY <2>2, <2>4, <2>5 DEF HandedOf, Unowned
    <2> QED BY <2>6, <2>7
<1> QED
    BY <1>1, <1>2, <1>3, <1>4, <1>5, OwnershipKept, Literals, TracksArePositive DEF ControlOf,
        Typed, KnowsOf, HandedOf, Outside, Either, OfPlay, OfStop, Applying, Mine, Owned,
        Ownership, BeforeLookup, BeforeCreate, Streamer!ReaderActive, Streamer!AfterReset,
        Moves, OnlyMoves, Sets, Owns, ClearDoes

LEMMA DestroyStep ==
    ASSUME Types, OnceEach, Ownership, Elsewhere, NEW w \in Workers, Streamer!Destroy(w)
    PROVE  Ownership'
<1>1. ControlOf(handler[w], call[w]) /\ Typed /\ KnowsOf(w) /\ HandedOf(w)
    BY EverythingTyped DEF Types, Control, Ownership, Knows, Handed
<1>2. DestroyDoes(w)
    BY DestroyFacts
<1>3. Mine(w) # None => pipeline[Mine(w)].object = "live"
    BY <1>1, <1>2 DEF Typed, Ownership, Owned, Mine, Outside, DestroyDoes
<1>4. Works(w, call[w].p, Mine(w))
    BY <1>1, <1>2, <1>3, MineIsPrivate, DeletedIsPrivate, Literals, TracksArePositive DEF
        ControlOf, Typed, KnowsOf, HandedOf, Outside, Either, OfPlay, OfStop, Applying, Works,
        Mine, Private, Ownership, Streamer!AfterReset, Moves, OnlyMoves, Sets, DestroyDoes
<1>5. KnowsOf(w)' /\ HandedOf(w)'
    <2>1. KnowsOf(w)'
        BY <1>1, <1>2, <1>3, <1>4, TracksArePositive DEF ControlOf, Typed, KnowsOf, HandedOf,
            Outside, Either, OfPlay, OfStop, Applying, Mine, Works, Streamer!AfterReset, Moves,
            OnlyMoves, Sets, DestroyDoes
    <2>2. HandedOf(w)'
        BY <1>1, <1>2, <1>3, <1>4, TracksArePositive DEF Typed, KnowsOf, HandedOf, Outside,
            Either, OfPlay, OfStop, Applying, Mine, Private, Unowned, Works, Owned, Ownership,
            Streamer!AfterReset, Moves, OnlyMoves, Sets, DestroyDoes
    <2> QED BY <2>1, <2>2
<1> QED
    BY <1>1, <1>2, <1>3, <1>4, <1>5, OwnershipKept, Literals, TracksArePositive DEF ControlOf,
        Typed, KnowsOf, HandedOf, Outside, Either, OfPlay, OfStop, Applying, Mine, Owned,
        Ownership, BeforeLookup, BeforeCreate, Streamer!ReaderActive, Streamer!AfterReset,
        Moves, OnlyMoves, Sets, DestroyDoes

LEMMA AssignStep ==
    ASSUME Types, OnceEach, Ownership, Elsewhere, NEW w \in Workers, Streamer!Assign(w)
    PROVE  Ownership'
<1>1. ControlOf(handler[w], call[w]) /\ Typed /\ KnowsOf(w) /\ HandedOf(w)
    BY EverythingTyped DEF Types, Control, Ownership, Knows, Handed
<1>2. AssignDoes(w)
    BY AssignFacts
<1>3. Mine(w) # None => pipeline[Mine(w)].object = "live"
    BY <1>1, <1>2 DEF Typed, Ownership, Owned, Mine, Outside, AssignDoes
<1>4. Works(w, None, Mine(w))
    BY <1>1, <1>2, <1>3, MineIsPrivate, DeletedIsPrivate, Literals, TracksArePositive DEF
        ControlOf, Typed, KnowsOf, HandedOf, Outside, Either, OfPlay, OfStop, Applying, Works,
        Mine, Private, Ownership, Streamer!AfterReset, Moves, OnlyMoves, KeepsOwners, AssignDoes
<1>5. KnowsOf(w)' /\ HandedOf(w)'
    <2>1. KnowsOf(w)'
        BY <1>1, <1>2, <1>3, <1>4, TracksArePositive DEF ControlOf, Typed, KnowsOf, HandedOf,
            Outside, Either, OfPlay, OfStop, Applying, Mine, Works, Streamer!AfterReset, Moves,
            OnlyMoves, KeepsOwners, AssignDoes
    <2>2. HandedOf(w)'
        BY <1>1, <1>2, <1>3, <1>4, TracksArePositive DEF Typed, KnowsOf, HandedOf, Outside,
            Either, OfPlay, OfStop, Applying, Mine, Private, Unowned, Works, Owned, Ownership,
            Streamer!AfterReset, Moves, OnlyMoves, KeepsOwners, AssignDoes
    <2> QED BY <2>1, <2>2
<1> QED
    BY <1>1, <1>2, <1>3, <1>4, <1>5, OwnershipKept, Literals, TracksArePositive DEF ControlOf,
        Typed, KnowsOf, HandedOf, Outside, Either, OfPlay, OfStop, Applying, Mine, Owned,
        Ownership, BeforeLookup, BeforeCreate, Streamer!ReaderActive, Streamer!AfterReset,
        Moves, OnlyMoves, KeepsOwners, AssignDoes

LEMMA StartStep ==
    ASSUME Types, OnceEach, Ownership, Elsewhere, NEW w \in Workers, Streamer!Start(w)
    PROVE  Ownership'
<1>1. ControlOf(handler[w], call[w]) /\ Typed /\ KnowsOf(w) /\ HandedOf(w)
    BY EverythingTyped DEF Types, Control, Ownership, Knows, Handed
<1>2. StartDoes(w)
    BY StartFacts
<1>3. Mine(w) # None => pipeline[Mine(w)].object = "live"
    BY <1>1, <1>2 DEF Typed, Ownership, Owned, Mine, Outside, StartDoes
<1>4. Works(w, None, Mine(w))
    BY <1>1, <1>2, <1>3, MineIsPrivate, DeletedIsPrivate, Literals, TracksArePositive DEF
        ControlOf, Typed, KnowsOf, HandedOf, Outside, Either, OfPlay, OfStop, Applying, Works,
        Mine, Private, Ownership, Streamer!AfterReset, Moves, OnlyMoves, Sets, Crashes, StartDoes
<1>5. KnowsOf(w)' /\ HandedOf(w)'
    <2>1. KnowsOf(w)'
        BY <1>1, <1>2, <1>3, <1>4, TracksArePositive DEF ControlOf, Typed, KnowsOf, HandedOf,
            Outside, Either, OfPlay, OfStop, Applying, Mine, Works, Streamer!AfterReset, Moves,
            OnlyMoves, Sets, Crashes, StartDoes
    <2>2. HandedOf(w)'
        BY <1>1, <1>2, <1>3, <1>4, TracksArePositive DEF Typed, KnowsOf, HandedOf, Outside,
            Either, OfPlay, OfStop, Applying, Mine, Private, Unowned, Works, Owned, Ownership,
            Streamer!AfterReset, Moves, OnlyMoves, Sets, Crashes, StartDoes
    <2> QED BY <2>1, <2>2
<1> QED
    BY <1>1, <1>2, <1>3, <1>4, <1>5, OwnershipKept, Literals, TracksArePositive DEF ControlOf,
        Typed, KnowsOf, HandedOf, Outside, Either, OfPlay, OfStop, Applying, Mine, Owned,
        Ownership, BeforeLookup, BeforeCreate, Streamer!ReaderActive, Streamer!AfterReset,
        Moves, OnlyMoves, Sets, Crashes, StartDoes

LEMMA LaunchStep ==
    ASSUME Types, OnceEach, Ownership, Elsewhere, NEW w \in Workers, Streamer!Launch(w)
    PROVE  Ownership'
<1>1. ControlOf(handler[w], call[w]) /\ Typed /\ KnowsOf(w) /\ HandedOf(w)
    BY EverythingTyped DEF Types, Control, Ownership, Knows, Handed
<1>2. LaunchDoes(w)
    BY LaunchFacts
<1>3. Mine(w) # None => pipeline[Mine(w)].object = "live"
    BY <1>1, <1>2 DEF Typed, Ownership, Owned, Mine, Outside, LaunchDoes
<1>4. Works(w, Mine(w), Mine(w))
    BY <1>1, <1>2, <1>3, MineIsPrivate, DeletedIsPrivate, Literals, TracksArePositive DEF
        ControlOf, Typed, KnowsOf, HandedOf, Outside, Either, OfPlay, OfStop, Applying, Works,
        Mine, Private, Ownership, Streamer!AfterReset, Moves, OnlyMoves, Sets, Crashes, LaunchDoes
<1>5. KnowsOf(w)' /\ HandedOf(w)'
    <2>1. KnowsOf(w)'
        BY <1>1, <1>2, <1>3, <1>4, TracksArePositive DEF ControlOf, Typed, KnowsOf, HandedOf,
            Outside, Either, OfPlay, OfStop, Applying, Mine, Works, Streamer!AfterReset, Moves,
            OnlyMoves, Sets, Crashes, LaunchDoes
    <2>2. HandedOf(w)'
        BY <1>1, <1>2, <1>3, <1>4, TracksArePositive DEF Typed, KnowsOf, HandedOf, Outside,
            Either, OfPlay, OfStop, Applying, Mine, Private, Unowned, Works, Owned, Ownership,
            Streamer!AfterReset, Moves, OnlyMoves, Sets, Crashes, LaunchDoes
    <2> QED BY <2>1, <2>2
<1>6. ASSUME NEW q \in Tracks, q = Mine(w), Streamer!ReaderActive(q)'
      PROVE  pipeline'[q].volume \in Tracks /\ session'[pipeline'[q].volume].pipeline = q
    BY <1>1, <1>2, <1>3, <1>6, TracksArePositive DEF KnowsOf, Typed, Outside, Either, OfPlay,
        OfStop, Applying, Ownership, Readers, Mine, Streamer!ReaderActive, Moves, OnlyMoves,
        Sets, Crashes, LaunchDoes
<1>7. /\ call'[w].pc \notin BeforeLookup
      /\ call'[w].pc \in BeforeCreate => call[w].pc \in BeforeCreate \/ call[w].op # "play"
    BY <1>1, <1>2, <1>3, TracksArePositive DEF KnowsOf, Typed, ControlOf, Outside, Either, OfPlay,
       OfStop, Applying, BeforeLookup, BeforeCreate, Moves, OnlyMoves, Sets, Crashes, LaunchDoes
<1>8. Mine(w) \in Places /\ (Mine(w) # None => pipeline'[Mine(w)].object = "live")
    BY <1>1, <1>2, <1>3, TracksArePositive DEF KnowsOf, Typed, Places, Outside, Either, OfPlay,
        OfStop, Applying, Moves, OnlyMoves, Sets, Crashes, LaunchDoes
<1> QED BY <1>4, <1>5, <1>6, <1>7, <1>8, OwnershipKept

LEMMA PlayingStep ==
    ASSUME Types, OnceEach, Ownership, Elsewhere, NEW w \in Workers, Streamer!Playing(w)
    PROVE  Ownership'
<1>1. ControlOf(handler[w], call[w]) /\ Typed /\ KnowsOf(w) /\ HandedOf(w)
    BY EverythingTyped DEF Types, Control, Ownership, Knows, Handed
<1>2. PlayingDoes(w)
    BY PlayingFacts
<1>3. Mine(w) # None => pipeline[Mine(w)].object = "live"
    BY <1>1, <1>2 DEF Typed, Ownership, Owned, Mine, Outside, PlayingDoes
<1>4. Works(w, None, Mine(w))
    BY <1>1, <1>2, <1>3, MineIsPrivate, DeletedIsPrivate, Literals, TracksArePositive DEF
        ControlOf, Typed, KnowsOf, HandedOf, Outside, Either, OfPlay, OfStop, Applying, Works,
        Mine, Private, Ownership, Streamer!AfterReset, Moves, OnlyMoves, KeepsOwners, PlayingDoes
<1>5. KnowsOf(w)' /\ HandedOf(w)'
    <2>1. KnowsOf(w)'
        BY <1>1, <1>2, <1>3, <1>4, TracksArePositive DEF ControlOf, Typed, KnowsOf, HandedOf,
            Outside, Either, OfPlay, OfStop, Applying, Mine, Works, Streamer!AfterReset, Moves,
            OnlyMoves, KeepsOwners, PlayingDoes
    <2>2. HandedOf(w)'
        BY <1>1, <1>2, <1>3, <1>4, TracksArePositive DEF Typed, KnowsOf, HandedOf, Outside,
            Either, OfPlay, OfStop, Applying, Mine, Private, Unowned, Works, Owned, Ownership,
            Streamer!AfterReset, Moves, OnlyMoves, KeepsOwners, PlayingDoes
    <2> QED BY <2>1, <2>2
<1> QED
    BY <1>1, <1>2, <1>3, <1>4, <1>5, OwnershipKept, Literals, TracksArePositive DEF ControlOf,
        Typed, KnowsOf, HandedOf, Outside, Either, OfPlay, OfStop, Applying, Mine, Owned,
        Ownership, BeforeLookup, BeforeCreate, Streamer!ReaderActive, Streamer!AfterReset,
        Moves, OnlyMoves, KeepsOwners, PlayingDoes

LEMMA SetIdleStep ==
    ASSUME Types, OnceEach, Ownership, Elsewhere, NEW w \in Workers, Streamer!SetIdle(w)
    PROVE  Ownership'
<1>1. ControlOf(handler[w], call[w]) /\ Typed /\ KnowsOf(w) /\ HandedOf(w)
    BY EverythingTyped DEF Types, Control, Ownership, Knows, Handed
<1>2. SetIdleDoes(w)
    BY SetIdleFacts
<1>3. Mine(w) # None => pipeline[Mine(w)].object = "live"
    BY <1>1, <1>2 DEF Typed, Ownership, Owned, Mine, Outside, SetIdleDoes
<1>4. Works(w, None, Mine(w))
    BY <1>1, <1>2, <1>3, MineIsPrivate, DeletedIsPrivate, Literals, TracksArePositive DEF
        ControlOf, Typed, KnowsOf, HandedOf, Outside, Either, OfPlay, OfStop, Applying, Works,
        Mine, Private, Ownership, Streamer!AfterReset, Moves, OnlyMoves, KeepsOwners, SetIdleDoes
<1>5. KnowsOf(w)' /\ HandedOf(w)'
    <2>1. KnowsOf(w)'
        BY <1>1, <1>2, <1>3, <1>4, TracksArePositive DEF ControlOf, Typed, KnowsOf, HandedOf,
            Outside, Either, OfPlay, OfStop, Applying, Mine, Works, Streamer!AfterReset, Moves,
            OnlyMoves, KeepsOwners, SetIdleDoes
    <2>2. HandedOf(w)'
        BY <1>1, <1>2, <1>3, <1>4, TracksArePositive DEF Typed, KnowsOf, HandedOf, Outside,
            Either, OfPlay, OfStop, Applying, Mine, Private, Unowned, Works, Owned, Ownership,
            Streamer!AfterReset, Moves, OnlyMoves, KeepsOwners, SetIdleDoes
    <2> QED BY <2>1, <2>2
<1> QED
    BY <1>1, <1>2, <1>3, <1>4, <1>5, OwnershipKept, Literals, TracksArePositive DEF ControlOf,
        Typed, KnowsOf, HandedOf, Outside, Either, OfPlay, OfStop, Applying, Mine, Owned,
        Ownership, BeforeLookup, BeforeCreate, Streamer!ReaderActive, Streamer!AfterReset,
        Moves, OnlyMoves, KeepsOwners, SetIdleDoes

LEMMA LeaveStep ==
    ASSUME Types, OnceEach, Ownership, Elsewhere, NEW w \in Workers, Streamer!Leave(w)
    PROVE  Ownership'
<1>1. ControlOf(handler[w], call[w]) /\ Typed /\ KnowsOf(w) /\ HandedOf(w)
    BY EverythingTyped DEF Types, Control, Ownership, Knows, Handed
<1>2. LeaveDoes(w)
    BY LeaveFacts
<1>3. Mine(w) # None => pipeline[Mine(w)].object = "live"
    BY <1>1, <1>2 DEF Typed, Ownership, Owned, Mine, Outside, LeaveDoes
<1>4. Works(w, None, Mine(w))
    BY <1>1, <1>2, <1>3, MineIsPrivate, DeletedIsPrivate, Literals, TracksArePositive DEF
        ControlOf, Typed, KnowsOf, HandedOf, Outside, Either, OfPlay, OfStop, Applying, Works,
        Mine, Private, Ownership, Streamer!AfterReset, Moves, OnlyMoves, CallsTyped, LeaveDoes
<1>5. KnowsOf(w)' /\ HandedOf(w)'
    <2>1. KnowsOf(w)'
        BY <1>1, <1>2, <1>3, <1>4, TracksArePositive DEF ControlOf, Typed, KnowsOf, HandedOf,
            Outside, Either, OfPlay, OfStop, Applying, Mine, Works, Streamer!AfterReset, Moves,
            OnlyMoves, CallsTyped, LeaveDoes
    <2>2. HandedOf(w)'
        BY <1>1, <1>2, <1>3, <1>4, TracksArePositive DEF Typed, KnowsOf, HandedOf, Outside,
            Either, OfPlay, OfStop, Applying, Mine, Private, Unowned, Works, Owned, Ownership,
            Streamer!AfterReset, Moves, OnlyMoves, CallsTyped, LeaveDoes
    <2> QED BY <2>1, <2>2
<1> QED
    BY <1>1, <1>2, <1>3, <1>4, <1>5, OwnershipKept, Literals, TracksArePositive DEF ControlOf,
        Typed, KnowsOf, HandedOf, Outside, Either, OfPlay, OfStop, Applying, Mine, Owned,
        Ownership, BeforeLookup, BeforeCreate, Streamer!ReaderActive, Streamer!AfterReset,
        Moves, OnlyMoves, CallsTyped, LeaveDoes

LEMMA JoinOfDestroyedStep ==
    ASSUME Types, OnceEach, Ownership, Elsewhere, NEW w \in Workers, Streamer!JoinOfDestroyed(w)
    PROVE  Ownership'
<1>1. ControlOf(handler[w], call[w]) /\ Typed /\ KnowsOf(w) /\ HandedOf(w)
    BY EverythingTyped DEF Types, Control, Ownership, Knows, Handed
<1>2. JoinOfDestroyedDoes(w)
    BY JoinOfDestroyedFacts
<1> QED
    BY <1>1, <1>2 DEF KnowsOf, Typed, Ownership, Owned, Mine, Outside, Either, JoinOfDestroyedDoes

LEMMA DestroyedTwiceStep ==
    ASSUME Types, OnceEach, Ownership, Elsewhere, NEW w \in Workers, Streamer!DestroyedTwice(w)
    PROVE  Ownership'
<1>1. ControlOf(handler[w], call[w]) /\ Typed /\ KnowsOf(w) /\ HandedOf(w)
    BY EverythingTyped DEF Types, Control, Ownership, Knows, Handed
<1>2. DestroyedTwiceDoes(w)
    BY DestroyedTwiceFacts
<1> QED
    BY <1>1, <1>2 DEF HandedOf, DestroyedTwiceDoes

LEMMA DestroyThrowsStep ==
    ASSUME Types, OnceEach, Ownership, Elsewhere, NEW w \in Workers, Streamer!DestroyThrows(w)
    PROVE  Ownership'
<1>1. ControlOf(handler[w], call[w]) /\ Typed /\ KnowsOf(w) /\ HandedOf(w)
    BY EverythingTyped DEF Types, Control, Ownership, Knows, Handed
<1>2. DestroyThrowsDoes(w)
    BY DestroyThrowsFacts
<1> QED
    BY <1>1 DEF HandedOf, Streamer!DestroyThrows, Streamer!JoinedElsewhere, Streamer!ReaderActive

LEMMA JoinThrowsStep ==
    ASSUME Types, OnceEach, Ownership, Elsewhere, NEW w \in Workers, Streamer!JoinThrows(w)
    PROVE  Ownership'
<1>1. ControlOf(handler[w], call[w]) /\ Typed /\ KnowsOf(w) /\ HandedOf(w)
    BY EverythingTyped DEF Types, Control, Ownership, Knows, Handed
<1>2. JoinThrowsDoes(w)
    BY JoinThrowsFacts
<1> QED
    <2>1. PICK v \in Workers : /\ v # w /\ call[v].pc \in {"join", "destroy"}
                               /\ call[v].p = call[w].p
        BY <1>2 DEF JoinThrowsDoes
    <2>2. call[w].p = Mine(w) /\ Mine(w) # None /\ call[w].s \in Tracks
        BY <1>1, <1>2 DEF KnowsOf, Typed, Outside, JoinThrowsDoes
    <2>3. CASE call[v].pc = "join"
        <3>1. call[v].s \in Tracks /\ call[v].s # None /\ call[v].p = Mine(v)
            BY <1>1, <2>3, TracksArePositive DEF Ownership, Knows, KnowsOf, Typed, Outside
        <3> QED BY <2>1, <2>2, <3>1 DEF Ownership, Apart, Mine
    <2>4. CASE call[v].pc = "destroy"
        BY <2>1, <2>2, <2>4 DEF Ownership, Handed, HandedOf, Unowned, Mine
    <2> QED BY <2>1, <2>3, <2>4

-----------------------------------------------------------------------------
(* The steps in which a call takes up a session or lets go of it. *)

LEMMA TracksDiffer ==
    ASSUME Types, OnceEach, NEW v \in Workers, NEW w \in Workers, call[w].track \in Tracks,
           call[v].pc # "none", call[w].pc # "none", call[v].track = call[w].track
    PROVE  v = w
BY DEF Types, Control, ControlOf, OnceEach, OnePlace, InHand

\* The play of a track has it in hand, and nothing else has.
LEMMA PlaysItsTrack ==
    ASSUME Types, OnceEach, NEW w \in Workers, call[w].pc # "none", call[w].op = "play",
           NEW t \in Tracks, t = call[w].track
    PROVE  /\ InHand(t, w) /\ ~Unplayed(t)
           /\ \A v \in Workers : InHand(t, v) => v = w
<1>1. InHand(t, w)
    BY DEF Types, Control, ControlOf, InHand
<1>2. t <= issued["play"] /\ ~InPool(t) /\ \A c \in Chats : ~InQueue(t, c)
    BY <1>1 DEF OnceEach, OnePlace
<1>3. t \in Nat /\ issued["play"] \in Nat
    BY TracksArePositive DEF Types, Shapes, Commands
<1> QED BY <1>1, <1>2, <1>3 DEF OnceEach, OnePlace, Unplayed

\* w is at work on session s from now on, and alone; nothing else changes in the objects.
Turns(w, s) ==
    /\ OnlyMoves(w)
    /\ call'[w].s = s
    /\ call[w].pc \notin {"destroy", "install"} /\ call'[w].pc \notin {"destroy", "install"}
    /\ s # None => \A v \in Workers : v # w => call[v].s # s
    /\ \A r \in Tracks : session'[r].pipeline = session[r].pipeline
    /\ \A q \in Tracks :
          /\ pipeline'[q].object = pipeline[q].object /\ pipeline'[q].reader = pipeline[q].reader
          /\ pipeline'[q].running = pipeline[q].running
          /\ pipeline'[q].volume = pipeline[q].volume
    /\ crashed' = crashed

LEMMA TurnHanded ==
    ASSUME Types, Handed, NEW w \in Workers, NEW s, Turns(w, s), NEW v \in Workers
    PROVE  HandedOf(v)'
<1>1. HandedOf(v) /\ Typed
    BY EverythingTyped DEF Handed
<1>2. CASE v = w
    BY <1>2 DEF Turns, HandedOf
<1>3. CASE v # w
    <2>1. call'[v] = call[v]
        BY <1>3 DEF Turns, OnlyMoves
    <2>2. \A q : Unowned(q) => \A r \in Tracks : session'[r].pipeline # q
        BY DEF Turns, Unowned
    <2>3. \A u \in Workers : call'[u].pc = "destroy" => call[u].pc = "destroy" /\ call'[u] = call[u]
        BY DEF Turns, OnlyMoves
    <2>4. CASE call[v].pc = "destroy"
        BY <1>1, <2>1, <2>2, <2>3, <2>4 DEF HandedOf, Turns, Typed, Unowned
    <2>5. CASE call[v].pc = "install"
        BY <1>1, <2>1, <2>2, <2>3, <2>5 DEF HandedOf, Turns, Typed, Unowned, OfPlay
    <2>6. CASE call[v].pc \notin {"destroy", "install"}
        BY <2>1, <2>6 DEF HandedOf
    <2> QED BY <2>4, <2>5, <2>6
<1> QED BY <1>2, <1>3

LEMMA TurnKnows ==
    ASSUME Types, Knows, NEW w \in Workers, NEW s, Turns(w, s), NEW v \in Workers, v # w,
           call[v].s # None /\ call[v].op # "stop" =>
              sessions'[call[v].chat] = sessions[call[v].chat]
    PROVE  KnowsOf(v)'
<1>1. KnowsOf(v) /\ Typed
    BY EverythingTyped DEF Knows
<1>2. call'[v] = call[v]
    BY DEF Turns, OnlyMoves
<1>3. CASE call[v].s = None
    <2>1. call[v].pc \in Outside
        BY <1>3, TracksArePositive DEF Types, Control, ControlOf
    <2> QED BY <1>2, <1>3, <2>1 DEF KnowsOf, Outside, Applying, OfStop
<1>4. CASE call[v].s # None
    <2>1. Mine(v)' = Mine(v) /\ Mine(v) \in Places
        BY <1>1, <1>2, <1>4 DEF Turns, Typed, Mine
    <2>2. Mine(v) # None => /\ pipeline'[Mine(v)].reader = pipeline[Mine(v)].reader
                            /\ pipeline'[Mine(v)].running = pipeline[Mine(v)].running
        BY <2>1, TracksArePositive DEF Turns, Places
    <2> QED BY <1>1, <1>2, <2>1, <2>2 DEF KnowsOf
<1> QED BY <1>3, <1>4

LEMMA TurnKept ==
    ASSUME Types, OnceEach, Ownership, Elsewhere, NEW w \in Workers, NEW s, Turns(w, s),
           call'[w].pc \notin BeforeLookup,
           call'[w].pc \in BeforeCreate => call[w].pc \in BeforeCreate \/ call[w].op # "play",
           \A v \in Workers : v # w /\ call[v].s # None /\ call[v].op # "stop" =>
              sessions'[call[v].chat] = sessions[call[v].chat],
           \A c, d \in Chats : sessions'[c] # None /\ sessions'[c] = sessions'[d] => c = d,
           \A r \in Tracks : session[r].pipeline # None /\ Streamer!Alive(r) => Streamer!Alive(r)',
           \A t \in Tracks : NoSessionYet(t)' => t # s /\ \A c \in Chats : sessions'[c] # t,
           \A t \in Tracks : NoPipelineYet(t)' => call'[w].p # t,
           KnowsOf(w)'
    PROVE  Ownership'
<1>1. Fresh'
    <2>1. \A t \in Tracks : /\ NoSessionYet(t)' => NoSessionYet(t)
                            /\ NoPipelineYet(t)' => NoPipelineYet(t)
        BY StillFresh DEF Turns
    <2> QED BY <2>1 DEF Ownership, Fresh, Turns, OnlyMoves
<1>2. Apart'
    <2>1. \A u, v \in Workers : call'[v].s # None /\ call'[v].s = call'[u].s => u = v
        BY DEF Ownership, Apart, Turns, OnlyMoves
    <2> QED BY <2>1 DEF Ownership, Apart, Turns
<1>3. Owned'
    <2> SUFFICES ASSUME NEW r \in Tracks, session'[r].pipeline # None
                 PROVE  /\ pipeline'[session'[r].pipeline].object = "live"
                        /\ Streamer!Alive(r)'
        BY DEF Owned
    <2>1. session'[r].pipeline = session[r].pipeline /\ session[r].pipeline \in Tracks
        BY EverythingTyped, TracksArePositive DEF Turns, Typed, Places
    <2>2. pipeline[session[r].pipeline].object = "live" /\ Streamer!Alive(r)
        BY <2>1, TracksArePositive DEF Ownership, Owned
    <2> QED BY <2>1, <2>2, TracksArePositive DEF Turns
<1>4. Knows'
    BY TurnKnows DEF Ownership, Knows
<1>5. Handed'
    BY TurnHanded DEF Ownership, Handed
<1>6. Readers'
    BY DEF Ownership, Readers, Turns, Streamer!ReaderActive
<1>7. NoMisuse'
    BY DEF Ownership, NoMisuse, Turns
<1> QED BY <1>1, <1>2, <1>3, <1>4, <1>5, <1>6, <1>7 DEF Ownership

LEMMA TrackIsPrivate ==
    ASSUME Types, OnceEach, Fresh, Handed, NEW w \in Workers, call[w].pc \in {"create", "install"}
    PROVE  Private(w, call[w].track)
<1>1. Typed /\ call[w].op = "play" /\ call[w].track \in Tracks
    BY EverythingTyped DEF Types, Control, ControlOf, Typed, OfPlay
<1>2. ASSUME NEW v \in Workers, v # w, call[v].pc = "install" PROVE call[v].track # call[w].track
    BY <1>1, <1>2, TracksDiffer
<1>3. CASE call[w].pc = "create"
    <2>1. NoPipelineYet(call[w].track)
        BY <1>1, <1>3, PlaysItsTrack DEF NoPipelineYet, BeforeCreate
    <2> QED BY <1>1, <1>2, <2>1 DEF Fresh, Private
<1>4. CASE call[w].pc = "install"
    <2>1. HandedOf(w)
        BY DEF Handed
    <2> QED BY <1>1, <1>2, <1>4, <2>1 DEF HandedOf, Private, Unowned
<1> QED BY <1>3, <1>4

LEMMA CreateStep ==
    ASSUME Types, OnceEach, Ownership, Elsewhere, NEW w \in Workers, Streamer!Create(w)
    PROVE  Ownership'
<1> DEFINE t == call[w].track
<1>1. ControlOf(handler[w], call[w]) /\ Typed /\ KnowsOf(w) /\ HandedOf(w)
    BY EverythingTyped DEF Types, Control, Ownership, Knows, Handed
<1>2. /\ call[w].pc = "create"
      /\ Moves(w, "install", call[w].s, Mine(w), call[w].next)
      /\ Sets(t, "live", "none", FALSE, 0)
      /\ UNCHANGED <<sessions, session, detached, raced, crashed, active_chats, paused_calls>>
    BY CreateFacts DEF CreateDoes
<1>3. t \in Tracks /\ Mine(w) = None /\ Private(w, t) /\ call[w].s \in Tracks
    BY <1>1, <1>2, TrackIsPrivate DEF Typed, KnowsOf, OfPlay, Ownership, Outside
<1>4. Works(w, t, None)
    BY <1>2, <1>3, TracksArePositive DEF Works, Moves, Sets, Mine
<1>5. KnowsOf(w)'
    <2>1. Mine(w)' = None
        BY <1>3, <1>4 DEF Mine, Works
    <2> QED BY <1>1, <1>2, <1>4, <2>1 DEF KnowsOf, Works, Moves, OfStop, Applying
<1>6. HandedOf(w)'
    <2>1. /\ call'[w].pc = "install" /\ call'[w].p = None /\ call'[w].track = t
          /\ pipeline'[t].object = "live" /\ pipeline'[t].reader = "none" /\ ~pipeline'[t].running
        BY <1>2, <1>3 DEF Moves, Sets
    <2>2. \A s \in Tracks : session'[s].pipeline # t
        BY <1>3, <1>4, TracksArePositive DEF Works, Private
    <2>3. \A v \in Workers : call'[v].pc = "destroy" => call'[v].p # t
        BY <1>3, <1>4, <2>1, TracksArePositive DEF Works, Private, OnlyMoves
    <2> QED BY <2>1, <2>2, <2>3 DEF HandedOf, Unowned
<1>7. ASSUME NEW q \in Tracks, q = t PROVE ~Streamer!ReaderActive(q)'
    BY <1>2, <1>7 DEF Sets, Streamer!ReaderActive
<1>8. call'[w].pc \notin BeforeLookup /\ call[w].pc \in BeforeCreate
    BY <1>2 DEF Moves, BeforeLookup, BeforeCreate
<1> QED BY <1>3, <1>4, <1>5, <1>6, <1>7, <1>8, OwnershipKept, Literals

LEMMA InstallStep ==
    ASSUME Types, OnceEach, Ownership, Elsewhere, NEW w \in Workers, Streamer!Install(w)
    PROVE  Ownership'
<1> DEFINE t == call[w].track
<1>1. ControlOf(handler[w], call[w]) /\ Typed /\ KnowsOf(w) /\ HandedOf(w)
    BY EverythingTyped DEF Types, Control, Ownership, Knows, Handed
<1>2. /\ call[w].pc = "install" /\ call[w].p = None
      /\ Moves(w, "start", call[w].s, call[w].p, call[w].next)
      /\ UNCHANGED pipeline
      /\ Owns(call[w].s, t)
      /\ UNCHANGED <<sessions, detached, raced, crashed, active_chats, paused_calls>>
    BY <1>1, InstallFacts DEF HandedOf, InstallDoes
<1>3. t \in Tracks /\ Mine(w) = None /\ Private(w, t) /\ call[w].s \in Tracks
    BY <1>1, <1>2, TrackIsPrivate DEF Typed, KnowsOf, OfPlay, Ownership, Outside
<1>4. Works(w, t, t)
    BY <1>2, <1>3, TracksArePositive DEF Works, Moves, Owns, Mine
<1>5. KnowsOf(w)'
    <2>1. Mine(w)' = t
        BY <1>3, <1>4 DEF Mine, Works
    <2>2. pipeline[t].reader = "none" /\ ~pipeline[t].running /\ t # None
        BY <1>1, <1>2, <1>3, TracksArePositive DEF HandedOf
    <2> QED BY <1>1, <1>2, <1>4, <2>1, <2>2 DEF KnowsOf, Works, Moves, OfStop, Applying
<1>6. HandedOf(w)' /\ call'[w].pc \notin BeforeLookup \cup BeforeCreate
    BY <1>2 DEF HandedOf, Moves, BeforeLookup, BeforeCreate
<1>7. pipeline'[t].object = "live"
    BY <1>1, <1>2 DEF HandedOf
<1>8. ASSUME NEW q \in Tracks, q = t PROVE ~Streamer!ReaderActive(q)'
    BY <1>1, <1>2, <1>8 DEF HandedOf, Streamer!ReaderActive
<1> QED BY <1>3, <1>4, <1>5, <1>6, <1>7, <1>8, OwnershipKept, Literals

LEMMA LookupStep ==
    ASSUME Types, OnceEach, Ownership, ~raced', Elsewhere, NEW w \in Workers, Streamer!Lookup(w)
    PROVE  Ownership'
<1> DEFINE c0 == call[w].chat
           t == call[w].track
<1>1. ControlOf(handler[w], call[w]) /\ Typed
    BY EverythingTyped DEF Types, Control
<1>2. /\ call[w].pc = "lookup"
      /\ Moves(w, "inspect", Found(w), call[w].p, call[w].next)
      /\ Maps(c0, Found(w))
      /\ Shares(w, Found(w))
      /\ UNCHANGED <<session, pipeline, detached, crashed, active_chats, paused_calls>>
    BY LookupFacts DEF LookupDoes
<1>3. t \in Tracks /\ c0 \in Chats /\ call[w].op = "play" /\ call[w].s = None /\ Found(w) \in Places
    BY <1>1, <1>2, Literals, TracksArePositive DEF Typed, ControlOf, Found, Outside
<1>4. NoSessionYet(t)
    BY <1>2, <1>3, PlaysItsTrack DEF NoSessionYet, BeforeLookup
<1>5. /\ session[t].pipeline = None
      /\ \A c \in Chats : sessions[c] # t
      /\ \A v \in Workers : call[v].s # t
    BY <1>3, <1>4 DEF Ownership, Fresh
<1>6. Turns(w, Found(w))
    BY <1>2 DEF Turns, Moves, Shares
<1>7. sessions'[c0] = Found(w) /\ \A c \in Chats : c # c0 => sessions'[c] = sessions[c]
    BY <1>2, <1>3 DEF Maps
<1>8. \A v \in Workers : v # w /\ call[v].s # None /\ call[v].op # "stop" =>
         sessions'[call[v].chat] = sessions[call[v].chat]
    <2> SUFFICES ASSUME NEW v \in Workers, v # w, call[v].s # None, call[v].op # "stop"
                 PROVE  sessions'[call[v].chat] = sessions[call[v].chat]
        OBVIOUS
    <2>1. sessions[call[v].chat] = call[v].s /\ call[v].chat \in Chats
        BY <1>1 DEF Ownership, Knows, KnowsOf, Typed, Outside
    <2> QED BY <1>7, <2>1 DEF Found
<1>9. \A c, d \in Chats : sessions'[c] # None /\ sessions'[c] = sessions'[d] => c = d
    BY <1>5, <1>7 DEF Ownership, Apart, Found
<1>10. \A r \in Tracks : session[r].pipeline # None /\ Streamer!Alive(r) => Streamer!Alive(r)'
    <2> SUFFICES ASSUME NEW r \in Tracks, Streamer!Alive(r) PROVE Streamer!Alive(r)'
        OBVIOUS
    <2>1. CASE \E v \in Workers : call[v].s = r
        BY <1>3, <1>6, <2>1, TracksArePositive DEF Streamer!Alive, Turns, OnlyMoves
    <2>2. CASE \E c \in Chats : sessions[c] = r
        BY <1>3, <1>7, <2>2, TracksArePositive DEF Streamer!Alive, Found
    <2> QED BY <2>1, <2>2 DEF Streamer!Alive
<1>11. ASSUME NEW u \in Tracks, NoSessionYet(u)'
       PROVE  u # Found(w) /\ \A c \in Chats : sessions'[c] # u
    <2>1. NoSessionYet(u)
        BY <1>2, <1>6, <1>11, StillFresh DEF Turns, Moves, BeforeLookup, BeforeCreate
    <2>2. \A c \in Chats : sessions[c] # u
        BY <2>1 DEF Ownership, Fresh
    <2>3. u # t
        <3>1. SUFFICES ASSUME u = t PROVE FALSE
            OBVIOUS
        <3>2. ~Unplayed(u) /\ \A v \in Workers : InHand(u, v) => v = w
            BY <1>2, <1>3, <3>1, PlaysItsTrack
        <3>3. Unplayed(u)' <=> Unplayed(u)
            BY DEF Elsewhere, Unplayed, InPool, InQueue
        <3>4. \A v \in Workers : InHand(u, v)' <=> InHand(u, v)
            BY DEF Elsewhere, InHand
        <3> QED BY <1>2, <1>11, <3>2, <3>3, <3>4 DEF NoSessionYet, Moves, BeforeLookup
    <2> QED BY <1>3, <1>7, <2>2, <2>3 DEF Found
<1>12. ASSUME NEW u \in Tracks, NoPipelineYet(u)' PROVE call'[w].p # u
    <2>1. NoPipelineYet(u)
        BY <1>2, <1>6, <1>12, StillFresh DEF Turns, Moves, BeforeLookup, BeforeCreate
    <2> QED BY <1>2, <2>1 DEF Ownership, Fresh, Moves
<1>13. KnowsOf(w)'
    BY <1>2, <1>3, <1>7 DEF KnowsOf, Moves, OfStop, Applying
<1>14. call'[w].pc \notin BeforeLookup /\ call[w].pc \in BeforeCreate
    BY <1>2 DEF Moves, BeforeLookup, BeforeCreate
<1> QED BY <1>6, <1>8, <1>9, <1>10, <1>11, <1>12, <1>13, <1>14, TurnKept

LEMMA EraseStep ==
    ASSUME Types, OnceEach, Ownership, ~raced', Elsewhere, NEW w \in Workers, Streamer!Erase(w)
    PROVE  Ownership'
<1> DEFINE c0 == call[w].chat
           s == sessions[c0]
<1>1. ControlOf(handler[w], call[w]) /\ Typed
    BY EverythingTyped DEF Types, Control
<1>2. /\ call[w].pc = "erase"
      /\ Moves(w, IF s = None THEN "done" ELSE "inspect", s, call[w].p, call[w].next)
      /\ Maps(c0, None)
      /\ Shares(w, s)
      /\ UNCHANGED <<session, pipeline, detached, crashed, active_chats, paused_calls>>
    BY EraseFacts DEF EraseDoes
<1>3. c0 \in Chats /\ call[w].op = "stop" /\ call[w].s = None /\ s \in Places
    BY <1>1, <1>2, TracksArePositive DEF Typed, ControlOf, Outside
<1>4. Turns(w, s)
    BY <1>2 DEF Turns, Moves, Shares
<1>5. sessions'[c0] = None /\ \A c \in Chats : c # c0 => sessions'[c] = sessions[c]
    BY <1>2, <1>3 DEF Maps
<1>6. \A v \in Workers : v # w /\ call[v].s # None /\ call[v].op # "stop" =>
         sessions'[call[v].chat] = sessions[call[v].chat]
    <2> SUFFICES ASSUME NEW v \in Workers, v # w, call[v].s # None, call[v].op # "stop"
                 PROVE  sessions'[call[v].chat] = sessions[call[v].chat]
        OBVIOUS
    <2>1. sessions[call[v].chat] = call[v].s /\ call[v].chat \in Chats
        BY <1>1 DEF Ownership, Knows, KnowsOf, Typed, Outside
    <2>2. call[v].chat # c0
        BY <1>4, <2>1 DEF Turns
    <2> QED BY <1>5, <2>1, <2>2
<1>7. \A c, d \in Chats : sessions'[c] # None /\ sessions'[c] = sessions'[d] => c = d
    BY <1>5 DEF Ownership, Apart
<1>8. \A r \in Tracks : session[r].pipeline # None /\ Streamer!Alive(r) => Streamer!Alive(r)'
    <2> SUFFICES ASSUME NEW r \in Tracks, Streamer!Alive(r) PROVE Streamer!Alive(r)'
        OBVIOUS
    <2>1. CASE \E v \in Workers : call[v].s = r
        BY <1>3, <1>4, <2>1, TracksArePositive DEF Streamer!Alive, Turns, OnlyMoves
    <2>2. CASE \E c \in Chats : sessions[c] = r
        BY <1>4, <1>5, <2>2, TracksArePositive DEF Streamer!Alive, Turns
    <2> QED BY <2>1, <2>2 DEF Streamer!Alive
<1>9. /\ call'[w].pc \notin BeforeLookup /\ call[w].op # "play"
      /\ call'[w].op = "stop" /\ call'[w].p = call[w].p
    BY <1>2, <1>3 DEF Moves, BeforeLookup
<1>10. ASSUME NEW u \in Tracks
       PROVE  /\ NoSessionYet(u)' => u # s /\ \A c \in Chats : sessions'[c] # u
              /\ NoPipelineYet(u)' => call'[w].p # u
    <2>1. /\ NoSessionYet(u)' => NoSessionYet(u)
          /\ NoPipelineYet(u)' => NoPipelineYet(u)
        BY <1>4, <1>9, StillFresh DEF Turns
    <2> QED BY <1>3, <1>5, <1>9, <2>1, TracksArePositive DEF Ownership, Fresh
<1>11. KnowsOf(w)'
    BY <1>2, <1>9 DEF KnowsOf, Moves, OfStop, Applying
<1> QED BY <1>4, <1>6, <1>7, <1>8, <1>9, <1>10, <1>11, TurnKept

LEMMA CheckStep ==
    ASSUME Types, OnceEach, Ownership, ~raced', Elsewhere, NEW w \in Workers,
           NEW op \in {"pause", "resume"}, NEW apply \in Applying, Streamer!Check(w, op, apply)
    PROVE  Ownership'
<1> DEFINE s == sessions[call[w].chat]
<1>1. ControlOf(handler[w], call[w]) /\ Typed
    BY EverythingTyped DEF Types, Control
<1>2. /\ call[w].pc = op
      /\ UNCHANGED <<sessions, session, pipeline, crashed>>
      /\ \/ Moves(w, "done", call[w].s, call[w].p, call[w].next)
         \/ /\ s # None /\ session[s].pipeline # None
            /\ Moves(w, apply, s, session[s].pipeline, call[w].next)
            /\ Shares(w, s)
    BY CheckFacts DEF CheckDoes
<1>3. /\ call[w].chat \in Chats /\ call[w].op \in {"pause", "resume"} /\ call[w].s = None
      /\ s \in Places
    BY <1>1, <1>2, TracksArePositive DEF Typed, ControlOf, Outside
<1>4. Turns(w, call'[w].s)
    BY <1>2, <1>3 DEF Turns, Moves, Shares, Applying
<1>5. \A r \in Tracks : session[r].pipeline # None /\ Streamer!Alive(r) => Streamer!Alive(r)'
    BY <1>2, <1>3, <1>4, TracksArePositive DEF Streamer!Alive, Turns, OnlyMoves
<1>6. /\ call'[w].pc \notin BeforeLookup /\ call[w].op # "play"
      /\ call'[w].op = call[w].op /\ call'[w].chat = call[w].chat
    BY <1>2, <1>3 DEF Moves, BeforeLookup, Applying
<1>7. ASSUME NEW u \in Tracks
      PROVE  /\ NoSessionYet(u)' => u # call'[w].s /\ \A c \in Chats : sessions'[c] # u
             /\ NoPipelineYet(u)' => call'[w].p # u
    <2>1. /\ NoSessionYet(u)' => NoSessionYet(u)
          /\ NoPipelineYet(u)' => NoPipelineYet(u)
        BY <1>4, <1>6, StillFresh DEF Turns
    <2>2. CASE Moves(w, "done", call[w].s, call[w].p, call[w].next)
        BY <1>2, <1>3, <2>1, <2>2, TracksArePositive DEF Ownership, Fresh, Moves
    <2>3. CASE s # None /\ Moves(w, apply, s, session[s].pipeline, call[w].next)
        BY <1>2, <1>3, <2>1, <2>3, TracksArePositive DEF Ownership, Fresh, Moves, Places
    <2> QED BY <1>2, <2>2, <2>3
<1>8. KnowsOf(w)'
    <2>1. CASE Moves(w, "done", call[w].s, call[w].p, call[w].next)
        BY <1>3, <2>1 DEF KnowsOf, Moves, OfStop, Applying
    <2>2. CASE s # None /\ session[s].pipeline # None
                /\ Moves(w, apply, s, session[s].pipeline, call[w].next)
        BY <1>2, <1>3, <2>2 DEF KnowsOf, Moves, OfStop, Applying, Mine
    <2> QED BY <1>2, <2>1, <2>2
<1>9. \A c, d \in Chats : sessions'[c] # None /\ sessions'[c] = sessions'[d] => c = d
    BY <1>2 DEF Ownership, Apart
<1> QED BY <1>2, <1>4, <1>5, <1>6, <1>7, <1>8, <1>9, TurnKept

LEMMA LetsGo ==
    ASSUME Types, OnceEach, Ownership, Elsewhere, NEW w \in Workers, call[w].s # None,
           Turns(w, None), UNCHANGED sessions,
           call'[w].pc = "done", call'[w].p = None,
           call[w].op = "stop" => Mine(w) = None
    PROVE  Ownership'
<1>1. Typed /\ KnowsOf(w)
    BY EverythingTyped DEF Ownership, Knows
<1>2. call[w].s \in Tracks /\ call[w].chat \in Chats
    BY <1>1 DEF Typed, Outside
<1>3. \A r \in Tracks : session[r].pipeline # None /\ Streamer!Alive(r) => Streamer!Alive(r)'
    <2> SUFFICES ASSUME NEW r \in Tracks, session[r].pipeline # None, Streamer!Alive(r)
                 PROVE  Streamer!Alive(r)'
        OBVIOUS
    <2>1. CASE r = call[w].s
        BY <1>1, <1>2, <2>1 DEF Streamer!Alive, KnowsOf, Mine
    <2>2. CASE r # call[w].s
        BY <2>2 DEF Streamer!Alive, Turns, OnlyMoves
    <2> QED BY <2>1, <2>2
<1>4. call'[w].pc \notin BeforeLookup \cup BeforeCreate
    BY DEF BeforeLookup, BeforeCreate
<1>5. ASSUME NEW u \in Tracks
      PROVE  /\ NoSessionYet(u)' => u # None /\ \A c \in Chats : sessions'[c] # u
             /\ NoPipelineYet(u)' => call'[w].p # u
    <2>1. NoSessionYet(u)' => NoSessionYet(u)
        BY <1>4, StillFresh DEF Turns
    <2> QED BY <2>1, TracksArePositive DEF Ownership, Fresh
<1>6. KnowsOf(w)'
    BY DEF KnowsOf, Turns, OfStop, Applying
<1>7. \A c, d \in Chats : sessions'[c] # None /\ sessions'[c] = sessions'[d] => c = d
    BY DEF Ownership, Apart
<1> QED BY <1>3, <1>4, <1>5, <1>6, <1>7, TurnKept

LEMMA ReleaseStep ==
    ASSUME Types, OnceEach, Ownership, Elsewhere, NEW w \in Workers, Streamer!Release(w)
    PROVE  Ownership'
<1>1. ControlOf(handler[w], call[w]) /\ Typed /\ KnowsOf(w)
    BY EverythingTyped DEF Types, Control, Ownership, Knows
<1>2. call[w].pc = "release" /\ call[w].s # None /\ call[w].chat \in Chats
    BY <1>1, ReleaseFacts, TracksArePositive DEF ControlOf, Outside, Typed, ReleaseDoes
<1>3. Mine(w) = None \/ \E c \in Chats : sessions[c] = call[w].s
    BY <1>1, <1>2 DEF KnowsOf
<1>4. /\ Moves(w, "done", None, None, call[w].next)
      /\ UNCHANGED <<session, pipeline, sessions, crashed>>
    BY <1>3, ReleaseFacts DEF ReleaseDoes
<1>5. Turns(w, None)
    BY <1>2, <1>4 DEF Turns, Moves
<1>6. call[w].op = "stop" => Mine(w) = None
    BY <1>1, <1>2 DEF KnowsOf
<1> QED BY <1>2, <1>4, <1>5, <1>6, LetsGo DEF Moves

LEMMA ApplyStep ==
    ASSUME Types, OnceEach, Ownership, Elsewhere, NEW w \in Workers, NEW apply \in Applying,
           NEW paused \in BOOLEAN, NEW state \in {"Paused", "Playing"},
           Streamer!Apply(w, apply, paused, state)
    PROVE  Ownership'
<1>1. ControlOf(handler[w], call[w]) /\ Typed /\ KnowsOf(w)
    BY EverythingTyped DEF Types, Control, Ownership, Knows
<1>2. call[w].pc = apply
    BY ApplyFacts DEF ApplyDoes
<1>3. /\ call[w].s \in Tracks /\ call[w].s # None /\ call[w].op # "stop"
      /\ Mine(w) \in Tracks /\ call[w].p = Mine(w)
    BY <1>1, <1>2, TracksArePositive DEF ControlOf, KnowsOf, Typed, Applying, Outside, Places
<1>4. Tested(w) = {Mine(w)} /\ pipeline[Mine(w)].object = "live"
    BY <1>3, TracksArePositive DEF Tested, Ownership, Owned, Mine
<1>5. /\ Sets(Mine(w), pipeline[Mine(w)].object, pipeline[Mine(w)].reader,
               pipeline[Mine(w)].running, pipeline[Mine(w)].volume)
      /\ KeepsOwners
      /\ Moves(w, "done", None, None, call[w].next)
      /\ UNCHANGED <<sessions, crashed>>
    BY <1>3, <1>4, ApplyFacts, TracksArePositive DEF ApplyDoes
<1>6. Turns(w, None)
    BY <1>2, <1>3, <1>5 DEF Turns, Moves, Sets, KeepsOwners, Applying
<1> QED BY <1>3, <1>5, <1>6, LetsGo DEF Moves

-----------------------------------------------------------------------------
(* The steps of a reader. *)

\* An active reader changes its own pipeline only, and not who owns it.
Reads(p) ==
    /\ Streamer!ReaderActive(p)
    /\ pipeline' \in [Tracks -> PipelineStates]
    /\ \A q \in Tracks : q # p => pipeline'[q] = pipeline[q]
    /\ pipeline'[p].object = pipeline[p].object /\ pipeline'[p].volume = pipeline[p].volume
    /\ KeepsOwners
    /\ detached' \in [Chats -> Nat]
    /\ UNCHANGED <<call, sessions, raced, crashed, active_chats, paused_calls>>

LEMMA ReaderReads ==
    ASSUME Types, NEW p \in Tracks, Streamer!ReaderStep(p) \/ Streamer!StreamEnds(p)
    PROVE  Reads(p)
<1>1. KeepsOwners \/ session' # session
    BY DEF KeepsOwners, Types, Shapes
<1>2. detached' \in [Chats -> Nat] \/ detached' # detached
    BY DEF Types, Shapes
<1>3. CASE Streamer!ReaderSpawns(p)
    BY <1>1, <1>2, <1>3, ReaderSpawnsFacts DEF Reads, Sets, Streamer!ReaderActive, ReaderSpawnsDoes
<1>4. CASE Streamer!ReaderHolds(p)
    BY <1>1, <1>2, <1>4, ReaderHoldsFacts DEF Reads, Sets, Streamer!ReaderActive, ReaderHoldsDoes
<1>5. CASE Streamer!ReaderHalts(p)
    BY <1>1, <1>2, <1>5, ReaderHaltsFacts DEF Reads, Sets, Streamer!ReaderActive, ReaderHaltsDoes
<1>6. CASE Streamer!on_stream_eof(p)
    BY <1>6, on_stream_eofFacts DEF Reads, Sets, Streamer!ReaderActive, on_stream_eofDoes
<1>7. CASE Streamer!StreamEnds(p)
    BY <1>1, <1>2, <1>7, StreamEndsFacts DEF Reads, Sets, Streamer!ReaderActive, StreamEndsDoes
<1> QED BY <1>3, <1>4, <1>5, <1>6, <1>7 DEF Streamer!ReaderStep

LEMMA ReaderTypes ==
    ASSUME Types, Elsewhere, NEW p \in Tracks, Reads(p)
    PROVE  Types'
BY DEF Types, Shapes, Control, Elsewhere, Reads, KeepsOwners

LEMMA ReaderOwnership ==
    ASSUME Types, Ownership, Elsewhere, NEW p \in Tracks, Reads(p)
    PROVE  Ownership'
<1>1. Fresh'
    <2>1. \A t \in Tracks : /\ NoSessionYet(t)' <=> NoSessionYet(t)
                            /\ NoPipelineYet(t)' <=> NoPipelineYet(t)
        BY DEF Reads, Elsewhere, NoSessionYet, NoPipelineYet, Unplayed, InPool, InQueue, InHand
    <2> QED BY <2>1 DEF Ownership, Fresh, Reads, KeepsOwners
<1>2. Apart'
    BY DEF Ownership, Apart, Reads, KeepsOwners
<1>3. Owned'
    <2> SUFFICES ASSUME NEW s \in Tracks, session'[s].pipeline # None
                 PROVE  /\ pipeline'[session'[s].pipeline].object = "live"
                        /\ Streamer!Alive(s)'
        BY DEF Owned
    <2>1. session'[s].pipeline = session[s].pipeline /\ session[s].pipeline \in Tracks
        BY EverythingTyped, TracksArePositive DEF Reads, KeepsOwners, Typed, Places
    <2>2. pipeline[session[s].pipeline].object = "live" /\ Streamer!Alive(s)
        BY <2>1, TracksArePositive DEF Ownership, Owned
    <2>3. Streamer!Alive(s)'
        BY <2>2 DEF Streamer!Alive, Reads
    <2> QED BY <2>1, <2>2, <2>3 DEF Reads
<1>4. ASSUME NEW w \in Workers PROVE KnowsOf(w)'
    <2>1. KnowsOf(w) /\ Typed
        BY EverythingTyped DEF Ownership, Knows
    <2>2. call[w].s # None => Mine(w)' = Mine(w)
        BY <2>1 DEF Typed, Mine, Reads, KeepsOwners
    <2>3. CASE call[w].s = None
        <3>1. call[w].pc \in Outside
            BY <2>3, TracksArePositive DEF Types, Control, ControlOf
        <3> QED BY <2>3, <3>1 DEF KnowsOf, Reads, Outside, Applying, OfStop
    <2>4. CASE call[w].s # None
        <3>1. Mine(w) \in Tracks /\ pipeline[Mine(w)].reader = "none" =>
                 pipeline'[Mine(w)] = pipeline[Mine(w)]
            BY DEF Reads, Streamer!ReaderActive
        <3>2. Mine(w) # None => Mine(w) \in Tracks
            BY <2>1, <2>4, TracksArePositive DEF Typed, Places
        <3> QED BY <2>1, <2>2, <2>4, <3>1, <3>2 DEF KnowsOf, Reads
    <2> QED BY <2>3, <2>4
<1>5. ASSUME NEW w \in Workers PROVE HandedOf(w)'
    <2>1. HandedOf(w) /\ Typed
        BY EverythingTyped DEF Ownership, Handed
    <2>2. \A q \in Tracks : pipeline[q].reader = "none" => pipeline'[q] = pipeline[q]
        BY DEF Reads, Streamer!ReaderActive
    <2>3. \A q : Unowned(q) => \A r \in Tracks : session'[r].pipeline # q
        BY DEF Reads, KeepsOwners, Unowned
    <2>4. call' = call
        BY DEF Reads
    <2>5. CASE call[w].pc = "destroy"
        <3>1. /\ call[w].p \in Tracks /\ pipeline'[call[w].p] = pipeline[call[w].p]
              /\ \A r \in Tracks : session'[r].pipeline # call[w].p
            BY <2>1, <2>2, <2>3, <2>5 DEF HandedOf, Typed
        <3> QED BY <2>1, <2>4, <2>5, <3>1 DEF HandedOf, Unowned
    <2>6. CASE call[w].pc = "install"
        <3>1. /\ call[w].track \in Tracks /\ pipeline'[call[w].track] = pipeline[call[w].track]
              /\ \A r \in Tracks : session'[r].pipeline # call[w].track
            BY <2>1, <2>2, <2>3, <2>6 DEF HandedOf, Typed, OfPlay
        <3> QED BY <2>1, <2>4, <2>6, <3>1 DEF HandedOf, Unowned
    <2>7. CASE call[w].pc \notin {"destroy", "install"}
        BY <2>4, <2>7 DEF HandedOf
    <2> QED BY <2>5, <2>6, <2>7
<1>6. Readers'
    BY DEF Ownership, Readers, Reads, KeepsOwners, Streamer!ReaderActive
<1>7. NoMisuse'
    BY DEF Ownership, NoMisuse, Reads
<1> QED BY <1>1, <1>2, <1>3, <1>4, <1>5, <1>6, <1>7 DEF Ownership, Knows, Handed

\* A step of a call.
LEMMA CallGoesOn ==
    ASSUME Types, OnceEach, Elsewhere, ~raced => Ownership, NEW w \in Workers, Streamer!CallStep(w)
    PROVE  Types' /\ (~raced' => Ownership')
<1>1. CASE Streamer!Lookup(w)
    BY <1>1, LookupFacts, LookupTypes, LookupStep DEF Shares, LookupDoes
<1>2. CASE Streamer!Inspect(w)
    BY <1>2, InspectFacts, InspectTypes, InspectStep DEF InspectDoes
<1>3. CASE Streamer!Halt(w)
    BY <1>3, HaltFacts, HaltTypes, HaltStep DEF Crashes, HaltDoes
<1>4. CASE Streamer!Join(w)
    BY <1>4, JoinFacts, JoinTypes, JoinStep DEF JoinDoes
<1>5. CASE Streamer!JoinOfDestroyed(w)
    BY <1>5, JoinOfDestroyedFacts, JoinOfDestroyedTypes, JoinOfDestroyedStep DEF Crashes,
       JoinOfDestroyedDoes
<1>6. CASE Streamer!JoinThrows(w)
    BY <1>6, JoinThrowsFacts, JoinThrowsTypes, JoinThrowsStep DEF JoinThrowsDoes
<1>7. CASE Streamer!Reset(w)
    BY <1>7, ResetFacts, ResetTypes, ResetStep DEF ResetDoes
<1>8. CASE Streamer!Clear(w)
    BY <1>8, ClearFacts, ClearTypes, ClearStep DEF ClearDoes
<1>9. CASE Streamer!Destroy(w)
    BY <1>9, DestroyFacts, DestroyTypes, DestroyStep DEF DestroyDoes
<1>10. CASE Streamer!DestroyedTwice(w)
    BY <1>10, DestroyedTwiceFacts, DestroyedTwiceTypes, DestroyedTwiceStep DEF Crashes,
       DestroyedTwiceDoes
<1>11. CASE Streamer!DestroyThrows(w)
    BY <1>11, DestroyThrowsFacts, DestroyThrowsTypes, DestroyThrowsStep DEF Crashes,
       DestroyThrowsDoes
<1>12. CASE Streamer!Assign(w)
    BY <1>12, AssignFacts, AssignTypes, AssignStep DEF AssignDoes
<1>13. CASE Streamer!Create(w)
    BY <1>13, CreateFacts, CreateTypes, CreateStep DEF CreateDoes
<1>14. CASE Streamer!Install(w)
    BY <1>14, InstallFacts, InstallTypes, InstallStep DEF InstallDoes
<1>15. CASE Streamer!Start(w)
    BY <1>15, StartFacts, StartTypes, StartStep DEF Crashes, StartDoes
<1>16. CASE Streamer!Launch(w)
    BY <1>16, LaunchFacts, LaunchTypes, LaunchStep DEF Crashes, LaunchDoes
<1>17. CASE Streamer!Playing(w)
    BY <1>17, PlayingFacts, PlayingTypes, PlayingStep DEF PlayingDoes
<1>18. CASE Streamer!Release(w)
    BY <1>18, ReleaseFacts, ReleaseTypes, ReleaseStep DEF ReleaseDoes
<1>19. CASE Streamer!Erase(w)
    BY <1>19, EraseFacts, EraseTypes, EraseStep DEF Shares, EraseDoes
<1>20. CASE Streamer!SetIdle(w)
    BY <1>20, SetIdleFacts, SetIdleTypes, SetIdleStep DEF SetIdleDoes
<1>21. CASE Streamer!Leave(w)
    BY <1>21, LeaveFacts, LeaveTypes, LeaveStep DEF LeaveDoes
<1>22. ASSUME NEW op \in {"pause", "resume"}, NEW apply \in Applying, Streamer!Check(w, op, apply)
      PROVE  Types' /\ (~raced' => Ownership')
    BY <1>22, CheckFacts, CheckTypes, CheckStep DEF Shares, CheckDoes
<1>23. ASSUME NEW apply \in Applying, NEW paused \in BOOLEAN, NEW state \in {"Paused", "Playing"},
             Streamer!Apply(w, apply, paused, state)
      PROVE  Types' /\ (~raced' => Ownership')
    BY <1>23, ApplyFacts, ApplyTypes, ApplyStep DEF Crashes, ApplyDoes
<1>24. CASE Streamer!Pause(w)
    BY <1>22, <1>23, <1>24 DEF Streamer!Pause, Applying
<1>25. CASE Streamer!Resume(w)
    BY <1>22, <1>23, <1>25 DEF Streamer!Resume, Applying
<1> QED
    BY <1>1, <1>2, <1>3, <1>4, <1>5, <1>6, <1>7, <1>8, <1>9, <1>10, <1>11, <1>12, <1>13, <1>14,
       <1>15, <1>16, <1>17, <1>18, <1>19, <1>20, <1>21, <1>24, <1>25 DEF Streamer!CallStep
=============================================================================
