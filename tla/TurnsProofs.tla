---------------------------- MODULE TurnsProofs ----------------------------
(***************************************************************************)
(* Proofs about Dispatcher when the handlers of a chat take turns, for any *)
(* number of workers, any chats and commands, and any capacity of the      *)
(* pool: no track is left waiting, the sessions say what their readers do, *)
(* and /stop silences.  TInv is kept by every step after which no two      *)
(* handlers of a chat overlap, from a state in which IInv holds as well.   *)
(***************************************************************************)
EXTENDS TurnsInvariant, DispatcherProofs

-----------------------------------------------------------------------------
(* A step of a call, on a session that no other call works on. *)

\* The readers that run after a step ran before it, for the same chat and session.
ReadersStay == \A q \in Tracks : Streamer!ReaderActive(q)' =>
    /\ Streamer!ReaderActive(q)
    /\ pipeline'[q].chat = pipeline[q].chat /\ pipeline'[q].volume = pipeline[q].volume

\* What other sessions are, and the pipelines that they own, stay as they are.
OthersStay(w) == \A r \in Tracks : r # call[w].s =>
    /\ session'[r] = session[r]
    /\ session[r].pipeline # None => pipeline'[session[r].pipeline] = pipeline[session[r].pipeline]

Tends(w) ==
    /\ OnlyMoves(w)
    /\ call[w].pc \notin Outside /\ call[w].op \in {"play", "stop"}
    /\ call'[w].pc \notin Outside
    /\ call'[w].op = call[w].op /\ call'[w].chat = call[w].chat /\ call'[w].s = call[w].s
    /\ call'[w].threw = call[w].threw
    /\ call[w].op = "play" => ~Past(call'[w])
    /\ ReadersStay /\ OthersStay(w)
    /\ UNCHANGED <<sessions, detached, raced>>

\* What the invariants say of the call of w.
LEMMA KnownOf ==
    ASSUME IInv, TInv, NEW w \in Workers
    PROVE  /\ Types /\ Typed /\ Ownership
           /\ ControlOf(handler[w], call[w]) /\ KnowsOf(w) /\ HandedOf(w)
           /\ Paired(w) /\ Unmapped(w)
BY EverythingTyped DEF IInv, TInv, Types, Control, Ownership, Knows, Handed

LEMMA RunningCleared ==
    ASSUME Types, NEW p \in Tracks, pipeline' = [pipeline EXCEPT ![p].running = FALSE]
    PROVE  ReadersStay /\ \A q \in Tracks : q # p => pipeline'[q] = pipeline[q]
BY DEF ReadersStay, Streamer!ReaderActive, Types, Shapes, PipelineStates

\* A change of the pipeline of the session of w, or of one that no session owns.
LEMMA OnlyItsOwn ==
    ASSUME Types, Apart, NEW w \in Workers, call[w].pc \notin Outside, NEW p \in Tracks,
           p = Mine(w) \/ Unowned(p),
           \A q \in Tracks : q # p => pipeline'[q] = pipeline[q],
           \A r \in Tracks : r # call[w].s => session'[r] = session[r]
    PROVE  OthersStay(w)
<1>1. \A r \in Tracks : session[r].pipeline # None => session[r].pipeline \in Tracks
    BY Objects, TracksArePositive DEF Places
<1>2. call[w].s \in Tracks
    BY InSession
<1>3. ASSUME NEW r \in Tracks, r # call[w].s, session[r].pipeline # None
      PROVE  session[r].pipeline # p
    BY <1>2, <1>3 DEF Apart, Mine, Unowned
<1> QED BY <1>1, <1>3 DEF OthersStay

LEMMA InspectTends ==
    ASSUME IInv, TInv, NEW w \in Workers, Streamer!Inspect(w)
    PROVE  Tends(w)
<1>1. /\ Types /\ Typed /\ Ownership
      /\ ControlOf(handler[w], call[w]) /\ KnowsOf(w) /\ HandedOf(w)
    BY KnownOf
<1>2. InspectDoes(w)
    BY <1>1, InspectFacts
<1>3. call'[w].threw = call[w].threw
    BY <1>1 DEF Streamer!Inspect, Streamer!Go, Types, Shapes, Calls
<1>4. ReadersStay /\ OthersStay(w)
    BY <1>1 DEF Streamer!Inspect, ReadersStay, OthersStay, Streamer!ReaderActive
<1> QED BY <1>1, <1>2, <1>3, <1>4 DEF Tends, InspectDoes, Moves, ControlOf, Past,
    Streamer!AfterReset,
    Outside, Either, OfPlay, OfStop

LEMMA HaltTends ==
    ASSUME IInv, TInv, NEW w \in Workers, Streamer!Halt(w)
    PROVE  Tends(w)
<1>1. /\ Types /\ Typed /\ Ownership
      /\ ControlOf(handler[w], call[w]) /\ KnowsOf(w) /\ HandedOf(w)
    BY KnownOf
<1>2. HaltDoes(w)
    BY <1>1, HaltFacts
<1>3. call[w].p = Mine(w) /\ Mine(w) # None /\ Mine(w) \in Tracks /\ Tested(w) = {Mine(w)}
    BY <1>1, <1>2, TracksArePositive DEF HaltDoes, KnowsOf, Tested, Typed, Places
<1>4. /\ pipeline' = [pipeline EXCEPT ![Mine(w)].running = FALSE]
      /\ call' = [call EXCEPT ![w].pc = "join", ![w].p = Mine(w), ![w].next = "reset"]
      /\ UNCHANGED <<sessions, session, detached, raced>>
    BY <1>1, <1>3 DEF Streamer!Halt, Streamer!Loaded, Streamer!Current, Mine, None, Streamer!None
<1>5. call'[w].threw = call[w].threw
    BY <1>1, <1>4 DEF Types, Shapes, Calls
<1>6. ReadersStay /\ OthersStay(w)
    BY <1>1, <1>2, <1>3, <1>4, RunningCleared, OnlyItsOwn DEF Ownership, HaltDoes, Outside
<1>7. Moves(w, "join", call[w].s, Mine(w), "reset")
    BY <1>1, <1>2, <1>3 DEF HaltDoes
<1> QED BY <1>1, <1>2, <1>4, <1>5, <1>6, <1>7 DEF Tends, HaltDoes, Moves, ControlOf, Past,
    Outside, Either, OfPlay, OfStop

LEMMA JoinTends ==
    ASSUME IInv, TInv, NEW w \in Workers, Streamer!Join(w)
    PROVE  Tends(w)
<1>1. /\ Types /\ Typed /\ Ownership
      /\ ControlOf(handler[w], call[w]) /\ KnowsOf(w) /\ HandedOf(w)
    BY KnownOf
<1>2. JoinDoes(w)
    BY <1>1, JoinFacts
<1>3. call[w].p = Mine(w) /\ call[w].p \in Tracks /\ call[w].next = "reset"
    BY <1>1, <1>2 DEF JoinDoes, KnowsOf, Typed
<1>4. call'[w].threw = call[w].threw
    BY <1>1 DEF Streamer!Join, Streamer!Go, Types, Shapes, Calls
<1>5. ReadersStay /\ \A q \in Tracks : q # call[w].p => pipeline'[q] = pipeline[q]
    BY <1>1, <1>3 DEF Streamer!Join, Streamer!Joined, ReadersStay, Streamer!ReaderActive, Types,
       Shapes, PipelineStates
<1>6. OthersStay(w)
    BY <1>1, <1>2, <1>3, <1>5, OnlyItsOwn DEF Ownership, JoinDoes, Outside
<1> QED BY <1>1, <1>2, <1>3, <1>4, <1>5, <1>6 DEF Tends, JoinDoes, Moves, ControlOf, Past,
    Outside, Either, OfPlay, OfStop

LEMMA ResetTends ==
    ASSUME IInv, TInv, NEW w \in Workers, Streamer!Reset(w)
    PROVE  Tends(w)
<1>1. /\ Types /\ Typed /\ Ownership
      /\ ControlOf(handler[w], call[w]) /\ KnowsOf(w) /\ HandedOf(w)
    BY KnownOf
<1>2. ResetDoes(w)
    BY <1>1, ResetFacts
<1>3. call'[w].threw = call[w].threw
    BY <1>1 DEF Streamer!Reset, Types, Shapes, Calls
<1>4. ReadersStay /\ OthersStay(w)
    BY <1>1 DEF Streamer!Reset, ReadersStay, OthersStay, Streamer!ReaderActive
<1> QED BY <1>1, <1>2, <1>3, <1>4 DEF Tends, ResetDoes, Moves, ControlOf, Past, Outside, Either,
    OfPlay, OfStop

LEMMA ClearTends ==
    ASSUME IInv, TInv, NEW w \in Workers, Streamer!Clear(w)
    PROVE  Tends(w)
<1>1. /\ Types /\ Typed /\ Ownership
      /\ ControlOf(handler[w], call[w]) /\ KnowsOf(w) /\ HandedOf(w)
    BY KnownOf
<1>2. ClearDoes(w)
    BY <1>1, ClearFacts
<1>3. call[w].p = Mine(w) /\ call[w].p # None /\ call[w].p \in Tracks /\ call[w].s \in Tracks
    BY <1>1, <1>2, TracksArePositive DEF ClearDoes, KnowsOf, Typed, Places, Outside
<1>4. pipeline' = [pipeline EXCEPT ![call[w].p].running = FALSE]
    BY <1>3 DEF Streamer!Clear, Streamer!Delete, None, Streamer!None
<1>5. call'[w].threw = call[w].threw
    BY <1>1 DEF Streamer!Clear, Streamer!Delete, Streamer!Go, Types, Shapes, Calls
<1>6. \A r \in Tracks : r # call[w].s => session'[r] = session[r]
    BY <1>1, <1>3 DEF Streamer!Clear, Types, Shapes
<1>7. ReadersStay /\ OthersStay(w)
    BY <1>1, <1>2, <1>3, <1>4, <1>6, RunningCleared, OnlyItsOwn DEF Ownership, ClearDoes, Outside
<1> QED BY <1>1, <1>2, <1>3, <1>5, <1>7 DEF Tends, ClearDoes, Moves, ControlOf, Past,
    Outside, Either, OfPlay, OfStop, Streamer!AfterReset

LEMMA DestroyTends ==
    ASSUME IInv, TInv, NEW w \in Workers, Streamer!Destroy(w)
    PROVE  Tends(w)
<1>1. /\ Types /\ Typed /\ Ownership
      /\ ControlOf(handler[w], call[w]) /\ KnowsOf(w) /\ HandedOf(w)
    BY KnownOf
<1>2. DestroyDoes(w)
    BY <1>1, DestroyFacts
<1>3. /\ call[w].p \in Tracks /\ Unowned(call[w].p) /\ call[w].next \in {"assign", "idle"}
      /\ call[w].next = "idle" => call[w].op = "stop"
    BY <1>1, <1>2 DEF DestroyDoes, HandedOf, Typed, ControlOf
<1>4. call'[w].threw = call[w].threw
    BY <1>1 DEF Streamer!Destroy, Streamer!Go, Types, Shapes, Calls
<1>5. ReadersStay /\ \A q \in Tracks : q # call[w].p => pipeline'[q] = pipeline[q]
    BY <1>1, <1>3 DEF Streamer!Destroy, Streamer!Joined, ReadersStay, Streamer!ReaderActive, Types,
       Shapes, PipelineStates
<1>6. OthersStay(w)
    BY <1>1, <1>2, <1>3, <1>5, OnlyItsOwn DEF Ownership, DestroyDoes, Outside
<1> QED BY <1>1, <1>2, <1>3, <1>4, <1>5, <1>6 DEF Tends, DestroyDoes, Moves, ControlOf, Past,
    Outside, Either, OfPlay, OfStop

LEMMA AssignTends ==
    ASSUME IInv, TInv, NEW w \in Workers, Streamer!Assign(w)
    PROVE  Tends(w)
<1>1. /\ Types /\ Typed /\ Ownership
      /\ ControlOf(handler[w], call[w]) /\ KnowsOf(w) /\ HandedOf(w)
    BY KnownOf
<1>2. AssignDoes(w)
    BY <1>1, AssignFacts
<1>3. call'[w].threw = call[w].threw
    BY <1>1 DEF Streamer!Assign, Streamer!Go, Types, Shapes, Calls
<1>4. ReadersStay /\ OthersStay(w)
    BY <1>1 DEF Streamer!Assign, ReadersStay, OthersStay, Streamer!ReaderActive, Types, Shapes
<1> QED BY <1>1, <1>2, <1>3, <1>4 DEF Tends, AssignDoes, Moves, ControlOf, Past, Outside, Either,
    OfPlay, OfStop

LEMMA SetIdleTends ==
    ASSUME IInv, TInv, NEW w \in Workers, Streamer!SetIdle(w)
    PROVE  Tends(w)
<1>1. /\ Types /\ Typed /\ Ownership
      /\ ControlOf(handler[w], call[w]) /\ KnowsOf(w) /\ HandedOf(w)
    BY KnownOf
<1>2. SetIdleDoes(w)
    BY <1>1, SetIdleFacts
<1>3. call'[w].threw = call[w].threw
    BY <1>1 DEF Streamer!SetIdle, Streamer!Go, Types, Shapes, Calls
<1>4. ReadersStay /\ OthersStay(w)
    BY <1>1 DEF Streamer!SetIdle, ReadersStay, OthersStay, Streamer!ReaderActive, Types, Shapes
<1> QED BY <1>1, <1>2, <1>3, <1>4 DEF Tends, SetIdleDoes, Moves, ControlOf, Past, Outside, Either,
    OfPlay, OfStop

LEMMA LeaveTends ==
    ASSUME IInv, TInv, NEW w \in Workers, Streamer!Leave(w)
    PROVE  Tends(w)
<1>1. /\ Types /\ Typed /\ Ownership
      /\ ControlOf(handler[w], call[w]) /\ KnowsOf(w) /\ HandedOf(w)
    BY KnownOf
<1>2. LeaveDoes(w)
    BY <1>1, LeaveFacts
<1>3. call'[w].threw = call[w].threw
    BY <1>1 DEF Streamer!Leave, Streamer!Go, Types, Shapes, Calls
<1>4. ReadersStay /\ OthersStay(w)
    BY <1>1 DEF Streamer!Leave, ReadersStay, OthersStay, Streamer!ReaderActive
<1> QED BY <1>1, <1>2, <1>3, <1>4 DEF Tends, LeaveDoes, Moves, ControlOf, Past, Outside, Either,
    OfPlay, OfStop

LEMMA CreateTends ==
    ASSUME IInv, TInv, NEW w \in Workers, Streamer!Create(w)
    PROVE  Tends(w)
<1>1. /\ Types /\ Typed /\ Ownership
      /\ ControlOf(handler[w], call[w]) /\ KnowsOf(w) /\ HandedOf(w)
    BY KnownOf
<1>2. CreateDoes(w)
    BY <1>1, CreateFacts
<1>3. call[w].track \in Tracks /\ Unowned(call[w].track)
    <2>1. call[w].track \in Tracks /\ InHand(call[w].track, w)
        BY <1>1, <1>2 DEF CreateDoes, ControlOf, OfPlay, InHand
    <2>2. NoPipelineYet(call[w].track)
        BY <1>2, <2>1 DEF NoPipelineYet, BeforeCreate, CreateDoes
    <2> QED BY <1>1, <2>1, <2>2 DEF Ownership, Fresh, Unowned
<1>4. call'[w].threw = call[w].threw
    BY <1>1 DEF Streamer!Create, Types, Shapes, Calls
<1>5. ReadersStay /\ \A q \in Tracks : q # call[w].track => pipeline'[q] = pipeline[q]
    BY <1>1, <1>3 DEF Streamer!Create, Streamer!NoPipeline, ReadersStay, Streamer!ReaderActive,
       Types, Shapes, PipelineStates
<1>6. OthersStay(w)
    BY <1>1, <1>2, <1>3, <1>5, OnlyItsOwn DEF Ownership, CreateDoes, Outside
<1> QED BY <1>1, <1>2, <1>4, <1>5, <1>6 DEF Tends, CreateDoes, Moves, ControlOf, Past,
    Outside, Either, OfPlay, OfStop

LEMMA InstallTends ==
    ASSUME IInv, TInv, NEW w \in Workers, Streamer!Install(w)
    PROVE  Tends(w)
<1>1. /\ Types /\ Typed /\ Ownership
      /\ ControlOf(handler[w], call[w]) /\ KnowsOf(w) /\ HandedOf(w)
    BY KnownOf
<1>2. InstallDoes(w)
    BY <1>1, InstallFacts
<1>3. call[w].p = None /\ pipeline' = pipeline /\ call[w].s \in Tracks
    BY <1>1, <1>2 DEF InstallDoes, HandedOf, Typed, Outside
<1>4. call'[w].threw = call[w].threw
    BY <1>1 DEF Streamer!Install, Streamer!Delete, Streamer!Go, Types, Shapes, Calls
<1>5. ReadersStay /\ OthersStay(w)
    BY <1>1, <1>3 DEF Streamer!Install, ReadersStay, OthersStay, Streamer!ReaderActive, Types,
        Shapes
<1> QED BY <1>1, <1>2, <1>3, <1>4, <1>5 DEF Tends, InstallDoes, Moves, ControlOf, Past,
    Outside, Either, OfPlay, OfStop

LEMMA StartTends ==
    ASSUME IInv, TInv, NEW w \in Workers, Streamer!Start(w)
    PROVE  Tends(w)
<1>1. /\ Types /\ Typed /\ Ownership
      /\ ControlOf(handler[w], call[w]) /\ KnowsOf(w) /\ HandedOf(w)
    BY KnownOf
<1>2. StartDoes(w) /\ Mine(w) # None /\ ~pipeline[Mine(w)].running
    BY <1>1, StartFacts DEF StartDoes, KnowsOf
<1>3. call'[w].threw = call[w].threw
    BY <1>1 DEF Streamer!Start, Streamer!MemoryError, Types, Shapes, Calls
<1>4. ReadersStay /\ OthersStay(w)
    BY <1>2 DEF StartDoes, ReadersStay, OthersStay, Streamer!ReaderActive
<1> QED BY <1>1, <1>2, <1>3, <1>4 DEF Tends, StartDoes, Moves, ControlOf, Past, Outside, Either,
    OfPlay, OfStop

-----------------------------------------------------------------------------
(* A step of one worker, for one chat: the others do not notice. *)

\* Only w moves, and no other worker runs a handler of the chat.
Sole(w, c) == \A v \in Workers : v # w =>
    handler'[v] = handler[v] /\ call'[v] = call[v] /\ ~On(v, c)

\* Of what ChatInv says of the chat nothing changes.
Untouched(c) ==
    /\ sessions'[c] = sessions[c] /\ queues'[c] = queues[c] /\ last'[c] = last[c]
    /\ detached'[c] = detached[c]
    /\ c \in active_chats' <=> c \in active_chats
    /\ sessions[c] # None =>
          /\ session'[sessions[c]] = session[sessions[c]]
          /\ session[sessions[c]].pipeline # None =>
                pipeline'[session[sessions[c]].pipeline] = pipeline[session[sessions[c]].pipeline]
    /\ NextInPool(c) => NextInPool(c)'
    /\ StopAsked(c) => StopAsked(c)'
    /\ NoneAsked(c, 0) => NoneAsked(c, 0)'

\* For a chat whose handlers do not move, what they are about stays.
LEMMA SameHandlers ==
    ASSUME NEW c \in Chats, sessions'[c] = sessions[c],
           \A v \in Workers : \/ ~On(v, c) /\ ~On(v, c)'
                              \/ handler'[v] = handler[v] /\ call'[v] = call[v]
    PROVE  /\ Replacing(c)' <=> Replacing(c)
           /\ Settling(c)' <=> Settling(c)
           /\ Leaving(c)' <=> Leaving(c)
           /\ (\E v \in Workers : On(v, c) /\ call[v].pc = "lookup")'
                <=> \E v \in Workers : On(v, c) /\ call[v].pc = "lookup"
           /\ (detached[c] > 0 => detached'[c] > 0) /\ (NextInPool(c) => NextInPool(c)')
                => (Advancing(c) => Advancing(c)')
<1>1. \A v \in Workers : On(v, c) \/ On(v, c)' =>
          On(v, c) /\ On(v, c)' /\ handler'[v] = handler[v] /\ call'[v] = call[v]
    BY DEF On
<1>2. Replacing(c)' <=> Replacing(c)
    BY <1>1 DEF Replacing
<1>3. (Settling(c)' <=> Settling(c)) /\ (Leaving(c)' <=> Leaving(c))
    BY <1>1 DEF Settling, Leaving
<1>4. (\E v \in Workers : On(v, c) /\ call[v].pc = "lookup")'
          <=> \E v \in Workers : On(v, c) /\ call[v].pc = "lookup"
    BY <1>1
<1>5. ASSUME detached[c] > 0 => detached'[c] > 0, NextInPool(c) => NextInPool(c)', Advancing(c)
      PROVE  Advancing(c)'
    BY <1>1, <1>5 DEF Advancing
<1> QED BY <1>2, <1>3, <1>4, <1>5

\* So what the invariant says of the chat stays.
LEMMA StandsStill ==
    ASSUME NEW c \in Chats, ChatInv(c), Untouched(c),
           \A v \in Workers : \/ ~On(v, c) /\ ~On(v, c)'
                              \/ handler'[v] = handler[v] /\ call'[v] = call[v]
    PROVE  ChatInv(c)'
<1>1. \A v \in Workers : On(v, c)' =>
          On(v, c) /\ handler'[v] = handler[v] /\ call'[v] = call[v]
    BY DEF On
<1>2. /\ Replacing(c)' <=> Replacing(c)
      /\ Settling(c)' <=> Settling(c)
      /\ Leaving(c)' <=> Leaving(c)
      /\ (\E v \in Workers : On(v, c) /\ call[v].pc = "lookup")'
           <=> \E v \in Workers : On(v, c) /\ call[v].pc = "lookup"
      /\ Advancing(c) => Advancing(c)'
    BY SameHandlers DEF Untouched
<1>3. PICK s, p : s = session[sessions[c]] /\ p = s.pipeline
    OBVIOUS
<1>4. sessions[c] # None => session'[sessions'[c]] = s /\ (p # None => pipeline'[p] = pipeline[p])
    BY <1>3 DEF Untouched
<1>5. /\ Streaming(c) /\ Truthful(c) /\ BrieflyIdle(c) /\ Awaited(c) /\ InCall(c) /\ Obeyed(c)
      /\ sessions'[c] = sessions[c] /\ queues'[c] = queues[c] /\ last'[c] = last[c]
      /\ c \in active_chats' <=> c \in active_chats
    BY DEF ChatInv, Untouched
<1>6. Streaming(c)'
    BY <1>2, <1>3, <1>4, <1>5 DEF Streaming, Streamer!ReaderActive
<1>7. Truthful(c)'
    <2>1. CASE sessions[c] # None /\ ~Replacing(c)
        <3>1. p # None
            BY <1>3, <1>5, <2>1 DEF Streaming
        <3> QED BY <1>2, <1>3, <1>4, <1>5, <2>1, <3>1 DEF Truthful, Streamer!ReaderActive
    <2>2. CASE sessions[c] = None \/ Replacing(c)
        BY <1>2, <1>5, <2>2 DEF Truthful
    <2> QED BY <2>1, <2>2
<1>8. BrieflyIdle(c)'
    BY <1>2, <1>3, <1>4, <1>5 DEF BrieflyIdle
<1>9. Awaited(c)' /\ InCall(c)'
    BY <1>1, <1>2, <1>5 DEF Awaited, InCall
<1>10. Obeyed(c)'
    <2>1. Stopped(c) => Stopped(c)'
        <3> SUFFICES ASSUME Stopped(c) PROVE Stopped(c)'
            OBVIOUS
        <3>1. NoneAsked(c, 0)'
            BY DEF Stopped, Untouched
        <3>2. (\E w \in Workers : On(w, c) /\ (handler[w].pc = "clear" \/ call[w].pc = "erase"))
               => (\E w \in Workers : On(w, c) /\ (handler[w].pc = "clear" \/ call[w].pc = "erase"))'
            BY DEF On
        <3> QED BY <1>1, <1>5, <3>1, <3>2 DEF Stopped
    <2> QED BY <1>5, <2>1 DEF Obeyed, Untouched
<1> QED BY <1>6, <1>7, <1>8, <1>9, <1>10 DEF ChatInv

\* A handler has its chat to itself.
LEMMA HasItsChat ==
    ASSUME TInv, NEW w \in Workers, handler[w].pc # "idle",
           \A v \in Workers : v # w => handler'[v] = handler[v] /\ call'[v] = call[v]
    PROVE  Sole(w, handler[w].chat)
BY DEF TInv, TakeTurns, At, Sole, On

\* A step of w for the chat c keeps the invariant, when it keeps what is said of w and c.
LEMMA OneChat ==
    ASSUME IInv, TInv, TakeTurns', raced' = raced, NEW w \in Workers, NEW c \in Chats, Sole(w, c),
           \A d \in Chats : d # c => ~On(w, d) /\ ~On(w, d)' /\ Untouched(d),
           Paired(w)', Unmapped(w)',
           \A v \in Workers : v # w /\ call[v].s # None => \/ sessions'[c] = sessions[c]
                                                          \/ sessions'[c] # call[v].s,
           \A p \in Tracks : \/ Homed(p)'
                             \/ /\ pipeline'[p].chat # c /\ Streamer!ReaderActive(p)
                                /\ pipeline'[p].chat = pipeline[p].chat
                                /\ pipeline'[p].volume = pipeline[p].volume,
           ChatInv(c)'
    PROVE  TInv'
<1>1. ASSUME NEW v \in Workers, v # w PROVE Paired(v)' /\ Unmapped(v)'
    <2>1. Paired(v) /\ Unmapped(v) /\ handler'[v] = handler[v] /\ call'[v] = call[v] /\ ~On(v, c)
        BY <1>1 DEF TInv, Sole
    <2>2. ASSUME call[v].op = "stop"
          PROVE  call[v].chat \in Chats \ {c}
        <3>1. handler[v].pc \in Awaiting /\ call[v].chat = handler[v].chat /\ handler[v].chat \in Chats
            BY <2>1, <2>2, HandlerTyped DEF IInv, Paired, Awaiting, ControlOf
        <3> QED BY <2>1, <3>1 DEF On, Awaiting
    <2>3. \A d \in Chats : d # c => sessions'[d] = sessions[d]
        BY DEF Untouched
    <2>4. Unmapped(v)'
        BY <1>1, <2>1, <2>2, <2>3 DEF Unmapped
    <2> QED BY <2>1, <2>4 DEF Paired
<1>2. ASSUME NEW p \in Tracks PROVE Homed(p)'
    <2> SUFFICES ASSUME /\ pipeline'[p].chat # c /\ Streamer!ReaderActive(p)
                        /\ pipeline'[p].chat = pipeline[p].chat
                        /\ pipeline'[p].volume = pipeline[p].volume
                 PROVE  Homed(p)'
        OBVIOUS
    <2> DEFINE d == pipeline[p].chat
    <2>1. /\ d \in Chats /\ d # c
          /\ \/ sessions[d] = pipeline[p].volume
             \/ \E v \in Workers : On(v, d) /\ call[v].op = "stop" /\ call[v].s = pipeline[p].volume
        BY DEF TInv, Homed
    <2>2. sessions'[d] = sessions[d] /\ ~On(w, d)
        BY <2>1 DEF Untouched
    <2>3. \A v \in Workers : On(v, d) => On(v, d)' /\ call'[v] = call[v]
        BY <2>2 DEF Sole, On
    <2> QED BY <2>1, <2>2, <2>3 DEF Homed
<1>3. ASSUME NEW d \in Chats, d # c PROVE ChatInv(d)'
    BY <1>3, StandsStill DEF TInv, Sole
<1> QED BY <1>1, <1>2, <1>3 DEF TInv

\* What is said of the handlers of the chat is said of w.
LEMMA OfOne ==
    ASSUME NEW w \in Workers, NEW c, Sole(w, c)
    PROVE  /\ Replacing(c) <=> On(w, c) /\ call[w].op = "play" /\ call[w].s = sessions[c]
                                /\ ~Past(call[w])
           /\ Replacing(c)' <=> On(w, c)' /\ call'[w].op = "play" /\ call'[w].s = sessions'[c]
                                 /\ ~Past(call'[w])
           /\ Settling(c) <=> On(w, c) /\ call[w].op = "play" /\ call[w].s = sessions[c]
                               /\ call[w].pc = "playing"
           /\ Settling(c)' <=> On(w, c)' /\ call'[w].op = "play" /\ call'[w].s = sessions'[c]
                                /\ call'[w].pc = "playing"
           /\ Advancing(c) <=> \/ detached[c] > 0
                               \/ NextInPool(c)
                               \/ /\ On(w, c)
                                  /\ handler[w].pc = "pop" \/ call[w].pc \in {"lookup", "erase"}
           /\ Advancing(c)' <=> \/ detached'[c] > 0
                                \/ NextInPool(c)'
                                \/ /\ On(w, c)'
                                   /\ handler'[w].pc = "pop" \/ call'[w].pc \in {"lookup", "erase"}
<1>1. \A v \in Workers : v # w => ~On(v, c) /\ ~On(v, c)'
    BY DEF Sole, On
<1> QED BY <1>1 DEF Replacing, Settling, Advancing

LEMMA OfOneToo ==
    ASSUME NEW w \in Workers, NEW c, Sole(w, c)
    PROVE  /\ Awaited(c) <=>
                /\ queues[c] # <<>> => sessions[c] # None
                /\ On(w, c) => /\ handler[w].pc = "enqueue" => sessions[c] # None
                               /\ call[w].op = "stop" => queues[c] = <<>>
           /\ Awaited(c)' <=>
                /\ queues'[c] # <<>> => sessions'[c] # None
                /\ On(w, c)' => /\ handler'[w].pc = "enqueue" => sessions'[c] # None
                                /\ call'[w].op = "stop" => queues'[c] = <<>>
           /\ Leaving(c) <=> On(w, c) /\ call[w].op = "stop"
                              /\ call[w].pc \notin {"erase", "release", "done"}
           /\ Leaving(c)' <=> On(w, c)' /\ call'[w].op = "stop"
                               /\ call'[w].pc \notin {"erase", "release", "done"}
           /\ InCall(c) <=>
                /\ c \in active_chats => \/ sessions[c] # None
                                         \/ Leaving(c)
                                         \/ On(w, c) /\ call[w].pc = "lookup"
                /\ ~JoinMayFail =>
                     /\ sessions[c] # None => c \in active_chats
                     /\ On(w, c) /\ call[w].op = "play" => c \in active_chats
           /\ InCall(c)' <=>
                /\ c \in active_chats' => \/ sessions'[c] # None
                                          \/ Leaving(c)'
                                          \/ On(w, c)' /\ call'[w].pc = "lookup"
                /\ ~JoinMayFail =>
                     /\ sessions'[c] # None => c \in active_chats'
                     /\ On(w, c)' /\ call'[w].op = "play" => c \in active_chats'
           /\ Stopped(c) <=>
                /\ NoneAsked(c, 0)
                /\ On(w, c) => handler[w].cmd \notin {"play", "skip"} /\ call[w].op # "play"
                /\ \/ sessions[c] = None
                   \/ On(w, c) /\ (handler[w].pc = "clear" \/ call[w].pc = "erase")
           /\ Stopped(c)' <=>
                /\ NoneAsked(c, 0)'
                /\ On(w, c)' => handler'[w].cmd \notin {"play", "skip"} /\ call'[w].op # "play"
                /\ \/ sessions'[c] = None
                   \/ On(w, c)' /\ (handler'[w].pc = "clear" \/ call'[w].pc = "erase")
<1>1. \A v \in Workers : v # w => ~On(v, c) /\ ~On(v, c)'
    BY DEF Sole, On
<1>2. /\ Leaving(c) <=> On(w, c) /\ call[w].op = "stop"
                         /\ call[w].pc \notin {"erase", "release", "done"}
      /\ Leaving(c)' <=> On(w, c)' /\ call'[w].op = "stop"
                          /\ call'[w].pc \notin {"erase", "release", "done"}
    BY <1>1 DEF Leaving
<1>3. Awaited(c) <=>
        /\ queues[c] # <<>> => sessions[c] # None
        /\ On(w, c) => /\ handler[w].pc = "enqueue" => sessions[c] # None
                       /\ call[w].op = "stop" => queues[c] = <<>>
    BY <1>1 DEF Awaited
<1>4. Awaited(c)' <=>
        /\ queues'[c] # <<>> => sessions'[c] # None
        /\ On(w, c)' => /\ handler'[w].pc = "enqueue" => sessions'[c] # None
                        /\ call'[w].op = "stop" => queues'[c] = <<>>
    BY <1>1 DEF Awaited
<1>5. InCall(c) <=>
        /\ c \in active_chats => \/ sessions[c] # None
                                 \/ Leaving(c)
                                 \/ On(w, c) /\ call[w].pc = "lookup"
        /\ ~JoinMayFail =>
             /\ sessions[c] # None => c \in active_chats
             /\ On(w, c) /\ call[w].op = "play" => c \in active_chats
    BY <1>1 DEF InCall
<1>6. InCall(c)' <=>
        /\ c \in active_chats' => \/ sessions'[c] # None
                                  \/ Leaving(c)'
                                  \/ On(w, c)' /\ call'[w].pc = "lookup"
        /\ ~JoinMayFail =>
             /\ sessions'[c] # None => c \in active_chats'
             /\ On(w, c)' /\ call'[w].op = "play" => c \in active_chats'
    BY <1>1 DEF InCall
<1>7. Stopped(c) <=>
        /\ NoneAsked(c, 0)
        /\ On(w, c) => handler[w].cmd \notin {"play", "skip"} /\ call[w].op # "play"
        /\ \/ sessions[c] = None
           \/ On(w, c) /\ (handler[w].pc = "clear" \/ call[w].pc = "erase")
    BY <1>1 DEF Stopped
<1>8. Stopped(c)' <=>
        /\ NoneAsked(c, 0)'
        /\ On(w, c)' => handler'[w].cmd \notin {"play", "skip"} /\ call'[w].op # "play"
        /\ \/ sessions'[c] = None
           \/ On(w, c)' /\ (handler'[w].pc = "clear" \/ call'[w].pc = "erase")
    BY <1>1 DEF Stopped
<1> QED BY <1>2, <1>3, <1>4, <1>5, <1>6, <1>7, <1>8

-----------------------------------------------------------------------------
(* What a step of a call keeps of the invariant. *)

\* A call runs for the chat of its handler, which has the chat to itself.
LEMMA CallsChat ==
    ASSUME IInv, TInv, NEW w \in Workers, call[w].pc # "none", Elsewhere, OnlyMoves(w),
           NEW c, c = call[w].chat
    PROVE  /\ c \in Chats /\ handler[w].chat = c /\ handler[w].pc \in Awaiting
           /\ On(w, c) /\ On(w, c)' /\ Sole(w, c)
           /\ \A d \in Chats : d # c => ~On(w, d) /\ ~On(w, d)'
<1>1. Types /\ Paired(w)
    BY DEF IInv, TInv
<1>2. handler[w].pc \in Awaiting /\ handler[w].chat = c /\ c \in Chats
    BY <1>1, HandlerTyped DEF Paired, ControlOf
<1>3. handler' = handler
    BY DEF Elsewhere
<1>4. Sole(w, handler[w].chat)
    BY <1>2, <1>3, HasItsChat DEF OnlyMoves, Awaiting
<1> QED BY <1>2, <1>3, <1>4 DEF On, Awaiting

\* The sessions of other chats are not the one that a call works on.
LEMMA ForeignSession ==
    ASSUME IInv, TInv, NEW w \in Workers, call[w].s # None,
           NEW c \in Chats, c # call[w].chat, sessions[c] # None
    PROVE  sessions[c] # call[w].s /\ sessions[c] \in Tracks
<1>1. /\ Types /\ Typed /\ Ownership /\ KnowsOf(w) /\ Unmapped(w)
      /\ ControlOf(handler[w], call[w])
    BY KnownOf
<1>2. call[w].chat \in Chats /\ sessions[c] \in Tracks
    BY <1>1, TracksArePositive DEF ControlOf, Typed, Places, Outside
<1>3. CASE call[w].op = "stop"
    BY <1>1, <1>2, <1>3 DEF Unmapped
<1>4. CASE call[w].op # "stop"
    BY <1>1, <1>2, <1>4 DEF KnowsOf, Ownership, Apart
<1> QED BY <1>2, <1>3, <1>4

LEMMA CallSparesChat ==
    ASSUME Elsewhere, UNCHANGED detached, NEW d \in Chats, sessions'[d] = sessions[d],
           d \in active_chats' <=> d \in active_chats,
           sessions[d] # None =>
              /\ session'[sessions[d]] = session[sessions[d]]
              /\ session[sessions[d]].pipeline # None =>
                    pipeline'[session[sessions[d]].pipeline]
                        = pipeline[session[sessions[d]].pipeline]
    PROVE  Untouched(d)
BY DEF Untouched, Elsewhere, NextInPool, StopAsked, NoneAsked

LEMMA TendsKeeps ==
    ASSUME IInv, TInv, TakeTurns', NEW w \in Workers, Tends(w), Elsewhere,
           \/ active_chats' = active_chats /\ call'[w].pc # "release"
           \/ active_chats' = active_chats \ {call[w].chat} /\ call[w].op = "stop"
    PROVE  TInv'
<1>0. PICK c \in Chats : c = call[w].chat
    BY CallsChat DEF Tends, Outside
<1>1. /\ Types /\ Typed /\ Ownership
      /\ ControlOf(handler[w], call[w]) /\ KnowsOf(w) /\ HandedOf(w)
      /\ Paired(w) /\ Unmapped(w)
    BY KnownOf
<1>2. UNCHANGED <<queues, pool, handler, last, sessions, detached, raced>>
    BY DEF Tends, Elsewhere
<1>3. /\ call[w].pc \notin {"none", "lookup", "erase"} /\ call[w].s # None
      /\ call'[w].pc \notin {"none", "lookup", "erase", "done"}
      /\ call[w].op \in {"play", "stop"} /\ call'[w].op = call[w].op
      /\ call'[w].chat = call[w].chat /\ call'[w].s = call[w].s
    BY <1>1 DEF Tends, Outside, ControlOf
<1>4. /\ On(w, c) /\ On(w, c)' /\ Sole(w, c)
      /\ \A d \in Chats : d # c => ~On(w, d) /\ ~On(w, d)'
    BY <1>0, <1>3, CallsChat DEF Tends
<1>5. Paired(w)' /\ Unmapped(w)'
    BY <1>1, <1>2, <1>3 DEF Tends, Paired, Unmapped
<1>6. \A p \in Tracks : Homed(p)'
    <2>1. \A v \in Workers : call'[v].op = call[v].op /\ call'[v].s = call[v].s
        BY <1>3, <1>4 DEF Sole
    <2> QED BY <1>2, <2>1 DEF TInv, Homed, Tends, ReadersStay, On
<1>7. ASSUME NEW d \in Chats, d # c PROVE Untouched(d)
    <2>1. d \in active_chats' <=> d \in active_chats
        BY <1>0, <1>7
    <2>2. sessions[d] # None => sessions[d] # call[w].s /\ sessions[d] \in Tracks
        BY <1>0, <1>3, <1>7, ForeignSession
    <2> QED BY <1>2, <2>1, <2>2, CallSparesChat DEF Tends, OthersStay
<1>8. ChatInv(c)'
    <2>1. ChatInv(c)
        BY DEF TInv
    <2>2. Streaming(c)' /\ Truthful(c)' /\ BrieflyIdle(c)'
        <3>1. CASE call[w].op = "stop"
            <4>1. sessions'[c] = None
                BY <1>0, <1>1, <1>2, <1>3, <3>1 DEF Unmapped
            <4> QED BY <4>1 DEF Streaming, Truthful, BrieflyIdle
        <3>2. CASE call[w].op = "play"
            <4>1. sessions'[c] = call'[w].s /\ ~Past(call'[w])
                BY <1>0, <1>1, <1>2, <1>3, <3>2 DEF KnowsOf, Tends
            <4>2. Replacing(c)'
                BY <1>3, <1>4, <3>2, <4>1, OfOne
            <4> QED BY <4>2 DEF Streaming, Truthful, BrieflyIdle
        <3> QED BY <1>3, <3>1, <3>2
    <2>3. Awaited(c)'
        BY <1>2, <1>3, <1>4, <2>1, OfOneToo DEF ChatInv, On
    <2>4. InCall(c)'
        <3>1. call[w].op = "stop" => sessions[c] = None
            BY <1>0, <1>1, <1>3 DEF Unmapped
        <3>2. call[w].op = "play" => sessions[c] # None
            BY <1>0, <1>1, <1>3 DEF KnowsOf
        <3> QED BY <1>0, <1>2, <1>3, <1>4, <2>1, <3>1, <3>2, OfOneToo DEF ChatInv
    <2>5. Obeyed(c)'
        <3>1. StopAsked(c) => StopAsked(c)'
            BY <1>2 DEF StopAsked, NoneAsked
        <3>2. Stopped(c) => Stopped(c)'
            <4>1. NoneAsked(c, 0) => NoneAsked(c, 0)'
                BY <1>2 DEF NoneAsked
            <4> QED BY <1>1, <1>2, <1>3, <1>4, <4>1, OfOneToo DEF ControlOf, Awaiting
        <3> QED BY <1>2, <2>1, <3>1, <3>2 DEF ChatInv, Obeyed
    <2> QED BY <2>2, <2>3, <2>4, <2>5 DEF ChatInv
<1> QED BY <1>2, <1>4, <1>5, <1>6, <1>7, <1>8, OneChat

-----------------------------------------------------------------------------
(* The steps of play that start the stream. *)

\* A session that stays as it is keeps what Streaming, Truthful and BrieflyIdle say of it.
LEMMA SessionKept ==
    ASSUME TInv, NEW c \in Chats, UNCHANGED <<session, pipeline>>, sessions'[c] = sessions[c],
           sessions[c] # None => /\ Replacing(c) => Replacing(c)'
                                 /\ Settling(c)' <=> Settling(c),
           Advancing(c) => Advancing(c)'
    PROVE  Streaming(c)' /\ Truthful(c)' /\ BrieflyIdle(c)'
<1>1. Streaming(c) /\ Truthful(c) /\ BrieflyIdle(c)
    BY DEF TInv, ChatInv
<1>2. CASE sessions[c] = None
    BY <1>2 DEF Streaming, Truthful, BrieflyIdle
<1>3. CASE sessions[c] # None
    <2>1. PICK s : s = session[sessions[c]]
        OBVIOUS
    <2>2. session'[sessions'[c]] = s
        BY <1>3, <2>1
    <2>3. Streaming(c)'
        BY <1>1, <1>3, <2>1, <2>2 DEF Streaming, Streamer!ReaderActive
    <2>4. Truthful(c)'
        BY <1>1, <1>3, <2>1, <2>2 DEF Truthful, Streamer!ReaderActive
    <2>5. BrieflyIdle(c)'
        BY <1>1, <1>3, <2>1, <2>2 DEF BrieflyIdle
    <2> QED BY <2>3, <2>4, <2>5
<1> QED BY <1>2, <1>3

\* The pool and the commands accepted stay: a /stop is as far as it was.
LEMMA ObeyedKept ==
    ASSUME TInv, NEW w \in Workers, NEW c \in Chats, Sole(w, c), On(w, c),
           UNCHANGED <<pool, last, handler>>,
           Stopped(c) => /\ call'[w].op = "play" => call[w].op = "play"
                         /\ call[w].pc = "erase" => call'[w].pc = "erase" \/ sessions'[c] = None
                         /\ sessions[c] = None => sessions'[c] = None
    PROVE  Obeyed(c)'
<1>1. Obeyed(c)
    BY DEF TInv, ChatInv
<1>2. StopAsked(c) => StopAsked(c)'
    BY DEF StopAsked, NoneAsked
<1>3. (NoneAsked(c, 0) => NoneAsked(c, 0)') /\ On(w, c)'
    BY DEF NoneAsked, On
<1>4. Stopped(c) => Stopped(c)'
    BY <1>3, OfOneToo
<1> QED BY <1>1, <1>2, <1>4 DEF Obeyed

\* A reader that runs has a session, whose pipeline is the one it reads.
LEMMA ReaderOf ==
    ASSUME IInv, TInv, NEW p \in Tracks, Streamer!ReaderActive(p)
    PROVE  /\ pipeline[p].volume \in Tracks /\ pipeline[p].volume # None
           /\ session[pipeline[p].volume].pipeline = p
           /\ pipeline[p].chat \in Chats
BY TracksArePositive DEF IInv, TInv, Ownership, Readers, Homed

LEMMA LaunchKeeps ==
    ASSUME IInv, TInv, TakeTurns', NEW w \in Workers, Elsewhere, Streamer!Launch(w)
    PROVE  TInv'
<1>1. /\ Types /\ Typed /\ Ownership
      /\ ControlOf(handler[w], call[w]) /\ KnowsOf(w) /\ HandedOf(w)
      /\ Paired(w) /\ Unmapped(w)
    BY KnownOf
<1>2. PICK p, c : p = call[w].p /\ c = call[w].chat
    OBVIOUS
<1>3. /\ call[w].pc = "launch" /\ call[w].op = "play" /\ p = Mine(w) /\ p \in Tracks
      /\ pipeline[p].reader = "none" /\ call[w].s \in Tracks /\ call[w].s # None
      /\ c \in Chats /\ sessions[c] = call[w].s
    BY <1>1, <1>2, TracksArePositive DEF Streamer!Launch, ControlOf, KnowsOf, Typed, OfPlay, Outside
<1>4. pipeline[p].object = "live"
    BY <1>1, <1>3, TracksArePositive DEF Ownership, Owned, Mine
<1>5. /\ pipeline' = [pipeline EXCEPT ![p] =
                    [object |-> "live", running |-> TRUE, paused |-> FALSE,
                     reader |-> "starting", track |-> call[w].track,
                     chat |-> call[w].chat, volume |-> call[w].s]]
      /\ call' = [call EXCEPT ![w].pc = "playing"]
      /\ UNCHANGED <<sessions, session, detached, raced, active_chats>>
    BY <1>2, <1>3, <1>4 DEF Streamer!Launch, Streamer!Go, Streamer!callVars
<1>6. /\ call'[w].pc = "playing" /\ call'[w].op = "play" /\ call'[w].chat = c
      /\ call'[w].s = call[w].s /\ call'[w].threw = call[w].threw
      /\ OnlyMoves(w)
    BY <1>1, <1>2, <1>3, <1>5 DEF Types, Shapes, Calls, OnlyMoves, Pcs, OfPlay
<1>7. /\ \A q \in Tracks : q # p => pipeline'[q] = pipeline[q]
      /\ pipeline'[p].reader = "starting" /\ pipeline'[p].chat = c
      /\ pipeline'[p].volume = call[w].s /\ ~pipeline'[p].paused
    BY <1>1, <1>2, <1>3, <1>5 DEF Types, Shapes
<1>8. UNCHANGED <<queues, pool, handler, last, sessions, session, detached, raced, active_chats>>
    BY <1>5 DEF Elsewhere
<1>9. /\ On(w, c) /\ On(w, c)' /\ Sole(w, c)
      /\ \A d \in Chats : d # c => ~On(w, d) /\ ~On(w, d)'
    BY <1>2, <1>3, <1>6, CallsChat
<1>10. Paired(w)' /\ Unmapped(w)'
    BY <1>1, <1>2, <1>3, <1>6, <1>8 DEF Paired, Unmapped
<1>11. ASSUME NEW q \in Tracks PROVE Homed(q)'
    <2>1. \A v \in Workers : call[v].op = "stop" => call'[v] = call[v]
        BY <1>3, <1>9 DEF Sole
    <2> QED BY <1>3, <1>7, <1>8, <2>1 DEF TInv, Homed, Streamer!ReaderActive, On
<1>12. ASSUME NEW d \in Chats, d # c PROVE Untouched(d)
    <2>1. sessions[d] # None => sessions[d] # call[w].s /\ sessions[d] \in Tracks
        BY <1>2, <1>3, <1>12, ForeignSession
    <2>2. sessions[d] # None =>
             /\ session[sessions[d]].pipeline # p
             /\ session[sessions[d]].pipeline # None => session[sessions[d]].pipeline \in Tracks
        BY <1>1, <1>3, <2>1, TracksArePositive DEF Ownership, Apart, Typed, Mine, Places
    <2> QED BY <1>7, <1>8, <2>2, CallSparesChat
<1>13. ChatInv(c)'
    <2>1. Awaited(c) /\ InCall(c)
        BY <1>3 DEF TInv, ChatInv
    <2>2. session'[sessions'[c]].pipeline = p /\ sessions'[c] = call[w].s
        BY <1>3, <1>8 DEF Mine
    <2>3. Settling(c)'
        BY <1>6, <1>9, <2>2, OfOne
    <2>4. p # None /\ pipeline'[p].reader = "starting" /\ ~pipeline'[p].paused
        BY <1>3, <1>7, TracksArePositive
    <2>5. Streaming(c)' /\ Truthful(c)' /\ BrieflyIdle(c)'
        BY <2>2, <2>3, <2>4 DEF Streaming, Truthful, BrieflyIdle, Streamer!ReaderActive
    <2>6. Obeyed(c)'
        BY <1>3, <1>6, <1>8, <1>9, ObeyedKept
    <2>7. Awaited(c)' /\ InCall(c)'
        BY <1>3, <1>6, <1>8, <1>9, <2>1, OfOneToo
    <2> QED BY <2>5, <2>6, <2>7 DEF ChatInv
<1> QED BY <1>3, <1>8, <1>9, <1>10, <1>11, <1>12, <1>13, OneChat

LEMMA PlayingKeeps ==
    ASSUME IInv, TInv, TakeTurns', NEW w \in Workers, Elsewhere, Streamer!Playing(w)
    PROVE  TInv'
<1>1. /\ Types /\ Typed /\ Ownership
      /\ ControlOf(handler[w], call[w]) /\ KnowsOf(w) /\ HandedOf(w)
      /\ Paired(w) /\ Unmapped(w)
    BY KnownOf
<1>2. PICK c : c = call[w].chat
    OBVIOUS
<1>3. /\ call[w].pc = "playing" /\ call[w].op = "play" /\ call[w].s \in Tracks /\ call[w].s # None
      /\ c \in Chats /\ sessions[c] = call[w].s
    BY <1>1, <1>2, TracksArePositive DEF Streamer!Playing, ControlOf, KnowsOf, Typed, OfPlay,
       Outside
<1>4. /\ call'[w].pc = "release" /\ call'[w].op = "play" /\ call'[w].chat = c
      /\ call'[w].s = call[w].s /\ call'[w].threw = call[w].threw
      /\ OnlyMoves(w)
    BY <1>1, <1>2, <1>3 DEF Streamer!Playing, Streamer!Go, Types, Shapes, Calls, OnlyMoves, Pcs,
       Either
<1>5. UNCHANGED <<queues, pool, handler, last, sessions, pipeline, detached, raced, active_chats>>
    BY DEF Elsewhere, Streamer!Playing, Streamer!callVars
<1>6. /\ session'[call[w].s].state = "Playing" /\ session'[call[w].s].pipeline = Mine(w)
      /\ \A r \in Tracks : r # call[w].s => session'[r] = session[r]
    BY <1>1, <1>3 DEF Streamer!Playing, Types, Shapes, Sessions, Mine
<1>7. /\ On(w, c) /\ On(w, c)' /\ Sole(w, c)
      /\ \A d \in Chats : d # c => ~On(w, d) /\ ~On(w, d)'
    BY <1>2, <1>3, <1>4, CallsChat
<1>8. Paired(w)' /\ Unmapped(w)'
    BY <1>1, <1>2, <1>3, <1>4, <1>5 DEF Paired, Unmapped
<1>9. ASSUME NEW q \in Tracks PROVE Homed(q)'
    <2>1. \A v \in Workers : call[v].op = "stop" => call'[v] = call[v]
        BY <1>3, <1>7 DEF Sole
    <2> QED BY <1>5, <2>1 DEF TInv, Homed, Streamer!ReaderActive, On
<1>10. ASSUME NEW d \in Chats, d # c PROVE Untouched(d)
    <2>1. sessions[d] # None => sessions[d] # call[w].s /\ sessions[d] \in Tracks
        BY <1>2, <1>3, <1>10, ForeignSession
    <2> QED BY <1>5, <1>6, <2>1, CallSparesChat
<1>11. ChatInv(c)'
    <2>1. Streaming(c) /\ Truthful(c) /\ Awaited(c) /\ InCall(c)
        BY <1>3 DEF TInv, ChatInv
    <2>2. Advancing(c) => Advancing(c)'
        BY <1>3, <1>4, <1>5, <1>7, OfOne DEF NextInPool, On
    <2>3. ~Replacing(c) /\ ~Settling(c)' /\ Settling(c)
        BY <1>3, <1>4, <1>7, OfOne DEF Past
    <2>4. PICK s : s = session'[sessions'[c]]
        OBVIOUS
    <2>5. /\ s.pipeline = session[sessions[c]].pipeline /\ s.state = "Playing"
          /\ sessions'[c] # None
        BY <1>3, <1>5, <1>6, <2>4 DEF Mine
    <2>6. Streaming(c)'
        BY <1>5, <2>1, <2>2, <2>3, <2>4, <2>5 DEF Streaming, Streamer!ReaderActive
    <2>7. Truthful(c)'
        BY <1>5, <2>1, <2>3, <2>4, <2>5 DEF Truthful, Streamer!ReaderActive
    <2>8. BrieflyIdle(c)'
        BY <2>4, <2>5 DEF BrieflyIdle
    <2>9. Obeyed(c)'
        BY <1>3, <1>4, <1>5, <1>7, ObeyedKept
    <2>10. Awaited(c)' /\ InCall(c)'
        BY <1>3, <1>4, <1>5, <1>7, <2>1, OfOneToo
    <2> QED BY <2>6, <2>7, <2>8, <2>9, <2>10 DEF ChatInv
<1> QED BY <1>3, <1>5, <1>7, <1>8, <1>9, <1>10, <1>11, OneChat

-----------------------------------------------------------------------------
(* The steps that look a session up, take it from the map, or pause it. *)

\* No other call works on the session of a chat, or on one that is made for it.
LEMMA NobodyElse ==
    ASSUME IInv, TInv, NEW w \in Workers, call[w].pc # "none", NEW c, c = call[w].chat,
           NEW s, s # None, s = sessions[c] \/ (s = call[w].track /\ call[w].pc = "lookup"),
           NEW v \in Workers, v # w
    PROVE  call[v].s # s
<1> SUFFICES ASSUME call[v].s = s PROVE FALSE
    OBVIOUS
<1>1. /\ Types /\ Typed /\ Ownership
      /\ ControlOf(handler[w], call[w]) /\ Paired(w)
    BY KnownOf
<1>2. ControlOf(handler[v], call[v]) /\ KnowsOf(v) /\ Unmapped(v) /\ Paired(v)
    BY KnownOf
<1>3. /\ handler[w].pc \in Awaiting /\ handler[w].chat = c /\ c \in Chats
      /\ handler[v].pc \in Awaiting /\ handler[v].chat = call[v].chat /\ call[v].chat \in Chats
    BY <1>1, <1>2 DEF ControlOf, Paired, Outside
<1>4. call[v].chat # c
    BY <1>3 DEF TInv, TakeTurns, At, Awaiting
<1>5. CASE s = sessions[c]
    BY <1>1, <1>2, <1>3, <1>4, <1>5 DEF Unmapped, KnowsOf, Ownership, Apart
<1>6. CASE s = call[w].track /\ call[w].pc = "lookup"
    <2>1. s \in Tracks /\ NoSessionYet(s)
        BY <1>1, <1>6 DEF ControlOf, NoSessionYet, InHand, BeforeLookup, OfPlay
    <2> QED BY <1>1, <2>1 DEF Ownership, Fresh
<1> QED BY <1>5, <1>6

LEMMA NoRace ==
    ASSUME IInv, TInv, NEW w \in Workers, call[w].pc # "none",
           NEW s, s = sessions[call[w].chat] \/ (s = call[w].track /\ call[w].pc = "lookup"),
           Streamer!NoteRace(w, s)
    PROVE  raced' = raced
<1>1. raced = FALSE
    BY DEF IInv, TInv, Types, Shapes
<1>2. ~(s # None /\ \E v \in Workers \ {w} : call[v].s = s)
    BY NobodyElse
<1> QED BY <1>1, <1>2 DEF Streamer!NoteRace, None, Streamer!None

LEMMA LookupKeeps ==
    ASSUME IInv, TInv, TakeTurns', NEW w \in Workers, Elsewhere, Streamer!Lookup(w)
    PROVE  TInv'
<1>1. /\ Types /\ Typed /\ Ownership
      /\ ControlOf(handler[w], call[w]) /\ KnowsOf(w) /\ HandedOf(w)
      /\ Paired(w) /\ Unmapped(w)
    BY KnownOf
<1>2. PICK c, s : c = call[w].chat /\ s = Found(w)
    OBVIOUS
<1>3. LookupDoes(w) /\ call'[w].threw = call[w].threw
    <2>1. LookupDoes(w)
        BY <1>1, LookupFacts
    <2>2. call[w] \in Calls /\ call \in [Workers -> Calls]
        BY <1>1 DEF Types, Shapes
    <2>3. call'[w].threw = call[w].threw
        BY <2>2, SMTT(60) DEF Streamer!Lookup, Calls
    <2> QED BY <2>1, <2>3
<1>4. /\ call[w].pc = "lookup" /\ call[w].op = "play" /\ call[w].s = None /\ c \in Chats
      /\ s # None /\ handler[w].pc \in Awaiting
      /\ sessions[c] # None => s = sessions[c]
      /\ s = sessions[c] \/ s = call[w].track
    BY <1>1, <1>2, <1>3, TracksArePositive DEF LookupDoes, ControlOf, OfPlay, Typed, Found, Outside
<1>5. raced' = raced
    <2>1. Streamer!NoteRace(w, s)
        BY <1>2 DEF Streamer!Lookup, Found, None, Streamer!None
    <2> QED BY <1>2, <1>4, <2>1, NoRace
<1>6. UNCHANGED <<queues, pool, handler, last, session, pipeline, detached, raced, active_chats>>
    BY <1>3, <1>5 DEF LookupDoes, Elsewhere
<1>7. /\ call'[w].pc = "inspect" /\ call'[w].op = "play" /\ call'[w].chat = c
      /\ call'[w].s = s /\ OnlyMoves(w)
    BY <1>2, <1>3, <1>4 DEF LookupDoes, Moves
<1>8. \A d \in Chats : sessions'[d] = IF d = c THEN s ELSE sessions[d]
    BY <1>2, <1>3 DEF LookupDoes, Maps
<1>9. /\ On(w, c) /\ On(w, c)' /\ Sole(w, c)
      /\ \A d \in Chats : d # c => ~On(w, d) /\ ~On(w, d)'
    BY <1>2, <1>4, <1>7, CallsChat
<1>10. Paired(w)' /\ Unmapped(w)'
    BY <1>1, <1>2, <1>3, <1>4, <1>6, <1>7 DEF Paired, Unmapped
<1>11. ASSUME NEW q \in Tracks PROVE Homed(q)'
    <2> SUFFICES ASSUME Streamer!ReaderActive(q)' PROVE Homed(q)'
        BY DEF Homed
    <2>1. Streamer!ReaderActive(q)
        BY <1>6 DEF Streamer!ReaderActive
    <2>2. /\ pipeline[q].volume # None /\ pipeline[q].chat \in Chats
          /\ \/ sessions[pipeline[q].chat] = pipeline[q].volume
             \/ \E v \in Workers : /\ On(v, pipeline[q].chat)
                                   /\ call[v].op = "stop" /\ call[v].s = pipeline[q].volume
        BY <2>1, ReaderOf DEF TInv, Homed
    <2>3. sessions[pipeline[q].chat] = pipeline[q].volume
              => sessions'[pipeline[q].chat] = pipeline[q].volume
        BY <1>4, <1>8, <2>2
    <2>4. \A v \in Workers : call[v].op = "stop" => call'[v] = call[v]
        BY <1>4, <1>9 DEF Sole
    <2> QED BY <1>6, <2>2, <2>3, <2>4 DEF Homed, On
<1>12. ASSUME NEW d \in Chats, d # c PROVE Untouched(d)
    BY <1>6, <1>8, <1>12, CallSparesChat
<1>13. ASSUME NEW v \in Workers, v # w PROVE sessions'[c] # call[v].s
    BY <1>2, <1>4, <1>8, <1>13, NobodyElse
<1>14. ChatInv(c)'
    <2>1. Awaited(c) /\ InCall(c)
        BY <1>4 DEF TInv, ChatInv
    <2>2. sessions'[c] = s
        BY <1>4, <1>8
    <2>3. Replacing(c)'
        BY <1>7, <1>9, <2>2, OfOne DEF Past
    <2>4. Obeyed(c)'
        <3>1. ~Stopped(c)
            BY <1>4, <1>9, OfOneToo
        <3> QED BY <1>4, <1>6, <1>9, <3>1, ObeyedKept
    <2>5. Awaited(c)'
        BY <1>4, <1>6, <1>7, <1>9, <2>2, OfOneToo DEF Awaiting
    <2>6. InCall(c)'
        BY <1>4, <1>6, <1>9, <2>1, <2>2, OfOneToo
    <2> QED BY <2>3, <2>4, <2>5, <2>6 DEF ChatInv, Streaming, Truthful, BrieflyIdle
<1> QED BY <1>4, <1>6, <1>9, <1>10, <1>11, <1>12, <1>13, <1>14, OneChat

LEMMA EraseKeeps ==
    ASSUME IInv, TInv, TakeTurns', NEW w \in Workers, Elsewhere, Streamer!Erase(w)
    PROVE  TInv'
<1>1. /\ Types /\ Typed /\ Ownership
      /\ ControlOf(handler[w], call[w]) /\ KnowsOf(w) /\ HandedOf(w)
      /\ Paired(w) /\ Unmapped(w)
    BY KnownOf
<1>2. PICK c, s : c = call[w].chat /\ s = sessions[c]
    OBVIOUS
<1>3. EraseDoes(w) /\ call'[w].threw = call[w].threw
    BY <1>1, EraseFacts DEF Streamer!Erase, Types, Shapes, Calls
<1>4. /\ call[w].pc = "erase" /\ call[w].op = "stop" /\ call[w].s = None /\ c \in Chats
      /\ handler[w].pc \in Awaiting
    BY <1>1, <1>2, <1>3, TracksArePositive DEF EraseDoes, ControlOf, OfStop, Typed, Outside
<1>5. raced' = raced
    <2>1. Streamer!NoteRace(w, s)
        BY <1>2 DEF Streamer!Erase
    <2> QED BY <1>2, <1>4, <2>1, NoRace
<1>6. UNCHANGED <<queues, pool, handler, last, session, pipeline, detached, raced, active_chats>>
    BY <1>3, <1>5 DEF EraseDoes, Elsewhere
<1>7. /\ call'[w].pc = IF s = None THEN "done" ELSE "inspect"
      /\ call'[w].op = "stop" /\ call'[w].chat = c /\ call'[w].s = s /\ OnlyMoves(w)
    BY <1>2, <1>3, <1>4 DEF EraseDoes, Moves
<1>8. \A d \in Chats : sessions'[d] = IF d = c THEN None ELSE sessions[d]
    BY <1>2, <1>3 DEF EraseDoes, Maps
<1>9. /\ On(w, c) /\ On(w, c)' /\ Sole(w, c)
      /\ \A d \in Chats : d # c => ~On(w, d) /\ ~On(w, d)'
    BY <1>2, <1>4, <1>7, CallsChat
<1>10. Paired(w)' /\ Unmapped(w)'
    <2>1. \A d \in Chats : s # None => sessions'[d] # s
        BY <1>1, <1>2, <1>4, <1>8 DEF Ownership, Apart
    <2>2. sessions'[c] = None
        BY <1>4, <1>8
    <2> QED BY <1>1, <1>2, <1>3, <1>4, <1>6, <1>7, <2>1, <2>2 DEF Paired, Unmapped
<1>11. ASSUME NEW q \in Tracks PROVE Homed(q)'
    <2> SUFFICES ASSUME Streamer!ReaderActive(q)' PROVE Homed(q)'
        BY DEF Homed
    <2>1. Streamer!ReaderActive(q)
        BY <1>6 DEF Streamer!ReaderActive
    <2>2. /\ pipeline[q].volume # None /\ pipeline[q].chat \in Chats
          /\ \/ sessions[pipeline[q].chat] = pipeline[q].volume
             \/ \E v \in Workers : /\ v # w /\ On(v, pipeline[q].chat)
                                   /\ call[v].op = "stop" /\ call[v].s = pipeline[q].volume
        BY <1>4, <2>1, ReaderOf DEF TInv, Homed
    <2>3. CASE pipeline[q].chat = c /\ s = pipeline[q].volume
        BY <1>6, <1>7, <1>9, <2>2, <2>3 DEF Homed
    <2>4. CASE pipeline[q].chat # c /\ sessions[pipeline[q].chat] = pipeline[q].volume
        BY <1>6, <1>8, <2>2, <2>4 DEF Homed
    <2>5. ASSUME NEW v \in Workers, v # w, On(v, pipeline[q].chat), call[v].op = "stop",
                 call[v].s = pipeline[q].volume
          PROVE  Homed(q)'
        BY <1>6, <1>9, <2>2, <2>5 DEF Homed, Sole, On
    <2> QED BY <1>2, <2>2, <2>3, <2>4, <2>5
<1>12. ASSUME NEW d \in Chats, d # c PROVE Untouched(d)
    BY <1>6, <1>8, <1>12, CallSparesChat
<1>13. ASSUME NEW v \in Workers, call[v].s # None PROVE sessions'[c] # call[v].s
    BY <1>4, <1>8, <1>13
<1>14. ChatInv(c)'
    <2>1. Awaited(c) /\ InCall(c)
        BY <1>4 DEF TInv, ChatInv
    <2>2. sessions'[c] = None
        BY <1>4, <1>8
    <2>3. Streaming(c)' /\ Truthful(c)' /\ BrieflyIdle(c)'
        BY <2>2 DEF Streaming, Truthful, BrieflyIdle
    <2>4. Obeyed(c)'
        BY <1>4, <1>6, <1>7, <1>9, <2>2, ObeyedKept
    <2>5. Awaited(c)'
        BY <1>4, <1>6, <1>7, <1>9, <2>1, <2>2, OfOneToo DEF Awaiting
    <2>6. InCall(c)'
        <3>1. s # None => Leaving(c)'
            BY <1>7, <1>9, OfOneToo
        <3> QED BY <1>2, <1>4, <1>6, <1>7, <1>9, <2>1, <2>2, <3>1, OfOneToo
    <2> QED BY <2>3, <2>4, <2>5, <2>6 DEF ChatInv
<1> QED BY <1>4, <1>6, <1>9, <1>10, <1>11, <1>12, <1>13, <1>14, OneChat

\* A step of a call that changes nothing but where the call is.
LEMMA ReturnsKeeps ==
    ASSUME IInv, TInv, TakeTurns', NEW w \in Workers, Elsewhere, OnlyMoves(w),
           UNCHANGED <<sessions, session, pipeline, detached, raced, active_chats>>,
           call[w].pc \in {"release", "pause", "resume"}, call'[w].pc \in Applying \cup {"done"},
           call'[w].op = call[w].op, call'[w].chat = call[w].chat, call'[w].threw = call[w].threw,
           call[w].op = "stop" => call[w].pc = "release" /\ call'[w].s = None /\ Mine(w) = None
    PROVE  TInv'
<1>1. /\ Types /\ Typed /\ Ownership
      /\ ControlOf(handler[w], call[w]) /\ KnowsOf(w) /\ HandedOf(w)
      /\ Paired(w) /\ Unmapped(w)
    BY KnownOf
<1>2. PICK c : c = call[w].chat
    OBVIOUS
<1>3. UNCHANGED <<queues, pool, handler, last>>
    BY DEF Elsewhere
<1>4. /\ c \in Chats /\ handler[w].pc \in Awaiting
      /\ On(w, c) /\ On(w, c)' /\ Sole(w, c)
      /\ \A d \in Chats : d # c => ~On(w, d) /\ ~On(w, d)'
    BY <1>2, CallsChat
<1>5. Paired(w)' /\ Unmapped(w)'
    <2>1. Paired(w)'
        BY <1>1, <1>3 DEF Paired, Applying
    <2>2. Unmapped(w)'
        BY <1>1 DEF Unmapped
    <2> QED BY <2>1, <2>2
<1>6. ASSUME NEW q \in Tracks PROVE Homed(q)'
    <2> SUFFICES ASSUME Streamer!ReaderActive(q)' PROVE Homed(q)'
        BY DEF Homed
    <2>1. Streamer!ReaderActive(q)
        BY DEF Streamer!ReaderActive
    <2>2. /\ session[pipeline[q].volume].pipeline = q /\ q # None
          /\ pipeline[q].chat \in Chats
          /\ \/ sessions[pipeline[q].chat] = pipeline[q].volume
             \/ \E v \in Workers : /\ On(v, pipeline[q].chat)
                                   /\ call[v].op = "stop" /\ call[v].s = pipeline[q].volume
        BY <2>1, ReaderOf, TracksArePositive DEF TInv, Homed
    <2>3. call[w].op = "stop" => call[w].s # pipeline[q].volume
        BY <2>2 DEF Mine
    <2>4. \A v \in Workers : v # w => call'[v] = call[v]
        BY <1>4 DEF Sole
    <2> QED BY <1>3, <2>2, <2>3, <2>4 DEF Homed, On
<1>7. ASSUME NEW d \in Chats, d # c PROVE Untouched(d)
    BY CallSparesChat
<1>8. ChatInv(c)'
    <2>1. Awaited(c) /\ InCall(c)
        BY <1>4 DEF TInv, ChatInv
    <2>2. Advancing(c) => Advancing(c)'
        BY <1>3, <1>4, OfOne DEF NextInPool, Awaiting
    <2>3. call[w].op = "play" => Past(call[w])
        BY <1>1 DEF ControlOf, Past
    <2>4. ~Replacing(c) /\ ~Settling(c) /\ ~Settling(c)'
        BY <1>4, <2>3, OfOne DEF Applying
    <2>5. Streaming(c)' /\ Truthful(c)' /\ BrieflyIdle(c)'
        BY <1>4, <2>2, <2>4, SessionKept
    <2>6. Obeyed(c)'
        BY <1>3, <1>4, ObeyedKept
    <2>7. Awaited(c)' /\ InCall(c)'
        BY <1>1, <1>3, <1>4, <2>1, OfOneToo DEF ControlOf
    <2> QED BY <2>5, <2>6, <2>7 DEF ChatInv
<1> QED BY <1>4, <1>5, <1>6, <1>7, <1>8, OneChat

LEMMA ReleaseKeeps ==
    ASSUME IInv, TInv, TakeTurns', NEW w \in Workers, Elsewhere, Streamer!Release(w)
    PROVE  TInv'
<1>1. /\ Types /\ Typed /\ Ownership
      /\ ControlOf(handler[w], call[w]) /\ KnowsOf(w) /\ HandedOf(w)
      /\ Paired(w) /\ Unmapped(w)
    BY KnownOf
<1>2. ReleaseDoes(w)
    BY <1>1, ReleaseFacts
<1>3. /\ call[w].pc = "release" /\ call[w].op \in {"play", "stop"} /\ call[w].s # None
      /\ call[w].chat \in Chats
      /\ call[w].op = "play" => sessions[call[w].chat] = call[w].s
      /\ call[w].op = "stop" => Mine(w) = None
    BY <1>1, <1>2 DEF ReleaseDoes, ControlOf, Outside, Either, KnowsOf, Typed
<1>4. /\ Moves(w, "done", None, None, call[w].next)
      /\ UNCHANGED <<sessions, session, pipeline, detached, raced, crashed, active_chats>>
    BY <1>2, <1>3 DEF ReleaseDoes
<1>5. call'[w].threw = call[w].threw
    <2>1. call' = [call EXCEPT ![w].pc = "done", ![w].s = None, ![w].p = None]
        BY <1>1, <1>3 DEF Streamer!Release, Streamer!Current, Mine, None, Streamer!None
    <2> QED BY <1>1, <2>1 DEF Types, Shapes, Calls
<1>6. /\ call'[w].pc = "done" /\ call'[w].op = call[w].op /\ call'[w].chat = call[w].chat
      /\ call'[w].s = None /\ OnlyMoves(w)
    BY <1>4 DEF Moves
<1> QED BY <1>3, <1>4, <1>5, <1>6, ReturnsKeeps

LEMMA CheckKeeps ==
    ASSUME IInv, TInv, TakeTurns', NEW w \in Workers, Elsewhere,
           NEW op \in {"pause", "resume"}, NEW apply \in Applying, Streamer!Check(w, op, apply)
    PROVE  TInv'
<1>1. /\ Types /\ Typed /\ Ownership
      /\ ControlOf(handler[w], call[w]) /\ KnowsOf(w) /\ HandedOf(w)
      /\ Paired(w) /\ Unmapped(w)
    BY KnownOf
<1>2. CheckDoes(w, op, apply)
    BY <1>1, CheckFacts
<1>3. call'[w].threw = call[w].threw
    <2>1. call[w] \in Calls /\ call \in [Workers -> Calls]
        BY <1>1 DEF Types, Shapes
    <2>2. \/ call' = [call EXCEPT ![w].pc = "done"]
          \/ \E s, p : call' = [call EXCEPT ![w].pc = apply, ![w].s = s, ![w].p = p]
        BY DEF Streamer!Check, Streamer!Go
    <2>3. CASE call' = [call EXCEPT ![w].pc = "done"]
        BY <2>1, <2>3 DEF Calls
    <2>4. ASSUME NEW s, NEW p, call' = [call EXCEPT ![w].pc = apply, ![w].s = s, ![w].p = p]
          PROVE  call'[w].threw = call[w].threw
        BY <2>1, <2>4 DEF Calls
    <2> QED BY <2>2, <2>3, <2>4
<1>4. PICK s : s = sessions[call[w].chat]
    OBVIOUS
<1>5. raced' = raced
    <2>1. call[w].pc # "none"
        BY <1>2 DEF CheckDoes
    <2>2. raced' = raced \/ Streamer!NoteRace(w, s)
        BY <1>4 DEF Streamer!Check
    <2> QED BY <1>4, <2>1, <2>2, NoRace
<1>6. UNCHANGED <<sessions, session, pipeline, detached, raced, active_chats>>
    BY <1>2, <1>5 DEF CheckDoes
<1>7. /\ call[w].pc \in {"pause", "resume"} /\ call[w].op \notin {"play", "stop"}
      /\ call'[w].pc \in Applying \cup {"done"} /\ call'[w].op = call[w].op
      /\ call'[w].chat = call[w].chat /\ OnlyMoves(w)
    BY <1>1, <1>2 DEF CheckDoes, ControlOf, Moves
<1> QED BY <1>3, <1>6, <1>7, ReturnsKeeps

LEMMA ApplyKeeps ==
    ASSUME IInv, TInv, TakeTurns', NEW w \in Workers, Elsewhere,
           NEW apply \in Applying, NEW paused \in BOOLEAN, NEW state,
           state = IF paused THEN "Paused" ELSE "Playing",
           Streamer!Apply(w, apply, paused, state)
    PROVE  TInv'
<1>0. PICK c, s0, p0 : c = call[w].chat /\ s0 = call[w].s /\ p0 = Mine(w)
    OBVIOUS
<1>1. /\ Types /\ Typed /\ Ownership
      /\ ControlOf(handler[w], call[w]) /\ KnowsOf(w) /\ HandedOf(w)
      /\ Paired(w) /\ Unmapped(w)
    BY KnownOf
<1>2. /\ call[w].pc \in Applying /\ call[w].op \notin {"play", "stop"}
      /\ call[w].p = p0 /\ p0 # None /\ p0 \in Tracks /\ s0 \in Tracks
      /\ c \in Chats /\ sessions[c] = s0 /\ s0 # None
      /\ session[s0].pipeline = p0
    BY <1>0, <1>1, TracksArePositive DEF Streamer!Apply, ControlOf, KnowsOf, Typed, Applying,
       Outside, Places, Mine
<1>3. pipeline[p0].object = "live"
    BY <1>1, <1>2 DEF Ownership, Owned
<1>4. Streamer!Loaded(w) = {p0}
    BY <1>0, <1>2 DEF Streamer!Loaded, Streamer!Current, Mine
<1>5. /\ pipeline' = [pipeline EXCEPT ![p0].paused = paused]
      /\ session' = [session EXCEPT ![s0].state = state]
      /\ call' = [call EXCEPT ![w].pc = "done", ![w].s = None, ![w].p = None]
      /\ UNCHANGED <<sessions, detached, raced, crashed, active_chats>>
    BY <1>0, <1>2, <1>3, <1>4 DEF Streamer!Apply, None, Streamer!None, NTg!pause, NTg!resume,
       Streamer!NTg!pause, Streamer!NTg!resume
<1>6. /\ call'[w].pc = "done" /\ call'[w].op = call[w].op /\ call'[w].chat = c
      /\ call'[w].s = None /\ call'[w].threw = call[w].threw
    BY <1>0, <1>1, <1>5 DEF Types, Shapes, Calls
<1>7. UNCHANGED <<queues, pool, handler, last, sessions, detached, raced, active_chats>>
    BY <1>5 DEF Elsewhere
<1>8. /\ \A q \in Tracks : q # p0 => pipeline'[q] = pipeline[q]
      /\ \A q \in Tracks : /\ pipeline'[q].reader = pipeline[q].reader
                           /\ pipeline'[q].chat = pipeline[q].chat
                           /\ pipeline'[q].volume = pipeline[q].volume
      /\ pipeline'[p0].paused = paused
    BY <1>1, <1>2, <1>5 DEF Types, Shapes, PipelineStates
<1>9. /\ \A r \in Tracks : r # s0 => session'[r] = session[r]
      /\ session'[s0].state = state /\ session'[s0].pipeline = p0
    BY <1>1, <1>2, <1>5 DEF Types, Shapes, Sessions
<1>10. OnlyMoves(w)
    <2>1. ApplyDoes(w, apply)
        BY <1>1, ApplyFacts
    <2>2. Tested(w) = {p0}
        BY <1>0, <1>2 DEF Tested
    <2> QED BY <1>2, <1>3, <2>1, <2>2 DEF ApplyDoes, Moves
<1>11. /\ handler[w].pc \in Awaiting /\ On(w, c) /\ On(w, c)' /\ Sole(w, c)
       /\ \A d \in Chats : d # c => ~On(w, d) /\ ~On(w, d)'
    BY <1>0, <1>2, <1>10, CallsChat DEF Applying
<1>12. Paired(w)' /\ Unmapped(w)'
    BY <1>0, <1>1, <1>2, <1>6, <1>7 DEF Paired, Unmapped, Applying
<1>13. ASSUME NEW q \in Tracks PROVE Homed(q)'
    <2>1. \A v \in Workers : call[v].op = "stop" => call'[v] = call[v]
        BY <1>2, <1>11 DEF Sole
    <2> QED BY <1>7, <1>8, <2>1 DEF TInv, Homed, Streamer!ReaderActive, On
<1>14. ASSUME NEW d \in Chats, d # c PROVE Untouched(d)
    <2>1. sessions[d] # None => sessions[d] # s0 /\ sessions[d] \in Tracks
        BY <1>0, <1>2, <1>14, ForeignSession
    <2>2. sessions[d] # None =>
             /\ session[sessions[d]].pipeline # p0
             /\ session[sessions[d]].pipeline # None => session[sessions[d]].pipeline \in Tracks
        BY <1>1, <1>2, <2>1, TracksArePositive DEF Ownership, Apart, Typed, Places
    <2> QED BY <1>7, <1>8, <1>9, <2>1, <2>2, CallSparesChat
<1>15. ChatInv(c)'
    <2>1. Streaming(c) /\ Awaited(c) /\ InCall(c)
        BY <1>2 DEF TInv, ChatInv
    <2>2. Advancing(c) => Advancing(c)'
        BY <1>2, <1>7, <1>11, OfOne DEF NextInPool, Applying, Awaiting
    <2>3. ~Replacing(c) /\ ~Settling(c)'
        BY <1>2, <1>6, <1>11, OfOne
    <2>4. /\ session'[sessions'[c]].pipeline = p0 /\ session'[sessions'[c]].state = state
          /\ sessions'[c] # None
        BY <1>2, <1>7, <1>9
    <2>5. pipeline'[p0].paused = paused /\ pipeline'[p0].reader = pipeline[p0].reader
        BY <1>2, <1>8
    <2>6. /\ Streamer!ReaderActive(p0) \/ pipeline[p0].reader = "exited"
          /\ pipeline[p0].reader = "exited" => SpawnMayFail \/ Advancing(c)
        BY <1>2, <2>1, <2>3 DEF Streaming
    <2>7. Streaming(c)'
        BY <1>2, <2>2, <2>4, <2>5, <2>6 DEF Streaming, Streamer!ReaderActive
    <2>8. Truthful(c)'
        BY <2>3, <2>4, <2>5 DEF Truthful
    <2>9. BrieflyIdle(c)'
        BY <2>4 DEF BrieflyIdle
    <2>10. Obeyed(c)'
        BY <1>2, <1>6, <1>7, <1>11, ObeyedKept DEF Applying
    <2>11. Awaited(c)' /\ InCall(c)'
        BY <1>2, <1>6, <1>7, <1>11, <2>1, OfOneToo DEF Applying
    <2> QED BY <2>7, <2>8, <2>9, <2>10, <2>11 DEF ChatInv
<1> QED BY <1>2, <1>7, <1>11, <1>12, <1>13, <1>14, <1>15, OneChat

-----------------------------------------------------------------------------
(* The readers. *)

\* The steps of a reader before its last.
LEMMA ReaderGoesOn ==
    ASSUME IInv, TInv, NEW p \in Tracks, Streamer!ReaderActive(p),
           \A q \in Tracks : q # p => pipeline'[q] = pipeline[q],
           pipeline'[p].chat = pipeline[p].chat, pipeline'[p].volume = pipeline[p].volume,
           pipeline'[p].paused = pipeline[p].paused,
           Streamer!ReaderActive(p)' \/ (pipeline'[p].reader = "exited" /\ SpawnMayFail),
           UNCHANGED <<queues, pool, handler, last, sessions, session, call, detached, raced,
                       active_chats>>
    PROVE  TInv'
<1>1. TakeTurns' /\ \A w \in Workers : Paired(w)' /\ Unmapped(w)'
    BY DEF TInv, Paired, Unmapped, TakeTurns, At
<1>2. ASSUME NEW q \in Tracks PROVE Homed(q)'
    BY DEF TInv, Homed, Streamer!ReaderActive, On
<1>3. ASSUME NEW c \in Chats PROVE ChatInv(c)'
    <2>1. /\ Streaming(c) /\ Truthful(c) /\ BrieflyIdle(c)
          /\ Awaited(c) /\ InCall(c) /\ Obeyed(c)
        BY DEF TInv, ChatInv
    <2>2. \A v \in Workers : handler'[v] = handler[v] /\ call'[v] = call[v]
        OBVIOUS
    <2>3. /\ Advancing(c) => Advancing(c)'
          /\ Replacing(c)' <=> Replacing(c)
          /\ Settling(c)' <=> Settling(c)
        BY <2>2, SameHandlers DEF NextInPool
    <2>4. Obeyed(c)'
        BY <2>1 DEF Obeyed, StopAsked, Stopped, NoneAsked, On
    <2>5. Awaited(c)' /\ InCall(c)'
        BY <2>1 DEF Awaited, InCall, Leaving, On
    <2>6. CASE sessions[c] = None \/ Replacing(c)
        BY <2>3, <2>4, <2>5, <2>6 DEF ChatInv, Streaming, Truthful, BrieflyIdle
    <2>7. CASE sessions[c] # None /\ ~Replacing(c)
        <3>1. PICK s : s = session[sessions[c]]
            OBVIOUS
        <3>2. session'[sessions'[c]] = s
            BY <3>1
        <3>3. s.pipeline # None /\ s.pipeline \in Tracks
            <4>1. sessions[c] \in Tracks
                BY <2>7, EverythingTyped, TracksArePositive DEF IInv, Typed, Places
            <4> QED BY <2>1, <2>7, <3>1, <4>1, EverythingTyped, TracksArePositive
                    DEF IInv, Typed, Places, Streaming
        <3>4. Streaming(c)'
            BY <2>1, <2>3, <2>7, <3>1, <3>2, <3>3 DEF Streaming, Streamer!ReaderActive
        <3>5. Truthful(c)'
            BY <2>1, <2>3, <2>7, <3>1, <3>2, <3>3 DEF Truthful, Streamer!ReaderActive
        <3>6. BrieflyIdle(c)'
            BY <2>1, <2>3, <3>1, <3>2 DEF BrieflyIdle
        <3> QED BY <2>4, <2>5, <3>4, <3>5, <3>6 DEF ChatInv
    <2> QED BY <2>6, <2>7
<1> QED BY <1>1, <1>2, <1>3 DEF TInv

LEMMA on_stream_eofKeeps ==
    ASSUME IInv, TInv, NEW p \in Tracks, Streamer!on_stream_eof(p),
           UNCHANGED <<queues, pool, handler, last>>
    PROVE  TInv'
<1>0. PICK c0, s0 : c0 = pipeline[p].chat /\ s0 = pipeline[p].volume
    OBVIOUS
<1>1. Types /\ Typed /\ Ownership
    BY EverythingTyped DEF IInv, TInv
<1>2. pipeline[p].reader = "ending" /\ Streamer!ReaderActive(p)
    BY DEF Streamer!on_stream_eof, Streamer!ReaderActive
<1>3. /\ s0 \in Tracks /\ s0 # None /\ session[s0].pipeline = p /\ c0 \in Chats /\ p # None
      /\ sessions[c0] = s0 \/ sessions[c0] = None
      /\ \A d \in Chats : d # c0 => sessions[d] # s0
    <2>1. /\ s0 \in Tracks /\ s0 # None /\ session[s0].pipeline = p /\ c0 \in Chats
        BY <1>0, <1>2, ReaderOf
    <2>2. ASSUME NEW v \in Workers, On(v, c0), call[v].op = "stop", call[v].s = s0
          PROVE  sessions[c0] = None /\ \A d \in Chats : sessions[d] # s0
        <3>1. call[v].pc \notin Outside /\ Paired(v) /\ Unmapped(v)
            BY <1>1, <2>1, <2>2 DEF Typed, TInv
        <3>2. call[v].chat = c0
            BY <2>2, <3>1 DEF Paired, On, Outside
        <3> QED BY <2>1, <2>2, <3>1, <3>2 DEF Unmapped, Outside
    <2>3. CASE sessions[c0] = s0
        BY <1>1, <2>1, <2>3, TracksArePositive DEF Ownership, Apart
    <2>4. CASE sessions[c0] # s0
        BY <1>0, <1>2, <2>1, <2>2, <2>4, TracksArePositive DEF TInv, Homed
    <2> QED BY <2>1, <2>3, <2>4, TracksArePositive
<1>4. /\ pipeline' = [pipeline EXCEPT ![p].reader = "exited"]
      /\ detached' = [detached EXCEPT ![c0] = @ + 1]
      /\ UNCHANGED <<queues, pool, handler, last, sessions, call, raced, crashed, active_chats>>
    BY <1>0 DEF Streamer!on_stream_eof, Streamer!callVars
<1>5. /\ pipeline'[p].reader = "exited"
      /\ \A q \in Tracks : q # p => pipeline'[q] = pipeline[q]
      /\ \A q \in Tracks : /\ pipeline'[q].chat = pipeline[q].chat
                           /\ pipeline'[q].volume = pipeline[q].volume
      /\ detached'[c0] > 0 /\ \A c \in Chats : c # c0 => detached'[c] = detached[c]
    BY <1>1, <1>3, <1>4 DEF Types, Shapes, PipelineStates
<1>6. /\ \A r \in Tracks : session'[r].pipeline = session[r].pipeline
      /\ \A r \in Tracks : r # s0 => session'[r] = session[r]
    BY <1>0, <1>1, <1>3 DEF Streamer!on_stream_eof, Types, Shapes, Sessions, None, Streamer!None
<1>7. TakeTurns' /\ \A w \in Workers : Paired(w)' /\ Unmapped(w)'
    BY <1>4 DEF TInv, Paired, Unmapped, TakeTurns, At
<1>8. ASSUME NEW q \in Tracks PROVE Homed(q)'
    BY <1>4, <1>5 DEF TInv, Homed, Streamer!ReaderActive, On
<1>9. ASSUME NEW d \in Chats, d # c0 PROVE ChatInv(d)'
    <2>1. sessions[d] # None =>
             /\ sessions[d] # s0 /\ sessions[d] \in Tracks
             /\ session[sessions[d]].pipeline # p
             /\ session[sessions[d]].pipeline # None => session[sessions[d]].pipeline \in Tracks
        BY <1>1, <1>3, <1>9, TracksArePositive DEF Ownership, Apart, Typed, Places
    <2>2. Untouched(d)
        BY <1>4, <1>5, <1>6, <1>9, <2>1 DEF Untouched, NextInPool, StopAsked, NoneAsked
    <2>3. \A v \in Workers : handler'[v] = handler[v] /\ call'[v] = call[v]
        BY <1>4
    <2> QED BY <2>2, <2>3, StandsStill DEF TInv
<1>10. ChatInv(c0)'
    <2>1. Awaited(c0) /\ InCall(c0) /\ Obeyed(c0)
        BY <1>3 DEF TInv, ChatInv
    <2>2. Advancing(c0)'
        BY <1>5 DEF Advancing
    <2>3. Awaited(c0)' /\ InCall(c0)' /\ Obeyed(c0)'
        BY <1>4, <2>1 DEF Awaited, InCall, Leaving, Obeyed, StopAsked, Stopped, NoneAsked, On
    <2>4. Streaming(c0)' /\ Truthful(c0)' /\ BrieflyIdle(c0)'
        <3>1. CASE sessions[c0] = None
            BY <1>4, <3>1 DEF Streaming, Truthful, BrieflyIdle
        <3>2. CASE sessions[c0] = s0
            <4>1. session'[sessions'[c0]].pipeline = p
                BY <1>3, <1>4, <1>6, <3>2
            <4>2. Streaming(c0)'
                BY <1>3, <1>5, <2>2, <4>1 DEF Streaming
            <4>3. Truthful(c0)'
                BY <1>5, <4>1 DEF Truthful, Streamer!ReaderActive
            <4>4. BrieflyIdle(c0)'
                BY <2>2 DEF BrieflyIdle
            <4> QED BY <4>2, <4>3, <4>4
        <3> QED BY <1>3, <3>1, <3>2
    <2> QED BY <2>3, <2>4 DEF ChatInv
<1> QED BY <1>4, <1>7, <1>8, <1>9, <1>10 DEF TInv

LEMMA ReaderKeeps ==
    ASSUME IInv, TInv, NEW p \in Tracks, Reader(p) \/ TrackEnds(p)
    PROVE  TInv'
<1>1. UNCHANGED <<queues, pool, handler, last>>
    BY DEF Reader, TrackEnds, historyVars
<1>2. pipeline \in [Tracks -> PipelineStates]
    BY DEF IInv, Types, Shapes
<1>3. CASE Streamer!on_stream_eof(p)
    BY <1>1, <1>3, on_stream_eofKeeps
<1>4. CASE ~Streamer!on_stream_eof(p)
    <2>1. /\ UNCHANGED <<sessions, session, call, detached, raced, crashed, active_chats>>
          /\ Streamer!ReaderActive(p)
          /\ \/ \E r \in {"reading", "held", "ending"} :
                    \/ pipeline' = [pipeline EXCEPT ![p].reader = r]
                    \/ pipeline' = [pipeline EXCEPT ![p].reader = r, ![p].running = FALSE]
             \/ /\ SpawnMayFail
                /\ pipeline' = [pipeline EXCEPT ![p].reader = "exited", ![p].running = FALSE]
        <3>1. CASE Streamer!ReaderHolds(p)
            <4>1. pipeline[p].reader \in {"reading", "held"}
                BY <3>1 DEF Streamer!ReaderHolds
            <4>2. \E r \in {"reading", "held", "ending"} :
                      pipeline' = [pipeline EXCEPT ![p].reader = r]
                BY <1>2, <3>1, <4>1 DEF Streamer!ReaderHolds
            <4> QED BY <3>1, <4>1, <4>2 DEF Streamer!ReaderHolds, Streamer!ReaderActive,
                    Streamer!callVars
        <3>2. CASE Streamer!ReaderSpawns(p) \/ Streamer!ReaderHalts(p) \/ Streamer!StreamEnds(p)
            BY <3>2 DEF Streamer!ReaderSpawns, Streamer!ReaderHalts, Streamer!StreamEnds,
               Streamer!ReaderActive, Streamer!callVars
        <3> QED BY <1>4, <3>1, <3>2 DEF Reader, TrackEnds, Streamer!ReaderStep
    <2>2. /\ \A q \in Tracks : q # p => pipeline'[q] = pipeline[q]
          /\ pipeline'[p].chat = pipeline[p].chat /\ pipeline'[p].volume = pipeline[p].volume
          /\ pipeline'[p].paused = pipeline[p].paused
          /\ Streamer!ReaderActive(p)' \/ (pipeline'[p].reader = "exited" /\ SpawnMayFail)
        <3>1. CASE \E r \in {"reading", "held", "ending"} :
                    \/ pipeline' = [pipeline EXCEPT ![p].reader = r]
                    \/ pipeline' = [pipeline EXCEPT ![p].reader = r, ![p].running = FALSE]
            BY <1>2, <3>1 DEF PipelineStates, Streamer!ReaderActive
        <3>2. CASE /\ SpawnMayFail
                   /\ pipeline' = [pipeline EXCEPT ![p].reader = "exited", ![p].running = FALSE]
            BY <1>2, <3>2 DEF PipelineStates
        <3> QED BY <2>1, <3>1, <3>2
    <2> QED BY <1>1, <2>1, <2>2, ReaderGoesOn
<1> QED BY <1>3, <1>4

-----------------------------------------------------------------------------
(* Any step of AudioStreamer. *)

\* The steps of a call after which it still works on its session.
Working(w) ==
    \/ Streamer!Inspect(w) \/ Streamer!Halt(w) \/ Streamer!Join(w) \/ Streamer!Reset(w)
    \/ Streamer!Clear(w) \/ Streamer!Destroy(w) \/ Streamer!Assign(w) \/ Streamer!Create(w)
    \/ Streamer!Install(w) \/ Streamer!Start(w) \/ Streamer!SetIdle(w)

LEMMA WorkingKeeps ==
    ASSUME IInv, TInv, TakeTurns', NEW w \in Workers, Elsewhere, Working(w)
    PROVE  TInv'
<1>1. Tends(w)
    BY InspectTends, HaltTends, JoinTends, ResetTends, ClearTends, DestroyTends, AssignTends,
       CreateTends, InstallTends, StartTends, SetIdleTends DEF Working
<1>2. active_chats' = active_chats
    BY DEF Working, Streamer!Inspect, Streamer!Halt, Streamer!Join, Streamer!Reset, Streamer!Clear,
       Streamer!Destroy, Streamer!Assign, Streamer!Create, Streamer!Install, Streamer!Start,
       Streamer!SetIdle, Streamer!MemoryError, Streamer!callVars
<1>3. call'[w].pc # "release"
    <2>1. /\ Types /\ ControlOf(handler[w], call[w]) /\ KnowsOf(w) /\ HandedOf(w)
        BY KnownOf
    <2> USE DEF Moves, Crashes
    <2>2. CASE Streamer!Inspect(w)
        BY <2>1, <2>2, InspectFacts DEF InspectDoes, Streamer!AfterReset
    <2>3. CASE Streamer!Halt(w)
        BY <2>1, <2>3, HaltFacts DEF HaltDoes
    <2>4. CASE Streamer!Join(w)
        BY <2>1, <2>4, JoinFacts DEF JoinDoes, KnowsOf
    <2>5. CASE Streamer!Reset(w)
        BY <2>1, <2>5, ResetFacts DEF ResetDoes
    <2>6. CASE Streamer!Clear(w)
        BY <2>1, <2>6, ClearFacts DEF ClearDoes, Streamer!AfterReset
    <2>7. CASE Streamer!Destroy(w)
        BY <2>1, <2>7, DestroyFacts DEF DestroyDoes, HandedOf
    <2>8. CASE Streamer!Assign(w)
        BY <2>1, <2>8, AssignFacts DEF AssignDoes
    <2>9. CASE Streamer!Create(w)
        BY <2>1, <2>9, CreateFacts DEF CreateDoes
    <2>10. CASE Streamer!Install(w)
        BY <2>1, <2>10, InstallFacts DEF InstallDoes
    <2>11. CASE Streamer!Start(w)
        BY <2>1, <2>11, StartFacts DEF StartDoes, KnowsOf
    <2>12. CASE Streamer!SetIdle(w)
        BY <2>1, <2>12, SetIdleFacts DEF SetIdleDoes
    <2> QED BY <2>2, <2>3, <2>4, <2>5, <2>6, <2>7, <2>8, <2>9, <2>10, <2>11, <2>12 DEF Working
<1> QED BY <1>1, <1>2, <1>3, TendsKeeps

LEMMA LeaveKeeps ==
    ASSUME IInv, TInv, TakeTurns', NEW w \in Workers, Elsewhere, Streamer!Leave(w)
    PROVE  TInv'
<1>1. Tends(w)
    BY LeaveTends
<1>2. call[w].op = "stop"
    BY KnownOf DEF Streamer!Leave, ControlOf, OfStop
<1>3. active_chats' = active_chats \ {call[w].chat}
    BY DEF Streamer!Leave, Streamer!NTg!leave_group_call
<1> QED BY <1>1, <1>2, <1>3, TendsKeeps

\* What only two calls that share a session make possible.
LEMMA NotShared ==
    ASSUME IInv, TInv, NEW w \in Workers
    PROVE  /\ ~Streamer!JoinThrows(w) /\ ~Streamer!DestroyThrows(w)
           /\ ~Streamer!JoinOfDestroyed(w) /\ ~Streamer!DestroyedTwice(w)
<1>1. /\ Types /\ Typed /\ Ownership
      /\ ControlOf(handler[w], call[w]) /\ KnowsOf(w) /\ HandedOf(w)
    BY KnownOf
<1>2. call[w].pc \in {"join", "destroy"} => ~Streamer!JoinedElsewhere(w)
    BY <1>1, JoinsAlone
<1>3. ASSUME call[w].pc = "join" PROVE pipeline[call[w].p].object = "live"
    BY <1>1, <1>3 DEF KnowsOf, Ownership, Owned, Typed, Outside, Mine
<1>4. ASSUME call[w].pc = "destroy" PROVE pipeline[call[w].p].object = "live"
    BY <1>1, <1>4 DEF HandedOf
<1> QED BY <1>2, <1>3, <1>4 DEF Streamer!JoinThrows, Streamer!DestroyThrows,
    Streamer!JoinOfDestroyed, Streamer!DestroyedTwice

LEMMA InStreamerKeeps ==
    ASSUME IInv, TInv, IInv', NEW w \in Workers, InStreamer(w)
    PROVE  TInv'
<1>1. Elsewhere
    BY DEF InStreamer, Elsewhere, IInv, Types, Shapes
<1>2. TakeTurns'
    BY <1>1 DEF Elsewhere, TInv, TakeTurns, At
<1>3. CASE Working(w)
    BY <1>1, <1>2, <1>3, WorkingKeeps
<1>4. CASE Streamer!Pause(w)
    <2>1. CASE Streamer!Check(w, "pause", "pause_apply")
        BY <1>1, <1>2, <2>1, CheckKeeps DEF Applying
    <2>2. CASE Streamer!Apply(w, "pause_apply", TRUE, "Paused")
        BY <1>1, <1>2, <2>2, ApplyKeeps DEF Applying
    <2> QED BY <1>4, <2>1, <2>2 DEF Streamer!Pause
<1>5. CASE Streamer!Resume(w)
    <2>1. CASE Streamer!Check(w, "resume", "resume_apply")
        BY <1>1, <1>2, <2>1, CheckKeeps DEF Applying
    <2>2. CASE Streamer!Apply(w, "resume_apply", FALSE, "Playing")
        BY <1>1, <1>2, <2>2, ApplyKeeps DEF Applying
    <2> QED BY <1>5, <2>1, <2>2 DEF Streamer!Resume
<1>6. CASE Streamer!Lookup(w) \/ Streamer!Launch(w) \/ Streamer!Playing(w) \/ Streamer!Release(w)
           \/ Streamer!Erase(w) \/ Streamer!Leave(w)
    BY <1>1, <1>2, <1>6, LookupKeeps, LaunchKeeps, PlayingKeeps, ReleaseKeeps, EraseKeeps, LeaveKeeps
<1> QED BY <1>3, <1>4, <1>5, <1>6, NotShared DEF InStreamer, Streamer!CallStep, Working

-----------------------------------------------------------------------------
(* The handlers. *)

\* What the pool says of a chat stays.
PoolKeeps(c) ==
    /\ NextInPool(c) => NextInPool(c)'
    /\ StopAsked(c) => StopAsked(c)'
    /\ NoneAsked(c, 0) => NoneAsked(c, 0)'

LEMMA SamePool == ASSUME pool' = pool PROVE \A c \in Chats : PoolKeeps(c)
BY DEF PoolKeeps, NextInPool, StopAsked, NoneAsked

\* The step is one of w, for the chat c.
WorksFor(w, c) == Sole(w, c) /\ \A d \in Chats : d # c => ~On(w, d) /\ ~On(w, d)'

LEMMA HandlerServes ==
    ASSUME TInv, NEW w \in Workers, handler[w].pc # "idle", NEW c \in Chats, c = handler[w].chat,
           \A v \in Workers : v # w => handler'[v] = handler[v] /\ call'[v] = call[v],
           handler'[w].pc = "idle" \/ handler'[w].chat = c
    PROVE  On(w, c) /\ WorksFor(w, c) /\ (On(w, c)' <=> handler'[w].pc # "idle")
<1>1. Sole(w, c)
    BY HasItsChat
<1> QED BY <1>1 DEF On, WorksFor

\* A step of a handler that is in no session, before or after.
LEMMA HandlerKeeps ==
    ASSUME IInv, TInv, TakeTurns', NEW w \in Workers, NEW c \in Chats, WorksFor(w, c),
           call[w].s = None, call'[w].s = None,
           UNCHANGED <<sessions, session, pipeline, raced, detached, last>>,
           \A d \in Chats : d # c => /\ queues'[d] = queues[d] /\ PoolKeeps(d)
                                     /\ d \in active_chats' <=> d \in active_chats,
           Paired(w)', call'[w].op = "stop" => call'[w].pc = "erase",
           Advancing(c) => Advancing(c)', Obeyed(c)', Awaited(c)', InCall(c)'
    PROVE  TInv'
<1>1. Sole(w, c) /\ \A d \in Chats : d # c => ~On(w, d) /\ ~On(w, d)'
    BY DEF WorksFor
<1>2. Unmapped(w)'
    BY DEF Unmapped
<1>3. ASSUME NEW q \in Tracks PROVE Homed(q)'
    <2> SUFFICES ASSUME Streamer!ReaderActive(q)' PROVE Homed(q)'
        BY DEF Homed
    <2>1. Streamer!ReaderActive(q)
        BY DEF Streamer!ReaderActive
    <2>2. /\ pipeline[q].volume # None /\ pipeline[q].chat \in Chats
          /\ \/ sessions[pipeline[q].chat] = pipeline[q].volume
             \/ \E v \in Workers : /\ v # w /\ On(v, pipeline[q].chat)
                                   /\ call[v].op = "stop" /\ call[v].s = pipeline[q].volume
        BY <2>1, ReaderOf DEF TInv, Homed
    <2> QED BY <1>1, <2>2 DEF Homed, Sole, On
<1>4. ASSUME NEW d \in Chats, d # c PROVE Untouched(d)
    BY <1>4 DEF Untouched, PoolKeeps
<1>5. Streaming(c)' /\ Truthful(c)' /\ BrieflyIdle(c)'
    <2>1. sessions[c] # None => ~Replacing(c) /\ ~Settling(c) /\ ~Settling(c)'
        BY <1>1, OfOne
    <2> QED BY <2>1, SessionKept
<1> QED BY <1>1, <1>2, <1>3, <1>4, <1>5, OneChat DEF ChatInv

\* What is known of a handler that is in no call.
LEMMA NotCalling ==
    ASSUME IInv, TInv, NEW w \in Workers, handler[w].pc \notin Awaiting
    PROVE  /\ call[w].pc = "none" /\ call[w].s = None /\ call[w].op \notin {"play", "stop"}
           /\ ~call[w].threw /\ Paired(w) /\ Types
           /\ handler[w].pc # "idle" => handler[w].chat \in Chats
           /\ handler[w].pc \in Asking => handler[w].track \in Tracks
           /\ handler[w].track \in Places
<1>1. Types /\ Paired(w)
    BY DEF IInv, TInv
<1>2. call[w].pc = "none" /\ ControlOf(handler[w], call[w])
    BY <1>1, HandlerTyped
<1>3. call[w].op # "play"
    BY DEF IInv, StartedOnce, Awaiting
<1> QED BY <1>1, <1>2, <1>3, HandlerTyped, TracksArePositive DEF ControlOf, Paired, Outside,
    Awaiting

LEMMA BeginsFresh ==
    ASSUME Types, NEW w \in Workers, NEW op \in Ops, NEW c \in Chats, NEW t \in Places,
           Streamer!Begin(w, op, c, t)
    PROVE  /\ call'[w].op = op /\ call'[w].pc = First(op) /\ call'[w].chat = c
           /\ call'[w].s = None /\ ~call'[w].threw
           /\ \A v \in Workers : v # w => call'[v] = call[v]
<1>1. Begins(w, op, c, t)
    BY BeginBegins
<1>2. ~call'[w].threw
    BY DEF Streamer!Begin, Streamer!NoCall, Types, Shapes
<1> QED BY <1>1, <1>2 DEF Begins, OnlyMoves

\* A handler that goes on, or calls AudioStreamer, is for the same command.
LEMMA SameCommand ==
    ASSUME Types, NEW w \in Workers, NEW op, NEW c, NEW t, NEW pc,
           Goto(w, pc) \/ CallStreamer(w, op, c, t, pc)
    PROVE  handler'[w].cmd = handler[w].cmd
BY DEF Types, Shapes, Handlers, Goto, CallStreamer

\* The pool, the sessions and the commands accepted stay.
LEMMA StillObeyed ==
    ASSUME TInv, NEW w \in Workers, NEW c \in Chats, Sole(w, c), UNCHANGED <<pool, last, sessions>>,
           Stopped(c) /\ On(w, c)' => handler'[w].cmd \notin {"play", "skip"} /\ call'[w].op # "play",
           Stopped(c) /\ sessions[c] # None =>
               On(w, c)' /\ (handler'[w].pc = "clear" \/ call'[w].pc = "erase")
    PROVE  Obeyed(c)'
<1>1. Obeyed(c)
    BY DEF TInv, ChatInv
<1>2. StopAsked(c) => StopAsked(c)'
    BY DEF StopAsked, NoneAsked
<1>3. NoneAsked(c, 0) => NoneAsked(c, 0)'
    BY DEF NoneAsked
<1>4. Stopped(c) => Stopped(c)'
    BY <1>3, OfOneToo
<1> QED BY <1>1, <1>2, <1>4 DEF Obeyed

LEMMA PlayCheckKeeps ==
    ASSUME IInv, TInv, TakeTurns', NEW w \in Workers, PlayCheck(w)
    PROVE  TInv'
<1>1. /\ call[w].pc = "none" /\ call[w].s = None /\ call[w].op \notin {"play", "stop"}
      /\ ~call[w].threw /\ Paired(w) /\ Types
      /\ handler[w].pc = "play_check" /\ handler[w].chat \in Chats
    BY NotCalling DEF PlayCheck, At, Awaiting, Asking
<1>2. PICK c \in Chats : c = handler[w].chat
    BY <1>1
<1>3. PICK pc \in {"join", "enqueue"} : Goto(w, pc) /\ (pc = "enqueue" => sessions[c] # None)
    BY <1>2 DEF PlayCheck, Streamer!get_state, None, Streamer!None
<1>4. /\ handler'[w].pc = pc /\ handler'[w].chat = c /\ handler'[w].cmd = "play"
      /\ \A v \in Workers : v # w => handler'[v] = handler[v]
    BY <1>1, <1>2, <1>3, GotoHandles, SameCommand DEF Handles, Asking, Paired
<1>5. UNCHANGED <<queues, sessions, session, pipeline, call, raced, detached, pool, last,
                  active_chats>>
    BY DEF PlayCheck, streamerVars, historyVars
<1>6. On(w, c) /\ On(w, c)' /\ Sole(w, c) /\ WorksFor(w, c)
    BY <1>1, <1>2, <1>3, <1>4, <1>5, HandlerServes DEF WorksFor
<1>7. Paired(w)'
    BY <1>1, <1>4, <1>5 DEF Paired
<1>8. Advancing(c) => Advancing(c)'
    BY <1>1, <1>5, <1>6, OfOne DEF NextInPool
<1>9. Obeyed(c)'
    <2>1. ~Stopped(c)
        BY <1>1, <1>6, OfOneToo DEF Paired, Asking
    <2> QED BY <1>5, <1>6, <2>1, StillObeyed
<1>10. Awaited(c)' /\ InCall(c)'
    <2>1. Awaited(c) /\ InCall(c)
        BY DEF TInv, ChatInv
    <2> QED BY <1>1, <1>3, <1>4, <1>5, <1>6, <2>1, OfOneToo
<1> QED BY <1>1, <1>5, <1>6, <1>7, <1>8, <1>9, <1>10, HandlerKeeps, SamePool

LEMMA SkipCheckKeeps ==
    ASSUME IInv, TInv, TakeTurns', NEW w \in Workers, SkipCheck(w)
    PROVE  TInv'
<1>1. /\ call[w].pc = "none" /\ call[w].s = None /\ call[w].op \notin {"play", "stop"}
      /\ ~call[w].threw /\ Paired(w) /\ Types
      /\ handler[w].pc = "skip_check" /\ handler[w].chat \in Chats
    BY NotCalling DEF SkipCheck, At, Awaiting, Asking
<1>2. PICK c \in Chats : c = handler[w].chat
    BY <1>1
<1>3. /\ \A v \in Workers : v # w => handler'[v] = handler[v]
      /\ \/ handler'[w].pc = "idle"
         \/ handler'[w].pc = "pop" /\ handler'[w].chat = c
    <2>1. CASE Return(w)
        BY <1>1, <2>1, ReturnHandles DEF Handles
    <2>2. CASE Goto(w, "pop")
        BY <1>1, <1>2, <2>2, GotoHandles DEF Handles
    <2> QED BY <2>1, <2>2 DEF SkipCheck
<1>4. UNCHANGED <<queues, sessions, session, pipeline, call, raced, detached, pool, last,
                  active_chats>>
    BY DEF SkipCheck, streamerVars
<1>5. On(w, c) /\ Sole(w, c) /\ WorksFor(w, c)
    BY <1>1, <1>2, <1>3, <1>4, HandlerServes DEF WorksFor
<1>6. Paired(w)'
    BY <1>1, <1>3, <1>4 DEF Paired, Asking
<1>7. Advancing(c) => Advancing(c)'
    BY <1>1, <1>4, <1>5, OfOne DEF NextInPool
<1>8. Obeyed(c)'
    <2>1. ~Stopped(c)
        BY <1>1, <1>5, OfOneToo DEF Paired
    <2> QED BY <1>4, <1>5, <2>1, StillObeyed
<1>9. Awaited(c)' /\ InCall(c)'
    <2>1. Awaited(c) /\ InCall(c)
        BY DEF TInv, ChatInv
    <2> QED BY <1>1, <1>3, <1>4, <1>5, <2>1, OfOneToo
<1> QED BY <1>1, <1>4, <1>5, <1>6, <1>7, <1>8, <1>9, HandlerKeeps, SamePool

LEMMA PlayNowKeeps ==
    ASSUME IInv, TInv, TakeTurns', NEW w \in Workers, PlayNow(w)
    PROVE  TInv'
<1>1. /\ call[w].pc = "none" /\ call[w].s = None /\ call[w].op \notin {"play", "stop"}
      /\ Paired(w) /\ Types /\ handler[w].pc = "join" /\ handler[w].cmd = "play"
      /\ handler[w].chat \in Chats /\ handler[w].track \in Places
    BY NotCalling DEF PlayNow, At, Awaiting, Asking, Paired
<1>2. PICK c \in Chats, t \in Places : c = handler[w].chat /\ t = handler[w].track
    BY <1>1
<1>3. /\ call'[w].op = "play" /\ call'[w].pc = "lookup" /\ call'[w].chat = c
      /\ call'[w].s = None /\ ~call'[w].threw
      /\ \A v \in Workers : v # w => call'[v] = call[v]
    BY <1>1, <1>2, BeginsFresh DEF PlayNow, CallStreamer, Ops, First
<1>4. /\ handler'[w].pc = "await" /\ handler'[w].chat = c /\ handler'[w].cmd = "play"
      /\ \A v \in Workers : v # w => handler'[v] = handler[v]
    BY <1>1, <1>2, CallHandles, SameCommand DEF PlayNow, Handles, Awaiting
<1>5. /\ UNCHANGED <<queues, sessions, session, pipeline, raced, detached, pool, last>>
      /\ active_chats' = active_chats \cup {c} \/ (JoinMayFail /\ active_chats' = active_chats)
    BY <1>2 DEF PlayNow, NTg!join_group_call
<1>6. On(w, c) /\ On(w, c)' /\ Sole(w, c) /\ WorksFor(w, c)
    BY <1>1, <1>2, <1>3, <1>4, HandlerServes DEF WorksFor
<1>7. Paired(w)'
    BY <1>3, <1>4 DEF Paired, Asking
<1>8. Advancing(c) => Advancing(c)'
    BY <1>3, <1>6, OfOne
<1>9. Obeyed(c)'
    <2>1. ~Stopped(c)
        BY <1>1, <1>6, OfOneToo
    <2> QED BY <1>5, <1>6, <2>1, StillObeyed
<1>10. Awaited(c)' /\ InCall(c)'
    <2>1. Awaited(c) /\ InCall(c)
        BY DEF TInv, ChatInv
    <2> QED BY <1>1, <1>3, <1>4, <1>5, <1>6, <2>1, OfOneToo
<1> QED BY <1>1, <1>3, <1>5, <1>6, <1>7, <1>8, <1>9, <1>10, HandlerKeeps, SamePool

LEMMA PlayLaterKeeps ==
    ASSUME IInv, TInv, TakeTurns', NEW w \in Workers, PlayLater(w)
    PROVE  TInv'
<1>1. /\ call[w].pc = "none" /\ call[w].s = None /\ call[w].op \notin {"play", "stop"}
      /\ ~call[w].threw /\ Paired(w) /\ Types
      /\ handler[w].pc = "enqueue" /\ handler[w].chat \in Chats
    BY NotCalling DEF PlayLater, At, Awaiting, Asking
<1>2. PICK c \in Chats : c = handler[w].chat
    BY <1>1
<1>3. handler'[w].pc = "idle" /\ \A v \in Workers : v # w => handler'[v] = handler[v]
    BY <1>1, ReturnHandles DEF PlayLater, Handles
<1>4. UNCHANGED <<sessions, session, pipeline, call, raced, detached, pool, last, active_chats>>
    BY DEF PlayLater, streamerVars, historyVars
<1>5. On(w, c) /\ ~On(w, c)' /\ Sole(w, c) /\ WorksFor(w, c)
    BY <1>1, <1>2, <1>3, <1>4, HandlerServes DEF WorksFor
<1>6. Paired(w)'
    BY <1>1, <1>3, <1>4 DEF Paired, Asking
<1>7. Advancing(c) => Advancing(c)'
    BY <1>1, <1>4, <1>5, OfOne DEF NextInPool
<1>8. Obeyed(c)'
    <2>1. ~Stopped(c)
        BY <1>1, <1>5, OfOneToo DEF Paired, Asking
    <2> QED BY <1>4, <1>5, <2>1, StillObeyed
<1>9. \A d \in Chats : d # c => queues'[d] = queues[d]
    BY <1>1, <1>2 DEF PlayLater, DB!enqueue_track, Types, Shapes
<1>10. Awaited(c)' /\ InCall(c)'
    <2>1. Awaited(c) /\ InCall(c)
        BY DEF TInv, ChatInv
    <2> QED BY <1>1, <1>3, <1>4, <1>5, <2>1, OfOneToo
<1> QED BY <1>1, <1>4, <1>5, <1>6, <1>7, <1>8, <1>9, <1>10, HandlerKeeps, SamePool

LEMMA PopNextKeeps ==
    ASSUME IInv, TInv, TakeTurns', NEW w \in Workers, PopNext(w)
    PROVE  TInv'
<1>1. /\ call[w].pc = "none" /\ call[w].s = None /\ call[w].op \notin {"play", "stop"}
      /\ Paired(w) /\ Types /\ handler[w].pc = "pop" /\ handler[w].chat \in Chats
    BY NotCalling DEF PopNext, At, Awaiting, Asking
<1>2. DB!next_track(handler[w].chat) \in Places
    BY <1>1, TakesTrack DEF PopNext, Places
<1>3. PICK c \in Chats, t \in Places : c = handler[w].chat /\ t = DB!next_track(handler[w].chat)
    BY <1>1, <1>2
<1>4. /\ call'[w].op = "play" /\ call'[w].pc = "lookup" /\ call'[w].chat = c
      /\ call'[w].s = None /\ ~call'[w].threw
      /\ \A v \in Workers : v # w => call'[v] = call[v]
    BY <1>1, <1>3, BeginsFresh DEF PopNext, CallStreamer, Ops, First
<1>5. /\ handler'[w].pc = "await" /\ handler'[w].chat = c
      /\ \A v \in Workers : v # w => handler'[v] = handler[v]
    BY <1>1, <1>3, CallHandles DEF PopNext, Handles, Awaiting
<1>6. UNCHANGED <<sessions, session, pipeline, raced, detached, pool, last, active_chats>>
    BY DEF PopNext, historyVars
<1>7. On(w, c) /\ On(w, c)' /\ Sole(w, c) /\ WorksFor(w, c)
    BY <1>1, <1>3, <1>4, <1>5, HandlerServes DEF WorksFor
<1>8. Awaited(c) /\ InCall(c)
    BY DEF TInv, ChatInv
<1>9. /\ queues[c] # <<>> /\ sessions[c] # None
      /\ \A d \in Chats : d # c => queues'[d] = queues[d]
    BY <1>1, <1>3, <1>8 DEF PopNext, DB!has_next_track, DB!pop_next_track, Types, Shapes, Awaited
<1>10. Paired(w)'
    BY <1>4, <1>5 DEF Paired, Asking
<1>11. Advancing(c) => Advancing(c)'
    BY <1>4, <1>7, OfOne
<1>12. Obeyed(c)'
    <2>1. ~Stopped(c)
        BY <1>1, <1>7, <1>9, OfOneToo
    <2> QED BY <1>6, <1>7, <2>1, StillObeyed
<1>13. Awaited(c)' /\ InCall(c)'
    BY <1>1, <1>4, <1>5, <1>6, <1>7, <1>8, <1>9, OfOneToo
<1> QED BY <1>1, <1>4, <1>6, <1>7, <1>9, <1>10, <1>11, <1>12, <1>13, HandlerKeeps, SamePool

\* PopNone and ClearQueue: the queue is empty, and a stop() begins.
LEMMA StopKeeps ==
    ASSUME IInv, TInv, TakeTurns', NEW w \in Workers, handler[w].pc \in {"pop", "clear"},
           NEW c \in Chats, c = handler[w].chat,
           CallStreamer(w, "stop", c, 0, "await_leave"),
           queues'[c] = <<>>, \A d \in Chats : d # c => queues'[d] = queues[d],
           UNCHANGED <<sessions, session, pipeline, raced, detached, pool, last, active_chats>>
    PROVE  TInv'
<1>1. /\ call[w].pc = "none" /\ call[w].s = None /\ call[w].op \notin {"play", "stop"}
      /\ Paired(w) /\ Types /\ 0 \in Places
    BY NotCalling DEF Awaiting, Asking, Places
<1>2. /\ call'[w].op = "stop" /\ call'[w].pc = "erase" /\ call'[w].chat = c
      /\ call'[w].s = None /\ ~call'[w].threw
      /\ \A v \in Workers : v # w => call'[v] = call[v]
    BY <1>1, BeginsFresh DEF CallStreamer, Ops, First
<1>3. /\ handler'[w].pc = "await_leave" /\ handler'[w].chat = c
      /\ handler'[w].cmd = handler[w].cmd
      /\ \A v \in Workers : v # w => handler'[v] = handler[v]
    BY <1>1, CallHandles, SameCommand DEF Handles, Awaiting
<1>4. On(w, c) /\ On(w, c)' /\ Sole(w, c) /\ WorksFor(w, c)
    BY <1>1, <1>2, <1>3, HandlerServes DEF WorksFor
<1>5. Paired(w)'
    BY <1>2, <1>3 DEF Paired, Asking
<1>6. Advancing(c) => Advancing(c)'
    BY <1>2, <1>4, OfOne
<1>7. Obeyed(c)'
    <2>1. Stopped(c) => handler[w].cmd \notin {"play", "skip"}
        BY <1>4, OfOneToo
    <2> QED BY <1>2, <1>3, <1>4, <2>1, StillObeyed
<1>8. Awaited(c)' /\ InCall(c)'
    <2>1. Awaited(c) /\ InCall(c)
        BY DEF TInv, ChatInv
    <2> QED BY <1>1, <1>2, <1>3, <1>4, <2>1, OfOneToo
<1> QED BY <1>1, <1>2, <1>4, <1>5, <1>6, <1>7, <1>8, HandlerKeeps, SamePool

LEMMA PopNoneKeeps ==
    ASSUME IInv, TInv, TakeTurns', NEW w \in Workers, PopNone(w)
    PROVE  TInv'
<1>1. handler[w].chat \in Chats
    BY NotCalling DEF PopNone, At, Awaiting
<1> QED BY <1>1, StopKeeps DEF PopNone, At, DB!has_next_track, historyVars

LEMMA ClearQueueKeeps ==
    ASSUME IInv, TInv, TakeTurns', NEW w \in Workers, ClearQueue(w)
    PROVE  TInv'
<1>1. handler[w].chat \in Chats /\ Types
    BY NotCalling DEF ClearQueue, At, Awaiting
<1>2. PICK c \in Chats : c = handler[w].chat
    BY <1>1
<1>3. queues'[c] = <<>> /\ \A d \in Chats : d # c => queues'[d] = queues[d]
    BY <1>1, <1>2 DEF ClearQueue, DB!clear_queue, Types, Shapes
<1> QED BY <1>2, <1>3, StopKeeps DEF ClearQueue, At, historyVars

\* Await and LeaveCall: the call has returned.
LEMMA EndKeeps ==
    ASSUME IInv, TInv, TakeTurns', NEW w \in Workers, handler[w].pc \in Awaiting,
           call[w].pc = "done", Return(w), call' = [call EXCEPT ![w] = Streamer!NoCall],
           \/ active_chats' = active_chats
           \/ active_chats' = active_chats \ {handler[w].chat} /\ handler[w].pc = "await_leave",
           UNCHANGED <<queues, sessions, session, pipeline, raced, detached, pool, last>>
    PROVE  TInv'
<1>1. Types /\ Paired(w) /\ Unmapped(w) /\ ControlOf(handler[w], call[w])
    BY KnownOf
<1>2. PICK c \in Chats : c = handler[w].chat
    BY <1>1, HandlerTyped DEF Awaiting
<1>3. call[w].s = None /\ call[w].chat = c
    BY <1>1, <1>2 DEF ControlOf, Outside, Paired
<1>4. /\ call'[w].op = "none" /\ call'[w].pc = "none" /\ call'[w].s = None /\ ~call'[w].threw
      /\ handler'[w].pc = "idle"
      /\ \A v \in Workers : v # w => handler'[v] = handler[v] /\ call'[v] = call[v]
    <2>1. ~call'[w].threw
        BY <1>1 DEF Streamer!NoCall, Types, Shapes
    <2>2. Returns(w) /\ Handles(w, "idle", 0, 0)
        BY <1>1, NoCallReturns, ReturnHandles
    <2> QED BY <2>1, <2>2 DEF Returns, OnlyMoves, Handles
<1>5. On(w, c) /\ ~On(w, c)' /\ Sole(w, c) /\ WorksFor(w, c)
    BY <1>2, <1>4, HandlerServes DEF WorksFor, Awaiting
<1>6. Paired(w)'
    BY <1>4 DEF Paired, Asking
<1>7. Advancing(c) => Advancing(c)'
    BY <1>5, OfOne DEF NextInPool, Awaiting
<1>8. Obeyed(c)'
    <2>1. Stopped(c) => sessions[c] = None
        BY <1>5, OfOneToo DEF Awaiting
    <2> QED BY <1>5, <2>1, StillObeyed
<1>9. Awaited(c) /\ InCall(c)
    BY DEF TInv, ChatInv
<1>10. Awaited(c)'
    BY <1>5, <1>9, OfOneToo
<1>11. InCall(c)'
    <2>1. handler[w].pc = "await_leave" => sessions[c] = None
        BY <1>1, <1>2, <1>3 DEF Paired, Unmapped
    <2>2. c \in active_chats => sessions[c] # None
        BY <1>5, <1>9, OfOneToo
    <2> QED BY <1>2, <1>5, <1>9, <2>1, <2>2, OfOneToo
<1>12. \A d \in Chats : d # c => (d \in active_chats' <=> d \in active_chats)
    BY <1>2
<1> QED BY <1>3, <1>4, <1>5, <1>6, <1>7, <1>8, <1>10, <1>11, <1>12, HandlerKeeps, SamePool

LEMMA AwaitKeeps ==
    ASSUME IInv, TInv, TakeTurns', NEW w \in Workers, Await(w)
    PROVE  TInv'
BY EndKeeps DEF Await, At, Awaiting, Streamer!Done, historyVars

LEMMA LeaveCallKeeps ==
    ASSUME IInv, TInv, TakeTurns', NEW w \in Workers, LeaveCall(w)
    PROVE  TInv'
BY EndKeeps DEF LeaveCall, At, Awaiting, Streamer!Done, NTg!leave_group_call, historyVars

-----------------------------------------------------------------------------
(* Every step. *)

\* A task is added to the pool; nothing moves but, for its chat, a detached thread.
LEMMA Adds ==
    ASSUME IInv, TInv, NEW task \in Tasks, pool' = Append(pool, task),
           UNCHANGED <<queues, handler, sessions, session, pipeline, call, raced, active_chats>>,
           \A c \in Chats : \/ detached'[c] = detached[c]
                            \/ task.cmd = "next" /\ task.chat = c,
           \A c \in Chats : \/ /\ last'[c] = last[c]
                               /\ task.chat = c => task.cmd \notin {"play", "skip"}
                            \/ last'[c] # "stop"
                            \/ task.cmd = "stop" /\ task.chat = c
    PROVE  TInv'
<1>1. Types
    BY DEF IInv
<1>2. /\ Len(pool) \in Nat /\ Len(pool') = Len(pool) + 1 /\ pool'[Len(pool) + 1] = task
      /\ \A i \in 1 .. Len(pool) : pool'[i] = pool[i]
    BY <1>1 DEF Types, Shapes
<1>3. ASSUME NEW c \in Chats PROVE Advancing(c) => Advancing(c)'
    <2>1. NextInPool(c) => NextInPool(c)'
        BY <1>2 DEF NextInPool
    <2>2. task.cmd = "next" /\ task.chat = c => NextInPool(c)'
        BY <1>2 DEF NextInPool
    <2> QED BY <2>1, <2>2 DEF Advancing, On
<1>4. ASSUME NEW c \in Chats PROVE Streaming(c)' /\ Truthful(c)' /\ BrieflyIdle(c)'
    <2>1. /\ Replacing(c)' <=> Replacing(c)
          /\ Settling(c)' <=> Settling(c)
        BY DEF Replacing, Settling, On
    <2> QED BY <1>3, <2>1, SessionKept
<1>5. ASSUME NEW c \in Chats PROVE Obeyed(c)'
    <2>1. Obeyed(c)
        BY DEF TInv, ChatInv
    <2>2. CASE last'[c] # "stop"
        BY <2>2 DEF Obeyed
    <2>3. CASE task.cmd = "stop" /\ task.chat = c
        <3>1. PICK n : n = Len(pool')
            OBVIOUS
        <3>2. n \in 1 .. Len(pool') /\ pool'[n] = task
            BY <1>2, <3>1
        <3>3. NoneAsked(c, n)'
            BY <1>2, <3>1 DEF NoneAsked
        <3> QED BY <2>3, <3>2, <3>3 DEF Obeyed, StopAsked
    <2>4. CASE last'[c] = last[c] /\ (task.chat = c => task.cmd \notin {"play", "skip"})
        <3>1. ASSUME NEW i \in 0 .. Len(pool), NoneAsked(c, i) PROVE NoneAsked(c, i)'
            <4> SUFFICES ASSUME NEW j \in 1 .. Len(pool'), j > i, pool'[j].chat = c
                         PROVE  pool'[j].cmd \notin {"play", "skip"}
                BY DEF NoneAsked
            <4>1. j \in 1 .. Len(pool) \/ j = Len(pool) + 1
                BY <1>2
            <4> QED BY <1>2, <2>4, <3>1, <4>1 DEF NoneAsked
        <3>2. ASSUME StopAsked(c) PROVE StopAsked(c)'
            <4>1. PICK i \in 1 .. Len(pool) :
                        pool[i].cmd = "stop" /\ pool[i].chat = c /\ NoneAsked(c, i)
                BY <3>2 DEF StopAsked
            <4>2. i \in 0 .. Len(pool) /\ i \in 1 .. Len(pool') /\ pool'[i] = pool[i]
                BY <1>2
            <4> QED BY <3>1, <4>1, <4>2 DEF StopAsked
        <3>3. Stopped(c) => Stopped(c)'
            <4>1. 0 \in 0 .. Len(pool)
                BY <1>2
            <4> QED BY <3>1, <4>1 DEF Stopped, On
        <3> QED BY <2>1, <2>4, <3>2, <3>3 DEF Obeyed
    <2> QED BY <2>2, <2>3, <2>4
<1>6. TakeTurns' /\ \A w \in Workers : Paired(w)' /\ Unmapped(w)'
    BY DEF TInv, Paired, Unmapped, TakeTurns, At
<1>7. \A p \in Tracks : Homed(p)'
    BY DEF TInv, Homed, Streamer!ReaderActive, On
<1>8. \A c \in Chats : Awaited(c)' /\ InCall(c)'
    BY DEF TInv, ChatInv, Awaited, InCall, Leaving, On
<1> QED BY <1>4, <1>5, <1>6, <1>7, <1>8 DEF TInv, ChatInv

\* What TInv is about.
turnsVars == <<queues, handler, sessions, session, pipeline, call, raced, active_chats, detached,
               pool, last>>

LEMMA NothingChanges == ASSUME TInv, UNCHANGED turnsVars PROVE TInv'
<1> USE DEF turnsVars
<1>1. TakeTurns' /\ \A w \in Workers : Paired(w)' /\ Unmapped(w)'
    BY DEF TInv, Paired, Unmapped, TakeTurns, At
<1>2. \A p \in Tracks : Homed(p)'
    BY DEF TInv, Homed, Streamer!ReaderActive, On
<1>3. ASSUME NEW c \in Chats PROVE ChatInv(c)'
    <2>1. Untouched(c)
        BY DEF Untouched, NextInPool, StopAsked, NoneAsked
    <2>2. \A v \in Workers : handler'[v] = handler[v] /\ call'[v] = call[v]
        OBVIOUS
    <2> QED BY <2>1, <2>2, StandsStill DEF TInv
<1> QED BY <1>1, <1>2, <1>3 DEF TInv

LEMMA dispatch_messageKeeps ==
    ASSUME IInv, TInv, NEW cmd \in Commands, NEW c0 \in Chats, dispatch_message(cmd, c0)
    PROVE  TInv'
<1> DEFINE task == Task(cmd, c0, IF cmd = "play" THEN issued'[cmd] ELSE 0)
<1>1. Types
    BY DEF IInv
<1>2. UNCHANGED <<queues, handler, sessions, session, pipeline, call, raced, active_chats, detached>>
    BY DEF dispatch_message, streamerVars
<1>3. CASE Saturated /\ UNCHANGED <<pool, last>>
    BY <1>2, <1>3, NothingChanges DEF turnsVars
<1>4. CASE /\ pool' = Append(pool, task)
           /\ last' = IF cmd \in {"play", "skip", "stop"} THEN [last EXCEPT ![c0] = cmd] ELSE last
    <2>1. task \in Tasks /\ task.cmd = cmd /\ task.chat = c0
        <3>1. issued[cmd] \in Nat /\ Budget[cmd] \in Nat /\ issued[cmd] < Budget[cmd]
              /\ issued'[cmd] = issued[cmd] + 1
            BY <1>1, DispatcherAssumption DEF dispatch_message, Types, Shapes
        <3>2. cmd = "play" => issued'[cmd] \in Tracks
            BY <3>1 DEF Tracks
        <3> QED BY <3>2 DEF Task, Tasks, Commands
    <2>2. last \in [Chats -> {"none", "play", "skip", "stop"}]
        BY <1>1 DEF Types, Shapes
    <2>3. \A c \in Chats : last'[c] = IF c = c0 /\ cmd \in {"play", "skip", "stop"} THEN cmd
                                      ELSE last[c]
        BY <1>4, <2>2
    <2> HIDE DEF task
    <2> QED BY <1>2, <1>4, <2>1, <2>3, Adds
<1> QED BY <1>3, <1>4 DEF dispatch_message

LEMMA on_track_endedKeeps ==
    ASSUME IInv, TInv, NEW c0 \in Chats, on_track_ended(c0)
    PROVE  TInv'
<1> DEFINE task == Task("next", c0, 0)
<1>1. UNCHANGED <<queues, handler, sessions, session, pipeline, call, raced, active_chats, last>>
    BY DEF on_track_ended, historyVars
<1>2. CASE Saturated /\ crashed' = "terminate" /\ UNCHANGED <<pool, detached>>
    BY <1>1, <1>2, NothingChanges DEF turnsVars
<1>3. CASE /\ pool' = Append(pool, task)
           /\ detached' = [detached EXCEPT ![c0] = @ - 1]
    <2>1. task \in Tasks /\ task.cmd = "next" /\ task.chat = c0
        BY DEF Task, Tasks
    <2>2. \A c \in Chats : c # c0 => detached'[c] = detached[c]
        BY <1>3 DEF IInv, Types, Shapes
    <2> HIDE DEF task
    <2> QED BY <1>1, <1>3, <2>1, <2>2, Adds
<1> QED BY <1>2, <1>3 DEF on_track_ended

\* The first task is taken.
LEMMA TakenFromPool ==
    ASSUME Types, pool # <<>>, pool' = Tail(pool), NEW c \in Chats
    PROVE  /\ \A i \in 0 .. Len(pool), j \in Nat : NoneAsked(c, i) /\ i <= j + 1 => NoneAsked(c, j)'
           /\ NextInPool(c) => NextInPool(c)' \/ (Head(pool).cmd = "next" /\ Head(pool).chat = c)
           /\ StopAsked(c) => \/ StopAsked(c)'
                              \/ /\ Head(pool).cmd = "stop" /\ Head(pool).chat = c
                                 /\ NoneAsked(c, 0)'
<1>1. /\ Len(pool) \in Nat \ {0} /\ Len(pool') = Len(pool) - 1 /\ Head(pool) = pool[1]
      /\ \A i \in 1 .. Len(pool) - 1 : pool'[i] = pool[i + 1]
    BY DEF Types, Shapes
<1>2. ASSUME NEW i \in 0 .. Len(pool), NoneAsked(c, i), NEW j \in Nat, i <= j + 1
      PROVE  NoneAsked(c, j)'
    <2> SUFFICES ASSUME NEW k \in 1 .. Len(pool'), k > j, pool'[k].chat = c
                 PROVE  pool'[k].cmd \notin {"play", "skip"}
        BY DEF NoneAsked
    <2>1. k + 1 \in 1 .. Len(pool) /\ k + 1 > i /\ pool'[k] = pool[k + 1]
        BY <1>1, <1>2
    <2> QED BY <1>2, <2>1 DEF NoneAsked
<1>3. ASSUME NEW i \in 1 .. Len(pool)
      PROVE  pool[i] = Head(pool) \/ (i - 1 \in 1 .. Len(pool') /\ pool'[i - 1] = pool[i])
    <2>1. i = 1 \/ i - 1 \in 1 .. Len(pool) - 1
        BY <1>1
    <2> QED BY <1>1, <2>1
<1>4. NextInPool(c) => NextInPool(c)' \/ (Head(pool).cmd = "next" /\ Head(pool).chat = c)
    BY <1>3 DEF NextInPool
<1>5. ASSUME NEW i \in 1 .. Len(pool), pool[i].cmd = "stop", pool[i].chat = c, NoneAsked(c, i)
      PROVE  StopAsked(c)' \/ (Head(pool).cmd = "stop" /\ Head(pool).chat = c /\ NoneAsked(c, 0)')
    <2>1. PICK j \in Nat : j = i - 1
        BY <1>1
    <2>2. NoneAsked(c, j)'
        <3>1. i \in 0 .. Len(pool) /\ i <= j + 1
            BY <1>1, <2>1
        <3> QED BY <1>2, <1>5, <3>1
    <2>3. CASE j = 0
        <3>1. pool[i] = Head(pool)
            BY <1>1, <2>1, <2>3
        <3> QED BY <1>5, <2>2, <2>3, <3>1
    <2>4. CASE j # 0
        <3>1. j \in 1 .. Len(pool') /\ pool'[j] = pool[i]
            BY <1>1, <2>1, <2>4
        <3> QED BY <1>5, <2>2, <3>1 DEF StopAsked
    <2> QED BY <2>3, <2>4
<1> QED BY <1>2, <1>4, <1>5 DEF StopAsked

LEMMA execute_commandKeeps ==
    ASSUME IInv, TInv, TakeTurns', NEW w \in Workers, execute_command(w)
    PROVE  TInv'
<1>0. PICK task : task = Head(pool)
    OBVIOUS
<1>1. /\ call[w].pc = "none" /\ call[w].s = None /\ call[w].op \notin {"play", "stop"}
      /\ ~call[w].threw /\ Paired(w) /\ Types /\ handler[w].pc = "idle"
    BY NotCalling DEF execute_command, At, Awaiting
<1>2. pool # <<>> /\ pool' = Tail(pool) /\ task \in Tasks
    BY <1>0, <1>1, TakesTask DEF execute_command
<1>3. UNCHANGED <<queues, sessions, session, pipeline, raced, crashed, detached, last,
                  active_chats>>
    BY DEF execute_command, historyVars
<1>4. /\ task.chat \in Chats
      /\ task.cmd \in {"play", "skip", "stop", "pause", "resume", "next"}
    BY <1>2 DEF Tasks
<1>5. PICK c \in Chats : c = task.chat
    BY <1>4
<1>6. /\ handler'[w].chat = c /\ handler'[w].cmd = task.cmd
      /\ handler'[w].pc = CASE task.cmd = "play" -> "play_check"
                            [] task.cmd = "skip" -> "skip_check"
                            [] task.cmd = "next" -> "pop"
                            [] task.cmd = "stop" -> "clear"
                            [] OTHER -> "await"
      /\ \A v \in Workers : v # w => handler'[v] = handler[v]
    BY <1>0, <1>1, <1>5 DEF execute_command, Types, Shapes
<1>7. /\ call'[w].s = None /\ ~call'[w].threw /\ call'[w].op \notin {"play", "stop"}
      /\ call'[w].pc \in {"none", "pause", "resume"}
      /\ call'[w].pc # "none" => call'[w].chat = c
      /\ \A v \in Workers : v # w => call'[v] = call[v]
    <2>1. CASE task.cmd \in {"pause", "resume"}
        <3>1. Streamer!Begin(w, task.cmd, task.chat, 0)
            BY <1>0, <2>1 DEF execute_command
        <3>2. task.cmd \in Ops /\ 0 \in Places
            BY <2>1 DEF Ops, Places
        <3> QED BY <1>1, <1>4, <1>5, <2>1, <3>1, <3>2, BeginsFresh DEF First
    <2>2. CASE task.cmd \notin {"pause", "resume"}
        BY <1>0, <1>1, <2>2 DEF execute_command
    <2> QED BY <2>1, <2>2
<1>8. Paired(w)'
    BY <1>4, <1>6, <1>7 DEF Paired, Asking
<1>9. ~On(w, c) /\ On(w, c)' /\ Sole(w, c) /\ WorksFor(w, c)
    <2>1. handler'[w].pc # "idle"
        BY <1>4, <1>6
    <2>2. \A d \in Chats : ~On(w, d) /\ (d # c => ~On(w, d)')
        BY <1>1, <1>6 DEF On
    <2>3. Sole(w, c)
        BY <1>6, <1>7, <2>1 DEF Sole, TakeTurns, At, On
    <2> QED BY <1>6, <2>1, <2>2, <2>3 DEF WorksFor, On
<1>10. ASSUME NEW d \in Chats, d # c PROVE PoolKeeps(d)
    <2>1. 0 \in 0 .. Len(pool) /\ 0 \in Nat /\ 0 <= 0 + 1
        BY <1>1 DEF Types, Shapes
    <2> QED BY <1>0, <1>1, <1>2, <1>5, <1>10, <2>1, TakenFromPool DEF PoolKeeps
<1>11. Advancing(c) => Advancing(c)'
    <2>1. NextInPool(c) => NextInPool(c)' \/ handler'[w].pc = "pop"
        BY <1>0, <1>1, <1>2, <1>6, TakenFromPool
    <2> QED BY <1>3, <1>9, <2>1, OfOne
<1>12. Obeyed(c)'
    <2>1. Obeyed(c)
        BY DEF TInv, ChatInv
    <2>2. ASSUME StopAsked(c) PROVE StopAsked(c)' \/ Stopped(c)'
        <3>1. StopAsked(c)' \/ (task.cmd = "stop" /\ NoneAsked(c, 0)')
            BY <1>0, <1>1, <1>2, <2>2, TakenFromPool
        <3> QED BY <1>6, <1>7, <1>9, <3>1, OfOneToo
    <2>3. ASSUME Stopped(c) PROVE Stopped(c)'
        <3>1. 0 \in 0 .. Len(pool) /\ 0 \in Nat /\ 0 <= 0 + 1 /\ 1 \in 1 .. Len(pool) /\ 1 > 0
              /\ Head(pool) = pool[1]
            BY <1>1, <1>2 DEF Types, Shapes
        <3>2. NoneAsked(c, 0) /\ sessions[c] = None
            BY <1>9, <2>3, OfOneToo
        <3>3. NoneAsked(c, 0)'
            BY <1>1, <1>2, <3>1, <3>2, TakenFromPool
        <3>4. task.cmd \notin {"play", "skip"}
            BY <1>0, <1>5, <3>1, <3>2 DEF NoneAsked
        <3> QED BY <1>3, <1>6, <1>7, <1>9, <3>2, <3>3, <3>4, OfOneToo
    <2> QED BY <1>3, <2>1, <2>2, <2>3 DEF Obeyed
<1>13. Awaited(c)' /\ InCall(c)'
    <2>1. Awaited(c) /\ InCall(c)
        BY DEF TInv, ChatInv
    <2>2. handler'[w].pc # "enqueue"
        BY <1>4, <1>6
    <2> QED BY <1>3, <1>7, <1>9, <2>1, <2>2, OfOneToo
<1> QED BY <1>1, <1>3, <1>7, <1>8, <1>9, <1>10, <1>11, <1>12, <1>13, HandlerKeeps

LEMMA TurnsStay == ASSUME TInv, IInv, IInv', [Next /\ TakeTurns']_vars PROVE TInv'
<1>1. CASE UNCHANGED vars
    BY <1>1, NothingChanges DEF vars, streamerVars, historyVars, turnsVars
<1> SUFFICES ASSUME Next, TakeTurns' PROVE TInv'
    BY <1>1
<1>2. CASE \E cmd \in Commands, c \in Chats : dispatch_message(cmd, c)
    BY <1>2, dispatch_messageKeeps
<1>3. CASE \E c \in Chats : on_track_ended(c)
    BY <1>3, on_track_endedKeeps
<1>4. ASSUME NEW w \in Workers, HandlerStep(w) PROVE TInv'
    BY <1>4, execute_commandKeeps, PlayCheckKeeps, PlayNowKeeps, PlayLaterKeeps,
       SkipCheckKeeps, PopNextKeeps, PopNoneKeeps, ClearQueueKeeps, AwaitKeeps, LeaveCallKeeps,
       InStreamerKeeps DEF HandlerStep
<1>5. CASE \E p \in Tracks : Reader(p) \/ TrackEnds(p)
    BY <1>5, ReaderKeeps
<1>6. CASE Rest
    BY <1>6, NothingChanges DEF Rest, vars, streamerVars, historyVars, turnsVars
<1> QED BY <1>2, <1>3, <1>4, <1>5, <1>6 DEF Next

LEMMA TurnsInitially == Init => TInv
<1> SUFFICES ASSUME Init PROVE TInv
    OBVIOUS
<1>1. /\ queues = [c \in Chats |-> <<>>] /\ active_chats = {}
      /\ sessions = [c \in Chats |-> None] /\ raced = FALSE
      /\ pipeline = [p \in Tracks |-> Streamer!NoPipeline]
      /\ call = [w \in Workers |-> Streamer!NoCall]
      /\ handler = [w \in Workers |-> Idle] /\ last = [c \in Chats |-> "none"]
    BY DEF Init, DB!Init, Streamer!Init, Streamer!NTg!Init, None
<1>2. \A w \in Workers : /\ call[w].pc = "none" /\ call[w].op = "none" /\ ~call[w].threw
                         /\ handler[w].pc = "idle"
    BY <1>1 DEF Streamer!NoCall, Idle
<1>3. \A w \in Workers : Paired(w) /\ Unmapped(w)
    BY <1>2 DEF Paired, Unmapped, Asking
<1>4. TakeTurns
    BY <1>2 DEF TakeTurns, At
<1>5. \A p \in Tracks : Homed(p)
    BY <1>1 DEF Homed, Streamer!ReaderActive, Streamer!NoPipeline
<1>6. \A c \in Chats : Streaming(c) /\ Truthful(c) /\ BrieflyIdle(c) /\ Obeyed(c)
    BY <1>1 DEF Streaming, Truthful, BrieflyIdle, Obeyed
<1>7. \A c \in Chats : Awaited(c)
    BY <1>1, <1>2 DEF Awaited
<1>8. \A c \in Chats : InCall(c)
    BY <1>1, <1>2 DEF InCall
<1> QED BY <1>1, <1>3, <1>4, <1>5, <1>6, <1>7, <1>8 DEF TInv, ChatInv

(***************************************************************************)
(* However many workers there are, TInv holds as long as the handlers of a *)
(* chat take turns: what a session, its reader and its call have to do     *)
(* with each other while handlers, ends of streams and detached threads    *)
(* interleave.                                                             *)
(***************************************************************************)
THEOREM TurnsInductive == TurnsSpec => Spec /\ []TInv
<1>1. Init => TInv
    BY TurnsInitially
<1>2. [Next /\ TakeTurns']_vars => [Next]_vars
    OBVIOUS
<1>3. TurnsSpec => Spec
    BY <1>2, PTL DEF TurnsSpec, Spec
<1>4. TInv /\ IInv /\ IInv' /\ [Next /\ TakeTurns']_vars => TInv'
    BY TurnsStay
<1>5. TurnsSpec => []IInv
    BY <1>3, Inductive, PTL
<1>6. TurnsSpec => []TInv
    BY <1>1, <1>4, <1>5, PTL DEF TurnsSpec
<1> QED BY <1>3, <1>6, PTL

-----------------------------------------------------------------------------
(* What the invariant says when all is quiet. *)

\* When all is quiet no call is under way, and nothing is to come.
LEMMA AtRest ==
    ASSUME IInv, TInv, Quiescent
    PROVE  /\ Types /\ Typed /\ Ownership
           /\ \A w \in Workers : handler[w].pc = "idle" /\ call[w].pc = "none"
                                 /\ call[w].op \notin {"play", "stop"}
           /\ \A c \in Chats : ~Advancing(c) /\ ~Replacing(c) /\ ~Settling(c) /\ ~Leaving(c)
<1>1. Types /\ Typed /\ Ownership
    BY EverythingTyped DEF IInv, TInv
<1>2. \A w \in Workers : handler[w].pc = "idle"
    BY DEF Quiescent, Busy
<1>3. \A w \in Workers : call[w].pc = "none" /\ call[w].op \notin {"play", "stop"}
    BY <1>2, NotCalling, <1>1 DEF Awaiting
<1>4. ASSUME NEW c \in Chats PROVE ~Advancing(c)
    <2>1. detached[c] = 0 /\ pool = <<>>
        BY DEF Quiescent
    <2> QED BY <1>2, <1>3, <2>1 DEF Advancing, NextInPool
<1> QED BY <1>1, <1>2, <1>3, <1>4 DEF Replacing, Settling, Leaving

\* The stream of a mapped session is then being read.
LEMMA MappedIsRead ==
    ASSUME IInv, TInv, Quiescent, ~SpawnMayFail, NEW c \in Chats, sessions[c] # None,
           NEW p, p = session[sessions[c]].pipeline
    PROVE  /\ p \in Tracks /\ p # None /\ Reading(p, c)
           /\ session[sessions[c]].state = IF pipeline[p].paused THEN "Paused" ELSE "Playing"
<1>1. /\ Types /\ Typed /\ Ownership
      /\ \A w \in Workers : call[w].pc = "none" /\ call[w].op \notin {"play", "stop"}
      /\ ~Advancing(c) /\ ~Replacing(c) /\ ~Settling(c)
    BY AtRest
<1>2. Streaming(c) /\ Truthful(c)
    BY DEF TInv, ChatInv
<1>3. p # None /\ p \in Tracks /\ sessions[c] \in Tracks
    BY <1>1, <1>2, TracksArePositive DEF Streaming, Typed, Places
<1>4. Streamer!ReaderActive(p)
    BY <1>1, <1>2 DEF Streaming
<1>5. pipeline[p].volume = sessions[c]
    BY <1>1, <1>3, <1>4, ReaderOf DEF Ownership, Apart
<1>6. pipeline[p].chat \in Chats /\ sessions[pipeline[p].chat] = sessions[c]
    BY <1>1, <1>3, <1>4, <1>5 DEF TInv, Homed
<1>7. pipeline[p].chat = c
    BY <1>1, <1>6 DEF Ownership, Apart
<1>8. pipeline[p].reader \in {"reading", "held"}
    BY <1>3, <1>4 DEF Streamer!ReaderActive, Quiescent
<1>9. session[sessions[c]].state = IF pipeline[p].paused THEN "Paused" ELSE "Playing"
    BY <1>1, <1>2, <1>4 DEF Truthful
<1> QED BY <1>3, <1>7, <1>8, <1>9 DEF Reading

\* And no other stream is.
LEMMA ReadIsMapped ==
    ASSUME IInv, TInv, Quiescent, NEW c \in Chats, NEW p \in Tracks, Reading(p, c)
    PROVE  sessions[c] # None /\ session[sessions[c]].pipeline = p
<1>1. Streamer!ReaderActive(p) /\ pipeline[p].chat = c
    BY DEF Reading, Streamer!ReaderActive
<1>2. \A w \in Workers : call[w].op \notin {"play", "stop"}
    BY AtRest
<1>3. Homed(p)
    BY DEF TInv
<1> QED BY <1>1, <1>2, <1>3, ReaderOf DEF Homed

(***************************************************************************)
(* As long as the handlers of a chat take turns, no track is left in the   *)
(* queue of a chat that plays nothing: a stream that ends sees to it that  *)
(* play_next_in_queue runs after every handler that has seen the stream    *)
(* still playing. Needs that a decoder can be started: when pipe() or      *)
(* fork() fails the reader returns without on_eof, and nobody advances the *)
(* queue.                                                                  *)
(***************************************************************************)
THEOREM NothingStranded == ASSUME ~SpawnMayFail PROVE TurnsSpec => []NoStrandedTrack
<1>1. ASSUME TInv, NEW c \in Chats PROVE Awaited(c)
    BY <1>1 DEF TInv, ChatInv
<1>2. IInv /\ TInv => NoStrandedTrack
    BY <1>1, MappedIsRead DEF NoStrandedTrack, Awaited
<1> QED BY <1>2, Inductive, TurnsInductive, PTL

(***************************************************************************)
(* As long as the handlers of a chat take turns, and whatever fails, a     *)
(* chat with tracks waiting is not Idle when all is quiet: on_stream_eof   *)
(* sets Idle and calls for play_next_in_queue in one critical section, and *)
(* a reader that ends without it leaves the state as it is. So a /skip     *)
(* goes on to the next track, and a /play does not overtake those that     *)
(* wait.                                                                   *)
(***************************************************************************)
THEOREM SkipStillHelps == TurnsSpec => []SkipCanAdvance
<1>1. ASSUME TInv, NEW c \in Chats PROVE Awaited(c) /\ BrieflyIdle(c)
    BY <1>1 DEF TInv, ChatInv
<1>2. IInv /\ TInv => SkipCanAdvance
    BY <1>1, AtRest DEF SkipCanAdvance, Awaited, BrieflyIdle, Streamer!get_state, None,
       Streamer!None
<1> QED BY <1>2, Inductive, TurnsInductive, PTL

(***************************************************************************)
(* As long as the handlers of a chat take turns, when all is quiet         *)
(* get_state says Playing or Paused exactly for the chats whose stream is  *)
(* being read, and the reader of no other session goes on. (When pipe() or *)
(* fork() fails the state stays Playing without a stream.)                 *)
(***************************************************************************)
THEOREM StateTellsTruth == ASSUME ~SpawnMayFail PROVE TurnsSpec => []SessionTellsTruth
<1>1. IInv /\ TInv => SessionTellsTruth
    BY MappedIsRead, ReadIsMapped DEF SessionTellsTruth, None
<1> QED BY <1>1, Inductive, TurnsInductive, PTL

(***************************************************************************)
(* As long as the handlers of a chat take turns, when all is quiet the bot *)
(* is in the voice call of exactly the chats whose stream is being read:   *)
(* no path through play, skip, stop and the end of a stream leaves it in a *)
(* call, or leaves the call too early. (handle_play goes on when joining   *)
(* the call has failed.)                                                   *)
(***************************************************************************)
THEOREM OneCallPerStream ==
    ASSUME ~SpawnMayFail, ~JoinMayFail
    PROVE  TurnsSpec => []InCallWhilePlaying
<1>1. ASSUME IInv, TInv, Quiescent, NEW c \in Chats
      PROVE  c \in active_chats <=> \E p \in Tracks : Reading(p, c)
    <2>1. ~Leaving(c) /\ \A w \in Workers : call[w].pc = "none"
        BY <1>1, AtRest
    <2>2. InCall(c)
        BY <1>1 DEF TInv, ChatInv
    <2>3. c \in active_chats <=> sessions[c] # None
        BY <2>1, <2>2 DEF InCall
    <2> QED BY <1>1, <2>3, MappedIsRead, ReadIsMapped
<1>2. IInv /\ TInv => InCallWhilePlaying
    BY <1>1 DEF InCallWhilePlaying
<1> QED BY <1>2, Inductive, TurnsInductive, PTL

(***************************************************************************)
(* As long as the handlers of a chat take turns, a /stop that comes after  *)
(* the last /play and /skip of its chat silences it, empties its queue and *)
(* leaves the call, whatever streams end and advance the queue meanwhile,  *)
(* and whether or not decoders start and calls can be joined.              *)
(***************************************************************************)
THEOREM StopIsObeyed == TurnsSpec => []StopSilences
<1>1. ASSUME IInv, TInv, Quiescent, NEW c \in Chats, last[c] = "stop"
      PROVE  (\A p \in Tracks : ~Reading(p, c)) /\ queues[c] = <<>> /\ c \notin active_chats
    <2>1. ~Leaving(c) /\ \A w \in Workers : handler[w].pc = "idle" /\ call[w].pc = "none"
        BY <1>1, AtRest
    <2>2. Obeyed(c) /\ Awaited(c) /\ InCall(c)
        BY <1>1 DEF TInv, ChatInv
    <2>3. ~StopAsked(c)
        BY <1>1 DEF Quiescent, StopAsked
    <2>4. sessions[c] = None
        BY <1>1, <2>1, <2>2, <2>3 DEF Obeyed, Stopped
    <2>5. \A p \in Tracks : ~Reading(p, c)
        BY <1>1, <2>4, ReadIsMapped
    <2>6. queues[c] = <<>> /\ c \notin active_chats
        BY <2>1, <2>2, <2>4 DEF Awaited, InCall
    <2> QED BY <2>5, <2>6
<1>2. IInv /\ TInv => StopSilences
    BY <1>1 DEF StopSilences
<1> QED BY <1>2, Inductive, TurnsInductive, PTL

=============================================================================
