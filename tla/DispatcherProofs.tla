--------------------------- MODULE DispatcherProofs ---------------------------
(***************************************************************************)
(* Proofs about Dispatcher, for any number of workers, chats, commands and *)
(* any capacity of the pool: its types; that without two calls at work on  *)
(* one session no destroyed pipeline is used, only a full pool ends the    *)
(* process, no reader outlives what it points to, nobody waits in vain,    *)
(* and pipelines are used as PcmStream allows; and that it implements      *)
(* Playlist.                                                               *)
(***************************************************************************)
EXTENDS DispatcherSteps

-----------------------------------------------------------------------------
(* Where the tracks are. *)

LEMMA AppendsTask ==
    ASSUME Types, NEW task \in Tasks, pool' = Append(pool, task), NEW t
    PROVE  InPool(t)' <=> InPool(t) \/ task.track = t
<1>1. /\ Len(pool) \in Nat /\ Len(pool') = Len(pool) + 1 /\ pool'[Len(pool) + 1] = task
      /\ \A i \in 1 .. Len(pool) : pool'[i] = pool[i]
    BY DEF Types, Shapes
<1> QED BY <1>1 DEF InPool

LEMMA TakesTask ==
    ASSUME Types, pool # <<>>, pool' = Tail(pool), NEW t
    PROVE  /\ Head(pool) \in Tasks
           /\ InPool(t) <=> InPool(t)' \/ Head(pool).track = t
<1>1. /\ Len(pool) \in Nat \ {0} /\ Len(pool') = Len(pool) - 1 /\ Head(pool) = pool[1]
      /\ \A i \in 1 .. Len(pool) - 1 : pool'[i] = pool[i + 1]
      /\ \A i \in 1 .. Len(pool) : pool[i] \in Tasks
    BY DEF Types, Shapes
<1>2. Head(pool) \in Tasks
    BY <1>1
<1>3. ASSUME InPool(t) PROVE InPool(t)' \/ Head(pool).track = t
    <2>1. PICK i \in 1 .. Len(pool) : pool[i].track = t
        BY <1>3 DEF InPool
    <2>2. CASE i = 1
        BY <1>1, <2>1, <2>2
    <2>3. CASE i # 1
        <3>1. i - 1 \in 1 .. Len(pool') /\ pool'[i - 1] = pool[i]
            BY <1>1, <2>3
        <3> QED BY <2>1, <3>1 DEF InPool
    <2> QED BY <2>2, <2>3
<1>4. ASSUME InPool(t)' PROVE InPool(t)
    <2>1. PICK i \in 1 .. Len(pool') : pool'[i].track = t
        BY <1>4 DEF InPool
    <2>2. i + 1 \in 1 .. Len(pool) /\ pool[i + 1].track = t
        BY <1>1, <2>1
    <2> QED BY <2>2 DEF InPool
<1>5. ASSUME Head(pool).track = t PROVE InPool(t)
    <2>1. 1 \in 1 .. Len(pool) /\ pool[1].track = t
        BY <1>1, <1>5
    <2> QED BY <2>1 DEF InPool
<1> QED BY <1>2, <1>3, <1>4, <1>5

LEMMA AppendsTrack ==
    ASSUME Types, NEW c \in Chats, NEW track \in Tracks, DB!enqueue_track(c, track), NEW t,
           NEW d \in Chats
    PROVE  InQueue(t, d)' <=> InQueue(t, d) \/ (d = c /\ track = t)
<1>1. /\ queues[d] \in Seq(Tracks)
      /\ queues'[d] = IF d = c THEN Append(queues[d], track) ELSE queues[d]
    BY DEF Types, Shapes, DB!enqueue_track
<1>2. CASE d = c
    <2>1. /\ Len(queues[d]) \in Nat /\ Len(queues'[d]) = Len(queues[d]) + 1
          /\ queues'[d][Len(queues[d]) + 1] = track
          /\ \A i \in 1 .. Len(queues[d]) : queues'[d][i] = queues[d][i]
        BY <1>1, <1>2
    <2>2. ASSUME InQueue(t, d)' PROVE InQueue(t, d) \/ track = t
        <3>1. PICK i \in 1 .. Len(queues'[d]) : queues'[d][i] = t
            BY <2>2 DEF InQueue
        <3>2. i \in 1 .. Len(queues[d]) \/ i = Len(queues[d]) + 1
            BY <2>1, <3>1
        <3> QED BY <2>1, <3>1, <3>2 DEF InQueue
    <2>3. ASSUME InQueue(t, d) PROVE InQueue(t, d)'
        <3>1. PICK i \in 1 .. Len(queues[d]) : queues[d][i] = t
            BY <2>3 DEF InQueue
        <3>2. i \in 1 .. Len(queues'[d]) /\ queues'[d][i] = t
            BY <2>1, <3>1
        <3> QED BY <3>2 DEF InQueue
    <2>4. ASSUME track = t PROVE InQueue(t, d)'
        <3>1. Len(queues[d]) + 1 \in 1 .. Len(queues'[d])
            BY <2>1
        <3> QED BY <2>1, <2>4, <3>1 DEF InQueue
    <2> QED BY <1>2, <2>2, <2>3, <2>4
<1>3. CASE d # c
    BY <1>1, <1>3 DEF InQueue
<1> QED BY <1>2, <1>3

LEMMA TakesTrack ==
    ASSUME Types, NEW c \in Chats, DB!has_next_track(c), DB!pop_next_track(c), NEW t
    PROVE  /\ DB!next_track(c) \in Tracks
           /\ InQueue(t, c) <=> InQueue(t, c)' \/ DB!next_track(c) = t
           /\ \A d \in Chats : d # c => (InQueue(t, d)' <=> InQueue(t, d))
<1>1. /\ queues[c] \in Seq(Tracks) /\ queues[c] # <<>> /\ queues'[c] = Tail(queues[c])
      /\ \A d \in Chats : d # c => queues'[d] = queues[d]
    BY DEF Types, Shapes, DB!has_next_track, DB!pop_next_track
<1>2. /\ Len(queues[c]) \in Nat \ {0} /\ Len(queues'[c]) = Len(queues[c]) - 1
      /\ DB!next_track(c) = queues[c][1]
      /\ \A i \in 1 .. Len(queues[c]) - 1 : queues'[c][i] = queues[c][i + 1]
      /\ \A i \in 1 .. Len(queues[c]) : queues[c][i] \in Tracks
    BY <1>1 DEF DB!next_track
<1>3. DB!next_track(c) \in Tracks
    BY <1>2
<1>4. ASSUME InQueue(t, c) PROVE InQueue(t, c)' \/ DB!next_track(c) = t
    <2>1. PICK i \in 1 .. Len(queues[c]) : queues[c][i] = t
        BY <1>4 DEF InQueue
    <2>2. CASE i = 1
        BY <1>2, <2>1, <2>2
    <2>3. CASE i # 1
        <3>1. i - 1 \in 1 .. Len(queues'[c]) /\ queues'[c][i - 1] = queues[c][i]
            BY <1>2, <2>3
        <3> QED BY <2>1, <3>1 DEF InQueue
    <2> QED BY <2>2, <2>3
<1>5. ASSUME InQueue(t, c)' PROVE InQueue(t, c)
    <2>1. PICK i \in 1 .. Len(queues'[c]) : queues'[c][i] = t
        BY <1>5 DEF InQueue
    <2>2. i + 1 \in 1 .. Len(queues[c]) /\ queues[c][i + 1] = t
        BY <1>2, <2>1
    <2> QED BY <2>2 DEF InQueue
<1>6. ASSUME DB!next_track(c) = t PROVE InQueue(t, c)
    <2>1. 1 \in 1 .. Len(queues[c]) /\ queues[c][1] = t
        BY <1>2, <1>6
    <2> QED BY <2>1 DEF InQueue
<1>7. \A d \in Chats : d # c => (InQueue(t, d)' <=> InQueue(t, d))
    BY <1>1 DEF InQueue
<1> QED BY <1>3, <1>4, <1>5, <1>6, <1>7

LEMMA AppendDistinct ==
    ASSUME Types, PoolDistinct, NEW task \in Tasks, pool' = Append(pool, task),
           task.track \in Tracks => ~InPool(task.track)
    PROVE  PoolDistinct'
<1>1. /\ Len(pool) \in Nat /\ Len(pool') = Len(pool) + 1 /\ pool'[Len(pool) + 1] = task
      /\ \A i \in 1 .. Len(pool) : pool'[i] = pool[i]
    BY DEF Types, Shapes
<1> SUFFICES ASSUME NEW i \in 1 .. Len(pool'), NEW j \in 1 .. Len(pool'),
                    pool'[i].track \in Tracks, pool'[i].track = pool'[j].track
             PROVE  i = j
    BY DEF PoolDistinct
<1>2. CASE i \in 1 .. Len(pool) /\ j \in 1 .. Len(pool)
    BY <1>1, <1>2 DEF PoolDistinct
<1>3. CASE i = Len(pool) + 1 /\ j \in 1 .. Len(pool)
    BY <1>1, <1>3 DEF InPool
<1>4. CASE j = Len(pool) + 1 /\ i \in 1 .. Len(pool)
    BY <1>1, <1>4 DEF InPool
<1> QED BY <1>1, <1>2, <1>3, <1>4

LEMMA TakeDistinct ==
    ASSUME Types, PoolDistinct, pool # <<>>, pool' = Tail(pool)
    PROVE  PoolDistinct' /\ \A t \in Tracks : Head(pool).track = t => ~InPool(t)'
<1>1. /\ Len(pool) \in Nat \ {0} /\ Len(pool') = Len(pool) - 1 /\ Head(pool) = pool[1]
      /\ \A i \in 1 .. Len(pool) - 1 : pool'[i] = pool[i + 1]
    BY DEF Types, Shapes
<1>2. ASSUME NEW i \in 1 .. Len(pool'), NEW j \in 1 .. Len(pool'),
             pool'[i].track \in Tracks, pool'[i].track = pool'[j].track
      PROVE  i = j
    <2>1. i + 1 \in 1 .. Len(pool) /\ j + 1 \in 1 .. Len(pool)
        BY <1>1
    <2>2. i + 1 = j + 1
        BY <1>1, <1>2, <2>1 DEF PoolDistinct
    <2> QED BY <2>2
<1>3. ASSUME NEW i \in 1 .. Len(pool'), Head(pool).track \in Tracks,
             pool'[i].track = Head(pool).track
      PROVE  FALSE
    <2>1. i + 1 \in 1 .. Len(pool) /\ 1 \in 1 .. Len(pool) /\ i + 1 # 1
        BY <1>1
    <2> QED BY <1>1, <1>3, <2>1 DEF PoolDistinct
<1> QED BY <1>2, <1>3 DEF PoolDistinct, InPool

LEMMA QueueAppendDistinct ==
    ASSUME Types, QueuesDistinct, NEW c \in Chats, NEW track \in Tracks,
           DB!enqueue_track(c, track), \A d \in Chats : ~InQueue(track, d)
    PROVE  QueuesDistinct'
<1> DEFINE n == Len(queues[c]) + 1
<1>1. /\ queues[c] \in Seq(Tracks) /\ queues'[c] = Append(queues[c], track)
      /\ \A d \in Chats : d # c => queues'[d] = queues[d]
    BY DEF Types, Shapes, DB!enqueue_track
<1>2. /\ Len(queues[c]) \in Nat /\ Len(queues'[c]) = n /\ queues'[c][n] = track
      /\ \A i \in 1 .. Len(queues[c]) : queues'[c][i] = queues[c][i]
    BY <1>1
<1>3. \A d \in Chats : \A i \in 1 .. Len(queues'[d]) :
         \/ i \in 1 .. Len(queues[d]) /\ queues'[d][i] = queues[d][i]
         \/ d = c /\ i = n /\ queues'[d][i] = track
    BY <1>1, <1>2
<1>4. \A d \in Chats : \A i \in 1 .. Len(queues[d]) : queues[d][i] # track
    BY DEF InQueue
<1> HIDE DEF n
<1> QED BY <1>3, <1>4 DEF QueuesDistinct

LEMMA QueueTakeDistinct ==
    ASSUME Types, QueuesDistinct, NEW c \in Chats, DB!has_next_track(c), DB!pop_next_track(c)
    PROVE  /\ QueuesDistinct'
           /\ \A t \in Tracks : DB!next_track(c) = t => \A d \in Chats : ~InQueue(t, d)'
<1>1. /\ queues[c] \in Seq(Tracks) /\ queues[c] # <<>> /\ queues'[c] = Tail(queues[c])
      /\ \A d \in Chats : d # c => queues'[d] = queues[d]
    BY DEF Types, Shapes, DB!has_next_track, DB!pop_next_track
<1>2. /\ Len(queues[c]) \in Nat \ {0} /\ Len(queues'[c]) = Len(queues[c]) - 1
      /\ DB!next_track(c) = queues[c][1]
      /\ \A i \in 1 .. Len(queues[c]) - 1 : queues'[c][i] = queues[c][i + 1]
    BY <1>1 DEF DB!next_track
<1>3. \A i \in 1 .. Len(queues'[c]) : /\ i \in Nat /\ i + 1 \in 1 .. Len(queues[c]) /\ i + 1 # 1
                                     /\ queues'[c][i] = queues[c][i + 1]
    BY <1>2
<1>4. 1 \in 1 .. Len(queues[c])
    BY <1>2
<1>5. ASSUME NEW d \in Chats, NEW e \in Chats,
             NEW i \in 1 .. Len(queues'[d]), NEW j \in 1 .. Len(queues'[e]),
             queues'[d][i] = queues'[e][j]
      PROVE  d = e /\ i = j
    <2>1. CASE d = c /\ e = c
        <3>1. i + 1 = j + 1
            BY <1>3, <1>5, <2>1 DEF QueuesDistinct
        <3> QED BY <1>3, <2>1, <3>1
    <2>2. CASE d = c /\ e # c
        <3>1. /\ i + 1 \in 1 .. Len(queues[c]) /\ j \in 1 .. Len(queues[e])
              /\ queues[c][i + 1] = queues[e][j]
            BY <1>1, <1>3, <1>5, <2>2
        <3> QED BY <2>2, <3>1 DEF QueuesDistinct
    <2>3. CASE d # c /\ e = c
        <3>1. /\ i \in 1 .. Len(queues[d]) /\ j + 1 \in 1 .. Len(queues[c])
              /\ queues[d][i] = queues[c][j + 1]
            BY <1>1, <1>3, <1>5, <2>3
        <3> QED BY <2>3, <3>1 DEF QueuesDistinct
    <2>4. CASE d # c /\ e # c
        BY <1>1, <1>5, <2>4 DEF QueuesDistinct
    <2> QED BY <2>1, <2>2, <2>3, <2>4
<1>6. ASSUME NEW d \in Chats, NEW i \in 1 .. Len(queues'[d]), queues'[d][i] = DB!next_track(c)
      PROVE  FALSE
    <2>1. CASE d = c
        BY <1>2, <1>3, <1>4, <1>6, <2>1 DEF QueuesDistinct
    <2>2. CASE d # c
        BY <1>1, <1>2, <1>4, <1>6, <2>2 DEF QueuesDistinct
    <2> QED BY <2>1, <2>2
<1> QED BY <1>5, <1>6 DEF QueuesDistinct, InQueue

-----------------------------------------------------------------------------
(* The steps of the dispatcher: their effect, field by field. *)

\* Only the handler of w changes, and goes on with these local variables.
Handles(w, pc, chat, track) ==
    /\ handler' \in [Workers -> Handlers]
    /\ \A v \in Workers : v # w => handler'[v] = handler[v]
    /\ handler'[w].pc = pc /\ handler'[w].chat = chat /\ handler'[w].track = track

Ops == {"play", "stop", "pause", "resume"}
First(op) == CASE op = "play" -> "lookup" [] op = "stop" -> "erase" [] OTHER -> op

\* w begins a call.
Begins(w, op, c, t) ==
    /\ OnlyMoves(w)
    /\ call'[w].op = op /\ call'[w].chat = c /\ call'[w].track = t
    /\ call'[w].pc = First(op) /\ call'[w].s = None /\ call'[w].p = None
    /\ call'[w].next = "none"

\* w is in no call any more.
Returns(w) ==
    /\ OnlyMoves(w)
    /\ call'[w].op = "none" /\ call'[w].pc = "none" /\ call'[w].s = None /\ call'[w].p = None
    /\ call'[w].next = "none"

LEMMA BeginBegins ==
    ASSUME Types, NEW w \in Workers, NEW op \in Ops, NEW c \in Chats, NEW t \in Places,
           Streamer!Begin(w, op, c, t)
    PROVE  Begins(w, op, c, t)
<1> DEFINE o == [Streamer!NoCall EXCEPT !.op = op, !.chat = c, !.track = t, !.pc = First(op)]
<1>1. call' = [call EXCEPT ![w] = o]
    BY DEF Streamer!Begin, First
<1>2. First(op) \in Pcs
    BY DEF First, Ops, Pcs, Outside
<1>3. /\ o \in Calls
      /\ o.op = op /\ o.chat = c /\ o.track = t /\ o.pc = First(op) /\ o.s = None /\ o.p = None
      /\ o.next = "none"
    BY <1>2 DEF Calls, Streamer!NoCall, Places, Nexts, Ops, None, Streamer!None
<1> HIDE DEF o
<1> QED BY <1>1, <1>3 DEF Begins, OnlyMoves, Types, Shapes

LEMMA NoCallReturns ==
    ASSUME Types, NEW w \in Workers, call' = [call EXCEPT ![w] = Streamer!NoCall]
    PROVE  Returns(w)
<1>1. Streamer!NoCall \in Calls
    BY DEF Calls, Streamer!NoCall, Places, Nexts, Streamer!None, Pcs, Outside
<1> QED BY <1>1 DEF Returns, OnlyMoves, Types, Shapes, Streamer!NoCall, None, Streamer!None

LEMMA GotoHandles ==
    ASSUME Types, NEW w \in Workers, NEW pc \in Asking \cup {"pop"}, Goto(w, pc)
    PROVE  Handles(w, pc, handler[w].chat, handler[w].track)
BY DEF Types, Shapes, Goto, Handles, Handlers, Asking

LEMMA ReturnHandles ==
    ASSUME Types, NEW w \in Workers, Return(w)
    PROVE  Handles(w, "idle", 0, 0)
<1>1. Idle \in Handlers /\ Idle.pc = "idle" /\ Idle.chat = 0 /\ Idle.track = 0
    BY DEF Idle, Handlers, Places
<1> QED BY <1>1 DEF Types, Shapes, Return, Handles

LEMMA CallHandles ==
    ASSUME Types, NEW w \in Workers, NEW op, NEW c, NEW t \in Places, NEW pc \in Awaiting,
           CallStreamer(w, op, c, t, pc)
    PROVE  Handles(w, pc, handler[w].chat, t)
<1> DEFINE h == [handler[w] EXCEPT !.pc = pc, !.track = t]
<1>1. handler[w] \in Handlers
    BY DEF Types, Shapes
<1>2. h \in Handlers /\ h.pc = pc /\ h.chat = handler[w].chat /\ h.track = t
    BY <1>1 DEF Handlers, Awaiting
<1>3. handler' = [handler EXCEPT ![w] = h]
    BY DEF CallStreamer, Types, Shapes
<1> HIDE DEF h
<1> QED BY <1>2, <1>3 DEF Handles, Types, Shapes

LEMMA HandlerTyped ==
    ASSUME Types, NEW w \in Workers
    PROVE  /\ ControlOf(handler[w], call[w])
           /\ handler[w].pc # "idle" => handler[w].chat \in Chats
           /\ handler[w].pc \in Asking => handler[w].track \in Tracks
           /\ handler[w].track \in Places
           /\ handler[w].pc \notin Awaiting => call[w].pc = "none"
BY DEF Types, Shapes, Control, ControlOf, Handlers

-----------------------------------------------------------------------------
(* Fresh and the rest of Ownership, in a step of the dispatcher. *)

LEMMA DispatcherKeeps ==
    ASSUME Types, Ownership,
           UNCHANGED <<sessions, session, pipeline>>, crashed' \in {crashed, "terminate"},
           \A v \in Workers :
              \/ call'[v] = call[v]
              \/ /\ call[v].pc \in Outside /\ call'[v].pc \in Outside
                 /\ call'[v].s = None /\ call'[v].p = None,
           \A t \in Tracks : /\ NoSessionYet(t)' => NoSessionYet(t)
                             /\ NoPipelineYet(t)' => NoPipelineYet(t)
    PROVE  Ownership'
<1>1. \A v \in Workers : call'[v].s = call[v].s
    BY TracksArePositive DEF Types, Control, ControlOf
<1>2. Fresh'
    BY <1>1, TracksArePositive DEF Ownership, Fresh
<1>3. Apart'
    BY <1>1 DEF Ownership, Apart
<1>4. Owned'
    BY <1>1 DEF Ownership, Owned, Streamer!Alive
<1>5. ASSUME NEW v \in Workers PROVE KnowsOf(v)'
    <2>1. CASE call'[v] = call[v]
        <3>1. KnowsOf(v)
            BY DEF Ownership, Knows
        <3> QED BY <2>1, <3>1 DEF KnowsOf, Mine
    <2>2. CASE call'[v].pc \in Outside /\ call'[v].s = None
        BY <2>2 DEF KnowsOf, Outside, Applying, OfStop
    <2> QED BY <2>1, <2>2
<1>6. ASSUME NEW v \in Workers PROVE HandedOf(v)'
    <2>1. HandedOf(v)
        BY DEF Ownership, Handed
    <2>2. \A u \in Workers : call'[u].pc \in {"destroy", "install"} => call'[u] = call[u]
        BY DEF Outside
    <2> QED BY <2>1, <2>2 DEF HandedOf, Unowned
<1>7. Readers'
    BY DEF Ownership, Readers, Streamer!ReaderActive
<1>8. NoMisuse'
    BY DEF Ownership, NoMisuse
<1> QED BY <1>2, <1>3, <1>4, <1>5, <1>6, <1>7, <1>8 DEF Ownership, Knows, Handed

LEMMA HandlerControl ==
    ASSUME Types, NEW w \in Workers, NEW pc, NEW c, NEW t, Handles(w, pc, c, t),
           OnlyMoves(w) \/ call' = call, ControlOf(handler'[w], call'[w])
    PROVE  Control' /\ handler' \in [Workers -> Handlers] /\ call' \in [Workers -> Calls]
BY DEF Types, Shapes, Control, Handles, OnlyMoves

-----------------------------------------------------------------------------
(* The steps of the dispatcher. *)

\* What is to be shown of each: the invariant again.
Again == Types' /\ OnceEach' /\ StartedOnce' /\ (~raced' => Ownership')

\* And, of the steps outside AudioStreamer, that they touch no pipeline, and that a call
\* which begins or returns in one is not yet, or not any more, at work on one.
Dispatches ==
    /\ UNCHANGED <<pipeline, raced>>
    /\ \A t \in Tracks : NoPipelineYet(t)' => NoPipelineYet(t)
    /\ \A v \in Workers : call'[v] = call[v] \/ call'[v].pc \in Outside

LEMMA dispatch_messageStep ==
    ASSUME IInv, NEW cmd \in Commands, NEW c \in Chats, dispatch_message(cmd, c)
    PROVE  Again /\ Dispatches
<1> DEFINE t0 == IF cmd = "play" THEN issued["play"] + 1 ELSE 0
           task == Task(cmd, c, t0)
<1>1. Types /\ OnceEach
    BY DEF IInv
<1>2. /\ issued \in [Commands -> Nat] /\ "play" \in Commands
      /\ issued' = [issued EXCEPT ![cmd] = @ + 1] /\ issued[cmd] < Budget[cmd]
      /\ UNCHANGED <<queues, active_chats, paused_calls, sessions, session, pipeline, call,
                     detached, raced, crashed, handler, starts>>
    BY <1>1 DEF dispatch_message, Types, Shapes, streamerVars, Commands
<1>3. /\ issued["play"] \in Nat /\ issued' \in [Commands -> Nat]
      /\ issued'["play"] = IF cmd = "play" THEN issued["play"] + 1 ELSE issued["play"]
    BY <1>2
<1>4. task \in Tasks /\ task.track = t0
    <2>1. cmd = "play" => t0 \in Tracks
        BY <1>2, <1>3, DispatcherAssumption DEF Tracks
    <2> QED BY <2>1 DEF Task, Tasks, Commands
<1>5. pool' = pool \/ pool' = Append(pool, task)
    BY <1>3 DEF dispatch_message
<1>6. last' \in [Chats -> {"none", "play", "skip", "stop"}]
    BY <1>1 DEF dispatch_message, Types, Shapes
<1> HIDE DEF task
<1>7. \A t : InPool(t)' => InPool(t) \/ t = t0
    BY <1>1, <1>4, <1>5, AppendsTask DEF InPool
<1>8. Types'
    <2>1. pool' \in Seq(Tasks)
        <3>1. pool \in Seq(Tasks)
            BY <1>1 DEF Types, Shapes
        <3> QED BY <3>1, <1>4, <1>5
    <2>2. Shapes'
        BY <1>1, <1>2, <1>3, <1>6, <2>1 DEF Types, Shapes
    <2>3. Control'
        BY <1>1, <1>2 DEF Types, Control
    <2> QED BY <2>2, <2>3 DEF Types
<1>9. \A t \in Tracks : /\ t \in Nat
                        /\ \A w \in Workers : InHand(t, w)' <=> InHand(t, w)
                        /\ \A d \in Chats : InQueue(t, d)' <=> InQueue(t, d)
    BY <1>2, TracksArePositive DEF InHand, InQueue
<1>10. t0 \in Tracks => ~InPool(t0)
    BY <1>1, <1>3, TracksArePositive DEF OnceEach, OnePlace
<1>11. OnceEach'
    <2>1. PoolDistinct'
        BY <1>1, <1>4, <1>5, <1>10, AppendDistinct DEF OnceEach, PoolDistinct
    <2>2. QueuesDistinct'
        BY <1>1, <1>2 DEF OnceEach, QueuesDistinct
    <2>3. ASSUME NEW t \in Tracks PROVE OnePlace(t)'
        <3>1. OnePlace(t)
            BY <1>1 DEF OnceEach
        <3>2. t <= issued["play"] => t <= issued'["play"]
            BY <1>3, <1>9
        <3>3. CASE t = t0
            <4>1. t = issued["play"] + 1 /\ issued'["play"] = issued["play"] + 1
                BY <1>3, <3>3, TracksArePositive
            <4> QED BY <1>3, <1>9, <3>1, <4>1 DEF OnePlace
        <3>4. CASE t # t0
            BY <1>7, <1>9, <3>1, <3>2, <3>4 DEF OnePlace
        <3> QED BY <3>3, <3>4
    <2> QED BY <2>1, <2>2, <2>3 DEF OnceEach
<1>12. \A t \in Tracks : /\ NoSessionYet(t)' => NoSessionYet(t)
                         /\ NoPipelineYet(t)' => NoPipelineYet(t)
    <2>1. \A t \in Tracks : Unplayed(t)' => Unplayed(t)
        <3> SUFFICES ASSUME NEW t \in Tracks, Unplayed(t)' PROVE Unplayed(t)
            OBVIOUS
        <3>1. t > issued'["play"] => t > issued["play"]
            BY <1>3, <1>9
        <3>2. t = t0 => t > issued["play"]
            BY <1>3, TracksArePositive
        <3> QED BY <1>7, <1>9, <3>1, <3>2 DEF Unplayed
    <2> QED BY <1>2, <1>9, <2>1 DEF NoSessionYet, NoPipelineYet
<1>13. ASSUME ~raced' PROVE Ownership'
    <2>1. Ownership
        BY <1>2, <1>13 DEF IInv
    <2> QED BY <1>1, <1>2, <1>12, <2>1, DispatcherKeeps
<1>14. StartedOnce'
    <2>1. StartedOnce
        BY DEF IInv
    <2>2. \A t \in Tracks : t <= issued["play"] => t <= issued'["play"] /\ t # t0
        BY <1>3, <1>9, TracksArePositive
    <2>3. UNCHANGED <<handler, call, starts>>
        BY <1>2
    <2> QED BY <1>7, <1>9, <2>1, <2>2, <2>3 DEF StartedOnce
<1> QED BY <1>2, <1>8, <1>11, <1>12, <1>13, <1>14 DEF Again, Dispatches

LEMMA on_track_endedStep ==
    ASSUME IInv, NEW c \in Chats, on_track_ended(c)
    PROVE  Again /\ Dispatches
<1> DEFINE task == Task("next", c, 0)
<1>1. Types /\ OnceEach
    BY DEF IInv
<1>2. /\ crashed' \in {crashed, "terminate"}
      /\ UNCHANGED <<queues, active_chats, paused_calls, sessions, session, pipeline, call, raced,
                     handler, issued, starts, last>>
    BY DEF on_track_ended, historyVars
<1>3. task \in Tasks /\ task.track = 0
    BY DEF Task, Tasks
<1>4. pool' = pool \/ pool' = Append(pool, task)
    BY DEF on_track_ended
<1>5. detached' \in [Chats -> Nat]
    <2>1. detached \in [Chats -> Nat]
        BY <1>1 DEF Types, Shapes
    <2>2. \/ detached' = detached
          \/ detached[c] > 0 /\ detached' = [detached EXCEPT ![c] = @ - 1]
        BY DEF on_track_ended
    <2>3. detached[c] > 0 => detached[c] - 1 \in Nat
        BY <2>1
    <2> QED BY <2>1, <2>2, <2>3
<1> HIDE DEF task
<1>6. \A t \in Tracks : /\ InPool(t)' => InPool(t)
                        /\ \A w \in Workers : InHand(t, w)' <=> InHand(t, w)
                        /\ \A d \in Chats : InQueue(t, d)' <=> InQueue(t, d)
    BY <1>1, <1>2, <1>3, <1>4, AppendsTask, TracksArePositive DEF InPool, InHand, InQueue
<1>7. Types'
    <2>1. pool' \in Seq(Tasks)
        <3>1. pool \in Seq(Tasks)
            BY <1>1 DEF Types, Shapes
        <3> QED BY <3>1, <1>3, <1>4
    <2>2. Shapes'
        BY <1>1, <1>2, <1>5, <2>1 DEF Types, Shapes
    <2>3. Control'
        BY <1>1, <1>2 DEF Types, Control
    <2> QED BY <2>2, <2>3 DEF Types
<1>8. OnceEach'
    <2>1. PoolDistinct'
        BY <1>1, <1>3, <1>4, AppendDistinct, TracksArePositive DEF OnceEach, PoolDistinct
    <2> QED BY <1>1, <1>2, <1>6, <2>1 DEF OnceEach, QueuesDistinct, OnePlace
<1>9. \A t \in Tracks : /\ NoSessionYet(t)' => NoSessionYet(t)
                        /\ NoPipelineYet(t)' => NoPipelineYet(t)
    BY <1>2, <1>6 DEF NoSessionYet, NoPipelineYet, Unplayed
<1>10. ASSUME ~raced' PROVE Ownership'
    <2>1. Ownership
        BY <1>2, <1>10 DEF IInv
    <2> QED BY <1>1, <1>2, <1>9, <2>1, DispatcherKeeps
<1>11. StartedOnce'
    BY <1>2, <1>6 DEF IInv, StartedOnce
<1> QED BY <1>2, <1>7, <1>8, <1>9, <1>10, <1>11 DEF Again, Dispatches

\* What w does with tracks: one that it has stays in its hands, goes to a queue or is
\* dropped; one from the pool or from a queue comes into its hands.
Carries(w) ==
    \A t \in Tracks :
        /\ InPool(t)' => InPool(t) /\ ~InHand(t, w)'
        /\ \A c \in Chats : InQueue(t, c)' =>
              /\ ~InHand(t, w)'
              /\ InQueue(t, c) \/ (InHand(t, w) /\ call[w].pc = "none")
        /\ InHand(t, w)' => \/ InHand(t, w) /\ call[w].pc = "none"
                            \/ InPool(t)
                            \/ \E c \in Chats : InQueue(t, c)

\* The call of w is as before, or begins, or is over.
CallSteps(w) ==
    \/ call' = call
    \/ /\ OnlyMoves(w)
       /\ call[w].pc \in Outside /\ call'[w].pc \in Outside
       /\ call'[w].s = None /\ call'[w].p = None

LEMMA HandlerMoves ==
    ASSUME IInv, NEW w \in Workers, NEW pc, NEW c, NEW track, Handles(w, pc, c, track),
           CallSteps(w), ControlOf(handler'[w], call'[w]), call'[w].op = "play" => pc = "await",
           Carries(w), PoolDistinct', QueuesDistinct',
           pool' \in Seq(Tasks), queues' \in [Chats -> Seq(Tracks)],
           active_chats' \subseteq Chats, paused_calls' \subseteq Chats,
           UNCHANGED <<sessions, session, pipeline, detached, raced, crashed, issued, starts, last>>
    PROVE  Again /\ Dispatches
<1>1. Types /\ OnceEach
    BY DEF IInv
<1>2. Types'
    <2>1. Control' /\ handler' \in [Workers -> Handlers] /\ call' \in [Workers -> Calls]
        BY <1>1, HandlerControl DEF CallSteps
    <2>2. Shapes'
        BY <1>1, <2>1 DEF Types, Shapes
    <2> QED BY <2>1, <2>2 DEF Types
<1>3. \A t \in Tracks, v \in Workers : v # w => (InHand(t, v)' <=> InHand(t, v))
    BY DEF Handles, InHand
<1>4. ASSUME NEW t \in Tracks PROVE OnePlace(t)'
    <2>1. OnePlace(t)
        BY <1>1 DEF OnceEach
    <2>2. \A v \in Workers : InHand(t, v)' /\ InHand(t, w)' => v = w
        BY <1>3, <2>1 DEF Carries, OnePlace
    <2>3. InPool(t)' => /\ t <= issued["play"]
                        /\ \A d \in Chats : ~InQueue(t, d)'
                        /\ \A v \in Workers : ~InHand(t, v)'
        BY <1>3, <2>1 DEF Carries, OnePlace
    <2>4. \A d \in Chats : InQueue(t, d)' => /\ t <= issued["play"]
                                            /\ \A v \in Workers : ~InHand(t, v)'
        BY <1>3, <2>1 DEF Carries, OnePlace
    <2>5. \A v \in Workers : InHand(t, v)' => t <= issued["play"]
        BY <1>3, <2>1 DEF Carries, OnePlace
    <2>6. \A u, v \in Workers : InHand(t, u)' /\ InHand(t, v)' => u = v
        BY <1>3, <2>1, <2>2 DEF OnePlace
    <2> QED BY <2>3, <2>4, <2>5, <2>6 DEF OnePlace
<1>5. OnceEach'
    BY <1>4 DEF OnceEach
<1>6. \A v \in Workers : \/ call'[v] = call[v]
                         \/ /\ call[v].pc \in Outside /\ call'[v].pc \in Outside
                            /\ call'[v].s = None /\ call'[v].p = None
    BY DEF CallSteps, OnlyMoves
<1>7. ASSUME NEW t \in Tracks
      PROVE  /\ NoSessionYet(t)' => NoSessionYet(t)
             /\ NoPipelineYet(t)' => NoPipelineYet(t)
    <2>1. Unplayed(t)' => NoSessionYet(t) /\ NoPipelineYet(t)
        BY DEF Unplayed, Carries, NoSessionYet, NoPipelineYet, BeforeLookup, BeforeCreate
    <2>2. InHand(t, w)' => NoSessionYet(t) /\ NoPipelineYet(t)
        BY DEF Unplayed, Carries, NoSessionYet, NoPipelineYet, BeforeLookup, BeforeCreate
    <2>3. \A v \in Workers :
             InHand(t, v)' => InHand(t, w)' \/ (InHand(t, v) /\ call'[v] = call[v])
        BY <1>3 DEF CallSteps, OnlyMoves
    <2>4. NoSessionYet(t)' => NoSessionYet(t)
        BY <2>1, <2>2, <2>3 DEF NoSessionYet
    <2>5. NoPipelineYet(t)' => NoPipelineYet(t)
        BY <2>1, <2>2, <2>3 DEF NoPipelineYet
    <2> QED BY <2>4, <2>5
<1>8. ASSUME ~raced' PROVE Ownership'
    <2>1. Ownership
        BY <1>8 DEF IInv
    <2> QED BY <1>1, <1>6, <1>7, <2>1, DispatcherKeeps
<1>9. StartedOnce'
    <2>1. \A v \in Workers : v # w => call'[v] = call[v] /\ handler'[v] = handler[v]
        BY DEF CallSteps, OnlyMoves, Handles
    <2>2. \A v \in Workers : call'[v].op = "play" => handler'[v].pc = "await"
        BY <2>1 DEF IInv, StartedOnce, Handles
    <2>3. ASSUME NEW t \in Tracks, starts[t] > 0
          PROVE  /\ t <= issued["play"] /\ ~InPool(t)' /\ \A d \in Chats : ~InQueue(t, d)'
                 /\ ~InHand(t, w)'
                 /\ \A v \in Workers : InHand(t, v) => handler[v].pc = "await" /\ Past(call[v])
        <3>1. /\ t <= issued["play"] /\ ~InPool(t) /\ \A d \in Chats : ~InQueue(t, d)
              /\ \A v \in Workers : InHand(t, v) => handler[v].pc = "await" /\ Past(call[v])
            BY <2>3 DEF IInv, StartedOnce
        <3>2. InHand(t, w) => call[w].pc # "none"
            BY <3>1 DEF Past
        <3> QED BY <3>1, <3>2 DEF Carries
    <2>4. ASSUME NEW t \in Tracks, starts[t] > 0, NEW v \in Workers, InHand(t, v)'
          PROVE  handler'[v].pc = "await" /\ Past(call'[v])
        BY <1>3, <2>1, <2>3, <2>4
    <2> QED BY <2>2, <2>3, <2>4 DEF StartedOnce, Past
<1> QED BY <1>2, <1>5, <1>6, <1>7, <1>8, <1>9 DEF Again, Dispatches

\* The handler goes on, or returns, without a call: its track stays, or is dropped.
LEMMA PlainStep ==
    ASSUME IInv, NEW w \in Workers, NEW pc, NEW c, NEW track, Handles(w, pc, c, track),
           handler[w].pc \notin Awaiting, pc \notin Awaiting,
           \/ pc = "idle" /\ track = 0
           \/ /\ c = handler[w].chat /\ c \in Chats /\ track = handler[w].track
              /\ pc \in Asking => track \in Tracks,
           UNCHANGED <<queues, streamerVars, pool, issued, starts, last>>
    PROVE  Again /\ Dispatches
<1>1. Types /\ OnceEach /\ call' = call
    BY DEF IInv, streamerVars
<1>2. UNCHANGED <<active_chats, paused_calls, sessions, session, pipeline, detached, raced,
                  crashed>>
    BY DEF streamerVars
<1>3. ControlOf(handler[w], call[w]) /\ call[w].pc = "none"
    BY <1>1, HandlerTyped
<1>4. ControlOf(handler'[w], call'[w])
    BY <1>1, <1>3 DEF ControlOf, Handles, OfPlay, OfStop, Either, Applying, Outside, Asking,
        Awaiting
<1>5. Carries(w)
    BY <1>1, <1>3, TracksArePositive DEF Carries, InPool, InQueue, InHand, Handles, OnceEach,
       OnePlace
<1>6. PoolDistinct' /\ QueuesDistinct'
    BY <1>1 DEF OnceEach, PoolDistinct, QueuesDistinct
<1>7. /\ pool' \in Seq(Tasks) /\ queues' \in [Chats -> Seq(Tracks)]
      /\ active_chats' \subseteq Chats /\ paused_calls' \subseteq Chats
    BY <1>1, <1>2 DEF Types, Shapes
<1>8. call'[w].op # "play"
    BY <1>1 DEF IInv, StartedOnce, Awaiting
<1> QED BY <1>1, <1>2, <1>4, <1>5, <1>6, <1>7, <1>8, HandlerMoves DEF CallSteps

LEMMA PlayCheckStep ==
    ASSUME IInv, NEW w \in Workers, PlayCheck(w)
    PROVE  Again /\ Dispatches
<1>1. Types
    BY DEF IInv
<1>2. PICK pc \in {"join", "enqueue"} : Goto(w, pc)
    BY DEF PlayCheck
<1>3. Handles(w, pc, handler[w].chat, handler[w].track)
    BY <1>1, <1>2, GotoHandles DEF Asking
<1>4. handler[w].pc = "play_check" /\ handler[w].chat \in Chats /\ handler[w].track \in Tracks
    BY <1>1, HandlerTyped DEF PlayCheck, At, Asking
<1> QED BY <1>2, <1>3, <1>4, PlainStep DEF PlayCheck, historyVars, Awaiting

LEMMA SkipCheckStep ==
    ASSUME IInv, NEW w \in Workers, SkipCheck(w)
    PROVE  Again /\ Dispatches
<1>1. Types
    BY DEF IInv
<1>2. handler[w].pc = "skip_check" /\ handler[w].chat \in Chats
    BY <1>1, HandlerTyped DEF SkipCheck, At
<1>3. CASE Return(w)
    <2>1. Handles(w, "idle", 0, 0)
        BY <1>1, <1>3, ReturnHandles
    <2> QED BY <1>2, <2>1, PlainStep DEF SkipCheck, Awaiting
<1>4. CASE Goto(w, "pop")
    <2>1. Handles(w, "pop", handler[w].chat, handler[w].track)
        BY <1>1, <1>4, GotoHandles
    <2> QED BY <1>2, <2>1, PlainStep DEF SkipCheck, Awaiting, Asking
<1> QED BY <1>3, <1>4 DEF SkipCheck

\* The steps that begin a call, and the ones that end it.
LEMMA BeginControl ==
    ASSUME NEW w \in Workers, NEW op \in Ops, NEW c \in Chats, NEW t, NEW pc \in Awaiting,
           Begins(w, op, c, t), Handles(w, pc, c, t), op = "play" => t \in Tracks,
           op # "play" => t = 0
    PROVE  /\ ControlOf(handler'[w], call'[w])
           /\ call'[w].pc \in Outside /\ call'[w].s = None /\ call'[w].p = None
<1>1. First(op) \in Outside \ {"none", "done"}
    BY DEF First, Ops, Outside
<1>2. /\ op = "play" <=> First(op) = "lookup"
      /\ op = "stop" <=> First(op) = "erase"
      /\ First(op) \in {"pause", "resume"} => First(op) = op
    BY DEF First, Ops
<1>3. None = 0 /\ call'[w].pc \in Outside
    BY <1>1 DEF None, Streamer!None, Begins
<1>4. /\ First(op) \notin OfPlay \cup OfStop \cup Either \cup Applying \cup {"none"}
      /\ pc \notin Asking /\ pc # "idle"
    BY <1>1 DEF Outside, OfPlay, OfStop, Either, Applying, Awaiting, Asking
<1>5. First(op) \notin {"halt", "join", "destroy", "launch"}
    BY <1>4 DEF Either, OfPlay
<1> QED BY <1>1, <1>2, <1>3, <1>4, <1>5 DEF Begins, Handles, ControlOf

LEMMA ReturnControl ==
    ASSUME NEW w \in Workers, Returns(w), Handles(w, "idle", 0, 0)
    PROVE  /\ ControlOf(handler'[w], call'[w])
           /\ call'[w].pc \in Outside /\ call'[w].s = None /\ call'[w].p = None
BY DEF Returns, Handles, ControlOf, Outside, Awaiting, Asking, OfPlay, OfStop, Either, Applying

\* A handler that is in no call begins one.
LEMMA BeginStep ==
    ASSUME IInv, NEW w \in Workers, handler[w].pc \notin Awaiting,
           NEW op \in Ops, NEW c \in Chats, NEW t \in Places, NEW pc \in Awaiting,
           Streamer!Begin(w, op, c, t), Handles(w, pc, c, t),
           op = "play" => t \in Tracks /\ pc = "await", op # "play" => t = 0,
           Carries(w), PoolDistinct', QueuesDistinct',
           pool' \in Seq(Tasks), queues' \in [Chats -> Seq(Tracks)],
           active_chats' \subseteq Chats, paused_calls' \subseteq Chats,
           UNCHANGED <<sessions, session, pipeline, detached, raced, crashed, issued, starts, last>>
    PROVE  Again /\ Dispatches
<1>1. Types
    BY DEF IInv
<1>2. Begins(w, op, c, t)
    BY <1>1, BeginBegins
<1>3. call[w].pc \in Outside
    BY <1>1, HandlerTyped DEF Outside
<1>4. ControlOf(handler'[w], call'[w]) /\ CallSteps(w)
    BY <1>2, <1>3, BeginControl DEF CallSteps, Begins
<1>5. call'[w].op = "play" => pc = "await"
    BY <1>2 DEF Begins
<1> QED BY <1>4, <1>5, HandlerMoves

\* A handler returns from its call.
LEMMA EndStep ==
    ASSUME IInv, NEW w \in Workers, call[w].pc = "done", Return(w),
           call' = [call EXCEPT ![w] = Streamer!NoCall],
           active_chats' \subseteq Chats, paused_calls' \subseteq Chats,
           UNCHANGED <<queues, sessions, session, pipeline, detached, raced, crashed, pool, issued,
                       starts, last>>
    PROVE  Again /\ Dispatches
<1>1. Types /\ OnceEach
    BY DEF IInv
<1>2. Returns(w) /\ Handles(w, "idle", 0, 0)
    BY <1>1, NoCallReturns, ReturnHandles
<1>3. ControlOf(handler'[w], call'[w]) /\ CallSteps(w)
    BY <1>2, ReturnControl DEF CallSteps, Returns, Outside
<1>4. Carries(w)
    BY <1>2, TracksArePositive DEF Carries, InPool, InQueue, InHand, Handles
<1>5. PoolDistinct' /\ QueuesDistinct'
    BY <1>1 DEF OnceEach, PoolDistinct, QueuesDistinct
<1>6. pool' \in Seq(Tasks) /\ queues' \in [Chats -> Seq(Tracks)]
    BY <1>1 DEF Types, Shapes
<1>7. call'[w].op # "play"
    BY <1>2 DEF Returns
<1> QED BY <1>2, <1>3, <1>4, <1>5, <1>6, <1>7, HandlerMoves

LEMMA AwaitStep ==
    ASSUME IInv, NEW w \in Workers, Await(w)
    PROVE  Again /\ Dispatches
<1>1. Types
    BY DEF IInv
<1>2. active_chats' \subseteq Chats /\ paused_calls' \subseteq Chats
    BY <1>1 DEF Await, Types, Shapes
<1> QED BY <1>2, EndStep DEF Await, historyVars, Streamer!Done

LEMMA LeaveCallStep ==
    ASSUME IInv, NEW w \in Workers, LeaveCall(w)
    PROVE  Again /\ Dispatches
<1>1. Types
    BY DEF IInv
<1>2. active_chats' \subseteq Chats /\ paused_calls' \subseteq Chats
    BY <1>1 DEF LeaveCall, NTg!leave_group_call, Types, Shapes
<1> QED BY <1>2, EndStep DEF LeaveCall, historyVars, Streamer!Done

LEMMA PlayNowStep ==
    ASSUME IInv, NEW w \in Workers, PlayNow(w)
    PROVE  Again /\ Dispatches
<1> DEFINE c == handler[w].chat
           t == handler[w].track
<1>1. Types /\ OnceEach
    BY DEF IInv
<1>2. handler[w].pc = "join" /\ c \in Chats /\ t \in Tracks /\ t \in Places /\ call[w].pc = "none"
    BY <1>1, HandlerTyped DEF PlayNow, At, Asking, Awaiting
<1>3. Streamer!Begin(w, "play", c, t) /\ Handles(w, "await", c, t)
    BY <1>1, <1>2, CallHandles DEF PlayNow, CallStreamer, Awaiting
<1>4. active_chats' \subseteq Chats /\ paused_calls' \subseteq Chats
    BY <1>1, <1>2 DEF PlayNow, NTg!join_group_call, Types, Shapes
<1>5. /\ UNCHANGED <<queues, pool>>
      /\ UNCHANGED <<sessions, session, pipeline, detached, raced, crashed, issued, starts, last>>
    BY DEF PlayNow
<1>6. Carries(w)
    BY <1>1, <1>2, <1>3, <1>5 DEF Carries, InPool, InQueue, InHand, Handles, OnceEach, OnePlace
<1>7. PoolDistinct' /\ QueuesDistinct' /\ pool' \in Seq(Tasks) /\ queues' \in [Chats -> Seq(Tracks)]
    BY <1>1, <1>5 DEF OnceEach, PoolDistinct, QueuesDistinct, Types, Shapes
<1> HIDE DEF c, t
<1> QED BY <1>2, <1>3, <1>4, <1>5, <1>6, <1>7, BeginStep DEF Ops, Awaiting

LEMMA PlayLaterStep ==
    ASSUME IInv, NEW w \in Workers, PlayLater(w)
    PROVE  Again /\ Dispatches
<1> DEFINE c == handler[w].chat
           track == handler[w].track
<1>1. Types /\ OnceEach
    BY DEF IInv
<1>2. /\ handler[w].pc = "enqueue" /\ c \in Chats /\ track \in Tracks /\ call[w].pc = "none"
      /\ ControlOf(handler[w], call[w])
    BY <1>1, HandlerTyped DEF PlayLater, At, Asking, Awaiting
<1>3. /\ DB!enqueue_track(c, track) /\ Handles(w, "idle", 0, 0)
      /\ call' = call
    BY <1>1, ReturnHandles DEF PlayLater, streamerVars
<1>4. UNCHANGED <<active_chats, paused_calls, sessions, session, pipeline, detached, raced, crashed,
                  pool, issued, starts, last>>
    BY DEF PlayLater, streamerVars, historyVars
<1>5. \A d \in Chats : ~InQueue(track, d)
    BY <1>1, <1>2 DEF OnceEach, OnePlace, InHand
<1>6. QueuesDistinct' /\ PoolDistinct'
    <2>1. QueuesDistinct'
        BY <1>1, <1>2, <1>3, <1>5, QueueAppendDistinct DEF OnceEach
    <2> QED BY <1>1, <1>4, <2>1 DEF OnceEach, PoolDistinct
<1>7. queues' \in [Chats -> Seq(Tracks)] /\ pool' \in Seq(Tasks)
    <2>1. queues \in [Chats -> Seq(Tracks)] /\ pool' \in Seq(Tasks)
        BY <1>1, <1>4 DEF Types, Shapes
    <2>2. Append(queues[c], track) \in Seq(Tracks)
        BY <1>2, <2>1
    <2> QED BY <1>3, <2>1, <2>2 DEF DB!enqueue_track
<1>8. Carries(w)
    <2> SUFFICES ASSUME NEW t \in Tracks
                 PROVE  /\ ~InHand(t, w)'
                        /\ InPool(t)' => InPool(t)
                        /\ \A d \in Chats : InQueue(t, d)' => InQueue(t, d) \/ InHand(t, w)
        BY <1>2 DEF Carries
    <2>1. ~InHand(t, w)' /\ (InPool(t)' => InPool(t))
        BY <1>3, <1>4, TracksArePositive DEF InHand, InPool, Handles
    <2>2. ASSUME NEW d \in Chats, InQueue(t, d)' PROVE InQueue(t, d) \/ InHand(t, w)
        <3>1. InQueue(t, d) \/ track = t
            BY <1>1, <1>2, <1>3, <2>2, AppendsTrack
        <3> QED BY <3>1 DEF InHand
    <2> QED BY <2>1, <2>2
<1>9. ControlOf(handler'[w], call'[w])
    BY <1>2, <1>3 DEF ControlOf, Handles, OfPlay, OfStop, Either, Applying, Outside, Asking,
       Awaiting
<1>10. active_chats' \subseteq Chats /\ paused_calls' \subseteq Chats
    BY <1>1, <1>4 DEF Types, Shapes
<1>11. call'[w].op # "play"
    BY <1>2, <1>3 DEF IInv, StartedOnce
<1> HIDE DEF c, track
<1> QED BY <1>3, <1>4, <1>6, <1>7, <1>8, <1>9, <1>10, <1>11, HandlerMoves DEF CallSteps

LEMMA PopNextStep ==
    ASSUME IInv, NEW w \in Workers, PopNext(w)
    PROVE  Again /\ Dispatches
<1>0. PICK c, t0 : c = handler[w].chat /\ t0 = DB!next_track(handler[w].chat)
    OBVIOUS
<1>1. Types /\ OnceEach
    BY DEF IInv
<1>2. handler[w].pc = "pop" /\ c \in Chats /\ call[w].pc = "none"
    BY <1>0, <1>1, HandlerTyped DEF PopNext, At, Awaiting
<1>3. DB!has_next_track(c) /\ DB!pop_next_track(c)
    BY <1>0 DEF PopNext
<1>4. /\ t0 \in Tracks /\ t0 \in Places
      /\ \A t : /\ InQueue(t, c) <=> InQueue(t, c)' \/ t0 = t
                /\ \A d \in Chats : d # c => (InQueue(t, d)' <=> InQueue(t, d))
    BY <1>0, <1>1, <1>2, <1>3, TakesTrack DEF Places
<1>5. Streamer!Begin(w, "play", c, t0) /\ Handles(w, "await", c, t0)
    BY <1>0, <1>1, <1>2, <1>4, CallHandles DEF PopNext, CallStreamer, Awaiting
<1>6. UNCHANGED <<active_chats, paused_calls, sessions, session, pipeline, detached, raced, crashed,
                  pool, issued, starts, last>>
    BY DEF PopNext, historyVars
<1>7. QueuesDistinct' /\ \A t \in Tracks : t0 = t => \A d \in Chats : ~InQueue(t, d)'
    BY <1>0, <1>1, <1>2, <1>3, QueueTakeDistinct DEF OnceEach
<1>8. /\ PoolDistinct' /\ pool' \in Seq(Tasks)
      /\ active_chats' \subseteq Chats /\ paused_calls' \subseteq Chats
    BY <1>1, <1>6 DEF OnceEach, PoolDistinct, Types, Shapes
<1>9. queues' \in [Chats -> Seq(Tracks)]
    <2>1. queues \in [Chats -> Seq(Tracks)]
        BY <1>1 DEF Types, Shapes
    <2>2. Tail(queues[c]) \in Seq(Tracks)
        BY <1>2, <1>3, <2>1 DEF DB!has_next_track
    <2> QED BY <1>3, <2>1, <2>2 DEF DB!pop_next_track
<1>10. Carries(w)
    <2> SUFFICES ASSUME NEW t \in Tracks
                 PROVE  /\ InPool(t)' => InPool(t) /\ ~InHand(t, w)'
                        /\ \A d \in Chats : InQueue(t, d)' => ~InHand(t, w)' /\ InQueue(t, d)
                        /\ InHand(t, w)' => \E d \in Chats : InQueue(t, d)
        BY DEF Carries
    <2>1. InHand(t, w)' <=> t0 = t
        BY <1>5 DEF InHand, Handles
    <2>2. OnePlace(t) /\ (InPool(t)' <=> InPool(t))
        BY <1>1, <1>6 DEF OnceEach, InPool
    <2>3. t0 = t => InQueue(t, c)
        BY <1>4
    <2>4. \A d \in Chats : InQueue(t, d)' => InQueue(t, d)
        BY <1>4
    <2>5. t0 = t => \A d \in Chats : ~InQueue(t, d)'
        BY <1>7
    <2> QED BY <1>2, <2>1, <2>2, <2>3, <2>4, <2>5 DEF OnePlace
<1> QED BY <1>2, <1>4, <1>5, <1>6, <1>7, <1>8, <1>9, <1>10, BeginStep DEF Ops, Awaiting

\* handle_stop and an empty queue: the call is stop.
LEMMA StopBegins ==
    ASSUME IInv, NEW w \in Workers, handler[w].pc \in {"pop", "clear"},
           CallStreamer(w, "stop", handler[w].chat, 0, "await_leave"),
           queues' = queues \/ DB!clear_queue(handler[w].chat),
           UNCHANGED <<active_chats, paused_calls, sessions, session, pipeline, detached, raced,
                       crashed, pool, issued, starts, last>>
    PROVE  Again /\ Dispatches
<1> DEFINE c == handler[w].chat
<1>1. Types /\ OnceEach
    BY DEF IInv
<1>2. c \in Chats /\ 0 \in Places /\ handler[w].pc \notin Awaiting
    BY <1>1, HandlerTyped DEF Places, Awaiting
<1>3. Streamer!Begin(w, "stop", c, 0) /\ Handles(w, "await_leave", c, 0)
    BY <1>1, <1>2, CallHandles DEF CallStreamer, Awaiting
<1>4. /\ PoolDistinct' /\ pool' \in Seq(Tasks)
      /\ active_chats' \subseteq Chats /\ paused_calls' \subseteq Chats
    BY <1>1 DEF OnceEach, PoolDistinct, Types, Shapes
<1>5. queues \in [Chats -> Seq(Tracks)] /\ queues' \in [Chats -> Seq(Tracks)]
    <2>1. queues \in [Chats -> Seq(Tracks)]
        BY <1>1 DEF Types, Shapes
    <2>2. <<>> \in Seq(Tracks)
        OBVIOUS
    <2> QED BY <1>2, <2>1, <2>2 DEF DB!clear_queue
<1>6. \A d \in Chats : queues'[d] = queues[d] \/ queues'[d] = <<>>
    BY <1>2, <1>5 DEF DB!clear_queue
<1>7. \A d \in Chats : \A i \in 1 .. Len(queues'[d]) :
         i \in 1 .. Len(queues[d]) /\ queues'[d][i] = queues[d][i]
    BY <1>6
<1>8. QueuesDistinct'
    BY <1>1, <1>7 DEF OnceEach, QueuesDistinct
<1>9. Carries(w)
    BY <1>3, <1>7, TracksArePositive DEF Carries, InPool, InQueue, InHand, Handles
<1> HIDE DEF c
<1> QED BY <1>2, <1>3, <1>4, <1>5, <1>8, <1>9, BeginStep DEF Ops, Awaiting

LEMMA PopNoneStep ==
    ASSUME IInv, NEW w \in Workers, PopNone(w)
    PROVE  Again /\ Dispatches
BY StopBegins DEF PopNone, At, historyVars

LEMMA ClearQueueStep ==
    ASSUME IInv, NEW w \in Workers, ClearQueue(w)
    PROVE  Again /\ Dispatches
BY StopBegins DEF ClearQueue, At, historyVars

LEMMA execute_commandStep ==
    ASSUME IInv, NEW w \in Workers, execute_command(w)
    PROVE  Again /\ Dispatches
<1> DEFINE FirstPc(cmd) == CASE cmd = "play" -> "play_check"
                             [] cmd = "skip" -> "skip_check"
                             [] cmd = "next" -> "pop"
                             [] cmd = "stop" -> "clear"
                             [] OTHER -> "await"
<1>1. Types /\ OnceEach
    BY DEF IInv
<1>2. PICK task : task = Head(pool)
    OBVIOUS
<1>3. PICK pc : pc = FirstPc(task.cmd)
    OBVIOUS
<1>4. handler[w].pc = "idle" /\ pool # <<>> /\ pool' = Tail(pool)
    BY DEF execute_command, At
<1>5. call[w].pc = "none" /\ handler[w].pc \notin Awaiting
    BY <1>1, <1>4, HandlerTyped DEF Awaiting
<1>6. /\ task \in Tasks
      /\ \A t : InPool(t) <=> InPool(t)' \/ task.track = t
      /\ PoolDistinct' /\ \A t \in Tracks : task.track = t => ~InPool(t)'
    <2>1. task \in Tasks
        BY <1>1, <1>2, <1>4, TakesTask
    <2>2. \A t : InPool(t) <=> InPool(t)' \/ task.track = t
        BY <1>1, <1>2, <1>4, TakesTask
    <2>3. PoolDistinct' /\ \A t \in Tracks : task.track = t => ~InPool(t)'
        BY <1>1, <1>2, <1>4, TakeDistinct DEF OnceEach
    <2> QED BY <2>1, <2>2, <2>3
<1>7. /\ task.chat \in Chats /\ task.track \in Places
      /\ task.cmd \in {"play", "skip", "stop", "pause", "resume", "next"}
      /\ task.cmd = "play" => task.track \in Tracks
      /\ task.cmd # "play" => task.track = 0
    BY <1>6 DEF Tasks, Places
<1>8. /\ pc \in {"play_check", "skip_check", "pop", "clear", "await"}
      /\ pc \in Asking => task.cmd = "play"
      /\ pc \in Awaiting <=> task.cmd \in {"pause", "resume"}
    BY <1>3, <1>7 DEF Asking, Awaiting
<1>9. Handles(w, pc, task.chat, task.track)
    <2> DEFINE h == [pc |-> pc, cmd |-> task.cmd, chat |-> task.chat, track |-> task.track]
    <2>1. handler' = [handler EXCEPT ![w] = h]
        BY <1>2, <1>3 DEF execute_command
    <2>2. h \in Handlers /\ h.pc = pc /\ h.chat = task.chat /\ h.track = task.track
        BY <1>7, <1>8 DEF Handlers, Asking, Awaiting
    <2> HIDE DEF h
    <2> QED BY <1>1, <2>1, <2>2 DEF Handles, Types, Shapes
<1>10. /\ UNCHANGED <<active_chats, paused_calls>>
       /\ UNCHANGED <<queues, sessions, session, pipeline, detached, raced, crashed, issued,
                       starts, last>>
    BY DEF execute_command, historyVars
<1>11. /\ pool' \in Seq(Tasks) /\ queues' \in [Chats -> Seq(Tracks)]
       /\ active_chats' \subseteq Chats /\ paused_calls' \subseteq Chats
    <2>1. pool \in Seq(Tasks)
        BY <1>1 DEF Types, Shapes
    <2>2. pool' \in Seq(Tasks)
        BY <1>4, <2>1
    <2> QED BY <1>1, <1>10, <2>2 DEF Types, Shapes
<1>12. QueuesDistinct'
    BY <1>1, <1>10 DEF OnceEach, QueuesDistinct
<1>13. Carries(w)
    <2> SUFFICES ASSUME NEW t \in Tracks
                 PROVE  /\ InPool(t)' => InPool(t) /\ ~InHand(t, w)'
                        /\ \A d \in Chats : InQueue(t, d)' => ~InHand(t, w)' /\ InQueue(t, d)
                        /\ InHand(t, w)' => InPool(t)
        BY DEF Carries
    <2>1. InHand(t, w)' <=> task.track = t
        BY <1>9 DEF InHand, Handles
    <2>2. OnePlace(t) /\ \A d \in Chats : InQueue(t, d)' <=> InQueue(t, d)
        BY <1>1, <1>10 DEF OnceEach, InQueue
    <2> QED BY <1>6, <2>1, <2>2 DEF OnePlace
<1> HIDE DEF FirstPc
<1>14. CASE task.cmd \in {"pause", "resume"}
    <2>1. Streamer!Begin(w, task.cmd, task.chat, 0)
        BY <1>2, <1>14 DEF execute_command
    <2>2. task.cmd \in Ops /\ task.track = 0 /\ task.cmd # "play"
        BY <1>7, <1>14 DEF Ops
    <2> QED
        BY <1>5, <1>6, <1>7, <1>8, <1>9, <1>10, <1>11, <1>12, <1>13, <1>14, <2>1, <2>2, BeginStep
<1>15. CASE task.cmd \notin {"pause", "resume"}
    <2>1. call' = call
        BY <1>2, <1>15 DEF execute_command
    <2>2. ControlOf(handler[w], call[w])
        BY <1>1, HandlerTyped
    <2>3. ControlOf(handler'[w], call'[w])
        BY <1>5, <1>7, <1>8, <1>9, <1>15, <2>1, <2>2 DEF ControlOf, Handles, OfPlay, OfStop, Either,
           Applying, Outside
    <2>4. call'[w].op # "play"
        BY <1>4, <2>1 DEF IInv, StartedOnce
    <2> QED BY <1>6, <1>9, <1>10, <1>11, <1>12, <1>13, <2>1, <2>3, <2>4, HandlerMoves DEF CallSteps
<1> QED BY <1>14, <1>15

LEMMA NothingMoves ==
    ASSUME OnceEach, Elsewhere
    PROVE  OnceEach'
BY DEF OnceEach, Elsewhere, PoolDistinct, QueuesDistinct, OnePlace, InPool, InQueue, InHand

\* A step of a call: it stays what it is, and what is past stays past.
LEMMA CallAdvances ==
    ASSUME Types, NEW w \in Workers, Streamer!CallStep(w)
    PROVE  /\ \A v \in Workers : v # w => call'[v] = call[v]
           /\ call'[w].op = call[w].op
           /\ Past(call[w]) => Past(call'[w])
<1> USE DEF Crashes, Moves, OnlyMoves, Past
<1>1. CASE Streamer!Lookup(w)
    BY <1>1, LookupFacts DEF LookupDoes
<1>2. CASE Streamer!Inspect(w)
    BY <1>2, InspectFacts DEF InspectDoes, Streamer!AfterReset
<1>3. CASE Streamer!Halt(w)
    BY <1>3, HaltFacts DEF HaltDoes
<1>4. CASE Streamer!Join(w)
    BY <1>4, JoinFacts DEF JoinDoes
<1>5. CASE Streamer!JoinOfDestroyed(w)
    BY <1>5, JoinOfDestroyedFacts DEF JoinOfDestroyedDoes
<1>6. CASE Streamer!JoinThrows(w)
    BY <1>6, JoinThrowsFacts DEF JoinThrowsDoes
<1>7. CASE Streamer!Reset(w)
    BY <1>7, ResetFacts DEF ResetDoes
<1>8. CASE Streamer!Clear(w)
    BY <1>8, ClearFacts DEF ClearDoes, Streamer!AfterReset
<1>9. CASE Streamer!Destroy(w)
    BY <1>9, DestroyFacts DEF DestroyDoes
<1>10. CASE Streamer!DestroyedTwice(w)
    BY <1>10, DestroyedTwiceFacts DEF DestroyedTwiceDoes
<1>11. CASE Streamer!DestroyThrows(w)
    BY <1>11, DestroyThrowsFacts DEF DestroyThrowsDoes
<1>12. CASE Streamer!Assign(w)
    BY <1>12, AssignFacts DEF AssignDoes
<1>13. CASE Streamer!Create(w)
    BY <1>13, CreateFacts DEF CreateDoes
<1>14. CASE Streamer!Install(w)
    BY <1>14, InstallFacts DEF InstallDoes
<1>15. CASE Streamer!Start(w)
    BY <1>15, StartFacts DEF StartDoes
<1>16. CASE Streamer!Launch(w)
    BY <1>16, LaunchFacts DEF LaunchDoes
<1>17. CASE Streamer!Playing(w)
    BY <1>17, PlayingFacts DEF PlayingDoes
<1>18. CASE Streamer!Release(w)
    BY <1>18, ReleaseFacts DEF ReleaseDoes
<1>19. CASE Streamer!Erase(w)
    BY <1>19, EraseFacts DEF EraseDoes
<1>20. CASE Streamer!SetIdle(w)
    BY <1>20, SetIdleFacts DEF SetIdleDoes
<1>21. CASE Streamer!Leave(w)
    BY <1>21, LeaveFacts DEF LeaveDoes
<1>22. ASSUME NEW op \in {"pause", "resume"}, NEW apply \in Applying, Streamer!Check(w, op, apply)
      PROVE  /\ \A v \in Workers : v # w => call'[v] = call[v]
             /\ call'[w].op = call[w].op
             /\ Past(call[w]) => Past(call'[w])
    BY <1>22, CheckFacts DEF CheckDoes
<1>23. ASSUME NEW apply \in Applying, NEW paused \in BOOLEAN, NEW state \in {"Paused", "Playing"},
             Streamer!Apply(w, apply, paused, state)
      PROVE  /\ \A v \in Workers : v # w => call'[v] = call[v]
             /\ call'[w].op = call[w].op
             /\ Past(call[w]) => Past(call'[w])
    BY <1>23, ApplyFacts DEF ApplyDoes
<1>24. CASE Streamer!Pause(w)
    BY <1>22, <1>23, <1>24 DEF Streamer!Pause, Applying
<1>25. CASE Streamer!Resume(w)
    BY <1>22, <1>23, <1>25 DEF Streamer!Resume, Applying
<1> QED
    BY <1>1, <1>2, <1>3, <1>4, <1>5, <1>6, <1>7, <1>8, <1>9, <1>10, <1>11, <1>12, <1>13, <1>14,
       <1>15, <1>16, <1>17, <1>18, <1>19, <1>20, <1>21, <1>24, <1>25 DEF Streamer!CallStep

LEMMA CallStartsOnce ==
    ASSUME IInv, NEW w \in Workers, InStreamer(w)
    PROVE  StartedOnce'
<1>1. Types /\ OnceEach /\ StartedOnce /\ Streamer!CallStep(w)
    BY DEF IInv, InStreamer
<1>2. /\ \A v \in Workers : v # w => call'[v] = call[v]
      /\ call'[w].op = call[w].op
      /\ Past(call[w]) => Past(call'[w])
    BY <1>1, CallAdvances
<1>3. UNCHANGED <<queues, pool, handler, issued>>
    BY DEF InStreamer
<1>4. \A v \in Workers : call'[v].op = "play" => handler'[v].pc = "await"
    BY <1>1, <1>2, <1>3 DEF StartedOnce
<1>5. \A t \in Tracks : /\ InPool(t)' <=> InPool(t)
                        /\ \A c \in Chats : InQueue(t, c)' <=> InQueue(t, c)
                        /\ \A v \in Workers : InHand(t, v)' <=> InHand(t, v)
    BY <1>3 DEF InPool, InQueue, InHand
<1>6. ASSUME NEW t \in Tracks, starts[t] > 0
      PROVE  /\ t <= issued["play"] /\ ~InPool(t) /\ \A c \in Chats : ~InQueue(t, c)
             /\ \A v \in Workers : InHand(t, v) => handler[v].pc = "await" /\ Past(call'[v])
    BY <1>1, <1>2, <1>6 DEF StartedOnce
<1>7. CASE call[w].pc = "launch" /\ call'[w].pc = "playing"
    <2> DEFINE t0 == call[w].track
    <2>1. /\ call[w].op = "play" /\ t0 \in Tracks /\ InHand(t0, w)
        BY <1>1, <1>7 DEF Types, Control, ControlOf, OfPlay, InHand
    <2>2. handler[w].pc = "await" /\ Past(call'[w])
        BY <1>1, <1>7, <2>1 DEF StartedOnce, Past
    <2>3. /\ t0 <= issued["play"] /\ ~InPool(t0) /\ \A c \in Chats : ~InQueue(t0, c)
          /\ \A v \in Workers : InHand(t0, v) => v = w
        BY <1>1, <2>1 DEF OnceEach, OnePlace
    <2>4. \A t \in Tracks : t # t0 => starts'[t] = starts[t]
        BY <1>1, <1>7 DEF InStreamer, Types, Shapes
    <2> HIDE DEF t0
    <2> QED BY <1>3, <1>4, <1>5, <1>6, <2>2, <2>3, <2>4 DEF StartedOnce
<1>8. CASE ~(call[w].pc = "launch" /\ call'[w].pc = "playing")
    <2>1. starts' = starts
        BY <1>8 DEF InStreamer
    <2> QED BY <1>3, <1>4, <1>5, <1>6, <2>1 DEF StartedOnce
<1> QED BY <1>7, <1>8

LEMMA InStreamerStep ==
    ASSUME IInv, NEW w \in Workers, InStreamer(w)
    PROVE  Again
<1>1. Types /\ OnceEach /\ (~raced => Ownership) /\ Streamer!CallStep(w)
    BY DEF IInv, InStreamer
<1>2. starts' \in [Tracks -> Nat]
    <2>1. starts \in [Tracks -> Nat] /\ \A t \in Tracks : starts[t] + 1 \in Nat
        BY <1>1 DEF Types, Shapes
    <2> QED BY <2>1 DEF InStreamer
<1>3. Elsewhere
    BY <1>2 DEF InStreamer, Elsewhere
<1>4. Types' /\ (~raced' => Ownership')
    BY <1>1, <1>3, CallGoesOn
<1>5. OnceEach'
    BY <1>1, <1>3, NothingMoves
<1>6. StartedOnce'
    BY CallStartsOnce
<1> QED BY <1>4, <1>5, <1>6 DEF Again

\* A step of a reader, and the end of a stream.
LEMMA ReaderTakesStep ==
    ASSUME IInv, NEW p \in Tracks, Reader(p) \/ TrackEnds(p)
    PROVE  Again
<1>1. Types /\ OnceEach /\ (~raced => Ownership)
    BY DEF IInv
<1>2. Reads(p)
    BY <1>1, ReaderReads DEF Reader, TrackEnds
<1>3. Elsewhere
    BY <1>1 DEF Reader, TrackEnds, Elsewhere, historyVars, Types, Shapes
<1>4. Types'
    BY <1>1, <1>2, <1>3, ReaderTypes
<1>5. OnceEach'
    BY <1>1, <1>3, NothingMoves
<1>6. ASSUME ~raced' PROVE Ownership'
    <2>1. Ownership
        BY <1>1, <1>2, <1>6 DEF Reads
    <2> QED BY <1>1, <1>2, <1>3, <2>1, ReaderOwnership
<1>7. /\ UNCHANGED <<queues, pool, handler, issued, starts>>
      /\ \A v \in Workers : call'[v] = call[v]
    BY <1>2 DEF Reader, TrackEnds, historyVars, Reads
<1>8. StartedOnce'
    BY <1>7 DEF IInv, StartedOnce, InPool, InQueue, InHand
<1> QED BY <1>4, <1>5, <1>6, <1>8 DEF Again

LEMMA RestStep ==
    ASSUME IInv, UNCHANGED vars
    PROVE  Again /\ Dispatches
<1>1. Types /\ OnceEach /\ (~raced => Ownership)
    BY DEF IInv
<1>2. UNCHANGED <<queues, active_chats, paused_calls, sessions, session, pipeline, call, detached,
                  raced, crashed, pool, handler, issued, starts, last>>
    BY DEF vars, streamerVars, historyVars
<1>3. Elsewhere
    BY <1>1, <1>2 DEF Elsewhere, Types, Shapes
<1>4. Types'
    BY <1>1, <1>2 DEF Types, Shapes, Control
<1>5. OnceEach'
    BY <1>1, <1>3, NothingMoves
<1>6. \A t \in Tracks : /\ NoSessionYet(t)' => NoSessionYet(t)
                        /\ NoPipelineYet(t)' => NoPipelineYet(t)
    BY <1>2 DEF NoSessionYet, NoPipelineYet, Unplayed, InPool, InQueue, InHand
<1>7. ASSUME ~raced' PROVE Ownership'
    <2>1. Ownership
        BY <1>1, <1>2, <1>7
    <2> QED BY <1>1, <1>2, <1>6, <2>1, DispatcherKeeps
<1>8. StartedOnce'
    BY <1>2 DEF IInv, StartedOnce, InPool, InQueue, InHand
<1> QED BY <1>2, <1>4, <1>5, <1>6, <1>7, <1>8 DEF Again, Dispatches

-----------------------------------------------------------------------------
LEMMA Initially == Init => IInv
<1> SUFFICES ASSUME Init PROVE IInv
    OBVIOUS
<1> DEFINE k == Streamer!NoCall
           p0 == Streamer!NoPipeline
<1>1. /\ queues = [c \in Chats |-> <<>>] /\ active_chats = {} /\ paused_calls = {}
      /\ sessions = [c \in Chats |-> None]
      /\ session = [s \in Tracks |-> [state |-> "Idle", pipeline |-> None]]
      /\ pipeline = [p \in Tracks |-> p0]
      /\ call = [w \in Workers |-> k]
      /\ detached = [c \in Chats |-> 0]
      /\ raced = FALSE /\ crashed = "no" /\ pool = <<>>
      /\ handler = [w \in Workers |-> Idle]
      /\ issued = [cmd \in Commands |-> 0]
      /\ starts = [t \in Tracks |-> 0]
      /\ last = [c \in Chats |-> "none"]
    BY DEF Init, DB!Init, Streamer!Init, Streamer!NTg!Init, None
<1>2. /\ k \in Calls /\ k.pc = "none" /\ k.op = "none" /\ k.s = None /\ k.p = None
      /\ k.next = "none"
    BY DEF Streamer!NoCall, Calls, Places, Pcs, Outside, Nexts, None, Streamer!None
<1>3. p0 \in PipelineStates /\ p0.reader = "none"
    BY DEF Streamer!NoPipeline, PipelineStates, ReaderStates, Places, Streamer!None
<1>4. Idle \in Handlers /\ Idle.pc = "idle" /\ Idle.track = 0
    BY DEF Idle, Handlers, Places
<1> HIDE DEF k, p0
<1>5. Shapes
    <2>1. None \in Places
        BY TracksArePositive DEF Places
    <2>2. [state |-> "Idle", pipeline |-> None] \in Sessions
        BY <2>1 DEF Sessions
    <2>3. <<>> \in Seq(Tracks) /\ <<>> \in Seq(Tasks)
        OBVIOUS
    <2>4. queues \in [Chats -> Seq(Tracks)] /\ pool \in Seq(Tasks)
        BY <1>1, <2>3
    <2>5. sessions \in [Chats -> Places] /\ session \in [Tracks -> Sessions]
        BY <1>1, <2>1, <2>2
    <2>6. /\ pipeline \in [Tracks -> PipelineStates] /\ call \in [Workers -> Calls]
          /\ handler \in [Workers -> Handlers]
        BY <1>1, <1>2, <1>3, <1>4
    <2>7. /\ detached \in [Chats -> Nat] /\ issued \in [Commands -> Nat]
          /\ starts \in [Tracks -> Nat] /\ last \in [Chats -> {"none", "play", "skip", "stop"}]
        BY <1>1
    <2> QED BY <1>1, <2>4, <2>5, <2>6, <2>7 DEF Shapes
<1>6. Control
    BY <1>1, <1>2, <1>4 DEF Control, ControlOf, Asking, Awaiting, OfPlay, OfStop, Either, Applying,
        Outside
<1>7. \A t \in Tracks : ~InPool(t)
    BY <1>1 DEF InPool
<1>8. \A t \in Tracks, c \in Chats : ~InQueue(t, c)
    BY <1>1 DEF InQueue
<1>9. \A t \in Tracks, w \in Workers : ~InHand(t, w)
    BY <1>1, <1>4, TracksArePositive DEF InHand
<1>10. OnceEach
    <2>1. PoolDistinct
        BY <1>1 DEF PoolDistinct
    <2>2. QueuesDistinct
        BY <1>1 DEF QueuesDistinct
    <2> QED BY <1>7, <1>8, <1>9, <2>1, <2>2 DEF OnceEach, OnePlace
<1>11. /\ \A c \in Chats : sessions[c] = None
       /\ \A s \in Tracks : session[s].pipeline = None
       /\ \A p \in Tracks : pipeline[p].reader = "none"
       /\ \A w \in Workers : call[w].s = None /\ call[w].p = None /\ call[w].pc = "none"
    BY <1>1, <1>2, <1>3
<1>12. Ownership
    <2>1. Fresh
        BY <1>11, TracksArePositive DEF Fresh
    <2>2. Apart /\ Owned
        BY <1>11 DEF Apart, Owned
    <2>3. Knows
        BY <1>11 DEF Knows, KnowsOf, Applying, OfStop
    <2>4. Handed
        BY <1>11 DEF Handed, HandedOf
    <2>5. Readers
        BY <1>11 DEF Readers, Streamer!ReaderActive
    <2>6. NoMisuse
        BY <1>1 DEF NoMisuse
    <2> QED BY <2>1, <2>2, <2>3, <2>4, <2>5, <2>6 DEF Ownership
<1>13. StartedOnce
    BY <1>1, <1>2 DEF StartedOnce
<1> QED BY <1>5, <1>6, <1>10, <1>12, <1>13 DEF IInv, Types

LEMMA Stays == IInv /\ [Next]_vars => IInv'
<1> SUFFICES ASSUME IInv, [Next]_vars PROVE Again
    BY DEF IInv, Again
<1>1. CASE \E cmd \in Commands, c \in Chats : dispatch_message(cmd, c)
    BY <1>1, dispatch_messageStep
<1>2. CASE \E c \in Chats : on_track_ended(c)
    BY <1>2, on_track_endedStep
<1>3. ASSUME NEW w \in Workers, HandlerStep(w) PROVE Again
    BY <1>3, execute_commandStep, PlayCheckStep, PlayNowStep, PlayLaterStep, SkipCheckStep,
       PopNextStep, PopNoneStep, ClearQueueStep, AwaitStep, LeaveCallStep, InStreamerStep
       DEF HandlerStep
<1>4. CASE \E p \in Tracks : Reader(p) \/ TrackEnds(p)
    BY <1>4, ReaderTakesStep
<1>5. CASE Rest \/ UNCHANGED vars
    BY <1>5, RestStep DEF Rest
<1> QED BY <1>1, <1>2, <1>3, <1>4, <1>5 DEF Next

\* The inductive invariant, in every reachable state.
THEOREM Inductive == Spec => []IInv
BY Initially, Stays, PTL DEF Spec

(***************************************************************************)
(* Whatever the commands, and however their handlers, the readers and the  *)
(* detached threads interleave, every variable keeps its type: in          *)
(* particular a queue holds tracks that were asked for, and a session and  *)
(* a worker point to a session or a pipeline, or to none.                  *)
(***************************************************************************)
THEOREM TypeCorrect == Spec => []TypeOK
<1>1. IInv => TypeOK
    <2> SUFFICES ASSUME Types PROVE TypeOK
        BY DEF IInv
    <2> QED
        BY DEF Types, Shapes, TypeOK, Sessions, PipelineStates, ReaderStates, Places, Streamer!None
<1> QED BY <1>1, Inductive, PTL

(***************************************************************************)
(* A destroyed or null pipeline is used only after two calls have worked   *)
(* on one session at the same time, for any number of workers: readers,    *)
(* their EOF callbacks and calls on different sessions never cause it.     *)
(***************************************************************************)
THEOREM NoMemoryErrorWithoutRace == Spec => []MemoryErrorsNeedARace
<1>1. IInv => MemoryErrorsNeedARace
    BY DEF IInv, Ownership, NoMisuse, MemoryErrorsNeedARace
<1> QED BY <1>1, Inductive, PTL

\* Two calls that share no session join no reader of each other.
LEMMA JoinsAlone ==
    ASSUME Types, Ownership, NEW w \in Workers, call[w].pc \in {"join", "destroy"}
    PROVE  ~Streamer!JoinedElsewhere(w)
<1> SUFFICES ASSUME NEW v \in Workers \ {w}, call[v].pc \in {"join", "destroy"},
                    call[v].p = call[w].p, Streamer!ReaderActive(call[w].p)
             PROVE  FALSE
    BY DEF Streamer!JoinedElsewhere
<1>1. call[v].pc = "join" /\ call[w].pc = "join"
    BY DEF Ownership, Handed, HandedOf, Streamer!ReaderActive
<1>2. /\ call[w].p = Mine(w) /\ Mine(w) # None /\ call[w].s \in Tracks /\ call[w].s # None
      /\ call[v].p = Mine(v) /\ call[v].s \in Tracks
    BY <1>1, EverythingTyped, TracksArePositive DEF Ownership, Knows, KnowsOf, Typed, Outside
<1> QED BY <1>2 DEF Ownership, Apart, Mine

\* So a call ends the process only by a misused pipeline.
LEMMA CallsDoNotTerminate ==
    ASSUME Types, Ownership, NEW w \in Workers, Streamer!CallStep(w)
    PROVE  crashed' = crashed \/ (crashed' = "memory" /\ raced' = raced)
<1> USE DEF Streamer!MemoryError
<1>1. CASE \/ Streamer!Lookup(w) \/ Streamer!Inspect(w) \/ Streamer!Join(w) \/ Streamer!JoinThrows(w)
           \/ Streamer!Reset(w) \/ Streamer!Clear(w)
    BY <1>1, Zenon DEF Streamer!Lookup, Streamer!Inspect, Streamer!Join, Streamer!JoinThrows,
       Streamer!Reset, Streamer!Clear
<1>7. CASE Streamer!Halt(w) \/ Streamer!JoinOfDestroyed(w)
    BY <1>7, Zenon DEF Streamer!Halt, Streamer!JoinOfDestroyed
<1>2. CASE \/ Streamer!Destroy(w) \/ Streamer!DestroyedTwice(w) \/ Streamer!Assign(w)
           \/ Streamer!Create(w) \/ Streamer!Install(w) \/ Streamer!Start(w)
    BY <1>2 DEF Streamer!Destroy, Streamer!DestroyedTwice, Streamer!Assign, Streamer!Create,
       Streamer!Install, Streamer!Start
<1>3. CASE \/ Streamer!Playing(w) \/ Streamer!Release(w) \/ Streamer!Erase(w)
           \/ Streamer!SetIdle(w) \/ Streamer!Leave(w)
    BY <1>3 DEF Streamer!Playing, Streamer!Release, Streamer!Erase, Streamer!SetIdle,
       Streamer!Leave
<1>4. CASE Streamer!Pause(w) \/ Streamer!Resume(w)
    BY <1>4 DEF Streamer!Pause, Streamer!Resume, Streamer!Check, Streamer!Apply
<1>5. CASE Streamer!DestroyThrows(w)
    BY <1>5, JoinsAlone DEF Streamer!DestroyThrows
<1>6. CASE Streamer!Launch(w)
    <2>1. pipeline[call[w].p].reader = "none"
        BY <1>6 DEF Streamer!Launch, Ownership, Knows, KnowsOf
    <2> QED BY <1>6, <2>1 DEF Streamer!Launch
<1> QED BY <1>1, <1>2, <1>3, <1>4, <1>5, <1>6, <1>7 DEF Streamer!CallStep

(***************************************************************************)
(* As long as no two calls have worked on one session at the same time,    *)
(* the only step that ends the process is that of a detached thread whose  *)
(* on_track_ended finds the pool full, for any number of workers: enqueue  *)
(* throws where nobody catches.  No pointer of a session is null or        *)
(* dangling when it is used (NoMisuse), start() finds no thread that is    *)
(* still joinable (Knows), and no thread is joined twice (Apart).          *)
(***************************************************************************)
THEOREM CrashNeedsAFullPool == Spec => OnlyAFullPoolCrashes
<1>1. IInv /\ IInv' /\ [Next]_vars
         => [crashed' # crashed =>
                raced \/ (Saturated /\ \E c \in Chats : on_track_ended(c))]_vars
    <2> SUFFICES ASSUME IInv, IInv', Next, ~raced, crashed' # crashed
                 PROVE  Saturated /\ \E c \in Chats : on_track_ended(c)
        OBVIOUS
    <2>1. Types /\ Ownership
        BY DEF IInv
    <2>2. ASSUME NEW cmd \in Commands, NEW c \in Chats, dispatch_message(cmd, c) PROVE FALSE
        BY <2>2 DEF dispatch_message, streamerVars
    <2>3. ASSUME NEW w \in Workers, HandlerStep(w) PROVE FALSE
        <3>1. CASE InStreamer(w)
            <4>1. crashed' = "memory" /\ raced' = raced
                BY <2>1, <3>1, CallsDoNotTerminate DEF InStreamer
            <4> QED BY <4>1 DEF IInv, Ownership, NoMisuse
        <3>2. CASE ~InStreamer(w)
            BY <2>3, <3>2 DEF HandlerStep, execute_command, PlayCheck, PlayNow, PlayLater,
               SkipCheck, PopNext, PopNone, ClearQueue, Await, LeaveCall, streamerVars
        <3> QED BY <3>1, <3>2
    <2>4. ASSUME NEW p \in Tracks, Reader(p) \/ TrackEnds(p) PROVE FALSE
        BY <2>4 DEF Reader, TrackEnds, Streamer!ReaderStep, Streamer!ReaderSpawns,
           Streamer!ReaderHolds, Streamer!ReaderHalts, Streamer!on_stream_eof, Streamer!StreamEnds
    <2>5. CASE Rest
        BY <2>5 DEF Rest, vars, streamerVars
    <2> QED BY <2>2, <2>3, <2>4, <2>5 DEF Next, on_track_ended
<1> QED BY <1>1, Inductive, PTL DEF Spec, OnlyAFullPoolCrashes

(***************************************************************************)
(* As long as no two calls have worked on one session at the same time,    *)
(* the pipeline and the session that a reader thread points to are there   *)
(* while it runs.                                                          *)
(***************************************************************************)
THEOREM ReadersAreSafe == Spec => []ReadersOwnLiveObjects
<1>1. IInv => ReadersOwnLiveObjects
    <2> SUFFICES ASSUME Types, Ownership, NEW p \in Tracks,
                        pipeline[p].reader \notin {"none", "exited"}
                 PROVE  pipeline[p].object = "live" /\ Streamer!Alive(pipeline[p].volume)
        BY DEF IInv, ReadersOwnLiveObjects
    <2> DEFINE s == pipeline[p].volume
    <2>1. s \in Tracks /\ session[s].pipeline = p
        BY DEF Ownership, Readers, Streamer!ReaderActive, Types, Shapes, PipelineStates,
           ReaderStates
    <2> QED BY <2>1, TracksArePositive DEF Ownership, Owned
<1> QED BY <1>1, Inductive, PTL

-----------------------------------------------------------------------------
(* The refinement of Playlist: where a track is decides its status. *)

IsTaken(t) == \E w \in Workers : InHand(t, w) /\ handler[w].pc = "await"
IsQueued(t) == \E c \in Chats : InQueue(t, c)
IsAsked(t) == InPool(t) \/ \E w \in Workers : InHand(t, w) /\ handler[w].pc \in Asking
IsNew(t) == t > issued["play"]

StatusesAre == \A t \in Tracks :
    /\ starts[t] \in Nat
    /\ starts[t] > 0 => TrackStatus(t) = "started"
    /\ starts[t] = 0 /\ IsTaken(t) => TrackStatus(t) = "taken"
    /\ IsQueued(t) => TrackStatus(t) = "queued"
    /\ IsAsked(t) => TrackStatus(t) = "asked"
    /\ IsNew(t) => TrackStatus(t) = "new"
    /\ starts[t] = 0 /\ ~IsTaken(t) /\ ~IsQueued(t) /\ ~IsAsked(t) /\ ~IsNew(t)
          => TrackStatus(t) = "dropped"

\* A track is at one place at most, so that these cases exclude each other.
OneStatus == \A t \in Tracks :
    /\ IsTaken(t) => ~IsQueued(t) /\ ~IsAsked(t) /\ ~IsNew(t)
    /\ IsQueued(t) => starts[t] = 0 /\ ~IsTaken(t) /\ ~IsAsked(t) /\ ~IsNew(t)
    /\ IsAsked(t) => starts[t] = 0 /\ ~IsTaken(t) /\ ~IsQueued(t) /\ ~IsNew(t)
    /\ IsNew(t) => starts[t] = 0 /\ ~IsTaken(t) /\ ~IsQueued(t) /\ ~IsAsked(t)

LEMMA StatusesExclude == IInv => OneStatus
<1> SUFFICES ASSUME IInv, NEW t \in Tracks
             PROVE  /\ IsTaken(t) => ~IsQueued(t) /\ ~IsAsked(t) /\ ~IsNew(t)
                    /\ IsQueued(t) => starts[t] = 0 /\ ~IsTaken(t) /\ ~IsAsked(t) /\ ~IsNew(t)
                    /\ IsAsked(t) => starts[t] = 0 /\ ~IsTaken(t) /\ ~IsQueued(t) /\ ~IsNew(t)
                    /\ IsNew(t) => starts[t] = 0 /\ ~IsTaken(t) /\ ~IsQueued(t) /\ ~IsAsked(t)
    BY DEF OneStatus
<1>1. OnePlace(t)
    BY DEF IInv, OnceEach
<1>2. t \in Nat /\ issued["play"] \in Nat /\ starts[t] \in Nat
    BY TracksArePositive DEF IInv, Types, Shapes, Commands
<1>3. starts[t] > 0 => /\ t <= issued["play"] /\ ~InPool(t) /\ \A c \in Chats : ~InQueue(t, c)
                       /\ \A w \in Workers : InHand(t, w) => handler[w].pc = "await"
    BY DEF IInv, StartedOnce
<1>4. "await" \notin Asking
    BY DEF Asking
<1>5. IsTaken(t) => ~IsQueued(t) /\ ~IsAsked(t)
    BY <1>1, <1>4 DEF OnePlace, IsTaken, IsQueued, IsAsked
<1>6. IsQueued(t) => ~IsAsked(t)
    BY <1>1 DEF OnePlace, IsQueued, IsAsked
<1>7. IsTaken(t) \/ IsQueued(t) \/ IsAsked(t) => t <= issued["play"]
    BY <1>1 DEF OnePlace, IsTaken, IsQueued, IsAsked
<1>8. starts[t] > 0 => ~IsQueued(t) /\ ~IsAsked(t)
    BY <1>3, <1>4 DEF IsQueued, IsAsked
<1> QED BY <1>2, <1>3, <1>5, <1>6, <1>7, <1>8 DEF IsNew

LEMMA StatusOf == IInv => StatusesAre
<1> SUFFICES ASSUME IInv, NEW t \in Tracks
             PROVE  /\ starts[t] \in Nat
                    /\ starts[t] > 0 => TrackStatus(t) = "started"
                    /\ starts[t] = 0 /\ IsTaken(t) => TrackStatus(t) = "taken"
                    /\ IsQueued(t) => TrackStatus(t) = "queued"
                    /\ IsAsked(t) => TrackStatus(t) = "asked"
                    /\ IsNew(t) => TrackStatus(t) = "new"
                    /\ starts[t] = 0 /\ ~IsTaken(t) /\ ~IsQueued(t) /\ ~IsAsked(t) /\ ~IsNew(t)
                          => TrackStatus(t) = "dropped"
    BY DEF StatusesAre
<1>1. Types
    BY DEF IInv
<1>2. (\E c \in Chats : t \in Range(queues[c])) <=> IsQueued(t)
    <2>1. ASSUME NEW c \in Chats PROVE t \in Range(queues[c]) <=> InQueue(t, c)
        <3>1. queues[c] \in Seq(Tracks)
            BY <1>1 DEF Types, Shapes
        <3>2. DOMAIN queues[c] = 1 .. Len(queues[c])
            BY <3>1
        <3> QED BY <3>2 DEF Range, InQueue
    <2> QED BY <2>1 DEF IsQueued
<1>3. (\E task \in Range(pool) : task.track = t) <=> InPool(t)
    <2>1. pool \in Seq(Tasks)
        BY <1>1 DEF Types, Shapes
    <2>2. DOMAIN pool = 1 .. Len(pool)
        BY <2>1
    <2> QED BY <2>2 DEF Range, InPool
<1>4. (\E w \in Workers : At(w, "await") /\ handler[w].track = t) <=> IsTaken(t)
    BY DEF At, InHand, IsTaken
<1>5. (\/ \E task \in Range(pool) : task.track = t
       \/ \E w \in Workers : /\ handler[w].track = t
                             /\ handler[w].pc \in {"play_check", "join", "enqueue"})
         <=> IsAsked(t)
    BY <1>3 DEF InHand, IsAsked, Asking
<1>6. TrackStatus(t) =
         CASE starts[t] > 0 -> "started"
           [] starts[t] = 0 /\ IsTaken(t) -> "taken"
           [] IsQueued(t) -> "queued"
           [] IsAsked(t) -> "asked"
           [] IsNew(t) -> "new"
           [] OTHER -> "dropped"
    BY <1>2, <1>4, <1>5 DEF TrackStatus, IsNew
<1>7. starts[t] \in Nat
    BY <1>1 DEF Types, Shapes
<1>8. /\ IsTaken(t) => ~IsQueued(t) /\ ~IsAsked(t) /\ ~IsNew(t)
      /\ IsQueued(t) => starts[t] = 0 /\ ~IsTaken(t) /\ ~IsAsked(t) /\ ~IsNew(t)
      /\ IsAsked(t) => starts[t] = 0 /\ ~IsTaken(t) /\ ~IsQueued(t) /\ ~IsNew(t)
      /\ IsNew(t) => starts[t] = 0 /\ ~IsTaken(t) /\ ~IsQueued(t) /\ ~IsAsked(t)
    BY StatusesExclude DEF OneStatus
<1> QED BY <1>6, <1>7, <1>8

\* The track is where it was.
SamePlace(t) ==
    /\ starts'[t] = starts[t]
    /\ IsTaken(t)' <=> IsTaken(t)
    /\ IsQueued(t)' <=> IsQueued(t)
    /\ IsAsked(t)' <=> IsAsked(t)
    /\ IsNew(t)' <=> IsNew(t)

LEMMA SameStatus ==
    ASSUME IInv, IInv', NEW t \in Tracks, SamePlace(t)
    PROVE  TrackStatus(t)' = TrackStatus(t)
<1>1. StatusesAre /\ OneStatus
    BY StatusOf, StatusesExclude
<1>2. StatusesAre'
    BY StatusOf, PTL
<1> QED BY <1>1, <1>2 DEF StatusesAre, SamePlace

LEMMA Becoming ==
    ASSUME IInv, IInv', NEW t \in Tracks, NEW from, NEW to,
           TrackStatus(t) = from, TrackStatus(t)' = to,
           \A u \in Tracks : u # t => SamePlace(u)
    PROVE  Requests!Becomes(t, from, to)
<1>1. \A u \in Tracks : TrackStatus(u)' = IF u = t THEN to ELSE TrackStatus(u)
    BY SameStatus
<1> QED BY <1>1 DEF Requests!Becomes

LEMMA Unnoticed ==
    ASSUME \A t \in Tracks : TrackStatus(t)' = TrackStatus(t), UNCHANGED <<queues, starts>>
    PROVE  UNCHANGED Requests!vars
BY DEF Requests!vars

LEMMA NothingHappens ==
    ASSUME IInv, IInv', \A t \in Tracks : SamePlace(t), UNCHANGED <<queues, starts>>
    PROVE  UNCHANGED Requests!vars
<1>1. \A t \in Tracks : TrackStatus(t)' = TrackStatus(t)
    BY SameStatus
<1> QED BY <1>1, Unnoticed

-----------------------------------------------------------------------------
(* What a step does to the places of the tracks. *)

OthersTake(t, w) == \E v \in Workers : v # w /\ InHand(t, v) /\ handler[v].pc = "await"
OthersAsk(t, w) == \E v \in Workers : v # w /\ InHand(t, v) /\ handler[v].pc \in Asking

LEMMA InHands ==
    ASSUME NEW w \in Workers, NEW pc, NEW c, NEW track, Handles(w, pc, c, track), NEW t
    PROVE  /\ IsTaken(t) <=> OthersTake(t, w) \/ (handler[w].track = t /\ handler[w].pc = "await")
           /\ IsTaken(t)' <=> OthersTake(t, w) \/ (track = t /\ pc = "await")
           /\ IsAsked(t) <=> \/ InPool(t) \/ OthersAsk(t, w)
                             \/ handler[w].track = t /\ handler[w].pc \in Asking
           /\ IsAsked(t)' <=> InPool(t)' \/ OthersAsk(t, w) \/ (track = t /\ pc \in Asking)
BY DEF IsTaken, IsAsked, OthersTake, OthersAsk, InHand, Handles

\* The handlers, the queues and the history stay; a task may come to the pool.
LEMMA TaskArrives ==
    ASSUME Types, NEW task \in Tasks, pool' = pool \/ pool' = Append(pool, task),
           UNCHANGED <<queues, handler, starts>>, NEW t \in Tracks
    PROVE  /\ IsTaken(t)' <=> IsTaken(t)
           /\ IsQueued(t)' <=> IsQueued(t)
           /\ IsAsked(t)' <=> IsAsked(t) \/ (pool' # pool /\ task.track = t)
<1>1. InPool(t)' <=> InPool(t) \/ (pool' # pool /\ task.track = t)
    <2>1. CASE pool' = pool
        BY <2>1 DEF InPool
    <2>2. CASE pool' = Append(pool, task)
        <3>1. pool' # pool
            BY <2>2 DEF Types, Shapes
        <3> QED BY <2>2, <3>1, AppendsTask
    <2> QED BY <2>1, <2>2
<1> QED BY <1>1 DEF IsTaken, IsQueued, IsAsked, InQueue, InHand

Noticed == [Requests!Next]_(Requests!vars)

LEMMA dispatch_messageNoticed ==
    ASSUME IInv, IInv', NEW cmd \in Commands, NEW c \in Chats, dispatch_message(cmd, c)
    PROVE  Noticed
<1>0. PICK t0 : t0 = IF cmd = "play" THEN issued["play"] + 1 ELSE 0
    OBVIOUS
<1> DEFINE task == Task(cmd, c, t0)
<1>1. Types /\ StatusesAre /\ OneStatus
    BY StatusOf, StatusesExclude DEF IInv
<1>2. StatusesAre'
    BY StatusOf, PTL
<1>3. /\ issued \in [Commands -> Nat] /\ "play" \in Commands
      /\ issued' = [issued EXCEPT ![cmd] = @ + 1] /\ issued[cmd] < Budget[cmd]
      /\ UNCHANGED <<queues, handler, starts>>
    BY <1>1 DEF dispatch_message, Types, Shapes, Commands
<1>4. /\ issued["play"] \in Nat
      /\ issued'["play"] = IF cmd = "play" THEN issued["play"] + 1 ELSE issued["play"]
    BY <1>3
<1>5. /\ task \in Tasks /\ task.track = t0
      /\ cmd = "play" => t0 \in Tracks
    <2>1. ASSUME cmd = "play" PROVE t0 \in Tracks
        <3>1. issued["play"] < Budget["play"] /\ Budget["play"] \in Nat
            BY <1>3, <2>1, DispatcherAssumption
        <3> QED BY <1>0, <1>4, <2>1, <3>1 DEF Tracks
    <2> QED BY <1>0, <2>1 DEF Task, Tasks, Commands
<1>6. pool' = pool \/ pool' = Append(pool, task)
    BY <1>0, <1>4 DEF dispatch_message
<1> HIDE DEF task
<1>7. \A t \in Tracks : /\ IsTaken(t)' <=> IsTaken(t)
                        /\ IsQueued(t)' <=> IsQueued(t)
                        /\ IsAsked(t)' <=> IsAsked(t) \/ (pool' # pool /\ t0 = t)
    BY <1>1, <1>3, <1>5, <1>6, TaskArrives
<1>8. \A t \in Tracks : t # t0 => SamePlace(t)
    <2>1. \A t \in Tracks : t # t0 => (IsNew(t)' <=> IsNew(t))
        BY <1>0, <1>4, TracksArePositive DEF IsNew
    <2> QED BY <1>3, <1>7, <2>1 DEF SamePlace
<1>9. CASE cmd # "play"
    <2>1. \A t \in Tracks : t # t0
        BY <1>0, <1>9, TracksArePositive
    <2> QED BY <1>3, <1>8, <2>1, NothingHappens DEF Noticed
<1>10. CASE cmd = "play"
    <2>1. t0 \in Tracks /\ IsNew(t0) /\ ~IsNew(t0)'
        BY <1>0, <1>4, <1>5, <1>10 DEF IsNew
    <2>2. TrackStatus(t0) = "new" /\ starts[t0] = 0 /\ starts'[t0] = 0
        BY <1>1, <1>3, <2>1 DEF StatusesAre, OneStatus
    <2>3. ~IsTaken(t0)' /\ ~IsQueued(t0)' /\ (IsAsked(t0)' <=> pool' # pool)
        BY <1>1, <1>7, <2>1 DEF OneStatus
    <2>4. CASE pool' # pool
        <3>1. TrackStatus(t0)' = "asked"
            BY <1>2, <2>1, <2>3, <2>4 DEF StatusesAre
        <3>2. Requests!Ask(t0)
            BY <1>3, <1>8, <2>1, <2>2, <3>1, Becoming DEF Requests!Ask
        <3> QED BY <2>1, <3>2 DEF Noticed, Requests!Next
    <2>5. CASE pool' = pool
        <3>1. TrackStatus(t0)' = "dropped"
            BY <1>2, <2>1, <2>2, <2>3, <2>5 DEF StatusesAre
        <3>2. Requests!Refuse(t0)
            BY <1>3, <1>8, <2>1, <2>2, <3>1, Becoming DEF Requests!Refuse
        <3> QED BY <2>1, <3>2 DEF Noticed, Requests!Next
    <2> QED BY <2>4, <2>5
<1> QED BY <1>9, <1>10

LEMMA on_track_endedNoticed ==
    ASSUME IInv, IInv', NEW c \in Chats, on_track_ended(c)
    PROVE  Noticed
<1> DEFINE task == Task("next", c, 0)
<1>1. Types /\ task \in Tasks /\ task.track = 0
    BY DEF IInv, Task, Tasks
<1>2. /\ UNCHANGED <<queues, handler, starts, issued>>
      /\ pool' = pool \/ pool' = Append(pool, task)
    BY DEF on_track_ended, historyVars
<1> HIDE DEF task
<1>3. \A t \in Tracks : SamePlace(t)
    BY <1>1, <1>2, TaskArrives, TracksArePositive DEF SamePlace, IsNew
<1> QED BY <1>2, <1>3, NothingHappens DEF Noticed

LEMMA execute_commandNoticed ==
    ASSUME IInv, IInv', NEW w \in Workers, execute_command(w)
    PROVE  Noticed
<1>1. Types /\ handler[w].pc = "idle" /\ pool # <<>> /\ pool' = Tail(pool)
    BY DEF IInv, execute_command, At
<1>2. PICK task : task = Head(pool)
    OBVIOUS
<1>3. PICK pc : pc = CASE task.cmd = "play" -> "play_check"
                       [] task.cmd = "skip" -> "skip_check"
                       [] task.cmd = "next" -> "pop"
                       [] task.cmd = "stop" -> "clear"
                       [] OTHER -> "await"
    OBVIOUS
<1>4. task \in Tasks /\ \A t : InPool(t) <=> InPool(t)' \/ task.track = t
    BY <1>1, <1>2, TakesTask
<1>5. /\ task.chat \in Chats /\ task.track \in Places
      /\ task.cmd \in {"play", "skip", "stop", "pause", "resume", "next"}
      /\ task.track \in Tracks => pc = "play_check"
      /\ pc \in {"play_check", "skip_check", "pop", "clear", "await"}
    BY <1>3, <1>4, TracksArePositive DEF Tasks, Places
<1>6. Handles(w, pc, task.chat, task.track)
    <2> DEFINE h == [pc |-> pc, cmd |-> task.cmd, chat |-> task.chat, track |-> task.track]
    <2>1. handler' = [handler EXCEPT ![w] = h]
        BY <1>2, <1>3 DEF execute_command
    <2>2. h \in Handlers /\ h.pc = pc /\ h.chat = task.chat /\ h.track = task.track
        BY <1>5 DEF Handlers, Asking, Awaiting
    <2> HIDE DEF h
    <2> QED BY <1>1, <2>1, <2>2 DEF Handles, Types, Shapes
<1>7. UNCHANGED <<queues, issued, starts>>
    BY DEF execute_command, historyVars
<1>8. ASSUME NEW t \in Tracks PROVE SamePlace(t)
    <2>1. IsQueued(t)' <=> IsQueued(t)
        BY <1>7 DEF IsQueued, InQueue
    <2>2. IsTaken(t)' <=> IsTaken(t)
        BY <1>1, <1>5, <1>6, InHands
    <2>3. IsAsked(t)' <=> IsAsked(t)
        BY <1>1, <1>4, <1>5, <1>6, InHands DEF Asking
    <2> QED BY <1>7, <2>1, <2>2, <2>3 DEF SamePlace, IsNew
<1> QED BY <1>7, <1>8, NothingHappens DEF Noticed

\* The handler goes on; no track changes its place but, it may be, the one of w.
LEMMA HandlerGoesOn ==
    ASSUME NEW w \in Workers, NEW pc, NEW c, NEW track, Handles(w, pc, c, track),
           UNCHANGED <<pool, issued, starts>>, NEW t \in Tracks, IsQueued(t)' <=> IsQueued(t),
           handler[w].track = t /\ handler[w].pc = "await" <=> track = t /\ pc = "await",
           handler[w].track = t /\ handler[w].pc \in Asking <=> track = t /\ pc \in Asking
    PROVE  SamePlace(t)
<1>1. IsTaken(t)' <=> IsTaken(t)
    BY InHands
<1>2. InPool(t)' <=> InPool(t)
    BY DEF InPool
<1>3. IsAsked(t)' <=> IsAsked(t)
    BY <1>2, InHands
<1> QED BY <1>1, <1>3 DEF SamePlace, IsNew

LEMMA PlayCheckNoticed ==
    ASSUME IInv, IInv', NEW w \in Workers, PlayCheck(w)
    PROVE  Noticed
<1>1. Types /\ handler[w].pc = "play_check" /\ UNCHANGED <<queues, pool, issued, starts>>
    BY DEF IInv, PlayCheck, At, historyVars
<1>2. PICK pc \in {"join", "enqueue"} : Goto(w, pc)
    BY DEF PlayCheck
<1>3. Handles(w, pc, handler[w].chat, handler[w].track)
    BY <1>1, <1>2, GotoHandles DEF Asking
<1>4. \A t \in Tracks : SamePlace(t)
    BY <1>1, <1>2, <1>3, HandlerGoesOn DEF IsQueued, InQueue, Asking
<1> QED BY <1>1, <1>4, NothingHappens DEF Noticed

LEMMA SkipCheckNoticed ==
    ASSUME IInv, IInv', NEW w \in Workers, SkipCheck(w)
    PROVE  Noticed
<1>1. Types /\ handler[w].pc = "skip_check" /\ UNCHANGED <<queues, pool, issued, starts>>
    BY DEF IInv, SkipCheck, At
<1>2. PICK pc \in {"idle", "pop"}, track \in Places : Handles(w, pc, handler'[w].chat, track)
    <2>1. CASE Return(w)
        BY <1>1, <2>1, ReturnHandles DEF Handles, Places
    <2>2. CASE Goto(w, "pop")
        <3>1. handler[w].track \in Places
            BY <1>1, HandlerTyped
        <3> QED BY <1>1, <2>2, <3>1, GotoHandles DEF Handles
    <2> QED BY <2>1, <2>2 DEF SkipCheck
<1>3. \A t \in Tracks : SamePlace(t)
    BY <1>1, <1>2, HandlerGoesOn DEF IsQueued, InQueue, Asking
<1> QED BY <1>1, <1>3, NothingHappens DEF Noticed

LEMMA PlayNowNoticed ==
    ASSUME IInv, IInv', NEW w \in Workers, PlayNow(w)
    PROVE  Noticed
<1>0. PICK t0 : t0 = handler[w].track
    OBVIOUS
<1>1. Types /\ StatusesAre /\ OneStatus /\ UNCHANGED <<queues, pool, issued, starts>>
    BY StatusOf, StatusesExclude DEF IInv, PlayNow
<1>2. StatusesAre'
    BY StatusOf, PTL
<1>3. handler[w].pc = "join" /\ t0 \in Tracks /\ t0 \in Places
    BY <1>0, <1>1, HandlerTyped DEF PlayNow, At, Asking
<1>4. Handles(w, "await", handler[w].chat, t0)
    BY <1>0, <1>1, <1>3, CallHandles DEF PlayNow, Awaiting
<1>5. \A t \in Tracks : t # t0 => SamePlace(t)
    BY <1>0, <1>1, <1>4, HandlerGoesOn DEF IsQueued, InQueue
<1>6. IsAsked(t0) /\ IsTaken(t0)'
    BY <1>0, <1>3, <1>4, InHands DEF Asking
<1>7. TrackStatus(t0) = "asked" /\ TrackStatus(t0)' = "taken"
    BY <1>1, <1>2, <1>3, <1>6 DEF StatusesAre, OneStatus
<1>8. Requests!PlayAtOnce(t0)
    BY <1>1, <1>3, <1>5, <1>7, Becoming DEF Requests!PlayAtOnce
<1> QED BY <1>3, <1>8 DEF Noticed, Requests!Next

LEMMA PlayLaterNoticed ==
    ASSUME IInv, IInv', NEW w \in Workers, PlayLater(w)
    PROVE  Noticed
<1>0. PICK t0, c : t0 = handler[w].track /\ c = handler[w].chat
    OBVIOUS
<1>1. Types /\ StatusesAre /\ OneStatus /\ UNCHANGED <<pool, issued, starts>>
    BY StatusOf, StatusesExclude DEF IInv, PlayLater, historyVars
<1>2. StatusesAre'
    BY StatusOf, PTL
<1>3. handler[w].pc = "enqueue" /\ t0 \in Tracks /\ c \in Chats /\ DB!enqueue_track(c, t0)
    BY <1>0, <1>1, HandlerTyped DEF PlayLater, At, Asking
<1>4. Handles(w, "idle", 0, 0)
    BY <1>1, ReturnHandles DEF PlayLater
<1>5. \A t \in Tracks, d \in Chats : InQueue(t, d)' <=> InQueue(t, d) \/ (d = c /\ t0 = t)
    BY <1>1, <1>3, AppendsTrack
<1>6. \A t \in Tracks : t # t0 => SamePlace(t)
    BY <1>0, <1>1, <1>4, <1>5, HandlerGoesOn, TracksArePositive DEF IsQueued
<1>7. IsAsked(t0) /\ IsQueued(t0)'
    <2>1. IsAsked(t0)
        BY <1>0, <1>3, <1>4, InHands DEF Asking
    <2> QED BY <1>3, <1>5, <2>1 DEF IsQueued
<1>8. TrackStatus(t0) = "asked" /\ TrackStatus(t0)' = "queued"
    BY <1>1, <1>2, <1>3, <1>7 DEF StatusesAre, OneStatus
<1>9. Requests!Queue(t0, c)
    BY <1>1, <1>3, <1>6, <1>8, Becoming DEF Requests!Queue, DB!enqueue_track
<1> QED BY <1>3, <1>9 DEF Noticed, Requests!Next

LEMMA PopNextNoticed ==
    ASSUME IInv, IInv', NEW w \in Workers, PopNext(w)
    PROVE  Noticed
<1>0. PICK c, t0 : c = handler[w].chat /\ t0 = DB!next_track(c)
    OBVIOUS
<1>1. Types /\ StatusesAre /\ OneStatus /\ UNCHANGED <<pool, issued, starts>>
    BY StatusOf, StatusesExclude DEF IInv, PopNext, historyVars
<1>2. StatusesAre'
    BY StatusOf, PTL
<1>3. /\ handler[w].pc = "pop" /\ c \in Chats
      /\ DB!has_next_track(c) /\ DB!pop_next_track(c)
    BY <1>0, <1>1, HandlerTyped DEF PopNext, At
<1>4. /\ t0 \in Tracks /\ t0 \in Places
      /\ \A t : /\ InQueue(t, c) <=> InQueue(t, c)' \/ t0 = t
                /\ \A d \in Chats : d # c => (InQueue(t, d)' <=> InQueue(t, d))
    BY <1>0, <1>1, <1>3, TakesTrack DEF Places
<1>5. Handles(w, "await", c, t0)
    BY <1>0, <1>1, <1>4, CallHandles DEF PopNext, Awaiting
<1>6. ASSUME NEW t \in Tracks, t # t0 PROVE SamePlace(t)
    <2>1. IsQueued(t)' <=> IsQueued(t)
        BY <1>3, <1>4, <1>6 DEF IsQueued
    <2> QED BY <1>1, <1>3, <1>5, <1>6, <2>1, HandlerGoesOn DEF Asking
<1>7. IsQueued(t0) /\ IsTaken(t0)'
    <2>1. IsQueued(t0)
        BY <1>3, <1>4 DEF IsQueued
    <2> QED BY <1>5, <2>1, InHands
<1>8. TrackStatus(t0) = "queued" /\ TrackStatus(t0)' = "taken"
    BY <1>1, <1>2, <1>4, <1>7 DEF StatusesAre, OneStatus
<1>9. Requests!Becomes(t0, "queued", "taken")
    BY <1>4, <1>6, <1>8, Becoming
<1>10. Requests!TakeNext(c)
    BY <1>0, <1>1, <1>3, <1>9
       DEF Requests!TakeNext, DB!has_next_track, DB!pop_next_track, DB!next_track
<1> QED BY <1>3, <1>10 DEF Noticed, Requests!Next

LEMMA PopNoneNoticed ==
    ASSUME IInv, IInv', NEW w \in Workers, PopNone(w)
    PROVE  Noticed
<1>1. Types /\ handler[w].pc = "pop" /\ UNCHANGED <<queues, pool, issued, starts>> /\ 0 \in Places
    BY DEF IInv, PopNone, At, historyVars, Places
<1>2. Handles(w, "await_leave", handler[w].chat, 0)
    BY <1>1, CallHandles DEF PopNone, Awaiting
<1>3. \A t \in Tracks : SamePlace(t)
    BY <1>1, <1>2, HandlerGoesOn DEF IsQueued, InQueue, Asking
<1> QED BY <1>1, <1>3, NothingHappens DEF Noticed

LEMMA ClearQueueNoticed ==
    ASSUME IInv, IInv', NEW w \in Workers, ClearQueue(w)
    PROVE  Noticed
<1>0. PICK c : c = handler[w].chat
    OBVIOUS
<1>1. /\ Types /\ OnceEach /\ StatusesAre /\ OneStatus
      /\ UNCHANGED <<pool, issued, starts>> /\ 0 \in Places
    BY StatusOf, StatusesExclude DEF IInv, ClearQueue, historyVars, Places
<1>2. StatusesAre'
    BY StatusOf, PTL
<1>3. handler[w].pc = "clear" /\ c \in Chats /\ DB!clear_queue(c)
    BY <1>0, <1>1, HandlerTyped DEF ClearQueue, At
<1>4. Handles(w, "await_leave", c, 0)
    BY <1>0, <1>1, CallHandles DEF ClearQueue, Awaiting
<1>5. \A t \in Tracks, d \in Chats : InQueue(t, d)' <=> InQueue(t, d) /\ d # c
    <2>1. /\ queues'[c] = <<>>
          /\ \A d \in Chats : d # c => queues'[d] = queues[d]
        BY <1>1, <1>3 DEF DB!clear_queue, Types, Shapes
    <2> QED BY <2>1 DEF InQueue
<1>6. ASSUME NEW t \in Tracks, ~InQueue(t, c) PROVE TrackStatus(t)' = TrackStatus(t)
    <2>1. IsQueued(t)' <=> IsQueued(t)
        BY <1>5, <1>6 DEF IsQueued
    <2>2. SamePlace(t)
        BY <1>1, <1>3, <1>4, <2>1, HandlerGoesOn DEF Asking
    <2> QED BY <2>2, SameStatus
<1>7. ASSUME NEW t \in Tracks, InQueue(t, c) PROVE TrackStatus(t)' = "dropped"
    <2>1. IsQueued(t) /\ \A d \in Chats : d # c => ~InQueue(t, d)
        BY <1>1, <1>3, <1>7 DEF IsQueued, OnceEach, QueuesDistinct, InQueue
    <2>2. ~IsQueued(t)'
        BY <1>5, <2>1 DEF IsQueued
    <2>3. /\ starts[t] = 0 /\ ~IsTaken(t) /\ ~IsAsked(t) /\ ~IsNew(t)
        BY <1>1, <2>1 DEF OneStatus
    <2>4. ~IsTaken(t)'
        BY <1>4, <2>3, InHands
    <2>5. ~IsAsked(t)'
        BY <1>1, <1>4, <2>3, InHands DEF Asking, InPool
    <2>6. starts'[t] = 0 /\ ~IsNew(t)'
        BY <1>1, <2>3 DEF IsNew
    <2> QED BY <1>2, <2>2, <2>4, <2>5, <2>6 DEF StatusesAre
<1>8. \A t \in Tracks : TrackStatus(t)' = IF \E i \in 1 .. Len(queues[c]) : queues[c][i] = t
                                         THEN "dropped" ELSE TrackStatus(t)
    BY <1>6, <1>7 DEF InQueue
<1>9. Requests!Clear(c)
    BY <1>1, <1>3, <1>8 DEF Requests!Clear, DB!clear_queue
<1> QED BY <1>3, <1>9 DEF Noticed, Requests!Next

\* The end of a call drops the track that was taken for it, unless it was started.
LEMMA AwaitNoticed ==
    ASSUME IInv, IInv', NEW w \in Workers, Await(w)
    PROVE  Noticed
<1>0. PICK t0 : t0 = handler[w].track
    OBVIOUS
<1>1. Types /\ OnceEach /\ StatusesAre /\ OneStatus /\ UNCHANGED <<queues, pool, issued, starts>>
    BY StatusOf, StatusesExclude DEF IInv, Await, historyVars
<1>2. StatusesAre'
    BY StatusOf, PTL
<1>3. handler[w].pc \in Awaiting /\ Handles(w, "idle", 0, 0)
    BY <1>1, ReturnHandles DEF Await, At, Awaiting
<1>4. \A t \in Tracks : (t # t0 \/ handler[w].pc # "await") => SamePlace(t)
    BY <1>0, <1>1, <1>3, HandlerGoesOn, TracksArePositive DEF IsQueued, InQueue, Asking, Awaiting
<1>5. CASE t0 \notin Tracks \/ handler[w].pc # "await"
    BY <1>1, <1>4, <1>5, NothingHappens DEF Noticed
<1>6. CASE t0 \in Tracks /\ handler[w].pc = "await"
    <2>1. IsTaken(t0)
        BY <1>0, <1>3, <1>6, InHands
    <2>2. ~IsQueued(t0)' /\ ~IsAsked(t0)' /\ ~IsNew(t0)'
        <3>1. ~IsQueued(t0) /\ ~IsAsked(t0) /\ ~IsNew(t0)
            BY <1>1, <1>6, <2>1 DEF OneStatus
        <3>2. ~IsAsked(t0)'
            BY <1>1, <1>3, <3>1, InHands DEF Asking, InPool
        <3> QED BY <1>1, <3>1, <3>2 DEF IsQueued, InQueue, IsNew
    <2>3. ~IsTaken(t0)'
        <3>1. \A v \in Workers : v # w => ~InHand(t0, v)
            BY <1>0, <1>1, <1>6 DEF OnceEach, OnePlace, InHand
        <3>2. ~OthersTake(t0, w)
            BY <3>1 DEF OthersTake
        <3> QED BY <1>3, <3>2, InHands
    <2>4. CASE starts[t0] = 0
        <3>1. TrackStatus(t0) = "taken" /\ TrackStatus(t0)' = "dropped"
            BY <1>1, <1>2, <1>6, <2>1, <2>2, <2>3, <2>4 DEF StatusesAre
        <3>2. Requests!GiveUp(t0)
            BY <1>1, <1>4, <1>6, <3>1, Becoming DEF Requests!GiveUp
        <3> QED BY <1>6, <3>2 DEF Noticed, Requests!Next
    <2>5. CASE starts[t0] > 0
        <3>1. TrackStatus(t0)' = TrackStatus(t0)
            BY <1>1, <1>2, <1>6, <2>5 DEF StatusesAre
        <3>2. \A t \in Tracks : TrackStatus(t)' = TrackStatus(t)
            BY <1>4, <3>1, SameStatus
        <3> QED BY <1>1, <3>2, Unnoticed DEF Noticed
    <2> QED BY <1>1, <1>6, <2>4, <2>5 DEF StatusesAre
<1> QED BY <1>5, <1>6

LEMMA LeaveCallNoticed ==
    ASSUME IInv, IInv', NEW w \in Workers, LeaveCall(w)
    PROVE  Noticed
<1>1. Types /\ handler[w].pc = "await_leave" /\ UNCHANGED <<queues, pool, issued, starts>>
    BY DEF IInv, LeaveCall, At, historyVars
<1>2. Handles(w, "idle", 0, 0)
    BY <1>1, ReturnHandles DEF LeaveCall
<1>3. \A t \in Tracks : SamePlace(t)
    BY <1>1, <1>2, HandlerGoesOn, TracksArePositive DEF IsQueued, InQueue, Asking
<1> QED BY <1>1, <1>3, NothingHappens DEF Noticed

\* Elsewhere than in the dispatcher only starts may change.
LEMMA PlacesStay ==
    ASSUME UNCHANGED <<queues, pool, handler, issued>>, NEW t
    PROVE  /\ IsTaken(t)' <=> IsTaken(t)
           /\ IsQueued(t)' <=> IsQueued(t)
           /\ IsAsked(t)' <=> IsAsked(t)
           /\ IsNew(t)' <=> IsNew(t)
BY DEF IsTaken, IsQueued, IsAsked, IsNew, InPool, InQueue, InHand

LEMMA InStreamerNoticed ==
    ASSUME IInv, IInv', NEW w \in Workers, InStreamer(w)
    PROVE  Noticed
<1>0. PICK t0 : t0 = call[w].track
    OBVIOUS
<1>1. /\ Types /\ StartedOnce /\ StatusesAre /\ OneStatus
      /\ UNCHANGED <<queues, pool, handler, issued>>
    BY StatusOf, StatusesExclude DEF IInv, InStreamer
<1>2. StatusesAre'
    BY StatusOf, PTL
<1>3. CASE call[w].pc = "launch" /\ call'[w].pc = "playing"
    <2>1. /\ call[w].op = "play" /\ t0 \in Tracks /\ InHand(t0, w) /\ handler[w].pc = "await"
        BY <1>0, <1>1, <1>3 DEF Types, Control, ControlOf, OfPlay, InHand, StartedOnce
    <2>2. IsTaken(t0) /\ starts[t0] = 0
        BY <1>1, <1>3, <2>1 DEF IsTaken, StartedOnce, Past, StatusesAre
    <2>3. starts' = [starts EXCEPT ![t0] = @ + 1] /\ starts \in [Tracks -> Nat]
        BY <1>0, <1>1, <1>3 DEF InStreamer, Types, Shapes
    <2>4. starts'[t0] = 1 /\ \A t \in Tracks : t # t0 => starts'[t] = starts[t]
        BY <2>1, <2>2, <2>3
    <2>5. \A t \in Tracks : t # t0 => SamePlace(t)
        BY <1>1, <2>4, PlacesStay DEF SamePlace
    <2>6. TrackStatus(t0) = "taken" /\ TrackStatus(t0)' = "started"
        BY <1>1, <1>2, <2>1, <2>2, <2>4 DEF StatusesAre
    <2>7. Requests!Start(t0)
        BY <1>1, <2>1, <2>3, <2>5, <2>6, Becoming DEF Requests!Start
    <2> QED BY <2>1, <2>7 DEF Noticed, Requests!Next
<1>4. CASE ~(call[w].pc = "launch" /\ call'[w].pc = "playing")
    <2>1. starts' = starts
        BY <1>4 DEF InStreamer
    <2>2. \A t \in Tracks : SamePlace(t)
        BY <1>1, <2>1, PlacesStay DEF SamePlace
    <2> QED BY <1>1, <2>1, <2>2, NothingHappens DEF Noticed
<1> QED BY <1>3, <1>4

LEMMA OthersNoticed ==
    ASSUME IInv, IInv', UNCHANGED <<queues, pool, handler, issued, starts>>
    PROVE  Noticed
<1>1. \A t \in Tracks : SamePlace(t)
    BY PlacesStay DEF SamePlace
<1> QED BY <1>1, NothingHappens DEF Noticed

LEMMA NextNoticed == IInv /\ IInv' /\ [Next]_vars => Noticed
<1> SUFFICES ASSUME IInv, IInv', [Next]_vars PROVE Noticed
    OBVIOUS
<1>1. CASE \E cmd \in Commands, c \in Chats : dispatch_message(cmd, c)
    BY <1>1, dispatch_messageNoticed
<1>2. CASE \E c \in Chats : on_track_ended(c)
    BY <1>2, on_track_endedNoticed
<1>3. ASSUME NEW w \in Workers, HandlerStep(w) PROVE Noticed
    BY <1>3, execute_commandNoticed, PlayCheckNoticed, PlayNowNoticed, PlayLaterNoticed,
       SkipCheckNoticed, PopNextNoticed, PopNoneNoticed, ClearQueueNoticed, AwaitNoticed,
       LeaveCallNoticed, InStreamerNoticed DEF HandlerStep
<1>4. CASE \E p \in Tracks : Reader(p) \/ TrackEnds(p)
    BY <1>4, OthersNoticed DEF Reader, TrackEnds, historyVars
<1>5. CASE Rest \/ UNCHANGED vars
    BY <1>5, OthersNoticed DEF Rest, vars, historyVars
<1> QED BY <1>1, <1>2, <1>3, <1>4, <1>5 DEF Next

LEMMA RequestsInitially == Init => Requests!Init
<1> SUFFICES ASSUME Init PROVE Requests!Init
    OBVIOUS
<1>1. StatusesAre
    BY Initially, StatusOf
<1>2. /\ queues = [c \in Chats |-> <<>>] /\ starts = [t \in Tracks |-> 0]
      /\ issued["play"] = 0
    BY DEF Init, DB!Init, Commands
<1>3. \A t \in Tracks : TrackStatus(t) = "new"
    BY <1>1, <1>2, TracksArePositive DEF StatusesAre, IsNew
<1> QED BY <1>2, <1>3 DEF Requests!Init

(***************************************************************************)
(* Whatever overlaps, races included: each track that was asked for is     *)
(* played at once or queued, leaves the queue of its chat in FIFO order,   *)
(* once, and its stream is started at most once, by the handler that took  *)
(* it.  Dispatcher implements Playlist, for any number of workers, chats   *)
(* and commands.                                                           *)
(***************************************************************************)
THEOREM PlaylistRefinement == Spec => ImplementsPlaylist
<1>1. Init => Requests!Init
    BY RequestsInitially
<1>2. IInv /\ IInv' /\ [Next]_vars => [Requests!Next]_(Requests!vars)
    BY NextNoticed DEF Noticed
<1> QED BY <1>1, <1>2, Inductive, PTL DEF Spec, ImplementsPlaylist, Requests!Spec

-----------------------------------------------------------------------------
(* The pipelines, as PcmStream sees them. *)

Contracted == Contract!Next \/ UNCHANGED Contract!vars

\* Only the pipeline p changes.
OnlyChanges(p) == p \in Tracks /\ \A q \in Tracks : q # p => pipeline'[q] = pipeline[q]

AllRunning == [q \in Tracks |-> pipeline[q].running]
AllPaused == [q \in Tracks |-> pipeline[q].paused]
AllReaders == [q \in Tracks |-> pipeline[q].reader]

LEMMA FieldByField ==
    ASSUME NEW p, OnlyChanges(p)
    PROVE  /\ AllRunning' = [AllRunning EXCEPT ![p] = pipeline'[p].running]
           /\ AllPaused' = [AllPaused EXCEPT ![p] = pipeline'[p].paused]
           /\ AllReaders' = [AllReaders EXCEPT ![p] = pipeline'[p].reader]
           /\ pipeline'[p].running = pipeline[p].running => AllRunning' = AllRunning
           /\ pipeline'[p].paused = pipeline[p].paused => AllPaused' = AllPaused
           /\ pipeline'[p].reader = pipeline[p].reader => AllReaders' = AllReaders
BY DEF OnlyChanges, AllRunning, AllPaused, AllReaders

\* The moves of one pipeline that PcmStream allows.
Allowed(p) ==
    LET r == pipeline[p]
        n == pipeline'[p]
    IN  \/ n.reader = r.reader /\ n.paused = r.paused /\ n.running \in {FALSE, r.running}
        \/ n.reader = r.reader /\ n.running = r.running /\ n.paused \in BOOLEAN
        \/ /\ n.running = r.running /\ n.paused = r.paused
           /\ \/ r.reader = "exited" /\ n.reader = "none"
              \/ r.reader = "starting" /\ n.reader = "reading"
              \/ r.reader = "reading" /\ n.reader = "held" /\ r.paused
              \/ r.reader = "held" /\ n.reader = "reading" /\ ~r.paused
              \/ r.reader = "ending" /\ n.reader = "exited"
        \/ /\ n.paused = r.paused /\ ~n.running /\ n.running \in BOOLEAN
           /\ \/ r.reader = "starting" /\ n.reader = "exited"
              \/ r.reader = "reading" /\ n.reader = "ending"
              \/ r.reader = "held" /\ n.reader = "ending" /\ ~r.running
        \/ /\ r.reader = "none" /\ n.reader = "starting"
           /\ n.running = TRUE /\ n.paused = FALSE

LEMMA AllowedMoves ==
    ASSUME NEW p, OnlyChanges(p), Allowed(p)
    PROVE  Contracted
<1> DEFINE r == pipeline[p]
           n == pipeline'[p]
<1> USE DEF Contract!Next, Contract!vars, Contract!Becomes, Contract!Halts
<1>p. p \in Tracks
    BY DEF OnlyChanges
<1>f. /\ AllRunning' = [AllRunning EXCEPT ![p] = n.running]
      /\ AllPaused' = [AllPaused EXCEPT ![p] = n.paused]
      /\ AllReaders' = [AllReaders EXCEPT ![p] = n.reader]
      /\ n.running = r.running => AllRunning' = AllRunning
      /\ n.paused = r.paused => AllPaused' = AllPaused
      /\ n.reader = r.reader => AllReaders' = AllReaders
      /\ AllRunning[p] = r.running /\ AllPaused[p] = r.paused /\ AllReaders[p] = r.reader
    BY <1>p, FieldByField DEF AllRunning, AllPaused, AllReaders
<1> USE DEF AllRunning, AllPaused, AllReaders
<1>1. CASE n.reader = r.reader /\ n.paused = r.paused /\ n.running = r.running
    BY <1>1, <1>f DEF Contracted
<1>2. CASE n.reader = r.reader /\ n.paused = r.paused /\ n.running = FALSE
    <2>1. Contract!Stop(p)
        BY <1>2, <1>f DEF Contract!Stop
    <2> QED BY <1>p, <2>1 DEF Contracted
<1>3. CASE n.reader = r.reader /\ n.running = r.running /\ n.paused \in BOOLEAN
    <2>1. PICK b \in BOOLEAN : b = n.paused
        BY <1>3
    <2>2. Contract!SetPaused(p, b)
        BY <1>3, <1>f, <2>1 DEF Contract!SetPaused
    <2> QED BY <1>p, <2>2 DEF Contracted
<1>4. CASE /\ n.running = r.running /\ n.paused = r.paused
           /\ \/ r.reader = "exited" /\ n.reader = "none"
              \/ r.reader = "starting" /\ n.reader = "reading"
              \/ r.reader = "reading" /\ n.reader = "held" /\ r.paused
              \/ r.reader = "held" /\ n.reader = "reading" /\ ~r.paused
              \/ r.reader = "ending" /\ n.reader = "exited"
    <2>1. \/ Contract!Join(p) \/ Contract!Spawns(p) \/ Contract!Holds(p)
          \/ Contract!ReadsOn(p) \/ Contract!on_eof(p)
        BY <1>4, <1>f DEF Contract!Join, Contract!Spawns, Contract!Holds, Contract!ReadsOn,
           Contract!on_eof
    <2> QED BY <1>p, <2>1 DEF Contracted
<1>5. CASE /\ n.paused = r.paused /\ ~n.running /\ n.running \in BOOLEAN
           /\ \/ r.reader = "starting" /\ n.reader = "exited"
              \/ r.reader = "reading" /\ n.reader = "ending"
              \/ r.reader = "held" /\ n.reader = "ending" /\ ~r.running
    <2>1. Contract!GivesUp(p) \/ Contract!Ends(p)
        BY <1>5, <1>f DEF Contract!GivesUp, Contract!Ends
    <2> QED BY <1>p, <2>1 DEF Contracted
<1>6. CASE /\ r.reader = "none" /\ n.reader = "starting"
           /\ n.running = TRUE /\ n.paused = FALSE
    <2>1. Contract!Launch(p)
        BY <1>6, <1>f DEF Contract!Launch
    <2> QED BY <1>p, <2>1 DEF Contracted
<1> QED BY <1>1, <1>2, <1>3, <1>4, <1>5, <1>6 DEF Allowed

LEMMA PipesStandStill == ASSUME UNCHANGED pipeline PROVE Contracted
BY DEF Contracted, Contract!vars

LEMMA Halting ==
    ASSUME Types, NEW p \in Tracks, pipeline' = [pipeline EXCEPT ![p].running = FALSE]
    PROVE  OnlyChanges(p) /\ Allowed(p) /\ pipeline'[p].running = FALSE
<1>1. pipeline[p] \in PipelineStates /\ pipeline \in [Tracks -> PipelineStates]
    BY DEF Types, Shapes
<1>2. pipeline'[p] = [pipeline[p] EXCEPT !.running = FALSE]
    BY <1>1
<1>3. /\ pipeline'[p].running = FALSE /\ pipeline'[p].paused = pipeline[p].paused
      /\ pipeline'[p].reader = pipeline[p].reader
    BY <1>1, <1>2 DEF PipelineStates
<1> QED BY <1>1, <1>3 DEF OnlyChanges, Allowed

LEMMA Pausing ==
    ASSUME Types, NEW p \in Tracks, NEW b \in BOOLEAN, pipeline' = [pipeline EXCEPT ![p].paused = b]
    PROVE  OnlyChanges(p) /\ Allowed(p)
<1>1. pipeline[p] \in PipelineStates /\ pipeline \in [Tracks -> PipelineStates]
    BY DEF Types, Shapes
<1>2. pipeline'[p] = [pipeline[p] EXCEPT !.paused = b]
    BY <1>1
<1>3. /\ pipeline'[p].paused = b /\ pipeline'[p].running = pipeline[p].running
      /\ pipeline'[p].reader = pipeline[p].reader
    BY <1>1, <1>2 DEF PipelineStates
<1> QED BY <1>1, <1>3 DEF OnlyChanges, Allowed

\* A join of a reader that has returned or was never started.
LEMMA Joining ==
    ASSUME Types, NEW p \in Tracks, ~Streamer!ReaderActive(p),
           \/ pipeline' = [pipeline EXCEPT ![p].reader = Streamer!Joined(@)]
           \/ pipeline' = [pipeline EXCEPT ![p].object = "destroyed",
                                           ![p].reader = Streamer!Joined(@)]
    PROVE  OnlyChanges(p) /\ Allowed(p)
<1>1. pipeline[p] \in PipelineStates /\ pipeline \in [Tracks -> PipelineStates]
    BY DEF Types, Shapes
<1>2. \/ pipeline'[p] = [pipeline[p] EXCEPT !.reader = Streamer!Joined(pipeline[p].reader)]
      \/ pipeline'[p] = [pipeline[p] EXCEPT !.object = "destroyed",
                                            !.reader = Streamer!Joined(pipeline[p].reader)]
    BY <1>1
<1>3. /\ pipeline'[p].paused = pipeline[p].paused /\ pipeline'[p].running = pipeline[p].running
      /\ pipeline'[p].reader = Streamer!Joined(pipeline[p].reader)
    BY <1>1, <1>2 DEF PipelineStates
<1>4. pipeline[p].reader \in {"none", "exited"}
    BY <1>1 DEF PipelineStates, ReaderStates, Streamer!ReaderActive
<1> QED BY <1>1, <1>3, <1>4 DEF OnlyChanges, Allowed, Streamer!Joined

-----------------------------------------------------------------------------
(* A call, as long as nobody shares its session. *)

\* The pipelines that a call works on: its session's, the one it deletes, the one it makes.
AtWorkOn(w, p) == \/ call[w].s # None /\ p = Mine(w)
                  \/ p = call[w].p
                  \/ /\ call[w].pc = "create" /\ p = call[w].track
                     /\ call'[w].pc \notin BeforeCreate

\* A play that has made its pipeline does not go back.
Forward(w) ==
    /\ \A v \in Workers : v # w => call'[v] = call[v]
    /\ call[w].op = "play" /\ call'[w].pc \in BeforeCreate => call[w].pc \in BeforeCreate

\* A call changes a pipeline of its own only, as PcmStream allows.
Pipes(w) ==
    /\ Forward(w)
    /\ ToldToEnd(w)'
    /\ \/ UNCHANGED pipeline
       \/ \E p \in Tracks : OnlyChanges(p) /\ Allowed(p) /\ Private(w, p) /\ AtWorkOn(w, p)

LEMMA QuietSteps ==
    ASSUME Types, NEW w \in Workers, ToldToEnd(w),
           \/ Streamer!Lookup(w) \/ Streamer!Inspect(w) \/ Streamer!JoinThrows(w)
           \/ Streamer!JoinOfDestroyed(w) \/ Streamer!DestroyedTwice(w)
           \/ Streamer!DestroyThrows(w) \/ Streamer!Reset(w) \/ Streamer!Assign(w)
           \/ Streamer!Playing(w) \/ Streamer!Erase(w) \/ Streamer!SetIdle(w)
           \/ Streamer!Leave(w)
           \/ \E op \in {"pause", "resume"}, apply \in Applying : Streamer!Check(w, op, apply)
    PROVE  Pipes(w)
<1> USE DEF Moves, OnlyMoves, ToldToEnd, Crashes, Pipes, Forward, BeforeCreate, BeforeLookup
<1>1. CASE Streamer!Lookup(w)
    BY <1>1, LookupFacts DEF LookupDoes
<1>2. CASE Streamer!Inspect(w)
    BY <1>2, InspectFacts DEF InspectDoes, Streamer!AfterReset
<1>3. CASE Streamer!JoinThrows(w)
    BY <1>3, JoinThrowsFacts DEF JoinThrowsDoes
<1>4. CASE Streamer!JoinOfDestroyed(w)
    BY <1>4, JoinOfDestroyedFacts DEF JoinOfDestroyedDoes
<1>5. CASE Streamer!DestroyedTwice(w)
    BY <1>5, DestroyedTwiceFacts DEF DestroyedTwiceDoes
<1>6. CASE Streamer!DestroyThrows(w)
    BY <1>6, DestroyThrowsFacts DEF DestroyThrowsDoes
<1>7. CASE Streamer!Reset(w)
    BY <1>7, ResetFacts DEF ResetDoes
<1>8. CASE Streamer!Assign(w)
    BY <1>8, AssignFacts DEF AssignDoes
<1>9. CASE Streamer!Playing(w)
    BY <1>9, PlayingFacts DEF PlayingDoes
<1>10. CASE Streamer!Erase(w)
    <2>1. EraseDoes(w) /\ call[w].op = "stop"
        BY <1>10, EraseFacts DEF EraseDoes, Types, Control, ControlOf
    <2> QED BY <2>1 DEF EraseDoes
<1>11. CASE Streamer!SetIdle(w)
    BY <1>11, SetIdleFacts DEF SetIdleDoes
<1>12. CASE Streamer!Leave(w)
    BY <1>12, LeaveFacts DEF LeaveDoes
<1>13. ASSUME NEW op \in {"pause", "resume"}, NEW apply \in Applying, Streamer!Check(w, op, apply)
       PROVE  Pipes(w)
    BY <1>13, CheckFacts DEF CheckDoes, Applying
<1> QED
    BY <1>1, <1>2, <1>3, <1>4, <1>5, <1>6, <1>7, <1>8, <1>9, <1>10, <1>11, <1>12, <1>13

\* The steps that change a pipeline.
LEMMA HaltPipes ==
    ASSUME Types, Ownership, NEW w \in Workers, Streamer!Halt(w)
    PROVE  Pipes(w)
<1>1. /\ call[w].pc = "halt" /\ call[w].s # None /\ call[w].p = Mine(w) /\ Mine(w) \in Tracks
      /\ Streamer!Loaded(w) = {Mine(w)} /\ Mine(w) # Streamer!None /\ Mine(w) # None
    BY EverythingTyped, TracksArePositive
       DEF Streamer!Halt, Ownership, Knows, KnowsOf, Typed, Outside, Streamer!Loaded,
           Streamer!Current, Mine
<1>2. /\ pipeline' = [pipeline EXCEPT ![Mine(w)].running = FALSE]
      /\ call' = [call EXCEPT ![w].pc = "join", ![w].p = Mine(w), ![w].next = "reset"]
    BY <1>1 DEF Streamer!Halt
<1>3. OnlyChanges(Mine(w)) /\ Allowed(Mine(w)) /\ pipeline'[Mine(w)].running = FALSE
    BY <1>1, <1>2, Halting
<1>4. Private(w, Mine(w))
    BY <1>1, MineIsPrivate DEF Ownership
<1>5. call'[w].p = Mine(w) /\ Forward(w)
    BY <1>1, <1>2 DEF Types, Shapes, Calls, Forward, BeforeCreate
<1> QED BY <1>1, <1>3, <1>4, <1>5 DEF Pipes, ToldToEnd, AtWorkOn

LEMMA JoinPipes ==
    ASSUME Types, Ownership, NEW w \in Workers, Streamer!Join(w)
    PROVE  Pipes(w)
<1>1. /\ call[w].pc = "join" /\ call[w].s # None /\ call[w].p = Mine(w) /\ Mine(w) \in Tracks
      /\ call[w].next = "reset" /\ ~Streamer!ReaderActive(Mine(w)) /\ Mine(w) # None
    BY EverythingTyped, TracksArePositive
       DEF Streamer!Join, Ownership, Knows, KnowsOf, Typed, Outside
<1>2. pipeline' = [pipeline EXCEPT ![Mine(w)].reader = Streamer!Joined(@)] /\ call'[w].pc = "reset" /\ Forward(w)
    BY <1>1, JoinFacts DEF Streamer!Join, JoinDoes, Moves, OnlyMoves, Forward, BeforeCreate
<1>3. OnlyChanges(Mine(w)) /\ Allowed(Mine(w))
    BY <1>1, <1>2, Joining
<1>4. Private(w, Mine(w))
    BY <1>1, MineIsPrivate DEF Ownership
<1> QED BY <1>1, <1>2, <1>3, <1>4 DEF Pipes, ToldToEnd, AtWorkOn

LEMMA ClearPipes ==
    ASSUME Types, Ownership, NEW w \in Workers, Streamer!Clear(w)
    PROVE  Pipes(w)
<1>1. /\ call[w].pc = "clear" /\ call[w].s # None /\ call[w].p = Mine(w) /\ Mine(w) \in Tracks
      /\ Mine(w) # Streamer!None /\ Mine(w) # None
    BY EverythingTyped, TracksArePositive
       DEF Streamer!Clear, Ownership, Knows, KnowsOf, Typed, Outside, Places
<1>2. pipeline' = [pipeline EXCEPT ![Mine(w)].running = FALSE] /\ call'[w].pc = "destroy" /\ Forward(w)
    BY <1>1, ClearFacts DEF Streamer!Clear, Streamer!Delete, ClearDoes, Moves, OnlyMoves,
       Forward, BeforeCreate
<1>3. OnlyChanges(Mine(w)) /\ Allowed(Mine(w))
    BY <1>1, <1>2, Halting
<1>4. Private(w, Mine(w))
    BY <1>1, MineIsPrivate DEF Ownership
<1> QED BY <1>1, <1>2, <1>3, <1>4 DEF Pipes, ToldToEnd, AtWorkOn

LEMMA DestroyPipes ==
    ASSUME Types, Ownership, NEW w \in Workers, Streamer!Destroy(w)
    PROVE  Pipes(w)
<1>1. /\ call[w].pc = "destroy" /\ call[w].p \in Tracks
      /\ call[w].next \in {"assign", "idle"} /\ ~Streamer!ReaderActive(call[w].p)
    BY EverythingTyped DEF Streamer!Destroy, Ownership, Handed, HandedOf, Typed
<1>2. /\ pipeline' = [pipeline EXCEPT ![call[w].p].object = "destroyed",
                                      ![call[w].p].reader = Streamer!Joined(@)]
      /\ call'[w].pc # "join" /\ Forward(w)
    BY <1>1, DestroyFacts DEF Streamer!Destroy, DestroyDoes, Moves, OnlyMoves, Forward,
       BeforeCreate
<1>3. OnlyChanges(call[w].p) /\ Allowed(call[w].p)
    BY <1>1, <1>2, Joining
<1>4. Private(w, call[w].p)
    BY <1>1, DeletedIsPrivate DEF Ownership
<1> QED BY <1>1, <1>2, <1>3, <1>4 DEF Pipes, ToldToEnd, AtWorkOn

LEMMA CreatePipes ==
    ASSUME Types, OnceEach, Ownership, Blank, NEW w \in Workers, Streamer!Create(w)
    PROVE  Pipes(w)
<1> DEFINE t == call[w].track
<1>1. call[w].pc = "create" /\ t \in Tracks /\ call[w].op = "play"
    BY EverythingTyped DEF Streamer!Create, Typed, OfPlay, Types, Control, ControlOf
<1>2. NoPipelineYet(t)
    BY <1>1, PlaysItsTrack DEF NoPipelineYet, BeforeCreate
<1>3. pipeline[t] = Streamer!NoPipeline
    BY <1>1, <1>2 DEF Blank
<1>4. /\ pipeline' = [pipeline EXCEPT ![t] = [Streamer!NoPipeline EXCEPT !.object = "live"]]
      /\ call'[w].pc = "install" /\ Forward(w)
    BY CreateFacts DEF Streamer!Create, CreateDoes, Moves, OnlyMoves, Forward, BeforeCreate,
       BeforeLookup
<1>5. OnlyChanges(t) /\ Allowed(t)
    BY <1>1, <1>3, <1>4 DEF OnlyChanges, Allowed, Types, Shapes, Streamer!NoPipeline
<1>6. Private(w, t)
    BY <1>1, TrackIsPrivate DEF Ownership
<1> QED BY <1>1, <1>4, <1>5, <1>6 DEF Pipes, ToldToEnd, AtWorkOn, BeforeCreate, BeforeLookup

LEMMA InstallPipes ==
    ASSUME Types, Ownership, NEW w \in Workers, Streamer!Install(w)
    PROVE  Pipes(w)
<1>1. HandedOf(w) /\ InstallDoes(w)
    BY InstallFacts DEF Ownership, Handed
<1>2. UNCHANGED pipeline /\ call'[w].pc = "start"
    BY <1>1 DEF HandedOf, InstallDoes, Moves
<1>3. Forward(w)
    BY <1>1, <1>2 DEF HandedOf, InstallDoes, Moves, OnlyMoves, Forward, BeforeCreate, BeforeLookup
<1> QED BY <1>2, <1>3 DEF Pipes, ToldToEnd

LEMMA StartPipes ==
    ASSUME Types, Ownership, NEW w \in Workers, Streamer!Start(w)
    PROVE  Pipes(w)
<1>1. KnowsOf(w) /\ StartDoes(w)
    BY StartFacts DEF Ownership, Knows
<1>2. UNCHANGED pipeline /\ call'[w].pc = "launch"
    BY <1>1 DEF KnowsOf, StartDoes, Moves
<1>3. Forward(w)
    BY <1>1, <1>2 DEF KnowsOf, StartDoes, Moves, OnlyMoves, Forward, BeforeCreate, BeforeLookup
<1> QED BY <1>2, <1>3 DEF Pipes, ToldToEnd

LEMMA LaunchPipes ==
    ASSUME Types, Ownership, NEW w \in Workers, Streamer!Launch(w)
    PROVE  Pipes(w)
<1>1. /\ call[w].pc = "launch" /\ call[w].s # None /\ call[w].p = Mine(w) /\ Mine(w) \in Tracks
      /\ Mine(w) # None /\ pipeline[Mine(w)].reader = "none"
    <2>1. call[w].pc = "launch" /\ KnowsOf(w) /\ Typed
        BY EverythingTyped DEF Streamer!Launch, Ownership, Knows
    <2> QED BY <2>1, TracksArePositive DEF KnowsOf, Typed, Outside, Places
<1>2. pipeline[Mine(w)].object = "live"
    BY <1>1, EverythingTyped DEF Ownership, Owned, Mine, Typed
<1>3. /\ pipeline' = [pipeline EXCEPT ![Mine(w)] =
                        [object |-> "live", running |-> TRUE, paused |-> FALSE,
                         reader |-> "starting", track |-> call[w].track,
                         chat |-> call[w].chat, volume |-> call[w].s]]
      /\ call' = [call EXCEPT ![w].pc = "playing"]
    BY <1>1, <1>2 DEF Streamer!Launch, Streamer!Go
<1>4. OnlyChanges(Mine(w)) /\ Allowed(Mine(w))
    BY <1>1, <1>3 DEF OnlyChanges, Allowed, Types, Shapes
<1>5. Private(w, Mine(w))
    BY <1>1, MineIsPrivate DEF Ownership
<1>6. call'[w].pc = "playing" /\ Forward(w)
    BY <1>3 DEF Types, Shapes, Calls, Forward, BeforeCreate, BeforeLookup
<1> QED BY <1>1, <1>4, <1>5, <1>6 DEF Pipes, ToldToEnd, AtWorkOn

LEMMA ReleasePipes ==
    ASSUME Types, Ownership, NEW w \in Workers, Streamer!Release(w)
    PROVE  Pipes(w)
<1>1. KnowsOf(w) /\ ReleaseDoes(w) /\ Typed /\ call[w].op \in {"play", "stop"}
    BY ReleaseFacts, EverythingTyped DEF Ownership, Knows, ReleaseDoes, Types, Control, ControlOf, Either
<1>2. UNCHANGED pipeline /\ call'[w].pc = "done"
    <2>1. call[w].pc = "release" /\ call[w].s # None /\ call[w].chat \in Chats
        BY <1>1, TracksArePositive DEF ReleaseDoes, Typed, Outside
    <2> QED BY <1>1, <2>1 DEF KnowsOf, ReleaseDoes, Moves
<1>3. Forward(w)
    <2>1. \A v \in Workers : v # w => call'[v] = call[v]
        BY <1>1 DEF ReleaseDoes, Moves, OnlyMoves
    <2> QED BY <1>2, <2>1 DEF Forward, BeforeCreate, BeforeLookup
<1> QED BY <1>2, <1>3 DEF Pipes, ToldToEnd

LEMMA ApplyPipes ==
    ASSUME Types, Ownership, NEW w \in Workers, NEW apply \in Applying, NEW paused \in BOOLEAN,
           NEW state \in {"Paused", "Playing"}, Streamer!Apply(w, apply, paused, state)
    PROVE  Pipes(w)
<1>1. /\ call[w].pc = apply /\ call[w].s # None /\ call[w].p = Mine(w) /\ Mine(w) \in Tracks
      /\ Streamer!Loaded(w) = {Mine(w)} /\ Mine(w) # Streamer!None /\ Mine(w) # None
    BY EverythingTyped, TracksArePositive
       DEF Streamer!Apply, Ownership, Knows, KnowsOf, Typed, Outside, Streamer!Loaded,
           Streamer!Current, Mine, Applying
<1>2. pipeline[Mine(w)].object = "live"
    BY <1>1, EverythingTyped DEF Ownership, Owned, Mine, Typed
<1>3. /\ pipeline' = [pipeline EXCEPT ![Mine(w)].paused = paused]
      /\ call' = [call EXCEPT ![w].pc = "done", ![w].s = Streamer!None, ![w].p = Streamer!None]
    BY <1>1, <1>2 DEF Streamer!Apply
<1>4. OnlyChanges(Mine(w)) /\ Allowed(Mine(w))
    BY <1>1, <1>3, Pausing
<1>5. Private(w, Mine(w))
    BY <1>1, MineIsPrivate DEF Ownership
<1>6. call'[w].pc = "done" /\ Forward(w)
    BY <1>3 DEF Types, Shapes, Calls, Forward, BeforeCreate, BeforeLookup
<1> QED BY <1>1, <1>4, <1>5, <1>6 DEF Pipes, ToldToEnd, AtWorkOn

LEMMA CallPipes ==
    ASSUME Types, OnceEach, Ownership, Prepared, NEW w \in Workers, Streamer!CallStep(w)
    PROVE  Pipes(w)
<1>1. ToldToEnd(w) /\ Blank
    BY DEF Prepared
<1>2. ASSUME NEW op \in {"pause", "resume"}, NEW apply \in Applying, Streamer!Check(w, op, apply)
      PROVE  Pipes(w)
    BY <1>1, <1>2, QuietSteps
<1>3. Streamer!Pause(w) \/ Streamer!Resume(w) => Pipes(w)
    BY <1>2, ApplyPipes DEF Streamer!Pause, Streamer!Resume, Applying
<1>4. CASE \/ Streamer!Lookup(w) \/ Streamer!Inspect(w) \/ Streamer!JoinThrows(w)
           \/ Streamer!JoinOfDestroyed(w) \/ Streamer!DestroyedTwice(w)
           \/ Streamer!DestroyThrows(w) \/ Streamer!Reset(w) \/ Streamer!Assign(w)
           \/ Streamer!Playing(w) \/ Streamer!Erase(w) \/ Streamer!SetIdle(w)
           \/ Streamer!Leave(w)
    BY <1>1, <1>4, QuietSteps
<1>5. CASE \/ Streamer!Halt(w) \/ Streamer!Join(w) \/ Streamer!Clear(w) \/ Streamer!Destroy(w)
           \/ Streamer!Create(w) \/ Streamer!Install(w) \/ Streamer!Start(w)
           \/ Streamer!Launch(w) \/ Streamer!Release(w)
    BY <1>1, <1>5, HaltPipes, JoinPipes, ClearPipes, DestroyPipes, CreatePipes, InstallPipes,
       StartPipes, LaunchPipes, ReleasePipes
<1> QED BY <1>3, <1>4, <1>5 DEF Streamer!CallStep

LEMMA CallPrepared ==
    ASSUME Types, OnceEach, Ownership, Prepared, Elsewhere, NEW w \in Workers, Pipes(w)
    PROVE  Prepared'
<1>1. Forward(w) /\ ToldToEnd(w)' /\ Typed
    BY EverythingTyped DEF Pipes
<1>2. ASSUME NEW t \in Tracks, NoPipelineYet(t)' PROVE NoPipelineYet(t)
    <2>1. Unplayed(t)' <=> Unplayed(t)
        BY DEF Elsewhere, Unplayed, InPool, InQueue
    <2>2. CASE Unplayed(t)'
        BY <2>1, <2>2 DEF NoPipelineYet
    <2>3. CASE \E v \in Workers : InHand(t, v)' /\ call'[v].pc \in BeforeCreate
        <3>1. PICK v \in Workers : InHand(t, v)' /\ call'[v].pc \in BeforeCreate
            BY <2>3
        <3>2. InHand(t, v)
            BY <3>1 DEF InHand, Elsewhere
        <3>3. call[v].pc \in BeforeCreate
            <4>1. CASE v # w
                BY <1>1, <3>1, <4>1 DEF Forward
            <4>2. CASE v = w
                BY <1>1, <3>1, <3>2, <4>2, TracksArePositive
                   DEF Forward, InHand, Types, Control, ControlOf, BeforeCreate, BeforeLookup
            <4> QED BY <4>1, <4>2
        <3> QED BY <3>2, <3>3 DEF NoPipelineYet
    <2> QED BY <1>2, <2>2, <2>3 DEF NoPipelineYet
<1>3. CASE UNCHANGED pipeline
    <2>1. Blank'
        BY <1>2, <1>3 DEF Blank, Prepared
    <2>2. \A v \in Workers : ToldToEnd(v)'
        BY <1>1, <1>3 DEF Forward, ToldToEnd, Prepared
    <2> QED BY <2>1, <2>2 DEF Prepared
<1>4. ASSUME NEW p \in Tracks, OnlyChanges(p), Private(w, p), AtWorkOn(w, p)
      PROVE  Prepared'
    <2>1. ASSUME NEW t \in Tracks, NoPipelineYet(t)' PROVE pipeline'[t] = Streamer!NoPipeline
        <3>1. NoPipelineYet(t) /\ pipeline[t] = Streamer!NoPipeline
            BY <1>2, <2>1 DEF Blank, Prepared
        <3>2. t # p
            <4>1. CASE call[w].s # None /\ p = Mine(w)
                BY <1>1, <3>1, <4>1 DEF Typed, Ownership, Fresh, Mine
            <4>2. CASE p = call[w].p
                BY <3>1, <4>2 DEF Ownership, Fresh
            <4>3. CASE /\ call[w].pc = "create" /\ p = call[w].track
                       /\ call'[w].pc \notin BeforeCreate
                <5>1. call[w].op = "play"
                    BY <4>3 DEF Types, Control, ControlOf, OfPlay
                <5>2. ~Unplayed(p) /\ \A v \in Workers : InHand(p, v) => v = w
                    BY <4>3, <5>1, PlaysItsTrack
                <5>3. ~Unplayed(p)' /\ \A v \in Workers : InHand(p, v)' => v = w
                    BY <5>2 DEF Elsewhere, Unplayed, InPool, InQueue, InHand
                <5>4. ~NoPipelineYet(p)'
                    BY <4>3, <5>3 DEF NoPipelineYet
                <5> QED BY <2>1, <5>4
            <4> QED BY <1>4, <4>1, <4>2, <4>3 DEF AtWorkOn
        <3> QED BY <1>4, <3>1, <3>2 DEF OnlyChanges
    <2>2. ASSUME NEW v \in Workers, v # w PROVE ToldToEnd(v)'
        <3>1. call'[v] = call[v] /\ ToldToEnd(v)
            BY <1>1, <2>2 DEF Forward, Prepared
        <3>2. CASE call[v].pc = "join"
            <4>1. call[v].p = Mine(v) /\ call[v].s \in Tracks /\ call[v].p \in Tracks
                BY <1>1, <3>2 DEF Ownership, Knows, KnowsOf, Typed, Outside
            <4>2. call[v].s # call[w].s
                BY <2>2, <4>1, TracksArePositive DEF Ownership, Apart
            <4>3. call[v].p # p
                BY <1>4, <4>1, <4>2, TracksArePositive DEF Private, Mine
            <4> QED BY <1>4, <3>1, <4>1, <4>3 DEF OnlyChanges, ToldToEnd
        <3> QED BY <3>1, <3>2 DEF ToldToEnd
    <2> QED BY <1>1, <2>1, <2>2 DEF Prepared, Blank
<1> QED BY <1>3, <1>4 DEF Pipes

LEMMA ReaderAllowed ==
    ASSUME Types, NEW p \in Tracks, Streamer!ReaderStep(p) \/ Streamer!StreamEnds(p)
    PROVE  /\ OnlyChanges(p) /\ Allowed(p)
           /\ ~pipeline[p].running => ~pipeline'[p].running
<1>1. pipeline[p] \in PipelineStates /\ pipeline \in [Tracks -> PipelineStates]
    BY DEF Types, Shapes
<1> DEFINE r == pipeline[p]
<1>2. CASE Streamer!ReaderSpawns(p)
    <2>1. /\ r.reader = "starting"
          /\ \/ pipeline' = [pipeline EXCEPT ![p] = [r EXCEPT !.reader = "reading"]]
             \/ pipeline' = [pipeline EXCEPT ![p] = [r EXCEPT !.reader = "exited", !.running = FALSE]]
        BY <1>2 DEF Streamer!ReaderSpawns
    <2>2. CASE pipeline' = [pipeline EXCEPT ![p] = [r EXCEPT !.reader = "reading"]]
        BY <1>1, <2>1, <2>2 DEF OnlyChanges, Allowed, PipelineStates
    <2>3. CASE pipeline' = [pipeline EXCEPT ![p] = [r EXCEPT !.reader = "exited", !.running = FALSE]]
        <3>1. pipeline'[p] = [r EXCEPT !.reader = "exited", !.running = FALSE]
            BY <1>1, <2>3
        <3>2. /\ pipeline'[p].reader = "exited" /\ pipeline'[p].running = FALSE
              /\ pipeline'[p].paused = r.paused
            BY <1>1, <3>1 DEF PipelineStates
        <3> QED BY <1>1, <2>1, <2>3, <3>2 DEF OnlyChanges, Allowed
    <2> QED BY <2>1, <2>2, <2>3
<1>3. CASE Streamer!ReaderHolds(p)
    <2>1. /\ r.reader \in {"reading", "held"} /\ (r.reader = "reading" <=> r.paused)
          /\ pipeline' = [pipeline EXCEPT ![p] =
                [r EXCEPT !.reader = IF r.reader = "reading" THEN "held" ELSE "reading"]]
        BY <1>1, <1>3 DEF Streamer!ReaderHolds, PipelineStates
    <2> QED BY <1>1, <2>1 DEF OnlyChanges, Allowed, PipelineStates
<1>4. CASE Streamer!ReaderHalts(p)
    <2>1. /\ r.reader \in {"reading", "held"} /\ ~r.running
          /\ pipeline' = [pipeline EXCEPT ![p] = [r EXCEPT !.reader = "ending"]]
        BY <1>4 DEF Streamer!ReaderHalts
    <2> QED BY <1>1, <2>1 DEF OnlyChanges, Allowed, PipelineStates
<1>5. CASE Streamer!on_stream_eof(p)
    <2>1. /\ r.reader = "ending"
          /\ pipeline' = [pipeline EXCEPT ![p] = [r EXCEPT !.reader = "exited"]]
        BY <1>5 DEF Streamer!on_stream_eof
    <2> QED BY <1>1, <2>1 DEF OnlyChanges, Allowed, PipelineStates
<1>6. CASE Streamer!StreamEnds(p)
    <2>1. /\ r.reader = "reading"
          /\ pipeline' = [pipeline EXCEPT ![p] = [r EXCEPT !.reader = "ending", !.running = FALSE]]
        BY <1>6 DEF Streamer!StreamEnds
    <2> QED BY <1>1, <2>1 DEF OnlyChanges, Allowed, PipelineStates
<1> QED BY <1>2, <1>3, <1>4, <1>5, <1>6 DEF Streamer!ReaderStep

LEMMA ReaderPrepared ==
    ASSUME Types, Prepared, Elsewhere, NEW p \in Tracks, call' = call,
           Streamer!ReaderStep(p) \/ Streamer!StreamEnds(p)
    PROVE  Prepared'
<1>1. /\ OnlyChanges(p) /\ (~pipeline[p].running => ~pipeline'[p].running)
      /\ pipeline[p].reader # "none"
    BY ReaderAllowed, ReaderReads DEF Reads, Streamer!ReaderActive
<1>2. ASSUME NEW t \in Tracks, NoPipelineYet(t)' PROVE pipeline'[t] = Streamer!NoPipeline
    <2>1. NoPipelineYet(t)
        BY <1>2 DEF Elsewhere, NoPipelineYet, Unplayed, InPool, InQueue, InHand
    <2>2. pipeline[t] = Streamer!NoPipeline /\ Streamer!NoPipeline.reader = "none"
        BY <2>1 DEF Prepared, Blank, Streamer!NoPipeline
    <2>3. t # p
        BY <1>1, <2>2
    <2> QED BY <1>1, <2>2, <2>3 DEF OnlyChanges
<1>3. ASSUME NEW v \in Workers PROVE ToldToEnd(v)'
    <2>1. ToldToEnd(v) /\ call'[v] = call[v]
        BY DEF Prepared
    <2>2. call[v].pc = "join" => call[v].p \in Tracks
        BY EverythingTyped DEF Typed
    <2> QED BY <1>1, <2>1, <2>2 DEF ToldToEnd, OnlyChanges
<1> QED BY <1>2, <1>3 DEF Prepared, Blank

\* The dispatcher changes no pipeline, and begins no call in a join.
LEMMA DispatcherPrepared ==
    ASSUME Prepared, Dispatches
    PROVE  Prepared'
BY DEF Prepared, Blank, ToldToEnd, Dispatches, Outside

LEMMA RacesStay ==
    ASSUME NEW w \in Workers, Streamer!CallStep(w), raced
    PROVE  raced'
<1> USE DEF Streamer!MemoryError, Streamer!NoteRace
<1>1. CASE \/ Streamer!Lookup(w) \/ Streamer!Inspect(w) \/ Streamer!Halt(w) \/ Streamer!Join(w)
           \/ Streamer!JoinOfDestroyed(w) \/ Streamer!JoinThrows(w) \/ Streamer!Reset(w)
           \/ Streamer!Clear(w)
    BY <1>1 DEF Streamer!Lookup, Streamer!Inspect, Streamer!Halt, Streamer!Join,
       Streamer!JoinOfDestroyed, Streamer!JoinThrows, Streamer!Reset, Streamer!Clear
<1>2. CASE \/ Streamer!Destroy(w) \/ Streamer!DestroyedTwice(w) \/ Streamer!DestroyThrows(w)
           \/ Streamer!Assign(w) \/ Streamer!Create(w) \/ Streamer!Install(w) \/ Streamer!Start(w)
    BY <1>2 DEF Streamer!Destroy, Streamer!DestroyedTwice, Streamer!DestroyThrows, Streamer!Assign,
       Streamer!Create, Streamer!Install, Streamer!Start
<1>3. CASE \/ Streamer!Launch(w) \/ Streamer!Playing(w) \/ Streamer!Release(w)
           \/ Streamer!Erase(w) \/ Streamer!SetIdle(w) \/ Streamer!Leave(w)
    BY <1>3 DEF Streamer!Launch, Streamer!Playing, Streamer!Release, Streamer!Erase,
       Streamer!SetIdle, Streamer!Leave
<1>4. CASE Streamer!Pause(w) \/ Streamer!Resume(w)
    BY <1>4 DEF Streamer!Pause, Streamer!Resume, Streamer!Check, Streamer!Apply
<1> QED BY <1>1, <1>2, <1>3, <1>4 DEF Streamer!CallStep

-----------------------------------------------------------------------------
\* What is to be shown of each step.
Serves == ~raced' => Prepared' /\ Contracted

LEMMA InitPInv == Init => PInv
<1> SUFFICES ASSUME Init PROVE Prepared
    BY DEF PInv
<1>1. /\ pipeline = [p \in Tracks |-> Streamer!NoPipeline]
      /\ \A w \in Workers : call[w].pc = "none"
    BY DEF Init, Streamer!Init, Streamer!NoCall
<1> QED BY <1>1 DEF Prepared, Blank, ToldToEnd

LEMMA DispatcherServes ==
    ASSUME PInv, Dispatches
    PROVE  Serves
BY DispatcherPrepared, PipesStandStill DEF PInv, Dispatches, Serves

LEMMA CallServes ==
    ASSUME IInv, PInv, NEW w \in Workers, InStreamer(w)
    PROVE  Serves
<1> SUFFICES ASSUME ~raced' PROVE Prepared' /\ Contracted
    BY DEF Serves
<1>1. Streamer!CallStep(w) /\ ~raced
    BY RacesStay DEF InStreamer
<1>2. Types /\ OnceEach /\ Ownership /\ Prepared
    BY <1>1 DEF IInv, PInv
<1>3. Elsewhere
    <2>1. starts \in [Tracks -> Nat] /\ \A t \in Tracks : starts[t] + 1 \in Nat
        BY <1>2 DEF Types, Shapes
    <2>2. starts' \in [Tracks -> Nat]
        BY <2>1 DEF InStreamer
    <2> QED BY <2>2 DEF InStreamer, Elsewhere
<1>4. Pipes(w)
    BY <1>1, <1>2, CallPipes
<1>5. Prepared'
    BY <1>2, <1>3, <1>4, CallPrepared
<1>6. Contracted
    BY <1>4, AllowedMoves, PipesStandStill DEF Pipes
<1> QED BY <1>5, <1>6

LEMMA ReaderServes ==
    ASSUME IInv, PInv, NEW p \in Tracks, Reader(p) \/ TrackEnds(p)
    PROVE  Serves
<1> SUFFICES ASSUME ~raced' PROVE Prepared' /\ Contracted
    BY DEF Serves
<1>1. Types /\ (Streamer!ReaderStep(p) \/ Streamer!StreamEnds(p))
    BY DEF IInv, Reader, TrackEnds
<1>2. call' = call /\ ~raced
    BY <1>1, ReaderReads DEF Reads
<1>3. Elsewhere
    BY <1>1 DEF Reader, TrackEnds, Elsewhere, historyVars, Types, Shapes
<1>4. Prepared'
    BY <1>1, <1>2, <1>3, ReaderPrepared DEF PInv
<1>5. Contracted
    BY <1>1, ReaderAllowed, AllowedMoves
<1> QED BY <1>4, <1>5

LEMMA NextServes ==
    ASSUME IInv, PInv, [Next]_vars
    PROVE  Serves
<1>1. CASE \E cmd \in Commands, c \in Chats : dispatch_message(cmd, c)
    BY <1>1, dispatch_messageStep, DispatcherServes
<1>2. CASE \E c \in Chats : on_track_ended(c)
    BY <1>2, on_track_endedStep, DispatcherServes
<1>3. ASSUME NEW w \in Workers, HandlerStep(w) PROVE Serves
    <2>1. InStreamer(w) => Serves
        BY CallServes
    <2>2. Dispatches => Serves
        BY DispatcherServes
    <2> QED
        BY <1>3, <2>1, <2>2, execute_commandStep, PlayCheckStep, PlayNowStep, PlayLaterStep,
           SkipCheckStep, PopNextStep, PopNoneStep, ClearQueueStep, AwaitStep, LeaveCallStep
           DEF HandlerStep
<1>4. CASE \E p \in Tracks : Reader(p) \/ TrackEnds(p)
    BY <1>4, ReaderServes
<1>5. CASE Rest \/ UNCHANGED vars
    BY <1>5, RestStep, DispatcherServes DEF Rest
<1> QED BY <1>1, <1>2, <1>3, <1>4, <1>5 DEF Next

LEMMA PipelinesPrepared == Spec => [](IInv /\ PInv)
<1>1. IInv /\ PInv /\ [Next]_vars => PInv'
    BY NextServes DEF Serves, PInv
<1> QED BY <1>1, InitPInv, Inductive, PTL DEF Spec

(***************************************************************************)
(* For any number of workers, chats and tracks: as long as no two calls    *)
(* have shared a session, AudioStreamer and the readers do with a pipeline *)
(* only what PcmStream allows, which FFmpegPipeline is shown to implement  *)
(* (AudioProofs): it is launched when it has no reader, one that is held   *)
(* reads on or ends, on_eof is the last thing a reader does, and it is     *)
(* joined when it has returned.                                            *)
(***************************************************************************)
THEOREM PipelinesAreUsedAsPromised == Spec => UsesPcmStream
<1>1. IInv /\ PInv /\ [Next]_vars
          => [~raced' => Contract!Next \/ UNCHANGED Contract!vars]_vars
    BY NextServes DEF Serves, Contracted
<1> QED BY <1>1, PipelinesPrepared, PTL DEF Spec, UsesPcmStream

(***************************************************************************)
(* For any number of workers, chats and tracks: as long as no two calls    *)
(* have shared a session, the reader in whose join a call waits is on its  *)
(* way to its end, and when everybody waits the process is at rest.  A     *)
(* join is only reached by a call that has told the pipeline to end        *)
(* (ToldToEnd), the destructor's after the reader has been joined already; *)
(* and who holds sessions_mutex_ waits for nobody.                         *)
(***************************************************************************)
THEOREM NobodyIsStuck == Spec => []NobodyWaitsInVain
<1>1. IInv /\ PInv => NobodyWaitsInVain
    <2> SUFFICES ASSUME IInv, PInv, ~raced PROVE NobodyWaitsInVain
        BY DEF NobodyWaitsInVain
    <2>1. Types /\ Ownership /\ Prepared /\ Typed
        BY EverythingTyped DEF IInv, PInv
    <2>2. ASSUME NEW w \in Workers, WaitsForReader(w)
          PROVE  ~ReaderWaits(call[w].p) \/ ~Streamer!SessionsFree
        <3>1. call[w].pc = "join" /\ ~pipeline[call[w].p].running
            BY <2>1, <2>2 DEF WaitsForReader, Streamer!ReaderActive, Ownership, Handed, HandedOf,
               Prepared, ToldToEnd
        <3> QED BY <2>2, <3>1 DEF WaitsForReader, ReaderWaits, Streamer!ReaderActive
    <2>3. ASSUME \A w \in Workers : Waits(w), \A p \in Tracks : ReaderWaits(p),
                 \A c \in Chats : detached[c] = 0
          PROVE  Quiescent
        <3>1. Streamer!SessionsFree
            <4> SUFFICES ASSUME NEW w \in Workers, call[w].pc \in Applying PROVE FALSE
                BY DEF Streamer!SessionsFree, Applying
            <4>1. handler[w].pc \in Awaiting
                BY <2>1, HandlerTyped DEF Applying
            <4>2. ~Waits(w)
                BY <4>1 DEF Waits, WaitsForSessions, WaitsForReader, At, Awaiting, Applying
            <4> QED BY <2>3, <4>2
        <3>2. ASSUME NEW w \in Workers PROVE handler[w].pc = "idle" /\ pool = <<>>
            <4>1. ~WaitsForSessions(w)
                BY <3>1 DEF WaitsForSessions
            <4>2. WaitsForReader(w) => call[w].p \in Tracks
                BY <2>1 DEF WaitsForReader, Typed
            <4>3. ~WaitsForReader(w)
                BY <2>2, <2>3, <3>1, <4>2
            <4> QED BY <2>3, <4>1, <4>3 DEF Waits, At
        <3>3. pool = <<>> /\ Busy = {}
            BY <3>2, DispatcherAssumption DEF Busy
        <3>4. \A p \in Tracks : pipeline[p].reader \notin {"starting", "ending"}
            BY <2>3, <3>1 DEF ReaderWaits
        <3> QED BY <2>3, <3>3, <3>4 DEF Quiescent
    <2> QED BY <2>2, <2>3 DEF NobodyWaitsInVain
<1> QED BY <1>1, PipelinesPrepared, PTL
================================================================================
