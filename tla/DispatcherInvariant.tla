-------------------------- MODULE DispatcherInvariant --------------------------
(***************************************************************************)
(* The inductive invariant of Dispatcher, IInv: the types and what a       *)
(* program counter says of the other local variables; every track is in    *)
(* one place, and is started by one worker; and, as long as no two calls   *)
(* have shared a session, who owns which pipeline.  DispatcherProofs shows *)
(* that it is one.                                                         *)
(***************************************************************************)
EXTENDS Dispatcher

None == Streamer!None

-----------------------------------------------------------------------------
Places == Tracks \cup {0}

Tasks == [cmd : {"play"}, chat : Chats, track : Tracks]
            \cup [cmd : {"skip", "stop", "pause", "resume", "next"}, chat : Chats, track : {0}]

Sessions == [state : {"Idle", "Buffering", "Playing", "Paused"}, pipeline : Places]

ReaderStates == {"none", "starting", "reading", "held", "ending", "exited"}

PipelineStates == [object : {"none", "live", "destroyed"}, running : BOOLEAN, paused : BOOLEAN,
                   reader : ReaderStates, track : Places, chat : Chats \cup {0}, volume : Places]

\* Where a call of each operation can be; without a session, and with one.
Outside == {"none", "lookup", "erase", "pause", "resume", "done"}
Either == {"inspect", "halt", "join", "reset", "clear", "destroy", "release"}
OfPlay == {"assign", "create", "install", "start", "launch", "playing"}
OfStop == {"idle", "leave"}
Applying == {"pause_apply", "resume_apply"}

Pcs == Outside \cup Either \cup OfPlay \cup OfStop \cup Applying
Nexts == {"none", "reset", "launch", "assign", "idle", "start", "release"}

Calls == [op : {"none", "play", "stop", "pause", "resume"}, pc : Pcs, chat : Chats \cup {0},
          track : Places, s : Places, p : Places, next : Nexts, threw : BOOLEAN]

Asking == {"play_check", "join", "enqueue"}
Awaiting == {"await", "await_leave"}

Handlers == [pc : {"idle", "skip_check", "pop", "clear"} \cup Asking \cup Awaiting,
             cmd : {"play", "skip", "stop", "pause", "resume", "next", "none"},
             chat : Chats \cup {0}, track : Places]

Shapes ==
    /\ queues \in [Chats -> Seq(Tracks)]
    /\ active_chats \subseteq Chats /\ paused_calls \subseteq Chats
    /\ sessions \in [Chats -> Places]
    /\ session \in [Tracks -> Sessions]
    /\ pipeline \in [Tracks -> PipelineStates]
    /\ call \in [Workers -> Calls]
    /\ detached \in [Chats -> Nat]
    /\ raced \in BOOLEAN
    /\ crashed \in {"no", "memory", "terminate"}
    /\ pool \in Seq(Tasks)
    /\ handler \in [Workers -> Handlers]
    /\ issued \in [Commands -> Nat]
    /\ starts \in [Tracks -> Nat]
    /\ last \in [Chats -> {"none", "play", "skip", "stop"}]

\* What the program counter of a worker says of its other local variables.
ControlOf(h, k) ==
    /\ h.pc # "idle" => h.chat \in Chats
    /\ h.pc \in Asking => h.track \in Tracks
    /\ k.pc = "none" <=> h.pc \notin Awaiting
    /\ k.pc # "none" => k.chat \in Chats /\ k.track = h.track
    /\ k.pc \in OfPlay \cup {"lookup"} => k.op = "play"
    /\ k.pc \in OfStop \cup {"erase"} => k.op = "stop"
    /\ k.pc \in Either => k.op \in {"play", "stop"}
    /\ k.pc \in Applying \cup {"pause", "resume"} => k.op \in {"pause", "resume"}
    /\ k.op = "play" => k.track \in Tracks
    /\ k.pc # "none" /\ k.op # "play" => k.track = None
    /\ k.s = None <=> k.pc \in Outside
    /\ k.pc \in {"halt", "join", "destroy", "launch"} \cup Applying => k.p # None
    /\ k.pc = "join" => k.next \in {"reset", "launch"}
    /\ k.pc = "join" /\ k.next = "launch" => k.op = "play"
    /\ k.pc = "destroy" => k.next \in {"assign", "idle", "start", "release"}
    /\ k.pc = "destroy" /\ k.next \in {"assign", "start"} => k.op = "play"
    /\ k.pc = "destroy" /\ k.next = "idle" => k.op = "stop"

Control == \A w \in Workers : ControlOf(handler[w], call[w])

Types == Shapes /\ Control

-----------------------------------------------------------------------------
\* Every track is asked for once, and from then on in one place at most: in a task, in the
\* queue of a chat, or in the hands of a worker.
InPool(t) == \E i \in 1 .. Len(pool) : pool[i].track = t
InQueue(t, c) == \E i \in 1 .. Len(queues[c]) : queues[c][i] = t
InHand(t, w) == handler[w].track = t

PoolDistinct == \A i, j \in 1 .. Len(pool) :
    pool[i].track \in Tracks /\ pool[i].track = pool[j].track => i = j

QueuesDistinct == \A c, d \in Chats : \A i \in 1 .. Len(queues[c]), j \in 1 .. Len(queues[d]) :
    queues[c][i] = queues[d][j] => c = d /\ i = j

OnePlace(t) ==
    /\ \A v, w \in Workers : InHand(t, v) /\ InHand(t, w) => v = w
    /\ InPool(t) => /\ t <= issued["play"]
                    /\ \A c \in Chats : ~InQueue(t, c)
                    /\ \A w \in Workers : ~InHand(t, w)
    /\ \A c \in Chats : InQueue(t, c) => /\ t <= issued["play"]
                                        /\ \A w \in Workers : ~InHand(t, w)
    /\ \A w \in Workers : InHand(t, w) => t <= issued["play"]

OnceEach == PoolDistinct /\ QueuesDistinct /\ \A t \in Tracks : OnePlace(t)

\* The call is past the launch of its stream.
Past(k) == k.pc \in {"playing", "release", "done"} \/ (k.pc = "destroy" /\ k.next = "release")

\* A track whose stream was started is nowhere any more, or in the hands of the worker
\* that started it, which will not start it again.
StartedOnce ==
    /\ \A w \in Workers : call[w].op = "play" => handler[w].pc = "await"
    /\ \A t \in Tracks : starts[t] > 0 =>
          /\ t <= issued["play"] /\ ~InPool(t) /\ \A c \in Chats : ~InQueue(t, c)
          /\ \A w \in Workers : InHand(t, w) => handler[w].pc = "await" /\ Past(call[w])

-----------------------------------------------------------------------------
\* The session, and the pipeline, that the play of t may allocate do not exist yet.
BeforeLookup == {"none", "lookup"}
BeforeCreate == BeforeLookup \cup {"inspect", "halt", "join", "reset", "clear", "destroy",
                                   "assign", "create"}

Unplayed(t) == t > issued["play"] \/ InPool(t) \/ \E c \in Chats : InQueue(t, c)
NoSessionYet(t) ==
    Unplayed(t) \/ \E w \in Workers : InHand(t, w) /\ call[w].pc \in BeforeLookup
NoPipelineYet(t) ==
    Unplayed(t) \/ \E w \in Workers : InHand(t, w) /\ call[w].pc \in BeforeCreate

Fresh == \A t \in Tracks :
    /\ NoSessionYet(t) => /\ session[t].pipeline = None
                          /\ \A c \in Chats : sessions[c] # t
                          /\ \A w \in Workers : call[w].s # t
    /\ NoPipelineYet(t) => /\ \A s \in Tracks : session[s].pipeline # t
                           /\ \A w \in Workers : call[w].p # t

\* A session is at one chat, at work in one call, and what it owns is its own.
Apart ==
    /\ \A c, d \in Chats : sessions[c] # None /\ sessions[c] = sessions[d] => c = d
    /\ \A v, w \in Workers : call[w].s # None /\ call[w].s = call[v].s => v = w
    /\ \A s, r \in Tracks : session[s].pipeline # None /\ session[s].pipeline = session[r].pipeline
                               => s = r

Owned == \A s \in Tracks : session[s].pipeline # None =>
    /\ pipeline[session[s].pipeline].object = "live"
    /\ Streamer!Alive(s)

Mine(w) == session[call[w].s].pipeline

\* What a call knows of its session and of the pipeline of the session.
KnowsOf(w) ==
    /\ call[w].s # None /\ call[w].op # "stop" => sessions[call[w].chat] = call[w].s
    /\ call[w].pc \in {"halt", "join", "clear", "launch"} \cup Applying => call[w].p = Mine(w)
    /\ call[w].pc \in {"halt", "join", "reset", "clear", "start", "launch"} \cup Applying
          => Mine(w) # None
    /\ call[w].pc \in {"reset", "clear", "start", "launch"} => pipeline[Mine(w)].reader = "none"
    /\ call[w].pc = "start" => ~pipeline[Mine(w)].running
    /\ call[w].pc = "join" => call[w].next = "reset"
    /\ call[w].pc \in {"destroy", "assign", "create", "install"} \cup OfStop => Mine(w) = None
    /\ call[w].pc = "release" /\ call[w].op = "stop" => Mine(w) = None

Knows == \A w \in Workers : KnowsOf(w)

\* A pipeline without a session is in the hands of the call that makes or deletes it.
Unowned(p) == \A s \in Tracks : session[s].pipeline # p
HandedOf(w) ==
    /\ call[w].pc = "destroy" =>
        /\ pipeline[call[w].p].object = "live" /\ pipeline[call[w].p].reader = "none"
        /\ Unowned(call[w].p)
        /\ call[w].next \in {"assign", "idle"}
        /\ \A v \in Workers : call[v].pc = "destroy" /\ call[v].p = call[w].p => v = w
    /\ call[w].pc = "install" =>
        /\ call[w].p = None
        /\ pipeline[call[w].track].object = "live" /\ pipeline[call[w].track].reader = "none"
        /\ ~pipeline[call[w].track].running
        /\ Unowned(call[w].track)
        /\ \A v \in Workers : call[v].pc = "destroy" => call[v].p # call[w].track

Handed == \A w \in Workers : HandedOf(w)

Readers == \A p \in Tracks : Streamer!ReaderActive(p) =>
    pipeline[p].volume \in Tracks /\ session[pipeline[p].volume].pipeline = p

NoMisuse == crashed # "memory"

Ownership == Fresh /\ Apart /\ Owned /\ Knows /\ Handed /\ Readers /\ NoMisuse

IInv == Types /\ OnceEach /\ StartedOnce /\ (~raced => Ownership)

-----------------------------------------------------------------------------
\* What the pipelines need besides, for the calls that wait for them and for PcmStream:
\* one that is joined has been told to end, and one that is created was never used.
Blank == \A t \in Tracks : NoPipelineYet(t) => pipeline[t] = Streamer!NoPipeline

ToldToEnd(w) == call[w].pc = "join" => ~pipeline[call[w].p].running

Prepared == Blank /\ \A w \in Workers : ToldToEnd(w)

PInv == ~raced => Prepared
=============================================================================
