------------------------------ MODULE Playlist ------------------------------
(***************************************************************************)
(* What a chat may expect of its requests, without threads, sessions or    *)
(* pipelines.  Each track that somebody asks for is played at once or      *)
(* waits in the queue of its chat; the queue is first in, first out, every *)
(* track leaves it once, and every track is started at most once, by the   *)
(* handler that took it.                                                   *)
(***************************************************************************)
EXTENDS Integers, Sequences

CONSTANTS Chats, Tracks

VARIABLES queue,    \* chat -> tracks waiting, next one first
          status,   \* track -> how far it has come
          starts    \* track -> how often its stream was started

vars == <<queue, status, starts>>

Statuses == {"new", "asked", "queued", "taken", "started", "dropped"}

Init == /\ queue = [c \in Chats |-> <<>>]
        /\ status = [t \in Tracks |-> "new"]
        /\ starts = [t \in Tracks |-> 0]

Becomes(t, from, to) == /\ status[t] = from
                        /\ status' = [status EXCEPT ![t] = to]

Ask(t) == Becomes(t, "new", "asked") /\ UNCHANGED <<queue, starts>>

\* The command is shed, or its handler dies.
Refuse(t) == Becomes(t, "new", "dropped") /\ UNCHANGED <<queue, starts>>

PlayAtOnce(t) == Becomes(t, "asked", "taken") /\ UNCHANGED <<queue, starts>>

Queue(t, c) == /\ Becomes(t, "asked", "queued")
               /\ queue' = [queue EXCEPT ![c] = Append(@, t)]
               /\ UNCHANGED starts

TakeNext(c) == /\ queue[c] # <<>>
               /\ Becomes(Head(queue[c]), "queued", "taken")
               /\ queue' = [queue EXCEPT ![c] = Tail(@)]
               /\ UNCHANGED starts

Start(t) == /\ Becomes(t, "taken", "started")
            /\ starts' = [starts EXCEPT ![t] = @ + 1]
            /\ UNCHANGED queue

GiveUp(t) == Becomes(t, "taken", "dropped") /\ UNCHANGED <<queue, starts>>

Clear(c) == /\ queue' = [queue EXCEPT ![c] = <<>>]
            /\ status' = [t \in Tracks |-> IF \E i \in 1 .. Len(queue[c]) : queue[c][i] = t
                                           THEN "dropped" ELSE status[t]]
            /\ UNCHANGED starts

Next == \/ \E t \in Tracks : Ask(t) \/ Refuse(t) \/ PlayAtOnce(t) \/ Start(t) \/ GiveUp(t)
        \/ \E c \in Chats : TakeNext(c) \/ Clear(c) \/ \E t \in Tracks : Queue(t, c)

Spec == Init /\ [][Next]_vars
=============================================================================
