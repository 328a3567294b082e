---------------------------- MODULE MongoClient ----------------------------
(***************************************************************************)
(* database::MongoClient (src/database/mongo_client.cpp): the store behind *)
(* the queues.  In this build it is a map in memory under one mutex, so    *)
(* each operation is one step.  A chat without an entry and a chat with an *)
(* empty deque are the same to every caller.                               *)
(***************************************************************************)
EXTENDS Sequences

CONSTANT Chats

VARIABLE queues   \* queues_: chat -> the tracks waiting there, next one first

Init == queues = [c \in Chats |-> <<>>]

\* Mutant of enqueue_track: push_front.
EnqueueInFront(c, track) == queues' = [queues EXCEPT ![c] = <<track>> \o @]

enqueue_track(c, track) == queues' = [queues EXCEPT ![c] = Append(@, track)]

has_next_track(c) == queues[c] # <<>>

\* The front of the deque, which the caller of pop_next_track gets.
next_track(c) == Head(queues[c])

pop_next_track(c) == queues' = [queues EXCEPT ![c] = Tail(@)]

clear_queue(c) == queues' = [queues EXCEPT ![c] = <<>>]

disconnect == queues' = [c \in Chats |-> <<>>]
=============================================================================
