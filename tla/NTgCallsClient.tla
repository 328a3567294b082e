--------------------------- MODULE NTgCallsClient ---------------------------
(***************************************************************************)
(* audio::NTgCallsClient (src/audio/ntgcalls_client.cpp) after init(): the *)
(* voice calls the process is in.  One mutex covers every operation, so    *)
(* each is one step.  What libntgcalls keeps for a call is external; all   *)
(* that matters of it here is whether the call was told to pause.          *)
(***************************************************************************)
CONSTANTS Chats,
          JoinMayFail   \* whether lib.create can refuse a call

VARIABLES active_chats,   \* active_chats
          paused_calls    \* external: the calls libntgcalls holds paused

Init == active_chats = {} /\ paused_calls = {}

\* A refused create returns false before active_chats changes.
join_group_call(c) ==
    \/ /\ active_chats' = active_chats \cup {c}
       /\ UNCHANGED paused_calls
    \/ /\ JoinMayFail
       /\ UNCHANGED <<active_chats, paused_calls>>

\* Mutant of leave_group_call: the chat stays in the map.
LeaveKeepsEntry(c) ==
    /\ paused_calls' = paused_calls \ {c}
    /\ UNCHANGED active_chats

leave_group_call(c) ==
    /\ active_chats' = active_chats \ {c}
    /\ paused_calls' = paused_calls \ {c}

\* Neither does anything in a chat the client has not joined.
pause(c) ==
    /\ paused_calls' = paused_calls \cup ({c} \cap active_chats)
    /\ UNCHANGED active_chats

resume(c) ==
    /\ paused_calls' = paused_calls \ {c}
    /\ UNCHANGED active_chats

\* Mutant of shutdown: the calls are stopped, the chats stay in the map.
ShutdownKeepsChats == paused_calls' = {} /\ UNCHANGED active_chats

\* Every call is stopped and libntgcalls destroyed.
shutdown == active_chats' = {} /\ paused_calls' = {}
=============================================================================
