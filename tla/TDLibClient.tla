---------------------------- MODULE TDLibClient ----------------------------
(***************************************************************************)
(* telegram::TDLibClient (src/telegram/tdlib_client.cpp): the sessions of  *)
(* the process with Telegram, each with a receiver thread of its own, and  *)
(* libtdjson, which is external: it hands what it has for any session of   *)
(* the process to whichever thread asks, in one queue.                     *)
(*                                                                         *)
(* A receiver does not look at @client_id: it takes an update for its own. *)
(* Responses to requests go through the same queue; no caller of           *)
(* send_request asks for one, so they do nothing and are left out.         *)
(***************************************************************************)
EXTENDS Integers, Sequences

CONSTANTS Clients,
          Bots,       \* those with is_bot_
          Messages    \* what people write; a session sees each once

\* The states of a session that libtdjson reports.
States == {"WaitTdlibParameters", "WaitPhoneNumber", "WaitCode", "Ready", "LoggingOut", "Closed"}

ASSUME TDLibAssumption == Bots \subseteq Clients /\ Messages \cap States = {}

VARIABLES loaded,        \* whether libtdjson was found
          is_running, auth_state,
          receiver,      \* client -> where its receiver thread is
          taken,         \* client -> the update its receiver has taken
          listening,     \* clients with a listener for updateNewMessage
          credentials,   \* client -> which of "api" and "login" it was started with
          session,       \* external: client -> how far libtdjson has logged it in
          inbox,         \* external: the queue of updates
          written,       \* external: the messages a session has seen
          dispatched,    \* history: message -> how often a listener got it
          strayed        \* history: a receiver has taken an update of another session

tdVars == <<loaded, is_running, auth_state, receiver, taken, listening, credentials, session,
            inbox, written, dispatched, strayed>>

Nothing == [to |-> "nobody", kind |-> "nothing"]

TDInit ==
    /\ loaded \in BOOLEAN
    /\ is_running = [c \in Clients |-> FALSE]
    /\ auth_state = [c \in Clients |-> "None"]
    /\ receiver = [c \in Clients |-> "none"]
    /\ taken = [c \in Clients |-> Nothing]
    /\ listening = {}
    /\ credentials = [c \in Clients |-> {}]
    /\ session = [c \in Clients |-> "None"]
    /\ inbox = <<>>
    /\ written = [c \in Clients |-> {}]
    /\ dispatched = [m \in Messages |-> 0]
    /\ strayed = FALSE

-----------------------------------------------------------------------------
(* libtdjson *)

Update(c, kind) == [to |-> c, kind |-> kind]

\* The session of c goes on to another state, and says so.
Advances(c, to) == /\ session' = [session EXCEPT ![c] = to]
                   /\ inbox' = Append(inbox, Update(c, to))

\* Where a request can take a session.  A request that does not fit, or has empty
\* credentials, is answered with an error and changes nothing.
Answers(request, c) ==
    CASE request = "setLogVerbosityLevel" /\ session[c] = "None" -> {"WaitTdlibParameters"}
      [] /\ request = "setTdlibParameters" /\ session[c] = "WaitTdlibParameters"
         /\ "api" \in credentials[c] ->
            {"WaitPhoneNumber", "Ready"}      \* Ready: data_dir has the login of an earlier run
      [] /\ request = "checkAuthenticationBotToken" /\ session[c] = "WaitPhoneNumber"
         /\ "login" \in credentials[c] -> {"Ready"}
      [] /\ request = "setAuthenticationPhoneNumber" /\ session[c] = "WaitPhoneNumber"
         /\ "login" \in credentials[c] -> {"WaitCode"}
      [] request = "close" /\ session[c] # "Closed" -> {"Closed"}
      [] OTHER -> {}

td_send(c, request) ==
    LET next == IF loaded THEN Answers(request, c) ELSE {}
    IN  \/ next = {} /\ UNCHANGED <<session, inbox>>
        \/ \E to \in next : Advances(c, to)

\* The user has ended the session elsewhere.
td_logout(c) ==
    /\ session[c] = "Ready"
    /\ Advances(c, "LoggingOut")
    /\ UNCHANGED <<loaded, is_running, auth_state, receiver, taken, listening, credentials,
                   written, dispatched, strayed>>

td_message(c, m) ==
    /\ session[c] = "Ready" /\ m \notin written[c]
    /\ written' = [written EXCEPT ![c] = @ \cup {m}]
    /\ inbox' = Append(inbox, Update(c, m))
    /\ UNCHANGED <<loaded, is_running, auth_state, receiver, taken, listening, credentials,
                   session, dispatched, strayed>>

-----------------------------------------------------------------------------
(* what the main thread calls *)

\* Mutant of start: the client is Ready at once, whether libtdjson was found or not.
StartsReady(c, given) ==
    /\ credentials' = [credentials EXCEPT ![c] = given]
    /\ is_running' = [is_running EXCEPT ![c] = TRUE]
    /\ receiver' = [receiver EXCEPT ![c] = "loop"]
    /\ auth_state' = [auth_state EXCEPT ![c] = "Ready"]
    /\ td_send(c, "setLogVerbosityLevel")
    /\ UNCHANGED <<loaded, taken, listening, written, dispatched, strayed>>

\* Without libtdjson the client is Ready at once ("simulated Telegram engine mode").
start(c, given) ==
    /\ credentials' = [credentials EXCEPT ![c] = given]
    /\ is_running' = [is_running EXCEPT ![c] = TRUE]
    /\ receiver' = [receiver EXCEPT ![c] = "loop"]
    /\ auth_state' = [auth_state EXCEPT ![c] = IF loaded THEN @ ELSE "Ready"]
    /\ td_send(c, "setLogVerbosityLevel")
    /\ UNCHANGED <<loaded, taken, listening, written, dispatched, strayed>>

add_update_listener(c) ==
    /\ listening' = listening \cup {c}
    /\ UNCHANGED <<loaded, is_running, auth_state, receiver, taken, credentials, session,
                   inbox, written, dispatched, strayed>>

\* stop(), up to the join
stop(c) ==
    /\ is_running[c]
    /\ is_running' = [is_running EXCEPT ![c] = FALSE]
    /\ td_send(c, "close")
    /\ UNCHANGED <<loaded, auth_state, receiver, taken, listening, credentials, written,
                   dispatched, strayed>>

joined(c) ==
    /\ receiver[c] = "exited"
    /\ receiver' = [receiver EXCEPT ![c] = "none"]
    /\ UNCHANGED <<loaded, is_running, auth_state, taken, listening, credentials, session,
                   inbox, written, dispatched, strayed>>

-----------------------------------------------------------------------------
(* receiver_loop *)

ReceiverGoes(c, from, to) == receiver[c] = from /\ receiver' = [receiver EXCEPT ![c] = to]

\* Mutant of Loops: the receiver goes on as long as there is a library to ask.
LoopsWhileLoaded(c) ==
    /\ ~is_running[c] \/ loaded
    /\ ReceiverGoes(c, "loop", IF loaded THEN "receive" ELSE "exited")
    /\ UNCHANGED <<loaded, is_running, auth_state, taken, listening, credentials, session,
                   inbox, written, dispatched, strayed>>

\* while (is_running_); without libtdjson it only sleeps.
Loops(c) ==
    /\ ~is_running[c] \/ loaded
    /\ ReceiverGoes(c, "loop", IF is_running[c] THEN "receive" ELSE "exited")
    /\ UNCHANGED <<loaded, is_running, auth_state, taken, listening, credentials, session,
                   inbox, written, dispatched, strayed>>

\* td_receive(1.0): the oldest update there is, or nothing for a second.
Receives(c) ==
    /\ \/ /\ inbox # <<>>
          /\ ReceiverGoes(c, "receive", "update")
          /\ taken' = [taken EXCEPT ![c] = Head(inbox)]
          /\ inbox' = Tail(inbox)
          /\ strayed' = (strayed \/ Head(inbox).to # c)
       \/ /\ inbox = <<>>
          /\ ReceiverGoes(c, "receive", "loop")
          /\ UNCHANGED <<taken, inbox, strayed>>
    /\ UNCHANGED <<loaded, is_running, auth_state, listening, credentials, session, written,
                   dispatched>>

\* handle_auth_state: the state to note, and the request to send for it.
Noted(c, kind) ==
    CASE kind = "WaitTdlibParameters" -> "WaitParameters"
      [] kind = "WaitPhoneNumber" /\ c \in Bots -> "WaitBotToken"
      [] OTHER -> kind

\* Mutant of Reply: a bot, too, logs in with a phone number.
ReplyWithPhone(c, kind) ==
    CASE kind = "WaitTdlibParameters" -> "setTdlibParameters"
      [] kind = "WaitPhoneNumber" -> "setAuthenticationPhoneNumber"
      [] OTHER -> "none"

Reply(c, kind) ==
    CASE kind = "WaitTdlibParameters" -> "setTdlibParameters"
      [] kind = "WaitPhoneNumber" /\ c \in Bots -> "checkAuthenticationBotToken"
      [] kind = "WaitPhoneNumber" /\ c \notin Bots -> "setAuthenticationPhoneNumber"
      [] OTHER -> "none"

\* Mutant of process_update: the listeners are called twice.
ProcessTwice(c) ==
    /\ ReceiverGoes(c, "update", "loop")
    /\ LET kind == taken[c].kind
       IN  \/ /\ kind \in Messages
              /\ dispatched' = [dispatched EXCEPT ![kind] = @ + IF c \in listening THEN 2 ELSE 0]
              /\ UNCHANGED <<auth_state, session, inbox>>
           \/ /\ kind \notin Messages
              /\ auth_state' = [auth_state EXCEPT ![c] = Noted(c, kind)]
              /\ td_send(c, Reply(c, kind))
              /\ UNCHANGED dispatched
    /\ taken' = [taken EXCEPT ![c] = Nothing]
    /\ UNCHANGED <<loaded, is_running, listening, credentials, written, strayed>>

process_update(c) ==
    /\ ReceiverGoes(c, "update", "loop")
    /\ LET kind == taken[c].kind
       IN  \/ /\ kind \in Messages
              /\ dispatched' = [dispatched EXCEPT ![kind] = @ + IF c \in listening THEN 1 ELSE 0]
              /\ UNCHANGED <<auth_state, session, inbox>>
           \/ /\ kind \notin Messages
              /\ auth_state' = [auth_state EXCEPT ![c] = Noted(c, kind)]
              /\ td_send(c, Reply(c, kind))
              /\ UNCHANGED dispatched
    /\ taken' = [taken EXCEPT ![c] = Nothing]
    /\ UNCHANGED <<loaded, is_running, listening, credentials, written, strayed>>

ReceiverStep(c) == Loops(c) \/ Receives(c) \/ process_update(c)
=============================================================================
