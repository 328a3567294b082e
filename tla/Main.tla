-------------------------------- MODULE Main --------------------------------
(***************************************************************************)
(* main() (src/main.cpp) up to the end of its clients: the configuration,  *)
(* the bot's session and the assistant's, the registration of the listener *)
(* by CommandDispatcher::init, and the stop of both after a signal.        *)
(***************************************************************************)
EXTENDS TDLibClient

CONSTANTS Bot, Assistant,
          Files, Environments,  \* the config files and environments to start from
          EndedElsewhere        \* the sessions their user may end from another device

ASSUME MainAssumption == Clients = {Bot, Assistant} /\ Bots = {Bot} /\ Bot # Assistant

VARIABLES main,     \* where the main thread is
          file, env, config,
          field     \* the field of the file that is read next

configVars == <<file, env, config, field>>
vars == <<tdVars, main, configVars>>

Config == INSTANCE ConfigLoader

\* A text is never bad in the environment; a number and a list of numbers may be.
ASSUME SettingsAssumption ==
    /\ Files \subseteq [Config!Fields -> Config!Values]
    /\ \A e \in Environments :
          /\ e \in [Config!Fields -> Config!Values]
          /\ \A f \in Config!Fields : e[f] = "bad" => f \in Config!Numbers \cup {"sudo_users"}

Init == /\ TDInit
        /\ main = "load"
        /\ file \in Files /\ env \in Environments
        /\ config = Config!Default /\ field = 1

Goes(from, to) == main = from /\ main' = to

\* ConfigLoader::load
ReadField == /\ main = "load" /\ field <= Len(Config!FieldOrder)
             /\ config' = Config!read_field(config, file, field)
             /\ field' = Config!after_field(file, field)
             /\ UNCHANGED <<tdVars, main, file, env>>

ApplyEnvironment == /\ field > Len(Config!FieldOrder)
                    /\ Goes("load", "start_bot")
                    /\ config' = Config!apply_env_overrides(config, env)
                    /\ UNCHANGED <<tdVars, file, env, field>>

\* An empty or zero setting is the default.
Given(login) == (IF config["api_id"] # {} /\ config["api_hash"] # {} THEN {"api"} ELSE {})
                    \cup (IF config[login] # {} THEN {"login"} ELSE {})

\* Incomplete credentials are logged, and the client is started all the same.
StartBot == /\ Goes("start_bot", "start_assistant")
            /\ start(Bot, Given("bot_token"))
            /\ UNCHANGED configVars

\* After this the configuration does not matter to the model any more.
StartAssistant ==
    /\ Goes("start_assistant", "init_dispatcher")
    /\ IF config["string_session"] # {} THEN start(Assistant, Given("string_session"))
                                        ELSE UNCHANGED tdVars
    /\ config' = Config!Default
    /\ file' = [f \in Config!Fields |-> "absent"] /\ env' = file'
    /\ UNCHANGED field

\* Mutant of InitDispatcher: the assistant's client listens, too.
ListenOnBoth == /\ Goes("init_dispatcher", "live")
                /\ listening' = Clients
                /\ UNCHANGED <<loaded, is_running, auth_state, receiver, taken, credentials,
                               session, inbox, written, dispatched, strayed, configVars>>

\* Mutant of InitDispatcher: the assistant's client listens instead.
ListenOnAssistant == /\ Goes("init_dispatcher", "live")
                     /\ add_update_listener(Assistant)
                     /\ UNCHANGED configVars

InitDispatcher == /\ Goes("init_dispatcher", "live")
                  /\ add_update_listener(Bot)
                  /\ UNCHANGED configVars

\* A signal has cleared g_running.
Signalled == /\ Goes("live", "stop_bot")
             /\ UNCHANGED <<tdVars, configVars>>

StopClient(c, here, join, next) ==
    /\ \/ /\ Goes(here, join)
          /\ stop(c)
       \/ /\ ~is_running[c]
          /\ Goes(here, next)
          /\ UNCHANGED tdVars
       \/ /\ Goes(join, next)
          /\ joined(c)
    /\ UNCHANGED configVars

StopBot == StopClient(Bot, "stop_bot", "join_bot", "stop_assistant")
StopAssistant == StopClient(Assistant, "stop_assistant", "join_assistant", "down")

MainStep == \/ ReadField \/ ApplyEnvironment \/ StartBot \/ StartAssistant
            \/ InitDispatcher \/ StopBot \/ StopAssistant

Receiver(c) == ReceiverStep(c) /\ UNCHANGED <<main, configVars>>

Message(c, m) == td_message(c, m) /\ UNCHANGED <<main, configVars>>

Logout(c) == c \in EndedElsewhere /\ td_logout(c) /\ UNCHANGED <<main, configVars>>

Next == \/ MainStep \/ Signalled
        \/ \E c \in Clients : Receiver(c) \/ Logout(c) \/ \E m \in Messages : Message(c, m)
        \/ main = "down" /\ UNCHANGED vars

Spec == Init /\ [][Next]_vars

(***************************************************************************)
(* The threads run, and td_receive returns after a second at the latest.   *)
(* Nothing obliges anyone to write or to send a signal.                    *)
(***************************************************************************)
FairSpec == Spec /\ WF_vars(MainStep) /\ \A c \in Clients : WF_vars(Receiver(c))

-----------------------------------------------------------------------------
Updates == [to : Clients, kind : Messages \cup States]

TypeOK ==
    /\ loaded \in BOOLEAN /\ strayed \in BOOLEAN
    /\ is_running \in [Clients -> BOOLEAN]
    /\ receiver \in [Clients -> {"none", "loop", "receive", "update", "exited"}]
    /\ auth_state \in [Clients -> {"None", "WaitParameters", "WaitPhoneNumber", "WaitBotToken",
                                   "WaitCode", "Ready", "LoggingOut", "Closed"}]
    /\ taken \in [Clients -> Updates \cup {Nothing}]
    /\ inbox \in Seq(Updates)
    /\ written \in [Clients -> SUBSET Messages]
    /\ dispatched \in [Messages -> Nat]
    /\ config \in [Config!Fields -> Config!Sources]

(***************************************************************************)
(* "Override with Environment Variables (Highest Precedence)": a setting   *)
(* that the environment gives well comes from there, whatever is wrong     *)
(* with the file; one that only the file gives comes from the file, unless *)
(* a field that is read before it stops the reading.                       *)
(***************************************************************************)
SettingsComeFrom ==
    main = "start_bot" =>
        \A i \in 1 .. Len(Config!FieldOrder) :
            LET f == Config!FieldOrder[i]
                read == \A j \in 1 .. i - 1 : file[Config!FieldOrder[j]] # "bad"
            IN  /\ f \notin Config!FileOnly /\ env[f] = "good" => "environment" \in config[f]
                /\ f \in Config!FileOnly \/ env[f] # "good" =>
                      ("file" \in config[f] <=>
                          /\ read
                          /\ file[f] = "good" \/ (f = "sudo_users" /\ file[f] = "bad"))

(***************************************************************************)
(* As long as every receiver takes its own updates, auth_state() is Ready  *)
(* only for a session that has been logged in.                             *)
(***************************************************************************)
ReadyMeansLoggedIn ==
    loaded /\ ~strayed =>
        \A c \in Clients : auth_state[c] = "Ready" => session[c] \in {"Ready", "LoggingOut", "Closed"}

(***************************************************************************)
(* As long as every receiver takes its own updates, a message is handed to *)
(* the dispatcher once at most, although both sessions see it.             *)
(***************************************************************************)
HandledOnceAtMost == ~strayed => \A m \in Messages : dispatched[m] <= 1

(***************************************************************************)
(* Once bot_client->stop() has returned the dispatcher gets no more        *)
(* messages, whatever the assistant's receiver finds in the queue: what    *)
(* main() tears down after that is not used by a new command.              *)
(***************************************************************************)
BotStopped == main \in {"stop_assistant", "join_assistant", "down"}

NoMessageAfterStop == [][BotStopped => dispatched' = dispatched]_vars

(***************************************************************************)
(* A bot with complete credentials gets logged in and knows it, unless it  *)
(* is stopped before, or a receiver has taken an update of the other       *)
(* session: that one is then answered in the wrong session.                *)
(***************************************************************************)
BotLogsIn ==
    loaded /\ credentials[Bot] = {"api", "login"} ~>
        \/ auth_state[Bot] \in {"Ready", "LoggingOut", "Closed"}
        \/ strayed
        \/ main \notin {"start_assistant", "init_dispatcher", "live"}

(***************************************************************************)
(* A message that comes in once the bot is "LIVE and listening for         *)
(* commands" is handled, unless the bot is stopped before.  (One that      *)
(* comes in earlier may find no listener, and is lost.)                    *)
(***************************************************************************)
MessagesAreHandled ==
    \A m \in Messages :
        [](main = "live" /\ m \notin written[Bot] =>
              []<>(m \notin written[Bot] \/ dispatched[m] = 1 \/ strayed \/ main # "live"))

(***************************************************************************)
(* Both stop() calls return, however many updates are waiting and whoever  *)
(* takes them.                                                             *)
(***************************************************************************)
ClientsStop == main = "stop_bot" ~> main = "down"
=============================================================================
