----------------------------- MODULE MainProofs -----------------------------
(***************************************************************************)
(* Proofs about Main, for any messages, configuration files and            *)
(* environments.                                                           *)
(*                                                                         *)
(* The inductive invariant IInv: that only the bot's client has a listener *)
(* and its receiver is joined by stop() holds whatever happens; where the  *)
(* updates of a session are holds as long as no receiver has taken an      *)
(* update of the other session.                                            *)
(***************************************************************************)
EXTENDS Main, TLAPS

\* A session that is or was logged in.
In == {"Ready", "LoggingOut", "Closed"}

\* What auth_state() can be.
Names == {"None", "WaitParameters", "WaitPhoneNumber", "WaitBotToken", "WaitCode", "Ready",
          "LoggingOut", "Closed"}

\* TypeOK without the configuration.
Types ==
    /\ loaded \in BOOLEAN /\ strayed \in BOOLEAN
    /\ is_running \in [Clients -> BOOLEAN]
    /\ receiver \in [Clients -> {"none", "loop", "receive", "update", "exited"}]
    /\ auth_state \in [Clients -> Names]
    /\ taken \in [Clients -> Updates \cup {Nothing}]
    /\ inbox \in Seq(Updates)
    /\ written \in [Clients -> SUBSET Messages]
    /\ dispatched \in [Messages -> Nat]
    /\ session \in [Clients -> States \cup {"None"}]
    /\ \A c \in Clients : receiver[c] = "update" => taken[c] \in Updates

\* A request moves its session on, never from logged in back to logging in.
LEMMA SendFacts ==
    ASSUME NEW c \in Clients, NEW r, td_send(c, r)
    PROVE  \/ UNCHANGED <<session, inbox>>
           \/ \E to \in States : Advances(c, to) /\ (session[c] \in In => to \in In)
<1>1. \A to \in Answers(r, c) : to \in States /\ (session[c] \in In => to \in In)
    BY DEF Answers, In, States
<1> QED BY <1>1 DEF td_send

LEMMA AdvanceTypes ==
    ASSUME Types, NEW c \in Clients,
           \/ UNCHANGED <<session, inbox>>
           \/ \E to \in States : Advances(c, to)
    PROVE  inbox' \in Seq(Updates) /\ session' \in [Clients -> States \cup {"None"}]
<1>1. CASE UNCHANGED <<session, inbox>>
    BY <1>1 DEF Types
<1>2. ASSUME NEW to \in States, Advances(c, to)
      PROVE  inbox' \in Seq(Updates) /\ session' \in [Clients -> States \cup {"None"}]
    <2>1. Update(c, to) \in Updates
        BY DEF Update, Updates
    <2> QED BY <1>2, <2>1 DEF Advances, Types
<1> QED BY <1>1, <1>2

LEMMA TypesStep == Types /\ [Next]_vars => Types'
<1> SUFFICES ASSUME Types, [Next]_vars PROVE Types'
    OBVIOUS
<1> USE MainAssumption, TDLibAssumption
<1>0. CASE UNCHANGED vars
    BY <1>0 DEF Types, vars, tdVars
<1>1. ASSUME ReadField PROVE Types'
    BY <1>1 DEF ReadField, Goes, Types, tdVars, configVars
<1>2. ASSUME ApplyEnvironment PROVE Types'
    BY <1>2 DEF ApplyEnvironment, Goes, Types, tdVars, configVars
<1>3. ASSUME StartBot PROVE Types'
    <2>1. inbox' \in Seq(Updates) /\ session' \in [Clients -> States \cup {"None"}]
        BY <1>3, SendFacts, AdvanceTypes DEF StartBot, start
    <2> QED BY <1>3, <2>1 DEF StartBot, start, Names, Types, tdVars, configVars
<1>4. ASSUME StartAssistant PROVE Types'
    <2>1. UNCHANGED <<session, inbox>> \/ td_send(Assistant, "setLogVerbosityLevel")
        BY <1>4 DEF StartAssistant, start, tdVars
    <2>2. inbox' \in Seq(Updates) /\ session' \in [Clients -> States \cup {"None"}]
        BY <2>1, SendFacts, AdvanceTypes
    <2> QED BY <1>4, <2>2 DEF StartAssistant, start, Names, Types, tdVars
<1>5. ASSUME InitDispatcher PROVE Types'
    BY <1>5 DEF InitDispatcher, Goes, add_update_listener, Types, tdVars, configVars
<1>6. ASSUME StopBot PROVE Types'
    <2>1. UNCHANGED <<session, inbox>> \/ td_send(Bot, "close")
        BY <1>6 DEF StopBot, StopClient, stop, joined, tdVars
    <2>2. inbox' \in Seq(Updates) /\ session' \in [Clients -> States \cup {"None"}]
        BY <2>1, SendFacts, AdvanceTypes
    <2> QED BY <1>6, <2>2 DEF StopBot, StopClient, stop, joined, Names, Types, tdVars
<1>7. ASSUME StopAssistant PROVE Types'
    <2>1. UNCHANGED <<session, inbox>> \/ td_send(Assistant, "close")
        BY <1>7 DEF StopAssistant, StopClient, stop, joined, tdVars
    <2>2. inbox' \in Seq(Updates) /\ session' \in [Clients -> States \cup {"None"}]
        BY <2>1, SendFacts, AdvanceTypes
    <2> QED BY <1>7, <2>2 DEF StopAssistant, StopClient, stop, joined, Names, Types, tdVars
<1>8. ASSUME Signalled PROVE Types'
    BY <1>8 DEF Signalled, Goes, Types, tdVars, configVars
<1>9. ASSUME NEW c \in Clients, Loops(c), UNCHANGED <<main, configVars>> PROVE Types'
    BY <1>9 DEF Loops, ReceiverGoes, Types, tdVars, configVars
<1>10. ASSUME NEW c \in Clients, Receives(c), UNCHANGED <<main, configVars>> PROVE Types'
    <2>1. CASE inbox = <<>>
        BY <1>10, <2>1 DEF Receives, ReceiverGoes, Types
    <2>2. CASE inbox # <<>>
        <3>1. Head(inbox) \in Updates /\ Tail(inbox) \in Seq(Updates)
            BY <2>2 DEF Types
        <3>2. /\ taken' = [taken EXCEPT ![c] = Head(inbox)] /\ inbox' = Tail(inbox)
              /\ receiver' = [receiver EXCEPT ![c] = "update"] /\ strayed' \in BOOLEAN
            BY <1>10, <2>2 DEF Receives, ReceiverGoes, Types
        <3> QED BY <1>10, <3>1, <3>2 DEF Receives, Types
    <2> QED BY <2>1, <2>2
<1>11. ASSUME NEW c \in Clients, process_update(c), UNCHANGED <<main, configVars>> PROVE Types'
    <2>1. taken[c] \in Updates /\ taken[c].kind \in Messages \cup States
        BY <1>11 DEF process_update, ReceiverGoes, Types, Updates
    <2>2. CASE taken[c].kind \in Messages
        <3>1. dispatched' \in [Messages -> Nat] /\ UNCHANGED <<auth_state, session, inbox>>
            BY <1>11, <2>2 DEF process_update, Types
        <3> QED BY <1>11, <3>1 DEF process_update, ReceiverGoes, Types
    <2>3. CASE taken[c].kind \notin Messages
        <3>1. /\ auth_state' = [auth_state EXCEPT ![c] = Noted(c, taken[c].kind)]
              /\ td_send(c, Reply(c, taken[c].kind)) /\ UNCHANGED dispatched
            BY <1>11, <2>3 DEF process_update
        <3>2. Noted(c, taken[c].kind) \in Names
            BY <2>1, <2>3 DEF Noted, Names, States
        <3>3. inbox' \in Seq(Updates) /\ session' \in [Clients -> States \cup {"None"}]
            BY <3>1, SendFacts, AdvanceTypes
        <3> QED BY <1>11, <3>1, <3>2, <3>3 DEF process_update, ReceiverGoes, Types
    <2> QED BY <2>2, <2>3
<1>12. ASSUME NEW c \in Clients, Logout(c) PROVE Types'
    <2>1. inbox' \in Seq(Updates) /\ session' \in [Clients -> States \cup {"None"}]
        BY <1>12, AdvanceTypes DEF Logout, td_logout, States
    <2> QED BY <1>12, <2>1 DEF Logout, td_logout, Types
<1>13. ASSUME NEW c \in Clients, NEW m \in Messages, Message(c, m) PROVE Types'
    <2>1. Update(c, m) \in Updates
        BY DEF Update, Updates
    <2> QED BY <1>13, <2>1 DEF Message, td_message, Types
<1> QED BY <1>0, <1>1, <1>2, <1>3, <1>4, <1>5, <1>6, <1>7, <1>8, <1>9, <1>10, <1>11, <1>12,
    <1>13 DEF Next, MainStep, Receiver, ReceiverStep

-----------------------------------------------------------------------------
InBoth == {"start_assistant", "init_dispatcher", "live", "stop_bot"}

\* The only listener is the bot's.  From its start to its stop the bot runs, so that stop()
\* joins its receiver.
OneListener ==
    /\ listening \subseteq {Bot}
    /\ main \in InBoth => is_running[Bot]
    /\ BotStopped => receiver[Bot] = "none"

LEMMA OneListenerStep == Types /\ OneListener /\ [Next]_vars => OneListener'
<1> SUFFICES ASSUME Types, OneListener, [Next]_vars PROVE OneListener'
    OBVIOUS
<1> USE MainAssumption DEF OneListener, BotStopped, InBoth
<1>0. CASE UNCHANGED vars
    BY <1>0 DEF vars, tdVars
<1>1. ASSUME ReadField PROVE OneListener'
    BY <1>1 DEF ReadField, Goes, Types, tdVars, configVars
<1>2. ASSUME ApplyEnvironment PROVE OneListener'
    BY <1>2 DEF ApplyEnvironment, Goes, Types, tdVars, configVars
<1>3. ASSUME StartBot PROVE OneListener'
    BY <1>3 DEF StartBot, Goes, start, Types, tdVars, configVars
<1>4. ASSUME StartAssistant PROVE OneListener'
    BY <1>4 DEF StartAssistant, Goes, start, Types, tdVars, configVars
<1>5. ASSUME InitDispatcher PROVE OneListener'
    BY <1>5 DEF InitDispatcher, Goes, add_update_listener, Types, tdVars, configVars
<1>6. ASSUME StopBot PROVE OneListener'
    BY <1>6 DEF StopBot, StopClient, Goes, stop, joined, Types, tdVars, configVars
<1>7. ASSUME StopAssistant PROVE OneListener'
    BY <1>7 DEF StopAssistant, StopClient, Goes, stop, joined, Types, tdVars, configVars
<1>8. ASSUME Signalled PROVE OneListener'
    BY <1>8 DEF Signalled, Goes, Types, tdVars, configVars
<1>9. ASSUME NEW c \in Clients, Loops(c), UNCHANGED <<main, configVars>> PROVE OneListener'
    BY <1>9 DEF Loops, ReceiverGoes, Types, tdVars, configVars
<1>10. ASSUME NEW c \in Clients, Receives(c), UNCHANGED <<main, configVars>> PROVE OneListener'
    BY <1>10 DEF Receives, ReceiverGoes, Types, tdVars, configVars
<1>11. ASSUME NEW c \in Clients, process_update(c), UNCHANGED <<main, configVars>>
       PROVE  OneListener'
    BY <1>11 DEF process_update, ReceiverGoes, Types, tdVars, configVars
<1>12. ASSUME NEW c \in Clients, Logout(c) PROVE OneListener'
    BY <1>12 DEF Logout, td_logout, Advances, Types, tdVars, configVars
<1>13. ASSUME NEW c \in Clients, NEW m \in Messages, Message(c, m) PROVE OneListener'
    BY <1>13 DEF Message, td_message, Types, tdVars, configVars
<1> QED BY <1>0, <1>1, <1>2, <1>3, <1>4, <1>5, <1>6, <1>7, <1>8, <1>9, <1>10, <1>11, <1>12,
    <1>13 DEF Next, MainStep, Receiver, ReceiverStep

-----------------------------------------------------------------------------
\* A receiver has an update of its own session in hand.
TakesOwn == \A c \in Clients : receiver[c] = "update" => taken[c].to = c

\* Who is said to be Ready in the queue is logged in.
SaidReady == \A i \in 1 .. Len(inbox) : inbox[i].kind = "Ready" => session[inbox[i].to] \in In

\* The same for an update in hand, and for auth_state().
LoggedIn ==
    /\ SaidReady
    /\ \A c \in Clients :
        /\ receiver[c] = "update" /\ taken[c].kind = "Ready" => session[c] \in In
        /\ auth_state[c] = "Ready" => session[c] \in In

LEMMA TakesOwnStep == Types /\ TakesOwn /\ [Next]_vars /\ ~strayed' => TakesOwn'
<1> SUFFICES ASSUME Types, TakesOwn, [Next]_vars, ~strayed' PROVE TakesOwn'
    OBVIOUS
<1> USE MainAssumption
<1>0. CASE UNCHANGED vars
    BY <1>0 DEF TakesOwn, vars, tdVars
<1>1. ASSUME ReadField PROVE TakesOwn'
    BY <1>1 DEF ReadField, Goes, Types, tdVars, configVars, TakesOwn
<1>2. ASSUME ApplyEnvironment PROVE TakesOwn'
    BY <1>2 DEF ApplyEnvironment, Goes, Types, tdVars, configVars, TakesOwn
<1>3. ASSUME StartBot PROVE TakesOwn'
    BY <1>3 DEF StartBot, Goes, start, Types, tdVars, configVars, TakesOwn
<1>4. ASSUME StartAssistant PROVE TakesOwn'
    BY <1>4 DEF StartAssistant, Goes, start, Types, tdVars, configVars, TakesOwn
<1>5. ASSUME InitDispatcher PROVE TakesOwn'
    BY <1>5 DEF InitDispatcher, Goes, add_update_listener, Types, tdVars, configVars, TakesOwn
<1>6. ASSUME StopBot PROVE TakesOwn'
    BY <1>6 DEF StopBot, StopClient, Goes, stop, joined, Types, tdVars, configVars, TakesOwn
<1>7. ASSUME StopAssistant PROVE TakesOwn'
    BY <1>7 DEF StopAssistant, StopClient, Goes, stop, joined, Types, tdVars, configVars, TakesOwn
<1>8. ASSUME Signalled PROVE TakesOwn'
    BY <1>8 DEF Signalled, Goes, Types, tdVars, configVars, TakesOwn
<1>9. ASSUME NEW c \in Clients, Loops(c), UNCHANGED <<main, configVars>> PROVE TakesOwn'
    BY <1>9 DEF Loops, ReceiverGoes, Types, tdVars, configVars, TakesOwn
<1>10. ASSUME NEW c \in Clients, Receives(c), UNCHANGED <<main, configVars>> PROVE TakesOwn'
    <2>1. CASE inbox = <<>>
        BY <1>10, <2>1 DEF Receives, ReceiverGoes, Types, TakesOwn
    <2>2. CASE inbox # <<>>
        <3>1. /\ taken' = [taken EXCEPT ![c] = Head(inbox)] /\ Head(inbox).to = c
              /\ receiver' = [receiver EXCEPT ![c] = "update"]
            BY <1>10, <2>2 DEF Receives, ReceiverGoes
        <3> QED BY <3>1 DEF TakesOwn, Types
    <2> QED BY <2>1, <2>2
<1>11. ASSUME NEW c \in Clients, process_update(c), UNCHANGED <<main, configVars>> PROVE TakesOwn'
    BY <1>11 DEF process_update, ReceiverGoes, Types, tdVars, configVars, TakesOwn
<1>12. ASSUME NEW c \in Clients, Logout(c) PROVE TakesOwn'
    BY <1>12 DEF Logout, td_logout, Advances, Types, tdVars, configVars, TakesOwn
<1>13. ASSUME NEW c \in Clients, NEW m \in Messages, Message(c, m) PROVE TakesOwn'
    BY <1>13 DEF Message, td_message, Types, tdVars, configVars, TakesOwn
<1> QED BY <1>0, <1>1, <1>2, <1>3, <1>4, <1>5, <1>6, <1>7, <1>8, <1>9, <1>10, <1>11, <1>12,
    <1>13 DEF Next, MainStep, Receiver, ReceiverStep

\* libtdjson stays found or not; an update that went astray is not forgotten.
LEMMA Stays == [Next]_vars => loaded' = loaded /\ (strayed => strayed')
<1> SUFFICES ASSUME [Next]_vars PROVE loaded' = loaded /\ (strayed => strayed')
    OBVIOUS
<1>0. CASE UNCHANGED vars
    BY <1>0 DEF vars, tdVars
<1>1. ASSUME ReadField PROVE loaded' = loaded /\ (strayed => strayed')
    BY <1>1 DEF ReadField, Goes, tdVars
<1>2. ASSUME ApplyEnvironment PROVE loaded' = loaded /\ (strayed => strayed')
    BY <1>2 DEF ApplyEnvironment, Goes, tdVars
<1>3. ASSUME StartBot PROVE loaded' = loaded /\ (strayed => strayed')
    BY <1>3 DEF StartBot, Goes, start, tdVars
<1>4. ASSUME StartAssistant PROVE loaded' = loaded /\ (strayed => strayed')
    BY <1>4 DEF StartAssistant, Goes, start, tdVars
<1>5. ASSUME InitDispatcher PROVE loaded' = loaded /\ (strayed => strayed')
    BY <1>5 DEF InitDispatcher, Goes, add_update_listener, tdVars
<1>6. ASSUME StopBot PROVE loaded' = loaded /\ (strayed => strayed')
    BY <1>6 DEF StopBot, StopClient, Goes, stop, joined, tdVars
<1>7. ASSUME StopAssistant PROVE loaded' = loaded /\ (strayed => strayed')
    BY <1>7 DEF StopAssistant, StopClient, Goes, stop, joined, tdVars
<1>8. ASSUME Signalled PROVE loaded' = loaded /\ (strayed => strayed')
    BY <1>8 DEF Signalled, Goes, tdVars
<1>9. ASSUME NEW c \in Clients, Loops(c), UNCHANGED <<main, configVars>>
      PROVE  loaded' = loaded /\ (strayed => strayed')
    BY <1>9 DEF Loops, ReceiverGoes, tdVars
<1>10. ASSUME NEW c \in Clients, Receives(c), UNCHANGED <<main, configVars>>
       PROVE  loaded' = loaded /\ (strayed => strayed')
    <2>1. UNCHANGED <<loaded, strayed>> \/ (loaded' = loaded /\ strayed' = (strayed \/ Head(inbox).to # c))
        BY <1>10 DEF Receives
    <2>2. strayed => strayed'
        BY Zenon, <2>1
    <2> QED BY <2>1, <2>2
<1>11. ASSUME NEW c \in Clients, process_update(c), UNCHANGED <<main, configVars>>
       PROVE  loaded' = loaded /\ (strayed => strayed')
    BY <1>11 DEF process_update, ReceiverGoes, tdVars
<1>12. ASSUME NEW c \in Clients, Logout(c) PROVE loaded' = loaded /\ (strayed => strayed')
    BY <1>12 DEF Logout, td_logout, Advances, tdVars
<1>13. ASSUME NEW c \in Clients, NEW m \in Messages, Message(c, m)
       PROVE  loaded' = loaded /\ (strayed => strayed')
    BY <1>13 DEF Message, td_message, tdVars
<1> QED BY <1>0, <1>1, <1>2, <1>3, <1>4, <1>5, <1>6, <1>7, <1>8, <1>9, <1>10, <1>11, <1>12,
    <1>13 DEF Next, MainStep, Receiver, ReceiverStep

\* The elements of a queue with one more at the end.
LEMMA AppendFacts ==
    ASSUME NEW S, NEW q \in Seq(S), NEW e, NEW i \in 1 .. Len(Append(q, e))
    PROVE  \/ i \in 1 .. Len(q) /\ Append(q, e)[i] = q[i] /\ q[i] \in S
           \/ i = Len(q) + 1 /\ Append(q, e)[i] = e
OBVIOUS

\* A session that moves on leaves SaidReady true.
LEMMA AdvanceLogged ==
    ASSUME Types, SaidReady, NEW c \in Clients,
           \/ UNCHANGED <<session, inbox>>
           \/ \E to \in States : Advances(c, to) /\ (session[c] \in In => to \in In)
    PROVE  SaidReady' /\ \A d \in Clients : session[d] \in In => session'[d] \in In
<1>1. CASE UNCHANGED <<session, inbox>>
    BY <1>1 DEF SaidReady
<1>2. ASSUME NEW to \in States, Advances(c, to), session[c] \in In => to \in In
      PROVE  SaidReady' /\ \A d \in Clients : session[d] \in In => session'[d] \in In
    <2>1. \A d \in Clients : session[d] \in In => session'[d] \in In
        BY <1>2 DEF Advances, Types
    <2>2. inbox' = Append(inbox, Update(c, to)) /\ session'[c] = to
        BY <1>2 DEF Advances, Types
    <2>3. SaidReady'
        <3> SUFFICES ASSUME NEW i \in 1 .. Len(inbox'), inbox'[i].kind = "Ready"
                     PROVE  session'[inbox'[i].to] \in In
            BY DEF SaidReady
        <3>1. CASE i \in 1 .. Len(inbox)
            <4>1. inbox'[i] = inbox[i] /\ inbox[i] \in Updates
                BY <2>2, <3>1, AppendFacts DEF Types
            <4>2. inbox[i].to \in Clients
                BY <4>1 DEF Updates
            <4> QED BY <2>1, <3>1, <4>1, <4>2 DEF SaidReady
        <3>2. CASE i \notin 1 .. Len(inbox)
            <4>1. inbox'[i] = Update(c, to)
                BY <2>2, <3>2 DEF Types
            <4> QED BY <2>2, <4>1 DEF Update, In
        <3> QED BY <3>1, <3>2
    <2> QED BY <2>1, <2>3
<1> QED BY <1>1, <1>2

LEMMA LoggedInStep ==
    Types /\ TakesOwn /\ LoggedIn /\ loaded /\ [Next]_vars /\ ~strayed' => LoggedIn'
<1> SUFFICES ASSUME Types, TakesOwn, LoggedIn, loaded, [Next]_vars, ~strayed' PROVE LoggedIn'
    OBVIOUS
<1> USE MainAssumption
<1>0. CASE UNCHANGED vars
    BY <1>0 DEF LoggedIn, SaidReady, vars, tdVars
<1>1. ASSUME ReadField PROVE LoggedIn'
    BY <1>1 DEF ReadField, Goes, Types, tdVars, configVars, LoggedIn, SaidReady
<1>2. ASSUME ApplyEnvironment PROVE LoggedIn'
    BY <1>2 DEF ApplyEnvironment, Goes, Types, tdVars, configVars, LoggedIn, SaidReady
<1>3. ASSUME StartBot PROVE LoggedIn'
    <2>1. UNCHANGED <<session, inbox>> \/ td_send(Bot, "setLogVerbosityLevel")
        BY <1>3 DEF StartBot, start, tdVars
    <2>2. SaidReady' /\ \A d \in Clients : session[d] \in In => session'[d] \in In
        BY <2>1, SendFacts, AdvanceLogged DEF LoggedIn
    <2> QED BY <1>3, <2>2 DEF StartBot, start, LoggedIn, Types, tdVars
<1>4. ASSUME StartAssistant PROVE LoggedIn'
    <2>1. UNCHANGED <<session, inbox>> \/ td_send(Assistant, "setLogVerbosityLevel")
        BY <1>4 DEF StartAssistant, start, tdVars
    <2>2. SaidReady' /\ \A d \in Clients : session[d] \in In => session'[d] \in In
        BY <2>1, SendFacts, AdvanceLogged DEF LoggedIn
    <2> QED BY <1>4, <2>2 DEF StartAssistant, start, LoggedIn, Types, tdVars
<1>5. ASSUME InitDispatcher PROVE LoggedIn'
    BY <1>5 DEF InitDispatcher, Goes, add_update_listener, Types, tdVars, configVars, LoggedIn,
                SaidReady
<1>6. ASSUME StopBot PROVE LoggedIn'
    <2>1. UNCHANGED <<session, inbox>> \/ td_send(Bot, "close")
        BY <1>6 DEF StopBot, StopClient, stop, joined, tdVars
    <2>2. SaidReady' /\ \A d \in Clients : session[d] \in In => session'[d] \in In
        BY <2>1, SendFacts, AdvanceLogged DEF LoggedIn
    <2> QED BY <1>6, <2>2 DEF StopBot, StopClient, stop, joined, LoggedIn, Types, tdVars
<1>7. ASSUME StopAssistant PROVE LoggedIn'
    <2>1. UNCHANGED <<session, inbox>> \/ td_send(Assistant, "close")
        BY <1>7 DEF StopAssistant, StopClient, stop, joined, tdVars
    <2>2. SaidReady' /\ \A d \in Clients : session[d] \in In => session'[d] \in In
        BY <2>1, SendFacts, AdvanceLogged DEF LoggedIn
    <2> QED BY <1>7, <2>2 DEF StopAssistant, StopClient, stop, joined, LoggedIn, Types, tdVars
<1>8. ASSUME Signalled PROVE LoggedIn'
    BY <1>8 DEF Signalled, Goes, Types, tdVars, configVars, LoggedIn, SaidReady
<1>9. ASSUME NEW c \in Clients, Loops(c), UNCHANGED <<main, configVars>> PROVE LoggedIn'
    BY <1>9 DEF Loops, ReceiverGoes, Types, tdVars, configVars, LoggedIn, SaidReady
<1>10. ASSUME NEW c \in Clients, Receives(c), UNCHANGED <<main, configVars>> PROVE LoggedIn'
    <2>1. CASE inbox = <<>>
        BY <1>10, <2>1 DEF Receives, ReceiverGoes, Types, LoggedIn, SaidReady
    <2>2. CASE inbox # <<>>
        <3>1. /\ taken' = [taken EXCEPT ![c] = Head(inbox)] /\ Head(inbox).to = c
              /\ receiver' = [receiver EXCEPT ![c] = "update"] /\ inbox' = Tail(inbox)
              /\ UNCHANGED <<session, auth_state>>
            BY <1>10, <2>2 DEF Receives, ReceiverGoes
        <3>2. Head(inbox) = inbox[1] /\ 1 \in 1 .. Len(inbox)
            BY <2>2 DEF Types
        <3>3. Head(inbox).kind = "Ready" => session[c] \in In
            BY <3>1, <3>2 DEF LoggedIn, SaidReady
        <3>4. SaidReady'
            <4>1. \A i \in 1 .. Len(inbox') : i + 1 \in 1 .. Len(inbox) /\ inbox'[i] = inbox[i + 1]
                BY <2>2, <3>1 DEF Types
            <4> QED BY <3>1, <4>1 DEF LoggedIn, SaidReady
        <3> QED BY <3>1, <3>3, <3>4 DEF LoggedIn, Types
    <2> QED BY <2>1, <2>2
<1>11. ASSUME NEW c \in Clients, process_update(c), UNCHANGED <<main, configVars>> PROVE LoggedIn'
    <2>1. /\ taken[c] \in Updates /\ receiver[c] = "update"
          /\ receiver' = [receiver EXCEPT ![c] = "loop"] /\ taken' = [taken EXCEPT ![c] = Nothing]
        BY <1>11 DEF process_update, ReceiverGoes, Types
    <2>2. CASE taken[c].kind \in Messages
        <3>1. UNCHANGED <<auth_state, session, inbox>>
            BY <1>11, <2>2 DEF process_update
        <3> QED BY <2>1, <3>1 DEF LoggedIn, SaidReady, Types
    <2>3. CASE taken[c].kind \notin Messages
        <3>1. /\ auth_state' = [auth_state EXCEPT ![c] = Noted(c, taken[c].kind)]
              /\ td_send(c, Reply(c, taken[c].kind))
            BY <1>11, <2>3 DEF process_update
        <3>2. SaidReady' /\ \A d \in Clients : session[d] \in In => session'[d] \in In
            BY <3>1, SendFacts, AdvanceLogged DEF LoggedIn
        <3>3. Noted(c, taken[c].kind) = "Ready" => taken[c].kind = "Ready"
            BY DEF Noted
        <3> QED BY <2>1, <3>1, <3>2, <3>3 DEF LoggedIn, Types
    <2> QED BY <2>2, <2>3
<1>12. ASSUME NEW c \in Clients, Logout(c) PROVE LoggedIn'
    <2>1. Advances(c, "LoggingOut") /\ "LoggingOut" \in In /\ "LoggingOut" \in States
        BY <1>12 DEF Logout, td_logout, In, States
    <2>2. SaidReady' /\ \A d \in Clients : session[d] \in In => session'[d] \in In
        BY <2>1, AdvanceLogged DEF LoggedIn
    <2> QED BY <1>12, <2>2 DEF Logout, td_logout, LoggedIn, Types
<1>13. ASSUME NEW c \in Clients, NEW m \in Messages, Message(c, m) PROVE LoggedIn'
    <2>1. /\ inbox' = Append(inbox, Update(c, m)) /\ session[c] = "Ready"
          /\ UNCHANGED <<session, auth_state, receiver, taken>>
        BY <1>13 DEF Message, td_message
    <2>2. SaidReady'
        <3>1. ASSUME NEW i \in 1 .. Len(inbox')
              PROVE  inbox'[i] = Update(c, m) \/ (i \in 1 .. Len(inbox) /\ inbox'[i] = inbox[i])
            BY <2>1, <3>1, AppendFacts DEF Types
        <3> QED BY <2>1, <3>1 DEF LoggedIn, SaidReady, Update, In
    <2> QED BY <2>1, <2>2 DEF LoggedIn
<1> QED BY <1>0, <1>1, <1>2, <1>3, <1>4, <1>5, <1>6, <1>7, <1>8, <1>9, <1>10, <1>11, <1>12,
    <1>13 DEF Next, MainStep, Receiver, ReceiverStep

-----------------------------------------------------------------------------
\* The bot's copy of message m is at place i of the queue; is in the hand of its receiver.
InInbox(m, i) == i \in 1 .. Len(inbox) /\ inbox[i] = Update(Bot, m)
InHand(m) == receiver[Bot] = "update" /\ taken[Bot] = Update(Bot, m)

\* A message for the bot is unwritten, once in the queue, in hand, or dispatched.
OnceEach == \A m \in Messages :
    /\ dispatched[m] <= 1
    /\ \A i, j \in 1 .. Len(inbox) : InInbox(m, i) /\ InInbox(m, j) => i = j
    /\ (\E i \in 1 .. Len(inbox) : InInbox(m, i)) => ~InHand(m) /\ dispatched[m] = 0
    /\ InHand(m) => dispatched[m] = 0
    /\ m \notin written[Bot] => /\ dispatched[m] = 0 /\ ~InHand(m)
                                /\ \A i \in 1 .. Len(inbox) : ~InInbox(m, i)

\* What is said about a session does not touch the messages.
LEMMA AdvanceOnce ==
    ASSUME Types, OnceEach, NEW c \in Clients,
           \/ UNCHANGED <<session, inbox>>
           \/ \E to \in States : Advances(c, to),
           UNCHANGED <<dispatched, written>>,
           \A m \in Messages : InHand(m)' => InHand(m)
    PROVE  OnceEach'
<1>1. \A m \in Messages, i \in 1 .. Len(inbox') : InInbox(m, i)' => i \in 1 .. Len(inbox) /\ InInbox(m, i)
    <2>1. CASE UNCHANGED <<session, inbox>>
        BY <2>1 DEF InInbox
    <2>2. ASSUME NEW to \in States, Advances(c, to),
                 NEW m \in Messages, NEW i \in 1 .. Len(inbox'), InInbox(m, i)'
          PROVE  i \in 1 .. Len(inbox) /\ InInbox(m, i)
        <3>1. inbox' = Append(inbox, Update(c, to)) /\ Update(c, to) # Update(Bot, m)
            BY <2>2, TDLibAssumption DEF Advances, Update
        <3> QED BY <2>2, <3>1 DEF InInbox, Types
    <2> QED BY <2>1, <2>2
<1> QED BY <1>1 DEF OnceEach

LEMMA OnceEachStep ==
    Types /\ OneListener /\ TakesOwn /\ OnceEach /\ [Next]_vars /\ ~strayed' => OnceEach'
<1> SUFFICES ASSUME Types, OneListener, TakesOwn, OnceEach, [Next]_vars, ~strayed' PROVE OnceEach'
    OBVIOUS
<1> USE MainAssumption
<1>0. CASE UNCHANGED vars
    BY <1>0 DEF OnceEach, InInbox, InHand, vars, tdVars
<1>1. ASSUME ReadField PROVE OnceEach'
    BY <1>1 DEF ReadField, Goes, Types, tdVars, configVars, OnceEach, InInbox, InHand
<1>2. ASSUME ApplyEnvironment PROVE OnceEach'
    BY <1>2 DEF ApplyEnvironment, Goes, Types, tdVars, configVars, OnceEach, InInbox, InHand
<1>3. ASSUME StartBot PROVE OnceEach'
    <2>1. UNCHANGED <<session, inbox>> \/ td_send(Bot, "setLogVerbosityLevel")
        BY <1>3 DEF StartBot, start, tdVars
    <2>2. UNCHANGED <<dispatched, written, taken>> /\ (receiver'[Bot] = "update" => receiver[Bot] = "update")
        BY <1>3 DEF StartBot, start, tdVars, Types
    <2> QED BY <2>1, <2>2, SendFacts, AdvanceOnce DEF InHand
<1>4. ASSUME StartAssistant PROVE OnceEach'
    <2>1. UNCHANGED <<session, inbox>> \/ td_send(Assistant, "setLogVerbosityLevel")
        BY <1>4 DEF StartAssistant, start, tdVars
    <2>2. UNCHANGED <<dispatched, written, taken>> /\ (receiver'[Bot] = "update" => receiver[Bot] = "update")
        BY <1>4 DEF StartAssistant, start, tdVars, Types
    <2> QED BY <2>1, <2>2, SendFacts, AdvanceOnce DEF InHand
<1>5. ASSUME InitDispatcher PROVE OnceEach'
    BY <1>5 DEF InitDispatcher, Goes, add_update_listener, Types, tdVars, configVars, OnceEach,
                InInbox, InHand
<1>6. ASSUME StopBot PROVE OnceEach'
    <2>1. UNCHANGED <<session, inbox>> \/ td_send(Bot, "close")
        BY <1>6 DEF StopBot, StopClient, stop, joined, tdVars
    <2>2. UNCHANGED <<dispatched, written, taken>> /\ (receiver'[Bot] = "update" => receiver[Bot] = "update")
        BY <1>6 DEF StopBot, StopClient, stop, joined, tdVars, Types
    <2> QED BY <2>1, <2>2, SendFacts, AdvanceOnce DEF InHand
<1>7. ASSUME StopAssistant PROVE OnceEach'
    <2>1. UNCHANGED <<session, inbox>> \/ td_send(Assistant, "close")
        BY <1>7 DEF StopAssistant, StopClient, stop, joined, tdVars
    <2>2. UNCHANGED <<dispatched, written, taken>> /\ (receiver'[Bot] = "update" => receiver[Bot] = "update")
        BY <1>7 DEF StopAssistant, StopClient, stop, joined, tdVars, Types
    <2> QED BY <2>1, <2>2, SendFacts, AdvanceOnce DEF InHand
<1>8. ASSUME Signalled PROVE OnceEach'
    BY <1>8 DEF Signalled, Goes, Types, tdVars, configVars, OnceEach, InInbox, InHand
<1>9. ASSUME NEW c \in Clients, Loops(c), UNCHANGED <<main, configVars>> PROVE OnceEach'
    <2>1. /\ UNCHANGED <<session, inbox, dispatched, written, taken>>
          /\ receiver'[Bot] = "update" => receiver[Bot] = "update"
        BY <1>9 DEF Loops, ReceiverGoes, Types
    <2> QED BY <2>1, AdvanceOnce DEF InHand
<1>10. ASSUME NEW c \in Clients, Receives(c), UNCHANGED <<main, configVars>> PROVE OnceEach'
    <2>1. CASE inbox = <<>>
        <3>1. /\ UNCHANGED <<session, inbox, dispatched, written, taken>>
              /\ receiver'[Bot] = "update" => receiver[Bot] = "update"
            BY <1>10, <2>1 DEF Receives, ReceiverGoes, Types
        <3> QED BY <3>1, AdvanceOnce DEF InHand
    <2>2. CASE inbox # <<>>
        <3>1. /\ receiver[c] = "receive" /\ taken' = [taken EXCEPT ![c] = Head(inbox)]
              /\ receiver' = [receiver EXCEPT ![c] = "update"] /\ inbox' = Tail(inbox)
              /\ Head(inbox).to = c /\ UNCHANGED <<dispatched, written>>
            BY <1>10, <2>2 DEF Receives, ReceiverGoes
        <3>2. Head(inbox) = inbox[1] /\ 1 \in 1 .. Len(inbox)
            BY <2>2 DEF Types
        <3>3. \A i \in 1 .. Len(inbox') : i \in Int /\ i # 0 /\ i + 1 \in 1 .. Len(inbox) /\ inbox'[i] = inbox[i + 1]
            BY <2>2, <3>1 DEF Types
        <3>4. \A m \in Messages, i \in 1 .. Len(inbox') : InInbox(m, i)' => InInbox(m, i + 1)
            BY <3>3 DEF InInbox
        <3>5. \A m \in Messages : InHand(m)' => InHand(m) \/ InInbox(m, 1)
            BY <3>1, <3>2 DEF InHand, InInbox, Types
        <3> SUFFICES ASSUME NEW m \in Messages
                     PROVE  /\ \A i, j \in 1 .. Len(inbox') : InInbox(m, i)' /\ InInbox(m, j)' => i = j
                            /\ (\E i \in 1 .. Len(inbox') : InInbox(m, i)') => ~InHand(m)' /\ dispatched[m] = 0
                            /\ InHand(m)' => dispatched[m] = 0
                            /\ m \notin written[Bot] => /\ ~InHand(m)'
                                                        /\ \A i \in 1 .. Len(inbox') : ~InInbox(m, i)'
            BY <3>1 DEF OnceEach
        <3>6. \A i, j \in 1 .. Len(inbox') : InInbox(m, i)' /\ InInbox(m, j)' => i = j
            <4> SUFFICES ASSUME NEW i \in 1 .. Len(inbox'), NEW j \in 1 .. Len(inbox'),
                                InInbox(m, i)', InInbox(m, j)'
                         PROVE  i = j
                OBVIOUS
            <4>1. i + 1 = j + 1
                BY <3>3, <3>4 DEF OnceEach
            <4> QED BY <3>3, <4>1
        <3>7. (\E i \in 1 .. Len(inbox') : InInbox(m, i)') => ~InHand(m)' /\ dispatched[m] = 0
            <4> SUFFICES ASSUME NEW i \in 1 .. Len(inbox'), InInbox(m, i)'
                         PROVE  ~InHand(m)' /\ dispatched[m] = 0
                OBVIOUS
            <4>1. InInbox(m, i + 1) /\ i + 1 \in 1 .. Len(inbox) /\ i + 1 # 1
                BY <3>3, <3>4
            <4>2. ~InInbox(m, 1)
                BY <3>2, <4>1 DEF OnceEach
            <4> QED BY <3>5, <4>1, <4>2 DEF OnceEach
        <3>8. InHand(m)' => dispatched[m] = 0
            BY <3>2, <3>5 DEF OnceEach
        <3>9. m \notin written[Bot] => /\ ~InHand(m)'
                                       /\ \A i \in 1 .. Len(inbox') : ~InInbox(m, i)'
            BY <3>2, <3>3, <3>4, <3>5 DEF OnceEach
        <3> QED BY <3>6, <3>7, <3>8, <3>9
    <2> QED BY <2>1, <2>2
<1>11. ASSUME NEW c \in Clients, process_update(c), UNCHANGED <<main, configVars>> PROVE OnceEach'
    <2>1. /\ taken[c] \in Updates /\ receiver[c] = "update" /\ taken[c].to = c /\ UNCHANGED written
          /\ receiver' = [receiver EXCEPT ![c] = "loop"] /\ taken' = [taken EXCEPT ![c] = Nothing]
        BY <1>11 DEF process_update, ReceiverGoes, Types, TakesOwn
    <2>2. \A m \in Messages : InHand(m)' => InHand(m) /\ c # Bot
        BY <2>1 DEF InHand, Types
    <2>3. CASE taken[c].kind \in Messages
        <3>1. /\ dispatched' = [dispatched EXCEPT ![taken[c].kind] = @ + IF c \in listening THEN 1 ELSE 0]
              /\ UNCHANGED <<session, inbox>>
            BY <1>11, <2>3 DEF process_update
        <3>2. CASE c = Bot
            <4> DEFINE k == taken[c].kind
            <4>1. InHand(k) /\ dispatched[k] = 0
                BY <2>1, <2>3, <3>2 DEF InHand, Update, Updates, OnceEach
            <4>2. dispatched'[k] \in {0, 1} /\ \A m \in Messages \ {k} : dispatched'[m] = dispatched[m]
                BY <2>3, <3>1, <4>1 DEF Types
            <4>3. \A m \in Messages : ~InHand(m)'
                BY <2>2, <3>2
            <4>4. \A m \in Messages : \A i \in 1 .. Len(inbox) : InInbox(m, i)' = InInbox(m, i)
                BY <3>1 DEF InInbox
            <4>5. k \in written[Bot] /\ \A i \in 1 .. Len(inbox) : ~InInbox(k, i)
                BY <2>3, <4>1 DEF OnceEach
            <4> SUFFICES ASSUME NEW m \in Messages
                         PROVE  /\ dispatched'[m] <= 1
                                /\ \A i, j \in 1 .. Len(inbox) : InInbox(m, i) /\ InInbox(m, j) => i = j
                                /\ (\E i \in 1 .. Len(inbox) : InInbox(m, i)) => dispatched'[m] = 0
                                /\ m \notin written[Bot] => /\ dispatched'[m] = 0
                                                            /\ \A i \in 1 .. Len(inbox) : ~InInbox(m, i)
                BY <2>1, <3>1, <4>3, <4>4 DEF OnceEach
            <4>6. CASE m = k
                BY <4>2, <4>5, <4>6
            <4>7. CASE m # k
                BY <4>2, <4>7 DEF OnceEach
            <4> QED BY <4>6, <4>7
        <3>3. CASE c # Bot
            <4>1. UNCHANGED dispatched
                BY <2>3, <3>1, <3>3 DEF OneListener, Types
            <4> QED BY <2>1, <2>2, <3>1, <4>1, AdvanceOnce
        <3> QED BY <3>2, <3>3
    <2>4. CASE taken[c].kind \notin Messages
        <3>1. td_send(c, Reply(c, taken[c].kind)) /\ UNCHANGED dispatched
            BY <1>11, <2>4 DEF process_update
        <3> QED BY <2>1, <2>2, <3>1, SendFacts, AdvanceOnce
    <2> QED BY <2>3, <2>4
<1>12. ASSUME NEW c \in Clients, Logout(c) PROVE OnceEach'
    <2>1. Advances(c, "LoggingOut") /\ "LoggingOut" \in States
          /\ UNCHANGED <<dispatched, written, receiver, taken>>
        BY <1>12 DEF Logout, td_logout, States
    <2> QED BY <2>1, AdvanceOnce DEF InHand
<1>13. ASSUME NEW c \in Clients, NEW m \in Messages, Message(c, m) PROVE OnceEach'
    <2>1. /\ inbox' = Append(inbox, Update(c, m)) /\ m \notin written[c]
          /\ written' = [written EXCEPT ![c] = @ \cup {m}]
          /\ UNCHANGED <<dispatched, receiver, taken>>
        BY <1>13 DEF Message, td_message
    <2>2. \A k \in Messages : InHand(k)' = InHand(k)
        BY <2>1 DEF InHand
    <2>3. \A k \in Messages, i \in 1 .. Len(inbox') : InInbox(k, i)' =>
                \/ i \in 1 .. Len(inbox) /\ InInbox(k, i)
                \/ i = Len(inbox) + 1 /\ k = m /\ c = Bot
        BY <2>1 DEF InInbox, Types, Update
    <2>4. \A k \in Messages : (k \in written[Bot] => k \in written'[Bot]) /\ (c = Bot => m \in written'[Bot])
        BY <2>1 DEF Types
    <2>4a. \A k \in Messages : k \in written'[Bot] => k \in written[Bot] \/ (k = m /\ c = Bot)
        BY <2>1 DEF Types
    <2>5. CASE c # Bot
        BY <2>1, <2>2, <2>3, <2>4, <2>4a, <2>5 DEF OnceEach
    <2>6. CASE c = Bot
        <3> SUFFICES ASSUME NEW k \in Messages
                     PROVE  /\ \A i, j \in 1 .. Len(inbox') : InInbox(k, i)' /\ InInbox(k, j)' => i = j
                            /\ (\E i \in 1 .. Len(inbox') : InInbox(k, i)') => ~InHand(k) /\ dispatched[k] = 0
                            /\ k \notin written'[Bot] => /\ dispatched[k] = 0 /\ ~InHand(k)
                                                         /\ \A i \in 1 .. Len(inbox') : ~InInbox(k, i)'
            BY <2>1, <2>2 DEF OnceEach
        <3>1. CASE k = m
            <4>1. dispatched[m] = 0 /\ ~InHand(m) /\ \A i \in 1 .. Len(inbox) : ~InInbox(m, i)
                BY <2>1, <2>6 DEF OnceEach
            <4>2. \A i \in 1 .. Len(inbox') : InInbox(m, i)' => i = Len(inbox) + 1
                BY <2>3, <4>1
            <4> QED BY <2>4, <2>6, <3>1, <4>1, <4>2
        <3>2. CASE k # m
            <4>1. \A i \in 1 .. Len(inbox') : InInbox(k, i)' => i \in 1 .. Len(inbox) /\ InInbox(k, i)
                BY <2>3, <3>2
            <4> QED BY <2>4, <3>2, <4>1 DEF OnceEach
        <3> QED BY <3>1, <3>2
    <2> QED BY <2>5, <2>6
<1> QED BY <1>0, <1>1, <1>2, <1>3, <1>4, <1>5, <1>6, <1>7, <1>8, <1>9, <1>10, <1>11, <1>12,
    <1>13 DEF Next, MainStep, Receiver, ReceiverStep

-----------------------------------------------------------------------------
ConfigTypes == config \in [Config!Fields -> Config!Sources]

LEMMA ConfigStep == ConfigTypes /\ [Next]_vars => ConfigTypes'
<1> SUFFICES ASSUME ConfigTypes, [Next]_vars PROVE ConfigTypes'
    OBVIOUS
<1>1. CASE UNCHANGED config
    BY <1>1 DEF ConfigTypes
<1>2. ASSUME ReadField PROVE ConfigTypes'
    BY <1>2 DEF ReadField, ConfigTypes, Config!read_field, Config!Sources
<1>3. ASSUME ApplyEnvironment PROVE ConfigTypes'
    <2>1. \A f \in Config!Fields : Config!apply_env_overrides(config, env)[f] \in Config!Sources
        <3> SUFFICES ASSUME NEW f \in Config!Fields
                     PROVE  Config!apply_env_overrides(config, env)[f] \in Config!Sources
            OBVIOUS
        <3>1. config[f] \in Config!Sources
            BY DEF ConfigTypes
        <3>2. Config!apply_env_overrides(config, env)[f] \in {config[f], config[f] \cup {"environment"}, {"environment"}}
            BY DEF Config!apply_env_overrides
        <3> QED BY <3>1, <3>2 DEF Config!Sources
    <2> QED BY <1>3, <2>1 DEF ApplyEnvironment, ConfigTypes, Config!apply_env_overrides
<1>4. ASSUME StartAssistant PROVE ConfigTypes'
    BY <1>4 DEF StartAssistant, ConfigTypes, Config!Default, Config!Sources
<1> QED BY <1>1, <1>2, <1>3, <1>4
        DEF Next, MainStep, Receiver, StartBot, InitDispatcher, StopBot, StopAssistant,
            StopClient,
            Signalled, Logout, Message, vars, configVars

-----------------------------------------------------------------------------
(* The settings. *)

\* The settings in the order of load().
Key(i) == Config!FieldOrder[i]
Last == 12

LEMMA Order ==
    /\ Len(Config!FieldOrder) = Last
    /\ \A i \in 1 .. Last : Key(i) \in Config!Fields
    /\ \A i, j \in 1 .. Last : Key(i) = Key(j) => i = j
<1>1. Len(Config!FieldOrder) = Last
    BY DEF Config!FieldOrder, Last
<1>2. \A i \in 1 .. Last : Key(i) \in Config!Fields
    BY <1>1 DEF Key, Config!Fields
<1>3. \A i, j \in 1 .. Last : Key(i) = Key(j) => i = j
    BY DEF Key, Config!FieldOrder, Last
<1> QED BY <1>1, <1>2, <1>3

\* The file is read up to the i-th field.
Reached(i) == \A j \in 1 .. i - 1 : file[Key(j)] # "bad"

\* What the i-th field of the file leaves in the configuration.
Kept(i) == file[Key(i)] = "good" \/ (Key(i) = "sudo_users" /\ file[Key(i)] = "bad")

\* While the file is read the configuration has what the fields before the next one give.
Reading ==
    /\ file \in [Config!Fields -> Config!Values]
    /\ env \in [Config!Fields -> Config!Values]
    /\ \A f \in Config!Fields : env[f] = "bad" => f \in Config!Numbers \cup {"sudo_users"}
    /\ main = "load" =>
        /\ field \in 1 .. Last + 1
        /\ field <= Last => Reached(field)
        /\ \A i \in 1 .. Last :
              config[Key(i)] = IF i < field /\ Reached(i) /\ Kept(i) THEN {"file"} ELSE {}
    /\ SettingsComeFrom

LEMMA ReadingStep == ConfigTypes /\ Reading /\ [Next]_vars => Reading'
<1> SUFFICES ASSUME ConfigTypes, Reading, [Next]_vars PROVE Reading'
    OBVIOUS
<1>1. ASSUME ReadField PROVE Reading'
    <2>1. /\ main = "load" /\ main' = "load" /\ field \in 1 .. Last /\ file' = file /\ env' = env
          /\ config' = Config!read_field(config, file, field)
          /\ field' = Config!after_field(file, field)
        BY <1>1, Order DEF ReadField, Reading
    <2>2. Reached(field) /\ \A i \in 1 .. Last : (Key(i) = Key(field) => i = field) /\ Key(i) \in Config!Fields
        BY <2>1, Order DEF Reading
    <2>3. \A i \in 1 .. Last : config'[Key(i)] = IF i = field /\ Kept(field) THEN {"file"} ELSE config[Key(i)]
        BY <2>1, <2>2 DEF Config!read_field, Kept, Key, ConfigTypes
    <2>4. field' = IF file[Key(field)] = "bad" THEN Last + 1 ELSE field + 1
        BY <2>1, Order DEF Config!after_field, Key
    <2>5. field' \in 1 .. Last + 1 /\ (field' <= Last => \A j \in 1 .. field' - 1 : file[Key(j)] # "bad")
        BY <2>1, <2>2, <2>4 DEF Reached, Last
    <2>6. \A i \in 1 .. Last : i # field =>
             ((i < field' /\ Reached(i)) <=> (i < field /\ Reached(i)))
        BY <2>1, <2>4 DEF Reached, Last
    <2>6a. field < field'
        BY <2>1, <2>4 DEF Last
    <2>7. \A i \in 1 .. Last :
              config'[Key(i)] = IF i < field' /\ Reached(i) /\ Kept(i) THEN {"file"} ELSE {}
        BY <2>1, <2>2, <2>3, <2>6, <2>6a DEF Reading
    <2> QED BY <2>1, <2>5, <2>7 DEF Reading, Reached, Kept, SettingsComeFrom
<1>2. ASSUME ApplyEnvironment PROVE Reading'
    <2>1. /\ main = "load" /\ main' = "start_bot" /\ file' = file /\ env' = env
          /\ field > Last
          /\ config' = Config!apply_env_overrides(config, env)
        BY <1>2, Order DEF ApplyEnvironment, Goes
    <2>2. \A i \in 1 .. Last : config[Key(i)] = IF Reached(i) /\ Kept(i) THEN {"file"} ELSE {}
        BY <2>1 DEF Reading, Last
    <2>3. ASSUME NEW i \in 1 .. Last
          PROVE  /\ Key(i) \notin Config!FileOnly /\ env[Key(i)] = "good" => "environment" \in config'[Key(i)]
                 /\ Key(i) \in Config!FileOnly \/ env[Key(i)] # "good" =>
                       ("file" \in config'[Key(i)] <=> Reached(i) /\ Kept(i))
        <3>1. /\ Key(i) \in Config!Fields /\ env[Key(i)] \in {"absent", "good", "bad"}
              /\ env[Key(i)] = "bad" => Key(i) \in Config!Numbers \cup {"sudo_users"}
            BY Order DEF Reading, Config!Values
        <3>2. config'[Key(i)] \in {config[Key(i)], config[Key(i)] \cup {"environment"}, {"environment"}}
            BY <2>1, <3>1 DEF Config!apply_env_overrides
        <3>3. Key(i) \notin Config!FileOnly /\ env[Key(i)] = "good" => "environment" \in config'[Key(i)]
            BY <2>1, <3>1 DEF Config!apply_env_overrides
        <3>4. Key(i) \in Config!FileOnly \/ env[Key(i)] # "good" => config'[Key(i)] = config[Key(i)]
            BY <2>1, <3>1 DEF Config!apply_env_overrides, Config!FileOnly, Config!Numbers
        <3> QED BY <2>2, <3>3, <3>4
    <2>4. SettingsComeFrom'
        BY <2>1, <2>3, Order DEF SettingsComeFrom, Reached, Kept, Key
    <2> QED BY <2>1, <2>4 DEF Reading
<1>3. ASSUME StartBot PROVE Reading'
    BY <1>3 DEF StartBot, Goes, configVars, Reading, SettingsComeFrom
<1>4. ASSUME StartAssistant PROVE Reading'
    BY <1>4 DEF StartAssistant, Goes, Reading, SettingsComeFrom, Config!Values
<1>5. ASSUME UNCHANGED configVars, main' \notin {"load", "start_bot"} PROVE Reading'
    BY <1>5 DEF configVars, Reading, SettingsComeFrom
<1>6. ASSUME UNCHANGED <<main, configVars>> PROVE Reading'
    BY <1>6 DEF configVars, Reading, SettingsComeFrom, Reached, Kept
<1>7. CASE InitDispatcher \/ Signalled \/ StopBot \/ StopAssistant
    BY <1>5, <1>7 DEF InitDispatcher, Signalled, StopBot, StopAssistant, StopClient, Goes
<1> QED BY <1>1, <1>2, <1>3, <1>4, <1>6, <1>7
        DEF Next, MainStep, Receiver, Logout, Message, vars

LEMMA ReadingInit == Init => Reading
<1> SUFFICES ASSUME Init PROVE Reading
    OBVIOUS
<1>1. \A i \in 1 .. Last : config[Key(i)] = {}
    BY Order DEF Init, Config!Default
<1> QED BY <1>1, SettingsAssumption DEF Init, Reading, SettingsComeFrom, Last, Reached

-----------------------------------------------------------------------------
IInv == /\ Types /\ ConfigTypes /\ Reading /\ OneListener
        /\ ~strayed => TakesOwn /\ OnceEach
        /\ loaded /\ ~strayed => LoggedIn

LEMMA InitInv == Init => IInv
<1> SUFFICES ASSUME Init PROVE IInv
    OBVIOUS
<1>1. Types
    <2>1. inbox \in Seq(Updates) /\ Nothing \in Updates \cup {Nothing}
        BY DEF Init, TDInit
    <2>2. taken \in [Clients -> Updates \cup {Nothing}]
        BY <2>1 DEF Init, TDInit
    <2> HIDE DEF Nothing
    <2>3. written \in [Clients -> SUBSET Messages] /\ dispatched \in [Messages -> Nat]
        BY DEF Init, TDInit
    <2> QED BY <2>1, <2>2, <2>3 DEF Init, TDInit, Types, Names
<1>c. ConfigTypes
    BY DEF Init, ConfigTypes, Config!Default, Config!Sources
<1>2. OneListener
    BY DEF Init, TDInit, OneListener, InBoth, BotStopped
<1>3. TakesOwn /\ LoggedIn
    BY DEF Init, TDInit, TakesOwn, LoggedIn, SaidReady
<1>4. OnceEach
    BY MainAssumption DEF Init, TDInit, OnceEach, InInbox, InHand
<1> QED BY <1>1, <1>c, <1>2, <1>3, <1>4, ReadingInit DEF IInv

LEMMA InvStep == IInv /\ [Next]_vars => IInv'
BY TypesStep, ConfigStep, ReadingStep, OneListenerStep, TakesOwnStep, OnceEachStep, LoggedInStep,
    Stays DEF IInv

LEMMA Invariance == Spec => []IInv
BY InitInv, InvStep, PTL DEF Spec

(***************************************************************************)
(* The states of the sessions, the receivers, the queue and the settings   *)
(* are of their types, for any messages, files and environments.           *)
(***************************************************************************)
THEOREM TypeCorrect == Spec => []TypeOK
<1>1. IInv => TypeOK
    BY DEF IInv, Types, ConfigTypes, Names, TypeOK
<1> QED BY <1>1, Invariance, PTL

(***************************************************************************)
(* Whatever is wrong with the file and wherever, a setting that the        *)
(* environment gives well comes from there, and any other one from the     *)
(* file unless a field before it has stopped the reading: by induction     *)
(* along the fields, Reading says what the ones before the next have given.*)
(***************************************************************************)
THEOREM SettingsAreRight == Spec => []SettingsComeFrom
<1>1. IInv => SettingsComeFrom
    BY DEF IInv, Reading
<1> QED BY <1>1, Invariance, PTL

(***************************************************************************)
(* auth_state() is Ready only for a session that has been logged in, as    *)
(* long as no receiver takes an update of the other session, for any       *)
(* messages, files and environments.                                       *)
(***************************************************************************)
THEOREM ReadyIsTrue == Spec => []ReadyMeansLoggedIn
<1>1. IInv => ReadyMeansLoggedIn
    BY DEF IInv, LoggedIn, ReadyMeansLoggedIn, In
<1> QED BY <1>1, Invariance, PTL

(***************************************************************************)
(* However many messages there are, the dispatcher gets each of them once  *)
(* at most, as long as no receiver takes an update of the other session.   *)
(***************************************************************************)
THEOREM NothingTwice == Spec => []HandledOnceAtMost
<1>1. IInv => HandledOnceAtMost
    BY DEF IInv, OnceEach, HandledOnceAtMost
<1> QED BY <1>1, Invariance, PTL

(***************************************************************************)
(* After bot_client->stop() the dispatcher gets no message, strayed        *)
(* updates or not: only the bot's client has a listener, and its receiver  *)
(* has been joined.                                                        *)
(***************************************************************************)
THEOREM StopIsFinal == Spec => NoMessageAfterStop
<1>1. ASSUME IInv, [Next]_vars PROVE [BotStopped => dispatched' = dispatched]_vars
    <2> SUFFICES ASSUME BotStopped PROVE dispatched' = dispatched
        OBVIOUS
    <2>1. CASE UNCHANGED vars
        BY <2>1 DEF vars, tdVars
    <2>2. ASSUME NEW c \in Clients, process_update(c) PROVE dispatched' = dispatched
        <3>1. c \notin listening
            BY <1>1, <2>2 DEF IInv, OneListener, process_update, ReceiverGoes
        <3>2. dispatched \in [Messages -> Nat]
            BY <1>1 DEF IInv, Types
        <3> QED BY <2>2, <3>1, <3>2 DEF process_update
    <2> QED BY <1>1, <2>1, <2>2 DEF Next, MainStep, Receiver, ReceiverStep, ReadField,
                                    ApplyEnvironment, StartBot, StartAssistant, InitDispatcher,
                                    StopBot, StopAssistant, StopClient, Signalled, Logout,
                                    Message, start, stop, joined, add_update_listener, Loops,
                                    Receives, td_logout, td_message, tdVars, vars
<1> QED BY <1>1, Invariance, PTL DEF Spec, NoMessageAfterStop
=============================================================================
