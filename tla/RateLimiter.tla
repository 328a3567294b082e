---------------------------- MODULE RateLimiter ----------------------------
(***************************************************************************)
(* core::RateLimiter (src/core/rate_limiter.cpp): one token bucket per     *)
(* user or chat.  The mutex covers the whole of allow(), the reading of    *)
(* the clock included, so a call is one step and sees time move forwards.  *)
(*                                                                         *)
(* Tokens are counted in a unit small enough for the rate per tick and the *)
(* price of a command to be integers; the rounding of double is left out.  *)
(***************************************************************************)
EXTENDS Integers, Sequences

CONSTANTS Entities,
          Rate,      \* tokens_per_sec_, per tick
          Burst,     \* burst_limit_
          Price,     \* entity -> tokens_requested, the price of its commands
          MaxTime    \* bounds the model

ASSUME LimiterAssumption ==
    Rate \in Nat /\ Burst \in Nat /\ MaxTime \in Nat /\ Price \in [Entities -> Nat]

VARIABLES now,           \* steady_clock
          known,         \* the entities that have a bucket in buckets_
          tokens, last_update,
          granted,       \* history: entity -> when allow returned true
          answer         \* history: entity -> what allow returned at this time

vars == <<now, known, tokens, last_update, granted, answer>>

Init ==
    /\ now = 0
    /\ known = {}
    /\ tokens = [e \in Entities |-> 0]
    /\ last_update = [e \in Entities |-> 0]
    /\ granted = [e \in Entities |-> <<>>]
    /\ answer = [e \in Entities |-> "none"]

Tick ==
    /\ now < MaxTime
    /\ now' = now + 1
    /\ answer' = [e \in Entities |-> "none"]
    /\ UNCHANGED <<known, tokens, last_update, granted>>

True(e) == /\ granted' = [granted EXCEPT ![e] = Append(@, now)]
           /\ answer' = [answer EXCEPT ![e] = "yes"]

False(e) == /\ answer' = [answer EXCEPT ![e] = "no"]
            /\ UNCHANGED granted

\* The first call for an entity makes its bucket, unless the bucket would be overdrawn.
FirstContact(e) ==
    /\ e \notin known
    /\ \/ /\ Price[e] <= Burst
          /\ known' = known \cup {e}
          /\ tokens' = [tokens EXCEPT ![e] = Burst - Price[e]]
          /\ last_update' = [last_update EXCEPT ![e] = now]
          /\ True(e)
       \/ /\ Price[e] > Burst
          /\ False(e)
          /\ UNCHANGED <<known, tokens, last_update>>
    /\ UNCHANGED now

Refilled(e) ==
    LET filled == tokens[e] + (now - last_update[e]) * Rate
    IN  IF filled < Burst THEN filled ELSE Burst

\* Mutant of Draw: last_update stays, so that the same time is paid out again.
DrawPaysTwice(e) ==
    /\ e \in known
    /\ \/ /\ Refilled(e) >= Price[e]
          /\ tokens' = [tokens EXCEPT ![e] = Refilled(e) - Price[e]]
          /\ True(e)
       \/ /\ Refilled(e) < Price[e]
          /\ tokens' = [tokens EXCEPT ![e] = Refilled(e)]
          /\ False(e)
    /\ UNCHANGED <<now, known, last_update>>

\* Mutant of Draw: a refused call moves last_update and loses the refill.
DrawLosesRefill(e) ==
    /\ e \in known
    /\ last_update' = [last_update EXCEPT ![e] = now]
    /\ \/ /\ Refilled(e) >= Price[e]
          /\ tokens' = [tokens EXCEPT ![e] = Refilled(e) - Price[e]]
          /\ True(e)
       \/ /\ Refilled(e) < Price[e]
          /\ False(e)
          /\ UNCHANGED tokens
    /\ UNCHANGED <<now, known>>

\* Later ones refill it first, also when they are refused.
Draw(e) ==
    /\ e \in known
    /\ last_update' = [last_update EXCEPT ![e] = now]
    /\ \/ /\ Refilled(e) >= Price[e]
          /\ tokens' = [tokens EXCEPT ![e] = Refilled(e) - Price[e]]
          /\ True(e)
       \/ /\ Refilled(e) < Price[e]
          /\ tokens' = [tokens EXCEPT ![e] = Refilled(e)]
          /\ False(e)
    /\ UNCHANGED <<now, known>>

allow(e) == FirstContact(e) \/ Draw(e)

Next == Tick \/ \E e \in Entities : allow(e)

Spec == Init /\ [][Next]_vars

-----------------------------------------------------------------------------
TypeOK ==
    /\ now \in Nat
    /\ known \subseteq Entities
    /\ tokens \in [Entities -> 0 .. Burst]
    /\ last_update \in [Entities -> Nat]
    /\ granted \in [Entities -> Seq(Nat)]
    /\ answer \in [Entities -> {"none", "yes", "no"}]

(***************************************************************************)
(* The bucket is not a fixed window: between any two commands of an entity *)
(* that were let through, however far apart, no more of them got through   *)
(* than the burst and the refill of that time pay for.  A call that is     *)
(* refused refills the bucket as well, and must not refill it twice.       *)
(***************************************************************************)
EveryWindowBounded ==
    \A e \in Entities : \A j \in 1 .. Len(granted[e]) : \A i \in 1 .. j :
        (j - i + 1) * Price[e] <= Burst + Rate * (granted[e][j] - granted[e][i])

(***************************************************************************)
(* The converse as well: a command is refused only when letting it through *)
(* would overdraw some window.  Polling, refusals and long silences lose   *)
(* an entity nothing.                                                      *)
(***************************************************************************)
Window == INSTANCE WindowLimiter

ImplementsWindowLimiter == Window!Spec
=============================================================================
