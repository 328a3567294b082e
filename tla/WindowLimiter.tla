--------------------------- MODULE WindowLimiter ---------------------------
(***************************************************************************)
(* What core::RateLimiter promises, without buckets: it remembers when it  *)
(* let the commands of an entity through, and lets one more through        *)
(* exactly when that keeps every window of time within the burst plus the  *)
(* rate.  The first command of a window counts, and so does the last.      *)
(***************************************************************************)
EXTENDS Integers, Sequences

CONSTANTS Entities, Rate, Burst, Price, MaxTime

VARIABLES now,
          granted,   \* entity -> the times of the commands let through
          answer     \* entity -> what it was told since the clock last moved

vars == <<now, granted, answer>>

Init == /\ now = 0
        /\ granted = [e \in Entities |-> <<>>]
        /\ answer = [e \in Entities |-> "none"]

Tick == /\ now < MaxTime
        /\ now' = now + 1
        /\ answer' = [e \in Entities |-> "none"]
        /\ UNCHANGED granted

\* One more command now: each window that ends with it, and the command alone.
Conforms(e) ==
    /\ Price[e] <= Burst
    /\ \A i \in 1 .. Len(granted[e]) :
          (Len(granted[e]) - i + 2) * Price[e] <= Burst + Rate * (now - granted[e][i])

Grant(e) == /\ Conforms(e)
            /\ granted' = [granted EXCEPT ![e] = Append(@, now)]
            /\ answer' = [answer EXCEPT ![e] = "yes"]
            /\ UNCHANGED now

Refuse(e) == /\ ~Conforms(e)
             /\ answer' = [answer EXCEPT ![e] = "no"]
             /\ UNCHANGED <<now, granted>>

Next == Tick \/ \E e \in Entities : Grant(e) \/ Refuse(e)

Spec == Init /\ [][Next]_vars
=============================================================================
