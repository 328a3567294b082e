--------------------------- MODULE MCRateLimiter ---------------------------
(* The limiter of the dispatcher, 3 commands per second with a burst of 6, on *)
(* a clock of a sixth of a second: a command costs two units and one unit     *)
(* comes in per tick.  One entity asks for more than a full bucket holds.     *)
EXTENDS RateLimiter

CONSTANTS user, glutton

MCEntities == {user, glutton}
MCPrice == [e \in MCEntities |-> IF e = user THEN 2 ELSE 13]
=============================================================================
