------------------------------- MODULE MCMain -------------------------------
(* Instances of Main: files with at most one bad field, and a few environments. *)
EXTENDS Main

CONSTANTS bot, assistant, m1

TwoClients == {bot, assistant}
TheBot == {bot}
TheMessages == {m1}

F == Config!Fields
AllGood == [f \in F |-> "good"]
NoFile == [f \in F |-> "absent"]
OneBad == {[AllGood EXCEPT ![f] = "bad"] : f \in F}
BotOnly == [AllGood EXCEPT !["string_session"] = "absent"]
TheFiles == OneBad \cup {AllGood, NoFile, BotOnly}

OnlyFrom(given, how) == [f \in F |-> IF f \in given THEN how ELSE "absent"]
TheEnvironments == {NoFile,
                    OnlyFrom({"bot_token", "api_id", "api_hash", "sudo_users"}, "good"),
                    OnlyFrom({"string_session", "owner_id"}, "good"),
                    OnlyFrom({"api_id", "owner_id", "sudo_users"}, "bad")}
=============================================================================
