---------------------------- MODULE ConfigLoader ----------------------------
(***************************************************************************)
(* core::ConfigLoader (src/core/config.cpp): where each setting comes      *)
(* from.  The file is read field by field into the configuration; a field  *)
(* of the wrong type throws, which ends the reading and keeps what has     *)
(* been read.  The environment is applied on top.                          *)
(***************************************************************************)
EXTENDS Integers, Sequences

\* The order of load().
FieldOrder == <<"bot_token", "api_id", "api_hash", "string_session", "owner_id", "sudo_users",
                "mongo_uri", "db_name", "log_level", "data_dir", "downloads_dir",
                "auto_update_ytdlp">>

Fields == {FieldOrder[i] : i \in 1 .. Len(FieldOrder)}

\* Of what the environment can set, the settings that are numbers.
Numbers == {"api_id", "owner_id"}
FileOnly == {"data_dir", "downloads_dir"}

Values == {"absent", "good", "bad"}         \* what a field of a file or environment can be
Sources == SUBSET {"file", "environment"}   \* {}: the default

Default == [f \in Fields |-> {}]

\* What field i of a file (field -> "absent", "good" or "bad") makes of the configuration.
\* The sudo users are an array: what comes before a bad item stays.
read_field(config, file, i) ==
    LET f == FieldOrder[i]
    IN  IF file[f] = "good" \/ (file[f] = "bad" /\ f = "sudo_users")
        THEN [config EXCEPT ![f] = {"file"}] ELSE config

\* Mutant of after_field: the reading goes on behind a bad field.
ReadsOn(file, i) == i + 1

\* Where the reading goes on: an exception ends it.
after_field(file, i) == IF file[FieldOrder[i]] = "bad" THEN Len(FieldOrder) + 1 ELSE i + 1

\* The environment: field -> "absent", "good" or, for numbers, "bad".  A number that
\* does not parse is ignored; the sudo users are added to those of the file.
apply_env_overrides(config, env) ==
    [f \in Fields |->
        CASE f \in FileOnly \/ env[f] = "absent" \/ (f \in Numbers /\ env[f] = "bad") -> config[f]
          [] f = "sudo_users" /\ env[f] = "good" -> config[f] \cup {"environment"}
          [] f = "sudo_users" /\ env[f] = "bad" -> config[f]
          [] OTHER -> {"environment"}]
=============================================================================
