----------------------------- MODULE MCCommands -----------------------------
(***************************************************************************)
(* Instances of Commands for TLC: each command blank and with an argument, *)
(* and lines that make the bot say a command.                              *)
(***************************************************************************)
EXTENDS Commands

MCRanks == {r \in [Users \cup {Bot} -> Levels] :
              /\ r["Fire_Adept"] \in {LEVEL_OP, LEVEL_ADMIN}
              /\ r["MeepBot"] \in {LEVEL_OP, LEVEL_ADMIN}}

Cmds == Registered \cup DOMAIN Functions \cup {"reload", "unknown", "?"}

MCLines ==
  {<<"hello">>, <<"!">>} \cup {<<"!", c>> : c \in Cmds} \cup {<<"!", c, "ann">> : c \in Cmds}
    \cup {<<"!", "say", "/", "x">>, <<"!", "say", "!", "reload">>,
          <<"!", "say", "!", "disablebot">>, <<"!", "say", "!", "say", "!", "help">>}

MCWords == STRING

MCFewLines == {<<"hello">>, <<"!", "kick", "ann">>}
=============================================================================
