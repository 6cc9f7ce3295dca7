----------------------------- MODULE MCPackets -----------------------------
(***************************************************************************)
(* Streams for TLC: the answer to the login and what follows it.  The      *)
(* codes are those a cut can turn into one another (13 is IDLE_KICK, 3 is  *)
(* ROOM_MESSAGE), the colours those of the bot itself.                     *)
(***************************************************************************)
EXTENDS Packets

Grant == Bare(ACCESS_GRANTED)
Deny  == Bare(101)
Join  == Plain(1, <<"a", "b">>, <<"C", "|">>)
Idle  == Plain(13, <<"c">>, BLANK)
Chat  == Coloured(3, <<"a">>, <<"h", "i">>, 92, 0, 168)

MCChar == Range(Numerals) \cup {"a", "b", "c", "C", "h", "i", "|", "_"}

MCFeeds == {<<Grant, Idle, Chat, Join>>, <<Grant, Join, Idle>>,
            <<Deny, Grant, Chat>>, <<Chat, Grant>>}
=============================================================================
