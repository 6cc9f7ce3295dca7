------------------------------ MODULE MCRoster ------------------------------
(***************************************************************************)
(* Instances of Roster for TLC.  A string is a sequence of letters, and    *)
(* the two comparisons are those of the C library.  The users include one  *)
(* whose name begins another's and two that differ only in case.           *)
(***************************************************************************)
EXTENDS Roster

Lower(c) == CASE c = "B" -> "b" [] c = "O" -> "o" [] c = "M" -> "m"
              [] c = "E" -> "e" [] OTHER -> c

MCPrefix(p, n) == Len(p) <= Len(n) /\ \A i \in 1..Len(p) : p[i] = n[i]
MCPrefixNoCase(p, n) ==
  Len(p) <= Len(n) /\ \A i \in 1..Len(p) : Lower(p[i]) = Lower(n[i])
MCIsMe(p) == Len(p) = 2 /\ MCPrefixNoCase(p, <<"m", "e">>)

MCBot == <<"M">>
MCBlank == <<"_">>
MCUsers == {<<"B", "o">>, <<"b", "o", "b">>, <<"b", "o">>}
MCStrings == MCUsers \cup {MCBot, <<>>, <<"b">>, <<"B", "O">>, <<"m", "E">>, <<"M", "e", "e">>}
=============================================================================
