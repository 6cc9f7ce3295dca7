------------------------------ MODULE UserList ------------------------------
(***************************************************************************)
(* class UserList: the set of names m_List, and Resolve, which turns what  *)
(* a user typed into the name a command is about.                          *)
(*                                                                         *)
(* Names are compared in two ways, strncmp and strncasecmp over the length *)
(* of the pattern; what matters of them here is that the first is the      *)
(* stricter one, that every name matches itself, and that the beginning of *)
(* a beginning is one.                                                     *)
(***************************************************************************)
CONSTANTS
  Strings,             \* user names and patterns
  Prefix(_, _),        \* strncmp(pattern, name, pattern.length()) == 0
  PrefixNoCase(_, _),  \* strncasecmp(pattern, name, pattern.length()) == 0
  IsMe(_)              \* is the pattern "me", in any case?

ASSUME PrefixAssumption ==
  /\ \A s, t \in Strings : Prefix(s, t) \in BOOLEAN /\ PrefixNoCase(s, t) \in BOOLEAN
  /\ \A s \in Strings : Prefix(s, s)
  /\ \A s, t \in Strings : Prefix(s, t) => PrefixNoCase(s, t)
  /\ \A r, s, t \in Strings : PrefixNoCase(r, s) /\ PrefixNoCase(s, t) => PrefixNoCase(r, t)

Add(list, name)    == list \cup {name}
Remove(list, name) == list \ {name}

\* The names a pass over m_List matches, by strncasecmp and by strncmp.
Loose(list, pattern)  == {name \in list : PrefixNoCase(pattern, name)}
Strict(list, pattern) == {name \in list : Prefix(pattern, name)}

\* The unique match as a set, or the empty set for m_List.end().
FindMatch(found) == IF \E name \in found : found = {name} THEN found ELSE {}

\* Bug: the first of several matches is good enough.
FindAnyMatch(found) == IF found = {} THEN {} ELSE {CHOOSE name \in found : TRUE}

TheOne(set) == CHOOSE name \in set : TRUE

\* Bug: one match without regard to case, the first, and no second pass.
ResolveLoosely(list, caller, pattern) ==
  LET loose == FindAnyMatch(Loose(list, pattern))
  IN  IF IsMe(pattern) THEN caller
      ELSE IF loose # {} THEN TheOne(loose) ELSE pattern

Resolve(list, caller, pattern) ==
  LET loose  == FindMatch(Loose(list, pattern))
      strict == FindMatch(Strict(list, pattern))
  IN  IF IsMe(pattern)    THEN caller
      ELSE IF loose # {}  THEN TheOne(loose)
      ELSE IF strict # {} THEN TheOne(strict)
      ELSE pattern

(***************************************************************************)
(* The order the comment in Resolve describes: "do first a case-sensitive  *)
(* match, then a case-insensitive match".                                  *)
(***************************************************************************)
ResolveAsDescribed(list, caller, pattern) ==
  LET loose  == FindMatch(Loose(list, pattern))
      strict == FindMatch(Strict(list, pattern))
  IN  IF IsMe(pattern)    THEN caller
      ELSE IF strict # {} THEN TheOne(strict)
      ELSE IF loose # {}  THEN TheOne(loose)
      ELSE pattern
=============================================================================
