------------------------------- MODULE Roster -------------------------------
(***************************************************************************)
(* How m_List follows the users in the chat room.  The bot asks for a      *)
(* listing once it has logged in.  The server (external) sends what        *)
(* changes from the login on, in order on one connection, the listing when *)
(* it comes to it, and among them the lines that people write, whose       *)
(* patterns stand for whoever m_List makes of them when the line is        *)
(* handled.  HandlePacket applies packets one at a time.  A connection     *)
(* that ends takes what was not handled with it; m_List stays as it was.   *)
(***************************************************************************)
EXTENDS UserList, Naturals, FiniteSets, Sequences

CONSTANTS
  Users,    \* the other users
  Bot,      \* "MeepBot"
  Blank,    \* BLANK, the name in the packet that ends a listing
  MaxFeed,  \* bound: packets under way when another is sent
  MaxUnknown \* bound: users at a time whom the database did not take

ASSUME RosterAssumption ==
  /\ Users \cup {Bot} \subseteq Strings
  /\ IsFiniteSet(Users)
  /\ Bot \notin Users /\ Blank \notin Users \cup {Bot}
  /\ MaxFeed \in Nat /\ MaxUnknown \in Nat

VARIABLES
  online,    \* the server's users
  feed,      \* packets sent and not handled yet
  m_List,    \* UserList::m_List
  rows,      \* names with a row in the users table
  loggedIn,  \* m_bLoggedIn
  open,      \* is there a connection?
  greeting,  \* how the bot greeted the room in this session
  listed,    \* history: whom this session's listing lists, {} until it is made
  untold,    \* history: who is online and was not named yet in this session
  before,    \* history: m_List when this session began
  unknown    \* history: names AddUser failed for, and no later one gave a row

vars == <<online, feed, m_List, rows, loggedIn, open, greeting, listed, untold, before, unknown>>

Kinds == {"here", "gone", "line"}

\* Packets with the room when they were sent, and who of it the bot had not
\* been told of (both history, of those alone that name nobody).
Packet(kind, user) == [kind |-> kind, user |-> user, room |-> {}, untold |-> {}]

\* A line, of whoever is in the room.
LineIn(room, missing) == [kind |-> "line", user |-> Blank, room |-> room, untold |-> missing]

\* The packet that ends a listing.
EndOf(room) == [kind |-> "here", user |-> Blank, room |-> room, untold |-> {}]

Init ==
  /\ online \in SUBSET Users
  /\ feed = <<>>
  /\ m_List = {} /\ rows = {}
  /\ loggedIn = FALSE /\ open = FALSE
  /\ greeting = "none"
  /\ listed = {} /\ untold = {} /\ before = {} /\ unknown = {}

\* The server tells the bot, if it is connected.
Tell(packet) ==
  /\ Len(feed) < MaxFeed
  /\ feed' = IF open THEN Append(feed, packet) ELSE feed

-----------------------------------------------------------------------------
\* Login is granted and USER_LIST written.  What the server sends from now on
\* is handled as it comes, with the m_List of the sessions before.
Login ==
  /\ ~open
  /\ loggedIn' = TRUE /\ open' = TRUE
  /\ online' = online \cup {Bot}
  /\ listed' = {} /\ untold' = online'
  /\ before' = m_List
  /\ feed' = <<>>
  /\ greeting' = "none"
  /\ UNCHANGED <<m_List, rows, unknown>>

\* A packet for each name, in some order, and the end.
Listing(names) ==
  LET n     == Cardinality(names)
      order == CHOOSE f \in [1..n -> names] : \A u \in names : \E i \in 1..n : f[i] = u
  IN  [i \in 1..n + 1 |-> IF i <= n THEN Packet("here", order[i]) ELSE EndOf(names)]

\* The server comes to USER_LIST, if it has not put the bot out since.
List ==
  /\ open /\ listed = {} /\ Bot \in online
  /\ listed' = online /\ untold' = {}
  /\ feed' = feed \o Listing(online)
  /\ UNCHANGED <<online, m_List, rows, loggedIn, open, greeting, before, unknown>>

Enter(u) ==
  /\ u \notin online
  /\ online' = online \cup {u}
  /\ Tell(Packet("here", u))
  /\ UNCHANGED <<m_List, rows, loggedIn, open, greeting, listed, untold, before, unknown>>

\* A part, kick, disable, ban or idle kick, of the bot too.
Exit(u) ==
  /\ u \in online
  /\ online' = online \ {u} /\ untold' = untold \ {u}
  /\ Tell(Packet("gone", u))
  /\ UNCHANGED <<m_List, rows, loggedIn, open, greeting, listed, before, unknown>>

\* Somebody writes.
Write ==
  /\ open
  /\ Tell(LineIn(online, untold))
  /\ UNCHANGED <<online, m_List, rows, loggedIn, open, greeting, listed, untold, before, unknown>>

-----------------------------------------------------------------------------
\* UserDB::AddUser, of which the key matters here: a row for each name, where
\* names that differ in case only are one, unless the statement fails, which
\* HandlePacket does not look at. (Moderation has the other columns.)
SameName(s, t) == PrefixNoCase(s, t) /\ PrefixNoCase(t, s)
HasRow(u) == \E r \in rows : SameName(r, u)

\* Bug: the key is compared with regard to case.
AddUserCased(u) == rows' = rows \cup {u} /\ unknown' = unknown \ {u}

AddUser(u) ==
  \/ /\ rows' = IF HasRow(u) THEN rows ELSE rows \cup {u}
     /\ unknown' = {v \in unknown : ~SameName(u, v)}
  \/ /\ Cardinality(unknown \cup {u}) <= MaxUnknown
     /\ unknown' = IF HasRow(u) THEN unknown ELSE unknown \cup {u}
     /\ UNCHANGED rows

\* HandlePacket: USER_LIST and USER_JOIN share a case.
Here(p) ==
  /\ p.kind = "here" /\ p.user # Blank
  /\ m_List' = Add(m_List, p.user)
  /\ AddUser(p.user)
  /\ UNCHANGED <<loggedIn, greeting>>

\* Bug: the bot does not count itself.
GreetingOfOthers(n) == CASE n <= 2 -> "alone" [] n = 3 -> "mortal" [] OTHER -> "mortals"

Greeting(n) == CASE n = 1 -> "alone" [] n = 2 -> "mortal" [] OTHER -> "mortals"

\* The end of the listing: greet everyone. Say is silent unless logged in.
IsEnd(p) == p.kind = "here" /\ p.user = Blank

End(p) ==
  /\ IsEnd(p)
  /\ greeting' = IF loggedIn THEN Greeting(Cardinality(m_List)) ELSE greeting
  /\ UNCHANGED <<m_List, rows, unknown, loggedIn>>

\* Bug: the user is not taken off the list.
GoneNotRemoved(p) ==
  /\ p.kind = "gone"
  /\ loggedIn' = (loggedIn /\ p.user # Bot)
  /\ UNCHANGED <<m_List, rows, unknown, greeting>>

Gone(p) ==
  /\ p.kind = "gone"
  /\ loggedIn' = (loggedIn /\ p.user # Bot)
  /\ m_List' = Remove(m_List, p.user)
  /\ UNCHANGED <<rows, unknown, greeting>>

\* Respond: no command changes who is listed, or whose rows there are. (A write
\* that fails is in Session.)
Line(p) ==
  /\ p.kind = "line"
  /\ UNCHANGED <<m_List, rows, unknown, loggedIn, greeting>>

\* The rest of a read is handled even when the bot has been thrown out.
HandlePacket ==
  /\ open /\ feed # <<>>
  /\ feed' = Tail(feed)
  /\ Here(Head(feed)) \/ End(Head(feed)) \/ Gone(Head(feed)) \/ Line(Head(feed))
  /\ UNCHANGED <<online, open, listed, untold, before>>

\* The connection ends, for whatever reason.
Disconnect ==
  /\ open
  /\ open' = FALSE /\ loggedIn' = FALSE
  /\ feed' = <<>>
  /\ online' = online \ {Bot} /\ untold' = {}
  /\ UNCHANGED <<m_List, rows, greeting, listed, before, unknown>>

Next ==
  \/ Login \/ List \/ HandlePacket \/ Disconnect \/ Write
  \/ \E u \in Users : Enter(u)
  \/ \E u \in Users \cup {Bot} : Exit(u)

Spec == Init /\ [][Next]_vars

-----------------------------------------------------------------------------
\* A line is handled next, with the room as it was when the line was written,
\* and whom of it the bot had not been told of in this session.
AtLine == open /\ feed # <<>> /\ Head(feed).kind = "line"
Room   == Head(feed).room
Untold == Head(feed).untold

\* m_List and the other variables hold sets, packets and flags.
TypeOK ==
  /\ online \subseteq Users \cup {Bot} /\ m_List \subseteq Users \cup {Bot}
  /\ rows \subseteq Users \cup {Bot} /\ unknown \subseteq Users \cup {Bot}
  /\ listed \subseteq Users \cup {Bot} /\ before \subseteq Users \cup {Bot}
  /\ untold \subseteq online
  /\ feed \in Seq([kind : Kinds, user : Users \cup {Bot, Blank},
                   room : SUBSET (Users \cup {Bot}), untold : SUBSET (Users \cup {Bot})])
  /\ loggedIn \in BOOLEAN /\ open \in BOOLEAN
  /\ greeting \in {"none", "alone", "mortal", "mortals"}

\* When a line is handled, m_List has everybody who was in the room when it was
\* written, however many came and went since, and nobody else but leftovers of
\* earlier sessions that were never renewed.  A line that overtook the listing
\* can find those missing who were in the room before the bot, and only those.
RosterInStep == AtLine => Room \ Untold \subseteq m_List /\ m_List \subseteq Room \cup before

\* Whoever is on m_List has exactly one row in the users table, or none if
\* AddUser failed for them: two users whose names differ in case only never
\* have two ranks and two counts of warnings.
ListedHaveOneRow ==
  \A u \in m_List :
    Cardinality({r \in rows : SameName(r, u)}) = IF u \in unknown THEN 0 ELSE 1

\* The bot calls a room empty only if its listing was: whatever was left on the
\* list by earlier sessions, everybody listed has been added by then.
AloneMeansAlone == greeting = "alone" => listed = {Bot}

\* A command given the full name of somebody who is in the room when it is
\* written is about nobody else when it is handled, even if that name begins,
\* or differs only by case from, other users' names, of whom some come and go:
\* once the bot has been told of them, by the listing or before it.
FullNameHits ==
  AtLine => \A u \in Room \ Untold, caller \in Room :
              ~IsMe(u) => Resolve(m_List, caller, u) = u

\* A pattern stands for another name only if exactly one listed user matches
\* it, so the two orders of the two passes never disagree.
OrderDoesNotMatter ==
  \A caller \in online, pattern \in Strings :
    Resolve(m_List, caller, pattern) = ResolveAsDescribed(m_List, caller, pattern)

-----------------------------------------------------------------------------
\* Behind RosterInStep and AloneMeansAlone: the last of the first n packets
\* about a user says whether they were in the room when the next one was sent;
\* where there is none m_List says it, but for the untold.
LastOf(f, u, i, n) == f[i].user = u /\ \A j \in i + 1..n : f[j].user # u

Tells(f, n, list, old, room, missing) ==
  \A u \in Users \cup {Bot} :
    /\ \A i \in 1..n : LastOf(f, u, i, n) => (f[i].kind = "here" <=> u \in room)
    /\ (\A i \in 1..n : f[i].user # u) => /\ (u \in room \ missing => u \in list)
                                         /\ (u \in list => u \in room \cup old)

FeedTells ==
  open => /\ Tells(feed, Len(feed), m_List, before, online, untold)
          /\ \A k \in 1..Len(feed) :
               /\ feed[k].kind = "line" => feed[k].user = Blank
               /\ feed[k].user = Blank => Tells(feed, k - 1, m_List, before, feed[k].room, feed[k].untold)

\* Behind AloneMeansAlone: the end of a listing is that of this session's.
ListingEnds ==
  /\ greeting = "alone" => listed = {Bot}
  /\ open => \A i \in 1..Len(feed) : IsEnd(feed[i]) =>
       Bot \in listed /\ feed[i].room = listed /\ feed[i].untold = {}

\* Behind ListedHaveOneRow: no two rows have the same key, and who is listed has
\* one, or is unknown.
KeysDiffer ==
  /\ \A r, s \in rows : SameName(r, s) => r = s
  /\ \A u \in m_List \cup unknown : HasRow(u) <=> u \notin unknown

Inv == TypeOK /\ FeedTells /\ ListingEnds /\ KeysDiffer
=============================================================================
