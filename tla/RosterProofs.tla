---------------------------- MODULE RosterProofs ----------------------------
(***************************************************************************)
(* What UserList::Resolve does for any two comparisons of which one is     *)
(* stricter than the other, any users, and any room they come and go in.   *)
(***************************************************************************)
EXTENDS Roster, FiniteSetTheorems, SequenceTheorems, TLAPS

\* What a pass matches with regard to case is matched without.
LEMMA StrictIsLoose ==
  ASSUME NEW list \in SUBSET Strings, NEW pattern \in Strings
  PROVE  Strict(list, pattern) \subseteq Loose(list, pattern)
  BY PrefixAssumption DEF Loose, Strict

\* When both passes of Resolve find a unique match it is the same one.
LEMMA UniqueMatchesAgree ==
  ASSUME NEW S, NEW T, S \subseteq T, FindMatch(S) # {}, FindMatch(T) # {}
  PROVE  FindMatch(S) = FindMatch(T)
  BY DEF FindMatch

\* The two orders of the two passes give the same name.
LEMMA OrderIrrelevant ==
  ASSUME NEW list \in SUBSET Strings, NEW caller, NEW pattern \in Strings
  PROVE  Resolve(list, caller, pattern) = ResolveAsDescribed(list, caller, pattern)
  BY StrictIsLoose, UniqueMatchesAgree DEF Resolve, ResolveAsDescribed

\* FindMatch is a match there is, if it is anything.
LEMMA UniqueMatchIsIt ==
  ASSUME NEW S, NEW name \in S
  PROVE  FindMatch(S) \in {{}, {name}}
  BY DEF FindMatch

\* The full name of a listed user is resolved to that user, although it may be
\* the beginning of other names: the second pass would have to find several
\* matches too, and then the pattern itself is the answer.
LEMMA ListedNameIsItself ==
  ASSUME NEW list \in SUBSET Strings, NEW caller, NEW name \in list, ~IsMe(name)
  PROVE  Resolve(list, caller, name) = name
<1>1. name \in Strict(list, name) /\ name \in Loose(list, name)
  BY PrefixAssumption DEF Strict, Loose
<1>2. /\ FindMatch(Loose(list, name)) \in {{}, {name}}
      /\ FindMatch(Strict(list, name)) \in {{}, {name}}
  BY <1>1, UniqueMatchIsIt
<1>3. TheOne({name}) = name
  BY DEF TheOne
<1> QED
  BY <1>2, <1>3 DEF Resolve

-----------------------------------------------------------------------------
Packets == [kind : Kinds, user : Users \cup {Bot, Blank},
            room : SUBSET (Users \cup {Bot}), untold : SUBSET (Users \cup {Bot})]

\* The packets of a listing: a "here" for everybody, and the end with the room.
LEMMA ListingFacts ==
  ASSUME NEW S \in SUBSET (Users \cup {Bot})
  PROVE  /\ Listing(S) \in Seq(Packets) /\ Len(Listing(S)) \in Nat \ {0}
         /\ \A i \in 1..Len(Listing(S)) : /\ Listing(S)[i].kind = "here"
                                          /\ Listing(S)[i].user \in S \cup {Blank}
         /\ \A i \in 1..Len(Listing(S)) - 1 : Listing(S)[i].user # Blank
         /\ Listing(S)[Len(Listing(S))] = EndOf(S)
         /\ \A u \in S : \E i \in 1..Len(Listing(S)) - 1 : Listing(S)[i].user = u
<1> DEFINE n == Cardinality(S)
           order == CHOOSE f \in [1..n -> S] : \A u \in S : \E i \in 1..n : f[i] = u
<1>1. IsFiniteSet(S)
  BY RosterAssumption, FS_Subset, FS_AddElement
<1>2. n \in Nat
  BY <1>1, FS_CardinalityType
<1>3. PICK f : f \in Bijection(1..n, S)
  BY <1>1, FS_CardinalityType DEF ExistsBijection
<1>4. f \in [1..n -> S] /\ \A u \in S : \E i \in 1..n : f[i] = u
  BY <1>3 DEF Bijection, Surjection
<1>5. order \in [1..n -> S] /\ \A u \in S : \E i \in 1..n : order[i] = u
  BY <1>4
<1> HIDE DEF order, n
<1>6. Listing(S) = [i \in 1..n + 1 |-> IF i <= n THEN Packet("here", order[i]) ELSE EndOf(S)]
  BY DEF Listing, order, n
<1>7. \A i \in 1..n + 1 : (IF i <= n THEN Packet("here", order[i]) ELSE EndOf(S)) \in Packets
  BY <1>2, <1>5 DEF Packet, EndOf, Packets, Kinds
<1>8. Len(Listing(S)) = n + 1 /\ Listing(S) \in Seq(Packets)
  BY <1>2, <1>6, <1>7
<1>9. Listing(S)[n + 1] = EndOf(S) /\ \A i \in 1..n : Listing(S)[i] = Packet("here", order[i])
  BY <1>2, <1>6
<1>10. Blank \notin S
  BY RosterAssumption
<1>11. \A i \in 1..n : Listing(S)[i].kind = "here" /\ Listing(S)[i].user \in S
  <2> SUFFICES ASSUME NEW i \in 1..n
               PROVE  Listing(S)[i].kind = "here" /\ Listing(S)[i].user \in S
    OBVIOUS
  <2>1. order[i] \in S /\ Listing(S)[i] = Packet("here", order[i])
    BY <1>5, <1>9
  <2> QED
    BY <2>1 DEF Packet
<1>12. Listing(S)[n + 1].kind = "here" /\ Listing(S)[n + 1].user = Blank
  BY <1>9 DEF EndOf
<1>13. \A u \in S : \E i \in 1..n : Listing(S)[i].user = u
  <2> SUFFICES ASSUME NEW u \in S PROVE \E i \in 1..n : Listing(S)[i].user = u
    OBVIOUS
  <2>1. PICK i \in 1..n : order[i] = u
    BY <1>5
  <2>2. Listing(S)[i] = Packet("here", u)
    BY <1>9, <2>1
  <2>3. Listing(S)[i].user = u
    BY <2>2 DEF Packet
  <2> QED
    BY <2>3
<1>14. /\ (n + 1) - 1 = n /\ n + 1 \in Nat \ {0}
       /\ \A i \in 1..n + 1 : i \in 1..n \/ i = n + 1
  BY <1>2
<1>15. \A i \in 1..n + 1 : /\ Listing(S)[i].kind = "here"
                          /\ Listing(S)[i].user \in S \cup {Blank}
  BY <1>11, <1>12, <1>14
<1>16. \A i \in 1..n : Listing(S)[i].user # Blank
  BY <1>10, <1>11
<1> QED
  BY <1>8, <1>9, <1>13, <1>14, <1>15, <1>16

\* m_List and the packets under way, the part of Inv behind RosterInStep.
InStepInv == TypeOK /\ FeedTells

LEMMA InitInStep == Init => InStepInv
<1> SUFFICES ASSUME Init PROVE InStepInv
  OBVIOUS
<1>1. loggedIn \in BOOLEAN /\ open \in BOOLEAN /\ ~open
  BY Zenon DEF Init
<1> QED
  BY <1>1 DEF Init, InStepInv, TypeOK, FeedTells, Packets

LEMMA LoginInStep ==
  ASSUME InStepInv, Login
  PROVE  InStepInv'
<1>1. loggedIn' \in BOOLEAN /\ open' \in BOOLEAN
  BY Zenon DEF Login
<1>2. feed' = <<>> /\ feed' \in Seq(Packets) /\ Len(feed') = 0
  BY DEF Login
<1>3. TypeOK'
  BY <1>1, <1>2 DEF Login, InStepInv, TypeOK, Packets
<1>4. m_List' = m_List /\ before' = m_List /\ untold' = online'
  BY DEF Login
<1>5. Tells(feed', Len(feed'), m_List', before', online', untold')
  BY <1>2, <1>4 DEF Tells
<1> QED
  BY <1>2, <1>3, <1>5 DEF InStepInv, FeedTells

\* A packet added after the first n changes nothing about them.
LEMMA AppendTells ==
  ASSUME NEW f \in Seq(Packets), NEW g, NEW n \in 0..Len(f), \A i \in 1..Len(f) : g[i] = f[i],
         NEW list, NEW old, NEW room, NEW missing
  PROVE  Tells(f, n, list, old, room, missing) <=> Tells(g, n, list, old, room, missing)
<1>1. \A i \in 1..n : g[i] = f[i]
  OBVIOUS
<1>2. \A u \in Users \cup {Bot}, i \in 1..n : LastOf(f, u, i, n) <=> LastOf(g, u, i, n)
  BY <1>1 DEF LastOf
<1> QED
  BY <1>1, <1>2 DEF Tells

\* A listing of the room tells of everybody in it, and of nobody else.
LEMMA ListingTells ==
  ASSUME NEW f \in Seq(Packets), NEW room \in SUBSET (Users \cup {Bot}), NEW m \in Nat,
         m = Len(Listing(room)) - 1 \/ m = Len(Listing(room)),
         NEW list, NEW old, NEW missing, Tells(f, Len(f), list, old, room, missing)
  PROVE  Tells(f \o Listing(room), Len(f) + m, list, old, room, {})
<1> DEFINE l == Listing(room)
           n == Len(f)
           g == f \o l
<1>1. /\ l \in Seq(Packets) /\ Len(l) \in Nat
      /\ \A i \in 1..m : l[i].kind = "here" /\ l[i].user \in room \cup {Blank}
      /\ \A u \in room : \E i \in 1..m : l[i].user = u
  BY ListingFacts
<1>2. /\ n \in Nat /\ \A i \in 1..n : g[i] = f[i]
      /\ \A i \in 1..m : n + i \in n + 1..n + m /\ g[n + i] = l[i]
  BY <1>1
<1>3. ASSUME NEW i \in n + 1..n + m PROVE i - n \in 1..m /\ g[i] = l[i - n]
  BY <1>1, <1>2, <1>3
<1> HIDE DEF l, g, n
<1>4. SUFFICES ASSUME NEW u \in Users \cup {Bot}
               PROVE  /\ \A i \in 1..n + m :
                           LastOf(g, u, i, n + m) => (g[i].kind = "here" <=> u \in room)
                      /\ (\A i \in 1..n + m : g[i].user # u) =>
                           /\ u \in room \ {} => u \in list
                           /\ u \in list => u \in room \cup old
  BY DEF Tells, g, n, l
<1>5. CASE u \in room
  <2>1. PICK k \in 1..m : l[k].user = u
    BY <1>1, <1>5
  <2>2. n + k \in 1..n + m /\ g[n + k].user = u
    BY <1>2, <2>1
  <2>3. ASSUME NEW i \in 1..n + m, LastOf(g, u, i, n + m) PROVE g[i].kind = "here"
    <3>1. i \in n + 1..n + m
      BY <1>2, <2>1, <2>2, <2>3 DEF LastOf
    <3> QED
      BY <1>1, <1>3, <3>1
  <2> QED
    BY <1>5, <2>2, <2>3
<1>6. CASE u \notin room
  <2>1. \A i \in n + 1..n + m : g[i].user # u
    BY <1>1, <1>3, <1>6, RosterAssumption
  <2>2. ASSUME NEW i \in 1..n + m, LastOf(g, u, i, n + m)
        PROVE  i \in 1..n /\ LastOf(f, u, i, n) /\ g[i] = f[i]
    <3>1. i \in 1..n
      BY <1>2, <2>1, <2>2 DEF LastOf
    <3>2. \A j \in i + 1..n : j \in i + 1..n + m /\ g[j] = f[j]
      BY <1>2, <3>1
    <3> QED
      BY <1>2, <2>2, <3>1, <3>2 DEF LastOf
  <2>3. (\A i \in 1..n + m : g[i].user # u) => \A i \in 1..n : f[i].user # u
    BY <1>2
  <2>4. /\ \A i \in 1..n : LastOf(f, u, i, n) => (f[i].kind = "here" <=> u \in room)
        /\ (\A i \in 1..n : f[i].user # u) => (u \in list => u \in room \cup old)
    BY DEF Tells, n
  <2> QED
    BY <1>6, <2>2, <2>3, <2>4
<1> QED
  BY <1>5, <1>6

\* A packet that tells of a change of the room.
LEMMA ChangeTells ==
  ASSUME NEW f \in Seq(Packets), NEW p \in Packets, NEW list, NEW old,
         NEW room, NEW newRoom, NEW missing, NEW newMissing,
         Tells(f, Len(f), list, old, room, missing),
         \A v \in Users \cup {Bot} : /\ p.user = v => (p.kind = "here" <=> v \in newRoom)
                                     /\ p.user # v => (v \in room <=> v \in newRoom)
                                     /\ p.user # v => (v \in missing <=> v \in newMissing)
  PROVE  Tells(Append(f, p), Len(f) + 1, list, old, newRoom, newMissing)
<1> DEFINE g == Append(f, p)
           n == Len(f)
<1>1. n \in Nat /\ g[n + 1] = p /\ \A i \in 1..n : g[i] = f[i]
  OBVIOUS
<1> HIDE DEF g, n
<1>2. SUFFICES ASSUME NEW v \in Users \cup {Bot}
               PROVE  /\ \A i \in 1..n + 1 :
                           LastOf(g, v, i, n + 1) => (g[i].kind = "here" <=> v \in newRoom)
                      /\ (\A i \in 1..n + 1 : g[i].user # v) =>
                           /\ v \in newRoom \ newMissing => v \in list
                           /\ v \in list => v \in newRoom \cup old
  BY DEF Tells, g, n
<1>3. CASE p.user = v
  BY <1>1, <1>3 DEF LastOf
<1>4. CASE p.user # v
  <2>1. ASSUME NEW i \in 1..n + 1, LastOf(g, v, i, n + 1)
        PROVE  i \in 1..n /\ LastOf(f, v, i, n)
    BY <1>1, <1>4, <2>1 DEF LastOf
  <2>2. (\A i \in 1..n + 1 : g[i].user # v) => \A i \in 1..n : f[i].user # v
    BY <1>1
  <2> QED
    BY <1>1, <1>4, <2>1, <2>2 DEF Tells, n
<1> QED
  BY <1>3, <1>4

LEMMA TellInStep ==
  ASSUME InStepInv, (\E u \in Users \cup {Bot} : Enter(u) \/ Exit(u)) \/ Write
  PROVE  InStepInv'
<1> DEFINE ToldBy(p) ==
             /\ feed' = IF open THEN Append(feed, p) ELSE feed
             /\ online' \subseteq Users \cup {Bot} /\ untold' \subseteq online'
             /\ \A v \in Users \cup {Bot} :
                  /\ p.user = v => (p.kind = "here" <=> v \in online')
                  /\ p.user # v => (v \in online <=> v \in online')
                  /\ p.user # v => (v \in untold <=> v \in untold')
             /\ p.kind = "line" => p.user = Blank
             /\ p.user = Blank => p.room = online /\ p.untold = untold
           Told == \E p \in Packets : ToldBy(p)
<1>1. Told
  <2>1. CASE Write
    <3>1. LineIn(online, untold) \in Packets
      BY DEF LineIn, Packets, Kinds, InStepInv, TypeOK
    <3> QED
      BY <2>1, <3>1, RosterAssumption DEF Write, Tell, LineIn, InStepInv, TypeOK
  <2>2. ASSUME NEW u \in Users \cup {Bot}, Enter(u) \/ Exit(u)
        PROVE  /\ Packet(IF Enter(u) THEN "here" ELSE "gone", u) \in Packets
               /\ feed' = IF open THEN Append(feed, Packet(IF Enter(u) THEN "here" ELSE "gone", u))
                          ELSE feed
               /\ u \in online' <=> Enter(u)
               /\ \A v \in (Users \cup {Bot}) \ {u} : v \in online <=> v \in online'
               /\ \A v \in (Users \cup {Bot}) \ {u} : v \in untold <=> v \in untold'
               /\ online' \subseteq Users \cup {Bot} /\ untold' \subseteq online'
    BY <2>2 DEF Enter, Exit, Tell, Packet, Packets, Kinds, InStepInv, TypeOK
  <2>3. ASSUME NEW u \in Users \cup {Bot}
        PROVE  /\ Packet(IF Enter(u) THEN "here" ELSE "gone", u).user = u
               /\ Packet(IF Enter(u) THEN "here" ELSE "gone", u).kind = "here" <=> Enter(u)
               /\ Packet(IF Enter(u) THEN "here" ELSE "gone", u).kind # "line"
    BY DEF Packet
  <2>4. Blank \notin Users \cup {Bot}
    BY RosterAssumption
  <2>5. ASSUME NEW u \in Users \cup {Bot}, Enter(u) \/ Exit(u) PROVE Told
    <3> DEFINE p == Packet(IF Enter(u) THEN "here" ELSE "gone", u)
    <3>1. p \in Packets /\ p.user = u /\ p.kind # "line" /\ (p.kind = "here" <=> u \in online')
      BY <2>2, <2>3, <2>5
    <3>2. feed' = IF open THEN Append(feed, p) ELSE feed
      BY <2>2, <2>5
    <3> HIDE DEF p
    <3>3. \A v \in Users \cup {Bot} :
            /\ p.user = v => (p.kind = "here" <=> v \in online')
            /\ p.user # v => (v \in online <=> v \in online')
            /\ p.user # v => (v \in untold <=> v \in untold')
      BY <2>2, <2>5, <3>1
    <3>4. p.user # Blank
      BY <2>4, <3>1
    <3>5. online' \subseteq Users \cup {Bot} /\ untold' \subseteq online'
      BY <2>2, <2>5
    <3> QED
      BY <3>1, <3>2, <3>3, <3>4, <3>5
  <2> QED
    BY <2>1, <2>5
<1> SUFFICES ASSUME NEW p \in Packets, ToldBy(p) PROVE InStepInv'
  BY <1>1
<1>2. UNCHANGED <<m_List, rows, loggedIn, open, greeting, listed, before, unknown>>
  BY DEF Enter, Exit, Write
<1>3. feed \in Seq(Packets)
  BY DEF InStepInv, TypeOK, Packets
<1>4. TypeOK'
  <2>1. feed' \in Seq(Packets)
    BY <1>3, AppendProperties
  <2> QED
    BY <1>2, <2>1 DEF InStepInv, TypeOK, Packets
<1>5. FeedTells'
  <2> SUFFICES ASSUME open PROVE FeedTells'
    BY <1>2 DEF FeedTells
  <2>1. /\ feed' = Append(feed, p) /\ Len(feed) \in Nat /\ Len(feed') = Len(feed) + 1
        /\ feed'[Len(feed) + 1] = p
        /\ \A i \in 1..Len(feed) : feed'[i] = feed[i]
    BY <1>3
  <2>2. /\ Tells(feed, Len(feed), m_List, before, online, untold)
        /\ \A k \in 1..Len(feed) :
             /\ feed[k].kind = "line" => feed[k].user = Blank
             /\ feed[k].user = Blank =>
                  Tells(feed, k - 1, m_List, before, feed[k].room, feed[k].untold)
    BY DEF InStepInv, FeedTells
  <2>3. Tells(feed', Len(feed'), m_List, before, online', untold')
    BY <1>3, <2>1, <2>2, ChangeTells
  <2>4. ASSUME NEW k \in 1..Len(feed'), feed'[k].user = Blank
        PROVE  Tells(feed', k - 1, m_List, before, feed'[k].room, feed'[k].untold)
    <3>1. CASE k \in 1..Len(feed)
      <4>1. k - 1 \in 0..Len(feed) /\ feed'[k] = feed[k]
        BY <2>1, <3>1
      <4> QED
        BY <1>3, <2>1, <2>2, <2>4, <3>1, <4>1, AppendTells
    <3>2. CASE k = Len(feed) + 1
      <4>1. Len(feed) \in 0..Len(feed)
        BY <2>1
      <4>2. Tells(feed', Len(feed), m_List, before, online, untold)
        BY <1>3, <2>1, <2>2, <4>1, AppendTells
      <4> QED
        BY <2>1, <2>4, <3>2, <4>2
    <3> QED
      BY <2>1, <3>1, <3>2
  <2>5. ASSUME NEW k \in 1..Len(feed'), feed'[k].kind = "line" PROVE feed'[k].user = Blank
    BY <2>1, <2>2, <2>5
  <2> QED
    BY <1>2, <2>3, <2>4, <2>5 DEF FeedTells
<1> QED
  BY <1>4, <1>5 DEF InStepInv

LEMMA ListInStep ==
  ASSUME InStepInv, List
  PROVE  InStepInv'
<1> DEFINE l == Listing(online)
           n == Len(feed)
<1>1. /\ online \in SUBSET (Users \cup {Bot}) /\ feed \in Seq(Packets) /\ n \in Nat
      /\ online' = online /\ untold' = {} /\ feed' = feed \o l /\ listed' = online
      /\ UNCHANGED <<m_List, rows, loggedIn, open, greeting, before, unknown>> /\ open
  BY DEF InStepInv, TypeOK, List, Packets
<1>2. /\ l \in Seq(Packets) /\ Len(l) \in Nat \ {0}
      /\ \A i \in 1..Len(l) : l[i].kind = "here"
      /\ \A i \in 1..Len(l) - 1 : l[i].user # Blank
      /\ l[Len(l)] = EndOf(online)
  BY <1>1, ListingFacts
<1>3. /\ feed' \in Seq(Packets) /\ Len(feed') = n + Len(l)
      /\ \A i \in 1..n : feed'[i] = feed[i]
      /\ \A i \in n + 1..n + Len(l) : i - n \in 1..Len(l) /\ feed'[i] = l[i - n]
  BY <1>1, <1>2
<1>4. TypeOK'
  BY <1>1, <1>3 DEF InStepInv, TypeOK, Packets
<1>5. /\ Tells(feed, n, m_List, before, online, untold)
      /\ \A k \in 1..n :
           /\ feed[k].kind = "line" => feed[k].user = Blank
           /\ feed[k].user = Blank =>
                Tells(feed, k - 1, m_List, before, feed[k].room, feed[k].untold)
  BY <1>1 DEF InStepInv, FeedTells
<1>6. /\ Tells(feed', n + Len(l), m_List, before, online, {})
      /\ Tells(feed', n + (Len(l) - 1), m_List, before, online, {})
  <2>1. Len(l) - 1 \in Nat /\ Len(l) \in Nat
    BY <1>2
  <2>2. \A m \in Nat : m = Len(l) - 1 \/ m = Len(l) =>
                         Tells(feed \o l, n + m, m_List, before, online, {})
    BY <1>1, <1>5, ListingTells
  <2> QED
    BY <1>1, <2>1, <2>2
<1> HIDE DEF l, n
<1>7. ASSUME NEW k \in 1..Len(feed'), feed'[k].user = Blank
      PROVE  Tells(feed', k - 1, m_List, before, feed'[k].room, feed'[k].untold)
  <2>1. CASE k \in 1..n
    <3>1. k - 1 \in 0..n /\ feed'[k] = feed[k]
      BY <1>1, <1>3, <2>1
    <3> QED
      BY <1>1, <1>3, <1>5, <1>7, <2>1, <3>1, AppendTells DEF n
  <2>2. CASE k \in n + 1..n + Len(l)
    <3>1. k - n \in 1..Len(l) /\ feed'[k] = l[k - n]
      BY <1>3, <2>2
    <3>2. k - n = Len(l)
      BY <1>2, <1>7, <3>1
    <3>3. k - 1 = n + (Len(l) - 1) /\ feed'[k].room = online /\ feed'[k].untold = {}
      BY <1>1, <1>2, <3>1, <3>2 DEF EndOf
    <3> QED
      BY <1>6, <3>3
  <2> QED
    BY <1>1, <1>2, <1>3, <2>1, <2>2
<1>8. ASSUME NEW k \in 1..Len(feed'), feed'[k].kind = "line" PROVE feed'[k].user = Blank
  <2>1. k \in 1..n
    BY <1>1, <1>2, <1>3, <1>8
  <2> QED
    BY <1>3, <1>5, <1>8, <2>1
<1>9. FeedTells'
  BY <1>1, <1>3, <1>6, <1>7, <1>8 DEF FeedTells
<1> QED
  BY <1>4, <1>9 DEF InStepInv

\* Once the first packet is handled, the others tell what they all told.
LEMMA TailTells ==
  ASSUME NEW f \in Seq(Packets), f # <<>>, NEW n \in 1..Len(f),
         NEW list, NEW newList, NEW old,
         NEW room, NEW missing, Tells(f, n, list, old, room, missing),
         \A u \in Users \cup {Bot} :
           /\ f[1].user = u => (u \in newList <=> f[1].kind = "here")
           /\ f[1].user # u => (u \in newList <=> u \in list)
  PROVE  Tells(Tail(f), n - 1, newList, old, room, missing)
<1> DEFINE g == Tail(f)
<1>1. Len(f) \in Nat /\ Len(g) = Len(f) - 1 /\ \A i \in 1..Len(g) : g[i] = f[i + 1]
  OBVIOUS
<1>2. n \in Nat /\ n >= 1 /\ \A i \in 1..n - 1 : i + 1 \in 2..n /\ g[i] = f[i + 1]
  BY <1>1
<1> HIDE DEF g
<1>3. SUFFICES ASSUME NEW u \in Users \cup {Bot}
               PROVE  /\ \A i \in 1..n - 1 :
                           LastOf(g, u, i, n - 1) => (g[i].kind = "here" <=> u \in room)
                      /\ (\A i \in 1..n - 1 : g[i].user # u) =>
                           /\ u \in room \ missing => u \in newList
                           /\ u \in newList => u \in room \cup old
  BY DEF Tells, g
<1>4. ASSUME NEW j \in 2..n PROVE j - 1 \in 1..n - 1 /\ g[j - 1] = f[j]
  BY <1>2, <1>4
<1>5. ASSUME NEW i \in 1..n - 1, LastOf(g, u, i, n - 1)
      PROVE  i + 1 \in 1..n /\ LastOf(f, u, i + 1, n) /\ g[i] = f[i + 1]
  <2>1. ASSUME NEW j \in i + 2..n PROVE f[j].user # u
    <3>1. j \in 2..n /\ j - 1 \in i + 1..n - 1
      BY <1>2, <2>1
    <3> QED
      BY <1>4, <1>5, <3>1 DEF LastOf
  <2>2. i + 1 \in 1..n /\ g[i] = f[i + 1] /\ f[i + 1].user = u /\ (i + 1) + 1 = i + 2
    BY <1>2, <1>5 DEF LastOf
  <2> QED
    BY <2>1, <2>2 DEF LastOf
<1>6. ASSUME \A i \in 1..n - 1 : g[i].user # u
      PROVE  /\ f[1].user = u => LastOf(f, u, 1, n)
             /\ f[1].user # u => \A i \in 1..n : f[i].user # u
  <2>1. \A j \in 2..n : f[j].user # u
    BY <1>4, <1>6
  <2> QED
    BY <1>2, <2>1 DEF LastOf
<1>7. /\ \A i \in 1..n : LastOf(f, u, i, n) => (f[i].kind = "here" <=> u \in room)
      /\ (\A i \in 1..n : f[i].user # u) =>
           /\ u \in room \ missing => u \in list
           /\ u \in list => u \in room \cup old
  BY DEF Tells
<1>8. \A i \in 1..n - 1 : LastOf(g, u, i, n - 1) => (g[i].kind = "here" <=> u \in room)
  BY <1>5, <1>7
<1>9. ASSUME \A i \in 1..n - 1 : g[i].user # u
      PROVE  (u \in room \ missing => u \in newList) /\ (u \in newList => u \in room \cup old)
  <2>1. CASE f[1].user = u
    <3>1. 1 \in 1..n /\ LastOf(f, u, 1, n)
      BY <1>2, <1>6, <1>9, <2>1
    <3>2. f[1].kind = "here" <=> u \in room
      BY <1>7, <3>1
    <3> QED
      BY <2>1, <3>2
  <2>2. CASE f[1].user # u
    BY <1>6, <1>7, <1>9, <2>2
  <2> QED
    BY <2>1, <2>2
<1> QED
  BY <1>8, <1>9

LEMMA HandleInStep ==
  ASSUME InStepInv, HandlePacket
  PROVE  InStepInv'
<1> DEFINE p == Head(feed)
<1>1. /\ feed # <<>> /\ feed' = Tail(feed) /\ open
      /\ UNCHANGED <<online, open, listed, untold, before>>
  BY DEF HandlePacket
<1>2. /\ feed \in Seq(Packets)
      /\ online \subseteq Users \cup {Bot} /\ m_List \subseteq Users \cup {Bot}
  BY DEF InStepInv, TypeOK, Packets
<1>3. /\ p \in Packets /\ p = feed[1] /\ feed' \in Seq(Packets)
      /\ Len(feed) \in Nat /\ Len(feed) >= 1 /\ Len(feed') = Len(feed) - 1
      /\ \A i \in 1..Len(feed') : feed'[i] = feed[i + 1]
  <2>1. Len(feed) \in Nat /\ Len(feed) # 0
    BY <1>1, <1>2, EmptySeq
  <2>2. /\ p \in Packets /\ feed' \in Seq(Packets) /\ Len(feed') = Len(feed) - 1
        /\ \A i \in 1..Len(feed') : feed'[i] = feed[i + 1]
    BY <1>1, <1>2, HeadTailProperties
  <2>3. p = feed[1]
    BY <1>2, <2>1
  <2> QED
    BY <2>1, <2>2, <2>3
<1>4. /\ p.kind \in Kinds /\ p.user \in Users \cup {Bot, Blank}
      /\ p.kind = "line" => p.user = Blank
  BY <1>1, <1>3 DEF Packets, InStepInv, FeedTells
<1>5. \A u \in Users \cup {Bot} :
        /\ p.user = u => (u \in m_List' <=> p.kind = "here")
        /\ p.user # u => (u \in m_List' <=> u \in m_List)
  BY <1>2, <1>4, RosterAssumption
  DEF HandlePacket, Here, End, IsEnd, Gone, Line, Add, Remove, Kinds
<1>6. TypeOK'
  <2>1. m_List' \subseteq Users \cup {Bot} /\ rows' \subseteq Users \cup {Bot}
        /\ unknown' \subseteq Users \cup {Bot}
    BY <1>2, <1>4 DEF HandlePacket, Here, End, IsEnd, Gone, Line, Add, Remove, AddUser, InStepInv, TypeOK
  <2>2. loggedIn' \in BOOLEAN
    BY DEF HandlePacket, Here, End, IsEnd, Gone, Line, InStepInv, TypeOK
  <2>3. greeting' \in {"none", "alone", "mortal", "mortals"}
    BY DEF HandlePacket, Here, End, IsEnd, Gone, Line, Greeting, InStepInv, TypeOK
  <2> QED
    BY <1>1, <1>3, <2>1, <2>2, <2>3 DEF InStepInv, TypeOK, Packets
<1> HIDE DEF p
<1>7. ASSUME NEW n \in 1..Len(feed), NEW room, NEW missing,
             Tells(feed, n, m_List, before, room, missing)
      PROVE  Tells(feed', n - 1, m_List', before, room, missing)
  BY <1>1, <1>2, <1>3, <1>5, <1>7, TailTells
<1>8. FeedTells'
  <2>1. /\ Tells(feed, Len(feed), m_List, before, online, untold)
        /\ \A k \in 1..Len(feed) :
             /\ feed[k].kind = "line" => feed[k].user = Blank
             /\ feed[k].user = Blank =>
                  Tells(feed, k - 1, m_List, before, feed[k].room, feed[k].untold)
    BY <1>1 DEF InStepInv, FeedTells
  <2>2. Tells(feed', Len(feed'), m_List', before, online, untold)
    BY <1>3, <1>7, <2>1
  <2>3. ASSUME NEW k \in 1..Len(feed')
        PROVE  /\ feed'[k].kind = "line" => feed'[k].user = Blank
               /\ feed'[k].user = Blank =>
                    Tells(feed', k - 1, m_List', before, feed'[k].room, feed'[k].untold)
    <3>1. /\ k + 1 \in 1..Len(feed) /\ k \in 1..Len(feed) /\ (k + 1) - 1 = k
          /\ feed'[k] = feed[k + 1]
      BY <1>3
    <3>2. /\ feed[k + 1].kind = "line" => feed[k + 1].user = Blank
          /\ feed[k + 1].user = Blank =>
               Tells(feed, k, m_List, before, feed[k + 1].room, feed[k + 1].untold)
      BY <2>1, <3>1
    <3> QED
      BY <1>7, <3>1, <3>2
  <2> QED
    BY <1>1, <2>2, <2>3 DEF FeedTells
<1> QED
  BY <1>6, <1>8 DEF InStepInv

LEMMA NextInStep == InStepInv /\ [Next]_vars => InStepInv'
<1> SUFFICES ASSUME InStepInv, [Next]_vars PROVE InStepInv'
  OBVIOUS
<1>1. CASE Disconnect
  <2>1. loggedIn' \in BOOLEAN /\ open' \in BOOLEAN /\ ~open'
    BY <1>1, Zenon DEF Disconnect
  <2> QED
    BY <1>1, <2>1 DEF Disconnect, InStepInv, TypeOK, FeedTells, Packets
<1>2. CASE UNCHANGED vars
  BY <1>2 DEF vars, InStepInv, TypeOK, FeedTells, LastOf, Tells
<1> QED
  BY <1>1, <1>2, LoginInStep, ListInStep, TellInStep, HandleInStep DEF Next

-----------------------------------------------------------------------------
\* The first packet, and the rest.
LEMMA FirstPacket ==
  ASSUME TypeOK, feed # <<>>
  PROVE  /\ Head(feed) = feed[1] /\ Head(feed).kind \in Kinds
         /\ Head(feed).user \in Users \cup {Bot, Blank}
         /\ Len(feed) \in Nat /\ 1 \in 1..Len(feed) /\ Len(Tail(feed)) = Len(feed) - 1
         /\ \A i \in 1..Len(Tail(feed)) : i + 1 \in 1..Len(feed) /\ Tail(feed)[i] = feed[i + 1]
<1>1. feed \in Seq(Packets)
  BY DEF TypeOK, Packets
<1>2. Len(feed) \in Nat /\ Len(feed) # 0
  BY <1>1, EmptySeq
<1>3. /\ Head(feed) \in Packets /\ Len(Tail(feed)) = Len(feed) - 1
      /\ \A i \in 1..Len(Tail(feed)) : Tail(feed)[i] = feed[i + 1]
  BY <1>1, HeadTailProperties
<1>4. Head(feed) = feed[1]
  BY <1>1, <1>2
<1>5. Head(feed).kind \in Kinds /\ Head(feed).user \in Users \cup {Bot, Blank}
  BY <1>3 DEF Packets
<1> QED
  BY <1>2, <1>3, <1>4, <1>5

LEMMA LoginEnds ==
  ASSUME Login
  PROVE  ListingEnds'
  BY DEF Login, ListingEnds

LEMMA ListEnds ==
  ASSUME TypeOK, ListingEnds, List
  PROVE  ListingEnds'
<1> DEFINE l == Listing(online)
           n == Len(feed)
<1>1. /\ online \in SUBSET (Users \cup {Bot}) /\ feed \in Seq(Packets) /\ n \in Nat
      /\ feed' = feed \o l /\ listed' = online /\ Bot \in online /\ listed = {} /\ open
      /\ UNCHANGED greeting
  BY DEF TypeOK, List, Packets
<1>2. /\ l \in Seq(Packets) /\ Len(l) \in Nat \ {0}
      /\ \A i \in 1..Len(l) - 1 : l[i].user # Blank
      /\ l[Len(l)] = EndOf(online)
  BY <1>1, ListingFacts
<1>3. /\ Len(feed') = n + Len(l)
      /\ \A i \in 1..n : feed'[i] = feed[i]
      /\ \A i \in n + 1..n + Len(l) : i - n \in 1..Len(l) /\ feed'[i] = l[i - n]
  BY <1>1, <1>2
<1>4. greeting # "alone" /\ \A i \in 1..n : ~IsEnd(feed[i])
  BY <1>1 DEF ListingEnds
<1> HIDE DEF l, n
<1>5. ASSUME NEW i \in 1..Len(feed'), IsEnd(feed'[i])
      PROVE  feed'[i].room = online /\ feed'[i].untold = {}
  <2>1. i \in n + 1..n + Len(l)
    BY <1>1, <1>2, <1>3, <1>4, <1>5
  <2>2. i - n = Len(l)
    BY <1>2, <1>3, <1>5, <2>1 DEF IsEnd
  <2> QED
    BY <1>2, <1>3, <2>1, <2>2 DEF EndOf
<1> QED
  BY <1>1, <1>4, <1>5 DEF ListingEnds

\* What is told is no end of a listing.
LEMMA TellEnds ==
  ASSUME TypeOK, ListingEnds,
         (\E u \in Users \cup {Bot} : Enter(u) \/ Exit(u)) \/ Write
  PROVE  ListingEnds'
<1>1. PICK p :
        /\ feed' = IF open THEN Append(feed, p) ELSE feed
        /\ ~IsEnd(p) /\ UNCHANGED <<open, greeting, listed>>
  <2>1. CASE Write
    BY <2>1 DEF Write, Tell, LineIn, IsEnd
  <2>2. ASSUME NEW u \in Users \cup {Bot}, Enter(u) \/ Exit(u) PROVE u # Blank
    BY RosterAssumption
  <2> QED
    BY <2>1, <2>2 DEF Enter, Exit, Tell, Packet, IsEnd
<1>2. SUFFICES ASSUME open, NEW i \in 1..Len(feed'), IsEnd(feed'[i])
               PROVE  Bot \in listed /\ feed'[i].room = listed /\ feed'[i].untold = {}
  BY <1>1 DEF ListingEnds
<1>3. /\ Len(feed) \in Nat /\ Len(feed') = Len(feed) + 1
      /\ feed'[Len(feed) + 1] = p /\ \A k \in 1..Len(feed) : feed'[k] = feed[k]
  BY <1>1, <1>2 DEF TypeOK
<1> QED
  BY <1>1, <1>2, <1>3 DEF ListingEnds

\* When the end is handled everybody listed is on m_List.
LEMMA HandleEnds ==
  ASSUME TypeOK, FeedTells, ListingEnds, HandlePacket
  PROVE  ListingEnds'
<1> DEFINE p == Head(feed)
<1>1. open /\ feed # <<>> /\ feed' = Tail(feed) /\ UNCHANGED <<open, listed>>
  BY DEF HandlePacket
<1>2. /\ p = feed[1] /\ Len(feed) \in Nat /\ Len(feed') = Len(feed) - 1 /\ 1 \in 1..Len(feed)
      /\ \A i \in 1..Len(feed') : i + 1 \in 1..Len(feed) /\ feed'[i] = feed[i + 1]
  BY <1>1, FirstPacket
<1>3. /\ m_List \subseteq Users \cup {Bot} /\ listed \subseteq Users \cup {Bot}
  BY DEF TypeOK
<1> HIDE DEF p
<1>4. greeting' = "alone" => listed = {Bot}
  <2>1. CASE greeting' = greeting
    BY <2>1 DEF ListingEnds
  <2>2. CASE greeting' # greeting /\ greeting' = "alone"
    <3>1. IsEnd(feed[1]) /\ greeting' = Greeting(Cardinality(m_List))
      BY <1>2, <2>2 DEF HandlePacket, Here, End, IsEnd, Gone, Line, p
    <3>2. Cardinality(m_List) = 1
      BY <2>2, <3>1 DEF Greeting
    <3>3. IsFiniteSet(m_List)
      BY <1>3, RosterAssumption, FS_Subset, FS_AddElement
    <3>4. PICK x : m_List = {x}
      BY <3>2, <3>3, FS_Singleton
    <3>5. Bot \in listed /\ feed[1].room = listed /\ feed[1].untold = {} /\ feed[1].user = Blank
      BY <1>1, <1>2, <3>1 DEF ListingEnds, IsEnd
    <3>6. Tells(feed, 0, m_List, before, listed, {})
      <4>1. Tells(feed, 1 - 1, m_List, before, feed[1].room, feed[1].untold)
        BY <1>1, <1>2, <3>5 DEF FeedTells
      <4> QED
        BY <3>5, <4>1
    <3>7. listed \subseteq m_List
      BY <1>3, <3>6 DEF Tells
    <3> QED
      BY <3>4, <3>5, <3>7
  <2> QED
    BY <2>1, <2>2
<1> QED
  BY <1>1, <1>2, <1>4 DEF ListingEnds

LEMMA NextEnds == TypeOK /\ FeedTells /\ ListingEnds /\ [Next]_vars => ListingEnds'
<1> SUFFICES ASSUME TypeOK, FeedTells, ListingEnds, [Next]_vars PROVE ListingEnds'
  OBVIOUS
<1>1. CASE Disconnect
  BY <1>1 DEF Disconnect, ListingEnds
<1>2. CASE UNCHANGED vars
  BY <1>2 DEF vars, ListingEnds
<1> QED
  BY <1>1, <1>2, LoginEnds, ListEnds, TellEnds, HandleEnds DEF Next

-----------------------------------------------------------------------------
\* Names with the same key are one name to the table.
LEMMA KeysAreAnEquivalence ==
  /\ \A s \in Strings : SameName(s, s)
  /\ \A s, t \in Strings : SameName(s, t) => SameName(t, s)
  /\ \A r, s, t \in Strings : SameName(r, s) /\ SameName(s, t) => SameName(r, t)
  BY PrefixAssumption DEF SameName

\* AddUser makes a row for a new key only, or leaves the name unknown.
LEMMA AddUserKeys ==
  ASSUME rows \subseteq Strings, unknown \subseteq Strings, m_List \subseteq Strings,
         KeysDiffer, NEW u \in Strings, AddUser(u), m_List' = m_List \cup {u}
  PROVE  KeysDiffer'
<1>1. CASE UNCHANGED rows /\ unknown' = IF HasRow(u) THEN unknown ELSE unknown \cup {u}
  BY <1>1 DEF KeysDiffer, HasRow
<1>2. CASE /\ rows' = IF HasRow(u) THEN rows ELSE rows \cup {u}
           /\ unknown' = {v \in unknown : ~SameName(u, v)}
  <2>1. CASE HasRow(u)
    <3>1. PICK r \in rows : SameName(r, u)
      BY <2>1 DEF HasRow
    <3>2. \A v \in unknown : ~SameName(u, v)
      BY <3>1, KeysAreAnEquivalence DEF KeysDiffer, HasRow
    <3>3. rows' = rows /\ unknown' = unknown /\ u \notin unknown
      BY <1>2, <2>1, <3>2, KeysAreAnEquivalence
    <3> QED
      BY <2>1, <3>3 DEF KeysDiffer, HasRow
  <2>2. CASE ~HasRow(u)
    <3>1. rows' = rows \cup {u}
      BY <1>2, <2>2
    <3>2. \A r, s \in rows' : SameName(r, s) => r = s
      BY <2>2, <3>1, KeysAreAnEquivalence DEF KeysDiffer, HasRow
    <3>3. \A v \in Strings : HasRow(v)' <=> HasRow(v) \/ SameName(u, v)
      BY <3>1 DEF HasRow
    <3>4. ASSUME NEW v \in m_List' \cup unknown' PROVE HasRow(v)' <=> v \notin unknown'
      <4>1. v \in m_List \cup unknown \/ v = u
        BY <1>2, <3>4
      <4>2. CASE v \in m_List \cup unknown
        <5>1. HasRow(v) <=> v \notin unknown
          BY <4>2 DEF KeysDiffer
        <5> QED
          BY <1>2, <3>3, <4>2, <5>1
      <4>3. CASE v = u
        BY <1>2, <3>3, <4>3, KeysAreAnEquivalence
      <4> QED
        BY <4>1, <4>2, <4>3
    <3> QED
      BY <3>2, <3>4 DEF KeysDiffer
  <2> QED
    BY <2>1, <2>2
<1> QED
  BY <1>1, <1>2 DEF AddUser

LEMMA NextKeys == TypeOK /\ KeysDiffer /\ [Next]_vars => KeysDiffer'
<1> SUFFICES ASSUME TypeOK, KeysDiffer, [Next]_vars PROVE KeysDiffer'
  OBVIOUS
<1>1. /\ rows \subseteq Strings /\ unknown \subseteq Strings /\ m_List \subseteq Strings
      /\ Users \cup {Bot} \subseteq Strings
  BY RosterAssumption DEF TypeOK
<1>2. CASE HandlePacket
  <2> DEFINE p == Head(feed)
  <2>1. p.user \in Users \cup {Bot, Blank}
    BY <1>2, FirstPacket DEF HandlePacket
  <2> HIDE DEF p
  <2>2. CASE Here(p)
    BY <1>1, <2>1, <2>2, AddUserKeys DEF Here, Add
  <2>3. CASE End(p) \/ Gone(p) \/ Line(p)
    BY <2>3 DEF End, Gone, Line, Remove, KeysDiffer, HasRow
  <2> QED
    BY <1>2, <2>2, <2>3 DEF HandlePacket, p
<1>3. ASSUME UNCHANGED <<rows, unknown, m_List>> PROVE KeysDiffer'
  BY <1>3 DEF KeysDiffer, HasRow
<1> QED
  BY <1>2, <1>3 DEF Next, Login, List, Enter, Exit, Write, Disconnect, vars

LEMMA InitInv == Init => Inv
<1>1. Init => ListingEnds /\ KeysDiffer
  <2> SUFFICES ASSUME Init PROVE ListingEnds /\ KeysDiffer
    OBVIOUS
  <2>1. ~open
    BY Zenon DEF Init
  <2> QED
    BY <2>1 DEF Init, ListingEnds, KeysDiffer, HasRow
<1> QED
  BY <1>1, InitInStep DEF Inv, InStepInv

LEMMA NextInv == Inv /\ [Next]_vars => Inv'
  BY NextInStep, NextEnds, NextKeys DEF Inv, InStepInv

\* The strengthened invariant.
THEOREM Invariance == Spec => []Inv
  BY InitInv, NextInv, PTL DEF Spec

\* m_List never holds BLANK, only names of users and the bot's own.
THEOREM TypeCorrectness == Spec => []TypeOK
<1>1. Inv => TypeOK
  BY DEF Inv
<1> QED
  BY <1>1, Invariance, PTL

-----------------------------------------------------------------------------
\* A line at hand is resolved in the room it was written in.
LEMMA LineTold ==
  ASSUME Inv, AtLine
  PROVE  Room \ Untold \subseteq m_List /\ m_List \subseteq Room \cup before
                                        /\ Room \subseteq Users \cup {Bot}
<1>1. feed \in Seq(Packets) /\ feed # <<>> /\ m_List \subseteq Users \cup {Bot}
  BY DEF Inv, TypeOK, AtLine, Packets
<1>2. Head(feed) = feed[1] /\ Head(feed) \in Packets /\ 1 \in 1..Len(feed)
  BY <1>1
<1>3. Room \subseteq Users \cup {Bot}
  BY <1>2 DEF Room, Packets
<1>4. Tells(feed, 0, m_List, before, Room, Untold)
  BY <1>2 DEF Inv, FeedTells, AtLine, Room, Untold
<1>5. \A u \in Users \cup {Bot} : /\ u \in Room \ Untold => u \in m_List
                                  /\ u \in m_List => u \in Room \cup before
  BY <1>4 DEF Tells
<1> QED
  BY <1>1, <1>3, <1>5

\* HandlePacket keeps m_List in step with the room, whatever is under way and
\* however often the bot reconnects: at each line it is the room of that line,
\* but for those whom the server had not named yet, and leftovers.
THEOREM StaysInStep == Spec => []RosterInStep
<1>1. Inv => RosterInStep
  BY LineTold DEF RosterInStep
<1> QED
  BY <1>1, Invariance, PTL

\* So a full name hits the user who has it, once the bot has been told of them.
THEOREM FullNamesHit == Spec => []FullNameHits
<1>1. Inv => FullNameHits
  <2> SUFFICES ASSUME Inv, AtLine, NEW u \in Room \ Untold, NEW caller \in Room, ~IsMe(u)
               PROVE  Resolve(m_List, caller, u) = u
    BY DEF FullNameHits
  <2>1. u \in m_List /\ m_List \subseteq Strings
    BY LineTold, RosterAssumption DEF Inv, TypeOK
  <2> QED
    BY <2>1, ListedNameIsItself
<1> QED
  BY <1>1, Invariance, PTL

\* The comment in Resolve and its code agree in every room.
THEOREM PassesCommute == Spec => []OrderDoesNotMatter
<1>1. Inv => OrderDoesNotMatter
  BY RosterAssumption, OrderIrrelevant DEF Inv, TypeOK, OrderDoesNotMatter
<1> QED
  BY <1>1, Invariance, PTL

\* A room is called empty only when nobody but the bot was listed, whatever
\* earlier sessions left on m_List.
THEOREM AloneIsAlone == Spec => []AloneMeansAlone
<1>1. Inv => AloneMeansAlone
  BY DEF Inv, ListingEnds, AloneMeansAlone
<1> QED
  BY <1>1, Invariance, PTL

\* Whoever is listed has exactly one row, or none since AddUser failed.
THEOREM ListedAreKnown == Spec => []ListedHaveOneRow
<1>1. Inv => ListedHaveOneRow
  <2> SUFFICES ASSUME Inv, NEW u \in m_List
               PROVE  Cardinality({r \in rows : SameName(r, u)}) = IF u \in unknown THEN 0 ELSE 1
    BY DEF ListedHaveOneRow
  <2>1. rows \subseteq Strings /\ u \in Strings
    BY RosterAssumption DEF Inv, TypeOK
  <2>2. CASE u \in unknown
    <3>1. {r \in rows : SameName(r, u)} = {}
      BY <2>2 DEF Inv, KeysDiffer, HasRow
    <3> QED
      BY <2>2, <3>1, FS_EmptySet
  <2>3. CASE u \notin unknown
    <3>1. PICK r \in rows : SameName(r, u)
      BY <2>3 DEF Inv, KeysDiffer, HasRow
    <3>2. ASSUME NEW s \in rows, SameName(s, u) PROVE s = r
      <4>1. SameName(s, r)
        BY <2>1, <3>1, <3>2, KeysAreAnEquivalence
      <4> QED
        BY <4>1 DEF Inv, KeysDiffer
    <3>3. {s \in rows : SameName(s, u)} = {r}
      BY <3>1, <3>2
    <3> QED
      BY <2>3, <3>3, FS_Singleton
  <2> QED
    BY <2>2, <2>3
<1> QED
  BY <1>1, Invariance, PTL
=============================================================================
