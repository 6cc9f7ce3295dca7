------------------------------ MODULE Packets ------------------------------
(***************************************************************************)
(* Framing: how MeepBot::Read, Login and MainLoop turn what recv() returns *)
(* into packets (PacketUtil, StringUtil::Split, class ChatPacket).         *)
(*                                                                         *)
(* The server sends packets one after the other; TCP may cut the stream    *)
(* anywhere, and the bot keeps nothing from one read for the next but what *)
(* it happens to leave in m_sReadBuffer, which the next connection starts  *)
(* with.  A byte is a one-letter string, and memory around m_sReadBuffer   *)
(* is modelled byte by byte, because Read stores its terminator at         *)
(* m_sReadBuffer[ret] for ret = -1 and ret = BUFFER_SIZE too.              *)
(***************************************************************************)
EXTENDS Integers, Sequences, FiniteSets, SequencesExt

CONSTANTS
  Char,         \* the bytes but '\0', '`' and '\n'
  BUFFER_SIZE,  \* of m_sReadBuffer (4096)
  Feeds,        \* the sequences of packets a server may send
  MaxCalls      \* bound: calls of recv that return bytes, and of connect again

\* The bytes with a meaning of their own: '\0', '`' and '\n'.
NUL     == "NUL"
TICK    == "tick"
NEWLINE == "newline"

ASSUME BufferAssumption == BUFFER_SIZE \in Nat \ {0} /\ MaxCalls \in Nat

-----------------------------------------------------------------------------
(***************************************************************************)
(* StringUtil::Split.  npos is the position after the last character.      *)
(***************************************************************************)
Positions(s) == 1 .. Len(s) + 1

\* std::string::find_first_of and find_first_not_of with one character.
FindFirst(s, P, i) == Min({k \in P : k >= i} \cup {Len(s) + 1})

Delimiters(s, delim) == {k \in DOMAIN s : s[k] = delim}

\* Bug: the loop ends when either search finds nothing.
TokensEarly(s, delim) ==
  LET D == Delimiters(s, delim)
      tokens[i \in Positions(s)] ==
        LET start == FindFirst(s, DOMAIN s \ D, i)
            next  == FindFirst(s, D, start)
        IN  IF start > Len(s) \/ next > Len(s) THEN <<>>
            ELSE <<SubSeq(s, start, next - 1)>> \o tokens[next]
  IN  tokens

\* What the loop adds from each value of next on.
Tokens(s, delim) ==
  LET D == Delimiters(s, delim)
      tokens[i \in Positions(s)] ==
        LET start == FindFirst(s, DOMAIN s \ D, i)
            next  == FindFirst(s, D, start)
        IN  IF start > Len(s) THEN <<>>
            ELSE <<SubSeq(s, start, next - 1)>> \o tokens[next]
  IN  tokens

Split(s, delim) == Tokens(s, delim)[1]

\* What a reader expects: the longest runs without the delimiter, in order.
Runs(s, delim) ==
  LET D      == Delimiters(s, delim)
      starts == {i \in DOMAIN s \ D : i = 1 \/ i - 1 \in D}
      lasts  == {j \in DOMAIN s \ D : j = Len(s) \/ j + 1 \in D}
  IN  {r \in starts \X lasts : r[1] <= r[2] /\ (r[1] .. r[2]) \cap D = {}}

-----------------------------------------------------------------------------
(***************************************************************************)
(* class ChatPacket.  Its constructors leave out, from the right, the      *)
(* colours and then the two strings.                                       *)
(***************************************************************************)
BLANK        == <<"_">>
INVALID_CODE == 65535

Coloured(code, user, msg, r, g, b) ==
  [code |-> code, user |-> user, msg |-> msg, rgb |-> <<r, g, b>>]
Plain(code, user, msg) == Coloured(code, user, msg, 0, 0, 0)
Bare(code)             == Plain(code, BLANK, BLANK)

Numerals == <<"0", "1", "2", "3", "4", "5", "6", "7", "8", "9">>
Numeral  == [c \in Range(Numerals) |-> CHOOSE n \in 0..9 : Numerals[n + 1] = c]

\* printf("%u") of a number below 2^16.
Digits[n \in 0..INVALID_CODE] ==
  IF n < 10 THEN <<Numerals[n + 1]>>
  ELSE Append(Digits[n \div 10], Numerals[(n % 10) + 1])

\* atoi: the number the leading digits make.
Atoi(s) ==
  LET end == FindFirst(s, {k \in DOMAIN s : s[k] \notin Range(Numerals)}, 1)
      number[i \in 0 .. end - 1] ==
        IF i = 0 THEN 0 ELSE (10 * number[i - 1]) + Numeral[s[i]]
  IN  number[end - 1]

Printed(p) ==
  LET tick == <<TICK>>
  IN  Digits[p.code] \o tick \o p.user \o tick \o p.msg \o tick
      \o Digits[p.rgb[1]] \o tick \o Digits[p.rgb[2]] \o tick
      \o Digits[p.rgb[3]] \o <<NEWLINE>>

\* Bug: the buffer leaves no room for the newline.
FormatTight(p) == SubSeq(Printed(p), 1, Len(Printed(p)) - 1)

\* ChatPacket::ToString: snprintf keeps what fits into iLen bytes with a terminator.
Format(p) ==
  LET iLen == Len(p.user) + Len(p.msg) + 20
  IN  IF Len(Printed(p)) < iLen THEN Printed(p) ELSE SubSeq(Printed(p), 1, iLen - 1)

\* Bug: too many or too few fields are accepted.
FromStringLoose(s) ==
  LET tokens == Split(s, TICK)
  IN  IF Len(tokens) < 4 THEN Plain(INVALID_CODE, <<>>, <<>>)
      ELSE Coloured(Atoi(tokens[1]) % 65536, tokens[2], tokens[3], 0, 0, 0)

FromString(s) ==
  LET tokens == Split(s, TICK)
      colour(k) == Atoi(tokens[k]) % 256
  IN  IF Len(tokens) # 6 THEN Plain(INVALID_CODE, <<>>, <<>>)
      ELSE Coloured(Atoi(tokens[1]) % 65536, tokens[2], tokens[3],
                    colour(4), colour(5), colour(6))

\* PacketUtil: the first newline is not the last character.
NeedsSplit(s) == FindFirst(s, Delimiters(s, NEWLINE), 1) # Len(s)

\* The strings MainLoop hands to HandlePacket.
PacketsOf(s) == IF NeedsSplit(s) THEN Split(s, NEWLINE) ELSE <<s>>

IsValid(p) == p.code # INVALID_CODE

\* MainLoop: what HandlePacket finds in the strings, one after the other.
Parsed(strings) ==
  LET parsed[i \in 0 .. Len(strings)] ==
        IF i = 0 THEN <<>>
        ELSE IF IsValid(FromString(strings[i]))
             THEN Append(parsed[i - 1], FromString(strings[i]))
             ELSE parsed[i - 1]
  IN  parsed[Len(strings)]

Wire(packets) == FlattenSeq([i \in DOMAIN packets |-> Format(packets[i])])

\* What the chat's packets are made of: a name and a message are never empty
\* (BLANK stands for nothing) and hold no delimiter and, as C strings, no NUL.
\* The server's codes have at most three digits (MessageCodes.h); with five, iLen
\* would leave no room for the newline.
ASSUME CharAssumption == Range(Numerals) \subseteq Char /\ {NUL, TICK, NEWLINE} \cap Char = {}

Field  == {s \in Seq(Char) : s # <<>>}
Code   == 0..9999
Colour == 0..255
Packet == [code : Code, user : Field, msg : Field, rgb : Colour \X Colour \X Colour]

ASSUME FeedAssumption == Feeds \subseteq Seq(Packet)

-----------------------------------------------------------------------------
VARIABLES
  feed,     \* the packets of this connection
  sent,     \* the bytes the server sends for them
  stops,    \* where in sent each of them ends
  pos,      \* how many of them recv has returned
  mem,      \* m_bLoggedIn at -1, m_sReadBuffer from 0, then a byte of padding
            \* and m_Socket
  phase,    \* "login" (reads once), "granted", "loop" or "ended"
  handled,  \* the well-formed packets HandlePacket was given on this connection
  calls,    \* those calls so far
  ends,     \* history: where the reads of this connection ended
  last,     \* history: the bytes that recv returned last, on any connection
  answered, \* history: is the answer that Login parsed this connection's?
  welcomed  \* history: did an earlier connection begin with a grant?

vars == <<feed, sent, stops, pos, mem, phase, handled, calls, ends, last, answered, welcomed>>

Cells    == -1 .. BUFFER_SIZE + 1
LoggedIn == mem[-1] # NUL

\* The C string at m_sReadBuffer.
Length(m) == CHOOSE n \in 0..BUFFER_SIZE : m[n] = NUL /\ \A k \in 0 .. n - 1 : m[k] # NUL
Text(m)   == [i \in 1..Length(m) |-> m[i - 1]]

ACCESS_GRANTED == 100

\* Where the packets of a stream end.
Stops(packets) == [i \in DOMAIN packets |-> Len(Wire(SubSeq(packets, 1, i)))]

\* MeepBot::MeepBot fills m_sReadBuffer with zeros, once.
Init ==
  /\ feed \in Feeds
  /\ sent = Wire(feed) /\ stops = Stops(feed)
  /\ pos = 0 /\ ends = {}
  /\ phase = "login" /\ handled = <<>> /\ answered = FALSE
  /\ mem = [k \in Cells |-> IF k = BUFFER_SIZE + 1 THEN "socket" ELSE NUL]
  /\ calls = 0 /\ last = <<>> /\ welcomed = FALSE

Grants(packets) == packets # <<>> /\ packets[1].code = ACCESS_GRANTED

\* main connects again, with whatever is in m_sReadBuffer.
Reconnect ==
  /\ phase = "ended"
  /\ feed' \in Feeds
  /\ sent' = Wire(feed') /\ stops' = Stops(feed')
  /\ pos' = 0 /\ ends' = {}
  /\ phase' = "login" /\ handled' = <<>> /\ answered' = FALSE
  /\ welcomed' = (welcomed \/ Grants(feed))
  /\ calls < MaxCalls /\ calls' = calls + 1
  /\ UNCHANGED <<mem, last>>

\* recv() and the terminator; n is what recv returns.
\* Bug: the terminator is put one further.
ReadShifted(n) ==
  /\ calls < MaxCalls
  /\ n <= Len(sent) - pos
  /\ calls' = calls + 1
  /\ pos' = pos + n
  /\ ends' = ends \cup {pos + n}
  /\ last' = SubSeq(sent, pos + 1, pos + n)
  /\ mem' = [k \in Cells |-> IF k \in 0 .. n - 1 THEN sent[pos + k + 1]
                             ELSE IF k = n + 1 THEN NUL ELSE mem[k]]

Read(n) ==
  /\ calls < MaxCalls
  /\ n <= Len(sent) - pos
  /\ calls' = calls + 1
  /\ pos' = pos + n
  /\ ends' = ends \cup {pos + n}
  /\ last' = SubSeq(sent, pos + 1, pos + n)
  /\ mem' = [k \in Cells |-> IF k \in 0 .. n - 1 THEN sent[pos + k + 1]
                             ELSE IF k = n THEN NUL ELSE mem[k]]

\* recv() fails or the server has closed: Socket::Read gives -1 for either.
ReadFails ==
  /\ mem' = [mem EXCEPT ![-1] = NUL]
  /\ UNCHANGED <<pos, calls, ends, last>>

\* Bug: any packet of the read may be the answer.
LoginBySearch(ok) ==
  /\ phase = "login"
  /\ IF ok THEN \E n \in 1..BUFFER_SIZE : Read(n) ELSE ReadFails
  /\ phase' = IF \E s \in Range(PacketsOf(Text(mem'))) : FromString(s).code = ACCESS_GRANTED
              THEN "granted" ELSE "ended"
  /\ answered' = ok
  /\ UNCHANGED <<feed, sent, stops, handled, welcomed>>

\* Login looks at one read as one packet, and at what is in the buffer if the
\* read fails, for -1 is true.
Login(ok) ==
  /\ phase = "login"
  /\ IF ok THEN \E n \in 1..BUFFER_SIZE : Read(n) ELSE ReadFails
  /\ phase' = IF FromString(Text(mem')).code = ACCESS_GRANTED THEN "granted" ELSE "ended"
  /\ answered' = ok
  /\ UNCHANGED <<feed, sent, stops, handled, welcomed>>

Granted ==
  /\ phase = "granted"
  /\ phase' = "loop"
  /\ mem' = [mem EXCEPT ![-1] = "set"]
  /\ UNCHANGED <<feed, sent, stops, pos, handled, calls, ends, last, answered, welcomed>>

\* MainLoop: every packet of the read is handled, and the rest of it dropped.
Receive(n) ==
  /\ phase = "loop"
  /\ Read(n)
  /\ handled' = handled \o Parsed(PacketsOf(Text(mem')))
  /\ UNCHANGED <<feed, sent, stops, phase, answered, welcomed>>

\* MainLoop ends when a read fails.
Lost ==
  /\ phase = "loop"
  /\ ReadFails
  /\ phase' = "ended"
  /\ UNCHANGED <<feed, sent, stops, handled, answered, welcomed>>

Next ==
  \/ \E ok \in BOOLEAN : Login(ok)
  \/ Granted
  \/ \E n \in 1..BUFFER_SIZE : Receive(n)
  \/ Lost
  \/ Reconnect

Spec == Init /\ [][Next]_vars

-----------------------------------------------------------------------------
\* The buffer, its neighbours, the position and the phase have their types.
TypeOK ==
  /\ pos \in 0 .. Len(sent)
  /\ DOMAIN mem = Cells /\ mem[-1] \in {NUL, "set"}
  /\ phase \in {"login", "granted", "loop", "ended"}
  /\ calls \in 0..MaxCalls
  /\ answered \in BOOLEAN /\ welcomed \in BOOLEAN

\* Read writes outside m_sReadBuffer, at -1 and at BUFFER_SIZE, but never over
\* m_Socket, and over m_bLoggedIn only when it has failed (MeepBot::Read); the
\* C string in the buffer is what recv returned last and nothing older, however
\* full the buffer and however many connections ago.
Terminated(m) == \E n \in 0..BUFFER_SIZE : m[n] = NUL

ReadsLandInTheBuffer ==
  /\ mem[BUFFER_SIZE + 1] = "socket"
  /\ phase = "loop" => LoggedIn
  /\ Terminated(mem)
  /\ Text(mem) = last

\* Both uses of StringUtil::Split find exactly the runs between delimiters,
\* with delimiters at either end, doubled or missing.
SplitFindsTheRuns ==
  \A delim \in {TICK, NEWLINE} :
    LET s      == Text(mem)
        runs   == Runs(s, delim)
        nth(k) == CHOOSE r \in runs : Cardinality({q \in runs : q[1] < r[1]}) = k - 1
    IN  Split(s, delim) = [k \in 1..Cardinality(runs) |-> SubSeq(s, nth(k)[1], nth(k)[2])]

\* While every read ends where a packet ends, the packets handled are those the
\* server sent after its answer to the login, or with its answer if Login took
\* an older one for it, complete, in order and with every field as it was:
\* framing and ToString/FromString are inverse.
WholeReadsLoseNothing ==
  phase = "loop" /\ ends \subseteq Range(stops) =>
    \E i \in 0..Len(feed) :
      /\ pos = IF i = 0 THEN 0 ELSE stops[i]
      /\ handled = SubSeq(feed, IF answered THEN 2 ELSE 1, i)

\* Wherever recv cuts the stream, a packet that is handled has the user and the
\* message of one packet sent, none is handled twice and none overtakes another:
\* a cut never joins one user's name to another's words.
FieldsBelongTogether ==
  \E f \in [DOMAIN handled -> DOMAIN feed] :
    /\ \A i \in DOMAIN handled : /\ handled[i].user = feed[f[i]].user
                                 /\ handled[i].msg = feed[f[i]].msg
    /\ \A i, j \in DOMAIN handled : i < j => f[i] < f[j]

\* A connection gets past Login by its own first packet, wherever recv cuts it,
\* and only if its first read has not come to the user name of the next packet
\* (Login looks at one read as a packet); or with nothing read on it, by the
\* answer an earlier connection left in the buffer, if one was really granted
\* access: no denial, and no other packet, is ever left as something that grants.
GrantComesAlone ==
  phase \in {"granted", "loop"} =>
    IF answered
    THEN /\ Grants(feed)
         /\ \E n \in ends :
              n <= stops[1] \/ (Len(feed) > 1 /\ n <= stops[1] + 1 + Len(Digits[feed[2].code]))
    ELSE welcomed
=============================================================================
