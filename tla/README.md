# A verification development for MeepBot

MeepBot is a chat bot: a single-threaded C++ program that logs in to a chat
server, follows who is in the room, hands every line it reads to a Lua
dispatcher, and keeps users and quotes in an SQLite database. This directory
models its control in TLA+, checks the models with TLC, and proves the main
results with TLAPS.

Paths below are relative to the repository: `src/Main.cpp`, `scripts/Warnings.lua`.

## 1. The system

| Part | State | Operations | Hard because |
|---|---|---|---|
| Session: `Main.cpp`, `MeepBot.cpp`, `network/Socket.cpp` | `m_bLoggedIn`, `exit_lock`, `wait_length`, `m_sReadBuffer`, `m_iSocket` | reconnect loop, Connect, Login, MainLoop, Logout, Disconnect, Say/Emote/PM/Write, `clean_exit` | signal handlers run on the same stack between any two steps and share every variable; SIGPIPE is raised inside `send()`; failed attempts are retried with a growing wait |
| Users table: `database/UserDB.cpp`; `Warnings.lua`, `AdminActions.lua`, `Describe.lua`, `EnableDisable.lua` | a row per user: level, protection, warnings, description | AddUser, Protect, SetAccessLevel, SetWarnings, SetDescription; warn, unwarn, protect, unprotect, setdesc | warn makes four transactions whose results it ignores; the process can be killed between them |
| User list: `model/UserList.cpp` and the packets in `MeepBot::HandlePacket` | `m_List` | Add, Remove, FindMatch, Resolve | the list survives reconnects and is wrong until the listing comes, names overlap, the database's key ignores case and the list does not, a row can fail to be made |
| Lines: `MeepBot_LuaBindings.cpp`, `scripts/00 Util.lua` and the command scripts | `L`, `MeepBot.IsEnabled`, `MeepBot.AccessLevel` | Respond, DoReload, HasAccess, SayOrPM, the commands | the bot reads its own lines; scripts can fail and be reloaded; the flag is tested in two of the three ways to speak |
| Lua state: `MeepBot::OpenLua/CloseLua/ReloadLua`, `util/LuaUtil.cpp`, DoReload | `L`, and copies of it on the stack | open, register, run the scripts, close, reload | SIGHUP reloads in the middle of any of it |
| Packets: `packet/`, `util/StringUtil.cpp` | `m_sReadBuffer` and the members next to it | Read, NeedsSplit, Split, FromString, ToString | TCP has no packet boundaries; nothing is kept between reads but what is left in the buffer, which a failed read hands to Login |
| Quotes: `database/QuotesDB.cpp`, `Quotes.lua` | the quotes table, statements that stay open | add, remove, by number, by pattern | commands take several statements, each of which may fail and between which another process may write; one statement is never finalized |
| Random numbers: `util/ISAAC*`, `Dice.lua` | the pool and its counter | GetValue, Rand, roll, rollx | the refill at the boundary, a remainder by a number a user typed |
| SQLite wrapper, Lua registration, the superseded `src/LuaUtil.cpp`, vendored `sqlite3/` | | | thin, static or third-party |

How they interact: `main()` calls the Session operations; `MainLoop` splits what
it reads and calls `HandlePacket`, which updates `m_List` and the users table
(joins, parts) or calls `Respond` with the line; `Respond` runs the script, which
calls back into Say/PM/Write, `Resolve` and the databases. `clean_exit` and
`reload_scripts` are called by signals on top of any of this.

What makes each part correct is stated by its properties (section 3); the
hazards they are for are listed with their lines in `PROJECT.json`.

## 2. Modules

| Module | Models | Extends or instantiates |
|---|---|---|
| `Session` | the session | |
| `Moderation` | the users table and the commands that change it | `Standing` (instance) |
| `Standing` | the promise of the warning system, one step per command | |
| `UserList` | `class UserList` as operators | |
| `Roster` | `m_List` and rows against a server | `UserList` |
| `Commands` | Respond, the dispatcher and the command scripts | |
| `LuaState` | the life of `L` and of what is made for it, with SIGHUP anywhere | |
| `Packets` | the bytes of one connection after the other, cut into reads, and what becomes of them | |
| `Quotes` | the quotes table and its commands, next to another process | |
| `Dice` | roll, rollx and Rand, for any words drawn | |
| `Isaac` | the generator ISAAC as functions | |
| `Pool` | the pool that Rand draws from, with the dice that are thrown | `Dice`, `Isaac` |
| `MCSession`, `MCRoster`, `MCCommands`, `MCPackets`, `MCPool` | constants for TLC | |
| `SessionProofs`, `ModerationProofs`, `RosterProofs`, `CommandsProofs`, `LuaStateProofs`, `PacketsProofs`, `QuotesProofs`, `DiceProofs` | theorems | |

### Session

`pc` holds a label for every *context*: `main`, and one per signal that
`clean_exit` is installed for. A handler that starts is pushed on the stack
(`level`, `depth`) and only the context on top runs (`At`). `signal()` gives
handlers that stay installed, mask only their own signal and restart `recv`, so
different signals nest and `recv` is never interrupted for good; `sleep` is.
Steps are cut at every access to `m_bLoggedIn` and `exit_lock` and on both sides
of `send()`. `MeepBot::Write` is the pair of labels `send` and `sent` with a
return label in `after`, so that it can be called from every place that calls
it; SIGPIPE is delivered between the two.

The names of the actions follow the code: `Top` and `Sleep` are the loop head of
`main()`; `LookupFails`, `SocketFails`, `ConnectFails`, `Connects` the four ways
`Socket::OpenHost` ends; `Login`, `Joined`, `ReplyArrives`, `ReplyFails`,
`Parse`, `Grant` the steps of `Login`; `Loop`, `ReadPackets`, `ReadFails`,
`HandlePacket`, `Handled` those of `MainLoop`; `Check`, `Say`, `Logout`,
`Clear`, `Count` those of `clean_exit`. A packet is one of five kinds, by what
`HandlePacket` does to the session; the buffer is what `Login` would make of it.
The descriptors are counted up to `MaxFds`. `granted`, `leaked` and `failed` are
history variables and no guard reads them.

### Moderation

The columns of the users table as functions over `Names`, the set of rows, and
`step`/`target`/`count` for the one command, warn, that executes more than one
statement. Every statement can succeed (`Done`) or fail (`Failed`, at most
`MaxErrors` times); an UPDATE without a row changes nothing and succeeds; a
`Crash` drops the command in flight and the Lua state and keeps the table. A
joining user brings any of the three ranks the server can announce, for a new
row only (INSERT OR IGNORE). `Reload` runs `00 Util.lua` again and with it
enables the bot; an administrator may do it, and `Owner` (Fire_Adept) at any rank. `reply` is what the bot last said and of whom.

`Standing` is the specification a user of the bot would write: a warning
counts, the last one bars, unless the user is immune. `Moderation` implements it
until something is killed or fails: between its last count and its
demotion the mapping shows one warning less, so the step that bars is the step
that strikes.

### UserList and Roster

`Resolve` is written over two abstract comparisons of a pattern with a name, of
which the proofs use only what their assumption says; `MCRoster` instantiates
them with `strncmp` and `strncasecmp` over short names. `Login` of `Roster` is the
grant and the request for the listing; the server (external) comes to the request
in a step of its own (`List`), and until then, as afterwards, it sends each change
and each line in order, which the bot handles with the `m_List` it has. A
connection that ends drops what was not handled. `AddUser` may fail, and
`HandlePacket` does not notice. Packets of one read are handled one by one even when
one of them was the bot's own part. Lines are packets too: each carries, as
history, the room as it was when the server passed the line on, and who of it had
not been named to the bot in this session (`Untold`: those who were there first,
until the listing), so that both can be compared with the `m_List` its pattern is
resolved in. `unknown` are the names `AddUser` failed for. What the line then does is
in `Commands` and `Moderation`.

### Commands

Lines are sequences of words. `Outcome` records what a line made the bot do and
appends what it said in the room to `inbox`, since the room sends it back.
`Dispatch` is `MeepBot.Respond` of `00 Util.lua`; each command is an operator
that says whether and where it answers. The scripts on disk can be `good`,
`failing` or without `Respond`, and may be edited at any time; a reload makes
them the Lua state `L`, or leaves `null`. While `L` cannot answer, the room hears
the `Complaint`, whatever kind of line it was.

### LuaState

A Lua state is a number (0 is NULL); `alive`, `tables` and `scripted` say which
were made and not closed, registered, and had their scripts run. `pc` is the next
place at which the code reads or writes `L`, or uses the copy `use` it was given:
OpenLua assigns a new state, registers the tables and runs the scripts, a failing
script makes it complain, close and forget; Respond looks up the function, calls,
and cleans the stack. `Hangup` is SIGHUP's `reload_scripts`, all at once, at any
place. A place that uses a closed state goes on and records it (`events`): what
the library does then is undefined.

### Packets

`sent` is what `ToString` makes of a feed of packets, `pos` how much of it recv
has returned. `mem` is the object's memory from the member before
`m_sReadBuffer` to the one after it, so that `Read` can be seen to write outside.
A read returns any number of bytes that fit, or fails. A connection ends when one
fails, or at Login, and the next starts with the buffer as it is (`Reconnect`):
`Login` with a failed read parses that. `last`, `answered` and `welcomed` are
history: what recv returned last, whether the answer that Login parsed was this
connection's, and whether an earlier connection began with a grant. `Split`, `FromString` (with its
`find`s and atoi) and `ToString` are recursive functions over strings of bytes; the
definition Split is checked against is the set of longest runs without a
delimiter. `Packet` says what a server sends: any code of up to four digits, any
colours, and a name and a message that are not empty and hold neither a delimiter
nor NUL. (A server that passed a ` on in a message would send a packet of seven fields,
which FromString refuses; that, and an empty field, are outside the model.)

### Quotes

The table as a function over ids, `seq` for AUTOINCREMENT, and `pc` for the
statement that a command makes next: `!quote` finds an id and then reads it,
`!removequote` looks up the author, tests and deletes. Any statement can fail,
which the bot takes for a row that is not there: `GetQuoteByID` then gives NULL
just the same. A blank `!quote` searches for the empty pattern; `GetRandomID` is
never reached, since parameters are always a string. `shared` is the lock that
GetQuoteAuthor's statement holds until the bot ends, `outside` another process
that begins, and commits or rolls back, a transaction, by the locks of SQLite's
rollback journal.

### Dice, Isaac and Pool

`Dice` draws any word and brings it into the range of the die; a number of sides
is a whole part, which may be anything, and whether there is a fraction.
`Isaac` is `rand.c`: the mixing, the seeding from the results a pool holds, the
generation of the next pool. The number of words and their width are constants.
`Pool` joins them: `ISAAC_Rand` tests the counter, decrements and refills, and the
word it gives is the one the dice use.

## 3. What is checked

Every run is exhaustive within its bounds.

| Run | Bounds | States | Shows |
|---|---|---|---|
| `session` | 2 signals of different kinds besides any number of SIGPIPE, 2 descriptors, waits up to 3, 2 packets per read | 680 k | types; a send only on a connection (`SendOnOpenSocket`); `m_bLoggedIn` only inside MainLoop (`LoggedOutBetweenSessions`); only failed attempts leak (`SessionsCloseTheirSocket`); no attempt right after a failed one (`FailedAttemptsAreSpaced`); a broken pipe ends the process (`BrokenPipeEnds`), and so does a signal that finds the bot logged in (`SignalEndsSession`) |
| `moderation` | 2 names, 3 warnings, 1 kill, 1 failed statement | 26 k | types and limits; `RankOnlyFalls`; `WarnNeverForgives`; `BarredAreBlank` and `BarredMeansBarred`; `KeepsPromise`: Moderation implements Standing until something fails |
| `roster` | 3 users `Bo`, `bo`, `bob` and the bot, 9 patterns, 3 packets under way when another is sent, 1 name AddUser failed for | 5.4 M | `RosterInStep`, `FullNameHits`: a line is resolved in the room it was written in, as far as the bot has been told of it; `ListedHaveOneRow`, but for those AddUser failed for; `AloneMeansAlone` |
| `commands` | 2 users and the bot with any ranks, every command blank and with an argument, lines that make the bot say commands, in the room and as PM | 138 k | `QuietWhenDisabled`, `PrivateStaysPrivate`, `SwitchedByStaff`, `FeedbackEnds` |
| `lua_state` | 2 reloads, 2 SIGHUPs, scripts that fail in every way | 54 k | a closed state is used only if a SIGHUP struck inside (`OnlyHangupsUndo`); what the bot dies of has one of four causes (`FaultsHaveACause`); nothing leaks (`OneState`); between lines `L` is NULL or complete (`ReadyOrNull`), and NULL only through a script (`BrokenByScripts`) |
| `packets` | streams of up to four packets, a buffer of 30 bytes, up to four calls of recv or connect, reads cut anywhere | 307 k | where Read writes (`ReadsLandInTheBuffer`); Split against its definition (`SplitFindsTheRuns`); reads that end with a packet lose nothing (`WholeReadsLoseNothing`); a handled packet has no fields of two (`FieldsBelongTogether`); what gets past Login (`GrantComesAlone`) |
| `quotes` | 2 texts, 2 people, 3 ids, any number of statements that fail | 1.2 M | `FoundIsWanted`, `ErrorsComeFromOutside`, `NamesTheAdder`, `IdsAreNotReused`, `NotRemovedMeansFailed` |
| `rand` | pools of 8 words of 30 bits, 20 draws, 2 seeds, dice of 0 to 11 sides and numbers of every kind | 2 k | `RollsInRange`; `OnlyRollxDividesByZero`; the draws follow the generator's stream across refills (`DrawsFollowTheStream`); Pool implements Dice (`PoolDrawsWords`) |

Why the bounds are enough. *Session*: two asynchronous signals and SIGPIPE give
handlers nested three deep and both ways `clean_exit` ends; a third could only
exit. Two descriptors allow a leak and a session, and their exhaustion. Waits to 3
show the doubling, a bound that is not a power of two and the reset. *Moderation*:
three warnings are the real limit; nothing relates three users; a second fault
finds nothing that the first did not leave. *Roster*: the names
have every overlap there is (prefix, case, both); three packets under way let a
user leave, return and leave before the bot has read of it, before its listing or
after it; the listing itself is not bounded. One unknown name is enough for a failure
before and after somebody whose key is the same. *Commands*: each line is handled alone, so one pending
line at a time and the answers it causes are all that interact; conversations
with itself are bounded by the length of the lines, not by the instance.
*LuaState*: one reload under way and one SIGHUP in it is the whole of the nesting,
since `reload_scripts` runs to its end; the second of each starts from what the
first left. *Packets*: streams of two to four packets of both kinds of
separators, one with a blank message; the shortest stream is exactly
`BUFFER_SIZE` long, so one read can fill the buffer, the others are longer and are
cut in every way four reads can cut them. Four calls also allow a connection that
reads a grant, one more that fails to read and serves on the old answer, and two
reads on it. *Quotes*: three ids are one removed,
one added in its stead and one more; the other process can do anything once
between two statements, and again between the next two. *Rand*: 20 draws empty a
pool of 8 twice; a word has 30 bits because TLC's integers have 32 with the sign
(the constants of the shifts are the program's, and `Golden` is cut to the width).

What the runs do not check again because it is proved for every instance: the type
invariants of Roster, Commands, LuaState, Packets, Quotes and Dice, the strengthened
invariants, `OnlyHandlersPart`, `BackoffNeverShrinks` and `OrderDoesNotMatter`.

Fairness. `FairSpec` of Session says that the process is scheduled
(`WF_vars(Run)`), where `Run` leaves out the two actions that wait for the
server in `recv`. `ServedSpec` adds that the server sends something or closes,
which is needed: `recv` has no timeout, and a handler does not end it.
`HelpfulSpec` adds strong fairness of connecting and of a granted login, and is
used only to show that even a server that keeps letting the bot in does not
help. Commands has `WF_vars(Respond)`: MainLoop goes on to hand over what it has.

## 4. Where the program and its documentation disagree

These runs check what a comment says and end in a counterexample.

| Run | Shows |
|---|---|
| `signal_exits` | A signal handled while `main()` sleeps, connects or logs in is counted, and the bot then serves on: `exit_lock` is tested at the top of the loop only (`Main.cpp:93`) |
| `login_answered` | `Read()` returns -1, which `Login` takes for success; it then parses the previous session's buffer. When that still holds ACCESS_GRANTED (a session whose first read already failed) the bot takes itself for logged in on a connection that never answered (`MeepBot.cpp:138`) |
| `reconnects` | A failed `Login` or `connect()` keeps its descriptor; when the limit is reached no attempt can succeed any more, and the bot waits for ever (`Main.cpp:112`, `Socket.cpp:45`) |
| `commands_mod_actions` | `!kick` and its like are answered with "lacks an access level!": the level is registered under "Kick" and looked up under "kick" (`ModActions.lua:3`) |

Noticed while modelling, in the models, without a run of their own:

- A kill after warn wrote the last warning leaves the user at the limit with their
  rank, and warn refuses from then on (`Warnings.lua:39`; `KeepsPromise` holds only
  until something is killed).
- The last warning of a protected user is announced as their exclusion and does not
  exclude them (`Warnings.lua:49`; `BarredMeansBarred` says so).
- protect of a name without a row is announced as a success: the UPDATE ends with
  SQLITE_DONE (`UserDB.cpp:85`), though `AdminActions.lua:23` has an answer for it.
- `GetWarnings` returns -1 when it fails; warn writes -1 + 1 = 0 and erases all
  warnings (`Warnings.lua:30`; action `WarnUnread`).
- The listing is asked for once the grant was read (`MeepBot.cpp:147`). Lines that
  come before it are handled with the `m_List` of earlier sessions: people in the
  room are missing, and even a full name can be resolved to a leftover that it begins
  (the `Untold` of `RosterInStep` and `FullNameHits`).
- `HandlePacket` ignores what `AddUser` returns (`MeepBot.cpp:251`): where the
  INSERT fails, a user is on `m_List` and has no row, and so no rank and no warnings
  (the `unknown` of `ListedHaveOneRow`).
- While Lua is broken every line is answered in the room with a complaint, those
  sent as a PM too (`MeepBot_LuaBindings.cpp:470`, `:481`).
- A quote that cannot be read is NULL like one that is not there
  (`QuotesDB.cpp:45-50`), and the script fails on it.
- `GetRandomID` is never called (`Quotes.lua:54` tests for nil, and parameters are
  always a string): a blank `!quote` gives whichever quote LIKE finds first.
- `m_List` is not cleared at a login, so the greeting can count users who left
  while the bot was away (`MeepBot.cpp:214`). Never the other way round:
  `AloneMeansAlone`.
- `Resolve` matches without case first, its comment says with case first;
  the theorem
  `PassesCommute` proves that the result is the same.
- `!fling` never answers: `not type ~= TYPE_CHAT` compares a Boolean
  (`Fling.lua:52`). `!geico` fails: there is no `MeepBot.Rand`, which the README
  describes (it is `MeepBot.Utils.Rand`). `!8ball` cannot be called: names of
  commands are letters (`00 Util.lua:32`) and the nil it gets has no `lower`.
- Blank parameters arrive as "" and not as nil as the README says: the test is
  for `param` (`00 Util.lua:46`). So the usage answers never appear.
- `!position` of an unknown user is silent, `!describe` of one is a Lua error.
- recv may cut a packet; each half is handled as a packet, or dropped. A cut inside
  the code leaves another code: 13 becomes 3, and nobody notices.
- `Login` compares the whole of what it read with one packet: ACCESS_GRANTED with
  anything after it in the same read is a refusal.
- `Read` terminates at `m_sReadBuffer[ret]`. For -1 that is `m_bLoggedIn`, which
  MainLoop clears anyway; for a full buffer it is padding before the socket.
- `!rollx` tests its sides before they are converted. 0.5, infinities, numbers that
  are none and some negative ones become 0, and the remainder by 0 raises SIGFPE.
- GetQuoteAuthor never finalizes its statement, so after one `!removequote` of a
  quote that exists no other process can write to the database until the bot ends.
- Register on a state that is registered runs into its assertion, though its comment
  promises to rebuild the tables. OpenLua never does it.
- A scripts directory that cannot be read leaves no message, and `std::string` is
  made of NULL (`MeepBot.cpp:99`).
- SIGHUP inside a call on the Lua state closes it under the call.

## 5. What is proved

All theorems are for every value of the constants that satisfies the named
assumptions, which TLC also evaluates on the instances.

**Session** (`SignalsAssumption`, `BoundsAssumption`). `Inv` is inductive
(`Invariance`). The safety properties are not inductive alone: that a handler
sends only on a connection needs that handlers form a stack above `main`
(`HandlersNest`), that whoever sends in a handler has interrupted `main` inside
MainLoop, since `m_bLoggedIn` was set (`HandlersSendInLoop`), and that `main`
is in MainLoop only with a connection (`SessionsAreConnected`);
`LoggedOutBetweenSessions` carries the argument from `m_bLoggedIn` to the
place of `main`. `WritesReturn` says where a Write goes back to, and
`FailuresWait` what the wait is at each place. Theorems: `TypeCorrectness`,
`SendsAreSafe`, `SessionsEndLoggedOut`, `MainSendsNoPart`, `SessionsLeakNothing`,
`FailuresAreSpaced`, `BackoffGrows`: for any set of signals, any number of them
and any nesting.

**Moderation** (`WarningsAssumption`, `FaultsAssumption`). The strengthening is
that a name without a row has no data (`NoRowNoData`: an UPDATE without a row
must not show up when the row is made) and that a warn in flight still has what
it read (`WarnIsCurrent`: nothing else runs between its statements). From it
`TypeCorrectness`, `BarredStayBlank`, `RanksOnlyFall`, `BarringIsReported` and
`WarningsAccumulate` for any number of kills and failures, and
`WarnKeepsPromise`: until the first of them Moderation implements Standing, step
by step under the mapping of section 2.

**Roster** (`RosterAssumption`, `PrefixAssumption`). `FeedTells` is behind
`RosterInStep`: for the room at each line under way, and for the room now, the
last packet before it about a user says whether they are in it, and where there is
none `m_List` does, but for those the bot has not been told of (`untold`, whom the
listing empties) and for leftovers. Appending a packet (`AppendTells`,
`ChangeTells`), a whole listing (`ListingTells`) and handling the first (`TailTells`)
keep that. `ListingEnds` says that the packet that ends a listing carries the room
that was listed and that nobody is untold at it: with `FeedTells`, whoever was listed
is on `m_List` when the bot greets, which gives `AloneIsAlone`. `KeysDiffer`, that no
two rows have one key and that a listed name has a row unless it is unknown, gives
`ListedAreKnown`. `FullNamesHit` and
`PassesCommute` use of the comparisons only what the assumption states.

**Commands** (`CommandsAssumption`). `BelowModerators` names the four outcomes a
command can have for somebody below the moderators: nothing, a Lua error, or an
answer by SayOrPM, in the place of the line or as a PM; without a Lua state that
answers there is the complaint alone. `DisabledIsQuiet`,
`PMsStayPrivate` and `StaffSwitches` follow from it and the types.

**LuaState** (`BoundsAssumption`). The invariant says for each place what `L` and
the copy in use are, unless a SIGHUP was there: `OnlyHangupsDo`, `FaultsAreCaused`,
`NothingLeaks`, `RestIsReady`, `ScriptsBreak`, for any number of both.

**Packets** (`BufferAssumption`, `CharAssumption`, `FeedAssumption`). What the
recursive functions compute is proved by induction, which rests on the
least-number principle for the naturals (`LeastNumber`): a recursive function
satisfies its equation (`Recursion`), and the first argument at which a claim
fails contradicts it (`Induction`, `RankInduction`). The argument, in the order of the module:

1. `Split` yields the longest runs between delimiters (`EverySplitFindsTheRuns`),
   hence gives back any sequence of non-empty fields that was joined by them.
2. atoi undoes printf for every code below 65536, also on what is left of the digits;
   a printed packet has at most `user + msg + 20` bytes with its terminator,
   so nothing is cut by snprintf. Together: `FromStringInvertsToString`.
3. The stream is known place by place: each byte belongs to one packet and one
   field of it. A piece of the stream that is one line is part of one packet, and
   FromString accepts it only when it holds all five ticks and something on both
   sides: then name and message are whole, and only the code and
   the last colour may have lost digits. A piece of several lines is
   such a part, whole packets, and such a part again.
4. Login takes its read as one packet. Six fields made of one read that begins with
   the stream are the first packet and at most the code of the second, or else
   there would be a seventh field.

The invariant (`IInv`) says that the buffer holds the last read, of whatever
connection, and the terminator (`Buffer`), that what it holds grants access only if a
server has (`StaleGrants`), which is why a failed read at Login is no way in without
an earlier grant, that the packets handled belong to increasing packets of the stream, none
of which ends before the last handled one or starts after `pos` (`HandledFrom`), and
that whole reads have handled everything so far (`WholeSoFar`). Theorems:
`TypeCorrectness`, `BufferIsTheLastRead`, `EverySplitFindsTheRuns`,
`FramingLosesNothing`, `CutsNeverMixPackets`, `OnlyAGrantPasses`, for every buffer size, every
stream of such packets and every way to cut it.

**Quotes** (`IdAssumption`, `PeopleAssumption`). The invariant says why what a
command keeps is still true at its next statement: a looked-up author holds the
lock (`NameKeepsLock`, `RemovalIsCurrent`), a pattern is searched for only when no
quote has the number (`PatternIsLast`, unless another process wrote or a statement
failed), and no answer is kept while a command is under way
(`SilentWhileBusy`). Theorems: one per property, for any texts, people and ids.

**Dice** (`ModulusAssumption`, `RollAssumption`). `Converted` is what the
conversion to unsigned does, `SideOfDie` that a remainder plus 1 is a side and
does not wrap around; `ThrowsAreSides` and `ZeroComesFromRollx` follow for every
modulus.

**Isaac and Pool** (`SizeAssumption`, which includes the program's 32 bits and 256
words, `SeedsAssumption`, `WordAssumption`). Exclusive or, the loops and the rounds are
recursive functions, and what they compute is proved by the same induction as in
Packets. `StepsAgree`: wherever its pointers are, `rngstep` does to the words behind
it what a step of the author's description does. So the first loop and the second,
whose second pointer starts over, are the two halves of a round (`HalfRuns`,
`GenAgrees`), whatever was in the results before. `PoolInv` says which round the pool
is from and how many words have been drawn before, by the counter, and that the
counter is below the size once a word is drawn; a refill takes it to the next round.
From it `WordsFollowTheStream`, and that the words are words, hence
`PoolImplementsDice` and, with the theorems about the dice, `ThrowsOfTheBot`. What
is not claimed is that the numbers are random.

Only model-checked: the liveness properties (`BrokenPipeEnds`, `SignalEndsSession`,
`FeedbackEnds`), which are outside the prover's reach. Every other property of a
passing run is stated by a theorem.

## 6. What is not modelled

Not modelled:

- signals the program raises against itself (SIGSEGV, SIGABRT, SIGFPE run clean_exit
  too, and return to what raised them), and signals inside malloc, printf or SQLite;
- the libraries: of SQLite and Lua what their calls do here, not how; that
  `lua_open` or `sqlite3_open` fail; that a read of a rank, of a protection or of a description
  fails (GetWarnings and the reads of quotes do);
- the text of answers, and which slot of Lua's stack Register fills with what;
- statements of SetDescription and IsProtected that are lost when they are made again
  (they are at their end and hold no lock); ids too large for an int;
- code without callers: `HasUser`, `SetUserEntry`, `GetString`, `GetInt`, `PrintList`,
  the timeouts of Socket, `ISAAC_Init` without a seed, Rand without a parameter;
- `protect` of a name without a row is announced as a success: the model does so
  (`SetProtected`), and no property is about it;
- the vendored `sqlite3/` headers and shell, which are most of the lines of the
  repository, and the superseded `src/LuaUtil.cpp`.

`Roster` and `Session` take each read to hold whole packets; `Packets` says what
happens otherwise. `Session` takes `send` to transfer all it is given. `Roster` and
`Moderation` meet in the name a line is resolved to and in the row that name has:
the first says which name and that the row is one, the second what becomes of the
row. They are not composed in one module: a statement of a command and a packet are
never interleaved, since one thread handles packet after packet.

What could come next: the walk of the stack in Register; the other reads of the
users table that fail; self-raised signals in `Session`.

To run: `tlc -config X.cfg M` and `tlapm MProofs.tla`; `PROJECT.json` lists runs,
the source lines of every definition, and for each property the plausible bug
(an operator marked "Bug:" in the modules) that it catches.
