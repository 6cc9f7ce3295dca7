------------------------------ MODULE Commands ------------------------------
(***************************************************************************)
(* What the bot does with the lines it reads: MeepBot_LuaBindings::Respond *)
(* and DoReload, the dispatcher of 00 Util.lua, and of each command script *)
(* whether and where it answers.  The room sends back what the bot says in *)
(* it, so the bot reads its own lines too.                                 *)
(*                                                                         *)
(* A line is a sequence of words, with the "!" of a command as a word of   *)
(* its own; the answers are the line Text, but for the two complaints that *)
(* Lua is broken.  The bot is taken to be logged in, as it is in MainLoop  *)
(* (module Session); what a command does to the users table is in module   *)
(* Moderation.                                                             *)
(***************************************************************************)
EXTENDS Naturals, Sequences

CONSTANTS
  Users,    \* who writes to the bot
  Bot,      \* "MeepBot"
  Owner,    \* "Fire_Adept", who may always reload
  Ranks,    \* ranks that everybody may have, as functions
  Words,    \* what lines are made of
  Lines,    \* the lines users write
  MaxInbox  \* bound: lines under way when a user writes another

LEVEL_BANNED == 0
LEVEL_USER   == 1
LEVEL_OP     == 2
LEVEL_MOD    == 3
LEVEL_ADMIN  == 4
Levels == LEVEL_BANNED..LEVEL_ADMIN

ASSUME CommandsAssumption ==
  /\ Bot \notin Users
  /\ Ranks \subseteq [Users \cup {Bot} -> Levels]
  /\ Lines \subseteq Seq(Words) /\ {"text", "broken"} \subseteq Words
  /\ MaxInbox \in Nat

Types == {"chat", "pm"}
Text  == <<"text">>

\* "The Lua broke :(", or what Cthulhu says: the same whatever was written.
Complaint == <<"broken">>

VARIABLES
  rank,       \* GetAccessLevel of everybody (Moderation says how it changes)
  scripts,    \* the scripts on disk: good, failing, or without Respond
  L,          \* MeepBot::L: the Lua state made of them, or null
  isEnabled,  \* MeepBot.IsEnabled, of that state
  inbox,      \* lines sent to the bot and not handled yet
  did         \* what the last line handled made the bot do

vars == <<rank, scripts, L, isEnabled, inbox, did>>

(***************************************************************************)
(* The outcome of a line: what is said in the room, who sends no answer    *)
(* there but a PM, which moderator packet is sent, whether Lua gave up,    *)
(* and the flag afterwards.                                                *)
(***************************************************************************)
Nothing(on) == [said |-> <<>>, pm |-> FALSE, act |-> "none", error |-> FALSE, on |-> on]

Error(on) == [Nothing(on) EXCEPT !.error = TRUE]

\* MeepBot::Say sends no empty line.
Say(line, on) == [Nothing(on) EXCEPT !.said = IF line = <<>> THEN <<>> ELSE <<line>>]

PM(on) == [Nothing(on) EXCEPT !.pm = TRUE]

-----------------------------------------------------------------------------
(***************************************************************************)
(* The tables the scripts fill.  ModActions.lua registers the level of a   *)
(* moderator action under the name of its function, which is capitalised,  *)
(* and the action itself under the command's name.                         *)
(***************************************************************************)
Functions == [kick |-> "Kick", disable |-> "Disable", ban |-> "Ban",
              unban |-> "Unban", mute |-> "Mute", unmute |-> "Unmute"]

UserCommands  == {"help", "position", "quote", "checkwarnings"}
OpCommands    == {"8ball", "describe", "setdesc", "fling", "geico", "roll",
                  "rollx", "addquote"}
ModCommands   == {"enablebot", "disablebot", "say", "warn", "removequote"}
AdminCommands == {"protect", "unprotect", "setmask", "admindesc", "unwarn"}

Registered == UserCommands \cup OpCommands \cup ModCommands \cup AdminCommands

\* Bug: a command for moderators is registered for everybody.
AccessLevelLax(key) == CASE key \in UserCommands \cup ModCommands -> LEVEL_USER
                         [] key \in OpCommands    -> LEVEL_OP
                         [] key \in AdminCommands -> LEVEL_ADMIN
                         [] OTHER                 -> LEVEL_MOD

AccessLevel(key) == CASE key \in UserCommands  -> LEVEL_USER
                      [] key \in OpCommands    -> LEVEL_OP
                      [] key \in AdminCommands -> LEVEL_ADMIN
                      [] OTHER                 -> LEVEL_MOD

HasLevel == Registered \cup {Functions[c] : c \in DOMAIN Functions}
IsCommand(cmd) == cmd \in Registered \cup DOMAIN Functions

HasAccess(user, level) ==
  /\ rank[user] >= level
  /\ isEnabled \/ rank[user] >= LEVEL_MOD

\* Bug: PMs are answered in the room.
SayOrPMInRoom(type) == IF isEnabled THEN Say(Text, isEnabled) ELSE Nothing(isEnabled)

\* Bug: the flag is not looked at.
SayOrPMAlways(type) == IF type = "pm" THEN PM(isEnabled) ELSE Say(Text, isEnabled)

SayOrPM(type) ==
  IF ~isEnabled THEN Nothing(isEnabled)
  ELSE IF type = "pm" THEN PM(isEnabled)
  ELSE Say(Text, isEnabled)

-----------------------------------------------------------------------------
(***************************************************************************)
(* The command functions.  known: does the argument name a user there is?  *)
(***************************************************************************)
\* Chatty commands leave users below a rank to PMs.
Help(type, caller) ==
  IF rank[caller] < LEVEL_OP /\ type # "pm" THEN Nothing(isEnabled) ELSE SayOrPM(type)

Quote(type, caller) ==
  IF rank[caller] = LEVEL_USER /\ type # "pm" THEN Nothing(isEnabled) ELSE SayOrPM(type)

\* For an unknown user SayOrPM is given the answer as its first argument, and
\* Say gets nil.
Position(type, caller, known) ==
  IF rank[caller] = LEVEL_USER /\ type # "pm" THEN Nothing(isEnabled)
  ELSE IF ~known THEN Nothing(isEnabled)
  ELSE SayOrPM(type)

CheckWarnings(type, caller) ==
  SayOrPM(IF rank[caller] < LEVEL_MOD THEN "pm" ELSE type)

\* The entry of an unknown user is nil, and has no desc.
Describe(type, known) == IF known THEN SayOrPM(type) ELSE Error(isEnabled)

\* "not type" is a Boolean, which no type is equal to.
Fling == Nothing(isEnabled)

\* There is no MeepBot.Rand.
Geico == Error(isEnabled)

SayCommand(params) ==
  IF params # <<>> /\ Head(params) = "/" THEN Nothing(isEnabled) ELSE Say(params, isEnabled)

EnableDisable(on) == Say(Text, on)

ModAction(cmd) == [Say(Text, isEnabled) EXCEPT !.act = Functions[cmd]]

Run(cmd, type, caller, params, known) ==
  CASE cmd = "help"          -> Help(type, caller)
    [] cmd = "quote"         -> Quote(type, caller)
    [] cmd = "position"      -> Position(type, caller, known)
    [] cmd = "checkwarnings" -> CheckWarnings(type, caller)
    [] cmd = "describe"      -> Describe(type, known)
    [] cmd = "fling"         -> Fling
    [] cmd = "geico"         -> Geico
    [] cmd = "say"           -> SayCommand(params)
    [] cmd = "enablebot"     -> EnableDisable(TRUE)
    [] cmd = "disablebot"    -> EnableDisable(FALSE)
    [] cmd \in DOMAIN Functions -> ModAction(cmd)
    [] OTHER                 -> SayOrPM(type)

-----------------------------------------------------------------------------
IsBang(line) == line # <<>> /\ Head(line) = "!"

\* A name of a command has letters only: otherwise cmd is nil, and has no lower().
IsName(cmd) == cmd \notin {"8ball", "?"}

\* MeepBot.Respond.  (params is never nil: the test for blank ones is misspelt.)
Dispatch(type, caller, line, known) ==
  LET cmd    == line[2]
      params == SubSeq(line, 3, Len(line))
  IN  IF caller = Bot \/ ~IsBang(line)        THEN Nothing(isEnabled)
      ELSE IF Len(line) < 2 \/ ~IsName(cmd)   THEN Error(isEnabled)
      ELSE IF ~IsCommand(cmd)                 THEN Nothing(isEnabled)
      ELSE IF cmd \notin HasLevel             THEN SayOrPM(type)
      ELSE IF HasAccess(caller, AccessLevel(cmd))
           THEN Run(cmd, type, caller, params, known)
      ELSE Nothing(isEnabled)

\* The line has been handled: what the bot said comes back to it.
Outcome(o) ==
  /\ did' = o
  /\ isEnabled' = o.on
  /\ inbox' = Tail(inbox) \o [i \in 1..Len(o.said) |->
                                [type |-> "chat", user |-> Bot, line |-> o.said[i]]]

\* CloseLua, then OpenLua, whose scripts can fail.
OpenLua == L' = IF scripts = "failing" THEN "null" ELSE scripts

IsReload(line) == line = <<"!", "reload">>

MayReload(user) == rank[user] >= LEVEL_ADMIN \/ user = Owner

\* DoReload announces itself and its result where it was asked for.
DoReload(p) ==
  /\ IsReload(p.line)
  /\ \/ /\ MayReload(p.user)
        /\ OpenLua
        /\ Outcome(IF p.type = "pm" THEN PM(TRUE)
                   ELSE [Nothing(TRUE) EXCEPT !.said = <<Text, Text>>])
     \/ /\ ~MayReload(p.user)
        /\ Outcome(Nothing(isEnabled))
        /\ UNCHANGED L

\* Without a Lua state the bot asks for one, but not itself.
LuaBroke(p) ==
  /\ ~IsReload(p.line) /\ L = "null"
  /\ Outcome(IF IsBang(p.line) /\ p.user # Bot THEN Say(Complaint, isEnabled)
                                              ELSE Nothing(isEnabled))
  /\ UNCHANGED L

\* Bug: the Lua state without Respond is kept.
NoRespondKept(p) ==
  /\ ~IsReload(p.line) /\ L = "noRespond"
  /\ Outcome(Say(Complaint, isEnabled))
  /\ UNCHANGED L

\* A Lua state without Respond is closed.
NoRespond(p) ==
  /\ ~IsReload(p.line) /\ L = "noRespond"
  /\ Outcome(Say(Complaint, isEnabled))
  /\ L' = "null"

Command(p) ==
  /\ ~IsReload(p.line) /\ L = "good"
  /\ \E known \in BOOLEAN : Outcome(Dispatch(p.type, p.user, p.line, known))
  /\ UNCHANGED L

Respond ==
  /\ inbox # <<>>
  /\ LET p == Head(inbox)
     IN  DoReload(p) \/ LuaBroke(p) \/ NoRespond(p) \/ Command(p)
  /\ UNCHANGED <<rank, scripts>>

-----------------------------------------------------------------------------
\* A user writes in the room or to the bot.
Write(u, type, line) ==
  /\ Len(inbox) < MaxInbox
  /\ inbox' = Append(inbox, [type |-> type, user |-> u, line |-> line])
  /\ UNCHANGED <<rank, scripts, L, isEnabled, did>>

\* Somebody works on the scripts.
Edit(s) ==
  /\ s # scripts
  /\ scripts' = s
  /\ UNCHANGED <<rank, L, isEnabled, inbox, did>>

ScriptStates == {"good", "failing", "noRespond"}

\* main() gives up when the scripts fail at the start.
Init ==
  /\ rank \in Ranks
  /\ scripts \in {"good", "noRespond"}
  /\ L = scripts
  /\ isEnabled = TRUE
  /\ inbox = <<>>
  /\ did = Nothing(TRUE)

Next ==
  \/ Respond
  \/ \E u \in Users, type \in Types, line \in Lines : Write(u, type, line)
  \/ \E s \in ScriptStates : Edit(s)

Spec == Init /\ [][Next]_vars

\* MainLoop goes on to hand over what it reads.
FairSpec == Spec /\ WF_vars(Respond)

-----------------------------------------------------------------------------
\* The variables hold ranks, states, flags, packets and an outcome; a Lua state
\* is one that was made of scripts that ran to their end.
TypeOK ==
  /\ rank \in [Users \cup {Bot} -> Levels]
  /\ scripts \in ScriptStates /\ L \in {"null", "good", "noRespond"}
  /\ isEnabled \in BOOLEAN
  /\ inbox \in Seq([type : Types, user : Users \cup {Bot}, line : Seq(Words)])
  /\ did \in [said : Seq(Seq(Words)), pm : BOOLEAN, error : BOOLEAN, on : BOOLEAN,
              act : {"none"} \cup {Functions[c] : c \in DOMAIN Functions}]

\* The line that Respond handles in this step, and its writer's rank.
Line   == Head(inbox).line
Caller == rank[Head(inbox).user]

\* While the bot is disabled nothing that a user below the moderators writes
\* makes it speak, whichever command it is (HasAccess and SayOrPM together; the
\* exception is Fire_Adept's reload).
QuietWhenDisabled ==
  [][Respond /\ L = "good" /\ ~isEnabled /\ Caller < LEVEL_MOD /\ ~IsReload(Line)
       => did'.said = <<>> /\ ~did'.pm /\ did'.act = "none"]_vars

\* What a user below the moderators sends as a PM has nothing said in the room
\* but the complaint about a broken Lua, which every line of theirs has as long
\* as there is no Lua state that could answer them.
PrivateStaysPrivate ==
  [][Respond /\ Caller < LEVEL_MOD /\ Head(inbox).type = "pm"
       => \/ did'.said = <<>>
          \/ L # "good" /\ did'.said = <<Complaint>>]_vars

\* Nobody below the moderators switches the bot off or on, not even through the
\* lines the bot can be made to say; only a reload by Fire_Adept switches it on.
SwitchedByStaff ==
  [][isEnabled' # isEnabled =>
       Caller >= LEVEL_MOD \/ (Head(inbox).user = Owner /\ isEnabled')]_vars

\* The bot reads what it says, and yet every conversation with itself ends: with
\* a script state that works, that does not, or that is reloaded meanwhile.
FeedbackEnds == inbox # <<>> ~> inbox = <<>>

-----------------------------------------------------------------------------
\* "kicks a mildly unruly user." (ModActions.lua) and its like: a moderator's
\* command has its packet sent.
ModActionsAct ==
  [][\A cmd \in DOMAIN Functions :
       /\ Respond /\ L = "good" /\ Line = <<"!", cmd, "ann">>
       /\ Head(inbox).user # Bot /\ Caller >= LEVEL_MOD /\ isEnabled
       => did'.act = Functions[cmd]]_vars
=============================================================================
