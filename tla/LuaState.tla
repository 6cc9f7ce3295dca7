------------------------------ MODULE LuaState ------------------------------
(***************************************************************************)
(* The bot's Lua state: OpenLua, CloseLua and ReloadLua (MeepBot.cpp), who *)
(* calls them (main, DoReload, Respond), and SIGHUP, whose handler runs    *)
(* DoReload in the middle of whatever the bot is doing.                    *)
(*                                                                         *)
(* A Lua state is a number that is never used again, a pointer is the      *)
(* number of the state it was set to, NULL is 0.  Main works with L, which *)
(* the handler changes, and with copies of it (arguments, a local), which  *)
(* it does not.  Every place where a signal can make a difference is a     *)
(* value of pc; the handler runs whole between two steps of main, SIGHUP   *)
(* being blocked until it returns and its caller always having access.     *)
(* That lua_open finds no memory, and the other signals, are left out.     *)
(***************************************************************************)
EXTENDS Naturals, FiniteSets

CONSTANTS
  MaxReloads,  \* bound: !reload lines
  MaxHangups   \* bound: SIGHUPs

ASSUME BoundsAssumption == MaxReloads \in Nat /\ MaxHangups \in Nat

VARIABLES
  pc,        \* where main is
  goal,      \* where it goes when CloseLua returns
  starting,  \* has main() not opened its first state yet?
  L,         \* BOT->L
  use,       \* the state main works on now, or is about to
  made,      \* states made so far: 1..made
  alive,     \* those not closed
  tables,    \* those that Register has filled
  scripted,  \* those in which all scripts ran
  complaint, \* the state with an error message on its stack, or NULL
  reloads, hangups,
  events     \* history: where SIGHUP came, and what failed by itself

heap   == <<made, alive, tables, scripted>>
counts == <<reloads, hangups>>
vars   == <<pc, goal, starting, L, use, heap, complaint, counts, events>>

NULL == 0

\* A use of a closed state is undefined behaviour; a fault is a NULL used as
\* a state or as a string, or an assertion that fails.  Both stop the model.
Stopped == {"exit", "undefined", "fault"}
Places  == {"open", "assign", "opened", "register", "registered", "run",
            "failed", "close", "closing", "null", "recv", "respond", "call"}
Failures == {"no scripts", "script error", "no function"}

Init ==
  /\ pc = "open" /\ goal = "recv" /\ starting = TRUE
  /\ L = NULL /\ use = NULL /\ complaint = NULL
  /\ made = 0 /\ alive = {} /\ tables = {} /\ scripted = {}
  /\ reloads = 0 /\ hangups = 0 /\ events = {}

Goto(place) == pc' = place

\* A step that goes on only if the state it worked on is still there.
Worked(next) ==
  Goto(IF use \in alive THEN next ELSE "undefined")

\* A call that is given L, by value.
Call(next) ==
  /\ Goto(IF L = NULL THEN "fault" ELSE IF L \in alive THEN next ELSE "undefined")
  /\ use' = L

-----------------------------------------------------------------------------
(***************************************************************************)
(* OpenLua                                                                 *)
(***************************************************************************)
Open ==
  /\ pc = "open"
  /\ made' = made + 1 /\ alive' = alive \cup {made'} /\ use' = made'
  /\ Goto("assign")
  /\ UNCHANGED <<goal, starting, L, tables, scripted, complaint, counts, events>>

Assign ==
  /\ pc = "assign"
  /\ L' = use
  /\ Goto("opened")
  /\ UNCHANGED <<goal, starting, use, heap, complaint, counts, events>>

StartRegister ==
  /\ pc = "opened"
  /\ Call("register")
  /\ UNCHANGED <<goal, starting, L, heap, complaint, counts, events>>

\* Register makes MeepBot anew, but luaL_register finds the old table in
\* _LOADED and sets no global: RegisterTable's assertions fail the second time.
Register ==
  /\ pc = "register"
  /\ IF use \in alive \cap tables THEN Goto("fault") ELSE Worked("registered")
  /\ tables' = tables \cup {use}
  /\ UNCHANGED <<goal, starting, L, use, made, alive, scripted, complaint, counts, events>>

StartScripts ==
  /\ pc = "registered"
  /\ Call("run")
  /\ UNCHANGED <<goal, starting, L, heap, complaint, counts, events>>

AfterOpen == pc' = "recv" /\ starting' = FALSE

\* All scripts ran.
ScriptsRun ==
  /\ pc = "run"
  /\ IF use \in alive THEN AfterOpen ELSE Goto("undefined") /\ UNCHANGED starting
  /\ scripted' = scripted \cup {use}
  /\ UNCHANGED <<goal, L, use, made, alive, tables, complaint, counts, events>>

\* A script failed and left a message, or the directory could not be read.
ScriptsFail ==
  /\ pc = "run"
  /\ \E why \in {"script error", "no scripts"} :
       /\ complaint' = IF why = "script error" THEN use ELSE complaint
       /\ events' = events \cup {why}
  /\ Worked("failed")
  /\ UNCHANGED <<goal, starting, L, use, heap, counts>>

\* Bug: OpenLua does not close the state whose scripts failed.
ComplainOnly ==
  /\ pc = "failed"
  /\ Goto(IF L # NULL /\ L = complaint THEN IF starting THEN "exit" ELSE "recv" ELSE "fault")
  /\ UNCHANGED <<goal, starting, L, use, heap, complaint, counts, events>>

\* err = lua_tostring(L, -1), which is NULL when there is no message.
Complain ==
  /\ pc = "failed"
  /\ Goto(IF L # NULL /\ L = complaint THEN "close" ELSE "fault")
  /\ goal' = IF starting THEN "exit" ELSE "recv"
  /\ UNCHANGED <<starting, L, use, heap, complaint, counts, events>>

-----------------------------------------------------------------------------
(***************************************************************************)
(* CloseLua: a test, lua_close, and an assignment                          *)
(***************************************************************************)
StartClose ==
  /\ pc = "close"
  /\ use' = L
  /\ Goto(IF L = NULL THEN goal ELSE IF L \in alive THEN "closing" ELSE "undefined")
  /\ UNCHANGED <<goal, starting, L, heap, complaint, counts, events>>

Close ==
  /\ pc = "closing"
  /\ Worked("null")
  /\ alive' = alive \ {use}
  /\ UNCHANGED <<goal, starting, L, use, made, tables, scripted, complaint, counts, events>>

\* Bug: L keeps pointing to the closed state.
Keep ==
  /\ pc = "null"
  /\ Goto(goal)
  /\ UNCHANGED <<goal, starting, L, use, heap, complaint, counts, events>>

Forget ==
  /\ pc = "null"
  /\ L' = NULL
  /\ Goto(goal)
  /\ UNCHANGED <<goal, starting, use, heap, complaint, counts, events>>

-----------------------------------------------------------------------------
(***************************************************************************)
(* A line: HandlePacket hands L to Respond                                 *)
(***************************************************************************)
Line ==
  /\ pc = "recv"
  /\ use' = L
  /\ Goto("respond")
  /\ UNCHANGED <<goal, starting, L, heap, complaint, counts, events>>

\* Bug: the old state is not closed.
ReloadOver ==
  /\ pc = "respond"
  /\ reloads < MaxReloads
  /\ reloads' = reloads + 1
  /\ Goto("open")
  /\ UNCHANGED <<goal, starting, L, use, heap, complaint, hangups, events>>

\* Bug: the scripts are loaded into the state there is.
ReloadInPlace ==
  /\ pc = "respond"
  /\ reloads < MaxReloads
  /\ reloads' = reloads + 1
  /\ Goto(IF L = NULL THEN "open" ELSE "opened")
  /\ UNCHANGED <<goal, starting, L, use, heap, complaint, hangups, events>>

\* !reload: DoReload, CloseLua and OpenLua in turn, if the caller may.
Reload ==
  /\ pc = "respond"
  /\ reloads < MaxReloads
  /\ reloads' = reloads + 1
  /\ Goto("close") /\ goal' = "open"
  /\ UNCHANGED <<starting, L, use, heap, complaint, hangups, events>>

\* Bug: the state is closed before the caller's level is looked at.
ReloadRefusedLate ==
  /\ pc = "respond"
  /\ Goto("close") /\ goal' = "recv"
  /\ UNCHANGED <<starting, L, use, heap, complaint, counts, events>>

ReloadRefused ==
  /\ pc = "respond"
  /\ Goto("recv")
  /\ UNCHANGED <<goal, starting, L, use, heap, complaint, counts, events>>

\* "The Lua broke": Respond tests its argument.
Broke ==
  /\ pc = "respond"
  /\ use = NULL
  /\ Goto("recv")
  /\ UNCHANGED <<goal, starting, L, use, heap, complaint, counts, events>>

\* MeepBot.Respond is looked up.
Lookup ==
  /\ pc = "respond"
  /\ use # NULL
  /\ Worked("call")
  /\ UNCHANGED <<goal, starting, L, use, heap, complaint, counts, events>>

\* The scripts left no function there: the bot says so and closes Lua.
NoFunction ==
  /\ pc = "respond"
  /\ use # NULL
  /\ Worked("close")
  /\ goal' = "recv"
  /\ events' = events \cup {"no function"}
  /\ UNCHANGED <<starting, L, use, heap, complaint, counts>>

\* lua_pcall returns and CleanStack pops what is left.
Return ==
  /\ pc = "call"
  /\ Worked("recv")
  /\ UNCHANGED <<goal, starting, L, use, heap, complaint, counts, events>>

-----------------------------------------------------------------------------
(***************************************************************************)
(* SIGHUP: reload_scripts, that is CloseLua and OpenLua without a break    *)
(***************************************************************************)
Reopened ==
  /\ made' = made + 1
  /\ tables' = tables \cup {made'}
  /\ UNCHANGED pc
  /\ \/ L' = made' /\ alive' = (alive \ {L}) \cup {made'} /\ scripted' = scripted \cup {made'}
        /\ events' = events \cup {pc}
     \/ L' = NULL /\ alive' = alive \ {L} /\ UNCHANGED scripted
        /\ events' = events \cup {pc, "script error"}

Hangup ==
  /\ pc \notin Stopped
  /\ hangups < MaxHangups
  /\ hangups' = hangups + 1
  /\ \/ L \in alive \cup {NULL} /\ Reopened
     \/ /\ L \in alive \cup {NULL} /\ Goto("fault")
        /\ events' = events \cup {pc, "no scripts"} /\ UNCHANGED <<L, heap>>
     \/ /\ L \notin alive \cup {NULL} /\ Goto("undefined")
        /\ events' = events \cup {pc} /\ UNCHANGED <<L, heap>>
  /\ UNCHANGED <<goal, starting, use, complaint, reloads>>

-----------------------------------------------------------------------------
OpenLua  == \/ Open \/ Assign \/ StartRegister \/ Register
            \/ StartScripts \/ ScriptsRun \/ ScriptsFail \/ Complain
CloseLua == StartClose \/ Close \/ Forget
Respond  == Reload \/ ReloadRefused \/ Broke \/ Lookup \/ NoFunction \/ Return

Next == OpenLua \/ CloseLua \/ Line \/ Respond \/ Hangup

Spec == Init /\ [][Next]_vars
-----------------------------------------------------------------------------
\* Pointers point to states that were made, and what is worked on is a state.
TypeOK ==
  /\ pc \in Places \cup Stopped
  /\ goal \in {"open", "recv", "exit"} /\ starting \in BOOLEAN
  /\ made \in Nat
  /\ alive \cup tables \cup scripted \subseteq 1..made
  /\ L \in 0..made /\ use \in 0..made /\ complaint \in 0..made
  /\ pc \in {"assign", "register", "run", "closing", "call"} => use # NULL
  /\ reloads \in 0..MaxReloads /\ hangups \in 0..MaxHangups
  /\ events \in SUBSET (Places \cup Failures)

\* A closed state is used only if SIGHUP struck while main was inside a call
\* on one, or between lua_close and L = NULL: never by OpenLua, CloseLua,
\* ReloadLua and Respond alone, in whatever order lines bring them about.
OnlyHangupsUndo ==
  pc = "undefined" =>
    events \cap {"register", "run", "closing", "null", "respond", "call"} # {}

\* The bot dies of a NULL or an assertion only when the scripts' directory
\* could not be read, or SIGHUP struck between the steps of OpenLua.
FaultsHaveACause ==
  pc = "fault" =>
    events \cap {"no scripts", "opened", "registered", "failed"} # {}

\* Between lines the bot has one Lua state or none, unless SIGHUP opened one
\* when L was NULL because OpenLua had not yet assigned its own.
OneState ==
  pc = "recv" /\ events \cap {"open", "assign"} = {} => alive = {L} \ {NULL}

\* Between lines L is NULL or a live state with MeepBot's tables in which all
\* scripts ran, wherever SIGHUP struck: nobody is answered by half of them.
ReadyOrNull ==
  pc = "recv" => L = NULL \/ L \in alive \cap tables \cap scripted

\* Lua is broken between lines only if a script failed or left no Respond: no
\* refused !reload, and no SIGHUP alone, leaves the bot without it.
BrokenByScripts ==
  pc = "recv" /\ L = NULL => events \cap {"script error", "no function"} # {}
=============================================================================
