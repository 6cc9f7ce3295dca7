--------------------------- MODULE LuaStateProofs ---------------------------
(***************************************************************************)
(* Where SIGHUP can do harm to the Lua state, for any number of reloads    *)
(* and signals.  The argument: whatever main works on is what L points to, *)
(* until a signal strikes, and then it is closed and stays closed.         *)
(***************************************************************************)
EXTENDS LuaState, TLAPS

Calls == {"register", "run", "closing", "respond", "call"}

\* L points to no closed state, except between lua_close and L = NULL.
LIsLive ==
  /\ pc \notin Stopped \cup {"null"} => L \in alive \cup {NULL}
  /\ pc = "null" => L \notin alive \cup {NULL}

\* What main works on is L, or else a signal closed it under main.
UseIsL == pc \in Calls => use = L \/ (use \notin alive /\ pc \in events)

\* The state that Open made is nobody else's yet.
UseIsNew ==
  pc = "assign" => use # L /\ use \in alive /\ use \notin tables

\* What OpenLua relies on between its calls, as long as no signal comes there.
OpenLuaRelies ==
  /\ pc = "opened" => L \in alive \ tables \/ "opened" \in events
  /\ pc = "register" => use \notin tables \/ "opened" \in events
  /\ pc = "registered" => L # NULL \/ "registered" \in events
  /\ pc = "failed" => \/ L # NULL /\ L = complaint
                      \/ events \cap {"failed", "no scripts"} # {}

\* How far the state that L points to has been set up.
SetUp ==
  /\ pc = "registered" => L \in tables \cup {NULL}
  /\ pc = "run" => use \in tables
  /\ pc \in {"recv", "respond", "call"} => L \in (tables \cap scripted) \cup {NULL}

\* Why L is NULL, or is going to be.
Causes ==
  /\ complaint # NULL => "script error" \in events
  /\ \/ pc \in {"recv", "respond", "call"} /\ L = NULL
     \/ pc \in {"close", "closing", "null"} /\ goal = "recv"
     => events \cap {"script error", "no function"} # {}

\* The states that are alive, if no signal came while L was NULL in OpenLua.
NoneLeaks ==
  events \cap {"open", "assign"} = {} =>
    /\ pc = "open" => L = NULL /\ alive = {}
    /\ pc = "assign" => L = NULL /\ alive = {use}
    /\ pc = "null" => alive = {}
    /\ pc \notin Stopped \cup {"open", "assign", "null"} => alive \subseteq {L}

Inv ==
  /\ TypeOK /\ OnlyHangupsUndo /\ FaultsHaveACause
  /\ LIsLive /\ UseIsL /\ UseIsNew /\ OpenLuaRelies /\ SetUp /\ Causes /\ NoneLeaks

-----------------------------------------------------------------------------
\* The number of a new state, and NULL, which is no state's.
LEMMA NewState ==
  ASSUME NEW n \in Nat
  PROVE  /\ 0 \in 0..n /\ \A x \in 0..n : x # 0 => x \in 1..n
         /\ n + 1 \in Nat /\ n + 1 \in 1..(n + 1) /\ n + 1 \in 0..(n + 1)
         /\ n + 1 \notin 0..n /\ n + 1 \notin 1..n /\ n + 1 # 0
         /\ 1..n \subseteq 1..(n + 1) /\ 0..n \subseteq 0..(n + 1)
  OBVIOUS

LEMMA Counted ==
  ASSUME NEW n \in Nat, NEW k \in 0..n, k < n
  PROVE  k + 1 \in 0..n
  OBVIOUS

LEMMA NullIsNoState == TypeOK => NULL \notin alive
  BY DEF TypeOK, NULL

USE DEF Inv, Calls, Stopped, Places, Failures, NULL, Goto, heap, counts

LEMMA InvInit == Init => Inv
<1> SUFFICES ASSUME Init PROVE Inv
  OBVIOUS
<1> USE DEF Init
<1>1. TypeOK
  BY BoundsAssumption DEF TypeOK
<1> QED
  BY <1>1 DEF OnlyHangupsUndo, FaultsHaveACause, LIsLive, UseIsL, UseIsNew,
                 OpenLuaRelies, SetUp, Causes, NoneLeaks

LEMMA InvUnderOpen == Inv /\ Open => Inv'
<1> SUFFICES ASSUME Inv, Open PROVE Inv'
  OBVIOUS
<1> USE DEF Open
<1>1. TypeOK'
  <2>1. made' \in Nat /\ alive' \cup tables' \cup scripted' \subseteq 1..made'
    <3>1. made' \in Nat /\ made' \in 1..made' /\ 1..made \subseteq 1..made'
      BY NewState DEF TypeOK
    <3> QED
      BY <3>1 DEF TypeOK
  <2>2. L' \in 0..made' /\ use' \in 0..made' /\ complaint' \in 0..made'
    BY NewState DEF TypeOK
  <2>3. pc' \in {"assign", "register", "run", "closing", "call"} => use' # NULL
    BY NewState DEF TypeOK
  <2> QED
    BY <2>1, <2>2, <2>3 DEF TypeOK
<1>2. (OnlyHangupsUndo /\ FaultsHaveACause)'
  BY DEF TypeOK, OnlyHangupsUndo, FaultsHaveACause, LIsLive, UseIsL, OpenLuaRelies
<1>3. (LIsLive /\ UseIsL /\ UseIsNew)'
  <2>1. use' = made + 1 /\ made + 1 \notin 0..made /\ made + 1 \notin 1..made
    BY NewState DEF TypeOK
  <2> QED
    BY <2>1 DEF TypeOK, LIsLive, UseIsL, UseIsNew
<1>4. (OpenLuaRelies /\ SetUp /\ Causes)'
  BY DEF TypeOK, LIsLive, UseIsL, OpenLuaRelies, SetUp, Causes
<1>5. NoneLeaks'
  BY DEF TypeOK, LIsLive, UseIsL, UseIsNew, NoneLeaks
<1> QED
  BY <1>1, <1>2, <1>3, <1>4, <1>5

LEMMA InvUnderAssign == Inv /\ Assign => Inv'
<1> SUFFICES ASSUME Inv, Assign PROVE Inv'
  OBVIOUS
<1> USE DEF Assign
<1>1. TypeOK'
  BY DEF TypeOK
<1>2. (OnlyHangupsUndo /\ FaultsHaveACause)'
  BY DEF TypeOK, OnlyHangupsUndo, FaultsHaveACause, LIsLive, UseIsL, OpenLuaRelies
<1>3. (LIsLive /\ UseIsL /\ UseIsNew)'
  BY DEF TypeOK, LIsLive, UseIsL, UseIsNew
<1>4. (OpenLuaRelies /\ SetUp /\ Causes)'
  BY DEF TypeOK, LIsLive, UseIsL, OpenLuaRelies, SetUp, Causes, UseIsNew
<1>5. NoneLeaks'
  BY DEF TypeOK, LIsLive, UseIsL, UseIsNew, NoneLeaks
<1> QED
  BY <1>1, <1>2, <1>3, <1>4, <1>5

LEMMA InvUnderStartRegister == Inv /\ StartRegister => Inv'
<1> SUFFICES ASSUME Inv, StartRegister PROVE Inv'
  OBVIOUS
<1> USE DEF StartRegister, Call
<1>1. TypeOK'
  BY DEF TypeOK
<1>2. (OnlyHangupsUndo /\ FaultsHaveACause)'
  BY NullIsNoState DEF TypeOK, OnlyHangupsUndo, FaultsHaveACause, LIsLive, UseIsL, OpenLuaRelies
<1>3. (LIsLive /\ UseIsL /\ UseIsNew)'
  BY DEF TypeOK, LIsLive, UseIsL, UseIsNew
<1>4. (OpenLuaRelies /\ SetUp /\ Causes)'
  BY DEF TypeOK, LIsLive, UseIsL, OpenLuaRelies, SetUp, Causes
<1>5. NoneLeaks'
  BY DEF TypeOK, LIsLive, UseIsL, UseIsNew, NoneLeaks
<1> QED
  BY <1>1, <1>2, <1>3, <1>4, <1>5

LEMMA InvUnderRegister == Inv /\ Register => Inv'
<1> SUFFICES ASSUME Inv, Register PROVE Inv'
  OBVIOUS
<1> USE DEF Register, Worked
<1>1. TypeOK'
  <2>1. use \in 1..made
    BY NewState DEF TypeOK
  <2> QED
    BY <2>1 DEF TypeOK
<1>2. (OnlyHangupsUndo /\ FaultsHaveACause)'
  BY DEF TypeOK, OnlyHangupsUndo, FaultsHaveACause, LIsLive, UseIsL, OpenLuaRelies
<1>3. (LIsLive /\ UseIsL /\ UseIsNew)'
  BY DEF TypeOK, LIsLive, UseIsL, UseIsNew
<1>4. (OpenLuaRelies /\ SetUp /\ Causes)'
  BY DEF TypeOK, LIsLive, UseIsL, OpenLuaRelies, SetUp, Causes
<1>5. NoneLeaks'
  BY DEF TypeOK, LIsLive, UseIsL, UseIsNew, NoneLeaks
<1> QED
  BY <1>1, <1>2, <1>3, <1>4, <1>5

LEMMA InvUnderStartScripts == Inv /\ StartScripts => Inv'
<1> SUFFICES ASSUME Inv, StartScripts PROVE Inv'
  OBVIOUS
<1> USE DEF StartScripts, Call
<1>1. TypeOK'
  BY DEF TypeOK
<1>2. (OnlyHangupsUndo /\ FaultsHaveACause)'
  BY DEF TypeOK, OnlyHangupsUndo, FaultsHaveACause, LIsLive, UseIsL, OpenLuaRelies
<1>3. (LIsLive /\ UseIsL /\ UseIsNew)'
  BY DEF TypeOK, LIsLive, UseIsL, UseIsNew
<1>4. (OpenLuaRelies /\ SetUp /\ Causes)'
  BY DEF TypeOK, LIsLive, UseIsL, OpenLuaRelies, SetUp, Causes
<1>5. NoneLeaks'
  BY DEF TypeOK, LIsLive, UseIsL, UseIsNew, NoneLeaks
<1> QED
  BY <1>1, <1>2, <1>3, <1>4, <1>5

LEMMA InvUnderScriptsRun == Inv /\ ScriptsRun => Inv'
<1> SUFFICES ASSUME Inv, ScriptsRun PROVE Inv'
  OBVIOUS
<1> USE DEF ScriptsRun, AfterOpen
<1>1. TypeOK'
  <2>1. use \in 1..made
    BY NewState DEF TypeOK
  <2> QED
    BY <2>1 DEF TypeOK
<1>2. (OnlyHangupsUndo /\ FaultsHaveACause)'
  BY DEF TypeOK, OnlyHangupsUndo, FaultsHaveACause, LIsLive, UseIsL, OpenLuaRelies
<1>3. (LIsLive /\ UseIsL /\ UseIsNew)'
  BY DEF TypeOK, LIsLive, UseIsL, UseIsNew
<1>4. (OpenLuaRelies /\ SetUp /\ Causes)'
  BY DEF TypeOK, LIsLive, UseIsL, OpenLuaRelies, SetUp, Causes
<1>5. NoneLeaks'
  BY DEF TypeOK, LIsLive, UseIsL, UseIsNew, NoneLeaks
<1> QED
  BY <1>1, <1>2, <1>3, <1>4, <1>5

LEMMA InvUnderScriptsFail == Inv /\ ScriptsFail => Inv'
<1> SUFFICES ASSUME Inv, ScriptsFail PROVE Inv'
  OBVIOUS
<1> USE DEF ScriptsFail, Worked
<1>1. TypeOK'
  BY DEF TypeOK
<1>2. (OnlyHangupsUndo /\ FaultsHaveACause)'
  BY DEF TypeOK, OnlyHangupsUndo, FaultsHaveACause, LIsLive, UseIsL, OpenLuaRelies
<1>3. (LIsLive /\ UseIsL /\ UseIsNew)'
  BY DEF TypeOK, LIsLive, UseIsL, UseIsNew
<1>4. (OpenLuaRelies /\ SetUp /\ Causes)'
  BY DEF TypeOK, LIsLive, UseIsL, OpenLuaRelies, SetUp, Causes
<1>5. NoneLeaks'
  BY DEF TypeOK, LIsLive, UseIsL, UseIsNew, NoneLeaks
<1> QED
  BY <1>1, <1>2, <1>3, <1>4, <1>5

LEMMA InvUnderComplain == Inv /\ Complain => Inv'
<1> SUFFICES ASSUME Inv, Complain PROVE Inv'
  OBVIOUS
<1> USE DEF Complain
<1>1. TypeOK'
  BY DEF TypeOK
<1>2. (OnlyHangupsUndo /\ FaultsHaveACause)'
  BY DEF TypeOK, OnlyHangupsUndo, FaultsHaveACause, LIsLive, UseIsL, OpenLuaRelies
<1>3. (LIsLive /\ UseIsL /\ UseIsNew)'
  BY DEF TypeOK, LIsLive, UseIsL, UseIsNew
<1>4. (OpenLuaRelies /\ SetUp /\ Causes)'
  BY DEF TypeOK, LIsLive, UseIsL, OpenLuaRelies, SetUp, Causes
<1>5. NoneLeaks'
  BY DEF TypeOK, LIsLive, UseIsL, UseIsNew, NoneLeaks
<1> QED
  BY <1>1, <1>2, <1>3, <1>4, <1>5

LEMMA InvUnderStartClose == Inv /\ StartClose => Inv'
<1> SUFFICES ASSUME Inv, StartClose PROVE Inv'
  OBVIOUS
<1> USE DEF StartClose
<1>1. TypeOK'
  BY DEF TypeOK
<1>2. (OnlyHangupsUndo /\ FaultsHaveACause)'
  BY DEF TypeOK, OnlyHangupsUndo, FaultsHaveACause, LIsLive, UseIsL, OpenLuaRelies
<1>3. (LIsLive /\ UseIsL /\ UseIsNew)'
  BY DEF TypeOK, LIsLive, UseIsL, UseIsNew
<1>4. (OpenLuaRelies /\ SetUp /\ Causes)'
  BY DEF TypeOK, LIsLive, UseIsL, OpenLuaRelies, SetUp, Causes
<1>5. NoneLeaks'
  BY NullIsNoState DEF TypeOK, LIsLive, UseIsL, UseIsNew, NoneLeaks
<1> QED
  BY <1>1, <1>2, <1>3, <1>4, <1>5

LEMMA InvUnderClose == Inv /\ Close => Inv'
<1> SUFFICES ASSUME Inv, Close PROVE Inv'
  OBVIOUS
<1> USE DEF Close, Worked
<1>1. TypeOK'
  BY DEF TypeOK
<1>2. (OnlyHangupsUndo /\ FaultsHaveACause)'
  BY DEF TypeOK, OnlyHangupsUndo, FaultsHaveACause, LIsLive, UseIsL, OpenLuaRelies
<1>3. (LIsLive /\ UseIsL /\ UseIsNew)'
  BY DEF TypeOK, LIsLive, UseIsL, UseIsNew
<1>4. (OpenLuaRelies /\ SetUp /\ Causes)'
  BY DEF TypeOK, LIsLive, UseIsL, OpenLuaRelies, SetUp, Causes
<1>5. NoneLeaks'
  BY DEF TypeOK, LIsLive, UseIsL, UseIsNew, NoneLeaks
<1> QED
  BY <1>1, <1>2, <1>3, <1>4, <1>5

LEMMA InvUnderForget == Inv /\ Forget => Inv'
<1> SUFFICES ASSUME Inv, Forget PROVE Inv'
  OBVIOUS
<1> USE DEF Forget
<1>1. TypeOK'
  BY NewState DEF TypeOK
<1>2. (OnlyHangupsUndo /\ FaultsHaveACause)'
  BY DEF TypeOK, OnlyHangupsUndo, FaultsHaveACause, LIsLive, UseIsL, OpenLuaRelies
<1>3. (LIsLive /\ UseIsL /\ UseIsNew)'
  BY DEF TypeOK, LIsLive, UseIsL, UseIsNew
<1>4. (OpenLuaRelies /\ SetUp /\ Causes)'
  BY DEF TypeOK, LIsLive, UseIsL, OpenLuaRelies, SetUp, Causes
<1>5. NoneLeaks'
  BY DEF TypeOK, LIsLive, UseIsL, UseIsNew, NoneLeaks
<1> QED
  BY <1>1, <1>2, <1>3, <1>4, <1>5

LEMMA InvUnderLine == Inv /\ Line => Inv'
<1> SUFFICES ASSUME Inv, Line PROVE Inv'
  OBVIOUS
<1> USE DEF Line
<1>1. TypeOK'
  BY DEF TypeOK
<1>2. (OnlyHangupsUndo /\ FaultsHaveACause)'
  BY DEF TypeOK, OnlyHangupsUndo, FaultsHaveACause, LIsLive, UseIsL, OpenLuaRelies
<1>3. (LIsLive /\ UseIsL /\ UseIsNew)'
  BY DEF TypeOK, LIsLive, UseIsL, UseIsNew
<1>4. (OpenLuaRelies /\ SetUp /\ Causes)'
  BY DEF TypeOK, LIsLive, UseIsL, OpenLuaRelies, SetUp, Causes
<1>5. NoneLeaks'
  BY DEF TypeOK, LIsLive, UseIsL, UseIsNew, NoneLeaks
<1> QED
  BY <1>1, <1>2, <1>3, <1>4, <1>5

LEMMA InvUnderReload == Inv /\ Reload => Inv'
<1> SUFFICES ASSUME Inv, Reload PROVE Inv'
  OBVIOUS
<1> USE DEF Reload
<1>1. TypeOK'
  <2>1. reloads' \in 0..MaxReloads
    BY BoundsAssumption, Counted DEF TypeOK
  <2> QED
    BY <2>1 DEF TypeOK
<1>2. (OnlyHangupsUndo /\ FaultsHaveACause)'
  BY DEF TypeOK, OnlyHangupsUndo, FaultsHaveACause, LIsLive, UseIsL, OpenLuaRelies
<1>3. (LIsLive /\ UseIsL /\ UseIsNew)'
  BY DEF TypeOK, LIsLive, UseIsL, UseIsNew
<1>4. (OpenLuaRelies /\ SetUp /\ Causes)'
  BY DEF TypeOK, LIsLive, UseIsL, OpenLuaRelies, SetUp, Causes
<1>5. NoneLeaks'
  BY DEF TypeOK, LIsLive, UseIsL, UseIsNew, NoneLeaks
<1> QED
  BY <1>1, <1>2, <1>3, <1>4, <1>5

LEMMA InvUnderReloadRefused == Inv /\ ReloadRefused => Inv'
<1> SUFFICES ASSUME Inv, ReloadRefused PROVE Inv'
  OBVIOUS
<1> USE DEF ReloadRefused
<1>1. TypeOK'
  BY DEF TypeOK
<1>2. (OnlyHangupsUndo /\ FaultsHaveACause)'
  BY DEF TypeOK, OnlyHangupsUndo, FaultsHaveACause, LIsLive, UseIsL, OpenLuaRelies
<1>3. (LIsLive /\ UseIsL /\ UseIsNew)'
  BY DEF TypeOK, LIsLive, UseIsL, UseIsNew
<1>4. (OpenLuaRelies /\ SetUp /\ Causes)'
  BY DEF TypeOK, LIsLive, UseIsL, OpenLuaRelies, SetUp, Causes
<1>5. NoneLeaks'
  BY DEF TypeOK, LIsLive, UseIsL, UseIsNew, NoneLeaks
<1> QED
  BY <1>1, <1>2, <1>3, <1>4, <1>5

LEMMA InvUnderBroke == Inv /\ Broke => Inv'
<1> SUFFICES ASSUME Inv, Broke PROVE Inv'
  OBVIOUS
<1> USE DEF Broke
<1>1. TypeOK'
  BY DEF TypeOK
<1>2. (OnlyHangupsUndo /\ FaultsHaveACause)'
  BY DEF TypeOK, OnlyHangupsUndo, FaultsHaveACause, LIsLive, UseIsL, OpenLuaRelies
<1>3. (LIsLive /\ UseIsL /\ UseIsNew)'
  BY DEF TypeOK, LIsLive, UseIsL, UseIsNew
<1>4. (OpenLuaRelies /\ SetUp /\ Causes)'
  BY DEF TypeOK, LIsLive, UseIsL, OpenLuaRelies, SetUp, Causes
<1>5. NoneLeaks'
  BY DEF TypeOK, LIsLive, UseIsL, UseIsNew, NoneLeaks
<1> QED
  BY <1>1, <1>2, <1>3, <1>4, <1>5

LEMMA InvUnderLookup == Inv /\ Lookup => Inv'
<1> SUFFICES ASSUME Inv, Lookup PROVE Inv'
  OBVIOUS
<1> USE DEF Lookup, Worked
<1>1. TypeOK'
  BY DEF TypeOK
<1>2. (OnlyHangupsUndo /\ FaultsHaveACause)'
  BY DEF TypeOK, OnlyHangupsUndo, FaultsHaveACause, LIsLive, UseIsL, OpenLuaRelies
<1>3. (LIsLive /\ UseIsL /\ UseIsNew)'
  BY DEF TypeOK, LIsLive, UseIsL, UseIsNew
<1>4. (OpenLuaRelies /\ SetUp /\ Causes)'
  BY DEF TypeOK, LIsLive, UseIsL, OpenLuaRelies, SetUp, Causes
<1>5. NoneLeaks'
  BY DEF TypeOK, LIsLive, UseIsL, UseIsNew, NoneLeaks
<1> QED
  BY <1>1, <1>2, <1>3, <1>4, <1>5

LEMMA InvUnderNoFunction == Inv /\ NoFunction => Inv'
<1> SUFFICES ASSUME Inv, NoFunction PROVE Inv'
  OBVIOUS
<1> USE DEF NoFunction, Worked
<1>1. TypeOK'
  BY DEF TypeOK
<1>2. (OnlyHangupsUndo /\ FaultsHaveACause)'
  BY DEF TypeOK, OnlyHangupsUndo, FaultsHaveACause, LIsLive, UseIsL, OpenLuaRelies
<1>3. (LIsLive /\ UseIsL /\ UseIsNew)'
  BY DEF TypeOK, LIsLive, UseIsL, UseIsNew
<1>4. (OpenLuaRelies /\ SetUp /\ Causes)'
  BY DEF TypeOK, LIsLive, UseIsL, OpenLuaRelies, SetUp, Causes
<1>5. NoneLeaks'
  BY DEF TypeOK, LIsLive, UseIsL, UseIsNew, NoneLeaks
<1> QED
  BY <1>1, <1>2, <1>3, <1>4, <1>5

LEMMA InvUnderReturn == Inv /\ Return => Inv'
<1> SUFFICES ASSUME Inv, Return PROVE Inv'
  OBVIOUS
<1> USE DEF Return, Worked
<1>1. TypeOK'
  BY DEF TypeOK
<1>2. (OnlyHangupsUndo /\ FaultsHaveACause)'
  BY DEF TypeOK, OnlyHangupsUndo, FaultsHaveACause, LIsLive, UseIsL, OpenLuaRelies
<1>3. (LIsLive /\ UseIsL /\ UseIsNew)'
  BY DEF TypeOK, LIsLive, UseIsL, UseIsNew
<1>4. (OpenLuaRelies /\ SetUp /\ Causes)'
  BY DEF TypeOK, LIsLive, UseIsL, OpenLuaRelies, SetUp, Causes
<1>5. NoneLeaks'
  BY DEF TypeOK, LIsLive, UseIsL, UseIsNew, NoneLeaks
<1> QED
  BY <1>1, <1>2, <1>3, <1>4, <1>5

LEMMA InvUnderHangup == Inv /\ Hangup => Inv'
<1> SUFFICES ASSUME Inv, Hangup PROVE Inv'
  OBVIOUS
<1> USE DEF Hangup
<1>1. /\ hangups' \in 0..MaxHangups /\ reloads' \in 0..MaxReloads
      /\ events' \subseteq Places \cup Failures
      /\ pc \in events' /\ events \subseteq events'
  BY BoundsAssumption, Counted DEF TypeOK, Reopened
<1>2. CASE L \in alive \cup {NULL} /\ Reopened
  <2>1. /\ made' \in Nat /\ made' \in 1..made' /\ made' # NULL
        /\ 1..made \subseteq 1..made' /\ 0..made \subseteq 0..made'
        /\ 0 \in 0..made' /\ made' \in 0..made'
        /\ made' \notin 0..made /\ made' \notin 1..made
    BY <1>2, NewState DEF TypeOK, Reopened
  <2>2. made' \notin alive \cup tables \cup {use, complaint, L} /\ NULL \notin alive
    BY <2>1, NullIsNoState DEF TypeOK
  <2>3. /\ pc # "null" /\ UNCHANGED <<pc, goal, starting, use, complaint>>
        /\ tables' = tables \cup {made'}
        /\ \/ L' = made' /\ alive' = (alive \ {L}) \cup {made'} /\ scripted' = scripted \cup {made'}
           \/ L' = NULL /\ alive' = alive \ {L} /\ scripted' = scripted /\ "script error" \in events'
    BY <1>2 DEF Reopened, LIsLive
  <2> HIDE DEF Hangup
  <2>4. TypeOK'
    BY <1>1, <2>1, <2>3 DEF TypeOK
  <2>5. (OnlyHangupsUndo /\ FaultsHaveACause)'
    BY <1>1, <2>3 DEF OnlyHangupsUndo, FaultsHaveACause
  <2>6. (LIsLive /\ UseIsL /\ UseIsNew)'
    BY <1>1, <2>1, <2>2, <2>3 DEF LIsLive, UseIsL, UseIsNew
  <2>7. (OpenLuaRelies /\ SetUp /\ Causes)'
    BY <1>1, <2>1, <2>2, <2>3 DEF OpenLuaRelies, SetUp, Causes
  <2>8. NoneLeaks'
    BY <1>1, <2>1, <2>2, <2>3 DEF NoneLeaks, LIsLive, UseIsL
  <2> QED
    BY <2>4, <2>5, <2>6, <2>7, <2>8
<1>3. CASE UNCHANGED <<L, heap>> /\ pc' \in {"fault", "undefined"}
  <2>1. TypeOK'
    BY <1>1, <1>3 DEF TypeOK
  <2>2. (OnlyHangupsUndo /\ FaultsHaveACause)'
    BY <1>1, <1>3, NullIsNoState DEF OnlyHangupsUndo, FaultsHaveACause, LIsLive, Reopened
  <2>3. (LIsLive /\ UseIsL /\ UseIsNew /\ OpenLuaRelies /\ SetUp /\ Causes /\ NoneLeaks)'
    BY <1>1, <1>3 DEF LIsLive, UseIsL, UseIsNew, OpenLuaRelies, SetUp, Causes, NoneLeaks
  <2> QED
    BY <2>1, <2>2, <2>3
<1> QED
  BY <1>2, <1>3

LEMMA InvStep == Inv /\ [Next]_vars => Inv'
<1> SUFFICES ASSUME Inv, [Next]_vars PROVE Inv'
  OBVIOUS
<1>1. CASE Next
  BY <1>1, InvUnderOpen, InvUnderAssign, InvUnderStartRegister, InvUnderRegister,
     InvUnderStartScripts, InvUnderScriptsRun, InvUnderScriptsFail, InvUnderComplain,
     InvUnderStartClose, InvUnderClose, InvUnderForget, InvUnderLine,
     InvUnderReload, InvUnderReloadRefused, InvUnderBroke, InvUnderLookup,
     InvUnderNoFunction, InvUnderReturn, InvUnderHangup
     DEF Next, OpenLua, CloseLua, Respond
<1>2. CASE UNCHANGED vars
  <2>1. TypeOK'
    BY <1>2 DEF vars, TypeOK
  <2>2. (OnlyHangupsUndo /\ FaultsHaveACause /\ LIsLive /\ UseIsL /\ UseIsNew)'
    BY <1>2 DEF vars, OnlyHangupsUndo, FaultsHaveACause, LIsLive, UseIsL, UseIsNew
  <2>3. (OpenLuaRelies /\ SetUp /\ Causes /\ NoneLeaks)'
    BY <1>2 DEF vars, OpenLuaRelies, SetUp, Causes, NoneLeaks
  <2> QED
    BY <2>1, <2>2, <2>3
<1> QED
  BY <1>1, <1>2

\* The invariant holds for any number of !reload lines and signals.
THEOREM Invariance == Spec => []Inv
  BY InvInit, InvStep, PTL DEF Spec

\* Pointers always point to states that were made.
THEOREM TypeCorrectness == Spec => []TypeOK
<1>1. Inv => TypeOK
  OBVIOUS
<1> QED
  BY Invariance, <1>1, PTL

\* OpenLua, CloseLua, ReloadLua and Respond never use a closed state by
\* themselves: a SIGHUP inside a call on it, or before L = NULL, must have come.
THEOREM OnlyHangupsDo == Spec => []OnlyHangupsUndo
<1>1. Inv => OnlyHangupsUndo
  OBVIOUS
<1> QED
  BY Invariance, <1>1, PTL

\* The bot never dies of a NULL or of an assertion of Register without one of
\* the four causes: the directory is gone, or a SIGHUP between steps of OpenLua.
THEOREM FaultsAreCaused == Spec => []FaultsHaveACause
<1>1. Inv => FaultsHaveACause
  OBVIOUS
<1> QED
  BY Invariance, <1>1, PTL

\* Between lines no state but L's is alive, if no SIGHUP came while OpenLua was
\* making one.
THEOREM NothingLeaks == Spec => []OneState
<1>1. Inv => OneState
  BY NullIsNoState DEF OneState, NoneLeaks, LIsLive
<1> QED
  BY Invariance, <1>1, PTL

\* Between lines L is NULL or a state that is completely set up.
THEOREM RestIsReady == Spec => []ReadyOrNull
<1>1. Inv => ReadyOrNull
  BY DEF ReadyOrNull, SetUp, LIsLive
<1> QED
  BY Invariance, <1>1, PTL

\* Only the scripts can leave the bot without Lua between lines.
THEOREM ScriptsBreak == Spec => []BrokenByScripts
<1>1. Inv => BrokenByScripts
  BY DEF BrokenByScripts, Causes
<1> QED
  BY Invariance, <1>1, PTL
=============================================================================
