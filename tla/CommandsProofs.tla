--------------------------- MODULE CommandsProofs ---------------------------
(***************************************************************************)
(* What users below the moderators can make the bot do, for any users,     *)
(* ranks and lines.  Everything rests on BelowModerators, which names the  *)
(* four outcomes there are for them.                                       *)
(***************************************************************************)
EXTENDS Commands, TLAPS

Outcomes == [said : Seq(Seq(Words)), pm : BOOLEAN, error : BOOLEAN, on : BOOLEAN,
             act : {"none"} \cup {Functions[c] : c \in DOMAIN Functions}]

People == Users \cup {Bot}

LEMMA LevelsAreNumbers ==
  /\ Levels \subseteq Nat
  /\ LEVEL_USER < LEVEL_MOD /\ LEVEL_OP < LEVEL_MOD /\ LEVEL_MOD < LEVEL_ADMIN
  BY DEF Levels, LEVEL_BANNED, LEVEL_USER, LEVEL_OP, LEVEL_MOD, LEVEL_ADMIN

LEMMA TextIsALine == Text \in Seq(Words) /\ Complaint \in Seq(Words)
<1>1. "text" \in Words /\ "broken" \in Words
  BY CommandsAssumption
<1> QED
  BY <1>1 DEF Text, Complaint

-----------------------------------------------------------------------------
\* What outcomes are made of.
LEMMA Parts ==
  ASSUME NEW on \in BOOLEAN, NEW line \in Seq(Words)
  PROVE  /\ Nothing(on) \in Outcomes /\ Nothing(on).on = on
         /\ Nothing(on).said = <<>> /\ ~Nothing(on).pm /\ Nothing(on).act = "none"
         /\ Error(on) \in Outcomes /\ Error(on).on = on
         /\ Error(on).said = <<>> /\ ~Error(on).pm /\ Error(on).act = "none"
         /\ PM(on) \in Outcomes /\ PM(on).on = on /\ PM(on).said = <<>>
         /\ Say(line, on) \in Outcomes /\ Say(line, on).on = on
<1>1. <<>> \in Seq(Seq(Words)) /\ <<line>> \in Seq(Seq(Words))
  OBVIOUS
<1>2. Nothing(on) \in Outcomes
  BY <1>1 DEF Nothing, Outcomes
<1> QED
  BY <1>1, <1>2 DEF Nothing, Error, PM, Say, Outcomes

LEMMA SayOrPMAnswers ==
  ASSUME isEnabled \in BOOLEAN, NEW type
  PROVE  /\ SayOrPM(type) \in Outcomes /\ SayOrPM(type).on = isEnabled
         /\ ~isEnabled => SayOrPM(type) = Nothing(isEnabled)
         /\ SayOrPM("pm").said = <<>>
<1>1. Text \in Seq(Words)
  BY TextIsALine
<1> QED
  BY <1>1, Parts DEF SayOrPM

\* A moderator's action answers, and acts as its function.
LEMMA ModActionActs ==
  ASSUME isEnabled \in BOOLEAN, NEW cmd \in DOMAIN Functions
  PROVE  ModAction(cmd) \in Outcomes /\ ModAction(cmd).on = isEnabled
<1>1. Text \in Seq(Words)
  BY TextIsALine
<1>2. Say(Text, isEnabled) \in Outcomes /\ Say(Text, isEnabled).on = isEnabled
  BY <1>1, Parts
<1>3. Functions[cmd] \in {Functions[c] : c \in DOMAIN Functions}
  OBVIOUS
<1> QED
  BY <1>2, <1>3 DEF ModAction, Outcomes

-----------------------------------------------------------------------------
\* A command runs only for somebody of its level: no moderator's command for
\* those below.
LEMMA ModCommandsNeedModerators ==
  ASSUME NEW caller \in People, rank[caller] \in Levels, rank[caller] < LEVEL_MOD,
         NEW cmd, cmd \in HasLevel, IsCommand(cmd), HasAccess(caller, AccessLevel(cmd))
  PROVE  cmd \notin ModCommands /\ cmd \notin AdminCommands /\ cmd \notin DOMAIN Functions
<1>1. cmd \notin DOMAIN Functions
  BY DEF HasLevel, Registered, Functions, UserCommands, OpCommands, ModCommands, AdminCommands
<1>2. rank[caller] \in Nat /\ rank[caller] >= AccessLevel(cmd)
  BY LevelsAreNumbers DEF HasAccess
<1>3. ASSUME cmd \in ModCommands PROVE FALSE
  <2>1. cmd \notin UserCommands /\ cmd \notin OpCommands /\ cmd \notin AdminCommands
    BY <1>3 DEF UserCommands, OpCommands, ModCommands, AdminCommands
  <2>2. AccessLevel(cmd) = LEVEL_MOD
    BY <2>1 DEF AccessLevel
  <2> QED
    BY <1>2, <2>2 DEF LEVEL_MOD
<1>4. ASSUME cmd \in AdminCommands PROVE FALSE
  <2>1. cmd \notin UserCommands /\ cmd \notin OpCommands
    BY <1>4 DEF UserCommands, OpCommands, AdminCommands
  <2>2. AccessLevel(cmd) = LEVEL_ADMIN
    BY <1>4, <2>1 DEF AccessLevel
  <2> QED
    BY <1>2, <2>2 DEF LEVEL_MOD, LEVEL_ADMIN
<1> QED
  BY <1>1, <1>3, <1>4

\* The four outcomes of a command for somebody below the moderators.
LEMMA BelowModerators ==
  ASSUME isEnabled \in BOOLEAN, NEW caller \in People, rank[caller] \in Levels,
         rank[caller] < LEVEL_MOD, NEW type, NEW line, NEW known \in BOOLEAN
  PROVE  Dispatch(type, caller, line, known) \in
           {Nothing(isEnabled), Error(isEnabled), SayOrPM(type), SayOrPM("pm")}
<1> DEFINE cmd == line[2]
           params == SubSeq(line, 3, Len(line))
           Four == {Nothing(isEnabled), Error(isEnabled), SayOrPM(type), SayOrPM("pm")}
<1>1. ASSUME cmd \in HasLevel, IsCommand(cmd), HasAccess(caller, AccessLevel(cmd))
      PROVE  Run(cmd, type, caller, params, known) \in Four
  <2>1. cmd \notin ModCommands /\ cmd \notin DOMAIN Functions
    BY <1>1, ModCommandsNeedModerators
  <2>2. cmd # "say" /\ cmd # "enablebot" /\ cmd # "disablebot"
    BY <2>1 DEF ModCommands
  <2>3. /\ Help(type, caller) \in Four /\ Quote(type, caller) \in Four
        /\ Position(type, caller, known) \in Four /\ CheckWarnings(type, caller) \in Four
        /\ Describe(type, known) \in Four /\ Fling \in Four /\ Geico \in Four
    BY DEF Help, Quote, Position, CheckWarnings, Describe, Fling, Geico
  <2> HIDE DEF Four, params, cmd
  <2>4. Four = {Nothing(isEnabled), Error(isEnabled), SayOrPM(type), SayOrPM("pm")}
    BY DEF Four
  <2>5. SayOrPM(type) \in Four
    BY <2>4
  <2> QED
    BY <2>1, <2>2, <2>3, <2>5 DEF Run
<1> HIDE DEF cmd, params
<1>2. Dispatch(type, caller, line, known) \in
        {Nothing(isEnabled), Error(isEnabled), SayOrPM(type)}
      \/ /\ cmd \in HasLevel /\ IsCommand(cmd) /\ HasAccess(caller, AccessLevel(cmd))
         /\ Dispatch(type, caller, line, known) = Run(cmd, type, caller, params, known)
  BY DEF Dispatch, cmd, params
<1> QED
  BY <1>1, <1>2

\* Every line has an outcome.
LEMMA DispatchHasOutcome ==
  ASSUME isEnabled \in BOOLEAN, NEW caller, NEW type,
         NEW line \in Seq(Words), NEW known \in BOOLEAN
  PROVE  Dispatch(type, caller, line, known) \in Outcomes
<1> DEFINE cmd == line[2]
           params == SubSeq(line, 3, Len(line))
<1>1. Text \in Seq(Words)
  BY TextIsALine
<1>2. ASSUME Len(line) >= 2 PROVE params \in Seq(Words)
  BY <1>2
<1>3. /\ Nothing(isEnabled) \in Outcomes /\ Error(isEnabled) \in Outcomes
      /\ \A t : SayOrPM(t) \in Outcomes
      /\ Say(Text, TRUE) \in Outcomes /\ Say(Text, FALSE) \in Outcomes
  BY <1>1, Parts, SayOrPMAnswers
<1>4. ASSUME Len(line) >= 2 PROVE Run(cmd, type, caller, params, known) \in Outcomes
  <2>1. SayCommand(params) \in Outcomes
    BY <1>2, <1>3, <1>4, Parts DEF SayCommand
  <2>2. /\ Help(type, caller) \in Outcomes /\ Quote(type, caller) \in Outcomes
        /\ Position(type, caller, known) \in Outcomes
        /\ CheckWarnings(type, caller) \in Outcomes
        /\ Describe(type, known) \in Outcomes /\ Fling \in Outcomes /\ Geico \in Outcomes
        /\ EnableDisable(TRUE) \in Outcomes /\ EnableDisable(FALSE) \in Outcomes
    BY <1>3 DEF Help, Quote, Position, CheckWarnings, Describe, Fling, Geico, EnableDisable
  <2>3. cmd \in DOMAIN Functions => ModAction(cmd) \in Outcomes
    BY ModActionActs
  <2>4. SayOrPM(type) \in Outcomes
    BY <1>3
  <2> HIDE DEF cmd, params
  <2> QED
    BY <2>1, <2>2, <2>3, <2>4 DEF Run
<1> HIDE DEF cmd, params
<1>5. Len(line) \in Nat
  OBVIOUS
<1>6. Dispatch(type, caller, line, known) \in
        {Nothing(isEnabled), Error(isEnabled), SayOrPM(type)}
      \/ /\ Len(line) >= 2
         /\ Dispatch(type, caller, line, known) = Run(cmd, type, caller, params, known)
  BY <1>5 DEF Dispatch, cmd, params
<1> QED
  BY <1>3, <1>4, <1>6

-----------------------------------------------------------------------------
Packets == [type : Types, user : People, line : Seq(Words)]

\* An outcome leaves the inbox with packets, and the flag as it says.
LEMMA OutcomeTyped ==
  ASSUME inbox \in Seq(Packets), inbox # <<>>, NEW o \in Outcomes, Outcome(o)
  PROVE  /\ inbox' \in Seq(Packets) /\ isEnabled' \in BOOLEAN
         /\ isEnabled' = o.on /\ did' = o /\ did' \in Outcomes
<1> DEFINE back == [i \in 1..Len(o.said) |->
                      [type |-> "chat", user |-> Bot, line |-> o.said[i]]]
<1>1. o.said \in Seq(Seq(Words)) /\ o.on \in BOOLEAN
  BY DEF Outcomes
<1>2. \A i \in 1..Len(o.said) : o.said[i] \in Seq(Words)
  BY <1>1
<1>3. \A i \in 1..Len(o.said) :
        [type |-> "chat", user |-> Bot, line |-> o.said[i]] \in Packets
  BY <1>2 DEF Packets, Types, People
<1>4. Len(o.said) \in Nat
  BY <1>1
<1>5. back \in Seq(Packets)
  BY <1>3, <1>4
<1>6. Tail(inbox) \in Seq(Packets)
  OBVIOUS
<1> HIDE DEF back
<1>7. Tail(inbox) \o back \in Seq(Packets)
  BY <1>5, <1>6
<1> QED
  BY <1>1, <1>7 DEF Outcome, back

\* TypeOK in the words used here.
LEMMA Typed ==
  TypeOK <=> /\ rank \in [People -> Levels]
             /\ scripts \in ScriptStates /\ L \in {"null", "good", "noRespond"}
             /\ isEnabled \in BOOLEAN
             /\ inbox \in Seq(Packets) /\ did \in Outcomes
  BY DEF TypeOK, People, Packets, Outcomes

LEMMA TypedHead ==
  ASSUME TypeOK, inbox # <<>>
  PROVE  /\ Head(inbox) \in Packets
         /\ Head(inbox).type \in Types /\ Head(inbox).user \in People
         /\ Head(inbox).line \in Seq(Words) /\ rank[Head(inbox).user] \in Levels
<1>1. Head(inbox) \in Packets
  BY Typed
<1> QED
  BY <1>1, Typed DEF Packets

\* What each way to handle a line p does: an outcome, and the flag.
LEMMA ReloadTyped ==
  ASSUME TypeOK, inbox # <<>>, DoReload(Head(inbox))
  PROVE  /\ \E o \in Outcomes : Outcome(o) /\ (Head(inbox).type = "pm" => o.said = <<>>)
         /\ L' \in {"null", "good", "noRespond"}
         /\ isEnabled' # isEnabled => MayReload(Head(inbox).user) /\ isEnabled'
<1> DEFINE p == Head(inbox)
<1>1. isEnabled \in BOOLEAN /\ scripts \in ScriptStates /\ L \in {"null", "good", "noRespond"}
  BY Typed
<1>2. CASE MayReload(p.user) /\ OpenLua
             /\ Outcome(IF p.type = "pm" THEN PM(TRUE)
                        ELSE [Nothing(TRUE) EXCEPT !.said = <<Text, Text>>])
  <2> DEFINE both == [Nothing(TRUE) EXCEPT !.said = <<Text, Text>>]
  <2>1. <<Text, Text>> \in Seq(Seq(Words))
    BY TextIsALine
  <2>2. both \in Outcomes /\ both.on = TRUE
    BY <2>1 DEF Nothing, Outcomes
  <2>3. PM(TRUE) \in Outcomes /\ PM(TRUE).on = TRUE /\ PM(TRUE).said = <<>>
    BY Parts, TextIsALine
  <2>4. L' \in {"null", "good", "noRespond"}
    BY <1>1, <1>2 DEF OpenLua, ScriptStates
  <2> HIDE DEF both
  <2>5. \E o \in Outcomes : Outcome(o) /\ (p.type = "pm" => o.said = <<>>) /\ o.on = TRUE
    BY <1>2, <2>2, <2>3 DEF both
  <2>6. isEnabled' = TRUE
    BY <2>5 DEF Outcome
  <2> QED
    BY <1>2, <2>4, <2>5, <2>6
<1>3. CASE Outcome(Nothing(isEnabled)) /\ UNCHANGED L
  <2>1. /\ Nothing(isEnabled) \in Outcomes /\ Nothing(isEnabled).said = <<>>
        /\ Nothing(isEnabled).on = isEnabled
    BY <1>1, Parts, TextIsALine
  <2> QED
    BY <1>1, <1>3, <2>1 DEF Outcome
<1> QED
  BY <1>2, <1>3 DEF DoReload

\* Without a Lua state that can answer, nothing but the complaint is said.
LEMMA LuaBrokeTyped ==
  ASSUME TypeOK, inbox # <<>>, LuaBroke(Head(inbox)) \/ NoRespond(Head(inbox))
  PROVE  /\ \E o \in Outcomes : Outcome(o) /\ (o.said = <<>> \/ o.said = <<Complaint>>)
         /\ L' \in {"null", "good", "noRespond"} /\ isEnabled' = isEnabled /\ L # "good"
<1>1. isEnabled \in BOOLEAN /\ L \in {"null", "good", "noRespond"}
  BY Typed
<1>2. /\ Nothing(isEnabled) \in Outcomes /\ Nothing(isEnabled).on = isEnabled
      /\ Nothing(isEnabled).said = <<>>
      /\ Say(Complaint, isEnabled) \in Outcomes /\ Say(Complaint, isEnabled).on = isEnabled
  BY <1>1, Parts, TextIsALine
<1>3. Say(Complaint, isEnabled).said = <<Complaint>>
  BY DEF Say, Nothing, Complaint
<1> QED
  BY <1>1, <1>2, <1>3 DEF LuaBroke, NoRespond, Outcome

LEMMA CommandTyped ==
  ASSUME TypeOK, inbox # <<>>, Command(Head(inbox))
  PROVE  (\E o \in Outcomes : Outcome(o)) /\ L' = L /\ L = "good"
<1> DEFINE p == Head(inbox)
<1>1. isEnabled \in BOOLEAN /\ p.line \in Seq(Words)
  BY Typed, TypedHead
<1>2. \A known \in BOOLEAN : Dispatch(p.type, p.user, p.line, known) \in Outcomes
  BY <1>1, DispatchHasOutcome
<1> QED
  BY <1>2 DEF Command

\* Below the moderators a command leaves the flag, is silent while it is down,
\* and answers a PM with no line in the room.
LEMMA CommandBelowModerators ==
  ASSUME TypeOK, inbox # <<>>, Command(Head(inbox)), Caller < LEVEL_MOD
  PROVE  /\ isEnabled' = isEnabled
         /\ ~isEnabled => did'.said = <<>> /\ ~did'.pm /\ did'.act = "none"
         /\ Head(inbox).type = "pm" => did'.said = <<>>
<1> DEFINE p == Head(inbox)
           Four == {Nothing(isEnabled), Error(isEnabled), SayOrPM(p.type), SayOrPM("pm")}
<1>1. isEnabled \in BOOLEAN /\ p.user \in People /\ rank[p.user] \in Levels
  BY Typed, TypedHead
<1>2. rank[p.user] < LEVEL_MOD
  BY DEF Caller
<1>3. \A known \in BOOLEAN : Dispatch(p.type, p.user, p.line, known) \in Four
  BY <1>1, <1>2, BelowModerators
<1>4. PICK known \in BOOLEAN : Outcome(Dispatch(p.type, p.user, p.line, known))
  BY DEF Command
<1>5. PICK o \in Four : Outcome(o)
  BY <1>3, <1>4
<1>6. did' = o /\ isEnabled' = o.on
  BY <1>5 DEF Outcome
<1>7. /\ Nothing(isEnabled).on = isEnabled /\ Error(isEnabled).on = isEnabled
      /\ Nothing(isEnabled).said = <<>> /\ Error(isEnabled).said = <<>>
      /\ ~Nothing(isEnabled).pm /\ ~Error(isEnabled).pm
      /\ Nothing(isEnabled).act = "none" /\ Error(isEnabled).act = "none"
  BY <1>1, Parts, TextIsALine
<1>8. \A t : /\ SayOrPM(t).on = isEnabled
             /\ ~isEnabled => SayOrPM(t) = Nothing(isEnabled)
  BY <1>1, SayOrPMAnswers
<1>9. SayOrPM("pm").said = <<>>
  BY <1>1, SayOrPMAnswers
<1>10. o \in {Nothing(isEnabled), Error(isEnabled), SayOrPM(p.type), SayOrPM("pm")}
  OBVIOUS
<1> HIDE DEF p, Four
<1>11. o.on = isEnabled
  BY <1>7, <1>8, <1>10
<1>12. ~isEnabled => o \in {Nothing(isEnabled), Error(isEnabled)}
  BY <1>8, <1>10
<1>13. p.type = "pm" => o.said = <<>>
  BY <1>7, <1>9, <1>10
<1> QED
  BY <1>6, <1>7, <1>11, <1>12, <1>13 DEF p

-----------------------------------------------------------------------------
LEMMA TypeOKInit == Init => TypeOK
<1> SUFFICES ASSUME Init PROVE TypeOK
  OBVIOUS
<1>1. Nothing(TRUE) \in Outcomes
  BY Parts, TextIsALine
<1>2. rank \in [People -> Levels]
  BY CommandsAssumption DEF Init, People
<1>3. isEnabled \in BOOLEAN /\ inbox \in Seq(Packets)
  BY DEF Init
<1> QED
  BY <1>1, <1>2, <1>3, Typed DEF Init, ScriptStates

LEMMA TypeOKNext == TypeOK /\ [Next]_vars => TypeOK'
<1> SUFFICES ASSUME TypeOK, [Next]_vars PROVE TypeOK'
  OBVIOUS
<1> DEFINE Post == /\ rank' \in [People -> Levels]
                   /\ scripts' \in ScriptStates /\ L' \in {"null", "good", "noRespond"}
                   /\ isEnabled' \in BOOLEAN
                   /\ inbox' \in Seq(Packets) /\ did' \in Outcomes
<1>1. Post => TypeOK'
  BY DEF TypeOK, People, Packets, Outcomes
<1>2. CASE Respond
  <2>1. inbox # <<>> /\ inbox \in Seq(Packets) /\ rank' = rank /\ scripts' = scripts
    BY <1>2, Typed DEF Respond
  <2>2. (\E o \in Outcomes : Outcome(o)) /\ L' \in {"null", "good", "noRespond"}
    BY <1>2, <2>1, ReloadTyped, LuaBrokeTyped, CommandTyped DEF Respond
  <2>3. inbox' \in Seq(Packets) /\ isEnabled' \in BOOLEAN /\ did' \in Outcomes
    BY <2>1, <2>2, OutcomeTyped
  <2> QED
    BY <1>1, <2>1, <2>2, <2>3, Typed
<1>3. ASSUME NEW u \in Users, NEW type \in Types, NEW line \in Lines, Write(u, type, line)
      PROVE  TypeOK'
  <2>1. [type |-> type, user |-> u, line |-> line] \in Packets
    BY CommandsAssumption DEF Packets, People
  <2>2. inbox' \in Seq(Packets)
    BY <1>3, <2>1, Typed DEF Write
  <2> QED
    BY <1>1, <1>3, <2>2, Typed DEF Write
<1>4. ASSUME NEW s \in ScriptStates, Edit(s) PROVE TypeOK'
  BY <1>1, <1>4, Typed DEF Edit
<1>5. CASE UNCHANGED vars
  BY <1>1, <1>5, Typed DEF vars
<1> QED
  BY <1>2, <1>3, <1>4, <1>5 DEF Next

\* The Lua state is always one made of scripts that ran to their end, or null.
THEOREM TypeCorrectness == Spec => []TypeOK
<1> QED
  BY TypeOKInit, TypeOKNext, PTL DEF Spec

\* While the bot is disabled, nobody below the moderators makes it speak: for
\* any line, any ranks and any state of the scripts (but for a reload).
THEOREM DisabledIsQuiet == Spec => QuietWhenDisabled
<1> DEFINE Quiet == Respond /\ L = "good" /\ ~isEnabled /\ Caller < LEVEL_MOD /\ ~IsReload(Line)
                      => did'.said = <<>> /\ ~did'.pm /\ did'.act = "none"
<1>1. TypeOK /\ [Next]_vars => [Quiet]_vars
  <2> SUFFICES ASSUME TypeOK, Respond, L = "good", ~isEnabled, Caller < LEVEL_MOD,
                      ~IsReload(Line)
               PROVE  did'.said = <<>> /\ ~did'.pm /\ did'.act = "none"
    OBVIOUS
  <2>1. inbox # <<>> /\ Command(Head(inbox))
    BY DEF Respond, DoReload, LuaBroke, NoRespond, Line
  <2> QED
    BY <2>1, CommandBelowModerators
<1> QED
  BY <1>1, TypeCorrectness, PTL DEF Spec, QuietWhenDisabled

\* A PM of somebody below the moderators has nothing said in the room but the
\* complaint that Lua is broken, and that only while it is, whatever is written,
\* whatever their rank, and in a reload of Fire_Adept too.
THEOREM PMsStayPrivate == Spec => PrivateStaysPrivate
<1> DEFINE Private == Respond /\ Caller < LEVEL_MOD /\ Head(inbox).type = "pm"
                        => \/ did'.said = <<>>
                           \/ L # "good" /\ did'.said = <<Complaint>>
<1>1. TypeOK /\ [Next]_vars => [Private]_vars
  <2> SUFFICES ASSUME TypeOK, Respond, Caller < LEVEL_MOD, Head(inbox).type = "pm"
               PROVE  did'.said = <<>> \/ (L # "good" /\ did'.said = <<Complaint>>)
    OBVIOUS
  <2>1. inbox # <<>>
    BY DEF Respond
  <2>2. ASSUME DoReload(Head(inbox)) PROVE did'.said = <<>>
    BY <2>1, <2>2, ReloadTyped DEF Outcome
  <2>3. ASSUME LuaBroke(Head(inbox)) \/ NoRespond(Head(inbox))
        PROVE  L # "good" /\ (did'.said = <<>> \/ did'.said = <<Complaint>>)
    BY <2>1, <2>3, LuaBrokeTyped DEF Outcome
  <2>4. ASSUME Command(Head(inbox)) PROVE did'.said = <<>>
    BY <2>1, <2>4, CommandBelowModerators
  <2> QED
    BY <2>2, <2>3, <2>4 DEF Respond
<1> QED
  BY <1>1, TypeCorrectness, PTL DEF Spec, PrivateStaysPrivate

\* Only a moderator, a line of a bot with that rank, or a reload of Fire_Adept
\* changes whether the bot is enabled.
THEOREM StaffSwitches == Spec => SwitchedByStaff
<1> DEFINE Staff == isEnabled' # isEnabled =>
                      Caller >= LEVEL_MOD \/ (Head(inbox).user = Owner /\ isEnabled')
<1>1. TypeOK /\ [Next]_vars => [Staff]_vars
  <2> SUFFICES ASSUME TypeOK, [Next]_vars, isEnabled' # isEnabled
               PROVE  Caller >= LEVEL_MOD \/ (Head(inbox).user = Owner /\ isEnabled')
    OBVIOUS
  <2>1. Respond
    BY DEF Next, Write, Edit, vars
  <2>2. inbox # <<>>
    BY <2>1 DEF Respond
  <2>3. Caller \in Nat
    BY <2>2, TypedHead, LevelsAreNumbers DEF Caller
  <2>4. CASE DoReload(Head(inbox))
    <3>1. isEnabled' /\ MayReload(Head(inbox).user)
      BY <2>2, <2>4, ReloadTyped
    <3> QED
      BY <2>3, <3>1 DEF MayReload, Caller, LEVEL_MOD, LEVEL_ADMIN
  <2>5. CASE LuaBroke(Head(inbox)) \/ NoRespond(Head(inbox))
    BY <2>2, <2>5, LuaBrokeTyped
  <2>6. CASE Command(Head(inbox))
    <3>1. ~(Caller < LEVEL_MOD)
      BY <2>2, <2>6, CommandBelowModerators
    <3> QED
      BY <2>3, <3>1 DEF LEVEL_MOD
  <2> QED
    BY <2>1, <2>4, <2>5, <2>6 DEF Respond
<1> QED
  BY <1>1, TypeCorrectness, PTL DEF Spec, SwitchedByStaff
=============================================================================
