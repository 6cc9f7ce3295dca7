--------------------------- MODULE SessionProofs ---------------------------
(***************************************************************************)
(* The safety properties of Session for every set of signals, every limit  *)
(* on descriptors and every bound, from the inductive invariant Inv.       *)
(*                                                                         *)
(* Inv adds to the properties what makes them inductive: handlers form a   *)
(* stack, so that main moves only when none is active, and a handler that  *)
(* sends has interrupted main inside MainLoop, where the socket is open.   *)
(***************************************************************************)
EXTENDS Session, TLAPS

\* clean_exit never runs as main, nor main as a handler.
LEMMA MainIsNoHandler == "main" \notin Handlers /\ "main" \in Contexts
  BY SignalsAssumption DEF Handlers, Contexts

\* The invariant holds when the process starts.
LEMMA InitInv == Init => Inv
<1> SUFFICES ASSUME Init PROVE Inv
  OBVIOUS
<1> USE MainIsNoHandler, BoundsAssumption DEF Init
<1>1. TypeOK
  <2>1. /\ ok \in [Contexts -> BOOLEAN] /\ loggedIn \in BOOLEAN
        /\ pipe \in BOOLEAN /\ granted \in BOOLEAN /\ failed \in BOOLEAN
    BY Zenon
  <2> QED
    BY <2>1 DEF TypeOK, MainLabels, HandlerLabels, Contexts, Messages
<1>2. HandlersNest
  BY DEF HandlersNest, Contexts
<1>3. WritesReturn /\ HandlersSendInLoop
  BY DEF WritesReturn, HandlersSendInLoop, Contexts
<1>4. MainAt = "start"
  BY DEF MainAt
<1>5. /\ SessionsAreConnected /\ LoggedOutBetweenSessions
      /\ SessionsCloseTheirSocket /\ FailuresWait
  BY <1>4 DEF SessionsAreConnected, LoggedOutBetweenSessions,
     SessionsCloseTheirSocket, FailuresWait, InLogin, InLoop, InClosing
<1> QED
  BY <1>1, <1>2, <1>3, <1>5 DEF Inv

\* main starts, and goes round its loop up to the attempt to connect.
LEMMA StartInv ==
  ASSUME Inv,
         Start \/ Top \/ Sleep
  PROVE  Inv'
<1> USE SignalsAssumption, BoundsAssumption
    DEF Inv, TypeOK, HandlersNest, WritesReturn, HandlersSendInLoop,
        SessionsAreConnected, LoggedOutBetweenSessions, SessionsCloseTheirSocket,
        FailuresWait, InLogin, InLoop, InClosing, MainAt, MainLabels,
        HandlerLabels, Contexts, Handlers, Messages, Connected,
        At, Goto, PipeDue, control, write, program, system, history
<1>1. CASE Start
  BY <1>1 DEF Start
<1>2. CASE Top
  BY <1>2 DEF Top, Backoff
<1>3. CASE Sleep
  <2>1. failed' \in BOOLEAN
    BY <1>3, Zenon DEF Sleep, Backoff
  <2> QED
    BY <1>3, <2>1 DEF Sleep, Backoff
<1> QED
  BY <1>1, <1>2, <1>3

\* An attempt to connect, whatever becomes of it.
LEMMA ConnectInv ==
  ASSUME Inv,
         LookupFails \/ SocketFails \/ ConnectFails \/ Connects
  PROVE  Inv'
<1> USE SignalsAssumption, BoundsAssumption
    DEF Inv, TypeOK, HandlersNest, WritesReturn, HandlersSendInLoop,
        SessionsAreConnected, LoggedOutBetweenSessions, SessionsCloseTheirSocket,
        FailuresWait, InLogin, InLoop, InClosing, MainAt, MainLabels,
        HandlerLabels, Contexts, Handlers, Messages, Connected,
        At, Goto, PipeDue, control, write, program, system, history
<1>1. CASE LookupFails
  BY <1>1 DEF LookupFails, Fail
<1>2. CASE SocketFails
  BY <1>2 DEF SocketFails, Fail
<1>3. CASE ConnectFails
  BY <1>3 DEF ConnectFails, Fail
<1>4. CASE Connects
  <2>1. granted' \in BOOLEAN
    BY <1>4, Zenon DEF Connects, ConnectedWithReset
  <2> QED
    BY <1>4, <2>1 DEF Connects, ConnectedWithReset
<1> QED
  BY <1>1, <1>2, <1>3, <1>4

\* Login, with each of the answers it can get.
LEMMA LoginInv ==
  ASSUME Inv,
         Login \/ Joined \/ ReplyArrives \/ ReplyFails \/ Parse
         \/ Grant
  PROVE  Inv'
<1> USE SignalsAssumption, BoundsAssumption
    DEF Inv, TypeOK, HandlersNest, WritesReturn, HandlersSendInLoop,
        SessionsAreConnected, LoggedOutBetweenSessions, SessionsCloseTheirSocket,
        FailuresWait, InLogin, InLoop, InClosing, MainAt, MainLabels,
        HandlerLabels, Contexts, Handlers, Messages, Connected,
        At, Goto, PipeDue, control, write, program, system, history
<1>1. CASE Login
  BY <1>1 DEF Login, Write
<1>2. CASE Joined
  <2>1. failed' \in BOOLEAN
    BY <1>2, Zenon DEF Joined, Fail
  <2> QED
    BY <1>2, <2>1 DEF Joined, Fail
<1>3. CASE ReplyArrives
  BY <1>3 DEF ReplyArrives
<1>4. CASE ReplyFails
  <2>1. loggedIn' \in BOOLEAN
    BY <1>4, Zenon DEF ReplyFails
  <2> QED
    BY <1>4, <2>1 DEF ReplyFails
<1>5. CASE Parse
  <2>1. failed' \in BOOLEAN
    BY <1>5, Zenon DEF Parse, Fail
  <2> QED
    BY <1>5, <2>1 DEF Parse, Fail
<1>6. CASE Grant
  BY <1>6 DEF Grant, Write
<1> QED
  BY <1>1, <1>2, <1>3, <1>4, <1>5, <1>6

\* MainLoop and the packets it handles.
LEMMA MainLoopInv ==
  ASSUME Inv,
         Loop \/ ReadPackets \/ ReadFails
         \/ (\E p \in Packets : HandlePacket(p)) \/ Handled
         \/ Say("main", "say", "handle")
  PROVE  Inv'
<1> USE SignalsAssumption, BoundsAssumption
    DEF Inv, TypeOK, HandlersNest, WritesReturn, HandlersSendInLoop,
        SessionsAreConnected, LoggedOutBetweenSessions, SessionsCloseTheirSocket,
        FailuresWait, InLogin, InLoop, InClosing, MainAt, MainLabels,
        HandlerLabels, Contexts, Handlers, Messages, Connected,
        At, Goto, PipeDue, control, write, program, system, history
<1>1. CASE Loop
  BY <1>1 DEF Loop, Quiet
<1>2. CASE ReadPackets
  BY <1>2 DEF ReadPackets
<1>3. CASE ReadFails
  <2>1. loggedIn' \in BOOLEAN
    BY <1>3, Zenon DEF ReadFails
  <2> QED
    BY <1>3, <2>1 DEF ReadFails
<1>4. CASE \E p \in Packets : HandlePacket(p)
  BY <1>4 DEF HandlePacket, Packets, Write
<1>5. CASE Handled
  BY <1>5 DEF Handled, Move, Quiet
<1>6. CASE Say("main", "say", "handle")
  BY <1>6 DEF Say, Write
<1> QED
  BY <1>1, <1>2, <1>3, <1>4, <1>5, <1>6

\* The end of a session and of main.
LEMMA EndInv ==
  ASSUME Inv,
         Logout("main", "logout", "clear")
         \/ Clear("main", "disconnect") \/ Disconnect
         \/ Logout("main", "final", "finish") \/ Finish
  PROVE  Inv'
<1> USE SignalsAssumption, BoundsAssumption
    DEF Inv, TypeOK, HandlersNest, WritesReturn, HandlersSendInLoop,
        SessionsAreConnected, LoggedOutBetweenSessions, SessionsCloseTheirSocket,
        FailuresWait, InLogin, InLoop, InClosing, MainAt, MainLabels,
        HandlerLabels, Contexts, Handlers, Messages, Connected,
        At, Goto, PipeDue, control, write, program, system, history
<1>1. CASE Logout("main", "logout", "clear")
  BY <1>1 DEF Logout, Write
<1>2. CASE Clear("main", "disconnect")
  <2>1. loggedIn' \in BOOLEAN
    BY <1>2, Zenon DEF Clear
  <2> QED
    BY <1>2, <2>1 DEF Clear
<1>3. CASE Disconnect
  BY <1>3 DEF Disconnect
<1>4. CASE Logout("main", "final", "finish")
  BY <1>4 DEF Logout, Write
<1>5. CASE Finish
  <2>1. loggedIn' \in BOOLEAN
    BY <1>5, Zenon DEF Finish
  <2> QED
    BY <1>5, <2>1 DEF Finish
<1> QED
  BY <1>1, <1>2, <1>3, <1>4, <1>5

\* clean_exit, run for any signal.
LEMMA HandlerInv ==
  ASSUME Inv, NEW c \in Handlers, Handler(c)
  PROVE  Inv'
<1> USE SignalsAssumption, BoundsAssumption
    DEF Inv, TypeOK, HandlersNest, WritesReturn, HandlersSendInLoop,
        SessionsAreConnected, LoggedOutBetweenSessions, SessionsCloseTheirSocket,
        FailuresWait, InLogin, InLoop, InClosing, MainAt, MainLabels,
        HandlerLabels, Contexts, Handlers, Messages, Connected,
        At, Goto, PipeDue, control, write, program, system, history
<1>1. CASE Check(c)
  BY <1>1 DEF Check
<1>2. CASE Say(c, "farewell", "logout")
  BY <1>2 DEF Say, Write
<1>3. CASE Logout(c, "logout", "clear")
  BY <1>3 DEF Logout, Write
<1>4. CASE Clear(c, "count")
  <2>1. loggedIn' \in BOOLEAN
    BY <1>4, Zenon DEF Clear
  <2> QED
    BY <1>4, <2>1 DEF Clear
<1>5. CASE Count(c)
  BY <1>5 DEF Count, Return
<1> QED
  BY <1>1, <1>2, <1>3, <1>4, <1>5 DEF Handler

\* Both ends of a write, in any context.
LEMMA WriteInv ==
  ASSUME Inv, NEW c \in Contexts, Send(c) \/ Sent(c)
  PROVE  Inv'
<1> USE SignalsAssumption, BoundsAssumption
    DEF Inv, TypeOK, HandlersNest, WritesReturn, HandlersSendInLoop,
        SessionsAreConnected, LoggedOutBetweenSessions, SessionsCloseTheirSocket,
        FailuresWait, InLogin, InLoop, InClosing, MainAt, MainLabels,
        HandlerLabels, Contexts, Handlers, Messages, Connected,
        At, Goto, PipeDue, control, write, program, system, history
<1>1. CASE Send(c)
  <2>1. pipe' \in BOOLEAN /\ ok' \in [Contexts -> BOOLEAN]
    BY <1>1, Zenon DEF Send, SendOutcome
  <2> QED
    BY <1>1, <2>1 DEF Send, SendOutcome
<1>2. CASE Sent(c)
  BY <1>2 DEF Sent
<1> QED
  BY <1>1, <1>2

\* What the kernel and the server do between two steps of the process.
LEMMA EnvironmentInv ==
  ASSUME Inv, DeliverPipe \/ (\E s \in Signals : Deliver(s)) \/ PeerClose
  PROVE  Inv'
<1> USE SignalsAssumption, BoundsAssumption
    DEF Inv, TypeOK, HandlersNest, WritesReturn, HandlersSendInLoop,
        SessionsAreConnected, LoggedOutBetweenSessions, SessionsCloseTheirSocket,
        FailuresWait, InLogin, InLoop, InClosing, MainAt, MainLabels,
        HandlerLabels, Contexts, Handlers, Messages, Connected,
        PipeDue, control, write, program, system, history
<1>1. CASE DeliverPipe
  <2>1. pipe' \in BOOLEAN
    BY <1>1, Zenon DEF DeliverPipe
  <2> QED
    BY <1>1, <2>1 DEF DeliverPipe, Interrupt
<1>2. CASE \E s \in Signals : Deliver(s)
  BY <1>2 DEF Deliver, Interrupt
<1>3. CASE PeerClose
  BY <1>3 DEF PeerClose
<1> QED
  BY <1>1, <1>2, <1>3

\* A stuttering step changes nothing the invariant speaks of.
LEMMA StutterInv == Inv /\ UNCHANGED vars => Inv'
  BY DEF Inv, TypeOK, HandlersNest, WritesReturn, HandlersSendInLoop,
     SessionsAreConnected, LoggedOutBetweenSessions, SessionsCloseTheirSocket,
     FailuresWait, InLogin, InLoop, InClosing, MainAt,
     vars, control, write, program, system, history

LEMMA NextInv == Inv /\ [Next]_vars => Inv'
<1> SUFFICES ASSUME Inv, [Next]_vars PROVE Inv'
  OBVIOUS
<1>1. CASE Main
  <2>1. CASE Start \/ Top \/ Sleep
    BY <2>1, StartInv
  <2>2. CASE Connect
    BY <2>2, ConnectInv DEF Connect
  <2>3. CASE Login \/ Joined \/ ReplyFails \/ Parse \/ Grant
    BY <2>3, LoginInv
  <2>4. CASE \/ Loop \/ ReadFails \/ (\E p \in Packets : HandlePacket(p))
             \/ Handled \/ Say("main", "say", "handle")
    BY <2>4, MainLoopInv
  <2>5. CASE \/ Logout("main", "logout", "clear") \/ Clear("main", "disconnect")
             \/ Disconnect \/ Logout("main", "final", "finish") \/ Finish
    BY <2>5, EndInv
  <2> QED
    BY <1>1, <2>1, <2>2, <2>3, <2>4, <2>5 DEF Main
<1>2. CASE Receive
  BY <1>2, LoginInv, MainLoopInv DEF Receive
<1>3. CASE \E c \in Handlers : Handler(c)
  BY <1>3, HandlerInv
<1>4. CASE \E c \in Contexts : Send(c) \/ Sent(c)
  BY <1>4, WriteInv
<1>5. CASE DeliverPipe \/ PeerClose \/ \E s \in Signals : Deliver(s)
  BY <1>5, EnvironmentInv
<1>6. CASE Terminated \/ UNCHANGED vars
  BY <1>6, StutterInv DEF Terminated
<1> QED
  BY <1>1, <1>2, <1>3, <1>4, <1>5, <1>6 DEF Next, Run

-----------------------------------------------------------------------------
\* The strengthened invariant holds for ever, whatever signals arrive.
THEOREM Invariance == Spec => []Inv
  BY InitInv, NextInv, PTL DEF Spec

\* Main.cpp, MeepBot.cpp: every variable keeps to its type and its bound.
THEOREM TypeCorrectness == Spec => []TypeOK
<1>1. Inv => TypeOK
  BY DEF Inv
<1> QED
  BY <1>1, Invariance, PTL

\* MeepBot::Write never reaches send() without a connection behind m_iSocket,
\* for any number of signals and any nesting of their handlers.
THEOREM SendsAreSafe == Spec => []SendOnOpenSocket
<1>1. Inv => SendOnOpenSocket
  <2> SUFFICES ASSUME Inv, NEW c \in Contexts, pc[c] = "send"
               PROVE  sock \in Connected
    BY DEF SendOnOpenSocket
  <2>1. CASE c = "main"
    BY <2>1 DEF Inv, WritesReturn, SessionsAreConnected, InLogin, InLoop, MainAt
  <2>2. CASE c \in Handlers
    BY <2>2 DEF Inv, HandlersSendInLoop, SessionsAreConnected
  <2> QED
    BY <2>1, <2>2 DEF Contexts
<1> QED
  BY <1>1, Invariance, PTL

\* m_bLoggedIn never survives the session that set it.
THEOREM SessionsEndLoggedOut == Spec => []LoggedOutBetweenSessions
<1>1. Inv => LoggedOutBetweenSessions
  BY DEF Inv
<1> QED
  BY <1>1, Invariance, PTL

\* PART is sent by clean_exit or not at all.
THEOREM MainSendsNoPart == Spec => []OnlyHandlersPart
<1>1. Inv => OnlyHandlersPart
  BY DEF Inv, WritesReturn, OnlyHandlersPart
<1> QED
  BY <1>1, Invariance, PTL

\* Descriptors leak from failed attempts only, one from each at most.
THEOREM SessionsLeakNothing == Spec => []SessionsCloseTheirSocket
<1>1. Inv => SessionsCloseTheirSocket
  BY DEF Inv
<1> QED
  BY <1>1, Invariance, PTL

\* main sleeps after every failed attempt, for every cap of at least 2.
THEOREM FailuresAreSpaced == Spec => []FailedAttemptsAreSpaced
<1>1. Inv => FailedAttemptsAreSpaced
  BY DEF Inv, FailuresWait, FailedAttemptsAreSpaced, MainAt
<1> QED
  BY <1>1, Invariance, PTL

\* wait_length only grows, up to its cap, until a session has ended.
THEOREM BackoffGrows == Spec => BackoffNeverShrinks
<1>1. Inv /\ [Next]_vars => [wait_length' < wait_length => pc["main"] = "disconnect"]_vars
  <2> SUFFICES ASSUME Inv, Next, wait_length' < wait_length
               PROVE  pc["main"] = "disconnect"
    BY DEF vars
  <2>1. wait_length \in 1..MaxWait /\ MaxWait \in Nat
    BY BoundsAssumption DEF Inv, TypeOK
  <2>2. wait_length' # wait_length
    BY <2>1
  <2>3. wait_length' # Backoff(wait_length)
    BY <2>1 DEF Backoff
  <2>4. ~UNCHANGED program /\ ~UNCHANGED vars
    BY <2>2 DEF program, vars
  <2>5. CASE Main
    <3>1. ~(Start \/ Top \/ Sleep)
      BY <2>2, <2>3, <2>4 DEF Start, Top, Sleep
    <3>2. ~Connect
      BY <2>2, <2>4 DEF Connect, LookupFails, SocketFails, ConnectFails,
         Connects, ConnectedWithReset
    <3>3. ~(Login \/ Joined \/ ReplyFails \/ Parse \/ Grant)
      BY <2>2, <2>4 DEF Login, Joined, ReplyFails, Parse, Grant
    <3>4. ~(\/ Loop \/ ReadFails \/ (\E p \in Packets : HandlePacket(p))
            \/ Handled \/ Say("main", "say", "handle"))
      BY <2>2, <2>4 DEF Loop, ReadFails, HandlePacket, Handled, Move, Quiet, Say
    <3>5. ~(\/ Logout("main", "logout", "clear") \/ Clear("main", "disconnect")
            \/ Logout("main", "final", "finish") \/ Finish)
      BY <2>2, <2>4 DEF Logout, Clear, Finish
    <3>6. Disconnect
      BY <2>5, <3>1, <3>2, <3>3, <3>4, <3>5 DEF Main
    <3> QED
      BY <3>6 DEF Disconnect, At
  <2>6. ~Receive /\ ~PeerClose /\ ~DeliverPipe /\ ~Terminated
    BY <2>2, <2>4 DEF Receive, ReplyArrives, ReadPackets, PeerClose, DeliverPipe,
       Terminated
  <2>7. ~\E c \in Handlers : Handler(c)
    BY <2>2, <2>4 DEF Handler, Check, Say, Logout, Clear, Count
  <2>8. ~\E c \in Contexts : Send(c) \/ Sent(c)
    BY <2>2, <2>4 DEF Send, SendOutcome, Sent
  <2>9. ~\E s \in Signals : Deliver(s)
    BY <2>4 DEF Deliver
  <2> QED
    BY <2>5, <2>6, <2>7, <2>8, <2>9 DEF Next, Run
<1> QED
  BY <1>1, Invariance, PTL DEF Spec, BackoffNeverShrinks
=============================================================================
