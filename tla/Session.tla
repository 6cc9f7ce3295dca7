------------------------------ MODULE Session ------------------------------
(***************************************************************************)
(* The connection life cycle of MeepBot: the reconnect loop of main(), the *)
(* Login / MainLoop / Logout operations of class MeepBot, the Socket they  *)
(* use, and the signal handler clean_exit(), which runs on the same thread *)
(* between any two of their steps.                                         *)
(*                                                                         *)
(* A context is a thread of control on the one stack of the process: main, *)
(* or the activation of clean_exit for one signal.  signal() gives a       *)
(* handler that stays installed, masks only its own signal while it runs   *)
(* and restarts an interrupted recv(), so a handler can itself be          *)
(* interrupted by another signal, and main never sees EINTR.               *)
(*                                                                         *)
(* Steps are cut where the other contexts can tell the difference: at      *)
(* every access to m_bLoggedIn or exit_lock and on both sides of send(),   *)
(* which may raise SIGPIPE before it returns.                              *)
(***************************************************************************)
EXTENDS Naturals

CONSTANTS
  Signals,     \* the asynchronous signals clean_exit is installed for
  MaxSignals,  \* bound: how many of them are sent to the process
  MaxFds,      \* descriptors the process may hold open for sockets
  MaxWait,     \* the cap of wait_length (1800 in the code)
  MaxBatch     \* bound: packets that one read can return

ASSUME SignalsAssumption == {"main", "SIGPIPE"} \cap Signals = {}
ASSUME BoundsAssumption ==
  /\ MaxSignals \in Nat
  /\ MaxFds \in Nat
  /\ MaxWait \in Nat /\ MaxWait >= 2
  /\ MaxBatch \in Nat \ {0}

Handlers == Signals \cup {"SIGPIPE"}
Contexts == Handlers \cup {"main"}

VARIABLES
  pc,          \* where each context is; "idle" is a handler not active
  level,       \* how deep in the stack each active handler is
  depth,       \* how many handlers are active
  out,         \* what each context is passing to MeepBot::Write
  ok,          \* whether its last send() succeeded
  after,       \* where its Write returns to
  loggedIn,    \* MeepBot::m_bLoggedIn
  exit_lock,   \* Main.cpp: exit_lock
  wait_length, \* Main.cpp: wait_length
  buffer,      \* what m_sReadBuffer holds, as Login would parse it
  left,        \* packets of the last read that are still to be handled
  sock,        \* the connection m_iSocket refers to
  fds,         \* socket descriptors the process holds open
  pipe,        \* SIGPIPE has been raised and not delivered
  status,      \* of the process
  delivered,   \* asynchronous signals delivered so far (the bound)
  granted,     \* history: the server granted access on this connection
  leaked,      \* history: attempts that failed with a socket left open
  failed       \* history: the last attempt failed, no sleep since

control == <<pc, level, depth>>
write   == <<out, ok, after>>
program == <<loggedIn, exit_lock, wait_length, buffer, left>>
system  == <<sock, fds, pipe, status, delivered>>
history == <<granted, leaked, failed>>
vars    == <<control, write, program, system, history>>

(***************************************************************************)
(* JOIN, LIST and PART are the USER_JOIN, USER_LIST and USER_PART packets. *)
(* SAY is a packet of Say, Emote or PM, which look at m_bLoggedIn first.   *)
(* RAW is one that HandlePacket writes without looking at it.              *)
(***************************************************************************)
Messages == {"none", "JOIN", "LIST", "PART", "SAY", "RAW"}

(***************************************************************************)
(* The packets HandlePacket tells apart here: a line that is answered (a   *)
(* command, or the end of the user list), a MUTE and a CLIENT_IDLE of the  *)
(* bot itself, the bot's own PART / KICK / DISABLE / BAN / IDLE_KICK, and  *)
(* all the packets that send nothing and leave m_bLoggedIn alone.          *)
(***************************************************************************)
Packets == {"line", "mute", "idle", "lost", "other"}

Labels == {"idle", "start", "top", "sleep", "connect", "login", "joined",
           "reply", "parse", "grant", "loop", "read", "handle", "say",
           "logout", "clear", "disconnect", "final", "finish",
           "check", "farewell", "count", "send", "sent"}

Connected == {"up", "closed", "broken"}

Init ==
  /\ pc = [c \in Contexts |-> IF c = "main" THEN "start" ELSE "idle"]
  /\ level = [c \in Contexts |-> 0]
  /\ depth = 0
  /\ out = [c \in Contexts |-> "none"]
  /\ ok = [c \in Contexts |-> FALSE]
  /\ after = [c \in Contexts |-> "idle"]
  /\ loggedIn = FALSE
  /\ exit_lock = 0
  /\ wait_length = 1
  /\ buffer = "empty"
  /\ left = 0
  /\ sock = "none"
  /\ fds = 0
  /\ pipe = FALSE
  /\ status = "running"
  /\ delivered = 0
  /\ granted = FALSE
  /\ leaked = 0
  /\ failed = FALSE

(***************************************************************************)
(* The context on top of the stack runs, unless SIGPIPE is due first.      *)
(***************************************************************************)
PipeDue == pipe /\ pc["SIGPIPE"] = "idle"

At(c, l) ==
  /\ status = "running"
  /\ ~PipeDue
  /\ level[c] = depth
  /\ pc[c] = l

Goto(c, l) == pc' = [pc EXCEPT ![c] = l] /\ UNCHANGED <<level, depth>>

Write(c, m, l) ==
  /\ Goto(c, "send")
  /\ out' = [out EXCEPT ![c] = m]
  /\ after' = [after EXCEPT ![c] = l]
  /\ UNCHANGED ok

-----------------------------------------------------------------------------
(***************************************************************************)
(* Socket::Write inside MeepBot::Write.  A peer that has gone away shows   *)
(* up late: the first send() may still succeed, the next one fails with    *)
(* ECONNRESET or with EPIPE, and from then on every one raises SIGPIPE.    *)
(***************************************************************************)
SendOutcome(c, result) ==
  /\ ok' = [ok EXCEPT ![c] = result]
  /\ Goto(c, "sent")
  /\ UNCHANGED <<out, after, program, fds, status, delivered, history>>

Send(c) ==
  /\ At(c, "send")
  /\ \/ /\ sock \in {"up", "closed"}
        /\ SendOutcome(c, TRUE)
        /\ UNCHANGED <<sock, pipe>>
     \/ /\ sock = "closed"
        /\ SendOutcome(c, FALSE)
        /\ sock' = "broken"
        /\ UNCHANGED pipe
     \/ /\ sock \in {"closed", "broken"}
        /\ SendOutcome(c, FALSE)
        /\ sock' = "broken"
        /\ pipe' = TRUE

\* A write that failed logs the bot out.
Sent(c) ==
  /\ At(c, "sent")
  /\ loggedIn' = (loggedIn /\ ok[c])
  /\ Goto(c, after[c])
  /\ UNCHANGED <<write, exit_lock, wait_length, buffer, left, system, history>>

\* What a step of c that only moves on leaves alone.
Quiet == UNCHANGED <<write, program, system, history>>

Move(c, from, to) == At(c, from) /\ Goto(c, to) /\ Quiet

-----------------------------------------------------------------------------
(***************************************************************************)
(* main().  The handlers are installed before OpenLua, which may fail.     *)
(***************************************************************************)
Start ==
  /\ At("main", "start")
  /\ \/ Goto("main", "top") /\ UNCHANGED status
     \/ status' = "exit1" /\ UNCHANGED control
  /\ UNCHANGED <<write, program, sock, fds, pipe, delivered, history>>

\* Bug: the wait is doubled without the bound.
BackoffUnbounded(w) == 2 * w

Backoff(w) == IF 2 * w > MaxWait THEN MaxWait ELSE 2 * w

\* Bug: a first failure leaves wait_length alone, so nothing is waited for.
TopWithoutBackoff ==
  /\ At("main", "top")
  /\ Goto("main", IF exit_lock >= 1 THEN "final"
                  ELSE IF wait_length = 1 THEN "connect" ELSE "sleep")
  /\ Quiet

\* The loop condition, and the sleep that a first attempt skips.
Top ==
  /\ At("main", "top")
  /\ \/ /\ exit_lock < 1 /\ wait_length = 1
        /\ Goto("main", "connect")
        /\ wait_length' = Backoff(wait_length)
     \/ /\ exit_lock < 1 /\ wait_length # 1
        /\ Goto("main", "sleep")
        /\ UNCHANGED wait_length
     \/ /\ exit_lock >= 1
        /\ Goto("main", "final")
        /\ UNCHANGED wait_length
  /\ UNCHANGED <<write, loggedIn, exit_lock, buffer, left, system, history>>

\* sleep() ends by itself or when a handler has run.
Sleep ==
  /\ At("main", "sleep")
  /\ Goto("main", "connect")
  /\ wait_length' = Backoff(wait_length)
  /\ failed' = FALSE
  /\ UNCHANGED <<write, loggedIn, exit_lock, buffer, left, system, granted, leaked>>

\* Connect or Login returned false: continue, with the socket as it is.
Fail(leak) ==
  /\ Goto("main", "top")
  /\ leaked' = leaked + leak
  /\ failed' = TRUE

(***************************************************************************)
(* Connect: OpenHost and Open.  A lookup that fails leaves m_iSocket as it *)
(* was; socket() overwrites it; a connect() that fails leaves it open.     *)
(***************************************************************************)
LookupFails ==
  /\ At("main", "connect")
  /\ Fail(0)
  /\ UNCHANGED <<write, program, system, granted>>

SocketFails ==
  /\ At("main", "connect")
  /\ fds >= MaxFds
  /\ sock' = "none"
  /\ Fail(0)
  /\ UNCHANGED <<write, program, fds, pipe, status, delivered, granted>>

ConnectFails ==
  /\ At("main", "connect")
  /\ fds < MaxFds
  /\ sock' = "unconnected"
  /\ fds' = fds + 1
  /\ Fail(1)
  /\ UNCHANGED <<write, program, pipe, status, delivered, granted>>

ConnectedWithReset(w) ==
  /\ At("main", "connect")
  /\ fds < MaxFds
  /\ sock' = "up"
  /\ fds' = fds + 1
  /\ granted' = FALSE
  /\ wait_length' = w
  /\ Goto("main", "login")
  /\ UNCHANGED <<write, loggedIn, exit_lock, buffer, left, pipe, status,
                 delivered, leaked, failed>>

Connects == ConnectedWithReset(wait_length)

-----------------------------------------------------------------------------
(***************************************************************************)
(* Login: send JOIN, read once, look at what the buffer holds.             *)
(***************************************************************************)
Login ==
  /\ At("main", "login")
  /\ Write("main", "JOIN", "joined")
  /\ UNCHANGED <<program, system, history>>

Joined ==
  /\ At("main", "joined")
  /\ \/ ok["main"] /\ Goto("main", "reply") /\ UNCHANGED <<leaked, failed>>
     \/ ~ok["main"] /\ Fail(1)
  /\ UNCHANGED <<write, program, system, granted>>

ReplyArrives ==
  /\ At("main", "reply")
  /\ sock \in {"up", "closed"}
  /\ buffer' \in {"grant", "deny", "chat"}
  /\ granted' = (granted \/ buffer' = "grant")
  /\ Goto("main", "parse")
  /\ UNCHANGED <<write, loggedIn, exit_lock, wait_length, left, system, leaked,
                 failed>>

\* Read returns -1, which Login takes for true.
ReplyFails ==
  /\ At("main", "reply")
  /\ sock \in {"closed", "broken"}
  /\ loggedIn' = FALSE
  /\ Goto("main", "parse")
  /\ UNCHANGED <<write, exit_lock, wait_length, buffer, left, system, history>>

\* Bug: m_bLoggedIn is set before the response code is looked at.
ParseAfterLogin ==
  /\ At("main", "parse")
  /\ loggedIn' = TRUE
  /\ \/ buffer = "grant" /\ Goto("main", "grant") /\ UNCHANGED <<leaked, failed>>
     \/ buffer # "grant" /\ Fail(1)
  /\ UNCHANGED <<write, exit_lock, wait_length, buffer, left, system, granted>>

Parse ==
  /\ At("main", "parse")
  /\ \/ buffer = "grant" /\ Goto("main", "grant") /\ UNCHANGED <<leaked, failed>>
     \/ buffer # "grant" /\ Fail(1)
  /\ UNCHANGED <<write, program, system, granted>>

Grant ==
  /\ At("main", "grant")
  /\ loggedIn' = TRUE
  /\ Write("main", "LIST", "loop")
  /\ UNCHANGED <<exit_lock, wait_length, buffer, left, system, history>>

-----------------------------------------------------------------------------
(***************************************************************************)
(* MainLoop: read while m_bLoggedIn, hand every packet of what was read to *)
(* HandlePacket.  A packet that tells the bot it was thrown out stops the  *)
(* loop only after the rest of the same read has been handled.             *)
(***************************************************************************)
Loop ==
  /\ At("main", "loop")
  /\ Goto("main", IF loggedIn THEN "read" ELSE "logout")
  /\ Quiet

ReadPackets ==
  /\ At("main", "read")
  /\ sock \in {"up", "closed"}
  /\ left' \in 1..MaxBatch
  /\ buffer' = "chat"
  /\ Goto("main", "handle")
  /\ UNCHANGED <<write, loggedIn, exit_lock, wait_length, system, history>>

ReadFails ==
  /\ At("main", "read")
  /\ sock \in {"closed", "broken"}
  /\ loggedIn' = FALSE
  /\ Goto("main", "logout")
  /\ UNCHANGED <<write, exit_lock, wait_length, buffer, left, system, history>>

HandlePacket(p) ==
  /\ At("main", "handle")
  /\ left > 0
  /\ left' = left - 1
  /\ loggedIn' = (loggedIn /\ p # "lost")
  /\ \/ p = "line" /\ Goto("main", "say") /\ UNCHANGED write
     \/ p = "mute" /\ Write("main", "RAW", "say")
     \/ p = "idle" /\ Write("main", "RAW", "handle")
     \/ p \in {"lost", "other"} /\ UNCHANGED <<control, write>>
  /\ UNCHANGED <<exit_lock, wait_length, buffer, system, history>>

Handled == left = 0 /\ Move("main", "handle", "loop")

\* Say, Emote and PM return at once unless m_bLoggedIn.
Say(c, from, to) ==
  /\ At(c, from)
  /\ IF loggedIn THEN Write(c, "SAY", to) ELSE Goto(c, to) /\ UNCHANGED write
  /\ UNCHANGED <<program, system, history>>

-----------------------------------------------------------------------------
\* Logout, from main() twice and from clean_exit.
Logout(c, from, to) ==
  /\ At(c, from)
  /\ IF loggedIn THEN Write(c, "PART", to) ELSE Goto(c, to) /\ UNCHANGED write
  /\ UNCHANGED <<program, system, history>>

\* Bug: Logout sends PART and leaves m_bLoggedIn set.
ClearForgotten(c, to) == Move(c, "clear", to)

Clear(c, to) ==
  /\ At(c, "clear")
  /\ loggedIn' = FALSE
  /\ Goto(c, to)
  /\ UNCHANGED <<write, exit_lock, wait_length, buffer, left, system, history>>

\* Bug: the socket is shut down and never closed.
DisconnectWithoutClose ==
  /\ At("main", "disconnect")
  /\ sock' = "none"
  /\ wait_length' = 1
  /\ Goto("main", "top")
  /\ UNCHANGED <<write, loggedIn, exit_lock, buffer, left, fds, pipe, status,
                 delivered, history>>

\* Disconnect, and the reset of wait_length.
Disconnect ==
  /\ At("main", "disconnect")
  /\ sock' = "none"
  /\ fds' = fds - 1
  /\ wait_length' = 1
  /\ Goto("main", "top")
  /\ UNCHANGED <<write, loggedIn, exit_lock, buffer, left, pipe, status,
                 delivered, history>>

\* The end of the last Logout, and return 0.
Finish ==
  /\ At("main", "finish")
  /\ loggedIn' = FALSE
  /\ status' = "exit0"
  /\ UNCHANGED <<control, write, exit_lock, wait_length, buffer, left, sock,
                 fds, pipe, delivered, history>>

-----------------------------------------------------------------------------
(***************************************************************************)
(* clean_exit: say farewell, log out, ask main() to stop.  The second      *)
(* signal that finds exit_lock set ends the process on the spot.           *)
(***************************************************************************)
Check(c) ==
  /\ At(c, "check")
  /\ \/ exit_lock > 0 /\ status' = "exit1" /\ UNCHANGED control
     \/ exit_lock = 0 /\ Goto(c, "farewell") /\ UNCHANGED status
  /\ UNCHANGED <<write, program, sock, fds, pipe, delivered, history>>

Return(c) ==
  /\ pc' = [pc EXCEPT ![c] = "idle"]
  /\ level' = [level EXCEPT ![c] = 0]
  /\ depth' = depth - 1

\* Bug: clean_exit says goodbye and leaves main() to its loop.
CountForgotten(c) == At(c, "count") /\ Return(c) /\ Quiet

Count(c) ==
  /\ At(c, "count")
  /\ exit_lock' = exit_lock + 1
  /\ Return(c)
  /\ UNCHANGED <<write, loggedIn, wait_length, buffer, left, system, history>>

\* A handler starts on top of whatever was running.
Interrupt(c) ==
  /\ pc' = [pc EXCEPT ![c] = "check"]
  /\ level' = [level EXCEPT ![c] = depth + 1]
  /\ depth' = depth + 1

Deliver(s) ==
  /\ status = "running"
  /\ pc[s] = "idle"
  /\ delivered < MaxSignals
  /\ delivered' = delivered + 1
  /\ Interrupt(s)
  /\ UNCHANGED <<write, program, sock, fds, pipe, status, history>>

DeliverPipe ==
  /\ status = "running"
  /\ PipeDue
  /\ pipe' = FALSE
  /\ Interrupt("SIGPIPE")
  /\ UNCHANGED <<write, program, sock, fds, status, delivered, history>>

\* The server closes or resets the connection.
PeerClose ==
  /\ status = "running"
  /\ sock = "up"
  /\ sock' = "closed"
  /\ UNCHANGED <<control, write, program, fds, pipe, status, delivered, history>>

\* The process has ended and stays so.
Terminated == status # "running" /\ UNCHANGED vars

-----------------------------------------------------------------------------
Connect == LookupFails \/ SocketFails \/ ConnectFails \/ Connects

\* What main does without waiting for the server.
Main ==
  \/ Start \/ Top \/ Sleep \/ Connect \/ Login \/ Joined \/ ReplyFails
  \/ Parse \/ Grant
  \/ Loop \/ ReadFails \/ (\E p \in Packets : HandlePacket(p)) \/ Handled
  \/ Say("main", "say", "handle")
  \/ Logout("main", "logout", "clear") \/ Clear("main", "disconnect")
  \/ Disconnect \/ Logout("main", "final", "finish") \/ Finish

Handler(c) ==
  \/ Check(c) \/ Say(c, "farewell", "logout")
  \/ Logout(c, "logout", "clear") \/ Clear(c, "count") \/ Count(c)

\* The process runs; it stops only in recv, for the server.
Run ==
  \/ Main
  \/ \E c \in Handlers : Handler(c)
  \/ \E c \in Contexts : Send(c) \/ Sent(c)
  \/ DeliverPipe

Receive == ReplyArrives \/ ReadPackets

Next ==
  \/ Run \/ Receive \/ PeerClose \/ Terminated
  \/ \E s \in Signals : Deliver(s)

Spec == Init /\ [][Next]_vars

(***************************************************************************)
(* FairSpec: the process is scheduled; no call but recv on a connection    *)
(* that is up waits for ever.  ServedSpec: nor does that one, because the  *)
(* server goes on sending or closes.  HelpfulSpec: the server and network  *)
(* let a bot in that keeps trying.                                         *)
(***************************************************************************)
FairSpec    == Spec /\ WF_vars(Run)
ServedSpec  == FairSpec /\ WF_vars(Receive \/ PeerClose)
Admit       == ReplyArrives /\ buffer' = "grant"
HelpfulSpec == ServedSpec /\ SF_vars(Connects) /\ SF_vars(Admit)

-----------------------------------------------------------------------------
\* Where main is, its calls of MeepBot::Write left out.
MainAt == IF pc["main"] \in {"send", "sent"} THEN after["main"] ELSE pc["main"]

InLogin   == MainAt \in {"login", "joined", "reply", "parse", "grant"}
InLoop    == MainAt \in {"loop", "read", "handle", "say"}
InClosing == MainAt \in {"logout", "clear", "disconnect"}

MainLabels == {"start", "top", "sleep", "connect", "login", "joined", "reply",
               "parse", "grant", "loop", "read", "handle", "say", "logout",
               "clear", "disconnect", "final", "finish", "send", "sent"}

HandlerLabels == {"idle", "check", "farewell", "logout", "clear", "count",
                  "send", "sent"}

\* The variables hold values of their types, each label in its own context,
\* and wait_length never exceeds its cap (Main.cpp, the reconnect loop).
TypeOK ==
  /\ pc \in [Contexts -> MainLabels \cup HandlerLabels]
  /\ pc["main"] \in MainLabels /\ \A h \in Handlers : pc[h] \in HandlerLabels
  /\ level \in [Contexts -> Nat] /\ depth \in Nat
  /\ out \in [Contexts -> Messages]
  /\ ok \in [Contexts -> BOOLEAN]
  /\ after \in [Contexts -> MainLabels \cup HandlerLabels]
  /\ loggedIn \in BOOLEAN /\ exit_lock \in Nat
  /\ wait_length \in 1..MaxWait
  /\ buffer \in {"empty", "grant", "deny", "chat"} /\ left \in 0..MaxBatch
  /\ sock \in Connected \cup {"none", "unconnected"}
  /\ fds \in 0..MaxFds
  /\ pipe \in BOOLEAN /\ status \in {"running", "exit0", "exit1"}
  /\ delivered \in 0..MaxSignals
  /\ granted \in BOOLEAN /\ failed \in BOOLEAN /\ leaked \in Nat

\* No context is ever about to send() on a descriptor that is closed, was
\* never connected or is the -1 of Close: not Say in a handler that interrupted
\* a reconnect, not the Logout at the end of main.
SendOnOpenSocket == \A c \in Contexts : pc[c] = "send" => sock \in Connected

\* m_bLoggedIn is only ever set inside MainLoop: no signal, failed write or
\* failed login leaves it set for the next connection or for the last Logout.
LoggedOutBetweenSessions == loggedIn => InLoop

\* Neither Logout of main ever sends a PART, because m_bLoggedIn is down by
\* then: the server hears a goodbye only from clean_exit.
OnlyHandlersPart == pc["main"] = "send" => out["main"] # "PART"

\* Every open descriptor is that of the current connection or was left behind
\* by an attempt that failed: a session that got into MainLoop leaves none.
SessionsCloseTheirSocket ==
  fds = leaked + IF InLogin \/ InLoop \/ InClosing THEN 1 ELSE 0

\* main never attempts to connect right after a failed attempt, however it
\* failed: it has slept in between.
FailedAttemptsAreSpaced == pc["main"] = "connect" => ~failed

\* wait_length shrinks only when a session has ended in Disconnect.
BackoffNeverShrinks ==
  [][wait_length' < wait_length => pc["main"] = "disconnect"]_vars

\* A write to a connection that is gone ends the bot instead of making it
\* reconnect: SIGPIPE runs clean_exit, and main or a second SIGPIPE exits.
BrokenPipeEnds == pipe ~> status # "running"

\* A signal that finds the bot logged in ends the process.
SignalEndsSession ==
  (loggedIn /\ \E h \in Handlers : pc[h] = "check") ~> status # "running"

-----------------------------------------------------------------------------
\* "we exit cleanly on receiving these signals" (Main.cpp): a signal that has
\* been handled is followed by the end of the process.
SignalExits == exit_lock > 0 ~> status # "running"

\* "send our login message, wait for the response" (Login): the bot takes
\* itself for logged in only on a connection on which access was granted.
LoginAnswered == loggedIn => granted

\* "Waiting %d seconds to reconnect." (main): a bot that waits to reconnect
\* logs in again, or ends, if the server lets it.
Reconnects == pc["main"] = "sleep" ~> loggedIn \/ status # "running"

-----------------------------------------------------------------------------
(***************************************************************************)
(* The inductive invariant: the handlers form a stack above main, main     *)
(* sends only inside a connection and never a PART, and whoever sends in a *)
(* handler has interrupted main inside MainLoop.                           *)
(***************************************************************************)
HandlersNest ==
  /\ level["main"] = 0
  /\ \A h \in Handlers : /\ pc[h] = "idle" <=> level[h] = 0
                         /\ level[h] <= depth
  /\ \A g, h \in Handlers : level[g] = level[h] /\ g # h => level[g] = 0

WritesReturn ==
  /\ pc["main"] \in {"send", "sent"} =>
       /\ after["main"] \in {"joined", "loop", "handle", "say"}
       /\ out["main"] # "PART"
  /\ \A h \in Handlers : pc[h] \in {"send", "sent"} => after[h] \in {"logout", "clear"}

HandlersSendInLoop == \A h \in Handlers : pc[h] = "send" => InLoop

SessionsAreConnected == InLogin \/ InLoop \/ InClosing => sock \in Connected

FailuresWait ==
  /\ failed => MainAt \in {"top", "sleep", "final", "finish"}
  /\ failed \/ MainAt = "connect" \/ InLogin => wait_length # 1

Inv ==
  /\ TypeOK
  /\ HandlersNest
  /\ WritesReturn
  /\ HandlersSendInLoop
  /\ SessionsAreConnected
  /\ LoggedOutBetweenSessions
  /\ SessionsCloseTheirSocket
  /\ FailuresWait
=============================================================================
