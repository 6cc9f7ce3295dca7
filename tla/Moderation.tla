----------------------------- MODULE Moderation -----------------------------
(***************************************************************************)
(* The users table (UserDB) and the commands that change it: warn, unwarn, *)
(* protect, unprotect and setdesc, with the dispatcher's access check.     *)
(*                                                                         *)
(* A command runs to its end before the next packet is handled, but its    *)
(* statements are transactions of their own: the process can be killed     *)
(* between two of them, and a statement can fail.  The scripts look at the *)
(* result of none but Protect and SetDescription.  So warn, the one that   *)
(* writes more than once, is one action per statement.                     *)
(*                                                                         *)
(* A name is a row's key, which the table compares without case.           *)
(***************************************************************************)
EXTENDS Naturals

CONSTANTS
  Names,        \* names of chat users
  Owner,        \* "Fire_Adept", who may always reload
  MaxWarnings,  \* MAX_WARNINGS of Warnings.lua (3)
  MaxCrashes,   \* bound: kills of the process
  MaxErrors     \* bound: statements that fail

\* SetWarnings refuses more than 5.
ASSUME WarningsAssumption == MaxWarnings \in 1..5
ASSUME FaultsAssumption == MaxCrashes \in Nat /\ MaxErrors \in Nat

LEVEL_BANNED == 0
LEVEL_USER   == 1
LEVEL_OP     == 2
LEVEL_MOD    == 3
LEVEL_ADMIN  == 4
Levels == LEVEL_BANNED..LEVEL_ADMIN

VARIABLES
  users,        \* names that have a row in the table
  accessLevel,  \* the columns of the table
  isProtected,
  warnings,
  described,    \* is the description not empty?
  isEnabled,    \* MeepBot.IsEnabled, of the Lua state
  step,         \* the next statement of a warn, or "idle"
  target,       \* whom it warns
  count,        \* the warnings it gives them
  reply,        \* what the bot said last, and of whom
  crashes, errors

table   == <<users, accessLevel, isProtected, warnings, described>>
running == <<step, target, count>>
faults  == <<crashes, errors>>
vars    == <<table, isEnabled, running, reply, faults>>

NoOne == "no one"
Replies == {"nothing", "warned", "barred", "protected", "unprotected", "other"}

Init ==
  /\ users = {}
  /\ accessLevel = [u \in Names |-> LEVEL_BANNED]
  /\ isProtected = [u \in Names |-> FALSE]
  /\ warnings = [u \in Names |-> 0]
  /\ described = [u \in Names |-> FALSE]
  /\ isEnabled = TRUE
  /\ step = "idle" /\ target = NoOne /\ count = 0
  /\ reply = [said |-> "nothing", of |-> NoOne]
  /\ crashes = 0 /\ errors = 0

\* The result of a statement: the second alternative is an SQLite error.
Done   == UNCHANGED errors
Failed == errors < MaxErrors /\ errors' = errors + 1

-----------------------------------------------------------------------------
(***************************************************************************)
(* UserDB.  INSERT OR IGNORE keeps the row there is; an UPDATE that finds  *)
(* no row changes nothing and succeeds.                                    *)
(***************************************************************************)
\* Bug: INSERT OR REPLACE.
AddUserReplacing(u, l) ==
  /\ users' = users \cup {u}
  /\ accessLevel' = [accessLevel EXCEPT ![u] = l]
  /\ isProtected' = [isProtected EXCEPT ![u] = FALSE]
  /\ warnings' = [warnings EXCEPT ![u] = 0]
  /\ described' = [described EXCEPT ![u] = FALSE]

AddUser(u, l) ==
  /\ users' = users \cup {u}
  /\ accessLevel' = [accessLevel EXCEPT ![u] = IF u \in users THEN @ ELSE l]
  /\ UNCHANGED <<isProtected, warnings, described>>

GetAccessLevel(u) == IF u \in users THEN accessLevel[u] ELSE LEVEL_BANNED

\* A name without a row counts as protected.
IsProtected(u) == u \in users => isProtected[u]

Protect(u, b) ==
  /\ isProtected' = [isProtected EXCEPT ![u] = IF u \in users THEN b ELSE @]
  /\ UNCHANGED <<users, accessLevel, warnings, described>>

SetAccessLevel(u, l) ==
  /\ accessLevel' = [accessLevel EXCEPT ![u] = IF IsProtected(u) THEN @ ELSE l]
  /\ UNCHANGED <<users, isProtected, warnings, described>>

SetWarnings(u, n) ==
  /\ warnings' = [warnings EXCEPT ![u] = IF u \in users THEN n ELSE @]
  /\ UNCHANGED <<users, accessLevel, isProtected, described>>

SetDescription(u, b) ==
  /\ described' = [described EXCEPT ![u] = IF u \in users THEN b ELSE @]
  /\ UNCHANGED <<users, accessLevel, isProtected, warnings>>

-----------------------------------------------------------------------------
(***************************************************************************)
(* The dispatcher: HasAccess lets the command run, and SayOrPM says        *)
(* nothing while the bot is disabled.                                      *)
(***************************************************************************)
\* Bug: the level of the command is not looked at.
HasAccessIfEnabled(caller, level) ==
  isEnabled \/ GetAccessLevel(caller) >= LEVEL_MOD

HasAccess(caller, level) ==
  /\ GetAccessLevel(caller) >= level
  /\ isEnabled \/ GetAccessLevel(caller) >= LEVEL_MOD

Idle == step = "idle"

SayOrPM(said, u) ==
  reply' = IF isEnabled THEN [said |-> said, of |-> u] ELSE reply

\* The server lists a user, or one joins: their rank decides a new row's level.
Join(u) ==
  /\ Idle
  /\ \/ Done /\ \E l \in {LEVEL_OP, LEVEL_MOD, LEVEL_ADMIN} : AddUser(u, l)
     \/ Failed /\ UNCHANGED table
  /\ UNCHANGED <<isEnabled, running, reply, crashes>>

-----------------------------------------------------------------------------
(***************************************************************************)
(* warn, up to its first statement.  GetWarnings returns -1 when it fails, *)
(* which warn increments like any other number.                            *)
(***************************************************************************)
StartWarn(u, n) ==
  /\ step' = "warnings" /\ target' = u /\ count' = n + 1
  /\ UNCHANGED <<table, isEnabled, reply, errors, crashes>>

\* Bug: the limit is exceeded by one.
WarnAtLimit(caller, u) ==
  /\ Idle
  /\ HasAccess(caller, LEVEL_MOD)
  /\ u \in users
  /\ accessLevel[u] <= LEVEL_OP
  /\ warnings[u] <= MaxWarnings
  /\ StartWarn(u, warnings[u])

Warn(caller, u) ==
  /\ Idle
  /\ HasAccess(caller, LEVEL_MOD)
  /\ u \in users
  /\ accessLevel[u] <= LEVEL_OP
  /\ warnings[u] < MaxWarnings
  /\ StartWarn(u, warnings[u])

\* Bug: GetWarnings does not read the column it selects.
WarnMisread(caller, u) ==
  /\ Idle
  /\ HasAccess(caller, LEVEL_MOD)
  /\ u \in users
  /\ accessLevel[u] <= LEVEL_OP
  /\ Done
  /\ step' = "warnings" /\ target' = u /\ count' = 0
  /\ UNCHANGED <<table, isEnabled, reply, crashes>>

\* -1 is below every limit.
WarnUnread(caller, u) ==
  /\ Idle
  /\ HasAccess(caller, LEVEL_MOD)
  /\ u \in users
  /\ accessLevel[u] <= LEVEL_OP
  /\ Failed
  /\ step' = "warnings" /\ target' = u /\ count' = 0
  /\ UNCHANGED <<table, isEnabled, reply, crashes>>

\* Nobody by that name (or their row cannot be read), staff, or as many
\* warnings as there can be.
WarnRefused(caller, u) ==
  /\ Idle
  /\ HasAccess(caller, LEVEL_MOD)
  /\ \/ Done /\ (u \notin users \/ accessLevel[u] > LEVEL_OP \/ warnings[u] >= MaxWarnings)
     \/ Failed
  /\ SayOrPM("other", u)
  /\ UNCHANGED <<table, isEnabled, running, crashes>>

\* A statement of warn, and where warn goes on.
Statement(at, next) ==
  /\ step = at
  /\ step' = next
  /\ UNCHANGED <<target, count, isEnabled, crashes>>

CountWarning ==
  /\ Statement("warnings", IF count >= MaxWarnings THEN "description" ELSE "idle")
  /\ IF count >= MaxWarnings THEN UNCHANGED reply ELSE SayOrPM("warned", target)
  /\ \/ Done /\ SetWarnings(target, count)
     \/ Failed /\ UNCHANGED table

\* Bug: the user is not demoted.
ClearAndLock ==
  /\ Statement("description", "protect")
  /\ \/ Done /\ SetDescription(target, FALSE)
     \/ Failed /\ UNCHANGED table
  /\ UNCHANGED reply

ClearDescription ==
  /\ Statement("description", "level")
  /\ \/ Done /\ SetDescription(target, FALSE)
     \/ Failed /\ UNCHANGED table
  /\ UNCHANGED reply

\* Bug: the user is locked before they are demoted.
BarLocked ==
  /\ Statement("level", "protect")
  /\ \/ Done /\ Protect(target, TRUE)
     \/ Failed /\ UNCHANGED table
  /\ UNCHANGED reply

Bar ==
  /\ Statement("level", "protect")
  /\ \/ Done /\ SetAccessLevel(target, LEVEL_BANNED)
     \/ Failed /\ UNCHANGED table
  /\ UNCHANGED reply

Lock ==
  /\ Statement("protect", "idle")
  /\ \/ Done /\ Protect(target, TRUE)
     \/ Failed /\ UNCHANGED table
  /\ SayOrPM("barred", target)

-----------------------------------------------------------------------------
\* The commands of one statement.
Unwarn(caller, u) ==
  /\ Idle
  /\ HasAccess(caller, LEVEL_ADMIN)
  /\ \/ u \in users /\ Done /\ SetWarnings(u, 0)
     \/ u \in users /\ Failed /\ UNCHANGED table
     \/ u \notin users /\ Done /\ UNCHANGED table
  /\ SayOrPM("other", u)
  /\ UNCHANGED <<isEnabled, running, crashes>>

\* protect and unprotect believe what UserDB::Protect returns.
SetProtected(caller, u, b) ==
  /\ Idle
  /\ HasAccess(caller, LEVEL_ADMIN)
  /\ \/ /\ Done /\ Protect(u, b)
        /\ SayOrPM(IF b THEN "protected" ELSE "unprotected", u)
     \/ Failed /\ SayOrPM("other", u) /\ UNCHANGED table
  /\ UNCHANGED <<isEnabled, running, crashes>>

SetDesc(caller, b) ==
  /\ Idle
  /\ HasAccess(caller, LEVEL_OP)
  /\ \/ Done /\ SetDescription(caller, b)
     \/ Failed /\ UNCHANGED table
  /\ SayOrPM("other", caller)
  /\ UNCHANGED <<isEnabled, running, crashes>>

\* enablebot and disablebot, which say so with Say and not with SayOrPM.
SetEnabled(caller, b) ==
  /\ Idle
  /\ HasAccess(caller, LEVEL_MOD)
  /\ isEnabled' = b
  /\ reply' = [said |-> "other", of |-> caller]
  /\ UNCHANGED <<table, running, faults>>

\* !reload by an administrator, or by the owner whatever their level, runs the
\* scripts again, and 00 Util.lua first.
Reload(caller) ==
  /\ Idle
  /\ GetAccessLevel(caller) >= LEVEL_ADMIN \/ caller = Owner
  /\ isEnabled' = TRUE
  /\ reply' = [said |-> "other", of |-> caller]
  /\ UNCHANGED <<table, running, faults>>

\* The process is killed and started again: the table is what remains.
Crash ==
  /\ crashes < MaxCrashes
  /\ crashes' = crashes + 1
  /\ isEnabled' = TRUE
  /\ step' = "idle"
  /\ UNCHANGED <<table, target, count, reply, errors>>

Command(caller) ==
  \/ \E u \in Names : \/ Warn(caller, u) \/ WarnUnread(caller, u)
                      \/ WarnRefused(caller, u) \/ Unwarn(caller, u)
                      \/ \E b \in BOOLEAN : SetProtected(caller, u, b)
  \/ \E b \in BOOLEAN : SetDesc(caller, b) \/ SetEnabled(caller, b)
  \/ Reload(caller)

Next ==
  \/ \E u \in Names : Join(u) \/ Command(u)
  \/ CountWarning \/ ClearDescription \/ Bar \/ Lock
  \/ Crash

Spec == Init /\ [][Next]_vars

-----------------------------------------------------------------------------
\* The columns hold values of their types; nobody has more than MAX_WARNINGS
\* warnings, and only a warn in flight has a target above it.
TypeOK ==
  /\ users \in SUBSET Names
  /\ accessLevel \in [Names -> Levels]
  /\ isProtected \in [Names -> BOOLEAN]
  /\ warnings \in [Names -> 0..MaxWarnings]
  /\ described \in [Names -> BOOLEAN]
  /\ isEnabled \in BOOLEAN
  /\ step \in {"idle", "warnings", "description", "level", "protect"}
  /\ target \in Names \cup {NoOne} /\ count \in 0..MaxWarnings
  /\ reply \in [said : Replies, of : Names \cup {NoOne}]
  /\ crashes \in 0..MaxCrashes /\ errors \in 0..MaxErrors

\* A rank changes in one way only, whatever is killed or fails: a user below
\* the staff who is not protected is barred. Staff never lose theirs, and a
\* user who was barred stays so, through rejoining, unwarn and unprotect.
RankOnlyFalls ==
  [][\A u \in users : accessLevel'[u] # accessLevel[u] =>
        /\ accessLevel[u] <= LEVEL_OP
        /\ ~isProtected[u]
        /\ accessLevel'[u] = LEVEL_BANNED]_vars

\* A user who has been barred has no description left (setdesc is for those
\* who may use the bot, and warn clears it before it demotes), unless the
\* statement that clears it failed.
BarredAreBlank ==
  errors = 0 => \A u \in users : accessLevel[u] = LEVEL_BANNED => ~described[u]

\* A warn never takes a warning away, unless it could not read how many there
\* are: only unwarn does.
WarnNeverForgives ==
  [][\A u \in users : warnings'[u] < warnings[u] => Idle \/ errors > 0]_vars

Limit == step \in {"description", "level"}

Promise == INSTANCE Standing WITH
  strikes <- [u \in Names |-> IF Limit /\ u = target THEN warnings[u] - 1
                                                     ELSE warnings[u]],
  barred  <- {u \in users : accessLevel[u] = LEVEL_BANNED},
  immune  <- {u \in users : isProtected[u]}

\* "... is no longer allowed to use the bot" is said only of a user who has
\* just been barred, or was protected already (and keeps their rank), unless a
\* statement failed: the results of none are looked at.
BarredMeansBarred ==
  [][reply' # reply /\ reply'.said = "barred" /\ errors' = 0 =>
       LET u == reply'.of IN accessLevel'[u] = LEVEL_BANNED \/ isProtected[u]]_vars

\* Up to the first kill or error the statements of warn amount to one step: the
\* warning that reaches the limit bars the user, unless they are protected.
KeepsPromise ==
  Promise!Init /\ [][crashes' = 0 /\ errors' = 0 => [Promise!Next]_(Promise!vars)]_vars

(***************************************************************************)
(* The inductive invariant behind them: a name without a row has no data,  *)
(* and a warn in flight still has what it read, because nothing else runs. *)
(***************************************************************************)
NoRowNoData ==
  \A u \in Names \ users : /\ accessLevel[u] = LEVEL_BANNED
                           /\ ~isProtected[u] /\ ~described[u]
                           /\ warnings[u] = 0

WarnIsCurrent ==
  step # "idle" =>
    /\ target \in users /\ accessLevel[target] <= LEVEL_OP
    /\ step = "warnings" => \/ count = warnings[target] + 1
                            \/ count = 0 /\ errors > 0
    /\ step # "warnings" => count = MaxWarnings
    /\ Limit /\ errors = 0 => warnings[target] = MaxWarnings
    /\ step = "level" /\ errors = 0 => ~described[target]
    /\ step = "protect" /\ errors = 0 =>
         accessLevel[target] = LEVEL_BANNED \/ isProtected[target]

Inv == TypeOK /\ NoRowNoData /\ WarnIsCurrent /\ BarredAreBlank

=============================================================================
