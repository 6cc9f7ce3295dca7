-------------------------- MODULE ModerationProofs --------------------------
(***************************************************************************)
(* The properties of Moderation for every set of names, every limit on     *)
(* warnings and every number of kills and failed statements, and that warn *)
(* implements Standing until the first of these.                           *)
(***************************************************************************)
EXTENDS Moderation, TLAPS

USE DEF LEVEL_BANNED, LEVEL_USER, LEVEL_OP, LEVEL_MOD, LEVEL_ADMIN

LEMMA InitInv == Init => Inv
  BY WarningsAssumption, FaultsAssumption
  DEF Init, Inv, TypeOK, NoRowNoData, WarnIsCurrent, BarredAreBlank, Levels, Replies

\* What the two writes of a constant do to their column.
LEMMA BlankFact ==
  ASSUME NEW f \in [Names -> BOOLEAN], NEW S \in SUBSET Names, NEW u \in S,
         NEW g, g = [f EXCEPT ![u] = IF u \in S THEN FALSE ELSE @]
  PROVE  /\ g \in [Names -> BOOLEAN] /\ ~g[u]
         /\ \A v \in Names : v # u => g[v] = f[v]
  BY Zenon

LEMMA ProtectFact ==
  ASSUME NEW f \in [Names -> BOOLEAN], NEW S \in SUBSET Names, NEW u \in S,
         NEW g, g = [f EXCEPT ![u] = IF u \in S THEN TRUE ELSE @]
  PROVE  /\ g \in [Names -> BOOLEAN] /\ g[u]
         /\ \A v \in Names : v # u => g[v] = f[v]
  BY Zenon

\* Every statement of warn leaves the invariant to the next one.
LEMMA WarnInv ==
  ASSUME Inv, CountWarning \/ ClearDescription \/ Bar \/ Lock
  PROVE  Inv'
<1> USE WarningsAssumption, FaultsAssumption
    DEF Inv, TypeOK, NoRowNoData, WarnIsCurrent, BarredAreBlank, Limit, Levels,
        Replies, Statement, SayOrPM, Done, Failed, table
<1>1. CASE CountWarning
  BY <1>1 DEF CountWarning, SetWarnings
<1>2. CASE ClearDescription
  <2>1. CASE Done /\ SetDescription(target, FALSE)
    <3>1. target \in users
      BY <1>2 DEF ClearDescription
    <3>2. /\ described' \in [Names -> BOOLEAN]
          /\ ~described'[target]
          /\ \A u \in Names : u # target => described'[u] = described[u]
      BY <2>1, <3>1, BlankFact DEF SetDescription
    <3>3. UNCHANGED <<users, accessLevel, isProtected, warnings>>
      BY <2>1 DEF SetDescription
    <3> QED
      BY <1>2, <2>1, <3>1, <3>2, <3>3 DEF ClearDescription
  <2>2. CASE Failed /\ UNCHANGED table
    BY <1>2, <2>2 DEF ClearDescription
  <2> QED
    BY <1>2, <2>1, <2>2 DEF ClearDescription
<1>3. CASE Bar
  <2>1. CASE Done /\ SetAccessLevel(target, LEVEL_BANNED)
    <3>1. target \in users
      BY <1>3 DEF Bar
    <3>2. /\ accessLevel' \in [Names -> Levels]
          /\ accessLevel'[target] = LEVEL_BANNED \/ isProtected[target]
          /\ accessLevel'[target] \in {accessLevel[target], LEVEL_BANNED}
          /\ \A u \in Names : u # target => accessLevel'[u] = accessLevel[u]
      BY <2>1, <3>1 DEF SetAccessLevel, IsProtected
    <3>3. UNCHANGED <<users, isProtected, warnings, described>>
      BY <2>1 DEF SetAccessLevel
    <3> QED
      BY <1>3, <2>1, <3>1, <3>2, <3>3 DEF Bar
  <2>2. CASE Failed /\ UNCHANGED table
    BY <1>3, <2>2 DEF Bar
  <2> QED
    BY <1>3, <2>1, <2>2 DEF Bar
<1>4. CASE Lock
  <2>1. CASE Done /\ Protect(target, TRUE)
    <3>1. target \in users
      BY <1>4 DEF Lock
    <3>2. /\ isProtected' \in [Names -> BOOLEAN]
          /\ \A u \in Names : u # target => isProtected'[u] = isProtected[u]
      BY <2>1, <3>1, ProtectFact DEF Protect
    <3>3. UNCHANGED <<users, accessLevel, warnings, described>>
      BY <2>1 DEF Protect
    <3> QED
      BY <1>4, <2>1, <3>1, <3>2, <3>3 DEF Lock
  <2>2. CASE Failed /\ UNCHANGED table
    BY <1>4, <2>2 DEF Lock
  <2> QED
    BY <1>4, <2>1, <2>2 DEF Lock
<1> QED
  BY <1>1, <1>2, <1>3, <1>4

\* A command, which starts only between two others.
LEMMA CommandInv ==
  ASSUME Inv, NEW c \in Names, Command(c)
  PROVE  Inv'
<1> USE WarningsAssumption, FaultsAssumption
    DEF Inv, TypeOK, NoRowNoData, WarnIsCurrent, BarredAreBlank, Limit, Levels,
        Replies, Idle, SayOrPM, Done, Failed, table, running, faults
<1>1. ASSUME NEW u \in Names, Warn(c, u) PROVE Inv'
  BY <1>1 DEF Warn, StartWarn
<1>7. ASSUME NEW u \in Names, WarnUnread(c, u) PROVE Inv'
  BY <1>7 DEF WarnUnread
<1>8. ASSUME NEW u \in Names, WarnRefused(c, u) PROVE Inv'
  BY <1>8 DEF WarnRefused
<1>2. ASSUME NEW u \in Names, Unwarn(c, u) PROVE Inv'
  BY <1>2 DEF Unwarn, SetWarnings
<1>3. ASSUME NEW u \in Names, NEW b \in BOOLEAN, SetProtected(c, u, b) PROVE Inv'
  BY <1>3 DEF SetProtected, Protect
<1>4. ASSUME NEW b \in BOOLEAN, SetDesc(c, b) PROVE Inv'
  BY <1>4 DEF SetDesc, SetDescription, HasAccess, GetAccessLevel
<1>5. ASSUME NEW b \in BOOLEAN, SetEnabled(c, b) PROVE Inv'
  BY <1>5 DEF SetEnabled
<1>6. CASE Reload(c)
  BY <1>6 DEF Reload
<1> QED
  BY <1>1, <1>2, <1>3, <1>4, <1>5, <1>6, <1>7, <1>8 DEF Command

LEMMA NextInv == Inv /\ [Next]_vars => Inv'
<1> SUFFICES ASSUME Inv, [Next]_vars PROVE Inv'
  OBVIOUS
<1>1. ASSUME NEW u \in Names, Join(u) PROVE Inv'
  BY <1>1, WarningsAssumption, FaultsAssumption
  DEF Join, AddUser, Idle, Done, Failed, Inv, TypeOK, NoRowNoData, WarnIsCurrent,
      BarredAreBlank, Limit, Levels, table, running
<1>2. ASSUME NEW c \in Names, Command(c) PROVE Inv'
  BY <1>2, CommandInv
<1>3. CASE CountWarning \/ ClearDescription \/ Bar \/ Lock
  BY <1>3, WarnInv
<1>4. CASE Crash
  BY <1>4, FaultsAssumption
  DEF Crash, Inv, TypeOK, NoRowNoData, WarnIsCurrent, BarredAreBlank, Limit, table
<1>5. CASE UNCHANGED vars
  BY <1>5 DEF vars, table, running, faults, Inv, TypeOK, NoRowNoData,
     WarnIsCurrent, BarredAreBlank, Limit
<1> QED
  BY <1>1, <1>2, <1>3, <1>4, <1>5 DEF Next

-----------------------------------------------------------------------------
\* The strengthened invariant, for any number of kills and errors.
THEOREM Invariance == Spec => []Inv
  BY InitInv, NextInv, PTL DEF Spec

\* UserDB: the columns keep their types, and warnings stay within the limit.
THEOREM TypeCorrectness == Spec => []TypeOK
<1>1. Inv => TypeOK
  BY DEF Inv
<1> QED
  BY <1>1, Invariance, PTL

\* warn clears a description before it bars, so the barred have none.
THEOREM BarredStayBlank == Spec => []BarredAreBlank
<1>1. Inv => BarredAreBlank
  BY DEF Inv
<1> QED
  BY <1>1, Invariance, PTL

-----------------------------------------------------------------------------
\* Only SetAccessLevel, called by warn, changes the rank of a known user.
LEMMA RankStep ==
  ASSUME Inv, [Next]_vars, NEW u \in users, accessLevel'[u] # accessLevel[u]
  PROVE  Bar /\ u = target /\ ~isProtected[u] /\ accessLevel'[u] = LEVEL_BANNED
<1>1. accessLevel \in [Names -> Levels] /\ users \subseteq Names
  BY DEF Inv, TypeOK
<1>2. accessLevel' # accessLevel
  OBVIOUS
<1>3. ~UNCHANGED table /\ ~UNCHANGED vars
  BY <1>2 DEF table, vars
<1>4. ASSUME NEW v \in Names, Join(v) PROVE FALSE
  BY <1>1, <1>3, <1>4 DEF Join, AddUser
<1>5. ASSUME NEW c \in Names, Command(c) PROVE FALSE
  BY <1>2, <1>3, <1>5 DEF Command, Warn, StartWarn, WarnUnread, WarnRefused, Unwarn, SetWarnings, SetProtected, Protect,
     SetDesc, SetDescription, SetEnabled, Reload
<1>6. ~CountWarning /\ ~ClearDescription /\ ~Lock /\ ~Crash
  BY <1>2, <1>3 DEF CountWarning, SetWarnings, ClearDescription, SetDescription, Lock,
     Protect, Crash
<1>7. Bar
  BY <1>3, <1>4, <1>5, <1>6 DEF Next
<1>8. SetAccessLevel(target, LEVEL_BANNED)
  BY <1>3, <1>7 DEF Bar
<1> QED
  BY <1>1, <1>7, <1>8 DEF SetAccessLevel, IsProtected

\* Staff and protected users keep their rank, the barred never get one back.
THEOREM RanksOnlyFall == Spec => RankOnlyFalls
<1> DEFINE Falls(u) == /\ accessLevel[u] <= LEVEL_OP
                       /\ ~isProtected[u]
                       /\ accessLevel'[u] = LEVEL_BANNED
<1>1. Inv /\ [Next]_vars =>
        [\A u \in users : accessLevel'[u] # accessLevel[u] => Falls(u)]_vars
  <2> SUFFICES ASSUME Inv, Next, NEW u \in users, accessLevel'[u] # accessLevel[u]
               PROVE  Falls(u)
    OBVIOUS
  <2>1. Bar /\ u = target /\ ~isProtected[u] /\ accessLevel'[u] = LEVEL_BANNED
    BY RankStep
  <2> QED
    BY <2>1 DEF Inv, WarnIsCurrent, Bar, Statement
<1> QED
  BY <1>1, Invariance, PTL DEF Spec, RankOnlyFalls

-----------------------------------------------------------------------------
(***************************************************************************)
(* The refinement.  The mapping shows a warn that has reached the limit as *)
(* not yet counted until its statement that demotes, so that this one step *)
(* is Standing's Strike; the statement that locks is its Shield.           *)
(***************************************************************************)
Strikes == [u \in Names |-> IF Limit /\ u = target THEN warnings[u] - 1
                                                  ELSE warnings[u]]
Barred == {u \in users : accessLevel[u] = LEVEL_BANNED}
Immune == {u \in users : isProtected[u]}

NoFaultYet == crashes' = 0 /\ errors' = 0

LEMMA RefInit == Init => Promise!Init
  BY DEF Init, Promise!Init, Limit

\* Steps that Standing does not see.
LEMMA StutterRef ==
  ASSUME UNCHANGED <<Strikes, Barred, Immune>>
  PROVE  UNCHANGED Promise!vars
  BY DEF Strikes, Barred, Immune, Promise!vars

LEMMA JoinRef ==
  ASSUME Inv, NEW u \in Names, Join(u)
  PROVE  UNCHANGED Promise!vars
<1>1. UNCHANGED <<warnings, isProtected, step, target>>
  BY DEF Join, AddUser, table, running
<1>2. UNCHANGED Strikes
  BY <1>1 DEF Strikes, Limit
<1>3. UNCHANGED Barred
  BY DEF Join, AddUser, Barred, Inv, TypeOK, table
<1>4. UNCHANGED Immune
  BY DEF Join, AddUser, Immune, Inv, TypeOK, NoRowNoData, table
<1> QED
  BY <1>2, <1>3, <1>4, StutterRef

LEMMA CommandRef ==
  ASSUME Inv, NEW c \in Names, Command(c)
  PROVE  [Promise!Next]_(Promise!vars)
<1>1. ASSUME NEW u \in Names, Warn(c, u) PROVE UNCHANGED Promise!vars
  <2>1. UNCHANGED <<Strikes, Barred, Immune>>
    BY <1>1 DEF Warn, StartWarn, Idle, table, Strikes, Barred, Immune, Limit
  <2> QED
    BY <2>1, StutterRef
<1>6. ASSUME NEW u \in Names, WarnUnread(c, u) \/ WarnRefused(c, u)
      PROVE  UNCHANGED Promise!vars
  <2>1. UNCHANGED <<Strikes, Barred, Immune>>
    BY <1>6 DEF WarnUnread, WarnRefused, Idle, table, running, Strikes, Barred, Immune, Limit
  <2> QED
    BY <2>1, StutterRef
<1>2. ASSUME NEW u \in Names, Unwarn(c, u) PROVE [Promise!Pardon(u)]_(Promise!vars)
  <2>1. CASE u \in users /\ SetWarnings(u, 0)
    BY <1>2, <2>1 DEF Unwarn, Idle, SetWarnings, Limit, running, Promise!Pardon, Inv, TypeOK
  <2>2. CASE UNCHANGED table
    <3>1. UNCHANGED <<Strikes, Barred, Immune>>
      BY <1>2, <2>2 DEF Unwarn, table, running, Strikes, Barred, Immune, Limit
    <3> QED
      BY <3>1, StutterRef
  <2> QED
    BY <1>2, <2>1, <2>2 DEF Unwarn
<1>3. ASSUME NEW u \in Names, NEW b \in BOOLEAN, SetProtected(c, u, b)
      PROVE  [Promise!Shield(u) \/ Promise!Expose(u)]_(Promise!vars)
  <2>0. UNCHANGED <<Strikes, Barred>>
    BY <1>3 DEF SetProtected, Protect, table, running, Strikes, Barred, Limit
  <2>1. CASE UNCHANGED Immune
    BY <2>0, <2>1, StutterRef
  <2>2. CASE Immune' = Immune \cup {u}
    BY <2>0, <2>2 DEF Promise!Shield, Strikes, Barred, Immune
  <2>3. CASE Immune' = Immune \ {u}
    BY <2>0, <2>3 DEF Promise!Expose, Strikes, Barred, Immune
  <2>4. \/ UNCHANGED Immune
        \/ Immune' = Immune \cup {u}
        \/ Immune' = Immune \ {u}
    BY <1>3 DEF SetProtected, Protect, table, Immune, Inv, TypeOK
  <2> QED
    BY <2>1, <2>2, <2>3, <2>4
<1>4. ASSUME NEW b \in BOOLEAN, SetDesc(c, b) \/ SetEnabled(c, b)
      PROVE  UNCHANGED Promise!vars
  <2>1. UNCHANGED <<Strikes, Barred, Immune>>
    BY <1>4 DEF SetDesc, SetDescription, SetEnabled, table, running, Strikes, Barred,
       Immune, Limit
  <2> QED
    BY <2>1, StutterRef
<1>5. CASE Reload(c)
  <2>1. UNCHANGED <<Strikes, Barred, Immune>>
    BY <1>5 DEF Reload, table, running, Strikes, Barred, Immune, Limit
  <2> QED
    BY <2>1, StutterRef
<1> QED
  BY <1>1, <1>2, <1>3, <1>4, <1>5, <1>6 DEF Command, Promise!Next

LEMMA WarnRef ==
  ASSUME Inv, NoFaultYet, CountWarning \/ ClearDescription \/ Bar \/ Lock
  PROVE  [Promise!Next]_(Promise!vars)
<1>1. errors = 0 /\ ~Failed
  <2>1. errors \in Nat
    BY FaultsAssumption DEF Inv, TypeOK
  <2>2. Done \/ Failed
    BY DEF CountWarning, ClearDescription, Bar, Lock
  <2> QED
    BY <2>1, <2>2 DEF Done, Failed, NoFaultYet
<1>2. step # "idle"
  BY DEF CountWarning, ClearDescription, Bar, Lock, Statement
<1>3. PICK t \in Names : t = target /\ t \in users
  BY <1>2 DEF Inv, TypeOK, WarnIsCurrent
<1>4. CASE CountWarning /\ count < MaxWarnings
  <2>1. Promise!Strike(t)
    BY <1>1, <1>3, <1>4, WarningsAssumption DEF CountWarning, Statement, SetWarnings,
       Limit, Inv, TypeOK, WarnIsCurrent, Promise!Strike
  <2> QED
    BY <2>1 DEF Promise!Next
<1>5. CASE CountWarning /\ count >= MaxWarnings
  <2>1. UNCHANGED <<Strikes, Barred, Immune>>
    BY <1>1, <1>3, <1>5, WarningsAssumption DEF CountWarning, Statement, SetWarnings,
       Limit, Inv, TypeOK, WarnIsCurrent, Strikes, Barred, Immune
  <2> QED
    BY <2>1, StutterRef
<1>6. CASE ClearDescription
  <2>1. UNCHANGED <<Strikes, Barred, Immune>>
    BY <1>1, <1>6 DEF ClearDescription, SetDescription, Statement, Limit, Strikes,
       Barred, Immune
  <2> QED
    BY <2>1, StutterRef
<1>7. CASE Bar
  <2>1. /\ step = "level" /\ step' = "protect" /\ target' = target
        /\ warnings[t] = MaxWarnings
        /\ UNCHANGED <<users, isProtected, warnings>>
        /\ accessLevel' = [accessLevel EXCEPT
                             ![t] = IF IsProtected(t) THEN @ ELSE LEVEL_BANNED]
    BY <1>1, <1>3, <1>7 DEF Bar, Statement, SetAccessLevel, Limit, Inv, WarnIsCurrent
  <2>2. MaxWarnings \in Nat /\ MaxWarnings >= 1
    BY WarningsAssumption
  <2>3. Strikes[t] = MaxWarnings - 1
    BY <1>3, <2>1 DEF Strikes, Limit
  <2>4. Strikes' = [Strikes EXCEPT ![t] = @ + 1]
    <3>1. Strikes' = warnings
      BY <2>1 DEF Strikes, Limit, Inv, TypeOK
    <3>2. warnings[t] = Strikes[t] + 1
      BY <2>1, <2>2, <2>3
    <3>3. \A u \in Names : u # t => warnings[u] = Strikes[u]
      BY <1>3 DEF Strikes
    <3>4. /\ warnings = [u \in Names |-> warnings[u]]
          /\ Strikes = [u \in Names |-> Strikes[u]]
      BY DEF Strikes, Inv, TypeOK
    <3> QED
      BY <3>1, <3>2, <3>3, <3>4
  <2>5. Barred' = IF t \notin Immune THEN Barred \cup {t} ELSE Barred
    BY <1>3, <2>1 DEF Barred, Immune, IsProtected, Inv, TypeOK
  <2>6. UNCHANGED Immune
    BY <2>1 DEF Immune
  <2>7. Promise!Strike(t)
    BY <2>2, <2>3, <2>4, <2>5, <2>6 DEF Promise!Strike, Strikes, Barred, Immune
  <2> QED
    BY <2>7 DEF Promise!Next
<1>8. CASE Lock
  <2>1. Promise!Shield(t)
    BY <1>1, <1>3, <1>8 DEF Lock, Statement, Protect, Limit, Inv, TypeOK, Promise!Shield
  <2> QED
    BY <2>1 DEF Promise!Next
<1>9. count < MaxWarnings \/ count >= MaxWarnings
  BY WarningsAssumption DEF Inv, TypeOK
<1> QED
  BY <1>4, <1>5, <1>6, <1>7, <1>8, <1>9

\* Warnings.lua: until something is killed or fails, warn is one step that
\* counts and, at the limit, bars whoever is not protected.
THEOREM WarnKeepsPromise == Spec => KeepsPromise
<1>1. Inv /\ [Next]_vars =>
        [crashes' = 0 /\ errors' = 0 => [Promise!Next]_(Promise!vars)]_vars
  <2> SUFFICES ASSUME Inv, Next, NoFaultYet
               PROVE  [Promise!Next]_(Promise!vars)
    BY DEF NoFaultYet
  <2>1. ASSUME NEW u \in Names, Join(u) PROVE UNCHANGED Promise!vars
    BY <2>1, JoinRef
  <2>2. ASSUME NEW c \in Names, Command(c) PROVE [Promise!Next]_(Promise!vars)
    BY <2>2, CommandRef
  <2>3. CASE CountWarning \/ ClearDescription \/ Bar \/ Lock
    BY <2>3, WarnRef
  <2>4. ~Crash
    BY FaultsAssumption DEF Crash, NoFaultYet, Inv, TypeOK
  <2> QED
    BY <2>1, <2>2, <2>3, <2>4 DEF Next
<1> QED
  BY <1>1, RefInit, Invariance, PTL DEF Spec, KeepsPromise

-----------------------------------------------------------------------------
\* What is said last is what a warn in flight has done.
THEOREM BarringIsReported == Spec => BarredMeansBarred
<1> DEFINE Told(u) == accessLevel'[u] = LEVEL_BANNED \/ isProtected[u]
<1>1. ASSUME Inv, Next, reply' # reply, reply'.said = "barred", errors' = 0
      PROVE  Told(reply'.of)
  <2>1. Lock
    <3>1. ~CountWarning /\ ~ClearDescription /\ ~Bar /\ ~Crash
      <4>1. CASE CountWarning
        <5>1. reply' = [said |-> "warned", of |-> target]
          BY <1>1, <4>1 DEF CountWarning, SayOrPM
        <5> QED
          BY <1>1, <5>1
      <4>2. ~ClearDescription /\ ~Bar /\ ~Crash
        BY <1>1 DEF ClearDescription, Bar, Crash
      <4> QED
        BY <4>1, <4>2
    <3>2. ASSUME NEW u \in Names, Join(u) PROVE FALSE
      BY <1>1, <3>2 DEF Join
    <3>3. ASSUME NEW c \in Names, Command(c) PROVE FALSE
      BY <1>1, <3>3 DEF Command, Warn, StartWarn, WarnUnread, WarnRefused, Unwarn,
         SetProtected, SetDesc, SetEnabled, Reload, SayOrPM
    <3> QED
      BY <1>1, <3>1, <3>2, <3>3 DEF Next
  <2>2. step = "protect" /\ UNCHANGED accessLevel
    BY <2>1 DEF Lock, Statement, Protect, table
  <2>3. errors \in Nat /\ (Done \/ Failed)
    <3>1. errors \in Nat
      BY <1>1, FaultsAssumption DEF Inv, TypeOK
    <3> QED
      BY <2>1, <3>1 DEF Lock
  <2>4. errors = 0
    BY <1>1, <2>3 DEF Done, Failed
  <2>5. reply'.of = target
    BY <1>1, <2>1 DEF Lock, SayOrPM
  <2> QED
    BY <1>1, <2>2, <2>4, <2>5 DEF Inv, WarnIsCurrent
<1> QED
  BY <1>1, Invariance, PTL DEF Spec, BarredMeansBarred

\* Warnings.lua: a warn counts what it has read, which is still there.
THEOREM WarningsAccumulate == Spec => WarnNeverForgives
<1>1. ASSUME Inv, Next, NEW u \in users, warnings'[u] < warnings[u]
      PROVE  Idle \/ errors > 0
  <2> SUFFICES ASSUME step # "idle", errors = 0 PROVE FALSE
    BY <1>1, FaultsAssumption DEF Idle, Inv, TypeOK
  <2>1. warnings[u] \in Nat /\ warnings'[u] # warnings[u]
    BY <1>1, WarningsAssumption DEF Inv, TypeOK
  <2>2. ASSUME NEW n \in Names, Join(n) \/ Command(n) PROVE FALSE
    BY <2>1, <2>2 DEF Join, Command, Warn, WarnUnread, WarnRefused, Unwarn, SetProtected, SetDesc,
       SetEnabled, Reload, Idle, table
  <2>3. ~ClearDescription /\ ~Bar /\ ~Lock /\ ~Crash
    BY <2>1 DEF ClearDescription, SetDescription, Bar, SetAccessLevel, Lock, Protect, Crash, table
  <2>4. CountWarning
    BY <1>1, <2>2, <2>3 DEF Next
  <2>5. count = warnings[target] + 1
    BY <1>1, <2>4 DEF CountWarning, Statement, Inv, WarnIsCurrent
  <2>6. warnings' = [warnings EXCEPT ![target] = IF target \in users THEN count ELSE @]
    BY <2>1, <2>4 DEF CountWarning, SetWarnings, table
  <2> QED
    BY <1>1, <2>1, <2>5, <2>6 DEF Inv, TypeOK
<1>2. Inv /\ [Next]_vars =>
        [\A u \in users : warnings'[u] < warnings[u] => Idle \/ errors > 0]_vars
  BY <1>1
<1> QED
  BY <1>2, Invariance, PTL DEF Spec, WarnNeverForgives
=============================================================================
