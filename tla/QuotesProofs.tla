---------------------------- MODULE QuotesProofs ----------------------------
(***************************************************************************)
(* The quotes table for any number of ids, texts and people.  The argument *)
(* is about what a command keeps between two statements: !removequote is   *)
(* safe because the statement it does not finalize locks others out.       *)
(***************************************************************************)
EXTENDS Quotes, TLAPS

\* A shared lock is held from the first name on.
NameKeepsLock == named => shared

\* What !removequote knows is true: nobody can change it.
RemovalIsCurrent ==
  pc \in {"exists", "delete"} =>
    named /\ id \in Taken /\ quotes[id].by = author

\* A pattern is looked up only if no quote of that number was found.
PatternIsLast == pc = "pattern" /\ ~moved /\ ~failed => params.id \notin Taken

\* Nothing is answered before the last statement.
SilentWhileBusy == pc # "idle" => said = "nothing"

Inv ==
  /\ TypeOK /\ FoundIsWanted /\ ErrorsComeFromOutside
  /\ NameKeepsLock /\ RemovalIsCurrent /\ PatternIsLast /\ SilentWhileBusy

-----------------------------------------------------------------------------
USE DEF Begin, At, GoOn, Name, Answer, table, command, reply

LEMMA NextId ==
  ASSUME NEW n \in 0..MaxId
  PROVE  /\ n \in Nat /\ n + 1 > n /\ n <= n + 1
         /\ n < MaxId => n + 1 \in 1..MaxId /\ n + 1 \in 0..MaxId
         /\ 0 \in 0..MaxId /\ 1..MaxId \subseteq 0..MaxId
  BY IdAssumption

LEMMA ZeroIsNoId == 0 \notin Taken
  BY DEF Taken, Ids

LEMMA NoRowIsNoRow == NoRow \notin Row
  BY PeopleAssumption DEF Row, NoRow

\* What a write does to the rows that are there.
LEMMA Inserted ==
  ASSUME TableOK, NEW row \in Row, Insert(row)
  PROVE  /\ TableOK' /\ seq' = seq + 1
         /\ Taken' = Taken \cup {seq'} /\ seq' \notin Taken
         /\ \A i \in Ids : i # seq' => quotes'[i] = quotes[i]
<1>1. seq + 1 \in Ids /\ seq' = seq + 1 /\ seq' \in 0..MaxId
  BY NextId DEF TableOK, Insert, Ids
<1>2. quotes' = [quotes EXCEPT ![seq + 1] = row]
  BY DEF Insert
<1>3. quotes' \in [Ids -> Row \cup {NoRow}] /\ quotes'[seq + 1] = row
      /\ \A i \in Ids : i # seq + 1 => quotes'[i] = quotes[i]
  BY <1>1, <1>2 DEF TableOK
<1>4. Taken' = Taken \cup {seq + 1}
  BY <1>1, <1>3, NoRowIsNoRow DEF Taken
<1>5. \A i \in Taken : i <= seq
  BY DEF TableOK
<1>6. seq \in Nat /\ \A i \in Taken : i \in Nat
  BY NextId DEF TableOK, Taken, Ids
<1>7. seq + 1 \notin Taken /\ \A i \in Taken' : i <= seq + 1
  BY <1>4, <1>5, <1>6
<1> QED
  BY <1>1, <1>3, <1>4, <1>7 DEF TableOK

LEMMA Kept ==
  ASSUME TableOK, UNCHANGED table
  PROVE  TableOK' /\ Taken' = Taken
  BY DEF TableOK, Taken

LEMMA Deleted ==
  ASSUME TableOK, NEW i \in Ids, Delete(i)
  PROVE  /\ TableOK' /\ seq' = seq
         /\ Taken' = Taken \ {i} /\ quotes'[i] = NoRow
         /\ \A j \in Ids : j # i => quotes'[j] = quotes[j]
  BY DEF TableOK, Delete, Taken

LEMMA Edited ==
  ASSUME TableOK, NEW i \in Taken, NEW row \in Row, UNCHANGED seq, quotes' = [quotes EXCEPT ![i] = row]
  PROVE  /\ TableOK' /\ Taken' = Taken
         /\ \A j \in Ids : quotes[j] = NoRow => quotes'[j] = NoRow
  BY NoRowIsNoRow DEF TableOK, Taken

LEMMA InvInit == Init => Inv
<1> SUFFICES ASSUME Init PROVE Inv
  OBVIOUS
<1>1. Taken = {}
  BY DEF Init, Taken
<1>2. quotes \in [Ids -> Row \cup {NoRow}] /\ seq \in 0..MaxId /\ id \in Ids \cup {0}
  BY NextId, IdAssumption DEF Init
<1>3. params \in [id : Ids \cup {0}, texts : SUBSET Texts]
  BY IdAssumption DEF Init, NoParams
<1>4. TableOK
  BY <1>1, <1>2 DEF TableOK, Init
<1>5. shared \in BOOLEAN /\ named \in BOOLEAN /\ moved \in BOOLEAN /\ failed \in BOOLEAN
  BY Zenon DEF Init
<1>6. {author, credited} \subseteq People \cup {"nobody"}
  BY DEF Init
<1>7. TypeOK
  BY <1>2, <1>3, <1>4, <1>5, <1>6 DEF Init, TypeOK
<1> QED
  BY <1>7 DEF Init, Inv, FoundIsWanted, ErrorsComeFromOutside, NameKeepsLock,
     RemovalIsCurrent, PatternIsLast, SilentWhileBusy

LEMMA InvUnderRemoveExists ==
  ASSUME Inv, NEW ok \in BOOLEAN, RemoveExists(ok)
  PROVE  Inv'
<1> USE DEF Inv, RemoveExists, QuoteExists
<1>0. TableOK' /\ Taken' = Taken /\ quotes' = quotes
  BY Kept DEF TypeOK
<1>1. TypeOK'
  BY <1>0 DEF TypeOK
<1>2. (FoundIsWanted /\ ErrorsComeFromOutside /\ PatternIsLast)'
  BY <1>0 DEF FoundIsWanted, ErrorsComeFromOutside, PatternIsLast, QuoteExists
<1>3. (NameKeepsLock /\ RemovalIsCurrent /\ SilentWhileBusy)'
  BY <1>0 DEF NameKeepsLock, RemovalIsCurrent, SilentWhileBusy
<1> QED
  BY <1>1, <1>2, <1>3

LEMMA InvUnderRemove ==
  ASSUME Inv, NEW ok \in BOOLEAN, Remove(ok)
  PROVE  Inv'
<1> USE DEF Inv, Remove, CanWrite, Removed
<1>0. TableOK'
  <2>1. CASE Delete(id)
    BY <2>1, Deleted DEF TypeOK, RemovalIsCurrent, Taken
  <2>2. CASE UNCHANGED table
    BY <2>2, Kept DEF TypeOK
  <2> QED
    BY <2>1, <2>2 DEF RemovalIsCurrent
<1>1. TypeOK'
  BY <1>0 DEF TypeOK
<1>2. (FoundIsWanted /\ ErrorsComeFromOutside /\ PatternIsLast)'
  BY DEF FoundIsWanted, ErrorsComeFromOutside, PatternIsLast, QuoteExists
<1>3. (NameKeepsLock /\ RemovalIsCurrent /\ SilentWhileBusy)'
  BY DEF NameKeepsLock, RemovalIsCurrent, SilentWhileBusy
<1> QED
  BY <1>1, <1>2, <1>3

LEMMA InvUnderNumbered ==
  ASSUME Inv, NEW n \in Ids, NEW p \in SUBSET Texts, NEW ok \in BOOLEAN, Numbered(n, p, ok)
  PROVE  Inv'
<1> USE DEF Inv, Numbered, QuoteExists, GetQuoteByID
<1>0. TableOK' /\ Taken' = Taken /\ quotes' = quotes
  BY Kept DEF TypeOK
<1>1. TypeOK'
  BY <1>0 DEF TypeOK
<1>2. (FoundIsWanted /\ ErrorsComeFromOutside /\ PatternIsLast)'
  BY <1>0 DEF FoundIsWanted, ErrorsComeFromOutside, PatternIsLast, QuoteExists, Taken
<1>3. (NameKeepsLock /\ RemovalIsCurrent /\ SilentWhileBusy)'
  BY <1>0 DEF NameKeepsLock, RemovalIsCurrent, SilentWhileBusy
<1> QED
  BY <1>1, <1>2, <1>3

LEMMA InvUnderPattern ==
  ASSUME Inv, NEW p \in SUBSET Texts, Pattern(p)
  PROVE  Inv'
<1> USE DEF Inv, Pattern
<1>0. TableOK' /\ Taken' = Taken /\ quotes' = quotes
  BY Kept DEF TypeOK
<1>1. TypeOK'
  BY <1>0 DEF TypeOK
<1>2. (FoundIsWanted /\ ErrorsComeFromOutside /\ PatternIsLast)'
  BY <1>0, ZeroIsNoId DEF FoundIsWanted, ErrorsComeFromOutside, PatternIsLast, QuoteExists, Taken
<1>3. (NameKeepsLock /\ RemovalIsCurrent /\ SilentWhileBusy)'
  BY <1>0 DEF NameKeepsLock, RemovalIsCurrent, SilentWhileBusy
<1> QED
  BY <1>1, <1>2, <1>3

LEMMA InvUnderGetIDByPattern ==
  ASSUME Inv, NEW ok \in BOOLEAN, GetIDByPattern(ok)
  PROVE  Inv'
<1> USE DEF Inv, GetIDByPattern, Matches
<1>0. TableOK' /\ Taken' = Taken /\ quotes' = quotes
  BY Kept DEF TypeOK
<1>1. TypeOK'
  BY <1>0 DEF TypeOK, Taken
<1>2. (FoundIsWanted /\ ErrorsComeFromOutside /\ PatternIsLast)'
  BY <1>0 DEF FoundIsWanted, ErrorsComeFromOutside, PatternIsLast, QuoteExists, TypeOK
<1>3. (NameKeepsLock /\ RemovalIsCurrent /\ SilentWhileBusy)'
  BY <1>0 DEF NameKeepsLock, RemovalIsCurrent, SilentWhileBusy
<1> QED
  BY <1>1, <1>2, <1>3

LEMMA InvUnderShow ==
  ASSUME Inv, NEW ok \in BOOLEAN, Show(ok)
  PROVE  Inv'
<1> USE DEF Inv, Show, GetQuoteByID
<1>0. TableOK' /\ Taken' = Taken /\ quotes' = quotes
  BY Kept DEF TypeOK
<1>1. TypeOK'
  BY <1>0 DEF TypeOK
<1>2. (FoundIsWanted /\ ErrorsComeFromOutside /\ PatternIsLast)'
  BY <1>0 DEF FoundIsWanted, ErrorsComeFromOutside, PatternIsLast, QuoteExists, Taken
<1>3. (NameKeepsLock /\ RemovalIsCurrent /\ SilentWhileBusy)'
  BY <1>0 DEF NameKeepsLock, RemovalIsCurrent, SilentWhileBusy
<1> QED
  BY <1>1, <1>2, <1>3

LEMMA InvUnderGetAuthor ==
  ASSUME Inv, NEW n \in Ids, NEW ok \in BOOLEAN, GetAuthor(n, ok)
  PROVE  Inv'
<1> USE DEF Inv, GetAuthor, QuoteExists, KeepLock
<1>0. TableOK' /\ Taken' = Taken /\ quotes' = quotes
  BY Kept DEF TypeOK
<1>1. TypeOK'
  BY <1>0 DEF TypeOK, TableOK, Taken, Row
<1>2. (FoundIsWanted /\ ErrorsComeFromOutside /\ PatternIsLast)'
  BY <1>0 DEF FoundIsWanted, ErrorsComeFromOutside, PatternIsLast, QuoteExists
<1>3. (NameKeepsLock /\ RemovalIsCurrent /\ SilentWhileBusy)'
  BY <1>0 DEF NameKeepsLock, RemovalIsCurrent, SilentWhileBusy
<1> QED
  BY <1>1, <1>2, <1>3

LEMMA InvUnderAddQuote ==
  ASSUME Inv, NEW who \in People, NEW text \in Texts, NEW ok \in BOOLEAN, AddQuote(who, text, ok)
  PROVE  Inv'
<1> USE DEF Inv, AddQuote, CanWrite
<1>0. TableOK'
  <2> DEFINE row == [text |-> text, by |-> who]
  <2>1. CASE Insert(row)
    BY <2>1, Inserted, row \in Row DEF TypeOK, Row
  <2>2. CASE UNCHANGED table
    BY <2>2, Kept DEF TypeOK
  <2> QED
    BY <2>1, <2>2
<1>1. TypeOK'
  <2>1. moved' \in BOOLEAN
    BY Zenon
  <2> QED
    BY <1>0, <2>1 DEF TypeOK
<1>2. (FoundIsWanted /\ ErrorsComeFromOutside /\ PatternIsLast)'
  BY DEF FoundIsWanted, ErrorsComeFromOutside, PatternIsLast, QuoteExists
<1>3. (NameKeepsLock /\ RemovalIsCurrent /\ SilentWhileBusy)'
  BY DEF NameKeepsLock, RemovalIsCurrent, SilentWhileBusy
<1> QED
  BY <1>1, <1>2, <1>3

LEMMA InvUnderOutsideBegin ==
  ASSUME Inv, OutsideBegin
  PROVE  Inv'
<1> USE DEF Inv, OutsideBegin
<1>0. TableOK' /\ Taken' = Taken /\ quotes' = quotes
  BY Kept DEF TypeOK
<1>1. TypeOK'
  BY <1>0 DEF TypeOK
<1>2. (FoundIsWanted /\ ErrorsComeFromOutside /\ PatternIsLast)'
  BY <1>0 DEF FoundIsWanted, ErrorsComeFromOutside, PatternIsLast, QuoteExists
<1>3. (NameKeepsLock /\ RemovalIsCurrent /\ SilentWhileBusy)'
  BY <1>0 DEF NameKeepsLock, RemovalIsCurrent, SilentWhileBusy
<1> QED
  BY <1>1, <1>2, <1>3

LEMMA InvUnderOutsideCommit ==
  ASSUME Inv, OutsideCommit
  PROVE  Inv'
<1> USE DEF Inv, OutsideCommit
<1>0. TableOK'
  <2>1. ASSUME NEW row \in Row, Insert(row) PROVE TableOK'
    BY <2>1, Inserted DEF TypeOK
  <2>2. ASSUME NEW i \in Taken, Delete(i) PROVE TableOK'
    BY <2>2, Deleted DEF TypeOK, Taken
  <2>3. ASSUME NEW i \in Taken, NEW row \in Row, UNCHANGED seq, quotes' = [quotes EXCEPT ![i] = row]
        PROVE  TableOK'
    BY <2>3, Edited DEF TypeOK
  <2> QED
    BY <2>1, <2>2, <2>3
<1>1. TypeOK'
  <2>1. moved' \in BOOLEAN
    BY Zenon
  <2> QED
    BY <1>0, <2>1 DEF TypeOK
<1>2. (FoundIsWanted /\ ErrorsComeFromOutside /\ PatternIsLast)'
  BY DEF FoundIsWanted, ErrorsComeFromOutside, PatternIsLast, QuoteExists
<1>3. (NameKeepsLock /\ RemovalIsCurrent /\ SilentWhileBusy)'
  BY DEF NameKeepsLock, RemovalIsCurrent, SilentWhileBusy
<1> QED
  BY <1>1, <1>2, <1>3

LEMMA InvUnderOutsideRollback ==
  ASSUME Inv, OutsideRollback
  PROVE  Inv'
<1> USE DEF Inv, OutsideRollback
<1>0. TableOK' /\ Taken' = Taken /\ quotes' = quotes
  BY Kept DEF TypeOK
<1>1. TypeOK'
  BY <1>0 DEF TypeOK
<1>2. (FoundIsWanted /\ ErrorsComeFromOutside /\ PatternIsLast)'
  BY <1>0 DEF FoundIsWanted, ErrorsComeFromOutside, PatternIsLast, QuoteExists
<1>3. (NameKeepsLock /\ RemovalIsCurrent /\ SilentWhileBusy)'
  BY <1>0 DEF NameKeepsLock, RemovalIsCurrent, SilentWhileBusy
<1> QED
  BY <1>1, <1>2, <1>3

LEMMA InvUnderRestart ==
  ASSUME Inv, Restart
  PROVE  Inv'
<1> USE DEF Inv, Restart
<1>0. TableOK' /\ Taken' = Taken /\ quotes' = quotes
  BY Kept DEF TypeOK
<1>1. TypeOK'
  BY <1>0 DEF TypeOK
<1>2. (FoundIsWanted /\ ErrorsComeFromOutside /\ PatternIsLast)'
  BY <1>0 DEF FoundIsWanted, ErrorsComeFromOutside, PatternIsLast, QuoteExists
<1>3. (NameKeepsLock /\ RemovalIsCurrent /\ SilentWhileBusy)'
  BY <1>0 DEF NameKeepsLock, RemovalIsCurrent, SilentWhileBusy
<1> QED
  BY <1>1, <1>2, <1>3

LEMMA InvStep == Inv /\ [Next]_vars => Inv'
<1> SUFFICES ASSUME Inv, [Next]_vars PROVE Inv'
  OBVIOUS
<1>1. CASE Add
  BY <1>1, InvUnderAddQuote DEF Add
<1>2. CASE Removal
  BY <1>2, InvUnderGetAuthor, InvUnderRemoveExists, InvUnderRemove DEF Removal
<1>3. CASE Quote
  BY <1>3, InvUnderGetIDByPattern, InvUnderShow, InvUnderPattern, InvUnderNumbered DEF Quote
<1>4. CASE Outside
  BY <1>4, InvUnderOutsideBegin, InvUnderOutsideCommit, InvUnderOutsideRollback DEF Outside
<1>5. CASE Restart
  BY <1>5, InvUnderRestart
<1>6. CASE UNCHANGED vars
  <2>0. TableOK' /\ Taken' = Taken
    BY <1>6, Kept DEF vars, Inv, TypeOK
  <2>1. TypeOK'
    BY <1>6, <2>0 DEF vars, Inv, TypeOK
  <2>2. (FoundIsWanted /\ ErrorsComeFromOutside /\ PatternIsLast)'
    BY <1>6, <2>0 DEF vars, Inv, FoundIsWanted, ErrorsComeFromOutside, PatternIsLast, QuoteExists
  <2>3. (NameKeepsLock /\ RemovalIsCurrent /\ SilentWhileBusy)'
    BY <1>6, <2>0 DEF vars, Inv, NameKeepsLock, RemovalIsCurrent, SilentWhileBusy
  <2> QED
    BY <2>1, <2>2, <2>3 DEF Inv
<1> QED
  BY <1>1, <1>2, <1>3, <1>4, <1>5, <1>6 DEF Next

\* Inv is inductive.
THEOREM Invariance == Spec => []Inv
  BY InvInit, InvStep, PTL DEF Spec

\* The table and the commands have their types; no row has an id that was
\* not given.
THEOREM TypeCorrectness == Spec => []TypeOK
<1>1. Inv => TypeOK
  BY DEF Inv
<1> QED
  BY <1>1, Invariance, PTL

\* What !quote has found is still what was asked for, with nobody outside.
THEOREM QuoteFindsWhatIsAsked == Spec => []FoundIsWanted
<1>1. Inv => FoundIsWanted
  BY DEF Inv
<1> QED
  BY <1>1, Invariance, PTL

\* !quote fails in the script only if another process wrote in between or a
\* statement failed.
THEOREM QuoteAnswers == Spec => []ErrorsComeFromOutside
<1>1. Inv => ErrorsComeFromOutside
  BY DEF Inv
<1> QED
  BY <1>1, Invariance, PTL

-----------------------------------------------------------------------------
\* Only the three statements that write, and the other process, change quotes.
LEMMA Writers ==
  ASSUME Inv, [Next]_vars
  PROVE  \/ quotes' = quotes /\ seq' = seq
         \/ id \in Ids /\ Delete(id)
         \/ \E who \in People, text \in Texts :
              Insert([text |-> text, by |-> who])
         \/ OutsideCommit
<1>1. CASE Add
  BY <1>1 DEF Add, AddQuote
<1>2. CASE Removal
  BY <1>2 DEF Removal, GetAuthor, RemoveExists, Remove, Inv, RemovalIsCurrent, Taken
<1>3. CASE Quote
  BY <1>3 DEF Quote, GetIDByPattern, Show, Pattern, Numbered
<1>4. CASE Outside
  BY <1>4 DEF Outside, OutsideBegin, OutsideRollback
<1>5. CASE Restart \/ UNCHANGED vars
  BY <1>5 DEF Restart, vars
<1> QED
  BY <1>1, <1>2, <1>3, <1>4, <1>5 DEF Next

\* Only the last two statements of !removequote say how it went.
LEMMA Answers ==
  ASSUME [Next]_vars, said' \in {"removed", "terrible"}, said # said'
  PROVE  \E ok \in BOOLEAN : RemoveExists(ok) \/ Remove(ok)
<1>1. CASE Add
  BY <1>1 DEF Add, AddQuote
<1>2. CASE Quote
  BY <1>2 DEF Quote, GetIDByPattern, Show, Pattern, Numbered
<1>3. CASE Removal
  BY <1>3 DEF Removal, GetAuthor
<1>4. CASE Outside
  BY <1>4 DEF Outside, OutsideBegin, OutsideCommit, OutsideRollback
<1>5. CASE Restart \/ UNCHANGED vars
  BY <1>5 DEF Restart, vars
<1> QED
  BY <1>1, <1>2, <1>3, <1>4, <1>5 DEF Next

\* A removal names whoever added the quote that is gone.
THEOREM RemovalNamesTheAdder == Spec => NamesTheAdder
<1>1. ASSUME Inv, [Next]_vars, pc = "delete", said' = "removed"
      PROVE  id \in Taken /\ quotes[id].by = credited' /\ quotes'[id] = NoRow
  <2>1. id \in Taken /\ quotes[id].by = author
    BY <1>1 DEF Inv, RemovalIsCurrent
  <2>2. PICK ok \in BOOLEAN : Remove(ok)
    BY <1>1, Answers DEF Inv, SilentWhileBusy, RemoveExists
  <2>3. Delete(id) /\ credited' = author
    BY <1>1, <2>2 DEF Remove, Removed
  <2> QED
    BY <1>1, <2>1, <2>3, Deleted DEF Inv, TypeOK, Taken
<1> QED
  BY <1>1, Invariance, PTL DEF Spec, NamesTheAdder

\* A quote that was asked for is not removed only if a statement failed, and
\* then it is still there.
THEOREM RefusalsAreFailures == Spec => NotRemovedMeansFailed
<1>1. ASSUME Inv, [Next]_vars, said' = "terrible", said # "terrible"
      PROVE  failed' /\ id \in Taken /\ quotes' = quotes
  <2>1. PICK ok \in BOOLEAN : RemoveExists(ok) \/ Remove(ok)
    BY <1>1, Answers
  <2>2. CASE RemoveExists(ok)
    BY <1>1, <2>2 DEF RemoveExists, QuoteExists, Inv, RemovalIsCurrent
  <2>3. CASE Remove(ok)
    BY <1>1, <2>3 DEF Remove, Removed, Inv, RemovalIsCurrent
  <2> QED
    BY <2>1, <2>2, <2>3
<1> QED
  BY <1>1, Invariance, PTL DEF Spec, NotRemovedMeansFailed

\* The id of a removed quote is never that of another.
THEOREM IdsAreGivenOnce == Spec => IdsAreNotReused
<1>1. ASSUME Inv, [Next]_vars
      PROVE  \A i \in Ids : i <= seq /\ quotes[i] = NoRow => quotes'[i] = NoRow
  <2> SUFFICES ASSUME NEW i \in Ids, i <= seq, quotes[i] = NoRow PROVE quotes'[i] = NoRow
    OBVIOUS
  <2>0. TableOK /\ i # seq + 1
    BY <1>1, NextId DEF Inv, TypeOK, TableOK, Ids
  <2>1. ASSUME NEW row \in Row, Insert(row) PROVE quotes'[i] = NoRow
    BY <1>1, <2>0, <2>1, Inserted
  <2>2. ASSUME NEW j \in Ids, Delete(j) PROVE quotes'[i] = NoRow
    BY <1>1, <2>0, <2>2, Deleted
  <2>3. ASSUME NEW j \in Taken, NEW row \in Row, UNCHANGED seq, quotes' = [quotes EXCEPT ![j] = row]
        PROVE  quotes'[i] = NoRow
    BY <1>1, <2>0, <2>3, Edited
  <2>4. CASE id \in Ids /\ Delete(id)
    BY <2>2, <2>4
  <2>5. CASE \E who \in People, text \in Texts : Insert([text |-> text, by |-> who])
    BY <2>1, <2>5 DEF Row
  <2>6. CASE OutsideCommit
    BY <2>1, <2>2, <2>3, <2>6 DEF OutsideCommit, Taken
  <2> QED
    BY <1>1, <2>4, <2>5, <2>6, Writers
<1> QED
  BY <1>1, Invariance, PTL DEF Spec, IdsAreNotReused
=============================================================================
