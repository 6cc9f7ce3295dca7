------------------------------- MODULE Quotes -------------------------------
(***************************************************************************)
(* The quotes table (QuotesDB) and the commands quote, addquote and        *)
(* removequote, one action per SQL statement.                              *)
(*                                                                         *)
(* MeepBot.db may be open in another process (an administrator's sqlite3,  *)
(* a second bot): it can write between two statements of a command.  It    *)
(* cannot commit while the bot holds a shared lock, and the bot cannot     *)
(* write while it has one of its own; neither waits (no busy timeout is    *)
(* set).  Every statement of the bot is finalized, and gives up its lock,  *)
(* but that of GetQuoteAuthor, which keeps it as long as the bot runs.     *)
(*                                                                         *)
(* Any statement may fail, on a lock of the other process or an error of   *)
(* the disk: reads then find nothing, and only the console tells why.      *)
(*                                                                         *)
(* A pattern is the set of texts LIKE finds it in.  Who may run a command, *)
(* and where the answer goes, is in Commands.                              *)
(***************************************************************************)
EXTENDS Naturals, FiniteSets

CONSTANTS
  Texts,   \* what quotes say
  People,  \* who adds them
  MaxId    \* bound: ids given

ASSUME IdAssumption == MaxId \in Nat
ASSUME PeopleAssumption == "nobody" \notin People

VARIABLES
  quotes,   \* the table: for each id a row or NoRow
  seq,      \* the largest id ever given (AUTOINCREMENT's sqlite_sequence)
  shared,   \* does a statement that was not finalized hold a shared lock?
  outside,  \* the other process: "idle", or "reserved" in a transaction
  pc,       \* the next statement of a command, or "idle"
  params,   \* what !quote is asked for: an id (0 for none) and a pattern
  id,       \* the id a command works with
  author,   \* what GetAuthor returned
  said,     \* the answer to the last command
  credited, \* whom it names
  named,    \* history: has GetAuthor returned a name since the bot started?
  moved,    \* history: has the other process written since the command began?
  failed    \* history: has a statement of the command failed?

table   == <<quotes, seq>>
command == <<params, id, author>>
reply   == <<said, credited>>
vars    == <<table, shared, outside, pc, command, reply, named, moved, failed>>

Ids     == 1..MaxId
Row     == [text : Texts, by : People]
NoRow   == [text |-> "none", by |-> "nobody"]
NoParams == [id |-> 0, texts |-> {}]

Taken == {i \in Ids : quotes[i] # NoRow}

Init ==
  /\ quotes = [i \in Ids |-> NoRow] /\ seq = 0
  /\ shared = FALSE /\ outside = "idle"
  /\ pc = "idle" /\ params = NoParams /\ id = 0 /\ author = "nobody"
  /\ said = "nothing" /\ credited = "nobody"
  /\ named = FALSE /\ moved = FALSE /\ failed = FALSE

\* A command begins with its first statement, or goes on with its next one,
\* and the statement works (ok) or fails.
Begin(ok) == pc = "idle" /\ moved' = FALSE /\ failed' = ~ok
At(p, ok) == pc = p /\ UNCHANGED moved /\ failed' = (failed \/ ~ok)

\* It goes on at a statement, or it has answered.
GoOn(next) == pc' = next /\ said' = "nothing" /\ UNCHANGED credited
Name(text, whom) == pc' = "idle" /\ said' = text /\ credited' = whom
Answer(text)     == Name(text, "nobody")

-----------------------------------------------------------------------------
(***************************************************************************)
(* QuotesDB                                                                *)
(***************************************************************************)
CanWrite == outside # "reserved"

\* Bug: without AUTOINCREMENT, an id is one more than the largest there is.
InsertReusing(row) ==
  \E i \in Ids :
    /\ i \notin Taken /\ \A j \in Ids : j >= i => j \notin Taken
    /\ i = 1 \/ i - 1 \in Taken
    /\ quotes' = [quotes EXCEPT ![i] = row]
    /\ seq' = IF i > seq THEN i ELSE seq

\* INSERT with the id NULL.
Insert(row) ==
  /\ seq < MaxId
  /\ seq' = seq + 1
  /\ quotes' = [quotes EXCEPT ![seq + 1] = row]

Delete(i) == quotes' = [quotes EXCEPT ![i] = NoRow] /\ UNCHANGED seq

QuoteExists(i, ok) == ok /\ i \in Taken

\* A copy of the quote, or NULL.
GetQuoteByID(i, ok) == IF QuoteExists(i, ok) THEN quotes[i] ELSE NoRow

\* Bug: GetIDByPattern forgets its WHERE.
MatchesAny(p) == Taken
Matches(p) == {i \in Taken : quotes[i].text \in p}

\* It found a row, has not ended, and is not finalized.
KeepLock == shared' = TRUE

-----------------------------------------------------------------------------
(***************************************************************************)
(* !addquote                                                               *)
(***************************************************************************)
AddQuote(who, text, ok) ==
  /\ Begin(ok)
  /\ \/ ok /\ CanWrite /\ Insert([text |-> text, by |-> who]) /\ Answer("added")
     \/ ~ok /\ UNCHANGED table /\ Answer("not added")
  /\ UNCHANGED <<shared, outside, command, named>>

-----------------------------------------------------------------------------
(***************************************************************************)
(* !removequote #n: GetAuthor, then Remove, which asks QuoteExists first   *)
(***************************************************************************)
GetAuthor(n, ok) ==
  /\ Begin(ok)
  /\ IF QuoteExists(n, ok)
     THEN /\ id' = n /\ author' = quotes[n].by
          /\ KeepLock /\ named' = TRUE
          /\ GoOn("exists")
     ELSE Answer("no such quote") /\ UNCHANGED <<id, author, shared, named>>
  /\ UNCHANGED <<table, outside, params>>

RemoveExists(ok) ==
  /\ At("exists", ok)
  /\ IF QuoteExists(id, ok) THEN GoOn("delete") ELSE Answer("terrible")
  /\ UNCHANGED <<table, shared, outside, command, named>>

Removed == Name("removed", author)

\* Bug: the result of the DELETE is not looked at.
RemoveBlindly(ok) ==
  /\ At("delete", ok)
  /\ \/ ok /\ CanWrite /\ Delete(id)
     \/ ~ok /\ UNCHANGED table
  /\ Removed
  /\ UNCHANGED <<shared, outside, command, named>>

\* Bug: a DELETE that is done is taken for one that found no row.
RemoveExpectingRow(ok) ==
  /\ At("delete", ok)
  /\ \/ ok /\ CanWrite /\ Delete(id)
     \/ ~ok /\ UNCHANGED table
  /\ Answer("terrible")
  /\ UNCHANGED <<shared, outside, command, named>>

Remove(ok) ==
  /\ At("delete", ok)
  /\ \/ ok /\ CanWrite /\ Delete(id) /\ Removed
     \/ ~ok /\ UNCHANGED table /\ Answer("terrible")
  /\ UNCHANGED <<shared, outside, command, named>>

-----------------------------------------------------------------------------
(***************************************************************************)
(* !quote: an id is found, and the quote with that id is looked up         *)
(***************************************************************************)
\* Bug: a number is taken for the id of a quote without looking.
NumberedUnseen(n, p, ok) ==
  /\ Begin(ok)
  /\ params' = [id |-> n, texts |-> p]
  /\ id' = n /\ GoOn("show")
  /\ UNCHANGED <<table, shared, outside, author, named>>

\* With #n somewhere in the parameters: GetByID, and else all of them are a
\* pattern.
Numbered(n, p, ok) ==
  /\ Begin(ok)
  /\ params' = [id |-> n, texts |-> p]
  /\ IF GetQuoteByID(n, ok) # NoRow THEN id' = n /\ GoOn("show")
                                    ELSE UNCHANGED id /\ GoOn("pattern")
  /\ UNCHANGED <<table, shared, outside, author, named>>

\* Other parameters, or the name of the caller for "me".  Without any they are
\* the empty string, never nil, and a pattern that is in every text: the call
\* of GetRandomID is not reached.
Pattern(p) ==
  /\ Begin(TRUE)
  /\ params' = [id |-> 0, texts |-> p]
  /\ GoOn("pattern")
  /\ UNCHANGED <<table, shared, outside, id, author, named>>

GetIDByPattern(ok) ==
  /\ At("pattern", ok)
  /\ IF ~ok \/ Matches(params.texts) = {}
     THEN Answer("not found") /\ UNCHANGED id
     ELSE id' \in Matches(params.texts) /\ GoOn("show")
  /\ UNCHANGED <<table, shared, outside, params, author, named>>

\* A quote that is not found is nil, and its concatenation an error in the
\* script: nothing is answered.
Show(ok) ==
  /\ At("show", ok)
  /\ Answer(IF GetQuoteByID(id, ok) # NoRow THEN "quote" ELSE "error")
  /\ UNCHANGED <<table, shared, outside, command, named>>

-----------------------------------------------------------------------------
(***************************************************************************)
(* The other process, and the end and start of the bot                     *)
(***************************************************************************)
OutsideBegin ==
  /\ outside = "idle"
  /\ outside' = "reserved"
  /\ UNCHANGED <<table, shared, pc, command, reply, named, moved, failed>>

\* It adds, deletes or edits a quote: the commit needs that nobody reads.
OutsideCommit ==
  /\ outside = "reserved" /\ ~shared
  /\ outside' = "idle" /\ moved' = TRUE
  /\ \/ \E row \in Row : Insert(row)
     \/ \E i \in Taken : Delete(i)
     \/ \E i \in Taken, row \in Row : quotes' = [quotes EXCEPT ![i] = row] /\ UNCHANGED seq
  /\ UNCHANGED <<shared, pc, command, reply, named, failed>>

OutsideRollback ==
  /\ outside = "reserved"
  /\ outside' = "idle"
  /\ UNCHANGED <<table, shared, pc, command, reply, named, moved, failed>>

Restart ==
  /\ shared' = FALSE /\ named' = FALSE
  /\ Answer("nothing")
  /\ UNCHANGED <<table, outside, command, moved, failed>>

-----------------------------------------------------------------------------
Add     == \E who \in People, text \in Texts, ok \in BOOLEAN : AddQuote(who, text, ok)
Removal == \E ok \in BOOLEAN :
             (\E n \in Ids : GetAuthor(n, ok)) \/ RemoveExists(ok) \/ Remove(ok)
Quote   == \/ \E p \in SUBSET Texts :
                Pattern(p) \/ \E n \in Ids, ok \in BOOLEAN : Numbered(n, p, ok)
           \/ \E ok \in BOOLEAN : GetIDByPattern(ok) \/ Show(ok)
Outside == OutsideBegin \/ OutsideCommit \/ OutsideRollback

Next == Add \/ Removal \/ Quote \/ Outside \/ Restart

Spec == Init /\ [][Next]_vars

-----------------------------------------------------------------------------
TableOK ==
  /\ quotes \in [Ids -> Row \cup {NoRow}]
  /\ seq \in 0..MaxId
  /\ \A i \in Taken : i <= seq

\* The table and what a command keeps of it have their types, and no row has
\* an id that was not given.
TypeOK ==
  /\ TableOK
  /\ shared \in BOOLEAN /\ outside \in {"idle", "reserved"}
  /\ pc \in {"idle", "exists", "delete", "pattern", "show"}
  /\ params \in [id : Ids \cup {0}, texts : SUBSET Texts]
  /\ id \in Ids \cup {0} /\ {author, credited} \subseteq People \cup {"nobody"}
  /\ named \in BOOLEAN /\ moved \in BOOLEAN /\ failed \in BOOLEAN

\* Between the statements of !quote the id is still that of a quote that was
\* asked for, unless another process has written since: its number was named
\* or its text matches, and it is the numbered one if that exists and no
\* statement failed.
FoundIsWanted ==
  pc = "show" /\ ~moved =>
    /\ id \in Taken
    /\ id = params.id \/ quotes[id].text \in params.texts
    /\ params.id \in Taken /\ ~failed => id = params.id

\* !quote fails in the script, and leaves its caller without an answer, only
\* when another process has written while it ran or a statement of it failed:
\* what it was asked for never does that.
ErrorsComeFromOutside == said = "error" => moved \/ failed

\* "removed. It was added by ...": that quote was there, was added by that
\* person and is gone, although it was read two statements before.
NamesTheAdder ==
  [][pc = "delete" /\ said' = "removed" =>
       /\ id \in Taken /\ quotes[id].by = credited'
       /\ quotes'[id] = NoRow]_vars

\* "Quote NOT removed! Something terrible has happened": a statement failed,
\* and not because somebody was quicker; the quote is still there.
NotRemovedMeansFailed ==
  [][said' = "terrible" /\ said # "terrible" =>
       failed' /\ id \in Taken /\ quotes' = quotes]_vars

\* The id of a quote that was removed is never the id of another one.
IdsAreNotReused ==
  [][\A i \in Ids : i <= seq /\ quotes[i] = NoRow => quotes'[i] = NoRow]_vars
=============================================================================
