------------------------ MODULE SQLiteDeadLetterQueue ------------------------
(***************************************************************************)
(* The table of one durable dead-letter queue, and the objects of several  *)
(* processes over it (SQLiteDeadLetterQueue, events/sqlite_dead_letter.py).*)
(*                                                                         *)
(* store and remove are transactions of several statements.  A step is one *)
(* statement: the object's own lock is held between them, SQLite's write   *)
(* lock from BEGIN IMMEDIATE on.  An sqlite3.Error of a statement rolls    *)
(* back; nothing does when COMMIT fails, or when a statement raises        *)
(* anything else (a text that cannot be encoded, a number too large, an    *)
(* interrupt).                                                             *)
(***************************************************************************)
EXTENDS Naturals, Sequences, SequencesExt

CONSTANTS
  Connection,  \* the SQLiteDeadLetterQueue objects
  Letter,      \* dead_letter_ids
  MaxLetters,  \* bound: letters stored
  MaxTrouble   \* bound: statements that fail, processes that die

ASSUME DeadLetterAssumption == MaxLetters \in Nat /\ MaxTrouble \in Nat

VARIABLES
  letters,     \* the committed rows, by sequence_id
  last_letter, \* the AUTOINCREMENT counter
  writer,      \* the object that holds SQLite's write lock, if any
  tentative,   \* the rows as the writer sees them
  calling,     \* the call each object is in
  dlq_closed,  \* the objects that are closed
  stored,      \* history: rows whose store has returned
  removed,     \* history: rows a committed remove has taken
  handed,      \* history: how often a remove has returned each row
  trouble

letterHistory == <<stored, removed, handed>>
letterVars == <<letters, last_letter, writer, tentative, calling, dlq_closed, letterHistory, trouble>>

LetterRow == [id : Letter, number : 1..MaxLetters]
Calling == [at : {"begun", "selected", "written", "committed"}, name : {"store", "remove"},
            id : Letter, number : 0..MaxLetters]
NoCalling == [at |-> "none"]

DeadLetterTypeOK ==
  /\ letters \in Seq(LetterRow) /\ last_letter \in 0..MaxLetters
  /\ writer \subseteq Connection /\ tentative \in Seq(LetterRow)
  /\ calling \in [Connection -> Calling \union {NoCalling}]
  /\ dlq_closed \subseteq Connection
  /\ stored \subseteq 1..MaxLetters /\ removed \subseteq 1..MaxLetters
  /\ handed \in [1..MaxLetters -> Nat] /\ trouble \in Nat

DeadLetterInit ==
  /\ letters = <<>> /\ last_letter = 0 /\ writer = {} /\ tentative = <<>>
  /\ calling = [c \in Connection |-> NoCalling] /\ dlq_closed = {}
  /\ stored = {} /\ removed = {} /\ handed = [n \in 1..MaxLetters |-> 0]
  /\ trouble = 0

Numbers(rows) == {rows[i].number : i \in DOMAIN rows}
HasId(rows, l) == \E i \in DOMAIN rows : rows[i].id = l
NumberOf(rows, l) == (CHOOSE row \in {rows[i] : i \in DOMAIN rows} : row.id = l).number

CAt(c, at) == calling[c].at = at
Further(c, at) == calling' = [calling EXCEPT ![c].at = at]
EndCall(c) == calling' = [calling EXCEPT ![c] = NoCalling]

-----------------------------------------------------------------------------
(* store and remove.  A call that finds the object closed or the database  *)
(* locked for too long changes nothing.                                    *)

\* As BeginLetter, with a BEGIN that takes no lock
BeginDeferred(c, name, l) ==
  /\ CAt(c, "none") /\ c \notin dlq_closed
  /\ name = "store" => last_letter < MaxLetters
  /\ calling' = [calling EXCEPT ![c] = [at |-> "begun", name |-> name, id |-> l, number |-> 0]]
  /\ writer' = {c}
  /\ tentative' = letters
  /\ UNCHANGED <<letters, last_letter, dlq_closed, letterHistory, trouble>>

\* BEGIN IMMEDIATE.  It fails inside a transaction of the object's own, too.
BeginLetter(c, name, l) ==
  /\ CAt(c, "none") /\ c \notin dlq_closed
  /\ name = "store" => last_letter < MaxLetters
  /\ writer = {}
  /\ calling' = [calling EXCEPT ![c] = [at |-> "begun", name |-> name, id |-> l, number |-> 0]]
  /\ writer' = {c}
  /\ tentative' = letters
  /\ UNCHANGED <<letters, last_letter, dlq_closed, letterHistory, trouble>>

\* As InsertLetter, counting a letter twice
InsertCountedTwice(c) ==
  LET l == calling[c].id IN
  /\ CAt(c, "begun") /\ calling[c].name = "store"
  /\ ~HasId(tentative, l)
  /\ tentative' = Append(tentative, [id |-> l, number |-> last_letter + 2])
  /\ calling' = [calling EXCEPT ![c].at = "written", ![c].number = last_letter + 2]
  /\ UNCHANGED <<letters, last_letter, writer, dlq_closed, letterHistory, trouble>>

InsertLetter(c) ==
  LET l == calling[c].id IN
  /\ CAt(c, "begun") /\ calling[c].name = "store"
  /\ ~HasId(tentative, l)
  /\ tentative' = Append(tentative, [id |-> l, number |-> last_letter + 1])
  /\ calling' = [calling EXCEPT ![c].at = "written", ![c].number = last_letter + 1]
  /\ UNCHANGED <<letters, last_letter, writer, dlq_closed, letterHistory, trouble>>

SelectLetter(c) ==
  LET l == calling[c].id IN
  /\ CAt(c, "begun") /\ calling[c].name = "remove"
  /\ HasId(tentative, l)
  /\ calling' = [calling EXCEPT ![c].at = "selected", ![c].number = NumberOf(tentative, l)]
  /\ UNCHANGED <<letters, last_letter, writer, tentative, dlq_closed, letterHistory, trouble>>

DeleteLetter(c) ==
  /\ CAt(c, "selected") /\ Further(c, "written")
  /\ \E i \in DOMAIN tentative :
       tentative[i].id = calling[c].id /\ tentative' = RemoveAt(tentative, i)
  /\ UNCHANGED <<letters, last_letter, writer, dlq_closed, letterHistory, trouble>>

CommitLetter(c) ==
  /\ CAt(c, "written") /\ Further(c, "committed")
  /\ letters' = tentative
  /\ writer' = writer \ {c}
  /\ last_letter' = IF calling[c].name = "store" THEN calling[c].number ELSE last_letter
  /\ removed' = IF calling[c].name = "remove" THEN removed \union {calling[c].number} ELSE removed
  /\ UNCHANGED <<tentative, dlq_closed, stored, handed, trouble>>

\* The caller has the record.
ReturnLetter(c) ==
  LET n == calling[c].number IN
  /\ CAt(c, "committed") /\ EndCall(c)
  /\ IF calling[c].name = "store"
     THEN stored' = stored \union {n} /\ UNCHANGED handed
     ELSE handed' = [handed EXCEPT ![n] = @ + 1] /\ UNCHANGED stored
  /\ UNCHANGED <<letters, last_letter, writer, tentative, dlq_closed, removed, trouble>>

\* remove decodes the row after the COMMIT: one that cannot be decoded is taken
\* and handed to nobody.
LetterUnreadable(c) ==
  /\ CAt(c, "committed") /\ calling[c].name = "remove" /\ EndCall(c)
  /\ UNCHANGED <<letters, last_letter, writer, tentative, dlq_closed, letterHistory, trouble>>

\* ROLLBACK: the id is taken, or there is none such
RollBack(c) ==
  /\ CAt(c, "begun")
  /\ (calling[c].name = "store") = HasId(tentative, calling[c].id)
  /\ EndCall(c)
  /\ writer' = writer \ {c}
  /\ UNCHANGED <<letters, last_letter, tentative, dlq_closed, letterHistory, trouble>>

Troubled == trouble < MaxTrouble /\ trouble' = trouble + 1

\* As TransactionLeftOpen, rolling back whatever is raised
RolledBackAnyhow(c) ==
  /\ calling[c].at \in {"begun", "selected", "written"}
  /\ Troubled /\ EndCall(c)
  /\ writer' = writer \ {c}
  /\ UNCHANGED <<letters, last_letter, tentative, dlq_closed, letterHistory>>

\* What is not rolled back: the caller sees an error, the object can be
\* called again, and its transaction goes on.
TransactionLeftOpen(c) ==
  /\ calling[c].at \in {"begun", "selected", "written"}
  /\ Troubled /\ EndCall(c)
  /\ UNCHANGED <<letters, last_letter, writer, tentative, dlq_closed, letterHistory>>

\* An sqlite3.Error of a statement, or of a COMMIT that SQLite undid itself
StatementFails(c) ==
  /\ calling[c].at \in {"begun", "selected", "written"}
  /\ Troubled /\ EndCall(c)
  /\ writer' = writer \ {c}
  /\ UNCHANGED <<letters, last_letter, tentative, dlq_closed, letterHistory>>

-----------------------------------------------------------------------------
\* close, and the death of the process: SQLite forgets the transaction.
CloseQueue(c) ==
  /\ CAt(c, "none")
  /\ dlq_closed' = dlq_closed \union {c}
  /\ writer' = writer \ {c}
  /\ UNCHANGED <<letters, last_letter, tentative, calling, letterHistory, trouble>>

ProcessDies(c) ==
  /\ Troubled
  /\ dlq_closed' = dlq_closed \union {c}
  /\ writer' = writer \ {c}
  /\ EndCall(c)
  /\ UNCHANGED <<letters, last_letter, tentative, letterHistory>>

\* A new object, perhaps in a new process
OpenQueue(c) ==
  /\ c \in dlq_closed
  /\ dlq_closed' = dlq_closed \ {c}
  /\ UNCHANGED <<letters, last_letter, writer, tentative, calling, letterHistory, trouble>>

DeadLetterNext ==
  \E c \in Connection :
    \/ \E name \in {"store", "remove"}, l \in Letter : BeginLetter(c, name, l)
    \/ InsertLetter(c) \/ SelectLetter(c) \/ DeleteLetter(c) \/ CommitLetter(c) \/ ReturnLetter(c)
    \/ LetterUnreadable(c) \/ RollBack(c) \/ TransactionLeftOpen(c) \/ StatementFails(c)
    \/ CloseQueue(c) \/ ProcessDies(c) \/ OpenQueue(c)

DeadLetterSpec == DeadLetterInit /\ [][DeadLetterNext]_letterVars

-----------------------------------------------------------------------------
(* Properties *)

DurableQueue == INSTANCE DeadLetterQueueProtocol WITH
  held <- [i \in DOMAIN letters |-> letters[i].id]

(***************************************************************************)
(* Whatever fails or dies in the middle of a call, and whoever stores and  *)
(* removes at the same time, the table is what the protocol promises.      *)
(***************************************************************************)
DurableKeepsLetters == DurableQueue!HeldSpec

(***************************************************************************)
(* A letter whose store has returned is in the table until a remove has    *)
(* taken it, for good, and at most one caller was handed it.               *)
(***************************************************************************)
StoredUntilRemoved ==
  /\ stored \subseteq Numbers(letters) \union removed
  /\ Numbers(letters) \intersect removed = {}
  /\ \A n \in 1..MaxLetters : handed[n] <= IF n \in removed THEN 1 ELSE 0

(***************************************************************************)
(* Several objects can use one queue ("multiple SQLiteDeadLetterQueue      *)
(* instance desteği", sqlite_dead_letter.py:25): between its calls an      *)
(* object keeps no write lock that would shut the others out.              *)
(***************************************************************************)
NoLockBetweenCalls == \A c \in writer : calling[c] # NoCalling
=============================================================================
