--------------------------- MODULE LocalStateStore ---------------------------
(***************************************************************************)
(* The two tables of one namespace of the local state store (storage/      *)
(* local_state_store.py), and the threads that use it through one or more  *)
(* LocalStateStore objects, of one or more processes.                      *)
(*                                                                         *)
(* An operation takes its timestamp, waits for the lock of its object and  *)
(* for SQLite's, and commits; its answer may be lost with its process.     *)
(* WAL with synchronous=NORMAL: a process that dies loses nothing that was *)
(* committed, a loss of power any suffix of it since the last checkpoint.  *)
(***************************************************************************)
EXTENDS Naturals, Sequences

CONSTANTS
  User,      \* the threads
  Store,     \* the LocalStateStore objects
  StoreOf,   \* the one each thread uses
  Key,       \* record keys, and state keys
  MaxClock,  \* bound: ticks
  MaxOps,    \* bound: transactions committed between two checkpoints
  MaxLosses  \* bound: losses of power

ASSUME StoreAssumption ==
  /\ StoreOf \in [User -> Store]
  /\ MaxClock \in Nat /\ MaxOps \in Nat /\ MaxLosses \in Nat

VARIABLES
  log,       \* what the tables were since the last checkpoint, the last is what they are
  pending,   \* what each thread waits to commit
  closed,    \* the objects that are closed
  clock,
  told,      \* history: operations that found each key new since it was last removed
  lost,      \* history: keys whose row a loss of power has taken
  losses

storeVars == <<log, pending, closed, clock, told, lost, losses>>

NoRow == [first |-> "none"]
Seen == [first : Nat, last : Nat]
\* seen_records, and the keys of state_values, whose content nothing depends on
Tables == [seen : [Key -> Seen \union {NoRow}], values : SUBSET Key]

NoOp == [name |-> "none"]
Operation(Times) ==
  [name : {"mark_seen"}, key : Key, now : Times]
    \union [name : {"forget_seen", "put", "delete"}, key : Key]
    \union [name : {"clear_namespace"}]

tables == log[Len(log)]
IsSeen(k) == tables.seen[k] # NoRow

StoreTypeOK ==
  /\ log \in Seq(Tables) /\ log # <<>>
  /\ pending \in [User -> Operation(Nat) \union {NoOp}]
  /\ closed \subseteq Store /\ clock \in Nat
  /\ told \in [Key -> Nat] /\ lost \subseteq Key /\ losses \in Nat

StoreInit ==
  /\ log = << [seen |-> [k \in Key |-> NoRow], values |-> {}] >>
  /\ pending = [u \in User |-> NoOp]
  /\ closed = {} /\ clock = 0
  /\ told = [k \in Key |-> 0] /\ lost = {} /\ losses = 0

\* The timestamp is taken before the lock of the object.
Call(u) ==
  /\ pending[u] = NoOp
  /\ StoreOf[u] \notin closed
  /\ \E operation \in Operation({clock}) : pending' = [pending EXCEPT ![u] = operation]
  /\ UNCHANGED <<log, closed, clock, told, lost, losses>>

\* _connection: under the lock the object is open, and the commit comes
\* before the answer.
Commits(u, new) ==
  /\ StoreOf[u] \notin closed
  /\ Len(log) <= MaxOps
  /\ log' = Append(log, new)
  /\ pending' = [pending EXCEPT ![u] = NoOp]
  /\ UNCHANGED <<closed, clock, lost, losses>>

Is(u, name) == pending[u].name = name

\* As MarkSeen, taking a row first seen at this very time for its own
MarkSeenByTime(u) ==
  LET k == pending[u].key  now == pending[u].now IN
  /\ Is(u, "mark_seen")
  /\ Commits(u, [tables EXCEPT !.seen[k] =
                   [first |-> IF IsSeen(k) THEN @.first ELSE now, last |-> now]])
  /\ told' = [told EXCEPT ![k] = IF ~IsSeen(k) \/ tables.seen[k].first = now THEN @ + 1 ELSE @]

\* INSERT OR IGNORE tells the key is new; otherwise an UPDATE follows.
MarkSeen(u) ==
  LET k == pending[u].key  now == pending[u].now IN
  /\ Is(u, "mark_seen")
  /\ Commits(u, [tables EXCEPT !.seen[k] =
                   [first |-> IF IsSeen(k) THEN @.first ELSE now, last |-> now]])
  /\ told' = [told EXCEPT ![k] = IF IsSeen(k) THEN @ ELSE @ + 1]

ForgetSeen(u) ==
  LET k == pending[u].key IN
  /\ Is(u, "forget_seen")
  /\ Commits(u, [tables EXCEPT !.seen[k] = NoRow])
  /\ told' = [told EXCEPT ![k] = 0]

\* An upsert
Put(u) ==
  /\ Is(u, "put")
  /\ Commits(u, [tables EXCEPT !.values = @ \union {pending[u].key}])
  /\ UNCHANGED told

Delete(u) ==
  /\ Is(u, "delete")
  /\ Commits(u, [tables EXCEPT !.values = @ \ {pending[u].key}])
  /\ UNCHANGED told

\* Both tables, in one transaction
ClearNamespace(u) ==
  /\ Is(u, "clear_namespace")
  /\ Commits(u, [seen |-> [k \in Key |-> NoRow], values |-> {}])
  /\ told' = [k \in Key |-> 0]

\* The database is busy for too long or fails, the object was closed in the
\* meantime, or the process dies: the transaction is rolled back.
Fail(u) ==
  /\ pending[u] # NoOp
  /\ pending' = [pending EXCEPT ![u] = NoOp]
  /\ UNCHANGED <<log, closed, clock, told, lost, losses>>

\* close waits for the lock of the object.
CloseStore(s) ==
  /\ closed' = closed \union {s}
  /\ UNCHANGED <<log, pending, clock, told, lost, losses>>

\* The processes start anew with objects of their own.
Reopen(s) ==
  /\ \A u \in User : StoreOf[u] = s => pending[u] = NoOp
  /\ closed' = closed \ {s}
  /\ UNCHANGED <<log, pending, clock, told, lost, losses>>

\* As Checkpoint, emptying the log before it is copied
CheckpointTooSoon ==
  /\ Len(log) > 1
  /\ log' = <<>>
  /\ UNCHANGED <<pending, closed, clock, told, lost, losses>>

Checkpoint ==
  /\ Len(log) > 1
  /\ log' = <<tables>>
  /\ UNCHANGED <<pending, closed, clock, told, lost, losses>>

StorePowerLoss ==
  /\ losses < MaxLosses
  /\ losses' = losses + 1
  /\ \E n \in 1..Len(log) :
       /\ log' = <<log[n]>>
       /\ lost' = lost \union {k \in Key : log[n].seen[k] # tables.seen[k]}
  /\ pending' = [u \in User |-> NoOp]
  /\ closed' = {}
  /\ UNCHANGED <<clock, told>>

StoreTick ==
  /\ clock < MaxClock
  /\ clock' = clock + 1
  /\ UNCHANGED <<log, pending, closed, told, lost, losses>>

StoreNext ==
  \/ \E u \in User :
       \/ Call(u) \/ Fail(u)
       \/ MarkSeen(u) \/ ForgetSeen(u) \/ Put(u) \/ Delete(u) \/ ClearNamespace(u)
  \/ \E s \in Store : CloseStore(s) \/ Reopen(s)
  \/ Checkpoint \/ StorePowerLoss \/ StoreTick

StoreSpec == StoreInit /\ [][StoreNext]_storeVars

-----------------------------------------------------------------------------
(* Properties *)

(***************************************************************************)
(* Of all that mark a key, in whatever threads and processes, exactly one  *)
(* is told that it is new until the key is forgotten, as long as no loss   *)
(* of power takes the row back.                                            *)
(***************************************************************************)
ToldNewOnce == \A k \in Key : k \in lost \/ told[k] = IF IsSeen(k) THEN 1 ELSE 0
=============================================================================
