------------------------------ MODULE FileStore ------------------------------
(***************************************************************************)
(* One target file, and the writers that replace it (AtomicFileWriter,     *)
(* storage/atomic.py, called through StorageManager and LocalStorage),     *)
(* download to it (Downloader, core/downloader.py) and delete it.          *)
(*                                                                         *)
(* A step is one call of the operating system.  What the target's directory*)
(* holds after a power loss is any of the entries it had since it was last *)
(* synced; a file that was not synced is then torn.                        *)
(***************************************************************************)
EXTENDS Naturals

CONSTANTS
  Writer,      \* the threads and processes that use the target
  MaxChanges,  \* bound: changes of the target
  MaxFaults    \* bound: processes killed, and losses of power

ASSUME FileAssumption == MaxChanges \in Nat /\ MaxFaults \in Nat

VARIABLES
  target,      \* the directory entry of the target: its number, and its file
  maybe,       \* the entries a power loss may leave
  acked,       \* the last entry whose writer returned after syncing the directory
  temp,        \* the temporary file of each writer
  abandoned,   \* the writers whose temporary file stays behind
  op,          \* what each writer is doing
  manager_open,\* StorageManager._closed, negated
  file_faults

fileVars == <<target, maybe, acked, temp, abandoned, op, manager_open, file_faults>>

\* write: AtomicFileWriter; download: without, verified: with expected_sha256
Kind == {"write", "download", "verified"}

File == [origin : Kind, whole : BOOLEAN, durable : BOOLEAN]
NoFile == [origin |-> "none"]
Entry == [change : Nat, file : File \union {NoFile}]

Phase == {"creating", "filling", "filled", "synced", "rechecked", "replaced", "deleting"}
Op == [phase : Phase, kind : Kind, overwrite : BOOLEAN, mark : Nat]
Idle == [phase |-> "idle"]

FileTypeOK ==
  /\ target \in Entry /\ maybe \subseteq Entry /\ acked \in Nat
  /\ temp \in [Writer -> File \union {NoFile}] /\ abandoned \subseteq Writer
  /\ op \in [Writer -> Op \union {Idle}]
  /\ manager_open \in BOOLEAN /\ file_faults \in Nat

FileInit ==
  /\ target = [change |-> 0, file |-> NoFile] /\ maybe = {target} /\ acked = 0
  /\ temp = [w \in Writer |-> NoFile] /\ abandoned = {}
  /\ op = [w \in Writer |-> Idle]
  /\ manager_open = TRUE /\ file_faults = 0

Exists == target.file # NoFile
At(w, phase) == op[w].phase = phase
Go(w, phase) == op' = [op EXCEPT ![w].phase = phase]
\* As Done, keeping what the operation was about
DoneInPart(w) == Go(w, "idle")

Done(w) == op' = [op EXCEPT ![w] = Idle]

-----------------------------------------------------------------------------
(* write_bytes and download, which differ in the payload, the digest and   *)
(* the fsync of the directory.                                             *)

Begin(w, kind, overwrite) ==
  /\ At(w, "idle") /\ target.change < MaxChanges
  /\ overwrite \/ ~Exists
  /\ op' = [op EXCEPT ![w] =
              [phase |-> "creating", kind |-> kind, overwrite |-> overwrite, mark |-> 0]]
  /\ UNCHANGED <<target, maybe, acked, temp, abandoned, manager_open, file_faults>>

\* The façade looks at _closed once, and not under its lock.
BeginWrite(w) ==
  /\ manager_open
  /\ \E overwrite \in BOOLEAN : Begin(w, "write", overwrite)

\* The stop request is asked for too, and the response has been asked for.
BeginDownload(w) ==
  \E kind \in Kind \ {"write"}, overwrite \in BOOLEAN : Begin(w, kind, overwrite)

\* NamedTemporaryFile(delete=False), next to the target; a file an earlier
\* operation left there is not followed any further.
CreateTemp(w) ==
  /\ At(w, "creating") /\ Go(w, "filling")
  /\ temp' = [temp EXCEPT ![w] = [origin |-> op[w].kind, whole |-> FALSE, durable |-> FALSE]]
  /\ abandoned' = abandoned \ {w}
  /\ UNCHANGED <<target, maybe, acked, manager_open, file_faults>>

\* The payload is in the file.
WritePayload(w) ==
  /\ At(w, "filling") /\ Go(w, "filled") /\ op[w].kind = "write"
  /\ temp' = [temp EXCEPT ![w].whole = TRUE]
  /\ UNCHANGED <<target, maybe, acked, abandoned, manager_open, file_faults>>

\* What the connection delivered of the response is in the file: the end of
\* iter_content is taken for the end of the payload.
ReceivePayload(w) ==
  /\ At(w, "filling") /\ Go(w, "filled") /\ op[w].kind # "write"
  /\ \E whole \in BOOLEAN : temp' = [temp EXCEPT ![w].whole = whole]
  /\ UNCHANGED <<target, maybe, acked, abandoned, manager_open, file_faults>>

\* As SyncTemp, forgetting the fsync of the file
FlushTemp(w) ==
  /\ At(w, "filled")
  /\ op' = [op EXCEPT ![w].phase = "synced", ![w].mark = target.change]
  /\ UNCHANGED <<target, maybe, acked, temp, abandoned, manager_open, file_faults>>

SyncTemp(w) ==
  /\ At(w, "filled")
  /\ op' = [op EXCEPT ![w].phase = "synced", ![w].mark = target.change]
  /\ temp' = [temp EXCEPT ![w].durable = TRUE]
  /\ UNCHANGED <<target, maybe, acked, abandoned, manager_open, file_faults>>

\* As Recheck, trusting the first look at the target
RecheckDigest(w) ==
  /\ At(w, "synced") /\ Go(w, "rechecked")
  /\ op[w].kind = "verified" => temp[w].whole
  /\ UNCHANGED <<target, maybe, acked, temp, abandoned, manager_open, file_faults>>

\* The digest, and the second look at the target
Recheck(w) ==
  /\ At(w, "synced") /\ Go(w, "rechecked")
  /\ op[w].kind = "verified" => temp[w].whole
  /\ op[w].overwrite \/ ~Exists
  /\ UNCHANGED <<target, maybe, acked, temp, abandoned, manager_open, file_faults>>

\* os.replace
Replace(w) ==
  LET entry == [change |-> target.change + 1, file |-> temp[w]] IN
  /\ At(w, "rechecked")
  /\ target' = entry
  /\ maybe' = maybe \union {entry}
  /\ temp' = [temp EXCEPT ![w] = NoFile]
  /\ op' = [op EXCEPT ![w].phase = "replaced", ![w].mark = entry.change]
  /\ UNCHANGED <<acked, abandoned, manager_open, file_faults>>

\* As SyncDirectory, without the fsync
ReturnUnsynced(w) ==
  /\ At(w, "replaced") /\ op[w].kind = "write" /\ Done(w)
  /\ acked' = IF op[w].mark > acked THEN op[w].mark ELSE acked
  /\ UNCHANGED <<target, maybe, temp, abandoned, manager_open, file_faults>>

\* _fsync_directory, and the end of write_bytes
SyncDirectory(w) ==
  /\ At(w, "replaced") /\ op[w].kind = "write" /\ Done(w)
  /\ maybe' = {target}
  /\ acked' = IF op[w].mark > acked THEN op[w].mark ELSE acked
  /\ UNCHANGED <<target, temp, abandoned, manager_open, file_faults>>

\* The fsync of the directory fails, of which the caller hears nothing, or
\* there is none in a download.
ReturnAnyhow(w) ==
  /\ At(w, "replaced") /\ Done(w)
  /\ UNCHANGED <<target, maybe, acked, temp, abandoned, manager_open, file_faults>>

Failing == {"creating", "filling", "filled", "synced", "rechecked"}

\* As FailClean, without the finally
FailAtOnce(w) ==
  /\ op[w].phase \in Failing /\ Done(w)
  /\ UNCHANGED <<target, maybe, acked, temp, abandoned, manager_open, file_faults>>

\* Any call, any check or the stop request may end the operation before
\* os.replace has; the temporary file is unlinked then.
FailClean(w) ==
  /\ op[w].phase \in Failing /\ Done(w)
  /\ temp' = [temp EXCEPT ![w] = NoFile]
  /\ UNCHANGED <<target, maybe, acked, abandoned, manager_open, file_faults>>

\* unlink raises an OSError that is passed over.
FailUnclean(w) ==
  /\ op[w].phase \in Failing /\ temp[w] # NoFile /\ Done(w)
  /\ abandoned' = abandoned \union {w}
  /\ UNCHANGED <<target, maybe, acked, temp, manager_open, file_faults>>

-----------------------------------------------------------------------------
(* LocalStorage.delete, and StorageManager.close                           *)

DeleteAsk(w) ==
  /\ At(w, "idle") /\ target.change < MaxChanges
  /\ manager_open /\ Exists
  /\ op' = [op EXCEPT ![w] =
              [phase |-> "deleting", kind |-> "write", overwrite |-> TRUE, mark |-> 0]]
  /\ UNCHANGED <<target, maybe, acked, temp, abandoned, manager_open, file_faults>>

DeleteFile(w) ==
  LET entry == [change |-> target.change + 1, file |-> NoFile] IN
  /\ At(w, "deleting") /\ Exists /\ Done(w)
  /\ target' = entry
  /\ maybe' = maybe \union {entry}
  /\ UNCHANGED <<acked, temp, abandoned, manager_open, file_faults>>

\* Somebody was faster: an error, missing_ok or not.
DeleteTooLate(w) ==
  /\ At(w, "deleting") /\ ~Exists /\ Done(w)
  /\ UNCHANGED <<target, maybe, acked, temp, abandoned, manager_open, file_faults>>

CloseManager ==
  /\ manager_open' = FALSE
  /\ UNCHANGED <<target, maybe, acked, temp, abandoned, op, file_faults>>

-----------------------------------------------------------------------------
Interrupted(W) ==
  /\ file_faults < MaxFaults
  /\ file_faults' = file_faults + 1
  /\ abandoned' = abandoned \union {w \in W : temp[w] # NoFile}
  /\ op' = [w \in Writer |-> IF w \in W THEN Idle ELSE op[w]]

Kill(w) ==
  /\ Interrupted({w})
  /\ UNCHANGED <<target, maybe, acked, temp, manager_open>>

Torn(file) == IF file = NoFile \/ file.durable THEN file ELSE [file EXCEPT !.whole = FALSE]

PowerLoss ==
  /\ Interrupted(Writer)
  /\ \E entry \in maybe :
       /\ target' = [entry EXCEPT !.file = Torn(@)]
       /\ maybe' = {target'}
  /\ manager_open' = TRUE
  /\ UNCHANGED <<acked, temp>>

FileNext ==
  \/ \E w \in Writer :
       \/ BeginWrite(w) \/ BeginDownload(w)
       \/ CreateTemp(w) \/ WritePayload(w) \/ ReceivePayload(w) \/ SyncTemp(w) \/ Recheck(w) \/ Replace(w)
       \/ SyncDirectory(w) \/ ReturnAnyhow(w) \/ FailClean(w) \/ FailUnclean(w)
       \/ DeleteAsk(w) \/ DeleteFile(w) \/ DeleteTooLate(w)
       \/ Kill(w)
  \/ CloseManager \/ PowerLoss

FileSpec == FileInit /\ [][FileNext]_fileVars

-----------------------------------------------------------------------------
(* Properties *)

(***************************************************************************)
(* Whatever is killed or loses power, the target is never part of a file:  *)
(* what is not whole is a response that was short and that nobody gave a   *)
(* digest for.                                                             *)
(***************************************************************************)
NoTornTarget == Exists /\ ~target.file.whole => target.file.origin = "download"

(***************************************************************************)
(* A write that has returned, its directory synced, is not undone by a     *)
(* loss of power: whatever that leaves is this write or a later change.    *)
(***************************************************************************)
AcknowledgedWriteSurvives == \A entry \in maybe : entry.change >= acked

\* A temporary file belongs to an operation, or was left by one that was
\* killed or could not unlink it.
TempsAccounted ==
  \A w \in Writer : temp[w] # NoFile => op[w].phase \in Failing \/ w \in abandoned

(***************************************************************************)
(* A writer told not to overwrite may still replace a target, but only one *)
(* that came into being after its own file was complete.                   *)
(***************************************************************************)
OverwritesOnlyLatecomers ==
  \A w \in Writer :
    At(w, "rechecked") /\ ~op[w].overwrite /\ Exists => target.change > op[w].mark

(***************************************************************************)
(* The target under writers, downloads, deletions, failures and losses of  *)
(* power: whole, durable once acknowledged, and replaced by its rules; and *)
(* no temporary file is forgotten.                                         *)
(***************************************************************************)
TargetSafe ==
  /\ NoTornTarget
  /\ AcknowledgedWriteSurvives
  /\ TempsAccounted
  /\ OverwritesOnlyLatecomers
=============================================================================
