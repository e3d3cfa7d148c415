----------------------------- MODULE Storage_proof -----------------------------
(***************************************************************************)
(* Theorems about what the storage keeps: a file under its writers         *)
(* (FileStore), the seen records of the local state store                  *)
(* (LocalStateStore), and the letters of the durable and the in-memory     *)
(* dead-letter queue (SQLiteDeadLetterQueue, InMemoryDeadLetterQueue), for *)
(* any writers, threads, keys, letters and bounds.                         *)
(***************************************************************************)
EXTENDS MCStores, SequenceTheorems, WellFoundedInduction, TLAPS

-----------------------------------------------------------------------------
(* The target file                                                         *)

(***************************************************************************)
(* What an operation has by each of its phases: its own temporary file,    *)
(* complete where it must be, and synced before the target is replaced.    *)
(***************************************************************************)
Progress(w) ==
  /\ op[w].phase # "idle" => op[w].mark <= target.change
  /\ op[w].phase \in {"filling", "filled", "synced", "rechecked"} =>
       temp[w] # NoFile /\ temp[w].origin = op[w].kind
  /\ op[w].phase \in {"filled", "synced", "rechecked"} /\ op[w].kind = "write" => temp[w].whole
  /\ op[w].phase \in {"synced", "rechecked"} => temp[w].durable
  /\ op[w].phase = "rechecked" /\ op[w].kind = "verified" => temp[w].whole

\* A file that a loss of power does not tear, and that is all there
StoredWell(file) == file = NoFile \/ (file.durable /\ (file.whole \/ file.origin = "download"))

Entries == target \in maybe /\ \A entry \in maybe : StoredWell(entry.file)

Underway == \A w \in Writer : Progress(w)

FileInv == FileTypeOK /\ TargetSafe /\ Entries /\ Underway

LEMMA OpOf ==
  ASSUME FileTypeOK, NEW w \in Writer, op[w].phase # "idle"
  PROVE  op[w] \in Op /\ op[w].mark \in Nat /\ op[w].kind \in Kind /\ op[w].overwrite \in BOOLEAN
<1>1. op[w] \in Op
  BY DEF FileTypeOK, Idle
<1> QED
  BY <1>1 DEF Op

LEMMA GoStep ==
  ASSUME FileTypeOK, NEW w \in Writer, op[w].phase # "idle", NEW phase \in Phase, Go(w, phase)
  PROVE  /\ op' \in [Writer -> Op \union {Idle}]
         /\ op'[w].phase = phase /\ op'[w].kind = op[w].kind
         /\ op'[w].overwrite = op[w].overwrite /\ op'[w].mark = op[w].mark
         /\ \A v \in Writer : v # w => op'[v] = op[v]
<1>1. op[w] \in Op
  BY OpOf
<1>2. [op[w] EXCEPT !.phase = phase] \in Op
  BY <1>1 DEF Op
<1> QED
  BY <1>1, <1>2 DEF FileTypeOK, Go, Op

LEMMA MarkStep ==
  ASSUME FileTypeOK, NEW w \in Writer, op[w].phase # "idle", NEW phase \in Phase, NEW n \in Nat,
         op' = [op EXCEPT ![w].phase = phase, ![w].mark = n]
  PROVE  /\ op' \in [Writer -> Op \union {Idle}]
         /\ op'[w].phase = phase /\ op'[w].kind = op[w].kind
         /\ op'[w].overwrite = op[w].overwrite /\ op'[w].mark = n
         /\ \A v \in Writer : v # w => op'[v] = op[v]
<1>1. op[w] \in Op
  BY OpOf
<1>2. [op[w] EXCEPT !.phase = phase, !.mark = n] \in Op
  BY <1>1 DEF Op
<1> QED
  BY <1>1, <1>2 DEF FileTypeOK, Op

LEMMA DoneStep ==
  ASSUME FileTypeOK, NEW w \in Writer, Done(w)
  PROVE  /\ op' \in [Writer -> Op \union {Idle}] /\ op'[w].phase = "idle"
         /\ \A v \in Writer : v # w => op'[v] = op[v]
BY DEF FileTypeOK, Done, Idle

LEMMA NewOpStep ==
  ASSUME FileTypeOK, NEW w \in Writer, NEW phase \in Phase, NEW kind \in Kind, NEW overwrite \in BOOLEAN,
         op' = [op EXCEPT ![w] = [phase |-> phase, kind |-> kind, overwrite |-> overwrite, mark |-> 0]]
  PROVE  /\ op' \in [Writer -> Op \union {Idle}]
         /\ op'[w].phase = phase /\ op'[w].mark = 0
         /\ \A v \in Writer : v # w => op'[v] = op[v]
<1>1. [phase |-> phase, kind |-> kind, overwrite |-> overwrite, mark |-> 0] \in Op
  BY DEF Op
<1> QED
  BY <1>1 DEF FileTypeOK

LEMMA TempStep ==
  ASSUME FileTypeOK, NEW w \in Writer, temp[w] # NoFile
  PROVE  /\ temp[w] \in File
         /\ \A whole \in BOOLEAN :
              /\ [temp EXCEPT ![w].whole = whole] \in [Writer -> File \union {NoFile}]
              /\ [temp EXCEPT ![w].whole = whole][w] # NoFile
              /\ [temp EXCEPT ![w].whole = whole][w].whole = whole
              /\ [temp EXCEPT ![w].whole = whole][w].origin = temp[w].origin
         /\ [temp EXCEPT ![w].durable = TRUE] \in [Writer -> File \union {NoFile}]
         /\ [temp EXCEPT ![w].durable = TRUE][w] # NoFile
         /\ [temp EXCEPT ![w].durable = TRUE][w].durable
         /\ [temp EXCEPT ![w].durable = TRUE][w].whole = temp[w].whole
         /\ [temp EXCEPT ![w].durable = TRUE][w].origin = temp[w].origin
<1>1. temp[w] \in File /\ temp[w].origin \in Kind
  BY DEF FileTypeOK, File
<1>2. \A f \in File : f # NoFile
  BY DEF File, NoFile, Kind
<1>3. [temp[w] EXCEPT !.durable = TRUE] \in File /\ \A whole \in BOOLEAN : [temp[w] EXCEPT !.whole = whole] \in File
  BY <1>1 DEF File
<1> QED
  BY <1>1, <1>2, <1>3 DEF FileTypeOK, File

(***************************************************************************)
(* A step of the writer w that does not touch the target                   *)
(***************************************************************************)
LEMMA WriterStep ==
  ASSUME FileInv, NEW w \in Writer,
         UNCHANGED <<target, manager_open, file_faults>>,
         op' \in [Writer -> Op \union {Idle}], temp' \in [Writer -> File \union {NoFile}],
         \A v \in Writer : v # w => op'[v] = op[v] /\ temp'[v] = temp[v],
         abandoned' \subseteq Writer, abandoned \ {w} \subseteq abandoned',
         acked' \in Nat, acked' <= target.change, (maybe' = maybe /\ acked' = acked) \/ maybe' = {target},
         Progress(w)',
         temp'[w] # NoFile => op'[w].phase \in Failing \/ w \in abandoned',
         op'[w].phase = "rechecked" /\ ~op'[w].overwrite /\ Exists => target.change > op'[w].mark
  PROVE  FileInv'
<1> USE DEF FileInv
<1>1. FileTypeOK'
  BY DEF FileTypeOK
<1>2. Entries'
  BY DEF Entries
<1>3. Underway'
  BY DEF Underway, Progress
<1>4. NoTornTarget' /\ AcknowledgedWriteSurvives'
  <2>1. target.change >= acked'
    BY DEF FileTypeOK, Entry
  <2> QED
    BY <2>1 DEF TargetSafe, NoTornTarget, AcknowledgedWriteSurvives, Exists
<1>5. TempsAccounted'
  BY DEF TargetSafe, TempsAccounted
<1>6. OverwritesOnlyLatecomers'
  BY DEF TargetSafe, OverwritesOnlyLatecomers, At, Exists
<1> QED
  BY <1>1, <1>2, <1>3, <1>4, <1>5, <1>6 DEF TargetSafe

(***************************************************************************)
(* A new entry of the target, which a loss of power may leave or take back *)
(***************************************************************************)
LEMMA EntryStep ==
  ASSUME FileInv, NEW w \in Writer, NEW file \in File \union {NoFile}, StoredWell(file),
         target' = [change |-> target.change + 1, file |-> file],
         maybe' = maybe \union {target'},
         UNCHANGED <<acked, abandoned, manager_open, file_faults>>,
         op' \in [Writer -> Op \union {Idle}], temp' \in [Writer -> File \union {NoFile}],
         \A v \in Writer : v # w => op'[v] = op[v] /\ temp'[v] = temp[v],
         op'[w].phase \in {"idle", "replaced"}, op'[w].phase = "idle" \/ op'[w].mark = target.change + 1,
         temp'[w] # NoFile => w \in abandoned
  PROVE  FileInv'
<1> USE DEF FileInv
<1>1. target.change \in Nat /\ acked \in Nat /\ acked <= target.change
  BY DEF FileTypeOK, Entry, Entries, TargetSafe, AcknowledgedWriteSurvives
<1>2. target' \in Entry /\ target'.change = target.change + 1 /\ target'.file = file
  BY <1>1 DEF Entry
<1>3. FileTypeOK'
  BY <1>2 DEF FileTypeOK
<1>4. Entries'
  BY <1>2 DEF Entries
<1>5. \A v \in Writer : op[v].phase # "idle" => op[v].mark \in Nat
  BY OpOf
<1>6. Underway'
  <2>1. ASSUME NEW v \in Writer, v # w PROVE Progress(v)'
    BY <1>1, <1>2, <1>5, <2>1 DEF Underway, Progress
  <2>2. Progress(w)'
    BY <1>1, <1>2 DEF Progress
  <2> QED
    BY <2>1, <2>2 DEF Underway
<1>7. NoTornTarget'
  BY <1>2 DEF NoTornTarget, StoredWell, Exists
<1>8. AcknowledgedWriteSurvives'
  BY <1>1, <1>2 DEF TargetSafe, AcknowledgedWriteSurvives
<1>9. TempsAccounted'
  BY DEF TargetSafe, TempsAccounted
<1>10. OverwritesOnlyLatecomers'
  BY <1>1, <1>2, <1>5 DEF OverwritesOnlyLatecomers, At, Underway, Progress
<1> QED
  BY <1>3, <1>4, <1>6, <1>7, <1>8, <1>9, <1>10 DEF TargetSafe

(***************************************************************************)
(* The end of some operations, and of what the entries may be              *)
(***************************************************************************)
LEMMA InterruptedStep ==
  ASSUME FileInv, NEW W \in SUBSET Writer, Interrupted(W), UNCHANGED <<acked, temp>>, manager_open' \in BOOLEAN,
         \/ UNCHANGED <<target, maybe>>
         \/ W = Writer /\ target' \in maybe /\ maybe' = {target'}
  PROVE  FileInv'
<1> USE DEF FileInv
<1>1. /\ op' \in [Writer -> Op \union {Idle}] /\ abandoned' \subseteq Writer /\ file_faults' \in Nat
      /\ \A v \in Writer : op'[v].phase = "idle" \/ (v \notin W /\ op'[v] = op[v])
  BY DEF Interrupted, FileTypeOK, Idle
<1>2. FileTypeOK'
  BY <1>1 DEF FileTypeOK
<1>3. Entries'
  BY DEF Entries
<1>4. Underway'
  BY <1>1 DEF Underway, Progress
<1>5. NoTornTarget'
  BY DEF Entries, NoTornTarget, StoredWell, Exists
<1>6. AcknowledgedWriteSurvives'
  BY DEF TargetSafe, AcknowledgedWriteSurvives
<1>7. TempsAccounted'
  BY DEF TargetSafe, TempsAccounted, Interrupted
<1>8. OverwritesOnlyLatecomers'
  BY <1>1 DEF TargetSafe, OverwritesOnlyLatecomers, At, Exists
<1> QED
  BY <1>2, <1>3, <1>4, <1>5, <1>6, <1>7, <1>8 DEF TargetSafe

LEMMA FileInvStep == FileInv /\ [FileNext]_fileVars => FileInv'
<1> SUFFICES ASSUME FileInv, [FileNext]_fileVars PROVE FileInv'
  OBVIOUS
<1>0. /\ FileTypeOK /\ Underway /\ Entries /\ TempsAccounted /\ acked \in Nat /\ acked <= target.change
      /\ target.change \in Nat /\ temp \in [Writer -> File \union {NoFile}] /\ abandoned \subseteq Writer
  BY DEF FileInv, FileTypeOK, TargetSafe, AcknowledgedWriteSurvives, Entries, Entry
<1>1. ASSUME NEW w \in Writer, NEW kind \in Kind, NEW overwrite \in BOOLEAN, Begin(w, kind, overwrite)
      PROVE  FileInv'
  <2>1. /\ op' \in [Writer -> Op \union {Idle}] /\ op'[w].phase = "creating" /\ op'[w].mark = 0
        /\ \A v \in Writer : v # w => op'[v] = op[v]
    BY <1>0, <1>1, NewOpStep DEF Begin, Phase
  <2>2. Progress(w)'
    BY <1>0, <1>1, <2>1 DEF Begin, Progress
  <2> QED
    BY <1>0, <1>1, <2>1, <2>2, WriterStep DEF Begin, Failing
<1>2. ASSUME NEW w \in Writer, DeleteAsk(w) PROVE FileInv'
  <2>1. /\ op' \in [Writer -> Op \union {Idle}] /\ op'[w].phase = "deleting" /\ op'[w].mark = 0
        /\ \A v \in Writer : v # w => op'[v] = op[v]
    BY <1>0, <1>2, NewOpStep DEF DeleteAsk, Phase, Kind
  <2>2. Progress(w)'
    BY <1>0, <1>2, <2>1 DEF DeleteAsk, Progress
  <2>3. temp[w] # NoFile => w \in abandoned
    BY <1>0, <1>2 DEF DeleteAsk, At, TempsAccounted, Failing
  <2> QED
    BY <1>0, <1>2, <2>1, <2>2, <2>3, WriterStep DEF DeleteAsk
<1>3. ASSUME NEW w \in Writer, CreateTemp(w) PROVE FileInv'
  <2>1. /\ op' \in [Writer -> Op \union {Idle}] /\ op'[w].phase = "filling"
        /\ op'[w].kind = op[w].kind /\ op'[w].mark = op[w].mark
        /\ \A v \in Writer : v # w => op'[v] = op[v]
    BY <1>0, <1>3, GoStep DEF CreateTemp, At, Phase
  <2> DEFINE f == [origin |-> op[w].kind, whole |-> FALSE, durable |-> FALSE]
  <2>2. f \in File /\ f # NoFile /\ f.origin = op[w].kind
    BY <1>0, <1>3, OpOf DEF CreateTemp, At, File, NoFile, Kind
  <2>3. /\ temp' \in [Writer -> File \union {NoFile}] /\ temp'[w] = f
        /\ \A v \in Writer : v # w => temp'[v] = temp[v]
    BY <1>0, <1>3, <2>2 DEF CreateTemp
  <2>4. Progress(w)'
    BY <1>0, <1>3, <2>1, <2>2, <2>3 DEF CreateTemp, Progress, Underway, At
  <2> QED
    BY <1>0, <1>3, <2>1, <2>3, <2>4, WriterStep DEF CreateTemp, Failing
<1>4. ASSUME NEW w \in Writer, WritePayload(w) \/ ReceivePayload(w) PROVE FileInv'
  <2>1. /\ op[w].phase = "filling" /\ op' \in [Writer -> Op \union {Idle}] /\ op'[w].phase = "filled"
        /\ op'[w].kind = op[w].kind /\ op'[w].mark = op[w].mark
        /\ \A v \in Writer : v # w => op'[v] = op[v]
    BY <1>0, <1>4, GoStep DEF WritePayload, ReceivePayload, At, Phase
  <2>2. PICK whole \in BOOLEAN : temp' = [temp EXCEPT ![w].whole = whole] /\ (op[w].kind = "write" => whole)
    BY <1>4 DEF WritePayload, ReceivePayload
  <2>3. temp[w] # NoFile /\ temp[w].origin = op[w].kind
    BY <1>0, <2>1 DEF Underway, Progress
  <2>4. /\ temp' \in [Writer -> File \union {NoFile}] /\ temp'[w] # NoFile
        /\ temp'[w].whole = whole /\ temp'[w].origin = op[w].kind
        /\ \A v \in Writer : v # w => temp'[v] = temp[v]
    BY <1>0, <2>2, <2>3, TempStep
  <2>5. Progress(w)'
    BY <1>0, <1>4, <2>1, <2>2, <2>4 DEF WritePayload, ReceivePayload, Progress, Underway
  <2> QED
    BY <1>0, <1>4, <2>1, <2>4, <2>5, WriterStep DEF WritePayload, ReceivePayload, Failing
<1>5. ASSUME NEW w \in Writer, SyncTemp(w) PROVE FileInv'
  <2>1. /\ op[w].phase = "filled" /\ op' \in [Writer -> Op \union {Idle}] /\ op'[w].phase = "synced"
        /\ op'[w].kind = op[w].kind /\ op'[w].mark = target.change
        /\ \A v \in Writer : v # w => op'[v] = op[v]
    BY <1>0, <1>5, MarkStep DEF SyncTemp, At, Phase
  <2>2. temp[w] # NoFile /\ temp[w].origin = op[w].kind /\ (op[w].kind = "write" => temp[w].whole)
    BY <1>0, <2>1 DEF Underway, Progress
  <2>3. /\ temp' \in [Writer -> File \union {NoFile}] /\ temp'[w] # NoFile /\ temp'[w].durable
        /\ temp'[w].whole = temp[w].whole /\ temp'[w].origin = op[w].kind
        /\ \A v \in Writer : v # w => temp'[v] = temp[v]
    BY <1>0, <1>5, <2>2, TempStep DEF SyncTemp
  <2>4. Progress(w)'
    BY <1>0, <1>5, <2>1, <2>2, <2>3 DEF SyncTemp, Progress
  <2> QED
    BY <1>0, <1>5, <2>1, <2>3, <2>4, WriterStep DEF SyncTemp, Failing
<1>6. ASSUME NEW w \in Writer, Recheck(w) PROVE FileInv'
  <2>1. /\ op[w].phase = "synced" /\ op' \in [Writer -> Op \union {Idle}] /\ op'[w].phase = "rechecked"
        /\ op'[w].kind = op[w].kind /\ op'[w].mark = op[w].mark /\ op'[w].overwrite = op[w].overwrite
        /\ \A v \in Writer : v # w => op'[v] = op[v]
    BY <1>0, <1>6, GoStep DEF Recheck, At, Phase
  <2>2. Progress(w)'
    BY <1>0, <1>6, <2>1 DEF Recheck, Progress, Underway
  <2> QED
    BY <1>0, <1>6, <2>1, <2>2, WriterStep DEF Recheck, Failing
<1>7. ASSUME NEW w \in Writer, Replace(w) PROVE FileInv'
  <2>1. /\ op[w].phase = "rechecked" /\ op[w].kind \in Kind
        /\ op' = [op EXCEPT ![w].phase = "replaced", ![w].mark = target.change + 1]
        /\ target.change + 1 \in Nat
    BY <1>0, <1>7, OpOf DEF Replace, At
  <2>2. "replaced" \in Phase \ {"idle"}
    BY DEF Phase
  <2>3. /\ op' \in [Writer -> Op \union {Idle}] /\ op'[w].phase = "replaced"
        /\ op'[w].mark = target.change + 1
        /\ \A v \in Writer : v # w => op'[v] = op[v]
    BY <1>0, <2>1, <2>2, MarkStep
  <2>4. /\ temp' \in [Writer -> File \union {NoFile}] /\ temp'[w] = NoFile
        /\ \A v \in Writer : v # w => temp'[v] = temp[v]
    BY <1>0, <1>7 DEF Replace
  <2>5. temp[w] \in File \union {NoFile} /\ StoredWell(temp[w])
    BY <1>0, <2>1 DEF Underway, Progress, StoredWell, Kind
  <2> QED
    BY <1>0, <1>7, <2>3, <2>4, <2>5, EntryStep DEF Replace
<1>8. ASSUME NEW w \in Writer, Done(w)
      PROVE  /\ op' \in [Writer -> Op \union {Idle}] /\ op'[w].phase = "idle"
             /\ \A v \in Writer : v # w => op'[v] = op[v]
             /\ Progress(w)'
  BY <1>0, <1>8, DoneStep DEF Progress
<1>9. ASSUME NEW w \in Writer, op[w].phase \in {"replaced", "deleting"}
      PROVE  temp[w] # NoFile => w \in abandoned
  BY <1>0, <1>9 DEF TempsAccounted, Failing
<1>10. ASSUME NEW w \in Writer, SyncDirectory(w) PROVE FileInv'
  <2>1. acked' \in Nat /\ acked' <= target.change
    BY <1>0, <1>10, OpOf DEF SyncDirectory, At, Underway, Progress
  <2> QED
    BY <1>0, <1>8, <1>9, <1>10, <2>1, WriterStep DEF SyncDirectory, At
<1>11. ASSUME NEW w \in Writer, ReturnAnyhow(w) \/ DeleteTooLate(w) PROVE FileInv'
  BY <1>0, <1>8, <1>9, <1>11, WriterStep DEF ReturnAnyhow, DeleteTooLate, At
<1>12. ASSUME NEW w \in Writer, FailClean(w) PROVE FileInv'
  <2>1. /\ temp' \in [Writer -> File \union {NoFile}] /\ temp'[w] = NoFile
        /\ \A v \in Writer : v # w => temp'[v] = temp[v]
    BY <1>0, <1>12 DEF FailClean
  <2> QED
    BY <1>0, <1>8, <1>12, <2>1, WriterStep DEF FailClean
<1>13. ASSUME NEW w \in Writer, FailUnclean(w) PROVE FileInv'
  BY <1>0, <1>8, <1>13, WriterStep DEF FailUnclean
<1>14. ASSUME NEW w \in Writer, DeleteFile(w) PROVE FileInv'
  <2>1. StoredWell(NoFile)
    BY DEF StoredWell
  <2> QED
    BY <1>0, <1>8, <1>9, <1>14, <2>1, EntryStep DEF DeleteFile, At
<1>15. ASSUME NEW w \in Writer, Kill(w) PROVE FileInv'
  <2>1. Interrupted({w}) /\ {w} \in SUBSET Writer /\ UNCHANGED <<acked, temp, target, maybe>>
        /\ manager_open' \in BOOLEAN
    BY <1>0, <1>15 DEF Kill, FileTypeOK
  <2> QED
    BY <2>1, InterruptedStep
<1>16. CASE PowerLoss
  <2>1. PICK entry \in maybe : target' = [entry EXCEPT !.file = Torn(@)] /\ maybe' = {target'}
    BY <1>16 DEF PowerLoss
  <2>2. entry \in Entry /\ StoredWell(entry.file)
    BY <1>0 DEF Entries, FileTypeOK
  <2>3. Torn(entry.file) = entry.file
    BY <2>2 DEF Torn, StoredWell
  <2>4. target' = entry
    BY <2>1, <2>2, <2>3 DEF Entry
  <2> QED
    BY <1>16, <2>1, <2>4, InterruptedStep DEF PowerLoss
<1>17. CASE CloseManager \/ UNCHANGED fileVars
  BY <1>17
  DEF CloseManager, fileVars, FileInv, FileTypeOK, TargetSafe, NoTornTarget, AcknowledgedWriteSurvives,
      TempsAccounted, OverwritesOnlyLatecomers, At, Exists, Entries, Underway, Progress
<1> QED
  BY <1>1, <1>2, <1>3, <1>4, <1>5, <1>6, <1>7, <1>10, <1>11, <1>12, <1>13, <1>14, <1>15, <1>16, <1>17
  DEF FileNext, BeginWrite, BeginDownload, Kind

LEMMA FileInvInit == FileInit => FileInv
<1> SUFFICES ASSUME FileInit PROVE FileInv
  OBVIOUS
<1>1. target \in Entry /\ target.change = 0 /\ target.file = NoFile
  BY DEF FileInit, Entry
<1>2. \A w \in Writer : op[w] = Idle /\ op[w].phase = "idle" /\ temp[w] = NoFile
  BY DEF FileInit, Idle
<1>3. FileTypeOK
  BY <1>1 DEF FileInit, FileTypeOK
<1> QED
  BY <1>1, <1>2, <1>3
  DEF FileInit, FileInv, TargetSafe, NoTornTarget, AcknowledgedWriteSurvives, TempsAccounted,
      OverwritesOnlyLatecomers, At, Exists, Entries, StoredWell, Underway, Progress

(***************************************************************************)
(* Whatever fails, is killed or loses power, the target is never part of a *)
(* file, a write that has returned is not undone, a file told not to       *)
(* overwrite replaces only latecomers, and no temporary file is forgotten. *)
(***************************************************************************)
THEOREM TargetIsSafe == FileSpec => []TargetSafe
<1>1. FileInv => TargetSafe
  BY DEF FileInv
<1> QED
  BY <1>1, FileInvInit, FileInvStep, PTL DEF FileSpec

-----------------------------------------------------------------------------
(* The seen records                                                        *)

StoreInv == StoreTypeOK /\ ToldNewOnce

\* The tables are the last of the log, before and after a commit.
LEMMA TablesOf ==
  ASSUME StoreTypeOK
  PROVE  /\ Len(log) \in Nat /\ Len(log) > 0 /\ tables \in Tables
         /\ \A n \in 1..Len(log) : log[n] \in Tables
BY EmptySeq, ElementOfSeq, LenProperties DEF StoreTypeOK, tables

LEMMA CommitStep ==
  ASSUME StoreTypeOK, NEW u \in User, NEW new \in Tables, Commits(u, new), told' \in [Key -> Nat]
  PROVE  StoreTypeOK' /\ tables' = new /\ lost' = lost
<1>1. log' = Append(log, new) /\ log \in Seq(Tables)
  BY DEF Commits, StoreTypeOK
<1>2. /\ log' \in Seq(Tables) /\ log' # <<>> /\ Len(log') = Len(log) + 1
      /\ log'[Len(log) + 1] = new
  BY <1>1, AppendProperties
<1>3. pending' \in [User -> Operation(Nat) \union {NoOp}]
  BY DEF Commits, StoreTypeOK
<1> QED
  BY <1>2, <1>3 DEF Commits, StoreTypeOK, tables

LEMMA RestartStep ==
  ASSUME StoreTypeOK, NEW new \in Tables, log' = <<new>>
  PROVE  log' \in Seq(Tables) /\ log' # <<>> /\ tables' = new
BY DEF tables

LEMMA StoreInvStep == StoreInv /\ [StoreNext]_storeVars => StoreInv'
<1> SUFFICES ASSUME StoreInv, [StoreNext]_storeVars PROVE StoreInv'
  OBVIOUS
<1>0. /\ StoreTypeOK /\ ToldNewOnce /\ tables \in Tables /\ tables.seen \in [Key -> Seen \union {NoRow}]
      /\ tables.values \subseteq Key /\ told \in [Key -> Nat]
  BY TablesOf DEF StoreInv, StoreTypeOK, Tables
<1>1. ASSUME NEW u \in User, MarkSeen(u) PROVE StoreInv'
  <2> DEFINE k == pending[u].key
             now == pending[u].now
             row == [first |-> IF IsSeen(k) THEN tables.seen[k].first ELSE now, last |-> now]
             new == [tables EXCEPT !.seen[k] = row]
  <2>1. pending[u] \in [name : {"mark_seen"}, key : Key, now : Nat]
    BY <1>0, <1>1 DEF MarkSeen, Is, StoreTypeOK, Operation, NoOp
  <2>2. k \in Key /\ now \in Nat
    BY <2>1
  <2>3. IsSeen(k) => tables.seen[k].first \in Nat
    BY <1>0, <2>2 DEF IsSeen, Seen
  <2>4. row \in Seen
    BY <2>2, <2>3 DEF Seen
  <2>5. row # NoRow
    BY <2>4 DEF Seen, NoRow
  <2>6. new \in Tables /\ new.seen = [tables.seen EXCEPT ![k] = row]
    BY <1>0, <2>4 DEF Tables
  <2>7. Commits(u, new)
    BY <1>1 DEF MarkSeen
  <2>8. told' = [told EXCEPT ![k] = IF IsSeen(k) THEN @ ELSE @ + 1] /\ told' \in [Key -> Nat]
    BY <1>0, <1>1, <2>2 DEF MarkSeen
  <2> HIDE DEF row, new
  <2>9. StoreTypeOK' /\ tables' = new /\ lost' = lost
    BY <1>0, <2>6, <2>7, <2>8, CommitStep
  <2>10. \A c \in Key : IsSeen(c)' <=> c = k \/ IsSeen(c)
    BY <1>0, <2>2, <2>5, <2>6, <2>9 DEF IsSeen
  <2>11. ToldNewOnce'
    BY <1>0, <2>2, <2>8, <2>9, <2>10 DEF ToldNewOnce
  <2> QED
    BY <2>9, <2>11 DEF StoreInv
<1>2. ASSUME NEW u \in User, ForgetSeen(u) PROVE StoreInv'
  <2> DEFINE k == pending[u].key
             new == [tables EXCEPT !.seen[k] = NoRow]
  <2>1. k \in Key
    BY <1>0, <1>2 DEF ForgetSeen, Is, StoreTypeOK, Operation, NoOp
  <2>2. new \in Tables /\ new.seen = [tables.seen EXCEPT ![k] = NoRow]
    BY <1>0 DEF Tables
  <2>3. Commits(u, new) /\ told' = [told EXCEPT ![k] = 0] /\ told' \in [Key -> Nat]
    BY <1>0, <1>2 DEF ForgetSeen
  <2> HIDE DEF new
  <2>4. StoreTypeOK' /\ tables' = new /\ lost' = lost
    BY <1>0, <2>2, <2>3, CommitStep
  <2>5. \A c \in Key : IsSeen(c)' <=> c # k /\ IsSeen(c)
    BY <1>0, <2>1, <2>2, <2>4 DEF IsSeen
  <2>6. ToldNewOnce'
    BY <1>0, <2>1, <2>3, <2>4, <2>5 DEF ToldNewOnce
  <2> QED
    BY <2>4, <2>6 DEF StoreInv
<1>3. ASSUME NEW u \in User, Put(u) \/ Delete(u) PROVE StoreInv'
  <2>1. pending[u].key \in Key
    BY <1>0, <1>3 DEF Put, Delete, Is, StoreTypeOK, Operation, NoOp
  <2>2. PICK values \in SUBSET Key : Commits(u, [tables EXCEPT !.values = values])
    BY <1>0, <1>3, <2>1 DEF Put, Delete
  <2>3. [tables EXCEPT !.values = values] \in Tables /\ [tables EXCEPT !.values = values].seen = tables.seen
    BY <1>0 DEF Tables
  <2>4. told' = told
    BY <1>3 DEF Put, Delete
  <2>5. StoreTypeOK' /\ tables'.seen = tables.seen /\ lost' = lost
    BY <1>0, <2>2, <2>3, <2>4, CommitStep
  <2> QED
    BY <1>0, <2>4, <2>5 DEF StoreInv, ToldNewOnce, IsSeen
<1>4. ASSUME NEW u \in User, ClearNamespace(u) PROVE StoreInv'
  <2> DEFINE new == [seen |-> [k \in Key |-> NoRow], values |-> {}]
  <2>1. new \in Tables /\ \A k \in Key : new.seen[k] = NoRow
    BY DEF Tables
  <2>2. Commits(u, new) /\ told' = [k \in Key |-> 0]
    BY <1>4 DEF ClearNamespace
  <2> HIDE DEF new
  <2>3. StoreTypeOK' /\ tables' = new /\ lost' = lost
    BY <1>0, <2>1, <2>2, CommitStep
  <2> QED
    BY <2>1, <2>2, <2>3 DEF StoreInv, ToldNewOnce, IsSeen
<1>5. CASE Checkpoint
  <2>1. log' \in Seq(Tables) /\ log' # <<>> /\ tables' = tables
    BY <1>0, <1>5, RestartStep DEF Checkpoint
  <2> QED
    BY <1>0, <1>5, <2>1 DEF Checkpoint, StoreInv, StoreTypeOK, ToldNewOnce, IsSeen
<1>6. CASE StorePowerLoss
  <2>1. PICK n \in 1..Len(log) :
          log' = <<log[n]>> /\ lost' = lost \union {k \in Key : log[n].seen[k] # tables.seen[k]}
    BY <1>6 DEF StorePowerLoss
  <2>2. log[n] \in Tables
    BY <1>0, TablesOf
  <2>3. log' \in Seq(Tables) /\ log' # <<>> /\ tables' = log[n]
    BY <1>0, <2>1, <2>2, RestartStep
  <2>4. /\ pending' \in [User -> Operation(Nat) \union {NoOp}] /\ closed' \subseteq Store /\ losses' \in Nat
        /\ told' = told /\ clock' = clock /\ lost' \subseteq Key
    BY <1>0, <1>6, <2>1 DEF StorePowerLoss, StoreTypeOK
  <2>5. ToldNewOnce'
    BY <1>0, <2>1, <2>3, <2>4 DEF ToldNewOnce, IsSeen
  <2> QED
    BY <1>0, <2>3, <2>4, <2>5 DEF StoreInv, StoreTypeOK
<1>7. ASSUME NEW u \in User, Call(u) PROVE StoreInv'
  <2>1. \A operation \in Operation({clock}) : operation \in Operation(Nat)
    BY <1>0 DEF Operation, StoreTypeOK
  <2>2. pending' \in [User -> Operation(Nat) \union {NoOp}]
    BY <1>0, <1>7, <2>1 DEF Call, StoreTypeOK
  <2> QED
    BY <1>0, <1>7, <2>2 DEF Call, StoreInv, StoreTypeOK, ToldNewOnce, IsSeen, tables
<1>8. ASSUME NEW u \in User, Fail(u) PROVE StoreInv'
  BY <1>0, <1>8 DEF Fail, StoreInv, StoreTypeOK, ToldNewOnce, IsSeen, tables
<1>9. ASSUME NEW s \in Store, CloseStore(s) \/ Reopen(s) PROVE StoreInv'
  BY <1>0, <1>9 DEF CloseStore, Reopen, StoreInv, StoreTypeOK, ToldNewOnce, IsSeen, tables
<1>10. CASE StoreTick \/ UNCHANGED storeVars
  BY <1>0, <1>10 DEF StoreTick, storeVars, StoreInv, StoreTypeOK, ToldNewOnce, IsSeen, tables
<1> QED
  BY <1>1, <1>2, <1>3, <1>4, <1>5, <1>6, <1>7, <1>8, <1>9, <1>10 DEF StoreNext

LEMMA StoreInvInit == StoreInit => StoreInv
<1> SUFFICES ASSUME StoreInit PROVE StoreInv
  OBVIOUS
<1> DEFINE new == [seen |-> [k \in Key |-> NoRow], values |-> {}]
<1>1. new \in Tables /\ \A k \in Key : new.seen[k] = NoRow
  BY DEF Tables
<1>2. log = <<new>>
  BY DEF StoreInit
<1> HIDE DEF new
<1>3. log \in Seq(Tables) /\ log # <<>> /\ tables = new
  BY <1>1, <1>2 DEF tables
<1> QED
  BY <1>1, <1>3 DEF StoreInit, StoreInv, StoreTypeOK, ToldNewOnce, IsSeen

(***************************************************************************)
(* Of all threads and processes that mark a key, exactly one is told that  *)
(* it is new until the key is forgotten, unless a loss of power takes the  *)
(* row back (ToldNewOnce).                                                 *)
(***************************************************************************)
THEOREM MarkersToldOnce == StoreSpec => []ToldNewOnce
<1>1. StoreInv => ToldNewOnce
  BY DEF StoreInv
<1> QED
  BY <1>1, StoreInvInit, StoreInvStep, PTL DEF StoreSpec

-----------------------------------------------------------------------------
(* The dead letters                                                        *)

InTransaction(c) == calling[c].at \in {"begun", "selected", "written"}

\* BEGIN IMMEDIATE took the lock, and nobody else takes it away.
LockHeld == \A c \in Connection : InTransaction(c) => writer = {c}

\* UNIQUE(queue_name, dead_letter_id), and AUTOINCREMENT
RowsUnique ==
  /\ \A i, j \in DOMAIN letters : i # j => letters[i].id # letters[j].id
  /\ \A i, j \in DOMAIN letters : i # j => letters[i].number # letters[j].number
  /\ \A i \in DOMAIN letters : letters[i].number <= last_letter

\* The row of the call is the i-th.
RowOf(c, i) ==
  letters[i].id = calling[c].id /\ letters[i].number = calling[c].number

(***************************************************************************)
(* What a transaction has made of the table by each of its statements      *)
(***************************************************************************)
SoFar(c) ==
  /\ calling[c].at \in {"begun", "selected"} => tentative = letters
  /\ calling[c].at \in {"begun", "written"} /\ calling[c].name = "store" => last_letter < MaxLetters
  /\ calling[c].at = "selected" =>
       calling[c].name = "remove" /\ \E i \in DOMAIN letters : RowOf(c, i)
  /\ calling[c].at = "written" /\ calling[c].name = "store" =>
       /\ calling[c].number = last_letter + 1
       /\ ~HasId(letters, calling[c].id)
       /\ tentative = Append(letters, [id |-> calling[c].id, number |-> last_letter + 1])
  /\ calling[c].at = "written" /\ calling[c].name = "remove" =>
       \E i \in DOMAIN letters : RowOf(c, i) /\ tentative = RemoveAt(letters, i)

Transactions == \A c \in Connection : SoFar(c)

\* A call that has committed and not returned yet
Committed(c, name) == calling[c].at = "committed" /\ calling[c].name = name

Answers ==
  /\ \A c \in Connection : Committed(c, "store") =>
       calling[c].number \in Numbers(letters) \union removed
  /\ \A c \in Connection : Committed(c, "remove") =>
       calling[c].number \in removed /\ handed[calling[c].number] = 0
  /\ \A c, d \in Connection :
       c # d /\ Committed(c, "remove") /\ Committed(d, "remove") => calling[c].number # calling[d].number
  /\ \A n \in removed : n <= last_letter

LetterInv ==
  /\ DeadLetterTypeOK /\ StoredUntilRemoved
  /\ LockHeld /\ RowsUnique /\ Transactions /\ Answers


-----------------------------------------------------------------------------
LEMMA CallOf ==
  ASSUME DeadLetterTypeOK, NEW c \in Connection, calling[c].at # "none"
  PROVE  /\ calling[c] \in Calling /\ calling[c].name \in {"store", "remove"}
         /\ calling[c].id \in Letter /\ calling[c].number \in 0..MaxLetters
         /\ calling[c].at \in {"begun", "selected", "written", "committed"}
<1>1. calling[c] \in Calling
  BY DEF DeadLetterTypeOK, NoCalling
<1> QED
  BY <1>1 DEF Calling

LEMMA CallStep ==
  ASSUME DeadLetterTypeOK, NEW c \in Connection, calling[c].at # "none",
         NEW at \in {"begun", "selected", "written", "committed"}, NEW n \in 0..MaxLetters,
         \/ calling' = [calling EXCEPT ![c].at = at, ![c].number = n]
         \/ calling' = [calling EXCEPT ![c].at = at] /\ n = calling[c].number
  PROVE  /\ calling' \in [Connection -> Calling \union {NoCalling}]
         /\ calling'[c].at = at /\ calling'[c].number = n
         /\ calling'[c].name = calling[c].name /\ calling'[c].id = calling[c].id
         /\ \A d \in Connection : d # c => calling'[d] = calling[d]
<1>1. calling[c] \in Calling /\ calling \in [Connection -> Calling \union {NoCalling}]
  BY CallOf DEF DeadLetterTypeOK
<1>2. [calling[c] EXCEPT !.at = at, !.number = n] \in Calling
  BY <1>1 DEF Calling
<1>3. CASE calling' = [calling EXCEPT ![c].at = at, ![c].number = n]
  BY <1>1, <1>2, <1>3 DEF Calling
<1>4. CASE calling' = [calling EXCEPT ![c].at = at] /\ n = calling[c].number
  <2>1. [calling[c] EXCEPT !.at = at] \in Calling
    BY <1>1 DEF Calling
  <2> QED
    BY <1>1, <1>4, <2>1 DEF Calling
<1> QED
  BY <1>3, <1>4

LEMMA OneTransaction ==
  ASSUME LockHeld, NEW c \in Connection, InTransaction(c), NEW d \in Connection, d # c
  PROVE  ~InTransaction(d) /\ writer = {c}
BY DEF LockHeld

\* A call outside of a transaction promises nothing about it.
LEMMA SoFarOutside ==
  ASSUME NEW c \in Connection, ~InTransaction(c)
  PROVE  SoFar(c)
BY DEF SoFar, InTransaction

(***************************************************************************)
(* A step of one object that neither commits nor answers                   *)
(***************************************************************************)
LEMMA QuietStep ==
  ASSUME LetterInv, NEW c \in Connection, UNCHANGED <<letters, last_letter, letterHistory>>,
         calling'[c].at # "committed", \A d \in Connection : d # c => calling'[d] = calling[d],
         DeadLetterTypeOK', LockHeld', Transactions'
  PROVE  LetterInv'
<1>1. StoredUntilRemoved' /\ RowsUnique'
  BY DEF LetterInv, StoredUntilRemoved, RowsUnique, Numbers, letterHistory
<1>2. \A d \in Connection, name \in {"store", "remove"} :
        Committed(d, name)' => d # c /\ Committed(d, name) /\ calling'[d] = calling[d]
  BY DEF Committed
<1>3. Answers'
  BY <1>2 DEF LetterInv, Answers, Numbers, letterHistory
<1> QED
  BY <1>1, <1>3 DEF LetterInv

\* The object gives its transaction up, or leaves it open, or had none.
LEMMA EndStep ==
  ASSUME LetterInv, NEW c \in Connection, UNCHANGED <<letters, last_letter, tentative, letterHistory>>,
         EndCall(c), writer' = writer \/ writer' = writer \ {c},
         dlq_closed' \subseteq Connection, trouble' \in Nat
  PROVE  LetterInv'
<1>1. /\ calling' \in [Connection -> Calling \union {NoCalling}] /\ calling'[c].at = "none"
      /\ \A d \in Connection : d # c => calling'[d] = calling[d]
  BY DEF LetterInv, DeadLetterTypeOK, EndCall, NoCalling
<1>2. DeadLetterTypeOK'
  BY <1>1 DEF LetterInv, DeadLetterTypeOK, letterHistory
<1>3. \A d \in Connection : InTransaction(d)' => d # c /\ InTransaction(d)
  BY <1>1 DEF InTransaction
<1>4. LockHeld'
  BY <1>3 DEF LetterInv, LockHeld
<1>5. ASSUME NEW d \in Connection PROVE SoFar(d)'
  <2>1. CASE InTransaction(d)'
    BY <1>1, <1>3, <2>1 DEF LetterInv, Transactions, SoFar, RowOf, HasId
  <2>2. CASE ~InTransaction(d)'
    BY <2>2 DEF SoFar, InTransaction
  <2> QED
    BY <2>1, <2>2
<1> QED
  BY <1>1, <1>2, <1>4, <1>5, QuietStep DEF Transactions

\* The transaction of c goes on.
LEMMA GoOnStep ==
  ASSUME LetterInv, NEW c \in Connection, InTransaction(c),
         UNCHANGED <<letters, last_letter, writer, dlq_closed, letterHistory, trouble>>,
         tentative' \in Seq(LetterRow),
         calling' \in [Connection -> Calling \union {NoCalling}],
         calling'[c].at \in {"selected", "written"},
         \A d \in Connection : d # c => calling'[d] = calling[d],
         SoFar(c)'
  PROVE  LetterInv'
<1>1. DeadLetterTypeOK'
  BY DEF LetterInv, DeadLetterTypeOK, letterHistory
<1>2. \A d \in Connection : d # c => ~InTransaction(d) /\ ~InTransaction(d)'
  BY OneTransaction DEF LetterInv, InTransaction
<1>3. writer = {c}
  BY DEF LetterInv, LockHeld
<1>4. LockHeld'
  BY <1>2, <1>3 DEF LockHeld
<1>5. ASSUME NEW d \in Connection, d # c PROVE SoFar(d)'
  BY <1>2, <1>5 DEF SoFar, InTransaction
<1> QED
  BY <1>1, <1>4, <1>5, QuietStep DEF Transactions


-----------------------------------------------------------------------------
(* DELETE, position by position *)

LEMMA RowRemoved ==
  ASSUME NEW S, NEW s \in Seq(S), NEW i \in 1..Len(s)
  PROVE  /\ RemoveAt(s, i) \in Seq(S)
         /\ Len(RemoveAt(s, i)) = Len(s) - 1
         /\ \A j \in 1..Len(s)-1 : RemoveAt(s, i)[j] = IF j < i THEN s[j] ELSE s[j+1]
<1>1. /\ SubSeq(s, 1, i-1) \in Seq(S) /\ Len(SubSeq(s, 1, i-1)) = i - 1
      /\ \A j \in 1..i-1 : SubSeq(s, 1, i-1)[j] = s[j]
  OBVIOUS
<1>2. /\ SubSeq(s, i+1, Len(s)) \in Seq(S) /\ Len(SubSeq(s, i+1, Len(s))) = Len(s) - i
      /\ \A j \in 1..Len(s)-i : SubSeq(s, i+1, Len(s))[j] = s[i+j]
  OBVIOUS
<1>3. PICK a \in Seq(S), b \in Seq(S) :
        /\ RemoveAt(s, i) = a \o b
        /\ Len(a) = i - 1 /\ \A j \in 1..i-1 : a[j] = s[j]
        /\ Len(b) = Len(s) - i /\ \A j \in 1..Len(s)-i : b[j] = s[i+j]
  BY <1>1, <1>2 DEF RemoveAt
<1>4. /\ a \o b \in Seq(S) /\ Len(a \o b) = Len(s) - 1
      /\ \A j \in 1..Len(s)-1 : (a \o b)[j] = IF j < i THEN a[j] ELSE b[j - (i-1)]
  <2>1. /\ a \o b \in Seq(S) /\ Len(a \o b) = Len(a) + Len(b)
        /\ \A j \in 1 .. Len(a) + Len(b) : (a \o b)[j] = IF j <= Len(a) THEN a[j] ELSE b[j - Len(a)]
    BY ConcatProperties, Zenon
  <2>2. PICK ab \in Seq(S) : ab = a \o b
    BY <2>1
  <2>3. Len(a) + Len(b) = Len(s) - 1 /\ \A j \in 1..Len(s)-1 : (j <= Len(a)) = (j < i)
    BY <1>3
  <2>4. /\ Len(ab) = Len(s) - 1
        /\ \A j \in 1..Len(s)-1 : ab[j] = IF j < i THEN a[j] ELSE b[j - (i-1)]
    BY <1>3, <2>1, <2>2, <2>3, Zenon
  <2> QED
    BY <2>2, <2>4, Zenon
<1>5. ASSUME NEW j \in 1..Len(s)-1, j >= i PROVE b[j - (i-1)] = s[j+1]
  <2>1. j - (i-1) \in 1..Len(s)-i /\ i + (j - (i-1)) = j + 1
    BY <1>5
  <2> QED
    BY <1>3, <2>1
<1> QED
  BY <1>3, <1>4, <1>5

\* The rows that stay are those there were, all but one, in their order.
LEMMA RowsLeft ==
  ASSUME DeadLetterTypeOK, RowsUnique, NEW i \in DOMAIN letters,
         letters' = RemoveAt(letters, i), last_letter' = last_letter
  PROVE  /\ letters' \in Seq(LetterRow) /\ RowsUnique'
         /\ Numbers(letters') = Numbers(letters) \ {letters[i].number}
<1>1. letters \in Seq(LetterRow) /\ DOMAIN letters = 1..Len(letters) /\ Len(letters) \in Nat
  BY DEF DeadLetterTypeOK
<1>2. /\ letters' \in Seq(LetterRow) /\ DOMAIN letters' = 1..Len(letters)-1
      /\ \A j \in 1..Len(letters)-1 : letters'[j] = IF j < i THEN letters[j] ELSE letters[j+1]
  <2>1. /\ RemoveAt(letters, i) \in Seq(LetterRow) /\ Len(RemoveAt(letters, i)) = Len(letters) - 1
        /\ \A j \in 1..Len(letters)-1 :
             RemoveAt(letters, i)[j] = IF j < i THEN letters[j] ELSE letters[j+1]
    BY <1>1, RowRemoved, Zenon
  <2> QED
    BY <1>1, <2>1
<1>3. \A j \in DOMAIN letters' : \E k \in DOMAIN letters :
        k = (IF j < i THEN j ELSE j + 1) /\ k # i /\ letters'[j] = letters[k]
  BY <1>1, <1>2
<1>4. \A k \in DOMAIN letters : k # i => \E j \in DOMAIN letters' : letters'[j] = letters[k]
  <2> SUFFICES ASSUME NEW k \in DOMAIN letters, k # i
               PROVE  \E j \in DOMAIN letters' : letters'[j] = letters[k]
    OBVIOUS
  <2>1. CASE k < i
    BY <1>1, <1>2, <2>1
  <2>2. CASE k > i
    <3>1. k - 1 \in DOMAIN letters' /\ ~(k - 1 < i) /\ (k - 1) + 1 = k
      BY <1>1, <1>2, <2>2
    <3> QED
      BY <1>2, <3>1
  <2> QED
    BY <1>1, <2>1, <2>2
<1>5. RowsUnique'
  BY <1>1, <1>2, <1>3 DEF RowsUnique
<1>6. Numbers(letters') = Numbers(letters) \ {letters[i].number}
  BY <1>3, <1>4 DEF Numbers, RowsUnique
<1> QED
  BY <1>2, <1>5, <1>6

LEMMA RowTypes ==
  ASSUME DeadLetterTypeOK
  PROVE  /\ last_letter \in Nat /\ MaxLetters \in Nat
         /\ \A i \in DOMAIN letters : letters[i].id \in Letter /\ letters[i].number \in 1..MaxLetters
<1>1. last_letter \in Nat /\ MaxLetters \in Nat
  BY DeadLetterAssumption DEF DeadLetterTypeOK
<1>2. \A i \in DOMAIN letters : letters[i] \in LetterRow
  BY DEF DeadLetterTypeOK
<1> QED
  BY <1>1, <1>2 DEF LetterRow

LEMMA RowAdded ==
  ASSUME DeadLetterTypeOK, RowsUnique, NEW l \in Letter, ~HasId(letters, l), last_letter < MaxLetters,
         letters' = Append(letters, [id |-> l, number |-> last_letter + 1]),
         last_letter' = last_letter + 1
  PROVE  /\ letters' \in Seq(LetterRow) /\ RowsUnique'
         /\ Numbers(letters') = Numbers(letters) \union {last_letter + 1}
<1>1. /\ letters \in Seq(LetterRow) /\ DOMAIN letters = 1..Len(letters) /\ Len(letters) \in Nat
      /\ last_letter \in Nat /\ MaxLetters \in Nat
      /\ \A j \in DOMAIN letters : letters[j].number \in Nat
  BY RowTypes DEF DeadLetterTypeOK
<1>2. PICK row \in LetterRow : row.id = l /\ row.number = last_letter + 1 /\ letters' = Append(letters, row)
  BY <1>1 DEF LetterRow
<1>3. /\ letters' \in Seq(LetterRow) /\ DOMAIN letters' = 1..Len(letters)+1
      /\ \A j \in 1..Len(letters) : letters'[j] = letters[j]
      /\ letters'[Len(letters)+1] = row
  BY <1>1, <1>2
<1>4. RowsUnique'
  BY <1>1, <1>2, <1>3 DEF RowsUnique, HasId
<1>5. Numbers(letters') = Numbers(letters) \union {row.number}
  BY <1>1, <1>3 DEF Numbers
<1> QED
  BY <1>2, <1>3, <1>4, <1>5

-----------------------------------------------------------------------------
LEMMA CommitStepKeeps == ASSUME LetterInv, NEW c \in Connection, CommitLetter(c) PROVE LetterInv'
<1>1. /\ calling[c].at = "written" /\ InTransaction(c) /\ SoFar(c) /\ writer = {c}
      /\ DeadLetterTypeOK /\ RowsUnique /\ Answers /\ StoredUntilRemoved
  BY DEF LetterInv, CommitLetter, CAt, InTransaction, Transactions, LockHeld
<1>2. /\ calling[c].name \in {"store", "remove"} /\ calling[c].id \in Letter
      /\ calling[c].number \in 0..MaxLetters
  BY <1>1, CallOf
<1>3. /\ calling' \in [Connection -> Calling \union {NoCalling}]
      /\ calling'[c].at = "committed" /\ calling'[c].number = calling[c].number
      /\ calling'[c].name = calling[c].name
      /\ \A d \in Connection : d # c => calling'[d] = calling[d]
  BY <1>1, <1>2, CallStep DEF CommitLetter, Further
<1>4. writer' = {} /\ \A d \in Connection : ~InTransaction(d)'
  BY <1>1, <1>3, OneTransaction DEF CommitLetter, LetterInv, InTransaction
<1>5. LockHeld' /\ Transactions'
  BY <1>4 DEF LockHeld, Transactions, SoFar, InTransaction
<1>6. last_letter \in Nat /\ MaxLetters \in Nat /\ \A n \in Numbers(letters) : n \in 1..MaxLetters
  BY <1>1, RowTypes DEF Numbers
<1>7. CASE calling[c].name = "store"
  <2>1. /\ letters' = Append(letters, [id |-> calling[c].id, number |-> last_letter + 1])
        /\ ~HasId(letters, calling[c].id) /\ last_letter < MaxLetters
        /\ calling[c].number = last_letter + 1 /\ last_letter' = last_letter + 1
        /\ removed' = removed /\ stored' = stored /\ handed' = handed
    BY <1>1, <1>7 DEF SoFar, CommitLetter
  <2>2. /\ letters' \in Seq(LetterRow) /\ RowsUnique'
        /\ Numbers(letters') = Numbers(letters) \union {last_letter + 1}
    BY <1>1, <1>2, <2>1, RowAdded
  <2>3. DeadLetterTypeOK'
    BY <1>1, <1>3, <1>4, <1>6, <2>1, <2>2 DEF DeadLetterTypeOK, CommitLetter
  <2>4. last_letter + 1 \notin removed
    BY <1>1, <1>6 DEF Answers, DeadLetterTypeOK
  <2>5. StoredUntilRemoved'
    BY <1>1, <2>1, <2>2, <2>4 DEF StoredUntilRemoved
  <2>6. Answers'
    <3>1. \A d \in Connection : Committed(d, "store")' =>
            calling'[d].number \in Numbers(letters') \union removed'
      BY <1>1, <1>3, <2>1, <2>2 DEF Answers, Committed
    <3>2. \A d \in Connection : Committed(d, "remove")' => d # c /\ Committed(d, "remove")
      BY <1>3, <1>7 DEF Committed
    <3>3. \A n \in removed' : n <= last_letter'
      BY <1>1, <1>6, <2>1 DEF Answers, DeadLetterTypeOK
    <3> QED
      BY <1>1, <1>3, <2>1, <3>1, <3>2, <3>3 DEF Answers
  <2> QED
    BY <1>5, <2>2, <2>3, <2>5, <2>6 DEF LetterInv
<1>8. CASE calling[c].name = "remove"
  <2>1. PICK i \in DOMAIN letters : RowOf(c, i) /\ tentative = RemoveAt(letters, i)
    BY <1>1, <1>8 DEF SoFar
  <2>2. PICK n \in Numbers(letters) : n = calling[c].number /\ n = letters[i].number
    BY <2>1 DEF RowOf, Numbers
  <2>3. /\ letters' = RemoveAt(letters, i) /\ last_letter' = last_letter
        /\ removed' = removed \union {n} /\ stored' = stored /\ handed' = handed
    BY <1>8, <2>1, <2>2 DEF CommitLetter
  <2>4. /\ letters' \in Seq(LetterRow) /\ RowsUnique'
        /\ Numbers(letters') = Numbers(letters) \ {n}
    BY <1>1, <2>2, <2>3, RowsLeft
  <2>5. DeadLetterTypeOK'
    BY <1>1, <1>3, <1>4, <1>6, <2>3, <2>4 DEF DeadLetterTypeOK, CommitLetter
  <2>6. n \notin removed /\ handed[n] = 0 /\ n <= last_letter
    <3>1. n \notin removed /\ n \in 1..MaxLetters
      BY <1>1, <1>6 DEF StoredUntilRemoved
    <3>2. handed[n] \in Nat /\ handed[n] <= 0
      BY <1>1, <3>1 DEF StoredUntilRemoved, DeadLetterTypeOK
    <3> QED
      BY <1>1, <2>2, <3>1, <3>2 DEF RowsUnique
  <2>7. StoredUntilRemoved'
    <3>1. stored' \subseteq Numbers(letters') \union removed' /\ Numbers(letters') \intersect removed' = {}
      BY <1>1, <2>3, <2>4 DEF StoredUntilRemoved
    <3>2. \A k \in 1..MaxLetters : handed'[k] <= IF k \in removed' THEN 1 ELSE 0
      BY <1>1, <2>3, <2>6 DEF StoredUntilRemoved
    <3> QED
      BY <3>1, <3>2 DEF StoredUntilRemoved
  <2>8. Answers'
    <3>1. \A d \in Connection : Committed(d, "store")' =>
            calling'[d].number \in Numbers(letters') \union removed'
      BY <1>1, <1>3, <1>8, <2>3, <2>4 DEF Answers, Committed
    <3>2. \A d \in Connection : Committed(d, "remove")' =>
            calling'[d].number \in removed' /\ handed'[calling'[d].number] = 0
      BY <1>1, <1>3, <2>2, <2>3, <2>6 DEF Answers, Committed
    <3>3. \A d, e \in Connection :
            d # e /\ Committed(d, "remove")' /\ Committed(e, "remove")' =>
              calling'[d].number # calling'[e].number
      BY <1>1, <1>3, <2>2, <2>6 DEF Answers, Committed
    <3>4. \A k \in removed' : k <= last_letter'
      BY <1>1, <2>3, <2>6 DEF Answers
    <3> QED
      BY <3>1, <3>2, <3>3, <3>4 DEF Answers, Committed
  <2> QED
    BY <1>5, <2>4, <2>5, <2>7, <2>8 DEF LetterInv
<1> QED
  BY <1>2, <1>7, <1>8


LEMMA ReturnStepKeeps == ASSUME LetterInv, NEW c \in Connection, ReturnLetter(c) PROVE LetterInv'
<1>1. /\ calling[c].at = "committed" /\ calling[c].name \in {"store", "remove"}
      /\ DeadLetterTypeOK /\ Answers /\ StoredUntilRemoved /\ MaxLetters \in Nat
  BY CallOf, RowTypes DEF LetterInv, ReturnLetter, CAt
<1>2. /\ calling' \in [Connection -> Calling \union {NoCalling}] /\ calling'[c].at = "none"
      /\ \A d \in Connection : d # c => calling'[d] = calling[d]
  BY <1>1 DEF DeadLetterTypeOK, ReturnLetter, EndCall, NoCalling
<1>3. /\ UNCHANGED <<letters, last_letter, writer, tentative, dlq_closed, removed, trouble>>
      /\ RowsUnique'
  BY DEF ReturnLetter, LetterInv, RowsUnique
<1>4. \A d \in Connection : d # c \/ ~InTransaction(d)'
  BY <1>2 DEF InTransaction
<1>5. LockHeld'
  BY <1>2, <1>3, <1>4 DEF LetterInv, LockHeld, InTransaction
<1>6. Transactions'
  <2> SUFFICES ASSUME NEW d \in Connection PROVE SoFar(d)'
    BY DEF Transactions
  <2>1. CASE d = c
    BY <1>2, <2>1 DEF SoFar
  <2>2. CASE d # c
    BY <1>2, <1>3, <2>2 DEF LetterInv, Transactions, SoFar, RowOf, HasId
  <2> QED
    BY <2>1, <2>2
<1>7. PICK n \in 1..MaxLetters : n = calling[c].number
  <2>1. calling[c].number \in Numbers(letters) \union removed
    BY <1>1 DEF Answers, Committed
  <2> QED
    BY <1>1, <2>1, RowTypes DEF Numbers, DeadLetterTypeOK
<1>8. CASE calling[c].name = "store"
  <2>1. stored' = stored \union {n} /\ handed' = handed /\ n \in Numbers(letters) \union removed
    BY <1>1, <1>7, <1>8 DEF ReturnLetter, Answers, Committed
  <2>2. DeadLetterTypeOK'
    BY <1>1, <1>2, <1>3, <2>1 DEF DeadLetterTypeOK
  <2>3. StoredUntilRemoved'
    BY <1>1, <1>3, <2>1 DEF StoredUntilRemoved
  <2>4. Answers'
    BY <1>1, <1>2, <1>3, <2>1 DEF Answers, Committed
  <2> QED
    BY <1>3, <1>5, <1>6, <2>2, <2>3, <2>4 DEF LetterInv
<1>9. CASE calling[c].name = "remove"
  <2>1. stored' = stored /\ handed' = [handed EXCEPT ![n] = @ + 1] /\ n \in removed /\ handed[n] = 0
    BY <1>1, <1>7, <1>9 DEF ReturnLetter, Answers, Committed
  <2>2. handed' \in [1..MaxLetters -> Nat] /\ handed'[n] = 1 /\ \A k \in 1..MaxLetters : k # n => handed'[k] = handed[k]
    BY <1>1, <2>1 DEF DeadLetterTypeOK
  <2>3. DeadLetterTypeOK'
    BY <1>1, <1>2, <1>3, <2>1, <2>2 DEF DeadLetterTypeOK
  <2>4. StoredUntilRemoved'
    BY <1>1, <1>3, <2>1, <2>2 DEF StoredUntilRemoved
  <2>5. ASSUME NEW d \in Connection, Committed(d, "remove")'
        PROVE  d # c /\ Committed(d, "remove") /\ calling'[d] = calling[d] /\ calling[d].number # n
    BY <1>1, <1>2, <1>7, <1>9, <2>5 DEF Answers, Committed
  <2>6. ASSUME NEW d \in Connection, Committed(d, "remove")'
        PROVE  calling'[d].number \in removed' /\ handed'[calling'[d].number] = 0
    <3>1. calling[d].number \in removed /\ handed[calling[d].number] = 0
      BY <1>1, <2>5, <2>6 DEF Answers
    <3> QED
      BY <1>1, <1>3, <2>2, <2>5, <2>6, <3>1 DEF DeadLetterTypeOK
  <2>7. Answers'
    <3>1. \A d \in Connection : Committed(d, "store")' => Committed(d, "store") /\ calling'[d] = calling[d]
      BY <1>2 DEF Committed
    <3> QED
      BY <1>1, <1>3, <2>5, <2>6, <3>1 DEF Answers
  <2> QED
    BY <1>3, <1>5, <1>6, <2>3, <2>4, <2>7 DEF LetterInv
<1> QED
  BY <1>1, <1>8, <1>9

LEMMA BeginStepKeeps ==
  ASSUME LetterInv, NEW c \in Connection, NEW name \in {"store", "remove"}, NEW l \in Letter,
         BeginLetter(c, name, l)
  PROVE  LetterInv'
<1>1. PICK new \in Calling :
        /\ calling' = [calling EXCEPT ![c] = new]
        /\ new.at = "begun" /\ new.name = name /\ new.id = l
  <2>1. 0 \in 0..MaxLetters
    BY RowTypes DEF LetterInv
  <2>2. [at |-> "begun", name |-> name, id |-> l, number |-> 0] \in Calling
    BY <2>1 DEF Calling
  <2> QED
    BY <2>2 DEF BeginLetter
<1>2. /\ calling' \in [Connection -> Calling \union {NoCalling}] /\ calling'[c] = new
      /\ \A d \in Connection : d # c => calling'[d] = calling[d]
  BY <1>1 DEF LetterInv, DeadLetterTypeOK
<1>3. /\ writer = {} /\ writer' = {c} /\ tentative' = letters
      /\ name = "store" => last_letter < MaxLetters
      /\ UNCHANGED <<letters, last_letter, dlq_closed, letterHistory, trouble>>
  BY DEF BeginLetter
<1>4. \A d \in Connection : ~InTransaction(d)
  BY <1>3 DEF LetterInv, LockHeld
<1>5. DeadLetterTypeOK'
  BY <1>2, <1>3 DEF LetterInv, DeadLetterTypeOK, letterHistory
<1>6. LockHeld'
  BY <1>2, <1>3, <1>4 DEF LockHeld, InTransaction
<1>7. SoFar(c)'
  BY <1>1, <1>2, <1>3 DEF SoFar
<1>8. \A d \in Connection : d # c => SoFar(d)'
  BY <1>2, <1>4 DEF SoFar, InTransaction
<1> QED
  BY <1>1, <1>2, <1>3, <1>5, <1>6, <1>7, <1>8, QuietStep DEF Transactions

LEMMA InsertStepKeeps == ASSUME LetterInv, NEW c \in Connection, InsertLetter(c) PROVE LetterInv'
<1>1. /\ calling[c].at = "begun" /\ calling[c].name = "store" /\ InTransaction(c) /\ SoFar(c)
      /\ tentative = letters /\ last_letter < MaxLetters /\ calling[c].id \in Letter
      /\ DeadLetterTypeOK /\ last_letter \in Nat /\ MaxLetters \in Nat
  BY CallOf, RowTypes DEF LetterInv, InsertLetter, CAt, InTransaction, Transactions, SoFar
<1>2. PICK n \in 0..MaxLetters : n = last_letter + 1
  BY <1>1
<1>3. /\ calling' \in [Connection -> Calling \union {NoCalling}]
      /\ calling'[c].at = "written" /\ calling'[c].number = last_letter + 1
      /\ calling'[c].name = calling[c].name /\ calling'[c].id = calling[c].id
      /\ \A d \in Connection : d # c => calling'[d] = calling[d]
  <2>1. calling' = [calling EXCEPT ![c].at = "written", ![c].number = n]
    BY <1>2 DEF InsertLetter
  <2> QED
    BY <1>1, <1>2, <2>1, CallStep
<1>4. /\ tentative' = Append(letters, [id |-> calling[c].id, number |-> last_letter + 1])
      /\ ~HasId(letters, calling[c].id)
      /\ UNCHANGED <<letters, last_letter, writer, dlq_closed, letterHistory, trouble>>
  BY <1>1 DEF InsertLetter
<1>5. tentative' \in Seq(LetterRow)
  <2>1. n \in 1..MaxLetters
    BY <1>1, <1>2
  <2>2. [id |-> calling[c].id, number |-> n] \in LetterRow
    BY <1>1, <2>1 DEF LetterRow
  <2> QED
    BY <1>1, <1>2, <1>4, <2>2 DEF DeadLetterTypeOK
<1>6. SoFar(c)'
  BY <1>1, <1>3, <1>4 DEF SoFar, HasId
<1> QED
  BY <1>1, <1>3, <1>4, <1>5, <1>6, GoOnStep

LEMMA SelectStepKeeps == ASSUME LetterInv, NEW c \in Connection, SelectLetter(c) PROVE LetterInv'
<1>1. /\ calling[c].at = "begun" /\ calling[c].name = "remove" /\ InTransaction(c)
      /\ tentative = letters /\ DeadLetterTypeOK /\ HasId(letters, calling[c].id)
  BY DEF LetterInv, SelectLetter, CAt, InTransaction, Transactions, SoFar
<1>2. PICK i \in DOMAIN letters :
        letters[i].id = calling[c].id /\ letters[i].number = NumberOf(letters, calling[c].id)
  <2>1. PICK row \in {letters[i] : i \in DOMAIN letters} :
          row.id = calling[c].id /\ row.number = NumberOf(letters, calling[c].id)
    BY <1>1 DEF HasId, NumberOf
  <2> QED
    BY <2>1
<1>3. PICK n \in 0..MaxLetters : n = NumberOf(letters, calling[c].id) /\ n = letters[i].number
  BY <1>1, <1>2, RowTypes
<1>4. /\ calling' \in [Connection -> Calling \union {NoCalling}]
      /\ calling'[c].at = "selected" /\ calling'[c].number = n
      /\ calling'[c].name = calling[c].name /\ calling'[c].id = calling[c].id
      /\ \A d \in Connection : d # c => calling'[d] = calling[d]
  <2>1. calling' = [calling EXCEPT ![c].at = "selected", ![c].number = n]
    BY <1>1, <1>3 DEF SelectLetter
  <2> QED
    BY <1>1, <2>1, CallStep
<1>5. UNCHANGED <<letters, last_letter, writer, tentative, dlq_closed, letterHistory, trouble>>
  BY DEF SelectLetter
<1>6. SoFar(c)'
  BY <1>1, <1>2, <1>3, <1>4, <1>5 DEF SoFar, RowOf
<1> QED
  BY <1>1, <1>4, <1>5, <1>6, GoOnStep DEF DeadLetterTypeOK

LEMMA DeleteStepKeeps == ASSUME LetterInv, NEW c \in Connection, DeleteLetter(c) PROVE LetterInv'
<1>1. /\ calling[c].at = "selected" /\ calling[c].name = "remove" /\ InTransaction(c)
      /\ tentative = letters /\ DeadLetterTypeOK /\ RowsUnique /\ calling[c].number \in 0..MaxLetters
      /\ \E i \in DOMAIN letters : RowOf(c, i)
  BY CallOf DEF LetterInv, DeleteLetter, CAt, InTransaction, Transactions, SoFar
<1>2. PICK i \in DOMAIN letters : letters[i].id = calling[c].id /\ tentative' = RemoveAt(letters, i)
  BY <1>1 DEF DeleteLetter
<1>3. RowOf(c, i)
  BY <1>1, <1>2 DEF RowOf, RowsUnique
<1>4. tentative' \in Seq(LetterRow)
  BY <1>1, <1>2, RowRemoved DEF DeadLetterTypeOK
<1>5. /\ calling' \in [Connection -> Calling \union {NoCalling}]
      /\ calling'[c].at = "written" /\ calling'[c].number = calling[c].number
      /\ calling'[c].name = calling[c].name /\ calling'[c].id = calling[c].id
      /\ \A d \in Connection : d # c => calling'[d] = calling[d]
  BY <1>1, CallStep DEF DeleteLetter, Further
<1>6. UNCHANGED <<letters, last_letter, writer, dlq_closed, letterHistory, trouble>>
  BY DEF DeleteLetter
<1>7. SoFar(c)'
  BY <1>1, <1>2, <1>3, <1>5, <1>6 DEF SoFar, RowOf
<1> QED
  BY <1>1, <1>4, <1>5, <1>6, <1>7, GoOnStep


LEMMA LetterInvStep == LetterInv /\ [DeadLetterNext]_letterVars => LetterInv'
<1> SUFFICES ASSUME LetterInv, [DeadLetterNext]_letterVars PROVE LetterInv'
  OBVIOUS
<1>1. CASE UNCHANGED letterVars
  BY <1>1 DEF letterVars, letterHistory, LetterInv, DeadLetterTypeOK, StoredUntilRemoved, LockHeld, RowsUnique,
      Transactions, SoFar, Answers, Numbers, HasId, RowOf, InTransaction, Committed
<1>2. ASSUME NEW c \in Connection, LetterUnreadable(c) \/ RollBack(c) PROVE LetterInv'
  BY <1>2, EndStep DEF LetterUnreadable, RollBack, LetterInv, DeadLetterTypeOK
<1>3. ASSUME NEW c \in Connection, TransactionLeftOpen(c) \/ StatementFails(c) \/ ProcessDies(c)
      PROVE  LetterInv'
  BY <1>3, EndStep DEF TransactionLeftOpen, StatementFails, ProcessDies, Troubled, LetterInv, DeadLetterTypeOK
<1>4. ASSUME NEW c \in Connection, CloseQueue(c) PROVE LetterInv'
  <2>1. /\ ~InTransaction(c) /\ writer' = writer \ {c} /\ dlq_closed' \subseteq Connection
        /\ UNCHANGED <<letters, last_letter, tentative, calling, letterHistory, trouble>>
    BY <1>4 DEF CloseQueue, CAt, InTransaction, LetterInv, DeadLetterTypeOK
  <2>2. LockHeld'
    BY <2>1 DEF LetterInv, LockHeld, InTransaction
  <2> QED
    BY <2>1, <2>2 DEF letterHistory, LetterInv, DeadLetterTypeOK, StoredUntilRemoved, RowsUnique,
      Transactions, SoFar, Answers, Numbers, HasId, RowOf, Committed
<1>5. ASSUME NEW c \in Connection, OpenQueue(c) PROVE LetterInv'
  BY <1>5 DEF OpenQueue, letterHistory, LetterInv, DeadLetterTypeOK, StoredUntilRemoved, LockHeld, RowsUnique,
      Transactions, SoFar, Answers, Numbers, HasId, RowOf, InTransaction, Committed
<1> QED
  BY <1>1, <1>2, <1>3, <1>4, <1>5, BeginStepKeeps, InsertStepKeeps, SelectStepKeeps, DeleteStepKeeps,
     CommitStepKeeps, ReturnStepKeeps
  DEF DeadLetterNext

LEMMA LetterInvInit == DeadLetterInit => LetterInv
<1> SUFFICES ASSUME DeadLetterInit PROVE LetterInv
  OBVIOUS
<1>1. MaxLetters \in Nat /\ DOMAIN letters = {} /\ Numbers(letters) = {}
  BY DeadLetterAssumption DEF DeadLetterInit, Numbers
<1>2. DeadLetterTypeOK
  BY <1>1 DEF DeadLetterInit, DeadLetterTypeOK
<1>3. StoredUntilRemoved /\ RowsUnique
  BY <1>1 DEF DeadLetterInit, StoredUntilRemoved, RowsUnique
<1>4. \A c \in Connection : calling[c].at = "none"
  BY DEF DeadLetterInit, NoCalling
<1> QED
  BY <1>2, <1>3, <1>4
  DEF DeadLetterInit, LetterInv, LockHeld, InTransaction, Transactions, SoFar, Answers, Committed

THEOREM LetterInvariant == DeadLetterSpec => []LetterInv
  BY LetterInvInit, LetterInvStep, PTL DEF DeadLetterSpec

(***************************************************************************)
(* A letter whose store has returned is in the table until a remove has    *)
(* taken it, for good, and at most one caller was handed it: whatever      *)
(* fails, dies, or is left open on the way (StoredUntilRemoved).           *)
(***************************************************************************)
THEOREM LettersStayStored == DeadLetterSpec => []StoredUntilRemoved
<1>1. LetterInv => StoredUntilRemoved
  BY DEF LetterInv
<1> QED
  BY <1>1, LetterInvariant, PTL

-----------------------------------------------------------------------------
(* The table implements DeadLetterQueueProtocol: a commit is a step of it, *)
(* everything else is none.                                                *)

IdsOf(rows) == [i \in DOMAIN rows |-> rows[i].id]

LEMMA CommitImplements ==
  ASSUME LetterInv, NEW c \in Connection, CommitLetter(c)
  PROVE  DurableQueue!HeldNext
<1>1. /\ SoFar(c) /\ calling[c].at = "written" /\ calling[c].name \in {"store", "remove"}
      /\ calling[c].id \in Letter /\ letters' = tentative
      /\ letters \in Seq(LetterRow) /\ DOMAIN letters = 1..Len(letters) /\ Len(letters) \in Nat
  BY CallOf DEF LetterInv, Transactions, CommitLetter, CAt, DeadLetterTypeOK
<1>2. PICK l \in Letter : l = calling[c].id
  BY <1>1
<1>3. /\ IdsOf(letters) \in Seq(Letter) /\ Len(IdsOf(letters)) = Len(letters)
      /\ \A i \in 1..Len(letters) : IdsOf(letters)[i] = letters[i].id
  <2>1. IdsOf(letters) \in [1..Len(letters) -> Letter]
    BY <1>1, RowTypes DEF IdsOf, LetterInv
  <2> QED
    BY <1>1, <2>1 DEF IdsOf
<1>4. CASE calling[c].name = "store"
  <2>1. PICK row \in LetterRow : row.id = l /\ letters' = Append(letters, row)
    <3>1. last_letter + 1 \in 1..MaxLetters
      BY <1>1, <1>4, RowTypes DEF LetterInv, SoFar
    <3>2. [id |-> calling[c].id, number |-> last_letter + 1] \in LetterRow
      BY <1>1, <3>1 DEF LetterRow
    <3> QED
      BY <1>1, <1>2, <1>4, <3>2 DEF SoFar
  <2>2. IdsOf(letters') = Append(IdsOf(letters), l)
    <3>1. /\ DOMAIN letters' = 1..Len(letters)+1 /\ letters'[Len(letters)+1] = row
          /\ \A i \in 1..Len(letters) : letters'[i] = letters[i]
      BY <1>1, <2>1
    <3>2. /\ Append(IdsOf(letters), l) \in Seq(Letter)
          /\ Len(Append(IdsOf(letters), l)) = Len(letters) + 1
          /\ \A i \in 1..Len(letters) : Append(IdsOf(letters), l)[i] = IdsOf(letters)[i]
          /\ Append(IdsOf(letters), l)[Len(letters)+1] = l
      BY <1>3, AppendProperties
    <3>3. PICK ids \in Seq(Letter) : ids = Append(IdsOf(letters), l)
      BY <3>2
    <3>4. /\ DOMAIN ids = 1..Len(letters)+1
          /\ \A i \in 1..Len(letters)+1 : ids[i] = letters'[i].id
      BY <1>1, <1>3, <2>1, <3>1, <3>2, <3>3
    <3>5. DOMAIN IdsOf(letters') = 1..Len(letters)+1
          /\ \A i \in 1..Len(letters)+1 : IdsOf(letters')[i] = letters'[i].id
      BY <3>1 DEF IdsOf
    <3>6. IdsOf(letters') = ids
      BY <3>4, <3>5 DEF IdsOf
    <3> QED
      BY <3>3, <3>6
  <2>3. \A i \in DOMAIN letters : letters[i].id # l
    BY <1>1, <1>2, <1>4 DEF SoFar, HasId
  <2>4. DurableQueue!HeldStore(l)
    BY <2>2, <2>3 DEF DurableQueue!HeldStore, DurableQueue!Kept, IdsOf
  <2> QED
    BY <2>4 DEF DurableQueue!HeldNext
<1>5. CASE calling[c].name = "remove"
  <2>1. PICK i \in 1..Len(letters) : letters[i].id = l /\ letters' = RemoveAt(letters, i)
    BY <1>1, <1>2, <1>5 DEF SoFar, RowOf
  <2>2. /\ RemoveAt(letters, i) \in Seq(LetterRow) /\ Len(RemoveAt(letters, i)) = Len(letters) - 1
        /\ \A j \in 1..Len(letters)-1 :
             RemoveAt(letters, i)[j] = IF j < i THEN letters[j] ELSE letters[j+1]
    BY <1>1, RowRemoved, Zenon
  <2>3. /\ letters' \in Seq(LetterRow) /\ DOMAIN letters' = 1..Len(letters)-1
        /\ \A j \in 1..Len(letters)-1 : letters'[j] = IF j < i THEN letters[j] ELSE letters[j+1]
    BY <1>1, <2>1, <2>2
  <2>4. i \in 1..Len(IdsOf(letters))
    BY <1>3
  <2>5. /\ RemoveAt(IdsOf(letters), i) \in Seq(Letter)
        /\ Len(RemoveAt(IdsOf(letters), i)) = Len(IdsOf(letters)) - 1
        /\ \A j \in 1..Len(IdsOf(letters))-1 :
             RemoveAt(IdsOf(letters), i)[j] = IF j < i THEN IdsOf(letters)[j] ELSE IdsOf(letters)[j+1]
    BY <1>3, <2>4, RowRemoved, Zenon
  <2>6. \A j \in 1..Len(letters)-1 : letters'[j].id = RemoveAt(IdsOf(letters), i)[j]
    BY <1>1, <1>3, <2>3, <2>5
  <2>7. PICK ids \in Seq(Letter) : ids = RemoveAt(IdsOf(letters), i)
    BY <2>5
  <2>8. IdsOf(letters') = ids
    <3>1. DOMAIN ids = 1..Len(letters)-1
      BY <1>1, <1>3, <2>5, <2>7
    <3>2. DOMAIN IdsOf(letters') = 1..Len(letters)-1
          /\ \A j \in 1..Len(letters)-1 : IdsOf(letters')[j] = letters'[j].id
      BY <2>3 DEF IdsOf
    <3> QED
      BY <2>6, <2>7, <3>1, <3>2 DEF IdsOf
  <2>9. IdsOf(letters)[i] = l /\ i \in DOMAIN IdsOf(letters)
    BY <1>3, <2>1, <2>4
  <2>10. DurableQueue!HeldRemove(l)
    <3>1. IdsOf(letters') = RemoveAt(IdsOf(letters), i)
      BY <2>7, <2>8
    <3>2. /\ [j \in DOMAIN letters |-> letters[j].id][i] = l
          /\ i \in DOMAIN [j \in DOMAIN letters |-> letters[j].id]
          /\ [j \in DOMAIN letters' |-> letters'[j].id]
               = RemoveAt([j \in DOMAIN letters |-> letters[j].id], i)
      BY <2>9, <3>1, Zenon DEF IdsOf
    <3>3. RemoveAt([j \in DOMAIN letters |-> letters[j].id], i)
            = DurableQueue!RemoveAt([j \in DOMAIN letters |-> letters[j].id], i)
      BY Zenon DEF RemoveAt, DurableQueue!RemoveAt
    <3> QED
      BY <3>2, <3>3, Zenon DEF DurableQueue!HeldRemove
  <2> QED
    BY <2>10 DEF DurableQueue!HeldNext
<1> QED
  BY <1>1, <1>4, <1>5

LEMMA LettersImplement ==
  LetterInv /\ [DeadLetterNext]_letterVars =>
    [DurableQueue!HeldNext]_([i \in DOMAIN letters |-> letters[i].id])
<1> SUFFICES ASSUME LetterInv, [DeadLetterNext]_letterVars
             PROVE  DurableQueue!HeldNext \/ letters' = letters
  OBVIOUS
<1> QED
  BY CommitImplements
  DEF DeadLetterNext, letterVars, BeginLetter, InsertLetter, SelectLetter, DeleteLetter, ReturnLetter,
      LetterUnreadable, RollBack, TransactionLeftOpen, StatementFails, CloseQueue, ProcessDies, OpenQueue

(***************************************************************************)
(* The durable dead-letter queue keeps the promise of its protocol,        *)
(* whatever fails, dies, or is called at the same time.                    *)
(***************************************************************************)
THEOREM DurableQueueKeepsLetters == DeadLetterSpec => DurableKeepsLetters
<1>1. DeadLetterInit => DurableQueue!HeldInit
  BY DEF DeadLetterInit, DurableQueue!HeldInit
<1> QED
  BY <1>1, LettersImplement, LetterInvariant, PTL DEF DeadLetterSpec, DurableKeepsLetters, DurableQueue!HeldSpec

-----------------------------------------------------------------------------
(* The in-memory dead-letter queue: its dict and its list hold the same    *)
(* ids, each of them once, so that records() passes none over.             *)

ListedOnce ==
  /\ records = {letter_order[i] : i \in DOMAIN letter_order}
  /\ \A i, j \in DOMAIN letter_order : letter_order[i] = letter_order[j] => i = j

MemoryInv == MemoryTypeOK /\ ListedOnce

LEMMA LeastNatural ==
  ASSUME NEW S \in SUBSET Nat, S # {}
  PROVE  \E x \in S : \A y \in S : x <= y
<1>1. PICK x \in S : \A y \in S : ~(<<y, x>> \in OpToRel(<, Nat))
  BY NatLessThanWellFounded, WFMin, Zenon
<1>2. \A y \in S : ~(y < x)
  BY <1>1 DEF OpToRel
<1> QED
  BY <1>2

\* What records() gathers of the first n of the list is all of them.
LEMMA AllListed == MemoryTypeOK /\ ListedOnce => Listed = letter_order
<1> SUFFICES ASSUME MemoryTypeOK, ListedOnce PROVE Listed = letter_order
  OBVIOUS
<1> DEFINE L == Len(letter_order)
           Step(n) == IF letter_order[n] \in records THEN <<letter_order[n]>> ELSE <<>>
           Gathers(f) == f = [n \in 0..L |-> IF n = 0 THEN <<>> ELSE f[n - 1] \o Step(n)]
           Known == CHOOSE f : Gathers(f)
           Prefix == [n \in 0..L |-> SubSeq(letter_order, 1, n)]
<1>1. /\ letter_order \in Seq(RecordId) /\ L \in Nat
      /\ \A n \in 1..L : letter_order[n] \in RecordId /\ Step(n) = <<letter_order[n]>>
  BY DEF MemoryTypeOK, ListedOnce
<1>2. Listed = Known[L]
  BY DEF Listed
<1> HIDE DEF Step, L
<1>3. SubSeq(letter_order, 1, 0) = <<>>
  BY <1>1
<1>4. ASSUME NEW n \in 1..L
      PROVE  SubSeq(letter_order, 1, n - 1) \o <<letter_order[n]>> = SubSeq(letter_order, 1, n)
  BY <1>1 DEF L
<1>5. Gathers(Prefix)
  <2>1. ASSUME NEW n \in 1..L
        PROVE  Prefix[n - 1] \o Step(n) = SubSeq(letter_order, 1, n)
    <3>1. Prefix[n - 1] = SubSeq(letter_order, 1, n - 1)
      BY <1>1
    <3> HIDE DEF Prefix
    <3> QED
      BY <1>1, <1>4, <3>1, Zenon
  <2>2. ASSUME NEW n \in 0..L
        PROVE  Prefix[n] = IF n = 0 THEN <<>> ELSE Prefix[n - 1] \o Step(n)
    <3>1. Prefix[n] = SubSeq(letter_order, 1, n)
      OBVIOUS
    <3>2. n = 0 \/ n \in 1..L
      BY <1>1
    <3> HIDE DEF Prefix
    <3> QED
      BY <1>3, <2>1, <3>1, <3>2, Zenon
  <2>3. Prefix = [n \in 0..L |-> Prefix[n]]
    OBVIOUS
  <2> HIDE DEF Prefix
  <2> QED
    BY <2>2, <2>3, Zenon
<1>6. Gathers(Known)
  <2> HIDE DEF Gathers, Prefix
  <2> QED
    BY <1>5
<1>7. ASSUME NEW n \in 0..L PROVE Known[n] = Prefix[n]
  <2> DEFINE Differ == {m \in 0..L : Known[m] # Prefix[m]}
  <2>1. ASSUME NEW f, Gathers(f), NEW m \in 0..L
        PROVE  (m = 0 => f[m] = <<>>) /\ (m # 0 => f[m] = f[m - 1] \o Step(m))
    BY <2>1
  <2> HIDE DEF Known, Prefix, Gathers
  <2>2. SUFFICES ASSUME Differ # {} PROVE FALSE
    OBVIOUS
  <2>3. Differ \in SUBSET Nat
    BY <1>1
  <2>4. PICK m \in Differ : \A k \in Differ : m <= k
    BY <2>2, <2>3, LeastNatural, Zenon
  <2>5. CASE m = 0
    BY <1>5, <1>6, <2>1, <2>4, <2>5
  <2>6. CASE m # 0
    <3>1. m \in 0..L /\ m - 1 \in 0..L /\ m - 1 \notin Differ
      BY <1>1, <2>4, <2>6
    <3>2. Known[m - 1] = Prefix[m - 1]
      BY <3>1
    <3> QED
      BY <1>5, <1>6, <2>1, <2>4, <2>6, <3>1, <3>2
  <2> QED
    BY <2>5, <2>6
<1>8. Prefix[L] = letter_order
  BY <1>1 DEF L
<1> HIDE DEF Known, Prefix
<1> QED
  BY <1>1, <1>2, <1>7, <1>8

\* What a removal leaves of the list
LEMMA UnlistedOnce ==
  ASSUME MemoryInv, NEW l \in records
  PROVE  \E i \in DOMAIN letter_order :
           /\ letter_order[i] = l /\ Unlisted(l) = RemoveAt(letter_order, i)
           /\ Unlisted(l) \in Seq(RecordId) /\ DOMAIN Unlisted(l) = 1..Len(letter_order) - 1
           /\ \A j \in 1..Len(letter_order) - 1 :
                Unlisted(l)[j] = letter_order[IF j < i THEN j ELSE j + 1]
<1>1. /\ letter_order \in Seq(RecordId) /\ DOMAIN letter_order = 1..Len(letter_order)
      /\ Len(letter_order) \in Nat
  BY DEF MemoryInv, MemoryTypeOK
<1>2. PICK i \in 1..Len(letter_order) : letter_order[i] = l
  BY <1>1 DEF MemoryInv, ListedOnce
<1>3. {j \in 1..Len(letter_order) : letter_order[j] = l} = {i}
  BY <1>1, <1>2 DEF MemoryInv, ListedOnce
<1>4. Min({i}) = i
  BY <1>1 DEF Min
<1>5. Unlisted(l) = RemoveAt(letter_order, i)
  <2> DEFINE I == {j \in 1..Len(letter_order) : letter_order[j] = l}
  <2>1. RemoveFirst(letter_order, l) = RemoveAt(letter_order, Min(I))
    BY <1>2, Zenon DEF RemoveFirst, SelectInSeq
  <2> QED
    BY <1>3, <1>4, <2>1 DEF Unlisted
<1>6. /\ RemoveAt(letter_order, i) \in Seq(RecordId)
      /\ Len(RemoveAt(letter_order, i)) = Len(letter_order) - 1
      /\ \A j \in 1..Len(letter_order)-1 :
           RemoveAt(letter_order, i)[j] = IF j < i THEN letter_order[j] ELSE letter_order[j+1]
  BY <1>1, RowRemoved, Zenon
<1>7. /\ Unlisted(l) \in Seq(RecordId) /\ DOMAIN Unlisted(l) = 1..Len(letter_order) - 1
      /\ \A j \in 1..Len(letter_order) - 1 :
           Unlisted(l)[j] = letter_order[IF j < i THEN j ELSE j + 1]
  BY <1>5, <1>6
<1> QED
  BY <1>1, <1>2, <1>5, <1>7

LEMMA MemoryInvInit == MemoryInit => MemoryInv
BY DEF MemoryInit, MemoryInv, MemoryTypeOK, ListedOnce

LEMMA MemoryInvStep == MemoryInv /\ [MemoryNext]_memoryVars => MemoryInv'
<1> SUFFICES ASSUME MemoryInv, [MemoryNext]_memoryVars PROVE MemoryInv'
  OBVIOUS
<1>0. /\ letter_order \in Seq(RecordId) /\ DOMAIN letter_order = 1..Len(letter_order)
      /\ Len(letter_order) \in Nat
  BY DEF MemoryInv, MemoryTypeOK
<1>1. ASSUME NEW l \in RecordId, StoreRecord(l) PROVE MemoryInv'
  <2>1. /\ letter_order' \in Seq(RecordId) /\ DOMAIN letter_order' = 1..Len(letter_order) + 1
        /\ \A j \in 1..Len(letter_order) : letter_order'[j] = letter_order[j]
        /\ letter_order'[Len(letter_order) + 1] = l
    BY <1>0, <1>1 DEF StoreRecord
  <2>2. ListedOnce'
    BY <1>0, <1>1, <2>1 DEF StoreRecord, MemoryInv, ListedOnce
  <2> QED
    BY <1>1, <2>1, <2>2 DEF StoreRecord, MemoryInv, MemoryTypeOK
<1>2. ASSUME NEW l \in RecordId, RemoveRecord(l) PROVE MemoryInv'
  <2>1. l \in records /\ letter_order' = Unlisted(l) /\ records' = records \ {l}
    BY <1>2 DEF RemoveRecord
  <2>2. PICK i \in DOMAIN letter_order :
          /\ letter_order[i] = l
          /\ Unlisted(l) \in Seq(RecordId) /\ DOMAIN Unlisted(l) = 1..Len(letter_order) - 1
          /\ \A j \in 1..Len(letter_order) - 1 :
               Unlisted(l)[j] = letter_order[IF j < i THEN j ELSE j + 1]
    BY <2>1, UnlistedOnce
  <2>3. \A j \in DOMAIN letter_order' :
          \E k \in DOMAIN letter_order :
            k = (IF j < i THEN j ELSE j + 1) /\ k # i /\ letter_order'[j] = letter_order[k]
    BY <1>0, <2>1, <2>2
  <2>4. ASSUME NEW k \in DOMAIN letter_order, k # i
        PROVE  \E j \in DOMAIN letter_order' : letter_order'[j] = letter_order[k]
    <3>1. CASE k < i
      BY <1>0, <2>1, <2>2, <3>1
    <3>2. CASE k > i
      <4>1. k - 1 \in DOMAIN letter_order' /\ ~(k - 1 < i) /\ (k - 1) + 1 = k
        BY <1>0, <2>1, <2>2, <3>2
      <4> QED
        BY <2>1, <2>2, <4>1
    <3> QED
      BY <1>0, <2>4, <3>1, <3>2
  <2>5. ListedOnce'
    <3>1. \A j, k \in DOMAIN letter_order' : letter_order'[j] = letter_order'[k] => j = k
      BY <1>0, <2>1, <2>2, <2>3 DEF MemoryInv, ListedOnce
    <3>2. records' = {letter_order'[j] : j \in DOMAIN letter_order'}
      BY <2>1, <2>2, <2>3, <2>4 DEF MemoryInv, ListedOnce
    <3> QED
      BY <3>1, <3>2 DEF ListedOnce
  <2>6. removed_count' \in Nat /\ stored_count' \in Nat
    BY <1>2 DEF RemoveRecord, MemoryInv, MemoryTypeOK
  <2> QED
    BY <2>1, <2>2, <2>5, <2>6 DEF MemoryInv, MemoryTypeOK
<1>3. ASSUME UNCHANGED memoryVars PROVE MemoryInv'
  BY <1>3 DEF memoryVars, MemoryInv, MemoryTypeOK, ListedOnce
<1> QED
  BY <1>1, <1>2, <1>3 DEF MemoryNext

LEMMA MemoryImplements == MemoryInv /\ [MemoryNext]_memoryVars => [MemoryQueue!HeldNext]_Listed
<1> SUFFICES ASSUME MemoryInv, [MemoryNext]_memoryVars PROVE MemoryQueue!HeldNext \/ Listed' = Listed
  OBVIOUS
<1>0. Listed = letter_order
  BY AllListed DEF MemoryInv
<1>1. Listed' = letter_order'
  <2>1. MemoryInv'
    BY MemoryInvStep
  <2>2. MemoryTypeOK' /\ ListedOnce'
    BY <2>1 DEF MemoryInv
  <2>3. (Listed = letter_order)'
    BY <2>2, AllListed, PTL
  <2> QED
    BY <2>3
<1>2. ASSUME NEW l \in RecordId, StoreRecord(l) PROVE MemoryQueue!HeldNext
  <2>1. l \notin {Listed[i] : i \in DOMAIN Listed}
    BY <1>0, <1>2 DEF StoreRecord, MemoryInv, ListedOnce
  <2>2. Listed' = Append(Listed, l)
    BY <1>0, <1>1, <1>2 DEF StoreRecord
  <2> QED
    BY <2>1, <2>2, Zenon DEF MemoryQueue!HeldNext, MemoryQueue!HeldStore, MemoryQueue!Kept
<1>3. ASSUME NEW l \in RecordId, RemoveRecord(l) PROVE MemoryQueue!HeldNext
  <2>1. l \in records /\ letter_order' = Unlisted(l)
    BY <1>3 DEF RemoveRecord
  <2>2. PICK i \in DOMAIN letter_order :
          letter_order[i] = l /\ Unlisted(l) = RemoveAt(letter_order, i)
    BY <2>1, UnlistedOnce
  <2>3. RemoveAt(letter_order, i) = MemoryQueue!RemoveAt(letter_order, i)
    BY Zenon DEF RemoveAt, MemoryQueue!RemoveAt
  <2>4. i \in DOMAIN Listed /\ Listed[i] = l /\ Listed' = MemoryQueue!RemoveAt(Listed, i)
    BY <1>0, <1>1, <2>1, <2>2, <2>3
  <2> QED
    BY <2>4, Zenon DEF MemoryQueue!HeldNext, MemoryQueue!HeldRemove
<1>4. ASSUME UNCHANGED memoryVars PROVE Listed' = Listed
  BY <1>0, <1>1, <1>4 DEF memoryVars
<1> QED
  BY <1>2, <1>3, <1>4 DEF MemoryNext

(***************************************************************************)
(* The dict and the list of the in-memory dead-letter queue hold the same  *)
(* ids, each of them once.                                                 *)
(***************************************************************************)
THEOREM MemoryInvariant == MemorySpec => []MemoryInv
BY MemoryInvInit, MemoryInvStep, PTL DEF MemorySpec

(***************************************************************************)
(* The in-memory dead-letter queue keeps the promise of its protocol.      *)
(***************************************************************************)
THEOREM MemoryQueueKeepsLetters == MemorySpec => MemoryKeepsLetters
<1>1. MemoryInit => MemoryQueue!HeldInit
  <2>1. ASSUME MemoryInit PROVE Listed = <<>>
    BY <2>1, MemoryInvInit, AllListed DEF MemoryInv, MemoryInit
  <2> QED
    BY <2>1 DEF MemoryQueue!HeldInit
<1> QED
  BY <1>1, MemoryImplements, MemoryInvariant, PTL DEF MemorySpec, MemoryKeepsLetters, MemoryQueue!HeldSpec

-----------------------------------------------------------------------------
(* All of them together: whatever is stored, the rest stays as it is.      *)

LEMMA PartsApart == MCSpec => FileSpec /\ StoreSpec /\ DeadLetterSpec /\ MemorySpec
<1>1. MCInit => FileInit /\ StoreInit /\ DeadLetterInit /\ MemoryInit
  BY DEF MCInit
<1>2. [MCNext]_MCVars => /\ [FileNext]_fileVars /\ [StoreNext]_storeVars
                         /\ [DeadLetterNext]_letterVars /\ [MemoryNext]_memoryVars
  BY DEF MCNext, MCVars
<1> QED
  BY <1>1, <1>2, PTL DEF MCSpec, FileSpec, StoreSpec, DeadLetterSpec, MemorySpec

(***************************************************************************)
(* Every part of the storage keeps its type.                               *)
(***************************************************************************)
THEOREM StoresTypeCorrect == MCSpec => []StoresTypeOK
<1>1. FileInv /\ StoreInv /\ LetterInv /\ MemoryInv => StoresTypeOK
  BY DEF FileInv, StoreInv, LetterInv, MemoryInv, StoresTypeOK
<1> QED
  BY <1>1, PartsApart, FileInvInit, FileInvStep, StoreInvInit, StoreInvStep, LetterInvariant,
     MemoryInvariant, PTL DEF FileSpec, StoreSpec

(***************************************************************************)
(* Both dead-letter queues keep the promise of their protocol.             *)
(***************************************************************************)
THEOREM LettersAreKept == MCSpec => LettersKept
BY PartsApart, DurableQueueKeepsLetters, MemoryQueueKeepsLetters, PTL DEF LettersKept
=============================================================================
