------------------------------- MODULE Logger -------------------------------
(***************************************************************************)
(* core/logger: Log() queues an entry, one worker writes batches to two    *)
(* cache files with rotation between them, and ReadAll(), called by        *)
(* GET /api/logs for the web UI's page, queues a flush request, waits for  *)
(* it and then reads the two files in two calls.                           *)
(*                                                                         *)
(* Entries are numbered in the order of Log() and take one unit of a       *)
(* file's cap each; 0 in the queue is a flush request.  A cache write may  *)
(* fail with the file untouched or cut off, and power may go while a file  *)
(* is being written, which the FAT backend does in place.                  *)
(***************************************************************************)
EXTENDS Naturals, Sequences, SequencesExt

CONSTANTS MaxLogEntries,   \* max_log_file_bytes_, in entries
          MaxLogged,       \* bound: entries ever logged
          MaxLogFaults,    \* bound: failing writes and power losses
          MaxReads         \* bound: ReadAll() calls

ASSUME LogAssumption ==
    /\ MaxLogEntries \in Nat \ {0} /\ MaxLogged \in Nat
    /\ MaxLogFaults \in Nat /\ MaxReads \in Nat

VARIABLES log_pending,     \* pending_
          logged,          \* number of the last entry
          log_worker,      \* WorkerLoop(): pc, batch, flush_signals
          rotated, current,\* the cache blobs kRotatedKey and kCurrentKey
          handled,         \* last entry whose write has been attempted
          reader,          \* one ReadAll() call: pc, what it asked for, has read
          faults_left, reads_left

log_vars == <<log_pending, logged, log_worker, rotated, current, handled,
              reader, faults_left, reads_left>>

Waiting == [pc |-> "wait", batch |-> <<>>, flush |-> FALSE]
NoReader == [pc |-> "none", asked |-> 0, rotated |-> <<>>, view |-> <<>>]

-----------------------------------------------------------------------------
Log ==
    /\ logged < MaxLogged
    /\ logged' = logged + 1 /\ log_pending' = Append(log_pending, logged + 1)
    /\ UNCHANGED <<log_worker, rotated, current, handled, reader, faults_left, reads_left>>

\* The newest entries that fit (at least one always does).
TrimToTail(s) ==
    IF Len(s) <= MaxLogEntries THEN s
    ELSE SubSeq(s, Len(s) - MaxLogEntries + 1, Len(s))

\* Pop() and TryPop() take one item each.
Consume(item) ==
    [pc |-> "drain",
     batch |-> IF item = 0 THEN log_worker.batch ELSE Append(log_worker.batch, item),
     flush |-> log_worker.flush \/ item = 0]

\* Mutant of WorkerTakes: a flush request is answered ahead of the write.
WorkerTakesAnsweringFirst ==
    /\ log_worker.pc \in {"wait", "drain"} /\ log_pending # <<>>
    /\ log_worker' = Consume(Head(log_pending)) /\ log_pending' = Tail(log_pending)
    /\ reader' = IF reader.pc = "waiting" /\ Head(log_pending) = 0
                 THEN [reader EXCEPT !.pc = "read_rotated"] ELSE reader
    /\ UNCHANGED <<logged, rotated, current, handled, faults_left, reads_left>>

\* WorkerLoop(): Pop(), then TryPop() until the queue is empty; other threads
\* push meanwhile.
WorkerTakes ==
    /\ log_worker.pc \in {"wait", "drain"} /\ log_pending # <<>>
    /\ log_worker' = Consume(Head(log_pending)) /\ log_pending' = Tail(log_pending)
    /\ UNCHANGED <<logged, rotated, current, handled, reader, faults_left, reads_left>>

\* WriteBatch() decides whether to rotate from the file it reads, which only
\* this thread writes; a batch without entries is not written.
WorkerDrained ==
    /\ log_worker.pc = "drain" /\ log_pending = <<>>
    /\ log_worker' = [log_worker EXCEPT !.pc =
          IF log_worker.batch = <<>> THEN "signal"
          ELSE IF Len(current) + Len(log_worker.batch) > MaxLogEntries THEN "rotate"
          ELSE "append"]
    /\ UNCHANGED <<log_pending, logged, rotated, current, handled, reader, faults_left, reads_left>>

\* Storage::WriteCache(): on failure the file keeps its content, or a part
\* of the new one; the Logger prints a line and goes on.
WriteCache(old, new, result) ==
    \/ result = new /\ UNCHANGED faults_left
    \/ /\ faults_left > 0 /\ faults_left' = faults_left - 1
       /\ result \in {old} \cup Prefixes(new)

Append1 ==      \* the batch fits
    /\ log_worker.pc = "append"
    /\ \E blob \in {current} \cup Prefixes(current \o log_worker.batch) :
          WriteCache(current, current \o log_worker.batch, blob) /\ current' = blob
    /\ handled' = Last(log_worker.batch)
    /\ log_worker' = [log_worker EXCEPT !.pc = "signal"]
    /\ UNCHANGED <<log_pending, logged, rotated, reader, reads_left>>

\* The content before this batch replaces the backup.
RotateBackup ==
    /\ log_worker.pc = "rotate"
    /\ \E blob \in {rotated} \cup Prefixes(current) :
          WriteCache(rotated, current, blob) /\ rotated' = blob
    /\ log_worker' = [log_worker EXCEPT !.pc = "restart"]
    /\ UNCHANGED <<log_pending, logged, current, handled, reader, reads_left>>

\* The batch starts the fresh current blob.
RotateRestart ==
    /\ log_worker.pc = "restart"
    /\ \E blob \in {current} \cup Prefixes(TrimToTail(log_worker.batch)) :
          WriteCache(current, TrimToTail(log_worker.batch), blob) /\ current' = blob
    /\ handled' = Last(log_worker.batch)
    /\ log_worker' = [log_worker EXCEPT !.pc = "signal"]
    /\ UNCHANGED <<log_pending, logged, rotated, reader, reads_left>>

\* The flush signals, and back to Pop().
WorkerSignals ==
    /\ log_worker.pc = "signal" /\ log_worker' = Waiting
    /\ reader' = IF log_worker.flush /\ reader.pc = "waiting"
                 THEN [reader EXCEPT !.pc = "read_rotated"] ELSE reader
    /\ UNCHANGED <<log_pending, logged, rotated, current, handled, faults_left, reads_left>>

-----------------------------------------------------------------------------
\* ReadAll(): the flush request, then the two reads, each under Storage's
\* mutex but not together.
ReadAllAsks ==
    /\ reader.pc \in {"none", "view"} /\ reads_left > 0
    /\ reads_left' = reads_left - 1
    /\ reader' = [NoReader EXCEPT !.pc = "waiting", !.asked = logged]
    /\ log_pending' = Append(log_pending, 0)
    /\ UNCHANGED <<logged, log_worker, rotated, current, handled, faults_left>>

ReadRotated ==
    /\ reader.pc = "read_rotated"
    /\ reader' = [reader EXCEPT !.pc = "read_current", !.rotated = rotated]
    /\ UNCHANGED <<log_pending, logged, log_worker, rotated, current, handled, faults_left, reads_left>>

ReadCurrent ==
    /\ reader.pc = "read_current"
    /\ reader' = [reader EXCEPT !.pc = "view", !.view = reader.rotated \o current]
    /\ UNCHANGED <<log_pending, logged, log_worker, rotated, current, handled, faults_left, reads_left>>

\* Power goes: the queue and the batch are gone, the file being written
\* holds a part of what was to be written.
LogPowerLoss ==
    /\ faults_left > 0 /\ faults_left' = faults_left - 1
    /\ \/ log_worker.pc = "append" /\ UNCHANGED rotated
          /\ current' \in Prefixes(current \o log_worker.batch)
       \/ log_worker.pc = "rotate" /\ UNCHANGED current
          /\ rotated' \in Prefixes(current)
       \/ log_worker.pc = "restart" /\ UNCHANGED rotated
          /\ current' \in Prefixes(TrimToTail(log_worker.batch))
       \/ log_worker.pc \in {"wait", "drain", "signal"} /\ UNCHANGED <<rotated, current>>
    /\ log_pending' = <<>> /\ log_worker' = Waiting
    /\ handled' = logged /\ reader' = NoReader
    /\ UNCHANGED <<logged, reads_left>>

LogInit ==
    /\ log_pending = <<>> /\ logged = 0 /\ log_worker = Waiting
    /\ rotated = <<>> /\ current = <<>> /\ handled = 0
    /\ reader = NoReader /\ faults_left = MaxLogFaults /\ reads_left = MaxReads

WorkerStep == WorkerTakes \/ WorkerDrained \/ Append1 \/ RotateBackup \/ RotateRestart \/ WorkerSignals

LogNext == Log \/ WorkerStep \/ ReadAllAsks \/ ReadRotated \/ ReadCurrent \/ LogPowerLoss

\* The worker is a task of its own that only ever waits for its queue.
LogSpec == LogInit /\ [][LogNext]_log_vars /\ WF_log_vars(WorkerStep)

-----------------------------------------------------------------------------
(***************************************************************************)
(* Properties.                                                             *)
(***************************************************************************)
Increasing(s) == \A i, j \in 1..Len(s) : i < j => s[i] < s[j]

\* Types; the two files stay within their caps whatever fails.
LogTypeOK ==
    /\ log_worker.pc \in {"wait", "drain", "append", "rotate", "restart", "signal"}
    /\ reader.pc \in {"none", "waiting", "read_rotated", "read_current", "view"}
    /\ Len(rotated) <= MaxLogEntries /\ Len(current) <= MaxLogEntries
    /\ handled <= logged /\ reader.asked <= logged

\* Backup and current log, read one after the other, are in the order of
\* the Log() calls with nothing twice, but for a beginning the two have in
\* common, left by a rotation that was cut short.  Nothing else may come of
\* failures of either of WriteBatch()'s two writes, or of power.
LogInOrder ==
    \E k \in 0..Len(rotated) :
        /\ IsPrefix(SubSeq(rotated, 1, k), current)
        /\ Increasing(rotated \o SubSeq(current, k + 1, Len(current)))

\* As long as nothing fails, the newest entry written is always stored, last:
\* a rotation, also one with a batch above the cap, never drops it.
NewestStored ==
    faults_left = MaxLogFaults /\ handled > 0 => current # <<>> /\ Last(current) = handled

\* ReadAll() goes on to read only when every entry logged before it was
\* called has been through the worker.
FlushComplete ==
    reader.pc \in {"read_rotated", "read_current", "view"} => reader.asked <= handled

\* The log survives its rotations, failed writes and power failures in order
\* and within its caps, and ReadAll() waits for what was logged before it.
LogSafe == LogTypeOK /\ LogInOrder /\ NewestStored /\ FlushComplete

\* ReadAll() does not wait forever.
FlushAnswered == []<>(reader.pc # "waiting")

\* logger.h: "a caller never sees a view that's missing something it already
\* logged".  What was logged before ReadAll() and is still stored when it
\* returns is in its view.
ViewComplete ==
    reader.pc = "read_current" =>
       \A n \in 1..reader.asked :
          (Contains(rotated, n) \/ Contains(current, n))
          => Contains(reader.rotated \o current, n)
=============================================================================
