--------------------------- MODULE IndexedLogWriter ---------------------------
(***************************************************************************)
(* streams/indexed_log_writer over its two byte writers (RecordWriter in   *)
(* ExistingRecords mode and IndexWriter) and the two files they own.       *)
(*                                                                         *)
(* One exclusive owner calls write_record, flush, sync_data, finalize and  *)
(* into_inner.  flush and sync_data are futures: they stop at every await, *)
(* the files make progress or fail in between, and the owner may drop      *)
(* them.  Both byte writers run the same output protocol, so their state   *)
(* and their steps are indexed by Outputs.                                 *)
(*                                                                         *)
(* Bytes carry what the properties tell apart: a log byte knows its record *)
(* and its offset in it, an index byte the position its entry encodes and  *)
(* its offset in the entry.                                                *)
(***************************************************************************)
EXTENDS Locations, Sequences

CONSTANTS
  FileNumber,        \* the file this writer appends to
  Lengths,           \* encoded record lengths the owner may append
  INDEX_ENTRY_LEN,   \* bytes of one index entry; 8 in the code
  RecoveredPairs     \* the pairs a writer can be constructed on

Outputs == {"log", "index"}

FirstId == first_record_id(FileNumber)

LogByte == [seq : SequenceNumber, k : Nat, len : Nat]
IndexByte == [end : Nat, k : Nat]
Byte == LogByte \cup IndexByte

\* A value for each of the two outputs.
Pair(log, index) == [f \in Outputs |-> IF f = "log" THEN log ELSE index]

\* Record::as_bytes: the complete encoding, copied unchanged.
LogBytes(seq, length) ==
  [k \in 1 .. length |-> [seq |-> seq, k |-> k, len |-> length]]

\* LogFilePosition::get().to_le_bytes().
IndexBytes(position) ==
  [k \in 1 .. INDEX_ENTRY_LEN |-> [end |-> position, k |-> k]]

IsLast(b) == b.k = b.len

\* The byte b can come right after the byte a in a log that holds each record
\* once, whole and in order.
Follows(a, b) ==
  IF IsLast(a) THEN b.seq = a.seq + 1 /\ b.k = 1
               ELSE b.seq = a.seq /\ b.k = a.k + 1 /\ b.len = a.len

(***************************************************************************)
(* The layout of a log and its dense index when the file holds the records *)
(* that end at the offsets in the sequence ends.                           *)
(***************************************************************************)
LogLayout(log, ends) ==
  /\ Len(log) = IF ends = << >> THEN 0 ELSE ends[Len(ends)]
  /\ log # << >> => log[1].seq = FirstId /\ log[1].k = 1
  /\ \A i \in 1 .. Len(log) - 1 : Follows(log[i], log[i + 1])
  /\ \A i \in 1 .. Len(ends) :
       /\ ends[i] \in 1 .. Len(log)
       /\ IsLast(log[ends[i]])
       /\ log[ends[i]].seq = FirstId + i - 1

IndexLayout(index, ends) ==
  /\ Len(index) = Len(ends) * INDEX_ENTRY_LEN
  /\ \A i \in 1 .. Len(ends), k \in 1 .. INDEX_ENTRY_LEN :
       index[(i - 1) * INDEX_ENTRY_LEN + k] = [end |-> ends[i], k |-> k]

EndOf(ends) ==
  IF ends = << >> THEN NoEnd
  ELSE [seq |-> FirstId + Len(ends) - 1, pos |-> ends[Len(ends)]]

ASSUME WriterAssumption ==
  /\ FileNumber \in 0 .. MAX_FILE
  /\ Lengths \subseteq Nat \ {0}
  /\ INDEX_ENTRY_LEN \in Nat \ {0}

(***************************************************************************)
(* What IndexedLogWriter::new and From<InitializedStream> are given: an    *)
(* empty pair, or a repaired and synchronised pair that is not full.       *)
(***************************************************************************)
ASSUME RecoveredAssumption ==
  \A p \in RecoveredPairs :
    /\ p.log \in Seq(Byte) /\ p.index \in Seq(Byte) /\ p.ends \in Seq(Nat)
    /\ Len(p.ends) < RECORDS_PER_FILE
    /\ FirstId + Len(p.ends) <= MAX_SEQUENCE
    /\ LogLayout(p.log, p.ends)
    /\ IndexLayout(p.index, p.ends)

VARIABLES
  state,               \* IndexedLogWriterState
  expected_record_id,
  record_count,
  buffered_end, flushed_end, synced_end,
  buffer,              \* per output: the writer's pending batch
  usable,              \* per output: the byte writer's own usable flag
  step,                \* where the pending future waits, or "idle" / "gone"
  out,                 \* the output that step is about
  cursor,              \* bytes of the batch the destination has taken
  syncing,             \* the pending future is sync_data's
  file,                \* per output: bytes the destination has taken, in order
  visible,             \* per output: how many of them a reader can see
  durable,             \* per output: how many of them a crash cannot lose
  write_error,         \* per output: a write the destination took has failed
  accepted,            \* history: per output, every byte ever accepted
  ends                 \* history: the end of every accepted record

progress == <<expected_record_id, record_count, buffered_end, flushed_end, synced_end>>
future == <<step, out, cursor, syncing>>
files == <<file, visible, durable, write_error>>
history == <<accepted, ends>>
vars == <<state, progress, buffer, usable, future, files, history>>

Busy == step \in {"write", "flush", "sync"}

TypeOK ==
  /\ state \in {"Open", "Unusable", "Finalized"}
  /\ expected_record_id \in SequenceNumber
  /\ record_count \in 0 .. RECORDS_PER_FILE
  /\ buffered_end \in OptionalEnd
  /\ flushed_end \in OptionalEnd
  /\ synced_end \in OptionalEnd
  /\ usable \in [Outputs -> BOOLEAN]
  /\ step \in {"idle", "write", "flush", "sync", "gone"}
  /\ out \in Outputs
  /\ cursor \in Nat
  /\ syncing \in BOOLEAN
  /\ buffer \in [Outputs -> Seq(Byte)]
  /\ file \in [Outputs -> Seq(Byte)]
  /\ accepted \in [Outputs -> Seq(Byte)]
  /\ visible \in [Outputs -> Nat]
  /\ durable \in [Outputs -> Nat]
  /\ write_error \in [Outputs -> BOOLEAN]
  /\ ends \in Seq(Nat)

-------------------------------------------------------------------------------
Empty == [f \in Outputs |-> << >>]

Init ==
  \E p \in RecoveredPairs :
    LET end == EndOf(p.ends)
    IN  /\ state = "Open"
        /\ expected_record_id = IF end = NoEnd THEN FirstId ELSE end.seq + 1
        /\ record_count = IF end = NoEnd THEN 0 ELSE record_count_through(end.seq)
        /\ buffered_end = end /\ flushed_end = end /\ synced_end = end
        /\ buffer = Empty
        /\ usable = [f \in Outputs |-> TRUE]
        /\ step = "idle" /\ out = "log" /\ cursor = 0 /\ syncing = FALSE
        /\ file = Pair(p.log, p.index)
        /\ visible = [f \in Outputs |-> Len(file[f])]
        /\ durable = [f \in Outputs |-> Len(file[f])]
        /\ write_error = [f \in Outputs |-> FALSE]
        /\ accepted = file
        /\ ends = p.ends

\* Variant: full one record late.
mut_is_full == record_count > RECORDS_PER_FILE

is_full == record_count = RECORDS_PER_FILE

\* Variant: the call does not look at a failure of the last one.
mut_check_open == step = "idle" /\ state # "Finalized"

\* The owner holds the writer (no future borrows it) and check_open passes.
check_open == step = "idle" /\ state = "Open"

\* A rejected call (Full, UnexpectedRecordId, Unusable, Finalized) changes
\* nothing.  Nor does the panic of RecordId::next at MAX_SEQUENCE.
write_record(id, length) ==
  LET start == IF buffered_end = NoEnd THEN [seq |-> FirstId, pos |-> 0]
                                       ELSE next_record_start(buffered_end)
      end == to_end(start, length)
  IN  /\ check_open
      /\ ~ is_full
      /\ id = expected_record_id
      /\ expected_record_id < MAX_SEQUENCE
      /\ buffer' = Pair(buffer["log"] \o LogBytes(id, length),
                       buffer["index"] \o IndexBytes(end.pos))
      /\ record_count' = record_count + 1
      /\ buffered_end' = end
      /\ expected_record_id' = expected_record_id + 1
      /\ accepted' = Pair(accepted["log"] \o LogBytes(id, length),
                         accepted["index"] \o IndexBytes(end.pos))
      /\ ends' = Append(ends, end.pos)
      /\ UNCHANGED <<state, flushed_end, synced_end, usable, future, files>>

\* Variant: a full file is finalized as soon as it is flushed.
mut_finalize ==
  /\ check_open
  /\ is_full
  /\ flushed_end = buffered_end
  /\ state' = "Finalized"
  /\ UNCHANGED <<progress, buffer, usable, future, files, history>>

finalize ==
  /\ check_open
  /\ is_full
  /\ synced_end = buffered_end
  /\ state' = "Finalized"
  /\ UNCHANGED <<progress, buffer, usable, future, files, history>>

\* Consumes the writer in any state; unsent batches are dropped with it.
into_inner ==
  /\ step = "idle"
  /\ step' = "gone"
  /\ buffer' = Empty
  /\ UNCHANGED <<state, progress, usable, out, cursor, syncing, files, history>>

\* The byte writer of f has its flag down; its flush_buffer is skipped when the
\* batch is empty, and its destination flush comes next.
EnterOutput(f) ==
  /\ out' = f
  /\ step' = IF buffer[f] = << >> THEN "flush" ELSE "write"
  /\ cursor' = 0

\* flush, and the flush that sync_data starts with, on unflushed records.
start_flush(sync) ==
  /\ check_open
  /\ buffered_end # flushed_end
  /\ state' = "Unusable"
  /\ usable' = [usable EXCEPT !["log"] = FALSE]
  /\ EnterOutput("log")
  /\ syncing' = sync
  /\ UNCHANGED <<progress, buffer, files, history>>

\* sync_data when its flush has nothing to do.
start_sync ==
  /\ check_open
  /\ buffered_end = flushed_end
  /\ state' = "Unusable"
  /\ usable' = [usable EXCEPT !["log"] = FALSE]
  /\ step' = "sync" /\ out' = "log" /\ cursor' = 0 /\ syncing' = TRUE
  /\ UNCHANGED <<progress, buffer, files, history>>

\* One destination.write that takes n bytes (a short write when n is not all).
flush_buffer(f) ==
  \E n \in 1 .. Len(buffer[f]) - cursor :
    /\ step = "write" /\ out = f
    /\ ~ write_error[f]
    /\ file' = [file EXCEPT ![f] = @ \o SubSeq(buffer[f], cursor + 1, cursor + n)]
    /\ IF cursor + n = Len(buffer[f])
         THEN /\ buffer' = [buffer EXCEPT ![f] = << >>]
              /\ step' = "flush" /\ cursor' = 0
         ELSE /\ cursor' = cursor + n
              /\ UNCHANGED <<buffer, step>>
    /\ UNCHANGED <<state, progress, usable, out, syncing, visible, durable,
                   write_error, history>>

\* Variant: the index is started once the log's bytes are taken.
mut_flush_log ==
  /\ step = "flush" /\ out = "log"
  /\ ~ write_error["log"]
  /\ usable' = [usable EXCEPT !["log"] = TRUE, !["index"] = FALSE]
  /\ EnterOutput("index")
  /\ UNCHANGED <<state, progress, buffer, syncing, files, history>>

\* The destination's flush returns once every byte it took has been written.
flush_log ==
  /\ step = "flush" /\ out = "log"
  /\ visible["log"] = Len(file["log"]) /\ ~ write_error["log"]
  /\ usable' = [usable EXCEPT !["log"] = TRUE, !["index"] = FALSE]
  /\ EnterOutput("index")
  /\ UNCHANGED <<state, progress, buffer, syncing, files, history>>

\* Variant: the index is not waited for.
mut_flush_index ==
  /\ step = "flush" /\ out = "index"
  /\ ~ write_error["index"]
  /\ flushed_end' = buffered_end
  /\ IF syncing
       THEN /\ step' = "sync" /\ out' = "log"
            /\ usable' = [usable EXCEPT !["index"] = TRUE, !["log"] = FALSE]
            /\ state' = state
       ELSE /\ step' = "idle" /\ out' = out
            /\ usable' = [usable EXCEPT !["index"] = TRUE]
            /\ state' = "Open"
  /\ UNCHANGED <<expected_record_id, record_count, buffered_end, synced_end,
                 buffer, cursor, syncing, files, history>>

flush_index ==
  /\ step = "flush" /\ out = "index"
  /\ visible["index"] = Len(file["index"]) /\ ~ write_error["index"]
  /\ flushed_end' = buffered_end
  /\ IF syncing
       THEN /\ step' = "sync" /\ out' = "log"
            /\ usable' = [usable EXCEPT !["index"] = TRUE, !["log"] = FALSE]
            /\ state' = state
       ELSE /\ step' = "idle" /\ out' = out
            /\ usable' = [usable EXCEPT !["index"] = TRUE]
            /\ state' = "Open"
  /\ UNCHANGED <<expected_record_id, record_count, buffered_end, synced_end,
                 buffer, cursor, syncing, files, history>>

\* Variant: the log is flushed again instead of synchronised.
mut_sync_log ==
  /\ step = "sync" /\ out = "log"
  /\ visible["log"] = Len(file["log"])
  /\ usable' = [usable EXCEPT !["log"] = TRUE, !["index"] = FALSE]
  /\ out' = "index"
  /\ UNCHANGED <<state, progress, buffer, step, cursor, syncing, files, history>>

\* sync_data waits for writes in flight but does not report their failure.
sync_log ==
  /\ step = "sync" /\ out = "log"
  /\ visible["log"] = Len(file["log"])
  /\ durable' = [durable EXCEPT !["log"] = visible["log"]]
  /\ usable' = [usable EXCEPT !["log"] = TRUE, !["index"] = FALSE]
  /\ out' = "index"
  /\ UNCHANGED <<state, progress, buffer, step, cursor, syncing, file, visible,
                 write_error, history>>

sync_index ==
  /\ step = "sync" /\ out = "index"
  /\ visible["index"] = Len(file["index"])
  /\ durable' = [durable EXCEPT !["index"] = visible["index"]]
  /\ usable' = [usable EXCEPT !["index"] = TRUE]
  /\ synced_end' = flushed_end
  /\ state' = "Open" /\ step' = "idle"
  /\ UNCHANGED <<expected_record_id, record_count, buffered_end, flushed_end,
                 buffer, out, cursor, syncing, file, visible, write_error, history>>

\* Variant: the flags are restored when the future ends early.
mut_abandon ==
  /\ Busy
  /\ step' = "idle" /\ cursor' = 0
  /\ state' = "Open"
  /\ usable' = [f \in Outputs |-> TRUE]
  /\ UNCHANGED <<progress, buffer, out, syncing, files, history>>

\* Variant: a failed call rolls its unsent records back.
mut_abandon_rollback ==
  /\ Busy
  /\ step' = "idle" /\ cursor' = 0
  /\ buffered_end' = flushed_end
  /\ UNCHANGED <<state, expected_record_id, record_count, flushed_end, synced_end,
                 buffer, usable, out, syncing, files, history>>

\* The pending future ends early: an I/O error or a zero-length write returned
\* through `?`, the owner dropping it, or a panic.  Nothing restores the flags.
abandon ==
  /\ Busy
  /\ step' = "idle" /\ cursor' = 0
  /\ UNCHANGED <<state, progress, buffer, usable, out, syncing, files, history>>

\* Variant: a flush does not report the failed write, and waits on.
mut_io_error ==
  /\ step = "write"
  /\ write_error[out]
  /\ abandon

\* The failure of an earlier write reaches the writer at its next write or flush.
io_error ==
  /\ step \in {"write", "flush"}
  /\ write_error[out]
  /\ abandon

-------------------------------------------------------------------------------
\* tokio::fs::File writes what it took in the background, with no writer call
\* pending or even after the writer is gone.
complete_write(f) ==
  \E n \in visible[f] + 1 .. Len(file[f]) :
    /\ visible' = [visible EXCEPT ![f] = n]
    /\ UNCHANGED <<state, progress, buffer, usable, future, file, durable,
                   write_error, history>>

\* ... and may fail: what is not yet written never will be.
fail_write(f) ==
  /\ visible[f] < Len(file[f])
  /\ file' = [file EXCEPT ![f] = SubSeq(@, 1, visible[f])]
  /\ write_error' = [write_error EXCEPT ![f] = TRUE]
  /\ UNCHANGED <<state, progress, buffer, usable, future, visible, durable, history>>

WriterNext ==
  \/ \E id \in SequenceNumber, length \in Lengths : write_record(id, length)
  \/ finalize
  \/ into_inner
  \/ \E sync \in BOOLEAN : start_flush(sync)
  \/ start_sync
  \/ \E f \in Outputs : flush_buffer(f)
  \/ flush_log
  \/ flush_index
  \/ sync_log
  \/ sync_index
  \/ io_error
  \/ abandon

FileNext == \E f \in Outputs : complete_write(f) \/ fail_write(f)

Next == WriterNext \/ FileNext

\* The runtime keeps polling a future its owner awaits, and the background
\* write of a file ends one way or the other.  Nobody has to call or to cancel.
Fairness ==
  /\ WF_vars(\E f \in Outputs : flush_buffer(f))
  /\ WF_vars(flush_log) /\ WF_vars(flush_index)
  /\ WF_vars(sync_log) /\ WF_vars(sync_index)
  /\ WF_vars(io_error)
  /\ \A f \in Outputs : WF_vars(complete_write(f))

Spec == Init /\ [][Next]_vars
FairSpec == Spec /\ Fairness

-------------------------------------------------------------------------------
(***************************************************************************)
(* Properties.                                                             *)
(***************************************************************************)

\* flush finishes the log before it starts the index: whatever the two files do
\* and wherever the future is dropped, every complete index entry a reader can
\* see is the i-th, and encodes the end of the file's i-th record, the last byte
\* of which the reader can also see in the log.
IndexNeverLeadsLog ==
  \A i \in 1 .. visible["index"] \div INDEX_ENTRY_LEN :
    LET b == file["index"][i * INDEX_ENTRY_LEN]
    IN  /\ b.k = INDEX_ENTRY_LEN
        /\ b.end \in 1 .. visible["log"]
        /\ IsLast(file["log"][b.end])
        /\ file["log"][b.end].seq = FirstId + i - 1

\* The usable flags are lowered before I/O and raised only on success: after
\* short writes, errors and dropped futures, the log still holds each record
\* once and in order, with at most the last one cut short.  No prefix that the
\* destination took is ever sent again.
AppendedOnce ==
  /\ file["log"] # << >> => file["log"][1].seq = FirstId /\ file["log"][1].k = 1
  /\ \A i \in 1 .. Len(file["log"]) - 1 : Follows(file["log"][i], file["log"][i + 1])

\* flushed_end is the boundary the owner publishes to readers: the record it
\* names, and by AppendedOnce and IndexNeverLeadsLog all before it, can be read
\* through the index.
FlushedIsReadable ==
  flushed_end # NoEnd =>
    LET n == record_count_through(flushed_end.seq)
    IN  /\ n * INDEX_ENTRY_LEN <= visible["index"]
        /\ file["index"][n * INDEX_ENTRY_LEN].end = flushed_end.pos
        /\ flushed_end.pos \in 1 .. visible["log"]
        /\ IsLast(file["log"][flushed_end.pos])
        /\ file["log"][flushed_end.pos].seq = flushed_end.seq

\* synced_end promises durability of both files, even when a later operation
\* failed between the two synchronisations.
SyncedIsDurable ==
  synced_end # NoEnd =>
    /\ synced_end.pos <= durable["log"]
    /\ record_count_through(synced_end.seq) * INDEX_ENTRY_LEN <= durable["index"]
    /\ synced_end.seq <= flushed_end.seq

\* finalize hands out the file's end as complete: all of the assigned records
\* are then durable in both files, with nothing buffered, in flight or extra.
FinalizedIsComplete ==
  state = "Finalized" =>
    /\ synced_end.seq = last_record_id(FileNumber)
    /\ durable["log"] = synced_end.pos /\ Len(file["log"]) = synced_end.pos
    /\ durable["index"] = RECORDS_PER_FILE * INDEX_ENTRY_LEN
    /\ Len(file["index"]) = RECORDS_PER_FILE * INDEX_ENTRY_LEN
    /\ buffer = Empty

\* Once an operation failed, was dropped or finalized the writer, no call moves
\* a boundary, sends a byte or makes the writer usable again.
FailureIsFinal ==
  [][step = "idle" /\ state # "Open"
       => /\ UNCHANGED <<state, progress>>
          /\ step' \in {"idle", "gone"}
          /\ \A f \in Outputs : Len(file'[f]) <= Len(file[f])]_vars

\* The three boundaries only move forward and never overtake one another, so
\* that a boundary read at any await stays valid.
BoundariesAdvance ==
  [][/\ buffered_end.seq <= buffered_end'.seq
     /\ flushed_end.seq <= flushed_end'.seq
     /\ synced_end.seq <= synced_end'.seq
     /\ synced_end'.seq <= flushed_end'.seq
     /\ flushed_end'.seq <= buffered_end'.seq]_vars

\* A call the owner keeps awaiting returns, also when a write failed in the
\* background.
CallReturns == Busy ~> ~ Busy
===============================================================================
