-------------------------- MODULE RecordSerializer --------------------------
(***************************************************************************)
(* RecordWriter in serialization mode (record_writer.rs) with its          *)
(* RecordBuilder (record_builder.rs), over a destination whose accepted    *)
(* bytes are numbered as RecordReader numbers its source's.                *)
(*                                                                         *)
(* A record is its id, its position in the batch and its payload length.   *)
(* write() is synchronous, but its callback is the caller's code: it may   *)
(* write any chunks, ignore what a write returned, fail or unwind.         *)
(***************************************************************************)
EXTENDS Integers, Sequences

CONSTANTS
  MinRecordLen,   \* protocol::MIN_RECORD_LEN: header and CRC trailer
  MaxPayloadLen,  \* protocol::MAX_PAYLOAD_LEN
  Chunks,         \* the lengths of a callback's write calls
  MaxOffered,     \* bound on the bytes one callback offers
  MaxCalls        \* bound on the calls of write, and the ids they are given

VARIABLES
  buffer,        \* the complete records of the batch, each with its start
  usable,        \* RecordWriter::usable
  phase,         \* the call in progress: idle, body, output, flush or dropped
  payload_len,   \* RecordBuilder::payload_len
  error,         \* RecordBuilder::error is Some(PayloadTooLarge)
  progress,      \* flush_buffer's cursor into the batch
  outcome,       \* what the last call returned
  offered,       \* history: bytes the current or last callback tried to write
  calls,         \* history: calls of write, the id of the record being built
  written,       \* history: the records for which write returned Ok
  acknowledged,  \* history: how many of them a flush_buffer returned Ok for
  frames, sent, closed,  \* the destination, as RecordReader sees it
  wire           \* which record each of frames carries

batchVars == <<buffer, usable, progress, written, acknowledged>>
builderVars == <<payload_len, error, offered, calls>>
destinationVars == <<frames, sent, closed, wire>>
writerVars == <<batchVars, builderVars, phase, outcome, wire>>

Outcomes == {"none", "Written", "Ok", "Unusable", "PayloadTooLarge",
             "Serialize", "Panic", "Io"}
RecordType == [id: 1..MaxCalls, payload: 0..MaxPayloadLen]

BatchLen == IF buffer = <<>> THEN 0
            ELSE buffer[Len(buffer)].start + buffer[Len(buffer)].size

Return(o) == phase' = "idle" /\ outcome' = o

(* RecordWriter::for_serialization over a fresh destination. *)
Init ==
  /\ buffer = <<>> /\ usable = TRUE /\ progress = 0
  /\ written = <<>> /\ acknowledged = 0
  /\ payload_len = 0 /\ error = FALSE /\ offered = 0 /\ calls = 0
  /\ phase = "idle" /\ outcome = "none"
  /\ frames = <<>> /\ sent = 0 /\ closed = FALSE /\ wire = <<>>

-----------------------------------------------------------------------------
(* write(): check_usable, RecordBuilder::new, and into the callback. *)
Write ==
  /\ phase = "idle" /\ calls < MaxCalls
  /\ \/ /\ ~usable /\ Return("Unusable") /\ UNCHANGED builderVars
     \/ /\ usable /\ phase' = "body"
        /\ payload_len' = 0 /\ error' = FALSE
        /\ offered' = 0 /\ calls' = calls + 1
        /\ UNCHANGED outcome
  /\ UNCHANGED <<batchVars, destinationVars>>

\* Variant: a size error is reported but not retained.
mut_BodyWrite(chunk) ==
  /\ phase = "body" /\ offered + chunk <= MaxOffered
  /\ offered' = offered + chunk
  /\ payload_len' = IF chunk > MaxPayloadLen - payload_len THEN payload_len
                                                           ELSE payload_len + chunk
  /\ UNCHANGED <<error, calls, phase, outcome, batchVars, destinationVars>>

\* Variant: each write is held against the whole limit, not what is left of it.
mut_BodyWrite_limit(chunk) ==
  /\ phase = "body" /\ offered + chunk <= MaxOffered
  /\ offered' = offered + chunk
  /\ \/ (error \/ chunk > MaxPayloadLen) /\ error' = TRUE /\ UNCHANGED payload_len
     \/ ~error /\ chunk <= MaxPayloadLen
        /\ payload_len' = payload_len + chunk /\ UNCHANGED error
  /\ UNCHANGED <<calls, phase, outcome, batchVars, destinationVars>>

(* io::Write::write, write_all and flush of the builder. *)
BodyWrite(chunk) ==
  /\ phase = "body" /\ offered + chunk <= MaxOffered
  /\ offered' = offered + chunk
  /\ \/ /\ error
        /\ UNCHANGED <<payload_len, error>>
     \/ /\ ~error /\ chunk > MaxPayloadLen - payload_len
        /\ error' = TRUE /\ UNCHANGED payload_len
     \/ /\ ~error /\ chunk <= MaxPayloadLen - payload_len
        /\ payload_len' = payload_len + chunk /\ UNCHANGED error
  /\ UNCHANGED <<calls, phase, outcome, batchVars, destinationVars>>

(* RecordBuilder::finish past its check. *)
Publish ==
  /\ buffer' = Append(buffer, [id |-> calls, payload |-> payload_len,
                 start |-> BatchLen, size |-> payload_len + MinRecordLen])
  /\ written' = Append(written, [id |-> calls, payload |-> payload_len])
  /\ Return("Written")

(* Drop of an unfinished builder: set_len has not run, so truncate(start)  *)
(* keeps exactly the batch that preceded it.                               *)
Rollback(o) == Return(o) /\ UNCHANGED <<buffer, written>>

(* The callback returned Ok. *)
CallbackOk ==
  /\ phase = "body"
  /\ \/ ~error /\ Publish
     \/ error /\ Rollback("PayloadTooLarge")
  /\ UNCHANGED <<usable, progress, acknowledged, builderVars, destinationVars>>

(* The callback returned an error of its own. *)
CallbackErr ==
  /\ phase = "body"
  /\ \/ error /\ Rollback("PayloadTooLarge")
     \/ ~error /\ Rollback("Serialize")
  /\ UNCHANGED <<usable, progress, acknowledged, builderVars, destinationVars>>

CallbackPanics ==
  /\ phase = "body"
  /\ Rollback("Panic")
  /\ UNCHANGED <<usable, progress, acknowledged, builderVars, destinationVars>>

-----------------------------------------------------------------------------
(* flush_buffer() up to its first poll of the destination. *)
FlushBuffer ==
  /\ phase = "idle"
  /\ \/ ~usable /\ Return("Unusable") /\ UNCHANGED <<usable, progress>>
     \/ usable /\ buffer = <<>> /\ Return("Ok") /\ UNCHANGED <<usable, progress>>
     \/ /\ usable /\ buffer # <<>>
        /\ usable' = FALSE /\ progress' = 0 /\ phase' = "output"
        /\ UNCHANGED outcome
  /\ UNCHANGED <<buffer, written, acknowledged, builderVars, destinationVars>>

(* How many records of the batch begin in its first bytes. *)
Begun(bytes) ==
  CHOOSE k \in 0..Len(buffer) :
    /\ \A i \in 1..k : buffer[i].start < bytes
    /\ k < Len(buffer) => buffer[k + 1].start >= bytes

(* The destination accepts n bytes of the batch. *)
Accepts(n) ==
  LET began == SubSeq(buffer, Begun(progress) + 1, Begun(progress + n))
  IN /\ sent' = sent + n
     /\ frames' = frames \o [k \in 1..Len(began) |->
          [start |-> sent - progress + began[k].start, size |-> began[k].size,
           declared |-> began[k].size, stream_ok |-> TRUE, crc_ok |-> TRUE]]
     /\ wire' = wire \o [k \in 1..Len(began) |->
          [id |-> began[k].id, payload |-> began[k].payload]]
     /\ UNCHANGED closed

\* Variant: the batch survives its output.
mut_OutputAccepted(n) ==
  /\ phase = "output" /\ n <= BatchLen - progress
  /\ Accepts(n)
  /\ \/ /\ progress + n < BatchLen
        /\ progress' = progress + n
        /\ UNCHANGED <<buffer, usable, acknowledged, phase, outcome>>
     \/ /\ progress + n = BatchLen
        /\ progress' = 0 /\ usable' = TRUE
        /\ acknowledged' = Len(written)
        /\ Return("Ok")
        /\ UNCHANGED buffer
  /\ UNCHANGED <<written, builderVars>>

(* Ok(written) from the destination; the last one ends the call, without   *)
(* another await.                                                          *)
OutputAccepted(n) ==
  /\ phase = "output" /\ n <= BatchLen - progress
  /\ Accepts(n)
  /\ \/ /\ progress + n < BatchLen
        /\ progress' = progress + n
        /\ UNCHANGED <<buffer, usable, acknowledged, phase, outcome>>
     \/ /\ progress + n = BatchLen
        /\ buffer' = <<>> /\ progress' = 0 /\ usable' = TRUE
        /\ acknowledged' = Len(written)
        /\ Return("Ok")
  /\ UNCHANGED <<written, builderVars>>

OutputInterrupted == phase = "output" /\ UNCHANGED <<writerVars, destinationVars>>

\* Variant: failed output may be tried again.
mut_OutputFails ==
  /\ phase \in {"output", "flush"}
  /\ Return("Io")
  /\ usable' = TRUE
  /\ UNCHANGED <<buffer, progress, written, acknowledged, builderVars, destinationVars>>

(* WriteZero, an error, an unwinding destination or a dropped future, in   *)
(* flush_buffer and in flush: usable stays as it was set before the call.  *)
OutputFails ==
  /\ phase \in {"output", "flush"}
  /\ Return("Io")
  /\ UNCHANGED <<batchVars, builderVars, destinationVars>>

Flush ==
  /\ phase = "idle"
  /\ \/ ~usable /\ Return("Unusable") /\ UNCHANGED usable
     \/ usable /\ usable' = FALSE /\ phase' = "flush" /\ UNCHANGED outcome
  /\ UNCHANGED <<buffer, progress, written, acknowledged, builderVars, destinationVars>>

Flushed ==
  /\ phase = "flush"
  /\ usable' = TRUE /\ Return("Ok")
  /\ UNCHANGED <<buffer, progress, written, acknowledged, builderVars, destinationVars>>

(* The writer is dropped, or into_inner gives the destination back to be   *)
(* closed; the batch goes with the writer, unsent.                         *)
IntoInner ==
  /\ phase = "idle" /\ phase' = "dropped"
  /\ closed' = TRUE
  /\ UNCHANGED <<batchVars, builderVars, outcome, frames, sent, wire>>

-----------------------------------------------------------------------------
BatchBound == MaxCalls * (MinRecordLen + MaxPayloadLen)

Next ==
  \/ Write \/ (\E c \in Chunks : BodyWrite(c))
  \/ CallbackOk \/ CallbackErr \/ CallbackPanics
  \/ FlushBuffer \/ (\E n \in 1..BatchBound : OutputAccepted(n))
  \/ OutputInterrupted \/ OutputFails \/ Flush \/ Flushed \/ IntoInner

TypeOK ==
  /\ buffer \in Seq([id: 1..MaxCalls, payload: 0..MaxPayloadLen, start: Nat, size: Nat])
  /\ usable \in BOOLEAN /\ error \in BOOLEAN
  /\ phase \in {"idle", "body", "output", "flush", "dropped"}
  /\ payload_len \in 0..MaxPayloadLen /\ progress \in 0..BatchLen
  /\ outcome \in Outcomes /\ offered \in 0..MaxOffered /\ calls \in 0..MaxCalls
  /\ written \in Seq(RecordType) /\ acknowledged \in 0..Len(written)
  /\ wire \in Seq(RecordType)

(* No silent truncation: write reports success, or an error of the         *)
(* callback's own, only when the builder took every byte the callback      *)
(* tried to write.  A size error the callback swallowed, wrapped or wrote  *)
(* on after still surfaces.                                                *)
SizeErrorSurfaces ==
  (phase = "idle" /\ outcome \in {"Written", "Serialize"})
     => payload_len = offered

(* The batch is whole records laid end to end, the newest records that     *)
(* write accepted and no flush has acknowledged, each once and in order:   *)
(* failed, unwound and oversized records leave no gap and no byte.         *)
BatchIsUnacknowledged ==
  /\ Len(buffer) = Len(written) - acknowledged
  /\ \A n \in 1..Len(buffer) :
       /\ [id |-> buffer[n].id, payload |-> buffer[n].payload] = written[acknowledged + n]
       /\ buffer[n].size = buffer[n].payload + MinRecordLen
       /\ buffer[n].start = IF n = 1 THEN 0 ELSE buffer[n - 1].start + buffer[n - 1].size
=============================================================================
