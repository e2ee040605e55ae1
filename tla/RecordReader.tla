---------------------------- MODULE RecordReader ----------------------------
(***************************************************************************)
(* RecordReader (record_reader.rs): validated records out of an async      *)
(* byte source.                                                            *)
(*                                                                         *)
(* The source's bytes are numbered from 0.  The reader's BytesMut and      *)
(* Bytes are intervals of them: the receive buffer is taken .. received-1, *)
(* the unread part of the batch is cursor .. taken-1 (batch_offset is      *)
(* folded into cursor).  A frame is known by where it starts, how many     *)
(* bytes it really has, what its length field declares and whether its     *)
(* stream id and its CRC are good: every way in which corrupt input can    *)
(* look to prepare_batch.                                                  *)
(*                                                                         *)
(* prepare_batch runs between two awaits under an exclusive borrow, so     *)
(* nothing can observe its loop: one action is one iteration.              *)
(***************************************************************************)
EXTENDS Integers, Sequences

CONSTANTS
  HeaderLen,        \* protocol::HEADER_LEN
  MinRecordLen,     \* protocol::MIN_RECORD_LEN: header and CRC trailer
  InitialCapacity,  \* INITIAL_BUFFER_CAPACITY
  Shapes,           \* the frames a peer may send, without their position
  MaxBytes          \* bound on the bytes of a source

ShapeType == [size: Nat \ {0}, declared: Nat, stream_ok: BOOLEAN, crc_ok: BOOLEAN]

(* A CRC that matches covers exactly the bytes the peer framed; that       *)
(* CRC-32C detects what it should is assumed here and nowhere else.        *)
ASSUME ReaderAssumption ==
  /\ HeaderLen \in Nat \ {0}
  /\ MinRecordLen \in Nat /\ MinRecordLen >= HeaderLen
  /\ InitialCapacity \in Nat
  /\ MaxBytes \in Nat
  /\ Shapes \subseteq ShapeType
  /\ \A s \in Shapes : s.crc_ok => s.declared = s.size

VARIABLES
  frames,          \* the frames the peer began, in order, each with its start
  sent,            \* bytes the source can deliver so far
  closed,          \* the source has ended after them
  received,        \* bytes read from the source
  taken,           \* bytes split off the receive buffer into batches
  cursor,          \* bytes handed out as records
  capacity,        \* capacity of the receive buffer, counted from taken
  pending_length,  \* 0 for None
  validated_len,   \* prepare_batch's local
  state,           \* ReaderState
  at,              \* where the borrowed call stands: idle, scan or read
  result,          \* what the last call returned
  delivered        \* history: the byte extents returned as records

sourceVars == <<frames, sent, closed>>
readerVars == <<received, taken, cursor, capacity, pending_length,
                validated_len, state, at, result, delivered>>
vars == <<sourceVars, readerVars>>

None == 0
Errors == {"InvalidLength", "InvalidStreamId", "CrcMismatch",
           "TruncatedHeader", "TruncatedRecord", "Io", "ReaderFailed"}
Results == {"true", "false", "none", "record"} \cup Errors
FrameType == [start: Nat, size: Nat \ {0}, declared: Nat,
              stream_ok: BOOLEAN, crc_ok: BOOLEAN]

EndOf(n) == IF n = 0 THEN 0 ELSE frames[n].start + frames[n].size
Valid(f) == /\ f.declared = f.size /\ f.declared >= MinRecordLen
            /\ f.stream_ok /\ f.crc_ok

-----------------------------------------------------------------------------
(* The peer.  A frame reaches the source byte by byte and may stay unfinished. *)
SendByte ==
  /\ ~closed /\ sent < MaxBytes
  /\ sent' = sent + 1
  /\ IF sent < EndOf(Len(frames))
     THEN UNCHANGED frames
     ELSE \E s \in Shapes :
            frames' = Append(frames, [start |-> sent, size |-> s.size,
                        declared |-> s.declared, stream_ok |-> s.stream_ok,
                        crc_ok |-> s.crc_ok])
  /\ UNCHANGED <<closed, readerVars>>

CloseSource == /\ ~closed /\ closed' = TRUE
               /\ UNCHANGED <<frames, sent, readerVars>>

-----------------------------------------------------------------------------
BufferLen == received - taken
BatchIsEmpty == cursor = taken

(* What a header read at byte p says.  Between two frame starts the bytes  *)
(* are some record's payload: they fail their CRC.                         *)
HeaderAt(p) ==
  IF \E n \in 1..Len(frames) : frames[n].start = p
  THEN frames[CHOOSE n \in 1..Len(frames) : frames[n].start = p]
  ELSE [start |-> p, size |-> MinRecordLen, declared |-> MinRecordLen,
        stream_ok |-> TRUE, crc_ok |-> FALSE]

(* RecordReader::new *)
Init ==
  /\ frames = <<>> /\ sent = 0 /\ closed = FALSE
  /\ received = 0 /\ taken = 0 /\ cursor = 0
  /\ capacity = InitialCapacity
  /\ pending_length = None /\ validated_len = 0
  /\ state = "Active" /\ at = "idle" /\ result = "none" /\ delivered = <<>>

Return(r) == at' = "idle" /\ result' = r
Fail(error) == state' = "Failed" /\ Return(error)

\* Variant: a failed reader is not remembered.
mut_WaitToRead ==
  /\ at = "idle"
  /\ \/ state = "Finished" /\ Return("false") /\ UNCHANGED validated_len
     \/ state # "Finished" /\ ~BatchIsEmpty /\ Return("true") /\ UNCHANGED validated_len
     \/ /\ state # "Finished" /\ BatchIsEmpty
        /\ at' = "scan" /\ validated_len' = 0
        /\ UNCHANGED result
  /\ UNCHANGED <<sourceVars, received, taken, cursor, capacity, pending_length,
                 state, delivered>>

(* wait_to_read up to its loop. *)
WaitToRead ==
  /\ at = "idle"
  /\ \/ state = "Finished" /\ Return("false") /\ UNCHANGED validated_len
     \/ state = "Failed" /\ Return("ReaderFailed") /\ UNCHANGED validated_len
     \/ state = "Active" /\ ~BatchIsEmpty /\ Return("true") /\ UNCHANGED validated_len
     \/ /\ state = "Active" /\ BatchIsEmpty
        /\ at' = "scan" /\ validated_len' = 0
        /\ UNCHANGED result
  /\ UNCHANGED <<sourceVars, received, taken, cursor, capacity, pending_length,
                 state, delivered>>

(* One iteration of prepare_batch's loop looks at the frame at this byte.  *)
ScanAt == taken + validated_len
Remaining == received - ScanAt
HeaderMissing == pending_length = None /\ Remaining < HeaderLen
HeaderError ==
  IF pending_length # None THEN "none"
  ELSE IF HeaderAt(ScanAt).declared < MinRecordLen THEN "InvalidLength"
  ELSE IF ~ HeaderAt(ScanAt).stream_ok THEN "InvalidStreamId" ELSE "none"
FrameLength == IF pending_length # None THEN pending_length
                                        ELSE HeaderAt(ScanAt).declared

\* Variant: the CRC is not verified.
mut_AcceptFrame_unchecked ==
  /\ at = "scan"
  /\ ~HeaderMissing /\ HeaderError = "none"
  /\ Remaining >= FrameLength
  /\ validated_len' = validated_len + FrameLength
  /\ pending_length' = None
  /\ UNCHANGED <<sourceVars, received, taken, cursor, capacity, state, at,
                 result, delivered>>

\* Variant: pending_length survives the frame it was read from.
mut_AcceptFrame_stale ==
  /\ at = "scan"
  /\ ~HeaderMissing /\ HeaderError = "none"
  /\ Remaining >= FrameLength
  /\ HeaderAt(ScanAt).crc_ok
  /\ validated_len' = validated_len + FrameLength
  /\ UNCHANGED <<sourceVars, received, taken, cursor, capacity, state, at,
                 result, delivered, pending_length>>

(* The iteration that accepts a complete frame and continues. *)
AcceptFrame ==
  /\ at = "scan"
  /\ ~HeaderMissing /\ HeaderError = "none"
  /\ Remaining >= FrameLength
  /\ HeaderAt(ScanAt).crc_ok
  /\ validated_len' = validated_len + FrameLength
  /\ pending_length' = None
  /\ UNCHANGED <<sourceVars, received, taken, cursor, capacity, state, at,
                 result, delivered>>

\* Variant: the receive buffer is never grown.
mut_Reserve(additional) == UNCHANGED capacity

(* BytesMut::reserve: enough spare capacity already, or reclaimed or newly *)
(* allocated space that holds at least what was asked for.                 *)
Reserve(additional) ==
  IF capacity - BufferLen >= additional
  THEN UNCHANGED capacity
  ELSE \E c \in {BufferLen + additional, InitialCapacity} :
         c >= BufferLen + additional /\ capacity' = c

(* The break, and what wait_to_read does with it: publish what was         *)
(* validated, whatever ended the loop; with nothing validated, fail on an  *)
(* error or go on to read the source.                                      *)
PublishBatch ==
  /\ taken' = ScanAt
  /\ capacity' = capacity - validated_len
  /\ validated_len' = 0
  /\ Return("true")
  /\ UNCHANGED state

\* Variant: an error discards the records validated before it.
mut_StopScan(error) ==
  /\ \/ validated_len > 0 /\ error = "none" /\ PublishBatch
     \/ /\ error # "none"
        /\ Fail(error)
        /\ UNCHANGED <<taken, capacity, validated_len>>
     \/ /\ validated_len = 0 /\ error = "none"
        /\ at' = "read"
        /\ Reserve((IF pending_length' # None THEN pending_length' ELSE HeaderLen)
                   - BufferLen)
        /\ UNCHANGED <<taken, validated_len, state, result>>
  /\ UNCHANGED <<sourceVars, received, cursor, delivered>>

StopScan(error) ==
  /\ \/ validated_len > 0 /\ PublishBatch
     \/ /\ validated_len = 0 /\ error # "none"
        /\ Fail(error)
        /\ UNCHANGED <<taken, capacity, validated_len>>
     \/ /\ validated_len = 0 /\ error = "none"
        /\ at' = "read"
        /\ Reserve((IF pending_length' # None THEN pending_length' ELSE HeaderLen)
                   - BufferLen)
        /\ UNCHANGED <<taken, validated_len, state, result>>
  /\ UNCHANGED <<sourceVars, received, cursor, delivered>>

StopAtPartialHeader ==
  /\ at = "scan" /\ HeaderMissing
  /\ UNCHANGED pending_length
  /\ StopScan("none")

StopAtInvalidHeader ==
  /\ at = "scan" /\ ~HeaderMissing /\ HeaderError # "none"
  /\ UNCHANGED pending_length
  /\ StopScan(HeaderError)

StopAtPartialRecord ==
  /\ at = "scan" /\ ~HeaderMissing /\ HeaderError = "none"
  /\ Remaining < FrameLength
  /\ pending_length' = FrameLength
  /\ StopScan("none")

StopAtCrcMismatch ==
  /\ at = "scan" /\ ~HeaderMissing /\ HeaderError = "none"
  /\ Remaining >= FrameLength
  /\ ~HeaderAt(ScanAt).crc_ok
  /\ pending_length' = FrameLength
  /\ StopScan("CrcMismatch")

-----------------------------------------------------------------------------
(* read_buf(...).await and the match on its outcome. *)
Receive(n) ==
  /\ at = "read"
  /\ n <= sent - received /\ n <= capacity - BufferLen
  /\ received' = received + n
  /\ at' = "scan" /\ validated_len' = 0
  /\ UNCHANGED <<sourceVars, taken, cursor, capacity, pending_length, state,
                 result, delivered>>

\* Variant: truncated input is retried as if more could come.
mut_ReceiveNothing ==
  /\ at = "read"
  /\ (closed /\ received = sent) \/ capacity = BufferLen
  /\ \/ BufferLen = 0 /\ state' = "Finished" /\ Return("false")
     \/ BufferLen > 0 /\ at' = "scan" /\ UNCHANGED <<state, result>>
  /\ UNCHANGED <<sourceVars, received, taken, cursor, capacity, pending_length,
                 validated_len, delivered>>

(* Ok(0): the source has ended, or the reader left it no room to read into. *)
ReceiveNothing ==
  /\ at = "read"
  /\ (closed /\ received = sent) \/ capacity = BufferLen
  /\ \/ BufferLen = 0 /\ state' = "Finished" /\ Return("false")
     \/ BufferLen > 0 /\ pending_length # None /\ Fail("TruncatedRecord")
     \/ BufferLen > 0 /\ pending_length = None /\ Fail("TruncatedHeader")
  /\ UNCHANGED <<sourceVars, received, taken, cursor, capacity, pending_length,
                 validated_len, delivered>>

Interrupted ==
  /\ at = "read"
  /\ at' = "scan" /\ validated_len' = 0
  /\ UNCHANGED <<sourceVars, received, taken, cursor, capacity, pending_length,
                 state, result, delivered>>

ReceiveFails ==
  /\ at = "read"
  /\ Fail("Io")
  /\ UNCHANGED <<sourceVars, received, taken, cursor, capacity, pending_length,
                 validated_len, delivered>>

(* The owner drops the pending future. *)
Cancel ==
  /\ at = "read" /\ at' = "idle"
  /\ UNCHANGED <<sourceVars, received, taken, cursor, capacity, pending_length,
                 validated_len, state, result, delivered>>

\* Variant: the batch is only asked whether it ever existed.
mut_TryReadNext ==
  /\ at = "idle"
  /\ \/ /\ state = "Failed" /\ Return("ReaderFailed")
        /\ UNCHANGED <<cursor, delivered>>
     \/ /\ state # "Failed" /\ taken = 0 /\ Return("none")
        /\ UNCHANGED <<cursor, delivered>>
     \/ /\ state # "Failed" /\ taken > 0
        /\ LET end == cursor + HeaderAt(cursor).declared IN
             /\ cursor' = end
             /\ delivered' = Append(delivered, <<cursor, end>>)
        /\ Return("record")
  /\ UNCHANGED <<sourceVars, received, taken, capacity, pending_length,
                 validated_len, state>>

TryReadNext ==
  /\ at = "idle"
  /\ \/ /\ state = "Failed" /\ Return("ReaderFailed")
        /\ UNCHANGED <<cursor, delivered>>
     \/ /\ state # "Failed" /\ BatchIsEmpty /\ Return("none")
        /\ UNCHANGED <<cursor, delivered>>
     \/ /\ state # "Failed" /\ ~BatchIsEmpty
        /\ LET end == cursor + HeaderAt(cursor).declared IN
             /\ cursor' = end
             /\ delivered' = Append(delivered, <<cursor, end>>)
        /\ Return("record")
  /\ UNCHANGED <<sourceVars, received, taken, capacity, pending_length,
                 validated_len, state>>

-----------------------------------------------------------------------------
Scan == \/ AcceptFrame \/ StopAtPartialHeader \/ StopAtInvalidHeader
        \/ StopAtPartialRecord \/ StopAtCrcMismatch
SourceReads == (\E n \in 1..MaxBytes : Receive(n)) \/ ReceiveNothing

Next ==
  \/ SendByte \/ CloseSource
  \/ WaitToRead \/ TryReadNext
  \/ AcceptFrame \/ StopAtPartialHeader \/ StopAtInvalidHeader
  \/ StopAtPartialRecord \/ StopAtCrcMismatch
  \/ (\E n \in 1..MaxBytes : Receive(n)) \/ ReceiveNothing
  \/ Interrupted \/ ReceiveFails \/ Cancel

Spec == Init /\ [][Next]_vars

(* An owner that keeps calling both methods; synchronous code runs on; a   *)
(* source that is ready again and again is at last read: it neither        *)
(* interrupts nor is cancelled for ever.                                   *)
FairSpec == /\ Spec
            /\ WF_vars(WaitToRead) /\ WF_vars(TryReadNext) /\ WF_vars(Scan)
            /\ SF_vars(SourceReads)

-----------------------------------------------------------------------------
TypeOK ==
  /\ frames \in Seq(FrameType) /\ sent \in Nat /\ closed \in BOOLEAN
  /\ received \in 0..sent /\ taken \in 0..received /\ cursor \in 0..taken
  /\ capacity \in Nat /\ pending_length \in Nat /\ validated_len \in Nat
  /\ state \in {"Active", "Finished", "Failed"}
  /\ at \in {"idle", "scan", "read"} /\ result \in Results
  /\ delivered \in Seq(Nat \X Nat)

(* The records handed out are exactly the first frames of the source, each *)
(* whole and valid, none skipped, none twice: try_read_next re-reads only  *)
(* the length that prepare_batch validated some waits, refills and         *)
(* cancellations earlier.                                                  *)
DeliveredArePrefix ==
  /\ Len(delivered) <= Len(frames)
  /\ \A n \in 1..Len(delivered) :
       /\ delivered[n] = <<frames[n].start, frames[n].start + frames[n].size>>
       /\ Valid(frames[n])

(* A reader that has failed or finished owes nothing: every frame that was *)
(* received whole before the first invalid byte has been handed out, so    *)
(* "publish every good record before the first invalid one" holds however  *)
(* the error and the reads interleave.                                     *)
NothingOwedAtEnd ==
  state # "Active" =>
    \A n \in 1..Len(frames) :
      (EndOf(n) <= received /\ \A m \in 1..n : Valid(frames[m])) => n <= Len(delivered)

(* The length kept across refills and cancelled waits is the declared      *)
(* length of the frame now at the start of the receive buffer, whose       *)
(* header was received and passed its checks: pending_length never         *)
(* outlives the frame it was read from.                                    *)
PendingIsNextFrame ==
  (pending_length # None /\ at # "scan") =>
     /\ BufferLen >= HeaderLen
     /\ \E n \in 1..Len(frames) :
          /\ frames[n].start = taken
          /\ frames[n].declared = pending_length
          /\ frames[n].stream_ok /\ pending_length >= MinRecordLen

(* The end of input is reported only when the source has ended and         *)
(* everything was read: reserve always leaves the read some room, or       *)
(* Ok(0) would be taken for the end of the stream.                         *)
EndIsReal ==
  [][(state = "Active" /\ state' # "Active"
        /\ result' \in {"false", "TruncatedHeader", "TruncatedRecord"})
       => (closed /\ received = sent)]_vars

(* A terminal reader never touches the source again and hands out nothing. *)
TerminalIsFinal ==
  [][state # "Active" => UNCHANGED <<received, taken, cursor, state, delivered>>]_vars

(* Once the source has ended, an owner that keeps calling sees the reader  *)
(* finish or fail, through interruptions and cancelled waits.              *)
EndIsReached == closed ~> state # "Active"
=============================================================================
