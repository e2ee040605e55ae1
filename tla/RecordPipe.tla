----------------------------- MODULE RecordPipe -----------------------------
(***************************************************************************)
(* A RecordWriter in serialization mode and a RecordReader on the two ends *)
(* of one reliable byte stream (a socket or a pipe: the two are generic    *)
(* over AsyncWrite and AsyncRead), each driven by its own task.  Together  *)
(* they implement RecordChannel.                                           *)
(***************************************************************************)
EXTENDS RecordReader

CONSTANTS MaxPayloadLen, Chunks, MaxOffered, MaxCalls  \* see RecordSerializer

ASSUME PipeAssumption ==
  /\ MinRecordLen > 0 /\ MaxPayloadLen \in Nat
  /\ Chunks \subseteq Nat /\ MaxOffered \in Nat /\ MaxCalls \in Nat

VARIABLES buffer, usable, phase, payload_len, error, progress, outcome,
          offered, calls, written, acknowledged, wire,
          ended  \* history: what the reader said when it stopped

Writer == INSTANCE RecordSerializer

writerVars == <<buffer, usable, phase, payload_len, error, progress, outcome,
                offered, calls, written, acknowledged, wire>>
pipeVars == <<vars, writerVars, ended>>

PipeInit == Init /\ Writer!Init /\ ended = "open"

(* A step of the sending task. *)
WriterSteps == Writer!Next /\ UNCHANGED <<readerVars, ended>>

(* A step of the receiving task. *)
Ended == ended' = IF state = "Active" /\ state' # "Active" THEN result' ELSE ended
ReaderSteps ==
  /\ \/ WaitToRead \/ TryReadNext
     \/ AcceptFrame \/ StopAtPartialHeader \/ StopAtInvalidHeader
     \/ StopAtPartialRecord \/ StopAtCrcMismatch
     \/ (\E n \in 1..MaxBytes : Receive(n)) \/ ReceiveNothing
     \/ Interrupted \/ ReceiveFails \/ Cancel
  /\ Ended
  /\ UNCHANGED <<sourceVars, writerVars>>

PipeNext == WriterSteps \/ ReaderSteps

(* The receiving task keeps calling; the stream, once ready again and      *)
(* again, is at last read.  Nothing is assumed of the sending task.        *)
PipeSpec ==
  /\ PipeInit /\ [][PipeNext]_pipeVars
  /\ WF_pipeVars(WaitToRead /\ ReaderSteps) /\ WF_pipeVars(TryReadNext /\ ReaderSteps)
  /\ WF_pipeVars(Scan /\ ReaderSteps) /\ SF_pipeVars(SourceReads /\ ReaderSteps)

-----------------------------------------------------------------------------
PipeTypeOK == TypeOK /\ Writer!TypeOK /\ Len(wire) = Len(frames)
SizeErrorSurfaces == Writer!SizeErrorSurfaces
BatchIsUnacknowledged == Writer!BatchIsUnacknowledged

(* What the bytes of an extent decode to. *)
Decoded(extent) ==
  LET whole == {n \in 1..Len(frames) :
                  extent = <<frames[n].start, frames[n].start + frames[n].size>>}
  IN IF whole = {} THEN [id |-> 0, payload |-> 0] ELSE wire[CHOOSE n \in whole : TRUE]

Channel == INSTANCE RecordChannel WITH
  Records <- Writer!RecordType,
  got     <- [n \in 1..Len(delivered) |-> Decoded(delivered[n])],
  broken  <- ~usable /\ phase \notin {"output", "flush"},
  reader  <- CASE ended = "open" -> "open"
               [] ended = "false" -> "finished"
               [] ended \in {"TruncatedHeader", "TruncatedRecord"} -> "truncated"
               [] ended = "Io" -> "failed"
               [] OTHER -> "corrupt"

(* The pair implements the channel: whatever the writer's callbacks, its   *)
(* output failures and the reader's cancellations do, the reader hands out *)
(* the written records in order and each once, never reports corruption,   *)
(* and ends only after every acknowledged record came out.                 *)
ImplementsChannel == Channel!Spec

(* An acknowledged record does come out, though the writer says nothing    *)
(* more and does not close, unless the stream fails the reader.            *)
AcknowledgedComesOut ==
  \A k \in 1..MaxCalls :
    acknowledged >= k ~> (Len(delivered) >= k \/ ended = "Io")
=============================================================================
