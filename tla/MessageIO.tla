------------------------------ MODULE MessageIO ------------------------------
(***************************************************************************)
(* lib/message-io: write_message at one end of a byte stream, read_message *)
(* at the other, each in a task of its own.                                *)
(*                                                                         *)
(* The bytes of the stream are numbered from 0.  A frame is known by where *)
(* it starts, what its prefix declares and what Postcard makes of its body *)
(* at the other end.  Neither side keeps progress or a poison flag between *)
(* calls: after an I/O error or a dropped future its caller discards the   *)
(* connection, and after an encoding error it goes on.                     *)
(***************************************************************************)
EXTENDS Integers, Sequences

CONSTANTS
  LENGTH_PREFIX_LEN,
  MAX_MESSAGE_BODY_LEN,
  Pieces,      \* sizes of what Postcard pushes into the frame
  MaxMessages  \* bound on the messages framed

ASSUME MessageAssumption ==
  /\ LENGTH_PREFIX_LEN \in Nat \ {0} /\ MAX_MESSAGE_BODY_LEN \in Nat
  /\ Pieces \subseteq Nat /\ MaxMessages \in Nat

VARIABLES
  foreign,       \* the other end writes its frames with other code
  phase,         \* of the writer: idle, encode, output, broken or gone
  body_len,      \* body bytes in the BoundedFrame
  too_large,
  frames,        \* the frames written so far, the last perhaps in part
  sent,          \* bytes the stream accepted
  acknowledged,  \* write_message calls that returned Ok
  at,            \* of the reader: idle, prefix, body or gone
  base,          \* where its current frame starts
  consumed,      \* bytes it has read
  got,           \* messages it returned
  outcome        \* what the last read_message returned

writerVars == <<phase, body_len, too_large, frames, sent, acknowledged>>
readerVars == <<at, base, consumed, got, outcome>>
vars == <<foreign, writerVars, readerVars>>

Verdicts == {"Ok", "Decode", "TrailingBytes"}

Init ==
  /\ foreign \in BOOLEAN
  /\ phase = "idle" /\ body_len = 0 /\ too_large = FALSE
  /\ frames = <<>> /\ sent = 0 /\ acknowledged = 0
  /\ at = "idle" /\ base = 0 /\ consumed = 0 /\ got = <<>> /\ outcome = "none"

-----------------------------------------------------------------------------
(* write_message: the prefix is reserved, serialization begins. *)
WriteMessage ==
  /\ ~foreign /\ phase = "idle" /\ Len(frames) < MaxMessages
  /\ phase' = "encode" /\ body_len' = 0 /\ too_large' = FALSE
  /\ UNCHANGED <<foreign, frames, sent, acknowledged, readerVars>>

\* Variant: the bound counts the prefix in the body's favour.
mut_TryExtend(n) ==
  /\ phase = "encode"
  /\ IF n > MAX_MESSAGE_BODY_LEN + 1 - body_len
     THEN too_large' = TRUE /\ UNCHANGED body_len
     ELSE body_len' = body_len + n /\ UNCHANGED too_large
  /\ UNCHANGED <<foreign, phase, frames, sent, acknowledged, readerVars>>

(* BoundedFrame::try_extend.  A Serialize implementation may ignore the    *)
(* error and push more.                                                    *)
TryExtend(n) ==
  /\ phase = "encode"
  /\ IF n > MAX_MESSAGE_BODY_LEN - body_len
     THEN too_large' = TRUE /\ UNCHANGED body_len
     ELSE body_len' = body_len + n /\ UNCHANGED too_large
  /\ UNCHANGED <<foreign, phase, frames, sent, acknowledged, readerVars>>

(* TooLarge, or the message's own Serialize failed: nothing was written. *)
EncodeFails ==
  /\ phase = "encode" /\ phase' = "idle"
  /\ UNCHANGED <<foreign, body_len, too_large, frames, sent, acknowledged, readerVars>>

(* The prefix is filled in and write_all begins. *)
Encoded(verdict) ==
  /\ phase = "encode" /\ ~too_large
  /\ phase' = "output"
  /\ frames' = Append(frames,
       [start |-> sent, declared |-> body_len, verdict |-> verdict])
  /\ UNCHANGED <<foreign, body_len, too_large, sent, acknowledged, readerVars>>

EndOf(n) == IF n = 0 THEN 0
            ELSE frames[n].start + LENGTH_PREFIX_LEN + frames[n].declared

(* write_all: a short write, the last of which returns Ok to the caller. *)
Accept(n) ==
  /\ phase = "output" /\ sent + n <= EndOf(Len(frames))
  /\ sent' = sent + n
  /\ IF sent' = EndOf(Len(frames))
     THEN phase' = "idle" /\ acknowledged' = Len(frames)
     ELSE UNCHANGED <<phase, acknowledged>>
  /\ UNCHANGED <<foreign, body_len, too_large, frames, readerVars>>

(* write_all fails, accepts zero bytes or is dropped. *)
OutputFails ==
  /\ phase = "output" /\ phase' = "broken"
  /\ UNCHANGED <<foreign, body_len, too_large, frames, sent, acknowledged, readerVars>>

(* The caller drops its end, at once if the connection broke. *)
Discard ==
  /\ phase \in {"idle", "broken"} /\ phase' = "gone"
  /\ UNCHANGED <<foreign, body_len, too_large, frames, sent, acknowledged, readerVars>>

(* A peer with a limit of its own. *)
ForeignFrame(declared, verdict) ==
  /\ foreign /\ phase = "idle" /\ Len(frames) < MaxMessages
  /\ frames' = Append(frames,
       [start |-> sent, declared |-> declared, verdict |-> verdict])
  /\ sent' = sent + LENGTH_PREFIX_LEN + declared
  /\ UNCHANGED <<foreign, phase, body_len, too_large, acknowledged, readerVars>>

-----------------------------------------------------------------------------
(* The frame that begins at byte p; bytes elsewhere are no message. *)
FrameAt(p) ==
  LET here == {n \in 1..Len(frames) : frames[n].start = p}
  IN IF here = {} THEN [start |-> p, declared |-> 0, verdict |-> "Decode"]
     ELSE frames[CHOOSE n \in here : TRUE]

Want == base + LENGTH_PREFIX_LEN - consumed
        + (IF at = "body" THEN FrameAt(base).declared ELSE 0)

Stop(error) == at' = "gone" /\ outcome' = error

(* The first byte is read alone. *)
ReadFirst ==
  /\ at = "idle" /\ consumed < sent
  /\ consumed' = consumed + 1 /\ at' = "prefix"
  /\ UNCHANGED <<foreign, writerVars, base, got, outcome>>

ReadEnd ==
  /\ at = "idle" /\ phase = "gone" /\ consumed = sent
  /\ Stop("EndOfStream")
  /\ UNCHANGED <<foreign, writerVars, base, consumed, got>>

(* read_exact *)
ReadMore(n) ==
  /\ at \in {"prefix", "body"} /\ n <= Want /\ consumed + n <= sent
  /\ consumed' = consumed + n
  /\ UNCHANGED <<foreign, writerVars, at, base, got, outcome>>

ReadShort ==
  /\ at \in {"prefix", "body"} /\ Want > 0 /\ phase = "gone" /\ consumed = sent
  /\ Stop("UnexpectedEof")
  /\ UNCHANGED <<foreign, writerVars, base, consumed, got>>

(* An I/O error, or the future is dropped after a poll. *)
ReadFails ==
  /\ at # "gone" /\ Stop("Io")
  /\ UNCHANGED <<foreign, writerVars, base, consumed, got>>

\* Variant: the limit is exclusive on this side.
mut_CheckLength ==
  /\ at = "prefix" /\ Want = 0
  /\ IF FrameAt(base).declared >= MAX_MESSAGE_BODY_LEN
     THEN Stop("TooLarge")
     ELSE at' = "body" /\ UNCHANGED outcome
  /\ UNCHANGED <<foreign, writerVars, base, consumed, got>>

(* The declared length is known. *)
CheckLength ==
  /\ at = "prefix" /\ Want = 0
  /\ IF FrameAt(base).declared > MAX_MESSAGE_BODY_LEN
     THEN Stop("TooLarge")
     ELSE at' = "body" /\ UNCHANGED outcome
  /\ UNCHANGED <<foreign, writerVars, base, consumed, got>>

\* Variant: a body with a remainder is returned.
mut_TakeFromBytes ==
  /\ at = "body" /\ Want = 0
  /\ IF FrameAt(base).verdict # "Decode"
     THEN /\ at' = "idle" /\ outcome' = "Ok" /\ base' = consumed
          /\ got' = Append(got, FrameAt(base))
     ELSE Stop(FrameAt(base).verdict) /\ UNCHANGED <<base, got>>
  /\ UNCHANGED <<foreign, writerVars, consumed>>

(* postcard::take_from_bytes and the remainder. *)
TakeFromBytes ==
  /\ at = "body" /\ Want = 0
  /\ IF FrameAt(base).verdict = "Ok"
     THEN /\ at' = "idle" /\ outcome' = "Ok" /\ base' = consumed
          /\ got' = Append(got, FrameAt(base))
     ELSE Stop(FrameAt(base).verdict) /\ UNCHANGED <<base, got>>
  /\ UNCHANGED <<foreign, writerVars, consumed>>

-----------------------------------------------------------------------------
FrameBytes == LENGTH_PREFIX_LEN + MAX_MESSAGE_BODY_LEN + 1
WriterSteps ==
  \/ WriteMessage \/ EncodeFails \/ OutputFails \/ Discard
  \/ (\E n \in Pieces : TryExtend(n))
  \/ (\E v \in Verdicts : Encoded(v))
  \/ (\E n \in 1..FrameBytes : Accept(n))
  \/ (\E d \in 0..MAX_MESSAGE_BODY_LEN + 1, v \in Verdicts : ForeignFrame(d, v))
Progress == \/ ReadFirst \/ ReadEnd \/ ReadShort \/ CheckLength \/ TakeFromBytes
            \/ (\E n \in 1..FrameBytes : ReadMore(n))
Next == WriterSteps \/ Progress \/ ReadFails

(* The reading task calls read_message again after each message, and the   *)
(* stream delivers what it accepted; nothing is assumed of the writer.     *)
Spec == Init /\ [][Next]_vars /\ WF_vars(Progress)

-----------------------------------------------------------------------------
(* What the connection is as a channel of messages: a foreign peer's       *)
(* frames are none of it.                                                  *)
Message(frame) == [declared |-> frame.declared, verdict |-> frame.verdict]
Written == IF foreign THEN <<>> ELSE [n \in 1..Len(frames) |-> Message(frames[n])]
Delivered == IF foreign THEN <<>> ELSE [n \in 1..Len(got) |-> Message(got[n])]
Broken == ~foreign /\ phase \in {"broken", "gone"} /\ sent < EndOf(Len(frames))
ReaderState == CASE foreign \/ at # "gone" -> "open"
                 [] ~foreign /\ at = "gone" /\ outcome = "EndOfStream" -> "finished"
                 [] ~foreign /\ at = "gone" /\ outcome = "UnexpectedEof" -> "truncated"
                 [] ~foreign /\ at = "gone" /\ outcome = "TooLarge" -> "corrupt"
                 [] OTHER -> "failed"

Channel == INSTANCE RecordChannel WITH
  Records <- [declared: 0..MAX_MESSAGE_BODY_LEN, verdict: Verdicts],
  written <- Written, got <- Delivered, broken <- Broken,
  closed <- phase = "gone", reader <- ReaderState

(* A connection between two of our ends is the FIFO channel of             *)
(* RecordChannel: short reads and writes, rejected messages and dropped    *)
(* futures never deliver a message twice, out of order or half, the end of *)
(* stream is reported only after all acknowledged messages, and the two    *)
(* size limits agree: no frame the writer sends is TooLarge to the reader. *)
ImplementsChannel == Channel!Spec

(* Between two calls the reader stands exactly behind the frames it has    *)
(* returned, whoever wrote them, all of them decoded to the last byte: one *)
(* call consumes one frame.                                                *)
StaysAligned ==
  at = "idle" =>
    /\ consumed = EndOf(Len(got)) /\ Len(got) <= Len(frames)
    /\ \A n \in 1..Len(got) : got[n] = frames[n] /\ frames[n].verdict = "Ok"

(* A message whose write returned Ok is read, or an earlier one or itself  *)
(* is refused by its deserializer, or the connection fails the reader.     *)
AcknowledgedIsRead ==
  \A k \in 1..MaxMessages :
    acknowledged >= k ~> (Len(got) >= k \/ outcome \in {"Io", "Decode", "TrailingBytes"})
=============================================================================
