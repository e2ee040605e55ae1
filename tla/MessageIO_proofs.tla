--------------------------- MODULE MessageIO_proofs ---------------------------
(***************************************************************************)
(* read_message stays aligned with the frames of its stream, for every     *)
(* prefix length, size limit and sequence of messages.                     *)
(***************************************************************************)
EXTENDS MessageIO, TLAPS

FrameType == [start: Nat, declared: Nat, verdict: Verdicts]

Typed ==
  /\ frames \in Seq(FrameType) /\ got \in Seq(FrameType)
  /\ sent \in Nat /\ base \in Nat /\ consumed \in Nat /\ body_len \in Nat
  /\ phase \in {"idle", "encode", "output", "broken", "gone"}
  /\ at \in {"idle", "prefix", "body", "gone"}

(* Frames follow one another without a gap, so no two start at one byte. *)
Contiguous ==
  /\ \A n \in 1..Len(frames) : frames[n].start = EndOf(n - 1)
  /\ \A m, n \in 1..Len(frames) : m < n => EndOf(m) <= frames[n].start

(* Only a frame whose write is under way or broke off is incomplete. *)
Complete ==
  /\ sent <= EndOf(Len(frames))
  /\ phase \in {"idle", "encode"} => sent = EndOf(Len(frames))

(* A call that has read a byte stands inside the next frame. *)
InFrame ==
  /\ Len(got) < Len(frames)
  /\ consumed <= base + LENGTH_PREFIX_LEN
                 + (IF at = "body" THEN frames[Len(got) + 1].declared ELSE 0)
Reading ==
  at # "gone" =>
    /\ Len(got) <= Len(frames)
    /\ \A n \in 1..Len(got) : got[n] = frames[n] /\ frames[n].verdict = "Ok"
    /\ base = EndOf(Len(got)) /\ base <= consumed /\ consumed <= sent
    /\ IF at = "idle" THEN consumed = base ELSE InFrame

IInv == Typed /\ Contiguous /\ Complete /\ Reading

LEMMA InitEstablishes == Init => IInv
  BY MessageAssumption DEF Init, IInv, Typed, Contiguous, Complete, Reading, EndOf

(* A frame has bytes, the first and the last with numbers. *)
LEMMA FrameExtent ==
  ASSUME Typed, NEW n \in 1..Len(frames)
  PROVE  /\ frames[n] \in FrameType
         /\ frames[n].start \in Nat /\ frames[n].declared \in Nat
         /\ EndOf(n) = frames[n].start + LENGTH_PREFIX_LEN + frames[n].declared
         /\ EndOf(n) \in Nat /\ frames[n].start < EndOf(n)
<1>1. frames[n] \in FrameType
  BY DEF Typed
<1>2. frames[n].start \in Nat /\ frames[n].declared \in Nat
  BY <1>1 DEF FrameType
<1>3. n \in Int /\ n # 0
  BY DEF Typed
<1>4. EndOf(n) = frames[n].start + LENGTH_PREFIX_LEN + frames[n].declared
  BY <1>3 DEF EndOf
<1> QED BY <1>1, <1>2, <1>4, MessageAssumption

LEMMA EndIsNat ==
  ASSUME Typed, NEW n \in 0..Len(frames) PROVE EndOf(n) \in Nat
<1>1. CASE n = 0
  BY <1>1 DEF EndOf
<1>2. CASE n \in 1..Len(frames)
  BY <1>2, FrameExtent
<1> QED BY <1>1, <1>2

(* A frame appended at the end of the others leaves them as they were. *)
LEMMA AppendFrame ==
  ASSUME IInv, phase \in {"idle", "encode"}, NEW f \in FrameType, f.start = sent,
         frames' = Append(frames, f)
  PROVE  /\ frames' \in Seq(FrameType) /\ Len(frames') = Len(frames) + 1
         /\ frames'[Len(frames) + 1] = f
         /\ \A n \in 1..Len(frames) : frames'[n] = frames[n]
         /\ \A n \in 0..Len(frames) : EndOf(n)' = EndOf(n)
         /\ EndOf(Len(frames))' = sent + LENGTH_PREFIX_LEN + f.declared
         /\ Contiguous'
<1> DEFINE L == Len(frames)
<1>1. /\ L \in Nat /\ frames' \in Seq(FrameType) /\ Len(frames') = L + 1
      /\ frames'[L + 1] = f
      /\ \A n \in 1..L : frames'[n] = frames[n]
  BY DEF IInv, Typed
<1>2. \A n \in 0..L : EndOf(n)' = EndOf(n)
  BY <1>1 DEF EndOf
<1>3. EndOf(Len(frames))' = sent + LENGTH_PREFIX_LEN + f.declared
  BY <1>1 DEF EndOf
<1>4. sent = EndOf(L) /\ sent \in Nat
  BY DEF IInv, Complete, Typed
<1>5. \A n \in 1..Len(frames') : frames'[n].start = EndOf(n - 1)'
  <2> SUFFICES ASSUME NEW n \in 1..(L + 1) PROVE frames'[n].start = EndOf(n - 1)'
    BY <1>1
  <2>1. CASE n = L + 1
    BY <2>1, <1>1, <1>2, <1>4
  <2>2. CASE n \in 1..L
    <3>1. frames[n].start = EndOf(n - 1)
      BY <2>2 DEF IInv, Contiguous
    <3> QED BY <3>1, <2>2, <1>1, <1>2
  <2> QED BY <1>1, <2>1, <2>2
<1>6. \A m, n \in 1..Len(frames') : m < n => EndOf(m)' <= frames'[n].start
  <2> SUFFICES ASSUME NEW m \in 1..(L + 1), NEW n \in 1..(L + 1), m < n
               PROVE  EndOf(m)' <= frames'[n].start
    BY <1>1
  <2>0. m \in 1..L /\ EndOf(m)' = EndOf(m) /\ EndOf(m) \in Nat /\ EndOf(L) \in Nat
    BY <1>1, <1>2, EndIsNat DEF IInv
  <2>1. CASE n \in 1..L
    BY <2>0, <2>1, <1>1 DEF IInv, Contiguous
  <2>2. CASE n = L + 1
    <3>1. frames'[n].start = EndOf(L)
      BY <2>2, <1>1, <1>4
    <3>2. CASE m = L
      BY <3>1, <3>2, <2>0
    <3>3. CASE m < L
      <4>1. L \in 1..L /\ EndOf(m) <= frames[L].start
        BY <3>3, <2>0, <1>1 DEF IInv, Contiguous
      <4>2. frames[L].start <= EndOf(L)
        BY <4>1, FrameExtent DEF IInv
      <4>3. frames[L].start \in Nat
        BY <4>1, FrameExtent DEF IInv
      <4> QED BY <4>1, <4>2, <4>3, <3>1, <2>0
    <3> QED BY <3>2, <3>3, <2>0, <1>1
  <2> QED BY <2>1, <2>2, <1>1
<1> QED BY <1>1, <1>2, <1>3, <1>5, <1>6 DEF Contiguous

(* What a reader inside a frame decodes is that frame. *)
LEMMA FrameAtBase ==
  ASSUME IInv, at # "gone", Len(got) < Len(frames)
  PROVE  /\ FrameAt(base) = frames[Len(got) + 1]
         /\ frames[Len(got) + 1] \in FrameType
         /\ EndOf(Len(got) + 1) = base + LENGTH_PREFIX_LEN + frames[Len(got) + 1].declared
<1> DEFINE k == Len(got) + 1
<1>1. k \in 1..Len(frames) /\ frames[k] \in FrameType
  BY DEF IInv, Typed
<1>2. base = EndOf(k - 1) /\ frames[k].start = base
  BY <1>1 DEF IInv, Contiguous, Reading, Typed
<1>3. ASSUME NEW n \in 1..Len(frames), frames[n].start = base PROVE n = k
  <2>1. \A j \in 1..Len(frames) : frames[j].start < EndOf(j) /\ frames[j].start \in Nat
                                  /\ EndOf(j) \in Nat
    BY FrameExtent DEF IInv
  <2>2. CASE n < k
    BY <2>1, <2>2, <1>1, <1>2, <1>3 DEF IInv, Contiguous
  <2>3. CASE k < n
    BY <2>1, <2>3, <1>1, <1>2, <1>3 DEF IInv, Contiguous
  <2> QED BY <2>2, <2>3, <1>1
<1>4. {n \in 1..Len(frames) : frames[n].start = base} = {k}
  BY <1>1, <1>2, <1>3
<1>5. FrameAt(base) = frames[k]
  BY <1>4 DEF FrameAt
<1>6. EndOf(k) = base + LENGTH_PREFIX_LEN + frames[k].declared
  BY <1>1, <1>2, FrameExtent DEF IInv
<1> QED BY <1>1, <1>5, <1>6
(* The writer appends behind the last frame only when that one is complete. *)
LEMMA WriterPreserves == ASSUME IInv, WriterSteps PROVE IInv'
<1> DEFINE L == Len(frames)
<1>1. CASE WriteMessage \/ EncodeFails \/ OutputFails \/ Discard
  <2>1. /\ UNCHANGED <<frames, sent, readerVars>> /\ body_len' \in Nat
        /\ phase' \in {"idle", "encode", "broken", "gone"}
        /\ phase' \in {"idle", "encode"} => phase \in {"idle", "encode"}
    BY <1>1 DEF WriteMessage, EncodeFails, OutputFails, Discard, IInv, Typed
  <2> QED BY <2>1 DEF readerVars, IInv, Typed, Contiguous, Complete, Reading, InFrame, EndOf
<1>2. ASSUME NEW n \in Pieces, TryExtend(n) PROVE IInv'
  <2>1. n \in Nat
    BY <1>2, MessageAssumption
  <2>2. UNCHANGED <<phase, frames, sent, readerVars>> /\ body_len' \in Nat
    BY <1>2, <2>1 DEF TryExtend, IInv, Typed
  <2> QED BY <2>2 DEF readerVars, IInv, Typed, Contiguous, Complete, Reading, InFrame, EndOf
<1>3. ASSUME NEW n \in 1..FrameBytes, Accept(n) PROVE IInv'
  <2>1. n \in Nat /\ L \in Nat /\ EndOf(L) \in Nat
    BY MessageAssumption, EndIsNat DEF FrameBytes, IInv, Typed
  <2>2. /\ UNCHANGED <<frames, body_len, readerVars>> /\ sent' = sent + n
        /\ sent' <= EndOf(L) /\ phase = "output"
        /\ phase' = "output" \/ (phase' = "idle" /\ sent' = EndOf(L))
    BY <1>3 DEF Accept
  <2>3. sent' \in Nat /\ sent <= sent'
    BY <2>1, <2>2 DEF IInv, Typed
  <2>4. Typed' /\ Contiguous' /\ Complete'
    BY <2>1, <2>2, <2>3 DEF readerVars, IInv, Typed, Contiguous, Complete, EndOf
  <2>5. Reading'
    BY <2>1, <2>2, <2>3 DEF readerVars, IInv, Typed, Reading, InFrame, EndOf
  <2> QED BY <2>4, <2>5 DEF IInv
<1>4. ASSUME NEW f \in FrameType, f.start = sent, phase \in {"idle", "encode"},
             frames' = Append(frames, f), UNCHANGED <<body_len, readerVars>>,
             \/ phase' = "output" /\ sent' = sent
             \/ phase' = "idle" /\ sent' = sent + LENGTH_PREFIX_LEN + f.declared
      PROVE IInv'
  <2>1. /\ L \in Nat /\ frames' \in Seq(FrameType) /\ Len(frames') = L + 1
        /\ \A n \in 1..L : frames'[n] = frames[n]
        /\ \A n \in 0..L : EndOf(n)' = EndOf(n)
        /\ Contiguous'
    BY <1>4, AppendFrame DEF IInv, Typed
  <2>2. EndOf(Len(frames))' = sent + LENGTH_PREFIX_LEN + f.declared
    BY <1>4, AppendFrame
  <2>3. sent' \in Nat /\ sent <= sent' /\ sent' <= sent + LENGTH_PREFIX_LEN + f.declared
    BY <1>4, MessageAssumption DEF FrameType, IInv, Typed
  <2>4. Typed'
    BY <1>4, <2>1, <2>3 DEF readerVars, IInv, Typed
  <2>5. Complete'
    BY <1>4, <2>2, <2>3 DEF Complete
  <2>6. Reading'
    <3> SUFFICES ASSUME at # "gone" PROVE Reading'
      BY <1>4 DEF Reading, readerVars
    <3>1. UNCHANGED <<at, got, base, consumed>> /\ Len(got) \in 0..L
      BY <1>4, <2>1 DEF readerVars, IInv, Reading, Typed
    <3>2. EndOf(Len(got))' = EndOf(Len(got))
      <4> DEFINE g == Len(got)
      <4>1. ASSUME g # 0 PROVE frames'[g] = frames[g]
        BY <3>1, <2>1, <4>1
      <4> QED BY <3>1, <4>1 DEF EndOf
    <3>3. InFrame => InFrame'
      BY <3>1, <2>1 DEF InFrame
    <3> QED BY <3>1, <3>2, <3>3, <2>1, <2>3, SMTT(30) DEF IInv, Reading, Typed
  <2> QED BY <2>1, <2>4, <2>5, <2>6 DEF IInv
<1>5. ASSUME NEW v \in Verdicts, Encoded(v) PROVE IInv'
  <2> DEFINE f == [start |-> sent, declared |-> body_len, verdict |-> v]
  <2>1. f \in FrameType /\ f.start = sent
    BY DEF FrameType, IInv, Typed
  <2> QED BY <1>4, <1>5, <2>1 DEF Encoded
<1>6. ASSUME NEW d \in 0..MAX_MESSAGE_BODY_LEN + 1, NEW v \in Verdicts,
             ForeignFrame(d, v)
      PROVE IInv'
  <2> DEFINE f == [start |-> sent, declared |-> d, verdict |-> v]
  <2>1. f \in FrameType /\ f.start = sent /\ f.declared = d
    BY MessageAssumption DEF FrameType, IInv, Typed
  <2>2. /\ phase = "idle" /\ phase' = "idle" /\ frames' = Append(frames, f)
        /\ sent' = sent + LENGTH_PREFIX_LEN + f.declared
        /\ UNCHANGED <<body_len, readerVars>>
    BY <1>6 DEF ForeignFrame
  <2> HIDE DEF f
  <2> QED BY <1>4, <2>1, <2>2
<1> QED BY <1>1, <1>2, <1>3, <1>5, <1>6 DEF WriterSteps

(* The reader never passes the end of its frame, and leaves it only there. *)
LEMMA ReaderPreserves == ASSUME IInv, Progress \/ ReadFails PROVE IInv'
<1>0. /\ UNCHANGED writerVars /\ at # "gone"
      /\ (Typed /\ Reading)' => IInv'
  <2>1. UNCHANGED writerVars /\ at # "gone"
    BY DEF Progress, ReadFails, ReadFirst, ReadEnd, ReadMore, ReadShort, CheckLength, TakeFromBytes
  <2> QED BY <2>1 DEF IInv, Contiguous, Complete, EndOf, writerVars
<1>1. CASE ReadEnd \/ ReadShort \/ ReadFails
  BY <1>0, <1>1 DEF ReadEnd, ReadShort, ReadFails, Stop, IInv, Typed, Reading, writerVars
<1>2. CASE ReadFirst
  <2>1. /\ at = "idle" /\ consumed < sent /\ consumed' = consumed + 1
        /\ at' = "prefix" /\ UNCHANGED <<base, got, frames, sent, phase, body_len>>
    BY <1>2 DEF ReadFirst, writerVars
  <2>2. consumed = base /\ Len(got) <= Len(frames) /\ sent <= EndOf(Len(frames))
        /\ base = EndOf(Len(got))
    BY <2>1 DEF IInv, Reading, Complete
  <2>3. Len(got) < Len(frames)
    <3>1. Len(got) # Len(frames)
      BY <2>1, <2>2 DEF IInv, Typed
    <3> QED BY <3>1, <2>2 DEF IInv, Typed
  <2>4. Typed'
    BY <2>1 DEF IInv, Typed
  <2>5. InFrame'
    BY <2>1, <2>2, <2>3, MessageAssumption DEF InFrame, IInv, Typed
  <2>6. Reading'
    BY <2>1, <2>2, <2>5 DEF IInv, Typed, Reading, EndOf
  <2> QED BY <1>0, <2>4, <2>6
<1>3. ASSUME NEW n \in 1..FrameBytes, ReadMore(n) PROVE IInv'
  <2>1. /\ at \in {"prefix", "body"} /\ n <= Want /\ consumed + n <= sent
        /\ consumed' = consumed + n
        /\ UNCHANGED <<at, base, got, frames, sent, phase, body_len>>
    BY <1>3 DEF ReadMore, writerVars
  <2>2. n \in Nat
    BY MessageAssumption DEF FrameBytes
  <2>3. InFrame /\ Len(got) < Len(frames)
    BY <2>1 DEF IInv, Reading, InFrame
  <2>4. FrameAt(base) = frames[Len(got) + 1] /\ frames[Len(got) + 1].declared \in Nat
    BY <2>1, <2>3, FrameAtBase DEF FrameType
  <2>5. InFrame'
    BY <2>1, <2>2, <2>3, <2>4, MessageAssumption DEF Want, InFrame, IInv, Typed
  <2>6. Typed'
    BY <2>1, <2>2 DEF IInv, Typed
  <2>7. Reading'
    BY <2>1, <2>2, <2>5 DEF IInv, Typed, Reading, EndOf
  <2> QED BY <1>0, <2>6, <2>7
<1>4. CASE CheckLength
  <2>1. /\ at = "prefix" /\ at' \in {"body", "gone"}
        /\ UNCHANGED <<base, consumed, got, frames, sent, phase, body_len>>
    BY <1>4 DEF CheckLength, Stop, writerVars
  <2>2. InFrame /\ Len(got) < Len(frames)
    BY <2>1 DEF IInv, Reading, InFrame
  <2>3. frames[Len(got) + 1].declared \in Nat
    BY <2>1, <2>2, FrameAtBase DEF FrameType
  <2>4. at' = "body" => InFrame'
    BY <2>1, <2>2, <2>3, MessageAssumption DEF InFrame, IInv, Typed
  <2>5. Typed' /\ Reading'
    BY <2>1, <2>4 DEF IInv, Typed, Reading, EndOf
  <2> QED BY <1>0, <2>5
<1>5. CASE TakeFromBytes
  <2>1. at = "body" /\ Want = 0 /\ UNCHANGED <<consumed, frames, sent, phase, body_len>>
    BY <1>5 DEF TakeFromBytes, writerVars
  <2>2. InFrame /\ Len(got) < Len(frames)
    BY <2>1 DEF IInv, Reading, InFrame
  <2> DEFINE k == Len(got) + 1
  <2>3. /\ FrameAt(base) = frames[k] /\ frames[k] \in FrameType
        /\ EndOf(k) = base + LENGTH_PREFIX_LEN + frames[k].declared
    BY <2>1, <2>2, FrameAtBase
  <2>4. consumed = EndOf(k)
    <3>1. frames[k].declared \in Nat
      BY ONLY <2>3 DEF FrameType
    <3>2. base \in Nat /\ consumed \in Nat /\ LENGTH_PREFIX_LEN \in Nat
      BY MessageAssumption DEF IInv, Typed
    <3>3. base + LENGTH_PREFIX_LEN - consumed + frames[k].declared = 0
      BY <2>1, <2>3 DEF Want
    <3> QED BY ONLY <2>3, <3>1, <3>2, <3>3
  <2>5. CASE FrameAt(base).verdict = "Ok"
    <3>1. /\ at' = "idle" /\ base' = consumed /\ got' = Append(got, frames[k])
      BY <1>5, <2>3, <2>5 DEF TakeFromBytes
    <3>2. /\ got' \in Seq(FrameType) /\ Len(got') = k /\ got'[k] = frames[k]
          /\ \A n \in 1..Len(got) : got'[n] = got[n]
      BY <3>1, <2>3 DEF IInv, Typed
    <3>3. \A n \in 1..Len(got') : got'[n] = frames[n] /\ frames[n].verdict = "Ok"
      BY <3>2, <2>1, <2>3, <2>5 DEF IInv, Typed, Reading
    <3>4. EndOf(Len(got))' = EndOf(k)
      BY <3>2, <2>1 DEF EndOf
    <3>5. Typed'
      BY <3>1, <3>2, <2>1 DEF IInv, Typed
    <3>6. k <= Len(frames) /\ consumed <= sent
      BY <2>1, <2>2 DEF IInv, Typed, Reading
    <3>7. Reading'
      BY <3>1, <3>2, <3>3, <3>4, <3>6, <2>1, <2>4 DEF Reading, IInv, Typed
    <3> QED BY <1>0, <3>5, <3>7
  <2>6. CASE FrameAt(base).verdict # "Ok"
    BY <1>0, <1>5, <2>1, <2>6 DEF TakeFromBytes, Stop, IInv, Typed, Reading
  <2> QED BY <2>5, <2>6
<1> QED BY <1>1, <1>2, <1>3, <1>4, <1>5 DEF Progress

LEMMA StepPreserves == ASSUME IInv, [Next]_vars PROVE IInv'
<1>1. CASE UNCHANGED vars
  BY <1>1 DEF vars, writerVars, readerVars, IInv, Typed, Contiguous, Complete,
              Reading, InFrame, EndOf
<1> QED BY <1>1, WriterPreserves, ReaderPreserves DEF Next

(* The strengthening: between the calls alignment needs that the frames    *)
(* are contiguous and that a call in progress stands inside one of them.   *)
THEOREM Inductive == Spec => []IInv
<1>1. IInv /\ [Next]_vars => IInv'
  BY StepPreserves
<1> QED BY InitEstablishes, <1>1, PTL DEF Spec

(* Whatever the lengths of the frames, the short reads and the fate of the *)
(* writer, a read_message that can be called again starts at the byte      *)
(* where the next frame does, and has returned exactly the frames before.  *)
THEOREM Aligned == Spec => []StaysAligned
<1>1. IInv => StaysAligned
  BY DEF IInv, Reading, StaysAligned
<1> QED BY Inductive, <1>1, PTL

-----------------------------------------------------------------------------
(* The channel that the connection implements.  Of a connection between    *)
(* two of our ends it needs in addition that every frame is within the     *)
(* limit, and that all frames but one being written are acknowledged.      *)
Acknowledged ==
  /\ foreign \in BOOLEAN /\ acknowledged \in 0..Len(frames)
  /\ foreign => acknowledged = 0 /\ phase \in {"idle", "gone"}
  /\ ~foreign =>
       /\ body_len <= MAX_MESSAGE_BODY_LEN
       /\ \A n \in 1..Len(frames) : frames[n].declared <= MAX_MESSAGE_BODY_LEN
       /\ EndOf(acknowledged) <= sent
       /\ sent = EndOf(Len(frames)) => acknowledged = Len(frames)
       /\ phase \in {"output", "broken"} => sent < EndOf(Len(frames))

CInv == IInv /\ Acknowledged

LEMMA EndsIncrease ==
  ASSUME IInv, NEW m \in 0..Len(frames), NEW n \in 0..Len(frames), m < n
  PROVE  EndOf(m) < EndOf(n)
<1>1. n \in 1..Len(frames) /\ EndOf(m) \in Nat /\ EndOf(n) \in Nat
  BY EndIsNat DEF IInv, Typed
<1>2. frames[n].start \in Nat /\ frames[n].start < EndOf(n)
  BY <1>1, FrameExtent DEF IInv
<1>3. EndOf(m) <= frames[n].start
  <2>1. CASE m = 0
    BY <2>1, <1>2 DEF EndOf
  <2>2. CASE m \in 1..Len(frames)
    BY <2>2, <1>1 DEF IInv, Contiguous
  <2> QED BY <2>1, <2>2
<1> QED BY <1>1, <1>2, <1>3

LEMMA AcknowledgedInit == Init => Acknowledged
  BY MessageAssumption DEF Init, Acknowledged, EndOf

LEMMA AcknowledgedStep == ASSUME CInv, IInv', [Next]_vars PROVE Acknowledged'
<1> DEFINE L == Len(frames)
<1> USE DEF CInv
<1>0. L \in Nat /\ sent \in Nat /\ body_len \in Nat /\ EndOf(L) \in Nat
  BY EndIsNat DEF IInv, Typed
<1>1. CASE UNCHANGED <<foreign, frames, sent, acknowledged>>
           /\ (body_len' = body_len \/ body_len' <= MAX_MESSAGE_BODY_LEN)
           /\ (phase' \in {"output", "broken"} => phase \in {"output", "broken"})
           /\ (foreign => phase' \in {phase, "gone"})
  BY <1>1 DEF Acknowledged, EndOf
<1>2. ASSUME NEW n \in Pieces, TryExtend(n) PROVE Acknowledged'
  <2>1. n \in Nat
    BY MessageAssumption
  <2>2. body_len' = body_len \/ body_len' <= MAX_MESSAGE_BODY_LEN
    BY <1>2, <2>1, <1>0, MessageAssumption DEF TryExtend
  <2> QED BY <1>1, <1>2, <2>2 DEF TryExtend
<1>3. ASSUME NEW v \in Verdicts, Encoded(v) PROVE Acknowledged'
  <2> DEFINE f == [start |-> sent, declared |-> body_len, verdict |-> v]
  <2>1. f \in FrameType /\ f.start = sent /\ f.declared = body_len
    BY <1>0 DEF FrameType
  <2>2. /\ phase = "encode" /\ frames' = Append(frames, f) /\ phase' = "output"
        /\ UNCHANGED <<foreign, body_len, sent, acknowledged>>
    BY <1>3 DEF Encoded
  <2> HIDE DEF f
  <2>3. /\ Len(frames') = L + 1 /\ frames'[L + 1] = f
        /\ \A n \in 1..L : frames'[n] = frames[n]
        /\ \A n \in 0..L : EndOf(n)' = EndOf(n)
        /\ EndOf(Len(frames))' = sent + LENGTH_PREFIX_LEN + body_len
    BY <2>1, <2>2, AppendFrame
  <2>4. acknowledged \in 0..L /\ EndOf(acknowledged)' = EndOf(acknowledged)
    <3>1. acknowledged \in 0..L
      BY DEF Acknowledged
    <3>2. ASSUME acknowledged # 0 PROVE frames'[acknowledged] = frames[acknowledged]
      BY <3>1, <3>2, <2>3, <1>0
    <3> QED BY <3>1, <3>2, <2>2 DEF EndOf
  <2>5. sent < EndOf(Len(frames))'
    BY <2>3, <1>0, MessageAssumption
  <2>6. ~foreign => \A n \in 1..Len(frames') : frames'[n].declared <= MAX_MESSAGE_BODY_LEN
    BY <2>1, <2>3, <1>0 DEF Acknowledged
  <2> QED BY <2>2, <2>3, <2>4, <2>5, <2>6, <1>0 DEF Acknowledged
<1>4. ASSUME NEW n \in 1..FrameBytes, Accept(n) PROVE Acknowledged'
  <2>1. n \in Nat
    BY MessageAssumption DEF FrameBytes
  <2>2. /\ sent' = sent + n /\ phase = "output"
        /\ UNCHANGED <<foreign, body_len, frames>>
        /\ sent' <= EndOf(L)
        /\ IF sent' = EndOf(L) THEN phase' = "idle" /\ acknowledged' = L
           ELSE UNCHANGED <<phase, acknowledged>>
    BY <1>4 DEF Accept
  <2>3. ~foreign
    BY <2>2 DEF Acknowledged
  <2>4. EndOf(acknowledged) \in Nat
    BY EndIsNat DEF Acknowledged, IInv
  <2> QED BY <2>1, <2>2, <2>3, <2>4, <1>0 DEF Acknowledged, EndOf
<1>5. ASSUME NEW d \in 0..MAX_MESSAGE_BODY_LEN + 1, NEW v \in Verdicts,
             ForeignFrame(d, v)
      PROVE Acknowledged'
  <2>1. Len(frames') = L + 1
    BY <1>5, <1>0 DEF ForeignFrame, IInv, Typed
  <2> QED BY <1>5, <2>1, <1>0 DEF ForeignFrame, Acknowledged
<1>6. CASE WriteMessage \/ EncodeFails \/ OutputFails \/ Discard
  <2>1. /\ UNCHANGED <<foreign, frames, sent, acknowledged>>
        /\ body_len' = body_len \/ body_len' <= MAX_MESSAGE_BODY_LEN
        /\ phase' \in {"output", "broken"} => phase \in {"output", "broken"}
        /\ foreign => phase' \in {phase, "gone"}
    BY <1>6, MessageAssumption DEF WriteMessage, EncodeFails, OutputFails, Discard, Acknowledged
  <2> QED BY <1>1, <2>1
<1>7. CASE Progress \/ ReadFails \/ UNCHANGED vars
  <2>1. UNCHANGED <<foreign, writerVars>>
    BY <1>7 DEF Progress, ReadFails, ReadFirst, ReadEnd, ReadMore, ReadShort,
                CheckLength, TakeFromBytes, vars
  <2> QED BY <1>1, <2>1 DEF writerVars
<1> QED BY <1>2, <1>3, <1>4, <1>5, <1>6, <1>7 DEF Next, WriterSteps

(* The channel's view of a step that leaves frames or messages alone. *)
LEMMA WrittenSame == ASSUME UNCHANGED <<foreign, frames>> PROVE Written' = Written
  BY DEF Written, Message
LEMMA DeliveredSame == ASSUME UNCHANGED <<foreign, got>> PROVE Delivered' = Delivered
  BY DEF Delivered, Message
LEMMA OpenWhileReading == ASSUME at # "gone" PROVE ReaderState = "open"
  BY DEF ReaderState

LEMMA Lengths ==
  ASSUME CInv, ~foreign
  PROVE  /\ Len(Written) = Len(frames) /\ Len(Delivered) = Len(got)
         /\ Len(frames) \in Nat /\ Len(got) \in Nat
         /\ \A n \in 1..Len(frames) : Written[n] = Message(frames[n])
         /\ \A n \in 1..Len(got) : Delivered[n] = Message(got[n])
  BY DEF CInv, IInv, Typed, Written, Delivered

(* A reader at the end of the bytes has every acknowledged message. *)
LEMMA EndCovers ==
  ASSUME CInv, ~foreign, at # "gone", NEW k \in {Len(got), Len(got) + 1},
         k <= Len(frames), sent < EndOf(k) \/ (k = Len(got) /\ sent = EndOf(k))
  PROVE  acknowledged <= Len(got)
<1> USE DEF CInv
<1>1. /\ acknowledged \in 0..Len(frames) /\ k \in 0..Len(frames)
      /\ Len(frames) \in Nat /\ Len(got) \in Nat
      /\ EndOf(acknowledged) <= sent /\ sent \in Nat
  BY DEF Acknowledged, IInv, Typed
<1>2. EndOf(acknowledged) \in Nat /\ EndOf(k) \in Nat
  BY <1>1, EndIsNat DEF IInv
<1>3. CASE acknowledged > k
  BY <1>1, <1>2, <1>3, EndsIncrease
<1>4. CASE acknowledged = k
  BY <1>1, <1>2, <1>4
<1> QED BY <1>1, <1>3, <1>4

(* Every step is a step of the channel or leaves it as it is. *)
LEMMA WriterStepsSimulate ==
  ASSUME CInv, CInv', WriterSteps PROVE [Channel!Next]_Channel!vars
<1> DEFINE L == Len(frames)
<1> USE DEF CInv
<1>0. /\ UNCHANGED <<foreign, readerVars>>
      /\ Delivered' = Delivered /\ ReaderState' = ReaderState
  <2>1. UNCHANGED <<foreign, readerVars>>
    BY DEF WriterSteps, WriteMessage, TryExtend, EncodeFails, Encoded, Accept,
           OutputFails, Discard, ForeignFrame
  <2> QED BY <2>1, DeliveredSame DEF ReaderState, readerVars
<1>00. L \in Nat /\ sent \in Nat /\ EndOf(L) \in Nat
  BY EndIsNat DEF IInv, Typed
<1>1. ASSUME UNCHANGED <<frames, sent, acknowledged>>,
             {phase, phase'} \cap {"broken", "gone"} = {}
      PROVE UNCHANGED Channel!vars
  <2>1. Written' = Written /\ Broken' = Broken
    BY <1>0, <1>1, WrittenSame DEF Broken
  <2>2. (phase = "gone") = (phase' = "gone")
    BY <1>1
  <2> QED BY <1>0, <1>1, <2>1, <2>2 DEF Channel!vars
<1>2. CASE WriteMessage \/ EncodeFails \/ (\E n \in Pieces : TryExtend(n))
  BY <1>1, <1>2 DEF WriteMessage, EncodeFails, TryExtend
<1>3. ASSUME NEW v \in Verdicts, Encoded(v) PROVE Channel!Next
  <2> DEFINE f == [start |-> sent, declared |-> body_len, verdict |-> v]
  <2>1. /\ phase = "encode" /\ phase' = "output" /\ ~foreign
        /\ frames' = Append(frames, f) /\ acknowledged' = acknowledged
    BY <1>3 DEF Encoded, Acknowledged
  <2>2. f \in FrameType
    BY DEF FrameType, IInv, Typed
  <2>3. Message(f) \in [declared: 0..MAX_MESSAGE_BODY_LEN, verdict: Verdicts]
    BY <2>1 DEF Message, Acknowledged, IInv, Typed
  <2>4. Written' = Append(Written, Message(f))
    <3> HIDE DEF f
    <3>1. /\ Len(frames') = L + 1 /\ frames'[L + 1] = f
          /\ \A n \in 1..L : frames'[n] = frames[n]
      BY <2>1, <2>2 DEF IInv, Typed
    <3>2. Written' = [n \in 1..(L + 1) |-> Message(frames'[n])]
      BY <2>1, <3>1, <1>0 DEF Written, Message
    <3>3. Written = [n \in 1..L |-> Message(frames[n])]
      BY <2>1 DEF Written
    <3> QED BY <3>1, <3>2, <3>3, <1>00
  <2>5. /\ Broken = FALSE /\ Broken' = FALSE
        /\ (phase = "gone") = FALSE /\ (phase' = "gone") = FALSE
    BY <2>1 DEF Broken
  <2>6. Channel!Write(Message(f))
    BY <1>0, <2>1, <2>4, <2>5 DEF Channel!Write
  <2> QED BY <2>3, <2>6 DEF Channel!Next
<1>4. ASSUME NEW n \in 1..FrameBytes, Accept(n) PROVE [Channel!Next]_Channel!vars
  <2>1. /\ phase = "output" /\ ~foreign /\ frames' = frames
        /\ phase' \in {"idle", "output"}
        /\ acknowledged' = acknowledged \/ acknowledged' = L
    BY <1>4 DEF Accept, Acknowledged
  <2>2. /\ Written' = Written /\ Broken = FALSE /\ Broken' = FALSE
        /\ (phase = "gone") = FALSE /\ (phase' = "gone") = FALSE
    BY <1>0, <2>1, WrittenSame DEF Broken
  <2>3. Len(Written) = L
    BY <2>1, Lengths
  <2>4. CASE acknowledged' = L
    BY <1>0, <2>1, <2>2, <2>3, <2>4 DEF Channel!Next, Channel!Acknowledge
  <2>5. CASE acknowledged' = acknowledged
    BY <1>0, <2>1, <2>2, <2>5 DEF Channel!vars
  <2> QED BY <2>1, <2>4, <2>5
<1>5. CASE OutputFails
  <2>1. /\ phase = "output" /\ phase' = "broken" /\ ~foreign
        /\ UNCHANGED <<frames, sent, acknowledged>> /\ sent < EndOf(L)
    BY <1>5 DEF OutputFails, Acknowledged
  <2>2. Written' = Written /\ Broken'
    BY <1>0, <2>1, WrittenSame DEF Broken, EndOf
  <2> QED BY <1>0, <2>1, <2>2 DEF Channel!Next, Channel!Break
<1>6. CASE Discard
  <2>1. /\ phase \in {"idle", "broken"} /\ phase' = "gone"
        /\ UNCHANGED <<frames, sent, acknowledged>>
    BY <1>6 DEF Discard
  <2>2. EndOf(Len(frames))' = EndOf(L)
    BY <2>1 DEF EndOf
  <2>3. Written' = Written /\ Broken' = Broken
    BY <1>0, <1>00, <2>1, <2>2, WrittenSame DEF Broken, IInv, Complete
  <2> QED BY <1>0, <2>1, <2>3 DEF Channel!Next, Channel!Close
<1>7. ASSUME NEW d \in 0..MAX_MESSAGE_BODY_LEN + 1, NEW v \in Verdicts,
             ForeignFrame(d, v)
      PROVE UNCHANGED Channel!vars
  <2>1. foreign /\ foreign' /\ UNCHANGED <<phase, acknowledged>>
    BY <1>7 DEF ForeignFrame
  <2>2. Written' = Written /\ Broken' = Broken
    BY <2>1 DEF Written, Broken
  <2> QED BY <1>0, <2>1, <2>2 DEF Channel!vars
<1> QED BY <1>2, <1>3, <1>4, <1>5, <1>6, <1>7 DEF WriterSteps

LEMMA ReaderStepsSimulate ==
  ASSUME CInv, CInv', Progress \/ ReadFails PROVE [Channel!Next]_Channel!vars
<1> USE DEF CInv
<1>0. /\ UNCHANGED <<foreign, writerVars>> /\ at # "gone"
      /\ Written' = Written /\ Broken' = Broken /\ (phase = "gone") = (phase' = "gone")
      /\ UNCHANGED acknowledged /\ ReaderState = "open"
  <2>1. UNCHANGED <<foreign, writerVars>> /\ at # "gone"
    BY DEF Progress, ReadFails, ReadFirst, ReadEnd, ReadMore, ReadShort,
           CheckLength, TakeFromBytes
  <2> QED BY <2>1, WrittenSame, OpenWhileReading DEF writerVars, Broken, EndOf
<1>1. ASSUME UNCHANGED got, at' # "gone" \/ foreign PROVE UNCHANGED Channel!vars
  <2>1. ReaderState' = "open"
    BY <1>0, <1>1 DEF ReaderState
  <2> QED BY <1>0, <1>1, <2>1, DeliveredSame DEF Channel!vars
<1>2. CASE foreign
  <2>1. Delivered' = Delivered /\ ReaderState' = "open"
    BY <1>0, <1>2 DEF Delivered, ReaderState
  <2> QED BY <1>0, <2>1 DEF Channel!vars
<1>3. ASSUME ~foreign, UNCHANGED got, at' = "gone",
             outcome' \in {"Io", "Decode", "TrailingBytes"}
      PROVE Channel!Next
  <2>1. ReaderState' = "failed"
    BY <1>0, <1>3 DEF ReaderState
  <2> QED BY <1>0, <1>3, <2>1, DeliveredSame DEF Channel!Next, Channel!Fail
<1>4. CASE ~foreign /\ (ReadFirst \/ \E n \in 1..FrameBytes : ReadMore(n))
  BY <1>0, <1>1, <1>4 DEF ReadFirst, ReadMore
<1>5. CASE ~foreign /\ ReadFails
  BY <1>3, <1>5 DEF ReadFails, Stop
<1>6. CASE ~foreign /\ CheckLength
  <2>1. at = "prefix" /\ Len(got) < Len(frames)
    BY <1>6 DEF CheckLength, IInv, Reading, InFrame
  <2>2. FrameAt(base).declared <= MAX_MESSAGE_BODY_LEN
    <3>1. FrameAt(base) = frames[Len(got) + 1]
      <4>1. at # "gone"
        BY <2>1
      <4> QED BY <2>1, <4>1, FrameAtBase
    <3>2. Len(got) + 1 \in 1..Len(frames)
      BY <2>1 DEF IInv, Typed
    <3> QED BY <1>6, <3>1, <3>2 DEF Acknowledged
  <2>3. FrameAt(base).declared \in Nat
    BY <2>1, FrameAtBase DEF FrameType
  <2>4. at' = "body" /\ UNCHANGED got
    BY <1>6, <2>2, <2>3, MessageAssumption DEF CheckLength
  <2> QED BY <1>1, <2>4
<1>7. CASE ~foreign /\ ReadEnd
  <2>1. /\ at = "idle" /\ phase = "gone" /\ consumed = sent /\ UNCHANGED got
        /\ ReaderState' = "finished"
    BY <1>0, <1>7 DEF ReadEnd, Stop, ReaderState
  <2>2. sent = EndOf(Len(got)) /\ Len(got) <= Len(frames)
    BY <2>1 DEF IInv, Reading
  <2>3. acknowledged <= Len(got)
    BY <1>7, <2>1, <2>2, EndCovers
  <2>4. ~Broken => Len(got) = acknowledged
    <3> SUFFICES ASSUME ~Broken PROVE Len(got) = acknowledged
      OBVIOUS
    <3>1. sent = EndOf(Len(frames))
      <4>1. EndOf(Len(frames)) \in Nat /\ sent \in Nat /\ sent <= EndOf(Len(frames))
        BY EndIsNat DEF IInv, Typed, Complete
      <4> QED BY <4>1, <1>7, <2>1 DEF Broken
    <3>2. acknowledged = Len(frames)
      BY <3>1, <1>7 DEF Acknowledged
    <3> QED BY <3>2, <2>2, <2>3 DEF IInv, Typed
  <2>5. Len(Delivered) = Len(got) /\ Delivered' = Delivered
    BY <1>0, <1>7, <2>1, Lengths, DeliveredSame
  <2>6. acknowledged \in Nat /\ Len(got) \in Nat
    BY DEF Acknowledged, IInv, Typed
  <2> QED BY <1>0, <2>1, <2>3, <2>4, <2>5, <2>6 DEF Channel!Next, Channel!Finish
<1>8. CASE ~foreign /\ ReadShort
  <2>1. /\ at \in {"prefix", "body"} /\ Want > 0 /\ phase = "gone"
        /\ consumed = sent /\ UNCHANGED got /\ ReaderState' = "truncated"
    BY <1>0, <1>8 DEF ReadShort, Stop, ReaderState
  <2>2. Len(got) < Len(frames)
    BY <2>1 DEF IInv, Reading, InFrame
  <2> DEFINE k == Len(got) + 1
  <2>3. /\ FrameAt(base) = frames[k] /\ frames[k].declared \in Nat
        /\ EndOf(k) = base + LENGTH_PREFIX_LEN + frames[k].declared
    <3>1. /\ FrameAt(base) = frames[k] /\ frames[k] \in FrameType
          /\ EndOf(k) = base + LENGTH_PREFIX_LEN + frames[k].declared
      <4>1. at # "gone"
        BY <2>1
      <4> QED BY <2>2, <4>1, FrameAtBase
    <3>2. frames[k].declared \in Nat
      BY ONLY <3>1 DEF FrameType
    <3> QED BY ONLY <3>1, <3>2
  <2>4. sent < EndOf(k)
    <3>1. /\ base \in Nat /\ consumed \in Nat /\ LENGTH_PREFIX_LEN \in Nat
          /\ consumed = sent
      BY <2>1, MessageAssumption DEF IInv, Typed
    <3>2. base + LENGTH_PREFIX_LEN - consumed
          + (IF at = "body" THEN frames[k].declared ELSE 0) > 0
      BY <2>1, <2>3 DEF Want
    <3> QED BY ONLY <2>3, <3>1, <3>2
  <2>5. k \in 0..Len(frames) /\ Len(frames) \in Nat /\ Len(got) \in Nat
    BY <2>2 DEF IInv, Typed
  <2>6. acknowledged <= Len(got)
    BY <1>8, <2>1, <2>4, <2>5, EndCovers
  <2>7. EndOf(k) <= EndOf(Len(frames))
    <3>1. EndOf(k) \in Nat
      BY <2>5, EndIsNat DEF IInv
    <3>2. CASE k = Len(frames)
      BY <3>1, <3>2
    <3>3. CASE k < Len(frames)
      <4>1. EndOf(k) < EndOf(Len(frames))
        BY <3>3, <2>5, EndsIncrease
      <4>2. EndOf(Len(frames)) \in Nat
        BY <2>5, EndIsNat DEF IInv
      <4> QED BY <3>1, <4>1, <4>2
    <3> QED BY <3>2, <3>3, <2>5
  <2>8. Broken
    <3>1. EndOf(k) \in Nat /\ EndOf(Len(frames)) \in Nat /\ sent \in Nat
      BY <2>5, EndIsNat DEF IInv, Typed
    <3> QED BY <3>1, <1>8, <2>1, <2>4, <2>7 DEF Broken
  <2>9. /\ Len(Delivered) = Len(got) /\ Delivered' = Delivered
        /\ Len(Written) = Len(frames)
    BY <1>0, <1>8, <2>1, Lengths, DeliveredSame
  <2>10. acknowledged \in Nat
    BY DEF Acknowledged
  <2> QED BY <1>0, <2>1, <2>2, <2>5, <2>6, <2>8, <2>9, <2>10
             DEF Channel!Next, Channel!Truncate
<1>9. CASE ~foreign /\ TakeFromBytes
  <2>1. at = "body" /\ Len(got) < Len(frames)
    BY <1>9 DEF TakeFromBytes, IInv, Reading, InFrame
  <2> DEFINE k == Len(got) + 1
  <2>2. FrameAt(base) = frames[k] /\ frames[k] \in FrameType
    BY <2>1, FrameAtBase
  <2>3. CASE FrameAt(base).verdict # "Ok"
    <3>1. FrameAt(base).verdict \in {"Decode", "TrailingBytes"}
      BY <2>2, <2>3 DEF FrameType, Verdicts
    <3> QED BY <1>3, <1>9, <2>3, <3>1 DEF TakeFromBytes, Stop
  <2>4. CASE FrameAt(base).verdict = "Ok"
    <3>1. at' = "idle" /\ got' = Append(got, frames[k])
      BY <1>9, <2>2, <2>4 DEF TakeFromBytes
    <3>2. /\ Len(got) \in Nat /\ Len(got') = k /\ got'[k] = frames[k]
          /\ \A n \in 1..Len(got) : got'[n] = got[n]
      BY <3>1, <2>2 DEF IInv, Typed
    <3>3. /\ Len(Written) = Len(frames) /\ Len(Delivered) = Len(got)
          /\ k \in 1..Len(frames) /\ Written[k] = Message(frames[k])
      BY <1>9, <2>1, Lengths
    <3>4. Delivered' = Append(Delivered, Written[k])
      <4>1. Delivered' = [n \in 1..k |-> Message(got'[n])]
        BY <1>0, <1>9, <3>2 DEF Delivered, Message
      <4>2. Delivered = [n \in 1..Len(got) |-> Message(got[n])]
        BY <1>9 DEF Delivered
      <4> QED BY <4>1, <4>2, <3>2, <3>3
    <3>5. ReaderState' = "open"
      BY <3>1 DEF ReaderState
    <3> QED BY <1>0, <2>1, <3>3, <3>4, <3>5 DEF Channel!Next, Channel!Deliver
  <2> QED BY <2>3, <2>4
<1> QED BY <1>2, <1>4, <1>5, <1>6, <1>7, <1>8, <1>9 DEF Progress

(* A connection between two of our ends implements the FIFO channel, for   *)
(* every limit, every message and every way to cut reads and writes short. *)
THEOREM Refinement == Spec => ImplementsChannel
<1>1. Init => CInv /\ Channel!Init
  <2>1. Init => CInv
    BY InitEstablishes, AcknowledgedInit DEF CInv
  <2>2. Init => Channel!Init
    <3> SUFFICES ASSUME Init PROVE Channel!Init
      OBVIOUS
    <3>1. Written = <<>> /\ Delivered = <<>>
      BY DEF Init, Written, Delivered
    <3>2. Broken = FALSE /\ ReaderState = "open" /\ (phase = "gone") = FALSE
      BY DEF Init, Broken, ReaderState, EndOf
    <3> QED BY <3>1, <3>2 DEF Channel!Init, Init
  <2> QED BY <2>1, <2>2
<1>2. CInv /\ [Next]_vars => CInv'
  <2> SUFFICES ASSUME CInv, [Next]_vars PROVE CInv'
    OBVIOUS
  <2>1. IInv'
    BY StepPreserves DEF CInv
  <2> QED BY <2>1, AcknowledgedStep DEF CInv
<1>3. CInv /\ CInv' /\ [Next]_vars => [Channel!Next]_Channel!vars
  <2> SUFFICES ASSUME CInv, CInv', [Next]_vars PROVE [Channel!Next]_Channel!vars
    OBVIOUS
  <2>1. CASE UNCHANGED vars
    <3>1. UNCHANGED <<foreign, writerVars, readerVars>>
      BY <2>1 DEF vars
    <3>2. Written' = Written /\ Delivered' = Delivered
      BY <3>1, WrittenSame, DeliveredSame DEF writerVars, readerVars
    <3>3. Broken' = Broken /\ ReaderState' = ReaderState
          /\ (phase = "gone") = (phase' = "gone") /\ UNCHANGED acknowledged
      BY <3>1 DEF Broken, ReaderState, EndOf, writerVars, readerVars
    <3> QED BY <3>2, <3>3 DEF Channel!vars
  <2> QED BY <2>1, WriterStepsSimulate, ReaderStepsSimulate DEF Next
<1> QED BY <1>1, <1>2, <1>3, PTL DEF Spec, ImplementsChannel, Channel!Spec
=============================================================================
