------------------------- MODULE RecordPipe_proofs -------------------------
(***************************************************************************)
(* First RecordReader's safety for every source, header size, minimum      *)
(* length and buffer capacity.  Its inductive invariant says where the     *)
(* reader's three byte positions stand among the frames the peer sent:     *)
(* cursor after the records handed out, taken after the frames of the      *)
(* batch, the scan after the frames validated since, all of them valid.    *)
(*                                                                         *)
(* Then the pipe: the writer, the reader and the byte stream between them  *)
(* implement the record channel, for every payload limit, every way a      *)
(* callback cuts its record into chunks, every way the destination takes a *)
(* batch in pieces and every failure and cancellation.  The invariant adds *)
(* to the reader's own where the writer stands: the bytes sent are the     *)
(* frames of the acknowledged records followed by the first progress bytes *)
(* of the batch.                                                           *)
(***************************************************************************)
EXTENDS RecordPipe, SequenceTheorems, WellFoundedInduction, TLAPS

-----------------------------------------------------------------------------
(* The reader. *)

AllValid(n) == \A k \in 1..n : Valid(frames[k])

SourceInv ==
  /\ Len(frames) = 0 => sent = 0
  /\ Len(frames) > 0 => /\ frames[1].start = 0
                        /\ frames[Len(frames)].start < sent
                        /\ sent <= EndOf(Len(frames))
  /\ \A n \in 1..Len(frames) - 1 : frames[n + 1].start = frames[n].start + frames[n].size
  /\ \A i, j \in 1..Len(frames) :
       i < j => frames[i].start + frames[i].size <= frames[j].start
  /\ \A n \in 1..Len(frames) : frames[n].crc_ok => frames[n].declared = frames[n].size

DeliveredInv ==
  /\ Len(delivered) <= Len(frames)
  /\ cursor = EndOf(Len(delivered))
  /\ \A n \in 1..Len(delivered) :
       delivered[n] = <<frames[n].start, frames[n].start + frames[n].size>>

BatchInv == \E m \in Len(delivered)..Len(frames) : taken = EndOf(m) /\ AllValid(m)

ScanInv ==
  /\ at # "idle" => state = "Active" /\ cursor = taken
  /\ at = "scan" => /\ ScanAt <= received
                    /\ \E j \in Len(delivered)..Len(frames) :
                         ScanAt = EndOf(j) /\ AllValid(j)

PendingInv ==
  pending_length # None =>
    /\ at = "scan" => validated_len = 0
    /\ BufferLen >= HeaderLen
    /\ \E n \in 1..Len(frames) :
         /\ frames[n].start = taken
         /\ frames[n].declared = pending_length
         /\ frames[n].stream_ok /\ pending_length >= MinRecordLen

CapacityInv == /\ capacity >= BufferLen
               /\ at = "read" => capacity > BufferLen

(* Nothing valid and complete waits at the start of the receive buffer. *)
NothingReady ==
  \A n \in 1..Len(frames) :
    (EndOf(n) <= received /\ AllValid(n)) => n <= Len(delivered)

IInv == /\ TypeOK /\ SourceInv /\ DeliveredInv /\ BatchInv /\ ScanInv
        /\ PendingInv /\ CapacityInv
        /\ (at = "read" \/ state # "Active") => NothingReady
        /\ state # "Active" => cursor = taken

-----------------------------------------------------------------------------
(* A header read where a frame starts is that frame's header. *)
LEMMA HeaderOfFrame ==
  ASSUME TypeOK, SourceInv, NEW n \in 1..Len(frames)
  PROVE  /\ frames[n] \in FrameType
         /\ HeaderAt(frames[n].start) = frames[n]
  <1>1. \A k \in 1..Len(frames) : frames[k] \in FrameType
    BY DEF TypeOK
  <1>2. \A k \in 1..Len(frames) : frames[k].start = frames[n].start => k = n
    <2>1. SUFFICES ASSUME NEW k \in 1..Len(frames), k # n
                   PROVE  frames[k].start # frames[n].start
      OBVIOUS
    <2>2. CASE k < n
      BY <1>1, <2>2 DEF SourceInv, FrameType
    <2>3. CASE n < k
      BY <1>1, <2>3 DEF SourceInv, FrameType
    <2>4. QED
      BY <2>1, <2>2, <2>3
  <1>3. QED
    BY <1>1, <1>2, Zenon DEF HeaderAt

(* Where bytes follow the j-th frame, the next frame starts. *)
LEMMA NextFrame ==
  ASSUME TypeOK, SourceInv, NEW j \in 0..Len(frames), EndOf(j) < sent
  PROVE  /\ j + 1 \in 1..Len(frames)
         /\ frames[j + 1].start = EndOf(j)
         /\ frames[j + 1] \in FrameType
         /\ HeaderAt(EndOf(j)) = frames[j + 1]
         /\ EndOf(j + 1) = EndOf(j) + frames[j + 1].size
  <1>0. Len(frames) \in Nat /\ \A k \in 1..Len(frames) : frames[k] \in FrameType
    BY DEF TypeOK
  <1>1. j + 1 \in 1..Len(frames)
    BY <1>0 DEF SourceInv, EndOf, TypeOK, FrameType
  <1>2. frames[j + 1].start = EndOf(j)
    BY <1>0, <1>1 DEF SourceInv, EndOf
  <1>3. QED
    BY <1>0, <1>1, <1>2, HeaderOfFrame DEF EndOf

(* A frame that starts where another has ended, or later, ends after it. *)
LEMMA LaterEnd ==
  ASSUME NEW a \in Nat, NEW b \in Nat, NEW c \in Nat, NEW d \in Nat \ {0}, a + b <= c
  PROVE  a + b \in Nat /\ c + d \in Nat /\ a + b < c + d
  OBVIOUS

(* Frames end in order. *)
LEMMA EndsIncrease ==
  ASSUME TypeOK, SourceInv, NEW i \in 0..Len(frames), NEW j \in 0..Len(frames), i < j
  PROVE  EndOf(i) \in Nat /\ EndOf(j) \in Nat /\ EndOf(i) < EndOf(j)
  <1>0. Len(frames) \in Nat /\ \A k \in 1..Len(frames) : frames[k] \in FrameType
    BY DEF TypeOK
  <1>1. CASE i = 0
    BY <1>0, <1>1 DEF EndOf, FrameType
  <1>2. CASE i # 0
    <2>1. /\ i \in 1..Len(frames) /\ j \in 1..Len(frames)
          /\ frames[i].start + frames[i].size <= frames[j].start
      BY <1>0, <1>2 DEF SourceInv
    <2>2. /\ frames[i].start \in Nat /\ frames[i].size \in Nat
          /\ frames[j].start \in Nat /\ frames[j].size \in Nat \ {0}
      BY <1>0, <2>1 DEF FrameType
    <2>3. EndOf(i) = frames[i].start + frames[i].size
          /\ EndOf(j) = frames[j].start + frames[j].size
      <3>1. i # 0 /\ j # 0
        BY ONLY <1>0, <2>1
      <3>2. QED
        BY ONLY <3>1 DEF EndOf
    <2>4. /\ frames[i].start + frames[i].size \in Nat
          /\ frames[j].start + frames[j].size \in Nat
          /\ frames[i].start + frames[i].size < frames[j].start + frames[j].size
      BY ONLY <2>1, <2>2, LaterEnd
    <2>5. QED
      BY ONLY <2>3, <2>4
  <1>3. QED
    BY <1>1, <1>2

LEMMA EndTypes ==
  ASSUME TypeOK, NEW i \in 0..Len(frames)
  PROVE  EndOf(i) \in Nat
  <1>1. Len(frames) \in Nat /\ \A k \in 1..Len(frames) : frames[k] \in FrameType
    BY DEF TypeOK
  <1>2. QED
    BY <1>1 DEF EndOf, FrameType

(* If the frame after the last one handed out is not complete and valid,   *)
(* no later one is either.                                                 *)
LEMMA NothingReadyBehind ==
  ASSUME TypeOK, SourceInv, DeliveredInv,
         Len(delivered) + 1 \in 1..Len(frames) =>
           \/ EndOf(Len(delivered) + 1) > received
           \/ ~ Valid(frames[Len(delivered) + 1])
  PROVE  NothingReady
  <1> DEFINE d == Len(delivered)
  <1>0. d \in Nat /\ Len(frames) \in Nat /\ received \in Nat
    BY DEF TypeOK
  <1>1. SUFFICES ASSUME NEW n \in 1..Len(frames), EndOf(n) <= received, AllValid(n), n > d
                 PROVE  FALSE
    BY <1>0 DEF NothingReady
  <1>2. d + 1 \in 1..Len(frames)
    BY <1>0, <1>1
  <1>3. Valid(frames[d + 1])
    BY <1>0, <1>1, <1>2 DEF AllValid
  <1>4. EndOf(d + 1) <= EndOf(n)
    <2>1. CASE d + 1 = n
      BY <2>1, <1>1, EndTypes
    <2>2. CASE d + 1 < n
      BY <2>2, <1>0, <1>1, <1>2, EndsIncrease
    <2>3. QED
      BY <2>1, <2>2, <1>0, <1>1
  <1>5. EndOf(d + 1) \in Nat /\ EndOf(n) \in Nat
    BY <1>0, <1>1, <1>2, EndTypes
  <1>6. QED
    BY <1>0, <1>1, <1>2, <1>3, <1>4, <1>5

-----------------------------------------------------------------------------
(* The peer's steps.  What the reader knows of the first frames stays true. *)
LEMMA SendPreserves ==
  ASSUME IInv, SendByte
  PROVE  IInv'
  <1> USE ReaderAssumption DEF sourceVars, readerVars
  <1>a. PICK L : L = Len(frames)
    OBVIOUS
  <1>0. /\ L = Len(frames) /\ L \in Nat /\ sent \in Nat /\ \A k \in 1..L : frames[k] \in FrameType
        /\ Len(delivered) \in Nat /\ received \in 0..sent /\ taken \in 0..received
        /\ cursor \in 0..taken /\ validated_len \in Nat
    BY <1>a DEF IInv, TypeOK
  <1>1. /\ sent' = sent + 1 /\ UNCHANGED readerVars /\ UNCHANGED closed
    BY DEF SendByte
  <1>2. /\ frames' \in Seq(FrameType) /\ Len(frames') \in {L, L + 1}
        /\ \A k \in 1..L : frames'[k] = frames[k]
        /\ Len(frames') = L => frames' = frames /\ sent < EndOf(L)
        /\ Len(frames') = L + 1 =>
             /\ frames'[L + 1].start = sent /\ sent >= EndOf(L)
             /\ frames'[L + 1] \in FrameType
             /\ frames'[L + 1].crc_ok => frames'[L + 1].declared = frames'[L + 1].size
    <2>1. CASE sent < EndOf(L)
      BY <2>1, <1>0 DEF SendByte, IInv, TypeOK
    <2>2. CASE ~ (sent < EndOf(L))
      <3>1. PICK s \in Shapes :
              frames' = Append(frames, [start |-> sent, size |-> s.size,
                          declared |-> s.declared, stream_ok |-> s.stream_ok,
                          crc_ok |-> s.crc_ok])
        BY <2>2, <1>a DEF SendByte
      <3>2. s \in ShapeType /\ (s.crc_ok => s.declared = s.size)
        OBVIOUS
      <3> DEFINE f == [start |-> sent, size |-> s.size, declared |-> s.declared,
                       stream_ok |-> s.stream_ok, crc_ok |-> s.crc_ok]
      <3>3. f \in FrameType
        BY <3>2, <1>0 DEF ShapeType, FrameType
      <3>4. frames \in Seq(FrameType)
        BY DEF IInv, TypeOK
      <3> HIDE DEF f
      <3>5. /\ frames' \in Seq(FrameType) /\ Len(frames') = L + 1
            /\ \A k \in 1..L : frames'[k] = frames[k]
            /\ frames'[L + 1] = f
        BY <1>a, <3>1, <3>3, <3>4 DEF f
      <3>6. f.start = sent /\ (f.crc_ok => f.declared = f.size)
        BY <3>2 DEF f
      <3>7. EndOf(L) \in Nat
        BY <1>0, EndTypes DEF IInv
      <3>8. QED
        BY <1>0, <2>2, <3>3, <3>5, <3>6, <3>7
    <2>3. QED
      BY <2>1, <2>2
  <1>3. \A n \in 0..L : EndOf(n)' = EndOf(n)
    BY <1>0, <1>2 DEF EndOf
  <1>4. \A n \in 0..L : AllValid(n)' <=> AllValid(n)
    <2>1. SUFFICES ASSUME NEW n \in 0..L PROVE AllValid(n)' <=> AllValid(n)
      OBVIOUS
    <2>2. \A k \in 1..n : frames'[k] = frames[k]
      BY <1>0, <1>2
    <2>3. QED
      BY <2>2, Zenon DEF AllValid, Valid
  <1>5. TypeOK'
    BY <1>0, <1>1, <1>2 DEF IInv, TypeOK
  <1>6. EndOf(L) \in Nat /\ EndOf(L) = (IF L = 0 THEN 0 ELSE frames[L].start + frames[L].size)
    BY <1>0, EndTypes DEF IInv, EndOf
  <1>7. CASE Len(frames') = L
    <2>1. frames' = frames /\ sent < EndOf(L)
      BY <1>2, <1>7
    <2>2. L > 0
      BY <1>0, <1>6, <2>1
    <2>3. SourceInv'
      <3>1. SourceInv
        BY DEF IInv
      <3>2. EndOf(L)' = EndOf(L)
        BY <1>0, <1>3
      <3>3. frames[L].start < sent /\ sent \in Nat /\ frames[L].start \in Nat
        BY <1>0, <2>2, <3>1 DEF SourceInv, FrameType
      <3>4. frames[L].start < sent' /\ sent' <= EndOf(L)'
        BY <1>1, <1>6, <2>1, <3>2, <3>3
      <3>5. QED
        BY <1>0, <2>1, <2>2, <3>1, <3>4 DEF SourceInv
    <2>4. DeliveredInv' /\ BatchInv' /\ ScanInv' /\ PendingInv' /\ CapacityInv'
      BY <1>1, <2>1 DEF IInv, DeliveredInv, BatchInv, ScanInv, PendingInv, CapacityInv,
                        AllValid, Valid, EndOf, ScanAt, BufferLen
    <2>5. NothingReady' = NothingReady
      BY <1>1, <2>1 DEF NothingReady, AllValid, Valid, EndOf
    <2>6. QED
      BY <1>1, <1>5, <2>3, <2>4, <2>5 DEF IInv
  <1>8. CASE Len(frames') = L + 1
    <2>1. /\ frames'[L + 1].start = sent /\ sent = EndOf(L)
          /\ frames'[L + 1] \in FrameType
          /\ frames'[L + 1].crc_ok => frames'[L + 1].declared = frames'[L + 1].size
      BY <1>0, <1>2, <1>6, <1>8 DEF IInv, SourceInv
    <2>2. EndOf(L + 1)' = sent + frames'[L + 1].size /\ EndOf(L + 1)' > sent
      BY <1>0, <2>1 DEF EndOf, FrameType
    <2>3. SourceInv'
      <3>1. Len(frames') # 0 /\ frames'[1].start = 0
        BY <1>0, <1>2, <1>8, <2>1, <1>6 DEF IInv, SourceInv
      <3>2. frames'[Len(frames')].start < sent' /\ sent' <= EndOf(L + 1)'
        BY <1>0, <1>1, <1>8, <2>1, <2>2 DEF FrameType
      <3>3. \A n \in 1..L : frames'[n + 1].start = frames'[n].start + frames'[n].size
        <4>1. SUFFICES ASSUME NEW n \in 1..L
                       PROVE  frames'[n + 1].start = frames'[n].start + frames'[n].size
          OBVIOUS
        <4>2. CASE n = L
          BY <4>2, <1>0, <1>2, <2>1, <1>6
        <4>3. CASE n # L
          BY <4>3, <1>0, <1>2 DEF IInv, SourceInv
        <4>4. QED
          BY <4>2, <4>3
      <3>4. \A k \in 1..L : frames[k].start + frames[k].size <= sent
        <4>1. SUFFICES ASSUME NEW k \in 1..L PROVE frames[k].start + frames[k].size <= sent
          OBVIOUS
        <4>2. CASE k = L
          BY <4>2, <1>0, <1>6, <2>1
        <4>3. CASE k < L
          <5>1. frames[k].start + frames[k].size <= frames[L].start
            BY <4>3, <1>0 DEF IInv, SourceInv
          <5>2. frames[L].start < sent /\ frames[L] \in FrameType /\ frames[k] \in FrameType
            BY <4>3, <1>0 DEF IInv, SourceInv
          <5>3. QED
            BY <1>0, <5>1, <5>2 DEF FrameType
        <4>4. QED
          BY <4>2, <4>3, <1>0
      <3>5. \A i, j \in 1..L + 1 : i < j => frames'[i].start + frames'[i].size <= frames'[j].start
        <4>1. SUFFICES ASSUME NEW i \in 1..L + 1, NEW j \in 1..L + 1, i < j
                       PROVE  frames'[i].start + frames'[i].size <= frames'[j].start
          OBVIOUS
        <4>2. CASE j = L + 1
          <5>1. i \in 1..L /\ frames'[i] = frames[i] /\ frames'[j].start = sent
            BY <4>1, <4>2, <1>0, <1>2, <2>1
          <5>2. QED
            BY <5>1, <3>4
        <4>3. CASE j # L + 1
          <5>1. /\ i \in 1..L /\ j \in 1..L
                /\ frames'[i] = frames[i] /\ frames'[j] = frames[j]
            BY <4>1, <4>3, <1>0, <1>2
          <5>2. frames[i].start + frames[i].size <= frames[j].start
            BY <4>1, <5>1, <1>0 DEF IInv, SourceInv
          <5>3. QED
            BY <5>1, <5>2
        <4>4. QED
          BY <4>2, <4>3
      <3>6. \A n \in 1..L + 1 : frames'[n].crc_ok => frames'[n].declared = frames'[n].size
        BY <1>0, <1>2, <2>1 DEF IInv, SourceInv
      <3>7. QED
        <4>1. Len(frames)' = L + 1 /\ (Len(frames)' - 1) = L
          BY <1>0, <1>8
        <4>2. QED
          BY <4>1, <3>1, <3>2, <3>3, <3>5, <3>6, Zenon DEF SourceInv
    <2>4. DeliveredInv'
      BY <1>0, <1>1, <1>2, <1>3, <1>8 DEF IInv, DeliveredInv
    <2>5. BatchInv'
      BY <1>0, <1>1, <1>3, <1>4, <1>8 DEF IInv, BatchInv
    <2>6. ScanInv'
      BY <1>0, <1>1, <1>3, <1>4, <1>8 DEF IInv, ScanInv, ScanAt
    <2>7. PendingInv' /\ CapacityInv'
      BY <1>0, <1>1, <1>2, <1>8 DEF IInv, PendingInv, CapacityInv, BufferLen
    <2>8. NothingReady => NothingReady'
      <3>1. SUFFICES ASSUME NothingReady, NEW n \in 1..L + 1, EndOf(n)' <= received,
                            AllValid(n)'
                     PROVE  n <= Len(delivered)
        BY <1>0, <1>1, <1>8 DEF NothingReady
      <3>2. n # L + 1
        BY <1>0, <2>2, <3>1, <2>1 DEF FrameType
      <3>3. n \in 1..L /\ EndOf(n)' = EndOf(n) /\ AllValid(n)
        BY <1>0, <1>3, <1>4, <3>1, <3>2
      <3>4. QED
        BY <1>0, <3>1, <3>3 DEF NothingReady
    <2>9. QED
      BY <1>1, <1>5, <2>3, <2>4, <2>5, <2>6, <2>7, <2>8 DEF IInv
  <1>9. QED
    BY <1>2, <1>7, <1>8

-----------------------------------------------------------------------------
(* What a scanning reader finds at its position: the next frame, and a     *)
(* remembered length that is that frame's.                                 *)
LEMMA ScanFinds ==
  ASSUME IInv, at = "scan", ~ HeaderMissing
  PROVE  \E j \in Len(delivered)..Len(frames) :
           /\ ScanAt = EndOf(j) /\ AllValid(j) /\ j + 1 \in 1..Len(frames)
           /\ frames[j + 1] \in FrameType
           /\ frames[j + 1].start = ScanAt
           /\ HeaderAt(ScanAt) = frames[j + 1]
           /\ EndOf(j + 1) = ScanAt + frames[j + 1].size
           /\ FrameLength = frames[j + 1].declared
           /\ Remaining >= HeaderLen
           /\ HeaderError = "none" => /\ frames[j + 1].declared >= MinRecordLen
                                      /\ frames[j + 1].stream_ok
           /\ HeaderError # "none" => ~ Valid(frames[j + 1])
  <1> USE ReaderAssumption
  <1>0. /\ TypeOK /\ SourceInv
        /\ sent \in Nat /\ received \in 0..sent /\ taken \in Nat /\ validated_len \in Nat
        /\ pending_length \in Nat
        /\ Len(delivered) \in Nat /\ Len(frames) \in Nat
    BY DEF IInv, TypeOK
  <1>1. PICK j \in Len(delivered)..Len(frames) : ScanAt = EndOf(j) /\ AllValid(j)
    BY DEF IInv, ScanInv
  <1>2. Remaining >= HeaderLen /\ ScanAt \in Nat
    <2>1. CASE pending_length = None
      BY <1>0, <2>1 DEF HeaderMissing, Remaining, ScanAt
    <2>2. CASE pending_length # None
      BY <1>0, <2>2 DEF IInv, PendingInv, BufferLen, Remaining, ScanAt
    <2>3. QED
      BY <2>1, <2>2
  <1>3. j \in 0..Len(frames) /\ EndOf(j) < sent
    BY <1>0, <1>1, <1>2 DEF Remaining
  <1>4. /\ j + 1 \in 1..Len(frames)
        /\ frames[j + 1].start = ScanAt
        /\ frames[j + 1] \in FrameType
        /\ HeaderAt(ScanAt) = frames[j + 1]
        /\ EndOf(j + 1) = ScanAt + frames[j + 1].size
    BY <1>0, <1>1, <1>3, NextFrame
  <1>5. pending_length # None =>
          /\ frames[j + 1].declared = pending_length
          /\ frames[j + 1].stream_ok /\ pending_length >= MinRecordLen
    <2>1. SUFFICES ASSUME pending_length # None
                   PROVE  /\ frames[j + 1].declared = pending_length
                          /\ frames[j + 1].stream_ok /\ pending_length >= MinRecordLen
      OBVIOUS
    <2>2. PICK n \in 1..Len(frames) :
            /\ frames[n].start = taken /\ frames[n].declared = pending_length
            /\ frames[n].stream_ok /\ pending_length >= MinRecordLen
      BY <2>1 DEF IInv, PendingInv
    <2>3. validated_len = 0 /\ ScanAt = taken
      BY <1>0, <2>1 DEF IInv, PendingInv, ScanAt
    <2>4. frames[n] = frames[j + 1]
      BY <1>0, <1>4, <2>2, <2>3, HeaderOfFrame
    <2>5. QED
      BY <2>2, <2>4
  <1>6. FrameLength = frames[j + 1].declared
    BY <1>4, <1>5 DEF FrameLength
  <1>7. HeaderError = "none" => /\ frames[j + 1].declared >= MinRecordLen
                                /\ frames[j + 1].stream_ok
    <2>1. CASE pending_length # None
      BY <1>5, <2>1
    <2>2. CASE pending_length = None
      BY <1>4, <2>2 DEF HeaderError, FrameType
    <2>3. QED
      BY <2>1, <2>2
  <1>8. HeaderError # "none" => ~ Valid(frames[j + 1])
    <2>1. CASE pending_length # None
      BY <2>1 DEF HeaderError
    <2>2. CASE pending_length = None
      <3>1. HeaderError = (IF frames[j + 1].declared < MinRecordLen THEN "InvalidLength"
                           ELSE IF ~ frames[j + 1].stream_ok THEN "InvalidStreamId"
                           ELSE "none")
        BY <1>4, <2>2 DEF HeaderError
      <3>2. frames[j + 1].declared \in Nat
        BY <1>4 DEF FrameType
      <3>3. QED
        BY <3>1, <3>2 DEF Valid
    <2>3. QED
      BY <2>1, <2>2
  <1>9. QED
    BY <1>1, <1>2, <1>4, <1>6, <1>7, <1>8

LEMMA AcceptPreserves ==
  ASSUME IInv, AcceptFrame
  PROVE  IInv'
  <1> USE ReaderAssumption DEF sourceVars
  <1>0. /\ TypeOK /\ SourceInv
        /\ received \in Nat /\ taken \in Nat /\ validated_len \in Nat
        /\ Len(delivered) \in Nat /\ Len(frames) \in Nat
    BY DEF IInv, TypeOK
  <1>1. PICK j \in Len(delivered)..Len(frames) :
           /\ ScanAt = EndOf(j) /\ AllValid(j) /\ j + 1 \in 1..Len(frames)
           /\ frames[j + 1] \in FrameType
           /\ HeaderAt(ScanAt) = frames[j + 1]
           /\ EndOf(j + 1) = ScanAt + frames[j + 1].size
           /\ FrameLength = frames[j + 1].declared
           /\ frames[j + 1].declared >= MinRecordLen /\ frames[j + 1].stream_ok
    BY ScanFinds DEF AcceptFrame
  <1>2. frames[j + 1].crc_ok /\ frames[j + 1].declared = frames[j + 1].size
    BY <1>0, <1>1 DEF AcceptFrame, SourceInv
  <1>3. Valid(frames[j + 1]) /\ AllValid(j + 1)
    BY <1>0, <1>1, <1>2 DEF Valid, AllValid
  <1>4. FrameLength \in Nat /\ FrameLength = frames[j + 1].size
    BY <1>1, <1>2 DEF FrameType
  <1>5. ScanAt' = EndOf(j + 1) /\ ScanAt' <= received
    <2>1. ScanAt' = ScanAt + FrameLength /\ ScanAt \in Nat
      BY <1>0, <1>4, SMTT(30) DEF AcceptFrame, ScanAt
    <2>2. ScanAt + FrameLength <= received
      <3>1. Remaining >= FrameLength
        BY <1>0 DEF AcceptFrame
      <3>2. Remaining = received - ScanAt
        BY DEF Remaining
      <3>3. QED
        BY ONLY <1>0, <1>4, <2>1, <3>1, <3>2
    <2>3. QED
      BY <1>1, <1>4, <2>1, <2>2
  <1>6. ScanInv'
    <2>1. /\ frames' = frames /\ delivered' = delivered /\ received' = received
          /\ at' = at /\ state' = state /\ cursor' = cursor /\ taken' = taken
      BY DEF AcceptFrame
    <2>2. EndOf(j + 1)' = EndOf(j + 1) /\ AllValid(j + 1)' /\ j + 1 \in Len(delivered)..Len(frames)
      BY <1>0, <1>1, <1>3, <2>1 DEF EndOf, AllValid, Valid
    <2>3. QED
      BY <1>5, <2>1, <2>2 DEF IInv, ScanInv
  <1>7. TypeOK'
    BY <1>0, <1>4, SMTT(30) DEF AcceptFrame, TypeOK, None
  <1>8. QED
    BY <1>6, <1>7 DEF IInv, AcceptFrame, SourceInv, DeliveredInv, BatchInv, PendingInv,
                      CapacityInv, BufferLen, AllValid, Valid, EndOf, NothingReady, None

(* With nothing validated yet, the scan stands behind the last record      *)
(* handed out: an incomplete or invalid frame there leaves nothing ready.  *)
LEMMA ScanStopsShort ==
  ASSUME IInv, at = "scan", validated_len = 0,
         NEW j \in Len(delivered)..Len(frames), ScanAt = EndOf(j),
         j + 1 \in 1..Len(frames) =>
           EndOf(j + 1) > received \/ ~ Valid(frames[j + 1])
  PROVE  NothingReady
  <1>0. /\ TypeOK /\ SourceInv /\ DeliveredInv
        /\ Len(delivered) \in Nat /\ Len(frames) \in Nat /\ taken \in Nat
    BY DEF IInv, TypeOK
  <1>1. EndOf(j) = EndOf(Len(delivered))
    BY <1>0 DEF IInv, ScanInv, DeliveredInv, ScanAt
  <1>2. j = Len(delivered)
    <2>1. CASE Len(delivered) < j
      BY <2>1, <1>0, <1>1, EndsIncrease
    <2>2. QED
      BY <2>1, <1>0
  <1>3. QED
    BY <1>0, <1>2, NothingReadyBehind

LEMMA StopPreserves ==
  ASSUME IInv, at = "scan", NEW e \in Errors \cup {"none"}, StopScan(e),
         pending_length' \in Nat,
         pending_length' # None =>
           /\ Remaining >= HeaderLen
           /\ \E n \in 1..Len(frames) :
                /\ frames[n].start = ScanAt /\ frames[n].declared = pending_length'
                /\ frames[n].stream_ok /\ pending_length' >= MinRecordLen,
         validated_len = 0 => NothingReady,
         (validated_len = 0 /\ e = "none") =>
           (IF pending_length' # None THEN pending_length' ELSE HeaderLen) > BufferLen
  PROVE  IInv'
  <1> USE ReaderAssumption DEF sourceVars
  <1>0. /\ TypeOK /\ SourceInv /\ DeliveredInv
        /\ sent \in Nat /\ received \in 0..sent /\ taken \in 0..received
        /\ cursor \in 0..taken /\ validated_len \in Nat /\ capacity \in Nat
        /\ capacity >= BufferLen /\ cursor = taken /\ state = "Active"
        /\ ScanAt <= received /\ ScanAt = taken + validated_len
    BY DEF IInv, TypeOK, CapacityInv, ScanInv, ScanAt
  <1>1. UNCHANGED <<frames, sent, closed, received, cursor, delivered>>
    BY DEF StopScan
  <1>2. SourceInv' /\ DeliveredInv'
    BY <1>0, <1>1 DEF SourceInv, DeliveredInv, EndOf
  <1>3. CASE validated_len > 0 /\ PublishBatch
    <2>1. /\ taken' = ScanAt /\ capacity' = capacity - validated_len
          /\ validated_len' = 0 /\ at' = "idle" /\ result' = "true" /\ state' = state
      BY <1>3 DEF PublishBatch, Return
    <2>2. /\ capacity' \in Nat /\ taken' \in 0..received' /\ cursor' \in 0..taken'
          /\ capacity' >= received' - taken'
      BY <1>0, <1>1, <2>1 DEF BufferLen
    <2>3. TypeOK'
      BY <1>0, <1>1, <2>1, <2>2 DEF TypeOK, Results
    <2>4. BatchInv'
      <3>1. PICK j \in Len(delivered)..Len(frames) : ScanAt = EndOf(j) /\ AllValid(j)
        BY DEF IInv, ScanInv
      <3>2. EndOf(j)' = EndOf(j) /\ AllValid(j)'
        BY <1>1, <3>1 DEF EndOf, AllValid, Valid
      <3>3. QED
        BY <1>1, <2>1, <3>1, <3>2 DEF BatchInv
    <2>5. PendingInv'
      BY <1>0, <1>1, <2>1 DEF PendingInv, BufferLen, Remaining
    <2>6. QED
      BY <1>0, <1>2, <2>1, <2>2, <2>3, <2>4, <2>5 DEF IInv, ScanInv, CapacityInv, BufferLen
  <1>4. ASSUME validated_len = 0, UNCHANGED <<taken, validated_len>>
        PROVE  /\ BatchInv' /\ PendingInv' /\ NothingReady'
               /\ BufferLen' = BufferLen /\ ScanAt = taken
    <2>1. ScanAt = taken /\ Remaining = BufferLen /\ BufferLen' = BufferLen
      BY <1>0, <1>1, <1>4 DEF Remaining, BufferLen
    <2>2. BatchInv' /\ NothingReady'
      BY <1>1, <1>4 DEF IInv, BatchInv, NothingReady, EndOf, AllValid, Valid
    <2>3. PendingInv'
      BY <1>1, <1>4, <2>1 DEF PendingInv
    <2>4. QED
      BY <2>1, <2>2, <2>3
  <1>5. CASE /\ validated_len = 0 /\ e # "none" /\ Fail(e)
             /\ UNCHANGED <<taken, capacity, validated_len>>
    <2>1. state' = "Failed" /\ at' = "idle" /\ result' = e
      BY <1>5 DEF Fail, Return
    <2>2. TypeOK'
      BY <1>0, <1>1, <1>5, <2>1 DEF TypeOK, Results
    <2>3. QED
      BY <1>0, <1>1, <1>2, <1>4, <1>5, <2>1, <2>2 DEF IInv, ScanInv, CapacityInv
  <1>6. CASE /\ validated_len = 0 /\ e = "none" /\ at' = "read"
             /\ Reserve((IF pending_length' # None THEN pending_length' ELSE HeaderLen)
                        - BufferLen)
             /\ UNCHANGED <<taken, validated_len, state, result>>
    <2>1. capacity' \in Nat /\ capacity' > BufferLen
      <3> DEFINE need == (IF pending_length' # None THEN pending_length' ELSE HeaderLen) - BufferLen
      <3>1. need \in Nat /\ need > 0 /\ BufferLen \in Nat
        <4>1. BufferLen \in Nat
          BY <1>0 DEF BufferLen
        <4>2. (IF pending_length' # None THEN pending_length' ELSE HeaderLen) > BufferLen
          BY <1>6
        <4>3. (IF pending_length' # None THEN pending_length' ELSE HeaderLen) \in Nat
          <5>1. pending_length' \in Nat /\ HeaderLen \in Nat
            BY ReaderAssumption
          <5>2. QED
            BY ONLY <5>1
        <4>4. QED
          BY ONLY <4>1, <4>2, <4>3
      <3>2. \/ capacity - BufferLen >= need /\ capacity' = capacity
            \/ \E c \in {BufferLen + need, InitialCapacity} :
                 c >= BufferLen + need /\ capacity' = c
        BY <1>6 DEF Reserve
      <3> HIDE DEF need
      <3>3. QED
        BY <1>0, <3>1, <3>2
    <2>2. TypeOK'
      BY <1>0, <1>1, <1>6, <2>1 DEF TypeOK
    <2>3. /\ BatchInv' /\ PendingInv' /\ NothingReady' /\ BufferLen' = BufferLen
      BY <1>4, <1>6
    <2>4. ScanInv' /\ at' = "read" /\ state' = "Active" /\ cursor' = taken'
      BY <1>0, <1>1, <1>6 DEF ScanInv
    <2>5. CapacityInv'
      <3>1. BufferLen \in Nat
        BY <1>0 DEF BufferLen
      <3>2. QED
        BY <2>1, <2>3, <3>1 DEF CapacityInv
    <2>6. QED
      BY <1>2, <2>2, <2>3, <2>4, <2>5 DEF IInv
  <1>7. QED
    BY <1>3, <1>5, <1>6 DEF StopScan

-----------------------------------------------------------------------------
(* The four ways in which the scan ends. *)
LEMMA ScanPreserves ==
  ASSUME IInv,
         \/ StopAtPartialHeader \/ StopAtInvalidHeader
         \/ StopAtPartialRecord \/ StopAtCrcMismatch
  PROVE  IInv'
  <1> USE ReaderAssumption
  <1>0. /\ TypeOK /\ SourceInv
        /\ received \in 0..sent /\ sent \in Nat /\ taken \in 0..received
        /\ validated_len \in Nat /\ pending_length \in Nat
        /\ Len(delivered) \in Nat /\ Len(frames) \in Nat
        /\ at = "scan" /\ ScanAt <= received /\ ScanAt = taken + validated_len
        /\ Remaining = received - ScanAt /\ BufferLen = received - taken
    BY DEF IInv, TypeOK, ScanInv, ScanAt, Remaining, BufferLen, StopAtPartialHeader,
           StopAtInvalidHeader, StopAtPartialRecord, StopAtCrcMismatch
  <1>1. CASE StopAtPartialHeader
    <2>1. PICK j \in Len(delivered)..Len(frames) : ScanAt = EndOf(j) /\ AllValid(j)
      BY <1>0 DEF IInv, ScanInv
    <2>2. pending_length' = None /\ pending_length = None /\ Remaining < HeaderLen
      BY <1>1 DEF StopAtPartialHeader, HeaderMissing
    <2>3. j + 1 \in 1..Len(frames) =>
            EndOf(j + 1) > received \/ ~ Valid(frames[j + 1])
      <3>1. SUFFICES ASSUME j + 1 \in 1..Len(frames), Valid(frames[j + 1])
                     PROVE  EndOf(j + 1) > received
        BY Zenon
      <3>2. /\ frames[j + 1] \in FrameType /\ EndOf(j) \in Nat
            /\ frames[j + 1].start = EndOf(j)
        <4>1. frames[j + 1] \in FrameType /\ EndOf(j) \in Nat
          BY <1>0, <2>1, <3>1, EndTypes, HeaderOfFrame
        <4>2. frames[j + 1].start = EndOf(j)
          <5>1. CASE j = 0
            BY <1>0, <3>1, <5>1 DEF SourceInv, EndOf
          <5>2. CASE j # 0
            <6>1. j \in 1..Len(frames) - 1
              BY <1>0, <2>1, <3>1, <5>2
            <6>2. QED
              BY <5>2, <6>1, <1>0 DEF SourceInv, EndOf
          <5>3. QED
            BY <5>1, <5>2
        <4>3. QED
          BY <4>1, <4>2
      <3>3. frames[j + 1].size >= MinRecordLen
        BY <3>1, <3>2 DEF Valid, FrameType
      <3>4. EndOf(j + 1) = EndOf(j) + frames[j + 1].size
        BY <1>0, <2>1, <3>1, <3>2 DEF EndOf
      <3>5. /\ received - EndOf(j) < HeaderLen /\ frames[j + 1].size \in Nat
            /\ received \in Nat
        <4>1. received - EndOf(j) < HeaderLen
          BY ONLY <1>0, <2>1, <2>2
        <4>2. frames[j + 1].size \in Nat
          BY ONLY <3>2 DEF FrameType
        <4>3. received \in Nat
          BY ONLY <1>0
        <4>4. QED
          BY ONLY <4>1, <4>2, <4>3
      <3>6. QED
        BY ONLY ReaderAssumption, <3>2, <3>3, <3>4, <3>5
    <2>4. validated_len = 0 => NothingReady
      BY <1>0, <2>1, <2>3, ScanStopsShort
    <2>5. QED
      BY <1>0, <1>1, <2>2, <2>4, StopPreserves DEF StopAtPartialHeader, None
  <1>2. CASE ~ HeaderMissing
    <2>1. PICK j \in Len(delivered)..Len(frames) :
           /\ ScanAt = EndOf(j) /\ AllValid(j) /\ j + 1 \in 1..Len(frames)
           /\ frames[j + 1] \in FrameType
           /\ frames[j + 1].start = ScanAt
           /\ HeaderAt(ScanAt) = frames[j + 1]
           /\ EndOf(j + 1) = ScanAt + frames[j + 1].size
           /\ FrameLength = frames[j + 1].declared
           /\ Remaining >= HeaderLen
           /\ HeaderError = "none" => /\ frames[j + 1].declared >= MinRecordLen
                                      /\ frames[j + 1].stream_ok
           /\ HeaderError # "none" => ~ Valid(frames[j + 1])
      BY <1>0, <1>2, ScanFinds
    <2>2. CASE StopAtInvalidHeader
      <3>1. validated_len = 0 => NothingReady
        BY <1>0, <2>1, <2>2, ScanStopsShort DEF StopAtInvalidHeader
      <3>2. HeaderError \in Errors /\ pending_length = None
        BY <2>2 DEF StopAtInvalidHeader, HeaderError, Errors
      <3>3. pending_length' = None /\ StopScan(HeaderError) /\ HeaderError # "none"
        BY <2>2, <3>2 DEF StopAtInvalidHeader
      <3>4. pending_length' \in Nat
        BY <3>3 DEF None
      <3>5. at = "scan" /\ HeaderError \in Errors \cup {"none"}
        BY <2>2, <3>2 DEF StopAtInvalidHeader
      <3>6. QED
        BY <1>0, <3>1, <3>3, <3>4, <3>5, StopPreserves
    <2>3. CASE StopAtPartialRecord
      <3>1. EndOf(j + 1) > received \/ ~ Valid(frames[j + 1])
        <4>1. SUFFICES ASSUME Valid(frames[j + 1]) PROVE EndOf(j + 1) > received
          OBVIOUS
        <4>2. PICK f \in FrameType : f = frames[j + 1]
          BY <2>1
        <4>3. f.size \in Nat /\ f.declared = f.size
          BY <4>1, <4>2 DEF Valid, FrameType
        <4>4. Remaining < f.size
          BY <2>1, <2>3, <4>2, <4>3 DEF StopAtPartialRecord
        <4>5. PICK a \in Int, r \in Nat : a = ScanAt /\ r = received
          BY <1>0 DEF TypeOK, ScanAt
        <4>6. r - a < f.size /\ EndOf(j + 1) = a + f.size
          BY <2>1, <4>2, <4>4, <4>5 DEF Remaining
        <4>7. QED
          BY <4>3, <4>5, <4>6
      <3>2. validated_len = 0 => NothingReady
        BY <1>0, <2>1, <3>1, ScanStopsShort
      <3>3. /\ pending_length' = frames[j + 1].declared /\ pending_length' \in Nat
            /\ pending_length' >= MinRecordLen /\ frames[j + 1].stream_ok
            /\ Remaining < pending_length' /\ StopScan("none")
        BY <2>1, <2>3 DEF StopAtPartialRecord, FrameType
      <3>4. (validated_len = 0) => pending_length' > BufferLen
        BY <1>0, <3>3
      <3>5. pending_length' # None
        BY <3>3 DEF None
      <3>6. QED
        BY <1>0, <2>1, <3>2, <3>3, <3>4, <3>5, StopPreserves
    <2>4. CASE StopAtCrcMismatch
      <3>1. ~ Valid(frames[j + 1])
        BY <2>1, <2>4 DEF StopAtCrcMismatch, Valid
      <3>2. validated_len = 0 => NothingReady
        BY <1>0, <2>1, <3>1, ScanStopsShort
      <3>3. /\ pending_length' = frames[j + 1].declared /\ pending_length' \in Nat
            /\ pending_length' >= MinRecordLen /\ frames[j + 1].stream_ok
            /\ StopScan("CrcMismatch")
        BY <2>1, <2>4 DEF StopAtCrcMismatch, FrameType
      <3>4. QED
        BY <1>0, <2>1, <3>2, <3>3, StopPreserves DEF Errors
    <2>5. QED
      BY <1>2, <2>2, <2>3, <2>4 DEF StopAtPartialHeader
  <1>3. QED
    BY <1>1, <1>2 DEF StopAtInvalidHeader, StopAtPartialRecord, StopAtCrcMismatch

-----------------------------------------------------------------------------
LEMMA TryReadPreserves ==
  ASSUME IInv, TryReadNext
  PROVE  IInv'
  <1> USE ReaderAssumption DEF sourceVars
  <1>0. /\ TypeOK /\ SourceInv /\ DeliveredInv /\ at = "idle"
        /\ sent \in Nat /\ received \in 0..sent /\ taken \in 0..received
        /\ cursor \in 0..taken /\ delivered \in Seq(Nat \X Nat)
        /\ Len(delivered) \in Nat /\ Len(frames) \in Nat
    BY DEF IInv, TypeOK, TryReadNext
  <1>1. UNCHANGED <<frames, sent, closed, received, taken, capacity, pending_length,
                    validated_len, state>> /\ at' = "idle"
    BY DEF TryReadNext, Return
  <1>2. CASE /\ UNCHANGED <<cursor, delivered>>
             /\ result' \in Results
    BY <1>0, <1>1, <1>2
       DEF IInv, TypeOK, SourceInv, DeliveredInv, BatchInv, ScanInv, PendingInv,
           CapacityInv, NothingReady, AllValid, Valid, EndOf, BufferLen
  <1>3. CASE /\ state # "Failed" /\ ~ BatchIsEmpty
             /\ cursor' = cursor + HeaderAt(cursor).declared
             /\ delivered' = Append(delivered, <<cursor, cursor + HeaderAt(cursor).declared>>)
             /\ result' = "record"
    <2>0. PICK d \in Nat : d = Len(delivered)
      BY <1>0
    <2>1. state = "Active" /\ cursor < taken
      BY <1>0, <1>3 DEF IInv, BatchIsEmpty, TypeOK
    <2>2. PICK m \in d..Len(frames) : taken = EndOf(m) /\ AllValid(m)
      BY <2>0 DEF IInv, BatchInv
    <2>3. cursor = EndOf(d) /\ d \in 0..Len(frames) /\ m > d
      BY <1>0, <2>0, <2>1, <2>2 DEF DeliveredInv
    <2>4. /\ d + 1 \in 1..Len(frames) /\ frames[d + 1].start = cursor
          /\ frames[d + 1] \in FrameType /\ HeaderAt(cursor) = frames[d + 1]
          /\ EndOf(d + 1) = cursor + frames[d + 1].size
      <3>1. EndOf(d) < sent
        BY <1>0, <2>1, <2>3
      <3>2. QED
        BY <1>0, <2>3, <3>1, NextFrame
    <2>5. Valid(frames[d + 1])
      BY <1>0, <2>2, <2>3, <2>4 DEF AllValid
    <2>6. cursor' = EndOf(d + 1) /\ frames[d + 1].declared = frames[d + 1].size
      BY <1>3, <2>4, <2>5 DEF Valid
    <2>7. /\ Len(delivered') = d + 1 /\ delivered' \in Seq(Nat \X Nat)
          /\ delivered'[d + 1] = <<cursor, cursor + frames[d + 1].size>>
          /\ \A n \in 1..d : delivered'[n] = delivered[n]
      <3>1. <<cursor, cursor + HeaderAt(cursor).declared>> \in Nat \X Nat
        BY <1>0, <2>4 DEF FrameType
      <3>2. QED
        BY <1>0, <1>3, <2>0, <2>4, <2>6, <3>1
    <2>8. EndOf(d + 1) \in Nat /\ EndOf(m) \in Nat /\ EndOf(d + 1) <= EndOf(m)
      <3>1. CASE d + 1 = m
        BY <1>0, <2>2, <2>4, <3>1, EndTypes
      <3>2. CASE d + 1 < m
        BY <1>0, <2>2, <2>4, <3>2, EndsIncrease
      <3>3. QED
        BY <1>0, <2>2, <2>3, <3>1, <3>2
    <2>9. TypeOK'
      BY <1>0, <1>1, <1>3, <2>2, <2>6, <2>7, <2>8 DEF TypeOK, Results
    <2>10. DeliveredInv'
      <3>1. Len(delivered)' = d + 1 /\ d + 1 <= Len(frames')
        BY <1>0, <1>1, <2>4, <2>7
      <3>2. cursor' = frames'[d + 1].start + frames'[d + 1].size
        BY <1>1, <2>4, <2>6
      <3>3. ASSUME NEW n \in 1..Len(delivered)'
            PROVE  delivered'[n] = <<frames'[n].start, frames'[n].start + frames'[n].size>>
        <4>1. CASE n = d + 1
          BY <1>1, <2>4, <2>7, <4>1
        <4>2. CASE n \in 1..d
          BY <1>0, <1>1, <2>0, <2>7, <4>2 DEF DeliveredInv
        <4>3. QED
          BY <2>0, <3>1, <4>1, <4>2
      <3>4. QED
        BY <1>0, <2>0, <3>1, <3>2, <3>3 DEF DeliveredInv, EndOf
    <2>11. BatchInv'
      <3>1. m \in (d + 1)..Len(frames) /\ AllValid(m)' /\ EndOf(m)' = EndOf(m)
        BY <1>0, <1>1, <2>2, <2>3 DEF AllValid, Valid, EndOf
      <3>2. QED
        BY <1>1, <2>2, <2>7, <3>1 DEF BatchInv
    <2>12. QED
      BY <1>0, <1>1, <2>1, <2>9, <2>10, <2>11
         DEF IInv, SourceInv, ScanInv, PendingInv, CapacityInv, EndOf, BufferLen
  <1>4. QED
    BY <1>2, <1>3 DEF TryReadNext, Return, Results, Errors

(* The remaining steps leave every position except received alone. *)
LEMMA OtherPreserves ==
  ASSUME IInv,
         \/ CloseSource \/ WaitToRead \/ (\E n \in 1..MaxBytes : Receive(n))
         \/ ReceiveNothing \/ Interrupted \/ ReceiveFails \/ Cancel
  PROVE  IInv'
  <1> USE ReaderAssumption DEF sourceVars, readerVars
  <1>0. /\ TypeOK /\ SourceInv /\ DeliveredInv /\ BatchInv /\ PendingInv /\ CapacityInv
        /\ sent \in Nat /\ received \in 0..sent /\ taken \in 0..received
        /\ cursor \in 0..taken /\ capacity \in Nat
        /\ Len(delivered) \in Nat /\ Len(frames) \in Nat
    BY DEF IInv, TypeOK
  <1>1. UNCHANGED <<frames, sent, taken, cursor, capacity, pending_length, delivered>>
    BY DEF CloseSource, WaitToRead, Receive, ReceiveNothing, Interrupted, ReceiveFails, Cancel
  <1>2. SourceInv' /\ DeliveredInv' /\ BatchInv'
    BY <1>0, <1>1 DEF SourceInv, DeliveredInv, BatchInv, AllValid, Valid, EndOf
  <1>3. \E j \in Len(delivered)..Len(frames) : taken = EndOf(j)' /\ AllValid(j)'
    BY <1>0, <1>1 DEF BatchInv, AllValid, Valid, EndOf
  <1>4. received' = received => NothingReady' = NothingReady
    BY <1>1 DEF NothingReady, AllValid, Valid, EndOf
  <1>5. CASE CloseSource
    BY <1>0, <1>1, <1>2, <1>4, <1>5
       DEF IInv, CloseSource, TypeOK, ScanInv, PendingInv, CapacityInv, BufferLen, ScanAt,
           AllValid, Valid, EndOf
  <1>6. CASE WaitToRead
    <2>1. CASE at' = "idle" /\ result' \in Results /\ UNCHANGED <<validated_len, state, received, closed>>
      BY <1>0, <1>1, <1>2, <1>4, <1>6, <2>1
         DEF IInv, WaitToRead, TypeOK, ScanInv, PendingInv, CapacityInv, BufferLen
    <2>2. CASE /\ state = "Active" /\ BatchIsEmpty /\ at' = "scan" /\ validated_len' = 0
               /\ UNCHANGED <<result, state, received, closed>>
      <3>1. ScanInv'
        BY <1>0, <1>1, <1>3, <2>2 DEF ScanInv, ScanAt, BatchIsEmpty
      <3>2. TypeOK'
        BY <1>0, <1>1, <2>2 DEF TypeOK
      <3>3. PendingInv' /\ CapacityInv'
        BY <1>0, <1>1, <1>6, <2>2 DEF PendingInv, CapacityInv, BufferLen, WaitToRead
      <3>4. QED
        BY <1>1, <1>2, <2>2, <3>1, <3>2, <3>3 DEF IInv
    <2>3. QED
      BY <1>6, <2>1, <2>2 DEF WaitToRead, Return, Results, Errors
  <1>7. ASSUME at = "read", at' = "scan", validated_len' = 0, received' \in received..sent,
               received' - taken <= capacity, UNCHANGED <<closed, state, result>>
        PROVE  IInv'
    <2>1. state = "Active" /\ cursor = taken
      BY <1>7 DEF IInv, ScanInv
    <2>2. TypeOK'
      BY <1>0, <1>1, <1>7 DEF TypeOK
    <2>3. ScanInv'
      BY <1>0, <1>1, <1>3, <1>7, <2>1 DEF ScanInv, ScanAt
    <2>4. PendingInv' /\ CapacityInv'
      <3>a. received \in Int /\ taken \in Int /\ capacity \in Int /\ sent \in Int
        BY <1>0
      <3>b. received' \in Int /\ received' >= received
        BY <3>a, <1>7
      <3>c. taken' = taken /\ capacity' = capacity
        BY <1>1
      <3>d. received' - taken <= capacity
        BY <1>7
      <3>1. received' - taken' >= received - taken /\ capacity' >= received' - taken'
        <4>0. \A a, b, c \in Int : a >= b => a - c >= b - c
          OBVIOUS
        <4>1. received' - taken >= received - taken
          BY <3>a, <3>b, <4>0
        <4>2. capacity >= received' - taken
          BY <3>a, <3>b, <3>d
        <4>3. QED
          BY <3>c, <4>1, <4>2, Zenon
      <3>2. CapacityInv'
        BY <1>7, <3>1 DEF CapacityInv, BufferLen
      <3>3. HeaderLen \in Nat /\ BufferLen \in Int /\ BufferLen' \in Int
        BY <1>0, <1>1, <1>7 DEF BufferLen
      <3>4. BufferLen >= HeaderLen => BufferLen' >= HeaderLen
        BY <1>0, <3>1, <3>3 DEF BufferLen
      <3>5. PendingInv'
        BY <1>0, <1>1, <1>7, <3>4 DEF PendingInv
      <3>6. QED
        BY <3>2, <3>5
    <2>5. QED
      BY <1>1, <1>2, <1>7, <2>1, <2>2, <2>3, <2>4 DEF IInv
  <1>8. CASE \E n \in 1..MaxBytes : Receive(n)
    <2>1. PICK n \in 1..MaxBytes : Receive(n)
      BY <1>8
    <2>2. /\ at = "read" /\ at' = "scan" /\ validated_len' = 0 /\ received' = received + n
          /\ n <= sent - received /\ n <= capacity - (received - taken)
          /\ UNCHANGED <<closed, state, result>>
      BY <2>1 DEF Receive, BufferLen
    <2>3. received' \in received..sent /\ received' - taken <= capacity
      BY <1>0, <2>2
    <2>4. QED
      BY <1>7, <2>2, <2>3
  <1>9. CASE Interrupted
    BY <1>0, <1>7, <1>9 DEF Interrupted, CapacityInv, BufferLen
  <1>10. ASSUME at = "read", at' = "idle", result' \in Results,
                state' \in {"Active", "Finished", "Failed"},
                UNCHANGED <<received, closed, validated_len>>
         PROVE  IInv'
    <2>1. NothingReady' /\ cursor = taken
      BY <1>4, <1>10 DEF IInv, ScanInv
    <2>2. TypeOK'
      BY <1>0, <1>1, <1>10 DEF TypeOK
    <2>3. ScanInv' /\ PendingInv' /\ CapacityInv'
      BY <1>0, <1>1, <1>10 DEF ScanInv, PendingInv, CapacityInv, BufferLen
    <2>4. QED
      BY <1>1, <1>2, <2>1, <2>2, <2>3 DEF IInv
  <1>11. CASE ReceiveNothing \/ ReceiveFails
    BY <1>0, <1>10, <1>11 DEF ReceiveNothing, ReceiveFails, Fail, Return, Results, Errors, TypeOK
  <1>12. CASE Cancel
    BY <1>0, <1>10, <1>12 DEF Cancel, TypeOK
  <1>13. QED
    BY <1>5, <1>6, <1>8, <1>9, <1>11, <1>12

-----------------------------------------------------------------------------
(* A new reader on a new source. *)
LEMMA InitReader ==
  ASSUME Init
  PROVE  IInv
  <1> USE ReaderAssumption DEF Init
  <1>1. TypeOK
    <2>1. frames \in Seq(FrameType) /\ delivered \in Seq(Nat \X Nat)
      OBVIOUS
    <2>2. /\ sent \in Nat /\ received \in 0..sent /\ taken \in 0..received /\ cursor \in 0..taken
          /\ capacity \in Nat /\ pending_length \in Nat /\ validated_len \in Nat
      BY DEF None
    <2>3. closed \in BOOLEAN /\ at \in {"idle", "scan", "read"} /\ result \in Results
      BY DEF Results
    <2>4. QED
      BY <2>1, <2>2, <2>3 DEF TypeOK
  <1>2. Len(frames) = 0 /\ Len(delivered) = 0 /\ EndOf(0) = 0 /\ AllValid(0)
    <2>1. frames = <<>> /\ delivered = <<>>
      OBVIOUS
    <2>2. Len(frames) = 0 /\ Len(delivered) = 0
      BY <2>1
    <2>3. QED
      BY <2>2 DEF EndOf, AllValid
  <1>3. SourceInv /\ DeliveredInv /\ BatchInv
    BY <1>2 DEF SourceInv, DeliveredInv, BatchInv
  <1>4. ScanInv /\ PendingInv /\ CapacityInv
    BY DEF ScanInv, PendingInv, CapacityInv, BufferLen
  <1>5. QED
    BY <1>1, <1>3, <1>4 DEF IInv

(* The inductive invariant holds of every behaviour, whatever the peer     *)
(* sends, however the source splits it and wherever calls are cancelled.   *)
THEOREM Inductive == Spec => []IInv
  <1>1. Init => IInv
    BY InitReader
  <1>2. IInv /\ [Next]_vars => IInv'
    <2> SUFFICES ASSUME IInv, [Next]_vars PROVE IInv'
      OBVIOUS
    <2>1. CASE SendByte
      BY <2>1, SendPreserves
    <2>2. CASE AcceptFrame
      BY <2>2, AcceptPreserves
    <2>3. CASE \/ StopAtPartialHeader \/ StopAtInvalidHeader
               \/ StopAtPartialRecord \/ StopAtCrcMismatch
      BY <2>3, ScanPreserves
    <2>4. CASE TryReadNext
      BY <2>4, TryReadPreserves
    <2>5. CASE \/ CloseSource \/ WaitToRead \/ (\E n \in 1..MaxBytes : Receive(n))
               \/ ReceiveNothing \/ Interrupted \/ ReceiveFails \/ Cancel
      BY <2>5, OtherPreserves
    <2>6. CASE UNCHANGED vars
      <3>1. UNCHANGED <<frames, sent, closed, received, taken, cursor, capacity,
                        pending_length, validated_len, state, at, result, delivered>>
        BY <2>6 DEF vars, sourceVars, readerVars
      <3>2. QED
        BY <3>1, ZenonT(30)
           DEF IInv, TypeOK, SourceInv, DeliveredInv, BatchInv, ScanInv, PendingInv,
               CapacityInv, NothingReady, AllValid, Valid, EndOf, BufferLen, ScanAt
    <2>7. QED
      BY <2>1, <2>2, <2>3, <2>4, <2>5, <2>6 DEF Next
  <1>3. QED
    BY <1>1, <1>2, PTL DEF Spec

(* The reader's positions are ordered, cursor <= taken <= received <= sent, *)
(* for every source: no batch is read past its end, no record handed out    *)
(* from beyond what was validated.                                          *)
THEOREM TypeCorrect == Spec => []TypeOK
  <1>1. IInv => TypeOK
    BY DEF IInv
  <1>2. QED
    BY <1>1, Inductive, PTL

(* What try_read_next hands out are the first frames the peer sent, whole   *)
(* and valid, each once and in order, for every framing of the source.      *)
THEOREM DeliversPrefix == Spec => []DeliveredArePrefix
  <1>1. IInv => DeliveredArePrefix
    <2> SUFFICES ASSUME IInv PROVE DeliveredArePrefix
      OBVIOUS
    <2>1. PICK m \in Len(delivered)..Len(frames) : AllValid(m)
      BY DEF IInv, BatchInv
    <2>2. Len(delivered) \in Nat /\ Len(frames) \in Nat
      BY DEF IInv, TypeOK
    <2>3. \A n \in 1..Len(delivered) : Valid(frames[n])
      BY <2>1, <2>2 DEF AllValid
    <2>4. QED
      BY <2>3 DEF IInv, DeliveredInv, DeliveredArePrefix
  <1>2. QED
    BY <1>1, Inductive, PTL

(* A reader that has finished or failed has handed out every record that    *)
(* was complete and valid before the first invalid byte.                    *)
THEOREM OwesNothing == Spec => []NothingOwedAtEnd
  <1>1. IInv => NothingOwedAtEnd
    BY DEF IInv, NothingOwedAtEnd, NothingReady, AllValid
  <1>2. QED
    BY <1>1, Inductive, PTL

(* pending_length belongs to the frame at the start of the receive buffer   *)
(* across every refill, interruption and cancelled wait.                    *)
THEOREM PendingIsFresh == Spec => []PendingIsNextFrame
  <1>1. IInv => PendingIsNextFrame
    BY DEF IInv, PendingInv, PendingIsNextFrame
  <1>2. QED
    BY <1>1, Inductive, PTL

(* An empty read is never the reader's own doing: end of input and          *)
(* truncation are reported only at the real end of the source.              *)
THEOREM EndsOnlyAtEnd == Spec => EndIsReal
  <1>1. IInv /\ [Next]_vars =>
          [(state = "Active" /\ state' # "Active"
             /\ result' \in {"false", "TruncatedHeader", "TruncatedRecord"})
           => (closed /\ received = sent)]_vars
    <2> SUFFICES ASSUME IInv, Next, state = "Active", state' # "Active",
                        result' \in {"false", "TruncatedHeader", "TruncatedRecord"}
                 PROVE  closed /\ received = sent
      BY DEF vars, sourceVars, readerVars
    <2>1. CASE ReceiveNothing
      <3>1. capacity # BufferLen
        <4>1. at = "read"
          BY <2>1 DEF ReceiveNothing
        <4>2. capacity > BufferLen /\ capacity \in Int /\ BufferLen \in Int
          BY <4>1 DEF IInv, CapacityInv, TypeOK, BufferLen
        <4>3. QED
          BY <4>2
      <3>2. QED
        BY <2>1, <3>1 DEF ReceiveNothing
    <2>2. CASE StopAtInvalidHeader
      <3>1. HeaderError \in {"none", "InvalidLength", "InvalidStreamId"}
        BY DEF HeaderError
      <3>2. QED
        BY <2>2, <3>1 DEF StopAtInvalidHeader, StopScan, PublishBatch, Fail, Return
    <2>3. ~ (StopAtPartialHeader \/ StopAtPartialRecord)
      BY DEF StopAtPartialHeader, StopAtPartialRecord, StopScan, PublishBatch
    <2>4. ~ StopAtCrcMismatch
      BY DEF StopAtCrcMismatch, StopScan, PublishBatch, Fail, Return
    <2>5. ~ (SendByte \/ CloseSource \/ WaitToRead \/ TryReadNext \/ AcceptFrame
             \/ (\E n \in 1..MaxBytes : Receive(n)) \/ Interrupted \/ ReceiveFails \/ Cancel)
      BY DEF SendByte, CloseSource, WaitToRead, TryReadNext, AcceptFrame, Receive,
             Interrupted, ReceiveFails, Cancel, readerVars, Fail, Return
    <2>6. QED
      BY <2>1, <2>2, <2>3, <2>4, <2>5 DEF Next
  <1>2. QED
    BY <1>1, Inductive, PTL DEF Spec, EndIsReal

(* A finished or failed reader takes nothing more from the source and hands *)
(* out nothing more.                                                        *)
THEOREM StaysTerminal == Spec => TerminalIsFinal
  <1>1. IInv /\ [Next]_vars =>
          [state # "Active" => UNCHANGED <<received, taken, cursor, state, delivered>>]_vars
    <2> SUFFICES ASSUME IInv, Next, state # "Active"
                 PROVE  UNCHANGED <<received, taken, cursor, state, delivered>>
      BY DEF vars, sourceVars, readerVars
    <2>1. at = "idle" /\ BatchIsEmpty
      BY DEF IInv, ScanInv, TypeOK, BatchIsEmpty
    <2>2. SendByte \/ CloseSource \/ WaitToRead \/ TryReadNext
      BY <2>1 DEF Next, AcceptFrame, StopAtPartialHeader, StopAtInvalidHeader,
                  StopAtPartialRecord, StopAtCrcMismatch, Receive, ReceiveNothing,
                  Interrupted, ReceiveFails, Cancel
    <2>3. QED
      BY <2>1, <2>2 DEF SendByte, CloseSource, WaitToRead, TryReadNext, readerVars
  <1>2. QED
    BY <1>1, Inductive, PTL DEF Spec, TerminalIsFinal

-----------------------------------------------------------------------------
(* The pipe. *)

BatchRecord == [id: 1..MaxCalls, payload: 0..MaxPayloadLen, start: Nat, size: Nat]

(* Where the flags of the writer and its call in progress stand. *)
WriterInv ==
  /\ usable => progress = 0 /\ phase \in {"idle", "body", "dropped"}
  /\ phase = "body" => usable /\ calls > 0
  /\ phase = "body" /\ ~error => payload_len = offered
  /\ phase = "output" => buffer # <<>>
  /\ phase = "flush" => progress = 0
  /\ buffer # <<>> => progress < Writer!BatchLen
  /\ closed <=> phase = "dropped"

(* The batch is the unacknowledged records, laid end to end. *)
BufferInv ==
  /\ Writer!BatchIsUnacknowledged
  /\ \A i, j \in 1..Len(buffer) : i < j => buffer[i].start + buffer[i].size <= buffer[j].start

(* What went out: the acknowledged records and a prefix of the batch. *)
SentInv ==
  /\ Len(frames) \in acknowledged..Len(written)
  /\ sent = EndOf(acknowledged) + progress
  /\ \A k \in 1..Len(buffer) : buffer[k].start < progress <=> acknowledged + k <= Len(frames)
  /\ \A k \in 1..Len(buffer) : acknowledged + k <= Len(frames) =>
        /\ frames[acknowledged + k].start = EndOf(acknowledged) + buffer[k].start
        /\ frames[acknowledged + k].size = buffer[k].size
  /\ \A k \in 1..Len(frames) : wire[k] = written[k] /\ Valid(frames[k])

EndedInv ==
  /\ state = "Active" <=> ended = "open"
  /\ state = "Finished" <=> ended = "false"
  /\ state = "Failed" => ended \in {"TruncatedHeader", "TruncatedRecord", "Io"}

PipeInv == /\ PipeTypeOK /\ IInv /\ SizeErrorSurfaces
           /\ WriterInv /\ BufferInv /\ SentInv /\ EndedInv

-----------------------------------------------------------------------------
(* The reader's invariant survives every growth of the source that keeps   *)
(* what was sent and starts new frames behind it.                          *)
LEMMA SourceGrows ==
  ASSUME IInv, UNCHANGED readerVars, closed' \in BOOLEAN,
         frames' \in Seq(FrameType), Len(frames) <= Len(frames'),
         \A k \in 1..Len(frames) : frames'[k] = frames[k],
         sent' \in Nat, sent <= sent',
         \A k \in 1..Len(frames') : k > Len(frames) => frames'[k].start >= sent,
         SourceInv'
  PROVE  IInv'
<1> USE DEF readerVars
<1>a. PICK L \in Nat : L = Len(frames)
  BY DEF IInv, TypeOK
<1>b. PICK M \in Nat : M = Len(frames')
  OBVIOUS
<1>0. /\ L <= M /\ sent \in Nat /\ \A k \in 1..M : frames'[k] \in FrameType
      /\ \A k \in 1..L : frames'[k] = frames[k]
      /\ Len(delivered) \in Nat /\ received \in 0..sent /\ taken \in 0..received
      /\ cursor \in 0..taken /\ validated_len \in Nat
  BY <1>a, <1>b DEF IInv, TypeOK
<1>1. /\ received' = received /\ taken' = taken /\ cursor' = cursor /\ capacity' = capacity
      /\ pending_length' = pending_length /\ validated_len' = validated_len
      /\ state' = state /\ at' = at /\ result' = result /\ delivered' = delivered
  OBVIOUS
<1>2. TypeOK'
  BY <1>0, <1>1 DEF IInv, TypeOK
<1>3. \A n \in 0..L : EndOf(n)' = EndOf(n)
  BY <1>0 DEF EndOf
<1>4. \A n \in 0..L : AllValid(n)' <=> AllValid(n)
  <2>1. SUFFICES ASSUME NEW n \in 0..L PROVE AllValid(n)' <=> AllValid(n)
    OBVIOUS
  <2>2. \A k \in 1..n : frames'[k] = frames[k]
    BY <1>0
  <2>3. QED
    BY <2>2, Zenon DEF AllValid, Valid
<1>5. DeliveredInv'
  BY <1>0, <1>1, <1>3, <1>a, <1>b DEF IInv, DeliveredInv
<1>6. BatchInv'
  BY <1>0, <1>1, <1>3, <1>4, <1>a, <1>b DEF IInv, BatchInv
<1>7. ScanInv'
  BY <1>0, <1>1, <1>3, <1>4, <1>a, <1>b DEF IInv, ScanInv, ScanAt
<1>8. PendingInv' /\ CapacityInv'
  BY <1>0, <1>1, <1>a, <1>b DEF IInv, PendingInv, CapacityInv, BufferLen
<1>9. NothingReady => NothingReady'
  <2>1. SUFFICES ASSUME NothingReady, NEW n \in 1..M, EndOf(n)' <= received, AllValid(n)'
                 PROVE  n <= Len(delivered)
    BY <1>1, <1>b DEF NothingReady
  <2>2. n <= L
    <3>1. SUFFICES ASSUME n > L PROVE FALSE
      BY <1>0
    <3>2. frames'[n].start >= sent /\ frames'[n] \in FrameType
      BY <1>0, <1>a, <1>b, <2>1, <3>1
    <3>3. EndOf(n)' = frames'[n].start + frames'[n].size
      BY <2>1 DEF EndOf
    <3>4. frames'[n].start \in Nat /\ frames'[n].size \in Nat \ {0}
      BY <3>2 DEF FrameType
    <3>5. EndOf(n)' > received
      BY <1>0, <3>2, <3>3, <3>4, SMTT(30)
    <3>6. EndOf(n)' \in Int
      BY <3>3, <3>4
    <3>7. QED
      BY <1>0, <2>1, <3>5, <3>6
  <2>3. n \in 1..L /\ EndOf(n)' = EndOf(n) /\ AllValid(n)
    BY <1>0, <1>3, <1>4, <2>1, <2>2
  <2>4. QED
    BY <1>a, <2>1, <2>3 DEF NothingReady
<1>10. QED
  BY <1>1, <1>2, <1>5, <1>6, <1>7, <1>8, <1>9 DEF IInv

-----------------------------------------------------------------------------
(* Every nonempty set of natural numbers has a least element. *)
LEMMA LeastNat ==
  ASSUME NEW T \in SUBSET Nat, T # {}
  PROVE  \E x \in T : \A y \in T : x <= y
<1>1. PICK x \in T : \A y \in T : ~ (<<y, x>> \in OpToRel(<, Nat))
  BY WFMin, NatLessThanWellFounded, Zenon
<1>2. \A y \in T : ~ (y < x)
  BY <1>1 DEF OpToRel
<1>3. QED
  BY <1>2

(* Begun counts the records of the batch that start below a byte. *)
LEMMA BegunCounts ==
  ASSUME Writer!TypeOK, BufferInv, NEW x \in Nat
  PROVE  /\ Writer!Begun(x) \in 0..Len(buffer)
         /\ \A i \in 1..Len(buffer) : buffer[i].start < x <=> i <= Writer!Begun(x)
<1> DEFINE P(k) == /\ \A i \in 1..k : buffer[i].start < x
                   /\ k < Len(buffer) => buffer[k + 1].start >= x
<1>0. /\ Len(buffer) \in Nat
      /\ \A i \in 1..Len(buffer) : buffer[i].start \in Nat /\ buffer[i].size \in Nat
  <2>1. buffer \in Seq(BatchRecord)
    BY DEF Writer!TypeOK, BatchRecord
  <2>2. \A i \in 1..Len(buffer) : buffer[i] \in BatchRecord
    BY <2>1
  <2>3. QED
    BY <2>1, <2>2, SMTT(30) DEF BatchRecord
<1> DEFINE T == {j \in 1..Len(buffer) + 1 : j = Len(buffer) + 1 \/ buffer[j].start >= x}
<1>1. T \in SUBSET Nat /\ Len(buffer) + 1 \in T
  BY <1>0
<1>2. PICK l \in T : \A y \in T : l <= y
  BY <1>1, LeastNat
<1>3. l \in 1..Len(buffer) + 1 /\ l - 1 \in 0..Len(buffer)
  BY <1>0
<1>4. P(l - 1)
  <2>1. ASSUME NEW i \in 1..l - 1 PROVE buffer[i].start < x
    <3>1. i \in 1..Len(buffer) /\ ~ (l <= i)
      BY <1>0, <1>3
    <3>2. i \notin T
      BY <1>2, <3>1
    <3>3. QED
      BY <1>0, <3>1, <3>2
  <2>2. l - 1 < Len(buffer) => buffer[(l - 1) + 1].start >= x
    BY <1>0, <1>3
  <2>3. QED
    BY <2>1, <2>2
<1>5. Writer!Begun(x) = CHOOSE k \in 0..Len(buffer) : P(k)
  BY DEF Writer!Begun
<1> HIDE DEF P
<1>6. Writer!Begun(x) \in 0..Len(buffer) /\ P(Writer!Begun(x))
  BY <1>3, <1>4, <1>5
<1> DEFINE b == Writer!Begun(x)
<1> HIDE DEF b
<1>7. b \in 0..Len(buffer) /\ P(b)
  BY <1>6 DEF b
<1>8. ASSUME NEW i \in 1..Len(buffer) PROVE buffer[i].start < x <=> i <= b
  <2>1. CASE i <= b
    BY <1>0, <1>7, <2>1 DEF P
  <2>2. CASE i > b
    <3>1. b + 1 \in 1..Len(buffer) /\ buffer[b + 1].start >= x
      BY <1>0, <1>7, <2>2 DEF P
    <3>2. CASE i = b + 1
      BY <1>0, <1>7, <2>2, <3>1, <3>2
    <3>3. CASE b + 1 < i
      <4>1. buffer[b + 1].start + buffer[b + 1].size <= buffer[i].start
        BY <3>1, <3>3 DEF BufferInv
      <4>2. QED
        BY <1>0, <2>2, <1>7, <3>1, <4>1
    <3>4. QED
      BY <1>0, <1>7, <2>2, <3>2, <3>3
  <2>3. QED
    BY <1>0, <1>7, <2>1, <2>2
<1>9. QED
  BY <1>7, <1>8 DEF b

-----------------------------------------------------------------------------
(* The shape of the writer's state. *)
LEMMA WriterShape ==
  ASSUME Writer!TypeOK
  PROVE  /\ buffer \in Seq(BatchRecord) /\ Len(buffer) \in Nat
         /\ \A i \in 1..Len(buffer) : /\ buffer[i] \in BatchRecord
                                      /\ buffer[i].start \in Nat /\ buffer[i].size \in Nat
                                      /\ buffer[i].payload \in Nat
         /\ written \in Seq(Writer!RecordType) /\ Len(written) \in Nat
         /\ acknowledged \in 0..Len(written) /\ acknowledged \in Nat
         /\ wire \in Seq(Writer!RecordType)
         /\ Writer!BatchLen \in Nat /\ progress \in 0..Writer!BatchLen /\ progress \in Nat
         /\ payload_len \in 0..MaxPayloadLen /\ payload_len \in Nat
         /\ offered \in 0..MaxOffered /\ offered \in Nat
         /\ calls \in 0..MaxCalls /\ calls \in Nat
         /\ usable \in BOOLEAN /\ error \in BOOLEAN /\ outcome \in Writer!Outcomes
         /\ phase \in {"idle", "body", "output", "flush", "dropped"}
<1> USE PipeAssumption
<1>1. buffer \in Seq(BatchRecord)
  BY DEF Writer!TypeOK, BatchRecord
<1>2. Len(buffer) \in Nat /\ \A i \in 1..Len(buffer) : buffer[i] \in BatchRecord
  BY <1>1
<1>3. \A i \in 1..Len(buffer) : /\ buffer[i].start \in Nat /\ buffer[i].size \in Nat
                                /\ buffer[i].payload \in Nat
  BY <1>2 DEF BatchRecord
<1>4. Writer!BatchLen \in Nat
  <2>1. CASE buffer = <<>>
    BY <2>1 DEF Writer!BatchLen
  <2>2. CASE buffer # <<>>
    <3>1. Len(buffer) \in 1..Len(buffer)
      BY <1>1, <1>2, <2>2
    <3>2. QED
      BY <1>3, <2>2, <3>1 DEF Writer!BatchLen
  <2>3. QED
    BY <2>1, <2>2
<1>5. /\ written \in Seq(Writer!RecordType) /\ acknowledged \in 0..Len(written)
      /\ wire \in Seq(Writer!RecordType)
      /\ progress \in 0..Writer!BatchLen /\ payload_len \in 0..MaxPayloadLen
      /\ offered \in 0..MaxOffered /\ calls \in 0..MaxCalls
      /\ usable \in BOOLEAN /\ error \in BOOLEAN /\ outcome \in Writer!Outcomes
      /\ phase \in {"idle", "body", "output", "flush", "dropped"}
  BY DEF Writer!TypeOK
<1>6. Len(written) \in Nat
  BY <1>5
<1>7. /\ acknowledged \in Nat /\ progress \in Nat /\ payload_len \in Nat
      /\ offered \in Nat /\ calls \in Nat
  BY <1>4, <1>5, <1>6
<1>8. QED
  BY <1>1, <1>2, <1>3, <1>4, <1>5, <1>6, <1>7, Zenon

(* A step that leaves the batch, the stream and the reader alone disturbs  *)
(* only what is said of the call in progress.                              *)
LEMMA QuietPreserves ==
  ASSUME PipeInv, closed' \in BOOLEAN,
         UNCHANGED <<buffer, progress, written, acknowledged, frames, sent, wire, ended>>,
         UNCHANGED readerVars
  PROVE  IInv' /\ BufferInv' /\ SentInv' /\ EndedInv' /\ Len(wire') = Len(frames')
<1>1. IInv /\ TypeOK /\ SourceInv /\ Len(wire) = Len(frames)
  BY DEF PipeInv, IInv, PipeTypeOK
<1>2. SourceInv'
  BY <1>1 DEF SourceInv, EndOf
<1>3. frames \in Seq(FrameType) /\ Len(frames) \in Nat /\ sent \in Nat
  BY <1>1 DEF TypeOK
<1>4. IInv'
  BY <1>1, <1>2, <1>3, SourceGrows
<1>5. BufferInv'
  BY DEF PipeInv, BufferInv, Writer!BatchIsUnacknowledged
<1>6. SentInv'
  BY DEF PipeInv, SentInv, EndOf, Valid
<1>7. EndedInv'
  BY DEF PipeInv, EndedInv, readerVars
<1>8. QED
  BY <1>1, <1>4, <1>5, <1>6, <1>7

LEMMA WritePreserves ==
  ASSUME PipeInv, Writer!Write \/ (\E c \in Chunks : Writer!BodyWrite(c)),
         UNCHANGED <<readerVars, ended>>
  PROVE  PipeInv'
<1> USE PipeAssumption DEF Writer!batchVars, Writer!builderVars, Writer!destinationVars
<1>0. /\ Writer!TypeOK /\ WriterInv /\ SizeErrorSurfaces /\ closed \in BOOLEAN
      /\ payload_len \in 0..MaxPayloadLen /\ offered \in 0..MaxOffered
      /\ calls \in 0..MaxCalls /\ usable \in BOOLEAN /\ error \in BOOLEAN
  BY WriterShape DEF PipeInv, PipeTypeOK, TypeOK
<1>1. /\ UNCHANGED <<buffer, progress, written, acknowledged, frames, sent, wire, closed, usable, ended>>
      /\ UNCHANGED readerVars
  BY DEF Writer!Write, Writer!BodyWrite
<1>2. IInv' /\ BufferInv' /\ SentInv' /\ EndedInv' /\ Len(wire') = Len(frames')
  BY <1>0, <1>1, QuietPreserves
<1>3. CASE Writer!Write
  <2>0. /\ payload_len' \in 0..MaxPayloadLen /\ offered' \in 0..MaxOffered
        /\ calls' \in 0..MaxCalls
    BY <1>0, <1>3 DEF Writer!Write
  <2>b. error' \in BOOLEAN
    BY <1>0, <1>3, Zenon DEF Writer!Write
  <2>a. /\ outcome' \in Writer!Outcomes
        /\ phase' \in {"idle", "body", "output", "flush", "dropped"}
    BY <1>0, <1>3 DEF Writer!TypeOK, Writer!Write, Writer!Return, Writer!Outcomes
  <2>1. Writer!TypeOK'
    BY <1>0, <1>1, <2>0, <2>a, <2>b DEF Writer!TypeOK, Writer!BatchLen
  <2>2. WriterInv'
    BY <1>0, <1>1, <1>3 DEF WriterInv, Writer!Write, Writer!Return, Writer!BatchLen
  <2>3. SizeErrorSurfaces'
    BY <1>0, <1>1, <1>3 DEF SizeErrorSurfaces, Writer!SizeErrorSurfaces, Writer!Write, Writer!Return
  <2>4. QED
    BY <1>2, <2>1, <2>2, <2>3 DEF PipeInv, PipeTypeOK, IInv
<1>4. CASE \E c \in Chunks : Writer!BodyWrite(c)
  <2>0. PICK c \in Chunks : Writer!BodyWrite(c)
    BY <1>4
  <2>a. c \in Nat /\ phase = "body" /\ phase' = "body" /\ UNCHANGED <<calls, outcome>>
    BY <2>0 DEF Writer!BodyWrite
  <2>b. offered' = offered + c /\ offered' \in 0..MaxOffered
    BY <1>0, <2>a, <2>0 DEF Writer!BodyWrite
  <2>c. /\ payload_len' \in 0..MaxPayloadLen /\ error' \in BOOLEAN
        /\ ~error' => payload_len' = offered'
    <3>1. CASE error /\ UNCHANGED <<payload_len, error>>
      BY <1>0, <3>1
    <3>2. CASE error' = TRUE /\ UNCHANGED payload_len
      BY <1>0, <3>2
    <3>3. CASE ~error /\ c <= MaxPayloadLen - payload_len /\ payload_len' = payload_len + c /\ UNCHANGED error
      BY <1>0, <2>a, <2>b, <3>3 DEF WriterInv
    <3>4. QED
      BY <2>0, <3>1, <3>2, <3>3 DEF Writer!BodyWrite
  <2>1. Writer!TypeOK'
    BY <1>0, <1>1, <2>a, <2>b, <2>c DEF Writer!TypeOK, Writer!BatchLen
  <2>2. WriterInv'
    BY <1>0, <1>1, <2>a, <2>c DEF WriterInv, Writer!BatchLen
  <2>3. SizeErrorSurfaces'
    BY <2>a DEF SizeErrorSurfaces, Writer!SizeErrorSurfaces
  <2>4. QED
    BY <1>2, <2>1, <2>2, <2>3 DEF PipeInv, PipeTypeOK, IInv
<1>5. QED
  BY <1>3, <1>4

(* The calls that leave the batch and the stream alone. *)
LEMMA CallPreserves ==
  ASSUME PipeInv, UNCHANGED <<readerVars, ended>>,
         \/ Writer!CallbackErr \/ Writer!CallbackPanics
         \/ Writer!FlushBuffer \/ Writer!OutputInterrupted \/ Writer!OutputFails
         \/ Writer!Flush \/ Writer!Flushed \/ Writer!IntoInner
         \/ Writer!CallbackOk /\ error
  PROVE  PipeInv'
<1> USE DEF Writer!batchVars, Writer!builderVars, Writer!destinationVars
<1>0. /\ Writer!TypeOK /\ WriterInv /\ SizeErrorSurfaces /\ closed \in BOOLEAN
      /\ usable \in BOOLEAN /\ error \in BOOLEAN
  BY WriterShape DEF PipeInv, PipeTypeOK, TypeOK
<1>1. /\ UNCHANGED <<buffer, progress, written, acknowledged, frames, sent, wire, ended,
                     payload_len, error, offered, calls>>
      /\ UNCHANGED readerVars
      /\ closed' \in BOOLEAN
  <2>1. CASE Writer!CallbackErr \/ Writer!CallbackPanics \/ (Writer!CallbackOk /\ error)
    BY <1>0, <2>1 DEF Writer!CallbackErr, Writer!CallbackPanics, Writer!CallbackOk, Writer!Rollback
  <2>2. CASE Writer!FlushBuffer
    BY <1>0, <2>2 DEF Writer!FlushBuffer, WriterInv
  <2>3. CASE Writer!OutputInterrupted
    BY <1>0, <2>3 DEF Writer!OutputInterrupted, Writer!writerVars
  <2>4. CASE Writer!OutputFails \/ Writer!Flush \/ Writer!Flushed \/ Writer!IntoInner
    BY <1>0, <2>4 DEF Writer!OutputFails, Writer!Flush, Writer!Flushed, Writer!IntoInner
  <2>5. QED
    BY <2>1, <2>2, <2>3, <2>4
<1>2. IInv' /\ BufferInv' /\ SentInv' /\ EndedInv' /\ Len(wire') = Len(frames')
  BY <1>1, QuietPreserves
<1>3. Writer!BatchLen' = Writer!BatchLen
  BY <1>1 DEF Writer!BatchLen
<1>4. /\ usable' \in BOOLEAN /\ outcome' \in Writer!Outcomes
      /\ phase' \in {"idle", "body", "output", "flush", "dropped"}
  BY <1>0 DEF Writer!TypeOK, Writer!CallbackErr, Writer!CallbackPanics, Writer!FlushBuffer,
     Writer!OutputInterrupted, Writer!OutputFails, Writer!Flush, Writer!Flushed,
     Writer!IntoInner, Writer!CallbackOk, Writer!Rollback, Writer!Return, Writer!Outcomes,
     Writer!writerVars
<1>5. Writer!TypeOK'
  BY <1>0, <1>1, <1>3, <1>4 DEF Writer!TypeOK
<1>6. WriterInv'
  BY <1>0, <1>1, <1>3 DEF WriterInv, Writer!CallbackErr, Writer!CallbackPanics,
     Writer!FlushBuffer, Writer!OutputInterrupted, Writer!OutputFails, Writer!Flush,
     Writer!Flushed, Writer!IntoInner, Writer!CallbackOk, Writer!Rollback, Writer!Return,
     Writer!writerVars
<1>7. SizeErrorSurfaces'
  BY <1>0, <1>1 DEF SizeErrorSurfaces, Writer!SizeErrorSurfaces, WriterInv,
     Writer!CallbackErr, Writer!CallbackPanics,
     Writer!FlushBuffer, Writer!OutputInterrupted, Writer!OutputFails, Writer!Flush,
     Writer!Flushed, Writer!IntoInner, Writer!CallbackOk, Writer!Rollback, Writer!Return,
     Writer!writerVars
<1>8. QED
  BY <1>2, <1>5, <1>6, <1>7 DEF PipeInv, PipeTypeOK, IInv

(* The batch ends where its last record does, and starts at 0. *)
LEMMA BatchEnds ==
  ASSUME Writer!TypeOK, BufferInv
  PROVE  /\ buffer = <<>> <=> Len(buffer) = 0
         /\ Len(buffer) = 0 => Writer!BatchLen = 0
         /\ Len(buffer) > 0 =>
              /\ buffer[1].start = 0
              /\ Writer!BatchLen = buffer[Len(buffer)].start + buffer[Len(buffer)].size
         /\ \A i \in 1..Len(buffer) :
              /\ buffer[i].start + buffer[i].size <= Writer!BatchLen
              /\ buffer[i].start < Writer!BatchLen
              /\ buffer[i].size > 0
         /\ \A i \in 1..Len(buffer) - 1 :
              buffer[i + 1].start = buffer[i].start + buffer[i].size
<1> USE PipeAssumption, ReaderAssumption
<1>0. /\ buffer \in Seq(BatchRecord) /\ Len(buffer) \in Nat
      /\ \A i \in 1..Len(buffer) : /\ buffer[i].start \in Nat /\ buffer[i].size \in Nat
                                   /\ buffer[i].payload \in Nat
  BY WriterShape
<1>1. buffer = <<>> <=> Len(buffer) = 0
  BY <1>0
<1>2. \A n \in 1..Len(buffer) :
        /\ buffer[n].size = buffer[n].payload + MinRecordLen
        /\ buffer[n].start = IF n = 1 THEN 0 ELSE buffer[n - 1].start + buffer[n - 1].size
  BY DEF BufferInv, Writer!BatchIsUnacknowledged
<1>3. Len(buffer) = 0 => Writer!BatchLen = 0
  BY <1>1 DEF Writer!BatchLen
<1>4. Len(buffer) > 0 =>
        /\ buffer[1].start = 0
        /\ Writer!BatchLen = buffer[Len(buffer)].start + buffer[Len(buffer)].size
  <2>1. SUFFICES ASSUME Len(buffer) > 0
                 PROVE  /\ buffer[1].start = 0
                        /\ Writer!BatchLen = buffer[Len(buffer)].start + buffer[Len(buffer)].size
    OBVIOUS
  <2>2. 1 \in 1..Len(buffer)
    BY <1>0, <2>1
  <2>3. QED
    BY <1>0, <1>1, <1>2, <2>1, <2>2 DEF Writer!BatchLen
<1>5. \A i \in 1..Len(buffer) : buffer[i].size > 0
  BY <1>0, <1>2
<1>6. ASSUME NEW i \in 1..Len(buffer)
      PROVE  buffer[i].start + buffer[i].size <= Writer!BatchLen
  <2>1. CASE i = Len(buffer)
    BY <1>0, <1>4, <2>1
  <2>2. CASE i < Len(buffer)
    <3>1. Len(buffer) \in 1..Len(buffer)
      BY <1>0
    <3>2. buffer[i].start + buffer[i].size <= buffer[Len(buffer)].start
      BY <2>2, <3>1 DEF BufferInv
    <3>3. Len(buffer) > 0
      BY <1>0
    <3>4. QED
      BY <1>0, <1>4, <3>1, <3>2, <3>3
  <2>3. QED
    BY <1>0, <2>1, <2>2
<1>7. ASSUME NEW i \in 1..Len(buffer)
      PROVE  buffer[i].start < Writer!BatchLen
  <2>1. Writer!BatchLen \in Nat
    BY WriterShape
  <2>2. QED
    BY <1>0, <1>5, <1>6, <2>1
<1>8. ASSUME NEW i \in 1..Len(buffer) - 1
      PROVE  buffer[i + 1].start = buffer[i].start + buffer[i].size
  <2>1. i + 1 \in 1..Len(buffer) /\ i + 1 # 1 /\ (i + 1) - 1 = i
    BY <1>0
  <2>2. QED
    BY <1>2, <2>1
<1>9. QED
  BY <1>1, <1>3, <1>4, <1>5, <1>6, <1>7, <1>8

(* write() returned Ok: the record joins the batch. *)
LEMMA PublishPreserves ==
  ASSUME PipeInv, Writer!CallbackOk, ~error, UNCHANGED <<readerVars, ended>>
  PROVE  PipeInv'
<1> USE PipeAssumption, ReaderAssumption DEF Writer!builderVars, Writer!destinationVars
<1>0. /\ Writer!TypeOK /\ TypeOK /\ WriterInv /\ BufferInv /\ SentInv /\ IInv /\ SourceInv
      /\ EndedInv /\ Len(wire) = Len(frames)
  BY DEF PipeInv, PipeTypeOK, IInv
<1>a. PICK B \in Nat : B = Len(buffer)
  BY <1>0, WriterShape
<1>b. PICK W \in Nat : W = Len(written)
  BY <1>0, WriterShape
<1>c. PICK bl \in Nat : bl = Writer!BatchLen
  BY <1>0, WriterShape
<1>d. PICK r : r = [id |-> calls, payload |-> payload_len, start |-> bl,
                    size |-> payload_len + MinRecordLen]
  OBVIOUS
<1>e. PICK w : w = [id |-> calls, payload |-> payload_len]
  OBVIOUS
<1>1. /\ phase = "body" /\ usable /\ progress = 0 /\ calls \in 1..MaxCalls
      /\ payload_len = offered /\ payload_len \in 0..MaxPayloadLen /\ closed = FALSE
  BY <1>0, WriterShape DEF WriterInv, Writer!CallbackOk, TypeOK
<1>2. /\ buffer' = Append(buffer, r) /\ written' = Append(written, w)
      /\ phase' = "idle" /\ outcome' = "Written"
      /\ UNCHANGED <<usable, progress, acknowledged, payload_len, error, offered, calls,
                     frames, sent, closed, wire, ended>>
      /\ UNCHANGED readerVars
  BY <1>c, <1>d, <1>e DEF Writer!CallbackOk, Writer!Publish, Writer!Return
<1>3. /\ r \in BatchRecord /\ r.id = calls /\ r.payload = payload_len /\ r.start = bl
      /\ r.size = payload_len + MinRecordLen /\ r.size \in Nat /\ r.size > 0
  BY <1>1, <1>d DEF BatchRecord
<1>4. w \in Writer!RecordType
  BY <1>1, <1>e DEF Writer!RecordType
<1>5. /\ buffer' \in Seq(BatchRecord) /\ Len(buffer') = B + 1 /\ buffer'[B + 1] = r
      /\ \A i \in 1..B : buffer'[i] = buffer[i]
  <2>1. buffer \in Seq(BatchRecord)
    BY <1>0, WriterShape
  <2>2. QED
    BY <2>1, <1>2, <1>3, <1>a
<1>6. /\ written' \in Seq(Writer!RecordType) /\ Len(written') = W + 1 /\ written'[W + 1] = w
      /\ \A i \in 1..W : written'[i] = written[i]
  <2>1. written \in Seq(Writer!RecordType)
    BY <1>0, WriterShape
  <2>2. QED
    BY <2>1, <1>2, <1>4, <1>b
<1>7. /\ acknowledged \in 0..W /\ B = W - acknowledged
      /\ \A n \in 1..B :
           /\ [id |-> buffer[n].id, payload |-> buffer[n].payload] = written[acknowledged + n]
           /\ buffer[n].size = buffer[n].payload + MinRecordLen
           /\ buffer[n].start = IF n = 1 THEN 0 ELSE buffer[n - 1].start + buffer[n - 1].size
  BY <1>0, <1>a, <1>b, WriterShape DEF BufferInv, Writer!BatchIsUnacknowledged
<1>8. /\ B = 0 => bl = 0
      /\ B > 0 => bl = buffer[B].start + buffer[B].size
      /\ \A i \in 1..B : buffer[i].start + buffer[i].size <= bl
  BY <1>0, <1>a, <1>c, BatchEnds
<1>9. Writer!BatchLen' = bl + r.size
  <2>1. buffer' # <<>>
    BY <1>5
  <2>2. QED
    BY <1>3, <1>5, <2>1 DEF Writer!BatchLen
<1>10. BufferInv'
  <2>1. Len(buffer') = Len(written') - acknowledged'
    BY <1>2, <1>5, <1>6, <1>7
  <2>2. ASSUME NEW n \in 1..B + 1
        PROVE  /\ [id |-> buffer'[n].id, payload |-> buffer'[n].payload] = written'[acknowledged + n]
               /\ buffer'[n].size = buffer'[n].payload + MinRecordLen
               /\ buffer'[n].start = IF n = 1 THEN 0 ELSE buffer'[n - 1].start + buffer'[n - 1].size
    <3>1. CASE n = B + 1
      <4>1. acknowledged + n = W + 1
        BY <1>7, <3>1
      <4>2. [id |-> buffer'[n].id, payload |-> buffer'[n].payload] = written'[acknowledged + n]
        BY <1>3, <1>5, <1>6, <1>e, <3>1, <4>1
      <4>3. buffer'[n].size = buffer'[n].payload + MinRecordLen
        BY <1>3, <1>5, <3>1
      <4>4. buffer'[n].start = IF n = 1 THEN 0 ELSE buffer'[n - 1].start + buffer'[n - 1].size
        <5>1. CASE B = 0
          BY <1>3, <1>5, <1>8, <3>1, <5>1
        <5>2. CASE B > 0
          BY <1>3, <1>5, <1>8, <3>1, <5>2
        <5>3. QED
          BY <5>1, <5>2
      <4>5. QED
        BY <4>2, <4>3, <4>4
    <3>2. CASE n \in 1..B
      <4>1. acknowledged + n \in 1..W /\ buffer'[n] = buffer[n] /\ (n # 1 => n - 1 \in 1..B)
        BY <1>5, <1>7, <3>2
      <4>2. written'[acknowledged + n] = written[acknowledged + n]
        BY <1>6, <4>1
      <4>3. n # 1 => buffer'[n - 1] = buffer[n - 1]
        BY <1>5, <4>1
      <4>4. QED
        BY <1>7, <3>2, <4>1, <4>2, <4>3
    <3>3. QED
      BY <3>1, <3>2
  <2>3. ASSUME NEW i \in 1..B + 1, NEW j \in 1..B + 1, i < j
        PROVE  buffer'[i].start + buffer'[i].size <= buffer'[j].start
    <3>1. CASE j = B + 1
      BY <1>3, <1>5, <1>8, <2>3, <3>1
    <3>2. CASE j \in 1..B
      BY <1>0, <1>5, <1>a, <2>3, <3>2 DEF BufferInv
    <3>3. QED
      BY <3>1, <3>2
  <2>4. QED
    BY <1>2, <1>5, <2>1, <2>2, <2>3 DEF BufferInv, Writer!BatchIsUnacknowledged
<1>11. SentInv'
  <2>1. /\ Len(frames) \in acknowledged..W /\ sent = EndOf(acknowledged) + progress
        /\ \A k \in 1..B : buffer[k].start < progress <=> acknowledged + k <= Len(frames)
        /\ \A k \in 1..B : acknowledged + k <= Len(frames) =>
              /\ frames[acknowledged + k].start = EndOf(acknowledged) + buffer[k].start
              /\ frames[acknowledged + k].size = buffer[k].size
        /\ \A k \in 1..Len(frames) : wire[k] = written[k] /\ Valid(frames[k])
    BY <1>0, <1>a, <1>b DEF SentInv
  <2>2. EndOf(acknowledged)' = EndOf(acknowledged)
    BY <1>2 DEF EndOf
  <2>3. ASSUME NEW k \in 1..B + 1
        PROVE  /\ buffer'[k].start < progress <=> acknowledged + k <= Len(frames)
               /\ acknowledged + k <= Len(frames) =>
                    /\ frames[acknowledged + k].start = EndOf(acknowledged) + buffer'[k].start
                    /\ frames[acknowledged + k].size = buffer'[k].size
    <3>1. CASE k = B + 1
      BY <1>1, <1>3, <1>5, <1>7, <2>1, <3>1
    <3>2. CASE k \in 1..B
      BY <1>5, <2>1, <3>2
    <3>3. QED
      BY <3>1, <3>2
  <2>4. ASSUME NEW k \in 1..Len(frames) PROVE wire[k] = written'[k] /\ Valid(frames[k])'
    <3>1. k \in 1..W
      BY <2>1
    <3>2. QED
      BY <1>2, <1>6, <2>1, <3>1 DEF Valid
  <2>5. Len(frames') \in acknowledged'..Len(written')
    BY <1>2, <1>6, <1>7, <2>1
  <2>6. QED
    BY <1>2, <1>5, <2>1, <2>2, <2>3, <2>4, <2>5 DEF SentInv
<1>12. IInv'
  <2>1. SourceInv'
    BY <1>0, <1>2 DEF SourceInv, EndOf
  <2>2. frames \in Seq(FrameType) /\ Len(frames) \in Nat /\ sent \in Nat
    BY <1>0 DEF TypeOK
  <2>a. closed' \in BOOLEAN /\ frames' = frames /\ sent' = sent
    BY <1>1, <1>2, Zenon
  <2>3. /\ closed' \in BOOLEAN /\ frames' = frames /\ sent' = sent
        /\ \A k \in 1..Len(frames') : ~ (k > Len(frames))
    BY <2>a, <2>2
  <2>4. frames' \in Seq(FrameType) /\ sent' \in Nat /\ sent <= sent' /\ Len(frames) <= Len(frames')
    BY <2>2, <2>3
  <2>5. QED
    BY <1>0, <1>2, <2>1, <2>3, <2>4, SourceGrows
<1>13. EndedInv'
  BY <1>0, <1>2 DEF EndedInv, readerVars
<1>14. WriterInv'
  BY <1>0, <1>1, <1>2, <1>3, <1>9 DEF WriterInv
<1>15. Writer!TypeOK'
  <2>1. buffer' \in Seq([id: 1..MaxCalls, payload: 0..MaxPayloadLen, start: Nat, size: Nat])
    BY <1>5 DEF BatchRecord
  <2>2. progress' \in 0..Writer!BatchLen' /\ acknowledged' \in 0..Len(written')
    BY <1>1, <1>2, <1>3, <1>6, <1>7, <1>9
  <2>3. QED
    BY <1>0, <1>2, <1>6, <2>1, <2>2 DEF Writer!TypeOK, Writer!Outcomes
<1>16. SizeErrorSurfaces'
  BY <1>1, <1>2 DEF SizeErrorSurfaces, Writer!SizeErrorSurfaces
<1>17. QED
  BY <1>0, <1>2, <1>10, <1>11, <1>12, <1>13, <1>14, <1>15, <1>16 DEF PipeInv, PipeTypeOK, IInv

-----------------------------------------------------------------------------
(* The elements of a concatenation, by their place in its parts. *)
LEMMA Concatenated ==
  ASSUME NEW S, NEW s \in Seq(S), NEW t \in Seq(S)
  PROVE  /\ s \o t \in Seq(S) /\ Len(s \o t) = Len(s) + Len(t)
         /\ \A k \in 1..Len(s) : (s \o t)[k] = s[k]
         /\ \A k \in 1..Len(t) : (s \o t)[Len(s) + k] = t[k]
<1>1. /\ s \o t \in Seq(S) /\ Len(s \o t) = Len(s) + Len(t)
      /\ \A i \in 1..Len(s) + Len(t) :
           (s \o t)[i] = IF i <= Len(s) THEN s[i] ELSE t[i - Len(s)]
  BY ConcatProperties
<1>2. Len(s) \in Nat /\ Len(t) \in Nat
  OBVIOUS
<1>3. \A k \in 1..Len(s) : (s \o t)[k] = s[k]
  <2> TAKE k \in 1..Len(s)
  <2>1. k \in 1..Len(s) + Len(t) /\ k <= Len(s)
    BY <1>2
  <2>2. QED
    BY <1>1, <2>1
<1>4. \A k \in 1..Len(t) : (s \o t)[Len(s) + k] = t[k]
  <2> TAKE k \in 1..Len(t)
  <2>1. /\ Len(s) + k \in 1..Len(s) + Len(t) /\ ~ (Len(s) + k <= Len(s))
        /\ (Len(s) + k) - Len(s) = k
    BY <1>2
  <2>2. QED
    BY <1>1, <2>1
<1>5. QED
  BY <1>1, <1>3, <1>4

(* What the destination holds after it took n more bytes of the batch: the *)
(* frames of the first `begun` records of the batch, each once.            *)
LEMMA AcceptsGrows ==
  ASSUME PipeInv, NEW n \in Nat \ {0}, Writer!Accepts(n)
  PROVE  \E begun \in 0..Len(buffer) :
           /\ \A i \in 1..Len(buffer) : buffer[i].start < progress + n <=> i <= begun
           /\ Len(frames) <= acknowledged + begun
           /\ frames' \in Seq(FrameType) /\ Len(frames') = acknowledged + begun
           /\ wire' \in Seq(Writer!RecordType) /\ Len(wire') = acknowledged + begun
           /\ \A k \in 1..Len(frames) : frames'[k] = frames[k] /\ wire'[k] = wire[k]
           /\ \A k \in 1..begun :
                /\ frames'[acknowledged + k].start = EndOf(acknowledged) + buffer[k].start
                /\ frames'[acknowledged + k].size = buffer[k].size
                /\ wire'[acknowledged + k] = written[acknowledged + k]
           /\ \A k \in 1..acknowledged + begun : Valid(frames'[k])
           /\ sent' = sent + n /\ closed' = closed
<1> USE PipeAssumption, ReaderAssumption
<1>0. /\ Writer!TypeOK /\ TypeOK /\ BufferInv /\ SentInv /\ Len(wire) = Len(frames)
  BY DEF PipeInv, PipeTypeOK
<1>a. PICK B \in Nat : B = Len(buffer)
  BY <1>0, WriterShape
<1>b. PICK A \in Nat : A = acknowledged
  BY <1>0, WriterShape
<1>c. PICK L \in Nat : L = Len(frames)
  BY <1>0 DEF TypeOK
<1>d. PICK p \in Nat : p = progress
  BY <1>0, WriterShape
<1>e. PICK base \in Nat : base = EndOf(A) /\ L \in A..A + B
  <2>1. L \in A..A + B
    BY <1>0, <1>a, <1>b, <1>c, WriterShape DEF SentInv, BufferInv, Writer!BatchIsUnacknowledged
  <2>2. EndOf(A) \in Nat
    BY <1>0, <1>c, <2>1, EndTypes
  <2>3. QED
    BY <2>1, <2>2
<1>1. /\ sent = base + p
      /\ \A k \in 1..B : buffer[k].start < p <=> A + k <= L
      /\ \A k \in 1..B : A + k <= L =>
            /\ frames[A + k].start = base + buffer[k].start
            /\ frames[A + k].size = buffer[k].size
      /\ \A k \in 1..L : wire[k] = written[k] /\ Valid(frames[k])
  BY <1>0, <1>a, <1>b, <1>c, <1>d, <1>e DEF SentInv
<1>2. PICK one \in 0..B : /\ one = Writer!Begun(p)
                          /\ \A i \in 1..B : buffer[i].start < p <=> i <= one
  BY <1>0, <1>a, BegunCounts
<1>3. PICK two \in 0..B : /\ two = Writer!Begun(p + n)
                          /\ \A i \in 1..B : buffer[i].start < p + n <=> i <= two
  <2>1. p + n \in Nat
    OBVIOUS
  <2>2. QED
    BY <1>0, <1>a, <2>1, BegunCounts
<1>4. one = L - A
  <2>1. L - A \in 0..B
    BY <1>e
  <2>2. \A i \in 1..B : i <= one <=> i <= L - A
    BY <1>1, <1>2, <1>e
  <2>3. QED
    <3>1. ~ (one < L - A)
      <4>1. SUFFICES ASSUME one < L - A PROVE FALSE
        OBVIOUS
      <4>2. L - A \in 1..B
        BY <1>e, <2>1, <4>1
      <4>3. QED
        BY <2>2, <4>1, <4>2, <1>2
    <3>2. ~ (L - A < one)
      <4>1. SUFFICES ASSUME L - A < one PROVE FALSE
        OBVIOUS
      <4>2. one \in 1..B
        BY <1>2, <2>1, <4>1
      <4>3. QED
        BY <2>2, <4>1, <4>2, <1>e
    <3>3. QED
      BY <3>1, <3>2, <2>1, <1>2
<1>5. one <= two
  <2>1. CASE one = 0
    BY <1>3, <2>1
  <2>2. CASE one # 0
    <3>1. one \in 1..B /\ buffer[one].start \in Nat
      BY <1>0, <1>2, <1>a, <2>2, WriterShape, SMTT(30)
    <3>2. buffer[one].start < p
      BY <1>2, <3>1
    <3>3. buffer[one].start < p + n
      BY <3>1, <3>2
    <3>4. QED
      BY <1>3, <3>1, <3>3
  <2>3. QED
    BY <2>1, <2>2
<1> DEFINE m == two - one
<1>6. PICK began \in Seq(BatchRecord) :
        /\ began = SubSeq(buffer, one + 1, two) /\ Len(began) = m
        /\ \A k \in 1..m : began[k] = buffer[one + k]
  <2>1. buffer \in Seq(BatchRecord)
    BY <1>0, WriterShape
  <2>2. /\ SubSeq(buffer, one + 1, two) \in Seq(BatchRecord)
        /\ Len(SubSeq(buffer, one + 1, two)) = m
        /\ \A k \in 1..m : SubSeq(buffer, one + 1, two)[k] = buffer[one + k]
    <3>1. /\ one + 1 \in Int /\ two \in Int
          /\ \A i \in one + 1..two : i \in 1..Len(buffer)
      BY <1>2, <1>3, <1>a
    <3>2. \A i \in one + 1..two : buffer[i] \in BatchRecord
      BY <2>1, <3>1
    <3>3. /\ SubSeq(buffer, one + 1, two) \in Seq(BatchRecord)
          /\ Len(SubSeq(buffer, one + 1, two)) = IF one + 1 <= two THEN two - (one + 1) + 1 ELSE 0
          /\ \A i \in 1..two - (one + 1) + 1 :
               SubSeq(buffer, one + 1, two)[i] = buffer[(one + 1) + i - 1]
      BY <3>1, <3>2, SubSeqProperties
    <3>4. /\ two - (one + 1) + 1 = m
          /\ m = IF one + 1 <= two THEN two - (one + 1) + 1 ELSE 0
          /\ \A i \in 1..m : (one + 1) + i - 1 = one + i
      BY <1>2, <1>3, <1>5
    <3>5. QED
      BY <3>3, <3>4
  <2>3. QED
    BY <2>2
<1>7. m \in Nat /\ two = one + m /\ A + two = L + m
  BY <1>2, <1>3, <1>4, <1>5, <1>e
<1> HIDE DEF m
<1>8. \A k \in 1..m : /\ one + k \in 1..B /\ began[k] \in BatchRecord
                      /\ A + (one + k) = L + k
  <2> TAKE k \in 1..m
  <2>1. k \in 1..Len(began)
    BY <1>6
  <2>2. began[k] \in BatchRecord
    BY <1>6, <2>1
  <2>3. one + k \in 1..B /\ A + (one + k) = L + k
    BY <1>2, <1>3, <1>4, <1>7, <1>e
  <2>4. QED
    BY <2>2, <2>3
<1> DEFINE F == [k \in 1..m |-> [start |-> sent - p + began[k].start, size |-> began[k].size,
                    declared |-> began[k].size, stream_ok |-> TRUE, crc_ok |-> TRUE]]
           G == [k \in 1..m |-> [id |-> began[k].id, payload |-> began[k].payload]]
<1>9. frames' = frames \o F /\ wire' = wire \o G /\ sent' = sent + n /\ closed' = closed
  BY <1>2, <1>3, <1>6, <1>d DEF Writer!Accepts
<1>10. \A k \in 1..m :
         /\ began[k].start \in Nat /\ began[k].size \in Nat \ {0} /\ began[k].size >= MinRecordLen
         /\ sent - p + began[k].start = base + began[k].start
         /\ [id |-> began[k].id, payload |-> began[k].payload] = written[L + k]
         /\ [id |-> began[k].id, payload |-> began[k].payload] \in Writer!RecordType
  <2>1. SUFFICES ASSUME NEW k \in 1..m
                 PROVE  /\ began[k].start \in Nat /\ began[k].size \in Nat \ {0}
                        /\ began[k].size >= MinRecordLen
                        /\ sent - p + began[k].start = base + began[k].start
                        /\ [id |-> began[k].id, payload |-> began[k].payload] = written[L + k]
                        /\ [id |-> began[k].id, payload |-> began[k].payload] \in Writer!RecordType
    OBVIOUS
  <2>2. PICK i \in 1..B : i = one + k /\ began[k] = buffer[i] /\ A + i = L + k
    BY <1>6, <1>8
  <2>3. /\ buffer[i].start \in Nat /\ buffer[i].size \in Nat /\ buffer[i].payload \in Nat
        /\ buffer[i] \in BatchRecord
    BY <1>0, <1>a, WriterShape
  <2>4. /\ [id |-> buffer[i].id, payload |-> buffer[i].payload] = written[A + i]
        /\ buffer[i].size = buffer[i].payload + MinRecordLen
    BY <1>0, <1>a, <1>b DEF BufferInv, Writer!BatchIsUnacknowledged
  <2>5. [id |-> buffer[i].id, payload |-> buffer[i].payload] \in Writer!RecordType
    BY <2>3 DEF BatchRecord, Writer!RecordType
  <2>6. sent - p + buffer[i].start = base + buffer[i].start
    BY <1>1, <2>3
  <2>7. buffer[i].size \in Nat \ {0} /\ buffer[i].size >= MinRecordLen
    BY <2>3, <2>4, SMTT(30)
  <2>8. QED
    BY <2>2, <2>3, <2>4, <2>5, <2>6, <2>7
<1>11. F \in Seq(FrameType) /\ Len(F) = m
  <2>1. \A k \in 1..m : [start |-> sent - p + began[k].start, size |-> began[k].size,
                    declared |-> began[k].size, stream_ok |-> TRUE, crc_ok |-> TRUE] \in FrameType
    <3>1. SUFFICES ASSUME NEW k \in 1..m
                   PROVE [start |-> sent - p + began[k].start, size |-> began[k].size,
                    declared |-> began[k].size, stream_ok |-> TRUE, crc_ok |-> TRUE] \in FrameType
      OBVIOUS
    <3>2. sent - p + began[k].start \in Nat /\ began[k].size \in Nat \ {0}
      <4>1. /\ sent - p + began[k].start = base + began[k].start
            /\ began[k].start \in Nat /\ began[k].size \in Nat \ {0}
        BY <1>10
      <4>2. base + began[k].start \in Nat
        BY <4>1
      <4>3. QED
        BY <4>1, <4>2
    <3>3. QED
      BY <3>2, Zenon DEF FrameType
  <2>2. QED
    BY <1>7, <2>1
<1>12. G \in Seq(Writer!RecordType) /\ Len(G) = m
  BY <1>7, <1>10
<1>13. \A k \in 1..m : /\ F[k].start = base + buffer[one + k].start
                       /\ F[k].size = buffer[one + k].size
                       /\ Valid(F[k])
                       /\ G[k] = written[L + k]
  <2>1. SUFFICES ASSUME NEW k \in 1..m
                 PROVE  /\ F[k].start = base + buffer[one + k].start
                        /\ F[k].size = buffer[one + k].size
                        /\ Valid(F[k])
                        /\ G[k] = written[L + k]
    OBVIOUS
  <2>2. /\ F[k].start = base + began[k].start /\ F[k].size = began[k].size
        /\ F[k].declared = began[k].size /\ F[k].stream_ok /\ F[k].crc_ok
    BY <1>10
  <2>3. began[k] = buffer[one + k] /\ began[k].size >= MinRecordLen
    BY <1>6, <1>10
  <2>4. G[k] = written[L + k]
    BY <1>10
  <2>5. QED
    BY <2>2, <2>3, <2>4 DEF Valid
<1> HIDE DEF F, G
<1>14. /\ frames' \in Seq(FrameType) /\ Len(frames') = L + m
       /\ \A k \in 1..L : frames'[k] = frames[k]
       /\ \A k \in 1..m : frames'[L + k] = F[k]
  <2>1. frames \in Seq(FrameType)
    BY <1>0 DEF TypeOK
  <2>2. PICK T : T = FrameType
    OBVIOUS
  <2>3. PICK u \in Seq(T) : u = frames
    BY <2>1, <2>2
  <2>4. PICK v \in Seq(T) : v = F
    BY <1>11, <2>2
  <2>5. /\ u \o v \in Seq(T) /\ Len(u \o v) = Len(u) + Len(v)
        /\ \A k \in 1..Len(u) : (u \o v)[k] = u[k]
        /\ \A k \in 1..Len(v) : (u \o v)[Len(u) + k] = v[k]
    BY Concatenated
  <2>6. Len(u) = L /\ Len(v) = m /\ frames' = u \o v
    BY <1>9, <1>11, <1>c, <2>1, <2>3, <2>4
  <2>7. QED
    BY <2>2, <2>3, <2>4, <2>5, <2>6, Zenon
<1>15. /\ wire' \in Seq(Writer!RecordType) /\ Len(wire') = L + m
       /\ \A k \in 1..L : wire'[k] = wire[k]
       /\ \A k \in 1..m : wire'[L + k] = G[k]
  <2>1. wire \in Seq(Writer!RecordType) /\ Len(wire) = L
    BY <1>0, <1>c, WriterShape
  <2>2. PICK T : T = Writer!RecordType
    OBVIOUS
  <2>3. PICK u \in Seq(T) : u = wire
    BY <2>1, <2>2
  <2>4. PICK v \in Seq(T) : v = G
    BY <1>12, <2>2
  <2>5. /\ u \o v \in Seq(T) /\ Len(u \o v) = Len(u) + Len(v)
        /\ \A k \in 1..Len(u) : (u \o v)[k] = u[k]
        /\ \A k \in 1..Len(v) : (u \o v)[Len(u) + k] = v[k]
    BY Concatenated
  <2>6. Len(u) = L /\ Len(v) = m /\ wire' = u \o v
    BY <1>9, <1>12, <1>c, <2>1, <2>3, <2>4
  <2>7. QED
    BY <2>2, <2>3, <2>4, <2>5, <2>6, Zenon
<1>16. ASSUME NEW k \in 1..two
       PROVE  /\ frames'[A + k].start = base + buffer[k].start
              /\ frames'[A + k].size = buffer[k].size
              /\ wire'[A + k] = written[A + k]
  <2>1. CASE A + k <= L
    <3>1. A + k \in 1..L /\ k \in 1..B
      BY <2>1, <1>3
    <3>2. QED
      BY <1>1, <1>14, <1>15, <2>1, <3>1
  <2>2. CASE A + k > L
    <3>1. PICK j \in 1..m : k = one + j /\ A + k = L + j
      <4>1. k - one \in 1..m /\ A + k = L + (k - one)
        BY <1>2, <1>4, <1>7, <1>e, <2>2
      <4>2. k = one + (k - one)
        BY <1>2
      <4>3. QED
        BY <4>1, <4>2
    <3>2. /\ F[j].start = base + buffer[one + j].start
          /\ F[j].size = buffer[one + j].size /\ G[j] = written[L + j]
      BY <1>13
    <3>3. frames'[L + j] = F[j] /\ wire'[L + j] = G[j]
      BY <1>14, <1>15
    <3>4. QED
      BY <3>1, <3>2, <3>3
  <2>3. QED
    BY <2>1, <2>2
<1>17. ASSUME NEW k \in 1..A + two PROVE Valid(frames'[k])
  <2>1. CASE k <= L
    <3>1. k \in 1..L
      BY <2>1
    <3>2. QED
      BY <3>1, <1>1, <1>14
  <2>2. CASE k > L
    <3>1. PICK j \in 1..m : k = L + j
      <4>1. k - L \in 1..m /\ k = L + (k - L)
        BY <1>7, <2>2
      <4>2. QED
        BY <4>1
    <3>2. QED
      BY <1>13, <1>14, <3>1
  <2>3. QED
    BY <2>1, <2>2
<1>18. QED
  <2>1. two \in 0..Len(buffer)
    BY <1>a
  <2>2. \A i \in 1..Len(buffer) : buffer[i].start < progress + n <=> i <= two
    BY <1>3, <1>a, <1>d
  <2>3. Len(frames) <= acknowledged + two
    BY <1>7, <1>b, <1>c
  <2>4. /\ frames' \in Seq(FrameType) /\ Len(frames') = acknowledged + two
        /\ wire' \in Seq(Writer!RecordType) /\ Len(wire') = acknowledged + two
        /\ \A k \in 1..Len(frames) : frames'[k] = frames[k] /\ wire'[k] = wire[k]
    BY <1>7, <1>14, <1>15, <1>b, <1>c
  <2>5. \A k \in 1..two :
                /\ frames'[acknowledged + k].start = EndOf(acknowledged) + buffer[k].start
                /\ frames'[acknowledged + k].size = buffer[k].size
                /\ wire'[acknowledged + k] = written[acknowledged + k]
    BY <1>16, <1>b, <1>e
  <2>6. \A k \in 1..acknowledged + two : Valid(frames'[k])
    BY <1>17, <1>b
  <2>7. QED
    BY <1>9, <2>1, <2>2, <2>3, <2>4, <2>5, <2>6

(* The destination took n more bytes: what it holds is still the frames    *)
(* laid end to end, and the reader's positions stay where they were.       *)
LEMMA AcceptedSource ==
  ASSUME PipeInv, phase = "output", NEW n \in Nat \ {0}, n <= Writer!BatchLen - progress,
         Writer!Accepts(n), UNCHANGED readerVars
  PROVE  IInv'
<1> USE PipeAssumption, ReaderAssumption
<1>0. /\ Writer!TypeOK /\ TypeOK /\ IInv /\ SourceInv /\ WriterInv /\ BufferInv /\ SentInv
  BY DEF PipeInv, PipeTypeOK, IInv
<1>a. PICK B \in Nat : B = Len(buffer)
  BY <1>0, WriterShape
<1>b. PICK A \in Nat : A = acknowledged
  BY <1>0, WriterShape
<1>c. PICK L \in Nat : L = Len(frames)
  BY <1>0 DEF TypeOK
<1>d. PICK p \in Nat : p = progress
  BY <1>0, WriterShape
<1>e. PICK bl \in Nat : bl = Writer!BatchLen
  BY <1>0, WriterShape
<1>f. PICK base \in Nat : base = EndOf(A) /\ L \in A..A + B
  <2>1. L \in A..A + B
    BY <1>0, <1>a, <1>b, <1>c, WriterShape DEF SentInv, BufferInv, Writer!BatchIsUnacknowledged
  <2>2. EndOf(A) \in Nat
    BY <1>0, <1>c, <2>1, EndTypes
  <2>3. QED
    BY <2>1, <2>2
<1>1. PICK two \in 0..B :
           /\ \A i \in 1..B : buffer[i].start < p + n <=> i <= two
           /\ L <= A + two
           /\ frames' \in Seq(FrameType) /\ Len(frames') = A + two
           /\ \A k \in 1..L : frames'[k] = frames[k]
           /\ \A k \in 1..two :
                /\ frames'[A + k].start = base + buffer[k].start
                /\ frames'[A + k].size = buffer[k].size
           /\ \A k \in 1..A + two : Valid(frames'[k])
           /\ sent' = sent + n /\ closed' = closed
  <2>1. PICK begun \in 0..Len(buffer) :
           /\ \A i \in 1..Len(buffer) : buffer[i].start < progress + n <=> i <= begun
           /\ Len(frames) <= acknowledged + begun
           /\ frames' \in Seq(FrameType) /\ Len(frames') = acknowledged + begun
           /\ wire' \in Seq(Writer!RecordType) /\ Len(wire') = acknowledged + begun
           /\ \A k \in 1..Len(frames) : frames'[k] = frames[k] /\ wire'[k] = wire[k]
           /\ \A k \in 1..begun :
                /\ frames'[acknowledged + k].start = EndOf(acknowledged) + buffer[k].start
                /\ frames'[acknowledged + k].size = buffer[k].size
                /\ wire'[acknowledged + k] = written[acknowledged + k]
           /\ \A k \in 1..acknowledged + begun : Valid(frames'[k])
           /\ sent' = sent + n /\ closed' = closed
    BY AcceptsGrows, Zenon
  <2>2. EndOf(acknowledged) = base
    BY <1>b, <1>f
  <2>3. begun \in 0..B
    BY <1>a
  <2>4. QED
    BY <1>a, <1>b, <1>c, <1>d, <2>1, <2>2, <2>3, Zenon
<1>2. /\ sent = base + p /\ p + n <= bl
      /\ \A k \in 1..B : buffer[k].start < p <=> A + k <= L
  <2>1. p + n <= bl
    <3>1. n <= bl - p
      BY <1>d, <1>e
    <3>2. QED
      BY <3>1
  <2>2. QED
    BY <1>0, <1>a, <1>b, <1>c, <1>d, <1>f, <2>1 DEF SentInv
<1>3. \A i \in 1..B : buffer[i].start \in Nat /\ buffer[i].size \in Nat
  BY <1>0, <1>a, WriterShape
<1>4. /\ B > 0 /\ buffer[1].start = 0 /\ bl = buffer[B].start + buffer[B].size
      /\ \A i \in 1..B - 1 : buffer[i + 1].start = buffer[i].start + buffer[i].size
      /\ \A i \in 1..B : buffer[i].size > 0
  BY <1>0, <1>a, <1>e, BatchEnds DEF WriterInv
<1>5. two \in 1..B
  <2>1. 1 \in 1..B /\ buffer[1].start < p + n
    BY <1>4
  <2>2. QED
    BY <1>1, <2>1
<1>6. A > 0 => base = frames[A].start + frames[A].size /\ A \in 1..L
  BY <1>f DEF EndOf
<1>7. \A k \in 1..L : frames[k] \in FrameType /\ frames[k].start \in Nat /\ frames[k].size \in Nat
  <2>1. \A k \in 1..L : frames[k] \in FrameType
    BY <1>0, <1>c DEF TypeOK
  <2>2. QED
    BY <2>1 DEF FrameType
<1>8. Len(frames') # 0 /\ frames'[1].start = 0
  <2>1. CASE A = 0
    <3>1. base = 0
      BY <1>f, <2>1 DEF EndOf
    <3>2. 1 \in 1..two /\ A + 1 = 1
      BY <1>5, <2>1
    <3>3. QED
      BY <1>1, <1>4, <1>5, <3>1, <3>2
  <2>2. CASE A > 0
    <3>1. 1 \in 1..L /\ Len(frames) > 0
      BY <1>6, <2>2, <1>c
    <3>2. frames[1].start = 0
      BY <1>0, <3>1 DEF SourceInv
    <3>3. QED
      BY <1>1, <1>5, <3>1, <3>2
  <2>3. QED
    BY <2>1, <2>2
<1>9. /\ frames'[A + two].start < sent'
      /\ sent' <= frames'[A + two].start + frames'[A + two].size
  <2>1. /\ frames'[A + two].start = base + buffer[two].start
        /\ frames'[A + two].size = buffer[two].size
    BY <1>1, <1>5
  <2>2. buffer[two].start < p + n /\ buffer[two].start \in Nat /\ buffer[two].size \in Nat
    BY <1>1, <1>3, <1>5
  <2>3. p + n <= buffer[two].start + buffer[two].size
    <3>1. CASE two = B
      BY <1>2, <1>4, <3>1
    <3>2. CASE two < B
      <4>1. two \in 1..B - 1 /\ two + 1 \in 1..B /\ ~ (two + 1 <= two)
        BY <1>5, <3>2
      <4>2. ~ (buffer[two + 1].start < p + n)
        BY <1>1, <4>1
      <4>3. buffer[two + 1].start = buffer[two].start + buffer[two].size
        BY <1>4, <4>1
      <4>4. QED
        BY <2>2, <4>2, <4>3
    <3>3. QED
      BY <1>5, <3>1, <3>2
  <2>4. sent' = base + p + n
    BY <1>1, <1>2
  <2>5. /\ base + buffer[two].start < base + p + n
        /\ base + p + n <= base + buffer[two].start + buffer[two].size
    BY <2>2, <2>3
  <2>6. QED
    BY <2>1, <2>4, <2>5
<1>10. ASSUME NEW k \in 1..A + two - 1
       PROVE  frames'[k + 1].start = frames'[k].start + frames'[k].size
  <2>1. CASE k < A
    <3>1. k \in 1..L /\ k + 1 \in 1..L /\ k \in 1..Len(frames) - 1
      BY <1>c, <1>f, <2>1
    <3>2. frames[k + 1].start = frames[k].start + frames[k].size
      BY <1>0, <3>1 DEF SourceInv
    <3>3. QED
      BY <1>1, <3>1, <3>2
  <2>2. CASE k = A
    <3>1. A > 0 /\ 1 \in 1..two
      BY <1>5, <2>2
    <3>2. frames'[A + 1].start = base
      BY <1>1, <1>4, <3>1
    <3>3. frames'[A] = frames[A]
      BY <1>1, <1>6, <3>1
    <3>4. QED
      BY <1>6, <2>2, <3>1, <3>2, <3>3
  <2>3. CASE k > A
    <3>1. PICK j \in 1..two - 1 : k = A + j
      <4>1. k - A \in 1..two - 1 /\ k = A + (k - A)
        BY <2>3
      <4>2. QED
        BY <4>1
    <3>2. j \in 1..two /\ j + 1 \in 1..two /\ j \in 1..B - 1 /\ k + 1 = A + (j + 1)
      BY <3>1
    <3>3. buffer[j + 1].start = buffer[j].start + buffer[j].size
      BY <1>4, <3>2
    <3>4. /\ frames'[A + j].start = base + buffer[j].start
          /\ frames'[A + j].size = buffer[j].size
          /\ frames'[A + (j + 1)].start = base + buffer[j + 1].start
      BY <1>1, <3>2
    <3>5. buffer[j].start \in Nat /\ buffer[j].size \in Nat
      BY <1>3, <3>2
    <3>6. QED
      BY <3>1, <3>2, <3>3, <3>4, <3>5
  <2>4. QED
    BY <2>1, <2>2, <2>3
<1>11. ASSUME NEW i \in 1..A + two, NEW j \in 1..A + two, i < j
       PROVE  frames'[i].start + frames'[i].size <= frames'[j].start
  <2>1. CASE j <= A
    <3>1. i \in 1..L /\ j \in 1..L
      BY <1>11, <1>f, <2>1
    <3>2. frames[i].start + frames[i].size <= frames[j].start
      BY <1>0, <1>11, <1>c, <3>1 DEF SourceInv
    <3>3. QED
      BY <1>1, <3>1, <3>2
  <2>2. CASE j > A
    <3>1. PICK m \in 1..two : j = A + m
      <4>1. j - A \in 1..two /\ j = A + (j - A)
        BY <2>2
      <4>2. QED
        BY <4>1
    <3>2. frames'[j].start = base + buffer[m].start /\ m \in 1..B /\ buffer[m].start \in Nat
      BY <1>1, <1>3, <3>1
    <3>3. CASE i <= A
      <4>1. A > 0 /\ i \in 1..L /\ A \in 1..L
        BY <1>f, <3>3
      <4>2. frames[i].start + frames[i].size <= base
        <5>1. CASE i = A
          BY <1>6, <1>7, <4>1, <5>1
        <5>2. CASE i < A
          <6>1. frames[i].start + frames[i].size <= frames[A].start
            BY <1>0, <1>c, <4>1, <5>2 DEF SourceInv
          <6>2. QED
            BY <1>6, <1>7, <4>1, <6>1
        <5>3. QED
          BY <3>3, <5>1, <5>2
      <4>3. frames[i].start + frames[i].size <= base + buffer[m].start
        BY <1>7, <3>2, <4>1, <4>2
      <4>4. QED
        BY <1>1, <3>2, <4>1, <4>3
    <3>4. CASE i > A
      <4>1. PICK l \in 1..two : i = A + l
        <5>1. i - A \in 1..two /\ i = A + (i - A)
          BY <3>4
        <5>2. QED
          BY <5>1
      <4>2. l < m /\ l \in 1..B
        BY <1>11, <3>1, <4>1
      <4>3. buffer[l].start + buffer[l].size <= buffer[m].start
        BY <1>0, <1>a, <3>2, <4>2 DEF BufferInv
      <4>4. frames'[i].start = base + buffer[l].start /\ frames'[i].size = buffer[l].size
        BY <1>1, <4>1
      <4>5. QED
        BY <1>3, <3>2, <4>2, <4>3, <4>4
    <3>5. QED
      BY <3>3, <3>4
  <2>3. QED
    BY <2>1, <2>2
<1>12. SourceInv'
  <2>1. Len(frames)' = A + two /\ A + two > 0
    BY <1>1, <1>5
  <2>2. \A k \in 1..A + two : frames'[k].crc_ok => frames'[k].declared = frames'[k].size
    BY <1>1 DEF Valid
  <2>3. EndOf(Len(frames))' = frames'[A + two].start + frames'[A + two].size
    BY <2>1 DEF EndOf
  <2>4. QED
    BY <1>8, <1>9, <1>10, <1>11, <2>1, <2>2, <2>3 DEF SourceInv
<1>13. ASSUME NEW k \in 1..Len(frames'), k > L PROVE frames'[k].start >= sent
  <2>1. PICK j \in 1..two : k = A + j
    <3>1. k - A \in 1..two /\ k = A + (k - A)
      BY <1>1, <1>13, <1>f
    <3>2. QED
      BY <3>1
  <2>2. j \in 1..B /\ ~ (A + j <= L)
    BY <1>13, <2>1
  <2>3. ~ (buffer[j].start < p) /\ buffer[j].start \in Nat
    BY <1>2, <1>3, <2>2
  <2>4. QED
    BY <1>1, <1>2, <2>1, <2>3
<1>14. sent \in Nat /\ closed' \in BOOLEAN /\ sent' \in Nat /\ sent <= sent'
  <2>1. sent \in Nat /\ closed \in BOOLEAN
    BY <1>0 DEF TypeOK
  <2>2. sent' \in Nat /\ sent <= sent'
    BY <1>1, <2>1
  <2>3. QED
    BY <1>1, <2>1, <2>2, Zenon
<1>15. Len(frames) <= Len(frames')
  BY <1>1, <1>c
<1>16. QED
  BY <1>0, <1>1, <1>12, <1>13, <1>14, <1>15, <1>c, SourceGrows

(* Ok(n) from the destination, the one that ends the batch included. *)
LEMMA AcceptedPreserves ==
  ASSUME PipeInv, NEW n \in Nat \ {0}, Writer!OutputAccepted(n), UNCHANGED <<readerVars, ended>>
  PROVE  PipeInv'
<1> USE PipeAssumption, ReaderAssumption DEF Writer!builderVars
<1>0. /\ Writer!TypeOK /\ TypeOK /\ WriterInv /\ BufferInv /\ SentInv /\ EndedInv
      /\ Len(wire) = Len(frames)
  BY DEF PipeInv, PipeTypeOK
<1>1. /\ phase = "output" /\ n <= Writer!BatchLen - progress /\ Writer!Accepts(n)
      /\ UNCHANGED <<written, payload_len, error, offered, calls, ended>>
      /\ UNCHANGED readerVars
  BY DEF Writer!OutputAccepted
<1>2. IInv'
  BY <1>1, AcceptedSource
<1>3. EndedInv'
  BY <1>0, <1>1 DEF EndedInv, readerVars
<1>a. PICK B \in Nat : B = Len(buffer)
  BY <1>0, WriterShape
<1>b. PICK A \in Nat : A = acknowledged
  BY <1>0, WriterShape
<1>c. PICK L \in Nat : L = Len(frames)
  BY <1>0 DEF TypeOK
<1>d. PICK p \in Nat : p = progress
  BY <1>0, WriterShape
<1>e. PICK bl \in Nat : bl = Writer!BatchLen
  BY <1>0, WriterShape
<1>w. PICK W \in Nat : W = Len(written)
  BY <1>0, WriterShape
<1>f. PICK base \in Nat : base = EndOf(A) /\ L \in A..A + B /\ W = A + B
  <2>1. W = A + B
    BY <1>0, <1>a, <1>b, <1>w DEF BufferInv, Writer!BatchIsUnacknowledged
  <2>2. L \in A..A + B
    BY <1>0, <1>b, <1>c, <1>w, <2>1 DEF SentInv
  <2>3. EndOf(A) \in Nat
    BY <1>0, <1>c, <2>2, EndTypes
  <2>4. QED
    BY <2>1, <2>2, <2>3
<1>4. PICK two \in 0..B :
           /\ \A i \in 1..B : buffer[i].start < p + n <=> i <= two
           /\ L <= A + two
           /\ frames' \in Seq(FrameType) /\ Len(frames') = A + two
           /\ wire' \in Seq(Writer!RecordType) /\ Len(wire') = A + two
           /\ \A k \in 1..L : frames'[k] = frames[k] /\ wire'[k] = wire[k]
           /\ \A k \in 1..two :
                /\ frames'[A + k].start = base + buffer[k].start
                /\ frames'[A + k].size = buffer[k].size
                /\ wire'[A + k] = written[A + k]
           /\ \A k \in 1..A + two : Valid(frames'[k])
           /\ sent' = sent + n /\ closed' = closed
  <2>1. PICK begun \in 0..Len(buffer) :
           /\ \A i \in 1..Len(buffer) : buffer[i].start < progress + n <=> i <= begun
           /\ Len(frames) <= acknowledged + begun
           /\ frames' \in Seq(FrameType) /\ Len(frames') = acknowledged + begun
           /\ wire' \in Seq(Writer!RecordType) /\ Len(wire') = acknowledged + begun
           /\ \A k \in 1..Len(frames) : frames'[k] = frames[k] /\ wire'[k] = wire[k]
           /\ \A k \in 1..begun :
                /\ frames'[acknowledged + k].start = EndOf(acknowledged) + buffer[k].start
                /\ frames'[acknowledged + k].size = buffer[k].size
                /\ wire'[acknowledged + k] = written[acknowledged + k]
           /\ \A k \in 1..acknowledged + begun : Valid(frames'[k])
           /\ sent' = sent + n /\ closed' = closed
    BY <1>1, AcceptsGrows, Zenon
  <2>2. EndOf(acknowledged) = base
    BY <1>b, <1>f
  <2>3. begun \in 0..B
    BY <1>a
  <2>4. QED
    BY <1>a, <1>b, <1>c, <1>d, <2>1, <2>2, <2>3, Zenon
<1>5. /\ sent = base + p /\ \A k \in 1..L : wire[k] = written[k]
  BY <1>0, <1>b, <1>c, <1>d, <1>f DEF SentInv
<1>6. ~ usable /\ closed = FALSE /\ B > 0 /\ buffer # <<>> /\ p < bl
  BY <1>0, <1>1, <1>a, <1>d, <1>e, BatchEnds DEF WriterInv, TypeOK
<1>7. ASSUME NEW k \in 1..A + two PROVE wire'[k] = written[k] /\ Valid(frames[k])'
  <2>1. Valid(frames[k])'
    BY <1>4 DEF Valid
  <2>2. CASE k <= L
    BY <1>4, <1>5, <2>1, <2>2
  <2>3. CASE k > L
    <3>1. PICK j \in 1..two : k = A + j
      <4>1. k - A \in 1..two /\ k = A + (k - A)
        BY <1>f, <2>3
      <4>2. QED
        BY <4>1
    <3>2. QED
      BY <1>4, <2>1, <3>1
  <2>4. QED
    BY <2>2, <2>3
<1>8. EndOf(A)' = base
  <2>1. CASE A = 0
    BY <1>f, <2>1 DEF EndOf
  <2>2. CASE A > 0
    <3>1. A \in 1..L
      BY <1>f, <2>2
    <3>2. QED
      BY <1>4, <1>f, <2>2, <3>1 DEF EndOf
  <2>3. QED
    BY <2>1, <2>2
<1>9. CASE /\ progress + n < Writer!BatchLen /\ progress' = progress + n
           /\ UNCHANGED <<buffer, usable, acknowledged, phase, outcome>>
  <2>1. BufferInv' /\ Writer!BatchLen' = Writer!BatchLen
    BY <1>0, <1>1, <1>9 DEF BufferInv, Writer!BatchIsUnacknowledged, Writer!BatchLen
  <2>2. progress' = p + n /\ p + n < bl /\ acknowledged' = A
    BY <1>9, <1>b, <1>d, <1>e
  <2>3. SentInv'
    <3>1. Len(frames') \in A..Len(written')
      BY <1>1, <1>4, <1>f, <1>w
    <3>2. sent' = base + progress'
      BY <1>4, <1>5, <2>2
    <3>3. EndOf(acknowledged)' = base
      BY <1>8, <2>2 DEF EndOf
    <3>4. Len(buffer') = B /\ buffer' = buffer
      BY <1>9, <1>a
    <3>5. ASSUME NEW k \in 1..B
          PROVE  /\ buffer[k].start < progress' <=> A + k <= Len(frames')
                 /\ A + k <= Len(frames') =>
                      /\ frames'[A + k].start = base + buffer[k].start
                      /\ frames'[A + k].size = buffer[k].size
      <4>1. A + k <= Len(frames') <=> k <= two
        BY <1>4
      <4>2. buffer[k].start < progress' <=> k <= two
        BY <1>4, <2>2
      <4>3. k <= two => k \in 1..two
        OBVIOUS
      <4>4. QED
        BY <1>4, <4>1, <4>2, <4>3
    <3>6. \A k \in 1..Len(frames') : wire'[k] = written'[k] /\ Valid(frames[k])'
      BY <1>1, <1>4, <1>7
    <3>7. QED
      BY <2>2, <3>1, <3>2, <3>3, <3>4, <3>5, <3>6 DEF SentInv
  <2>4. WriterInv'
    BY <1>0, <1>1, <1>4, <1>6, <1>9, <2>1 DEF WriterInv
  <2>5. Writer!TypeOK'
    <3>1. progress' \in 0..Writer!BatchLen'
      BY <1>e, <2>1, <2>2
    <3>2. QED
      BY <1>0, <1>1, <1>4, <1>9, <3>1 DEF Writer!TypeOK
  <2>6. SizeErrorSurfaces'
    BY <1>1, <1>9 DEF SizeErrorSurfaces, Writer!SizeErrorSurfaces
  <2>7. QED
    BY <1>2, <1>3, <1>4, <2>1, <2>3, <2>4, <2>5, <2>6 DEF PipeInv, PipeTypeOK, IInv
<1>10. CASE /\ progress + n = Writer!BatchLen
            /\ buffer' = <<>> /\ progress' = 0 /\ usable' = TRUE
            /\ acknowledged' = Len(written) /\ phase' = "idle" /\ outcome' = "Ok"
  <2>1. two = B
    <3>1. B \in 1..B /\ buffer[B].start < bl
      BY <1>0, <1>6, <1>a, <1>e, BatchEnds
    <3>2. p + n = bl
      BY <1>10, <1>d, <1>e
    <3>3. QED
      BY <1>4, <3>1, <3>2
  <2>2. acknowledged' = W /\ Len(frames') = W /\ Len(buffer') = 0 /\ written' = written
    BY <1>1, <1>4, <1>10, <1>f, <1>w, <2>1
  <2>3. BufferInv'
    BY <1>w, <2>2 DEF BufferInv, Writer!BatchIsUnacknowledged
  <2>4. EndOf(acknowledged)' = sent'
    <3>1. EndOf(acknowledged)' = frames'[A + B].start + frames'[A + B].size
      BY <1>6, <1>f, <2>2 DEF EndOf
    <3>2. /\ frames'[A + B].start = base + buffer[B].start
          /\ frames'[A + B].size = buffer[B].size
      BY <1>4, <1>6, <2>1
    <3>3. bl = buffer[B].start + buffer[B].size /\ buffer[B].start \in Nat /\ buffer[B].size \in Nat
      <4>1. bl = buffer[B].start + buffer[B].size
        BY <1>0, <1>6, <1>a, <1>e, BatchEnds
      <4>2. B \in 1..Len(buffer)
        BY <1>6, <1>a
      <4>3. QED
        BY <1>0, <4>1, <4>2, WriterShape
    <3>4. p + n = bl
      BY <1>10, <1>d, <1>e
    <3>5. sent' = base + bl
      BY <1>4, <1>5, <3>4
    <3>6. QED
      BY <3>1, <3>2, <3>3, <3>5
  <2>5. SentInv'
    <3>1. Len(frames') \in acknowledged'..Len(written')
      BY <1>w, <2>2
    <3>2. sent' = EndOf(acknowledged)' + progress'
      <4>1. sent' \in Nat
        BY <1>4, <1>5
      <4>2. PICK x \in Nat : x = sent'
        BY <4>1
      <4>3. EndOf(acknowledged)' = x
        BY <2>4, <4>2, Zenon
      <4>4. progress' = 0 /\ x = x + 0
        BY <1>10
      <4>5. QED
        BY <4>2, <4>3, <4>4, Zenon
    <3>3. \A k \in 1..Len(frames') : wire'[k] = written'[k] /\ Valid(frames[k])'
      BY <1>1, <1>4, <1>7
    <3>4. QED
      BY <2>2, <3>1, <3>2, <3>3 DEF SentInv
  <2>6. WriterInv'
    BY <1>4, <1>6, <1>10 DEF WriterInv
  <2>7. Writer!TypeOK'
    <3>1. Writer!BatchLen' = 0
      BY <1>10 DEF Writer!BatchLen
    <3>2. progress' \in 0..Writer!BatchLen'
      BY <1>10, <3>1
    <3>3. acknowledged' \in 0..Len(written')
      BY <1>w, <2>2
    <3>4. buffer' \in Seq([id: 1..MaxCalls, payload: 0..MaxPayloadLen, start: Nat, size: Nat])
      BY <1>10
    <3>5. QED
      BY <1>0, <1>1, <1>4, <1>10, <3>2, <3>3, <3>4 DEF Writer!TypeOK, Writer!Outcomes
  <2>8. SizeErrorSurfaces'
    BY <1>10 DEF SizeErrorSurfaces, Writer!SizeErrorSurfaces
  <2>9. QED
    BY <1>2, <1>3, <1>4, <2>3, <2>5, <2>6, <2>7, <2>8 DEF PipeInv, PipeTypeOK, IInv
<1>11. QED
  BY <1>9, <1>10 DEF Writer!OutputAccepted, Writer!Return

-----------------------------------------------------------------------------
(* What a step of the receiving task can make of the reader's state: no    *)
(* frame of this writer is ever taken for a corrupt one.                   *)
LEMMA ReaderOutcome ==
  ASSUME PipeInv, ReaderSteps
  PROVE  \/ state' = state /\ ended' = ended
         \/ /\ state = "Active" /\ at = "read" /\ delivered' = delivered
            /\ closed /\ received = sent
            /\ \/ BufferLen = 0 /\ state' = "Finished" /\ ended' = "false"
               \/ /\ BufferLen > 0 /\ state' = "Failed"
                  /\ ended' \in {"TruncatedHeader", "TruncatedRecord"}
         \/ /\ state = "Active" /\ state' = "Failed" /\ ended' = "Io"
            /\ delivered' = delivered
<1>0. /\ IInv /\ TypeOK /\ SentInv /\ Ended
  BY DEF PipeInv, IInv, ReaderSteps
<1>1. state' = state => ended' = ended
  BY <1>0 DEF Ended
<1>2. CASE WaitToRead \/ TryReadNext \/ AcceptFrame \/ Interrupted \/ Cancel
           \/ (\E n \in 1..MaxBytes : Receive(n))
  <2>1. state' = state
    BY <1>2 DEF WaitToRead, TryReadNext, AcceptFrame, Interrupted, Cancel, Receive
  <2>2. QED
    BY <1>1, <2>1
<1>3. CASE StopAtPartialHeader \/ StopAtPartialRecord
  <2>1. state' = state
    BY <1>3 DEF StopAtPartialHeader, StopAtPartialRecord, StopScan, PublishBatch
  <2>2. QED
    BY <1>1, <2>1
<1>4. ~ StopAtInvalidHeader /\ ~ StopAtCrcMismatch
  <2>1. SUFFICES ASSUME StopAtInvalidHeader \/ StopAtCrcMismatch PROVE FALSE
    OBVIOUS
  <2>2. at = "scan" /\ ~ HeaderMissing
    BY <2>1 DEF StopAtInvalidHeader, StopAtCrcMismatch
  <2>3. PICK j \in Len(delivered)..Len(frames) :
          /\ j + 1 \in 1..Len(frames) /\ HeaderAt(ScanAt) = frames[j + 1]
          /\ HeaderError # "none" => ~ Valid(frames[j + 1])
    BY <1>0, <2>2, ScanFinds
  <2>4. Valid(frames[j + 1])
    BY <1>0, <2>3 DEF SentInv
  <2>5. QED
    BY <2>1, <2>3, <2>4 DEF StopAtInvalidHeader, StopAtCrcMismatch, Valid
<1>5. CASE ReceiveNothing
  <2>1. at = "read" /\ state = "Active" /\ delivered' = delivered
    BY <1>0, <1>5 DEF ReceiveNothing, IInv, ScanInv
  <2>2. closed /\ received = sent
    <3>1. capacity > BufferLen /\ capacity \in Int /\ BufferLen \in Int
      BY <1>0, <2>1 DEF IInv, CapacityInv, TypeOK, BufferLen
    <3>2. QED
      BY <1>5, <3>1 DEF ReceiveNothing
  <2>3. state' # "Active" => ended' = result'
    BY <1>0, <2>1 DEF Ended
  <2>4. QED
    BY <1>5, <2>1, <2>2, <2>3 DEF ReceiveNothing, Fail, Return
<1>6. CASE ReceiveFails
  <2>1. at = "read" /\ state = "Active" /\ delivered' = delivered /\ state' = "Failed" /\ result' = "Io"
    BY <1>0, <1>6 DEF ReceiveFails, IInv, ScanInv, Fail, Return
  <2>2. QED
    BY <1>0, <2>1 DEF Ended
<1>7. QED
  BY <1>2, <1>3, <1>4, <1>5, <1>6 DEF ReaderSteps

LEMMA ReaderPreserves ==
  ASSUME PipeInv, ReaderSteps
  PROVE  PipeInv'
<1>0. /\ IInv /\ Writer!TypeOK /\ SizeErrorSurfaces /\ WriterInv /\ BufferInv /\ SentInv /\ EndedInv
      /\ TypeOK /\ Len(wire) = Len(frames)
  BY DEF PipeInv, PipeTypeOK
<1>1. UNCHANGED <<frames, sent, closed, buffer, usable, phase, payload_len, error, progress,
                  outcome, offered, calls, written, acknowledged, wire>>
  BY DEF ReaderSteps, sourceVars, writerVars
<1>2. IInv'
  <2>1. CASE AcceptFrame
    BY <1>0, <2>1, AcceptPreserves
  <2>2. CASE StopAtPartialHeader \/ StopAtInvalidHeader \/ StopAtPartialRecord \/ StopAtCrcMismatch
    BY <1>0, <2>2, ScanPreserves
  <2>3. CASE TryReadNext
    BY <1>0, <2>3, TryReadPreserves
  <2>4. CASE WaitToRead \/ (\E n \in 1..MaxBytes : Receive(n)) \/ ReceiveNothing
             \/ Interrupted \/ ReceiveFails \/ Cancel
    BY <1>0, <2>4, OtherPreserves
  <2>5. QED
    BY <2>1, <2>2, <2>3, <2>4 DEF ReaderSteps
<1>3. Writer!TypeOK'
  BY <1>0, <1>1, ZenonT(30) DEF Writer!TypeOK, Writer!BatchLen
<1>4. SizeErrorSurfaces' /\ WriterInv'
  BY <1>0, <1>1, ZenonT(30)
     DEF SizeErrorSurfaces, Writer!SizeErrorSurfaces, WriterInv, Writer!BatchLen
<1>5. BufferInv'
  BY <1>0, <1>1 DEF BufferInv, Writer!BatchIsUnacknowledged
<1>6. SentInv'
  BY <1>0, <1>1 DEF SentInv, EndOf, Valid
<1>7. EndedInv'
  BY <1>0, ReaderOutcome DEF EndedInv, TypeOK
<1>8. QED
  BY <1>0, <1>1, <1>2, <1>3, <1>4, <1>5, <1>6, <1>7 DEF PipeInv, PipeTypeOK, IInv

LEMMA WriterPreserves ==
  ASSUME PipeInv, WriterSteps
  PROVE  PipeInv'
<1> USE PipeAssumption, ReaderAssumption
<1>1. UNCHANGED <<readerVars, ended>> /\ Writer!Next
  BY DEF WriterSteps
<1>2. CASE Writer!Write \/ (\E c \in Chunks : Writer!BodyWrite(c))
  BY <1>1, <1>2, WritePreserves
<1>3. CASE \/ Writer!CallbackErr \/ Writer!CallbackPanics
           \/ Writer!FlushBuffer \/ Writer!OutputInterrupted \/ Writer!OutputFails
           \/ Writer!Flush \/ Writer!Flushed \/ Writer!IntoInner
  BY <1>1, <1>3, CallPreserves
<1>4. CASE Writer!CallbackOk
  BY <1>1, <1>4, CallPreserves, PublishPreserves
<1>5. CASE \E n \in 1..Writer!BatchBound : Writer!OutputAccepted(n)
  <2>1. PICK n \in 1..Writer!BatchBound : Writer!OutputAccepted(n)
    BY <1>5
  <2>2. n \in Nat \ {0}
    OBVIOUS
  <2>3. QED
    BY <1>1, <2>1, <2>2, AcceptedPreserves
<1>6. QED
  BY <1>1, <1>2, <1>3, <1>4, <1>5 DEF Writer!Next

-----------------------------------------------------------------------------
(* The inductive invariant of the pair holds of every behaviour: the bytes *)
(* on the stream are the acknowledged records and a prefix of the batch.   *)
THEOREM PipeInvariant == PipeSpec => []PipeInv
<1> USE PipeAssumption, ReaderAssumption
<1>1. PipeInit => PipeInv
  <2> SUFFICES ASSUME PipeInit PROVE PipeInv
    OBVIOUS
  <2>1. Init /\ Writer!Init /\ ended = "open"
    BY DEF PipeInit
  <2>2. IInv
    BY <2>1, InitReader
  <2>3. /\ Len(buffer) = 0 /\ Len(written) = 0 /\ Len(wire) = 0 /\ Len(frames) = 0
        /\ acknowledged = 0 /\ progress = 0 /\ sent = 0 /\ EndOf(0) = 0 /\ Writer!BatchLen = 0
    BY <2>1 DEF Writer!Init, EndOf, Writer!BatchLen
  <2>4. Writer!TypeOK
    <3>1. /\ buffer \in Seq([id: 1..MaxCalls, payload: 0..MaxPayloadLen, start: Nat, size: Nat])
          /\ written \in Seq(Writer!RecordType) /\ wire \in Seq(Writer!RecordType)
      BY <2>1 DEF Writer!Init
    <3>2. /\ payload_len \in 0..MaxPayloadLen /\ progress \in 0..Writer!BatchLen
          /\ offered \in 0..MaxOffered /\ calls \in 0..MaxCalls
          /\ acknowledged \in 0..Len(written)
      BY <2>1, <2>3 DEF Writer!Init
    <3>3. /\ usable \in BOOLEAN /\ error \in BOOLEAN /\ outcome \in Writer!Outcomes
          /\ phase \in {"idle", "body", "output", "flush", "dropped"}
      BY <2>1 DEF Writer!Init, Writer!Outcomes
    <3>4. QED
      BY <3>1, <3>2, <3>3 DEF Writer!TypeOK
  <2>5. WriterInv /\ SizeErrorSurfaces
    BY <2>1 DEF WriterInv, SizeErrorSurfaces, Writer!SizeErrorSurfaces, Writer!Init
  <2>6. BufferInv
    BY <2>3 DEF BufferInv, Writer!BatchIsUnacknowledged
  <2>7. SentInv
    BY <2>3 DEF SentInv
  <2>8. EndedInv
    BY <2>1 DEF EndedInv, Init
  <2>9. QED
    BY <2>2, <2>3, <2>4, <2>5, <2>6, <2>7, <2>8 DEF PipeInv, PipeTypeOK, IInv
<1>2. PipeInv /\ [PipeNext]_pipeVars => PipeInv'
  <2> SUFFICES ASSUME PipeInv, [PipeNext]_pipeVars PROVE PipeInv'
    OBVIOUS
  <2>1. CASE WriterSteps
    BY <2>1, WriterPreserves
  <2>2. CASE ReaderSteps
    BY <2>2, ReaderPreserves
  <2>3. CASE UNCHANGED pipeVars
    <3>1. /\ UNCHANGED <<frames, sent, closed, buffer, usable, phase, payload_len, error, progress,
                         outcome, offered, calls, written, acknowledged, wire, ended>>
          /\ UNCHANGED readerVars
      BY <2>3 DEF pipeVars, vars, sourceVars, writerVars
    <3>2. closed' \in BOOLEAN
      BY <3>1 DEF PipeInv, PipeTypeOK, TypeOK
    <3>3. IInv' /\ BufferInv' /\ SentInv' /\ EndedInv' /\ Len(wire') = Len(frames')
      BY <3>1, <3>2, QuietPreserves
    <3>4. Writer!TypeOK'
      BY <3>1, ZenonT(30) DEF PipeInv, PipeTypeOK, Writer!TypeOK, Writer!BatchLen
    <3>5. SizeErrorSurfaces' /\ WriterInv'
      BY <3>1, ZenonT(30)
         DEF PipeInv, SizeErrorSurfaces, Writer!SizeErrorSurfaces, WriterInv, Writer!BatchLen
    <3>6. QED
      BY <3>3, <3>4, <3>5 DEF PipeInv, PipeTypeOK, IInv
  <2>4. QED
    BY <2>1, <2>2, <2>3 DEF PipeNext
<1>3. QED
  BY <1>1, <1>2, PTL DEF PipeSpec

(* The types of both ends, and a record on the wire for every frame.       *)
THEOREM PipeTypeCorrect == PipeSpec => []PipeTypeOK
<1>1. PipeInv => PipeTypeOK
  BY DEF PipeInv
<1>2. QED
  BY <1>1, PipeInvariant, PTL

(* write() never reports success, nor an error of the callback's own, for  *)
(* a record of which RecordBuilder refused a byte, whatever the callback   *)
(* did with the error it was given.                                        *)
THEOREM NoSilentTruncation == PipeSpec => []SizeErrorSurfaces
<1>1. PipeInv => SizeErrorSurfaces
  BY DEF PipeInv
<1>2. QED
  BY <1>1, PipeInvariant, PTL

(* The batch is always exactly the records written and not acknowledged,   *)
(* whole and end to end, through rollbacks, failed and partial flushes.    *)
THEOREM BatchHoldsTheRest == PipeSpec => []BatchIsUnacknowledged
<1>1. PipeInv => BatchIsUnacknowledged
  BY DEF PipeInv, BufferInv, BatchIsUnacknowledged
<1>2. QED
  BY <1>1, PipeInvariant, PTL

-----------------------------------------------------------------------------
(* The channel's view of the pair, by the names of the channel's state. *)
Got == [n \in 1..Len(delivered) |-> Decoded(delivered[n])]
Broken == ~usable /\ phase \notin {"output", "flush"}
ReaderSays == CASE ended = "open" -> "open"
                [] ended = "false" -> "finished"
                [] ended \in {"TruncatedHeader", "TruncatedRecord"} -> "truncated"
                [] ended = "Io" -> "failed"
                [] OTHER -> "corrupt"

(* What was handed out decodes to the first records written. *)
Handed == /\ Len(delivered) \in Nat /\ Len(frames) \in Nat /\ Len(written) \in Nat
          /\ acknowledged \in Nat
          /\ Len(delivered) <= Len(frames) /\ Len(frames) \in acknowledged..Len(written)
          /\ Got \in Seq(Writer!RecordType) /\ Len(Got) = Len(delivered)
          /\ \A n \in 1..Len(delivered) : Got[n] = written[n]

LEMMA HandedOut == PipeInv => Handed
<1> SUFFICES ASSUME PipeInv PROVE Handed
  OBVIOUS
<1>0. /\ TypeOK /\ Writer!TypeOK /\ SourceInv /\ DeliveredInv /\ SentInv
  BY DEF PipeInv, PipeTypeOK, IInv
<1>1. PICK D \in Nat : D = Len(delivered)
  BY <1>0 DEF TypeOK
<1>2. PICK L \in Nat : L = Len(frames)
  BY <1>0 DEF TypeOK
<1>3. PICK W \in Nat : W = Len(written)
  BY <1>0, WriterShape
<1>4. /\ D <= L /\ L \in acknowledged..W /\ acknowledged \in Nat
      /\ written \in Seq(Writer!RecordType)
  BY <1>0, <1>1, <1>2, <1>3, WriterShape DEF DeliveredInv, SentInv
<1>5. ASSUME NEW n \in 1..D PROVE Decoded(delivered[n]) = written[n]
  <2>1. n \in 1..L /\ delivered[n] = <<frames[n].start, frames[n].start + frames[n].size>>
    BY <1>0, <1>1, <1>4 DEF DeliveredInv
  <2>2. ASSUME NEW m \in 1..L, delivered[n] = <<frames[m].start, frames[m].start + frames[m].size>>
        PROVE  m = n
    <3>1. frames[m].start = frames[n].start
      BY <2>1, <2>2
    <3>2. /\ frames[m].start \in Nat /\ frames[n].start \in Nat
          /\ frames[m].size \in Nat \ {0} /\ frames[n].size \in Nat \ {0}
      <4>1. frames[m] \in FrameType /\ frames[n] \in FrameType
        BY <1>0, <1>2, <2>1 DEF TypeOK
      <4>2. QED
        BY <4>1 DEF FrameType
    <3>3. ~ (m < n)
      <4>1. m < n => frames[m].start + frames[m].size <= frames[n].start
        BY <1>0, <1>2, <2>1 DEF SourceInv
      <4>2. QED
        BY <3>1, <3>2, <4>1
    <3>4. ~ (n < m)
      <4>1. n < m => frames[n].start + frames[n].size <= frames[m].start
        BY <1>0, <1>2, <2>1 DEF SourceInv
      <4>2. QED
        BY <3>1, <3>2, <4>1
    <3>5. QED
      BY <2>1, <3>3, <3>4
  <2>3. {m \in 1..Len(frames) :
           delivered[n] = <<frames[m].start, frames[m].start + frames[m].size>>} = {n}
    BY <1>2, <2>1, <2>2
  <2>4. Decoded(delivered[n]) = wire[CHOOSE m \in {n} : TRUE]
    BY <2>3, Zenon DEF Decoded
  <2>5. (CHOOSE m \in {n} : TRUE) = n
    OBVIOUS
  <2>6. wire[n] = written[n]
    BY <1>0, <1>2, <2>1 DEF SentInv
  <2>7. QED
    BY <2>4, <2>5, <2>6
<1>6. \A n \in 1..D : n \in 1..W /\ written[n] \in Writer!RecordType
  <2> TAKE n \in 1..D
  <2>1. n \in 1..W
    BY <1>4
  <2>2. QED
    BY <1>3, <1>4, <2>1
<1>7. Got = [n \in 1..D |-> Decoded(delivered[n])]
  BY <1>1 DEF Got
<1>8. Got \in Seq(Writer!RecordType) /\ Len(Got) = D
  <2>1. Got \in [1..D -> Writer!RecordType]
    BY <1>5, <1>6, <1>7
  <2>2. QED
    BY <2>1
<1>9. \A n \in 1..D : Got[n] = written[n]
  BY <1>5, <1>7
<1>10. QED
  BY <1>1, <1>2, <1>3, <1>4, <1>8, <1>9 DEF Handed

(* The same of the state after a step. *)
LEMMA HandedOutNext == PipeInv' => Handed'
BY HandedOut, PTL

(* While nothing is handed out, the channel's output stays. *)
LEMMA GotStays ==
  ASSUME PipeInv, PipeInv', delivered' = delivered,
         \A k \in 1..Len(written) : written'[k] = written[k]
  PROVE  Got' = Got
<1>0. PICK T : T = Writer!RecordType
  OBVIOUS
<1>1. PICK g \in Seq(T) : /\ g = Got /\ Len(g) = Len(delivered)
                          /\ \A n \in 1..Len(delivered) : g[n] = written[n]
  BY <1>0, HandedOut DEF Handed
<1>2. PICK h \in Seq(T) : /\ h = Got' /\ Len(h) = Len(delivered)
                          /\ \A n \in 1..Len(delivered) : h[n] = written'[n]
  <2>1. /\ Got' \in Seq(Writer!RecordType) /\ Len(Got') = Len(delivered')
        /\ \A n \in 1..Len(delivered') : Got'[n] = written'[n]
    BY HandedOutNext DEF Handed
  <2>2. QED
    BY <1>0, <2>1
<1>3. \A n \in 1..Len(delivered) : n \in 1..Len(written)
  <2>1. /\ Len(delivered) \in Nat /\ Len(frames) \in Nat /\ Len(written) \in Nat
        /\ acknowledged \in Nat
        /\ Len(delivered) <= Len(frames) /\ Len(frames) \in acknowledged..Len(written)
    BY HandedOut DEF Handed
  <2>2. QED
    BY <2>1
<1>4. \A n \in 1..Len(g) : g[n] = h[n]
  BY <1>1, <1>2, <1>3
<1>5. g = h
  BY <1>1, <1>2, <1>4, SeqEqual
<1>6. QED
  BY <1>1, <1>2, <1>5

LEMMA ReaderSaid ==
  /\ ended = "open" => ReaderSays = "open"
  /\ ended = "false" => ReaderSays = "finished"
  /\ ended \in {"TruncatedHeader", "TruncatedRecord"} => ReaderSays = "truncated"
  /\ ended = "Io" => ReaderSays = "failed"
BY DEF ReaderSays

LEMMA ReaderSaidNext ==
  /\ ended' = "open" => ReaderSays' = "open"
  /\ ended' = "false" => ReaderSays' = "finished"
  /\ ended' \in {"TruncatedHeader", "TruncatedRecord"} => ReaderSays' = "truncated"
  /\ ended' = "Io" => ReaderSays' = "failed"
BY DEF ReaderSays

(* Every step of the sending task is a step of the channel, or none. *)
LEMMA WriterSimulates ==
  ASSUME PipeInv, PipeInv', WriterSteps
  PROVE  [Channel!Next]_(Channel!vars)
<1> USE DEF Writer!batchVars, Writer!builderVars, Writer!destinationVars
<1>0. /\ WriterInv /\ UNCHANGED <<ended, delivered>> /\ closed \in BOOLEAN /\ usable \in BOOLEAN
      /\ written \in Seq(Writer!RecordType) /\ phase \in {"idle", "body", "output", "flush", "dropped"}
  BY WriterShape DEF PipeInv, PipeTypeOK, TypeOK, WriterSteps, readerVars
<1>1. ReaderSays' = ReaderSays
  BY <1>0 DEF ReaderSays
<1>2. written' = written => Got' = Got
  BY <1>0, GotStays
<1>3. ASSUME UNCHANGED <<written, acknowledged, closed>>, Broken' = Broken
      PROVE  UNCHANGED Channel!vars
  BY <1>1, <1>2, <1>3, Zenon DEF Channel!vars, Got, Broken, ReaderSays
<1>4. CASE Writer!Write \/ (\E c \in Chunks : Writer!BodyWrite(c))
  <2>1. UNCHANGED <<written, acknowledged, closed>> /\ Broken' = Broken
    BY <1>0, <1>4 DEF Writer!Write, Writer!BodyWrite, Writer!Return, Broken, WriterInv
  <2>2. QED
    BY <1>3, <2>1
<1>5. CASE Writer!CallbackErr \/ Writer!CallbackPanics \/ (Writer!CallbackOk /\ error)
  <2>1. /\ UNCHANGED <<written, acknowledged, closed, usable>>
        /\ phase = "body" /\ phase' = "idle"
    BY <1>5 DEF Writer!CallbackErr, Writer!CallbackPanics, Writer!CallbackOk,
                Writer!Rollback, Writer!Return
  <2>2. Broken' = Broken
    BY <2>1 DEF Broken
  <2>3. QED
    BY <1>3, <2>1, <2>2
<1>6. CASE \/ Writer!FlushBuffer \/ Writer!OutputInterrupted \/ Writer!Flush \/ Writer!Flushed
  <2>1. UNCHANGED <<written, acknowledged, closed>>
    BY <1>6 DEF Writer!FlushBuffer, Writer!OutputInterrupted, Writer!Flush, Writer!Flushed,
                Writer!writerVars
  <2>2. Broken' = Broken
    BY <1>0, <1>6 DEF Writer!FlushBuffer, Writer!OutputInterrupted, Writer!Flush, Writer!Flushed,
                Writer!writerVars, Writer!Return, Broken, WriterInv
  <2>3. QED
    BY <1>3, <2>1, <2>2
<1>7. CASE Writer!CallbackOk /\ ~ error
  <2>1. PICK w : w = [id |-> calls, payload |-> payload_len]
    OBVIOUS
  <2>2. /\ phase = "body" /\ usable /\ ~ closed /\ written' = Append(written, w)
        /\ UNCHANGED <<acknowledged, closed, usable>> /\ phase' = "idle"
    BY <1>0, <1>7, <2>1 DEF Writer!CallbackOk, Writer!Publish, Writer!Return, WriterInv
  <2>3. ~ Broken /\ ~ Broken'
    BY <2>2 DEF Broken
  <2>4. w \in Writer!RecordType
    <3>1. calls \in 1..MaxCalls /\ payload_len \in 0..MaxPayloadLen
      <4>1. calls \in 0..MaxCalls /\ payload_len \in 0..MaxPayloadLen
        BY WriterShape DEF PipeInv, PipeTypeOK
      <4>2. calls > 0
        BY <1>0, <2>2 DEF WriterInv
      <4>3. QED
        BY <4>1, <4>2, PipeAssumption
    <3>2. QED
      BY <2>1, <3>1 DEF Writer!RecordType
  <2>5. \A k \in 1..Len(written) : written'[k] = written[k]
    BY <1>0, <2>2, <2>4
  <2>6. Got' = Got
    BY <1>0, <2>5, GotStays
  <2>7. Broken' = Broken
    BY <2>3 DEF Broken
  <2>8. Channel!Write(w)
    BY <1>1, <2>2, <2>3, <2>6, <2>7, Zenon DEF Channel!Write, Got, Broken, ReaderSays
  <2>9. QED
    BY <2>4, <2>8 DEF Channel!Next
<1>8. CASE \E n \in 1..Writer!BatchBound : Writer!OutputAccepted(n)
  <2>1. PICK n \in 1..Writer!BatchBound : Writer!OutputAccepted(n)
    BY <1>8
  <2>2. /\ phase = "output" /\ ~ usable /\ ~ closed /\ closed' = closed /\ written' = written
    BY <1>0, <2>1 DEF Writer!OutputAccepted, Writer!Accepts, WriterInv
  <2>3. CASE UNCHANGED <<usable, acknowledged, phase>>
    <3>1. Broken' = Broken
      BY <2>3 DEF Broken
    <3>2. QED
      BY <1>3, <2>2, <2>3, <3>1
  <2>4. CASE usable' = TRUE /\ acknowledged' = Len(written)
    <3>1. ~ Broken /\ ~ Broken' /\ Broken' = Broken
      BY <2>2, <2>4 DEF Broken
    <3>2. Channel!Acknowledge
      BY <1>1, <1>2, <2>2, <2>4, <3>1, Zenon DEF Channel!Acknowledge, Got, Broken, ReaderSays
    <3>3. QED
      BY <3>2 DEF Channel!Next
  <2>5. QED
    BY <2>1, <2>3, <2>4 DEF Writer!OutputAccepted
<1>9. CASE Writer!OutputFails
  <2>1. /\ ~ usable /\ ~ closed /\ phase' = "idle" /\ UNCHANGED <<written, acknowledged, closed, usable>>
    BY <1>0, <1>9 DEF Writer!OutputFails, Writer!Return, WriterInv
  <2>2. Broken' = TRUE
    BY <2>1 DEF Broken
  <2>3. Channel!Break
    BY <1>1, <1>2, <2>1, <2>2, Zenon DEF Channel!Break, Got, Broken, ReaderSays
  <2>4. QED
    BY <2>3 DEF Channel!Next
<1>10. CASE Writer!IntoInner
  <2>1. /\ closed' = TRUE /\ UNCHANGED <<written, acknowledged, usable>>
        /\ phase = "idle" /\ phase' = "dropped"
    BY <1>10 DEF Writer!IntoInner
  <2>2. Broken' = Broken
    BY <2>1 DEF Broken
  <2>3. Channel!Close
    BY <1>1, <1>2, <2>1, <2>2, Zenon DEF Channel!Close, Got, Broken, ReaderSays
  <2>4. QED
    BY <2>3 DEF Channel!Next
<1>11. CASE Writer!CallbackOk
  BY <1>5, <1>7, <1>11
<1>12. CASE Writer!CallbackErr \/ Writer!CallbackPanics
  BY <1>5, <1>12
<1>13. Writer!Next
  BY DEF WriterSteps
<1>14. QED
  BY <1>4, <1>6, <1>8, <1>9, <1>10, <1>11, <1>12, <1>13 DEF Writer!Next

(* What the reader has handed out when it reads and finds the stream at    *)
(* its end: everything acknowledged, and no more if the writer did not     *)
(* break off.                                                              *)
LEMMA AtTheEnd ==
  ASSUME PipeInv, at = "read", closed, received = sent
  PROVE  /\ Len(delivered) >= acknowledged
         /\ ~ Broken => Len(delivered) = acknowledged /\ BufferLen = 0
         /\ BufferLen > 0 => Len(delivered) < Len(written)
<1>0. /\ TypeOK /\ IInv /\ SourceInv /\ DeliveredInv /\ SentInv /\ WriterInv /\ NothingReady
  BY DEF PipeInv, PipeTypeOK, IInv
<1>1. PICK D \in Nat : D = Len(delivered)
  BY <1>0 DEF TypeOK
<1>2. PICK L \in Nat : L = Len(frames)
  BY <1>0 DEF TypeOK
<1>3. PICK A \in Nat : A = acknowledged
  BY WriterShape DEF PipeInv, PipeTypeOK
<1>4. PICK W \in Nat : W = Len(written)
  BY WriterShape DEF PipeInv, PipeTypeOK
<1>5. /\ D <= L /\ L \in A..W
  BY <1>1, <1>2, <1>3, <1>4, HandedOut DEF Handed
<1>6. /\ EndOf(A) \in Nat /\ EndOf(D) \in Nat /\ progress \in Nat
      /\ sent = EndOf(A) + progress /\ cursor = EndOf(D) /\ taken = EndOf(D) /\ sent \in Nat
  <2>1. EndOf(A) \in Nat /\ EndOf(D) \in Nat
    BY <1>0, <1>2, <1>5, EndTypes
  <2>2. progress \in Nat
    BY WriterShape DEF PipeInv, PipeTypeOK
  <2>3. sent = EndOf(A) + progress
    BY <1>0, <1>3 DEF SentInv
  <2>4. cursor = EndOf(D) /\ taken = cursor
    BY <1>0, <1>1 DEF DeliveredInv, IInv, ScanInv
  <2>5. QED
    BY <2>1, <2>2, <2>3, <2>4
<1>7. D >= A
  <2>1. CASE A = 0
    BY <2>1
  <2>2. CASE A > 0
    <3>1. A \in 1..Len(frames) /\ EndOf(A) <= received
      BY <1>2, <1>5, <1>6, <2>2
    <3>2. AllValid(A)
      <4>1. \A k \in 1..A : k \in 1..Len(frames)
        BY <1>2, <1>5
      <4>2. QED
        BY <1>0, <4>1 DEF SentInv, AllValid
    <3>3. QED
      BY <1>0, <1>1, <3>1, <3>2 DEF NothingReady
  <2>3. QED
    BY <2>1, <2>2
<1>8. ASSUME ~ Broken PROVE D = A /\ BufferLen = 0
  <2>1. phase = "dropped" /\ usable /\ progress = 0
    BY <1>0, <1>8 DEF WriterInv, Broken
  <2>2. L = A
    <3>1. SUFFICES ASSUME L > A PROVE FALSE
      BY <1>5
    <3>2. Len(buffer) = W - A /\ 1 \in 1..Len(buffer) /\ A + 1 <= L
      <4>1. Len(buffer) = W - A
        BY <1>3, <1>4 DEF PipeInv, BufferInv, Writer!BatchIsUnacknowledged
      <4>2. QED
        BY <1>5, <3>1, <4>1
    <3>3. buffer[1].start < progress
      BY <1>0, <1>2, <1>3, <3>2 DEF SentInv
    <3>4. buffer[1].start \in Nat
      BY <3>2, WriterShape DEF PipeInv, PipeTypeOK
    <3>5. QED
      BY <2>1, <3>3, <3>4
  <2>3. D = A
    BY <1>5, <1>7, <2>2
  <2>4. sent = EndOf(D)
    BY <1>6, <2>1, <2>3
  <2>5. QED
    BY <1>6, <2>3, <2>4 DEF BufferLen
<1>9. ASSUME BufferLen > 0 PROVE D < W
  <2>1. EndOf(D) < sent
    BY <1>6, <1>9 DEF BufferLen
  <2>2. D + 1 \in 1..Len(frames)
    BY <1>0, <1>2, <1>5, <2>1, NextFrame
  <2>3. QED
    BY <1>2, <1>5, <2>2
<1>10. QED
  BY <1>1, <1>3, <1>4, <1>7, <1>8, <1>9

(* Every step of the receiving task is a step of the channel, or none. *)
LEMMA ReaderSimulates ==
  ASSUME PipeInv, PipeInv', ReaderSteps
  PROVE  [Channel!Next]_(Channel!vars)
<1>0. /\ UNCHANGED <<written, acknowledged, closed, usable, phase>> /\ IInv /\ EndedInv /\ Handed /\ Handed'
  BY HandedOut, HandedOutNext DEF ReaderSteps, writerVars, sourceVars, PipeInv
<1>1. Broken' = Broken
  BY <1>0 DEF Broken
<1>2. delivered' = delivered => Got' = Got
  BY <1>0, GotStays
<1>3. state = "Active" => ReaderSays = "open"
  BY <1>0, ReaderSaid DEF EndedInv
<1>4. CASE state' = state /\ ended' = ended
  <2>1. ReaderSays' = ReaderSays
    BY <1>4 DEF ReaderSays
  <2>2. CASE delivered' = delivered
    BY <1>0, <1>1, <1>2, <2>1, <2>2, Zenon DEF Channel!vars, Got, Broken, ReaderSays
  <2>3. CASE delivered' # delivered
    <3>1. TryReadNext
      BY <2>3 DEF ReaderSteps, WaitToRead, AcceptFrame, StopAtPartialHeader, StopAtInvalidHeader,
                  StopAtPartialRecord, StopAtCrcMismatch, StopScan, Receive, ReceiveNothing,
                  Interrupted, ReceiveFails, Cancel
    <3>2. PICK e : /\ ~ BatchIsEmpty /\ delivered' = Append(delivered, e)
      BY <2>3, <3>1 DEF TryReadNext
    <3>3. ReaderSays = "open"
      BY <1>0, <1>3, <3>2 DEF IInv, BatchIsEmpty
    <3>4. Len(delivered') = Len(delivered) + 1
      BY <3>2 DEF PipeInv, PipeTypeOK, TypeOK
    <3>5. PICK T : T = Writer!RecordType
      OBVIOUS
    <3>6. PICK g \in Seq(T) : /\ g = Got /\ Len(g) = Len(delivered)
                              /\ \A n \in 1..Len(delivered) : g[n] = written[n]
      BY <1>0, <3>5 DEF Handed
    <3>7. PICK h \in Seq(T) : /\ h = Got' /\ Len(h) = Len(delivered) + 1
                              /\ \A n \in 1..Len(delivered) + 1 : h[n] = written[n]
      BY <1>0, <3>4, <3>5 DEF Handed
    <3>8. Len(g) \in Nat /\ Len(g) < Len(written) /\ written[Len(g) + 1] \in T
      <4>1. /\ Len(delivered) \in Nat /\ Len(written) \in Nat
            /\ Len(delivered) + 1 <= Len(written)
        BY <1>0, <3>4 DEF Handed
      <4>2. written \in Seq(T)
        BY <3>5, WriterShape DEF PipeInv, PipeTypeOK
      <4>3. QED
        BY <3>6, <4>1, <4>2
    <3>9. h = Append(g, written[Len(g) + 1])
      <4>1. PICK x \in T : x = written[Len(g) + 1]
        BY <3>8
      <4>2. /\ Append(g, x) \in Seq(T) /\ Len(Append(g, x)) = Len(g) + 1
            /\ \A n \in 1..Len(g) : Append(g, x)[n] = g[n]
            /\ Append(g, x)[Len(g) + 1] = x
        OBVIOUS
      <4>3. \A n \in 1..Len(h) : h[n] = Append(g, x)[n]
        <5> TAKE n \in 1..Len(h)
        <5>1. CASE n = Len(g) + 1
          BY <3>6, <3>7, <4>1, <4>2, <5>1
        <5>2. CASE n # Len(g) + 1
          <6>1. n \in 1..Len(g)
            BY <3>6, <3>7, <3>8, <5>2
          <6>2. QED
            BY <3>6, <3>7, <4>2, <6>1
        <5>3. QED
          BY <5>1, <5>2
      <4>4. Len(h) = Len(Append(g, x))
        BY <3>6, <3>7, <4>2
      <4>5. h = Append(g, x)
        BY <4>2, <4>3, <4>4, SeqEqual
      <4>6. QED
        BY <4>1, <4>5
    <3>10. Got' = Append(Got, written[Len(Got) + 1]) /\ Len(Got) < Len(written)
      BY <3>6, <3>7, <3>8, <3>9
    <3>11. Channel!Deliver
      BY <1>0, <1>1, <2>1, <3>3, <3>10, Zenon DEF Channel!Deliver, Got, Broken, ReaderSays
    <3>12. QED
      BY <3>11 DEF Channel!Next
  <2>4. QED
    BY <2>2, <2>3
<1>5. CASE /\ state = "Active" /\ at = "read" /\ delivered' = delivered
           /\ closed /\ received = sent
           /\ \/ BufferLen = 0 /\ state' = "Finished" /\ ended' = "false"
              \/ /\ BufferLen > 0 /\ state' = "Failed"
                 /\ ended' \in {"TruncatedHeader", "TruncatedRecord"}
  <2>1. /\ Len(delivered) >= acknowledged
        /\ ~ Broken => Len(delivered) = acknowledged /\ BufferLen = 0
        /\ BufferLen > 0 => Len(delivered) < Len(written)
    BY <1>5, AtTheEnd
  <2>2. Len(Got) = Len(delivered) /\ Got' = Got /\ ReaderSays = "open"
    BY <1>0, <1>2, <1>3, <1>5 DEF Handed
  <2>3. CASE BufferLen = 0 /\ ended' = "false"
    <3>1. ReaderSays' = "finished"
      BY <2>3, ReaderSaidNext
    <3>2. Len(Got) >= acknowledged /\ (~ Broken => Len(Got) = acknowledged)
      BY <2>1, <2>2
    <3>3. Channel!Finish
      BY <1>0, <1>1, <1>5, <2>2, <3>1, <3>2, Zenon DEF Channel!Finish, Got, Broken, ReaderSays
    <3>4. QED
      BY <3>3 DEF Channel!Next
  <2>4. CASE BufferLen > 0 /\ ended' \in {"TruncatedHeader", "TruncatedRecord"}
    <3>1. ReaderSays' = "truncated"
      BY <2>4, ReaderSaidNext
    <3>2. Len(Got) >= acknowledged /\ Len(Got) < Len(written) /\ Broken
      <4>1. BufferLen # 0
        BY <2>4 DEF PipeInv, PipeTypeOK, TypeOK, BufferLen
      <4>2. QED
        BY <2>1, <2>2, <2>4, <4>1
    <3>3. Channel!Truncate
      BY <1>0, <1>1, <1>5, <2>2, <3>1, <3>2, Zenon DEF Channel!Truncate, Got, Broken, ReaderSays
    <3>4. QED
      BY <3>3 DEF Channel!Next
  <2>5. QED
    BY <1>5, <2>3, <2>4
<1>6. CASE state = "Active" /\ state' = "Failed" /\ ended' = "Io" /\ delivered' = delivered
  <2>1. ReaderSays = "open" /\ ReaderSays' = "failed" /\ Got' = Got
    BY <1>2, <1>3, <1>6, ReaderSaidNext
  <2>2. Channel!Fail
    BY <1>0, <1>1, <2>1, Zenon DEF Channel!Fail, Got, Broken, ReaderSays
  <2>3. QED
    BY <2>2 DEF Channel!Next
<1>7. QED
  BY <1>4, <1>5, <1>6, ReaderOutcome

(* A RecordWriter and a RecordReader on the ends of a byte stream are a    *)
(* FIFO channel of records.  For every payload limit, chunking of the      *)
(* callbacks, fragmentation, output failure and cancellation, the reader   *)
(* hands out the records written, in order and each once, reports no       *)
(* corruption, finishes only after everything acknowledged came out, and   *)
(* says truncated only when the writer broke off.                          *)
THEOREM PipeImplementsChannel == PipeSpec => ImplementsChannel
<1>1. PipeInit => Channel!Init
  <2> SUFFICES ASSUME PipeInit PROVE Channel!Init
    OBVIOUS
  <2>1. /\ written = <<>> /\ acknowledged = 0 /\ closed = FALSE /\ usable = TRUE
        /\ ended = "open" /\ delivered = <<>>
    BY DEF PipeInit, Writer!Init, Init
  <2>2. Got = <<>>
    BY <2>1 DEF Got
  <2>3. Broken = FALSE /\ ReaderSays = "open"
    BY <2>1, ReaderSaid DEF Broken
  <2>4. QED
    BY <2>1, <2>2, <2>3, Zenon DEF Channel!Init, Got, Broken, ReaderSays
<1>2. PipeInv /\ PipeInv' /\ [PipeNext]_pipeVars => [Channel!Next]_(Channel!vars)
  <2> SUFFICES ASSUME PipeInv, PipeInv', [PipeNext]_pipeVars
               PROVE  [Channel!Next]_(Channel!vars)
    OBVIOUS
  <2>1. CASE WriterSteps
    BY <2>1, WriterSimulates
  <2>2. CASE ReaderSteps
    BY <2>2, ReaderSimulates
  <2>3. CASE UNCHANGED pipeVars
    <3>1. UNCHANGED <<frames, closed, delivered, wire, written, acknowledged, usable, phase, ended>>
      BY <2>3 DEF pipeVars, vars, sourceVars, readerVars, writerVars
    <3>2. Got' = Got
      BY <3>1, GotStays
    <3>3. QED
      BY <3>1, <3>2, Zenon DEF Channel!vars, Got
  <2>4. QED
    BY <2>1, <2>2, <2>3 DEF PipeNext
<1>3. QED
  BY <1>1, <1>2, PipeInvariant, PTL DEF PipeSpec, ImplementsChannel, Channel!Spec
=============================================================================
