------------------------ MODULE IndexedLogWriter_proofs ------------------------
(***************************************************************************)
(* Proofs about IndexedLogWriter for every file size, record length, index *)
(* entry width and recovered pair.                                         *)
(***************************************************************************)
EXTENDS IndexedLogWriter, TLAPS

(***************************************************************************)
(* The inductive invariant.                                                *)
(***************************************************************************)

\* How many of the file's records an endpoint covers.
Count(end) == IF end = NoEnd THEN 0 ELSE end.seq - FirstId + 1

\* Bytes of f's file that precede its batch.
Sent(f) == Len(file[f]) - (IF step = "write" /\ out = f THEN cursor ELSE 0)

\* The writer can still send its batches.
Live == (state = "Open" /\ step # "gone") \/ Busy

\* The future has been at f and left it, or has not come to it.
Settled(f) == state \in {"Open", "Finalized"} \/ (Busy /\ (f # out \/ step = "sync"))

\* Progress fields describe the accepted records.
ProgressInv ==
  /\ record_count = Len(ends)
  /\ expected_record_id = FirstId + Len(ends)
  /\ buffered_end = EndOf(ends)

\* The accepted bytes are a well-formed log and its dense index.
AcceptedInv ==
  /\ LogLayout(accepted["log"], ends)
  /\ IndexLayout(accepted["index"], ends)

\* A file is a prefix of the accepted bytes ...
PrefixInv(f) ==
  /\ Len(file[f]) <= Len(accepted[f])
  /\ \A i \in 1 .. Len(file[f]) : file[f][i] = accepted[f][i]
  /\ visible[f] <= Len(file[f])
  /\ durable[f] <= visible[f]

\* ... which the pending batch completes, as long as nothing has failed.
BatchInv(f) ==
  Live /\ ~ write_error[f] =>
    /\ Sent(f) >= 0
    /\ Sent(f) + Len(buffer[f]) = Len(accepted[f])
    /\ \A i \in 1 .. Len(buffer[f]) : buffer[f][i] = accepted[f][Sent(f) + i]

\* Where the future can be, and what it has finished by then.
FutureInv ==
  /\ Busy => state = "Unusable"
  /\ step = "write" => cursor < Len(buffer[out])
  /\ step = "flush" => buffer[out] = << >>
  /\ Busy /\ out = "index" => buffer["log"] = << >>
  /\ step = "sync" => buffer["log"] = << >> /\ buffer["index"] = << >>
  /\ \A f \in Outputs : Settled(f) => visible[f] = Len(file[f]) /\ ~ write_error[f]
  /\ state = "Open" => \A f \in Outputs : usable[f]
  /\ Busy => \A f \in Outputs : f # out => usable[f]
  /\ step = "sync" => flushed_end = buffered_end
  /\ step = "sync" /\ out = "index" => durable["log"] = Len(file["log"])
  /\ state = "Finalized" => /\ record_count = RECORDS_PER_FILE
                             /\ synced_end = buffered_end
                             /\ buffer = Empty

\* An endpoint names an accepted record whose bytes two lengths cover.
Covers(end, logLen, indexLen) ==
  end # NoEnd =>
    /\ Count(end) \in 1 .. Len(ends)
    /\ end.pos = ends[Count(end)]
    /\ end.pos <= logLen
    /\ Count(end) * INDEX_ENTRY_LEN <= indexLen

BoundaryInv ==
  /\ Covers(flushed_end, visible["log"], visible["index"])
  /\ Covers(synced_end, durable["log"], durable["index"])
  /\ synced_end.seq <= flushed_end.seq
  /\ flushed_end.seq <= buffered_end.seq
  /\ state \in {"Open", "Finalized"} =>
       /\ Len(file["log"]) = flushed_end.pos
       /\ Len(file["index"]) = Count(flushed_end) * INDEX_ENTRY_LEN

\* The index has no byte of an entry whose record is not visible in the log.
OrderInv ==
  \A i \in 1 .. Len(ends) :
    (i - 1) * INDEX_ENTRY_LEN < Len(file["index"]) => ends[i] <= visible["log"]

IInv ==
  /\ TypeOK
  /\ ProgressInv
  /\ AcceptedInv
  /\ \A f \in Outputs : PrefixInv(f)
  /\ \A f \in Outputs : BatchInv(f)
  /\ FutureInv
  /\ BoundaryInv
  /\ OrderInv

-------------------------------------------------------------------------------
(***************************************************************************)
(* Arithmetic and sequences.                                               *)
(***************************************************************************)

\* The division behind file numbers and record counts.
LEMMA DivMod ==
  ASSUME NEW F \in Nat, NEW N \in Nat \ {0}, NEW r \in Nat, r < N
  PROVE  (F * N + r) \div N = F /\ (F * N + r) % N = r
OBVIOUS

\* Products with the entry width are natural numbers and monotone.
LEMMA Times ==
  ASSUME NEW a \in Nat, NEW b \in Nat, NEW E \in Nat, a <= b
  PROVE  a * E \in Nat /\ b * E \in Nat /\ a * E <= b * E /\ (a + 1) * E = a * E + E
OBVIOUS

\* The elements of a concatenation.
LEMMA Concat ==
  ASSUME NEW S, NEW s \in Seq(S), NEW t \in Seq(S)
  PROVE  /\ s \o t \in Seq(S)
         /\ Len(s \o t) = Len(s) + Len(t)
         /\ \A i \in 1 .. Len(s) : (s \o t)[i] = s[i]
         /\ \A i \in 1 .. Len(t) : (s \o t)[Len(s) + i] = t[i]
OBVIOUS

\* The elements of a subsequence.
LEMMA Sub ==
  ASSUME NEW S, NEW s \in Seq(S), NEW a \in Nat, NEW b \in Nat,
         1 <= a, a <= b + 1, b <= Len(s)
  PROVE  /\ SubSeq(s, a, b) \in Seq(S)
         /\ Len(SubSeq(s, a, b)) = b - a + 1
         /\ \A i \in 1 .. b - a + 1 : SubSeq(s, a, b)[i] = s[a + i - 1]
OBVIOUS

\* A file's first id is a sequence number.
LEMMA FirstIdType == FirstId \in SequenceNumber
BY LocationAssumption, WriterAssumption
   DEF FirstId, first_record_id, SequenceNumber, MAX_FILE

\* The records of the file, by the number of records before them.
LEMMA InFile ==
  ASSUME NEW r \in Nat, r < RECORDS_PER_FILE
  PROVE  /\ from_record_id(FirstId + r) = FileNumber
         /\ record_count_through(FirstId + r) = r + 1
BY DivMod, LocationAssumption, WriterAssumption
   DEF FirstId, first_record_id, from_record_id, record_count_through, MAX_FILE

-------------------------------------------------------------------------------
(***************************************************************************)
(* Encodings and layouts.                                                  *)
(***************************************************************************)

\* Record encodings and index entries are byte sequences of the known lengths.
LEMMA EncodingType ==
  /\ \A seq \in SequenceNumber, length \in Nat :
       LogBytes(seq, length) \in Seq(Byte) /\ Len(LogBytes(seq, length)) = length
  /\ \A pos \in Nat :
       IndexBytes(pos) \in Seq(Byte) /\ Len(IndexBytes(pos)) = INDEX_ENTRY_LEN
BY WriterAssumption DEF LogBytes, IndexBytes, Byte, LogByte, IndexByte

\* Appending the next record keeps the log well formed.  The sequences are
\* given by their lengths and elements.
LEMMA LogLayoutExtend ==
  ASSUME NEW log \in Seq(Byte), NEW new \in Seq(Byte),
         NEW es \in Seq(Nat), NEW es2 \in Seq(Nat),
         Len(log) < Len(new),
         \A i \in 1 .. Len(log) : new[i] = log[i],
         \A i \in 1 .. Len(new) - Len(log) :
           new[Len(log) + i] =
             [seq |-> FirstId + Len(es), k |-> i, len |-> Len(new) - Len(log)],
         Len(es2) = Len(es) + 1,
         \A i \in 1 .. Len(es) : es2[i] = es[i],
         es2[Len(es) + 1] = Len(new),
         LogLayout(log, es)
  PROVE  LogLayout(new, es2)
<1>0. FirstId \in Nat
  BY FirstIdType DEF SequenceNumber
<1>1. /\ Len(log) \in Nat /\ Len(es) \in Nat
      /\ log = << >> => Len(log) = 0
      /\ es = << >> <=> Len(es) = 0
      /\ es2 # << >>
  OBVIOUS
<1>2. PICK length \in Nat \ {0} : length = Len(new) - Len(log) /\ Len(new) = Len(log) + length
  <2>1. Len(new) \in Nat /\ Len(log) \in Nat /\ Len(log) < Len(new)
    OBVIOUS
  <2>2. Len(new) - Len(log) \in Nat \ {0} /\ Len(new) = Len(log) + (Len(new) - Len(log))
    BY <2>1
  <2> QED BY <2>2
<1>3. \A i \in 1 .. length :
        new[Len(log) + i] = [seq |-> FirstId + Len(es), k |-> i, len |-> length]
  BY <1>2
<1>4. es2[Len(es) + 1] = Len(log) + length
  BY <1>2
<1>5. Len(new) = IF es2 = << >> THEN 0 ELSE es2[Len(es2)]
  OBVIOUS
<1>6. new[1].seq = FirstId /\ new[1].k = 1
  <2>1. CASE Len(log) = 0
    <3>1. Len(es) = 0
      <4>1. Len(es) # 0 => Len(es) \in 1 .. Len(es)
        BY <1>1
      <4>2. Len(es) \in 1 .. Len(es) => es[Len(es)] \in 1 .. 0
        BY <2>1 DEF LogLayout
      <4> QED BY <4>1, <4>2
    <3>2. new[1] = [seq |-> FirstId + 0, k |-> 1, len |-> length]
      BY <2>1, <3>1, <1>3
    <3> QED BY <3>2, <1>0
  <2>2. CASE Len(log) # 0
    <3>1. 1 \in 1 .. Len(log) /\ log # << >>
      BY <2>2, <1>1
    <3>2. log[1].seq = FirstId /\ log[1].k = 1
      BY <3>1 DEF LogLayout
    <3> QED BY <3>1, <3>2
  <2> QED BY <2>1, <2>2
<1>7. ASSUME NEW i \in 1 .. Len(new) - 1
      PROVE  Follows(new[i], new[i + 1])
  <2>1. CASE i < Len(log)
    <3>1. i \in 1 .. Len(log) - 1 /\ i \in 1 .. Len(log) /\ i + 1 \in 1 .. Len(log)
      BY <2>1, <1>1
    <3>2. Follows(log[i], log[i + 1])
      BY <3>1 DEF LogLayout
    <3>3. new[i] = log[i] /\ new[i + 1] = log[i + 1]
      BY <3>1
    <3> QED BY <3>2, <3>3
  <2>2. CASE i = Len(log)
    <3>1. IsLast(log[i]) /\ log[i].seq = FirstId + Len(es) - 1
      <4>1. es # << >> /\ es[Len(es)] = i
        BY <2>2 DEF LogLayout
      <4>2. Len(es) \in 1 .. Len(es)
        BY <4>1
      <4> QED BY <4>1, <4>2 DEF LogLayout
    <3>2. /\ new[i] = log[i]
          /\ new[i + 1] = [seq |-> FirstId + Len(es), k |-> 1, len |-> length]
      <4>1. i \in 1 .. Len(log) /\ 1 \in 1 .. length
        BY <2>2, <1>1, <1>2
      <4> QED BY <4>1, <2>2, <1>3
    <3>3. new[i + 1].seq = FirstId + Len(es) /\ new[i + 1].k = 1
      BY <3>2
    <3>4. FirstId + Len(es) = (FirstId + Len(es) - 1) + 1
      BY <1>0
    <3> QED BY <3>1, <3>2, <3>3, <3>4 DEF Follows
  <2>3. CASE i > Len(log)
    <3> DEFINE j == i - Len(log)
    <3>1. j \in 1 .. length - 1 /\ i = Len(log) + j /\ i + 1 = Len(log) + (j + 1)
      BY <2>3, <1>1, <1>2
    <3> HIDE DEF j
    <3>2. j \in 1 .. length /\ j + 1 \in 1 .. length /\ j # length
      BY <3>1
    <3>4. /\ new[i] = [seq |-> FirstId + Len(es), k |-> j, len |-> length]
          /\ new[i + 1] = [seq |-> FirstId + Len(es), k |-> j + 1, len |-> length]
      BY <3>1, <3>2, <1>3
    <3> QED BY <3>2, <3>4 DEF Follows, IsLast
  <2> QED BY <2>1, <2>2, <2>3
<1>8. ASSUME NEW i \in 1 .. Len(es2)
      PROVE  /\ es2[i] \in 1 .. Len(new)
             /\ IsLast(new[es2[i]])
             /\ new[es2[i]].seq = FirstId + i - 1
  <2>1. CASE i \in 1 .. Len(es)
    <3>1. es2[i] = es[i]
      BY <2>1
    <3>2. /\ es[i] \in 1 .. Len(log)
          /\ IsLast(log[es[i]]) /\ log[es[i]].seq = FirstId + i - 1
      BY <2>1 DEF LogLayout
    <3>3. new[es[i]] = log[es[i]]
      BY <3>2
    <3>4. es[i] \in 1 .. Len(new)
      BY <3>2, <1>1, <1>2
    <3> QED BY <3>1, <3>2, <3>3, <3>4
  <2>2. CASE i = Len(es) + 1
    <3>1. new[es2[i]] = [seq |-> FirstId + Len(es), k |-> length, len |-> length]
      <4>1. length \in 1 .. length /\ es2[i] = Len(log) + length
        BY <2>2, <1>2, <1>4
      <4> QED BY <4>1, <1>3
    <3>2. IsLast(new[es2[i]]) /\ new[es2[i]].seq = FirstId + Len(es)
      BY <3>1 DEF IsLast
    <3>3. FirstId + Len(es) = FirstId + i - 1 /\ es2[i] \in 1 .. Len(new)
      BY <2>2, <1>0, <1>1, <1>2
    <3> QED BY <3>2, <3>3
  <2> QED BY <2>1, <2>2
<1> QED BY <1>5, <1>6, <1>7, <1>8 DEF LogLayout

\* Appending its end keeps the index dense.
LEMMA IndexLayoutExtend ==
  ASSUME NEW index \in Seq(Byte), NEW new \in Seq(Byte),
         NEW es \in Seq(Nat), NEW es2 \in Seq(Nat),
         Len(new) = Len(index) + INDEX_ENTRY_LEN,
         \A i \in 1 .. Len(index) : new[i] = index[i],
         \A i \in 1 .. INDEX_ENTRY_LEN :
           new[Len(index) + i] = [end |-> es2[Len(es) + 1], k |-> i],
         Len(es2) = Len(es) + 1,
         \A i \in 1 .. Len(es) : es2[i] = es[i],
         IndexLayout(index, es)
  PROVE  IndexLayout(new, es2)
<1> DEFINE E == INDEX_ENTRY_LEN
<1>1. E \in Nat \ {0} /\ Len(index) = Len(es) * E
  BY WriterAssumption DEF IndexLayout
<1>5. Len(new) = Len(es2) * E
  BY <1>1, Times
<1>6. ASSUME NEW i \in 1 .. Len(es2), NEW k \in 1 .. E
      PROVE  new[(i - 1) * E + k] = [end |-> es2[i], k |-> k]
  <2>1. CASE i \in 1 .. Len(es)
    <3>1. PICK m \in Nat : m = (i - 1) * E
      BY <2>1, <1>1, Times
    <3>2. m + E <= Len(es) * E
      <4>1. i - 1 \in Nat /\ i \in Nat /\ i <= Len(es) /\ (i - 1) + 1 = i
        BY <2>1
      <4>2. ((i - 1) + 1) * E = (i - 1) * E + E
        BY <4>1, <1>1, Times
      <4>3. i * E <= Len(es) * E
        <5>1. i \in Nat /\ Len(es) \in Nat /\ E \in Nat /\ i <= Len(es)
          BY <4>1, <1>1
        <5> QED BY <5>1, Times
      <4> QED BY <4>1, <4>2, <4>3, <3>1
    <3>3. m + k \in 1 .. Len(index)
      BY <3>2, <1>1, SMTT(30)
    <3> QED BY <3>1, <3>3, <2>1 DEF IndexLayout
  <2>2. CASE i = Len(es) + 1
    <3>1. (i - 1) * E = Len(index)
      BY <2>2, <1>1
    <3> QED BY <3>1, <2>2
  <2> QED BY <2>1, <2>2
<1> QED BY <1>5, <1>6 DEF IndexLayout

\* The endpoint of the accepted records.
LEMMA EndOfProperties ==
  ASSUME NEW es \in Seq(Nat), Len(es) <= RECORDS_PER_FILE,
         FirstId + Len(es) - 1 <= MAX_SEQUENCE
  PROVE  /\ EndOf(es) \in OptionalEnd
         /\ Count(EndOf(es)) = Len(es)
         /\ es # << >> => /\ EndOf(es) # NoEnd
                          /\ Len(es) \in 1 .. Len(es)
                          /\ EndOf(es).pos = es[Len(es)]
                          /\ EndOf(es).seq = FirstId + Len(es) - 1
                          /\ record_count_through(EndOf(es).seq) = Len(es)
         /\ es = << >> => EndOf(es) = NoEnd /\ Len(es) = 0
<1>0. FirstId \in Nat /\ RECORDS_PER_FILE \in Nat /\ MAX_SEQUENCE \in Nat
  BY FirstIdType, LocationAssumption DEF SequenceNumber
<1>1. CASE es = << >>
  BY <1>1 DEF EndOf, OptionalEnd, Count
<1>2. CASE es # << >>
  <2>1. Len(es) \in 1 .. Len(es) /\ Len(es) - 1 \in Nat /\ es[Len(es)] \in Nat
    BY <1>2
  <2>2. EndOf(es) = [seq |-> FirstId + Len(es) - 1, pos |-> es[Len(es)]]
    BY <1>2 DEF EndOf
  <2>3. /\ EndOf(es).seq = FirstId + Len(es) - 1
        /\ EndOf(es).pos = es[Len(es)]
        /\ FirstId + Len(es) - 1 \in SequenceNumber
    BY <2>1, <2>2, <1>0 DEF SequenceNumber
  <2>4. EndOf(es) \in OptionalEnd /\ EndOf(es) # NoEnd
    BY <2>1, <2>2, <2>3, <1>0 DEF OptionalEnd, EndLocation, SequenceNumber, NoEnd
  <2>5. record_count_through(FirstId + (Len(es) - 1)) = (Len(es) - 1) + 1
    <3>1. Len(es) - 1 < RECORDS_PER_FILE
      BY <2>1, <1>0
    <3> QED BY <2>1, <3>1, InFile
  <2>6. FirstId + (Len(es) - 1) = FirstId + Len(es) - 1 /\ (Len(es) - 1) + 1 = Len(es)
    BY <2>1, <1>0
  <2>7. Count(EndOf(es)) = Len(es)
    BY <2>1, <2>3, <2>4, <1>0 DEF Count
  <2> QED BY <1>2, <2>1, <2>3, <2>4, <2>5, <2>6, <2>7
<1> QED BY <1>1, <1>2

-------------------------------------------------------------------------------
(***************************************************************************)
(* The initial states.                                                     *)
(***************************************************************************)
\* The initial states, on an empty or a recovered pair, satisfy the invariant.
LEMMA InitIInv == Init => IInv
<1> SUFFICES ASSUME Init PROVE IInv
  OBVIOUS
<1>1. PICK p \in RecoveredPairs :
        LET end == EndOf(p.ends)
        IN  /\ state = "Open"
            /\ expected_record_id = IF end = NoEnd THEN FirstId ELSE end.seq + 1
            /\ record_count = IF end = NoEnd THEN 0 ELSE record_count_through(end.seq)
            /\ buffered_end = end /\ flushed_end = end /\ synced_end = end
            /\ buffer = Empty
            /\ usable = [f \in Outputs |-> TRUE]
            /\ step = "idle" /\ out = "log" /\ cursor = 0 /\ syncing = FALSE
            /\ file = Pair(p.log, p.index)
            /\ visible = [f \in Outputs |-> Len(file[f])]
            /\ durable = [f \in Outputs |-> Len(file[f])]
            /\ write_error = [f \in Outputs |-> FALSE]
            /\ accepted = file
            /\ ends = p.ends
  BY DEF Init
<1>2. /\ p.log \in Seq(Byte) /\ p.index \in Seq(Byte) /\ ends \in Seq(Nat)
      /\ Len(ends) < RECORDS_PER_FILE
      /\ FirstId + Len(ends) <= MAX_SEQUENCE
      /\ LogLayout(p.log, ends)
      /\ IndexLayout(p.index, ends)
  BY <1>1, RecoveredAssumption
<1>3. /\ file["log"] = p.log /\ file["index"] = p.index
      /\ file \in [Outputs -> Seq(Byte)]
  BY <1>1, <1>2 DEF Pair, Outputs
<1>4. /\ FirstId \in Nat /\ Len(ends) \in Nat
      /\ INDEX_ENTRY_LEN \in Nat /\ RECORDS_PER_FILE \in Nat /\ MAX_SEQUENCE \in Nat
  BY <1>2, FirstIdType, WriterAssumption, LocationAssumption DEF SequenceNumber
<1>5. /\ EndOf(ends) \in OptionalEnd
      /\ Count(EndOf(ends)) = Len(ends)
      /\ ends # << >> => /\ EndOf(ends) # NoEnd
                         /\ Len(ends) \in 1 .. Len(ends)
                         /\ EndOf(ends).pos = ends[Len(ends)]
                         /\ EndOf(ends).seq = FirstId + Len(ends) - 1
                         /\ record_count_through(EndOf(ends).seq) = Len(ends)
      /\ ends = << >> => EndOf(ends) = NoEnd /\ Len(ends) = 0
  BY <1>2, <1>4, EndOfProperties, SMTT(30) DEF SequenceNumber
<1>6. NoEnd.pos = 0 /\ NoEnd.seq = -1
  BY DEF NoEnd
<1>7. ProgressInv
  <2>1. CASE ends = << >>
    BY <2>1, <1>1, <1>4, <1>5 DEF ProgressInv
  <2>2. CASE ends # << >>
    BY <2>2, <1>1, <1>4, <1>5 DEF ProgressInv
  <2> QED BY <2>1, <2>2
<1>8. AcceptedInv
  BY <1>1, <1>2, <1>3 DEF AcceptedInv
<1>9. /\ expected_record_id \in SequenceNumber
      /\ record_count \in 0 .. RECORDS_PER_FILE
  BY <1>2, <1>4, <1>7 DEF ProgressInv, SequenceNumber
<1>10. TypeOK
  <2>1. buffer \in [Outputs -> Seq(Byte)]
    BY <1>1 DEF Empty
  <2>2. visible \in [Outputs -> Nat] /\ durable \in [Outputs -> Nat]
    BY <1>1, <1>3
  <2> QED BY <1>1, <1>2, <1>3, <1>5, <1>9, <2>1, <2>2 DEF TypeOK, Outputs
<1>11. \A f \in Outputs : PrefixInv(f)
  BY <1>1, <1>3 DEF PrefixInv, Outputs
<1>12. \A f \in Outputs : BatchInv(f)
  BY <1>1, <1>3 DEF BatchInv, Sent, Outputs, Empty
<1>13. FutureInv
  BY <1>1, <1>3 DEF FutureInv, Busy, Settled, Outputs
<1>14. BoundaryInv
  <2>1. Count(EndOf(ends)) = Len(ends)
    BY <1>5
  <2>2. Len(file["log"]) = EndOf(ends).pos
    BY <1>2, <1>3, <1>5, <1>6 DEF LogLayout
  <2>3. Len(file["index"]) = Len(ends) * INDEX_ENTRY_LEN
    BY <1>2, <1>3 DEF IndexLayout
  <2>4. Covers(EndOf(ends), Len(file["log"]), Len(file["index"]))
    <3>1. CASE ends = << >>
      BY <3>1, <1>5 DEF Covers
    <3>2. CASE ends # << >>
      <4>1. Len(file["log"]) \in Nat /\ Len(file["index"]) \in Nat
        BY <1>2, <1>3
      <4> QED BY <3>2, <4>1, <2>1, <2>2, <2>3, <1>5 DEF Covers
    <3> QED BY <3>1, <3>2
  <2>5. EndOf(ends).seq <= EndOf(ends).seq
    BY <1>4, <1>5, <1>6
  <2> QED BY <1>1, <2>1, <2>2, <2>3, <2>4, <2>5 DEF BoundaryInv, Outputs
<1>15. OrderInv
  BY <1>1, <1>2, <1>3 DEF OrderInv, LogLayout, Outputs
<1> QED BY <1>7, <1>8, <1>10, <1>11, <1>12, <1>13, <1>14, <1>15 DEF IInv

-------------------------------------------------------------------------------
(***************************************************************************)
(* The steps.  Each lemma is one action.                                   *)
(***************************************************************************)

\* What the invariant says of the constants and of the accepted endpoint.
LEMMA Facts ==
  ASSUME IInv
  PROVE  /\ FirstId \in Nat /\ Len(ends) \in Nat /\ ends \in Seq(Nat)
         /\ INDEX_ENTRY_LEN \in Nat \ {0} /\ RECORDS_PER_FILE \in Nat \ {0}
         /\ MAX_SEQUENCE \in Nat
         /\ file \in [Outputs -> Seq(Byte)] /\ buffer \in [Outputs -> Seq(Byte)]
         /\ accepted \in [Outputs -> Seq(Byte)]
         /\ visible \in [Outputs -> Nat] /\ durable \in [Outputs -> Nat]
         /\ cursor \in Nat
         /\ buffered_end.seq \in Int /\ flushed_end.seq \in Int /\ synced_end.seq \in Int
         /\ "log" \in Outputs /\ "index" \in Outputs
         /\ Count(buffered_end) = Len(ends)
         /\ Len(accepted["log"]) = buffered_end.pos
         /\ Len(accepted["index"]) = Len(ends) * INDEX_ENTRY_LEN
<1>1. /\ ends \in Seq(Nat) /\ Len(ends) \in Nat /\ FirstId \in Nat
      /\ INDEX_ENTRY_LEN \in Nat \ {0} /\ RECORDS_PER_FILE \in Nat \ {0}
      /\ MAX_SEQUENCE \in Nat
  BY FirstIdType, WriterAssumption, LocationAssumption DEF IInv, TypeOK, SequenceNumber
<1>2. /\ file \in [Outputs -> Seq(Byte)] /\ buffer \in [Outputs -> Seq(Byte)]
      /\ accepted \in [Outputs -> Seq(Byte)]
      /\ visible \in [Outputs -> Nat] /\ durable \in [Outputs -> Nat]
      /\ cursor \in Nat
  BY DEF IInv, TypeOK
<1>3. Len(ends) <= RECORDS_PER_FILE /\ FirstId + Len(ends) - 1 <= MAX_SEQUENCE
  BY <1>1 DEF IInv, TypeOK, ProgressInv, SequenceNumber
<1>4. /\ Count(EndOf(ends)) = Len(ends)
      /\ ends # << >> => EndOf(ends).pos = ends[Len(ends)]
      /\ ends = << >> => EndOf(ends) = NoEnd
  BY <1>1, <1>3, EndOfProperties
<1>5. Len(accepted["log"]) = buffered_end.pos
  BY <1>4 DEF IInv, AcceptedInv, ProgressInv, LogLayout, NoEnd
<1>6. Len(accepted["index"]) = Len(ends) * INDEX_ENTRY_LEN
  BY DEF IInv, AcceptedInv, IndexLayout
<1>7. buffered_end.seq \in Int /\ flushed_end.seq \in Int /\ synced_end.seq \in Int
  <2>1. \A e \in OptionalEnd : e.seq \in Int
    BY LocationAssumption DEF OptionalEnd, EndLocation, NoEnd, SequenceNumber
  <2> QED BY <2>1 DEF IInv, TypeOK
<1> QED BY <1>1, <1>2, <1>4, <1>5, <1>6, <1>7 DEF IInv, ProgressInv, Outputs

\* The sizes and offsets are natural numbers.
LEMMA Numbers ==
  ASSUME IInv, NEW f \in Outputs
  PROVE  /\ Len(file[f]) \in Nat /\ Len(accepted[f]) \in Nat /\ Len(buffer[f]) \in Nat
         /\ visible[f] \in Nat /\ durable[f] \in Nat
         /\ durable[f] <= visible[f] /\ visible[f] <= Len(file[f])
         /\ Len(file[f]) <= Len(accepted[f])
<1>1. /\ file \in [Outputs -> Seq(Byte)] /\ buffer \in [Outputs -> Seq(Byte)]
      /\ accepted \in [Outputs -> Seq(Byte)]
      /\ visible \in [Outputs -> Nat] /\ durable \in [Outputs -> Nat]
  BY Facts
<1>2. /\ Len(file[f]) \in Nat /\ Len(accepted[f]) \in Nat /\ Len(buffer[f]) \in Nat
      /\ visible[f] \in Nat /\ durable[f] \in Nat
  BY <1>1
<1>3. /\ durable[f] <= visible[f] /\ visible[f] <= Len(file[f])
      /\ Len(file[f]) <= Len(accepted[f])
  BY DEF IInv, PrefixInv
<1> QED BY <1>2, <1>3

\* Dropping the future.
LEMMA AbandonStep == IInv /\ abandon => IInv'
<1> SUFFICES ASSUME IInv, abandon PROVE IInv'
  OBVIOUS
<1> USE DEF abandon, progress, files, history
<1>1. state = "Unusable" /\ Busy /\ step' = "idle"
  BY DEF IInv, FutureInv
<1>2. TypeOK'
  BY DEF IInv, TypeOK
<1>3. ProgressInv' /\ AcceptedInv' /\ OrderInv' /\ \A f \in Outputs : PrefixInv(f)'
  BY DEF IInv, ProgressInv, AcceptedInv, OrderInv, PrefixInv
<1>4. \A f \in Outputs : BatchInv(f)'
  BY <1>1 DEF BatchInv, Live, Busy
<1>5. FutureInv'
  BY <1>1 DEF FutureInv, Settled, Busy
<1>6. BoundaryInv'
  BY <1>1 DEF IInv, BoundaryInv, Covers, Count
<1> QED BY <1>2, <1>3, <1>4, <1>5, <1>6 DEF IInv

\* into_inner.
LEMMA IntoInnerStep == IInv /\ into_inner => IInv'
<1> SUFFICES ASSUME IInv, into_inner PROVE IInv'
  OBVIOUS
<1> USE DEF into_inner, progress, files, history
<1>1. ~ Busy /\ step' = "gone" /\ ~ Busy' /\ buffer' = Empty
  BY DEF Busy
<1>2. TypeOK'
  BY DEF IInv, TypeOK, Empty
<1>3. ProgressInv' /\ AcceptedInv' /\ OrderInv' /\ \A f \in Outputs : PrefixInv(f)'
  BY DEF IInv, ProgressInv, AcceptedInv, OrderInv, PrefixInv
<1>4. \A f \in Outputs : BatchInv(f)'
  BY <1>1 DEF BatchInv, Live
<1>5. FutureInv'
  BY <1>1 DEF IInv, FutureInv, Settled, Empty, Busy
<1>6. BoundaryInv'
  BY <1>1 DEF IInv, BoundaryInv, Covers, Count
<1> QED BY <1>2, <1>3, <1>4, <1>5, <1>6 DEF IInv

\* finalize: a synchronised writer has empty batches.
LEMMA FinalizeStep == IInv /\ finalize => IInv'
<1> SUFFICES ASSUME IInv, finalize PROVE IInv'
  OBVIOUS
<1> USE DEF finalize, check_open, progress, future, files, history
<1>1. ~ Busy /\ ~ Busy' /\ state = "Open" /\ step # "gone" /\ state' = "Finalized"
  BY DEF Busy
<1>2. flushed_end.seq = buffered_end.seq /\ buffered_end # NoEnd /\ flushed_end # NoEnd
      /\ Count(flushed_end) = Len(ends) /\ flushed_end.pos = buffered_end.pos
  <2>1. flushed_end \in OptionalEnd /\ buffered_end \in OptionalEnd
    BY DEF IInv, TypeOK
  <2>2. buffered_end # NoEnd /\ Len(ends) # 0
    BY Facts DEF IInv, ProgressInv, is_full, Count
  <2>3. flushed_end.seq = buffered_end.seq
    BY <2>1 DEF IInv, BoundaryInv, OptionalEnd, EndLocation, NoEnd, SequenceNumber
  <2>4. flushed_end # NoEnd
    BY <2>1, <2>2, <2>3 DEF OptionalEnd, EndLocation, NoEnd, SequenceNumber
  <2>5. Count(flushed_end) = Len(ends)
    BY <2>2, <2>3, <2>4, Facts DEF Count
  <2>6. flushed_end.pos = ends[Len(ends)]
    BY <2>4, <2>5 DEF IInv, BoundaryInv, Covers
  <2>7. buffered_end.pos = ends[Len(ends)]
    BY <2>2 DEF IInv, ProgressInv, EndOf
  <2> QED BY <2>2, <2>3, <2>4, <2>5, <2>6, <2>7
<1>3. \A f \in Outputs : visible[f] = Len(file[f]) /\ ~ write_error[f]
  BY <1>1 DEF IInv, FutureInv, Settled
<1>4. \A f \in Outputs : Len(file[f]) = Len(accepted[f])
  BY <1>1, <1>2, Facts DEF IInv, BoundaryInv, Outputs
<1>5. \A f \in Outputs : Len(buffer[f]) = 0
  <2> SUFFICES ASSUME NEW f \in Outputs PROVE Len(buffer[f]) = 0
    OBVIOUS
  <2>1. Sent(f) = Len(file[f])
    BY <1>1, Facts DEF Sent, Busy
  <2>2. Sent(f) + Len(buffer[f]) = Len(accepted[f])
    BY <1>1, <1>3 DEF IInv, BatchInv, Live
  <2> QED BY <2>1, <2>2, <1>4, Facts
<1>6. buffer = Empty
  BY <1>5 DEF IInv, TypeOK, Empty
<1>7. TypeOK'
  BY DEF IInv, TypeOK
<1>8. ProgressInv' /\ AcceptedInv' /\ OrderInv' /\ \A f \in Outputs : PrefixInv(f)'
  BY DEF IInv, ProgressInv, AcceptedInv, OrderInv, PrefixInv
<1>9. \A f \in Outputs : BatchInv(f)'
  BY <1>1 DEF BatchInv, Live
<1>10. FutureInv'
  BY <1>1, <1>3, <1>6 DEF IInv, FutureInv, Settled, Busy, is_full
<1>11. BoundaryInv'
  BY <1>1 DEF IInv, BoundaryInv, Covers, Count
<1> QED BY <1>7, <1>8, <1>9, <1>10, <1>11 DEF IInv

\* flush (and sync_data's flush) starts with the log.
LEMMA StartFlushStep ==
  ASSUME IInv, NEW sync \in BOOLEAN, start_flush(sync) PROVE IInv'
<1> USE DEF start_flush, check_open, EnterOutput, progress, files, history
<1>1. /\ state = "Open" /\ step = "idle" /\ state' = "Unusable"
      /\ step' \in {"flush", "write"} /\ out' = "log" /\ cursor' = 0
      /\ Busy' /\ ~ Busy
  BY DEF Busy
<1>2. TypeOK'
  BY <1>1 DEF IInv, TypeOK, Outputs
<1>3. ProgressInv' /\ AcceptedInv' /\ OrderInv' /\ \A f \in Outputs : PrefixInv(f)'
  BY DEF IInv, ProgressInv, AcceptedInv, OrderInv, PrefixInv
<1>4. \A f \in Outputs : visible[f] = Len(file[f]) /\ ~ write_error[f]
  BY <1>1 DEF IInv, FutureInv, Settled
<1>5. ASSUME NEW f \in Outputs PROVE BatchInv(f)'
  <2>1. Sent(f)' = Sent(f)
    BY <1>1, Facts DEF Sent
  <2>2. Live
    BY <1>1 DEF Live
  <2> QED BY <1>4, <2>1, <2>2 DEF IInv, BatchInv
<1>6. FutureInv'
  <2>1. \A f \in Outputs : visible'[f] = Len(file'[f]) /\ ~ write_error'[f]
    BY <1>4
  <2>2. step' = "write" => cursor' < Len(buffer'[out'])
    <3> SUFFICES ASSUME step' = "write" PROVE 0 < Len(buffer["log"])
      BY <1>1
    <3>1. buffer["log"] # << >> /\ buffer["log"] \in Seq(Byte)
      BY Facts DEF IInv, TypeOK
    <3> QED BY <3>1
  <2>3. step' = "flush" => buffer'[out'] = << >>
    BY <1>1
  <2>4. \A f \in Outputs : f # out' => usable'[f]
    BY <1>1 DEF IInv, TypeOK, FutureInv
  <2> QED BY <1>1, <2>1, <2>2, <2>3, <2>4 DEF FutureInv
<1>7. BoundaryInv'
  BY <1>1 DEF IInv, BoundaryInv, Covers, Count
<1> QED BY <1>2, <1>3, <1>5, <1>6, <1>7 DEF IInv

\* sync_data with nothing to flush: both batches are empty.
LEMMA StartSyncStep == IInv /\ start_sync => IInv'
<1> SUFFICES ASSUME IInv, start_sync PROVE IInv'
  OBVIOUS
<1> USE DEF start_sync, check_open, progress, files, history
<1>1. /\ state = "Open" /\ step = "idle" /\ state' = "Unusable"
      /\ step' = "sync" /\ out' = "log" /\ cursor' = 0
      /\ Busy' /\ ~ Busy
  BY DEF Busy
<1>2. TypeOK'
  BY <1>1 DEF IInv, TypeOK, Outputs
<1>3. ProgressInv' /\ AcceptedInv' /\ OrderInv' /\ \A f \in Outputs : PrefixInv(f)'
  BY DEF IInv, ProgressInv, AcceptedInv, OrderInv, PrefixInv
<1>4. \A f \in Outputs : visible[f] = Len(file[f]) /\ ~ write_error[f]
  BY <1>1 DEF IInv, FutureInv, Settled
<1>5. \A f \in Outputs : Sent(f)' = Sent(f) /\ Sent(f) = Len(file[f])
  BY <1>1, Facts DEF Sent
<1>6. \A f \in Outputs : Sent(f) + Len(buffer[f]) = Len(accepted[f])
  BY <1>1, <1>4 DEF IInv, BatchInv, Live
<1>7. \A f \in Outputs : buffer[f] = << >>
  <2>1. \A f \in Outputs : Len(file[f]) = Len(accepted[f])
    BY <1>1, Facts DEF IInv, BoundaryInv, Outputs
  <2>2. \A f \in Outputs : Len(buffer[f]) = 0 /\ buffer[f] \in Seq(Byte)
    BY <2>1, <1>5, <1>6, Facts DEF IInv, TypeOK
  <2> QED BY <2>2
<1>8. \A f \in Outputs : BatchInv(f)'
  BY <1>1, <1>4, <1>5 DEF IInv, BatchInv, Live
<1>9. FutureInv'
  <2>1. \A f \in Outputs : f # out' => usable'[f]
    BY <1>1 DEF IInv, TypeOK, FutureInv
  <2> QED BY <1>1, <1>4, <1>7, <2>1, Facts DEF FutureInv
<1>10. BoundaryInv'
  BY <1>1 DEF IInv, BoundaryInv, Covers, Count
<1> QED BY <1>2, <1>3, <1>8, <1>9, <1>10 DEF IInv

\* One write of n bytes of f's batch.
LEMMA FlushBufferStep ==
  ASSUME IInv, NEW f \in Outputs, flush_buffer(f) PROVE IInv'
<1> USE DEF progress, history
<1>1. PICK n \in 1 .. Len(buffer[f]) - cursor :
        /\ step = "write" /\ out = f
        /\ ~ write_error[f]
        /\ file' = [file EXCEPT ![f] = @ \o SubSeq(buffer[f], cursor + 1, cursor + n)]
        /\ IF cursor + n = Len(buffer[f])
             THEN /\ buffer' = [buffer EXCEPT ![f] = << >>]
                  /\ step' = "flush" /\ cursor' = 0
             ELSE /\ cursor' = cursor + n
                  /\ UNCHANGED <<buffer, step>>
        /\ UNCHANGED <<state, progress, usable, out, syncing, visible, durable,
                       write_error, history>>
  BY DEF flush_buffer
<1>2. /\ Busy /\ Busy' /\ state = "Unusable" /\ cursor \in Nat
      /\ Sent(f) >= 0 /\ Sent(f) = Len(file[f]) - cursor
      /\ Sent(f) + Len(buffer[f]) = Len(accepted[f])
      /\ \A i \in 1 .. Len(buffer[f]) : buffer[f][i] = accepted[f][Sent(f) + i]
  BY <1>1 DEF IInv, TypeOK, FutureInv, BatchInv, Live, Busy, Sent
<1>0. /\ file \in [Outputs -> Seq(Byte)] /\ buffer \in [Outputs -> Seq(Byte)]
      /\ accepted \in [Outputs -> Seq(Byte)]
      /\ visible \in [Outputs -> Nat] /\ durable \in [Outputs -> Nat]
      /\ cursor \in Nat
  BY Facts
<1>a. PICK L \in Nat, B \in Nat, A \in Nat :
        L = Len(file[f]) /\ B = Len(buffer[f]) /\ A = Len(accepted[f])
  <2>1. Len(file[f]) \in Nat /\ Len(buffer[f]) \in Nat /\ Len(accepted[f]) \in Nat
    BY <1>0
  <2> QED BY <2>1
<1>b. /\ cursor \in Nat /\ n \in Nat /\ n >= 1 /\ cursor + n <= B
      /\ Sent(f) = L - cursor /\ L - cursor >= 0 /\ (L - cursor) + B = A
  <2>1. n \in 1 .. B - cursor
    BY <1>a
  <2>2. Sent(f) = L - cursor /\ Sent(f) + B = A /\ Sent(f) >= 0
    BY <1>0, <1>2, <1>a
  <2> QED BY <2>1, <2>2, <1>0
<1>c. L + n <= A
  BY <1>b
<1> DEFINE sub == SubSeq(buffer[f], cursor + 1, cursor + n)
<1>3. /\ sub \in Seq(Byte) /\ Len(sub) = n
      /\ \A i \in 1 .. n : sub[i] = buffer[f][cursor + i]
  <2>1. /\ buffer[f] \in Seq(Byte) /\ cursor + 1 \in Nat /\ 1 <= cursor + 1 /\ cursor + n \in Nat
        /\ cursor + 1 <= (cursor + n) + 1 /\ cursor + n <= Len(buffer[f])
        /\ (cursor + n) - (cursor + 1) + 1 = n
        /\ \A i \in 1 .. n : (cursor + 1) + i - 1 = cursor + i
    BY <1>0, <1>a, <1>b
  <2>2. /\ SubSeq(buffer[f], cursor + 1, cursor + n) \in Seq(Byte)
        /\ Len(SubSeq(buffer[f], cursor + 1, cursor + n)) = (cursor + n) - (cursor + 1) + 1
        /\ \A i \in 1 .. (cursor + n) - (cursor + 1) + 1 :
             SubSeq(buffer[f], cursor + 1, cursor + n)[i] = buffer[f][(cursor + 1) + i - 1]
    BY <2>1, Sub, SMTT(30)
  <2> QED BY <2>1, <2>2
<1>4. /\ file'[f] = file[f] \o sub
      /\ file' \in [Outputs -> Seq(Byte)]
      /\ Len(file'[f]) = Len(file[f]) + n
      /\ \A i \in 1 .. Len(file[f]) : file'[f][i] = file[f][i]
      /\ \A i \in 1 .. n : file'[f][Len(file[f]) + i] = buffer[f][cursor + i]
      /\ \A g \in Outputs : g # f => file'[g] = file[g]
  <2>1. file[f] \in Seq(Byte) /\ file \in [Outputs -> Seq(Byte)]
    BY DEF IInv, TypeOK
  <2>2. file'[f] = file[f] \o sub /\ \A g \in Outputs : g # f => file'[g] = file[g]
    BY <1>1, <2>1
  <2> HIDE DEF sub
  <2>3. PICK s \in Seq(Byte) : s = file[f]
    BY <2>1
  <2>4. /\ s \o sub \in Seq(Byte)
        /\ Len(s \o sub) = Len(s) + Len(sub)
        /\ \A i \in 1 .. Len(s) : (s \o sub)[i] = s[i]
        /\ \A i \in 1 .. Len(sub) : (s \o sub)[Len(s) + i] = sub[i]
    <3>1. sub \in Seq(Byte)
      BY <1>3
    <3> QED BY <3>1, Concat
  <2>5. file'[f] = s \o sub /\ Len(s) = Len(file[f])
    BY <2>2, <2>3
  <2>6. file' \in [Outputs -> Seq(Byte)]
    BY <2>1, <2>3, <2>4, <1>1 DEF sub
  <2> QED BY <2>2, <2>3, <2>4, <2>5, <2>6, <1>3
<1> HIDE DEF sub
<1>5. TypeOK'
  <2>1. buffer' \in [Outputs -> Seq(Byte)] /\ cursor' \in Nat /\ step' \in {"write", "flush"}
    <3>1. CASE cursor + n = Len(buffer[f])
      <4>1. buffer' = [buffer EXCEPT ![f] = << >>] /\ << >> \in Seq(Byte)
            /\ step' = "flush" /\ cursor' = 0
        BY <3>1, <1>1
      <4> QED BY <4>1, <1>0
    <3>2. CASE cursor + n # Len(buffer[f])
      BY <3>2, <1>0, <1>1, <1>b
    <3> QED BY <3>1, <3>2
  <2> QED BY <1>1, <1>4, <2>1 DEF IInv, TypeOK
<1>6. ProgressInv' /\ AcceptedInv'
  BY <1>1 DEF IInv, ProgressInv, AcceptedInv
<1>7. ASSUME NEW g \in Outputs PROVE PrefixInv(g)'
  <2>1. CASE g # f
    BY <2>1, <1>1, <1>4 DEF IInv, PrefixInv
  <2>2. CASE g = f
    <3>1. Len(file'[f]) <= Len(accepted'[f])
      <4>1. Len(file'[f]) = L + n /\ accepted' = accepted
        BY <1>1, <1>4, <1>a
      <4> QED BY <4>1, <1>a, <1>c
    <3>2. ASSUME NEW i \in 1 .. Len(file'[f]) PROVE file'[f][i] = accepted'[f][i]
      <4>1. CASE i \in 1 .. Len(file[f])
        BY <4>1, <1>1, <1>4 DEF IInv, PrefixInv
      <4>2. CASE i > Len(file[f])
        <5> DEFINE j == i - Len(file[f])
        <5>1. j \in 1 .. n /\ i = Len(file[f]) + j /\ cursor + j \in 1 .. Len(buffer[f])
              /\ Sent(f) + (cursor + j) = i
          <6>1. i \in 1 .. L + n /\ i > L /\ j = i - L
            BY <4>2, <1>4, <1>a
          <6>2. /\ j \in 1 .. n /\ i = L + j /\ cursor + j \in 1 .. B
                /\ (L - cursor) + (cursor + j) = i
            BY <6>1, <1>b, SMTT(30)
          <6> QED BY <6>2, <1>a, <1>b
        <5> HIDE DEF j
        <5>2. file'[f][i] = buffer[f][cursor + j]
          BY <5>1, <1>4
        <5>3. buffer[f][cursor + j] = accepted[f][Sent(f) + (cursor + j)]
          BY <5>1, <1>2
        <5> QED BY <5>1, <5>2, <5>3, <1>1
      <4>3. i \in 1 .. L + n
        BY <1>4, <1>a
      <4>4. i \in 1 .. L \/ i > L
        BY <4>3
      <4> QED BY <4>1, <4>2, <4>4, <1>a
    <3>3. visible'[f] <= Len(file'[f]) /\ durable'[f] <= visible'[f]
      BY <1>0, <1>1, <1>4, SMTT(30) DEF IInv, PrefixInv
    <3> QED BY <2>2, <3>1, <3>2, <3>3 DEF PrefixInv
  <2> QED BY <2>1, <2>2
<1>8. ASSUME NEW g \in Outputs PROVE BatchInv(g)'
  <2>1. CASE g # f
    <3>1. Sent(g)' = Sent(g) /\ buffer'[g] = buffer[g] /\ Live
      BY <2>1, <1>1, <1>2, <1>4 DEF Sent, Live, IInv, TypeOK
    <3> QED BY <3>1, <1>1 DEF IInv, BatchInv
  <2>2. CASE g = f
    <3>1. CASE cursor + n = Len(buffer[f])
      <4>1. Sent(f)' = Len(file[f]) + n /\ buffer'[f] = << >> /\ accepted' = accepted
        BY <3>1, <1>0, <1>1, <1>4 DEF Sent, IInv, TypeOK
      <4>2. Len(buffer'[f]) = 0
        BY <4>1
      <4>3. Sent(f)' >= 0 /\ Sent(f)' + 0 = Len(accepted[f])
        <5>1. Sent(f)' = L + n /\ cursor + n = B
          BY <3>1, <4>1, <1>a
        <5>2. L + n >= 0 /\ (L + n) + 0 = A
          BY <5>1, <1>b
        <5> QED BY <5>1, <5>2, <1>a
      <4> QED BY <2>2, <4>1, <4>2, <4>3 DEF BatchInv
    <3>2. CASE cursor + n # Len(buffer[f])
      <4>1. Sent(f)' = Sent(f) /\ buffer' = buffer /\ accepted' = accepted
        BY <3>2, <1>0, <1>1, <1>2, <1>4, SMTT(30) DEF Sent
      <4> QED BY <2>2, <4>1, <1>2 DEF BatchInv
    <3> QED BY <3>1, <3>2
  <2> QED BY <2>1, <2>2
<1>9. FutureInv'
  <2>1. step' = "write" => cursor' < Len(buffer'[out'])
    BY <1>1, <1>a, <1>b
  <2>2. step' = "flush" => buffer'[out'] = << >>
    BY <1>1 DEF IInv, TypeOK
  <2>3. out' = "index" => buffer'["log"] = << >>
    BY <1>1, <1>2, Facts DEF IInv, FutureInv, TypeOK
  <2>4. \A g \in Outputs : Settled(g)' => visible'[g] = Len(file'[g]) /\ ~ write_error'[g]
    <3> SUFFICES ASSUME NEW g \in Outputs, Settled(g)'
                 PROVE  visible'[g] = Len(file'[g]) /\ ~ write_error'[g]
      OBVIOUS
    <3>1. g # f /\ Settled(g)
      BY <1>1, <1>2 DEF Settled
    <3> QED BY <3>1, <1>1, <1>4 DEF IInv, FutureInv
  <2>5. \A g \in Outputs : g # out' => usable'[g]
    BY <1>1, <1>2 DEF IInv, FutureInv
  <2> QED BY <1>1, <1>2, <2>1, <2>2, <2>3, <2>4, <2>5 DEF FutureInv
<1>10. BoundaryInv'
  BY <1>1, <1>2 DEF IInv, BoundaryInv, Covers, Count
<1>11. OrderInv'
  <2>1. CASE f = "log"
    BY <2>1, <1>1, <1>4, Facts DEF IInv, OrderInv
  <2>2. CASE f = "index"
    <3>1. visible["log"] = Len(file["log"]) /\ ~ write_error["log"]
      BY <2>2, <1>1, <1>2, Facts DEF IInv, FutureInv, Settled
    <3>2. Sent("log") = Len(file["log"]) /\ buffer["log"] = << >>
      BY <2>2, <1>1, <1>2, Facts DEF Sent, IInv, FutureInv
    <3>3. Len(file["log"]) = Len(accepted["log"])
      <4>1. Sent("log") + Len(buffer["log"]) = Len(accepted["log"])
        BY <3>1, <1>2, Facts DEF IInv, BatchInv, Live
      <4>2. Len(buffer["log"]) = 0
        BY <3>2
      <4>3. Sent("log") \in Nat
        BY <3>2, <1>0, Facts
      <4> QED BY <4>1, <4>2, <4>3, <3>2
    <3>4. \A i \in 1 .. Len(ends) : ends[i] <= Len(accepted["log"])
      BY Facts DEF IInv, AcceptedInv, LogLayout
    <3> QED BY <3>1, <3>3, <3>4, <1>1 DEF OrderInv
  <2> QED BY <2>1, <2>2 DEF Outputs
<1> QED BY <1>5, <1>6, <1>7, <1>8, <1>9, <1>10, <1>11 DEF IInv

\* The log has been written and flushed; the index comes next.
LEMMA FlushLogStep == IInv /\ flush_log => IInv'
<1> SUFFICES ASSUME IInv, flush_log PROVE IInv'
  OBVIOUS
<1> USE DEF flush_log, EnterOutput, progress, files, history
<1>1. /\ Busy /\ Busy' /\ state = "Unusable" /\ out = "log" /\ out' = "index"
      /\ step = "flush" /\ step' \in {"write", "flush"} /\ cursor' = 0
      /\ buffer["log"] = << >>
  BY DEF IInv, FutureInv, Busy
<1>2. TypeOK'
  <2>1. usable' \in [Outputs -> BOOLEAN]
    BY DEF IInv, TypeOK
  <2>2. step' \in {"write", "flush"} /\ out' \in Outputs /\ cursor' \in Nat
    BY <1>1, Facts
  <2> QED BY <2>1, <2>2 DEF IInv, TypeOK
<1>3. ProgressInv' /\ AcceptedInv' /\ OrderInv' /\ \A f \in Outputs : PrefixInv(f)'
  BY DEF IInv, ProgressInv, AcceptedInv, OrderInv, PrefixInv
<1>4. \A f \in Outputs : visible[f] = Len(file[f]) /\ ~ write_error[f]
  BY <1>1 DEF IInv, FutureInv, Settled, Outputs
<1>5. ASSUME NEW f \in Outputs PROVE BatchInv(f)'
  <2>1. Sent(f)' = Sent(f)
    BY <1>1, Facts DEF Sent
  <2> QED BY <1>1, <1>4, <2>1 DEF IInv, BatchInv, Live
<1>6. FutureInv'
  <2>1. \A f \in Outputs : visible'[f] = Len(file'[f]) /\ ~ write_error'[f]
    BY <1>4
  <2>2. step' = "write" => cursor' < Len(buffer'[out'])
    <3> SUFFICES ASSUME step' = "write" PROVE 0 < Len(buffer["index"])
      BY <1>1
    <3>1. buffer["index"] # << >> /\ buffer["index"] \in Seq(Byte)
      BY Facts
    <3> QED BY <3>1
  <2>3. step' = "flush" => buffer'[out'] = << >>
    BY <1>1
  <2>4. \A f \in Outputs : f # out' => usable'[f]
    BY <1>1 DEF IInv, TypeOK, Outputs
  <2> QED BY <1>1, <2>1, <2>2, <2>3, <2>4 DEF FutureInv
<1>7. BoundaryInv'
  BY <1>1 DEF IInv, BoundaryInv, Covers, Count
<1> QED BY <1>2, <1>3, <1>5, <1>6, <1>7 DEF IInv

\* A writer that is Busy with empty batches and settled files has sent everything.
LEMMA AllSent ==
  ASSUME IInv, Busy, step # "write",
         \A f \in Outputs : buffer[f] = << >> /\ ~ write_error[f]
  PROVE  /\ Len(file["log"]) = buffered_end.pos
         /\ Len(file["index"]) = Len(ends) * INDEX_ENTRY_LEN
         /\ \A f \in Outputs : Len(file[f]) = Len(accepted[f])
<1>1. ASSUME NEW f \in Outputs PROVE Len(file[f]) = Len(accepted[f])
  <2>1. Sent(f) + Len(buffer[f]) = Len(accepted[f])
    BY DEF IInv, BatchInv, Live
  <2>2. Sent(f) = Len(file[f]) /\ Sent(f) \in Nat
    BY Facts DEF Sent
  <2>3. Len(buffer[f]) = 0
    OBVIOUS
  <2> QED BY <2>1, <2>2, <2>3
<1> QED BY <1>1, Facts

\* The accepted endpoint covers both files when everything has been sent.
LEMMA BufferedCovers ==
  ASSUME IInv PROVE Covers(buffered_end, Len(accepted["log"]), Len(accepted["index"]))
<1>1. CASE buffered_end = NoEnd
  BY <1>1 DEF Covers
<1>2. CASE buffered_end # NoEnd
  <2>1. ends # << >> /\ buffered_end = EndOf(ends)
    BY <1>2 DEF IInv, ProgressInv, EndOf
  <2>2. buffered_end.pos = ends[Len(ends)]
    BY <2>1 DEF EndOf
  <2>3. Count(buffered_end) = Len(ends) /\ Len(ends) \in 1 .. Len(ends)
    BY <2>1, Facts
  <2>4. buffered_end.pos <= Len(accepted["log"])
    BY <2>2, <2>3 DEF IInv, AcceptedInv, LogLayout
  <2>5. Count(buffered_end) * INDEX_ENTRY_LEN <= Len(accepted["index"])
    BY <2>3, Facts
  <2> QED BY <2>2, <2>3, <2>4, <2>5 DEF Covers
<1> QED BY <1>1, <1>2

\* Both outputs are flushed: the boundary that readers use moves.
LEMMA FlushIndexStep == IInv /\ flush_index => IInv'
<1> SUFFICES ASSUME IInv, flush_index PROVE IInv'
  OBVIOUS
<1> USE DEF flush_index, files, history
<1>1. /\ Busy /\ state = "Unusable" /\ out = "index" /\ step = "flush"
      /\ buffer["log"] = << >> /\ buffer["index"] = << >>
  BY DEF IInv, FutureInv, Busy
<1>2. \A f \in Outputs : /\ visible[f] = Len(file[f]) /\ ~ write_error[f]
                         /\ buffer[f] = << >>
  BY <1>1 DEF IInv, FutureInv, Settled, Outputs
<1>3. \/ state' = "Open" /\ step' = "idle" /\ ~ Busy'
      \/ state' = "Unusable" /\ step' = "sync" /\ out' = "log" /\ Busy'
  BY <1>1 DEF Busy
<1>4. TypeOK'
  BY <1>1 DEF IInv, TypeOK, Outputs
<1>5. ProgressInv' /\ AcceptedInv' /\ OrderInv' /\ \A f \in Outputs : PrefixInv(f)'
  BY DEF IInv, ProgressInv, AcceptedInv, OrderInv, PrefixInv
<1>6. ASSUME NEW f \in Outputs PROVE BatchInv(f)'
  <2>1. Sent(f)' = Sent(f)
    BY <1>1, <1>3, Facts DEF Sent
  <2> QED BY <1>1, <1>2, <2>1 DEF IInv, BatchInv, Live
<1>7. FutureInv'
  <2>1. usable["log"] /\ usable \in [Outputs -> BOOLEAN]
    BY <1>1, Facts DEF IInv, TypeOK, FutureInv
  <2>2. usable'["index"] /\ (~ syncing => usable'["log"])
    BY <2>1, Facts
  <2>3. \A f \in Outputs : visible'[f] = Len(file'[f]) /\ ~ write_error'[f]
    BY <1>2
  <2>4. buffer'["log"] = << >> /\ buffer'["index"] = << >>
    BY <1>1
  <2> QED BY <1>1, <1>3, <2>2, <2>3, <2>4 DEF FutureInv, Outputs, Busy
<1>8. BoundaryInv'
  <2>1. /\ Len(file["log"]) = buffered_end.pos
        /\ Len(file["index"]) = Len(ends) * INDEX_ENTRY_LEN
        /\ \A f \in Outputs : Len(file[f]) = Len(accepted[f])
    BY <1>1, <1>2, AllSent
  <2>2. Covers(buffered_end, visible["log"], visible["index"])
    BY <1>2, <2>1, BufferedCovers, Facts
  <2>3. Covers(flushed_end, visible["log"], visible["index"])'
    BY <2>2 DEF Covers, Count
  <2>4. Covers(synced_end, durable["log"], durable["index"])'
    BY DEF IInv, BoundaryInv, Covers, Count
  <2>5. synced_end'.seq <= flushed_end'.seq /\ flushed_end'.seq <= buffered_end'.seq
    <3>1. buffered_end.seq \in Int /\ flushed_end.seq \in Int /\ synced_end.seq \in Int
      BY Facts
    <3>2. synced_end.seq <= flushed_end.seq /\ flushed_end.seq <= buffered_end.seq
      BY DEF IInv, BoundaryInv
    <3>3. synced_end.seq <= buffered_end.seq
      BY <3>1, <3>2
    <3> QED BY <3>1, <3>3
  <2>6. Count(flushed_end') = Len(ends)
    BY Facts
  <2> QED BY <2>1, <2>3, <2>4, <2>5, <2>6 DEF BoundaryInv, Count
<1> QED BY <1>4, <1>5, <1>6, <1>7, <1>8 DEF IInv

\* The log is durable; the index comes next.
LEMMA SyncLogStep == IInv /\ sync_log => IInv'
<1> SUFFICES ASSUME IInv, sync_log PROVE IInv'
  OBVIOUS
<1> USE DEF sync_log, progress, history
<1>1. /\ Busy /\ Busy' /\ state = "Unusable" /\ step = "sync" /\ out = "log" /\ out' = "index"
      /\ buffer["log"] = << >> /\ buffer["index"] = << >>
  BY DEF IInv, FutureInv, Busy
<1>2. /\ durable' \in [Outputs -> Nat]
      /\ durable'["log"] = Len(file["log"]) /\ durable'["index"] = durable["index"]
      /\ durable["log"] <= durable'["log"]
  <2>1. durable' \in [Outputs -> Nat] /\ durable'["log"] = visible["log"]
        /\ durable'["index"] = durable["index"]
    BY Facts
  <2>2. durable["log"] <= visible["log"]
    BY Facts DEF IInv, PrefixInv
  <2> QED BY <2>1, <2>2
<1>3. TypeOK'
  <2>1. usable' \in [Outputs -> BOOLEAN]
    BY DEF IInv, TypeOK
  <2> QED BY <1>1, <1>2, <2>1 DEF IInv, TypeOK, Outputs
<1>4. ProgressInv' /\ AcceptedInv' /\ OrderInv'
  BY DEF IInv, ProgressInv, AcceptedInv, OrderInv
<1>5. ASSUME NEW f \in Outputs PROVE PrefixInv(f)'
  <2>1. durable'[f] <= visible'[f]
    BY <1>2, Facts DEF IInv, PrefixInv, Outputs
  <2> QED BY <2>1 DEF IInv, PrefixInv
<1>6. ASSUME NEW f \in Outputs PROVE BatchInv(f)'
  <2>1. Sent(f)' = Sent(f)
    BY <1>1 DEF Sent
  <2> QED BY <1>1, <2>1 DEF IInv, BatchInv, Live
<1>7. FutureInv'
  <2>1. \A f \in Outputs : f # out' => usable'[f]
    BY <1>1 DEF IInv, TypeOK, Outputs
  <2>2. \A f \in Outputs : visible'[f] = Len(file'[f]) /\ ~ write_error'[f]
    BY <1>1 DEF IInv, FutureInv, Settled
  <2> QED BY <1>1, <1>2, <2>1, <2>2 DEF IInv, FutureInv
<1>8. BoundaryInv'
  <2>1. Covers(synced_end, durable["log"], durable["index"])'
    <3>0. synced_end # NoEnd => synced_end.pos \in Nat
      BY DEF IInv, TypeOK, OptionalEnd, EndLocation
    <3>1. synced_end # NoEnd => synced_end.pos <= durable["log"]
      BY DEF IInv, BoundaryInv, Covers
    <3>2. durable["log"] \in Nat /\ durable'["log"] \in Nat
      BY <1>2, Facts
    <3>3. synced_end # NoEnd => synced_end.pos <= durable'["log"]
      BY <3>0, <3>1, <3>2, <1>2
    <3> QED BY <3>3, <1>2 DEF IInv, BoundaryInv, Covers, Count
  <2>2. Covers(flushed_end, visible["log"], visible["index"])'
    BY DEF IInv, BoundaryInv, Covers, Count
  <2> QED BY <1>1, <2>1, <2>2 DEF IInv, BoundaryInv, Count
<1> QED BY <1>3, <1>4, <1>5, <1>6, <1>7, <1>8 DEF IInv

\* Both files are durable: the synchronised boundary moves.
LEMMA SyncIndexStep == IInv /\ sync_index => IInv'
<1> SUFFICES ASSUME IInv, sync_index PROVE IInv'
  OBVIOUS
<1> USE DEF sync_index, history
<1>1. /\ Busy /\ ~ Busy' /\ state = "Unusable" /\ step = "sync" /\ out = "index"
      /\ state' = "Open" /\ step' = "idle"
      /\ buffer["log"] = << >> /\ buffer["index"] = << >>
      /\ flushed_end = buffered_end
      /\ durable["log"] = Len(file["log"])
  BY DEF IInv, FutureInv, Busy
<1>2. \A f \in Outputs : /\ visible[f] = Len(file[f]) /\ ~ write_error[f]
                         /\ buffer[f] = << >>
  BY <1>1 DEF IInv, FutureInv, Settled, Outputs
<1>3. /\ durable' \in [Outputs -> Nat]
      /\ \A f \in Outputs : durable'[f] = visible[f]
  <2>1. durable' \in [Outputs -> Nat] /\ durable'["index"] = visible["index"]
        /\ durable'["log"] = durable["log"]
    BY Facts
  <2> QED BY <2>1, <1>1, <1>2 DEF Outputs
<1>4. TypeOK'
  BY <1>1, <1>3 DEF IInv, TypeOK
<1>5. ProgressInv' /\ AcceptedInv' /\ OrderInv'
  BY DEF IInv, ProgressInv, AcceptedInv, OrderInv
<1>6. ASSUME NEW f \in Outputs PROVE PrefixInv(f)'
  <2>1. durable'[f] = visible[f] /\ visible' = visible /\ visible[f] \in Nat
    BY <1>3, Numbers
  <2> QED BY <2>1 DEF IInv, PrefixInv
<1>7. ASSUME NEW f \in Outputs PROVE BatchInv(f)'
  <2>1. Sent(f)' = Sent(f)
    BY <1>1 DEF Sent
  <2> QED BY <1>1, <1>2, <2>1 DEF IInv, BatchInv, Live
<1>8. FutureInv'
  <2>1. \A f \in Outputs : usable'[f]
    BY <1>1 DEF IInv, FutureInv, TypeOK, Outputs
  <2>2. \A f \in Outputs : visible'[f] = Len(file'[f]) /\ ~ write_error'[f]
    BY <1>2
  <2> QED BY <1>1, <2>1, <2>2 DEF FutureInv
<1>9. BoundaryInv'
  <2>1. Covers(flushed_end, visible["log"], visible["index"])
    BY DEF IInv, BoundaryInv
  <2>2. durable'["log"] = visible["log"] /\ durable'["index"] = visible["index"]
    BY <1>3, Facts
  <2>3. /\ Covers(flushed_end, visible["log"], visible["index"])'
        /\ Covers(synced_end, durable["log"], durable["index"])'
    BY <2>1, <2>2 DEF Covers, Count
  <2>4. /\ Len(file["log"]) = buffered_end.pos
        /\ Len(file["index"]) = Len(ends) * INDEX_ENTRY_LEN
    BY <1>1, <1>2, AllSent
  <2>5. Count(flushed_end) = Len(ends) /\ flushed_end.seq \in Int
    BY <1>1, Facts
  <2> QED BY <1>1, <2>3, <2>4, <2>5 DEF BoundaryInv, Count
<1> QED BY <1>4, <1>5, <1>6, <1>7, <1>8, <1>9 DEF IInv

\* A file writes some of what it took.
LEMMA CompleteWriteStep ==
  ASSUME IInv, NEW f \in Outputs, complete_write(f) PROVE IInv'
<1> USE DEF progress, future, history
<1>1. PICK n \in visible[f] + 1 .. Len(file[f]) :
        /\ visible' = [visible EXCEPT ![f] = n]
        /\ UNCHANGED <<state, progress, buffer, usable, future, file, durable,
                       write_error, history>>
  BY DEF complete_write
<1>2. /\ n \in Nat /\ visible' \in [Outputs -> Nat]
      /\ n <= Len(file[f]) /\ visible'[f] = n
      /\ \A g \in Outputs : visible[g] <= visible'[g]
      /\ \A g \in Outputs : g # f => visible'[g] = visible[g]
      /\ visible[f] # Len(file[f])
  <2>1. Len(file[f]) \in Nat /\ visible[f] \in Nat /\ visible \in [Outputs -> Nat]
    BY Numbers, Facts
  <2>2. n \in Nat /\ n <= Len(file[f]) /\ visible[f] < n /\ visible[f] # Len(file[f])
    BY <2>1
  <2>3. /\ visible' \in [Outputs -> Nat] /\ visible'[f] = n
        /\ \A g \in Outputs : g # f => visible'[g] = visible[g]
    BY <2>1, <2>2, <1>1
  <2>4. \A g \in Outputs : visible[g] <= visible'[g]
    BY <2>1, <2>2, <2>3
  <2> QED BY <2>2, <2>3, <2>4
<1>3. ~ Settled(f) /\ \A g \in Outputs : Settled(g)' <=> Settled(g)
  BY <1>1, <1>2 DEF IInv, FutureInv, Settled, Busy
<1>4. TypeOK'
  BY <1>1, <1>2 DEF IInv, TypeOK
<1>5. ProgressInv' /\ AcceptedInv'
  BY <1>1 DEF IInv, ProgressInv, AcceptedInv
<1>6. OrderInv'
  <2>1. visible["log"] <= visible'["log"] /\ visible["log"] \in Nat /\ visible'["log"] \in Nat
        /\ \A i \in 1 .. Len(ends) : ends[i] \in Nat
    <3>1. ends \in Seq(Nat) /\ "log" \in Outputs /\ visible \in [Outputs -> Nat]
      BY Facts
    <3> QED BY <3>1, <1>2
  <2> QED BY <2>1, <1>1 DEF IInv, OrderInv
<1>7. ASSUME NEW g \in Outputs PROVE PrefixInv(g)'
  <2>1. visible'[g] <= Len(file[g]) /\ durable[g] <= visible'[g]
    <3>1. /\ durable[g] <= visible[g] /\ visible[g] <= Len(file[g])
          /\ durable[g] \in Nat /\ visible[g] \in Nat /\ Len(file[g]) \in Nat
      BY Numbers
    <3>2. visible[g] <= visible'[g] /\ visible'[g] \in Nat
      BY <1>2
    <3>3. visible'[g] <= Len(file[g])
      BY <1>2, <3>1
    <3> QED BY <3>1, <3>2, <3>3
  <2> QED BY <2>1, <1>1 DEF IInv, PrefixInv
<1>8. ASSUME NEW g \in Outputs PROVE BatchInv(g)'
  BY <1>1 DEF IInv, BatchInv, Live, Busy, Sent
<1>9. FutureInv'
  <2>1. \A g \in Outputs : Settled(g)' => visible'[g] = Len(file'[g]) /\ ~ write_error'[g]
    BY <1>1, <1>2, <1>3 DEF IInv, FutureInv
  <2> QED BY <1>1, <2>1 DEF IInv, FutureInv, Busy
<1>10. BoundaryInv'
  <2>1. Covers(flushed_end, visible["log"], visible["index"])'
    <3> SUFFICES ASSUME flushed_end # NoEnd
                 PROVE  Covers(flushed_end, visible["log"], visible["index"])'
      BY <1>1 DEF Covers
    <3>1. /\ Count(flushed_end) \in 1 .. Len(ends)
          /\ flushed_end.pos = ends[Count(flushed_end)]
          /\ flushed_end.pos <= visible["log"]
          /\ Count(flushed_end) * INDEX_ENTRY_LEN <= visible["index"]
      BY DEF IInv, BoundaryInv, Covers
    <3>2. /\ visible["log"] <= visible'["log"] /\ visible["index"] <= visible'["index"]
          /\ visible["log"] \in Nat /\ visible'["log"] \in Nat
          /\ visible["index"] \in Nat /\ visible'["index"] \in Nat
      BY <1>2, Facts
    <3>3. flushed_end.pos \in Nat /\ Count(flushed_end) * INDEX_ENTRY_LEN \in Nat
      <4>1. ends \in Seq(Nat) /\ INDEX_ENTRY_LEN \in Nat
        BY Facts
      <4>2. Count(flushed_end) \in Nat /\ flushed_end.pos \in Nat
        BY <4>1, <3>1
      <4> QED BY <4>1, <4>2, Times
    <3>4. flushed_end.pos <= visible'["log"]
      BY <3>1, <3>2, <3>3
    <3>5. Count(flushed_end) * INDEX_ENTRY_LEN <= visible'["index"]
      BY <3>1, <3>2, <3>3
    <3> QED BY <1>1, <3>1, <3>4, <3>5 DEF Covers, Count
  <2>2. Covers(synced_end, durable["log"], durable["index"])'
    BY <1>1 DEF IInv, BoundaryInv, Covers, Count
  <2> QED BY <1>1, <2>1, <2>2 DEF IInv, BoundaryInv, Count
<1> QED BY <1>4, <1>5, <1>6, <1>7, <1>8, <1>9, <1>10 DEF IInv

\* The rest of what a file took is lost.
LEMMA FailWriteStep ==
  ASSUME IInv, NEW f \in Outputs, fail_write(f) PROVE IInv'
<1> USE DEF fail_write, progress, future, history
<1>1. /\ visible[f] \in Nat /\ visible[f] < Len(file[f]) /\ visible[f] # Len(file[f])
      /\ file[f] \in Seq(Byte) /\ Len(file[f]) \in Nat
  <2>1. file \in [Outputs -> Seq(Byte)] /\ visible[f] \in Nat /\ Len(file[f]) \in Nat
    BY Facts, Numbers
  <2> QED BY <2>1
<1>2. /\ SubSeq(file[f], 1, visible[f]) \in Seq(Byte)
      /\ Len(SubSeq(file[f], 1, visible[f])) = visible[f]
      /\ \A i \in 1 .. visible[f] : SubSeq(file[f], 1, visible[f])[i] = file[f][i]
  BY <1>1
<1>3. /\ file' \in [Outputs -> Seq(Byte)]
      /\ Len(file'[f]) = visible[f]
      /\ \A i \in 1 .. visible[f] : file'[f][i] = file[f][i]
      /\ \A g \in Outputs : g # f => file'[g] = file[g]
      /\ write_error' \in [Outputs -> BOOLEAN]
      /\ write_error'[f]
      /\ \A g \in Outputs : g # f => write_error'[g] = write_error[g]
  BY <1>1, <1>2, Facts DEF IInv, TypeOK
<1>4. ~ Settled(f) /\ \A g \in Outputs : Settled(g)' <=> Settled(g)
  BY <1>1 DEF IInv, FutureInv, Settled, Busy
<1>5. ASSUME NEW g \in Outputs PROVE Len(file'[g]) <= Len(file[g])
  <2>1. Len(file[g]) \in Nat
    BY Numbers
  <2> QED BY <2>1, <1>1, <1>3
<1>6. TypeOK'
  BY <1>3 DEF IInv, TypeOK
<1>7. ProgressInv' /\ AcceptedInv'
  BY DEF IInv, ProgressInv, AcceptedInv
<1>8. OrderInv'
  <2> SUFFICES ASSUME NEW i \in 1 .. Len(ends),
                      (i - 1) * INDEX_ENTRY_LEN < Len(file'["index"])
               PROVE  ends[i] <= visible["log"]
    BY DEF OrderInv
  <2>1. PICK m \in Nat : m = (i - 1) * INDEX_ENTRY_LEN
    <3>1. i - 1 \in Nat /\ INDEX_ENTRY_LEN \in Nat
      BY Facts
    <3> QED BY <3>1, Times
  <2>2. m < Len(file["index"])
    <3>1. "index" \in Outputs /\ Len(file["index"]) \in Nat
      BY Facts, Numbers
    <3>2. Len(file'["index"]) <= Len(file["index"]) /\ Len(file'["index"]) \in Nat
      BY <3>1, <1>3, <1>5
    <3>3. m < Len(file'["index"])
      BY <2>1
    <3>4. PICK a \in Nat, b \in Nat : a = Len(file["index"]) /\ b = Len(file'["index"])
      BY <3>1, <3>2
    <3>5. m < b /\ b <= a
      BY <3>2, <3>3, <3>4
    <3>6. m < a
      BY <3>5
    <3> QED BY <3>4, <3>6
  <2> QED BY <2>1, <2>2 DEF IInv, OrderInv
<1>9. ASSUME NEW g \in Outputs PROVE PrefixInv(g)'
  <2>1. CASE g = f
    <3>1. Len(file'[f]) <= Len(accepted[f])
      <4>1. Len(file[f]) <= Len(accepted[f]) /\ Len(accepted[f]) \in Nat
        BY Numbers
      <4> QED BY <4>1, <1>1, <1>3
    <3>2. \A i \in 1 .. Len(file'[f]) : file'[f][i] = accepted[f][i]
      BY <1>1, <1>3 DEF IInv, PrefixInv
    <3> QED BY <2>1, <3>1, <3>2, <1>1, <1>3 DEF IInv, PrefixInv
  <2>2. CASE g # f
    BY <2>2, <1>3 DEF IInv, PrefixInv
  <2> QED BY <2>1, <2>2
<1>10. ASSUME NEW g \in Outputs PROVE BatchInv(g)'
  <2>1. CASE g = f
    BY <2>1, <1>3 DEF BatchInv
  <2>2. CASE g # f
    <3>1. Sent(g)' = Sent(g)
      BY <2>2, <1>3 DEF Sent
    <3> QED BY <2>2, <3>1, <1>3 DEF IInv, BatchInv, Live, Busy
  <2> QED BY <2>1, <2>2
<1>11. FutureInv'
  <2>1. \A g \in Outputs : Settled(g)' => visible'[g] = Len(file'[g]) /\ ~ write_error'[g]
    BY <1>3, <1>4 DEF IInv, FutureInv
  <2>2. step = "sync" /\ out = "index" => durable["log"] = Len(file'["log"])
    <3>1. step = "sync" => Settled(f)
      BY DEF Settled, Busy
    <3> QED BY <3>1, <1>4
  <2> QED BY <2>1, <2>2 DEF IInv, FutureInv, Busy
<1>12. BoundaryInv'
  <2>1. state \notin {"Open", "Finalized"}
    BY <1>4 DEF Settled
  <2> QED BY <2>1 DEF IInv, BoundaryInv, Covers, Count
<1> QED BY <1>6, <1>7, <1>8, <1>9, <1>10, <1>11, <1>12 DEF IInv

\* Where write_record puts the record that it accepts.
LEMMA WriteRecordEnd ==
  ASSUME IInv, NEW length \in Nat, ~ is_full
  PROVE  LET start == IF buffered_end = NoEnd THEN [seq |-> FirstId, pos |-> 0]
                                              ELSE next_record_start(buffered_end)
         IN  to_end(start, length) =
               [seq |-> expected_record_id, pos |-> Len(accepted["log"]) + length]
<1>1. /\ ends \in Seq(Nat) /\ Len(ends) \in Nat /\ FirstId \in Nat
      /\ RECORDS_PER_FILE \in Nat
  BY Facts
<1>2. /\ expected_record_id = FirstId + Len(ends) /\ record_count = Len(ends)
      /\ buffered_end = EndOf(ends) /\ Len(accepted["log"]) = buffered_end.pos
  BY Facts DEF IInv, ProgressInv
<1>3. Len(ends) < RECORDS_PER_FILE
  BY <1>1, <1>2 DEF IInv, TypeOK, is_full
<1>4. CASE ends = << >>
  <2>1. buffered_end = NoEnd /\ Len(ends) = 0
    BY <1>2, <1>4 DEF EndOf
  <2>2. FirstId + 0 = FirstId
    BY <1>1
  <2>3. buffered_end.pos = 0
    BY <2>1 DEF NoEnd
  <2> QED BY <2>1, <2>2, <2>3, <1>2 DEF to_end
<1>5. CASE ends # << >>
  <2>1. /\ Len(ends) - 1 \in Nat /\ Len(ends) - 1 < RECORDS_PER_FILE
        /\ FirstId + (Len(ends) - 1) = FirstId + Len(ends) - 1
        /\ (FirstId + Len(ends) - 1) + 1 = FirstId + Len(ends)
    BY <1>1, <1>3, <1>5
  <2>2. /\ from_record_id(FirstId + Len(ends)) = FileNumber
        /\ from_record_id(FirstId + (Len(ends) - 1)) = FileNumber
    BY <1>1, <1>3, <2>1, InFile
  <2>3. buffered_end = [seq |-> FirstId + Len(ends) - 1, pos |-> ends[Len(ends)]]
    BY <1>2, <1>5 DEF EndOf
  <2>4. buffered_end.seq = FirstId + Len(ends) - 1 /\ buffered_end # NoEnd
    <3>1. buffered_end.seq = FirstId + Len(ends) - 1
      BY <2>3
    <3>2. FirstId + Len(ends) - 1 # -1 /\ NoEnd.seq = -1
      BY <1>1, <2>1 DEF NoEnd
    <3> QED BY <3>1, <3>2
  <2>5. from_record_id(buffered_end.seq + 1) = from_record_id(buffered_end.seq)
    BY <2>1, <2>2, <2>4
  <2>6. next_record_start(buffered_end) =
          [seq |-> expected_record_id, pos |-> buffered_end.pos]
    BY <2>1, <2>4, <2>5, <1>2 DEF next_record_start
  <2> QED BY <2>4, <2>6, <1>2 DEF to_end
<1> QED BY <1>4, <1>5

\* write_record extends the accepted bytes and both batches by one record.
LEMMA WriteRecordStep ==
  ASSUME IInv, NEW id \in SequenceNumber, NEW length \in Lengths,
         write_record(id, length)
  PROVE  IInv'
<1> DEFINE A == Len(accepted["log"])
           P == A + length
           lb == LogBytes(id, length)
           ib == IndexBytes(P)
<1>1. /\ check_open /\ ~ is_full /\ id = expected_record_id
      /\ expected_record_id < MAX_SEQUENCE /\ length \in Nat \ {0}
  BY WriterAssumption DEF write_record
<1>2. /\ buffer' = Pair(buffer["log"] \o lb, buffer["index"] \o ib)
      /\ record_count' = record_count + 1
      /\ buffered_end' = [seq |-> id, pos |-> P]
      /\ expected_record_id' = expected_record_id + 1
      /\ accepted' = Pair(accepted["log"] \o lb, accepted["index"] \o ib)
      /\ ends' = Append(ends, P)
      /\ UNCHANGED <<state, flushed_end, synced_end, usable, future, files>>
  <2>1. LET start == IF buffered_end = NoEnd THEN [seq |-> FirstId, pos |-> 0]
                                             ELSE next_record_start(buffered_end)
        IN  to_end(start, length) = [seq |-> id, pos |-> P]
    BY <1>1, WriteRecordEnd
  <2>2. [seq |-> id, pos |-> P].pos = P
    OBVIOUS
  <2> QED BY <2>1, <2>2 DEF write_record
<1>3. /\ ends \in Seq(Nat) /\ Len(ends) \in Nat /\ FirstId \in Nat
      /\ RECORDS_PER_FILE \in Nat /\ INDEX_ENTRY_LEN \in Nat \ {0} /\ MAX_SEQUENCE \in Nat
      /\ file \in [Outputs -> Seq(Byte)] /\ buffer \in [Outputs -> Seq(Byte)]
      /\ accepted \in [Outputs -> Seq(Byte)]
      /\ "log" \in Outputs /\ "index" \in Outputs
  BY Facts
<1>4. /\ record_count = Len(ends) /\ id = FirstId + Len(ends)
      /\ A \in Nat /\ P \in Nat
  BY <1>1, <1>3, Numbers DEF IInv, ProgressInv
<1>5. /\ lb \in Seq(Byte) /\ Len(lb) = length
      /\ ib \in Seq(Byte) /\ Len(ib) = INDEX_ENTRY_LEN
      /\ \A i \in 1 .. length :
           lb[i] = [seq |-> FirstId + Len(ends), k |-> i, len |-> length]
      /\ \A i \in 1 .. INDEX_ENTRY_LEN : ib[i] = [end |-> P, k |-> i]
  <2>1. lb \in Seq(Byte) /\ Len(lb) = length
    BY <1>1, EncodingType
  <2>2. ib \in Seq(Byte) /\ Len(ib) = INDEX_ENTRY_LEN
    BY <1>4, EncodingType
  <2>3. \A i \in 1 .. length :
          lb[i] = [seq |-> FirstId + Len(ends), k |-> i, len |-> length]
    BY <1>4 DEF LogBytes
  <2>4. \A i \in 1 .. INDEX_ENTRY_LEN : ib[i] = [end |-> P, k |-> i]
    BY DEF IndexBytes
  <2> QED BY <2>1, <2>2, <2>3, <2>4
<1> HIDE DEF lb, ib, P, A
<1>6. /\ ends' \in Seq(Nat) /\ Len(ends') = Len(ends) + 1 /\ ends' # << >>
      /\ \A i \in 1 .. Len(ends) : ends'[i] = ends[i]
      /\ ends'[Len(ends) + 1] = P
  <2>1. ends \in Seq(Nat) /\ P \in Nat /\ ends' = Append(ends, P)
    BY <1>2, <1>3, <1>4
  <2>2. PICK e \in Seq(Nat) : e = ends
    BY <2>1
  <2>3. /\ Append(e, P) \in Seq(Nat) /\ Len(Append(e, P)) = Len(e) + 1
        /\ \A i \in 1 .. Len(e) : Append(e, P)[i] = e[i]
        /\ Append(e, P)[Len(e) + 1] = P
    BY <2>1
  <2>4. Append(e, P) # << >>
    BY <2>3
  <2> QED BY <2>1, <2>2, <2>3, <2>4
<1> DEFINE add(f) == IF f = "log" THEN lb ELSE ib
<1>7. ASSUME NEW f \in Outputs
      PROVE  /\ add(f) \in Seq(Byte)
             /\ accepted'[f] = accepted[f] \o add(f)
             /\ buffer'[f] = buffer[f] \o add(f)
  BY <1>2, <1>5 DEF Pair, Outputs
<1>8. /\ accepted' \in [Outputs -> Seq(Byte)] /\ buffer' \in [Outputs -> Seq(Byte)]
  <2>1. /\ accepted["log"] \o lb \in Seq(Byte) /\ accepted["index"] \o ib \in Seq(Byte)
        /\ buffer["log"] \o lb \in Seq(Byte) /\ buffer["index"] \o ib \in Seq(Byte)
    <3>1. /\ accepted["log"] \in Seq(Byte) /\ accepted["index"] \in Seq(Byte)
          /\ buffer["log"] \in Seq(Byte) /\ buffer["index"] \in Seq(Byte)
      BY <1>3
    <3> QED BY <3>1, <1>5, Concat
  <2> QED BY <2>1, <1>2 DEF Pair
<1> HIDE DEF add
<1>9. ASSUME NEW f \in Outputs
      PROVE  /\ Len(add(f)) \in Nat
             /\ Len(accepted'[f]) = Len(accepted[f]) + Len(add(f))
             /\ \A i \in 1 .. Len(accepted[f]) : accepted'[f][i] = accepted[f][i]
             /\ \A i \in 1 .. Len(add(f)) : accepted'[f][Len(accepted[f]) + i] = add(f)[i]
             /\ Len(buffer'[f]) = Len(buffer[f]) + Len(add(f))
             /\ \A i \in 1 .. Len(buffer[f]) : buffer'[f][i] = buffer[f][i]
             /\ \A i \in 1 .. Len(add(f)) : buffer'[f][Len(buffer[f]) + i] = add(f)[i]
  <2>1. accepted[f] \in Seq(Byte) /\ buffer[f] \in Seq(Byte) /\ add(f) \in Seq(Byte)
    BY <1>3, <1>7
  <2>2. Len(add(f)) \in Nat
    BY <2>1
  <2>3. PICK a \in Seq(Byte), b \in Seq(Byte), d \in Seq(Byte) :
          a = accepted[f] /\ b = buffer[f] /\ d = add(f)
    BY <2>1
  <2>4. accepted'[f] = a \o d /\ buffer'[f] = b \o d
    BY <2>3, <1>7
  <2>5. /\ Len(a \o d) = Len(a) + Len(d)
        /\ \A i \in 1 .. Len(a) : (a \o d)[i] = a[i]
        /\ \A i \in 1 .. Len(d) : (a \o d)[Len(a) + i] = d[i]
    BY Concat
  <2>6. /\ Len(b \o d) = Len(b) + Len(d)
        /\ \A i \in 1 .. Len(b) : (b \o d)[i] = b[i]
        /\ \A i \in 1 .. Len(d) : (b \o d)[Len(b) + i] = d[i]
    BY Concat
  <2> QED BY <2>2, <2>3, <2>4, <2>5, <2>6
<1>10. add("log") = lb /\ add("index") = ib
  BY DEF add
<1>11. AcceptedInv'
  <2>1. LogLayout(accepted'["log"], ends')
    <3>1. /\ accepted["log"] \in Seq(Byte) /\ accepted'["log"] \in Seq(Byte)
          /\ ends \in Seq(Nat) /\ ends' \in Seq(Nat)
      BY <1>3, <1>6, <1>8
    <3>2. /\ Len(accepted'["log"]) = Len(accepted["log"]) + length
          /\ \A i \in 1 .. Len(accepted["log"]) : accepted'["log"][i] = accepted["log"][i]
          /\ \A i \in 1 .. length : accepted'["log"][Len(accepted["log"]) + i] = lb[i]
      BY <1>3, <1>5, <1>9, <1>10
    <3>5. /\ Len(accepted'["log"]) - Len(accepted["log"]) = length
          /\ Len(accepted["log"]) < Len(accepted'["log"])
      <4>1. Len(accepted["log"]) \in Nat
        BY <3>1
      <4> QED BY <4>1, <3>2, <1>1
    <3>6. \A i \in 1 .. Len(accepted'["log"]) - Len(accepted["log"]) :
            accepted'["log"][Len(accepted["log"]) + i]
              = [seq |-> FirstId + Len(ends), k |-> i,
                 len |-> Len(accepted'["log"]) - Len(accepted["log"])]
      BY <3>2, <3>5, <1>5
    <3>3. LogLayout(accepted["log"], ends) /\ ends'[Len(ends) + 1] = Len(accepted'["log"])
      BY <1>6, <3>2 DEF IInv, AcceptedInv, P, A
    <3>4. /\ Len(ends') = Len(ends) + 1
          /\ \A i \in 1 .. Len(ends) : ends'[i] = ends[i]
      BY <1>1, <1>3, <1>5, <1>6
    <3> QED BY <3>1, <3>2, <3>3, <3>4, <3>5, <3>6, LogLayoutExtend
  <2>2. IndexLayout(accepted'["index"], ends')
    <3>1. /\ accepted["index"] \in Seq(Byte) /\ accepted'["index"] \in Seq(Byte)
          /\ ends \in Seq(Nat) /\ ends' \in Seq(Nat)
      BY <1>3, <1>6, <1>8
    <3>2. /\ Len(accepted'["index"]) = Len(accepted["index"]) + INDEX_ENTRY_LEN
          /\ \A i \in 1 .. Len(accepted["index"]) : accepted'["index"][i] = accepted["index"][i]
          /\ \A i \in 1 .. INDEX_ENTRY_LEN :
               accepted'["index"][Len(accepted["index"]) + i]
                 = [end |-> ends'[Len(ends) + 1], k |-> i]
      BY <1>3, <1>5, <1>6, <1>9, <1>10, ZenonT(60)
    <3>3. IndexLayout(accepted["index"], ends)
      BY DEF IInv, AcceptedInv
    <3>4. /\ Len(ends') = Len(ends) + 1
          /\ \A i \in 1 .. Len(ends) : ends'[i] = ends[i]
      BY <1>3, <1>6
    <3> QED BY <3>1, <3>2, <3>3, <3>4, IndexLayoutExtend
  <2> QED BY <2>1, <2>2 DEF AcceptedInv
<1>12. /\ state = "Open" /\ step = "idle" /\ ~ Busy /\ Live
       /\ \A f \in Outputs : visible[f] = Len(file[f]) /\ ~ write_error[f]
  BY <1>1 DEF check_open, Busy, Live, IInv, FutureInv, Settled
<1>13. Len(ends) < RECORDS_PER_FILE /\ Len(ends) + 1 <= RECORDS_PER_FILE
  <2>1. record_count \in 0 .. RECORDS_PER_FILE
    BY DEF IInv, TypeOK
  <2> QED BY <2>1, <1>1, <1>3, <1>4 DEF is_full
<1>14. ProgressInv'
  <2>1. EndOf(ends') = [seq |-> FirstId + (Len(ends) + 1) - 1, pos |-> P]
    BY <1>6 DEF EndOf
  <2>2. FirstId + (Len(ends) + 1) - 1 = id /\ id + 1 = FirstId + (Len(ends) + 1)
    BY <1>3, <1>4
  <2> QED BY <1>1, <1>2, <1>4, <1>6, <2>1, <2>2 DEF ProgressInv
<1>15. TypeOK'
  <2>1. /\ expected_record_id' \in SequenceNumber /\ record_count' \in 0 .. RECORDS_PER_FILE
        /\ buffered_end' \in OptionalEnd
    <3>1. expected_record_id' \in SequenceNumber /\ id \in SequenceNumber
      BY <1>1, <1>2, <1>3 DEF SequenceNumber
    <3>2. record_count' \in 0 .. RECORDS_PER_FILE
      BY <1>2, <1>3, <1>4, <1>13
    <3>3. [seq |-> id, pos |-> P] \in OptionalEnd
      BY <3>1, <1>4 DEF OptionalEnd, EndLocation
    <3> QED BY <3>1, <3>2, <3>3, <1>2
  <2> QED BY <2>1, <1>2, <1>6, <1>8 DEF IInv, TypeOK, future, files
<1>16. UNCHANGED <<state, flushed_end, synced_end, usable, step, out, cursor, syncing,
                   file, visible, durable, write_error>>
  BY <1>2 DEF future, files
<1>17. ASSUME NEW f \in Outputs PROVE PrefixInv(f)'
  <2>1. /\ Len(file[f]) <= Len(accepted[f]) /\ Len(file[f]) \in Nat
        /\ Len(accepted[f]) \in Nat
        /\ visible[f] <= Len(file[f]) /\ durable[f] <= visible[f]
    BY Numbers
  <2>2. Len(accepted[f]) <= Len(accepted'[f]) /\ Len(accepted'[f]) \in Nat
    BY <2>1, <1>9
  <2>3. Len(file[f]) <= Len(accepted'[f])
    BY <2>1, <2>2
  <2>4. ASSUME NEW i \in 1 .. Len(file[f]) PROVE file[f][i] = accepted'[f][i]
    <3>1. i \in 1 .. Len(accepted[f])
      BY <2>1
    <3>2. file[f][i] = accepted[f][i]
      BY DEF IInv, PrefixInv
    <3> QED BY <3>1, <3>2, <1>9
  <2> QED BY <2>1, <2>3, <2>4, <1>16 DEF PrefixInv
<1>18. ASSUME NEW f \in Outputs PROVE BatchInv(f)'
  <2>1. /\ Sent(f) = Len(file[f]) /\ Sent(f)' = Len(file[f]) /\ Len(file[f]) \in Nat
        /\ Len(accepted[f]) \in Nat /\ Len(buffer[f]) \in Nat
    BY <1>12, <1>16, Numbers DEF Sent
  <2>2. /\ Sent(f) + Len(buffer[f]) = Len(accepted[f])
        /\ \A i \in 1 .. Len(buffer[f]) : buffer[f][i] = accepted[f][Sent(f) + i]
    BY <1>12 DEF IInv, BatchInv
  <2>3. PICK L \in Nat, B \in Nat, C \in Nat, D \in Nat :
          L = Len(file[f]) /\ B = Len(buffer[f]) /\ C = Len(accepted[f]) /\ D = Len(add(f))
    BY <2>1, <1>9
  <2>4. L + B = C /\ Len(buffer'[f]) = B + D /\ Len(accepted'[f]) = C + D
    BY <2>1, <2>2, <2>3, <1>9
  <2>5. ASSUME NEW i \in 1 .. Len(buffer'[f])
        PROVE  buffer'[f][i] = accepted'[f][L + i]
    <3>1. CASE i \in 1 .. B
      <4>1. L + i \in 1 .. C
        BY <3>1, <2>4
      <4>2. buffer'[f][i] = buffer[f][i] /\ accepted'[f][L + i] = accepted[f][L + i]
        BY <3>1, <4>1, <2>3, <1>9
      <4>3. buffer[f][i] = accepted[f][L + i]
        BY <3>1, <2>1, <2>2, <2>3
      <4> QED BY <4>2, <4>3
    <3>2. CASE i > B
      <4>1. PICK j \in 1 .. D : i = B + j /\ L + i = C + j
        <5>1. i \in 1 .. B + D
          BY <2>4
        <5>2. i - B \in 1 .. D /\ i = B + (i - B) /\ L + i = C + (i - B)
          BY <5>1, <3>2, <2>4
        <5> QED BY <5>2
      <4>2. buffer'[f][B + j] = add(f)[j] /\ accepted'[f][C + j] = add(f)[j]
        BY <2>3, <1>9
      <4> QED BY <4>1, <4>2
    <3>3. i \in 1 .. B + D
      BY <2>4
    <3>4. i \in 1 .. B \/ i > B
      BY <3>3
    <3> QED BY <3>1, <3>2, <3>4
  <2>6. Sent(f)' = L /\ L >= 0 /\ L + Len(buffer'[f]) = Len(accepted'[f])
    <3>1. L + (B + D) = C + D /\ L >= 0
      BY <2>4
    <3> QED BY <3>1, <2>1, <2>3, <2>4
  <2> QED BY <2>5, <2>6 DEF BatchInv
<1>19. FutureInv'
  BY <1>12, <1>16 DEF IInv, FutureInv, Settled, Busy
<1>20. Len(ends') = Len(ends) + 1
  BY <1>6
<1>21. ASSUME NEW end, NEW logLen, NEW indexLen, Covers(end, logLen, indexLen)
       PROVE  end # NoEnd =>
                /\ Count(end) \in 1 .. Len(ends')
                /\ end.pos = ends'[Count(end)]
                /\ end.pos <= logLen
                /\ Count(end) * INDEX_ENTRY_LEN <= indexLen
  <2> SUFFICES ASSUME end # NoEnd
               PROVE  /\ Count(end) \in 1 .. Len(ends')
                      /\ end.pos = ends'[Count(end)]
                      /\ end.pos <= logLen
                      /\ Count(end) * INDEX_ENTRY_LEN <= indexLen
    OBVIOUS
  <2>1. /\ Count(end) \in 1 .. Len(ends) /\ end.pos = ends[Count(end)]
        /\ end.pos <= logLen /\ Count(end) * INDEX_ENTRY_LEN <= indexLen
    BY <1>21 DEF Covers
  <2>2. Count(end) \in 1 .. Len(ends')
    BY <2>1, <1>3, <1>20
  <2>3. ends'[Count(end)] = ends[Count(end)]
    BY <2>1, <1>6
  <2> QED BY <2>1, <2>2, <2>3
<1>22. BoundaryInv'
  <2>1. /\ Covers(flushed_end, visible["log"], visible["index"])
        /\ Covers(synced_end, durable["log"], durable["index"])
        /\ synced_end.seq <= flushed_end.seq
        /\ flushed_end.seq <= buffered_end.seq
        /\ Len(file["log"]) = flushed_end.pos
        /\ Len(file["index"]) = Count(flushed_end) * INDEX_ENTRY_LEN
    BY <1>12 DEF IInv, BoundaryInv
  <2>2. Covers(flushed_end, visible["log"], visible["index"])'
    BY <2>1, <1>16, <1>21 DEF Covers, Count
  <2>3. Covers(synced_end, durable["log"], durable["index"])'
    BY <2>1, <1>16, <1>21 DEF Covers, Count
  <2>4. buffered_end.seq <= buffered_end'.seq
    <3>1. buffered_end'.seq = FirstId + Len(ends)
      BY <1>2, <1>4
    <3>2. buffered_end = NoEnd \/ buffered_end.seq = FirstId + Len(ends) - 1
      BY DEF IInv, ProgressInv, EndOf
    <3>3. NoEnd.seq = -1
      BY DEF NoEnd
    <3> QED BY <3>1, <3>2, <3>3, <1>3
  <2>5. flushed_end.seq <= buffered_end'.seq
    <3>1. buffered_end.seq \in Int /\ flushed_end.seq \in Int /\ buffered_end'.seq \in Int
      <4>1. buffered_end'.seq = FirstId + Len(ends)
        BY <1>2, <1>4
      <4> QED BY <4>1, <1>3, Facts
    <3> QED BY <3>1, <2>1, <2>4
  <2> QED BY <2>1, <2>2, <2>3, <2>5, <1>16 DEF BoundaryInv, Count
<1>23. OrderInv'
  <2> SUFFICES ASSUME NEW i \in 1 .. Len(ends'),
                      (i - 1) * INDEX_ENTRY_LEN < Len(file["index"])
               PROVE  ends'[i] <= visible["log"]
    BY <1>16 DEF OrderInv
  <2>1. CASE i \in 1 .. Len(ends)
    BY <2>1, <1>6 DEF IInv, OrderInv
  <2>2. CASE i = Len(ends) + 1
    <3>1. Len(file["index"]) <= Len(ends) * INDEX_ENTRY_LEN
      BY <1>3, Numbers, Facts
    <3>2. i - 1 = Len(ends)
      BY <2>2, <1>3
    <3>3. PICK m \in Nat, L \in Nat : m = Len(ends) * INDEX_ENTRY_LEN /\ L = Len(file["index"])
      <4>1. Len(ends) * INDEX_ENTRY_LEN \in Nat
        BY <1>3, Times
      <4>2. Len(file["index"]) \in Nat
        BY <1>3, Numbers
      <4> QED BY <4>1, <4>2
    <3>4. m < L /\ L <= m
      BY <3>1, <3>2, <3>3
    <3> QED BY <3>4
  <2>3. i \in 1 .. Len(ends) \/ i = Len(ends) + 1
    <3>1. i \in 1 .. Len(ends) + 1
      BY <1>20
    <3> QED BY <3>1, <1>3
  <2> QED BY <2>1, <2>2, <2>3
<1> QED BY <1>11, <1>14, <1>15, <1>17, <1>18, <1>19, <1>22, <1>23 DEF IInv

-------------------------------------------------------------------------------
(***************************************************************************)
(* The inductive invariant and what follows from it.                       *)
(***************************************************************************)

\* Every action of the writer and of its files preserves the invariant.
LEMMA NextIInv == IInv /\ [Next]_vars => IInv'
<1> SUFFICES ASSUME IInv, [Next]_vars PROVE IInv'
  OBVIOUS
<1>1. ASSUME NEW id \in SequenceNumber, NEW length \in Lengths, write_record(id, length)
      PROVE  IInv'
  BY <1>1, WriteRecordStep
<1>2. CASE finalize
  BY <1>2, FinalizeStep
<1>3. CASE into_inner
  BY <1>3, IntoInnerStep
<1>4. ASSUME NEW sync \in BOOLEAN, start_flush(sync) PROVE IInv'
  BY <1>4, StartFlushStep
<1>5. CASE start_sync
  BY <1>5, StartSyncStep
<1>6. ASSUME NEW f \in Outputs, flush_buffer(f) PROVE IInv'
  BY <1>6, FlushBufferStep
<1>7. CASE flush_log
  BY <1>7, FlushLogStep
<1>8. CASE flush_index
  BY <1>8, FlushIndexStep
<1>9. CASE sync_log
  BY <1>9, SyncLogStep
<1>10. CASE sync_index
  BY <1>10, SyncIndexStep
<1>11. CASE abandon \/ io_error
  BY <1>11, AbandonStep DEF io_error
<1>12. ASSUME NEW f \in Outputs, complete_write(f) PROVE IInv'
  BY <1>12, CompleteWriteStep
<1>13. ASSUME NEW f \in Outputs, fail_write(f) PROVE IInv'
  BY <1>13, FailWriteStep
<1>14. CASE UNCHANGED vars
  <2>1. UNCHANGED <<state, expected_record_id, record_count, buffered_end, flushed_end,
                    synced_end, buffer, usable, step, out, cursor, syncing, file, visible,
                    durable, write_error, accepted, ends>>
    BY <1>14 DEF vars, progress, future, files, history
  <2>2. TypeOK' /\ ProgressInv' /\ AcceptedInv' /\ OrderInv'
    BY <2>1 DEF IInv, TypeOK, ProgressInv, AcceptedInv, OrderInv
  <2>3. \A f \in Outputs : PrefixInv(f)' /\ BatchInv(f)'
    BY <2>1 DEF IInv, PrefixInv, BatchInv, Live, Busy, Sent
  <2>4. FutureInv' /\ BoundaryInv'
    BY <2>1 DEF IInv, FutureInv, BoundaryInv, Settled, Busy, Covers, Count
  <2> QED BY <2>2, <2>3, <2>4 DEF IInv
<1> QED BY <1>1, <1>2, <1>3, <1>4, <1>5, <1>6, <1>7, <1>8, <1>9, <1>10, <1>11, <1>12,
           <1>13, <1>14 DEF Next, WriterNext, FileNext

\* The invariant holds in every reachable state.
THEOREM Invariance == Spec => []IInv
BY InitIInv, NextIInv, PTL DEF Spec

\* The writer's state always has its type: in particular the record count never
\* exceeds a file's capacity and the expected id never leaves the sequence domain.
THEOREM TypeCorrect == Spec => []TypeOK
<1>1. IInv => TypeOK
  BY DEF IInv
<1> QED BY <1>1, Invariance, PTL

\* The log holds each record once and in order, whatever writes were short,
\* failed or were abandoned.
THEOREM LogAppendedOnce == Spec => []AppendedOnce
<1>1. IInv => AppendedOnce
  <2> SUFFICES ASSUME IInv PROVE AppendedOnce
    OBVIOUS
  <2>1. /\ Len(file["log"]) \in Nat /\ Len(accepted["log"]) \in Nat
        /\ Len(file["log"]) <= Len(accepted["log"])
        /\ file["log"] \in Seq(Byte) /\ accepted["log"] \in Seq(Byte)
    BY Facts, Numbers
  <2>2. \A i \in 1 .. Len(file["log"]) : file["log"][i] = accepted["log"][i]
    BY Facts DEF IInv, PrefixInv
  <2>3. LogLayout(accepted["log"], ends)
    BY DEF IInv, AcceptedInv
  <2>4. file["log"] # << >> => file["log"][1].seq = FirstId /\ file["log"][1].k = 1
    <3> SUFFICES ASSUME file["log"] # << >>
                 PROVE  file["log"][1].seq = FirstId /\ file["log"][1].k = 1
      OBVIOUS
    <3>1. 1 \in 1 .. Len(file["log"]) /\ accepted["log"] # << >>
      BY <2>1
    <3> QED BY <3>1, <2>2, <2>3 DEF LogLayout
  <2>5. ASSUME NEW i \in 1 .. Len(file["log"]) - 1
        PROVE  Follows(file["log"][i], file["log"][i + 1])
    <3>1. /\ i \in 1 .. Len(file["log"]) /\ i + 1 \in 1 .. Len(file["log"])
          /\ i \in 1 .. Len(accepted["log"]) - 1
      BY <2>1
    <3>2. Follows(accepted["log"][i], accepted["log"][i + 1])
      BY <3>1, <2>3 DEF LogLayout
    <3> QED BY <3>1, <3>2, <2>2
  <2> QED BY <2>4, <2>5 DEF AppendedOnce
<1> QED BY <1>1, Invariance, PTL

\* Whole entries of a partly written index.
LEMMA DivTimes ==
  ASSUME NEW V \in Nat, NEW E \in Nat \ {0}, NEW i \in 1 .. V \div E
  PROVE  i * E \in Nat /\ i * E <= V
<1>1. PICK q \in Nat : q = V \div E /\ q * E <= V
  OBVIOUS
<1>2. i \in Nat /\ i <= q
  BY <1>1
<1>3. i * E \in Nat /\ q * E \in Nat /\ i * E <= q * E
  BY <1>1, <1>2, Times
<1> QED BY <1>1, <1>3

\* The whole index entries are those of accepted records.
LEMMA EntryAccepted ==
  ASSUME IInv, NEW i \in Nat, i * INDEX_ENTRY_LEN <= Len(file["index"])
  PROVE  i <= Len(ends)
<1>1. /\ INDEX_ENTRY_LEN \in Nat \ {0} /\ Len(ends) \in Nat /\ "index" \in Outputs
      /\ Len(accepted["index"]) = Len(ends) * INDEX_ENTRY_LEN
  BY Facts
<1>2. PICK E \in Nat \ {0}, n \in Nat : E = INDEX_ENTRY_LEN /\ n = Len(ends)
  BY <1>1
<1>3. PICK L \in Nat : L = Len(file["index"]) /\ L <= n * E
  BY <1>1, <1>2, Numbers
<1>4. i * E <= L
  BY <1>2, <1>3
<1>5. n * E \in Nat /\ i * E \in Nat
  BY Times
<1>6. i * E <= n * E
  BY <1>3, <1>4, <1>5
<1>7. CASE i >= n + 1
  <2>1. (n + 1) * E = n * E + E
    BY Times
  <2>2. (n + 1) * E <= i * E
    <3>1. n + 1 \in Nat /\ n + 1 <= i /\ E \in Nat
      BY <1>7
    <3> QED BY <3>1, Times
  <2> QED BY <2>1, <2>2, <1>5, <1>6
<1> QED BY <1>2, <1>7

\* A whole index entry locates the last byte of its record in the visible log.
LEMMA EntryLocates ==
  ASSUME IInv, NEW i \in 1 .. Len(ends), i * INDEX_ENTRY_LEN <= Len(file["index"])
  PROVE  /\ file["index"][i * INDEX_ENTRY_LEN] = [end |-> ends[i], k |-> INDEX_ENTRY_LEN]
         /\ ends[i] \in 1 .. visible["log"]
         /\ IsLast(file["log"][ends[i]])
         /\ file["log"][ends[i]].seq = FirstId + i - 1
<1>1. /\ INDEX_ENTRY_LEN \in Nat \ {0} /\ Len(ends) \in Nat
      /\ "index" \in Outputs /\ "log" \in Outputs /\ ends \in Seq(Nat)
  BY Facts
<1>2. PICK E \in Nat \ {0}, m \in Nat, j \in Nat, L \in Nat :
        E = INDEX_ENTRY_LEN /\ m = i * E /\ j = (i - 1) * E /\ L = Len(file["index"])
  <2>1. i \in Nat /\ i - 1 \in Nat /\ Len(file["index"]) \in Nat
    BY <1>1, Numbers
  <2>2. i * INDEX_ENTRY_LEN \in Nat /\ (i - 1) * INDEX_ENTRY_LEN \in Nat
    BY <2>1, <1>1, Times
  <2> QED BY <2>1, <2>2, <1>1
<1>3. m = j + E /\ m <= L
  <2>1. i - 1 \in Nat /\ (i - 1) + 1 = i
    OBVIOUS
  <2>2. ((i - 1) + 1) * E = (i - 1) * E + E
    BY <2>1, Times
  <2> QED BY <2>1, <2>2, <1>2
<1>4. m \in 1 .. L /\ j < L
  BY <1>3
<1>5. file["index"][m] = accepted["index"][m]
  BY <1>1, <1>2, <1>4 DEF IInv, PrefixInv
<1>6. accepted["index"][m] = [end |-> ends[i], k |-> E]
  <2>1. E \in 1 .. INDEX_ENTRY_LEN
    BY <1>2
  <2>2. accepted["index"][(i - 1) * INDEX_ENTRY_LEN + E] = [end |-> ends[i], k |-> E]
    BY <2>1 DEF IInv, AcceptedInv, IndexLayout
  <2> QED BY <2>2, <1>2, <1>3
<1>7. ends[i] <= visible["log"]
  BY <1>2, <1>4 DEF IInv, OrderInv
<1>8. /\ ends[i] \in 1 .. Len(accepted["log"])
      /\ IsLast(accepted["log"][ends[i]])
      /\ accepted["log"][ends[i]].seq = FirstId + i - 1
  BY DEF IInv, AcceptedInv, LogLayout
<1>9. /\ visible["log"] \in Nat /\ Len(file["log"]) \in Nat /\ visible["log"] <= Len(file["log"])
      /\ Len(accepted["log"]) \in Nat
  BY <1>1, Numbers
<1>10. ends[i] \in 1 .. visible["log"] /\ ends[i] \in 1 .. Len(file["log"])
  BY <1>7, <1>8, <1>9
<1>11. file["log"][ends[i]] = accepted["log"][ends[i]]
  BY <1>1, <1>10 DEF IInv, PrefixInv
<1> QED BY <1>2, <1>5, <1>6, <1>8, <1>10, <1>11

\* An endpoint of an accepted record counts the records of the file through it.
LEMMA CountThrough ==
  ASSUME IInv, NEW end \in OptionalEnd, end # NoEnd, Count(end) \in 1 .. Len(ends)
  PROVE  /\ record_count_through(end.seq) = Count(end)
         /\ end.seq = FirstId + Count(end) - 1
<1>1. /\ FirstId \in Nat /\ RECORDS_PER_FILE \in Nat /\ Len(ends) \in Nat
      /\ Count(end) = end.seq - FirstId + 1
  BY Facts DEF Count
<1>2. Len(ends) <= RECORDS_PER_FILE
  BY <1>1 DEF IInv, TypeOK, ProgressInv
<1>3. end.seq \in Int
  BY LocationAssumption DEF OptionalEnd, EndLocation, NoEnd, SequenceNumber
<1>4. PICK r \in Nat : r = end.seq - FirstId /\ r < RECORDS_PER_FILE
  <2>1. end.seq - FirstId \in Nat /\ end.seq - FirstId < RECORDS_PER_FILE
    BY <1>1, <1>2, <1>3
  <2> QED BY <2>1
<1>5. end.seq = FirstId + r
  BY <1>1, <1>3, <1>4
<1>6. record_count_through(FirstId + r) = r + 1
  BY <1>4, InFile
<1> QED BY <1>1, <1>3, <1>4, <1>5, <1>6

\* Index entries a reader can see always point at records it can see.
THEOREM IndexFollowsLog == Spec => []IndexNeverLeadsLog
<1>1. IInv => IndexNeverLeadsLog
  <2> SUFFICES ASSUME IInv, NEW i \in 1 .. visible["index"] \div INDEX_ENTRY_LEN
               PROVE  LET b == file["index"][i * INDEX_ENTRY_LEN]
                      IN  /\ b.k = INDEX_ENTRY_LEN
                          /\ b.end \in 1 .. visible["log"]
                          /\ IsLast(file["log"][b.end])
                          /\ file["log"][b.end].seq = FirstId + i - 1
    BY DEF IndexNeverLeadsLog
  <2>1. /\ INDEX_ENTRY_LEN \in Nat \ {0} /\ "index" \in Outputs
        /\ visible["index"] \in Nat /\ Len(file["index"]) \in Nat
        /\ visible["index"] <= Len(file["index"])
    BY Facts, Numbers
  <2>2. i * INDEX_ENTRY_LEN \in Nat /\ i * INDEX_ENTRY_LEN <= visible["index"]
    BY <2>1, DivTimes
  <2>3. i * INDEX_ENTRY_LEN <= Len(file["index"])
    BY <2>1, <2>2
  <2>4. i \in Nat /\ 1 <= i
    BY <2>1
  <2>5. i <= Len(ends)
    BY <2>3, <2>4, EntryAccepted
  <2>6. i \in 1 .. Len(ends)
    BY <2>4, <2>5, Facts
  <2>7. /\ file["index"][i * INDEX_ENTRY_LEN] = [end |-> ends[i], k |-> INDEX_ENTRY_LEN]
        /\ ends[i] \in 1 .. visible["log"]
        /\ IsLast(file["log"][ends[i]])
        /\ file["log"][ends[i]].seq = FirstId + i - 1
    BY <2>3, <2>6, EntryLocates
  <2> QED BY <2>7
<1> QED BY <1>1, Invariance, PTL

\* Everything through the flushed boundary can be read through the index.
THEOREM FlushedReadable == Spec => []FlushedIsReadable
<1>1. IInv => FlushedIsReadable
  <2> SUFFICES ASSUME IInv, flushed_end # NoEnd
               PROVE  LET n == record_count_through(flushed_end.seq)
                      IN  /\ n * INDEX_ENTRY_LEN <= visible["index"]
                          /\ file["index"][n * INDEX_ENTRY_LEN].end = flushed_end.pos
                          /\ flushed_end.pos \in 1 .. visible["log"]
                          /\ IsLast(file["log"][flushed_end.pos])
                          /\ file["log"][flushed_end.pos].seq = flushed_end.seq
    BY DEF FlushedIsReadable
  <2>1. /\ Count(flushed_end) \in 1 .. Len(ends)
        /\ flushed_end.pos = ends[Count(flushed_end)]
        /\ Count(flushed_end) * INDEX_ENTRY_LEN <= visible["index"]
        /\ flushed_end \in OptionalEnd
    BY DEF IInv, BoundaryInv, Covers, TypeOK
  <2>2. PICK n \in 1 .. Len(ends) : n = Count(flushed_end)
    BY <2>1
  <2>3. record_count_through(flushed_end.seq) = n /\ flushed_end.seq = FirstId + n - 1
    BY <2>1, <2>2, CountThrough
  <2>4. n * INDEX_ENTRY_LEN <= Len(file["index"])
    <3>1. /\ visible["index"] \in Nat /\ Len(file["index"]) \in Nat
          /\ visible["index"] <= Len(file["index"]) /\ INDEX_ENTRY_LEN \in Nat
      BY Facts, Numbers
    <3>2. n \in Nat
      BY <2>2
    <3>3. n * INDEX_ENTRY_LEN \in Nat
      BY <3>1, <3>2, Times
    <3>4. n * INDEX_ENTRY_LEN <= visible["index"]
      BY <2>1, <2>2
    <3> QED BY <3>1, <3>3, <3>4
  <2>5. /\ file["index"][n * INDEX_ENTRY_LEN] = [end |-> ends[n], k |-> INDEX_ENTRY_LEN]
        /\ ends[n] \in 1 .. visible["log"]
        /\ IsLast(file["log"][ends[n]])
        /\ file["log"][ends[n]].seq = FirstId + n - 1
    BY <2>4, EntryLocates
  <2> QED BY <2>1, <2>2, <2>3, <2>5
<1> QED BY <1>1, Invariance, PTL

\* Everything through the synchronised boundary survives a crash in both files.
THEOREM SyncedDurable == Spec => []SyncedIsDurable
<1>1. IInv => SyncedIsDurable
  <2> SUFFICES ASSUME IInv, synced_end # NoEnd
               PROVE  /\ synced_end.pos <= durable["log"]
                      /\ record_count_through(synced_end.seq) * INDEX_ENTRY_LEN
                           <= durable["index"]
                      /\ synced_end.seq <= flushed_end.seq
    BY DEF SyncedIsDurable
  <2>1. /\ Count(synced_end) \in 1 .. Len(ends)
        /\ synced_end.pos <= durable["log"]
        /\ Count(synced_end) * INDEX_ENTRY_LEN <= durable["index"]
        /\ synced_end.seq <= flushed_end.seq
        /\ synced_end \in OptionalEnd
    BY DEF IInv, BoundaryInv, Covers, TypeOK
  <2>2. record_count_through(synced_end.seq) = Count(synced_end)
    BY <2>1, CountThrough
  <2> QED BY <2>1, <2>2
<1> QED BY <1>1, Invariance, PTL

\* A finalized file holds all of its records, durably, and nothing else.
THEOREM FinalizedComplete == Spec => []FinalizedIsComplete
<1>1. IInv => FinalizedIsComplete
  <2> SUFFICES ASSUME IInv, state = "Finalized"
               PROVE  /\ synced_end.seq = last_record_id(FileNumber)
                      /\ durable["log"] = synced_end.pos /\ Len(file["log"]) = synced_end.pos
                      /\ durable["index"] = RECORDS_PER_FILE * INDEX_ENTRY_LEN
                      /\ Len(file["index"]) = RECORDS_PER_FILE * INDEX_ENTRY_LEN
                      /\ buffer = Empty
    BY DEF FinalizedIsComplete
  <2>1. /\ record_count = RECORDS_PER_FILE /\ synced_end = buffered_end /\ buffer = Empty
        /\ record_count = Len(ends) /\ buffered_end = EndOf(ends)
        /\ expected_record_id = FirstId + Len(ends)
    BY DEF IInv, FutureInv, ProgressInv
  <2>2. /\ RECORDS_PER_FILE \in Nat \ {0} /\ FirstId \in Nat /\ INDEX_ENTRY_LEN \in Nat \ {0}
        /\ MAX_SEQUENCE \in Nat /\ "log" \in Outputs /\ "index" \in Outputs
        /\ Len(ends) = RECORDS_PER_FILE /\ ends \in Seq(Nat)
    BY <2>1, Facts
  <2>3. FirstId + RECORDS_PER_FILE <= MAX_SEQUENCE
    <3>1. expected_record_id \in SequenceNumber
      BY DEF IInv, TypeOK
    <3> QED BY <3>1, <2>1, <2>2 DEF SequenceNumber
  <2>4. /\ synced_end.seq = FirstId + RECORDS_PER_FILE - 1
        /\ synced_end # NoEnd /\ Count(synced_end) = RECORDS_PER_FILE
        /\ synced_end.pos = ends[RECORDS_PER_FILE]
    <3>1. Len(ends) <= RECORDS_PER_FILE /\ FirstId + Len(ends) - 1 <= MAX_SEQUENCE
          /\ ends # << >>
      BY <2>2, <2>3
    <3>2. /\ Count(EndOf(ends)) = Len(ends) /\ EndOf(ends) # NoEnd
          /\ EndOf(ends).pos = ends[Len(ends)]
          /\ EndOf(ends).seq = FirstId + Len(ends) - 1
      BY <3>1, <2>2, EndOfProperties
    <3> QED BY <3>2, <2>1, <2>2
  <2>5. synced_end.seq = last_record_id(FileNumber)
    BY <2>2, <2>3, <2>4 DEF last_record_id, FirstId
  <2>6. flushed_end.seq = synced_end.seq /\ flushed_end # NoEnd
    <3>1. synced_end.seq <= flushed_end.seq /\ flushed_end.seq <= synced_end.seq
      BY <2>1 DEF IInv, BoundaryInv
    <3>2. flushed_end.seq \in Int /\ synced_end.seq \in Int
      BY Facts
    <3>3. flushed_end.seq = synced_end.seq
      BY <3>1, <3>2
    <3>4. NoEnd.seq = -1 /\ synced_end.seq # -1
      BY <2>2, <2>4 DEF NoEnd
    <3> QED BY <3>3, <3>4
  <2>7. Count(flushed_end) = RECORDS_PER_FILE
    BY <2>4, <2>6 DEF Count
  <2>8. flushed_end.pos = synced_end.pos
    BY <2>4, <2>6, <2>7 DEF IInv, BoundaryInv, Covers
  <2>9. /\ Len(file["log"]) = synced_end.pos
        /\ Len(file["index"]) = RECORDS_PER_FILE * INDEX_ENTRY_LEN
    BY <2>7, <2>8 DEF IInv, BoundaryInv
  <2>10. /\ synced_end.pos <= durable["log"]
         /\ RECORDS_PER_FILE * INDEX_ENTRY_LEN <= durable["index"]
    BY <2>4 DEF IInv, BoundaryInv, Covers
  <2>11. ASSUME NEW f \in Outputs, Len(file[f]) <= durable[f]
         PROVE  durable[f] = Len(file[f])
    <3>1. /\ durable[f] \in Nat /\ visible[f] \in Nat /\ Len(file[f]) \in Nat
          /\ durable[f] <= visible[f] /\ visible[f] <= Len(file[f])
      BY Numbers
    <3> QED BY <3>1, <2>11
  <2>12. durable["log"] = synced_end.pos /\ durable["index"] = RECORDS_PER_FILE * INDEX_ENTRY_LEN
    BY <2>2, <2>9, <2>10, <2>11
  <2> QED BY <2>1, <2>5, <2>9, <2>12
<1> QED BY <1>1, Invariance, PTL

\* After a failure, a dropped call or finalize, nothing is sent and no boundary
\* moves.
THEOREM FailureFinal == Spec => FailureIsFinal
<1> DEFINE Frozen == step = "idle" /\ state # "Open"
                       => /\ UNCHANGED <<state, progress>>
                          /\ step' \in {"idle", "gone"}
                          /\ \A f \in Outputs : Len(file'[f]) <= Len(file[f])
<1>1. IInv /\ [Next]_vars => [Frozen]_vars
  <2> SUFFICES ASSUME IInv, Next, step = "idle", state # "Open"
               PROVE  /\ UNCHANGED <<state, progress>>
                      /\ step' \in {"idle", "gone"}
                      /\ \A f \in Outputs : Len(file'[f]) <= Len(file[f])
    OBVIOUS
  <2>1. \A f \in Outputs : Len(file[f]) \in Nat /\ visible[f] \in Nat /\ visible[f] <= Len(file[f])
    BY Numbers
  <2>2. file \in [Outputs -> Seq(Byte)]
    BY Facts
  <2>3. CASE into_inner
    BY <2>1, <2>3 DEF into_inner, files
  <2>4. ASSUME NEW f \in Outputs, complete_write(f)
        PROVE  /\ UNCHANGED <<state, progress>>
               /\ step' \in {"idle", "gone"}
               /\ \A g \in Outputs : Len(file'[g]) <= Len(file[g])
    BY <2>1, <2>4 DEF complete_write, future
  <2>5. ASSUME NEW f \in Outputs, fail_write(f)
        PROVE  /\ UNCHANGED <<state, progress>>
               /\ step' \in {"idle", "gone"}
               /\ \A g \in Outputs : Len(file'[g]) <= Len(file[g])
    <3>1. UNCHANGED <<state, progress>> /\ step' = "idle"
          /\ file' = [file EXCEPT ![f] = SubSeq(@, 1, visible[f])]
      BY <2>5 DEF fail_write, future
    <3>2. ASSUME NEW g \in Outputs PROVE Len(file'[g]) <= Len(file[g])
      <4>1. CASE g # f
        BY <4>1, <3>1, <2>1, <2>2
      <4>2. CASE g = f
        <5>1. file'[g] = SubSeq(file[f], 1, visible[f]) /\ file[f] \in Seq(Byte)
          BY <4>2, <3>1, <2>2
        <5>2. Len(SubSeq(file[f], 1, visible[f])) = visible[f]
          <6>1. /\ file[f] \in Seq(Byte) /\ visible[f] \in Nat /\ 1 \in Nat
                /\ 1 <= visible[f] + 1 /\ visible[f] <= Len(file[f])
                /\ visible[f] - 1 + 1 = visible[f]
            BY <5>1, <2>1
          <6> QED BY <6>1, Sub
        <5> QED BY <5>1, <5>2, <4>2, <2>1
      <4> QED BY <4>1, <4>2
    <3> QED BY <3>1, <3>2
  <2>6. into_inner \/ (\E f \in Outputs : complete_write(f) \/ fail_write(f))
    BY DEF Next, WriterNext, FileNext, write_record, finalize, start_flush, start_sync,
           check_open, flush_buffer, flush_log, flush_index, sync_log, sync_index,
           io_error, abandon, Busy
  <2> QED BY <2>3, <2>4, <2>5, <2>6
<1>2. FailureIsFinal <=> [][Frozen]_vars
  BY DEF FailureIsFinal
<1> QED BY <1>1, <1>2, Invariance, PTL DEF Spec

\* A boundary that an observer has read is never taken back or overtaken.
THEOREM BoundariesMonotone == Spec => BoundariesAdvance
<1> DEFINE Advance == /\ buffered_end.seq <= buffered_end'.seq
                      /\ flushed_end.seq <= flushed_end'.seq
                      /\ synced_end.seq <= synced_end'.seq
                      /\ synced_end'.seq <= flushed_end'.seq
                      /\ flushed_end'.seq <= buffered_end'.seq
<1>1. IInv /\ [Next]_vars => [Advance]_vars
  <2> SUFFICES ASSUME IInv, Next PROVE Advance
    OBVIOUS
  <2>1. synced_end'.seq <= flushed_end'.seq /\ flushed_end'.seq <= buffered_end'.seq
    BY NextIInv DEF IInv, BoundaryInv
  <2>2. /\ buffered_end.seq \in Int /\ flushed_end.seq \in Int /\ synced_end.seq \in Int
        /\ FirstId \in Nat /\ Len(ends) \in Nat
    BY Facts
  <2>3. synced_end.seq <= flushed_end.seq /\ flushed_end.seq <= buffered_end.seq
    BY DEF IInv, BoundaryInv
  <2>4. \/ UNCHANGED <<buffered_end, flushed_end, synced_end>>
        \/ \E id \in SequenceNumber, length \in Lengths : write_record(id, length)
        \/ flush_index
        \/ sync_index
    BY DEF Next, WriterNext, FileNext, finalize, into_inner, start_flush, start_sync,
           flush_buffer, flush_log, sync_log, io_error, abandon, complete_write, fail_write,
           progress
  <2>5. CASE UNCHANGED <<buffered_end, flushed_end, synced_end>>
    <3>1. /\ buffered_end.seq <= buffered_end'.seq /\ flushed_end.seq <= flushed_end'.seq
          /\ synced_end.seq <= synced_end'.seq
      BY <2>2, <2>5
    <3> QED BY <3>1, <2>1
  <2>6. ASSUME NEW id \in SequenceNumber, NEW length \in Lengths, write_record(id, length)
        PROVE  Advance
    <3>1. UNCHANGED <<flushed_end, synced_end>>
      BY <2>6 DEF write_record
    <3>2. buffered_end.seq <= buffered_end'.seq
      <4>1. expected_record_id = FirstId + Len(ends) /\ length \in Nat /\ ~ is_full
        BY <2>6, WriterAssumption DEF write_record, IInv, ProgressInv
      <4>2. buffered_end' =
              [seq |-> expected_record_id, pos |-> Len(accepted["log"]) + length]
        BY <2>6, <4>1, WriteRecordEnd DEF write_record
      <4>3. buffered_end'.seq = FirstId + Len(ends)
        BY <4>1, <4>2
      <4>4. buffered_end = NoEnd \/ buffered_end.seq = FirstId + Len(ends) - 1
        BY DEF IInv, ProgressInv, EndOf
      <4>5. NoEnd.seq = -1
        BY DEF NoEnd
      <4> QED BY <4>3, <4>4, <4>5, <2>2
    <3>3. flushed_end.seq <= flushed_end'.seq /\ synced_end.seq <= synced_end'.seq
      BY <3>1, <2>2
    <3> QED BY <3>2, <3>3, <2>1
  <2>7. CASE flush_index
    <3>1. buffered_end' = buffered_end /\ flushed_end' = buffered_end /\ synced_end' = synced_end
      BY <2>7 DEF flush_index
    <3>2. /\ buffered_end.seq <= buffered_end'.seq /\ flushed_end.seq <= flushed_end'.seq
          /\ synced_end.seq <= synced_end'.seq
      BY <3>1, <2>2, <2>3
    <3> QED BY <3>2, <2>1
  <2>8. CASE sync_index
    <3>1. buffered_end' = buffered_end /\ flushed_end' = flushed_end /\ synced_end' = flushed_end
      BY <2>8 DEF sync_index
    <3>2. /\ buffered_end.seq <= buffered_end'.seq /\ flushed_end.seq <= flushed_end'.seq
          /\ synced_end.seq <= synced_end'.seq
      BY <3>1, <2>2, <2>3
    <3> QED BY <3>2, <2>1
  <2> QED BY <2>4, <2>5, <2>6, <2>7, <2>8
<1>2. BoundariesAdvance <=> [][Advance]_vars
  BY DEF BoundariesAdvance
<1> QED BY <1>1, <1>2, Invariance, PTL DEF Spec
===============================================================================
