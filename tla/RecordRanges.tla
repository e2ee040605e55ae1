---------------------------- MODULE RecordRanges ----------------------------
(***************************************************************************)
(* RecordRangeLocation (streams/location): a request for the records first *)
(* to last of a stream, its construction from two resolved endpoints and   *)
(* its lazy iteration, one file per item.  LogFileId::iter_to is the same  *)
(* iteration without byte positions.                                       *)
(*                                                                         *)
(* The stream is filled to its last sequence number, which lies in the     *)
(* terminal file; lens gives each record's encoded length.  The resolver   *)
(* and the reader of the items are planned, external code: the resolver    *)
(* walks the records, the reader reads each item to the end of its file's  *)
(* records where the item leaves the end open.                             *)
(***************************************************************************)
EXTENDS Locations, Sequences

CONSTANTS
  Lengths,     \* encoded record lengths
  Streams,     \* stream ids
  MaxPosition  \* bound on the positions of endpoints nobody resolved

ASSUME RangeAssumption == Lengths \subseteq Nat \ {0} /\ MaxPosition \in Nat

VARIABLES
  lens,       \* the length of every record of the stream
  start, end, \* the endpoints given to new: stream, seq and pos
  status,     \* idle, iterating, exhausted, or new's error
  next_file,  \* the iterator's successors state
  items       \* what it has yielded

vars == <<lens, start, end, status, next_file, items>>

Endpoint == [stream: Streams, seq: SequenceNumber, pos: Nat]
Errors == {"DifferentStreams", "ReversedRecords", "InvalidByteSpan"}

-----------------------------------------------------------------------------
(* RecordStartLocation::to_next *)
to_next(record_start, length) == next_record_start(to_end(record_start, length))

(* What walking the records from the first yields. *)
StartOf[seq \in SequenceNumber] ==
  IF seq = 0 THEN [seq |-> 0, pos |-> 0] ELSE to_next(StartOf[seq - 1], lens[seq - 1])
ResolvedStart(seq) == StartOf[seq].pos
ResolvedEnd(seq) == to_end(StartOf[seq], lens[seq]).pos

\* Variant: the index of a record is bounded by the records of a file.
mut_record_id_at(file, index) ==
  IF index > RECORDS_PER_FILE \/ first_record_id(file) + index > MAX_SEQUENCE
  THEN -1
  ELSE first_record_id(file) + index

(* LogFileId::record_id_at; -1 where it returns an error or panics. *)
record_id_at(file, index) ==
  IF index > RECORDS_PER_FILE - 1 \/ first_record_id(file) + index > MAX_SEQUENCE
  THEN -1
  ELSE first_record_id(file) + index

first == from_record_id(start.seq)
last == from_record_id(end.seq)

(* RecordRangeLocation::new *)
Validate(s, e) ==
  LET end_file_start == IF from_record_id(s.seq) = from_record_id(e.seq) THEN s.pos ELSE 0
  IN IF s.stream # e.stream THEN "DifferentStreams"
     ELSE IF s.seq > e.seq THEN "ReversedRecords"
     ELSE IF e.pos <= end_file_start THEN "InvalidByteSpan"
     ELSE "iterating"

Init ==
  /\ lens \in [SequenceNumber -> Lengths]
  /\ start = [stream |-> CHOOSE s \in Streams : TRUE, seq |-> 0, pos |-> 0]
  /\ end = start
  /\ status = "idle" /\ next_file = 0 /\ items = <<>>

New(s, e) ==
  /\ status = "idle"
  /\ start' = s /\ end' = e
  /\ status' = Validate(s, e)
  /\ next_file' = from_record_id(s.seq)
  /\ UNCHANGED <<lens, items>>

Resolved(seq, pos) == [stream |-> CHOOSE s \in Streams : TRUE, seq |-> seq, pos |-> pos]
NewResolved == \E s, e \in SequenceNumber :
  New(Resolved(s, ResolvedStart(s)), Resolved(e, ResolvedEnd(e)))
NewUnresolved == \E s, e \in [stream: Streams, seq: SequenceNumber, pos: 0..MaxPosition] :
  New(s, e)

\* Variant: the last file gets what a middle file gets.
mut_RangeOf(file) ==
  IF first = last THEN [kind |-> "FileRange", from |-> start.pos, to |-> end.pos]
  ELSE IF file = first THEN [kind |-> "FilePostfix", from |-> start.pos, to |-> -1]
  ELSE [kind |-> "EntireFile", from |-> 0, to |-> -1]

(* The LogFileRange of one item; -1 for an end the item leaves open. *)
RangeOf(file) ==
  IF first = last THEN [kind |-> "FileRange", from |-> start.pos, to |-> end.pos]
  ELSE IF file = first THEN [kind |-> "FilePostfix", from |-> start.pos, to |-> -1]
  ELSE IF file = last THEN [kind |-> "FilePrefix", from |-> 0, to |-> end.pos]
  ELSE [kind |-> "EntireFile", from |-> 0, to |-> -1]

(* next() of the iterator: std::iter::successors asks for a file's         *)
(* successor when it yields that file.  LogFileNumber::next panics at the   *)
(* maximum, which is next_file > MAX_FILE here.                             *)
NextItem ==
  /\ status = "iterating"
  /\ items' = Append(items, <<next_file, RangeOf(next_file)>>)
  /\ IF next_file = last
     THEN status' = "exhausted" /\ UNCHANGED next_file
     ELSE next_file' = next_file + 1 /\ UNCHANGED status
  /\ UNCHANGED <<lens, start, end>>

(* The owner drops the range and resolves another. *)
Drop ==
  /\ status # "idle" /\ status' = "idle"
  /\ start' = Resolved(0, 0) /\ end' = Resolved(0, 0)
  /\ next_file' = 0 /\ items' = <<>>
  /\ UNCHANGED lens

Next == NewResolved \/ NewUnresolved \/ NextItem \/ Drop

Spec == Init /\ [][Next]_vars

-----------------------------------------------------------------------------
FileEnd(file) == ResolvedEnd(last_record_id(file))

(* The bytes a reader takes for an item, and those of the records asked    *)
(* for, by file.                                                           *)
ReadTo(file, range) == IF range.to = -1 THEN FileEnd(file) ELSE range.to
BytesRead ==
  UNION {{<<items[i][1], b>> :
            b \in items[i][2].from..(ReadTo(items[i][1], items[i][2]) - 1)} :
           i \in 1..Len(items)}
BytesWanted ==
  UNION {{<<from_record_id(r), b>> : b \in ResolvedStart(r)..(ResolvedEnd(r) - 1)} :
           r \in start.seq..end.seq}
IsResolved == start.stream = end.stream /\ start.pos = ResolvedStart(start.seq)
              /\ end.pos = ResolvedEnd(end.seq)

(* A request between two resolved records in order is never refused, and   *)
(* iterating it reads exactly their bytes: no record left out or read      *)
(* twice at a file boundary, in the first file, in a middle one or in the  *)
(* short terminal one, whose successor is never asked for.                 *)
RangeIsExact ==
  /\ next_file <= MAX_FILE
  /\ (IsResolved /\ start.seq <= end.seq) => status \notin Errors
  /\ (IsResolved /\ status = "exhausted") =>
       /\ BytesRead = BytesWanted
       /\ \A i \in 1..Len(items) - 1 : items[i][1] < items[i + 1][1]

(* The files partition the sequence numbers: from_record_id,               *)
(* record_count_through, first_record_id, last_record_id and record_id_at  *)
(* agree on the endpoints of every request and in every file its iteration *)
(* comes to, through the short terminal file, and no index reaches into    *)
(* the next file.                                                          *)
FilesPartitionSequences ==
  status = "iterating" =>
    /\ \A seq \in {start.seq, end.seq} :
         /\ from_record_id(seq) \in 0..MAX_FILE
         /\ seq \in first_record_id(from_record_id(seq))..last_record_id(from_record_id(seq))
         /\ record_id_at(from_record_id(seq), record_count_through(seq) - 1) = seq
    /\ \A index \in 0..MAX_SEQUENCE :
         LET seq == record_id_at(next_file, index)
         IN IF seq = -1 THEN first_record_id(next_file) + index > last_record_id(next_file)
            ELSE from_record_id(seq) = next_file /\ record_count_through(seq) = index + 1
=============================================================================
