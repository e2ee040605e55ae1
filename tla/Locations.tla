------------------------------ MODULE Locations ------------------------------
(***************************************************************************)
(* The location arithmetic of streams/location: how a record's sequence    *)
(* number fixes the log file that holds it, how many records that file     *)
(* holds through it, and where the next record starts.                     *)
(*                                                                         *)
(* A RecordId is a stream and a sequence number.  Every operator here is   *)
(* about one stream, so an id is its sequence number; comparing the        *)
(* streams of two ids is left to the modules that have two of them.        *)
(***************************************************************************)
EXTENDS Integers

CONSTANTS
  RECORDS_PER_FILE,  \* records assigned to one file; 100_000 in the code
  MAX_SEQUENCE       \* largest sequence number; u64::MAX in the code

ASSUME LocationAssumption ==
  /\ RECORDS_PER_FILE \in Nat \ {0}
  /\ MAX_SEQUENCE \in Nat

SequenceNumber == 0 .. MAX_SEQUENCE

(***************************************************************************)
(* Option<RecordEndLocation>: the id of a record and the exclusive offset  *)
(* of its end in its own file.  NoEnd is the code's None.  It is the       *)
(* endpoint before every record, so that endpoints compare by .seq.        *)
(***************************************************************************)
EndLocation == [seq : SequenceNumber, pos : Nat]
NoEnd == [seq |-> -1, pos |-> 0]
OptionalEnd == EndLocation \cup {NoEnd}

from_record_id(seq) == seq \div RECORDS_PER_FILE

MAX_FILE == MAX_SEQUENCE \div RECORDS_PER_FILE

record_count_through(seq) == (seq % RECORDS_PER_FILE) + 1

first_record_id(file) == file * RECORDS_PER_FILE

\* Saturates: only the terminal file is cut short by the sequence domain.
last_record_id(file) ==
  LET last == first_record_id(file) + RECORDS_PER_FILE - 1
  IN  IF last > MAX_SEQUENCE THEN MAX_SEQUENCE ELSE last

\* Callers guard end.seq < MAX_SEQUENCE: RecordId::next panics at the maximum.
next_record_start(end) ==
  [seq |-> end.seq + 1,
   pos |-> IF from_record_id(end.seq + 1) = from_record_id(end.seq)
             THEN end.pos ELSE 0]

to_end(start, length) == [seq |-> start.seq, pos |-> start.pos + length]
=============================================================================
