--------------------------- MODULE MCRecordRanges ---------------------------
(* Three files of two records, the last with one: a first, a middle and    *)
(* the terminal file, and every layout of records of one or two bytes.     *)
EXTENDS RecordRanges
=============================================================================
