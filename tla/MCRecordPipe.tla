---------------------------- MODULE MCRecordPipe ----------------------------
(* Two calls of write, payloads up to two bytes, callbacks that offer one  *)
(* byte too many: batches of one or two records, sent in any pieces.       *)
EXTENDS RecordPipe
=============================================================================
