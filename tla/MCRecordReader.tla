--------------------------- MODULE MCRecordReader ---------------------------
(* Headers of two bytes and records of at least three: the source can end  *)
(* inside a header, inside a record, or between two.                       *)
EXTENDS RecordReader

Shape(size, declared, stream_ok, crc_ok) ==
  [size |-> size, declared |-> declared, stream_ok |-> stream_ok, crc_ok |-> crc_ok]

MCShapes == {
  Shape(3, 3, TRUE, TRUE),    \* a record without payload
  Shape(4, 4, TRUE, TRUE),    \* a record
  Shape(3, 2, TRUE, FALSE),   \* length field below the minimum
  Shape(3, 3, FALSE, TRUE),   \* a stream id out of range
  Shape(3, 4, TRUE, FALSE) }  \* a length field that swallows what follows
=============================================================================
