---------------------------- MODULE MCMessageIO ----------------------------
(* A prefix of two bytes, bodies of zero to two: every place where a read  *)
(* or a write can stop inside a frame, and pieces that meet, exceed and    *)
(* overshoot the limit.                                                    *)
EXTENDS MessageIO
=============================================================================
