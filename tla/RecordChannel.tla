--------------------------- MODULE RecordChannel ---------------------------
(***************************************************************************)
(* What a RecordWriter at one end of a byte stream and a RecordReader at   *)
(* the other promise together: a FIFO channel of records.  Only records    *)
(* that were written come out, in order and each once; an end of input is  *)
(* reported only after every record a flush acknowledged has come out, and *)
(* is called truncated only if the writer broke off in the middle.         *)
(***************************************************************************)
EXTENDS Naturals, Sequences

CONSTANT Records

VARIABLES
  written,       \* records the writer accepted
  acknowledged,  \* how many of them it has sent in full
  got,           \* records the reader handed out
  broken,        \* the writer's output failed or was abandoned
  closed,        \* the writer is gone
  reader         \* open, finished, truncated or failed

vars == <<written, acknowledged, got, broken, closed, reader>>

Init == /\ written = <<>> /\ acknowledged = 0 /\ got = <<>>
        /\ broken = FALSE /\ closed = FALSE /\ reader = "open"

Write(r) == /\ ~broken /\ ~closed
            /\ written' = Append(written, r)
            /\ UNCHANGED <<acknowledged, got, broken, closed, reader>>

Acknowledge == /\ ~broken /\ ~closed
               /\ acknowledged' = Len(written)
               /\ UNCHANGED <<written, got, broken, closed, reader>>

Break == /\ ~closed /\ broken' = TRUE
         /\ UNCHANGED <<written, acknowledged, got, closed, reader>>

Close == /\ closed' = TRUE
         /\ UNCHANGED <<written, acknowledged, got, broken, reader>>

Deliver == /\ reader = "open" /\ Len(got) < Len(written)
           /\ got' = Append(got, written[Len(got) + 1])
           /\ UNCHANGED <<written, acknowledged, broken, closed, reader>>

(* A writer that never broke discards what it had not sent. *)
Finish == /\ reader = "open" /\ closed
          /\ Len(got) >= acknowledged
          /\ ~broken => Len(got) = acknowledged
          /\ reader' = "finished"
          /\ UNCHANGED <<written, acknowledged, got, broken, closed>>

Truncate == /\ reader = "open" /\ closed /\ broken
            /\ Len(got) >= acknowledged /\ Len(got) < Len(written)
            /\ reader' = "truncated"
            /\ UNCHANGED <<written, acknowledged, got, broken, closed>>

(* The stream itself failed the reader. *)
Fail == /\ reader = "open" /\ reader' = "failed"
        /\ UNCHANGED <<written, acknowledged, got, broken, closed>>

Next == \/ (\E r \in Records : Write(r)) \/ Acknowledge \/ Break \/ Close
        \/ Deliver \/ Finish \/ Truncate \/ Fail

Spec == Init /\ [][Next]_vars
=============================================================================
