--------------------------- MODULE MCStreamSystem ---------------------------
(***************************************************************************)
(* StreamSystem for TLC.  Three files of at most two records each; the     *)
(* last sequence number is the only one of the terminal file, as in the    *)
(* code, where u64::MAX leaves the terminal file short of 100_000 records. *)
(***************************************************************************)
EXTENDS StreamSystem
=============================================================================
