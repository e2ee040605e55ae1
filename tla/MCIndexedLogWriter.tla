------------------------- MODULE MCIndexedLogWriter -------------------------
(***************************************************************************)
(* A small instance of IndexedLogWriter for TLC.                           *)
(***************************************************************************)
EXTENDS IndexedLogWriter, Functions, SequencesExt

\* The ends of consecutive records with these lengths.
EndsOf(lens) == [i \in DOMAIN lens |-> FoldLeft(LAMBDA a, b : a + b, 0, SubSeq(lens, 1, i))]

\* The pair that holds records of these lengths from the file's first id on.
PairOf(lens) ==
  [log |-> FlattenSeq([i \in DOMAIN lens |-> LogBytes(FirstId + i - 1, lens[i])]),
   index |-> FlattenSeq([i \in DOMAIN lens |-> IndexBytes(EndsOf(lens)[i])]),
   ends |-> EndsOf(lens)]

\* An empty pair, and the recovered pairs of one record.
MCRecoveredPairs == {PairOf(lens) : lens \in {<< >>} \cup [1 .. 1 -> Lengths]}
=============================================================================
