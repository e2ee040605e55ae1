---------------------------- MODULE StreamSystem ----------------------------
(***************************************************************************)
(* A stream through its lives: initialization, the owner of the active     *)
(* pair, and the faults between them.                                      *)
(*                                                                         *)
(* The repository has no stream owner yet.  The one here is the caller its *)
(* documentation plans: it appends through IndexedLogWriter (log before    *)
(* index, both flushed and then both synchronised), prepares the successor *)
(* with create_log_and_index whenever it likes, and switches to it when    *)
(* finalize lets it.  It runs initialize again after every failure.        *)
(***************************************************************************)
EXTENDS StreamInitializer

CONSTANTS
  Faults,      \* the kinds of fault that happen: "interrupt", "power_loss"
  MaxFaults    \* bound: how many of them

ASSUME SystemAssumption ==
  /\ Faults \subseteq {"interrupt", "power_loss"}
  /\ MaxFaults \in Nat

VARIABLES
  successor,  \* how far the owner is with the next pair: "none", "log", "pair"
  faults,     \* faults so far
  epoch,      \* history: which life of the stream this is
  truth,      \* history: per record from zero on, the epoch that appended it
  flushed,    \* history: the records a process failure must not lose
  synced      \* history: the records a power loss must not lose

history == <<epoch, truth, flushed, synced>>
vars == <<storage, pc, working, successor, faults, history>>

TypeOK ==
  /\ StorageTypeOK
  /\ InitializerTypeOK
  /\ successor \in {"none", "log", "pair"}
  /\ faults \in 0 .. MaxFaults
  /\ epoch \in Nat
  /\ truth \in Seq(Nat)
  /\ flushed \in Nat
  /\ synced \in 0 .. flushed

Init ==
  /\ StorageInit
  /\ InitializerInit
  /\ successor = "none"
  /\ faults = 0
  /\ epoch = 0
  /\ truth = << >>
  /\ flushed = 0
  /\ synced = 0

-------------------------------------------------------------------------------
(***************************************************************************)
(* What the properties say about the files.                                *)
(***************************************************************************)

\* The first n records of the stream as the files hold them.
Stored(n) ==
  [i \in 1 .. n |-> cache[<<"log", from_record_id(i - 1)>>][record_count_through(i - 1)]]

\* The records of file f among the first n of the stream.
CountIn(f, n) == Max({0, Min({RECORDS_PER_FILE, n - first_record_id(f)})})

\* No power loss can take the first n records away: their logs keep their names
\* in every state the directories may be in, and their cells are synchronised.
Durable(kind, n) ==
  \A f \in {g \in Files : CountIn(g, n) > 0} :
    /\ \A listing \in dirs[leaf(<<kind, f>>)] : <<kind, f>> \in listing
    /\ CountIn(f, n) <= stable[<<kind, f>>]

-------------------------------------------------------------------------------
(***************************************************************************)
(* The owner, while the stream is initialized.                             *)
(***************************************************************************)
active_log == <<"log", active>>
active_index == <<"index", active>>
appended == first_record_id(active) + Len(cache[active_log])

\* A record reaches the log; IndexedLogWriter refuses one that is past the file
\* or past the sequence domain.
append_log ==
  /\ pc = "run"
  /\ Len(cache[active_log]) < RECORDS_PER_FILE
  /\ appended < MAX_SEQUENCE
  /\ write(active_log, <<epoch>>)
  /\ truth' = Append(truth, epoch)
  /\ UNCHANGED <<directories, documents, pc, working, successor, faults,
                 epoch, flushed, synced>>

\* Its entry reaches the index, and the flush that sent both returns.
append_index ==
  /\ pc = "run"
  /\ Len(cache[active_index]) < Len(cache[active_log])
  /\ write(active_index, <<Len(cache[active_index]) + 1>>)
  /\ flushed' = first_record_id(active) + Len(cache[active_index]) + 1
  /\ UNCHANGED <<directories, documents, pc, working, successor, faults,
                 epoch, truth, synced>>

owner_sync_log ==
  /\ pc = "run"
  /\ Len(cache[active_index]) = Len(cache[active_log])
  /\ stable[active_log] < Len(cache[active_log])
  /\ sync_data(active_log)
  /\ UNCHANGED <<directories, documents, pc, working, successor, faults, history>>

\* Files are synchronised now.  The directories that name them may not be:
\* create_log_and_index leaves that to a caller who has no call for it.
owner_sync_index ==
  /\ pc = "run"
  /\ Len(cache[active_index]) = Len(cache[active_log])
  /\ stable[active_log] = Len(cache[active_log])
  /\ stable[active_index] < Len(cache[active_index])
  /\ sync_data(active_index)
  /\ synced' = IF Durable("log", appended) THEN appended ELSE synced
  /\ UNCHANGED <<directories, documents, pc, working, successor, faults,
                 epoch, truth, flushed>>

\* create_log_and_index of the successor, at any time before it is needed.  An
\* existing file fails it, and the owner starts over with initialize.
create_successor ==
  LET kind == IF successor = "none" THEN "log" ELSE "index"
  IN  /\ pc = "run"
      /\ successor # "pair"
      /\ active < MAX_FILE
      /\ IF <<kind, active + 1>> \in names
           THEN /\ fail
                /\ successor' = "none"
                /\ UNCHANGED <<directories, contents>>
           ELSE /\ create(<<kind, active + 1>>)
                /\ successor' = IF kind = "log" THEN "log" ELSE "pair"
                /\ UNCHANGED <<pc, working>>
      /\ UNCHANGED <<documents, faults, history>>

\* finalize accepts only a full pair that is synchronised.
rotate ==
  /\ pc = "run"
  /\ successor = "pair"
  /\ Len(cache[active_log]) = RECORDS_PER_FILE
  /\ stable[active_log] = RECORDS_PER_FILE
  /\ stable[active_index] = RECORDS_PER_FILE
  /\ active' = active + 1
  /\ successor' = "none"
  /\ UNCHANGED <<storage, pc, checkpoint, maximum, recovered_end,
                 first_file_to_remove, at, faults, history>>

-------------------------------------------------------------------------------
(***************************************************************************)
(* Faults.                                                                 *)
(***************************************************************************)

\* An I/O error, a cancelled future or the death of the process: what was done
\* stays, and a write under way may leave a part of a record or an entry.
interrupt ==
  /\ "interrupt" \in Faults
  /\ faults < MaxFaults
  /\ pc # "down"
  /\ \/ UNCHANGED contents
     \/ pc = "run" /\ write(active_log, <<Torn>>)
     \/ pc = "run" /\ write(active_index, <<Torn>>)
     \/ pc = "write_suffix" /\ write(index, <<Torn>>)
  /\ fail
  /\ successor' = "none"
  /\ faults' = faults + 1
  /\ UNCHANGED <<directories, documents, history>>

power_loss ==
  /\ "power_loss" \in Faults
  /\ faults < MaxFaults
  /\ lose_power
  /\ fail
  /\ successor' = "none"
  /\ faults' = faults + 1
  /\ flushed' = synced
  /\ UNCHANGED <<epoch, truth, synced>>

-------------------------------------------------------------------------------
\* When initialization finishes, the next epoch starts from what it recovered.
recovered_count == recovered_end + 1

recover ==
  /\ initialize
  /\ IF pc = "finish"
       THEN /\ epoch' = epoch + 1
            /\ truth' = Stored(recovered_count)
            /\ flushed' = recovered_count
            /\ synced' = recovered_count
       ELSE UNCHANGED history
  /\ UNCHANGED <<successor, faults>>

own ==
  \/ append_log \/ append_index \/ owner_sync_log \/ owner_sync_index
  \/ create_successor \/ rotate

Next == recover \/ own \/ interrupt \/ power_loss

\* The runtime polls the future of initialize until it ends, and the owner calls
\* it again after a failure.  Nobody has to append, and faults need not happen.
Spec == Init /\ [][Next]_vars
FairSpec == Spec /\ WF_vars(recover)

-------------------------------------------------------------------------------
(***************************************************************************)
(* Properties.                                                             *)
(***************************************************************************)

\* write_checkpoint comes after everything it certifies: in whatever state a
\* power loss leaves the stream's directory, the checkpoint found there covers
\* only records that no power loss can take away, in the logs and the indexes.
CheckpointCovered ==
  \A doc \in checkpoints :
    /\ doc.synced
    /\ Durable("log", doc.end + 1)
    /\ Durable("index", doc.end + 1)

\* Publication only adds to what is certified: no power loss brings back a
\* checkpoint that is older than one a completed write_checkpoint replaced.
CheckpointNeverRetreats ==
  [][\A doc \in checkpoints' : \E old \in checkpoints : old.end <= doc.end]_vars

\* Recovery returns a prefix of the records the owner appended since the last
\* recovery and of those that one returned.  It brings back no record that an
\* earlier recovery discarded, and mixes no two lives of the stream.
RecoveredIsPrefix ==
  [][pc = "finish" /\ pc' = "run"
       => /\ recovered_count <= Len(truth)
          /\ Stored(recovered_count) = SubSeq(truth, 1, recovered_count)]_vars

\* Recovery drops nothing it must keep: the flushed records after a process
\* failure, and after a power loss those that were synchronised, in files the
\* directories durably name.
RecoveryKeepsRecords ==
  [][pc = "finish" /\ pc' = "run" => recovered_count >= flushed]_vars

\* The active pair holds a record of an earlier life: a recovery has repaired it.
Repaired == cache[active_log] # << >> /\ cache[active_log][1] < epoch

\* "A retained pair is already synchronized": a new pair's records may go with its
\* directory entry, but once open_index_for_repair has opened the pair, whatever
\* its owner synchronises in it stays, with every record and entry before it.
RepairedPairKeeps ==
  pc = "run" /\ Repaired =>
    /\ Durable("log", first_record_id(active) + stable[active_log])
    /\ Durable("index", first_record_id(active) + stable[active_index])

\* The pair that initialize returns can take the next record: it is the file of
\* that record, has room, a dense index that ends where the log ends, and there
\* is no log after it for a later recovery to mistake for its continuation.
ActivePairReady ==
  pc = "finish" =>
    /\ active = from_record_id(recovered_count)
    /\ {active_log, active_index} \subseteq names
    /\ appended = recovered_count
    /\ cache[active_index] = [i \in 1 .. Len(cache[active_log]) |-> i]
    /\ maximum_log_file = active

\* No fault leaves a state that initialize refuses for ever: retried often
\* enough, it succeeds.  An orphan index may cost it one attempt.
InitializationSucceeds == pc # "run" ~> pc = "run"

\* "cleanup synchronizes changed parents.  Only then can checkpoint publication
\* begin": when a checkpoint is being published, no power loss brings back the
\* log of a pair that recovery has removed.
CleanupPrecedesPublication ==
  pc \in {"sync_pending", "rename_pending", "sync_stream_directory"} =>
    \A l \in Leaves : \A listing \in dirs[l] :
      \A f \in Files : <<"log", f>> \in listing => <<"log", f>> \in names
=============================================================================
