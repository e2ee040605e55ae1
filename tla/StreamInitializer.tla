-------------------------- MODULE StreamInitializer --------------------------
(***************************************************************************)
(* StreamInitializer::initialize: recovery of one stream, with the three   *)
(* validators it drives, over the file system of module Storage.           *)
(*                                                                         *)
(* One action per awaited operation that reads or changes storage, in the  *)
(* order of the code: between any two of them the attempt can be cut off.  *)
(* pc names the operation that is next.  An attempt that returns an error  *)
(* leaves no initialized stream: pc is "down" again.                       *)
(***************************************************************************)
EXTENDS Storage

VARIABLES
  pc,
  checkpoint,            \* the endpoint loaded first, or NoSeq
  maximum,               \* maximum_log_file, or NoFile
  recovered_end,         \* the latest accepted endpoint of the stream
  active,                \* the file of active_pair, or NoFile
  first_file_to_remove,  \* or NoFile
  at                     \* the file or leaf that the running loop is at

working == <<checkpoint, maximum, recovered_end, active, first_file_to_remove, at>>

Steps ==
  {"discover", "open_log", "open_index", "sync_leaf", "scan", "sync_log",
   "check_trusted", "write_suffix", "sync_index", "remove_log", "remove_index",
   "sync_leaves", "publish", "sync_pending", "rename_pending",
   "sync_stream_directory", "prepare", "create_index", "finish"}

InitializerTypeOK ==
  /\ pc \in Steps \cup {"down", "run"}
  /\ checkpoint \in SequenceNumber \cup {NoSeq}
  /\ maximum \in Files \cup {NoFile}
  /\ recovered_end \in SequenceNumber \cup {NoSeq}
  /\ active \in Files \cup {NoFile}
  /\ first_file_to_remove \in Files \cup {NoFile}
  /\ at \in Files \cup {NoFile}

new ==
  /\ checkpoint' = NoSeq
  /\ maximum' = NoFile
  /\ recovered_end' = NoSeq
  /\ active' = NoFile
  /\ first_file_to_remove' = NoFile
  /\ at' = NoFile

InitializerInit ==
  /\ pc = "down"
  /\ checkpoint = NoSeq
  /\ maximum = NoFile
  /\ recovered_end = NoSeq
  /\ active = NoFile
  /\ first_file_to_remove = NoFile
  /\ at = NoFile

log == <<"log", at>>
index == <<"index", at>>

\* The records of file `at` that the checkpoint certifies: last_trusted.
trusted_count ==
  IF checkpoint # NoSeq /\ from_record_id(checkpoint) = at
    THEN record_count_through(checkpoint) ELSE 0

\* `?` on an error: the working state is dropped, storage stays as it is.
fail == new /\ pc' = "down"

-------------------------------------------------------------------------------
(***************************************************************************)
(* load_checkpoint and discover_log_files.                                 *)
(***************************************************************************)
load_checkpoint ==
  /\ pc = "down"
  /\ pc' = "discover"
  /\ checkpoint' = checkpoint_json
  /\ UNCHANGED <<maximum, recovered_end, active, first_file_to_remove, at, storage>>

\* Variant: the maximum has to be above the checkpoint's file.
mut_discover_log_files ==
  /\ pc = "discover"
  /\ UNCHANGED storage
  /\ IF checkpoint # NoSeq /\ maximum_log_file <= from_record_id(checkpoint)
       THEN fail
       ELSE /\ maximum' = maximum_log_file
            /\ IF maximum_log_file = NoFile
                 THEN pc' = "publish" /\ UNCHANGED at
                 ELSE /\ pc' = "open_log"
                      /\ at' = IF checkpoint = NoSeq THEN 0
                                                     ELSE from_record_id(checkpoint)
            /\ UNCHANGED <<checkpoint, recovered_end, active, first_file_to_remove>>

discover_log_files ==
  /\ pc = "discover"
  /\ UNCHANGED storage
  /\ IF checkpoint # NoSeq /\ maximum_log_file < from_record_id(checkpoint)
       THEN fail
       ELSE /\ maximum' = maximum_log_file
            /\ IF maximum_log_file = NoFile
                 THEN pc' = "publish" /\ UNCHANGED at
                 ELSE /\ pc' = "open_log"
                      /\ at' = IF checkpoint = NoSeq THEN 0
                                                     ELSE from_record_id(checkpoint)
            /\ UNCHANGED <<checkpoint, recovered_end, active, first_file_to_remove>>

-------------------------------------------------------------------------------
(***************************************************************************)
(* validate_files: IndexedLogValidator on one file after the other.        *)
(***************************************************************************)

\* Variant: a gap ends the prefix but sets no cleanup boundary.
mut_open_log_for_validation ==
  /\ pc = "open_log"
  /\ UNCHANGED storage
  /\ \/ /\ log \in names
        /\ pc' = "open_index"
        /\ UNCHANGED working
     \/ /\ log \notin names
        /\ trusted_count > 0
        /\ fail
     \/ /\ log \notin names
        /\ trusted_count = 0
        /\ pc' = "publish"
        /\ UNCHANGED working

\* A missing log ends the prefix, unless the checkpoint certifies its records.
open_log_for_validation ==
  /\ pc = "open_log"
  /\ UNCHANGED storage
  /\ \/ /\ log \in names
        /\ pc' = "open_index"
        /\ UNCHANGED working
     \/ /\ log \notin names
        /\ trusted_count > 0
        /\ fail
     \/ /\ log \notin names
        /\ trusted_count = 0
        /\ first_file_to_remove' = at
        /\ pc' = "remove_log"
        /\ UNCHANGED <<checkpoint, maximum, recovered_end, active, at>>

\* Variant: the parent is synchronised only for an index that was created now.
mut_open_index_for_repair ==
  /\ pc = "open_index"
  /\ \/ index \in names /\ pc' = "scan" /\ UNCHANGED <<directories, contents>>
     \/ index \notin names /\ pc' = "sync_leaf" /\ create(index)
  /\ UNCHANGED <<working, documents>>

open_index_for_repair ==
  /\ pc = "open_index"
  /\ IF index \in names THEN UNCHANGED <<directories, contents>> ELSE create(index)
  /\ pc' = "sync_leaf"
  /\ UNCHANGED <<working, documents>>

\* Variant: the index is opened without synchronising its parent.
mut_sync_leaf ==
  /\ pc = "sync_leaf"
  /\ pc' = "scan"
  /\ UNCHANGED <<working, storage>>

sync_leaf ==
  /\ pc = "sync_leaf"
  /\ sync_directory(leaf(index))
  /\ pc' = "scan"
  /\ UNCHANGED <<working, names, contents, documents>>

\* Variant: the scan skips invalid cells as long as a valid one follows.
mut_scan_past_corruption ==
  Max({trusted_count} \cup
      {n \in trusted_count + 1 .. Min({RECORDS_PER_FILE, Len(cache[log])}) :
         cache[log][n] # Torn})

\* Variant: the cap of the scan is one record short.
mut_scan_short ==
  Max({n \in trusted_count .. Max({trusted_count,
                                   Min({RECORDS_PER_FILE - 1, Len(cache[log])})}) :
         \A i \in trusted_count + 1 .. n : cache[log][i] # Torn})

\* The count that scan_records accepts: it goes on from the trusted records to
\* the first cell that is no valid next record, or to the cap.
scan_records ==
  Max({n \in trusted_count .. Min({RECORDS_PER_FILE, Len(cache[log])}) :
         \A i \in trusted_count + 1 .. n : cache[log][i] # Torn})

\* LogFileValidator through its truncation.  The scan result that is left is
\* the log's length: whatever follows the accepted records has been cut off.
scan ==
  /\ pc = "scan"
  /\ UNCHANGED <<directories, documents>>
  /\ IF trusted_count > Len(cache[log])
       THEN fail /\ UNCHANGED contents
       ELSE /\ set_len(log, scan_records)
            /\ pc' = "sync_log"
            /\ UNCHANGED working

sync_log ==
  /\ pc = "sync_log"
  /\ sync_data(log)
  /\ pc' = "check_trusted"
  /\ UNCHANGED <<working, directories, documents>>

\* Variant: the old entries after the trusted one are not cut off.
mut_check_trusted ==
  /\ pc = "check_trusted"
  /\ UNCHANGED storage
  /\ IF trusted_count > 0 /\ ~ (/\ trusted_count <= Len(cache[index])
                                /\ cache[index][trusted_count] = trusted_count)
       THEN fail
       ELSE pc' = "write_suffix" /\ UNCHANGED working

\* IndexFileValidator: the trusted entry must hold the trusted position before
\* anything is changed; then the entries after it are cut off.
check_trusted ==
  /\ pc = "check_trusted"
  /\ UNCHANGED <<directories, documents>>
  /\ IF trusted_count > 0 /\ ~ (/\ trusted_count <= Len(cache[index])
                                /\ cache[index][trusted_count] = trusted_count)
       THEN fail /\ UNCHANGED contents
       ELSE /\ set_len(index, trusted_count)
            /\ pc' = "write_suffix"
            /\ UNCHANGED working

\* The newly accepted ends.
suffix_ends ==
  [i \in 1 .. Len(cache[log]) - trusted_count |-> trusted_count + i]

write_suffix ==
  /\ pc = "write_suffix"
  /\ write(index, suffix_ends)
  /\ pc' = "sync_index"
  /\ UNCHANGED <<working, directories, documents>>

\* ValidatedFilePair::Complete: the accepted records fill the file.
Complete == Len(cache[log]) = RECORDS_PER_FILE

\* The end of one pair's validation, and what the loop does with its result.
sync_index ==
  /\ pc = "sync_index"
  /\ sync_data(index)
  /\ recovered_end' = IF cache[log] = << >> THEN recovered_end
                                           ELSE first_record_id(at) + Len(cache[log]) - 1
  /\ \/ /\ Complete /\ at # maximum
        /\ at' = at + 1
        /\ pc' = "open_log"
        /\ UNCHANGED <<active, first_file_to_remove>>
     \/ /\ Complete /\ at = maximum
        /\ pc' = "publish"
        /\ UNCHANGED <<at, active, first_file_to_remove>>
     \/ /\ ~ Complete /\ at # maximum
        /\ active' = at
        /\ first_file_to_remove' = at + 1
        /\ at' = at + 1
        /\ pc' = "remove_log"
     \/ /\ ~ Complete /\ at = maximum
        /\ active' = at
        /\ pc' = "publish"
        /\ UNCHANGED <<at, first_file_to_remove>>
  /\ UNCHANGED <<checkpoint, maximum, directories, documents>>

-------------------------------------------------------------------------------
(***************************************************************************)
(* remove_later_files: remove_log_and_index(first_file_to_remove..=maximum)*)
(***************************************************************************)
remove_log ==
  /\ pc = "remove_log"
  /\ remove_file(log)
  /\ pc' = "remove_index"
  /\ UNCHANGED <<working, contents, documents>>

\* Variant: the range is extended by one file.
mut_remove_index ==
  /\ pc = "remove_index"
  /\ remove_file(index)
  /\ IF at <= maximum
       THEN at' = at + 1 /\ pc' = "remove_log"
       ELSE at' = first_file_to_remove \div FILES_PER_LEAF /\ pc' = "sync_leaves"
  /\ UNCHANGED <<checkpoint, maximum, recovered_end, active, first_file_to_remove,
                 contents, documents>>

remove_index ==
  /\ pc = "remove_index"
  /\ remove_file(index)
  /\ IF at < maximum
       THEN at' = at + 1 /\ pc' = "remove_log"
       ELSE at' = first_file_to_remove \div FILES_PER_LEAF /\ pc' = "sync_leaves"
  /\ UNCHANGED <<checkpoint, maximum, recovered_end, active, first_file_to_remove,
                 contents, documents>>

\* Every distinct parent once, when all the files are gone.
sync_leaves ==
  /\ pc = "sync_leaves"
  /\ sync_directory(at)
  /\ IF at < maximum \div FILES_PER_LEAF
       THEN at' = at + 1 /\ UNCHANGED pc
       ELSE at' = NoFile /\ pc' = "publish"
  /\ UNCHANGED <<checkpoint, maximum, recovered_end, active, first_file_to_remove,
                 names, contents, documents>>

-------------------------------------------------------------------------------
(***************************************************************************)
(* advance_checkpoint.                                                     *)
(***************************************************************************)
advance_checkpoint ==
  /\ pc = "publish"
  /\ IF recovered_end \in {NoSeq, checkpoint}
       THEN pc' = "prepare" /\ UNCHANGED documents
       ELSE pc' = "sync_pending" /\ stage_pending(recovered_end)
  /\ UNCHANGED <<working, directories, contents>>

write_checkpoint ==
  /\ \/ pc = "sync_pending" /\ sync_pending /\ pc' = "rename_pending"
     \/ pc = "rename_pending" /\ rename_pending /\ pc' = "sync_stream_directory"
     \/ pc = "sync_stream_directory" /\ sync_checkpoint_directory /\ pc' = "prepare"
  /\ UNCHANGED <<working, directories, contents>>

-------------------------------------------------------------------------------
(***************************************************************************)
(* prepare_active_pair.  A file that already exists fails its create_new.  *)
(***************************************************************************)
next_file == IF recovered_end = NoSeq THEN 0 ELSE from_record_id(recovered_end) + 1

prepare_active_pair ==
  /\ pc = "prepare"
  /\ UNCHANGED documents
  /\ \/ /\ active # NoFile
        /\ pc' = "finish"
        /\ UNCHANGED <<working, directories, contents>>
     \/ /\ active = NoFile
        /\ <<"log", next_file>> \notin names
        /\ create(<<"log", next_file>>)
        /\ pc' = "create_index"
        /\ UNCHANGED working
     \/ /\ active = NoFile
        /\ <<"log", next_file>> \in names
        /\ fail
        /\ UNCHANGED <<directories, contents>>

create_index ==
  /\ pc = "create_index"
  /\ UNCHANGED documents
  /\ \/ /\ <<"index", next_file>> \notin names
        /\ create(<<"index", next_file>>)
        /\ active' = next_file
        /\ pc' = "finish"
        /\ UNCHANGED <<checkpoint, maximum, recovered_end, first_file_to_remove, at>>
     \/ /\ <<"index", next_file>> \in names
        /\ fail
        /\ UNCHANGED <<directories, contents>>

\* The owner gets the active pair; the rest of the working state is consumed.
finish ==
  /\ pc = "finish"
  /\ pc' = "run"
  /\ checkpoint' = NoSeq /\ maximum' = NoFile /\ recovered_end' = NoSeq
  /\ first_file_to_remove' = NoFile /\ at' = NoFile
  /\ UNCHANGED <<active, storage>>

initialize ==
  \/ load_checkpoint \/ discover_log_files
  \/ open_log_for_validation \/ open_index_for_repair \/ sync_leaf
  \/ scan \/ sync_log \/ check_trusted \/ write_suffix \/ sync_index
  \/ remove_log \/ remove_index \/ sync_leaves
  \/ advance_checkpoint \/ write_checkpoint
  \/ prepare_active_pair \/ create_index
  \/ finish
=============================================================================
