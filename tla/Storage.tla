------------------------------- MODULE Storage -------------------------------
(***************************************************************************)
(* storage::StorageProvider for one stream, over a file system that can    *)
(* lose what was not synchronised: the log and index files, the leaf       *)
(* directories that name them, and the checkpoint document.                *)
(*                                                                         *)
(* A process sees the cached state.  A power loss replaces it by one of    *)
(* the states the disk may be in: a directory's unsynchronised changes     *)
(* persist in the order they were made, each directory on its own; a       *)
(* file's unsynchronised cells persist one by one, or not, or torn.        *)
(*                                                                         *)
(* All records have one length here (IndexedLogWriter has the others), so  *)
(* a position in a log is the number of records before it, and an endpoint *)
(* is its record's sequence number.  A log cell is the epoch in which its  *)
(* record was appended; its identity is its place in the file.  An index   *)
(* cell is the position it encodes.                                        *)
(***************************************************************************)
EXTENDS Locations, Sequences, FiniteSetsExt, Functions

CONSTANTS FILES_PER_LEAF   \* pairs that share a directory; 1_000 in the code

ASSUME StorageAssumption == FILES_PER_LEAF \in Nat \ {0}

Files == 0 .. MAX_FILE
Paths == {"log", "index"} \X Files
Leaves == {n \div FILES_PER_LEAF : n \in Files}

NoFile == -1
NoSeq == -1

\* Bytes that do not decode to the record or entry that belongs in this place.
Torn == 0

VARIABLES
  names,      \* the paths a process can open
  dirs,       \* per leaf directory: what it may hold after a power loss
  cache,      \* per path: the contents a process reads
  disk,       \* per path: the contents at its last synchronisation
  stable,     \* per path: the leading cells that no power loss can change
  checkpoint_json,  \* the published document: its endpoint, NoSeq if absent
  checkpoints,      \* the documents that may be published after a power loss
  pending           \* the staged document, and whether it is synchronised

directories == <<names, dirs>>
contents == <<cache, disk, stable>>
documents == <<checkpoint_json, checkpoints, pending>>
storage == <<directories, contents, documents>>

NoDocument == [end |-> NoSeq, synced |-> TRUE]

StorageTypeOK ==
  /\ names \subseteq Paths
  /\ dirs \in [Leaves -> SUBSET SUBSET Paths]
  /\ cache \in [Paths -> Seq(Nat)]
  /\ disk \in [Paths -> Seq(Nat)]
  /\ stable \in [Paths -> Nat]
  /\ checkpoint_json \in SequenceNumber \cup {NoSeq}
  /\ checkpoints \subseteq [end : SequenceNumber \cup {NoSeq}, synced : BOOLEAN]
  /\ pending \in [end : SequenceNumber \cup {NoSeq}, synced : BOOLEAN]

StorageInit ==
  /\ names = {}
  /\ dirs = [l \in Leaves |-> {{}}]
  /\ cache = [p \in Paths |-> << >>]
  /\ disk = [p \in Paths |-> << >>]
  /\ stable = [p \in Paths |-> 0]
  /\ checkpoint_json = NoSeq
  /\ checkpoints = {NoDocument}
  /\ pending = NoDocument

-------------------------------------------------------------------------------
(***************************************************************************)
(* Paths and directories.                                                  *)
(***************************************************************************)

\* The directory of log_or_index_file_path.
leaf(p) == p[2] \div FILES_PER_LEAF

Listing(nameset, l) == {p \in nameset : leaf(p) = l}

\* The cached names become nameset: every directory gains a state it may be in.
Rename(nameset) ==
  /\ names' = nameset
  /\ dirs' = [l \in Leaves |-> dirs[l] \cup {Listing(nameset, l)}]

sync_directory(l) == dirs' = [dirs EXCEPT ![l] = {Listing(names, l)}]

maximum_log_file ==
  LET logs == {n \in Files : <<"log", n>> \in names}
  IN  IF logs = {} THEN NoFile ELSE Max(logs)

\* A file that does not exist yet is opened with create or create_new.
create(p) ==
  /\ p \notin names
  /\ Rename(names \cup {p})
  /\ cache' = [cache EXCEPT ![p] = << >>]
  /\ disk' = [disk EXCEPT ![p] = << >>]
  /\ stable' = [stable EXCEPT ![p] = 0]

\* One remove_file of remove_log_and_index; a missing file is accepted.
remove_file(p) == Rename(names \ {p})

-------------------------------------------------------------------------------
(***************************************************************************)
(* File contents.                                                          *)
(***************************************************************************)
write(p, cells) ==
  /\ cache' = [cache EXCEPT ![p] = @ \o cells]
  /\ UNCHANGED <<disk, stable>>

set_len(p, n) ==
  /\ cache' = [cache EXCEPT ![p] = SubSeq(@, 1, n)]
  /\ stable' = [stable EXCEPT ![p] = Min({@, n})]
  /\ UNCHANGED disk

sync_data(p) ==
  /\ disk' = [disk EXCEPT ![p] = cache[p]]
  /\ stable' = [stable EXCEPT ![p] = Len(cache[p])]
  /\ UNCHANGED cache

-------------------------------------------------------------------------------
(***************************************************************************)
(* write_json_atomic of the checkpoint, one step per file operation.       *)
(***************************************************************************)

\* Variant: the document is truncated and rewritten in place.
mut_stage_pending(end) ==
  /\ pending' = [end |-> end, synced |-> FALSE]
  /\ checkpoints' = checkpoints \cup {NoDocument}
  /\ UNCHANGED checkpoint_json

\* Create or truncate the staging file, write it and flush it.
stage_pending(end) ==
  /\ pending' = [end |-> end, synced |-> FALSE]
  /\ UNCHANGED <<checkpoint_json, checkpoints>>

sync_pending ==
  /\ pending' = [pending EXCEPT !.synced = TRUE]
  /\ UNCHANGED <<checkpoint_json, checkpoints>>

rename_pending ==
  /\ checkpoint_json' = pending.end
  /\ checkpoints' = checkpoints \cup {pending}
  /\ pending' = NoDocument

\* sync_directory of the stream directory, which holds the checkpoint.
sync_checkpoint_directory ==
  /\ checkpoints' = {[end |-> checkpoint_json, synced |-> TRUE]}
  /\ UNCHANGED <<checkpoint_json, pending>>

-------------------------------------------------------------------------------
(***************************************************************************)
(* Power loss.                                                             *)
(***************************************************************************)

\* The contents of p after a power loss: beyond the stable cells, each place
\* holds what was cached or was last synchronised there, or is torn.
Survivors(p) ==
  LET c == cache[p]
      d == disk[p]
      Held(i) == {Torn} \cup {s[i] : s \in {t \in {c, d} : i \in DOMAIN t}}
      Tails(n) == {t \in [stable[p] + 1 .. n -> {Torn} \cup Range(c) \cup Range(d)] :
                     \A i \in DOMAIN t : t[i] \in Held(i)}
  IN  UNION {{[i \in 1 .. n |-> IF i <= stable[p] THEN c[i] ELSE t[i]] : t \in Tails(n)} :
             n \in stable[p] .. Max({Len(c), Len(d)})}

\* The product of the survivors of nameset, built path by path: TLC would have to
\* try every function.
Combined(nameset) ==
  LET Extend(p, maps) == {[q \in Paths |-> IF q = p THEN content ELSE m[q]] :
                             m \in maps, content \in Survivors(p)}
  IN  FoldSet(Extend, {[p \in Paths |-> << >>]}, nameset)

\* The contents the files in nameset may have.  All other paths are empty.  The
\* condition says what a member of the product is.
Recoverable(nameset) ==
  {map \in Combined(nameset) :
     /\ map \in [Paths -> Seq(Nat)]
     /\ \A p \in Paths : map[p] \in IF p \in nameset THEN Survivors(p) ELSE {<< >>}}

\* A document renamed before it was synchronised may come back as anything; let
\* it be the one that certifies the most.
Published(doc) ==
  IF doc.synced THEN {doc.end} ELSE {doc.end, MAX_SEQUENCE}

lose_power ==
  \E listing \in [Leaves -> UNION Range(dirs)], doc \in checkpoints :
    /\ \A l \in Leaves : listing[l] \in dirs[l]
    /\ names' = UNION Range(listing)
    /\ dirs' = [l \in Leaves |-> {listing[l]}]
    /\ cache' \in Recoverable(names')
    /\ disk' = cache'
    /\ stable' = [p \in Paths |-> Len(cache'[p])]
    /\ checkpoint_json' \in Published(doc)
    /\ checkpoints' = {[end |-> checkpoint_json', synced |-> TRUE]}
    /\ pending' = NoDocument
=============================================================================
