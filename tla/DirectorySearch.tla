--------------------------- MODULE DirectorySearch ---------------------------
(***************************************************************************)
(* StorageProvider::maximum_log_file: the depth-first, highest-first       *)
(* search of a stream's range directories for its highest log.             *)
(*                                                                         *)
(* A directory is its depth and its prefix, the concatenated components of *)
(* its path read as a number.  What is on disk is fixed while the search   *)
(* runs (its caller has exclusive access) and is whatever somebody left    *)
(* there: empty branches, links, directories past the last file number,    *)
(* logs in the wrong leaf.  Names that are not digits of the right length  *)
(* are skipped at once and are left out.                                   *)
(***************************************************************************)
EXTENDS Integers, Sequences, FiniteSets, SequencesExt

CONSTANTS
  Radix,     \* ranges per directory and logs per leaf; 1000 in the code
  Depth,     \* range components of a path; 4 in the code
  MAX_FILE,  \* LogFileNumber::MAX
  MaxLogs    \* bound on the log names on disk

(* 1000u64.pow *)
Power[k \in 0..(Depth + 1)] == IF k = 0 THEN 1 ELSE Radix * Power[k - 1]

ASSUME SearchAssumption ==
  /\ Radix \in Nat \ {0, 1} /\ Depth \in Nat \ {0}
  /\ MAX_FILE \in Nat /\ MAX_FILE < Power[Depth + 1]
  /\ MaxLogs \in Nat

VARIABLES
  tree,      \* disk: range name -> "dir", "link" (no directory) or "absent"
  logs,      \* disk: log names, each with the leaf it is in
  pending,   \* the stack of directories to visit
  directory, \* the one being read, or Nowhere
  unread,    \* its entries not seen yet
  children,  \* the directories found in it
  maximum,   \* the highest log found in it, or -1
  answer     \* "searching", "error", "none" or "found"

disk == <<tree, logs>>
vars == <<disk, pending, directory, unread, children, maximum, answer>>

RangeName == {d \in [depth: 1..Depth, prefix: 0..(Power[Depth] - 1)] : d.prefix < Power[d.depth]}
Base == [depth |-> 0, prefix |-> 0]
Nowhere == [depth |-> -1, prefix |-> 0]
Directories == RangeName \cup {Base}
Parent(d) == [depth |-> d.depth - 1, prefix |-> d.prefix \div Radix]
LogName == {l \in [leaf: 0..(Power[Depth] - 1), number: 0..(MAX_FILE + 1), regular: BOOLEAN] :
              l.regular \/ l.number \div Radix = l.leaf}
Leaf(prefix) == [depth |-> Depth, prefix |-> prefix]

-----------------------------------------------------------------------------
(* What can be on disk: a name below another needs that one. *)
Trees ==
  {t \in [RangeName \cup {Base} -> {"dir", "link", "absent"}] :
     /\ t[Base] # "link"
     /\ \A d \in RangeName : t[Parent(d)] = "absent" => t[d] = "absent"}

Init ==
  /\ tree \in Trees
  /\ \/ logs = {}
     \/ \E names \in [1..MaxLogs -> {l \in LogName : tree[Leaf(l.leaf)] # "absent"}] :
          logs = Range(names)
  /\ pending = <<Base>> /\ directory = Nowhere
  /\ unread = {} /\ children = {} /\ maximum = -1
  /\ answer = "searching"

(* pending.pop() and read_dir; only an absent stream base is no error. *)
PopDirectory ==
  /\ answer = "searching" /\ directory = Nowhere /\ pending # <<>>
  /\ LET d == Last(pending) IN
       /\ pending' = Front(pending)
       /\ directory' = d
       /\ unread' = IF d.depth = Depth THEN {l \in logs : l.leaf = d.prefix}
                    ELSE {c \in RangeName : Parent(c) = d /\ tree[c] # "absent"}
  /\ children' = {} /\ maximum' = -1
  /\ UNCHANGED <<disk, answer>>

(* prefix * 1000u64.pow(4 - directory.depth): the first file of a range. *)
FirstFile(child) == child.prefix * Power[Depth + 1 - child.depth]

(* One entry of range_directories. *)
ReadRange(entry) ==
  /\ answer = "searching" /\ directory.depth \in 0..(Depth - 1)
  /\ entry \in unread /\ unread' = unread \ {entry}
  /\ children' = IF FirstFile(entry) <= MAX_FILE /\ tree[entry] = "dir"
                 THEN children \cup {entry} ELSE children
  /\ UNCHANGED <<disk, pending, directory, maximum, answer>>

(* LogFileNumber::new accepts it and log_file_path leads back to it. *)
IsCanonical(entry) == entry.number <= MAX_FILE /\ entry.number \div Radix = entry.leaf

(* One entry of maximum_log_in_directory. *)
ReadLog(entry) ==
  /\ answer = "searching" /\ directory.depth = Depth
  /\ entry \in unread /\ unread' = unread \ {entry}
  /\ maximum' = IF IsCanonical(entry) /\ entry.regular /\ entry.number > maximum
                THEN entry.number ELSE maximum
  /\ UNCHANGED <<disk, pending, directory, children, answer>>

(* sort_unstable_by_key: highest prefix first. *)
Sorted(dirs) ==
  CHOOSE s \in UNION {[1..n -> dirs] : n \in 0..Radix} :
    /\ Range(s) = dirs
    /\ \A i, j \in 1..Len(s) : i < j => s[i].prefix > s[j].prefix

\* Variant: the stack takes the children in descending order.
mut_PushChildren ==
  /\ answer = "searching" /\ directory.depth \in 0..(Depth - 1) /\ unread = {}
  /\ pending' = pending \o Sorted(children)
  /\ directory' = Nowhere
  /\ UNCHANGED <<disk, unread, children, maximum, answer>>

\* Variant: the search goes through the directories level by level.
mut_PushChildren_level ==
  /\ answer = "searching" /\ directory.depth \in 0..(Depth - 1) /\ unread = {}
  /\ pending' = Reverse(Sorted(children)) \o pending
  /\ directory' = Nowhere
  /\ UNCHANGED <<disk, unread, children, maximum, answer>>

(* The end of a range directory: sorted, reversed and pushed. *)
PushChildren ==
  /\ answer = "searching" /\ directory.depth \in 0..(Depth - 1) /\ unread = {}
  /\ pending' = pending \o Reverse(Sorted(children))
  /\ directory' = Nowhere
  /\ UNCHANGED <<disk, unread, children, maximum, answer>>

(* The end of a leaf: return its maximum, or go on. *)
FinishLeaf ==
  /\ answer = "searching" /\ directory.depth = Depth /\ unread = {}
  /\ IF maximum # -1
     THEN answer' = "found" /\ UNCHANGED directory
     ELSE directory' = Nowhere /\ UNCHANGED answer
  /\ UNCHANGED <<disk, pending, unread, children, maximum>>

Exhausted ==
  /\ answer = "searching" /\ directory = Nowhere /\ pending = <<>>
  /\ answer' = "none"
  /\ UNCHANGED <<disk, pending, directory, unread, children, maximum>>

(* An enumeration or an entry's type cannot be read. *)
ReadFails ==
  /\ answer = "searching" /\ directory # Nowhere
  /\ answer' = "error"
  /\ UNCHANGED <<disk, pending, directory, unread, children, maximum>>

Next ==
  \/ PopDirectory \/ PushChildren \/ FinishLeaf \/ Exhausted \/ ReadFails
  \/ (\E e \in unread : ReadRange(e) \/ ReadLog(e))

Spec == Init /\ [][Next]_vars

-----------------------------------------------------------------------------
(* Every directory on the way to a leaf is one. *)
Reachable(leaf) ==
  \A k \in 0..Depth : tree[[depth |-> k, prefix |-> leaf \div Power[Depth - k]]] = "dir"
Existing == {l.number : l \in {l \in logs : l.regular /\ l.number <= MAX_FILE
                                 /\ l.number \div Radix = l.leaf /\ Reachable(l.leaf)}}

(* The search returns the highest log that is where it belongs, and none   *)
(* only if there is none: no empty branch, misplaced or oversized name,    *)
(* link or enumeration order hides it or stands in for it.  Recovery takes *)
(* every later file to be unwritten.                                       *)
MaximumIsExact ==
  /\ answer = "found" => maximum \in Existing /\ \A n \in Existing : n <= maximum
  /\ answer = "none" => Existing = {}

(* Only pending siblings are retained: at most one directory's children    *)
(* per level wait on the stack, whatever the tree holds.                   *)
StackIsSiblings ==
  /\ Len(pending) <= 1 + Depth * (Radix - 1)
  /\ \A i \in 1..Len(pending) - 1 : pending[i].depth <= pending[i + 1].depth
=============================================================================
