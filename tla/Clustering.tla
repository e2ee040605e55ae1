----------------------------- MODULE Clustering -----------------------------
(***************************************************************************)
(* The clustering configuration: validated from the raw startup inputs,    *)
(* paired with a UUID and kept by StorageProvider in one JSON file, which  *)
(* is validated again whenever it is read.                                 *)
(*                                                                         *)
(* A domain is a sequence of character classes; a mode or a node name is   *)
(* one of spaces and a word, since no character in a word is told apart.   *)
(***************************************************************************)
EXTENDS Integers, Sequences, FiniteSetsExt

CONSTANTS
  MAX_NAME_LENGTH, MAX_LABEL_LENGTH,
  IpLiterals,     \* the names that std parses as an IpAddr
  RawInputs,      \* startup inputs: mode, and node and domain or NoCluster
  Uuids,
  MaxWrites,      \* bound on write_clustering_configuration calls
  NoCluster, Unread, Absent, Torn  \* values apart from all others

Characters == {"space", "dot", "hyphen", "upper", "lower", "digit", "other"}

ASSUME ClusteringAssumption ==
  /\ MAX_NAME_LENGTH \in Nat /\ MAX_LABEL_LENGTH \in Nat /\ MaxWrites \in Nat
  /\ \A input \in RawInputs :
       input.cluster # NoCluster => input.cluster.domain \in Seq(Characters)

VARIABLES
  raw,        \* RawClusteringConfiguration
  config,     \* Unread, or what try_from made of it
  phase,      \* of a write: off, idle, open, written, synced or renamed
  document,   \* what is being written
  pending,    \* the staging file
  published,  \* the clustering configuration file
  fallback,   \* what a power loss may leave of the published file
  writes,
  expected    \* history: what a read may find

fileVars == <<document, pending, published, fallback, writes, expected>>
vars == <<raw, config, phase, fileVars>>

-----------------------------------------------------------------------------
Ok(v) == [ok |-> TRUE, value |-> v]
Err(kind) == [ok |-> FALSE, value |-> kind]

(* str::trim *)
Trim(s) == LET solid == {i \in 1..Len(s) : s[i] # "space"}
           IN IF solid = {} THEN <<>> ELSE SubSeq(s, Min(solid), Max(solid))

\* Variant: every trailing dot goes.
mut_strip_suffix(s) ==
  LET solid == {i \in 1..Len(s) : s[i] # "dot"}
  IN IF solid = {} THEN <<>> ELSE SubSeq(s, 1, Max(solid))

(* One final root dot. *)
strip_suffix(s) ==
  IF s # <<>> /\ s[Len(s)] = "dot" THEN SubSeq(s, 1, Len(s) - 1) ELSE s

Lower(s) == [i \in 1..Len(s) |-> IF s[i] = "upper" THEN "lower" ELSE s[i]]
Alphanumeric == {"upper", "lower", "digit"}

(* std reads the digits of an address in either case. *)
ASSUME IpAssumption ==
  \A input \in RawInputs : input.cluster # NoCluster =>
    LET name == strip_suffix(Trim(input.cluster.domain))
    IN Lower(name) \in IpLiterals <=> name \in IpLiterals

(* split('.'): the labels, as their first and last positions. *)
Labels(s) ==
  {ab \in (1..Len(s) + 1) \X (0..Len(s)) :
     /\ ab[1] <= ab[2] + 1
     /\ ab[1] = 1 \/ s[ab[1] - 1] = "dot"
     /\ ab[2] = Len(s) \/ s[ab[2] + 1] = "dot"
     /\ \A i \in ab[1]..ab[2] : s[i] # "dot"}

(* The first rule a label breaks. *)
LabelFailure(label) ==
  IF label = <<>> THEN "EmptyLabel"
  ELSE IF Len(label) > MAX_LABEL_LENGTH THEN "LabelTooLong"
  ELSE IF \E i \in 1..Len(label) : label[i] \notin Alphanumeric \cup {"hyphen"}
  THEN "InvalidCharacter"
  ELSE IF "hyphen" \in {label[1], label[Len(label)]} THEN "InvalidBoundary"
  ELSE "none"

(* Hostname::parse: the stored name, or the first failure. *)
parse(name) ==
  LET trimmed == Trim(name)
      labels == strip_suffix(trimmed)
      Failure(ab) == LabelFailure(SubSeq(labels, ab[1], ab[2]))
      bad == {ab \in Labels(labels) : Failure(ab) # "none"}
  IN IF trimmed = <<>> THEN Err("Empty")
     ELSE IF Len(labels) > MAX_NAME_LENGTH THEN Err("TooLong")
     ELSE IF labels \in IpLiterals THEN Err("IpLiteral")
     ELSE IF bad # {} THEN
       Err(Failure(CHOOSE ab \in bad : \A cd \in bad : ab[1] <= cd[1]))
     ELSE Ok(Lower(trimmed))

(* NodeName::parse: trimmed and case-sensitive. *)
NodeNames == {<<"master">>, <<"replica-1">>, <<"replica-2">>}
NodeName(name) == IF Trim(name) \in NodeNames THEN Ok(Trim(name))
                                              ELSE Err("InvalidNodeName")

(* A membership of checked parts: the constructor checks nothing more. *)
ClusterMembership(node, domain) == [node |-> node, domain |-> domain]
Single == [node |-> <<>>, domain |-> <<>>]

membership(node, domain) ==
  IF ~NodeName(node).ok THEN NodeName(node)
  ELSE IF ~parse(domain).ok THEN parse(domain)
  ELSE Ok(ClusterMembership(NodeName(node).value, parse(domain).value))

(* ClusteringConfiguration::try_from *)
try_from(r) ==
  CASE Trim(r.mode) = <<"single">> ->
         IF r.cluster # NoCluster THEN Err("UnexpectedField") ELSE Ok(Single)
    [] Trim(r.mode) = <<"cluster">> ->
         IF r.cluster = NoCluster THEN Err("MissingField")
         ELSE membership(r.cluster.node, r.cluster.domain)
    [] OTHER -> Err("InvalidMode")

(* Torn is apart from what is ever stored. *)
ASSUME TornAssumption ==
  /\ Torn # Absent
  /\ \A input \in RawInputs, uuid \in Uuids :
       Torn # [cluster_id |-> uuid, configuration |-> try_from(input).value]

-----------------------------------------------------------------------------
(* read_json: an absent file is None; the validated types check again what *)
(* they load.  A document of valid parts is far below the 4 KiB limit.     *)
read_json(file) ==
  IF file = Absent THEN Ok(Absent)
  ELSE IF file = Torn THEN Err("Json")
  ELSE IF file.configuration = Single THEN Ok(file)
  ELSE LET loaded == membership(file.configuration.node, file.configuration.domain)
       IN IF loaded.ok THEN Ok([file EXCEPT !.configuration = loaded.value]) ELSE loaded

Init == /\ raw \in RawInputs /\ config = Unread /\ phase = "off"
        /\ document = Absent /\ pending = Absent /\ published = Absent
        /\ fallback = {Absent} /\ writes = 0 /\ expected = {Absent}

(* main: a rejected configuration ends the process. *)
Start == /\ phase = "off" /\ config = Unread
         /\ config' = try_from(raw)
         /\ phase' = IF config'.ok THEN "idle" ELSE "off"
         /\ UNCHANGED <<raw, fileVars>>

(* write_clustering_configuration: the document is serialized before any   *)
(* I/O, the staging file created or truncated.                             *)
OpenPending(uuid) ==
  /\ phase = "idle" /\ writes < MaxWrites
  /\ phase' = "open" /\ writes' = writes + 1
  /\ document' = [cluster_id |-> uuid, configuration |-> config.value]
  /\ pending' = Torn
  /\ expected' = expected \cup {document'}
  /\ UNCHANGED <<raw, config, published, fallback>>

(* write_all and flush *)
WritePending ==
  /\ phase = "open" /\ phase' = "written"
  /\ pending' = document
  /\ UNCHANGED <<raw, config, document, published, fallback, writes, expected>>

SyncPending ==
  /\ phase = "written" /\ phase' = "synced"
  /\ UNCHANGED <<raw, config, fileVars>>

\* Variant: the staging file is not synchronised before it is renamed.
mut_Rename ==
  /\ phase \in {"written", "synced"} /\ phase' = "renamed"
  /\ published' = pending /\ pending' = Absent
  /\ fallback' = fallback \cup {IF phase = "synced" THEN pending ELSE Torn}
  /\ UNCHANGED <<raw, config, document, writes, expected>>

Rename ==
  /\ phase = "synced" /\ phase' = "renamed"
  /\ published' = pending /\ pending' = Absent
  /\ fallback' = fallback \cup {pending}
  /\ UNCHANGED <<raw, config, document, writes, expected>>

(* The write returns Ok. *)
SyncDirectory ==
  /\ phase = "renamed" /\ phase' = "idle"
  /\ fallback' = {published} /\ expected' = {document}
  /\ UNCHANGED <<raw, config, document, pending, published, writes>>

(* An error, a dropped future or the end of the process at any await. *)
Interrupt ==
  /\ phase \notin {"off", "idle"} /\ phase' = "idle"
  /\ UNCHANGED <<raw, config, fileVars>>

PowerLoss ==
  /\ phase # "off" /\ phase' = "off" /\ config' = Unread
  /\ \E file \in fallback : published' = file /\ fallback' = {file}
  /\ pending' \in {Absent, Torn, pending}
  /\ UNCHANGED <<raw, document, writes, expected>>

Next == \/ Start \/ (\E uuid \in Uuids : OpenPending(uuid)) \/ WritePending
        \/ SyncPending \/ Rename \/ SyncDirectory \/ Interrupt \/ PowerLoss

Spec == Init /\ [][Next]_vars

-----------------------------------------------------------------------------
(* Whatever interrupts the writes, the file can be read, after a power     *)
(* loss too: it is what the last successful write stored, or a later one   *)
(* that did not succeed, and loading validates it to the very value that   *)
(* was stored.                                                             *)
StoredReadsBack ==
  \A file \in fallback \cup {published} :
    read_json(file).ok /\ read_json(file).value \in expected

(* The hostnames in normal form, without looking at their labels: letters, *)
(* digits and, away from the ends and the dots, hyphens, with a dot in     *)
(* every stretch longer than a label.                                      *)
IsHostname(name) ==
  /\ Len(name) \in 1..MAX_NAME_LENGTH /\ name \notin IpLiterals
  /\ \A i \in 1..Len(name) : name[i] \in {"lower", "digit", "hyphen", "dot"}
  /\ \A i \in 1..Len(name) :
       i \in {1, Len(name)} \/ "dot" \in {name[i - 1], name[i + 1]} =>
         name[i] \in {"lower", "digit"}
  /\ \A i \in 1..Len(name) - MAX_LABEL_LENGTH :
       \E j \in i..i + MAX_LABEL_LENGTH : name[j] = "dot"
IsAbsolute(name) ==
  name # <<>> /\ name[Len(name)] = "dot" /\ IsHostname(SubSeq(name, 1, Len(name) - 1))

(* Startup accepts a cluster's domain exactly when, trimmed and in         *)
(* lowercase, it is such a hostname, a root dot aside, and keeps that form. *)
AcceptsExactly ==
  config # Unread /\ Trim(raw.mode) = <<"cluster">> /\ raw.cluster # NoCluster
    /\ NodeName(raw.cluster.node).ok =>
  LET normal == Lower(Trim(raw.cluster.domain))
  IN /\ config.ok <=> IsHostname(normal) \/ IsAbsolute(normal)
     /\ config.ok => config.value.domain = normal
=============================================================================
