------------------------- MODULE StreamSystem_proofs -------------------------
(***************************************************************************)
(* Proofs about StreamSystem: what recovery and the faults leave of the    *)
(* stream, for every size of the files and any number of faults.           *)
(***************************************************************************)
EXTENDS StreamSystem, WellFoundedInduction, TLAPS

-------------------------------------------------------------------------------
(***************************************************************************)
(* Numbers.                                                                *)
(***************************************************************************)

\* Every nonempty set of natural numbers has a least element.
LEMMA LeastNat ==
  ASSUME NEW T \in SUBSET Nat, T # {}
  PROVE  \E x \in T : \A y \in T : x <= y
<1>1. PICK x \in T : \A y \in T : ~ (<<y, x>> \in OpToRel(<, Nat))
  BY WFMin, NatLessThanWellFounded, Zenon
<1>2. \A y \in T : ~ (y < x)
  BY <1>1 DEF OpToRel
<1>3. QED
  BY <1>2

\* Max of a nonempty, bounded set of natural numbers.
LEMMA MaxOfBounded ==
  ASSUME NEW T \in SUBSET Nat, T # {}, NEW b \in Nat, \A y \in T : y <= b
  PROVE  Max(T) \in T /\ \A y \in T : y <= Max(T)
<1> DEFINE D == {b - y : y \in T}
<1>1. D \in SUBSET Nat /\ D # {}
  <2>1. \A y \in T : b - y \in Nat
    OBVIOUS
  <2>2. QED
    BY <2>1
<1>2. PICK d \in D : \A e \in D : d <= e
  BY <1>1, LeastNat
<1>3. PICK m \in T : d = b - m
  OBVIOUS
<1>4. \A y \in T : m >= y
  <2> TAKE y \in T
  <2>1. b - y \in D
    OBVIOUS
  <2> HIDE DEF D
  <2>2. d <= b - y
    BY <2>1, <1>2
  <2>3. QED
    BY <2>2, <1>3
<1>5. \E x \in T : \A y \in T : x >= y
  BY <1>4
<1>6. Max(T) \in T /\ \A y \in T : Max(T) >= y
  BY <1>5 DEF Max
<1>7. QED
  BY <1>6

LEMMA MaxOfTwo ==
  ASSUME NEW a \in Int, NEW b \in Int
  PROVE  Max({a, b}) = IF a >= b THEN a ELSE b
BY DEF Max

LEMMA MinOfTwo ==
  ASSUME NEW a \in Int, NEW b \in Int
  PROVE  Min({a, b}) = IF a <= b THEN a ELSE b
BY DEF Min

LEMMA Product ==
  ASSUME NEW f \in Nat, NEW g \in Nat, NEW R \in Nat \ {0}
  PROVE  /\ f * R \in Nat
         /\ (f + 1) * R = f * R + R
         /\ f <= g => f * R <= g * R
         /\ f < g => f * R + R <= g * R
<1>1. f * R \in Nat /\ g * R \in Nat /\ (f + 1) * R = f * R + R
  OBVIOUS
<1>2. ASSUME NEW a \in Nat, NEW b \in Nat, a <= b PROVE a * R <= b * R
  <2>1. PICK c \in Nat : b = a + c
    BY <1>2
  <2>2. b * R = a * R + c * R /\ c * R \in Nat /\ a * R \in Nat
    BY <2>1
  <2>3. QED
    BY <2>2
<1>3. f < g => (f + 1) * R <= g * R
  BY <1>2
<1>4. QED
  BY <1>1, <1>2, <1>3

LEMMA Quotient ==
  ASSUME NEW s \in Nat, NEW R \in Nat \ {0}
  PROVE  /\ s \div R \in Nat /\ (s % R) \in 0 .. R - 1
         /\ s = (s \div R) * R + (s % R)
OBVIOUS

\* The files of the sequence numbers.
LEMMA FileOf ==
  ASSUME NEW s \in Nat
  PROVE  /\ from_record_id(s) \in Nat
         /\ first_record_id(from_record_id(s)) <= s
         /\ s < first_record_id(from_record_id(s)) + RECORDS_PER_FILE
         /\ record_count_through(s) = s - first_record_id(from_record_id(s)) + 1
<1> DEFINE q == s \div RECORDS_PER_FILE
<1> DEFINE r == s % RECORDS_PER_FILE
<1>1. q \in Nat /\ r \in 0 .. RECORDS_PER_FILE - 1 /\ s = q * RECORDS_PER_FILE + r
  BY LocationAssumption, Quotient
<1>2. /\ from_record_id(s) = q /\ record_count_through(s) = r + 1
      /\ first_record_id(q) = q * RECORDS_PER_FILE
  BY DEF from_record_id, first_record_id, record_count_through
<1>3. q * RECORDS_PER_FILE \in Nat /\ RECORDS_PER_FILE \in Nat
  BY <1>1, LocationAssumption
<1> HIDE DEF q, r
<1>4. QED
  BY <1>1, <1>2, <1>3

LEMMA FirstOf ==
  ASSUME NEW f \in Nat, NEW g \in Nat
  PROVE  /\ first_record_id(f) \in Nat
         /\ first_record_id(f + 1) = first_record_id(f) + RECORDS_PER_FILE
         /\ f <= g => first_record_id(f) <= first_record_id(g)
         /\ f < g => first_record_id(f) + RECORDS_PER_FILE <= first_record_id(g)
         /\ first_record_id(0) = 0
BY LocationAssumption, Product DEF first_record_id

LEMMA FileUnique ==
  ASSUME NEW s \in Nat, NEW f \in Nat,
         first_record_id(f) <= s, s < first_record_id(f) + RECORDS_PER_FILE
  PROVE  from_record_id(s) = f
<1> DEFINE g == from_record_id(s)
<1>1. /\ g \in Nat /\ first_record_id(g) <= s
      /\ s < first_record_id(g) + RECORDS_PER_FILE
  BY FileOf
<1> HIDE DEF g
<1>2. /\ first_record_id(f) \in Nat /\ first_record_id(g) \in Nat
      /\ RECORDS_PER_FILE \in Nat
      /\ f < g => first_record_id(f) + RECORDS_PER_FILE <= first_record_id(g)
      /\ g < f => first_record_id(g) + RECORDS_PER_FILE <= first_record_id(f)
  BY <1>1, FirstOf, LocationAssumption
<1>3. ~ (f < g) /\ ~ (g < f)
  BY <1>1, <1>2
<1>4. f = g
  BY <1>1, <1>3
<1>5. QED
  BY <1>4 DEF g

LEMMA FilesType ==
  /\ MAX_FILE \in Nat /\ Files \subseteq Nat
  /\ MAX_SEQUENCE \in Nat /\ RECORDS_PER_FILE \in Nat \ {0}
  /\ FILES_PER_LEAF \in Nat \ {0}
BY LocationAssumption, StorageAssumption, Quotient DEF MAX_FILE, Files

LEMMA FileInDomain ==
  ASSUME NEW f \in Nat
  PROVE  f \in Files <=> first_record_id(f) <= MAX_SEQUENCE
<1> DEFINE g == from_record_id(MAX_SEQUENCE)
<1>0. MAX_SEQUENCE \in Nat /\ RECORDS_PER_FILE \in Nat
  BY LocationAssumption
<1>1. /\ g \in Nat /\ first_record_id(g) <= MAX_SEQUENCE
      /\ MAX_SEQUENCE < first_record_id(g) + RECORDS_PER_FILE
  BY <1>0, FileOf
<1>2. f \in Files <=> f <= g
  BY <1>1 DEF Files, MAX_FILE, from_record_id
<1> HIDE DEF g
<1>3. /\ first_record_id(f) \in Nat /\ first_record_id(g) \in Nat
      /\ g < f => first_record_id(g) + RECORDS_PER_FILE <= first_record_id(f)
      /\ f <= g => first_record_id(f) <= first_record_id(g)
  BY <1>1, FirstOf
<1>4. QED
  BY <1>0, <1>1, <1>2, <1>3

LEMMA LeafType ==
  ASSUME NEW p \in Paths
  PROVE  leaf(p) \in Leaves /\ p[2] \in Files /\ p[1] \in {"log", "index"}
BY DEF Paths, Leaves, leaf

\* The records of file f among the first n.
LEMMA CountFacts ==
  ASSUME NEW f \in Files, NEW n \in Nat
  PROVE  /\ CountIn(f, n) \in 0 .. RECORDS_PER_FILE
         /\ CountIn(f, n) = IF n <= first_record_id(f) THEN 0
                            ELSE IF n >= first_record_id(f) + RECORDS_PER_FILE
                                   THEN RECORDS_PER_FILE
                                   ELSE n - first_record_id(f)
         /\ first_record_id(f) \in Nat
<1>1. first_record_id(f) \in Nat /\ RECORDS_PER_FILE \in Nat
  BY FirstOf, FilesType
<1>2. /\ n - first_record_id(f) \in Int
      /\ Min({RECORDS_PER_FILE, n - first_record_id(f)})
           = IF RECORDS_PER_FILE <= n - first_record_id(f) THEN RECORDS_PER_FILE
                                                          ELSE n - first_record_id(f)
  BY <1>1, MinOfTwo
<1>3. PICK m \in Int : m = Min({RECORDS_PER_FILE, n - first_record_id(f)})
  BY <1>1, <1>2
<1>4. CountIn(f, n) = Max({0, m})
  BY <1>3 DEF CountIn
<1>5. Max({0, m}) = IF 0 >= m THEN 0 ELSE m
  BY <1>3, MaxOfTwo
<1>6. QED
  BY <1>1, <1>2, <1>3, <1>4, <1>5

LEMMA CountNatural ==
  ASSUME NEW f \in Files, NEW n \in Nat
  PROVE  CountIn(f, n) \in Nat
<1>1. CountIn(f, n) \in 0 .. RECORDS_PER_FILE
  BY CountFacts
<1>2. RECORDS_PER_FILE \in Nat
  BY LocationAssumption
<1>3. QED
  BY <1>1, <1>2

LEMMA CountMonotone ==
  ASSUME NEW f \in Files, NEW m \in Nat, NEW n \in Nat, m <= n
  PROVE  CountIn(f, m) <= CountIn(f, n)
BY CountFacts, FilesType

-------------------------------------------------------------------------------
(***************************************************************************)
(* The inductive invariant.                                                *)
(***************************************************************************)
Log(f) == <<"log", f>>
Index(f) == <<"index", f>>

\* The directories: the cached names are one of the states they may be in, and
\* every name is in its own directory.
DirsInv ==
  \A l \in Leaves :
    /\ Listing(names, l) \in dirs[l]
    /\ \A listing \in dirs[l] : \A p \in listing : leaf(p) = l

\* The cells that no power loss can change are there.
StableInv == \A p \in Paths : stable[p] <= Len(cache[p])

\* No record is past the sequence domain.
InDomain(f, s) == \A i \in 1 .. Len(s) : first_record_id(f) + i > MAX_SEQUENCE => s[i] = Torn
DomainInv == \A f \in Files : InDomain(f, cache[Log(f)]) /\ InDomain(f, disk[Log(f)])

StorageInv == StorageTypeOK /\ DirsInv /\ StableInv /\ DomainInv

\* Whatever a power loss leaves, the path has its name.
Named(p) == \A listing \in dirs[leaf(p)] : p \in listing

\* A cell that recovery accepts in its place.
Valid(p, i) == IF p[1] = "log" THEN cache[p][i] # Torn ELSE cache[p][i] = i

\* No power loss can take away the first c cells of p; and they are valid.
Safe(p, c) == c > 0 => Named(p) /\ c <= stable[p]
Keeps(p, c) == Safe(p, c) /\ \A i \in 1 .. c : Valid(p, i)

SafeLogs(n) == \A f \in Files : Safe(Log(f), CountIn(f, n))
Secured(n) == \A p \in Paths : Keeps(p, CountIn(p[2], n))

\* The first c records of f are in its log.
Holds(f, c) ==
  c > 0 => /\ Log(f) \in names
           /\ c <= Len(cache[Log(f)])
           /\ \A i \in 1 .. c : cache[Log(f)][i] # Torn

Held(n) == \A f \in Files : Holds(f, CountIn(f, n))

\* The checkpoints a power loss may leave are at most the published one, which
\* certifies secured records.
DocumentInv ==
  /\ \A doc \in checkpoints : doc.synced /\ doc.end <= checkpoint_json
  /\ \E doc \in checkpoints : doc.end = checkpoint_json
  /\ checkpoint_json < MAX_SEQUENCE
  /\ Secured(checkpoint_json + 1)

HistoryInv ==
  /\ epoch \in Nat /\ truth \in Seq(Nat) /\ flushed \in Nat /\ synced \in Nat
  /\ synced <= flushed
  /\ Held(flushed)
  /\ SafeLogs(synced)

-------------------------------------------------------------------------------
\* The working state of an attempt, by the operation that is next.
ReadSteps == {"discover", "open_log", "open_index", "sync_leaf", "scan", "sync_log",
              "check_trusted", "write_suffix", "sync_index"}
CleanSteps == {"remove_log", "remove_index", "sync_leaves"}
SettledSteps == {"publish", "sync_pending", "rename_pending", "sync_stream_directory",
                 "prepare", "create_index", "finish"}
UnpublishedSteps == ReadSteps \cup CleanSteps \cup {"publish", "sync_pending", "rename_pending"}

Dense(f) == cache[Index(f)] = [i \in 1 .. Len(cache[Log(f)]) |-> i]
LogsBelow(n) == \A f \in Files : Log(f) \in names => f < n

AttemptInv ==
  /\ pc \in UnpublishedSteps => checkpoint = checkpoint_json
  /\ pc \in {"down", "discover"} =>
       active = NoFile /\ recovered_end = NoSeq /\ first_file_to_remove = NoFile

\* Files before `at` are complete and secured.
LoopInv ==
  pc \in ReadSteps \ {"discover"} =>
    /\ active = NoFile /\ first_file_to_remove = NoFile
    /\ at \in Files /\ maximum \in Files /\ at <= maximum
    /\ LogsBelow(maximum + 1)
    /\ checkpoint # NoSeq => from_record_id(checkpoint) <= at
    /\ Secured(first_record_id(at))
    /\ IF trusted_count > 0 THEN recovered_end = NoSeq
                            ELSE recovered_end + 1 = first_record_id(at)

PairInv ==
  /\ pc \in ReadSteps \ {"discover", "open_log"} => log \in names
  /\ pc \in ReadSteps \ {"discover", "open_log", "open_index"} => index \in names
  /\ pc \in {"scan", "sync_log", "check_trusted", "write_suffix", "sync_index"} =>
       Named(log) /\ Named(index)
  /\ pc \in {"sync_log", "check_trusted", "write_suffix", "sync_index"} =>
       /\ trusted_count <= Len(cache[log]) /\ Len(cache[log]) <= RECORDS_PER_FILE
       /\ first_record_id(at) + Len(cache[log]) <= MAX_SEQUENCE
       /\ \A i \in 1 .. Len(cache[log]) : cache[log][i] # Torn
  /\ pc \in {"check_trusted", "write_suffix", "sync_index"} =>
       stable[log] = Len(cache[log])
  /\ pc = "write_suffix" => /\ Len(cache[index]) = trusted_count
                            /\ \A i \in 1 .. trusted_count : cache[index][i] = i
  /\ pc = "sync_index" => Dense(at)

\* The first file after the recovered records' files.
top == IF active # NoFile THEN active + 1 ELSE next_file

CleanInv ==
  /\ pc \in CleanSteps =>
       /\ first_file_to_remove = top /\ top \in Files
       /\ maximum \in Files /\ top <= maximum
       /\ at \in Files
  /\ pc = "remove_log" =>
       top <= at /\ at <= maximum
         /\ \A f \in Files : Log(f) \in names => f < top \/ f \in at .. maximum
  /\ pc = "remove_index" =>
       top <= at /\ at <= maximum
         /\ \A f \in Files : Log(f) \in names => f < top \/ f \in at + 1 .. maximum
  /\ pc \in ({"sync_leaves"} \cup SettledSteps) \ {"create_index"} => LogsBelow(top)
  /\ pc = "create_index" => LogsBelow(top + 1)

Recovered(f) ==
  /\ f \in Files /\ {Log(f), Index(f)} \subseteq names
  /\ first_record_id(f) + Len(cache[Log(f)]) = recovered_end + 1
  /\ Len(cache[Log(f)]) < RECORDS_PER_FILE
  /\ Dense(f)

SettledInv ==
  pc \in CleanSteps \cup SettledSteps =>
    /\ recovered_end + 1 <= MAX_SEQUENCE
    /\ flushed <= recovered_end + 1
    /\ Secured(recovered_end + 1)
    /\ pc \in UnpublishedSteps => checkpoint <= recovered_end
    /\ active # NoFile => Recovered(active)
    /\ active = NoFile => next_file \in Files /\ recovered_end + 1 = first_record_id(next_file)
    /\ pc = "sync_pending" => recovered_end # NoSeq /\ pending.end = recovered_end
    /\ pc = "rename_pending" => pending = [end |-> recovered_end, synced |-> TRUE]
                                  /\ recovered_end # NoSeq
    /\ pc = "create_index" => /\ active = NoFile
                              /\ Log(next_file) \in names
                              /\ cache[Log(next_file)] = << >>
    /\ pc = "finish" => active # NoFile

\* A recovery that found a record in the active pair secured its place.
RepairedInv == Repaired => Secured(first_record_id(active) + 1)

RunInv ==
  /\ pc # "run" => successor = "none"
  /\ pc = "run" =>
       /\ epoch > 0
       /\ active \in Files /\ {active_log, active_index} \subseteq names
       /\ Len(cache[active_index]) <= Len(cache[active_log])
       /\ Len(cache[active_log]) <= RECORDS_PER_FILE
       /\ \A i \in 1 .. Len(cache[active_log]) : cache[active_log][i] # Torn
       /\ flushed = first_record_id(active) + Len(cache[active_index])
       /\ RepairedInv
       /\ successor # "none" => /\ active < MAX_FILE
                                /\ Log(active + 1) \in names
                                /\ cache[Log(active + 1)] = << >>
       /\ successor = "pair" => Index(active + 1) \in names
                                /\ cache[Index(active + 1)] = << >>

IInv == /\ StorageInv /\ InitializerTypeOK /\ successor \in {"none", "log", "pair"}
        /\ faults \in 0 .. MaxFaults
        /\ DocumentInv /\ HistoryInv /\ AttemptInv /\ LoopInv /\ PairInv
        /\ CleanInv /\ SettledInv /\ RunInv

-------------------------------------------------------------------------------
(***************************************************************************)
(* What the operations of Storage leave undisturbed.                       *)
(***************************************************************************)

\* A step leaves the first c cells of p as they were.
Undisturbed(p, c) ==
  /\ Safe(p, c) => Safe(p, c)'
  /\ Keeps(p, c) => Keeps(p, c)'
  /\ p[1] = "log" /\ Holds(p[2], c) => Holds(p[2], c)'

LEMMA StorageTypes ==
  ASSUME StorageInv, NEW p \in Paths
  PROVE  /\ cache[p] \in Seq(Nat) /\ disk[p] \in Seq(Nat) /\ stable[p] \in Nat
         /\ Len(cache[p]) \in Nat /\ stable[p] <= Len(cache[p])
         /\ leaf(p) \in Leaves /\ dirs[leaf(p)] \in SUBSET SUBSET Paths
BY LeafType DEF StorageInv, StorageTypeOK, StableInv

\* A name that every power loss leaves is one a process sees.
LEMMA NamedIsName ==
  ASSUME StorageInv, NEW p \in Paths, Named(p)
  PROVE  p \in names
BY LeafType DEF StorageInv, DirsInv, Named, Listing

LEMMA PathOf ==
  ASSUME NEW f \in Files
  PROVE  /\ Log(f) \in Paths /\ Index(f) \in Paths /\ Log(f) # Index(f)
         /\ Log(f)[1] = "log" /\ Log(f)[2] = f
         /\ Index(f)[1] = "index" /\ Index(f)[2] = f
BY DEF Log, Index, Paths

LEMMA CreateStep ==
  ASSUME StorageInv, NEW p \in Paths, create(p), UNCHANGED documents
  PROVE  /\ StorageInv'
         /\ names' = names \cup {p}
         /\ cache' = [cache EXCEPT ![p] = << >>] /\ stable' = [stable EXCEPT ![p] = 0]
         /\ \A q \in Paths, c \in Nat : Undisturbed(q, c)
<1>1. /\ p \notin names /\ names' = names \cup {p}
      /\ dirs' = [l \in Leaves |-> dirs[l] \cup {Listing(names \cup {p}, l)}]
      /\ cache' = [cache EXCEPT ![p] = << >>]
      /\ disk' = [disk EXCEPT ![p] = << >>]
      /\ stable' = [stable EXCEPT ![p] = 0]
  BY DEF create, Rename
<1>2. StorageTypeOK'
  <2>1. names' \subseteq Paths
    BY <1>1 DEF StorageInv, StorageTypeOK
  <2>2. dirs' \in [Leaves -> SUBSET SUBSET Paths]
    BY <1>1 DEF StorageInv, StorageTypeOK, Listing
  <2>3. /\ cache' \in [Paths -> Seq(Nat)] /\ disk' \in [Paths -> Seq(Nat)]
        /\ stable' \in [Paths -> Nat]
    BY <1>1 DEF StorageInv, StorageTypeOK
  <2>4. QED
    BY <2>1, <2>2, <2>3 DEF StorageInv, StorageTypeOK, documents
<1>3. DirsInv'
  <2>1. SUFFICES ASSUME NEW l \in Leaves
                 PROVE  /\ Listing(names', l) \in dirs'[l]
                        /\ \A listing \in dirs'[l] : \A o \in listing : leaf(o) = l
    BY DEF DirsInv, Listing
  <2>2. names' = names \cup {p} /\ dirs'[l] = dirs[l] \cup {Listing(names \cup {p}, l)}
    BY <1>1
  <2>3. \A listing \in dirs[l] : \A o \in listing : leaf(o) = l
    BY DEF StorageInv, DirsInv
  <2>4. \A o \in Listing(names \cup {p}, l) : leaf(o) = l
    BY DEF Listing
  <2>5. QED
    BY <2>2, <2>3, <2>4
<1>4. StableInv'
  <2>1. SUFFICES ASSUME NEW o \in Paths PROVE stable'[o] <= Len(cache'[o])
    BY DEF StableInv
  <2>2. stable[o] <= Len(cache[o]) /\ stable \in [Paths -> Nat] /\ cache \in [Paths -> Seq(Nat)]
    BY DEF StorageInv, StableInv, StorageTypeOK
  <2>3. CASE o = p
    <3>1. stable'[o] = 0 /\ cache'[o] = << >>
      BY <1>1, <2>2, <2>3
    <3>2. QED
      BY <3>1
  <2>4. CASE o # p
    <3>1. stable'[o] = stable[o] /\ cache'[o] = cache[o]
      BY <1>1, <2>2, <2>4
    <3>2. QED
      BY <2>2, <3>1
  <2>5. QED
    BY <2>3, <2>4
<1>5. DomainInv'
  <2> SUFFICES ASSUME NEW f \in Files
               PROVE  (InDomain(f, cache[Log(f)]) /\ InDomain(f, disk[Log(f)]))'
    BY DEF DomainInv
  <2>1. CASE Log(f) = p
    BY <1>1, <2>1 DEF StorageInv, StorageTypeOK, InDomain
  <2>2. CASE Log(f) # p
    BY <1>1, <2>2, PathOf DEF StorageInv, StorageTypeOK, DomainInv, InDomain
  <2>3. QED
    BY <2>1, <2>2
<1>6. ASSUME NEW q \in Paths, NEW c \in Nat PROVE Undisturbed(q, c)
  <2>1. Named(q) => Named(q)' /\ q # p
    BY <1>1, LeafType, NamedIsName DEF Named, Listing, leaf
  <2>2. q # p => cache'[q] = cache[q] /\ stable'[q] = stable[q]
    BY <1>1 DEF StorageInv, StorageTypeOK
  <2>3. q[1] = "log" => Log(q[2]) = q
    BY DEF Paths, Log
  <2>4. QED
    BY <1>1, <2>1, <2>2, <2>3 DEF Undisturbed, Safe, Keeps, Holds, Valid
<1>7. QED
  BY <1>1, <1>2, <1>3, <1>4, <1>5, <1>6 DEF StorageInv

LEMMA RemoveStep ==
  ASSUME StorageInv, NEW p \in Paths, remove_file(p), UNCHANGED <<contents, documents>>
  PROVE  /\ StorageInv'
         /\ names' = names \ {p} /\ cache' = cache /\ stable' = stable
         /\ \A q \in Paths, c \in Nat : q # p \/ c = 0 => Undisturbed(q, c)
<1>1. /\ names' = names \ {p}
      /\ dirs' = [l \in Leaves |-> dirs[l] \cup {Listing(names \ {p}, l)}]
      /\ cache' = cache /\ disk' = disk /\ stable' = stable
  BY DEF remove_file, Rename, contents
<1>2. StorageTypeOK'
  <2>1. dirs' \in [Leaves -> SUBSET SUBSET Paths]
    BY <1>1 DEF StorageInv, StorageTypeOK, Listing
  <2>2. QED
    BY <1>1, <2>1 DEF StorageInv, StorageTypeOK, documents
<1>3. DirsInv'
  BY <1>1 DEF StorageInv, DirsInv, Listing
<1>4. StableInv' /\ DomainInv'
  BY <1>1 DEF StorageInv, StableInv, DomainInv, InDomain
<1>5. ASSUME NEW q \in Paths, NEW c \in Nat, q # p \/ c = 0 PROVE Undisturbed(q, c)
  <2>1. Named(q) /\ q # p => Named(q)'
    BY <1>1, LeafType, NamedIsName DEF Named, Listing, leaf
  <2>2. q[1] = "log" => Log(q[2]) = q
    BY DEF Paths, Log
  <2>3. QED
    BY <1>1, <1>5, <2>1, <2>2 DEF Undisturbed, Safe, Keeps, Holds, Valid
<1>6. QED
  BY <1>1, <1>2, <1>3, <1>4, <1>5 DEF StorageInv

LEMMA SyncDirectoryStep ==
  ASSUME StorageInv, NEW l, sync_directory(l), UNCHANGED <<names, contents, documents>>
  PROVE  /\ StorageInv'
         /\ \A q \in Paths, c \in Nat : Undisturbed(q, c)
         /\ \A q \in names : leaf(q) = l => Named(q)'
<1>1. /\ names' = names /\ dirs' = [dirs EXCEPT ![l] = {Listing(names, l)}]
      /\ cache' = cache /\ disk' = disk /\ stable' = stable
  BY DEF sync_directory, contents
<1>2. StorageTypeOK'
  <2>1. dirs' \in [Leaves -> SUBSET SUBSET Paths]
    BY <1>1 DEF StorageInv, StorageTypeOK, Listing
  <2>2. QED
    BY <1>1, <2>1 DEF StorageInv, StorageTypeOK, documents
<1>3. DirsInv'
  BY <1>1 DEF StorageInv, DirsInv, Listing, StorageTypeOK
<1>4. StableInv' /\ DomainInv'
  BY <1>1 DEF StorageInv, StableInv, DomainInv, InDomain
<1>5. ASSUME NEW q \in Paths, Named(q) PROVE Named(q)'
  <2>1. q \in names /\ leaf(q) \in Leaves
    BY <1>5, NamedIsName, LeafType
  <2>2. QED
    BY <1>1, <1>5, <2>1 DEF Named, Listing, StorageInv, StorageTypeOK
<1>6. ASSUME NEW q \in Paths, NEW c \in Nat PROVE Undisturbed(q, c)
  BY <1>1, <1>5 DEF Undisturbed, Safe, Keeps, Holds, Valid
<1>7. ASSUME NEW q \in names, leaf(q) = l PROVE Named(q)'
  <2>1. q \in Paths /\ l \in Leaves
    BY <1>7, LeafType DEF StorageInv, StorageTypeOK
  <2>2. dirs'[l] = {Listing(names, l)} /\ q \in Listing(names, l)
    BY <1>1, <1>7, <2>1 DEF StorageInv, StorageTypeOK, Listing
  <2>3. QED
    BY <1>7, <2>2 DEF Named
<1>8. QED
  BY <1>2, <1>3, <1>4, <1>6, <1>7 DEF StorageInv

LEMMA Concat ==
  ASSUME NEW s \in Seq(Nat), NEW t \in Seq(Nat)
  PROVE  /\ s \o t \in Seq(Nat)
         /\ Len(s \o t) = Len(s) + Len(t) /\ Len(s) \in Nat /\ Len(t) \in Nat
         /\ \A i \in 1 .. Len(s) : (s \o t)[i] = s[i]
         /\ \A i \in 1 .. Len(t) : (s \o t)[Len(s) + i] = t[i]
OBVIOUS

LEMMA Prefix ==
  ASSUME NEW s \in Seq(Nat), NEW n \in Nat, n <= Len(s)
  PROVE  /\ SubSeq(s, 1, n) \in Seq(Nat) /\ Len(SubSeq(s, 1, n)) = n
         /\ \A i \in 1 .. n : SubSeq(s, 1, n)[i] = s[i]
OBVIOUS

\* Cells that may follow the contents of p.
LEMMA WriteStep ==
  ASSUME StorageInv, NEW p \in Paths, NEW cells \in Seq(Nat), write(p, cells),
         UNCHANGED <<directories, documents>>,
         p[1] = "log" => \A i \in 1 .. Len(cells) :
            first_record_id(p[2]) + Len(cache[p]) + i > MAX_SEQUENCE => cells[i] = Torn
  PROVE  /\ StorageInv'
         /\ names' = names /\ dirs' = dirs /\ stable' = stable
         /\ cache' = [cache EXCEPT ![p] = cache[p] \o cells]
         /\ \A q \in Paths, c \in Nat : Undisturbed(q, c)
<1>1. /\ names' = names /\ dirs' = dirs /\ disk' = disk /\ stable' = stable
      /\ cache' = [cache EXCEPT ![p] = cache[p] \o cells]
  BY DEF write, directories
<1>2. \A q \in Paths : cache'[q] = IF q = p THEN cache[p] \o cells ELSE cache[q]
  BY <1>1 DEF StorageInv, StorageTypeOK
<1>3. cache[p] \in Seq(Nat)
  BY DEF StorageInv, StorageTypeOK
<1>4. StorageTypeOK'
  BY <1>1, <1>3, Concat DEF StorageInv, StorageTypeOK, documents
<1>5. DirsInv'
  BY <1>1 DEF StorageInv, DirsInv
<1>6. StableInv'
  BY <1>1, <1>2, <1>3, Concat, StorageTypes DEF StorageInv, StableInv
<1>7. DomainInv'
  <2> SUFFICES ASSUME NEW f \in Files
               PROVE  (InDomain(f, cache[Log(f)]) /\ InDomain(f, disk[Log(f)]))'
    BY DEF DomainInv
  <2>0. InDomain(f, cache[Log(f)]) /\ InDomain(f, disk[Log(f)])
    BY DEF StorageInv, DomainInv
  <2>1. InDomain(f, disk[Log(f)])'
    BY <1>1, <2>0 DEF InDomain
  <2>2. CASE Log(f) # p
    BY <1>2, <2>0, <2>1, <2>2, PathOf DEF InDomain
  <2>3. CASE Log(f) = p
    <3>1. p[1] = "log" /\ p[2] = f /\ cache'[Log(f)] = cache[p] \o cells
      BY <1>2, <2>3, PathOf
    <3>2. ASSUME NEW i \in 1 .. Len(cache[p] \o cells), first_record_id(f) + i > MAX_SEQUENCE
          PROVE  (cache[p] \o cells)[i] = Torn
      <4>1. CASE i <= Len(cache[p])
        BY <1>3, <2>0, <2>3, <3>2, <4>1, Concat DEF InDomain
      <4>2. CASE i > Len(cache[p])
        <5> DEFINE j == i - Len(cache[p])
        <5>1. j \in 1 .. Len(cells) /\ i = Len(cache[p]) + j
          BY <1>3, <4>2, Concat
        <5>2. first_record_id(f) \in Nat /\ Len(cache[p]) \in Nat
          <6>1. first_record_id(f) \in Nat
            BY FirstOf, FilesType
          <6>2. QED
            BY <1>3, <6>1
        <5> HIDE DEF j
        <5>3. first_record_id(f) + Len(cache[p]) + j > MAX_SEQUENCE
          BY <3>2, <5>1, <5>2
        <5>4. cells[j] = Torn
          BY <3>1, <5>1, <5>3
        <5>5. (cache[p] \o cells)[Len(cache[p]) + j] = cells[j]
          <6>1. \A k \in 1 .. Len(cells) : (cache[p] \o cells)[Len(cache[p]) + k] = cells[k]
            BY <1>3, Concat
          <6>2. QED
            BY <5>1, <6>1
        <5>6. QED
          BY <5>1, <5>4, <5>5
      <4>3. QED
        BY <1>3, <4>1, <4>2, Concat
    <3>3. QED
      BY <2>1, <3>1, <3>2 DEF InDomain
  <2>4. QED
    BY <2>2, <2>3
<1>8. ASSUME NEW q \in Paths, NEW c \in Nat PROVE Undisturbed(q, c)
  <2>1. Named(q) => Named(q)'
    BY <1>1 DEF Named
  <2>2. q[1] = "log" => Log(q[2]) = q
    BY DEF Paths, Log
  <2>3. /\ Len(cache[q]) <= Len(cache'[q]) /\ Len(cache[q]) \in Nat /\ Len(cache'[q]) \in Nat
        /\ stable[q] <= Len(cache[q]) /\ stable[q] \in Nat
        /\ \A i \in 1 .. Len(cache[q]) : cache'[q][i] = cache[q][i]
    <3>1. /\ cache[q] \in Seq(Nat) /\ Len(cache[q]) \in Nat
          /\ stable[q] <= Len(cache[q]) /\ stable[q] \in Nat
      BY StorageTypes
    <3>2. CASE q = p
      <4>1. cache'[q] = cache[q] \o cells
        BY <1>2, <3>2
      <4>2. /\ Len(cache[q] \o cells) = Len(cache[q]) + Len(cells) /\ Len(cells) \in Nat
            /\ \A i \in 1 .. Len(cache[q]) : (cache[q] \o cells)[i] = cache[q][i]
        BY <3>1, Concat
      <4>3. QED
        BY <3>1, <4>1, <4>2
    <3>3. CASE q # p
      BY <1>2, <3>1, <3>3
    <3>4. QED
      BY <3>2, <3>3
  <2>4. Safe(q, c) => Safe(q, c)'
    BY <1>1, <2>1 DEF Safe
  <2>5. Keeps(q, c) => Keeps(q, c)'
    <3> SUFFICES ASSUME Keeps(q, c), NEW i \in 1 .. c PROVE Valid(q, i)'
      BY <2>4 DEF Keeps
    <3>1. i \in 1 .. Len(cache[q])
      BY <2>3 DEF Keeps, Safe
    <3>2. QED
      BY <2>3, <3>1 DEF Keeps, Valid
  <2>6. ASSUME q[1] = "log", Holds(q[2], c) PROVE Holds(q[2], c)'
    BY <1>1, <2>2, <2>3, <2>6 DEF Holds
  <2>7. QED
    BY <2>4, <2>5, <2>6 DEF Undisturbed
<1>9. QED
  BY <1>1, <1>4, <1>5, <1>6, <1>7, <1>8 DEF StorageInv

LEMMA SetLenStep ==
  ASSUME StorageInv, NEW p \in Paths, NEW n \in Nat, n <= Len(cache[p]), set_len(p, n),
         UNCHANGED <<directories, documents>>
  PROVE  /\ StorageInv'
         /\ names' = names /\ dirs' = dirs
         /\ \A q \in Paths : q # p => cache'[q] = cache[q] /\ stable'[q] = stable[q]
         /\ Len(cache'[p]) = n /\ \A i \in 1 .. n : cache'[p][i] = cache[p][i]
         /\ \A q \in Paths, c \in Nat : q # p \/ c <= n => Undisturbed(q, c)
<1>1. /\ names' = names /\ dirs' = dirs /\ disk' = disk
      /\ cache' = [cache EXCEPT ![p] = SubSeq(cache[p], 1, n)]
      /\ stable' = [stable EXCEPT ![p] = Min({stable[p], n})]
  BY DEF set_len, directories
<1>2. /\ cache[p] \in Seq(Nat) /\ stable[p] \in Nat
      /\ Min({stable[p], n}) = IF stable[p] <= n THEN stable[p] ELSE n
  <2>1. cache[p] \in Seq(Nat) /\ stable[p] \in Nat
    BY DEF StorageInv, StorageTypeOK
  <2>2. QED
    BY <2>1, MinOfTwo
<1>3. /\ \A q \in Paths : q # p => cache'[q] = cache[q] /\ stable'[q] = stable[q]
      /\ cache'[p] = SubSeq(cache[p], 1, n)
      /\ stable'[p] = IF stable[p] <= n THEN stable[p] ELSE n
  <2>1. cache \in [Paths -> Seq(Nat)] /\ stable \in [Paths -> Nat]
    BY DEF StorageInv, StorageTypeOK
  <2>2. stable'[p] = Min({stable[p], n})
    BY <1>1, <2>1
  <2>3. QED
    BY <1>1, <1>2, <2>1, <2>2
<1>4. /\ cache'[p] \in Seq(Nat) /\ Len(cache'[p]) = n
      /\ \A i \in 1 .. n : cache'[p][i] = cache[p][i]
  BY <1>2, <1>3, Prefix
<1>5. StorageTypeOK'
  <2>1. SubSeq(cache[p], 1, n) \in Seq(Nat) /\ Min({stable[p], n}) \in Nat
    BY <1>2, Prefix
  <2>2. QED
    BY <1>1, <2>1 DEF StorageInv, StorageTypeOK, documents
<1>6. DirsInv'
  BY <1>1 DEF StorageInv, DirsInv
<1>7. StableInv'
  BY <1>2, <1>3, <1>4 DEF StorageInv, StableInv
<1>8. DomainInv'
  <2> SUFFICES ASSUME NEW f \in Files
               PROVE  (InDomain(f, cache[Log(f)]) /\ InDomain(f, disk[Log(f)]))'
    BY DEF DomainInv
  <2>1. InDomain(f, cache[Log(f)]) /\ InDomain(f, disk[Log(f)])
    BY DEF StorageInv, DomainInv
  <2>2. CASE Log(f) # p
    BY <1>1, <1>3, <2>1, <2>2, PathOf DEF InDomain
  <2>3. CASE Log(f) = p
    BY <1>1, <1>2, <1>4, <2>1, <2>3 DEF InDomain
  <2>4. QED
    BY <2>2, <2>3
<1>9. ASSUME NEW q \in Paths, NEW c \in Nat, q # p \/ c <= n PROVE Undisturbed(q, c)
  <2>1. Named(q) => Named(q)'
    BY <1>1 DEF Named
  <2>2. q[1] = "log" => Log(q[2]) = q
    BY DEF Paths, Log
  <2>3. CASE q # p
    BY <1>1, <1>3, <2>1, <2>2, <2>3 DEF Undisturbed, Safe, Keeps, Holds, Valid
  <2>4. CASE q = p
    BY <1>1, <1>2, <1>3, <1>4, <1>9, <2>1, <2>2, <2>4
       DEF Undisturbed, Safe, Keeps, Holds, Valid
  <2>5. QED
    BY <2>3, <2>4
<1>10. QED
  BY <1>1, <1>3, <1>4, <1>5, <1>6, <1>7, <1>8, <1>9 DEF StorageInv

LEMMA SyncDataStep ==
  ASSUME StorageInv, NEW p \in Paths, sync_data(p), UNCHANGED <<directories, documents>>
  PROVE  /\ StorageInv'
         /\ names' = names /\ dirs' = dirs /\ cache' = cache
         /\ \A q \in Paths : stable'[q] = IF q = p THEN Len(cache[p]) ELSE stable[q]
         /\ \A q \in Paths, c \in Nat : Undisturbed(q, c)
<1>1. /\ names' = names /\ dirs' = dirs /\ cache' = cache
      /\ disk' = [disk EXCEPT ![p] = cache[p]]
      /\ stable' = [stable EXCEPT ![p] = Len(cache[p])]
  BY DEF sync_data, directories
<1>2. \A q \in Paths : /\ stable'[q] = (IF q = p THEN Len(cache[p]) ELSE stable[q])
                       /\ disk'[q] = (IF q = p THEN cache[p] ELSE disk[q])
  <2>1. stable \in [Paths -> Nat] /\ disk \in [Paths -> Seq(Nat)]
    BY DEF StorageInv, StorageTypeOK
  <2>2. stable'[p] = Len(cache[p]) /\ disk'[p] = cache[p]
    BY <1>1, <2>1
  <2>3. ASSUME NEW q \in Paths, q # p PROVE stable'[q] = stable[q] /\ disk'[q] = disk[q]
    BY <1>1, <2>1, <2>3
  <2>4. QED
    BY <2>2, <2>3
<1>3. StorageTypeOK'
  BY <1>1 DEF StorageInv, StorageTypeOK, documents
<1>4. DirsInv' /\ StableInv'
  BY <1>1, <1>2, StorageTypes DEF StorageInv, DirsInv, StableInv
<1>5. DomainInv'
  <2>1. ASSUME NEW f \in Files
        PROVE  InDomain(f, cache[Log(f)])' /\ InDomain(f, disk[Log(f)])'
    <3>1. disk'[Log(f)] = cache[Log(f)] \/ disk'[Log(f)] = disk[Log(f)]
      <4>1. Log(f) \in Paths
        BY PathOf
      <4>2. QED
        BY <1>2, <4>1
    <3>2. InDomain(f, cache[Log(f)]) /\ InDomain(f, disk[Log(f)])
      BY DEF StorageInv, DomainInv
    <3>3. QED
      BY <1>1, <3>1, <3>2 DEF InDomain
  <2>2. QED
    BY <2>1 DEF DomainInv
<1>6. ASSUME NEW q \in Paths, NEW c \in Nat PROVE Undisturbed(q, c)
  <2>1. stable[q] <= stable'[q] /\ stable[q] \in Nat /\ stable'[q] \in Nat
    BY <1>2, StorageTypes
  <2>2. Safe(q, c) => Safe(q, c)'
    BY <1>1, <2>1 DEF Safe, Named
  <2>3. QED
    BY <1>1, <2>2 DEF Undisturbed, Keeps, Holds, Valid
<1>7. QED
  BY <1>1, <1>2, <1>3, <1>4, <1>5, <1>6 DEF StorageInv

\* What a power loss leaves of a file: at least its stable cells, and beyond them
\* nothing that was not there.
LEMMA SurvivorFacts ==
  ASSUME StorageInv, NEW p \in Paths, NEW s \in Survivors(p)
  PROVE  /\ s \in Seq(Nat) /\ stable[p] <= Len(s)
         /\ \A i \in 1 .. stable[p] : s[i] = cache[p][i]
         /\ \A i \in 1 .. Len(s) :
              \/ s[i] = Torn
              \/ i \in 1 .. Len(cache[p]) /\ s[i] = cache[p][i]
              \/ i \in 1 .. Len(disk[p]) /\ s[i] = disk[p][i]
<1> DEFINE c == cache[p]
           d == disk[p]
           Kept(i) == {Torn} \cup {u[i] : u \in {t \in {c, d} : i \in DOMAIN t}}
           Tails(n) == {t \in [stable[p] + 1 .. n -> {Torn} \cup Range(c) \cup Range(d)] :
                          \A i \in DOMAIN t : t[i] \in Kept(i)}
<1>1. /\ c \in Seq(Nat) /\ d \in Seq(Nat) /\ stable[p] \in Nat /\ stable[p] <= Len(c)
      /\ Len(c) \in Nat /\ Len(d) \in Nat /\ DOMAIN c = 1 .. Len(c) /\ DOMAIN d = 1 .. Len(d)
  BY StorageTypes
<1>2. PICK n \in stable[p] .. Max({Len(c), Len(d)}) :
        \E t \in Tails(n) : s = [i \in 1 .. n |-> IF i <= stable[p] THEN c[i] ELSE t[i]]
  BY DEF Survivors
<1>3. PICK t \in Tails(n) : s = [i \in 1 .. n |-> IF i <= stable[p] THEN c[i] ELSE t[i]]
  BY <1>2
<1>4. n \in Nat /\ stable[p] <= n
  <2>1. Max({Len(c), Len(d)}) = IF Len(c) >= Len(d) THEN Len(c) ELSE Len(d)
    <3>1. Len(c) \in Int /\ Len(d) \in Int
      BY <1>1
    <3>2. QED
      BY ONLY <3>1, MaxOfTwo
  <2>2. QED
    BY <1>1, <1>2, <2>1
<1>5. ASSUME NEW i \in stable[p] + 1 .. n
      PROVE  \/ t[i] = Torn
             \/ i \in 1 .. Len(c) /\ t[i] = c[i]
             \/ i \in 1 .. Len(d) /\ t[i] = d[i]
  <2>1. t[i] \in Kept(i)
    BY <1>3
  <2>2. QED
    BY <1>1, <2>1
<1> HIDE DEF Tails, Kept
<1>6. ASSUME NEW i \in 1 .. n
      PROVE  \/ s[i] = Torn
             \/ i \in 1 .. Len(c) /\ s[i] = c[i]
             \/ i \in 1 .. Len(d) /\ s[i] = d[i]
  <2>1. CASE i <= stable[p]
    BY <1>1, <1>3, <1>4, <2>1
  <2>2. CASE i > stable[p]
    <3>1. i \in stable[p] + 1 .. n /\ s[i] = t[i]
      BY <1>1, <1>3, <1>4, <2>2
    <3>2. QED
      BY <1>5, <3>1
  <2>3. QED
    BY <1>1, <1>4, <2>1, <2>2
<1>7. \A i \in 1 .. n : s[i] \in Nat
  <2>1. \A i \in 1 .. Len(c) : c[i] \in Nat
    BY <1>1
  <2>2. \A i \in 1 .. Len(d) : d[i] \in Nat
    BY <1>1
  <2>3. QED
    BY <1>6, <2>1, <2>2 DEF Torn
<1>8. s \in Seq(Nat) /\ Len(s) = n
  <2>1. s \in [1 .. n -> Nat]
    BY <1>3, <1>7
  <2>2. QED
    BY <1>4, <2>1
<1>9. \A i \in 1 .. stable[p] : s[i] = c[i]
  BY <1>1, <1>3, <1>4
<1>10. QED
  BY <1>4, <1>6, <1>8, <1>9

\* A power loss leaves a storage that is as good, and every safe cell.
LEMMA LosePowerStep ==
  ASSUME StorageInv, lose_power
  PROVE  /\ StorageInv'
         /\ \E doc \in checkpoints :
              /\ checkpoint_json' \in Published(doc)
              /\ checkpoints' = {[end |-> checkpoint_json', synced |-> TRUE]}
         /\ \A q \in Paths, c \in Nat :
              /\ Safe(q, c) => Safe(q, c)'
              /\ Keeps(q, c) => Keeps(q, c)'
              /\ q[1] = "log" /\ Safe(q, c) /\ Holds(q[2], c) => Holds(q[2], c)'
<1>1. PICK listing \in [Leaves -> UNION Range(dirs)], doc \in checkpoints :
        /\ \A l \in Leaves : listing[l] \in dirs[l]
        /\ names' = UNION Range(listing)
        /\ dirs' = [l \in Leaves |-> {listing[l]}]
        /\ cache' \in Recoverable(names')
        /\ disk' = cache'
        /\ stable' = [p \in Paths |-> Len(cache'[p])]
        /\ checkpoint_json' \in Published(doc)
        /\ checkpoints' = {[end |-> checkpoint_json', synced |-> TRUE]}
        /\ pending' = NoDocument
  BY DEF lose_power
<1>2. /\ cache' \in [Paths -> Seq(Nat)]
      /\ \A p \in Paths : cache'[p] \in IF p \in names' THEN Survivors(p) ELSE {<< >>}
  BY <1>1 DEF Recoverable
<1>3. \A l \in Leaves : listing[l] \in SUBSET Paths /\ \A p \in listing[l] : leaf(p) = l
  BY <1>1 DEF StorageInv, StorageTypeOK, DirsInv
<1>4. ASSUME NEW p PROVE p \in names' <=> p \in Paths /\ p \in listing[leaf(p)]
  <2>1. p \in names' <=> \E l \in Leaves : p \in listing[l]
    BY <1>1 DEF Range
  <2>2. QED
    BY <1>3, <2>1, LeafType
<1>5. ASSUME NEW p \in Paths
      PROVE  /\ cache'[p] \in Seq(Nat)
             /\ p \in names' => /\ stable[p] <= Len(cache'[p])
                                /\ \A i \in 1 .. stable[p] : cache'[p][i] = cache[p][i]
             /\ \A i \in 1 .. Len(cache'[p]) :
                  \/ cache'[p][i] = Torn
                  \/ i \in 1 .. Len(cache[p]) /\ cache'[p][i] = cache[p][i]
                  \/ i \in 1 .. Len(disk[p]) /\ cache'[p][i] = disk[p][i]
  <2>1. CASE p \in names'
    <3>1. cache'[p] \in Survivors(p)
      BY <1>2, <2>1
    <3> DEFINE s == cache'[p]
    <3> HIDE DEF s
    <3>2. s \in Survivors(p)
      BY <3>1 DEF s
    <3>3. /\ s \in Seq(Nat) /\ stable[p] <= Len(s)
          /\ \A i \in 1 .. stable[p] : s[i] = cache[p][i]
          /\ \A i \in 1 .. Len(s) :
               \/ s[i] = Torn
               \/ i \in 1 .. Len(cache[p]) /\ s[i] = cache[p][i]
               \/ i \in 1 .. Len(disk[p]) /\ s[i] = disk[p][i]
      BY <3>2, SurvivorFacts
    <3>4. QED
      BY <3>3 DEF s
  <2>2. CASE p \notin names'
    <3>1. cache'[p] = << >>
      BY <1>2, <2>2
    <3>2. QED
      BY <2>2, <3>1
  <2>3. QED
    BY <2>1, <2>2
<1>6. \A p \in Paths : stable'[p] = Len(cache'[p])
  BY <1>1
<1>7. StorageTypeOK'
  <2>1. names' \subseteq Paths
    BY <1>4
  <2>2. dirs' \in [Leaves -> SUBSET SUBSET Paths]
    BY <1>1, <1>3
  <2>3. cache' \in [Paths -> Seq(Nat)]
    BY <1>2
  <2>4. stable' \in [Paths -> Nat]
    BY <1>1, <1>5
  <2>5. doc.end \in SequenceNumber \cup {NoSeq} /\ MAX_SEQUENCE \in SequenceNumber
    BY LocationAssumption DEF StorageInv, StorageTypeOK, SequenceNumber
  <2>6. checkpoint_json' \in SequenceNumber \cup {NoSeq}
    BY <1>1, <2>5 DEF Published
  <2>7. QED
    BY <1>1, <2>1, <2>2, <2>3, <2>4, <2>6 DEF StorageTypeOK, NoDocument
<1>8. DirsInv'
  <2>1. ASSUME NEW l \in Leaves PROVE Listing(names', l) = listing[l]
    BY <1>3, <1>4 DEF Listing
  <2>2. QED
    BY <1>1, <1>3, <2>1 DEF DirsInv, Listing
<1>9. StableInv'
  BY <1>5, <1>6 DEF StableInv
<1>10. DomainInv'
  <2> SUFFICES ASSUME NEW f \in Files PROVE InDomain(f, cache[Log(f)])'
    BY <1>1 DEF DomainInv, InDomain
  <2>1. InDomain(f, cache[Log(f)]) /\ InDomain(f, disk[Log(f)])
    BY DEF StorageInv, DomainInv
  <2>2. Log(f) \in Paths
    BY PathOf
  <2>3. ASSUME NEW i \in 1 .. Len(cache'[Log(f)]), first_record_id(f) + i > MAX_SEQUENCE
        PROVE  cache'[Log(f)][i] = Torn
    <3>1. \/ cache'[Log(f)][i] = Torn
          \/ i \in 1 .. Len(cache[Log(f)]) /\ cache'[Log(f)][i] = cache[Log(f)][i]
          \/ i \in 1 .. Len(disk[Log(f)]) /\ cache'[Log(f)][i] = disk[Log(f)][i]
      BY <1>5, <2>2
    <3>2. QED
      BY <2>1, <2>3, <3>1 DEF InDomain
  <2>4. QED
    BY <2>3 DEF InDomain
<1>11. ASSUME NEW q \in Paths, Named(q) PROVE q \in names' /\ Named(q)'
  <2>1. leaf(q) \in Leaves /\ q \in listing[leaf(q)]
    BY <1>1, <1>11, LeafType DEF Named
  <2>2. QED
    BY <1>1, <1>4, <2>1 DEF Named
<1>12. ASSUME NEW q \in Paths, NEW c \in Nat
       PROVE  /\ Safe(q, c) => Safe(q, c)'
              /\ Keeps(q, c) => Keeps(q, c)'
              /\ q[1] = "log" /\ Safe(q, c) /\ Holds(q[2], c) => Holds(q[2], c)'
  <2>0. /\ stable[q] \in Nat /\ Len(cache'[q]) \in Nat
        /\ q[1] = "log" => Log(q[2]) = q
    BY <1>5, StorageTypes DEF Paths, Log
  <2>1. ASSUME Safe(q, c), c > 0
        PROVE  /\ q \in names' /\ Named(q)' /\ c <= stable'[q] /\ c <= Len(cache'[q])
               /\ \A i \in 1 .. c : cache'[q][i] = cache[q][i]
    <3>1. Named(q) /\ c <= stable[q]
      BY <2>1 DEF Safe
    <3>2. q \in names' /\ Named(q)'
      BY <1>11, <3>1
    <3>3. stable[q] <= Len(cache'[q]) /\ \A i \in 1 .. stable[q] : cache'[q][i] = cache[q][i]
      BY <1>5, <3>2
    <3>4. QED
      BY <1>6, <2>0, <3>1, <3>2, <3>3
  <2>2. Safe(q, c) => Safe(q, c)'
    BY <2>1 DEF Safe
  <2>3. Keeps(q, c) => Keeps(q, c)'
    BY <2>1, <2>2 DEF Keeps, Valid
  <2>4. q[1] = "log" /\ Safe(q, c) /\ Holds(q[2], c) => Holds(q[2], c)'
    BY <2>0, <2>1 DEF Holds
  <2>5. QED
    BY <2>2, <2>3, <2>4
<1>13. QED
  BY <1>1, <1>7, <1>8, <1>9, <1>10, <1>12 DEF StorageInv

-------------------------------------------------------------------------------
(***************************************************************************)
(* The parts of the invariant under a step.                                *)
(***************************************************************************)
Calm == \A q \in Paths, c \in Nat : Undisturbed(q, c)
CalmBelow(n) == \A q \in Paths : Undisturbed(q, CountIn(q[2], n))

LEMMA CalmIsCalmBelow ==
  ASSUME Calm, NEW n \in Nat
  PROVE  CalmBelow(n)
<1>1. ASSUME NEW q \in Paths PROVE CountIn(q[2], n) \in Nat
  BY CountFacts, LeafType
<1>2. QED
  BY <1>1 DEF Calm, CalmBelow

LEMMA BelowKept ==
  ASSUME NEW n \in Nat, CalmBelow(n)
  PROVE  /\ Secured(n) => Secured(n)'
         /\ Held(n) => Held(n)'
         /\ SafeLogs(n) => SafeLogs(n)'
<1>1. Secured(n) => Secured(n)'
  BY DEF CalmBelow, Undisturbed, Secured
<1>2. ASSUME NEW f \in Files
      PROVE  /\ Holds(f, CountIn(f, n)) => Holds(f, CountIn(f, n))'
             /\ Safe(Log(f), CountIn(f, n)) => Safe(Log(f), CountIn(f, n))'
  <2>1. Log(f) \in Paths /\ Log(f)[1] = "log" /\ Log(f)[2] = f
    BY PathOf
  <2>2. Undisturbed(Log(f), CountIn(f, n))
    BY <2>1 DEF CalmBelow
  <2>3. QED
    BY <2>1, <2>2 DEF Undisturbed
<1>3. QED
  BY <1>1, <1>2 DEF Held, SafeLogs

LEMMA SecuredMonotone ==
  ASSUME StorageInv, NEW m \in Nat, NEW n \in Nat, m <= n, Secured(n)
  PROVE  Secured(m)
<1> SUFFICES ASSUME NEW p \in Paths PROVE Keeps(p, CountIn(p[2], m))
  BY DEF Secured
<1>1. /\ CountIn(p[2], m) \in Nat /\ CountIn(p[2], n) \in Nat
      /\ CountIn(p[2], m) <= CountIn(p[2], n)
  BY CountFacts, CountMonotone, LeafType
<1>2. Keeps(p, CountIn(p[2], n))
  BY DEF Secured
<1>3. ASSUME CountIn(p[2], m) > 0 PROVE Named(p) /\ CountIn(p[2], m) <= stable[p]
  <2>1. Named(p) /\ CountIn(p[2], n) <= stable[p]
    BY <1>1, <1>2, <1>3 DEF Keeps, Safe
  <2>2. stable[p] \in Nat
    BY StorageTypes
  <2>3. QED
    BY <1>1, <2>1, <2>2
<1>4. \A i \in 1 .. CountIn(p[2], m) : Valid(p, i)
  BY <1>1, <1>2 DEF Keeps
<1>5. QED
  BY <1>3, <1>4 DEF Keeps, Safe

LEMMA SecuredNone == Secured(0)
<1>1. ASSUME NEW p \in Paths PROVE CountIn(p[2], 0) = 0
  BY CountFacts, LeafType
<1>2. QED
  BY <1>1 DEF Secured, Keeps, Safe

LEMMA CheckpointType ==
  ASSUME StorageInv
  PROVE  /\ checkpoint_json \in Int /\ checkpoint_json >= -1 /\ checkpoint_json + 1 \in Nat
         /\ \A doc \in checkpoints : doc.end \in Int /\ doc.end >= -1 /\ doc.end + 1 \in Nat
<1>1. \A e \in SequenceNumber \cup {NoSeq} : e \in Int /\ e >= -1 /\ e + 1 \in Nat
  BY LocationAssumption DEF SequenceNumber, NoSeq
<1>2. /\ checkpoint_json \in SequenceNumber \cup {NoSeq}
      /\ \A doc \in checkpoints : doc.end \in SequenceNumber \cup {NoSeq}
  BY DEF StorageInv, StorageTypeOK
<1>3. QED
  BY <1>1, <1>2

LEMMA DocumentsKept ==
  ASSUME StorageInv, DocumentInv, CalmBelow(checkpoint_json + 1),
         UNCHANGED <<checkpoint_json, checkpoints>>
  PROVE  DocumentInv'
<1>1. Secured(checkpoint_json + 1)'
  BY CheckpointType, BelowKept DEF DocumentInv
<1>2. QED
  BY <1>1 DEF DocumentInv

LEMMA HistoryKept ==
  ASSUME HistoryInv, CalmBelow(flushed), CalmBelow(synced), UNCHANGED history
  PROVE  HistoryInv'
<1>1. Held(flushed)' /\ SafeLogs(synced)'
  BY BelowKept DEF HistoryInv, history
<1>2. QED
  BY <1>1 DEF HistoryInv, history

LEMMA CalmStep ==
  ASSUME StorageInv, DocumentInv, HistoryInv, Calm,
         UNCHANGED <<checkpoint_json, checkpoints, history>>
  PROVE  DocumentInv' /\ HistoryInv'
BY CheckpointType, CalmIsCalmBelow, DocumentsKept, HistoryKept DEF HistoryInv, history

LEMMA StillStorage ==
  ASSUME UNCHANGED storage
  PROVE  /\ Calm
         /\ StorageInv => StorageInv'
         /\ \A n \in Nat : (Secured(n) <=> Secured(n)') /\ (Held(n) <=> Held(n)')
         /\ \A f : LogsBelow(f) <=> LogsBelow(f)'
         /\ names' = names /\ dirs' = dirs /\ cache' = cache /\ stable' = stable
         /\ checkpoint_json' = checkpoint_json /\ checkpoints' = checkpoints
         /\ pending' = pending
<1>1. /\ names' = names /\ dirs' = dirs /\ cache' = cache /\ stable' = stable /\ disk' = disk
      /\ checkpoint_json' = checkpoint_json /\ checkpoints' = checkpoints
      /\ pending' = pending
  BY DEF storage, directories, contents, documents
<1>2. \A q, c : (Safe(q, c) <=> Safe(q, c)') /\ (Keeps(q, c) <=> Keeps(q, c)')
  BY <1>1 DEF Safe, Keeps, Named, Valid
<1>3. \A f, c : Holds(f, c) <=> Holds(f, c)'
  BY <1>1 DEF Holds
<1>4. Calm
  BY <1>2, <1>3 DEF Calm, Undisturbed
<1>5. StorageInv => StorageInv'
  BY <1>1 DEF StorageInv, StorageTypeOK, DirsInv, StableInv, DomainInv, InDomain
<1>6. \A n \in Nat : (Secured(n) <=> Secured(n)') /\ (Held(n) <=> Held(n)')
  BY <1>2, <1>3 DEF Secured, Held
<1>7. \A f : LogsBelow(f) <=> LogsBelow(f)'
  BY <1>1 DEF LogsBelow
<1>8. QED
  BY <1>1, <1>4, <1>5, <1>6, <1>7

\* A step that ends the attempt, or takes the stream from its owner.
LEMMA FailStep ==
  ASSUME IInv, fail, StorageInv', DocumentInv', HistoryInv', successor' = "none",
         faults' \in 0 .. MaxFaults
  PROVE  IInv'
<1>1. /\ pc' = "down" /\ checkpoint' = NoSeq /\ maximum' = NoFile /\ recovered_end' = NoSeq
      /\ active' = NoFile /\ first_file_to_remove' = NoFile /\ at' = NoFile
  BY DEF fail, new
<1>2. InitializerTypeOK'
  BY <1>1 DEF InitializerTypeOK
<1>3. AttemptInv' /\ LoopInv' /\ PairInv' /\ CleanInv' /\ SettledInv' /\ RunInv'
  BY <1>1 DEF AttemptInv, LoopInv, PairInv, CleanInv, SettledInv, RunInv,
              UnpublishedSteps, ReadSteps, CleanSteps, SettledSteps
<1>4. QED
  BY <1>2, <1>3 DEF IInv

LEMMA WorkingTypes ==
  ASSUME InitializerTypeOK
  PROVE  /\ checkpoint \in Int /\ checkpoint >= -1 /\ checkpoint + 1 \in Nat
         /\ checkpoint # NoSeq => checkpoint \in Nat
         /\ recovered_end \in Int /\ recovered_end >= -1 /\ recovered_end + 1 \in Nat
         /\ recovered_end # NoSeq => recovered_end \in Nat
         /\ active \in Int /\ maximum \in Int /\ at \in Int /\ first_file_to_remove \in Int
         /\ active # NoFile => active \in Files
<1>1. \A e \in SequenceNumber \cup {NoSeq} :
        /\ e \in Int /\ e >= -1 /\ e + 1 \in Nat
        /\ e # NoSeq => e \in Nat
  BY LocationAssumption DEF SequenceNumber, NoSeq
<1>2. \A f \in Files \cup {NoFile} : f \in Int
  BY FilesType DEF NoFile
<1>3. QED
  BY <1>1, <1>2 DEF InitializerTypeOK

\* The trusted records are what the checkpoint covers of the file.
LEMMA Trusted ==
  ASSUME InitializerTypeOK, at \in Files,
         checkpoint # NoSeq => from_record_id(checkpoint) <= at
  PROVE  /\ trusted_count \in 0 .. RECORDS_PER_FILE
         /\ trusted_count = CountIn(at, checkpoint + 1)
         /\ trusted_count > 0 => checkpoint + 1 = first_record_id(at) + trusted_count
         /\ trusted_count = 0 => checkpoint + 1 <= first_record_id(at)
         /\ first_record_id(at) \in Nat
<1>1. first_record_id(at) \in Nat /\ RECORDS_PER_FILE \in Nat \ {0} /\ at \in Nat
  BY FirstOf, FilesType
<1>2. CountIn(at, checkpoint + 1) =
        IF checkpoint + 1 <= first_record_id(at) THEN 0
        ELSE IF checkpoint + 1 >= first_record_id(at) + RECORDS_PER_FILE
               THEN RECORDS_PER_FILE
               ELSE checkpoint + 1 - first_record_id(at)
  BY CountFacts, WorkingTypes
<1>3. CASE checkpoint = NoSeq
  BY <1>1, <1>2, <1>3 DEF trusted_count, NoSeq
<1>4. CASE checkpoint # NoSeq
  <2> DEFINE g == from_record_id(checkpoint)
  <2>1. /\ checkpoint \in Nat /\ g \in Nat /\ first_record_id(g) \in Nat
        /\ first_record_id(g) <= checkpoint /\ checkpoint < first_record_id(g) + RECORDS_PER_FILE
        /\ record_count_through(checkpoint) = checkpoint - first_record_id(g) + 1
    BY <1>4, FileOf, FirstOf, WorkingTypes
  <2>2. /\ trusted_count = IF g = at THEN record_count_through(checkpoint) ELSE 0
        /\ g <= at
    BY <1>4 DEF trusted_count
  <2> HIDE DEF g
  <2>3. g < at => first_record_id(g) + RECORDS_PER_FILE <= first_record_id(at)
    BY <1>1, <2>1, FirstOf
  <2>4. CASE g = at
    BY <1>1, <1>2, <2>1, <2>2, <2>4
  <2>5. CASE g < at
    BY <1>1, <1>2, <2>1, <2>2, <2>3, <2>5
  <2>6. QED
    BY <1>1, <2>1, <2>2, <2>4, <2>5
<1>5. QED
  BY <1>3, <1>4

LEMMA MaximumLog ==
  /\ maximum_log_file \in Files \cup {NoFile}
  /\ LogsBelow(maximum_log_file + 1)
  /\ maximum_log_file # NoFile => Log(maximum_log_file) \in names
<1> DEFINE logs == {n \in Files : <<"log", n>> \in names}
<1>1. maximum_log_file = IF logs = {} THEN NoFile ELSE Max(logs)
  BY DEF maximum_log_file
<1>2. logs \in SUBSET Nat /\ MAX_FILE \in Nat /\ \A n \in logs : n <= MAX_FILE
  BY FilesType DEF Files
<1>3. logs # {} => Max(logs) \in logs /\ \A n \in logs : n <= Max(logs)
  BY <1>2, MaxOfBounded
<1>4. CASE logs = {}
  BY <1>1, <1>4 DEF LogsBelow, Log
<1>5. CASE logs # {}
  <2> DEFINE m == Max(logs)
  <2>1. m \in logs /\ \A n \in logs : n <= m
    BY <1>3, <1>5
  <2> HIDE DEF m
  <2>2. m \in Files /\ m \in Nat /\ <<"log", m>> \in names
    BY <1>2, <2>1
  <2>3. \A f \in Files : <<"log", f>> \in names => f < m + 1
    BY <1>2, <2>1, <2>2
  <2>4. maximum_log_file = m
    BY <1>1, <1>5 DEF m
  <2>5. QED
    BY <2>2, <2>3, <2>4 DEF LogsBelow, Log
<1>6. QED
  BY <1>4, <1>5

-------------------------------------------------------------------------------
(***************************************************************************)
(* Every action keeps the invariant.  First the attempt to initialize.     *)
(***************************************************************************)
Outside == UNCHANGED <<successor, faults, history>>

LEMMA LoadStep ==
  ASSUME IInv, load_checkpoint, Outside PROVE IInv'
<1>1. /\ pc = "down" /\ pc' = "discover" /\ checkpoint' = checkpoint_json
      /\ UNCHANGED <<maximum, recovered_end, active, first_file_to_remove, at, storage>>
  BY DEF load_checkpoint
<1>2. StorageInv' /\ DocumentInv' /\ HistoryInv'
  BY <1>1, StillStorage, CalmStep DEF IInv, Outside
<1>3. InitializerTypeOK'
  BY <1>1 DEF IInv, InitializerTypeOK, Steps, StorageInv, StorageTypeOK
<1>4. AttemptInv' /\ RunInv'
  BY <1>1, StillStorage DEF IInv, AttemptInv, RunInv, Outside
<1>5. LoopInv' /\ PairInv' /\ CleanInv' /\ SettledInv'
  BY <1>1 DEF LoopInv, PairInv, CleanInv, SettledInv, ReadSteps, CleanSteps, SettledSteps
<1>6. QED
  BY <1>2, <1>3, <1>4, <1>5 DEF IInv, Outside

LEMMA DiscoverStep ==
  ASSUME IInv, discover_log_files, Outside PROVE IInv'
<1>1. pc = "discover" /\ UNCHANGED storage
  BY DEF discover_log_files
<1>2. StorageInv' /\ DocumentInv' /\ HistoryInv'
  BY <1>1, StillStorage, CalmStep DEF IInv, Outside
<1>3. CASE fail
  BY <1>1, <1>2, <1>3, FailStep DEF IInv, RunInv, Outside
<1>4. CASE ~ fail
  <2>1. /\ checkpoint # NoSeq => ~ (maximum_log_file < from_record_id(checkpoint))
        /\ maximum' = maximum_log_file
        /\ UNCHANGED <<checkpoint, recovered_end, active, first_file_to_remove>>
        /\ maximum_log_file = NoFile => pc' = "publish" /\ at' = at
        /\ maximum_log_file # NoFile =>
             /\ pc' = "open_log"
             /\ at' = IF checkpoint = NoSeq THEN 0 ELSE from_record_id(checkpoint)
    BY <1>4 DEF discover_log_files
  <2>2. /\ active = NoFile /\ recovered_end = NoSeq /\ first_file_to_remove = NoFile
        /\ checkpoint = checkpoint_json
    BY <1>1 DEF IInv, AttemptInv, UnpublishedSteps, ReadSteps
  <2>3. /\ maximum_log_file \in Files \cup {NoFile} /\ LogsBelow(maximum_log_file + 1)
        /\ maximum_log_file # NoFile => maximum_log_file \in Nat
        /\ maximum_log_file \in Int
    BY MaximumLog, FilesType DEF NoFile
  <2>4. checkpoint # NoSeq => checkpoint \in Nat /\ from_record_id(checkpoint) \in Nat
    BY WorkingTypes, FileOf DEF IInv
  <2>5. InitializerTypeOK /\ StorageInv /\ DocumentInv /\ HistoryInv
    BY DEF IInv
  <2>6. 0 \in Files
    BY FilesType DEF Files
  <2>7. CASE maximum_log_file = NoFile
    <3>1. checkpoint = NoSeq
      BY <2>1, <2>3, <2>4, <2>7 DEF NoFile
    <3>2. \A f \in Files : Log(f) \notin names
      BY <2>3, <2>7, FilesType DEF LogsBelow, NoFile
    <3>3. flushed <= 0
      <4>1. CountIn(0, flushed) = 0
        <5>1. Holds(0, CountIn(0, flushed)) /\ CountIn(0, flushed) \in Nat
          BY <2>5, <2>6, CountFacts DEF HistoryInv, Held
        <5>2. QED
          BY <2>6, <3>2, <5>1 DEF Holds
      <4>2. first_record_id(0) = 0 /\ RECORDS_PER_FILE \in Nat \ {0} /\ flushed \in Nat
        BY <2>5, FirstOf, FilesType DEF HistoryInv
      <4>3. QED
        BY <2>6, <4>1, <4>2, CountFacts
    <3>4. pc' = "publish" /\ at' = at
      BY <2>1, <2>7
    <3>5. next_file' = 0 /\ top' = 0
      BY <2>1, <2>2 DEF next_file, top
    <3>6. Secured(0)'
      BY <1>1, SecuredNone, StillStorage
    <3>7. InitializerTypeOK'
      BY <2>1, <2>3, <2>5, <3>4 DEF InitializerTypeOK, Steps
    <3>8. AttemptInv' /\ RunInv' /\ LoopInv' /\ PairInv'
      BY <1>1, <2>1, <2>2, <3>4, StillStorage
         DEF IInv, AttemptInv, RunInv, LoopInv, PairInv, Outside, ReadSteps
    <3>9. CleanInv'
      BY <1>1, <3>2, <3>4, <3>5, StillStorage DEF CleanInv, CleanSteps, SettledSteps, LogsBelow
    <3>10. SettledInv'
      <4>0. first_record_id(0) = 0
        BY <2>6, FilesType, FirstOf
      <4>1. recovered_end' + 1 = 0 /\ checkpoint' = -1 /\ first_record_id(0) = 0
        BY <2>1, <2>2, <3>1, <4>0 DEF NoSeq
      <4>2. flushed' <= 0
        BY <3>3 DEF Outside, history
      <4>3. QED
        BY <2>1, <2>2, <2>6, <3>4, <3>5, <3>6, <4>1, <4>2, FilesType
           DEF SettledInv, CleanSteps, SettledSteps, NoSeq
    <3>11. QED
      BY <1>2, <3>7, <3>8, <3>9, <3>10 DEF IInv, Outside
  <2>8. CASE maximum_log_file # NoFile
    <3>1. pc' = "open_log" /\ at' = IF checkpoint = NoSeq THEN 0 ELSE from_record_id(checkpoint)
      BY <2>1, <2>8
    <3>2. at' \in Files /\ maximum' \in Files /\ at' <= maximum'
      <4>1. maximum' = maximum_log_file /\ maximum_log_file \in Files /\ maximum_log_file \in Nat
        BY <2>1, <2>3, <2>8
      <4>2. CASE checkpoint = NoSeq
        BY <2>6, <3>1, <4>1, <4>2
      <4>3. CASE checkpoint # NoSeq
        <5>1. /\ at' = from_record_id(checkpoint) /\ from_record_id(checkpoint) \in Nat
              /\ ~ (maximum_log_file < from_record_id(checkpoint))
          BY <2>1, <2>4, <3>1, <4>3
        <5>2. at' \in Nat /\ at' <= maximum_log_file
          BY <4>1, <5>1
        <5>3. at' \in Files
          BY <4>1, <5>2, FilesType DEF Files
        <5>4. QED
          BY <4>1, <5>2, <5>3
      <4>4. QED
        BY <4>2, <4>3
    <3>3. InitializerTypeOK'
      BY <2>1, <2>5, <3>1, <3>2 DEF InitializerTypeOK, Steps
    <3>4. LogsBelow(maximum + 1)'
      BY <1>1, <2>1, <2>3, StillStorage DEF LogsBelow
    <3>5. Secured(first_record_id(at))'
      <4>1. CASE checkpoint = NoSeq
        BY <1>1, <3>1, <4>1, SecuredNone, StillStorage, FirstOf
      <4>2. CASE checkpoint # NoSeq
        <5>1. /\ first_record_id(from_record_id(checkpoint)) \in Nat
              /\ first_record_id(from_record_id(checkpoint)) <= checkpoint + 1
              /\ checkpoint + 1 \in Nat
          BY <2>4, <4>2, FileOf, FirstOf
        <5>2. PICK n \in Nat : n = first_record_id(from_record_id(checkpoint))
          BY <5>1
        <5>3. Secured(checkpoint + 1)
          BY <2>2, <2>5 DEF DocumentInv
        <5>4. Secured(n)
          BY <2>5, <5>1, <5>2, <5>3, SecuredMonotone
        <5>5. Secured(n)'
          BY <1>1, <5>4, StillStorage
        <5>6. first_record_id(at') = n
          BY <3>1, <4>2, <5>2
        <5>7. QED
          BY <5>5, <5>6
      <4>3. QED
        BY <4>1, <4>2
    <3>6. IF trusted_count' > 0 THEN recovered_end' = NoSeq
                                ELSE recovered_end' + 1 = first_record_id(at')
      <4>1. CASE checkpoint = NoSeq
        BY <2>1, <2>2, <3>1, <4>1, FirstOf DEF trusted_count, NoSeq
      <4>2. CASE checkpoint # NoSeq
        <5>1. trusted_count' = record_count_through(checkpoint)
          BY <2>1, <3>1, <4>2 DEF trusted_count
        <5>2. record_count_through(checkpoint) > 0
          BY <2>4, <4>2, FileOf, FirstOf
        <5>3. QED
          BY <2>1, <2>2, <5>1, <5>2
      <4>3. QED
        BY <4>1, <4>2
    <3>7. LoopInv'
      BY <2>1, <2>2, <2>4, <3>1, <3>2, <3>4, <3>5, <3>6 DEF LoopInv
    <3>8. AttemptInv' /\ RunInv' /\ PairInv' /\ CleanInv' /\ SettledInv'
      BY <1>1, <2>1, <2>2, <3>1, StillStorage
         DEF IInv, AttemptInv, RunInv, PairInv, CleanInv, SettledInv, Outside,
             ReadSteps, CleanSteps, SettledSteps
    <3>9. QED
      BY <1>2, <3>3, <3>7, <3>8 DEF IInv, Outside
  <2>9. QED
    BY <2>7, <2>8
<1>5. QED
  BY <1>3, <1>4

\* The file after the one of endpoint e, when that one is full.
LEMMA NextFile ==
  ASSUME NEW e \in Int, e >= -1, NEW f \in Nat, e + 1 = first_record_id(f)
  PROVE  f = IF e = NoSeq THEN 0 ELSE from_record_id(e) + 1
<1>1. RECORDS_PER_FILE \in Nat \ {0} /\ first_record_id(f) \in Nat /\ first_record_id(0) = 0
  BY FilesType, FirstOf
<1>2. CASE f = 0
  BY <1>1, <1>2 DEF NoSeq
<1>3. CASE f # 0
  <2>1. PICK g \in Nat : f = g + 1
    <3>1. f - 1 \in Nat /\ f = (f - 1) + 1
      BY <1>3
    <3>2. QED
      BY <3>1
  <2>2. first_record_id(g) \in Nat /\ first_record_id(f) = first_record_id(g) + RECORDS_PER_FILE
    BY <2>1, FirstOf
  <2>3. e \in Nat /\ first_record_id(g) <= e /\ e < first_record_id(g) + RECORDS_PER_FILE
    BY <1>1, <2>2
  <2>4. from_record_id(e) = g
    BY <2>3, FileUnique
  <2>5. QED
    BY <2>1, <2>3, <2>4 DEF NoSeq
<1>4. QED
  BY <1>2, <1>3

\* The logs keep the first n records, whatever happens to the indexes.
LogsCalm(n) == \A f \in Files : Undisturbed(Log(f), CountIn(f, n))

LEMMA LogsKept ==
  ASSUME HistoryInv, LogsCalm(flushed), LogsCalm(synced), UNCHANGED history
  PROVE  HistoryInv'
<1>1. ASSUME NEW f \in Files
      PROVE  /\ Holds(f, CountIn(f, flushed)) => Holds(f, CountIn(f, flushed))'
             /\ Safe(Log(f), CountIn(f, synced)) => Safe(Log(f), CountIn(f, synced))'
  <2>1. Log(f)[1] = "log" /\ Log(f)[2] = f
    BY PathOf
  <2>2. Undisturbed(Log(f), CountIn(f, flushed)) /\ Undisturbed(Log(f), CountIn(f, synced))
    BY DEF LogsCalm
  <2>3. flushed' = flushed /\ synced' = synced
    BY DEF history
  <2>4. QED
    BY <2>1, <2>2, <2>3 DEF Undisturbed
<1>2. Held(flushed)' /\ SafeLogs(synced)'
  BY <1>1 DEF HistoryInv, Held, SafeLogs, history
<1>3. QED
  BY <1>2 DEF HistoryInv, history

LoopSteps == ReadSteps \ {"discover"}

\* What holds in the loop of validate_files.
LEMMA InLoop ==
  ASSUME IInv, pc \in LoopSteps
  PROVE  /\ StorageInv /\ InitializerTypeOK /\ DocumentInv /\ HistoryInv
         /\ active = NoFile /\ first_file_to_remove = NoFile
         /\ at \in Files /\ at \in Nat /\ maximum \in Files /\ maximum \in Nat /\ at <= maximum
         /\ LogsBelow(maximum + 1)
         /\ checkpoint = checkpoint_json
         /\ trusted_count \in 0 .. RECORDS_PER_FILE
         /\ trusted_count = CountIn(at, checkpoint + 1)
         /\ trusted_count > 0 => checkpoint + 1 = first_record_id(at) + trusted_count
         /\ trusted_count = 0 => checkpoint + 1 <= first_record_id(at)
         /\ trusted_count = 0 => recovered_end + 1 = first_record_id(at)
         /\ trusted_count > 0 => recovered_end = NoSeq
         /\ first_record_id(at) \in Nat /\ Secured(first_record_id(at))
         /\ log = Log(at) /\ index = Index(at) /\ log \in Paths /\ index \in Paths
         /\ log # index /\ log[1] = "log" /\ log[2] = at /\ index[1] = "index" /\ index[2] = at
         /\ successor = "none" /\ faults \in 0 .. MaxFaults
         /\ checkpoint \in Int /\ checkpoint >= -1 /\ checkpoint + 1 \in Nat
         /\ recovered_end \in Int /\ recovered_end >= -1
<1>1. /\ StorageInv /\ InitializerTypeOK /\ DocumentInv /\ HistoryInv /\ LoopInv /\ AttemptInv
      /\ faults \in 0 .. MaxFaults
  BY DEF IInv
<1>2. /\ active = NoFile /\ first_file_to_remove = NoFile
      /\ at \in Files /\ maximum \in Files /\ at <= maximum
      /\ LogsBelow(maximum + 1)
      /\ checkpoint # NoSeq => from_record_id(checkpoint) <= at
      /\ Secured(first_record_id(at))
      /\ IF trusted_count > 0 THEN recovered_end = NoSeq
                              ELSE recovered_end + 1 = first_record_id(at)
  BY <1>1 DEF LoopInv, LoopSteps
<1>3. checkpoint = checkpoint_json
  BY <1>1 DEF AttemptInv, LoopSteps, UnpublishedSteps
<1>4. /\ trusted_count \in 0 .. RECORDS_PER_FILE
      /\ trusted_count = CountIn(at, checkpoint + 1)
      /\ trusted_count > 0 => checkpoint + 1 = first_record_id(at) + trusted_count
      /\ trusted_count = 0 => checkpoint + 1 <= first_record_id(at)
      /\ first_record_id(at) \in Nat
  BY <1>1, <1>2, Trusted
<1>5. trusted_count = 0 => recovered_end + 1 = first_record_id(at)
  BY <1>2
<1>6. log = Log(at) /\ index = Index(at)
  BY DEF log, index, Log, Index
<1>7. /\ log \in Paths /\ index \in Paths
      /\ log # index /\ log[1] = "log" /\ log[2] = at /\ index[1] = "index" /\ index[2] = at
  BY <1>2, <1>6, PathOf
<1>8. successor = "none"
  BY DEF IInv, RunInv, LoopSteps, ReadSteps
<1>9. at \in Nat /\ maximum \in Nat
  BY <1>2, FilesType
<1>10. /\ checkpoint \in Int /\ checkpoint >= -1 /\ checkpoint + 1 \in Nat
       /\ recovered_end \in Int /\ recovered_end >= -1
  BY <1>1, WorkingTypes
<1>11. QED
  BY <1>1, <1>2, <1>3, <1>4, <1>5, <1>6, <1>7, <1>8, <1>9, <1>10

\* A step from the loop to the loop, at the same file.
LEMMA LoopKept ==
  ASSUME IInv, pc \in LoopSteps, pc' \in LoopSteps, UNCHANGED working, Outside,
         StorageInv', DocumentInv', HistoryInv', PairInv', checkpoint_json' = checkpoint_json,
         Secured(first_record_id(at))',
         \A f \in Files : Log(f) \in names' => Log(f) \in names
  PROVE  IInv'
<1>1. /\ checkpoint' = checkpoint /\ maximum' = maximum /\ recovered_end' = recovered_end
      /\ active' = active /\ first_file_to_remove' = first_file_to_remove /\ at' = at
  BY DEF working
<1>2. trusted_count' = trusted_count
  BY <1>1 DEF trusted_count
<1>3. LogsBelow(maximum + 1)'
  BY <1>1, InLoop DEF LogsBelow
<1>4. LoopInv'
  BY <1>1, <1>2, <1>3 DEF IInv, LoopInv, LoopSteps
<1>5. InitializerTypeOK' /\ AttemptInv'
  BY <1>1 DEF IInv, InitializerTypeOK, AttemptInv, LoopSteps, UnpublishedSteps, ReadSteps, Steps
<1>6. CleanInv' /\ SettledInv' /\ RunInv'
  BY InLoop DEF CleanInv, SettledInv, RunInv, LoopSteps, ReadSteps, CleanSteps, SettledSteps,
                Outside
<1>7. QED
  BY <1>4, <1>5, <1>6 DEF IInv, Outside

\* The same for a step that disturbs nothing.
LEMMA CalmLoop ==
  ASSUME IInv, pc \in LoopSteps, pc' \in LoopSteps, UNCHANGED working, Outside,
         Calm, StorageInv', PairInv', UNCHANGED documents,
         \A f \in Files : Log(f) \in names' => Log(f) \in names
  PROVE  IInv'
<1>1. DocumentInv' /\ HistoryInv' /\ checkpoint_json' = checkpoint_json
  BY InLoop, CalmStep DEF documents, Outside
<1>2. PICK n \in Nat : n = first_record_id(at)
  BY InLoop
<1>3. Secured(n)'
  BY <1>2, InLoop, CalmIsCalmBelow, BelowKept
<1>4. first_record_id(at') = n
  BY <1>2 DEF working
<1>5. Secured(first_record_id(at))'
  BY <1>3, <1>4
<1>6. QED
  BY <1>1, <1>5, LoopKept

LEMMA OpenLogStep ==
  ASSUME IInv, open_log_for_validation, Outside PROVE IInv'
<1>1. pc = "open_log" /\ pc \in LoopSteps /\ UNCHANGED storage
  BY DEF open_log_for_validation, LoopSteps, ReadSteps
<1>2. StorageInv' /\ DocumentInv' /\ HistoryInv' /\ UNCHANGED documents
  BY <1>1, StillStorage, CalmStep DEF IInv, Outside, storage
<1>3. CASE log \in names /\ pc' = "open_index" /\ UNCHANGED working
  <2>1. PairInv'
    BY <1>1, <1>3, StillStorage DEF PairInv, working, log, ReadSteps
  <2>2. QED
    BY <1>1, <1>2, <1>3, <2>1, StillStorage, CalmLoop DEF LoopSteps, ReadSteps
<1>4. CASE fail
  BY <1>1, <1>2, <1>4, FailStep, InLoop DEF Outside
<1>5. CASE /\ log \notin names /\ trusted_count = 0
           /\ first_file_to_remove' = at /\ pc' = "remove_log"
           /\ UNCHANGED <<checkpoint, maximum, recovered_end, active, at>>
  <2>1. /\ recovered_end + 1 = first_record_id(at) /\ checkpoint + 1 <= first_record_id(at)
        /\ at \in Files /\ at \in Nat /\ active = NoFile /\ checkpoint = checkpoint_json
        /\ maximum \in Files /\ maximum \in Nat /\ at <= maximum /\ LogsBelow(maximum + 1)
        /\ checkpoint \in Int /\ recovered_end \in Int /\ recovered_end >= -1
        /\ first_record_id(at) \in Nat /\ Secured(first_record_id(at))
        /\ successor = "none" /\ log = Log(at)
    BY <1>1, <1>5, InLoop
  <2>2. next_file = at /\ next_file' = at /\ top' = at
    <3>1. next_file = at
      BY <2>1, NextFile DEF next_file
    <3>2. next_file' = next_file /\ active' = active
      BY <1>5 DEF next_file
    <3>3. QED
      BY <2>1, <3>1, <3>2 DEF top
  <2>3. flushed <= first_record_id(at)
    <3>1. Holds(at, CountIn(at, flushed)) /\ CountIn(at, flushed) \in Nat /\ flushed \in Nat
      BY <2>1, CountFacts DEF IInv, HistoryInv, Held
    <3>2. CountIn(at, flushed) = 0
      BY <1>5, <2>1, <3>1 DEF Holds
    <3>3. QED
      BY <2>1, <3>1, <3>2, CountFacts, FilesType
  <2>4. InitializerTypeOK' /\ AttemptInv'
    BY <1>1, <1>2, <1>5, <2>1
       DEF IInv, InitializerTypeOK, Steps, AttemptInv, documents
  <2>5. LoopInv' /\ PairInv' /\ RunInv'
    BY <1>5, <2>1 DEF LoopInv, PairInv, RunInv, ReadSteps, Outside
  <2>6. CleanInv'
    <3>1. first_file_to_remove' = at /\ at' = at /\ maximum' = maximum /\ names' = names
      BY <1>1, <1>5, StillStorage
    <3>2. \A f \in Files : Log(f) \in names => f \in at .. maximum \/ f < at
      BY <2>1, FilesType DEF LogsBelow
    <3>3. QED
      BY <1>5, <2>1, <2>2, <3>1, <3>2 DEF CleanInv, CleanSteps, SettledSteps
  <2>7. SettledInv'
    <3>1. PICK n \in Nat : n = recovered_end + 1
      BY <2>1
    <3>2. Secured(n)'
      BY <1>1, <2>1, <3>1, StillStorage
    <3>3. n <= MAX_SEQUENCE
      BY <2>1, <3>1, FileInDomain
    <3>4. checkpoint' = checkpoint /\ recovered_end' = recovered_end /\ active' = NoFile
      BY <1>5, <2>1
    <3>5. flushed' <= n
      BY <2>1, <2>3, <3>1 DEF Outside, history
    <3>6. checkpoint' <= recovered_end'
      BY <2>1, <3>4
    <3>7. recovered_end' + 1 = n /\ next_file' \in Files /\ first_record_id(next_file') = n
      BY <2>1, <2>2, <3>1, <3>4
    <3>8. QED
      BY <1>5, <2>1, <3>2, <3>3, <3>4, <3>5, <3>6, <3>7 DEF SettledInv
  <2>8. QED
    BY <1>2, <2>4, <2>5, <2>6, <2>7 DEF IInv, Outside
<1>6. QED
  BY <1>3, <1>4, <1>5 DEF open_log_for_validation

LEMMA OpenIndexStep ==
  ASSUME IInv, open_index_for_repair, Outside PROVE IInv'
<1>1. /\ pc = "open_index" /\ pc \in LoopSteps /\ pc' = "sync_leaf" /\ pc' \in LoopSteps
      /\ UNCHANGED <<working, documents>>
  BY DEF open_index_for_repair, LoopSteps, ReadSteps
<1>2. log' = log /\ index' = index
  BY <1>1 DEF log, index, working
<1>3. log \in names
  BY <1>1 DEF IInv, PairInv, ReadSteps
<1>4. CASE index \in names /\ UNCHANGED <<directories, contents>>
  <2>1. UNCHANGED storage
    BY <1>1, <1>4 DEF storage
  <2>2. PairInv'
    BY <1>1, <1>2, <1>3, <1>4, <2>1, StillStorage DEF PairInv
  <2>3. QED
    BY <1>1, <2>1, <2>2, StillStorage, CalmLoop, InLoop
<1>5. CASE create(index)
  <2>1. /\ StorageInv' /\ names' = names \cup {index}
        /\ \A q \in Paths, c \in Nat : Undisturbed(q, c)
    BY <1>1, <1>5, CreateStep, InLoop
  <2>2. Calm
    BY <2>1 DEF Calm
  <2>3. PairInv'
    BY <1>1, <1>2, <1>3, <2>1 DEF PairInv
  <2>4. \A f \in Files : Log(f) \in names' => Log(f) \in names
    BY <1>1, <2>1, InLoop, PathOf
  <2>5. QED
    BY <1>1, <2>1, <2>2, <2>3, <2>4, CalmLoop
<1>6. QED
  BY <1>4, <1>5 DEF open_index_for_repair

LEMMA SyncLeafStep ==
  ASSUME IInv, sync_leaf, Outside PROVE IInv'
<1>1. /\ pc = "sync_leaf" /\ pc \in LoopSteps /\ pc' = "scan" /\ pc' \in LoopSteps
      /\ UNCHANGED <<working, names, contents, documents>>
      /\ sync_directory(leaf(index))
  BY DEF sync_leaf, LoopSteps, ReadSteps
<1>2. log' = log /\ index' = index /\ names' = names
  BY <1>1 DEF log, index, working
<1>3. log \in names /\ index \in names
  BY <1>1 DEF IInv, PairInv, ReadSteps
<1>4. leaf(log) = leaf(index)
  BY DEF leaf, log, index
<1>5. /\ StorageInv' /\ Calm
      /\ \A q \in names : leaf(q) = leaf(index) => Named(q)'
  BY <1>1, SyncDirectoryStep, InLoop DEF Calm
<1>6. Named(log)' /\ Named(index)'
  <2>1. PICK p, q : p = log /\ q = index
    OBVIOUS
  <2>2. Named(p)' /\ Named(q)'
    BY <1>3, <1>4, <1>5, <2>1
  <2>3. QED
    BY <1>2, <2>1, <2>2
<1>7. PairInv'
  BY <1>1, <1>2, <1>3, <1>6 DEF PairInv
<1>8. QED
  BY <1>1, <1>2, <1>5, <1>7, CalmLoop

\* A truncation in the loop that leaves the trusted records and, in the log, the
\* flushed ones.
LEMMA CutLoop ==
  ASSUME IInv, pc \in LoopSteps, pc' \in LoopSteps, UNCHANGED working, Outside,
         NEW p \in {log, index}, NEW n \in Nat, n <= Len(cache[p]), set_len(p, n),
         UNCHANGED <<directories, documents>>, PairInv',
         trusted_count <= n, p = log => CountIn(at, flushed) <= n
  PROVE  IInv'
<1>1. p \in Paths /\ p[2] = at /\ log = Log(at) /\ index = Index(at) /\ at \in Files
  BY InLoop
<1>2. /\ StorageInv' /\ names' = names
      /\ \A q \in Paths, c \in Nat : q # p \/ c <= n => Undisturbed(q, c)
  BY <1>1, SetLenStep, InLoop
<1>3. checkpoint_json' = checkpoint_json /\ UNCHANGED <<checkpoint_json, checkpoints>>
  BY DEF documents
<1>4. ASSUME NEW m \in Nat, CountIn(at, m) <= n PROVE CalmBelow(m)
  <2>1. ASSUME NEW q \in Paths PROVE Undisturbed(q, CountIn(q[2], m))
    <3>1. CountIn(q[2], m) \in Nat
      BY CountFacts, LeafType
    <3>2. q = p => CountIn(q[2], m) <= n
      BY <1>1, <1>4
    <3>3. QED
      BY <1>2, <3>1, <3>2
  <2>2. QED
    BY <2>1 DEF CalmBelow
<1>5. DocumentInv'
  BY <1>3, <1>4, InLoop, DocumentsKept
<1>6. HistoryInv'
  <2>1. flushed \in Nat /\ synced \in Nat /\ synced <= flushed
    BY DEF IInv, HistoryInv
  <2>2. ASSUME NEW m \in Nat, m <= flushed PROVE LogsCalm(m)
    <3>1. ASSUME NEW f \in Files PROVE Undisturbed(Log(f), CountIn(f, m))
      <4>1. /\ CountIn(f, m) \in Nat /\ CountIn(f, flushed) \in Nat
            /\ CountIn(f, m) <= CountIn(f, flushed) /\ Log(f) \in Paths
        <5>1. m \in Nat /\ flushed \in Nat /\ m <= flushed /\ f \in Nat
          BY <2>1, <2>2, FilesType
        <5>2. Log(f) \in Paths
          BY PathOf
        <5>3. CountIn(f, m) \in Nat /\ CountIn(f, flushed) \in Nat
          BY <5>1, CountNatural
        <5>4. CountIn(f, m) <= CountIn(f, flushed)
          BY <5>1, CountMonotone
        <5>5. QED
          BY <5>2, <5>3, <5>4
      <4>2. ASSUME Log(f) = p PROVE CountIn(f, m) <= n
        <5>1. p = log /\ f = at
          BY <1>1, <4>2, PathOf
        <5>2. QED
          BY <4>1, <5>1
      <4>3. QED
        BY <1>2, <4>1, <4>2
    <3>2. QED
      BY <3>1 DEF LogsCalm
  <2>3. LogsCalm(flushed) /\ LogsCalm(synced)
    BY <2>1, <2>2
  <2>4. QED
    BY <2>3, LogsKept, InLoop DEF Outside
<1>7. Secured(first_record_id(at))'
  <2>1. PICK m \in Nat : m = first_record_id(at)
    BY InLoop
  <2>2. CountIn(at, m) = 0
    BY <1>1, <2>1, CountFacts
  <2>3. Secured(m)'
    BY <1>4, <2>1, <2>2, InLoop, BelowKept
  <2>4. first_record_id(at') = m
    BY <2>1 DEF working
  <2>5. QED
    BY <2>3, <2>4
<1>8. QED
  BY <1>2, <1>3, <1>5, <1>6, <1>7, LoopKept

\* What scan_records returns.
LEMMA ScanResult ==
  ASSUME IInv, pc = "scan", trusted_count <= Len(cache[log])
  PROVE  /\ scan_records \in Nat /\ scan_records <= Len(cache[log])
         /\ scan_records <= RECORDS_PER_FILE
         /\ trusted_count <= scan_records
         /\ CountIn(at, flushed) <= scan_records
         /\ first_record_id(at) + scan_records <= MAX_SEQUENCE
         /\ \A i \in 1 .. scan_records : cache[log][i] # Torn
<1> DEFINE t == trusted_count
<1> DEFINE L == Len(cache[log])
<1> DEFINE top_of == Min({RECORDS_PER_FILE, Len(cache[log])})
<1> DEFINE T == {n \in t .. top_of : \A i \in t + 1 .. n : cache[log][i] # Torn}
<1>0. pc \in LoopSteps
  BY DEF LoopSteps, ReadSteps
<1>1. /\ t \in Nat /\ t <= RECORDS_PER_FILE /\ t <= L /\ L \in Nat /\ RECORDS_PER_FILE \in Nat
      /\ log = Log(at) /\ log \in Paths /\ at \in Files
  BY <1>0, InLoop, StorageTypes, FilesType
<1>2. top_of = IF RECORDS_PER_FILE <= L THEN RECORDS_PER_FILE ELSE L
  BY <1>1, MinOfTwo
<1>3. top_of \in Nat /\ t <= top_of /\ top_of <= L /\ top_of <= RECORDS_PER_FILE
  BY <1>1, <1>2
<1> HIDE DEF top_of, t, L
<1>4. T \in SUBSET Nat /\ t \in T /\ \A y \in T : y <= top_of
  BY <1>1, <1>3
<1>5. scan_records = Max(T)
  BY DEF scan_records, t, top_of
<1>6. scan_records \in T /\ \A y \in T : y <= scan_records
  BY <1>3, <1>4, <1>5, MaxOfBounded
<1>7. /\ scan_records \in Nat /\ t <= scan_records /\ scan_records <= top_of
      /\ \A i \in t + 1 .. scan_records : cache[log][i] # Torn
  BY <1>3, <1>4, <1>6
<1>8. \A i \in 1 .. t : cache[log][i] # Torn
  <2>1. Secured(checkpoint + 1) /\ t = CountIn(at, checkpoint + 1) /\ log[2] = at /\ log[1] = "log"
    BY <1>0, InLoop DEF t, DocumentInv
  <2>2. Keeps(log, t)
    BY <1>1, <2>1 DEF Secured
  <2>3. QED
    BY <2>1, <2>2 DEF Keeps, Valid
<1>9. \A i \in 1 .. scan_records : cache[log][i] # Torn
  <2> SUFFICES ASSUME NEW i \in 1 .. scan_records PROVE cache[log][i] # Torn
    OBVIOUS
  <2>1. i \in 1 .. t \/ i \in t + 1 .. scan_records
    BY <1>1, <1>7
  <2>2. QED
    BY <1>7, <1>8, <2>1
<1>10. first_record_id(at) + scan_records <= MAX_SEQUENCE
  <2>0. first_record_id(at) \in Nat /\ first_record_id(at) <= MAX_SEQUENCE /\ MAX_SEQUENCE \in Nat
    BY <1>1, FileInDomain, FirstOf, FilesType
  <2>1. CASE scan_records = 0
    BY <2>0, <2>1
  <2>2. CASE scan_records # 0
    <3>1. scan_records \in 1 .. Len(cache[log]) /\ scan_records \in 1 .. scan_records
      BY <1>1, <1>3, <1>7, <2>2 DEF L
    <3>2. InDomain(at, cache[log])
      BY <1>0, <1>1, InLoop DEF StorageInv, DomainInv
    <3>3. ~ (first_record_id(at) + scan_records > MAX_SEQUENCE)
      BY <1>9, <3>1, <3>2 DEF InDomain
    <3>4. QED
      BY <1>7, <2>0, <3>3
  <2>3. QED
    BY <2>1, <2>2
<1>11. CountIn(at, flushed) <= scan_records
  <2>1. PICK c \in Nat : c = CountIn(at, flushed) /\ c <= RECORDS_PER_FILE
    BY <1>1, CountFacts, FilesType DEF IInv, HistoryInv
  <2>2. Holds(at, c)
    BY <1>1, <2>1 DEF IInv, HistoryInv, Held
  <2>3. CASE c <= t
    BY <1>1, <1>7, <2>1, <2>3
  <2>4. CASE c > t
    <3>1. c <= L /\ \A i \in 1 .. c : cache[log][i] # Torn
      BY <1>1, <2>2, <2>4 DEF Holds, L
    <3>2. c \in t .. top_of /\ \A i \in t + 1 .. c : cache[log][i] # Torn
      BY <1>1, <1>2, <1>3, <2>1, <2>4, <3>1
    <3>3. c \in T
      BY <3>2
    <3>4. QED
      BY <1>6, <2>1, <3>3
  <2>5. QED
    BY <1>1, <2>1, <2>3, <2>4
<1>12. QED
  BY <1>1, <1>3, <1>7, <1>9, <1>10, <1>11 DEF t, L

LEMMA ScanStep ==
  ASSUME IInv, scan, Outside PROVE IInv'
<1>1. pc = "scan" /\ pc \in LoopSteps /\ UNCHANGED <<directories, documents>>
  BY DEF scan, LoopSteps, ReadSteps
<1>2. CASE fail /\ UNCHANGED contents
  <2>1. UNCHANGED storage
    BY <1>1, <1>2 DEF storage
  <2>2. StorageInv' /\ DocumentInv' /\ HistoryInv'
    BY <1>1, <2>1, InLoop, StillStorage, CalmStep DEF Outside
  <2>3. QED
    BY <1>1, <1>2, <2>2, FailStep, InLoop DEF Outside
<1>3. CASE /\ ~ (trusted_count > Len(cache[log]))
           /\ set_len(log, scan_records) /\ pc' = "sync_log" /\ UNCHANGED working
  <2>1. trusted_count <= Len(cache[log])
    <3>1. trusted_count \in Nat /\ Len(cache[log]) \in Nat
      BY <1>1, InLoop, StorageTypes
    <3>2. QED
      BY <1>3, <3>1
  <2>2. PICK n \in Nat : /\ n = scan_records /\ n <= Len(cache[log]) /\ n <= RECORDS_PER_FILE
                         /\ trusted_count <= n /\ CountIn(at, flushed) <= n
                         /\ first_record_id(at) + n <= MAX_SEQUENCE
                         /\ \A i \in 1 .. n : cache[log][i] # Torn
    BY <1>1, <2>1, ScanResult
  <2>3. PICK p : p = log /\ p \in Paths
    BY <1>1, InLoop
  <2>4. /\ dirs' = dirs /\ names' = names
        /\ Len(cache'[p]) = n /\ \A i \in 1 .. n : cache'[p][i] = cache[p][i]
    BY <1>1, <1>3, <2>2, <2>3, SetLenStep, InLoop
  <2>5. /\ log' = log /\ index' = index /\ trusted_count' = trusted_count
        /\ first_record_id(at') = first_record_id(at)
    BY <1>3 DEF log, index, trusted_count, working
  <2>6. /\ log \in names /\ index \in names /\ Named(log) /\ Named(index)
    BY <1>1 DEF IInv, PairInv, ReadSteps
  <2>7. Named(log)' /\ Named(index)'
    BY <2>4, <2>5, <2>6 DEF Named
  <2>8. Len(cache[log])' = n /\ \A i \in 1 .. n : (cache[log])'[i] # Torn
    BY <2>2, <2>3, <2>4, <2>5
  <2>9. PairInv'
    BY <1>3, <2>2, <2>4, <2>5, <2>6, <2>7, <2>8 DEF PairInv
  <2>10. QED
    BY <1>1, <1>3, <2>2, <2>9, CutLoop DEF LoopSteps, ReadSteps
<1>4. QED
  BY <1>2, <1>3 DEF scan

LEMMA SyncLogStep ==
  ASSUME IInv, sync_log, Outside PROVE IInv'
<1>1. /\ pc = "sync_log" /\ pc \in LoopSteps /\ pc' = "check_trusted" /\ pc' \in LoopSteps
      /\ UNCHANGED <<working, directories, documents>> /\ sync_data(log)
  BY DEF sync_log, LoopSteps, ReadSteps
<1>2. /\ StorageInv' /\ Calm /\ names' = names /\ dirs' = dirs /\ cache' = cache
      /\ stable'[log] = Len(cache[log])
  BY <1>1, SyncDataStep, InLoop DEF Calm
<1>3. /\ log' = log /\ index' = index /\ trusted_count' = trusted_count /\ at' = at
  BY <1>1 DEF log, index, trusted_count, working
<1>4. PairInv'
  BY <1>1, <1>2, <1>3 DEF IInv, PairInv, ReadSteps, Named
<1>5. QED
  BY <1>1, <1>2, <1>4, CalmLoop

LEMMA CheckTrustedStep ==
  ASSUME IInv, check_trusted, Outside PROVE IInv'
<1>1. pc = "check_trusted" /\ pc \in LoopSteps /\ UNCHANGED <<directories, documents>>
  BY DEF check_trusted, LoopSteps, ReadSteps
<1>2. CASE fail /\ UNCHANGED contents
  <2>1. UNCHANGED storage
    BY <1>1, <1>2 DEF storage
  <2>2. StorageInv' /\ DocumentInv' /\ HistoryInv'
    BY <1>1, <2>1, InLoop, StillStorage, CalmStep DEF Outside
  <2>3. QED
    BY <1>1, <1>2, <2>2, FailStep, InLoop DEF Outside
<1>3. CASE /\ trusted_count > 0 => trusted_count <= Len(cache[index])
           /\ set_len(index, trusted_count) /\ pc' = "write_suffix" /\ UNCHANGED working
  <2>1. PICK p, q : p = index /\ q = log /\ p \in Paths /\ q \in Paths /\ p # q
    BY <1>1, InLoop
  <2>2. PICK n \in Nat : n = trusted_count /\ n <= Len(cache[p])
    <3>1. trusted_count \in Nat /\ Len(cache[index]) \in Nat
      BY <1>1, InLoop, StorageTypes
    <3>2. trusted_count <= Len(cache[index])
      BY <1>3, <3>1
    <3>3. QED
      BY <2>1, <3>1, <3>2
  <2>3. /\ dirs' = dirs /\ names' = names /\ cache'[q] = cache[q] /\ stable'[q] = stable[q]
        /\ Len(cache'[p]) = n /\ \A i \in 1 .. n : cache'[p][i] = cache[p][i]
    <3>1. StorageInv /\ set_len(p, n)
      BY <1>1, <1>3, <2>1, <2>2, InLoop
    <3>2. QED
      BY <1>1, <2>1, <2>2, <3>1, SetLenStep
  <2>4. /\ log' = log /\ index' = index /\ trusted_count' = trusted_count
        /\ first_record_id(at') = first_record_id(at)
    BY <1>3 DEF log, index, trusted_count, working
  <2>5. \A i \in 1 .. n : cache[p][i] = i
    <3>1. Secured(checkpoint + 1) /\ n = CountIn(at, checkpoint + 1) /\ p[2] = at /\ p[1] = "index"
      BY <1>1, <2>1, <2>2, InLoop DEF DocumentInv
    <3>2. Keeps(p, n)
      BY <2>1, <3>1 DEF Secured
    <3>3. QED
      BY <3>1, <3>2 DEF Keeps, Valid
  <2>6. (cache[log])' = cache[log] /\ (stable[log])' = stable[log]
    BY <2>1, <2>3, <2>4
  <2>7. Len(cache[index])' = n /\ \A i \in 1 .. n : (cache[index])'[i] = i
    BY <2>1, <2>3, <2>4, <2>5
  <2>8. PairInv'
    BY <1>1, <1>3, <2>2, <2>3, <2>4, <2>6, <2>7 DEF IInv, PairInv, ReadSteps, Named
  <2>9. QED
    BY <1>1, <1>3, <2>1, <2>2, <2>8, CutLoop DEF LoopSteps, ReadSteps
<1>4. QED
  BY <1>2, <1>3 DEF check_trusted

LEMMA WriteSuffixStep ==
  ASSUME IInv, write_suffix, Outside PROVE IInv'
<1>1. /\ pc = "write_suffix" /\ pc \in LoopSteps /\ pc' = "sync_index" /\ pc' \in LoopSteps
      /\ UNCHANGED <<working, directories, documents>> /\ write(index, suffix_ends)
  BY DEF write_suffix, LoopSteps, ReadSteps
<1>2. PICK p, q : p = index /\ q = log /\ p \in Paths /\ q \in Paths /\ p # q /\ p[1] = "index"
  BY <1>1, InLoop
<1>3. PICK t \in Nat, L \in Nat : t = trusted_count /\ L = Len(cache[q])
  BY <1>1, <1>2, InLoop, StorageTypes
<1>4. /\ t <= L /\ Len(cache[p]) = t /\ \A i \in 1 .. t : cache[p][i] = i
      /\ cache[p] \in Seq(Nat)
  BY <1>1, <1>2, <1>3, InLoop, StorageTypes DEF IInv, PairInv
<1>5. PICK s \in Seq(Nat) : /\ s = suffix_ends /\ Len(s) = L - t
                            /\ \A i \in 1 .. L - t : s[i] = t + i
  <2>1. suffix_ends = [i \in 1 .. L - t |-> t + i] /\ L - t \in Nat
    BY <1>2, <1>3, <1>4 DEF suffix_ends
  <2>2. suffix_ends \in Seq(Nat) /\ Len(suffix_ends) = L - t
    BY <2>1
  <2>3. QED
    BY <2>1, <2>2
<1>6. /\ StorageInv' /\ Calm /\ names' = names /\ dirs' = dirs /\ stable' = stable
      /\ cache' = [cache EXCEPT ![p] = cache[p] \o s]
  BY <1>1, <1>2, <1>5, WriteStep, InLoop DEF Calm
<1>7. /\ log' = log /\ index' = index /\ trusted_count' = trusted_count /\ at' = at
  BY <1>1 DEF log, index, trusted_count, working
<1>8. cache'[q] = cache[q] /\ cache'[p] = cache[p] \o s
  BY <1>1, <1>2, <1>6, InLoop DEF StorageInv, StorageTypeOK
<1>9. cache[p] \o s = [i \in 1 .. L |-> i]
  <2>1. /\ cache[p] \o s \in Seq(Nat) /\ Len(cache[p] \o s) = L
        /\ \A i \in 1 .. t : (cache[p] \o s)[i] = i
        /\ \A i \in 1 .. L - t : (cache[p] \o s)[t + i] = t + i
    <3>1. PICK u \in Seq(Nat) : u = cache[p]
      BY <1>4
    <3>2. /\ u \o s \in Seq(Nat) /\ Len(u \o s) = Len(u) + Len(s)
          /\ \A i \in 1 .. Len(u) : (u \o s)[i] = u[i]
          /\ \A i \in 1 .. Len(s) : (u \o s)[Len(u) + i] = s[i]
      BY <1>5, <3>1, Concat
    <3>3. Len(u) = t /\ \A i \in 1 .. t : u[i] = i
      BY <1>4, <3>1
    <3>4. Len(u \o s) = L
      BY <1>3, <1>5, <3>2, <3>3
    <3>5. \A i \in 1 .. t : (u \o s)[i] = i
      BY <3>2, <3>3
    <3>6. \A i \in 1 .. L - t : (u \o s)[t + i] = t + i
      BY <1>5, <3>2, <3>3
    <3>7. QED
      BY <3>1, <3>2, <3>4, <3>5, <3>6
  <2>2. PICK u \in Seq(Nat) : /\ u = cache[p] \o s /\ Len(u) = L
                              /\ \A i \in 1 .. t : u[i] = i
                              /\ \A i \in 1 .. L - t : u[t + i] = t + i
    BY <2>1
  <2>3. ASSUME NEW i \in 1 .. L PROVE u[i] = i
    <3>1. CASE i <= t
      BY <1>3, <2>2, <3>1
    <3>2. CASE i > t
      <4>1. i - t \in 1 .. L - t /\ t + (i - t) = i
        BY <1>3, <3>2
      <4>2. QED
        BY <2>2, <4>1
    <3>3. i \in Int /\ t \in Int
      BY <1>3
    <3>4. QED
      BY <3>1, <3>2, <3>3
  <2>4. u \in [1 .. L -> Nat]
    <3>1. u \in [1 .. Len(u) -> Nat]
      OBVIOUS
    <3>2. QED
      BY <2>2, <3>1
  <2>5. u = [i \in 1 .. L |-> i]
    BY <2>3, <2>4
  <2>6. QED
    BY <2>2, <2>5
<1>10. Dense(at)'
  BY <1>1, <1>2, <1>3, <1>7, <1>8, <1>9, InLoop DEF Dense
<1>11. (cache[log])' = cache[log] /\ (stable[log])' = stable[log]
  BY <1>2, <1>6, <1>7, <1>8
<1>12. PairInv'
  BY <1>1, <1>6, <1>7, <1>10, <1>11 DEF IInv, PairInv, ReadSteps, Named
<1>13. QED
  BY <1>1, <1>6, <1>12, CalmLoop

\* The pair at `at` is synchronised: its records join those that are secured.
LEMMA PairSecured ==
  ASSUME IInv, pc = "sync_index", sync_data(index), UNCHANGED <<directories, documents>>,
         NEW n, n = first_record_id(at) + Len(cache[log])
  PROVE  /\ StorageInv' /\ Calm /\ names' = names /\ cache' = cache
         /\ n \in Nat /\ n <= MAX_SEQUENCE /\ checkpoint + 1 <= n
         /\ Secured(n)'
         /\ Len(cache[log]) \in Nat /\ Len(cache[log]) <= RECORDS_PER_FILE
         /\ trusted_count <= Len(cache[log])
         /\ log \in names /\ index \in names /\ Dense(at)
<1>0. pc \in LoopSteps
  BY DEF LoopSteps, ReadSteps
<1>1. /\ StorageInv' /\ Calm /\ names' = names /\ dirs' = dirs /\ cache' = cache
      /\ \A q \in Paths : stable'[q] = IF q = index THEN Len(cache[index]) ELSE stable[q]
  BY <1>0, SyncDataStep, InLoop DEF Calm
<1>2. PICK L \in Nat : L = Len(cache[log])
  BY <1>0, InLoop, StorageTypes
<1>3. /\ log \in names /\ index \in names /\ Named(log) /\ Named(index)
      /\ trusted_count <= L /\ L <= RECORDS_PER_FILE
      /\ first_record_id(at) + L <= MAX_SEQUENCE
      /\ \A i \in 1 .. L : cache[log][i] # Torn
      /\ stable[log] = L /\ Dense(at)
  BY <1>2 DEF IInv, PairInv, ReadSteps
<1>4. cache[index] = [i \in 1 .. L |-> i] /\ Len(cache[index]) = L
  <2>1. cache[index] = [i \in 1 .. L |-> i]
    BY <1>0, <1>2, <1>3, InLoop DEF Dense
  <2>2. Len([i \in 1 .. L |-> i]) = L
    BY <1>2
  <2>3. QED
    BY <2>1, <2>2
<1>5. /\ n = first_record_id(at) + L /\ first_record_id(at) \in Nat /\ n \in Nat
      /\ at \in Files /\ at \in Nat /\ RECORDS_PER_FILE \in Nat
  <2>1. first_record_id(at) \in Nat /\ at \in Files /\ at \in Nat
    BY <1>0, InLoop
  <2>2. n = first_record_id(at) + L /\ n \in Nat
    BY <1>2, <2>1
  <2>3. QED
    BY <2>1, <2>2, FilesType
<1>6. checkpoint + 1 <= n
  <2>1. /\ trusted_count \in Nat /\ checkpoint \in Int
        /\ trusted_count > 0 => checkpoint + 1 = first_record_id(at) + trusted_count
        /\ trusted_count = 0 => checkpoint + 1 <= first_record_id(at)
    BY <1>0, InLoop
  <2>2. QED
    BY <1>2, <1>3, <1>5, <2>1
<1>7. ASSUME NEW p \in Paths PROVE Keeps(p, CountIn(p[2], n))'
  <2>1. PICK f \in Files : f = p[2] /\ f \in Nat
    BY LeafType, FilesType
  <2>2. PICK m \in Nat : m = first_record_id(at) /\ Secured(m)
    BY <1>0, InLoop
  <2>3. CASE f < at
    <3>1. first_record_id(f) \in Nat /\ first_record_id(f) + RECORDS_PER_FILE <= m
      BY <1>5, <2>1, <2>2, <2>3, FirstOf
    <3>2. CountIn(f, n) = RECORDS_PER_FILE /\ CountIn(f, m) = RECORDS_PER_FILE
      <4>1. n >= first_record_id(f) + RECORDS_PER_FILE /\ RECORDS_PER_FILE > 0
        BY <1>2, <1>5, <2>2, <3>1, FilesType
      <4>2. \A k \in Nat : k >= first_record_id(f) + RECORDS_PER_FILE =>
              CountIn(f, k) = RECORDS_PER_FILE
        BY <1>5, <3>1, <4>1, CountFacts
      <4>3. QED
        BY <1>5, <2>2, <3>1, <4>1, <4>2
    <3>3. Secured(m)'
      BY <2>2, <1>1, CalmIsCalmBelow, BelowKept
    <3>4. Keeps(p, CountIn(p[2], m))'
      BY <3>3 DEF Secured
    <3>5. QED
      BY <2>1, <3>2, <3>4
  <2>4. CASE f = at
    <3>1. CountIn(f, n) = L
      <4>1. CountIn(at, n) = IF n <= first_record_id(at) THEN 0
                             ELSE IF n >= first_record_id(at) + RECORDS_PER_FILE
                                    THEN RECORDS_PER_FILE
                                    ELSE n - first_record_id(at)
        BY <1>5, CountFacts
      <4>2. CountIn(at, n) = L
        BY <1>2, <1>3, <1>5, <4>1
      <4>3. QED
        BY <2>4, <4>2
    <3>2. p = log \/ p = index
      <4>1. p = <<p[1], p[2]>> /\ p[1] \in {"log", "index"}
        BY DEF Paths
      <4>2. QED
        BY <2>1, <2>4, <4>1 DEF log, index
    <3>3. Named(p)'
      BY <1>1, <1>3, <3>2 DEF Named
    <3>4. L <= stable'[p]
      BY <1>1, <1>2, <1>3, <1>4, <3>2
    <3>5. ASSUME NEW i \in 1 .. L PROVE Valid(p, i)'
      BY <1>0, <1>1, <1>3, <1>4, <3>2, InLoop DEF Valid
    <3>6. Keeps(p, L)'
      BY <3>3, <3>4, <3>5 DEF Keeps, Safe
    <3>7. QED
      BY <2>1, <3>1, <3>6
  <2>5. CASE f > at
    <3>1. first_record_id(f) \in Nat /\ first_record_id(at) + RECORDS_PER_FILE <= first_record_id(f)
      BY <1>5, <2>1, <2>5, FirstOf
    <3>2. CountIn(f, n) = 0
      BY <1>2, <1>3, <1>5, <3>1, CountFacts
    <3>3. Keeps(p, 0)'
      BY DEF Keeps, Safe
    <3>4. QED
      BY <2>1, <3>2, <3>3
  <2>6. QED
    BY <1>5, <2>1, <2>3, <2>4, <2>5
<1>8. Secured(n)'
  BY <1>7 DEF Secured
<1>9. QED
  BY <1>1, <1>2, <1>3, <1>5, <1>6, <1>8

LEMMA SyncIndexStep ==
  ASSUME IInv, sync_index, Outside PROVE IInv'
<1>1. /\ pc = "sync_index" /\ pc \in LoopSteps /\ sync_data(index)
      /\ UNCHANGED <<checkpoint, maximum, directories, documents>>
      /\ recovered_end' = IF cache[log] = << >> THEN recovered_end
                                               ELSE first_record_id(at) + Len(cache[log]) - 1
  BY DEF sync_index, LoopSteps, ReadSteps
<1>2. PICK L \in Nat : L = Len(cache[log])
  BY <1>1, InLoop, StorageTypes
<1>3. PICK n \in Nat : n = first_record_id(at) + L
  <2>1. first_record_id(at) \in Nat
    BY <1>1, InLoop
  <2>2. first_record_id(at) + L \in Nat
    BY <2>1
  <2>3. QED
    BY <2>2
<1>4. /\ StorageInv' /\ Calm /\ names' = names /\ cache' = cache
      /\ n <= MAX_SEQUENCE /\ checkpoint + 1 <= n /\ Secured(n)'
      /\ L <= RECORDS_PER_FILE /\ trusted_count <= L
      /\ log \in names /\ index \in names /\ Dense(at)
  BY <1>1, <1>2, <1>3, PairSecured
<1>5. DocumentInv' /\ HistoryInv' /\ checkpoint_json' = checkpoint_json
  BY <1>1, <1>4, InLoop, CalmStep DEF documents, Outside
<1>6. /\ at \in Files /\ at \in Nat /\ maximum \in Files /\ maximum \in Nat /\ at <= maximum
      /\ LogsBelow(maximum + 1) /\ active = NoFile /\ first_file_to_remove = NoFile
      /\ first_record_id(at) \in Nat /\ log = Log(at) /\ index = Index(at)
      /\ successor = "none" /\ checkpoint = checkpoint_json /\ checkpoint \in Int
      /\ RECORDS_PER_FILE \in Nat /\ RECORDS_PER_FILE > 0 /\ MAX_SEQUENCE \in Nat
      /\ recovered_end \in Int /\ recovered_end >= -1
  BY <1>1, InLoop, FilesType
<1>7. recovered_end' = n - 1
  <2>1. CASE cache[log] = << >>
    <3>1. L = 0
      BY <1>2, <2>1
    <3>2. trusted_count = 0
      BY <1>1, <1>4, <3>1, InLoop
    <3>3. recovered_end + 1 = first_record_id(at)
      BY <1>1, <3>2, InLoop
    <3>4. QED
      BY <1>1, <1>3, <1>6, <2>1, <3>1, <3>3
  <2>2. CASE cache[log] # << >>
    <3>1. recovered_end' = first_record_id(at) + L - 1
      BY <1>1, <1>2, <2>2
    <3>2. QED
      BY <1>2, <1>3, <1>6, <3>1
  <2>3. QED
    BY <2>1, <2>2
<1>8. /\ checkpoint' = checkpoint /\ maximum' = maximum
      /\ recovered_end' \in SequenceNumber \cup {NoSeq}
      /\ recovered_end' + 1 = n /\ checkpoint' <= recovered_end'
  <2>1. checkpoint' = checkpoint /\ maximum' = maximum
    BY <1>1
  <2>2. n \in Nat /\ n <= MAX_SEQUENCE /\ MAX_SEQUENCE \in Nat /\ checkpoint \in Int
    BY <1>3, <1>4, <1>6
  <2>3. n - 1 \in 0 .. MAX_SEQUENCE \cup {-1} /\ (n - 1) + 1 = n
    BY <2>2
  <2>4. checkpoint <= n - 1
    BY <1>4, <2>2
  <2>5. QED
    BY <1>7, <2>1, <2>3, <2>4 DEF SequenceNumber, NoSeq
<1>9. \A f \in Files : Log(f) \in names' => f <= maximum
  BY <1>4, <1>6, FilesType DEF LogsBelow
<1>10. Complete <=> L = RECORDS_PER_FILE
  BY <1>2 DEF Complete
<1>11. flushed' = flushed /\ flushed \in Nat /\ Held(flushed)
  BY DEF IInv, HistoryInv, Outside, history
<1>12. at + 1 \in Nat /\ first_record_id(at + 1) = first_record_id(at) + RECORDS_PER_FILE
  BY <1>6, FirstOf
<1>13. at # maximum => at + 1 \in Files /\ at + 1 <= maximum
  BY <1>6, FilesType DEF Files
<1>14. CASE Complete /\ at # maximum /\ at' = at + 1 /\ pc' = "open_log"
              /\ UNCHANGED <<active, first_file_to_remove>>
  <2>1. n = first_record_id(at + 1)
    BY <1>3, <1>10, <1>12, <1>14
  <2>2. trusted_count' = 0 /\ (checkpoint # NoSeq => from_record_id(checkpoint) <= at + 1)
    <3>1. checkpoint # NoSeq => from_record_id(checkpoint) <= at /\ from_record_id(checkpoint) \in Nat
      BY <1>1, FileOf, WorkingTypes DEF IInv, LoopInv, ReadSteps
    <3>2. CASE checkpoint = NoSeq
      BY <1>8, <3>2 DEF trusted_count
    <3>3. CASE checkpoint # NoSeq
      <4>1. from_record_id(checkpoint) # at + 1 /\ from_record_id(checkpoint) <= at + 1
        BY <1>6, <3>1, <3>3
      <4>2. QED
        BY <1>8, <1>14, <4>1 DEF trusted_count
    <3>4. QED
      BY <3>2, <3>3
  <2>3. LogsBelow(maximum + 1)'
    BY <1>4, <1>6, <1>8 DEF LogsBelow
  <2>4. Secured(first_record_id(at))'
    BY <1>4, <1>14, <2>1
  <2>5. LoopInv'
    BY <1>6, <1>8, <1>13, <1>14, <2>1, <2>2, <2>3, <2>4 DEF LoopInv
  <2>6. InitializerTypeOK' /\ AttemptInv'
    BY <1>5, <1>6, <1>8, <1>13, <1>14 DEF IInv, InitializerTypeOK, AttemptInv, Steps
  <2>7. PairInv' /\ CleanInv' /\ SettledInv' /\ RunInv'
    BY <1>6, <1>14
       DEF PairInv, CleanInv, SettledInv, RunInv, ReadSteps, CleanSteps, SettledSteps, Outside
  <2>8. QED
    BY <1>4, <1>5, <2>5, <2>6, <2>7 DEF IInv, Outside
<1>15. CASE Complete /\ at = maximum /\ pc' = "publish"
              /\ UNCHANGED <<at, active, first_file_to_remove>>
  <2>1. n = first_record_id(at + 1)
    BY <1>3, <1>10, <1>12, <1>15
  <2>2. at + 1 \in Files
    BY <1>4, <1>12, <2>1, FileInDomain
  <2>3. next_file' = at + 1 /\ top' = at + 1
    <3>1. at + 1 = IF n - 1 = NoSeq THEN 0 ELSE from_record_id(n - 1) + 1
      BY <1>3, <1>12, <2>1, NextFile
    <3>2. next_file' = at + 1
      BY <1>7, <3>1 DEF next_file
    <3>3. QED
      BY <1>6, <1>15, <3>2 DEF top
  <2>4. flushed <= n
    <3>1. Log(at + 1) \notin names
      BY <1>4, <1>6, <1>9, <1>15, <2>2
    <3>2. Holds(at + 1, CountIn(at + 1, flushed)) /\ CountIn(at + 1, flushed) \in Nat
      BY <1>11, <2>2, CountFacts DEF Held
    <3>3. CountIn(at + 1, flushed) = 0
      BY <3>1, <3>2 DEF Holds
    <3>4. QED
      BY <1>3, <1>6, <1>11, <2>1, <2>2, <3>3, CountFacts
  <2>5. InitializerTypeOK' /\ AttemptInv'
    BY <1>5, <1>6, <1>8, <1>15 DEF IInv, InitializerTypeOK, AttemptInv, Steps
  <2>6. LoopInv' /\ PairInv' /\ RunInv'
    BY <1>6, <1>15 DEF LoopInv, PairInv, RunInv, ReadSteps, Outside
  <2>7. CleanInv'
    <3>1. LogsBelow(top)'
      BY <1>4, <1>6, <1>9, <1>15, <2>3, FilesType DEF LogsBelow
    <3>2. QED
      BY <1>15, <3>1 DEF CleanInv, CleanSteps
  <2>8. SettledInv'
    BY <1>4, <1>6, <1>8, <1>11, <1>15, <2>1, <2>2, <2>3, <2>4 DEF SettledInv
  <2>9. QED
    BY <1>4, <1>5, <2>5, <2>6, <2>7, <2>8 DEF IInv, Outside
<1>16. ASSUME ~ Complete, active' = at, top' = at + 1, pc' \in {"remove_log", "publish"}
       PROVE  SettledInv'
  <2>1. L < RECORDS_PER_FILE
    BY <1>4, <1>6, <1>10, <1>16
  <2>2. flushed <= n
    <3>1. PICK c \in Nat : c = CountIn(at, flushed) /\ Holds(at, c)
      BY <1>6, <1>11, CountFacts DEF Held
    <3>2. c <= L
      BY <1>2, <1>6, <3>1 DEF Holds
    <3>3. c = IF flushed <= first_record_id(at) THEN 0
              ELSE IF flushed >= first_record_id(at) + RECORDS_PER_FILE
                     THEN RECORDS_PER_FILE
                     ELSE flushed - first_record_id(at)
      BY <1>6, <1>11, <3>1, CountFacts
    <3>4. QED
      BY <1>3, <1>6, <1>11, <2>1, <3>2, <3>3
  <2>3. Recovered(active)'
    <3>1. active' \in Files /\ {Log(active'), Index(active')} \subseteq names'
      BY <1>4, <1>6, <1>16
    <3>2. /\ first_record_id(active') + Len(cache'[Log(active')]) = recovered_end' + 1
          /\ Len(cache'[Log(active')]) < RECORDS_PER_FILE
      BY <1>2, <1>3, <1>4, <1>6, <1>8, <1>16, <2>1
    <3>3. Dense(active)'
      BY <1>4, <1>16 DEF Dense
    <3>4. QED
      BY <3>1, <3>2, <3>3 DEF Recovered
  <2>4. active' # NoFile
    BY <1>6, <1>16 DEF NoFile
  <2>5. QED
    BY <1>4, <1>8, <1>11, <1>16, <2>2, <2>3, <2>4 DEF SettledInv
<1>17. active' = at => top' = at + 1
  <2>1. at # NoFile
    BY <1>6 DEF NoFile
  <2>2. QED
    BY <2>1 DEF top
<1>18. CASE ~ Complete /\ at # maximum /\ active' = at /\ first_file_to_remove' = at + 1
              /\ at' = at + 1 /\ pc' = "remove_log"
  <2>1. SettledInv'
    BY <1>16, <1>17, <1>18
  <2>2. InitializerTypeOK' /\ AttemptInv'
    BY <1>5, <1>6, <1>8, <1>13, <1>18 DEF IInv, InitializerTypeOK, AttemptInv, Steps
  <2>3. LoopInv' /\ PairInv' /\ RunInv'
    BY <1>6, <1>18 DEF LoopInv, PairInv, RunInv, ReadSteps, Outside
  <2>4. CleanInv'
    <3>1. \A f \in Files : Log(f) \in names' => f < at + 1 \/ f \in at + 1 .. maximum
      BY <1>6, <1>9, FilesType
    <3>2. QED
      BY <1>6, <1>8, <1>13, <1>17, <1>18, <3>1 DEF CleanInv, CleanSteps, SettledSteps
  <2>5. QED
    BY <1>4, <1>5, <2>1, <2>2, <2>3, <2>4 DEF IInv, Outside
<1>19. CASE ~ Complete /\ at = maximum /\ active' = at /\ pc' = "publish"
              /\ UNCHANGED <<at, first_file_to_remove>>
  <2>1. SettledInv'
    BY <1>16, <1>17, <1>19
  <2>2. InitializerTypeOK' /\ AttemptInv'
    BY <1>5, <1>6, <1>8, <1>19 DEF IInv, InitializerTypeOK, AttemptInv, Steps
  <2>3. LoopInv' /\ PairInv' /\ RunInv'
    BY <1>6, <1>19 DEF LoopInv, PairInv, RunInv, ReadSteps, Outside
  <2>4. CleanInv'
    <3>1. LogsBelow(top)'
      BY <1>6, <1>9, <1>17, <1>19, FilesType DEF LogsBelow
    <3>2. QED
      BY <1>19, <3>1 DEF CleanInv, CleanSteps
  <2>5. QED
    BY <1>4, <1>5, <2>1, <2>2, <2>3, <2>4 DEF IInv, Outside
<1>20. QED
  BY <1>14, <1>15, <1>18, <1>19 DEF sync_index

-------------------------------------------------------------------------------
(***************************************************************************)
(* After the loop: the recovered records are known and secured.            *)
(***************************************************************************)
AfterLoop == CleanSteps \cup SettledSteps

\* The part of SettledInv that all these steps share.
SettledCore ==
  /\ recovered_end + 1 <= MAX_SEQUENCE
  /\ flushed <= recovered_end + 1
  /\ Secured(recovered_end + 1)
  /\ pc \in UnpublishedSteps => checkpoint <= recovered_end
  /\ active # NoFile => Recovered(active)
  /\ active = NoFile => next_file \in Files /\ recovered_end + 1 = first_record_id(next_file)

LEMMA InSettled ==
  ASSUME IInv, pc \in AfterLoop
  PROVE  /\ StorageInv /\ InitializerTypeOK /\ DocumentInv /\ HistoryInv /\ SettledCore
         /\ CleanInv
         /\ pc \in UnpublishedSteps => checkpoint = checkpoint_json
         /\ successor = "none" /\ faults \in 0 .. MaxFaults
         /\ recovered_end \in Int /\ recovered_end >= -1 /\ recovered_end + 1 \in Nat
         /\ checkpoint \in Int /\ checkpoint + 1 \in Nat
         /\ active # NoFile => active \in Files /\ active \in Nat
         /\ top \in Nat /\ recovered_end + 1 <= first_record_id(top)
         /\ flushed \in Nat /\ synced \in Nat /\ synced <= flushed
<1>1. /\ StorageInv /\ InitializerTypeOK /\ DocumentInv /\ HistoryInv /\ AttemptInv
      /\ SettledInv /\ RunInv /\ faults \in 0 .. MaxFaults /\ CleanInv
  BY DEF IInv
<1>2. SettledCore
  BY <1>1 DEF SettledInv, SettledCore, AfterLoop
<1>3. pc \in UnpublishedSteps => checkpoint = checkpoint_json
  BY <1>1 DEF AttemptInv
<1>4. successor = "none"
  BY <1>1 DEF RunInv, AfterLoop, CleanSteps, SettledSteps
<1>5. /\ recovered_end \in Int /\ recovered_end >= -1 /\ recovered_end + 1 \in Nat
      /\ checkpoint \in Int /\ checkpoint + 1 \in Nat
      /\ active # NoFile => active \in Files
  BY <1>1, WorkingTypes
<1>6. top \in Nat /\ recovered_end + 1 <= first_record_id(top)
  <2>1. CASE active # NoFile
    <3>1. active \in Files /\ active \in Nat /\ top = active + 1
      BY <1>5, <2>1, FilesType DEF top
    <3>2. /\ first_record_id(active) + Len(cache[Log(active)]) = recovered_end + 1
          /\ Len(cache[Log(active)]) < RECORDS_PER_FILE
      BY <1>2, <2>1 DEF SettledCore, Recovered
    <3>3. Len(cache[Log(active)]) \in Nat /\ RECORDS_PER_FILE \in Nat
      BY <1>1, <3>1, PathOf, StorageTypes, FilesType
    <3>4. first_record_id(active) \in Nat
          /\ first_record_id(active + 1) = first_record_id(active) + RECORDS_PER_FILE
      BY <3>1, FirstOf
    <3>5. QED
      BY <3>1, <3>2, <3>3, <3>4
  <2>2. CASE active = NoFile
    <3>1. top = next_file /\ next_file \in Files /\ recovered_end + 1 = first_record_id(next_file)
      BY <1>2, <2>2 DEF top, SettledCore
    <3>2. QED
      BY <1>5, <3>1, FilesType
  <2>3. QED
    BY <2>1, <2>2
<1>7. flushed \in Nat /\ synced \in Nat /\ synced <= flushed
  BY <1>1 DEF HistoryInv
<1>8. active # NoFile => active \in Nat
  BY <1>5, FilesType
<1>9. QED
  BY <1>1, <1>2, <1>3, <1>4, <1>5, <1>6, <1>7, <1>8

\* What a step among these leaves as it is.
LEMMA SettledKept ==
  ASSUME IInv, pc \in AfterLoop, pc' \in AfterLoop, Outside,
         UNCHANGED <<checkpoint, recovered_end, active>>,
         pc' \in UnpublishedSteps => pc \in UnpublishedSteps /\ checkpoint_json' = checkpoint_json,
         CalmBelow(recovered_end + 1),
         active # NoFile => /\ {Log(active), Index(active)} \subseteq names'
                            /\ cache'[Log(active)] = cache[Log(active)]
                            /\ cache'[Index(active)] = cache[Index(active)]
  PROVE  /\ SettledCore' /\ top' = top /\ next_file' = next_file
         /\ LoopInv' /\ PairInv' /\ AttemptInv' /\ RunInv'
<1>1. /\ next_file' = next_file /\ active' = active /\ recovered_end' = recovered_end
      /\ checkpoint' = checkpoint /\ flushed' = flushed
  BY DEF next_file, Outside, history
<1>2. top' = top
  BY <1>1 DEF top
<1>3. PICK n \in Nat : n = recovered_end + 1
  BY InSettled
<1>4. Secured(n)'
  BY <1>3, InSettled, BelowKept DEF SettledCore
<1>5. active # NoFile => Recovered(active)'
  <2> SUFFICES ASSUME active # NoFile PROVE Recovered(active)'
    OBVIOUS
  <2>1. Recovered(active)
    BY InSettled DEF SettledCore
  <2>2. Dense(active)'
    BY <1>1, <2>1 DEF Recovered, Dense
  <2>3. QED
    BY <1>1, <2>1, <2>2 DEF Recovered
<1>6. pc' \in UnpublishedSteps => checkpoint' <= recovered_end' /\ checkpoint' = checkpoint_json'
  BY <1>1, InSettled DEF SettledCore
<1>7. SettledCore'
  BY <1>1, <1>3, <1>4, <1>5, <1>6, InSettled DEF SettledCore
<1>8. LoopInv' /\ PairInv' /\ AttemptInv' /\ RunInv'
  BY <1>6, InSettled DEF LoopInv, PairInv, AttemptInv, RunInv, AfterLoop, ReadSteps,
                         CleanSteps, SettledSteps, Outside
<1>9. QED
  BY <1>1, <1>2, <1>7, <1>8

\* Removing a file that is not before top.
LEMMA RemoveSettled ==
  ASSUME IInv, pc \in CleanSteps, NEW p \in Paths, top <= p[2], remove_file(p),
         UNCHANGED <<contents, documents>>, UNCHANGED <<checkpoint, recovered_end, active>>,
         Outside, pc' \in CleanSteps
  PROVE  /\ StorageInv' /\ DocumentInv' /\ HistoryInv' /\ SettledCore'
         /\ top' = top /\ names' = names \ {p}
         /\ LoopInv' /\ PairInv' /\ AttemptInv' /\ RunInv'
<1>0. pc \in AfterLoop /\ pc' \in AfterLoop /\ pc \in UnpublishedSteps
  BY DEF AfterLoop, UnpublishedSteps
<1>1. /\ StorageInv' /\ names' = names \ {p} /\ cache' = cache
      /\ \A q \in Paths, c \in Nat : q # p \/ c = 0 => Undisturbed(q, c)
  BY <1>0, InSettled, RemoveStep
<1>2. PICK f \in Files : f = p[2] /\ f \in Nat /\ top <= f
  BY LeafType, FilesType
<1>3. recovered_end + 1 <= first_record_id(f) /\ first_record_id(f) \in Nat
  <2>1. /\ top \in Nat /\ recovered_end + 1 <= first_record_id(top) /\ recovered_end + 1 \in Nat
    BY <1>0, InSettled
  <2>2. first_record_id(top) \in Nat /\ first_record_id(f) \in Nat
        /\ first_record_id(top) <= first_record_id(f)
    BY <1>2, <2>1, FirstOf
  <2>3. QED
    BY <2>1, <2>2
<1>4. ASSUME NEW m \in Nat, m <= recovered_end + 1 PROVE CalmBelow(m)
  <2>1. ASSUME NEW q \in Paths PROVE Undisturbed(q, CountIn(q[2], m))
    <3>1. CountIn(q[2], m) \in Nat
      BY CountFacts, LeafType
    <3>2. CountIn(f, m) = 0
      <4>1. m <= first_record_id(f)
        BY <1>0, <1>3, <1>4, InSettled
      <4>2. QED
        BY <1>2, <4>1, CountFacts
    <3>3. QED
      BY <1>1, <1>2, <3>1, <3>2
  <2>2. QED
    BY <2>1 DEF CalmBelow
<1>5. UNCHANGED <<checkpoint_json, checkpoints>>
  BY DEF documents
<1>6. DocumentInv'
  <2>1. checkpoint_json + 1 \in Nat /\ checkpoint_json + 1 <= recovered_end + 1
    BY <1>0, InSettled DEF SettledCore
  <2>2. QED
    BY <1>0, <1>4, <1>5, <2>1, InSettled, DocumentsKept
<1>7. HistoryInv'
  <2>1. flushed <= recovered_end + 1 /\ synced <= recovered_end + 1
    BY <1>0, InSettled DEF SettledCore
  <2>2. QED
    BY <1>0, <1>4, <2>1, InSettled, HistoryKept DEF Outside
<1>8. ASSUME active # NoFile
      PROVE  /\ {Log(active), Index(active)} \subseteq names'
             /\ cache'[Log(active)] = cache[Log(active)]
             /\ cache'[Index(active)] = cache[Index(active)]
  <2>1. active \in Files /\ active \in Nat /\ top = active + 1
    BY <1>0, <1>8, InSettled DEF top
  <2>2. {Log(active), Index(active)} \subseteq names
    BY <1>0, <1>8, InSettled DEF SettledCore, Recovered
  <2>3. active # f
    BY <1>2, <2>1
  <2>4. Log(active) # p /\ Index(active) # p
    BY <1>2, <2>1, <2>3, PathOf
  <2>5. QED
    BY <1>1, <2>2, <2>4
<1>9. QED
  BY <1>0, <1>1, <1>4, <1>5, <1>6, <1>7, <1>8, InSettled, SettledKept

LEMMA DivLess ==
  ASSUME NEW f \in Nat, NEW k \in Nat \ {0}
  PROVE  f \div k \in Nat /\ f \div k <= f
<1>1. PICK q \in Nat, r \in Nat : q = f \div k /\ f = q * k + r
  BY Quotient
<1>2. PICK j \in Nat : k = j + 1
  <2>1. k - 1 \in Nat /\ k = (k - 1) + 1
    OBVIOUS
  <2>2. QED
    BY <2>1
<1>3. q * k = j * q + q /\ j * q \in Nat
  <2>1. (j + 1) * q = j * q + q /\ j * q \in Nat /\ q * (j + 1) = (j + 1) * q
    OBVIOUS
  <2>2. QED
    BY <1>2, <2>1
<1>4. QED
  BY <1>1, <1>3

LEMMA RemoveLogStep ==
  ASSUME IInv, remove_log, Outside PROVE IInv'
<1>1. /\ pc = "remove_log" /\ pc \in CleanSteps /\ pc' = "remove_index" /\ pc' \in CleanSteps
      /\ remove_file(log) /\ UNCHANGED <<working, contents, documents>>
      /\ pc \in AfterLoop
  BY DEF remove_log, CleanSteps, AfterLoop
<1>2. /\ top <= at /\ at <= maximum /\ at \in Files /\ maximum \in Files /\ top \in Files
      /\ first_file_to_remove = top /\ top <= maximum
      /\ \A f \in Files : Log(f) \in names => f < top \/ f \in at .. maximum
  BY <1>1 DEF IInv, CleanInv
<1>3. log = Log(at) /\ log \in Paths /\ log[2] = at
  BY <1>2, PathOf DEF log, Log
<1>4. UNCHANGED <<checkpoint, maximum, recovered_end, active, first_file_to_remove, at>>
  BY <1>1 DEF working
<1>5. /\ StorageInv' /\ DocumentInv' /\ HistoryInv' /\ SettledCore'
      /\ top' = top /\ names' = names \ {log}
      /\ LoopInv' /\ PairInv' /\ AttemptInv' /\ RunInv'
  BY <1>1, <1>2, <1>3, <1>4, RemoveSettled
<1>6. InitializerTypeOK'
  BY <1>1, <1>4 DEF IInv, InitializerTypeOK, Steps
<1>7. CleanInv'
  <2>1. \A f \in Files : Log(f) \in names' => f < top \/ f \in at + 1 .. maximum
    BY <1>2, <1>3, <1>5, FilesType
  <2>2. QED
    BY <1>1, <1>2, <1>4, <1>5, <2>1 DEF CleanInv, CleanSteps, SettledSteps
<1>8. SettledInv'
  BY <1>1, <1>5 DEF SettledInv, SettledCore, CleanSteps
<1>9. QED
  BY <1>5, <1>6, <1>7, <1>8 DEF IInv, Outside

LEMMA RemoveIndexStep ==
  ASSUME IInv, remove_index, Outside PROVE IInv'
<1>1. /\ pc = "remove_index" /\ pc \in CleanSteps
      /\ remove_file(index) /\ UNCHANGED <<contents, documents>>
      /\ UNCHANGED <<checkpoint, maximum, recovered_end, active, first_file_to_remove>>
      /\ pc \in AfterLoop
      /\ IF at < maximum
           THEN at' = at + 1 /\ pc' = "remove_log"
           ELSE at' = first_file_to_remove \div FILES_PER_LEAF /\ pc' = "sync_leaves"
  BY DEF remove_index, CleanSteps, AfterLoop
<1>2. /\ top <= at /\ at <= maximum /\ at \in Files /\ maximum \in Files /\ top \in Files
      /\ first_file_to_remove = top /\ top <= maximum
      /\ \A f \in Files : Log(f) \in names => f < top \/ f \in at + 1 .. maximum
      /\ at \in Nat /\ maximum \in Nat /\ top \in Nat /\ MAX_FILE \in Nat
  BY <1>1, FilesType DEF IInv, CleanInv, CleanSteps
<1>3. index = Index(at) /\ index \in Paths /\ index[2] = at
  BY <1>2, PathOf DEF index, Index
<1>4. pc' \in CleanSteps /\ pc' \in {"remove_log", "sync_leaves"}
  BY <1>1 DEF CleanSteps
<1>5. /\ StorageInv' /\ DocumentInv' /\ HistoryInv' /\ SettledCore'
      /\ top' = top /\ names' = names \ {index}
      /\ LoopInv' /\ PairInv' /\ AttemptInv' /\ RunInv'
  BY <1>1, <1>2, <1>3, <1>4, RemoveSettled
<1>6. at' \in Files
  <2>1. CASE at < maximum
    BY <1>1, <1>2, <2>1 DEF Files
  <2>2. CASE ~ (at < maximum)
    <3>1. at' = top \div FILES_PER_LEAF
      BY <1>1, <1>2, <2>2
    <3>2. at' \in Nat /\ at' <= top
      BY <1>2, <3>1, DivLess, StorageAssumption
    <3>3. QED
      BY <1>2, <3>2 DEF Files
  <2>3. QED
    BY <2>1, <2>2
<1>7. InitializerTypeOK'
  BY <1>1, <1>4, <1>6 DEF IInv, InitializerTypeOK, Steps
<1>8. CleanInv'
  <2>1. \A f \in Files : Log(f) \in names' => f < top \/ f \in at + 1 .. maximum
    BY <1>2, <1>5
  <2>2. CASE at < maximum
    <3>1. pc' = "remove_log" /\ at' = at + 1 /\ top <= at + 1 /\ at + 1 <= maximum
      BY <1>1, <1>2, <2>2
    <3>2. QED
      BY <1>1, <1>2, <1>5, <1>6, <2>1, <3>1 DEF CleanInv, CleanSteps, SettledSteps
  <2>3. CASE ~ (at < maximum)
    <3>1. pc' = "sync_leaves"
      BY <1>1, <2>3
    <3>2. LogsBelow(top)'
      BY <1>2, <1>5, <2>1, <2>3, FilesType DEF LogsBelow
    <3>3. QED
      BY <1>1, <1>2, <1>5, <1>6, <3>1, <3>2 DEF CleanInv, CleanSteps, SettledSteps
  <2>4. QED
    BY <2>2, <2>3
<1>9. SettledInv'
  BY <1>4, <1>5 DEF SettledInv, SettledCore, CleanSteps
<1>10. QED
  BY <1>5, <1>7, <1>8, <1>9 DEF IInv, Outside

LEMMA SyncLeavesStep ==
  ASSUME IInv, sync_leaves, Outside PROVE IInv'
<1>1. /\ pc = "sync_leaves" /\ pc \in CleanSteps /\ pc \in AfterLoop /\ pc \in UnpublishedSteps
      /\ sync_directory(at) /\ UNCHANGED <<names, contents, documents>>
      /\ UNCHANGED <<checkpoint, maximum, recovered_end, active, first_file_to_remove>>
      /\ IF at < maximum \div FILES_PER_LEAF
           THEN at' = at + 1 /\ pc' = pc
           ELSE at' = NoFile /\ pc' = "publish"
  BY DEF sync_leaves, CleanSteps, AfterLoop, UnpublishedSteps
<1>2. /\ at \in Files /\ maximum \in Files /\ top \in Files
      /\ first_file_to_remove = top /\ top <= maximum /\ LogsBelow(top)
      /\ at \in Nat /\ maximum \in Nat /\ MAX_FILE \in Nat
  BY <1>1, FilesType DEF IInv, CleanInv, CleanSteps
<1>3. pc' \in {"sync_leaves", "publish"} /\ pc' \in AfterLoop
  BY <1>1 DEF AfterLoop, CleanSteps, SettledSteps
<1>4. StorageInv' /\ Calm /\ names' = names /\ cache' = cache
  BY <1>1, SyncDirectoryStep, InSettled DEF Calm, contents
<1>5. DocumentInv' /\ HistoryInv' /\ checkpoint_json' = checkpoint_json
  BY <1>1, <1>4, CalmStep, InSettled DEF documents, Outside
<1>6. /\ SettledCore' /\ top' = top
      /\ LoopInv' /\ PairInv' /\ AttemptInv' /\ RunInv'
  <2>1. CalmBelow(recovered_end + 1)
    BY <1>1, <1>4, InSettled, CalmIsCalmBelow
  <2>2. active # NoFile => {Log(active), Index(active)} \subseteq names'
    BY <1>1, <1>4, InSettled DEF SettledCore, Recovered
  <2>3. QED
    BY <1>1, <1>3, <1>4, <1>5, <2>1, <2>2, SettledKept
<1>7. at' \in Files \cup {NoFile} /\ (pc' = "sync_leaves" => at' \in Files)
  <2>1. CASE at < maximum \div FILES_PER_LEAF
    <3>1. maximum \div FILES_PER_LEAF \in Nat /\ maximum \div FILES_PER_LEAF <= maximum
      BY <1>2, DivLess, StorageAssumption
    <3>2. at' = at + 1
      BY <1>1, <2>1
    <3>3. at + 1 \in Nat /\ at + 1 <= maximum
      BY <1>2, <2>1, <3>1
    <3>4. QED
      BY <1>2, <3>2, <3>3 DEF Files
  <2>2. CASE ~ (at < maximum \div FILES_PER_LEAF)
    BY <1>1, <2>2
  <2>3. QED
    BY <2>1, <2>2
<1>8. InitializerTypeOK'
  BY <1>1, <1>3, <1>7 DEF IInv, InitializerTypeOK, Steps
<1>9. CleanInv'
  <2>1. LogsBelow(top)'
    BY <1>2, <1>4, <1>6 DEF LogsBelow
  <2>2. QED
    BY <1>1, <1>2, <1>3, <1>6, <1>7, <2>1 DEF CleanInv, CleanSteps
<1>10. SettledInv'
  BY <1>3, <1>6 DEF SettledInv, SettledCore
<1>11. QED
  BY <1>4, <1>5, <1>6, <1>8, <1>9, <1>10 DEF IInv, Outside

\* A step after the cleanup that leaves the files alone.
LEMMA StillSettled ==
  ASSUME IInv, pc \in SettledSteps \ {"create_index"}, pc' \in SettledSteps \ {"create_index"},
         Outside, UNCHANGED working, UNCHANGED <<directories, contents>>,
         pc' \in UnpublishedSteps => pc \in UnpublishedSteps /\ checkpoint_json' = checkpoint_json
  PROVE  /\ Calm /\ names' = names /\ cache' = cache /\ dirs' = dirs /\ disk' = disk
         /\ stable' = stable
         /\ HistoryInv' /\ SettledCore' /\ InitializerTypeOK' /\ CleanInv'
         /\ LoopInv' /\ PairInv' /\ AttemptInv' /\ RunInv'
         /\ recovered_end' = recovered_end /\ active' = active /\ next_file' = next_file
<1>0. pc \in AfterLoop /\ pc' \in AfterLoop /\ pc' \in Steps
  BY DEF AfterLoop, SettledSteps, Steps
<1>1. names' = names /\ dirs' = dirs /\ cache' = cache /\ stable' = stable /\ disk' = disk
  BY DEF directories, contents
<1>2. Calm
  <2>1. \A q, c : (Safe(q, c) <=> Safe(q, c)') /\ (Keeps(q, c) <=> Keeps(q, c)')
    BY <1>1 DEF Safe, Keeps, Named, Valid
  <2>2. \A f, c : Holds(f, c) <=> Holds(f, c)'
    BY <1>1 DEF Holds
  <2>3. QED
    BY <2>1, <2>2 DEF Calm, Undisturbed
<1>3. HistoryInv'
  BY <1>0, <1>2, InSettled, CalmIsCalmBelow, HistoryKept DEF Outside
<1>4. UNCHANGED <<checkpoint, maximum, recovered_end, active, first_file_to_remove, at>>
  BY DEF working
<1>5. /\ SettledCore' /\ top' = top /\ next_file' = next_file
      /\ LoopInv' /\ PairInv' /\ AttemptInv' /\ RunInv'
  <2>1. CalmBelow(recovered_end + 1)
    BY <1>0, <1>2, InSettled, CalmIsCalmBelow
  <2>2. active # NoFile => {Log(active), Index(active)} \subseteq names'
    BY <1>0, <1>1, InSettled DEF SettledCore, Recovered
  <2>3. QED
    BY <1>0, <1>1, <1>4, <2>1, <2>2, SettledKept
<1>6. InitializerTypeOK'
  BY <1>0, <1>4 DEF IInv, InitializerTypeOK
<1>7. CleanInv'
  <2>1. LogsBelow(top)
    BY DEF IInv, CleanInv
  <2>2. LogsBelow(top)'
    BY <1>1, <1>5, <2>1 DEF LogsBelow
  <2>3. QED
    BY <2>2 DEF CleanInv, CleanSteps, SettledSteps
<1>8. QED
  BY <1>1, <1>2, <1>3, <1>4, <1>5, <1>6, <1>7

LEMMA AdvanceStep ==
  ASSUME IInv, advance_checkpoint, Outside PROVE IInv'
<1>1. /\ pc = "publish" /\ pc \in SettledSteps \ {"create_index"} /\ pc \in UnpublishedSteps
      /\ pc \in AfterLoop
      /\ UNCHANGED working /\ UNCHANGED <<directories, contents>>
      /\ pc' \in {"prepare", "sync_pending"} /\ pc' \in SettledSteps \ {"create_index"}
  BY DEF advance_checkpoint, SettledSteps, UnpublishedSteps, AfterLoop
<1>2. /\ UNCHANGED <<checkpoint_json, checkpoints>>
      /\ pc' = "sync_pending" =>
           /\ pending' = [end |-> recovered_end, synced |-> FALSE]
           /\ recovered_end # NoSeq
      /\ pc' # "sync_pending" => pending' = pending
  BY DEF advance_checkpoint, stage_pending, documents
<1>3. /\ Calm /\ names' = names /\ cache' = cache /\ dirs' = dirs /\ disk' = disk
      /\ stable' = stable
      /\ HistoryInv' /\ SettledCore' /\ InitializerTypeOK' /\ CleanInv'
      /\ LoopInv' /\ PairInv' /\ AttemptInv' /\ RunInv'
      /\ recovered_end' = recovered_end
  BY <1>1, <1>2, StillSettled
<1>4. recovered_end \in SequenceNumber \cup {NoSeq}
  BY DEF IInv, InitializerTypeOK
<1>5. StorageInv'
  <2>1. pending' \in [end : SequenceNumber \cup {NoSeq}, synced : BOOLEAN]
    <3>1. CASE pc' = "sync_pending"
      <4>1. pending' = [end |-> recovered_end, synced |-> FALSE]
        BY <1>2, <3>1
      <4>2. QED
        BY <1>4, <4>1, Zenon
    <3>2. CASE pc' # "sync_pending"
      BY <1>2, <3>2 DEF IInv, StorageInv, StorageTypeOK
    <3>3. QED
      BY <3>1, <3>2
  <2>2. StorageTypeOK'
    BY <1>2, <1>3, <2>1 DEF IInv, StorageInv, StorageTypeOK
  <2>3. DirsInv' /\ StableInv' /\ DomainInv'
    BY <1>3 DEF IInv, StorageInv, DirsInv, StableInv, DomainInv, InDomain
  <2>4. QED
    BY <2>2, <2>3 DEF StorageInv
<1>6. DocumentInv'
  BY <1>1, <1>2, <1>3, CalmStep, InSettled DEF Outside
<1>7. SettledInv'
  BY <1>1, <1>2, <1>3 DEF SettledInv, SettledCore
<1>8. QED
  BY <1>3, <1>5, <1>6, <1>7 DEF IInv, Outside

LEMMA WriteCheckpointStep ==
  ASSUME IInv, write_checkpoint, Outside PROVE IInv'
<1>1. /\ pc \in {"sync_pending", "rename_pending", "sync_stream_directory"}
      /\ pc \in SettledSteps \ {"create_index"} /\ pc \in AfterLoop
      /\ UNCHANGED working /\ UNCHANGED <<directories, contents>>
      /\ pc' \in {"rename_pending", "sync_stream_directory", "prepare"}
      /\ pc' \in SettledSteps \ {"create_index"}
      /\ pc' \in UnpublishedSteps => pc = "sync_pending" /\ pc' = "rename_pending"
  BY DEF write_checkpoint, SettledSteps, UnpublishedSteps, AfterLoop, ReadSteps, CleanSteps
<1>2. pc = "sync_pending" => sync_pending /\ pc' = "rename_pending"
  BY DEF write_checkpoint
<1>3. pc = "rename_pending" => rename_pending /\ pc' = "sync_stream_directory"
  BY DEF write_checkpoint
<1>4. pc = "sync_stream_directory" => sync_checkpoint_directory /\ pc' = "prepare"
  BY DEF write_checkpoint
<1>5. /\ Calm /\ names' = names /\ cache' = cache /\ dirs' = dirs /\ disk' = disk
      /\ stable' = stable
      /\ HistoryInv' /\ SettledCore' /\ InitializerTypeOK' /\ CleanInv'
      /\ LoopInv' /\ PairInv' /\ AttemptInv' /\ RunInv'
      /\ recovered_end' = recovered_end
  <2>1. pc' \in UnpublishedSteps => pc \in UnpublishedSteps /\ checkpoint_json' = checkpoint_json
    BY <1>1, <1>2 DEF UnpublishedSteps, sync_pending
  <2>2. QED
    BY <1>1, <2>1, StillSettled
<1>6. /\ StorageInv /\ StorageTypeOK /\ DocumentInv /\ HistoryInv
      /\ pending \in [end : SequenceNumber \cup {NoSeq}, synced : BOOLEAN]
      /\ checkpoint_json \in SequenceNumber \cup {NoSeq}
      /\ checkpoints \subseteq [end : SequenceNumber \cup {NoSeq}, synced : BOOLEAN]
      /\ NoDocument \in [end : SequenceNumber \cup {NoSeq}, synced : BOOLEAN]
  BY DEF IInv, StorageInv, StorageTypeOK, NoDocument
<1>7. DirsInv' /\ StableInv' /\ DomainInv'
  BY <1>5 DEF IInv, StorageInv, DirsInv, StableInv, DomainInv, InDomain
<1>8. ASSUME /\ checkpoint_json' \in SequenceNumber \cup {NoSeq}
             /\ checkpoints' \subseteq [end : SequenceNumber \cup {NoSeq}, synced : BOOLEAN]
             /\ pending' \in [end : SequenceNumber \cup {NoSeq}, synced : BOOLEAN]
      PROVE  StorageInv'
  BY <1>5, <1>6, <1>7, <1>8 DEF StorageInv, StorageTypeOK
<1>9. CASE pc = "sync_pending"
  <2>1. /\ pending' = [pending EXCEPT !.synced = TRUE]
        /\ UNCHANGED <<checkpoint_json, checkpoints>> /\ pc' = "rename_pending"
    BY <1>2, <1>9 DEF sync_pending
  <2>2. recovered_end # NoSeq /\ pending.end = recovered_end
    BY <1>9 DEF IInv, SettledInv, SettledSteps
  <2>3. pending' = [end |-> recovered_end, synced |-> TRUE]
    BY <1>6, <2>1, <2>2
  <2>4. StorageInv'
    BY <1>6, <1>8, <2>1, <2>3, <2>2
  <2>5. DocumentInv'
    BY <1>5, <1>6, <2>1, CalmStep DEF Outside
  <2>6. SettledInv'
    BY <1>5, <2>1, <2>2, <2>3 DEF SettledInv, SettledCore
  <2>7. QED
    BY <1>5, <2>4, <2>5, <2>6 DEF IInv, Outside
<1>10. CASE pc = "rename_pending"
  <2>1. /\ checkpoint_json' = pending.end /\ checkpoints' = checkpoints \cup {pending}
        /\ pending' = NoDocument /\ pc' = "sync_stream_directory"
    BY <1>3, <1>10 DEF rename_pending
  <2>2. /\ pending = [end |-> recovered_end, synced |-> TRUE] /\ recovered_end # NoSeq
    BY <1>10 DEF IInv, SettledInv, SettledSteps
  <2>3. /\ pending.end = recovered_end /\ pending.synced
    BY <2>2
  <2>4. StorageInv'
    BY <1>6, <1>8, <2>1
  <2>5. DocumentInv'
    <3>1. /\ checkpoint = checkpoint_json /\ checkpoint <= recovered_end
          /\ checkpoint \in Int /\ recovered_end \in Int
          /\ recovered_end + 1 <= MAX_SEQUENCE
      BY <1>1, <1>10, InSettled DEF SettledCore, UnpublishedSteps
    <3>2. checkpoint_json' = recovered_end
      BY <2>1, <2>3
    <3>3. Secured(recovered_end + 1)'
      BY <1>5 DEF SettledCore
    <3>4. \A doc \in checkpoints : doc.synced /\ doc.end <= checkpoint_json /\ doc.end \in Int
      BY <1>6, CheckpointType DEF DocumentInv
    <3>5. \A doc \in checkpoints' : doc.synced /\ doc.end <= recovered_end
      BY <2>1, <2>3, <3>1, <3>4
    <3>6. pending \in checkpoints'
      BY <2>1
    <3>7. recovered_end < MAX_SEQUENCE
      BY <3>1, FilesType
    <3>8. Secured(checkpoint_json + 1)'
      BY <1>5, <3>2, <3>3
    <3>9. QED
      BY <2>3, <3>2, <3>5, <3>6, <3>7, <3>8 DEF DocumentInv
  <2>6. SettledInv'
    BY <1>5, <2>1 DEF SettledInv, SettledCore
  <2>7. QED
    BY <1>5, <2>4, <2>5, <2>6 DEF IInv, Outside
<1>11. CASE pc = "sync_stream_directory"
  <2>1. /\ checkpoints' = {[end |-> checkpoint_json, synced |-> TRUE]}
        /\ UNCHANGED <<checkpoint_json, pending>> /\ pc' = "prepare"
    BY <1>4, <1>11 DEF sync_checkpoint_directory
  <2>2. StorageInv'
    BY <1>6, <1>8, <2>1
  <2>3. DocumentInv'
    <3>1. checkpoint_json < MAX_SEQUENCE /\ checkpoint_json \in Int
      BY <1>6, CheckpointType DEF DocumentInv
    <3>2. PICK n \in Nat : n = checkpoint_json + 1
      BY <1>6, CheckpointType
    <3>3. Secured(n)'
      BY <1>5, <1>6, <3>2, CalmIsCalmBelow, BelowKept DEF DocumentInv
    <3>4. Secured(checkpoint_json + 1)'
      BY <2>1, <3>2, <3>3
    <3>5. /\ \A doc \in checkpoints' : doc.synced /\ doc.end = checkpoint_json
          /\ [end |-> checkpoint_json, synced |-> TRUE] \in checkpoints'
      BY <2>1
    <3>6. /\ \A doc \in checkpoints' : doc.synced /\ doc.end <= checkpoint_json'
          /\ \E doc \in checkpoints' : doc.end = checkpoint_json'
      BY <2>1, <3>1, <3>5
    <3>7. QED
      BY <2>1, <3>1, <3>4, <3>6 DEF DocumentInv
  <2>4. SettledInv'
    BY <1>5, <2>1 DEF SettledInv, SettledCore
  <2>5. QED
    BY <1>5, <2>2, <2>3, <2>4 DEF IInv, Outside
<1>12. QED
  BY <1>1, <1>9, <1>10, <1>11

LEMMA PrepareStep ==
  ASSUME IInv, prepare_active_pair, Outside PROVE IInv'
<1>1. /\ pc = "prepare" /\ pc \in SettledSteps \ {"create_index"} /\ pc \in AfterLoop
      /\ UNCHANGED documents /\ UNCHANGED <<checkpoint_json, checkpoints>>
  BY DEF prepare_active_pair, SettledSteps, AfterLoop, documents
<1>2. CASE active # NoFile /\ pc' = "finish" /\ UNCHANGED <<working, directories, contents>>
  <2>1. UNCHANGED storage
    BY <1>1, <1>2 DEF storage
  <2>2. StorageInv' /\ DocumentInv'
    BY <1>1, <2>1, StillStorage, CalmStep, InSettled DEF Outside
  <2>3. /\ HistoryInv' /\ SettledCore' /\ InitializerTypeOK' /\ CleanInv'
        /\ LoopInv' /\ PairInv' /\ AttemptInv' /\ RunInv' /\ active' = active
    BY <1>1, <1>2, StillSettled DEF SettledSteps, UnpublishedSteps, ReadSteps, CleanSteps
  <2>4. SettledInv'
    BY <1>2, <2>3 DEF SettledInv, SettledCore
  <2>5. QED
    BY <2>2, <2>3, <2>4 DEF IInv, Outside
<1>3. CASE /\ active = NoFile /\ create(<<"log", next_file>>)
           /\ pc' = "create_index" /\ UNCHANGED working
  <2>1. PICK f \in Files : f = next_file /\ f \in Nat
    BY <1>1, <1>3, InSettled, FilesType DEF SettledCore
  <2>2. PICK p \in Paths : p = Log(f) /\ create(p) /\ p = <<"log", next_file>>
    BY <1>3, <2>1, PathOf DEF Log
  <2>3. /\ StorageInv' /\ names' = names \cup {p}
        /\ cache' = [cache EXCEPT ![p] = << >>] /\ Calm
    BY <1>1, <2>2, CreateStep, InSettled DEF Calm
  <2>4. DocumentInv' /\ HistoryInv'
    BY <1>1, <2>3, CalmStep, InSettled DEF Outside
  <2>5. UNCHANGED <<checkpoint, maximum, recovered_end, active, first_file_to_remove, at>>
    BY <1>3 DEF working
  <2>6. /\ SettledCore' /\ top' = top /\ next_file' = next_file
        /\ LoopInv' /\ PairInv' /\ AttemptInv' /\ RunInv'
    <3>1. CalmBelow(recovered_end + 1)
      BY <1>1, <2>3, InSettled, CalmIsCalmBelow
    <3>2. pc' \in AfterLoop /\ pc' \notin UnpublishedSteps
      BY <1>3 DEF AfterLoop, SettledSteps, UnpublishedSteps, ReadSteps, CleanSteps
    <3>3. QED
      BY <1>1, <1>3, <2>5, <3>1, <3>2, SettledKept
  <2>7. InitializerTypeOK'
    BY <1>3, <2>5 DEF IInv, InitializerTypeOK, Steps
  <2>8. top = f
    BY <1>3, <2>1 DEF top
  <2>9. CleanInv'
    <3>1. LogsBelow(top)
      BY <1>1 DEF IInv, CleanInv
    <3>2. LogsBelow(top + 1)'
      <4>1. ASSUME NEW g \in Files, Log(g) \in names' PROVE g < f + 1
        <5>1. Log(g) \in names \/ g = f
          <6>1. Log(g) \in names \/ Log(g) = Log(f)
            BY <2>2, <2>3, <4>1
          <6>2. QED
            BY <6>1 DEF Log
        <5>2. QED
          BY <2>1, <2>8, <3>1, <5>1, FilesType DEF LogsBelow
      <4>2. QED
        BY <2>6, <2>8, <4>1 DEF LogsBelow
    <3>3. QED
      BY <1>3, <3>2 DEF CleanInv, CleanSteps
  <2>10. SettledInv'
    <3>1. Log(next_file') \in names' /\ cache'[Log(next_file')] = << >>
      BY <2>1, <2>2, <2>3, <2>6, InSettled, <1>1 DEF StorageInv, StorageTypeOK
    <3>2. QED
      BY <1>3, <2>5, <2>6, <3>1 DEF SettledInv, SettledCore
  <2>11. QED
    BY <2>3, <2>4, <2>6, <2>7, <2>9, <2>10 DEF IInv, Outside
<1>4. CASE fail /\ UNCHANGED <<directories, contents>>
  <2>1. UNCHANGED storage
    BY <1>1, <1>4 DEF storage
  <2>2. StorageInv' /\ DocumentInv' /\ HistoryInv'
    BY <1>1, <2>1, InSettled, StillStorage, CalmStep DEF Outside
  <2>3. QED
    BY <1>1, <1>4, <2>2, FailStep, InSettled DEF Outside
<1>5. QED
  BY <1>2, <1>3, <1>4 DEF prepare_active_pair

LEMMA CreateIndexStep ==
  ASSUME IInv, create_index, Outside PROVE IInv'
<1>1. /\ pc = "create_index" /\ pc \in AfterLoop
      /\ UNCHANGED documents /\ UNCHANGED <<checkpoint_json, checkpoints>>
  BY DEF create_index, SettledSteps, AfterLoop, documents
<1>2. CASE /\ create(<<"index", next_file>>) /\ active' = next_file /\ pc' = "finish"
           /\ UNCHANGED <<checkpoint, maximum, recovered_end, first_file_to_remove, at>>
  <2>1. active = NoFile /\ Log(next_file) \in names /\ cache[Log(next_file)] = << >>
    BY <1>1 DEF IInv, SettledInv, SettledSteps
  <2>2. PICK f \in Files : f = next_file /\ f \in Nat /\ recovered_end + 1 = first_record_id(f)
    BY <1>1, <2>1, InSettled, FilesType DEF SettledCore
  <2>3. PICK p \in Paths : p = Index(f) /\ create(p)
    BY <1>2, <2>2, PathOf DEF Index
  <2>4. /\ StorageInv' /\ names' = names \cup {p}
        /\ cache' = [cache EXCEPT ![p] = << >>] /\ Calm
    BY <1>1, <2>3, CreateStep, InSettled DEF Calm
  <2>5. DocumentInv' /\ HistoryInv'
    BY <1>1, <2>4, CalmStep, InSettled DEF Outside
  <2>6. active' = f /\ active' # NoFile /\ recovered_end' = recovered_end
    BY <1>2, <2>2 DEF NoFile
  <2>7. top = f /\ top' = f + 1
    BY <2>1, <2>2, <2>6 DEF top
  <2>8. InitializerTypeOK'
    BY <1>2, <2>6 DEF IInv, InitializerTypeOK, Steps
  <2>9. AttemptInv' /\ LoopInv' /\ PairInv' /\ RunInv'
    BY <1>1, <1>2, InSettled DEF AttemptInv, LoopInv, PairInv, RunInv, Outside, ReadSteps,
                                 CleanSteps, UnpublishedSteps
  <2>10. CleanInv'
    <3>1. LogsBelow(f + 1)
      BY <1>1, <2>7 DEF IInv, CleanInv
    <3>2. LogsBelow(top)'
      <4>1. \A g \in Files : Log(g) \in names' => Log(g) \in names
        BY <2>3, <2>4, PathOf
      <4>2. QED
        BY <2>7, <3>1, <4>1 DEF LogsBelow
    <3>3. QED
      BY <1>2, <3>2 DEF CleanInv, CleanSteps
  <2>11. Recovered(active)'
    <3>1. /\ Log(f) \in Paths /\ Index(f) \in Paths /\ Log(f) # Index(f)
      BY PathOf
    <3>2. cache'[Log(f)] = << >> /\ cache'[Index(f)] = << >> /\ {Log(f), Index(f)} \subseteq names'
      BY <1>1, <2>1, <2>2, <2>3, <2>4, <3>1, InSettled DEF StorageInv, StorageTypeOK
    <3>3. Len(<< >>) = 0 /\ 0 < RECORDS_PER_FILE /\ first_record_id(f) \in Nat
      BY <2>2, FilesType, FirstOf
    <3>4. Dense(f)'
      BY <3>2, <3>3 DEF Dense
    <3>5. first_record_id(f) + 0 = recovered_end' + 1
      BY <2>2, <2>6, <3>3
    <3>6. QED
      BY <2>6, <3>2, <3>3, <3>4, <3>5 DEF Recovered
  <2>12. SettledInv'
    <3>1. PICK n \in Nat : n = recovered_end + 1
      BY <1>1, InSettled
    <3>2. Secured(n)'
      BY <1>1, <2>4, <3>1, InSettled, CalmIsCalmBelow, BelowKept DEF SettledCore
    <3>3. n <= MAX_SEQUENCE /\ flushed' <= n
      BY <1>1, <3>1, InSettled DEF SettledCore, Outside, history
    <3>4. recovered_end' + 1 = n
      BY <2>6, <3>1
    <3>5. QED
      BY <1>2, <2>6, <2>11, <3>2, <3>3, <3>4
         DEF SettledInv, UnpublishedSteps, ReadSteps, CleanSteps
  <2>13. QED
    BY <2>4, <2>5, <2>8, <2>9, <2>10, <2>12 DEF IInv, Outside
<1>3. CASE fail /\ UNCHANGED <<directories, contents>>
  <2>1. UNCHANGED storage
    BY <1>1, <1>3 DEF storage
  <2>2. StorageInv' /\ DocumentInv' /\ HistoryInv'
    BY <1>1, <2>1, InSettled, StillStorage, CalmStep DEF Outside
  <2>3. QED
    BY <1>1, <1>3, <2>2, FailStep, InSettled DEF Outside
<1>4. QED
  BY <1>2, <1>3 DEF create_index

\* The secured records are in their logs, where Stored reads them.
LEMMA SecuredHeld ==
  ASSUME StorageInv, NEW n \in Nat, Secured(n)
  PROVE  Held(n) /\ SafeLogs(n)
<1> SUFFICES ASSUME NEW f \in Files
             PROVE  Holds(f, CountIn(f, n)) /\ Safe(Log(f), CountIn(f, n))
  BY DEF Held, SafeLogs
<1>1. Log(f) \in Paths /\ Log(f)[1] = "log" /\ Log(f)[2] = f
  BY PathOf
<1>2. PICK c \in Nat : c = CountIn(f, n)
  BY CountFacts
<1>3. Keeps(Log(f), c)
  BY <1>1, <1>2 DEF Secured
<1>4. Safe(Log(f), c) /\ \A i \in 1 .. c : cache[Log(f)][i] # Torn
  BY <1>1, <1>3 DEF Keeps, Valid
<1>5. stable[Log(f)] \in Nat /\ Len(cache[Log(f)]) \in Nat /\ stable[Log(f)] <= Len(cache[Log(f)])
  BY <1>1, StorageTypes
<1>6. ASSUME c > 0 PROVE Log(f) \in names /\ c <= Len(cache[Log(f)])
  <2>1. Named(Log(f)) /\ c <= stable[Log(f)]
    BY <1>4, <1>6 DEF Safe
  <2>2. QED
    BY <1>1, <1>5, <2>1, NamedIsName
<1>7. Holds(f, c)
  BY <1>4, <1>6 DEF Holds
<1>8. QED
  BY <1>2, <1>4, <1>7

LEMMA StoredType ==
  ASSUME StorageInv, NEW n \in Nat, n <= MAX_SEQUENCE, Held(n)
  PROVE  Stored(n) \in Seq(Nat)
<1>1. ASSUME NEW i \in 1 .. n
      PROVE  cache[<<"log", from_record_id(i - 1)>>][record_count_through(i - 1)] \in Nat
  <2>1. PICK s \in Nat : s = i - 1 /\ s < n /\ i \in Nat
    <3>1. i - 1 \in Nat /\ i - 1 < n /\ i \in Nat
      OBVIOUS
    <3>2. QED
      BY <3>1
  <2>2. PICK f \in Nat : f = from_record_id(s)
    BY FileOf
  <2>3. PICK k \in Nat : /\ k = record_count_through(s) /\ k = s - first_record_id(f) + 1 /\ k > 0
                         /\ first_record_id(f) <= s /\ first_record_id(f) \in Nat
                         /\ s < first_record_id(f) + RECORDS_PER_FILE
    <3>1. /\ first_record_id(f) <= s /\ first_record_id(f) \in Nat
          /\ s < first_record_id(f) + RECORDS_PER_FILE
          /\ record_count_through(s) = s - first_record_id(f) + 1
      BY <2>2, FileOf, FirstOf
    <3>2. s - first_record_id(f) + 1 \in Nat /\ s - first_record_id(f) + 1 > 0
      BY <3>1
    <3>3. QED
      BY <3>1, <3>2
  <2>4. f \in Files
    <3>1. first_record_id(f) <= MAX_SEQUENCE
      BY <2>1, <2>3, FilesType
    <3>2. QED
      BY <3>1, FileInDomain
  <2>5. PICK c \in Nat : /\ c = CountIn(f, n)
                         /\ c = IF n <= first_record_id(f) THEN 0
                                ELSE IF n >= first_record_id(f) + RECORDS_PER_FILE
                                       THEN RECORDS_PER_FILE
                                       ELSE n - first_record_id(f)
    BY <2>4, CountFacts
  <2>6. k <= c /\ c > 0
    BY <2>1, <2>3, <2>5, FilesType
  <2>7. c <= Len(cache[Log(f)])
    BY <2>4, <2>5, <2>6 DEF Held, Holds
  <2>8. cache[Log(f)] \in Seq(Nat) /\ Len(cache[Log(f)]) \in Nat
    BY <2>4, PathOf, StorageTypes
  <2>9. k \in 1 .. Len(cache[Log(f)])
    BY <2>3, <2>6, <2>7, <2>8
  <2>10. cache[Log(f)][k] \in Nat
    BY <2>8, <2>9
  <2>11. QED
    BY <2>1, <2>2, <2>3, <2>10 DEF Log
<1>2. QED
  BY <1>1 DEF Stored

LEMMA FinishStep ==
  ASSUME IInv, finish, epoch' = epoch + 1, truth' = Stored(recovered_count),
         flushed' = recovered_count, synced' = recovered_count, UNCHANGED <<successor, faults>>
  PROVE  IInv'
<1>1. /\ pc = "finish" /\ pc \in AfterLoop /\ pc' = "run"
      /\ checkpoint' = NoSeq /\ maximum' = NoFile /\ recovered_end' = NoSeq
      /\ first_file_to_remove' = NoFile /\ at' = NoFile /\ active' = active /\ UNCHANGED storage
  BY DEF finish, AfterLoop, SettledSteps
<1>2. /\ StorageInv' /\ names' = names /\ cache' = cache /\ Calm
      /\ UNCHANGED <<checkpoint_json, checkpoints>>
  BY <1>1, InSettled, StillStorage
<1>3. DocumentInv'
  BY <1>1, <1>2, InSettled, CheckpointType, CalmIsCalmBelow, DocumentsKept
<1>4. PICK n \in Nat : n = recovered_count /\ n = recovered_end + 1
  BY <1>1, InSettled DEF recovered_count
<1>5. n <= MAX_SEQUENCE /\ Secured(n) /\ StorageInv
  BY <1>1, <1>4, InSettled DEF SettledCore
<1>6. Held(n) /\ SafeLogs(n)
  BY <1>5, SecuredHeld
<1>7. HistoryInv'
  <2>1. Held(n)' /\ SafeLogs(n)'
    BY <1>2, <1>6, CalmIsCalmBelow, BelowKept
  <2>2. truth' \in Seq(Nat)
    BY <1>4, <1>5, <1>6, StoredType
  <2>3. epoch' \in Nat
    BY DEF IInv, HistoryInv
  <2>4. QED
    BY <1>4, <2>1, <2>2, <2>3 DEF HistoryInv
<1>8. PICK f \in Files : f = active
  BY <1>1, InSettled DEF IInv, SettledInv, SettledSteps
<1>9. Recovered(f) /\ active # NoFile
  BY <1>1, <1>8 DEF IInv, SettledInv, SettledSteps
<1>10. PICK L \in Nat : /\ L = Len(cache[Log(f)]) /\ L < RECORDS_PER_FILE
                        /\ first_record_id(f) + L = n
                        /\ cache[Index(f)] = [i \in 1 .. L |-> i]
  <2>1. Len(cache[Log(f)]) \in Nat
    BY <1>5, PathOf, StorageTypes
  <2>2. QED
    BY <1>4, <1>9, <2>1 DEF Recovered, Dense
<1>11. Len(cache[Index(f)]) = L
  BY <1>10
<1>12. \A i \in 1 .. L : cache[Log(f)][i] # Torn
  <2>1. CountIn(f, n) = L
    <3>1. /\ first_record_id(f) \in Nat
          /\ CountIn(f, n) = IF n <= first_record_id(f) THEN 0
                             ELSE IF n >= first_record_id(f) + RECORDS_PER_FILE
                                    THEN RECORDS_PER_FILE
                                    ELSE n - first_record_id(f)
      BY CountFacts
    <3>2. QED
      BY <1>10, <3>1, FilesType
  <2>2. Holds(f, L)
    BY <1>6, <2>1 DEF Held
  <2>3. CASE L > 0
    BY <2>2, <2>3 DEF Holds
  <2>4. CASE L = 0
    BY <2>4
  <2>5. QED
    BY <1>10, <2>3, <2>4
<1>13. InitializerTypeOK'
  BY <1>1, <1>8 DEF InitializerTypeOK
<1>14. AttemptInv' /\ LoopInv' /\ PairInv' /\ CleanInv' /\ SettledInv'
  BY <1>1 DEF AttemptInv, LoopInv, PairInv, CleanInv, SettledInv, UnpublishedSteps, ReadSteps,
              CleanSteps, SettledSteps
<1>15. RunInv'
  <2>1. active_log' = Log(f) /\ active_index' = Index(f)
    BY <1>1, <1>8 DEF active_log, active_index, Log, Index
  <2>2. {Log(f), Index(f)} \subseteq names' /\ active' = f
    BY <1>1, <1>2, <1>8, <1>9 DEF Recovered
  <2>3. cache'[Log(f)] = cache[Log(f)] /\ cache'[Index(f)] = cache[Index(f)]
    BY <1>2
  <2>4. flushed' = first_record_id(f) + L
    BY <1>4, <1>10
  <2>5. epoch' > 0
    BY DEF IInv, HistoryInv
  <2>6. successor' = "none"
    BY <1>1, InSettled
  <2>7. L <= RECORDS_PER_FILE
    BY <1>10, FilesType
  <2>8. RepairedInv'
    <3>1. SUFFICES ASSUME Repaired' PROVE Secured(first_record_id(f) + 1)'
      BY <2>2 DEF RepairedInv
    <3>2. L > 0
      <4>1. cache[Log(f)] # << >> /\ cache[Log(f)] \in Seq(Nat)
        BY <1>5, <2>1, <2>3, <3>1, PathOf, StorageTypes DEF Repaired
      <4>2. QED
        BY <1>10, <4>1
    <3>3. PICK m \in Nat : m = first_record_id(f) + 1 /\ m <= n
      <4>1. PICK a \in Nat : a = first_record_id(f)
        BY FirstOf, FilesType
      <4>2. a + L = n /\ a + 1 \in Nat
        BY <1>10, <4>1
      <4>3. QED
        BY <3>2, <4>1, <4>2
    <3>4. Secured(m)
      BY <1>5, <3>3, SecuredMonotone
    <3>5. Secured(m)'
      BY <1>2, <3>4, CalmIsCalmBelow, BelowKept
    <3>6. QED
      BY <3>3, <3>5
  <2>9. QED
    BY <1>1, <1>10, <1>11, <1>12, <2>1, <2>2, <2>3, <2>4, <2>5, <2>6, <2>7, <2>8 DEF RunInv
<1>16. QED
  BY <1>2, <1>3, <1>7, <1>13, <1>14, <1>15 DEF IInv

-------------------------------------------------------------------------------
(***************************************************************************)
(* The owner.                                                              *)
(***************************************************************************)
LEMMA InRun ==
  ASSUME IInv, pc = "run"
  PROVE  /\ StorageInv /\ InitializerTypeOK /\ DocumentInv /\ HistoryInv
         /\ faults \in 0 .. MaxFaults
         /\ active \in Files /\ active \in Nat /\ first_record_id(active) \in Nat
         /\ active_log = Log(active) /\ active_index = Index(active)
         /\ active_log \in Paths /\ active_index \in Paths /\ active_log # active_index
         /\ active_log[1] = "log" /\ active_log[2] = active /\ active_index[1] = "index"
         /\ {active_log, active_index} \subseteq names
         /\ Len(cache[active_index]) \in Nat /\ Len(cache[active_log]) \in Nat
         /\ Len(cache[active_index]) <= Len(cache[active_log])
         /\ Len(cache[active_log]) <= RECORDS_PER_FILE
         /\ \A i \in 1 .. Len(cache[active_log]) : cache[active_log][i] # Torn
         /\ flushed = first_record_id(active) + Len(cache[active_index])
         /\ flushed \in Nat /\ synced \in Nat /\ synced <= flushed
         /\ epoch \in Nat /\ epoch > 0
<1>1. /\ StorageInv /\ InitializerTypeOK /\ DocumentInv /\ HistoryInv /\ RunInv
      /\ faults \in 0 .. MaxFaults
  BY DEF IInv
<1>2. /\ active \in Files
      /\ {active_log, active_index} \subseteq names
      /\ Len(cache[active_index]) <= Len(cache[active_log])
      /\ Len(cache[active_log]) <= RECORDS_PER_FILE
      /\ \A i \in 1 .. Len(cache[active_log]) : cache[active_log][i] # Torn
      /\ flushed = first_record_id(active) + Len(cache[active_index])
      /\ epoch > 0
  BY <1>1 DEF RunInv
<1>3. active \in Nat /\ first_record_id(active) \in Nat
  BY <1>2, FilesType, FirstOf
<1>4. active_log = Log(active) /\ active_index = Index(active)
  BY DEF active_log, active_index, Log, Index
<1>5. /\ active_log \in Paths /\ active_index \in Paths /\ active_log # active_index
      /\ active_log[1] = "log" /\ active_log[2] = active /\ active_index[1] = "index"
  BY <1>2, <1>4, PathOf
<1>6. Len(cache[active_index]) \in Nat /\ Len(cache[active_log]) \in Nat
  BY <1>1, <1>5, StorageTypes
<1>7. flushed \in Nat /\ synced \in Nat /\ synced <= flushed /\ epoch \in Nat
  BY <1>1 DEF HistoryInv
<1>8. QED
  BY <1>1, <1>2, <1>3, <1>4, <1>5, <1>6, <1>7

\* A step of the owner that keeps its part of the invariant.
LEMMA RunKept ==
  ASSUME IInv, pc = "run", pc' = "run", Calm, StorageInv', RunInv', InitializerTypeOK',
         UNCHANGED <<checkpoint_json, checkpoints, faults>>,
         successor' \in {"none", "log", "pair"},
         HistoryInv'
  PROVE  IInv'
<1>1. DocumentInv'
  BY InRun, CheckpointType, CalmIsCalmBelow, DocumentsKept
<1>2. AttemptInv' /\ LoopInv' /\ PairInv' /\ CleanInv' /\ SettledInv'
  BY DEF AttemptInv, LoopInv, PairInv, CleanInv, SettledInv, UnpublishedSteps, ReadSteps,
         CleanSteps, SettledSteps
<1>3. QED
  BY <1>1, <1>2, InRun DEF IInv

\* The records of the file f, appended to those before it.
LEMMA HeldExtends ==
  ASSUME StorageInv, NEW f \in Files, NEW m \in Nat, NEW n \in Nat,
         first_record_id(f) <= m, Held(m),
         first_record_id(f) <= n, n <= first_record_id(f) + Len(cache[Log(f)]),
         Len(cache[Log(f)]) <= RECORDS_PER_FILE, Log(f) \in names,
         \A i \in 1 .. Len(cache[Log(f)]) : cache[Log(f)][i] # Torn
  PROVE  Held(n)
<1> SUFFICES ASSUME NEW g \in Files PROVE Holds(g, CountIn(g, n))
  BY DEF Held
<1>1. /\ f \in Nat /\ g \in Nat /\ first_record_id(f) \in Nat /\ first_record_id(g) \in Nat
      /\ RECORDS_PER_FILE \in Nat /\ RECORDS_PER_FILE > 0
  BY FilesType, FirstOf
<1>2. \A k \in Nat : CountIn(g, k) = IF k <= first_record_id(g) THEN 0
                                     ELSE IF k >= first_record_id(g) + RECORDS_PER_FILE
                                            THEN RECORDS_PER_FILE
                                            ELSE k - first_record_id(g)
  BY CountFacts
<1>3. PICK L \in Nat : L = Len(cache[Log(f)])
  BY PathOf, StorageTypes
<1>4. CASE g < f
  <2>1. first_record_id(g) + RECORDS_PER_FILE <= first_record_id(f)
    BY <1>1, <1>4, FirstOf
  <2>2. /\ m >= first_record_id(g) + RECORDS_PER_FILE /\ n >= first_record_id(g) + RECORDS_PER_FILE
    BY <1>1, <2>1
  <2>3. \A k \in Nat : k >= first_record_id(g) + RECORDS_PER_FILE =>
          CountIn(g, k) = RECORDS_PER_FILE
    BY <1>1, <1>2
  <2>4. CountIn(g, m) = CountIn(g, n)
    BY <2>2, <2>3
  <2>5. QED
    BY <2>4 DEF Held
<1>5. CASE g > f
  <2>1. first_record_id(f) + RECORDS_PER_FILE <= first_record_id(g)
    BY <1>1, <1>5, FirstOf
  <2>2. n <= first_record_id(g)
    BY <1>1, <1>3, <2>1
  <2>3. CountIn(g, n) = 0
    BY <1>2, <2>2
  <2>4. QED
    BY <2>3 DEF Holds
<1>6. CASE g = f
  <2>1. PICK c \in Nat : c = CountIn(f, n) /\ c <= L
    <3>1. CountIn(f, n) = IF n <= first_record_id(f) THEN 0
                          ELSE IF n >= first_record_id(f) + RECORDS_PER_FILE
                                 THEN RECORDS_PER_FILE
                                 ELSE n - first_record_id(f)
      BY <1>2, <1>6
    <3>2. CountIn(f, n) \in Nat /\ CountIn(f, n) <= L
      BY <1>1, <1>3, <3>1
    <3>3. QED
      BY <3>2
  <2>2. \A i \in 1 .. c : cache[Log(f)][i] # Torn
    BY <1>3, <2>1
  <2>3. QED
    BY <1>3, <1>6, <2>1, <2>2 DEF Holds
<1>7. QED
  BY <1>1, <1>4, <1>5, <1>6

\* What is secured stays so, and no step of the owner makes a record older.
LEMMA RepairedKept ==
  ASSUME IInv, pc = "run", active' = active, Calm, Repaired' => Repaired
  PROVE  RepairedInv'
<1>1. PICK n \in Nat : n = first_record_id(active) + 1
  BY InRun
<1>2. Repaired => Secured(n)
  BY <1>1, Zenon DEF IInv, RunInv, RepairedInv
<1>3. Secured(n) => Secured(n)'
  BY CalmIsCalmBelow, BelowKept
<1>4. n = first_record_id(active') + 1
  BY <1>1
<1>5. QED
  BY <1>2, <1>3, <1>4, Zenon DEF RepairedInv

\* The prepared successor, while only files of the active pair change.
Prepared ==
  /\ successor # "none" => /\ active < MAX_FILE
                           /\ Log(active + 1) \in names
                           /\ cache[Log(active + 1)] = << >>
  /\ successor = "pair" => Index(active + 1) \in names
                           /\ cache[Index(active + 1)] = << >>

LEMMA PreparedKept ==
  ASSUME IInv, pc = "run", active' = active, successor' = successor, names' = names,
         \A q \in Paths : q[2] # active => cache'[q] = cache[q]
  PROVE  Prepared'
<1>1. Prepared
  BY DEF IInv, RunInv, Prepared
<1>2. CASE successor = "none"
  BY <1>2 DEF Prepared
<1>3. CASE successor # "none"
  <2>1. active < MAX_FILE /\ active \in Nat /\ MAX_FILE \in Nat
    BY <1>1, <1>3, InRun, FilesType DEF Prepared
  <2>2. active + 1 \in Files /\ active + 1 # active
    BY <2>1 DEF Files
  <2>3. Log(active + 1) \in Paths /\ Index(active + 1) \in Paths
        /\ Log(active + 1)[2] = active + 1 /\ Index(active + 1)[2] = active + 1
    BY <2>2, PathOf
  <2>4. cache'[Log(active + 1)] = cache[Log(active + 1)]
        /\ cache'[Index(active + 1)] = cache[Index(active + 1)]
    BY <2>2, <2>3
  <2>5. QED
    BY <1>1, <2>4 DEF Prepared
<1>4. QED
  BY <1>2, <1>3

LEMMA AppendLogStep ==
  ASSUME IInv, append_log PROVE IInv'
<1>1. /\ pc = "run" /\ pc' = "run" /\ Len(cache[active_log]) < RECORDS_PER_FILE
      /\ first_record_id(active) + Len(cache[active_log]) < MAX_SEQUENCE
      /\ write(active_log, <<epoch>>)
      /\ truth' = Append(truth, epoch)
      /\ UNCHANGED <<directories, documents>> /\ UNCHANGED working /\ UNCHANGED successor
      /\ UNCHANGED <<epoch, flushed, synced>> /\ UNCHANGED <<checkpoint_json, checkpoints, faults>>
  BY DEF append_log, appended, documents
<1>2. PICK p \in Paths, q \in Paths :
        p = active_log /\ q = active_index /\ p # q /\ p[1] = "log" /\ p[2] = active
  BY <1>1, InRun
<1>3. PICK e \in Nat : e = epoch /\ e > 0
  BY <1>1, InRun
<1>4. <<e>> \in Seq(Nat) /\ Len(<<e>>) = 1 /\ <<e>>[1] = e
  BY <1>3
<1>5. cache[p] \in Seq(Nat) /\ cache[q] \in Seq(Nat) /\ Len(cache[p]) \in Nat
  BY <1>1, <1>2, InRun, StorageTypes
<1>6. /\ StorageInv' /\ names' = names /\ dirs' = dirs /\ stable' = stable /\ Calm
      /\ cache' = [cache EXCEPT ![p] = cache[p] \o <<e>>]
  <2>1. StorageInv /\ write(p, <<e>>)
    BY <1>1, <1>2, <1>3, InRun
  <2>2. \A i \in 1 .. Len(<<e>>) :
          first_record_id(p[2]) + Len(cache[p]) + i > MAX_SEQUENCE => <<e>>[i] = Torn
    <3>1. ~ (first_record_id(active) + Len(cache[p]) + 1 > MAX_SEQUENCE)
      BY <1>1, <1>2, <1>5, InRun, FilesType
    <3>2. QED
      BY <1>2, <1>4, <3>1
  <2>3. QED
    BY <1>1, <1>4, <2>1, <2>2, WriteStep DEF Calm
<1>7. HistoryInv'
  <2>1. Held(flushed)' /\ SafeLogs(synced)'
    BY <1>1, <1>6, InRun, CalmIsCalmBelow, BelowKept DEF HistoryInv
  <2>2. truth' \in Seq(Nat)
    BY <1>1, InRun DEF HistoryInv
  <2>3. QED
    BY <1>1, <2>1, <2>2, InRun DEF HistoryInv
<1>8. InitializerTypeOK' /\ active' = active /\ active_log' = p /\ active_index' = q
  BY <1>1, <1>2 DEF IInv, InitializerTypeOK, working, active_log, active_index
<1>9. PICK c \in Seq(Nat) : /\ c = cache'[p] /\ Len(c) = Len(cache[p]) + 1
                            /\ \A i \in 1 .. Len(cache[p]) : c[i] = cache[p][i]
                            /\ c[Len(cache[p]) + 1] = e
  <2>1. PICK u \in Seq(Nat) : u = cache[p]
    BY <1>5
  <2>2. u \o <<e>> \in Seq(Nat) /\ Len(u \o <<e>>) = Len(u) + 1
        /\ (\A i \in 1 .. Len(u) : (u \o <<e>>)[i] = u[i])
        /\ (u \o <<e>>)[Len(u) + 1] = e
    BY <1>4, <2>1, Concat
  <2>3. cache'[p] = u \o <<e>>
    BY <1>1, <1>6, <2>1, InRun DEF StorageInv, StorageTypeOK
  <2>4. QED
    BY <2>1, <2>2, <2>3
<1>10. cache'[q] = cache[q]
  BY <1>1, <1>2, <1>6, InRun DEF StorageInv, StorageTypeOK
<1>11. \A i \in 1 .. Len(cache'[p]) : cache'[p][i] # Torn
  <2>1. \A i \in 1 .. Len(cache[p]) : cache[p][i] # Torn
    BY <1>1, <1>2, InRun
  <2>2. e # Torn
    BY <1>3 DEF Torn
  <2>3. \A i \in 1 .. Len(cache[p]) + 1 : i \in 1 .. Len(cache[p]) \/ i = Len(cache[p]) + 1
    BY <1>5
  <2>4. QED
    BY <1>9, <2>1, <2>2, <2>3
<1>12. Len(cache'[q]) <= Len(cache'[p]) /\ Len(cache'[p]) <= RECORDS_PER_FILE
  <2>1. Len(cache'[p]) = Len(cache[p]) + 1
    BY <1>9
  <2>2. /\ Len(cache[q]) \in Nat /\ Len(cache[p]) \in Nat /\ Len(cache[q]) <= Len(cache[p])
        /\ Len(cache[p]) < RECORDS_PER_FILE /\ RECORDS_PER_FILE \in Nat
    BY <1>1, <1>2, InRun, FilesType
  <2>3. QED
    BY <1>10, <2>1, <2>2
<1>13. Prepared'
  <2>1. \A o \in Paths : o[2] # active => cache'[o] = cache[o]
    BY <1>1, <1>2, <1>6, InRun DEF StorageInv, StorageTypeOK
  <2>2. QED
    BY <1>1, <1>6, <1>8, <2>1, PreparedKept
<1>14. RunInv'
  <2>1. /\ flushed' = first_record_id(active') + Len(cache'[q])
        /\ active' \in Files /\ {p, q} \subseteq names' /\ epoch' > 0
    BY <1>1, <1>2, <1>6, <1>8, <1>10, InRun
  <2>2. Repaired' => Repaired
    <3>1. Repaired' <=> c # << >> /\ c[1] < e
      BY <1>1, <1>3, <1>8, <1>9 DEF Repaired
    <3>2. Repaired <=> cache[p] # << >> /\ cache[p][1] < e
      BY <1>2, <1>3 DEF Repaired
    <3>3. CASE Len(cache[p]) = 0
      BY <1>3, <1>9, <3>1, <3>3
    <3>4. CASE Len(cache[p]) > 0
      <4>1. c[1] = cache[p][1] /\ cache[p] # << >>
        BY <1>5, <1>9, <3>4
      <4>2. QED
        BY <3>1, <3>2, <4>1
    <3>5. QED
      BY <1>5, <3>3, <3>4
  <2>3. RepairedInv'
    BY <1>1, <1>6, <1>8, <2>2, RepairedKept
  <2>4. QED
    BY <1>1, <1>8, <1>11, <1>12, <1>13, <2>1, <2>3 DEF RunInv, Prepared
<1>15. QED
  BY <1>1, <1>6, <1>7, <1>8, <1>14, RunKept DEF IInv

LEMMA AppendIndexStep ==
  ASSUME IInv, append_index PROVE IInv'
<1>1. /\ pc = "run" /\ pc' = "run" /\ Len(cache[active_index]) < Len(cache[active_log])
      /\ write(active_index, <<Len(cache[active_index]) + 1>>)
      /\ flushed' = first_record_id(active) + Len(cache[active_index]) + 1
      /\ UNCHANGED <<directories, documents>> /\ UNCHANGED working /\ UNCHANGED successor
      /\ UNCHANGED <<epoch, truth, synced>> /\ UNCHANGED <<checkpoint_json, checkpoints, faults>>
  BY DEF append_index, documents
<1>2. PICK p \in Paths, q \in Paths :
        /\ p = active_log /\ q = active_index /\ p # q /\ q[1] = "index" /\ q[2] = active
        /\ p = Log(active)
  BY <1>1, InRun, PathOf
<1>3. PICK k \in Nat, L \in Nat : k = Len(cache[q]) /\ L = Len(cache[p]) /\ k < L
  BY <1>1, <1>2, InRun
<1>4. <<k + 1>> \in Seq(Nat) /\ Len(<<k + 1>>) = 1 /\ cache[q] \in Seq(Nat)
  <2>1. k + 1 \in Nat
    OBVIOUS
  <2>2. <<k + 1>> \in Seq(Nat) /\ Len(<<k + 1>>) = 1
    BY <2>1
  <2>3. StorageInv
    BY <1>1, InRun
  <2>4. cache[q] \in Seq(Nat)
    BY <2>3, StorageTypes
  <2>5. QED
    BY <2>2, <2>4
<1>5. /\ StorageInv' /\ names' = names /\ dirs' = dirs /\ stable' = stable /\ Calm
      /\ cache' = [cache EXCEPT ![q] = cache[q] \o <<k + 1>>]
  <2>1. StorageInv /\ write(q, <<k + 1>>) /\ q[1] # "log"
    BY <1>1, <1>2, <1>3, InRun
  <2>2. QED
    BY <1>1, <1>4, <2>1, WriteStep DEF Calm
<1>6. /\ cache'[p] = cache[p] /\ cache'[q] = cache[q] \o <<k + 1>>
      /\ \A o \in Paths : o[2] # active => cache'[o] = cache[o]
  BY <1>1, <1>2, <1>5, InRun DEF StorageInv, StorageTypeOK
<1>7. Len(cache'[q]) = k + 1
  BY <1>3, <1>4, <1>6, Concat
<1>8. InitializerTypeOK' /\ active' = active /\ active_log' = p /\ active_index' = q
  BY <1>1, <1>2 DEF IInv, InitializerTypeOK, working, active_log, active_index
<1>9. PICK n \in Nat : n = flushed' /\ n = first_record_id(active) + k + 1 /\ n = flushed + 1
  <2>1. /\ first_record_id(active) \in Nat
        /\ flushed = first_record_id(active) + Len(cache[active_index])
    BY <1>1, InRun
  <2>2. Len(cache[active_index]) = k
    BY <1>2, <1>3
  <2>3. PICK a \in Nat : a = first_record_id(active)
    BY <2>1
  <2>4. flushed' = a + k + 1 /\ flushed = a + k /\ a + k + 1 \in Nat
    BY <1>1, <2>1, <2>2, <2>3
  <2>5. QED
    BY <2>3, <2>4
<1>10. Held(n)
  <2>1. /\ active \in Files /\ first_record_id(active) <= flushed /\ Held(flushed) /\ flushed \in Nat
        /\ first_record_id(active) <= n /\ n <= first_record_id(active) + Len(cache[Log(active)])
    <3>1. /\ active \in Files /\ first_record_id(active) \in Nat /\ Held(flushed) /\ flushed \in Nat
      BY <1>1, InRun DEF HistoryInv
    <3>2. L = Len(cache[Log(active)]) /\ flushed + 1 = first_record_id(active) + k + 1
      BY <1>2, <1>3, <1>9
    <3>3. QED
      BY <1>3, <1>9, <3>1, <3>2
  <2>2. QED
    BY <1>1, <1>2, <2>1, InRun, HeldExtends
<1>11. HistoryInv'
  <2>1. Held(n)' /\ SafeLogs(synced)'
    BY <1>1, <1>5, <1>10, InRun, CalmIsCalmBelow, BelowKept DEF HistoryInv
  <2>2. synced' <= n
    BY <1>1, <1>9, InRun
  <2>3. QED
    BY <1>1, <1>9, <2>1, <2>2, InRun DEF HistoryInv
<1>12. Prepared'
  BY <1>1, <1>5, <1>6, <1>8, PreparedKept
<1>13. RunInv'
  <2>1. /\ flushed' = first_record_id(active') + Len(cache'[q])
        /\ active' \in Files /\ {p, q} \subseteq names' /\ epoch' > 0
    <3>1. /\ active \in Files /\ {active_log, active_index} \subseteq names /\ epoch > 0
          /\ first_record_id(active) \in Nat
      BY <1>1, InRun
    <3>2. PICK a \in Nat : a = first_record_id(active)
      BY <3>1
    <3>3. flushed' = a + (k + 1)
      BY <1>9, <3>2
    <3>4. flushed' = first_record_id(active') + Len(cache'[q])
      BY <1>7, <1>8, <3>2, <3>3
    <3>5. QED
      BY <1>1, <1>2, <1>5, <1>8, <3>1, <3>4
  <2>2. Len(cache'[q]) <= Len(cache'[p]) /\ Len(cache'[p]) <= RECORDS_PER_FILE
    <3>1. Len(cache'[p]) = L /\ Len(cache'[q]) = k + 1 /\ k + 1 <= L
      BY <1>3, <1>6, <1>7
    <3>2. L <= RECORDS_PER_FILE
      BY <1>1, <1>2, <1>3, InRun
    <3>3. QED
      BY <3>1, <3>2
  <2>3. \A i \in 1 .. Len(cache'[p]) : cache'[p][i] # Torn
    BY <1>1, <1>2, <1>6, InRun
  <2>4. RepairedInv'
    <3>1. Repaired' => Repaired
      BY <1>1, <1>2, <1>6, <1>8 DEF Repaired
    <3>2. QED
      BY <1>1, <1>5, <1>8, <3>1, RepairedKept
  <2>5. QED
    BY <1>1, <1>8, <1>12, <2>1, <2>2, <2>3, <2>4 DEF RunInv, Prepared
<1>14. QED
  BY <1>1, <1>5, <1>8, <1>11, <1>13, RunKept DEF IInv

\* Synchronising a file of the active pair.
LEMMA OwnerSyncKept ==
  ASSUME IInv, pc = "run", pc' = "run", NEW p \in {active_log, active_index}, sync_data(p),
         UNCHANGED <<directories, documents>>, UNCHANGED working,
         UNCHANGED <<successor, faults, epoch, flushed>>
  PROVE  /\ Calm /\ StorageInv' /\ RunInv' /\ InitializerTypeOK'
         /\ UNCHANGED <<checkpoint_json, checkpoints, faults>>
         /\ successor' \in {"none", "log", "pair"}
<1>1. StorageInv' /\ Calm /\ names' = names /\ cache' = cache
  BY InRun, SyncDataStep DEF Calm
<1>2. InitializerTypeOK' /\ active' = active /\ active_log' = active_log /\ active_index' = active_index
  BY DEF IInv, InitializerTypeOK, working, active_log, active_index
<1>3. Prepared'
  BY <1>1, <1>2, PreparedKept
<1>4. RepairedInv'
  <2>1. Repaired' => Repaired
    BY <1>1, <1>2 DEF Repaired
  <2>2. QED
    BY <1>1, <1>2, <2>1, RepairedKept
<1>5. RunInv'
  BY <1>1, <1>2, <1>3, <1>4, InRun DEF RunInv, Prepared
<1>6. QED
  BY <1>1, <1>2, <1>5 DEF IInv, documents

LEMMA OwnerSyncLogStep ==
  ASSUME IInv, owner_sync_log PROVE IInv'
<1>1. /\ pc = "run" /\ pc' = "run" /\ sync_data(active_log)
      /\ UNCHANGED <<directories, documents>> /\ UNCHANGED working
      /\ UNCHANGED <<successor, faults, epoch, flushed>> /\ UNCHANGED history
  BY DEF owner_sync_log, history
<1>2. /\ Calm /\ StorageInv' /\ RunInv' /\ InitializerTypeOK'
      /\ UNCHANGED <<checkpoint_json, checkpoints, faults>>
      /\ successor' \in {"none", "log", "pair"}
  BY <1>1, OwnerSyncKept
<1>3. HistoryInv'
  BY <1>1, <1>2, InRun, CalmStep
<1>4. QED
  BY <1>1, <1>2, <1>3, RunKept

LEMMA OwnerSyncIndexStep ==
  ASSUME IInv, owner_sync_index PROVE IInv'
<1>1. /\ pc = "run" /\ pc' = "run" /\ sync_data(active_index)
      /\ Len(cache[active_index]) = Len(cache[active_log])
      /\ synced' = IF Durable("log", appended) THEN appended ELSE synced
      /\ UNCHANGED <<directories, documents>> /\ UNCHANGED working
      /\ UNCHANGED <<successor, faults, epoch, flushed>> /\ UNCHANGED truth
  BY DEF owner_sync_index
<1>2. /\ Calm /\ StorageInv' /\ RunInv' /\ InitializerTypeOK'
      /\ UNCHANGED <<checkpoint_json, checkpoints, faults>>
      /\ successor' \in {"none", "log", "pair"}
  BY <1>1, OwnerSyncKept
<1>3. appended = flushed
  BY <1>1, InRun DEF appended
<1>4. synced' \in Nat /\ synced' <= flushed /\ SafeLogs(synced')
  <2>1. CASE Durable("log", appended)
    <3>1. SafeLogs(flushed)
      BY <1>3, <2>1 DEF Durable, SafeLogs, Safe, Named, Log
    <3>2. QED
      BY <1>1, <1>3, <2>1, <3>1, InRun
  <2>2. CASE ~ Durable("log", appended)
    BY <1>1, <2>2, InRun DEF HistoryInv
  <2>3. QED
    BY <2>1, <2>2
<1>5. PICK m \in Nat : m = synced'
  BY <1>4
<1>6. HistoryInv'
  <2>1. SafeLogs(m)' /\ Held(flushed)'
    BY <1>1, <1>2, <1>4, <1>5, InRun, CalmIsCalmBelow, BelowKept DEF HistoryInv
  <2>2. QED
    BY <1>1, <1>4, <1>5, <2>1, InRun DEF HistoryInv
<1>7. QED
  BY <1>1, <1>2, <1>6, RunKept

LEMMA CreateSuccessorStep ==
  ASSUME IInv, create_successor PROVE IInv'
<1>1. PICK kind \in {"log", "index"} :
        /\ kind = IF successor = "none" THEN "log" ELSE "index"
        /\ pc = "run" /\ successor # "pair" /\ active < MAX_FILE
        /\ UNCHANGED documents /\ UNCHANGED history
        /\ UNCHANGED <<checkpoint_json, checkpoints, faults>>
        /\ \/ fail /\ successor' = "none" /\ UNCHANGED <<directories, contents>>
           \/ /\ create(<<kind, active + 1>>)
              /\ successor' = IF kind = "log" THEN "log" ELSE "pair"
              /\ UNCHANGED <<pc, working>>
  BY DEF create_successor, documents
<1>2. CASE fail /\ successor' = "none" /\ UNCHANGED <<directories, contents>>
  <2>1. UNCHANGED storage
    BY <1>1, <1>2 DEF storage
  <2>2. StorageInv' /\ DocumentInv' /\ HistoryInv'
    BY <1>1, <2>1, InRun, StillStorage, CalmStep
  <2>3. faults' \in 0 .. MaxFaults
    BY <1>1, InRun
  <2>4. QED
    BY <1>2, <2>2, <2>3, FailStep
<1>3. CASE /\ create(<<kind, active + 1>>)
           /\ successor' = IF kind = "log" THEN "log" ELSE "pair"
           /\ UNCHANGED <<pc, working>>
  <2>1. PICK f \in Files : f = active + 1 /\ active # f
    <3>1. active \in Nat /\ MAX_FILE \in Nat
      BY <1>1, InRun, FilesType
    <3>2. active + 1 \in Files /\ active # active + 1
      BY <1>1, <3>1 DEF Files
    <3>3. QED
      BY <3>2
  <2>2. PICK p \in Paths : /\ p = <<kind, active + 1>> /\ p[2] = f
                           /\ kind = "log" => p = Log(f)
                           /\ kind = "index" => p = Index(f)
    BY <1>1, <2>1 DEF Paths, Log, Index
  <2>3. /\ StorageInv' /\ names' = names \cup {p} /\ Calm
        /\ cache' = [cache EXCEPT ![p] = << >>]
    BY <1>1, <1>3, <2>2, InRun, CreateStep DEF Calm
  <2>4. HistoryInv'
    BY <1>1, <2>3, InRun, CalmStep
  <2>5. /\ InitializerTypeOK' /\ active' = active /\ active_log' = active_log
        /\ active_index' = active_index /\ pc' = "run"
    BY <1>1, <1>3 DEF IInv, InitializerTypeOK, working, active_log, active_index
  <2>6. /\ cache'[p] = << >> /\ \A q \in Paths : q # p => cache'[q] = cache[q]
    BY <1>1, <2>3, InRun DEF StorageInv, StorageTypeOK
  <2>7. cache'[active_log] = cache[active_log] /\ cache'[active_index] = cache[active_index]
    <3>1. active_log # p /\ active_index # p
      BY <2>1, <2>2 DEF active_log, active_index
    <3>2. QED
      BY <1>1, <2>6, <3>1, InRun
  <2>8. Prepared'
    <3>1. CASE kind = "log"
      <4>1. successor' = "log" /\ p = Log(f)
        BY <1>3, <2>2, <3>1
      <4>2. QED
        BY <1>1, <2>1, <2>3, <2>5, <2>6, <4>1 DEF Prepared
    <3>2. CASE kind = "index"
      <4>1. successor' = "pair" /\ p = Index(f) /\ successor # "none"
        BY <1>1, <1>3, <2>2, <3>2
      <4>2. Log(f) \in names /\ cache[Log(f)] = << >>
        BY <1>1, <2>1, <4>1 DEF IInv, RunInv
      <4>3. Log(f) \in Paths /\ Log(f) # p
        BY <2>1, <4>1, PathOf
      <4>4. QED
        BY <1>1, <2>1, <2>3, <2>5, <2>6, <4>1, <4>2, <4>3 DEF Prepared
    <3>3. QED
      BY <1>1, <3>1, <3>2
  <2>9. RunInv'
    <3>1. epoch' = epoch /\ flushed' = flushed
      BY <1>1 DEF history
    <3>2. Repaired' => Repaired
      BY <2>5, <2>7, <3>1 DEF Repaired
    <3>3. RepairedInv'
      BY <1>1, <2>3, <2>5, <3>2, RepairedKept
    <3>4. QED
      BY <1>1, <2>3, <2>5, <2>7, <2>8, <3>1, <3>3, InRun DEF RunInv, Prepared
  <2>10. successor' \in {"none", "log", "pair"}
    BY <1>3
  <2>11. QED
    BY <1>1, <2>3, <2>4, <2>5, <2>9, <2>10, RunKept
<1>4. QED
  BY <1>1, <1>2, <1>3

LEMMA RotateStep ==
  ASSUME IInv, rotate PROVE IInv'
<1>1. /\ pc = "run" /\ pc' = "run" /\ successor = "pair" /\ successor' = "none"
      /\ Len(cache[active_log]) = RECORDS_PER_FILE
      /\ stable[active_index] = RECORDS_PER_FILE
      /\ active' = active + 1
      /\ UNCHANGED storage /\ UNCHANGED history /\ UNCHANGED faults
      /\ UNCHANGED <<checkpoint, maximum, recovered_end, first_file_to_remove, at>>
  BY DEF rotate
<1>2. /\ StorageInv' /\ Calm /\ names' = names /\ cache' = cache
      /\ UNCHANGED <<checkpoint_json, checkpoints, faults>>
  BY <1>1, InRun, StillStorage
<1>3. HistoryInv'
  BY <1>1, <1>2, InRun, CalmStep
<1>4. Len(cache[active_index]) = RECORDS_PER_FILE
  <2>1. stable[active_index] <= Len(cache[active_index])
    BY <1>1, InRun, StorageTypes
  <2>2. QED
    BY <1>1, <2>1, InRun
<1>5. /\ active < MAX_FILE /\ {Log(active + 1), Index(active + 1)} \subseteq names
      /\ cache[Log(active + 1)] = << >> /\ cache[Index(active + 1)] = << >>
  BY <1>1 DEF IInv, RunInv
<1>6. active + 1 \in Files
  <2>1. active \in Nat /\ MAX_FILE \in Nat
    BY <1>1, InRun, FilesType
  <2>2. QED
    BY <1>5, <2>1 DEF Files
<1>7. InitializerTypeOK'
  BY <1>1, <1>6 DEF IInv, InitializerTypeOK
<1>8. RunInv'
  <2>1. active_log' = Log(active + 1) /\ active_index' = Index(active + 1)
    BY <1>1 DEF active_log, active_index, Log, Index
  <2>2. /\ first_record_id(active) \in Nat /\ RECORDS_PER_FILE \in Nat
        /\ first_record_id(active + 1) = first_record_id(active) + RECORDS_PER_FILE
    BY <1>1, InRun, FirstOf, FilesType
  <2>3. flushed' = first_record_id(active + 1)
    BY <1>1, <1>4, <2>2, InRun DEF history
  <2>4. Len(<< >>) = 0 /\ first_record_id(active + 1) + 0 = first_record_id(active + 1)
    BY <2>2
  <2>5. epoch' > 0
    BY <1>1, InRun DEF history
  <2>6. RepairedInv'
    BY <1>2, <1>5, <2>1 DEF RepairedInv, Repaired
  <2>7. QED
    BY <1>1, <1>2, <1>5, <1>6, <2>1, <2>2, <2>3, <2>4, <2>5, <2>6 DEF RunInv
<1>9. QED
  BY <1>1, <1>2, <1>3, <1>7, <1>8, RunKept

-------------------------------------------------------------------------------
(***************************************************************************)
(* The faults.                                                             *)
(***************************************************************************)
LEMMA TornWrite ==
  ASSUME IInv, NEW p \in Paths, write(p, <<Torn>>), UNCHANGED <<directories, documents>>
  PROVE  StorageInv' /\ Calm
<1>1. <<Torn>> \in Seq(Nat) /\ Len(<<Torn>>) = 1 /\ \A i \in 1 .. 1 : <<Torn>>[i] = Torn
  BY DEF Torn
<1>2. QED
  BY <1>1, WriteStep DEF IInv, Calm

LEMMA InterruptStep ==
  ASSUME IInv, interrupt PROVE IInv'
<1>1. /\ faults < MaxFaults /\ fail /\ successor' = "none" /\ faults' = faults + 1
      /\ UNCHANGED <<directories, documents>> /\ UNCHANGED history
      /\ UNCHANGED <<checkpoint_json, checkpoints>>
  BY DEF interrupt, documents
<1>2. faults' \in 0 .. MaxFaults
  BY <1>1, SystemAssumption DEF IInv
<1>3. ASSUME StorageInv', Calm PROVE IInv'
  <2>1. DocumentInv' /\ HistoryInv'
    BY <1>1, <1>3, CalmStep DEF IInv
  <2>2. QED
    BY <1>1, <1>2, <1>3, <2>1, FailStep
<1>4. CASE UNCHANGED contents
  <2>1. UNCHANGED storage
    BY <1>1, <1>4 DEF storage
  <2>2. QED
    BY <1>3, <2>1, StillStorage DEF IInv
<1>5. CASE pc = "run" /\ write(active_log, <<Torn>>)
  BY <1>1, <1>3, <1>5, InRun, TornWrite
<1>6. CASE pc = "run" /\ write(active_index, <<Torn>>)
  BY <1>1, <1>3, <1>6, InRun, TornWrite
<1>7. CASE pc = "write_suffix" /\ write(index, <<Torn>>)
  BY <1>1, <1>3, <1>7, InLoop, TornWrite DEF LoopSteps, ReadSteps
<1>8. QED
  BY <1>4, <1>5, <1>6, <1>7 DEF interrupt

LEMMA PowerLossStep ==
  ASSUME IInv, power_loss PROVE IInv'
<1>1. /\ faults < MaxFaults /\ lose_power /\ fail /\ successor' = "none"
      /\ faults' = faults + 1 /\ flushed' = synced /\ UNCHANGED <<epoch, truth, synced>>
  BY DEF power_loss
<1>2. faults' \in 0 .. MaxFaults
  BY <1>1, SystemAssumption DEF IInv
<1>3. StorageInv /\ DocumentInv /\ HistoryInv
  BY DEF IInv
<1>4. /\ StorageInv'
      /\ \A q \in Paths, c \in Nat :
           /\ Safe(q, c) => Safe(q, c)'
           /\ Keeps(q, c) => Keeps(q, c)'
           /\ q[1] = "log" /\ Safe(q, c) /\ Holds(q[2], c) => Holds(q[2], c)'
  BY <1>1, <1>3, LosePowerStep
<1>5. PICK doc \in checkpoints :
        /\ checkpoint_json' \in Published(doc)
        /\ checkpoints' = {[end |-> checkpoint_json', synced |-> TRUE]}
  BY <1>1, <1>3, LosePowerStep
<1>6. checkpoint_json' = doc.end /\ doc.end <= checkpoint_json
  BY <1>3, <1>5 DEF DocumentInv, Published
<1>7. ASSUME NEW m \in Nat, Secured(m) PROVE Secured(m)'
  <2>1. ASSUME NEW q \in Paths PROVE Keeps(q, CountIn(q[2], m))'
    <3>1. PICK c \in Nat : c = CountIn(q[2], m)
      BY CountFacts, LeafType
    <3>2. Keeps(q, c)
      BY <1>7, <3>1 DEF Secured
    <3>3. Keeps(q, c)'
      BY <1>4, <3>2
    <3>4. QED
      BY <3>1, <3>3
  <2>2. QED
    BY <2>1 DEF Secured
<1>8. DocumentInv'
  <2>1. /\ checkpoint_json \in Int /\ doc.end \in Int /\ doc.end + 1 \in Nat
        /\ checkpoint_json + 1 \in Nat
    BY <1>3, CheckpointType
  <2>2. PICK m \in Nat : m = doc.end + 1
    BY <2>1
  <2>3. Secured(m)
    BY <1>3, <1>6, <2>1, <2>2, SecuredMonotone DEF DocumentInv
  <2>4. Secured(m)'
    BY <1>7, <2>3
  <2>5. checkpoint_json' < MAX_SEQUENCE
    BY <1>3, <1>6, <2>1, FilesType DEF DocumentInv
  <2>6. /\ \A d \in checkpoints' : d.synced /\ d.end = checkpoint_json'
        /\ \E d \in checkpoints' : d.end = checkpoint_json'
    BY <1>5
  <2>7. checkpoint_json' \in Int
    BY <1>6, <2>1
  <2>8. \A d \in checkpoints' : d.synced /\ d.end <= checkpoint_json'
    BY <2>6, <2>7
  <2>9. checkpoint_json' + 1 = m
    BY <1>6, <2>2
  <2>10. QED
    BY <2>4, <2>5, <2>6, <2>8, <2>9 DEF DocumentInv
<1>9. HistoryInv'
  <2>1. /\ synced \in Nat /\ flushed \in Nat /\ synced <= flushed
        /\ Held(flushed) /\ SafeLogs(synced)
    BY <1>3 DEF HistoryInv
  <2>2. ASSUME NEW f \in Files
        PROVE  Holds(f, CountIn(f, synced))' /\ Safe(Log(f), CountIn(f, synced))'
    <3>1. PICK c \in Nat : c = CountIn(f, synced) /\ c <= CountIn(f, flushed)
      BY <2>1, CountFacts, CountMonotone
    <3>2. Safe(Log(f), c)
      BY <2>1, <3>1 DEF SafeLogs
    <3>3. Holds(f, c)
      <4>1. Holds(f, CountIn(f, flushed)) /\ CountIn(f, flushed) \in Nat
        BY <2>1, CountFacts DEF Held
      <4>2. Len(cache[Log(f)]) \in Nat
        BY <1>3, PathOf, StorageTypes
      <4>3. QED
        BY <3>1, <4>1, <4>2 DEF Holds
    <3>4. Log(f) \in Paths /\ Log(f)[1] = "log" /\ Log(f)[2] = f
      BY PathOf
    <3>5. Holds(f, c)' /\ Safe(Log(f), c)'
      BY <1>4, <3>2, <3>3, <3>4
    <3>6. QED
      BY <1>1, <3>1, <3>5
  <2>3. Held(synced)' /\ SafeLogs(synced)'
    BY <2>2 DEF Held, SafeLogs
  <2>4. QED
    BY <1>1, <1>3, <2>1, <2>3 DEF HistoryInv
<1>10. QED
  BY <1>1, <1>2, <1>4, <1>8, <1>9, FailStep

-------------------------------------------------------------------------------
(***************************************************************************)
(* The invariant holds, and what follows from it.                          *)
(***************************************************************************)
LEMMA InitHolds == Init => IInv
<1> SUFFICES ASSUME Init PROVE IInv
  OBVIOUS
<1>1. /\ names = {} /\ dirs = [l \in Leaves |-> {{}}]
      /\ cache = [p \in Paths |-> << >>] /\ disk = [p \in Paths |-> << >>]
      /\ stable = [p \in Paths |-> 0]
      /\ checkpoint_json = NoSeq /\ checkpoints = {NoDocument} /\ pending = NoDocument
  BY DEF Init, StorageInit
<1>2. /\ pc = "down" /\ checkpoint = NoSeq /\ maximum = NoFile /\ recovered_end = NoSeq
      /\ active = NoFile /\ first_file_to_remove = NoFile /\ at = NoFile
  BY DEF Init, InitializerInit
<1>3. /\ successor = "none" /\ faults = 0 /\ epoch = 0 /\ truth = << >> /\ flushed = 0
      /\ synced = 0
  BY DEF Init
<1>4. << >> \in Seq(Nat) /\ Len(<< >>) = 0
  OBVIOUS
<1>5. StorageTypeOK
  <2>1. names \subseteq Paths /\ dirs \in [Leaves -> SUBSET SUBSET Paths]
    BY <1>1
  <2>2. cache \in [Paths -> Seq(Nat)] /\ disk \in [Paths -> Seq(Nat)] /\ stable \in [Paths -> Nat]
    BY <1>1, <1>4
  <2>3. NoDocument \in [end : SequenceNumber \cup {NoSeq}, synced : BOOLEAN]
    BY DEF NoDocument
  <2>4. QED
    BY <1>1, <2>1, <2>2, <2>3 DEF StorageTypeOK
<1>6. DirsInv /\ StableInv /\ DomainInv
  <2>1. DirsInv
    BY <1>1 DEF DirsInv, Listing
  <2>2. StableInv
    BY <1>1, <1>4 DEF StableInv
  <2>3. DomainInv
    BY <1>1, <1>4, PathOf DEF DomainInv, InDomain
  <2>4. QED
    BY <2>1, <2>2, <2>3
<1>7. StorageInv
  BY <1>5, <1>6 DEF StorageInv
<1>8. DocumentInv
  <2>1. checkpoint_json + 1 = 0 /\ NoDocument.synced /\ NoDocument.end = -1 /\ checkpoint_json = -1
    BY <1>1 DEF NoSeq, NoDocument
  <2>2. Secured(checkpoint_json + 1)
    BY <2>1, SecuredNone
  <2>3. QED
    BY <1>1, <2>1, <2>2, FilesType DEF DocumentInv
<1>9. HistoryInv
  BY <1>3, <1>4, <1>7, SecuredNone, SecuredHeld DEF HistoryInv
<1>10. InitializerTypeOK
  BY <1>2 DEF InitializerTypeOK
<1>11. AttemptInv /\ LoopInv /\ PairInv /\ CleanInv /\ SettledInv /\ RunInv
  BY <1>2, <1>3 DEF AttemptInv, LoopInv, PairInv, CleanInv, SettledInv, RunInv,
              UnpublishedSteps, ReadSteps, CleanSteps, SettledSteps
<1>12. faults \in 0 .. MaxFaults
  BY <1>3, SystemAssumption
<1>13. QED
  BY <1>3, <1>7, <1>8, <1>9, <1>10, <1>11, <1>12 DEF IInv

LEMMA RecoverStep ==
  ASSUME IInv, recover PROVE IInv'
<1>1. initialize /\ UNCHANGED <<successor, faults>>
  BY DEF recover
<1>2. CASE pc = "finish"
  <2>1. finish
    BY <1>1, <1>2
       DEF initialize, load_checkpoint, discover_log_files, open_log_for_validation,
           open_index_for_repair, sync_leaf, scan, sync_log, check_trusted, write_suffix,
           sync_index, remove_log, remove_index, sync_leaves, advance_checkpoint,
           write_checkpoint, prepare_active_pair, create_index
  <2>2. QED
    BY <1>2, <2>1, FinishStep DEF recover
<1>3. CASE pc # "finish"
  <2>1. Outside
    BY <1>3 DEF recover, Outside
  <2>2. ~ finish
    BY <1>3 DEF finish
  <2>3. QED
    BY <1>1, <2>1, <2>2, LoadStep, DiscoverStep, OpenLogStep, OpenIndexStep, SyncLeafStep,
       ScanStep, SyncLogStep, CheckTrustedStep, WriteSuffixStep, SyncIndexStep, RemoveLogStep,
       RemoveIndexStep, SyncLeavesStep, AdvanceStep, WriteCheckpointStep, PrepareStep,
       CreateIndexStep
       DEF initialize
<1>4. QED
  BY <1>2, <1>3

LEMMA StutterStep ==
  ASSUME IInv, UNCHANGED vars PROVE IInv'
<1>1. UNCHANGED storage /\ UNCHANGED <<pc, working, successor, faults, history>>
  BY DEF vars
<1>2. /\ StorageInv' /\ names' = names /\ dirs' = dirs /\ cache' = cache /\ stable' = stable
      /\ checkpoint_json' = checkpoint_json /\ pending' = pending /\ Calm
      /\ \A n \in Nat : Secured(n) => Secured(n)'
      /\ \A f : LogsBelow(f) => LogsBelow(f)'
  BY <1>1, StillStorage DEF IInv
<1>3. DocumentInv' /\ HistoryInv'
  BY <1>1, StillStorage, CalmStep DEF IInv
<1>4. /\ checkpoint' = checkpoint /\ maximum' = maximum /\ recovered_end' = recovered_end
      /\ active' = active /\ first_file_to_remove' = first_file_to_remove /\ at' = at
      /\ pc' = pc /\ successor' = successor /\ faults' = faults
      /\ epoch' = epoch /\ flushed' = flushed
  BY <1>1 DEF working, history
<1>5. InitializerTypeOK' /\ AttemptInv'
  BY <1>2, <1>4 DEF IInv, InitializerTypeOK, AttemptInv
<1>6. LoopInv'
  <2>1. ASSUME pc \in LoopSteps PROVE Secured(first_record_id(at))' /\ LogsBelow(maximum + 1)'
    <3>1. PICK n \in Nat : n = first_record_id(at) /\ Secured(n)
      BY <2>1, InLoop
    <3>2. Secured(n)' /\ first_record_id(at') = n
      BY <1>2, <1>4, <3>1
    <3>3. LogsBelow(maximum + 1)
      BY <2>1, InLoop
    <3>4. QED
      BY <1>2, <1>4, <3>2, <3>3 DEF LogsBelow
  <2>2. trusted_count' = trusted_count
    BY <1>4 DEF trusted_count
  <2>3. QED
    BY <1>4, <2>1, <2>2 DEF IInv, LoopInv, LoopSteps
<1>7. PairInv'
  BY <1>2, <1>4 DEF IInv, PairInv, log, index, trusted_count, Named, Dense
<1>8. next_file' = next_file /\ top' = top
  BY <1>4 DEF next_file, top
<1>9. CleanInv'
  BY <1>2, <1>4, <1>8 DEF IInv, CleanInv, LogsBelow
<1>10. SettledInv'
  <2>1. ASSUME pc \in AfterLoop PROVE Secured(recovered_end + 1)'
    <3>1. PICK n \in Nat : n = recovered_end + 1 /\ Secured(n)
      BY <2>1, InSettled DEF SettledCore
    <3>2. Secured(n)' /\ recovered_end' + 1 = n
      BY <1>2, <1>4, <3>1
    <3>3. QED
      BY <3>2
  <2>2. Recovered(active) => Recovered(active)'
    BY <1>2, <1>4 DEF Recovered, Dense
  <2>3. QED
    BY <1>2, <1>4, <1>8, <2>1, <2>2 DEF IInv, SettledInv, AfterLoop
<1>11. RunInv'
  <2>1. active_log' = active_log /\ active_index' = active_index
    BY <1>4 DEF active_log, active_index
  <2>2. pc = "run" => RepairedInv'
    <3>1. Repaired' => Repaired
      BY <1>2, <1>4, <2>1 DEF Repaired
    <3>2. QED
      BY <1>2, <1>4, <3>1, RepairedKept
  <2>3. QED
    BY <1>2, <1>4, <2>1, <2>2 DEF IInv, RunInv
<1>12. QED
  BY <1>2, <1>3, <1>4, <1>5, <1>6, <1>7, <1>9, <1>10, <1>11 DEF IInv

LEMMA NextKeeps == IInv /\ [Next]_vars => IInv'
<1> SUFFICES ASSUME IInv, [Next]_vars PROVE IInv'
  OBVIOUS
<1>1. CASE recover
  BY <1>1, RecoverStep
<1>2. CASE own
  BY <1>2, AppendLogStep, AppendIndexStep, OwnerSyncLogStep, OwnerSyncIndexStep,
     CreateSuccessorStep, RotateStep
     DEF own
<1>3. CASE interrupt
  BY <1>3, InterruptStep
<1>4. CASE power_loss
  BY <1>4, PowerLossStep
<1>5. CASE UNCHANGED vars
  BY <1>5, StutterStep
<1>6. QED
  BY <1>1, <1>2, <1>3, <1>4, <1>5 DEF Next

\* IInv is an invariant of the stream's lives: of every interleaving of
\* initialize, the owner, cancelled attempts and power losses.
THEOREM StreamInvariant == Spec => []IInv
<1>1. QED
  BY InitHolds, NextKeeps, PTL DEF Spec

\* Every variable of the files, of StreamInitializer and of the owner keeps its
\* type.
THEOREM StreamTypeCorrect == Spec => []TypeOK
<1>1. IInv => TypeOK
  <2> SUFFICES ASSUME IInv PROVE TypeOK
    OBVIOUS
  <2>1. synced \in 0 .. flushed
    BY DEF IInv, HistoryInv
  <2>2. QED
    BY <2>1 DEF IInv, TypeOK, StorageInv, HistoryInv
<1>2. QED
  BY <1>1, StreamInvariant, PTL

\* A checkpoint that write_json_atomic published, or is publishing, certifies
\* only records that no power loss can take from the logs or the indexes.
THEOREM CheckpointIsCovered == Spec => []CheckpointCovered
<1>1. IInv => CheckpointCovered
  <2> SUFFICES ASSUME IInv, NEW doc \in checkpoints
               PROVE  /\ doc.synced
                      /\ Durable("log", doc.end + 1) /\ Durable("index", doc.end + 1)
    BY DEF CheckpointCovered
  <2>1. StorageInv /\ DocumentInv
    BY DEF IInv
  <2>2. doc.synced /\ doc.end <= checkpoint_json /\ Secured(checkpoint_json + 1)
    BY <2>1 DEF DocumentInv
  <2>3. /\ checkpoint_json \in Int /\ doc.end \in Int /\ doc.end + 1 \in Nat
        /\ checkpoint_json + 1 \in Nat
    BY <2>1, CheckpointType
  <2>4. PICK n \in Nat : n = doc.end + 1
    BY <2>3
  <2>5. Secured(n)
    BY <2>1, <2>2, <2>3, <2>4, SecuredMonotone
  <2>6. ASSUME NEW kind \in {"log", "index"} PROVE Durable(kind, n)
    <3> SUFFICES ASSUME NEW f \in Files, CountIn(f, n) > 0
                 PROVE  /\ \A listing \in dirs[leaf(<<kind, f>>)] : <<kind, f>> \in listing
                        /\ CountIn(f, n) <= stable[<<kind, f>>]
      BY DEF Durable
    <3>1. <<kind, f>> \in Paths /\ <<kind, f>>[2] = f
      BY DEF Paths
    <3>2. Keeps(<<kind, f>>, CountIn(f, n))
      BY <2>5, <3>1 DEF Secured
    <3>3. QED
      BY <3>2 DEF Keeps, Safe, Named
  <2>7. QED
    BY <2>2, <2>4, <2>6
<1>2. QED
  BY <1>1, StreamInvariant, PTL

\* Until a new one is published, no power loss brings back a checkpoint that is
\* older than every checkpoint it could have brought back before.
THEOREM CheckpointStays == Spec => CheckpointNeverRetreats
<1>1. IInv /\ [Next]_vars =>
        [\A doc \in checkpoints' : \E old \in checkpoints : old.end <= doc.end]_vars
  <2> SUFFICES ASSUME IInv, Next, NEW doc \in checkpoints'
               PROVE  \E old \in checkpoints : old.end <= doc.end
    OBVIOUS
  <2>1. StorageInv /\ DocumentInv
    BY DEF IInv
  <2>2. \A old \in checkpoints : old.end \in Int /\ old.synced /\ old.end <= checkpoint_json
    BY <2>1, CheckpointType DEF DocumentInv
  <2>3. PICK last \in checkpoints : last.end = checkpoint_json
    BY <2>1 DEF DocumentInv
  <2>4. CASE checkpoints' = checkpoints
    BY <2>2, <2>4
  <2>5. CASE power_loss
    <3>1. PICK old \in checkpoints :
            /\ checkpoint_json' \in Published(old)
            /\ checkpoints' = {[end |-> checkpoint_json', synced |-> TRUE]}
      BY <2>1, <2>5, LosePowerStep DEF power_loss
    <3>2. doc.end = old.end /\ old.end \in Int
      BY <2>2, <3>1 DEF Published
    <3>3. QED
      BY <3>2
  <2>6. CASE recover /\ write_checkpoint
    <3>1. CASE pc = "sync_pending"
      BY <2>4, <2>6, <3>1 DEF write_checkpoint, sync_pending
    <3>2. CASE pc = "rename_pending"
      <4>1. checkpoints' = checkpoints \cup {pending}
        BY <2>6, <3>2 DEF write_checkpoint, rename_pending
      <4>2. pending.end = recovered_end
        BY <3>2 DEF IInv, SettledInv, SettledSteps
      <4>3. checkpoint_json <= recovered_end
        BY <3>2, InSettled DEF SettledCore, AfterLoop, SettledSteps, UnpublishedSteps
      <4>4. CASE doc \in checkpoints
        BY <2>2, <4>4
      <4>5. CASE doc = pending
        BY <2>3, <4>2, <4>3, <4>5
      <4>6. QED
        BY <4>1, <4>4, <4>5
    <3>3. CASE pc = "sync_stream_directory"
      <4>1. checkpoints' = {[end |-> checkpoint_json, synced |-> TRUE]}
        BY <2>6, <3>3 DEF write_checkpoint, sync_checkpoint_directory
      <4>2. doc.end = last.end /\ last.end \in Int
        BY <2>2, <2>3, <4>1
      <4>3. QED
        BY <4>2
    <3>4. QED
      BY <2>6, <3>1, <3>2, <3>3 DEF write_checkpoint
  <2>7. CASE recover /\ ~ write_checkpoint
    <3>1. checkpoints' = checkpoints
      BY <2>7
         DEF recover, initialize, load_checkpoint, discover_log_files, open_log_for_validation,
             open_index_for_repair, sync_leaf, scan, sync_log, check_trusted, write_suffix,
             sync_index, remove_log, remove_index, sync_leaves, advance_checkpoint,
             stage_pending, prepare_active_pair, create_index, finish, storage, documents
    <3>2. QED
      BY <2>4, <3>1
  <2>8. CASE own
    <3>1. checkpoints' = checkpoints
      BY <2>8 DEF own, append_log, append_index, owner_sync_log, owner_sync_index,
                  create_successor, rotate, storage, documents
    <3>2. QED
      BY <2>4, <3>1
  <2>9. CASE interrupt
    <3>1. checkpoints' = checkpoints
      BY <2>9 DEF interrupt, documents
    <3>2. QED
      BY <2>4, <3>1
  <2>10. QED
    BY <2>5, <2>6, <2>7, <2>8, <2>9 DEF Next
<1>2. QED
  BY <1>1, StreamInvariant, PTL DEF Spec, CheckpointNeverRetreats

\* The records that finish hands to the owner include every record that was
\* flushed, or after a power loss synchronised in durably named logs.
THEOREM RecoveryKeeps == Spec => RecoveryKeepsRecords
<1>1. IInv /\ [Next]_vars =>
        [pc = "finish" /\ pc' = "run" => recovered_count >= flushed]_vars
  <2> SUFFICES ASSUME IInv, pc = "finish" PROVE recovered_count >= flushed
    OBVIOUS
  <2>1. pc \in AfterLoop
    BY DEF AfterLoop, SettledSteps
  <2>2. QED
    BY <2>1, InSettled DEF SettledCore, recovered_count
<1>2. QED
  BY <1>1, StreamInvariant, PTL DEF Spec, RecoveryKeepsRecords

\* The pair that prepare_active_pair hands over is the file of the next record,
\* with room and a dense index, and no log comes after it.
THEOREM ActivePairIsReady == Spec => []ActivePairReady
<1>1. IInv => ActivePairReady
  <2> SUFFICES ASSUME IInv, pc = "finish"
               PROVE  /\ active = from_record_id(recovered_count)
                      /\ {active_log, active_index} \subseteq names
                      /\ appended = recovered_count
                      /\ cache[active_index] = [i \in 1 .. Len(cache[active_log]) |-> i]
                      /\ maximum_log_file = active
    BY DEF ActivePairReady
  <2>1. pc \in AfterLoop /\ active # NoFile
    BY DEF AfterLoop, SettledSteps, IInv, SettledInv
  <2>2. PICK f \in Files : f = active /\ f \in Nat /\ top = f + 1
    BY <2>1, InSettled DEF top
  <2>3. Recovered(f) /\ StorageInv
    BY <2>1, <2>2, InSettled DEF SettledCore
  <2>4. active_log = Log(f) /\ active_index = Index(f)
    BY <2>2 DEF active_log, active_index, Log, Index
  <2>5. PICK L \in Nat : /\ L = Len(cache[Log(f)]) /\ L < RECORDS_PER_FILE
                         /\ first_record_id(f) + L = recovered_count
    BY <2>3, PathOf, StorageTypes DEF Recovered, recovered_count
  <2>6. first_record_id(f) \in Nat /\ RECORDS_PER_FILE \in Nat
    BY <2>2, FirstOf, FilesType
  <2>7. from_record_id(recovered_count) = f
    <3>1. PICK n \in Nat : n = first_record_id(f) + L
      BY <2>5, <2>6
    <3>2. first_record_id(f) <= n /\ n < first_record_id(f) + RECORDS_PER_FILE
      BY <2>5, <2>6, <3>1
    <3>3. QED
      BY <2>2, <2>5, <3>1, <3>2, FileUnique
  <2>8. appended = recovered_count
    BY <2>2, <2>4, <2>5 DEF appended
  <2>9. maximum_log_file = f
    <3>1. Log(f) \in names /\ LogsBelow(f + 1)
      BY <2>2, <2>3 DEF Recovered, IInv, CleanInv, SettledSteps
    <3>2. /\ maximum_log_file \in Files \cup {NoFile} /\ LogsBelow(maximum_log_file + 1)
          /\ maximum_log_file # NoFile => Log(maximum_log_file) \in names
      BY MaximumLog
    <3>3. maximum_log_file \in Int /\ f < maximum_log_file + 1
      BY <3>1, <3>2, FilesType DEF LogsBelow, NoFile
    <3>4. maximum_log_file # NoFile
      BY <2>2, <3>3 DEF NoFile
    <3>5. maximum_log_file < f + 1
      BY <3>1, <3>2, <3>4 DEF LogsBelow
    <3>6. QED
      BY <2>2, <3>3, <3>5
  <2>10. QED
    BY <2>2, <2>3, <2>4, <2>7, <2>8, <2>9 DEF Recovered, Dense
<1>2. QED
  BY <1>1, StreamInvariant, PTL

\* Once open_index_for_repair has opened the active pair, whatever its owner has
\* synchronised in it, and every record before it, is safe from a power loss.
THEOREM RepairedPairIsKept == Spec => []RepairedPairKeeps
<1>1. IInv => RepairedPairKeeps
  <2> SUFFICES ASSUME IInv, pc = "run", Repaired,
                      NEW kind \in {"log", "index"}
               PROVE  Durable(kind, first_record_id(active) + stable[<<kind, active>>])
    BY Zenon DEF RepairedPairKeeps, active_log, active_index
  <2>1. PICK f \in Files, a \in Nat : f = active /\ f \in Nat /\ a = first_record_id(f)
    BY InRun
  <2>2. Secured(a + 1) /\ StorageInv
    BY <2>1, InRun DEF IInv, RunInv, RepairedInv
  <2>3. <<kind, f>> \in Paths
    BY DEF Paths
  <2>4. PICK k \in Nat : k = stable[<<kind, f>>]
    BY <2>2, <2>3, StorageTypes
  <2>5. SUFFICES ASSUME NEW g \in Files, CountIn(g, a + k) > 0
                 PROVE  Named(<<kind, g>>) /\ CountIn(g, a + k) <= stable[<<kind, g>>]
    BY <2>1, <2>4 DEF Durable, Named
  <2>6. <<kind, g>> \in Paths /\ <<kind, g>>[2] = g
    BY DEF Paths
  <2>7. CountIn(g, a + 1) > 0 => /\ Named(<<kind, g>>)
                                 /\ CountIn(g, a + 1) <= stable[<<kind, g>>]
    BY <2>2, <2>6 DEF Secured, Keeps, Safe
  <2>8. PICK b \in Nat : b = first_record_id(g)
    BY FirstOf, FilesType
  <2>9. PICK R \in Nat : R = RECORDS_PER_FILE /\ R > 0
    BY FilesType
  <2>10. \A n \in Nat : CountIn(g, n) = IF n <= b THEN 0 ELSE IF n >= b + R THEN R ELSE n - b
    BY <2>8, <2>9, CountFacts
  <2>11. CASE g = f
    <3>1. a = b
      BY <2>1, <2>8, <2>11
    <3>2. CountIn(g, a + 1) > 0 /\ CountIn(g, a + k) <= k
      BY <2>9, <2>10, <3>1
    <3>3. QED
      BY <2>4, <2>7, <2>11, <3>2
  <2>12. CASE g < f
    <3>1. b + R <= a
      BY <2>1, <2>8, <2>9, <2>12, FirstOf, FilesType
    <3>2. CountIn(g, a + 1) = R /\ CountIn(g, a + k) = R
      BY <2>9, <2>10, <3>1
    <3>3. QED
      BY <2>7, <2>9, <3>2
  <2>13. CASE g > f
    \* f is the file of every record that it holds.
    <3>1. a + R <= b
      BY <2>1, <2>8, <2>9, <2>13, FirstOf, FilesType
    <3>2. k <= R
      <4>1. k <= Len(cache[<<kind, f>>])
        BY <2>2, <2>3, <2>4 DEF StorageInv, StableInv
      <4>2. Len(cache[active_log]) <= RECORDS_PER_FILE
            /\ Len(cache[active_index]) <= RECORDS_PER_FILE
        BY InRun, FilesType
      <4>3. Len(cache[<<kind, f>>]) <= R /\ Len(cache[<<kind, f>>]) \in Nat
        BY <2>1, <2>2, <2>3, <2>9, <4>2, StorageTypes DEF active_log, active_index
      <4>4. QED
        BY <2>9, <4>1, <4>3
    <3>3. CountIn(g, a + k) = 0
      BY <2>9, <2>10, <3>1, <3>2
    <3>4. QED
      BY <2>5, <3>3
  <2>14. QED
    BY <2>1, <2>11, <2>12, <2>13, FilesType
<1>2. QED
  BY <1>1, StreamInvariant, PTL
=============================================================================
