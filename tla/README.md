# A TLA+ verification of the transaction log

This directory models the parts of the repository that decide which records
exist and which come out again: how one log file and its index are written, how a
stream is recovered after a process failure or a power loss, how records and
messages cross a byte stream, and the search, range, pool and configuration code
around them. The models are checked with TLC on small instances; the safety of the
log writer, of recovery, of the record and message streams, of ranges, of the
directory search, of the object pool and of the clustering configuration is also
proved with TLAPS for every instance.

Paths below are relative to `services/transaction-log/src` unless they say more.

## The system

A *stream* is a sequence of records, numbered from zero. Every `RECORDS_PER_FILE`
records share a *log* file and an *index* file, which holds the end offset of each
record (8 bytes per entry). Up to 1,000 pairs share a leaf directory. A
*checkpoint* document certifies a prefix of the stream.

| Component | State | Operations | Interacts with | What makes it correct |
| --- | --- | --- | --- | --- |
| `IndexedLogWriter` (`streams/indexed_log_writer`) | open/unusable/finalized, next id, count, three end boundaries | `write_record`, `flush`, `sync_data`, `finalize`, `into_inner` | owns a `RecordWriter` and an `IndexWriter`, made from an `InitializedStream` | index never ahead of log; boundaries true of both files; a failure is final |
| `RecordWriter` (`transaction-log-exports`), `IndexWriter` | batch, usable flag | `write*`, `flush_buffer`, `flush`, `sync_data` | a `tokio::fs::File` that completes writes in the background | no byte sent twice, none skipped |
| locations (`streams/location`) | none | id/file/offset arithmetic, range iteration | everything | file boundaries agree everywhere |
| `StorageProvider` (`storage`) | the file system | paths, discovery, create/open/remove pairs, read/write JSON documents | called by recovery | documents appear whole; removals and creations become durable when promised |
| validators (`streams/validation`) | one file each | scan and truncate a log, check and rewrite an index | storage, `RecordReader` | keep all valid records, nothing else |
| `StreamInitializer` (`streams/stream_initializer`) | working state of one attempt | load checkpoint, discover, validate, clean up, publish, prepare the active pair | storage, validators; returns an `InitializedStream` | recovered prefix is true and complete; the checkpoint certifies only durable records |
| `RecordReader`, `RecordBuilder` (`transaction-log-exports`) | read buffer and terminal state; record under construction | `wait_to_read`, `try_read_next`; builder callbacks | sockets and files | complete records before an error; rollback of failed records |
| `ObjectPool` (`lib/object-pool`) | free list and its minimum | take/return/reclaim | future services | reclaim only what went unused, never more than there is |
| message framing (`lib/message-io`) | one frame per call | `write_message`, `read_message` | sockets | bounded frames, one per call; both ends agree on the limit |
| configuration, clustering, `main` | the stored clustering document | parse, validate, store, load | the executable; `StorageProvider` | accepts exactly the valid settings; what is stored can be loaded |

The hard behaviours are at the awaits. `flush` and `sync_data` are futures that a
caller may drop half way, over files that take bytes before they write them.
Recovery makes some twenty storage calls per file and can be cut off between any
two of them, again and again. A reader waits for bytes that come in any pieces, is
cancelled between them, and meets errors behind records that it still owes. The
repository has no concurrency between tasks on one stream's files: a stream has one
owner, and recovery has exclusive access. The two ends of a socket are two tasks.

## Modules

| Module | Models | Used by |
| --- | --- | --- |
| `Locations` | the location arithmetic for one stream | both models |
| `IndexedLogWriter` | the writer, its two byte writers, two files | `MCIndexedLogWriter`, `IndexedLogWriter_proofs` |
| `IndexedLogWriter_proofs` | the inductive invariant and the theorems | |
| `Storage` | the provider over a file system that loses what is not synchronised | `StreamInitializer` |
| `StreamInitializer` | `initialize` with the three validators | `StreamSystem` |
| `StreamSystem` | recovery, the stream's owner and the faults, composed | `MCStreamSystem` |
| `StreamSystem_proofs` | recovery's inductive invariant and theorems | |
| `RecordReader` | the reader over any source; its theorems are in `RecordPipe_proofs` | `RecordPipe`, `MCRecordReader` |
| `RecordSerializer` | `RecordWriter` in serialization mode with `RecordBuilder` | `RecordPipe` |
| `RecordChannel` | abstract: a FIFO channel that acknowledges and ends | `RecordPipe`, `MessageIO` |
| `RecordPipe` | writer and reader on one byte stream, composed | `MCRecordPipe` |
| `RecordPipe_proofs` | the reader's theorems; the pipe's invariant and the proof that it implements `RecordChannel` | |
| `MessageIO` | `write_message` and `read_message` on one byte stream | `MCMessageIO` |
| `MessageIO_proofs` | its invariant and the proof that it implements `RecordChannel` | |
| `RecordRanges`, `RecordRanges_proofs` | `RecordRangeLocation`: construction and iteration; its theorems | `MCRecordRanges` |
| `DirectorySearch`, `DirectorySearch_proofs` | the search of `maximum_log_file`; its theorems | `MCDirectorySearch` |
| `ObjectPool`, `ObjectPool_proofs` | the pool; its theorem | `MCObjectPool` |
| `Clustering`, `Clustering_proofs` | startup validation and the stored clustering document; its theorems | `MCClustering` |

### IndexedLogWriter

The variables `state`, `expected_record_id`, `record_count`, `buffered_end`,
`flushed_end` and `synced_end` are the struct's fields. `buffer` and `usable` are
those of the two byte writers, indexed by output, because both run the same
protocol. `step`, `out`, `cursor` and `syncing` are the local state of a pending
`flush` or `sync_data`: an action per await (`start_flush`, `flush_buffer` per
short write, `flush_log`, `flush_index`, `sync_log`, `sync_index`). `abandon` is
every way for it to end early: an error returned through `?`, a zero-length
write, a dropped future, a panic. `io_error` is the one of these that a failed
background write forces.

`file`, `visible`, `durable` and `write_error` are the two destinations, external
code modelled from how the writer uses them: a `tokio::fs::File` takes bytes at
once, writes them later in order (`complete_write`), or fails and drops the rest
(`fail_write`). A failure is reported by the next write or flush, and not by
`sync_data`. `accepted` and `ends` are histories. A log byte carries its record
and its offset in it, an index byte the position that its entry encodes.

Rejected calls (`Full`, `UnexpectedRecordId`, `Unusable`, `Finalized`, `NotFull`,
`NotSynchronized`) change nothing and are therefore no steps. The writer starts on
any pair in `RecoveredPairs`, which are the pairs recovery returns.

### Storage, StreamInitializer, StreamSystem

`Storage` keeps what a process sees (`names`, `cache`, `checkpoint_json`) beside
what a power loss may leave. Per leaf directory, `dirs` is the set of listings
that may be found: every change adds one, `sync_directory` leaves one. So the
changes to one directory persist in order and the directories are independent of
each other. Per file, `disk` and `stable` are its last synchronised contents and
the number of leading cells that are certain; every cell after those comes back
as cached, as synchronised or torn, and the length lies anywhere between.
`checkpoints` is the set of documents that may be found; one that was renamed
before its synchronisation may come back as anything.

All records have one length here, so a position is a count and an endpoint is a
sequence number. A log cell is the *epoch* (the life of the stream) in which the
record was appended, which tells a record from the one that replaced it; `Torn`
is a cell that does not decode to the record or entry that belongs there.

`StreamInitializer` has one action per awaited storage operation, in the order of
the code, with `pc` naming the next one. The variables in `working` are the fields
of `InitializationState`; `at` is the position of the running loop. An error drops
the working state (`fail`) and leaves storage as it is.

`StreamSystem` adds the owner and the faults. The owner is external: the
repository only plans it. It appends log before index, synchronises log before
index, creates the successor pair early if it likes, and rotates when `finalize`
would allow it, as the README of `indexed_log_writer` describes. It runs
`initialize` again after a failure. `interrupt` stands for an I/O error, a
cancelled future or the death of the process: what was done stays, and a write
under way leaves a torn cell. `power_loss` replaces the cached state by a possible
one.

### RecordReader, RecordSerializer, RecordPipe, RecordChannel

The bytes of a stream are numbered, and the buffers of `RecordReader` are
intervals of them: `taken .. received - 1` is `buffer`, `cursor .. taken - 1` the
unread part of `batch`. `pending_length`, `state` and `capacity` are the reader's
own, `validated_len` the local of `prepare_batch`. `WaitToRead` is the call up to
its loop. An iteration of `prepare_batch` either accepts a frame (`AcceptFrame`)
or stops the scan, for one of four reasons, and then publishes what it accepted,
fails, or reserves room and waits. At the await the reader receives some bytes,
none, is interrupted, fails or is cancelled. A frame has a true size and a declared
one, a valid stream id or not, a matching CRC or not; a header read anywhere but at
the start of a frame belongs to bytes that fail their CRC. The peer is external.

`Receive` cannot take more than the spare capacity, and a read with no spare room
returns 0, which `ReceiveNothing` takes for the end of input as the code does. So
the model would show a missing `reserve` as a false end.

`RecordSerializer` has `write` as a call with its callback's steps in it: chunks
offered to the builder (`BodyWrite`), then `Ok`, an error or an unwinding panic.
The builder's bytes lie behind `buffer.len()` until `finish` publishes them, so
`Rollback` leaves the batch. `flush_buffer` and `flush` clear `usable` first and
set it on success; `OutputFails` is an error, a zero write or a dropped future.
What is accepted becomes frames of the reader's source in `RecordPipe`, which
lets both tasks step in any order.

`RecordChannel` says what the two promise together and no more: records come out in
order, each once, only if written; a clean or truncated end is reported only after
everything acknowledged came out, and truncation only after the writer broke off.
Its `reader` never becomes corrupt. `ImplementsChannel` maps the pipe to it: `got`
is what the delivered extents decode to, `broken` is `usable` lost with no call
pending, `reader` the answer with which the reader stopped.

### MessageIO

The same for message framing, without state between calls. The writer encodes
pieces into the bounded frame (`TryExtend`), then has its bytes accepted in any
pieces; the reader reads the first prefix byte alone, then the rest, checks the
length, reads the body and decodes it. Both sides discard the connection after an
error, as the code demands; an encoding error permits another message. `foreign`
is a peer that frames with other code and other limits: the promises of alignment
hold for it, those of the channel are not asked of it. `ImplementsChannel` maps
frames to records.

### RecordRanges, DirectorySearch, ObjectPool, Clustering

`RecordRanges` fills a stream with records of every combination of lengths and
takes ranges whose endpoints a resolver found, and others that nobody checked.
`NextItem` is one step of `std::iter::successors` and the map over it.

`DirectorySearch` starts on every small tree. `pending` is the code's stack;
`ReadRange` and `ReadLog` are one directory entry each, in any order, as `readdir`
yields them. The depth-first loop is `PopDirectory`, `PushChildren`, `FinishLeaf`.
`Storage` uses the result, `maximum_log_file`; `MaximumIsExact` justifies it.

`ObjectPool` has the pool's two fields, the vector as its length: which objects
it holds decides nothing. Who holds an object is not modelled, since the pool takes
and gives objects by move and the language keeps their owners apart. `low` is a
history: the least number available since the window began.

`Clustering` takes the raw inputs through `try_from` and `Hostname::parse`, over
character classes instead of characters (a mode or node name is spaces and a word,
trimmed like a domain), and through `write_json_atomic` and
`read_json`, which validates again what it loads. `fallback` is what a power loss
may leave of the published file.

## Runs

| Run | Instance | Result |
| --- | --- | --- |
| `writer` | file 1 of 3 records, lengths 1 and 2, entries of 2 bytes, on an empty pair or one recovered record | all nine properties hold |
| `all_faults` | 3 files of 2 records, each in its own leaf; 2 faults of either kind | all seven properties hold |
| `power_loss` | the same, 3 power losses | `RecoveredIsPrefix` holds |
| `one_leaf` | the same 3 files in one leaf; 3 faults of either kind | `RecoveredIsPrefix` holds |
| `interrupted_cleanup` | as `all_faults` | `CleanupPrecedesPublication` is violated |
| `record_reader` | 9 bytes of five frame shapes, header 2, minimum 3, capacity 5 | all seven properties hold |
| `record_pipe` | 2 records, payload up to 2, header 1, minimum 2, capacity 3 | all five properties hold |
| `ranges` | 3 files of 2 records (the last of 1), lengths 1 and 2, two streams | both properties hold |
| `search` | 2 levels of 2 ranges, leaves of 2, last file 4, 2 logs | both properties hold |
| `pool` | up to 20 objects available | `SurplusIsUnused` holds |
| `messages` | 3 messages, prefix 2, limit 2 | all three properties hold |
| `clustering` | domains of up to 5 characters, names of 3, labels of 2; 2 writes | both properties hold |

*Writer.* `IndexNeverLeadsLog`, `AppendedOnce`, `FlushedIsReadable`,
`SyncedIsDurable` and `FinalizedIsComplete` relate the two files to each other and
to the boundaries in every state; `FailureIsFinal` and `BoundariesAdvance` say
what no step may do; `CallReturns` that an awaited call ends.

*Recovery.* `CheckpointCovered`: every checkpoint that can be found after a power
loss certifies only records that no power loss can remove, in logs and indexes.
`CheckpointNeverRetreats`: a completed publication is never undone.
`RecoveredIsPrefix`: recovery returns a prefix of one history and resurrects
nothing. `RecoveryKeepsRecords`: flushed records survive a process failure;
synchronised ones survive a power loss if the directories durably name their
files. `ActivePairReady`: the returned pair is the right one, with room and a
dense index, and no log follows it. `RepairedPairKeeps`: a new pair's records may go
with its directory entry, as nothing synchronises it at creation, but once a
recovery has opened the pair for repair, all that its owner synchronises in it stays.
A pair that exists may be the leftover of an interrupted creation, so the recovery
must synchronise the directory also when it finds the index there.
`InitializationSucceeds`: no reachable state
is refused for ever. In some states the first retry does fail: an interrupted
removal leaves an orphan index, creation of that pair then fails after making the
log, and the attempt after that adopts both.

*Reader.* `DeliveredArePrefix` and `NothingOwedAtEnd`: the records returned are
the valid prefix of the input, and all of what arrived of it before the reader
stops. `PendingIsNextFrame`: the length kept across cancelled reads is that of the
frame it is used for. `EndIsReal`: an end is never an artefact of a full buffer.
`TerminalIsFinal`, and `EndIsReached`: once the peer closed, the reader stops.

*Pipe and messages.* `ImplementsChannel` in both, by refinement.
`SizeErrorSurfaces`: no payload past the limit is reported as written, however the
callback treats the error. `BatchIsUnacknowledged`: the batch is exactly the
records written and not yet acknowledged, so a rolled-back record leaves no trace.
`StaysAligned`: one `read_message` consumes one frame. `AcknowledgedComesOut` and
`AcknowledgedIsRead`: what was acknowledged is delivered, though the sender falls
silent, unless the stream fails the reader or (messages) a body does not decode.

*The others.* `RangeIsExact`: the items of a resolved range are its bytes, file by
file in order; no range asks for a file past the last. `FilesPartitionSequences`:
the mapping from sequence numbers to files and back agrees at both ends of every
accepted range and in every file its iteration comes to, the short last one included.
`MaximumIsExact`: the search finds the highest canonical regular log, or none, in
any order of directory entries. `StackIsSiblings`: it keeps only siblings along its
path, as its documentation promises. `SurplusIsUnused`: `reclaim_unused` discards
what no checkout of the window needed and cannot underflow.
`StoredReadsBack`: the stored document can be read after any interruption and
validates to what was stored. `AcceptsExactly`: `Hostname::parse` accepts the
hostnames of a grammar stated apart from it, by neighbouring characters and not by
labels.

*The disagreement.* `remove_log_and_index` deletes first and synchronises the
directories at the end. If the process fails in between, the next `initialize`
no longer sees the deleted logs, discovers a smaller maximum, and does not repeat
the range that the documentation asks to be repeated before publication. If the
deleted pairs are in another leaf than the pairs it validates, the deletions stay
unsynchronised through publication. A later power loss can bring a deleted log
back; with three faults (power loss, process failure in cleanup, power loss)
`RecoveredIsPrefix` fails as well in the instance of `all_faults`: the old file is
recovered behind new records. That is why this property is claimed for power
losses alone, and for one leaf, and not for both kinds of fault across leaves.

### Bounds

* `RECORDS_PER_FILE`, `MAX_SEQUENCE`: 3 (writer) and 2 (recovery) records per file
  give an empty, a partial and a full file. In recovery the last sequence number
  is alone in the terminal file, as `u64::MAX` leaves that file short in the code;
  the code refuses to append it (`RecordId::next` panics first), so the terminal
  file is never full and has no successor.
* `FILES_PER_LEAF`: 1 puts every pair on a leaf boundary, 3 puts all in one leaf.
* `Lengths = {1, 2}`, `INDEX_ENTRY_LEN = 2`: the shortest bytes that allow a short
  write inside a record and inside an entry.
* `MaxBytes = 9` in `record_reader`: three short frames or two and a partial one, so
  that a batch of two is followed by an error, and the buffer of 5 is refilled.
* `MaxCalls = 2`, `MaxOffered = 3`, `MaxPayloadLen = 2` in `record_pipe`: one record
  in the batch before another fails, one byte over the limit.
* `MaxMessages = 3`: a message before and one after the one that is refused.
* `MAX_FILE = 4` of 8 file numbers in `search`: a leaf half past the end, and a leaf
  and a name wholly past it. `MaxLogs = 2`: the second can be misplaced, irregular or
  in another branch.
* `MaxPosition = 3` in `ranges`: unresolved positions on both sides of real ones.
* `MaxWrites = 2` in `clustering`: a write on top of an interrupted one.
* `MaxFaults`: 2 or 3. Two faults reach a recovery of a recovery that was cut off;
  the third falls into the life after it. It bounds the epochs as well.

`CHECK_DEADLOCK FALSE` where the system may stop: a writer is consumed, or full and
finalized; an owner with a full stream and no faults left has nothing to do; a
search ends; a connection is discarded by both sides; a process with a rejected
configuration exits.

### Fairness

Writer: weak fairness of each step of a pending future, of `io_error` and of
`complete_write`: the runtime polls a future that its owner awaits, and a
background write ends. Calling, cancelling and failing are not fair.
Recovery: weak fairness of `recover`: the future is polled to its end, and the
owner calls `initialize` again after a failure. The owner's and the fault actions
have no fairness, and faults are bounded, so `InitializationSucceeds` says that
recovery completes once faults stop for long enough.

Reader, alone and in the pipe: weak fairness of the calls and of the scan, since the
task that owns the reader keeps calling and nothing interrupts `prepare_batch`; strong
fairness of the reads, since a cancelled wait or an interrupted read is tried again
and a source that has bytes or has ended yields at last. Cancelling for ever would
need a source that is ready each time and never asked. The sender has no fairness.
Messages: weak fairness of the reader's steps; the future is polled to its end.

## What is proved

### IndexedLogWriter

`IndexedLogWriter_proofs` proves, for every value of the constants that satisfies
`LocationAssumption`, `WriterAssumption` and `RecoveredAssumption`, all the safety
properties of the run `writer`: theorems `TypeCorrect`, `LogAppendedOnce`,
`IndexFollowsLog`, `FlushedReadable`, `SyncedDurable`, `FinalizedComplete`,
`FailureFinal` and `BoundariesMonotone`. The assumptions are that files hold at
least one record, that lengths and the entry width are positive, and that the
writer starts on a well-formed pair that is not full.

None of them is inductive alone: that the log has each record once says nothing of
a batch about to be sent. The invariant `IInv` ties every part to the history of
accepted bytes:

* `AcceptedInv`: the accepted bytes are the layout of the accepted records, and
  the boundaries and counters are those of that layout;
* `PrefixInv(f)`: each file is a prefix of its accepted bytes;
* `BatchInv(f)`: while no write is lost and the writer is open or sending, the file
  followed by the unsent rest of the batch is all that was accepted;
* `FutureInv`: which flags are down, and which output is done, at each await;
* `BoundaryInv`, `OrderInv`: what is visible and durable up to each boundary, and
  that index bytes are only sent when all log bytes are visible;
* `ProgressInv` and `TypeOK`.

One lemma per action shows that the action preserves `IInv` (`WriteRecordStep`
rests on the lemmas about layouts, `LogLayoutExtend` and `IndexLayoutExtend`), and
`Invariance` puts them together. The properties follow from `IInv`, the action
properties from `IInv` and the step.

### RecordReader

The first part of `RecordPipe_proofs` proves the six safety properties of the run
for every set of frame shapes, header and minimum length and initial capacity that satisfy
`ReaderAssumption`: theorems `TypeCorrect`, `DeliversPrefix`, `OwesNothing`,
`PendingIsFresh`, `EndsOnlyAtEnd` and `StaysTerminal`. The assumption that matters is
that a matching CRC covers exactly the bytes the peer framed. That delivered records
are a prefix is not inductive, since it says nothing of the batch and of the bytes
behind it. `IInv` places the three positions of the reader among the frames:
`cursor` ends the delivered ones (`DeliveredInv`), `taken` ends some later frame with
only valid ones before it (`BatchInv`), the scan position likewise (`ScanInv`). With
`SourceInv` (frames tile the bytes sent) every header the scan reads is a frame's own.
`PendingInv` ties the pending length to the frame at `taken`, `CapacityInv` says that
a waiting read has room, and `NothingReady` that no whole valid frame is left when
the reader waits or has stopped. One lemma per action; `Inductive` joins them.

### ObjectPool

`ObjectPool_proofs` proves `SurplusUnused` for every bound on the objects. The
invariant is the property with the types: the subtraction of a reclaim needs the
counter to be at most the length, and the window's low point is the counter's.

### MessageIO

`MessageIO_proofs` proves `Aligned` and, with it, `Refinement`: `Spec => Channel!Spec`
for every prefix length, limit and set of pieces. The invariant says that frames are
contiguous, that only the last can be incomplete and only while or after it is
written (`Complete`), and that the reader is at the boundary behind its last message
or inside the next frame (`Reading`); for the refinement it adds that frames of this
writer respect the limit, and that all but the one being written are acknowledged
(`Acknowledged`). Each action then maps to a step of `RecordChannel` or to a stutter: the frame
appears with `Encoded`, is acknowledged by the last `Accept`, delivered by
`TakeFromBytes`, and breaks with `OutputFails`.

### StreamSystem

`StreamSystem_proofs` proves the safety properties of the run `all_faults` for every
number of records per file and of files per leaf, every last sequence number and any
number of faults: theorems `StreamTypeCorrect`, `CheckpointIsCovered`,
`CheckpointStays`, `RecoveryKeeps`, `ActivePairIsReady` and `RepairedPairIsKept`. That the checkpoint is
covered says nothing of an attempt half way to the next checkpoint, so `IInv` ties
every `pc` of the initializer to what is durable when it is reached:

* `StorageInv`: what a power loss may leave of names and contents agrees with what is
  cached, up to `stable`; files lie in the domain;
* `DocumentInv`: every checkpoint that may be found is synchronised and covered;
* `HistoryInv`: the flushed records are in the files, and what must survive is;
* `AttemptInv`, `LoopInv`: the loop over the files keeps everything before its
  position `Secured`: complete, durably named and synchronised. The trusted part of
  the file at hand is its part of the checkpoint, and neither the scan nor a
  truncation goes below it or below what was flushed;
* `PairInv`, `CleanInv`, `SettledInv`, `RunInv`: removal only touches files behind the
  recovered end; publication happens when all up to that end is secured; the active
  pair is dense and the last. `RepairedInv`, a part of `RunInv`: a pair that holds a
  record of an earlier life lies in a file that is durably named, behind durable
  files alone.

The argument for `CheckpointIsCovered` runs along the loop: after the last
`sync_index` everything up to the recovered end is secured, no later step takes
anything from it, and `rename_pending` publishes that end, which is not below the
former checkpoint. `Max` of a set of file numbers, and the least file of a gap, come
from the lemma that a nonempty set of naturals has a least element.

### RecordPipe

The second part of `RecordPipe_proofs` adds to the reader's invariant what the
writer knows: the bytes sent are the frames of the acknowledged records and the first `progress` bytes of the
batch (`SentInv`), the batch lies end to end (`BufferInv`), each step of a call has
its flags (`WriterInv`), and the source ends only when the writer let go of it
(`EndedInv`). `NoSilentTruncation` and `BatchHoldsTheRest` are parts of it.
`PipeImplementsChannel` is the refinement `PipeSpec => Channel!Spec`: all frames are
valid, so the reader never meets corruption (`ReaderOutcome`), and each step of either
task is a step of `RecordChannel` or a stutter (`WriterSimulates`, `ReaderSimulates`).

### RecordRanges

`RecordRanges_proofs` proves both properties of the run for every number of records
per file, every last sequence number and all lengths: `RangesAreExact` and
`FilesPartition`. The invariant says which file and which range each item is. The
bytes need what a walk of the records yields: `StartOf` is a recursive function, and
`WalkExists`, `InFileOrder` and `NoGap` establish that it exists, that it is ordered
within a file and leaves no byte between records, each by looking at the least
sequence number at which that would fail.

### DirectorySearch

`DirectorySearch_proofs` proves `HighestLogIsFound` and `OnlySiblingsWait` for every
radix, depth, last file number and number of logs. A leaf's way is the sequence of the
directories that lead to it, one per depth. `IInv` says that the stack is in the order
of the leaves below its directories (`OrderInv`), that the search went only through
directories (`PathInv`), and that every log that counts is still ahead of it: its way
goes through a pending directory or through what is left of the one being read, or it
is not above the maximum so far (`CoverInv`). When a leaf answers, every log still
ahead lies under the stack and so in an earlier leaf. `WayFirstFile` is why the range
check never skips a directory with a canonical log. `StackInv` bounds each pending
directory's place by its depth. A directory's children can be sorted because they are
finitely many, by least counterexample (`SortedExists`).

### Clustering

`Clustering_proofs` proves `StoredConfigurationReadsBack` and
`DomainsAcceptedExactly`, for every limit and for domains of any length.
The invariant: what is published, or may be after a power loss, is among the expected
documents, and these are made of validated parts. Reading one back gives the same
value because validation is idempotent (`ParseAgain`): trimming, removing the root dot
and splitting into labels commute with lowercasing. `FineIsGrammar` and
`GrammarIsFine` relate the rules for labels to the grammar. `IpAssumption` is that std
parses an address in either case; `TornAssumption` that a torn file is no document.

### Only model-checked

* The liveness properties `CallReturns`, `InitializationSucceeds`, `EndIsReached`,
  `AcknowledgedComesOut` and `AcknowledgedIsRead`: fairness and `ENABLED` are out of
  the prover's reach.
* `RecoveredIsPrefix`, which does not hold of every instance (see the disagreement).

## What is not modelled

* Bytes: record layout, CRC, JSON syntax. A cell decodes or is torn. A checkpoint
  document that is synchronised reads back as written.
* Different record lengths in recovery, and so the plausible-position range of
  `LogFileValidator` beyond "the trusted records are there".
* Outstanding I/O of a cancelled operation that lands during the next recovery:
  the code requires the caller to quiesce it first.
* Creation and durability of the directory hierarchy above the leaves, which the
  code requires of its caller; platforms without directory synchronisation.
* A deleted file that comes back with its old contents after a new file was
  created under its name: a created path starts empty on disk here.
* Several streams: nothing is shared between them but the root directory.
* Storage failures that are not crashes in `DirectorySearch` beyond their effect, an
  error; concurrent changes to the tree, which its caller must exclude.
* `LogFilePosition::retreat`, Serde forms of locations, `Debug` and error texts.
* Merging command line, environment and configuration file (the conf crate's), and
  storage paths. Node hostnames derived from a domain of maximum length are too long;
  `ClusterMembership::hostname` documents that it does not check this, and nothing
  calls it.
* Postcard and the user's types: a body decodes, does not, or leaves bytes over.
* The executable beyond its validation; messages and the cluster protocol have no
  behaviour to model yet; benchmarks and scripts are measurements.

The models stand for most of the code that runs: in the modelled files, the lines not
mapped are mainly getters, imports, `Debug`, error types and documentation. Measured
against all lines of the repository's Rust files the share is small, because about
three quarters of those lines are inline unit tests, which the models do not
translate.

## Plan

1. *Done:* the models; the safety theorems of the writer, recovery, the reader, the
   pipe, messages, ranges, the directory search, the pool and the clustering
   configuration; both refinements of `RecordChannel`.
2. Theorem: `RecoveredIsPrefix` under the restrictions its runs have.
3. An abstract specification of a durable append-only log (appended, readable,
   durable prefixes and their loss at a crash), implemented by `IndexedLogWriter`
   and by `StreamSystem`.
4. The stream owner and replication, once the repository has them, in place of the
   external owner of `StreamSystem`.
