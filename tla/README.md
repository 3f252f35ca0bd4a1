# A TLA+ model of vtop-engine

VTOP Engine has two halves that share a repository. The **archive engine** reads
log sources (files, Kafka, a syslog spool), seals what it read into batches,
uploads each batch with a manifest to object storage, verifies it there, and only
then commits the source position; a ledger (SQLite or PostgreSQL) records how far
each batch got, and decides after a crash what is committed, resumed or read
again. The **native broker** is a replicated log: segment files on data nodes, a
Raft group for metadata, leases with fencing epochs for the leadership of each
range, and a Kafka-compatible gateway in front.

This directory holds TLA+ modules translated from that code, TLC configurations
that check them on small instances, and proofs checked by TLAPS. `PROJECT.json`
gives, for every definition, the source lines it models.

    tlc -workers 2 -config MCLedger.cfg MCLedger       # one run
    tlapm LedgerProofs.tla                             # one module's proofs

## 1. Inventory

What each part keeps, what changes it, and what is hard about it. "M" marks what
is modelled here; section 8 gives the order in which the rest is planned.

| Part | State | Operations | Hard behaviour |
|---|---|---|---|
| M batch life cycle (`vtop-core`: `state_machine`, `replay`) | a batch's state | `can_transition`, `recovery_action` | which state a crash may leave, and what recovery makes of it |
| M batch ledger (`vtop-state`) | rows: state, owner, lease generation, lease time; in the process: fence tokens, parked tokens | `save_batch`, `update_batch_state`, `mark_failed`, `mark_source_committed`, `claim_recoverable_batches`, all under a deadline | several engines on one ledger; read and write of an update are two statements; a request given up at its deadline may land later; claim answers out of order |
| M engine run loop and recovery (`vtop-cli/engine`) | pending window, in-flight windows, rewind plan | `run_cycle`, `process_until_verified`, `commit_verified`, `recover` | concurrent uploads finishing out of order, partial failure between source, storage and ledger, crash at any point, recovery that both commits and rewinds |
| M file source, continuity (`vtop-adapters`) | a cursor per path: position, generation record, committed point | `read_next_batch`, `commit_progress`, `replay_from_marker`, `seed_committed`, `delete_after_commit` | rotation, truncation in place, re-creation, inode reuse between any two of the engine's steps |
| M Kafka source (`vtop-adapters/kafka_source`) | a sticky assignment, delivery positions, a cursor per partition, the group's offsets at the broker | one read pass over every topic, `commit_progress`, `replay_from_marker` | records rejected after delivery, failed passes, commits without an answer, a renamed group, retention |
| syslog spool | spool files | rotate, read, commit | a file source with a writer of its own |
| batch assembly, manifests, checksums, partitioning | none kept | sequential transformations | data only |
| upload backends, native S3, multipart | parts of an upload, abort/complete | `put`, part upload, completion, retry | lost answers, retries of applied requests |
| M segment log (`vtop-log`) | segments, catalog, intent files, producer snapshots | append, seal, roll, truncate, retain, open | a crash between any two file operations |
| M local broker, group commit (`vtop-broker`; fetch sessions are not) | log, producer epochs, commit queue, view of the lease | produce, flush, promotion marker; grants and releases observed | requests of several producers and epochs in one group; retries of what was appended; the lease re-checked around an unlocked fan-out |
| M replication (`vtop-broker/replication`, `fencing_epochs`, `committed_floor`) | per replica: log, epoch history, held epoch, cluster watermark and its durable floor; per stream: channel, windows, retransmission buffer | append, watermark update, fence with reconciliation, truncation; send, answer, reconnect, catch up | lost and late messages, deposed leaders, followers that missed a fence, connections that break under a full window |
| M lease agent, promotion (`vtop-node`) | decision state, verified epoch, unanswered report, hold-off | acquire, renew, probe, establish, report, promote, demote, release | the lease can lapse between any two of them |
| M metadata state machine (`vtop-meta/state`) | nodes, topics, ranges, leases, transitions, replica sets, segments, placements, groups, cursors, dedup window | one command at a time | retries, superseded reports, CAS on generations |
| M metadata Raft storage (`vtop-meta/storage`, the adapter in `vtop-meta/raft`) | chunked log, vote, applied and purged frontiers, membership sidecar, snapshots | append, truncate, apply, purge, snapshot, install, open | a crash between any two files; the library's order of purge and install |
| metadata consensus client and transport | proposals in flight | propose, fenced reads, forwarding | retries of proposals that landed |
| M Kafka gateway: groups, offset commits, produce (`vtop-kafka`) | groups and parked requests; cached cursors; turnstiles and producer gaps | join, sync, heartbeat, leave, sweep; commit, fetch; produce | expiry racing completion; cached generations; writes that outlive their requests |
| Kafka gateway: remote and dual ranges | served ranges | route | which side serves while leadership moves |
| M (in part) memory budget | reserved bytes | reserve, transfer, release | release on every path, charges that travel with a batch |
| transports, codecs, CLI, configuration, telemetry | none the properties tell apart | - | - |

How they interact. The engine drives a source, the upload backend and the ledger
in a fixed order: read, save a row, upload, verify, commit the source, mark the
row. Everything it must survive happens between two of those calls. In the
broker, a data node's lease agent asks the metadata group for a range, fences the
other replicas at the epoch it was granted, establishes from their answers how
much of the log is committed, reports that to the metadata group and only then
serves; its followers accept appends only from the epoch they hold.

What must hold, in one line each. Archive: a byte of a source is never passed
over without being in the archive or in a batch that recovery will read again;
nothing is committed before it is verified; only the engine that holds a batch's
newest lease changes it; every complete file is archived eventually. Broker: an
acknowledged record stays in the log of every later leader; two consumers never
read different records at one offset; one leader per epoch.

## 2. Modules

### BatchState

The batch life cycle as operators: the states, `CanTransition` and the recovery
action of each state (`state_machine.rs`, `replay.rs`). Both halves of the archive
model use it.

### Ledger

Several engine processes ("sessions") on one ledger. A session keeps, per batch, a
fence token: the lease generation it was granted. An engine and its restart have
the same owner *name* and different sessions, which is what makes the generation
necessary.

| State | Code |
|---|---|
| `rows` | the `batches` table: state, owner, lease generation, lease expiry |
| `clock` | the database's clock, in lease units |
| `tokens`, `parked` | `ClaimFence`: the generations a session holds, and the order it parked them in; parking one too many forgets the token parked longest ago, if it still is parked (`fence.rs`) |
| `ops` | the call a session is in, with what it has read so far |
| `claims` | claims the ledger granted and whose answer is on its way |
| `orphans` | statements whose caller gave up at the deadline and that may still land |

Actions: `Save`, `SaveTimedOut`; `BeginUpdate`, `ReadState`, `WriteState`,
`Wrote`, `LostClaim`, `Abandon` (the read, the conditional write and the
zero-rows-affected check of `update_batch_state` are separate steps);
`LateWrite` (an abandoned statement lands); `Claim`, `ClaimReturned`, `ClaimLost`
(`claim_recoverable_batches` and its answer); `Crash`; `Tick`.

### Continuity, FileSource, ArchiveEngine

`Continuity` has the generation record of a path and the predicate that decides
whether what is there now continues it (`continuity.rs`). `FileSource` has the
adapter's cursor and its operations as operators on a cursor and a file: read,
failed read, commit, replay, seed, delete (`file_source.rs`). `ArchiveEngine`
composes them with the ledger's rows and the run loop (`engine.rs`):

| State | Code |
|---|---|
| `file`, `inodes` | what is at the path: inode, length, and a content number only the properties see |
| `cursor` | the adapter's entry for the path |
| `pending` | `PendingBuffer` |
| `rows` | ledger rows in creation order: state, whether its object is intact, the range read |
| `work` | the windows of the current cycle and what became of each |
| `erase` | the delete of a commit: its stage, and (history) the file as it last looked |
| `plan` | recovery's lists: to replay, to commit, and where each rewind landed |
| `pc`, `at` | the step of `run_cycle` or `recover` and its position in the list |
| `told` | history: the content the cursor last observed |

One byte of the model is one complete line of the file. The pipeline states before
VERIFIED are one row state, `Batching`, because recovery treats them alike.
Actions, in the order of the code: `ReadCycle`/`FailedReadCycle`/`NoSourceCycle`
(read, route to the pending window, seal, dispatch); `SaveRow`, `ReachVerified`
and their failing forms, interleaved over the windows of the cycle;
`CommitVerified`, `MarkCommitted`, `SkipCommit`, `Rewind` (serial, in read order);
`DeleteCheck`, `Unlink` (the second look of a delete and the removal, with the world free
to move before each);
`Crash`, `Start`, `ScanSkip`, `ScanVerified`, `ScanReplay`, `ScanUnrecorded`,
`Land`, `HoldBack`, `Recommit`, `RecommitMarked`, `RecommitUnmarked`, `Replay` (the recovery);
`Write`, `Rotate`, `Truncate`, `Create`, `Rot` (the world). A failed ledger
request has an unknown outcome: the model lets it take effect or not.

### EpochHistory, Promotion, Replication

`EpochHistory` has the fencing-epoch journal as operators on a sequence of
(epoch, first offset) pairs: recording an adoption, truncating, re-anchoring,
attaching to a log after a restart, and the comparison of two histories that
decides where a replica must cut (`fencing_epochs.rs`). `Promotion` has
`establish`, the decision a candidate takes from the answers it has
(`promotion.rs`). `Replication` composes them into one range:

| State | Code |
|---|---|
| `lease`, `outcome` | metadata: the newest epoch granted, and what each promotion reported (`state.rs`) |
| `role` | the supervisor's phase of the range on a node (`data_node.rs`) |
| `log`, `history`, `floor` | a replica's files: segment set, epoch journal, committed floor |
| `held`, `broken`, `cell` | the follower object: the epoch it holds, whether its journal refused one, the watermark it knows |
| `view`, `active` | the node's metadata view: newest epoch seen granted, and whether that lease is live |
| `probe` | a candidate's round: epoch, history sent, answers, boundary, whether its report was sent and answered |
| `fencing` | a fence request between its checks and its answer: the stage it is in and where it cuts |
| `requests` | replica appends, each with the leader's end when it was sent (`upto`); one in the set may be delivered again, or never |
| `acks`, `hwms` | answers that cover a request's `upto`, counted per request as a fan-out is; published watermarks |
| `acked`, `late`, `overtaken`, `raced` | history, for the properties only |

A record is the epoch that wrote it: an epoch has one leader, which never shortens
its log, so epoch and offset identify a record. Actions: `Acquire`, `Observe` (the
lease agent); `FenceLocally`, `Established`, `StandAside`, `Report`, `ReportUnanswered`,
`Promote`, `StandDown` (a promotion); `FenceAdopt`, `FenceCompares`, `FenceBounded`,
`FenceRefused`, `FenceCutsLog`, `FenceCutsHistory`, `FenceAnswers` (a fence request, one
step for each lock the code takes, since it holds none across them); `AppendLocal`,
`Resend`, `Commit`, `Demote` (the leader); `ApplyAppend`, `ObserveHwm` (the follower);
`Crash` (at any stage of a fence too), `Restart`.

Abstracted: lease time (a lease may be granted anew at any moment, which includes
every clock skew); batches (one record each); the connections, which `ReplicaStream` has. A promotion
leaves the watermark where it was until a record of the new epoch is committed; the
driver that publishes a marker record for that is not modelled (section 6). The epoch
checks of a fence and its adoption are one step. Saving the floor is one step
with the append it follows. A node answers one fence at a time, a leader's replica
plane answers none, and a promotion starts its leader only after the fence in
progress on that node has finished (the drain in `complete_promotion`). There is no
retention, so every log starts at offset 0, and no repair by segment transfer.

### MetaRanges, MetaSegments, MetaGroups, Metadata, RangeLease

The metadata state machine, split by what a command touches: `MetaRanges` (feature
level, nodes, topics, ranges with their leases, the chain of transitions, replica
sets, splits), `MetaSegments` (sealed segments, placement, replacement proofs,
rebalance, cold copies, retention), `MetaGroups` (groups, members, cursors).
`Metadata` composes them with the leader's clock. Every map of the code's keyed
records is a function whose domain is the records that exist:

| State | Code |
|---|---|
| `level`, `nodes`, `topics` | `ClusterConfigRecord`, `NodeRecord`, the epoch of `TopicRecord` |
| `ranges` | `RangeRecord`: key interval, lineage, epoch, lease, seal of a split |
| `chain`, `sets` | `RangeTransitionRecord` by epoch, `RangeReplicaSetRecord` |
| `segments`, `placement`, `intent`, `proof`, `tier`, `policy` | the records of a segment's replicas and of its deletion |
| `members`, `cursors` | `GroupMemberRecord`, `CursorCheckpointRecord` |
| `now`, `promised`, `allowed` | the leader's clock; history, for the properties only |

One action per command the code accepts, named after it. A refused command changes
nothing. A compare-and-set token that does not match is refused, so an action is a
command whose token matches with every other argument arbitrary; since any command
may come at any moment, commands sent twice and commands of proposers that lag are
among them, and the deduplication table, which only removes some of these, is left
out. A lease command's clock reading lies within the bound the leader judges it by
(`SkewBound`). The evidence of an established promotion is the set of nodes that
answered at or above the holder's own offset. The rendezvous ranking is any order, so
a selection is any set of active nodes in distinct failure domains. A heartbeat only
moves the index an expiry is judged by, and the horizon is the proposer's argument,
so any member may be expired. Key records and the limits on list lengths are left
out, and `CancelRetention`, which the code always refuses, has no action.

`RangeLease` is what the data plane is promised: each grant mints the next epoch, to
one holder for good, and only the newest epoch is ever in force. `Replication` takes
its `Acquire` to be such a grant.

### SegmentStore, SegmentFiles, SegmentSet, RangeLog

One range's files on one node, one file operation at a time. `SegmentStore` is the
file system as the code uses it (external): operations take effect in what the
process sees at once, a sync makes them durable, and after a power loss any
combination of the unsynced ones a journalling file system can leave is there
(`Survivors`). `SegmentFiles` has the files of a segment set (segment body and
header, commit boundary, manifest, producer sidecar, the truncation and retention
markers) and the operation lists of append, commit, roll, truncation and retention,
with the repairs an open performs. `SegmentSet` is the process:

| State | Code |
|---|---|
| `store`, `dir` | what is durable with what is pending, and what the process sees |
| `mode`, `todo`, `retaining` | what the process is doing, and the operations left of its call |
| `mem` | the `SegmentSet` value: sealed segments, the tail's base, limit, next offset, committed offset, producer frontier |
| `acked` | what the cluster acknowledged: the replica retains nothing above and cuts nothing below |
| `log`, `base`, `may`, `keep` | the committed records the files stand for, and what an unfinished call may leave |
| `unsynced`, `trusted`, `lost` | history: operations a killed process left unsynced, those a later open relied on, and whether a power loss then came |

Actions: `AppendToTail`, `AppendRolling`, `Commit`, `RollMinting`, `Reconfigure`,
`TruncateInTail`, `TruncateAcrossSegments`, `Retain`, `RetainPanics`, `FailRetain`,
`Acknowledge`; `Step` (the next file operation of the call); `Kill`, `PowerLoss`;
`Open`, `FinishFirst`, `RepairRollWindow`, `OpenLayout`, `Adopt`, `AdoptLayout`.
`RangeLog` is what the range promises: a sequence of committed records that one call
at a time extends, cuts or reclaims, and a crash leaves before or after that call; once
`lost`, the range has no promise left to keep.

### MetaStore

The durable half of one metadata voter, on the same file system (`SegmentStore`) and
at the same grain: every call is a list of file operations, and a crash may come
between any two. An entry is a term and a kind (command or membership), and the
state machine is the sequence of entries it has applied, so that "the right state"
means "a prefix of what the group committed".

| State | Code |
|---|---|
| `rstore`, `rdir` | what is durable with what is pending, and what the process sees: chunks, hard state, `applied`, `purged`, the membership sidecar, snapshots |
| `rmode`, `rtodo` | down, opening or up, and the operations left of the call in progress |
| `rmem` | `MetaStorage` and `MetaRaftInner`: applied frontier, state, purged frontier, membership id |
| `plan`, `chosen` | commands the Raft library has queued; what the group has committed (external) |
| `told` | what the calls have answered, for the properties |
| `rleft` | history: the same three as `SegmentSet`'s `unsynced`, `trusted`, `lost` |

Actions: `OpenStore`, `SaveVote`, `AppendEntries`, `AppendRefused`, `Truncate`,
`Apply_through`, `BuildSnapshot`, `Purge`, `ReceiveSnapshot`; `MetaFileStep` and
`MetaFinish` (the call's next operation, and its answer), `RunPlan`; `MetaKill`,
`MetaPowerLoss`; `Commit_entry`. The last one, `plan` and the choice of what a leader
sends are the library as the adapter meets it. The recovery of the membership id
(`member`) is followed as the code has it, and no property is about it. A file operation that fails stops the
Raft core, which is a kill.

### KafkaGroups, CommitTokens, KafkaCommits, KafkaProduce

`KafkaGroups` is the group coordinator (`groups.rs`) with its clients: members by
id with their offered protocols and sessions, the rebalance round, the joins and
syncs that are parked, the sweep, shutdown. Time is a tick; a parked request has a
deadline of its own, longer than the round's by a grace that outlasts a period of the
sweep (`TimesAssumption`). `CommitTokens` is what it promises the offset path: a commit
token names a round and is good only in that round.

`KafkaCommits` is an offset commit (`metadata_offsets.rs`, `lease.rs`,
`turnstile.rs`): two gateways with a cache of cursor generations each, the lease
that says which of them serves the group, compare-and-set proposals to the metadata
plane whose answers can be lost or late, the turnstile that orders writes which
outlive their requests.

`KafkaProduce` is the produce path of an idempotent producer (`gateway.rs`,
`native.rs`): sessions, appends that outlive a deadline, the turnstile a partition's
sets queue in, in the gateway and again in the bridge, and the gap the bridge
remembers when a set failed part-way, until it is settled, overwritten or evicted. Three
histories serve the properties: `split` (a second line beside one in use), `exposed` (sets
turned away, or whose gap was dropped, not landed since) and `orphan` (a gap noted for a
set that had been answered for good).

| Module | State | Code |
|---|---|---|
| `KafkaGroups` | `group`, `client`, `now`, ... | `Group`, `Member`, `Parked`, the caller's view |
| `KafkaCommits` | cached cursors, calls in progress, the plane's cursor and lease, the line of writes | `MetadataOffsets`, `CommitTurn`, `Turnstile` |
| `KafkaProduce` | `job`, `line`, the gap, the log's frontier | `OrderMap`, `ProducerGaps`, the appends in flight |

### KafkaSource, KafkaIngest

`KafkaSource` has the adapter (`kafka_source.rs`) as a record and its operations as
operators on it: the sticky assignment, the seek of what diverged and the resume of
what was paused, `MultiTopicAcc` with a topic's budget, the end of a pass, commit, and
replay with its clamp. Beside the adapter's fields the record has what the client
library keeps behind them (external): the next offset of each partition, and the
partitions whose fetcher never started. `KafkaIngest` is the engine over it:

| State | Code |
|---|---|
| `low`, `offset` | the broker: what retention left, and each group's committed offsets |
| `group`, `src`, `acc` | the configured group, the adapter, the pass in progress |
| `pending`, `work`, `rows`, `plan`, `pc` | as in `ArchiveEngine`, a window per partition |
| `archived` | history: which record is in a verified object, for which group |

Actions: `StartPass`, `SeekFails`, `Poll`, `PollFails`, `EndPass` (the read pass);
`Flush`; `SaveRow`, `ReachVerified`, `BatchFails` and the ledger failures, concurrent
over the cycle's windows; `Commit`, `Mark`, `HandBack`; `Crash`, `Rename`, `Recover`,
`Land`, `Recommit`, `RecommitUnmarked`, `Resume`; `Expire`. The accounting of what
retention removed and the single-topic read are left out.

### ReplicaStream, Broker, FencingEpoch, FencingView

The write side of a range. `FencingEpoch` has the view a process keeps of the lease,
as operators: a grant, a release and a suspension published to it. `FencingView` is
that view beside the metadata plane it is told of, in any order and any number of
times.

`Broker` is the produce path of a leader (`lib.rs`, `group_commit.rs`) with its
producers and followers:

| State | Code |
|---|---|
| `log`, `journal`, `hwm` | the records with producer, epoch and sequence; the producer-epoch journal; `cluster_committed` |
| `held`, `view` | `held_fencing_epoch`, `meta_fencing_epoch` |
| `calls`, `waiting`, `leading`, `flushes` | the produce calls, the group-commit queue, its leader, and the flush each call runs |
| `copy`, `sentTo` | the followers, and every request ever sent to one |
| `session` | what each producer session waits for |

Actions: `Join`, `Alone`, `Refuse` (a call, with or without group commit, or one the
budget or a full queue turns away); `Collect`, `AppendRefused`, `AppendAnswered`,
`AppendSent`, `Unanswered`, `PublishGroup`, `LeadOn` (the flush: admission, the
journal, the append, the fan-out without the lock, the lease looked at again, the
watermark); `Deliver`, `FollowerCrash`; `Regrant`, `AdoptHeld`, `Pause`, `Reactivate`;
`Hear`, `Lose`. A request that was sent may arrive late, out of order, again or never.
A session sends one request at a time and retries it as it was.

`ReplicaStream` is what carries those requests to one follower (`network.rs`): the
waiters, the channel, the driver with its windows, its retransmission buffer and its
charges, a connection of one FIFO each way, and the follower's answers.

| State | Code |
|---|---|
| `flush`, `end`, `cell`, `watch` | the flushes in progress, the leader's log, `cluster_committed`, the watch channel of the mark |
| `drv`, `queue`, `pending`, `buffer`, `inflight`, `used`, `status` | `FollowerDriver`: phase, commands, batches to send first, retransmission buffer, unanswered batches, catch-up charge, the answer to the probe |
| `conn`, `to`, `from`, `old` | the connection, and frames of ended ones still unread |
| `fol` | the follower's tail, durable offset, mark and epoch |

Actions: `AppendGroup`, `RetryGroup`, `Submit`, `AckTimeout`, `Quorum`, `NoQuorum`,
`Publish` (the flush); `Connect`, `Resume`, `Pump`, `RecvCmd`, `RecvHwm`,
`RecvAnswer`, `ReadFails`, `Shutdown` (the driver); `Serve`, `ServeOld`, `AdoptEpoch`
(the follower); `Break`, `Crash`. Group commit is attached
by the library's users and its tests; the node starts its brokers without it.

## 3. Runs

Each `MC` module names a set of scenario records; the initial state picks one and
keeps it, so one run is the union of several small instances, each shaped so that
one kind of history happens in it.

| Run | Shows |
|---|---|
| `ledger` | With engines that contend, restart, retry and time out, only the holder of a row's newest generation changes it (`ExclusiveClaim`, `FencedWrites`), and the newest grant keeps its token (`NewestClaimKeepsToken`) when answers arrive out of order or parked tokens are evicted |
| `archive_safety` | The engine passes over no byte that was not verified in the archive once (`NoSkip`), with any three faults and a crash, and through rotations and truncations it can see; `delete_after_commit` removes only bytes that were archived or that came after it had looked (`DeleteArchived`) |
| `archive_live` | Under fairness, once faults, crashes and rotations end every byte of the final file has been verified in the archive (`EventuallyArchived`); recovery never commits over bytes it is about to read again (`RecoveryHoldsBack`) |
| `archive_replay_regrown` | violation: a failed range of truncated content rewinds into the new content |
| `ingest` | Two Kafka topics through one assignment: a group's committed offset never passes a record that is not archived for that group (`CommittedArchived`), and every record that can be read is archived in the end or expires (`EventuallyConsumed`), with failed passes and batches, refused and unanswered commits, lost objects, crashes during recovery, a renamed group and retention |
| `replication` | Through leadership changes, lost and repeated messages and crashes, a replica's history names the epoch that wrote each record it has, and no reconciliation or restart goes below what it knows to be committed, unless the replica moved in the middle of a truncation (`HistoryTrue`); a promotion is never established below an exposed boundary, also when a report landed and its answer did not (`ExposedFloored`); an answer a candidate counts stays true until the decision (`VoteStands`); a deposed leader publishes nothing it wrote after its successor was established (`SupersededCannotCommit`) |
| `replication_acked` | violation: a promotion by a lagging replica makes the replica ahead drop an acknowledged record |
| `broker` | Produce: an acknowledged record is in the log once, where the answer says, and a majority holds it there durably (`AckedOnce`); no follower ever holds another record in its place (`SameRecords`); every call returns (`EveryCallReturns`). Stream: every byte kept for retransmission is charged once (`ChargedOnce`), and a follower for which nothing was dropped for want of room or by a failed write ends with everything its leader has (`CaughtUp`). View of the lease: it serves only what it was told is granted, newest and not released, and agrees with the metadata plane once it was told everything (`ServesOnlyLive`) |
| `metadata` | Under every order of commands: the chain has each epoch once and the lease is the newest's (`EpochChain`), and what the data plane sees is an abstract lease (`ImplementsRangeLease`); an election takes a lease only after its holder's deadline, less the clock bound twice (`LeaseLasts`); splits keep each key with one open range and no segment beyond a barrier (`SplitsExact`); a range has one owner in a group (`OneOwner`) and a cursor moves back only as a head cursor (`CursorsKeepPlace`); a rebalance costs no copy (`RebalanceKeepsCopies`); deletion is backed by a pinned cold copy or the topic's policy (`DeletionBacked`) |
| `storage` | Segments: at every file operation and after every kill and power loss, during a repair too, the files stand for the committed records before or after the call in progress (`ImplementsRangeLog`); what was acknowledged and not reclaimed is read back as it was, across segments without a gap, and a new tail expects its producers where the records end (`AckedReadable`); the range opens again (`Reopens`). Metadata voter: at every file operation the directory could be opened, and what would be replayed is a prefix of what the group committed that has everything answered for (`RecoversChosen`); votes and entries that were answered are on disk (`AnsweredKept`); what is reported to the Raft library has no hole and the next append is accepted (`NoHole`). Both: until a power loss undoes what an open had relied on after a kill (section 6) |
| `kafka` | A parked join or sync is answered before its own wait ends (`NoWaitRunsOut`), groups settle (`EventuallySettled`), a token of an earlier round is never good again (`ImplementsCommitTokens`); a commit reports failure only when something really moved (`GivesUpOnlyWhenMoved`) and an older write never lands over a newer one (`NewestCommitStands`); an idempotent producer's set reaches the log past a missing one only if that one was turned away unremembered or the line was split (`NeverOutOfOrder`), and every set is acknowledged in the end unless one was refused or a gap was noted for a set answered before (`EventuallyAcked`) |
| `kafka_split_line` | violation: two lines for one producer, because a finished append clears an entry that is no longer its own |

### Bounds

*Ledger*: two sessions of one owner and one of another, one or two batches, up to
two clock ticks, two generations beyond the insert, one or two requests in flight
(records `Contended`, `Reclaimed`, `Restarted`, `WholeLife`, `Crowded`). A race
over a row needs two sessions, a stale write a superseded generation and one late
statement; the proofs of section 5 cover every other size.

*Archive*: contents of two or three lines, two contents at the path, up to three
faults and two crashes. A skip needs a range that failed, a later range that
committed, and a read in between, which two lines and two windows give; a third
line lets a truncated file be shorter than, equal to, and longer than what was
read. `AnyThree` has any three of all the faults, an object lost while the engine is down
included, with a crash; `Damaged` two of those that meet at recovery, with two crashes;
the others a rotation, a truncation (also with a crash) and the delete, each with one
fault of the pipeline. `MaxIssued` caps the number of ledger rows.

*Ingest*: topic `a` with two partitions and topic `b` with one, at most two records
each, two groups. A topic's budget in a pass is three records or two bytes, so the
first record of `a0` fills its topic alone, the next is delivered and rejected, and the
second record of `b0` fits no pass at all. Nine scenarios choose which of fourteen
faults may strike and how often (up to three), with up to two crashes (a second one
hits recovery), one rename and one expired record. A skip needs a range that failed
below one that committed; the clamp of a rewind needs a commit the process did not
hear of.

*Replication*: up to three replicas, three epochs, logs of two records, one crash.
The scenarios are `Crashing` (two replicas of a fresh range, a change of leader where
both write, one crash), `Succession` (a finished epoch whose record one, two or all
replicas hold; the crash where a majority has it), `Deposed` (the old leader writes on,
`writers` stops the new one), `Retried` (records of an old epoch sent again under new
ones, over two more epochs, or on two replicas beside new records) and `Contention` (two
replicas, three epochs, so that a fence can be overtaken); `replication_acked` uses
`Takeover`, one record and one change of leader. A divergence needs two
epochs and one record each has that the other lacks; an overtaken fence needs a
third epoch; a majority that is not everyone needs three replicas. Nodes are
symmetric.

*Broker*: the three parts share no variable, so each behaviour has one of them at work.
Produce: one or two followers, up to three sessions of one or two records, three calls,
and per scenario one lost answer, grant, suspension, follower crash or torn epoch
record; queues, groups and budgets that fill up; a window of one sequence; conflicting
content; an older and a newer producer epoch in both formats; a marker; no followers.
A retry that straddles groups needs two sessions and a lost answer; a majority that is
not everyone needs two followers. Stream: two or three batches, two breaks, one crash,
one timeout; in half of the scenarios a window, the buffer or a budget is too small.
`OldBound` lets two frames of ended connections be unread at a dial. View: three
epochs; the proof of section 5 covers any number.

*Metadata*: three nodes in two failure domains, up to five ranges of a four-key space
(two levels of splits), up to three epochs of a range, two segments, one group of one
or two members. A segment's generation is capped at 5, which is a verification, a
whole move and a whole deletion. The lease lasts ten ticks with a skew bound of one,
and the clock runs ten: long enough for a lease to lapse and be renewed at every
reading. A command carries its own `lease_duration_ms`; here all of them ask for the same
(`Duration`). It is a setting of each node (`config.rs`), and nodes set differently are
not modelled. The scenarios pair the commands that share state: `Leases`, `Founding`,
`Sets`, `SplitSets`, `Splits`, `Barriers`, `Moves`, `Dying` (nodes fail under a move),
`Apart` (domains change), `Retention`, `Churn`, `Cursors`, `Reading` (cursors under
retention) and `Inherited` (a cursor of the release before lineages). Nodes are
symmetric. A run may stop when its bounds are used up, so deadlock is not checked.

*Segment log*: up to three records in segments of one, two or three, two rolls, two
cuts, two crashes, the second of them during the repair of the first. A crossing
truncation needs two sealed segments; a repair of a repair two crashes; the group
that does not fit the tail a limit of two. `Killing` has two crashes, each a kill or a
power loss, so that an open relies on what a killed process had not synced; the others
have power losses, which include what a kill leaves.

*Metadata store*: three log indexes (`MaxIndex`), chunks of one or two entries, two
terms, three snapshots (the third retires the first), one or two crashes, the second
during the repair of the first. A conflicting tail needs two terms, a rotation two
entries in chunks of one, a purge that removes a chunk and leaves one three indexes.
`Overtaking` has the library's early purge. No append comes between that purge and its
install: the model runs what is queued before it takes another call, and whether the
library could append there is not explored. `Voting`, `Restarting` and
`RestartingInstall` have kills and power losses one after the other. It and the segment
log share no state, so each behaviour of the run has one of them at work, beside a range that only opens.

*Kafka*: two or three clients with one or two protocols, up to six member ids, two
troubles (leave, cut connection, refused assignment, stop, shutdown), clocks that
clients lag behind by up to two ticks; two gateways, one commit call of each kind
with two moves of lease, group or member or one lost answer and one fetch; three sets in
flight of one or two chunks with up to two failed chunks and two deadlines, with a set
reached past its deadline and an evicted gap, or two sets with a restart or a dropped
connection beside a failure or a deadline. A set that dies past one that was turned away
takes three sets; a gap that no retry fills takes a dropped connection and a failure. The
three parts share no state, so each behaviour of the run has one of them at work. A split
line takes four sets and four deadlines, which only `kafka_split_line` has.

### What the environment is assumed not to do

The archive runs exclude, by name, the histories the code documents as invisible
to it: `GrowthTold` (a truncated file that regrows past the cursor before it is
looked at), `ReplayTold` and `RestartTold` (the same under a failed range and
under rows a restart finds, a reused inode number included; a row of any state, so the
length check of a replay at recovery is exercised on shorter files only).
`archive_replay_regrown` drops `ReplayTold` and
shows why it is needed although the code claims to refuse that case. An object
is damaged only while the engine is down (`Rot`), and not in the scenarios that truncate,
where the clamped rewind of section 6 would meet another content. The model has no
truncation in the middle of a read, no modification times, and no pruning of ledger rows.

In `broker` a producer retries a request as it was sent (section 6 says what happens
otherwise), and a lost connection shows on the reading side where `CaughtUp` is claimed.
In `ingest` an object is lost only while the engine is down and before its range was
committed, and the group has one consumer, as the adapter assigns its partitions itself.

## 4. Fairness

*Archive*: weak fairness of the read cycle with a flush (the
run loop never stops cycling, and a pending window reaches its age limit), of the
pipelines, of the serial commits, and of start-up and recovery (a supervisor
starts the engine again). Faults, crashes, rotations and writes are never fair;
each is bounded by its scenario, which is how "once they end" is expressed.

*Ingest*: weak fairness of the cycle, of recovery and of each window's pipeline. A poll
that has a record to deliver gets it infinitely often if it can infinitely often
(strong: the poll has the whole wait of every pass), and so is a waiting window sealed
(a window has a maximal age).

*Broker*: a caller runs its flush to the end, since replication has a timeout; this is
weak fairness of `FlushStep` with its enabling condition written out. In the stream the
flushes, the driver, and the follower's connection and watcher tasks are each weakly
fair, and the driver's two select arms that compete with answers (`RecvCmd`,
`RecvHwm`) strongly, because `select!` takes its ready branches in random order.
Deliveries, breaks, crashes, losses and lease changes are never fair.

*Segment log*: calls run to their end, a stopped node is started again, and an
operator adopts a range the open refused for lack of a tail, as its error tells them. Nothing is assumed of the metadata store, which has safety properties only.

*Kafka*: the clock and the sweep go on (the gateway's sweep task runs for the life of
the process) and each client that is up answers within its lag; a commit makes no
liveness claim; an append runs to its end, because its task is spawned and not bound
to the request, and a client retries what it is told to retry.

## 5. Proofs

Eight modules hold theorems, checked by `tlapm`. Each theorem is of the form
`Spec => []P`, `Spec => [][A]_vars` or `Spec => Abstract!Spec`, for every value of the
constants that satisfies the named assumptions; the scenario records are constants too,
so a theorem covers any number of nodes, records, epochs, faults and crashes where the
run has a few. Each inductive invariant was checked by TLC on the run's instance first,
where it quantifies over the naturals with a bound.

| Module | Theorem | Property |
|---|---|---|
| `LedgerProofs` | `TypeCorrect`, `LegalTransitionsHold` | types; rows move only along `CanTransition` (not checked by a run) |
| | `ExclusiveClaimHolds`, `FencedWritesHold`, `NewestClaimKeepsTokenHolds` | the three of run `ledger` |
| `VoteProofs` | `VoteStandsHolds` | `VoteStands` |
| `HistoryProofs` | `HistoryTrueHolds` | `HistoryTrue` |
| `SealProofs` | `ExposedFlooredHolds`, `SupersededCannotCommitHolds` | the other two of run `replication` |
| `FencingViewProofs` | `ServesOnlyLiveHolds` | `ServesOnlyLive` of run `broker` |
| `MetadataProofs` | `EpochChainHolds`, `ImplementsRangeLeaseHolds`, `LeaseLastsHolds`, `OneOwnerHolds`, `CursorsKeepPlaceHolds`, `SplitsExactHolds`, `DeletionBackedHolds`, `RebalanceKeepsCopiesHolds` | all eight of run `metadata` |
| `KafkaCommitProofs` | `GivesUpOnlyWhenMovedHolds`, `NewestCommitStandsHolds` | the two on offset commits of run `kafka` |
| `KafkaGroupProofs` | `ImplementsCommitTokensHolds`, `NoWaitRunsOutHolds` | the two on the coordinator of run `kafka` |

### Ledger

`ExclusiveClaim` is not inductive: a token can come from an answer on its way, and a
write from a call that read the row before it changed hands. `ClaimInv` adds what is
needed: no generation in a token (`TokensFenced`), a running call (`OpsFenced`), an
unanswered claim (`ClaimsFenced`) or an abandoned statement (`OrphansFenced`) is above
the row's, and each one at the row's own generation belongs to one session.
`StatementsLegal` adds that every statement about to be executed names the state it
expects, and that pair is a legal transition. `KeepInv` adds that nothing a session was
granted is above the row either (`GrantsFenced`), so an answer that arrives late cannot
replace a newer token, and an eviction only takes a token that is still parked.
Assumptions: owners are owners, the limits are naturals, the bounds of a behaviour name
sessions, batches and states that exist.

### Replication

Three modules over one specification; `VoteInv` is what they share. A vote stands
because of who may hold an epoch: an epoch has one owner (`EpochsOwned`), a fence under
way was asked for by the owner of its epoch (`FencesOwned`), only a promotion that was
reported leads and only leaders append (`LeadsReported`), and a node that voted under
the lease in force follows it or has forgotten everything (`VotersFollow`). Nothing in it
is about histories. `FanInv` adds that a fan-out covers only what its leader holds, and
that a promotion is reported before its first append.

`HistoryInv` says of every journal that it is ordered, can be cut at any offset
(`Cuttable`; the operators choose the place to cut) and ends with the epoch its replica
writes under, and that the entry that owns each offset is of the epoch in the log there
(`Owns`); of the watermarks that they are within the log (`MarksTrue`); and of a
truncation under way that it is not below the watermark and, between its two cuts, that
the log still ends where it was cut (`CutTrue`). The last is what a step of the replica in
the middle of a truncation breaks, so all of it is claimed of replicas outside `raced`;
which steps put a replica there is part of the specification, and every other
interleaving of a fence with appends, watermarks, adoptions and crashes is covered. The
lemmas before it are what each journal operator (adopt, truncate, re-anchor, attach after
a crash, compare) does to these.

`SealInv` has the quorum argument. A replica that moved to an epoch takes no append of an
earlier one (`Moved`), whoever voted has moved (`VotersMoved`), and an earlier epoch is
`Shut` at an offset when some majority moved on having told its leader of nothing beyond
it; a commit needs a majority that meets that one. Every boundary decided or reported is
then not below an earlier one's, or that epoch was shut unused (`BoundariesAbove`), and
every record that was written late belongs to an epoch shut at or below it (`LateShut`).
`LevelInv` adds that a leader serves at least its floor. The step from one epoch to all
earlier ones is an induction on epochs; it is done with the well-foundedness of `<` on
the naturals, applied to a set of offending epochs, since no prover here can instantiate
an induction theorem that takes a predicate.

Assumptions: a finite, non-empty set of nodes (`NodesAssumption`), and that an inherited
log was written under an epoch that was granted (`ScenarioAssumption`). `HistoryTrue` is
about which epoch owns a record only in ranges without retries of old records, as in the
run; its other clauses have no such condition.

### Lease view

Of the view alone one cannot see that an epoch it serves was granted and not released, so
`ViewInv` relates it to what was published: its epoch is the newest it was told of and
`released_through` the newest release (`Newest`), a view that serves was told of its grant
(`Granted`), observers publish only what metadata committed (`Honest`), and the metadata
plane's lease is live unless released (`Recorded`). `MaxEpoch` is a natural.

### Metadata

One lemma per command says what it does to leases, shapes of ranges and segments; the
properties follow from those. `ChainInv`: the chain has exactly the epochs minted and a
lease in force is the newest epoch's, which also gives the refinement of `RangeLease`.
`TimeInv`: nobody was promised more than its own deadline less the clock error.
`KeysInv`: ranges are aligned to their width, and every key of a topic has one range that
is not sealed; a split keeps this by arithmetic on powers of two. `SegmentInv`: no segment
reaches past a barrier, a proof belongs to a move in flight, a policy in force is one that
was allowed; `RecordInv` joins the three. Assumptions: `NoNode` is no node, the lease length and
the least skew bound are naturals (`ClockAssumption`), the scenarios' limits are naturals,
and `KeyBitsAssumption`, whose second half only states the law of powers of two, which the
provers do not know.

### Kafka gateway

Offset commits, `CommitInv`: from its judgement to its end a commit holds its gateway's
turn (`TurnHeld`), whatever is remembered of the cursor is its past (`PastKnown`), the
lease of an epoch is one gateway's (`LeaseOfOne`), and a proposal that could still be
taken was judged after the cursor (`JudgedInOrder`). `TriesCounted` is why
`CAS_ATTEMPTS` is four: while nothing else moves the plane, each attempt corrects the
membership, the lineage or the checkpoint. `CommitsAssumption`: there is a gateway,
requests are numbered, a lineage is a natural.

Group coordinator, `CoordInv`: a member waits to join only while a round is open and to
sync only while one completes, and no deadline is earlier than the sweep leaves it
(`GroupInv`); an id is a member's or waits to become one's, and a token that was good is
of an id that is gone or of an earlier generation (`TokenInv`); a parked request is its
member's waiter and outlasts the group's deadline by the grace (`ClientInv`). Each
operation on a group is first shown to stay within a generation (`Turns`) or to end it
(`Closes`); both theorems follow from that. `TimesAssumption`: the grace is longer than
one period of the sweep.

### Only model-checked

* *Liveness* (`EventuallyArchived`, `EventuallyConsumed`, `EventuallySettled`,
  `EventuallyAcked`, `CaughtUp`, `EveryCallReturns`, `Reopens`): fairness and ENABLED are
  outside the prover.
* *True of the scenarios, not of all of them*: `NoSkip`, `RecoveryHoldsBack` and
  `DeleteArchived`, which need the limits on truncation of section 3, and
  `CommittedArchived`, which depends on the faults that coincide. The six of `storage`
  and `NeverOutOfOrder` are claimed of every history with their exceptions; the runs
  check them on the combinations of faults that section 3 lists.
* *Induction over data*: `SameRecords` and `AckedOnce` (folds over a flush's calls),
  `ChargedOnce` (sums of sizes), `NeverOutOfOrder` (the queues of two lines), and the
  other five of `storage` (lists of file operations and what a crash leaves of them).

## 6. Findings

Each of the first three is a run with `expect: violation`.

* `replication_acked` / `KeepsAcknowledged`. `lease_agent.rs` reads the history it
  sends with a fence after the candidate has adopted its own new epoch. The history
  of a candidate that only lags then ends in (new epoch, its shorter tail), which a
  replica that is ahead takes for a divergence: it truncates, and votes with the
  shortened log. `promotion.rs` says that such a replica "still answers with its full
  offset and refuses the candidate here".
* `archive_replay_regrown` / `ReplayOnlySameContent`. `replay_from_marker` compares
  lengths only, so a failed range of truncated content rewinds into its successor
  once that has grown as long.
* `kafka_split_line` / `OneLine`. A finished append removes the producer's entry from
  the order map when its own turnstile is idle, whichever turnstile the entry now is.
  Of four sets that outlive their deadlines, the last two can queue in two different
  lines, and append in either order.

Met while modelling; where a property or a scenario leaves the case out, it is said.

*Archive engine and sources*

* A restart seeds a cursor from the row of a deleted file, whose inode number may belong
  to a new file by then. `delete_after_commit` drops the cursor for that reason
  (`file_source.rs`, "must not outlive it"), but not what a restart seeds it from.
* A commit of a VERIFIED row that recovery makes can move the group's Kafka offset back
  (its own mark had failed, and a later range had been committed and marked). Nothing is lost: the range
  between is read again, and `CommittedArchived` holds throughout.
* A Kafka partition assigned at the stored offset whose fetcher never started is retried
  only after a pass that delivered nothing. A topic that is never quiet keeps the
  assignment, and that partition unread. The scenarios have finitely many records.
* An object that is lost after its verification is not always replaced. A VERIFIED row
  whose commit mark failed is marked for replay below the committed point once a later
  range was committed; the rewind is clamped there and the range is not read again. And
  of two ranges read before a crash, the first VERIFIED with its mark unwritten and its
  object lost while the engine is down, recovery may fail to persist its decision to
  replay: it then leaves the range out of the rewinds ("never rewind on a decision the
  ledger did not record", `engine.rs`), rewinds to the second, and goes on past the
  first. This is why `NoSkip` and `EventuallyArchived` say that a byte has been
  *verified in the archive once*, and neither says that its object is still there.
  `archive_safety` has every three faults together.
* `delete_after_commit` compares the path with what the commit saw, looks a second time
  and removes the path, in three system calls. What is appended after the second look, or
  a content that replaces the file after the first, is removed unread. `DeleteArchived`
  excepts exactly these bytes.
* REPLAY_REQUIRED rows of content that is gone are never retired; they are examined
  at each restart.
* `state_machine.rs` documents "ANY_STATE -> FAILED"; the predicate refuses it from SOURCE_COMMITTED.

*Metadata voter*

* An install publishes the snapshot, then saves the frontier, then the sidecar. A crash
  in between leaves a sidecar of the state before, and `recover_membership` takes the
  sidecar first, although the comment of the install says that the id in the header is
  what survives that crash.
* The Raft library may purge before the install it belongs to has finished, as the
  comment in `log_store.rs` says. A crash between the two leaves a purged frontier above
  both the log and the state: `get_log_state` then names an entry the node does not
  have, and the next append is refused. `NoHole` excepts this case (`overtaken`).
* `get_current_snapshot` sends the leader's current membership id with a snapshot that
  may be older, so a follower's stored id can be newer than its snapshot's content.
* `apply_through` saves the frontier before the sidecar; a crash in between leaves the
  id of the membership before.

*Replication and the produce path*

* `fence` adopts an epoch and reconciles in separate critical sections, and does not look
  at the epoch again. A handler overtaken by a newer epoch can cut the log after the
  newer vote was given, although the comment there says "nothing can append between
  the comparison and the truncation". `VoteStands` excepts those replicas
  (`overtaken`). The same window is why a promotion needs the drain it assumes.
* The truncation itself is three steps with no lock across them: the watermark is
  compared, the log is cut, the epoch journal is cut. A watermark learned between the
  first two is then above the tail; a record or an epoch taken between the last two is
  attributed to the wrong epoch or loses its entry. `HistoryTrue` excepts the replicas to
  which this happened (`raced`); a crash between the steps it does not except.
* A promotion drains the calls in progress on its replica by suspending the metadata view
  (`data_node.rs`, "THE DRAIN"): "every such call holds the shared meta view's lock from
  fence check through write". A fence handler does not hold it through its truncation. The
  model takes the drain to be complete (`Drained`).
* A replica that missed a fence may adopt the new epoch from the metadata view with
  its old tail, and then acknowledges appends by coverage. The comment in `fence`
  describes this gap. No property claims that an acknowledging replica holds the
  leader's own record.
* A record of an old epoch that is retried under a new one is attributed to the new
  epoch by a replica that lacked it; `HistoryTrue` is stated for ranges without such
  retries, and the other properties are checked with them.
* A producer that sends a record, hears nothing, and sends it again *together with a
  later one* gets a retry whose records are duplicates that need not be adjacent in the
  leader's log: another producer's record may lie between. `flush_produce_group` gives
  the request the lowest of their offsets, and a follower whose tail is there stores the
  second record one offset early. `SameRecords` is checked with producers that retry a
  request as it was; with two requests that overlap in this way TLC finds the divergence
  in fifteen states.
* A record and its duplicate in one commit group are sent to followers as two requests;
  `apply_append_batch` refuses the second after the first was buffered, and the
  session starts over.
* The lease is checked again for every member of a group, those that were turned away
  before the append included, so one stale member makes the whole replicated group
  answer Fenced and leaves the watermark where it was. One member's sequence conflict
  fails every member of its group.
* The leader of a commit group returns to its own caller only when the queue is empty.
* A fresh session sends the mark before what it retransmits, and a follower caps a mark
  at its own tail. On a range that stays quiet it keeps the lower mark, which the comment
  there ("would otherwise sit on a stale high-water mark") sets out to prevent. Two
  flushes may also publish their marks in the opposite order, and a connection that broke
  while idle loses one. No property is about the follower's mark.
* Without a pool of its own, a replica set's catch-up budget is at most its inflight
  window, and a batch that does not fit is not kept: the buffer then holds the oldest
  batches, where `FlowControlConfig` says "recently sent". A batch whose write fails, or
  that meets a full window, is dropped and leaves a gap until the follower is asked
  where it is. `CaughtUp` is claimed where everything fits and no write fails (`Roomy`);
  `ChargedOnce` is checked with both.
* The comment above `drain_retransmission_to_pending`'s call says that the catch-up
  charge is released and re-taken; the function transfers it, as its own comment says.
* While a fetch session is paused for want of window, a produce or fetch on it is
  refused until a WindowUpdate; `ServerConfig::validate` does not ask for a window that
  holds one frame. Fetch sessions are not modelled.
* `publish_boundary_marker` is called by the lease agent's driver
  (`publish_pending_boundary`, retried until a quorum holds the marker). The marker
  scenario of `broker` has the call; the driver's retries and the gate it opens
  (`set_boundary_pending`) are not modelled.

*Metadata state machine*

* `commit_group_cursor` looks at neither the seal of a split nor the state of a
  segment: a cursor may be committed past a barrier after the split, and a head cursor
  may go back below a segment planned for deletion. `SplitsExact` is therefore about
  segments, and `DeletionBacked` says nothing of cursors.
* A cursor pinned under an earlier generation of its segment cannot move within it any
  more; it has to be unpinned first.
* A replacement proof is consumed only by a retirement. One whose destination is not
  placed, or whose source died while the lease moved to a new epoch, blocks rebalance
  and retention of its segment for good.
* A node declared dead keeps its leases until they lapse or are re-granted; changing a
  replica set drops a live lease.

*Segment log*

* `retain` sums `reader.manifest().content_bytes`, and `manifest()` panics on a segment
  of the second format, although the doc of `content_bytes` says that retention "must
  not care which manifest recorded it". `RetainPanics` is that call.
* A kill between the rename of a `.commit` file and the sync of its directory leaves a
  boundary that the next open trusts and never syncs; a power loss after that can take
  back records acknowledged meanwhile. The same is true of whatever else a killed process
  had not come to sync, and of a metadata voter's files: a vote written and not synced is
  read by the next process, which may answer by it, and is gone after a power loss. The
  runs explore a kill and then a power loss; the properties of both stores except
  histories in which an open relied on unsynced operations that a power loss then took
  (`lost` in `SegmentSet`, `rleft.lost` in `MetaStore`).

*Kafka gateway*

* The bridge remembers one missing sequence of a producer, the first. The comment on
  `ProducerGaps` says that a later set arriving before the retry is "told to try again"
  and not that it is out of order, and this holds of a set that failed. It does not hold
  past a set that was turned away and is remembered nowhere: one whose deadline passed
  before its partition was reached (`gateway.rs`, a request for several topics), one held
  behind another set's gap (sets 2, 1, 3 in flight: 2 is held, 1 lands and clears the
  gap, 3 meets the log before 2 is sent again), one refused as out of order itself, and
  one whose gap was evicted or overwritten by an earlier set's. `exposed` collects exactly
  these, and `NeverOutOfOrder` says that the missing set is one of them. A client that
  retries an out-of-order answer to a set that is not its oldest recovers; one that takes
  the code as fatal does not.
* An attempt that fails retryably after another attempt at the same set landed and was
  answered (a request of a dropped connection that is read late) leaves a gap that no
  retry fills: the producer's later sets are held back until it is evicted.
  `EventuallyAcked` excepts this case (`orphan`); it is reached only with a dropped
  connection.
* A commit for a partition the coordinator does not lead is fenced by the lease of the
  coordinator's own range (`CommitGroupCursorCoordinated`). `KafkaCommits` reads "the
  lease" as whichever of the two fences the group's commits, and takes it to be one:
  a group whose coordinator moves to a node that leads another range, so that two leases
  fence one cursor, is outside, and so is a split of the partition (its lineage is fixed
  in a behaviour, though what a gateway remembers of it may be wrong).
* A follower parked in a sync that is released because its leader left keeps its old
  `last_seen`, and the next sweep removes it, although `begin_round` says a parked
  sync it never hears back on "would lapse healthy at its session timeout".
* A gateway that loses the lease of a group and regains it keeps the group it had in
  memory. A refused join leaves an empty group until the next sweep.

## 7. Not modelled

`PROJECT.json` lists every component with its status and the reason. The map covers
about 17,500 source lines, which is 12 % of the lines under `src/` and 18 % of those
outside tests. The rest is, by kind:

* *tests, fuzz targets and benchmarks inside the crates*, about a third of all lines;
* *data*: codecs of the Kafka and native protocols, segment and manifest formats, hash
  chains and proofs, compression, partitioning. They compute values and keep no state;
* *wiring*: configuration, start-up, TLS, HTTP status, metrics, logging, command-line
  tools. They keep no state the properties tell apart;
* *a library*: the consensus algorithm (openraft), which `MetaStore` meets only through
  the calls of its storage adapter;
* *state machines that are not modelled yet*: section 8.

A definition stands for the lines it abstracts and no others, so a codec beside a
handler is not counted because the handler is modelled.

## 8. Plan

In this order, each with the hazards `PROJECT.json` lists for it:

1. **Replica sets end to end**: `SetRangeReplicaSet` composed with `Replication`, where
   an established promotion is the evidence for the next change; `Replication` shown
   to use no more of the metadata plane than `RangeLease`.
2. **Fetch sessions and the follower's mark**: the windows and pauses of a session, and
   a mark that ends where the leader's does.
3. Smaller machines: multipart upload, segment transfer, proposals and fenced reads of
   the metadata client, remote and dual ranges of the gateway, lease agent timing, the
   nested ceilings of the memory budget.

Proofs planned: `KeepsAcknowledged` for promotions whose history is read before the
candidate's own adoption, on top of `SealInv` and `HistoryInv`; `ChargedOnce` of
`ReplicaStream` and `SameRecords` of `Broker`, once their folds are written as functions
an induction can be carried out on; `Broker`'s followers shown to be those of
`Replication`.
